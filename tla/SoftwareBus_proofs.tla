------------------------- MODULE SoftwareBus_proofs -------------------------
(***************************************************************************)
(* Proofs about the Software Bus, for any number of applications, tasks,   *)
(* pipes, messages and buffers and whatever calls the tasks make.          *)
(*                                                                         *)
(* First, that its variables keep their types, and that slots, OSAL queues *)
(* and subscriptions stay in step with each other through every            *)
(* interleaving of the brackets of CreatePipe, DeletePipe, Subscribe and   *)
(* the clean-up.  Then, when an application is quiet before it is cleaned  *)
(* up and no two tasks receive on one pipe, that the use count of a buffer *)
(* is the number of its holders, that a received buffer stays as it is and *)
(* that a clean-up leaves nothing behind.                                  *)
(***************************************************************************)
EXTENDS SoftwareBusProps, FiniteSetTheorems, WellFoundedInduction, TLAPS

(* A nonempty set of numbers has a least element.                           *)
LEMMA LeastNumber ==
  ASSUME NEW S, S \subseteq Nat, S # {}
  PROVE  \E k \in S : \A j \in S : k <= j
<1>1. PICK k \in S : \A j \in S : ~ (<<j, k>> \in OpToRel(<, Nat))
  BY Zenon, NatLessThanWellFounded, WFMin
<1>2. \A j \in S : ~ (j < k)
  BY <1>1 DEF OpToRel
<1> QED BY <1>2

(* Far from the wrap, CFE_ResourceId_FindNext returns a serial above the    *)
(* last one whose slot is not in use.                                       *)
LEMMA FindNextFresh ==
  ASSUME NEW start \in PipeIds, start + MAX_PIPES < SerialMax, NEW used,
         NEW pid, pid = FindNext(start, MAX_PIPES, SerialMax, used, FREE),
         pid # FREE
  PROVE  pid \in PipeIds /\ pid > start /\ Slot(pid) \notin used
<1> DEFINE open == {k \in 1..MAX_PIPES :
                      ToIndex(Candidate(start, k, MAX_PIPES, SerialMax),
                              MAX_PIPES) \notin used}
           k == CHOOSE k \in open : \A j \in open : k <= j
<1>1. open # {} /\ pid = Candidate(start, k, MAX_PIPES, SerialMax)
  BY DEF FindNext
<1>2. open \subseteq Nat
  OBVIOUS
<1>3. k \in open
  BY <1>1, <1>2, LeastNumber
<1>4. k \in 1..MAX_PIPES
     /\ ToIndex(Candidate(start, k, MAX_PIPES, SerialMax), MAX_PIPES) \notin used
  BY <1>3
<1> HIDE DEF k, open
<1>5. MAX_PIPES \in Nat /\ SerialMax \in Nat /\ start \in Nat
  BY SizesAssumption DEF PipeIds
<1>6. start + k < SerialMax
  BY <1>4, <1>5
<1>7. pid = start + k
  BY <1>1, <1>6 DEF Candidate
<1> QED BY <1>1, <1>4, <1>5, <1>6, <1>7 DEF PipeIds, Slot

LEMMA SlotInRange ==
  ASSUME NEW pid \in PipeIds
  PROVE  Slot(pid) \in Slots
  BY SizesAssumption DEF Slot, ToIndex, Slots, PipeIds

-----------------------------------------------------------------------------
(* Type correctness.  The locals of a task are what its program counter     *)
(* promises: a pipe ID where a pipe is worked on, a buffer where one is in  *)
(* hand, a message ID where one is sent.                                    *)
OnPipeId == {"cr_queue", "cr_end", "del_drain", "del_queue", "del_end",
             "rcv_get", "rcv_end", "by_name"}
Promise(r) ==
    /\ r.pc \in OnPipeId => r.pid \in PipeIds
    /\ r.pc \in {"tx_cast", "zc_check", "zc_cast", "rel"} => r.buf \in Buffers
    /\ r.pc \in {"tx_alloc", "tx_cast", "zc_cast"} => r.msg \in Msgs
    /\ r.pc = "zc_check" /\ r.res = "ok" => r.msg \in Msgs
    /\ r.pc = "rcv_end" /\ r.res = "ok" => r.buf \in Buffers
Locals == \A t \in Actors : Promise(loc[t])

Typed == TypeOK /\ Locals

LEMMA IdleTyped == Idle \in LocRecord
  BY DEF Idle, LocRecord, PCs, Results

LEMMA CallerTyped ==
  ASSUME NEW t \in Tasks
  PROVE  Caller(t) \in Apps \cup {NoApp}
  BY NamesAssumption DEF Caller

LEMMA DescTyped ==
  /\ FreeDesc \in DescRecord /\ FreshDesc \in DescRecord
  /\ \A d \in DescRecord : Decr(d) \in DescRecord /\ Launched(d) \in DescRecord
  /\ \A d \in DescRecord, n \in Nat : Incr(d, n) \in DescRecord
<1>1. FreeDesc \in DescRecord /\ FreshDesc \in DescRecord
  BY DEF FreeDesc, FreshDesc, DescRecord, Lists
<1>2. ASSUME NEW d \in DescRecord
      PROVE  Decr(d) \in DescRecord /\ Launched(d) \in DescRecord
  <2>1. d.use \in Nat
    BY DEF DescRecord
  <2>2. Decr(d) \in DescRecord
    BY <1>1, <2>1 DEF Decr, DescRecord
  <2>3. Launched(d) \in DescRecord
    BY DEF Launched, DescRecord, Lists
  <2> QED BY <2>2, <2>3
<1>3. ASSUME NEW d \in DescRecord, NEW n \in Nat
      PROVE  Incr(d, n) \in DescRecord
  BY SizesAssumption DEF Incr, DescRecord
<1> QED BY <1>1, <1>2, <1>3

LEMMA SetDescTyped ==
  ASSUME TypeOK, NEW nd \in [Buffers -> DescRecord], SetDesc(nd)
  PROVE  /\ desc' \in [Buffers -> DescRecord]
         /\ stat' \in [pipes : Int, subs : Int, bufs : Int]
<1>1. Cardinality(Freed(nd)) \in Nat
  <2>1. Freed(nd) \subseteq Buffers /\ IsFiniteSet(Buffers)
    BY SizesAssumption DEF Freed
  <2> QED BY <2>1, FS_Subset, FS_CardinalityType
<1>2. stat \in [pipes : Int, subs : Int, bufs : Int]
  BY DEF TypeOK
<1> QED BY <1>1, <1>2 DEF SetDesc

LEMMA DecrUseTyped ==
  ASSUME TypeOK, NEW b, DecrUse(b)
  PROVE  /\ desc' \in [Buffers -> DescRecord]
         /\ stat' \in [pipes : Int, subs : Int, bufs : Int]
<1>1. desc \in [Buffers -> DescRecord]
  BY DEF TypeOK
<1>2. [desc EXCEPT ![b] = Decr(@)] \in [Buffers -> DescRecord]
  BY <1>1, DescTyped
<1> QED BY <1>2, SetDescTyped DEF DecrUse

LEMMA CountTyped ==
  ASSUME TypeOK, NEW n \in [Counters -> Nat], Count(n)
  PROVE  hk' \in [Counters -> Nat]
<1>1. \A c \in Counters : (hk[c] + n[c]) % CounterMod[c] \in Nat
  <2> TAKE c \in Counters
  <2>1. hk[c] \in Nat /\ n[c] \in Nat /\ CounterMod[c] \in Nat \ {0}
    BY EnvironmentAssumption DEF TypeOK
  <2> QED BY <2>1
<1> QED BY <1>1 DEF Count

LEMMA OneTyped ==
  ASSUME TypeOK, NEW c, Count(One(c))
  PROVE  hk' \in [Counters -> Nat]
<1>1. One(c) \in [Counters -> Nat]
  BY DEF One
<1> QED BY <1>1, CountTyped

(* What a task goes on with keeps the type of loc and the promises of the   *)
(* program counters.                                                        *)
LEMMA GotoTyped ==
  ASSUME Typed, NEW t \in Actors, NEW r \in LocRecord, Promise(r), Goto(t, r)
  PROVE  loc' \in [Actors -> LocRecord] /\ Locals'
<1>1. loc \in [Actors -> LocRecord] /\ loc' = [loc EXCEPT ![t] = r]
  BY DEF Typed, TypeOK, Goto
<1>2. \A u \in Actors : Promise(loc[u]) /\ loc'[u] = IF u = t THEN r ELSE loc[u]
  BY <1>1 DEF Typed, Locals
<1>3. \A u \in Actors : Promise(loc'[u])
  BY <1>2
<1>4. Locals'
  BY <1>3 DEF Locals, Promise
<1> QED BY <1>1, <1>4

LEMMA FinishTyped ==
  ASSUME Typed, NEW t \in Actors, Finish(t)
  PROVE  loc' \in [Actors -> LocRecord] /\ Locals'
<1> DEFINE r == IF t = Cleaner
                  THEN [Idle EXCEPT !.pc = "cl_next", !.app = loc[t].app]
                  ELSE Idle
<1>1. loc \in [Actors -> LocRecord] /\ Idle \in LocRecord
  BY IdleTyped DEF Typed, TypeOK
<1>2. r \in LocRecord
  BY <1>1 DEF LocRecord, PCs
<1>3. r.pc \in {"idle", "cl_next"}
  BY <1>1 DEF Idle, LocRecord
<1>4. Promise(r)
  <2> HIDE DEF r
  <2> QED BY <1>3 DEF Promise, OnPipeId
<1> QED BY <1>2, <1>4, GotoTyped DEF Finish

LEMMA SameLocTyped ==
  ASSUME Typed, UNCHANGED loc
  PROVE  loc' \in [Actors -> LocRecord] /\ Locals'
  BY DEF Typed, TypeOK, Locals, Promise

-----------------------------------------------------------------------------
LEMMA InitTyped == Init => Typed
<1> SUFFICES ASSUME Init PROVE Typed
  OBVIOUS
<1>1. loc = [t \in Actors |-> Idle] /\ Idle \in LocRecord /\ Idle.pc = "idle"
  BY IdleTyped DEF Init, Idle
<1>2. Locals
  BY <1>1 DEF Locals, Promise, OnPipeId
<1>3. ClearPipe \in PipeRecord /\ NoDest \in DestRecord /\ FreeDesc \in DescRecord
  BY DescTyped DEF ClearPipe, PipeRecord, NoDest, DestRecord
<1>4. lastPipeId \in PipeIds
  BY SizesAssumption DEF Init, PipeIds
<1>5. queue \in [PipeIds -> Seq(Buffers)] /\ qcap \in [PipeIds -> Nat]
  BY DEF Init
<1>6. /\ dst \in [Msgs -> [PipeIds -> DestRecord]]
      /\ desc \in [Buffers -> DescRecord] /\ pipe \in [Slots -> PipeRecord]
  BY <1>3 DEF Init
<1>7. /\ stat \in [pipes : Int, subs : Int, bufs : Int]
      /\ hk \in [Counters -> Nat] /\ loc \in [Actors -> LocRecord]
  BY <1>1 DEF Init
<1>8. /\ pipeId \in [Slots -> PipeIds \cup {FREE, RESERVED}]
      /\ hold \in [Tasks -> Buffers \cup {NoBuf}]
      /\ appState \in [Apps -> AppStates] /\ todo \subseteq PipeIds
      /\ routes \subseteq Msgs /\ subs \in [Msgs -> SUBSET PipeIds]
  BY DEF Init, AppStates
<1> QED BY <1>2, <1>4, <1>5, <1>6, <1>7, <1>8 DEF Typed, TypeOK

LEMMA CreateTyped ==
  ASSUME Typed, NEW t \in Tasks,
         CreatePipeBegin(t) \/ CreatePipeQueue(t) \/ CreatePipeEnd(t)
  PROVE  Typed'
<1>0. TypeOK /\ Locals /\ t \in Actors
  BY DEF Typed, Actors
<1>1. CASE CreatePipeBegin(t)
  <2>1. PICK depth \in Depths :
         LET pid == FindNext(lastPipeId, MAX_PIPES, SerialMax,
                         {s \in Slots : SlotUsed(s)}, FREE)
             bad == depth = 0 \/ depth > MAX_DEPTH \/ pid = FREE
         IN  \/ /\ bad
                /\ Count(One("CreatePipe"))
                /\ UNCHANGED <<tables, loc>>
             \/ /\ ~bad
                /\ pipeId' = [pipeId EXCEPT ![Slot(pid)] = RESERVED]
                /\ pipe' = [pipe EXCEPT ![Slot(pid)] = ClearPipe]
                /\ lastPipeId' = pid
                /\ Goto(t, [Idle EXCEPT !.pc = "cr_queue", !.pid = pid,
                                        !.app = Caller(t), !.n = depth])
                /\ UNCHANGED hk
    BY Zenon, <1>1 DEF CreatePipeBegin
  <2>2. /\ UNCHANGED <<queues, routing, desc, stat, apps>>
        /\ lastPipeId + MAX_PIPES < SerialMax
    BY Zenon, <1>1 DEF CreatePipeBegin
  <2> DEFINE pid == FindNext(lastPipeId, MAX_PIPES, SerialMax,
                             {s \in Slots : SlotUsed(s)}, FREE)
  <2>3. CASE Count(One("CreatePipe")) /\ UNCHANGED <<tables, loc>>
    <3>1. hk' \in [Counters -> Nat]
      BY <1>0, <2>3, OneTyped
    <3>2. loc' \in [Actors -> LocRecord] /\ Locals'
      BY <2>3, SameLocTyped
    <3> QED BY <1>0, <2>2, <2>3, <3>1, <3>2
          DEF Typed, TypeOK, tables, queues, routing, apps
  <2>4. CASE /\ pid # FREE
             /\ pipeId' = [pipeId EXCEPT ![Slot(pid)] = RESERVED]
             /\ pipe' = [pipe EXCEPT ![Slot(pid)] = ClearPipe]
             /\ lastPipeId' = pid
             /\ Goto(t, [Idle EXCEPT !.pc = "cr_queue", !.pid = pid,
                                     !.app = Caller(t), !.n = depth])
             /\ UNCHANGED hk
    <3> DEFINE r == [Idle EXCEPT !.pc = "cr_queue", !.pid = pid,
                                 !.app = Caller(t), !.n = depth]
    <3>1. pid \in PipeIds
      BY <1>0, <2>2, <2>4, FindNextFresh DEF TypeOK
    <3> HIDE DEF pid
    <3>2. depth \in Nat
      BY EnvironmentAssumption
    <3>3. r \in LocRecord /\ r.pc = "cr_queue" /\ r.pid = pid
      BY <3>1, <3>2, CallerTyped, IdleTyped DEF LocRecord, PCs, Idle
    <3> HIDE DEF r
    <3>4. Promise(r)
      BY <3>1, <3>3 DEF Promise
    <3>5. loc' \in [Actors -> LocRecord] /\ Locals'
      BY <1>0, <2>4, <3>3, <3>4, GotoTyped DEF r
    <3>6. ClearPipe \in PipeRecord
      BY DEF ClearPipe, PipeRecord
    <3> QED BY <1>0, <2>2, <2>4, <3>1, <3>5, <3>6
          DEF Typed, TypeOK, queues, routing, apps
  <2> HIDE DEF pid
  <2> QED BY <2>1, <2>3, <2>4 DEF pid
<1>2. CASE CreatePipeQueue(t)
  <2> DEFINE r(res) == [loc[t] EXCEPT !.pc = "cr_end", !.res = res]
  <2>1. loc[t] \in LocRecord /\ Promise(loc[t]) /\ loc[t].pc = "cr_queue"
    BY <1>0, <1>2 DEF TypeOK, Locals, CreatePipeQueue
  <2>2. loc[t].pid \in PipeIds /\ loc[t].n \in Nat
    BY <2>1 DEF Promise, OnPipeId, LocRecord
  <2>3. \A res \in {"ok", "error"} :
           r(res) \in LocRecord /\ r(res).pc = "cr_end" /\ r(res).pid = loc[t].pid
    BY <2>1 DEF LocRecord, PCs, Results
  <2>4. \E res \in {"ok", "error"} : Goto(t, r(res))
    BY <1>2 DEF CreatePipeQueue
  <2> HIDE DEF r
  <2>5. \A res \in {"ok", "error"} : Promise(r(res))
    BY <2>2, <2>3 DEF Promise
  <2>6. loc' \in [Actors -> LocRecord] /\ Locals'
    BY <1>0, <2>3, <2>4, <2>5, GotoTyped
  <2>7. queue' \in [PipeIds -> Seq(Buffers)] /\ qcap' \in [PipeIds -> Nat]
    <3>1. queue \in [PipeIds -> Seq(Buffers)] /\ qcap \in [PipeIds -> Nat]
      BY <1>0 DEF TypeOK
    <3>2. CASE /\ queue' = [queue EXCEPT ![loc[t].pid] = <<>>]
               /\ qcap' = [qcap EXCEPT ![loc[t].pid] = loc[t].n]
      <4>1. <<>> \in Seq(Buffers)
        OBVIOUS
      <4>2. queue' \in [PipeIds -> Seq(Buffers)]
        BY <3>1, <3>2, <4>1
      <4>3. qcap' \in [PipeIds -> Nat]
        BY <2>2, <3>1, <3>2
      <4> QED BY <4>2, <4>3
    <3>3. CASE UNCHANGED queues
      BY <3>1, <3>3 DEF queues
    <3> QED BY <1>2, <3>2, <3>3 DEF CreatePipeQueue
  <2> QED BY <1>0, <1>2, <2>6, <2>7
        DEF Typed, TypeOK, CreatePipeQueue, tables, routing, apps
<1>3. CASE CreatePipeEnd(t)
  <2>1. loc[t] \in LocRecord /\ Promise(loc[t]) /\ loc[t].pc = "cr_end"
    BY <1>0, <1>3 DEF TypeOK, Locals, CreatePipeEnd
  <2>2. /\ loc[t].pid \in PipeIds /\ loc[t].n \in Nat
        /\ loc[t].app \in Apps \cup {NoApp} /\ Slot(loc[t].pid) \in Slots
    BY <2>1, SlotInRange DEF Promise, OnPipeId, LocRecord
  <2>3. loc' \in [Actors -> LocRecord] /\ Locals'
    BY <1>0, <1>3, FinishTyped DEF CreatePipeEnd
  <2>4. /\ pipeId' \in [Slots -> PipeIds \cup {FREE, RESERVED}]
        /\ stat' \in [pipes : Int, subs : Int, bufs : Int]
    <3>1. /\ pipeId \in [Slots -> PipeIds \cup {FREE, RESERVED}]
          /\ stat \in [pipes : Int, subs : Int, bufs : Int]
      BY <1>0 DEF TypeOK
    <3>2. \E v \in PipeIds \cup {FREE} :
             pipeId' = [pipeId EXCEPT ![Slot(loc[t].pid)] = v]
      BY <1>3, <2>2 DEF CreatePipeEnd
    <3>3. stat' = [stat EXCEPT !.pipes = @ + 1] \/ stat' = stat
      BY <1>3 DEF CreatePipeEnd
    <3>4. pipeId' \in [Slots -> PipeIds \cup {FREE, RESERVED}]
      BY <3>1, <3>2
    <3>5. stat' \in [pipes : Int, subs : Int, bufs : Int]
      BY <3>1, <3>3
    <3> QED BY <3>4, <3>5
  <2>5. pipe' \in [Slots -> PipeRecord]
    <3>1. pipe \in [Slots -> PipeRecord]
      BY <1>0 DEF TypeOK
    <3>2. \A p \in PipeRecord :
             [p EXCEPT !.queue = loc[t].pid, !.max = loc[t].n, !.app = loc[t].app]
                \in PipeRecord
      BY <2>2 DEF PipeRecord
    <3>3. \/ pipe' = [pipe EXCEPT ![Slot(loc[t].pid)] =
                        [@ EXCEPT !.queue = loc[t].pid, !.max = loc[t].n,
                                  !.app = loc[t].app]]
          \/ pipe' = pipe
      BY <1>3, <2>2, <3>1 DEF CreatePipeEnd
    <3> QED BY Zenon, <2>2, <3>1, <3>2, <3>3
  <2>6. hk' \in [Counters -> Nat]
    <3>1. UNCHANGED hk \/ Count(One("CreatePipe"))
      BY <1>3 DEF CreatePipeEnd
    <3> QED BY <1>0, <3>1, OneTyped DEF TypeOK
  <2> QED BY <1>0, <1>3, <2>3, <2>4, <2>5, <2>6
        DEF Typed, TypeOK, CreatePipeEnd, queues, routing, apps
<1> QED BY <1>1, <1>2, <1>3

LEMMA DeletePipeFullTyped ==
  ASSUME Typed, NEW t \in Actors, NEW pid \in PipeIds,
         NEW app \in Apps \cup {NoApp}, DeletePipeFull(t, pid, app),
         UNCHANGED <<hold, appState>>, todo' \subseteq PipeIds
  PROVE  Typed'
<1>0. TypeOK /\ Locals /\ Slot(pid) \in Slots
  BY SlotInRange DEF Typed
<1>1. UNCHANGED <<pipe, lastPipeId, queues, routes, desc>>
  BY DEF DeletePipeFull
<1>2. CASE Count(One("CreatePipe")) /\ Finish(t)
           /\ UNCHANGED <<pipeId, subs, dst, stat>>
  <2>1. loc' \in [Actors -> LocRecord] /\ Locals'
    BY <1>2, FinishTyped
  <2>2. hk' \in [Counters -> Nat]
    BY <1>0, <1>2, OneTyped
  <2> QED BY <1>0, <1>1, <1>2, <2>1, <2>2 DEF Typed, TypeOK, queues
<1> DEFINE from == {m \in routes : pid \in subs[m]}
           r == [Idle EXCEPT !.pc = "del_drain", !.pid = pid,
                             !.buf = pipe[Slot(pid)].last, !.app = app]
<1>3. CASE /\ subs' = [m \in Msgs |-> IF m \in from THEN subs[m] \ {pid}
                                                    ELSE subs[m]]
           /\ dst' = [m \in Msgs |-> IF m \in from
                                       THEN [dst[m] EXCEPT ![pid] = NoDest]
                                       ELSE dst[m]]
           /\ stat' = [stat EXCEPT !.subs = @ - Cardinality(from)]
           /\ pipeId' = [pipeId EXCEPT ![Slot(pid)] = RESERVED]
           /\ Goto(t, r)
           /\ UNCHANGED hk
  <2>1. subs' \in [Msgs -> SUBSET PipeIds]
    BY <1>0, <1>3 DEF TypeOK
  <2>2. dst' \in [Msgs -> [PipeIds -> DestRecord]]
    <3>1. NoDest \in DestRecord
      BY DEF NoDest, DestRecord
    <3>2. dst \in [Msgs -> [PipeIds -> DestRecord]]
      BY <1>0 DEF TypeOK
    <3>3. \A m \in Msgs : [dst[m] EXCEPT ![pid] = NoDest] \in [PipeIds -> DestRecord]
      BY <3>1, <3>2
    <3> QED BY <1>3, <3>2, <3>3
  <2>3. stat' \in [pipes : Int, subs : Int, bufs : Int]
    <3>1. Cardinality(from) \in Nat
      <4>1. from \subseteq Msgs
        BY <1>0 DEF TypeOK
      <4> QED BY <4>1, SizesAssumption, FS_Subset, FS_CardinalityType
    <3> HIDE DEF from
    <3>2. stat \in [pipes : Int, subs : Int, bufs : Int]
      BY <1>0 DEF TypeOK
    <3> QED BY <1>3, <3>1, <3>2
  <2>4. loc' \in [Actors -> LocRecord] /\ Locals'
    <3>1. pipe[Slot(pid)] \in PipeRecord
      BY <1>0 DEF TypeOK
    <3>2. pipe[Slot(pid)].last \in Buffers \cup {NoBuf}
      BY <3>1 DEF PipeRecord
    <3>3. r \in LocRecord /\ r.pc = "del_drain" /\ r.pid = pid
      BY <3>2, IdleTyped DEF LocRecord, PCs, Idle
    <3> HIDE DEF r
    <3>4. Promise(r)
      BY <3>3 DEF Promise
    <3> QED BY <1>3, <3>3, <3>4, GotoTyped
  <2>5. pipeId' \in [Slots -> PipeIds \cup {FREE, RESERVED}]
    BY <1>0, <1>3 DEF TypeOK
  <2> HIDE DEF from, r
  <2> QED BY <1>0, <1>1, <1>3, <2>1, <2>2, <2>3, <2>4, <2>5
        DEF Typed, TypeOK, queues
<1> QED BY <1>2, <1>3 DEF DeletePipeFull

LEMMA IssuedIds ==
  ASSUME Typed
  PROVE  Issued \subseteq PipeIds
<1>1. lastPipeId \in PipeIds /\ SerialMax \in Nat
  BY SizesAssumption DEF Typed, TypeOK
<1> QED BY <1>1 DEF Issued, PipeIds

LEMMA DeletePipeTyped ==
  ASSUME Typed, NEW t \in Tasks, DeletePipe(t)
  PROVE  Typed'
<1>1. PICK pid \in Issued : DeletePipeFull(t, pid, Caller(t))
  BY DEF DeletePipe
<1>2. pid \in PipeIds /\ t \in Actors
  BY IssuedIds DEF Actors
<1>3. UNCHANGED <<hold, appState>> /\ todo' \subseteq PipeIds
  BY DEF DeletePipe, apps, Typed, TypeOK
<1> QED BY <1>1, <1>2, <1>3, CallerTyped, DeletePipeFullTyped

LEMMA HeadTailTyped ==
  ASSUME NEW q \in Seq(Buffers), q # <<>>
  PROVE  Head(q) \in Buffers /\ Tail(q) \in Seq(Buffers)
  OBVIOUS

LEMMA DeleteStepTyped ==
  ASSUME Typed, NEW t \in Actors, DeleteStep(t)
  PROVE  Typed'
<1>0. TypeOK /\ Locals /\ loc[t] \in LocRecord /\ Promise(loc[t])
  BY DEF Typed, TypeOK, Locals
<1>1. /\ loc[t].pc \in {"del_drain", "del_queue", "del_end"}
      /\ loc[t].pid \in PipeIds /\ Slot(loc[t].pid) \in Slots
  <2>1. loc[t].pc \in {"del_drain", "del_queue", "del_end"}
    BY DEF DeleteStep, DeletePipeDrain, DeletePipeQueue, DeletePipeEnd
  <2> QED BY <1>0, <2>1, SlotInRange DEF Promise, OnPipeId
<1>2. CASE DeletePipeDrain(t)
  <2> DEFINE pid == loc[t].pid
             r(b) == [loc[t] EXCEPT !.buf = b]
             left == [loc[t] EXCEPT !.pc = "del_queue"]
  <2>0. loc[t].pc = "del_drain" /\ UNCHANGED <<tables, qcap, routing, hk, apps>>
    BY <1>2 DEF DeletePipeDrain
  <2>1. \A b \in Buffers \cup {NoBuf} : r(b) \in LocRecord /\ Promise(r(b))
    BY <1>0, <1>1, <2>0 DEF LocRecord, Promise
  <2>2. left \in LocRecord /\ Promise(left)
    BY <1>0, <1>1, <2>0 DEF LocRecord, PCs, Promise
  <2>3. CASE DecrUse(loc[t].buf) /\ Goto(t, r(NoBuf)) /\ UNCHANGED queue
    <3>1. loc' \in [Actors -> LocRecord] /\ Locals'
      BY <2>1, <2>3, GotoTyped
    <3>2. /\ desc' \in [Buffers -> DescRecord]
          /\ stat' \in [pipes : Int, subs : Int, bufs : Int]
      BY <1>0, <2>3, DecrUseTyped
    <3> QED BY <1>0, <2>0, <2>3, <3>1, <3>2
          DEF Typed, TypeOK, tables, routing, apps
  <2>4. CASE /\ queue[pid] # <<>>
             /\ queue' = [queue EXCEPT ![pid] = Tail(@)]
             /\ Goto(t, r(Head(queue[pid])))
             /\ UNCHANGED <<desc, stat>>
    <3>1. queue \in [PipeIds -> Seq(Buffers)]
      BY <1>0 DEF TypeOK
    <3>2. Head(queue[pid]) \in Buffers /\ Tail(queue[pid]) \in Seq(Buffers)
      BY <1>1, <2>4, <3>1, HeadTailTyped
    <3>3. queue' \in [PipeIds -> Seq(Buffers)]
      BY <2>4, <3>1, <3>2
    <3> HIDE DEF r
    <3>4. loc' \in [Actors -> LocRecord] /\ Locals'
      BY <2>1, <2>4, <3>2, GotoTyped
    <3> QED BY <1>0, <2>0, <2>4, <3>3, <3>4
          DEF Typed, TypeOK, tables, routing, apps
  <2>5. CASE Goto(t, left) /\ UNCHANGED <<queue, desc, stat>>
    <3>1. loc' \in [Actors -> LocRecord] /\ Locals'
      BY <2>2, <2>5, GotoTyped
    <3> QED BY <1>0, <2>0, <2>5, <3>1
          DEF Typed, TypeOK, tables, routing, apps
  <2> QED BY <1>2, <2>3, <2>4, <2>5 DEF DeletePipeDrain
<1>3. CASE DeletePipeQueue(t)
  <2> DEFINE r == [loc[t] EXCEPT !.pc = "del_end"]
  <2>1. r \in LocRecord /\ Promise(r)
    BY <1>0, <1>1 DEF LocRecord, PCs, Promise
  <2>2. loc' \in [Actors -> LocRecord] /\ Locals'
    BY <1>3, <2>1, GotoTyped DEF DeletePipeQueue
  <2>3. queue' \in [PipeIds -> Seq(Buffers)] /\ qcap' \in [PipeIds -> Nat]
    <3>1. queue \in [PipeIds -> Seq(Buffers)] /\ qcap \in [PipeIds -> Nat]
      BY <1>0 DEF TypeOK
    <3>2. <<>> \in Seq(Buffers) /\ 0 \in Nat
      OBVIOUS
    <3>3. /\ queue' = [queue EXCEPT ![loc[t].pid] = <<>>]
          /\ qcap' = [qcap EXCEPT ![loc[t].pid] = 0]
      BY <1>3 DEF DeletePipeQueue
    <3> QED BY <3>1, <3>2, <3>3
  <2> QED BY <1>0, <1>3, <2>2, <2>3
        DEF Typed, TypeOK, DeletePipeQueue, tables, routing, apps
<1>4. CASE DeletePipeEnd(t)
  <2>1. loc' \in [Actors -> LocRecord] /\ Locals'
    BY <1>4, FinishTyped DEF DeletePipeEnd
  <2>2. /\ pipeId' \in [Slots -> PipeIds \cup {FREE, RESERVED}]
        /\ stat' \in [pipes : Int, subs : Int, bufs : Int]
    <3>1. /\ pipeId \in [Slots -> PipeIds \cup {FREE, RESERVED}]
          /\ stat \in [pipes : Int, subs : Int, bufs : Int]
      BY <1>0 DEF TypeOK
    <3>2. /\ pipeId' = [pipeId EXCEPT ![Slot(loc[t].pid)] = FREE]
          /\ stat' = [stat EXCEPT !.pipes = @ - 1]
      BY <1>4 DEF DeletePipeEnd
    <3>3. pipeId' \in [Slots -> PipeIds \cup {FREE, RESERVED}]
      BY <3>1, <3>2
    <3>4. stat' \in [pipes : Int, subs : Int, bufs : Int]
      BY <3>1, <3>2
    <3> QED BY <3>3, <3>4
  <2> QED BY <1>0, <1>4, <2>1, <2>2
        DEF Typed, TypeOK, DeletePipeEnd, queues, routing, apps
<1> QED BY <1>2, <1>3, <1>4 DEF DeleteStep

LEMMA DestTyped ==
  ASSUME dst \in [Msgs -> [PipeIds -> DestRecord]],
         NEW m \in Msgs, NEW pid \in PipeIds, NEW d \in DestRecord
  PROVE  [dst EXCEPT ![m][pid] = d] \in [Msgs -> [PipeIds -> DestRecord]]
<1>1. [dst[m] EXCEPT ![pid] = d] \in [PipeIds -> DestRecord]
  OBVIOUS
<1> QED BY <1>1

LEMMA SubscribeTyped ==
  ASSUME Typed, NEW t \in Tasks, SetPipeOpts(t) \/ Subscribe(t) \/ Unsubscribe(t)
  PROVE  Typed'
<1>0. TypeOK /\ Locals /\ Issued \subseteq PipeIds
  BY IssuedIds DEF Typed
<1>1. UNCHANGED loc
  BY DEF SetPipeOpts, Subscribe, Unsubscribe
<1>2. loc' \in [Actors -> LocRecord] /\ Locals'
  BY <1>1, SameLocTyped
<1>3. CASE SetPipeOpts(t)
  <2>1. pipe \in [Slots -> PipeRecord]
    BY <1>0 DEF TypeOK
  <2>2. PICK pid \in PipeIds, ignore \in BOOLEAN :
           \/ pipe' = [pipe EXCEPT ![Slot(pid)].ignoreMine = ignore] /\ UNCHANGED hk
           \/ Count(One("PipeOpts")) /\ UNCHANGED pipe
    BY <1>0, <1>3 DEF SetPipeOpts
  <2>3. pipe' \in [Slots -> PipeRecord]
    <3>1. \A r \in PipeRecord : [r EXCEPT !.ignoreMine = ignore] \in PipeRecord
      BY DEF PipeRecord
    <3>2. \/ pipe' = [pipe EXCEPT ![Slot(pid)] = [@ EXCEPT !.ignoreMine = ignore]]
          \/ pipe' = pipe
      BY <2>2
    <3> QED BY <2>1, <3>1, <3>2
  <2>4. hk' \in [Counters -> Nat]
    BY <1>0, <2>2, OneTyped DEF TypeOK
  <2> QED BY <1>0, <1>2, <1>3, <2>3, <2>4
        DEF Typed, TypeOK, SetPipeOpts, queues, routing, apps
<1>4. CASE Subscribe(t)
  <2>1. PICK m \in Msgs, pid \in PipeIds, lim \in MsgLims :
           /\ routes' \in {routes, routes \cup {m}}
           /\ \/ /\ subs' = [subs EXCEPT ![m] = @ \cup {pid}]
                 /\ dst' = [dst EXCEPT ![m][pid] =
                              [lim |-> lim, count |-> 0, active |-> TRUE]]
                 /\ stat' = [stat EXCEPT !.subs = @ + 1]
                 /\ UNCHANGED hk
              \/ /\ \E c \in Counters : Count(One(c))
                 /\ UNCHANGED <<subs, dst, stat>>
    BY <1>0, <1>4 DEF Subscribe, Counters
  <2>2. routes' \subseteq Msgs
    BY <1>0, <2>1 DEF TypeOK
  <2>3. subs' \in [Msgs -> SUBSET PipeIds]
    <3>1. subs \in [Msgs -> SUBSET PipeIds]
      BY <1>0 DEF TypeOK
    <3>2. subs' = [subs EXCEPT ![m] = @ \cup {pid}] \/ subs' = subs
      BY <2>1
    <3> QED BY <3>1, <3>2
  <2>4. dst' \in [Msgs -> [PipeIds -> DestRecord]]
    <3>1. dst \in [Msgs -> [PipeIds -> DestRecord]]
      BY <1>0 DEF TypeOK
    <3>2. \/ dst' = [dst EXCEPT ![m][pid] =
                       [lim |-> lim, count |-> 0, active |-> TRUE]]
          \/ dst' = dst
      BY <2>1
    <3>3. [lim |-> lim, count |-> 0, active |-> TRUE] \in DestRecord
      BY EnvironmentAssumption DEF DestRecord
    <3>4. [dst EXCEPT ![m][pid] = [lim |-> lim, count |-> 0, active |-> TRUE]]
             \in [Msgs -> [PipeIds -> DestRecord]]
      BY <3>1, <3>3, DestTyped
    <3> QED BY <3>1, <3>2, <3>4
  <2>5. stat' \in [pipes : Int, subs : Int, bufs : Int]
    <3>1. stat \in [pipes : Int, subs : Int, bufs : Int]
      BY <1>0 DEF TypeOK
    <3>2. stat' = [stat EXCEPT !.subs = @ + 1] \/ stat' = stat
      BY <2>1
    <3> QED BY <3>1, <3>2
  <2>6. hk' \in [Counters -> Nat]
    <3>1. UNCHANGED hk \/ \E c \in Counters : Count(One(c))
      BY <2>1
    <3> QED BY <1>0, <3>1, OneTyped DEF TypeOK
  <2> QED BY <1>0, <1>2, <1>4, <2>2, <2>3, <2>4, <2>5, <2>6
        DEF Typed, TypeOK, Subscribe, tables, queues, apps
<1>5. CASE Unsubscribe(t)
  <2>1. PICK m \in Msgs, pid \in PipeIds :
           /\ subs' = [subs EXCEPT ![m] = @ \ {pid}]
           /\ dst' = [dst EXCEPT ![m][pid] = NoDest]
           /\ stat' = [stat EXCEPT !.subs = @ - 1]
    BY <1>0, <1>5 DEF Unsubscribe, TypeOK
  <2>2. subs' \in [Msgs -> SUBSET PipeIds]
    <3>1. subs \in [Msgs -> SUBSET PipeIds]
      BY <1>0 DEF TypeOK
    <3> QED BY <2>1, <3>1
  <2>3. dst' \in [Msgs -> [PipeIds -> DestRecord]]
    <3>1. dst \in [Msgs -> [PipeIds -> DestRecord]]
      BY <1>0 DEF TypeOK
    <3>2. NoDest \in DestRecord
      BY DEF NoDest, DestRecord
    <3> QED BY <2>1, <3>1, <3>2, DestTyped
  <2>4. stat' \in [pipes : Int, subs : Int, bufs : Int]
    <3>1. stat \in [pipes : Int, subs : Int, bufs : Int]
      BY <1>0 DEF TypeOK
    <3> QED BY <2>1, <3>1
  <2> QED BY <1>0, <1>2, <1>5, <2>2, <2>3, <2>4
        DEF Typed, TypeOK, Unsubscribe, tables, queues, apps
<1> QED BY <1>3, <1>4, <1>5

(* The destinations a buffer is put on the queue of are destinations of its *)
(* route, so they are finitely many.                                        *)
LEMMA BroadcastTyped ==
  ASSUME Typed, NEW t \in Tasks, NEW b \in Buffers, NEW m \in Msgs,
         NEW routed \in BOOLEAN, Broadcast(t, b, m, routed),
         hold' \in [Tasks -> Buffers \cup {NoBuf}], UNCHANGED <<appState, todo>>
  PROVE  Typed'
<1> DEFINE served == IF routed THEN Served(m, Caller(t)) ELSE {}
           over == OverLimit(m, served)
           full == QueueFull(served \ over)
           gone == QueueGone(served \ over)
           sent == served \ (over \cup full \cup gone)
           n == [c \in Counters |->
                    CASE c = "MsgLimit" -> Cardinality(over)
                      [] c = "PipeOverflow" -> Cardinality(full)
                      [] c = "Internal" -> Cardinality(gone)
                      [] c = "MsgSend" -> IF served = sent THEN 0 ELSE 1
                      [] OTHER -> 0]
<1>0. TypeOK /\ Locals /\ t \in Actors
  BY DEF Typed, Actors
<1>1. /\ queue' = [p \in PipeIds |-> IF p \in sent THEN Append(queue[p], b)
                                     ELSE queue[p]]
      /\ dst' = [dst EXCEPT ![m] =
                   [p \in PipeIds |->
                      IF p \in sent THEN [dst[m][p] EXCEPT !.count = @ + 1]
                                    ELSE dst[m][p]]]
      /\ pipe' = [s \in Slots |->
                    IF \E p \in sent : Slot(p) = s THEN Delivered(pipe[s])
                                                   ELSE pipe[s]]
      /\ SetDesc([desc EXCEPT ![b] =
                    Decr(Launched(Incr(@, Cardinality(sent))))])
      /\ Count(n)
      /\ Finish(t)
      /\ UNCHANGED <<pipeId, lastPipeId, qcap, routes, subs>>
  BY DEF Broadcast
<1>2. /\ served \subseteq PipeIds /\ over \subseteq PipeIds
      /\ full \subseteq PipeIds /\ gone \subseteq PipeIds /\ sent \subseteq PipeIds
  <2>1. subs[m] \subseteq PipeIds
    BY <1>0 DEF TypeOK
  <2>2. served \subseteq PipeIds
    BY <2>1 DEF Served
  <2> QED BY <2>2 DEF OverLimit, QueueFull, QueueGone
<1> HIDE DEF served, over, full, gone, sent
<1>3. /\ Cardinality(over) \in Nat /\ Cardinality(full) \in Nat
      /\ Cardinality(gone) \in Nat /\ Cardinality(sent) \in Nat
  <2>1. IsFiniteSet(PipeIds)
    BY FS_Interval, SizesAssumption DEF PipeIds
  <2> QED BY <1>2, <2>1, FS_Subset, FS_CardinalityType
<1>4. queue' \in [PipeIds -> Seq(Buffers)]
  <2>1. queue \in [PipeIds -> Seq(Buffers)]
    BY <1>0 DEF TypeOK
  <2>2. \A p \in PipeIds : Append(queue[p], b) \in Seq(Buffers)
    BY <2>1
  <2> QED BY <1>1, <2>1, <2>2
<1>5. dst' \in [Msgs -> [PipeIds -> DestRecord]]
  <2>1. dst \in [Msgs -> [PipeIds -> DestRecord]]
    BY <1>0 DEF TypeOK
  <2>2. \A p \in PipeIds : [dst[m][p] EXCEPT !.count = @ + 1] \in DestRecord
    <3>1. \A d \in DestRecord : [d EXCEPT !.count = @ + 1] \in DestRecord
      BY DEF DestRecord
    <3> QED BY <2>1, <3>1
  <2>3. [p \in PipeIds |->
           IF p \in sent THEN [dst[m][p] EXCEPT !.count = @ + 1]
                         ELSE dst[m][p]] \in [PipeIds -> DestRecord]
    BY <2>1, <2>2
  <2> QED BY <1>1, <2>1, <2>3
<1>6. pipe' \in [Slots -> PipeRecord]
  <2>1. pipe \in [Slots -> PipeRecord]
    BY <1>0 DEF TypeOK
  <2>2. \A r \in PipeRecord : Delivered(r) \in PipeRecord
    <3> TAKE r \in PipeRecord
    <3> DEFINE peak == IF r.depth + 1 >= r.peak THEN r.depth + 1 ELSE r.peak
    <3>1. r.depth \in Nat /\ r.peak \in Nat
      BY DEF PipeRecord
    <3>2. r.depth + 1 \in Nat /\ peak \in Nat
      BY <3>1
    <3>3. Delivered(r) = [r EXCEPT !.depth = @ + 1, !.peak = peak]
      BY DEF Delivered, PipeRecord
    <3> HIDE DEF peak
    <3> QED BY <3>2, <3>3 DEF PipeRecord
  <2> QED BY <1>1, <2>1, <2>2
<1>7. /\ desc' \in [Buffers -> DescRecord]
      /\ stat' \in [pipes : Int, subs : Int, bufs : Int]
  <2>1. desc \in [Buffers -> DescRecord]
    BY <1>0 DEF TypeOK
  <2>2. Decr(Launched(Incr(desc[b], Cardinality(sent)))) \in DescRecord
    BY <1>3, <2>1, DescTyped
  <2>3. [desc EXCEPT ![b] = Decr(Launched(Incr(@, Cardinality(sent))))]
           \in [Buffers -> DescRecord]
    BY <2>1, <2>2
  <2> QED BY <1>0, <1>1, <2>3, SetDescTyped
<1>8. hk' \in [Counters -> Nat]
  <2>1. n \in [Counters -> Nat]
    BY <1>3
  <2> HIDE DEF n
  <2> QED BY <1>0, <1>1, <2>1, CountTyped
<1>9. loc' \in [Actors -> LocRecord] /\ Locals'
  BY <1>0, <1>1, FinishTyped
<1> HIDE DEF n
<1> QED BY <1>0, <1>1, <1>4, <1>5, <1>6, <1>7, <1>8, <1>9 DEF Typed, TypeOK

LEMMA TransmitMsgTyped ==
  ASSUME Typed, NEW t \in Tasks,
         TransmitMsg(t) \/ TransmitMsgAlloc(t) \/ TransmitMsgCast(t)
  PROVE  Typed'
<1>0. TypeOK /\ Locals /\ t \in Actors /\ loc[t] \in LocRecord /\ Promise(loc[t])
  BY DEF Typed, TypeOK, Locals, Actors
<1>1. CASE TransmitMsg(t)
  <2>0. UNCHANGED <<tables, queues, routing, desc, stat, apps>>
    BY Zenon, <1>1 DEF TransmitMsg
  <2>1. CASE UNCHANGED loc /\ \E c \in Counters : Count(One(c))
    <3>1. loc' \in [Actors -> LocRecord] /\ Locals'
      BY <2>1, SameLocTyped
    <3>2. hk' \in [Counters -> Nat]
      BY <1>0, <2>1, OneTyped
    <3> QED BY <1>0, <2>0, <3>1, <3>2
          DEF Typed, TypeOK, tables, queues, routing, apps
  <2>2. CASE UNCHANGED hk /\ \E m \in routes :
                Goto(t, [Idle EXCEPT !.pc = "tx_alloc", !.msg = m])
    <3>1. PICK m \in Msgs : Goto(t, [Idle EXCEPT !.pc = "tx_alloc", !.msg = m])
      BY Zenon, <1>0, <2>2 DEF TypeOK
    <3> DEFINE r == [Idle EXCEPT !.pc = "tx_alloc", !.msg = m]
    <3>2. r \in LocRecord /\ r.pc = "tx_alloc" /\ r.msg \in Msgs
      BY IdleTyped DEF LocRecord, PCs, Idle
    <3> HIDE DEF r
    <3>3. Promise(r)
      BY <3>2 DEF Promise, OnPipeId
    <3>4. loc' \in [Actors -> LocRecord] /\ Locals'
      BY <1>0, <3>1, <3>2, <3>3, GotoTyped DEF r
    <3> QED BY <1>0, <2>0, <2>2, <3>4
          DEF Typed, TypeOK, tables, queues, routing, apps
  <2> QED BY Zenon, <1>1, <2>1, <2>2 DEF TransmitMsg, Counters
<1>2. CASE TransmitMsgAlloc(t)
  <2>0. /\ UNCHANGED <<tables, queues, routing, apps>>
        /\ loc[t].pc = "tx_alloc" /\ loc[t].msg \in Msgs
    BY Zenon, <1>0, <1>2 DEF TransmitMsgAlloc, Promise
  <2>1. CASE \E b \in Buffers :
               /\ desc' = [desc EXCEPT ![b] = [FreshDesc EXCEPT !.msg = loc[t].msg]]
               /\ stat' = [stat EXCEPT !.bufs = @ + 1]
               /\ Goto(t, [loc[t] EXCEPT !.pc = "tx_cast", !.buf = b])
               /\ UNCHANGED hk
    <3>1. PICK b \in Buffers :
               /\ desc' = [desc EXCEPT ![b] = [FreshDesc EXCEPT !.msg = loc[t].msg]]
               /\ stat' = [stat EXCEPT !.bufs = @ + 1]
               /\ Goto(t, [loc[t] EXCEPT !.pc = "tx_cast", !.buf = b])
               /\ UNCHANGED hk
      BY Zenon, <2>1
    <3>2. desc' \in [Buffers -> DescRecord]
      <4>1. [FreshDesc EXCEPT !.msg = loc[t].msg] \in DescRecord
        BY <2>0, DescTyped DEF DescRecord
      <4>2. desc \in [Buffers -> DescRecord]
        BY <1>0 DEF TypeOK
      <4> QED BY <3>1, <4>1, <4>2
    <3>3. stat' \in [pipes : Int, subs : Int, bufs : Int]
      <4>1. stat \in [pipes : Int, subs : Int, bufs : Int]
        BY <1>0 DEF TypeOK
      <4> QED BY <3>1, <4>1
    <3> DEFINE r == [loc[t] EXCEPT !.pc = "tx_cast", !.buf = b]
    <3>4. r \in LocRecord /\ r.pc = "tx_cast" /\ r.msg \in Msgs /\ r.buf \in Buffers
      BY <1>0, <2>0 DEF LocRecord, PCs
    <3> HIDE DEF r
    <3>5. Promise(r)
      BY <3>4 DEF Promise, OnPipeId
    <3>6. loc' \in [Actors -> LocRecord] /\ Locals'
      BY <1>0, <3>1, <3>4, <3>5, GotoTyped DEF r
    <3> QED BY <1>0, <2>0, <3>1, <3>2, <3>3, <3>6
          DEF Typed, TypeOK, tables, queues, routing, apps
  <2>2. CASE Count(One("MsgSend")) /\ Finish(t) /\ UNCHANGED <<desc, stat>>
    <3>1. loc' \in [Actors -> LocRecord] /\ Locals'
      BY <1>0, <2>2, FinishTyped
    <3>2. hk' \in [Counters -> Nat]
      BY <1>0, <2>2, OneTyped
    <3> QED BY <1>0, <2>0, <2>2, <3>1, <3>2
          DEF Typed, TypeOK, tables, queues, routing, apps
  <2> QED BY Zenon, <1>2, <2>1, <2>2 DEF TransmitMsgAlloc
<1>3. CASE TransmitMsgCast(t)
  <2>1. loc[t].buf \in Buffers /\ loc[t].msg \in Msgs
    BY <1>0, <1>3 DEF TransmitMsgCast, Promise
  <2>2. hold' \in [Tasks -> Buffers \cup {NoBuf}] /\ UNCHANGED <<appState, todo>>
    BY <1>0, <1>3 DEF TransmitMsgCast, TypeOK, apps
  <2> QED BY <1>3, <2>1, <2>2, BroadcastTyped DEF TransmitMsgCast
<1> QED BY <1>1, <1>2, <1>3

LEMMA ReceiveTyped ==
  ASSUME Typed, NEW t \in Tasks,
         \/ ReceiveBuffer(t) \/ ReceiveBadArgument(t)
         \/ ReceiveBufferGet(t) \/ ReceiveBufferEnd(t)
  PROVE  Typed'
<1>0. TypeOK /\ Locals /\ t \in Actors /\ loc[t] \in LocRecord /\ Promise(loc[t])
  BY DEF Typed, TypeOK, Locals, Actors
<1>1. CASE ReceiveBuffer(t)
  <2>1. PICK pid \in PipeIds, finite \in {0, 1} : ReceiveFrom(t, pid, finite)
    BY <1>1, IssuedIds DEF ReceiveBuffer
  <2>2. UNCHANGED <<pipeId, lastPipeId, queues, routing, apps>>
    BY <2>1 DEF ReceiveFrom
  <2>3. /\ pipe' \in [Slots -> PipeRecord] /\ desc' \in [Buffers -> DescRecord]
        /\ stat' \in [pipes : Int, subs : Int, bufs : Int]
    <3>1. CASE UNCHANGED <<pipe, desc, stat>>
      BY <1>0, <3>1 DEF TypeOK
    <3>2. CASE /\ DecrUse(pipe[Slot(pid)].last)
               /\ pipe' = [pipe EXCEPT ![Slot(pid)].last = NoBuf]
      <4>1. /\ desc' \in [Buffers -> DescRecord]
            /\ stat' \in [pipes : Int, subs : Int, bufs : Int]
        BY <1>0, <3>2, DecrUseTyped
      <4>2. \A r \in PipeRecord : [r EXCEPT !.last = NoBuf] \in PipeRecord
        BY DEF PipeRecord
      <4>3. pipe \in [Slots -> PipeRecord]
        BY <1>0 DEF TypeOK
      <4>4. pipe' = [pipe EXCEPT ![Slot(pid)] = [@ EXCEPT !.last = NoBuf]]
        BY <3>2
      <4> QED BY <4>1, <4>2, <4>3, <4>4
    <3> QED BY <2>1, <3>1, <3>2 DEF ReceiveFrom
  <2>4. hk' \in [Counters -> Nat]
    <3>1. UNCHANGED hk \/ Count(One("MsgReceive"))
      BY <2>1 DEF ReceiveFrom
    <3> QED BY <1>0, <3>1, OneTyped DEF TypeOK
  <2>5. loc' \in [Actors -> LocRecord] /\ Locals'
    <3> DEFINE r == [Idle EXCEPT !.pc = "rcv_get", !.pid = pid, !.n = finite]
    <3>1. UNCHANGED loc \/ Goto(t, r)
      BY <2>1 DEF ReceiveFrom
    <3>0. finite \in Nat
      OBVIOUS
    <3>2. r \in LocRecord /\ r.pc = "rcv_get" /\ r.pid = pid
      BY <3>0, IdleTyped DEF LocRecord, PCs, Idle
    <3> HIDE DEF r
    <3>3. Promise(r)
      BY <3>2 DEF Promise
    <3> QED BY <1>0, <3>1, <3>2, <3>3, GotoTyped, SameLocTyped
  <2> QED BY <1>0, <2>2, <2>3, <2>4, <2>5
        DEF Typed, TypeOK, queues, routing, apps
<1>2. CASE ReceiveBadArgument(t)
  <2>1. loc' \in [Actors -> LocRecord] /\ Locals'
    BY <1>2, SameLocTyped DEF ReceiveBadArgument
  <2>2. hk' \in [Counters -> Nat]
    BY <1>0, <1>2, OneTyped DEF ReceiveBadArgument
  <2> QED BY <1>0, <1>2, <2>1, <2>2
        DEF Typed, TypeOK, ReceiveBadArgument, tables, queues, routing, apps
<1>3. CASE ReceiveBufferGet(t)
  <2> DEFINE pid == loc[t].pid
             r(b) == [loc[t] EXCEPT !.pc = "rcv_end", !.n = 0, !.res = "ok",
                                    !.buf = b]
             none(res) == [loc[t] EXCEPT !.pc = "rcv_end", !.n = 0, !.res = res]
  <2>0. /\ loc[t].pc = "rcv_get" /\ pid \in PipeIds
        /\ UNCHANGED <<tables, qcap, routing, desc, stat, hk, apps>>
    BY <1>0, <1>3 DEF ReceiveBufferGet, Promise, OnPipeId
  <2>1. /\ \A b \in Buffers : r(b) \in LocRecord /\ Promise(r(b))
        /\ \A res \in {"empty", "error"} :
              none(res) \in LocRecord /\ Promise(none(res))
    <3>1. \A b \in Buffers :
             /\ r(b) \in LocRecord /\ r(b).pc = "rcv_end" /\ r(b).pid \in PipeIds
             /\ r(b).buf \in Buffers
      BY <1>0, <2>0 DEF LocRecord, PCs, Results
    <3>2. \A res \in {"empty", "error"} :
             /\ none(res) \in LocRecord /\ none(res).pc = "rcv_end"
             /\ none(res).pid \in PipeIds /\ none(res).res # "ok"
      BY <1>0, <2>0 DEF LocRecord, PCs, Results
    <3> HIDE DEF r, none
    <3> QED BY <3>1, <3>2 DEF Promise
  <2>2. CASE /\ queue[pid] # <<>>
             /\ queue' = [queue EXCEPT ![pid] = Tail(@)]
             /\ Goto(t, r(Head(queue[pid])))
    <3>1. queue \in [PipeIds -> Seq(Buffers)]
      BY <1>0 DEF TypeOK
    <3>2. Head(queue[pid]) \in Buffers /\ Tail(queue[pid]) \in Seq(Buffers)
      BY <2>0, <2>2, <3>1, HeadTailTyped
    <3>3. queue' \in [PipeIds -> Seq(Buffers)]
      BY <2>2, <3>1, <3>2
    <3> HIDE DEF r
    <3>4. loc' \in [Actors -> LocRecord] /\ Locals'
      BY <1>0, <2>1, <2>2, <3>2, GotoTyped
    <3> QED BY <1>0, <2>0, <3>3, <3>4 DEF Typed, TypeOK, tables, routing, apps
  <2>3. CASE UNCHANGED queue /\ \E res \in {"empty", "error"} : Goto(t, none(res))
    <3> HIDE DEF none
    <3>1. loc' \in [Actors -> LocRecord] /\ Locals'
      BY Zenon, <1>0, <2>1, <2>3, GotoTyped
    <3> QED BY <1>0, <2>0, <2>3, <3>1 DEF Typed, TypeOK, tables, routing, apps
  <2> QED BY <1>3, <2>2, <2>3 DEF ReceiveBufferGet
<1>4. CASE ReceiveBufferEnd(t)
  <2> DEFINE pid == loc[t].pid
             b == loc[t].buf
  <2>0. UNCHANGED <<pipeId, lastPipeId, queues, routes, subs, apps>> /\ Finish(t)
    BY <1>4 DEF ReceiveBufferEnd
  <2>1. loc' \in [Actors -> LocRecord] /\ Locals'
    BY <1>0, <2>0, FinishTyped
  <2>2. hk' \in [Counters -> Nat]
    <3>1. UNCHANGED hk \/ \E c \in Counters : Count(One(c))
      BY <1>4 DEF ReceiveBufferEnd, Counters
    <3> QED BY <1>0, <3>1, OneTyped DEF TypeOK
  <2>3. /\ desc' \in [Buffers -> DescRecord]
        /\ stat' \in [pipes : Int, subs : Int, bufs : Int]
    <3>1. CASE UNCHANGED <<desc, stat>>
      BY <1>0, <3>1 DEF TypeOK
    <3>2. CASE DecrUse(b)
      BY <1>0, <3>2, DecrUseTyped
    <3>3. CASE SetDesc([desc EXCEPT ![b] = Decr(Incr(@, 1))])
      <4>1. desc \in [Buffers -> DescRecord]
        BY <1>0 DEF TypeOK
      <4>2. [desc EXCEPT ![b] = Decr(Incr(@, 1))] \in [Buffers -> DescRecord]
        BY <4>1, DescTyped
      <4> QED BY <1>0, <3>3, <4>2, SetDescTyped
    <3> QED BY <1>4, <3>1, <3>2, <3>3 DEF ReceiveBufferEnd
  <2>4. pipe' \in [Slots -> PipeRecord]
    <3> DEFINE g(r) == [r EXCEPT !.last = b, !.depth = IF @ > 0 THEN @ - 1 ELSE 0]
    <3>1. pipe \in [Slots -> PipeRecord] /\ b \in Buffers \cup {NoBuf}
      BY <1>0 DEF TypeOK, LocRecord
    <3>2. \A r \in PipeRecord : g(r) \in PipeRecord
      <4> TAKE r \in PipeRecord
      <4>1. r.depth \in Nat
        BY DEF PipeRecord
      <4>2. (IF r.depth > 0 THEN r.depth - 1 ELSE 0) \in Nat
        BY <4>1
      <4> QED BY <3>1, <4>2 DEF PipeRecord
    <3>3. pipe' = [pipe EXCEPT ![Slot(pid)] = g(@)] \/ pipe' = pipe
      BY <1>4, <3>1 DEF ReceiveBufferEnd
    <3> HIDE DEF g
    <3> QED BY <3>1, <3>2, <3>3
  <2>5. dst' \in [Msgs -> [PipeIds -> DestRecord]]
    <3> DEFINE m == desc[b].msg
               g(d) == [d EXCEPT !.count = @ - 1]
    <3>1. dst \in [Msgs -> [PipeIds -> DestRecord]] /\ routes \subseteq Msgs
      BY <1>0 DEF TypeOK
    <3>2. CASE dst' = dst
      BY <3>1, <3>2
    <3>3. CASE dst' = Received(m, pid) /\ pid \in PipeIds
      <4>1. CASE m \in routes /\ dst[m][pid].count > 0
        <5>1. dst[m][pid] \in DestRecord
          BY <3>1, <3>3, <4>1
        <5>2. g(dst[m][pid]) \in DestRecord
          <6>1. dst[m][pid].count \in Nat
            BY <5>1 DEF DestRecord
          <6>2. dst[m][pid].count - 1 \in Nat
            BY <4>1, <6>1
          <6> QED BY Zenon, <5>1, <6>2 DEF DestRecord
        <5>3. \/ dst' = [dst EXCEPT ![m][pid] = g(dst[m][pid])]
              \/ dst' = dst
          BY Zenon, <3>1, <3>3 DEF Received
        <5>4. m \in Msgs
          BY <3>1, <4>1
        <5> HIDE DEF g, m
        <5>5. [dst EXCEPT ![m][pid] = g(dst[m][pid])]
                 \in [Msgs -> [PipeIds -> DestRecord]]
          BY <3>1, <3>3, <5>2, <5>4, DestTyped
        <5> QED BY <3>1, <5>3, <5>5
      <4>2. CASE ~(m \in routes /\ dst[m][pid].count > 0)
        BY Zenon, <3>1, <3>3, <4>2 DEF Received
      <4> QED BY <4>1, <4>2
    <3>4. pid \in PipeIds
      BY <1>0, <1>4 DEF Promise, OnPipeId, ReceiveBufferEnd
    <3> QED BY <1>4, <3>2, <3>3, <3>4 DEF ReceiveBufferEnd
  <2> QED BY <1>0, <2>0, <2>1, <2>2, <2>3, <2>4, <2>5
        DEF Typed, TypeOK, queues, apps
<1> QED BY <1>1, <1>2, <1>3, <1>4

LEMMA ZeroCopyTyped ==
  ASSUME Typed, NEW t \in Tasks,
         \/ AllocateMessageBuffer(t) \/ ReleaseMessageBuffer(t)
         \/ ReleaseMessageBufferEnd(t)
  PROVE  Typed'
<1>0. TypeOK /\ Locals /\ t \in Actors /\ hold \in [Tasks -> Buffers \cup {NoBuf}]
  BY DEF Typed, TypeOK, Actors
<1>1. CASE AllocateMessageBuffer(t)
  <2>0. UNCHANGED <<tables, queues, routing, hk, loc, appState, todo>>
    BY <1>1 DEF AllocateMessageBuffer
  <2>1. PICK b \in Buffers :
           /\ desc' = [desc EXCEPT ![b] = [FreshDesc EXCEPT !.app = Caller(t),
                                                            !.list = "zeroCopy"]]
           /\ hold' = [hold EXCEPT ![t] = b]
           /\ stat' = [stat EXCEPT !.bufs = @ + 1]
    BY <1>1 DEF AllocateMessageBuffer
  <2>2. desc' \in [Buffers -> DescRecord]
    <3>1. desc \in [Buffers -> DescRecord]
      BY <1>0 DEF TypeOK
    <3>2. [FreshDesc EXCEPT !.app = Caller(t), !.list = "zeroCopy"] \in DescRecord
      BY DescTyped, CallerTyped DEF DescRecord, Lists
    <3> QED BY <2>1, <3>1, <3>2
  <2>3. stat' \in [pipes : Int, subs : Int, bufs : Int]
    <3>1. stat \in [pipes : Int, subs : Int, bufs : Int]
      BY <1>0 DEF TypeOK
    <3> QED BY <2>1, <3>1
  <2>4. hold' \in [Tasks -> Buffers \cup {NoBuf}]
    BY <1>0, <2>1
  <2>5. loc' \in [Actors -> LocRecord] /\ Locals'
    BY <2>0, SameLocTyped
  <2> QED BY <1>0, <2>0, <2>2, <2>3, <2>4, <2>5
        DEF Typed, TypeOK, tables, queues, routing
<1>2. CASE ReleaseMessageBuffer(t)
  <2>0. UNCHANGED <<tables, queues, routing, desc, stat, hk, appState, todo>>
    BY <1>2 DEF ReleaseMessageBuffer
  <2>1. hold' \in [Tasks -> Buffers \cup {NoBuf}]
    BY <1>0, <1>2 DEF ReleaseMessageBuffer
  <2>2. loc' \in [Actors -> LocRecord] /\ Locals'
    <3> DEFINE r == [Idle EXCEPT !.pc = "rel", !.buf = hold[t]]
    <3>1. UNCHANGED loc \/ Goto(t, r)
      BY <1>2 DEF ReleaseMessageBuffer
    <3>2. hold[t] \in Buffers
      BY <1>0, <1>2 DEF ReleaseMessageBuffer
    <3>3. r \in LocRecord /\ r.pc = "rel" /\ r.buf \in Buffers
      BY <3>2, IdleTyped DEF LocRecord, PCs, Idle
    <3> HIDE DEF r
    <3>4. Promise(r)
      BY <3>3 DEF Promise, OnPipeId
    <3> QED BY <1>0, <3>1, <3>3, <3>4, GotoTyped, SameLocTyped
  <2> QED BY <1>0, <2>0, <2>1, <2>2 DEF Typed, TypeOK, tables, queues, routing
<1>3. CASE ReleaseMessageBufferEnd(t)
  <2>0. UNCHANGED <<tables, queues, routing, hk, appState, todo>>
    BY <1>3 DEF ReleaseMessageBufferEnd
  <2>1. hold' \in [Tasks -> Buffers \cup {NoBuf}]
    BY <1>0, <1>3 DEF ReleaseMessageBufferEnd
  <2>2. loc' \in [Actors -> LocRecord] /\ Locals'
    BY <1>0, <1>3, FinishTyped DEF ReleaseMessageBufferEnd
  <2>3. /\ desc' \in [Buffers -> DescRecord]
        /\ stat' \in [pipes : Int, subs : Int, bufs : Int]
    <3>1. desc \in [Buffers -> DescRecord]
      BY <1>0 DEF TypeOK
    <3>2. \A d \in DescRecord : [d EXCEPT !.app = NoApp] \in DescRecord
      BY DEF DescRecord
    <3>3. [desc EXCEPT ![loc[t].buf] = Decr([@ EXCEPT !.app = NoApp])]
             \in [Buffers -> DescRecord]
      BY <3>1, <3>2, DescTyped
    <3> QED BY <1>0, <1>3, <3>3, SetDescTyped DEF ReleaseMessageBufferEnd
  <2> QED BY <1>0, <2>0, <2>1, <2>2, <2>3 DEF Typed, TypeOK, tables, queues, routing
<1> QED BY <1>1, <1>2, <1>3

LEMMA TransmitBufferTyped ==
  ASSUME Typed, NEW t \in Tasks,
         \/ TransmitBuffer(t) \/ TransmitBufferValidate(t) \/ TransmitBufferCast(t)
  PROVE  Typed'
<1>0. /\ TypeOK /\ Locals /\ t \in Actors /\ loc[t] \in LocRecord /\ Promise(loc[t])
      /\ hold \in [Tasks -> Buffers \cup {NoBuf}]
  BY DEF Typed, TypeOK, Locals, Actors
<1>1. CASE TransmitBuffer(t)
  <2> DEFINE r(m, res) == [Idle EXCEPT !.pc = "zc_check", !.buf = hold[t],
                                       !.msg = m, !.res = res]
             bad == [Idle EXCEPT !.pc = "zc_check", !.buf = hold[t],
                                 !.res = "invalid"]
  <2>0. /\ UNCHANGED <<tables, queues, routing, desc, stat, appState, todo>>
        /\ hold[t] \in Buffers
    BY Zenon, <1>0, <1>1 DEF TransmitBuffer
  <2>1. \A m \in Msgs, res \in {"ok", "invalid"} :
           r(m, res) \in LocRecord /\ Promise(r(m, res))
    <3>1. \A m \in Msgs, res \in {"ok", "invalid"} :
             /\ r(m, res) \in LocRecord /\ r(m, res).pc = "zc_check"
             /\ r(m, res).buf \in Buffers /\ r(m, res).msg \in Msgs
      BY <2>0, IdleTyped DEF LocRecord, PCs, Results, Idle
    <3> HIDE DEF r
    <3> QED BY <3>1 DEF Promise, OnPipeId
  <2>2. bad \in LocRecord /\ Promise(bad)
    <3>1. /\ bad \in LocRecord /\ bad.pc = "zc_check"
          /\ bad.buf \in Buffers /\ bad.res # "ok"
      BY <2>0, IdleTyped DEF LocRecord, PCs, Results, Idle
    <3> HIDE DEF bad
    <3> QED BY <3>1 DEF Promise, OnPipeId
  <2> HIDE DEF r, bad
  <2>3. \/ UNCHANGED loc
        \/ Goto(t, bad)
        \/ \E m \in Msgs, res \in {"ok", "invalid"} : Goto(t, r(m, res))
    BY Zenon, <1>1 DEF TransmitBuffer, r, bad
  <2>4. loc' \in [Actors -> LocRecord] /\ Locals'
    BY <1>0, <2>1, <2>2, <2>3, GotoTyped, SameLocTyped
  <2>5. hold' \in [Tasks -> Buffers \cup {NoBuf}]
    BY Zenon, <1>0, <1>1 DEF TransmitBuffer
  <2>6. hk' \in [Counters -> Nat]
    <3>1. UNCHANGED hk \/ Count(One("MsgSend"))
      BY Zenon, <1>1 DEF TransmitBuffer
    <3> QED BY <1>0, <3>1, OneTyped DEF TypeOK
  <2> QED BY <1>0, <2>0, <2>4, <2>5, <2>6 DEF Typed, TypeOK, tables, queues, routing
<1>2. CASE TransmitBufferValidate(t)
  <2> DEFINE b == loc[t].buf
             r(res) == [loc[t] EXCEPT !.pc = "zc_cast", !.res = res]
  <2>0. /\ UNCHANGED <<tables, queues, routing, stat, apps>>
        /\ loc[t].pc = "zc_check" /\ b \in Buffers
    BY <1>0, <1>2 DEF TransmitBufferValidate, Promise
  <2>1. desc' \in [Buffers -> DescRecord]
    <3>1. desc \in [Buffers -> DescRecord] /\ loc[t].msg \in Msgs \cup {NoMsg}
      BY <1>0 DEF TypeOK, LocRecord
    <3>2. \A d \in DescRecord : [d EXCEPT !.msg = loc[t].msg] \in DescRecord
      BY <3>1 DEF DescRecord
    <3>3. desc' = [desc EXCEPT ![b] = [@ EXCEPT !.msg = loc[t].msg]]
      BY <1>2 DEF TransmitBufferValidate
    <3> QED BY <3>1, <3>2, <3>3
  <2>2. hk' \in [Counters -> Nat]
    <3>1. UNCHANGED hk \/ \E c \in Counters : Count(One(c))
      BY <1>2 DEF TransmitBufferValidate, Counters
    <3> QED BY <1>0, <3>1, OneTyped DEF TypeOK
  <2>3. loc' \in [Actors -> LocRecord] /\ Locals'
    <3>1. CASE Finish(t)
      BY <1>0, <3>1, FinishTyped
    <3>2. CASE loc[t].res = "ok" /\ \E res \in {"route", "noroute"} : Goto(t, r(res))
      <4>1. loc[t].msg \in Msgs
        BY <1>0, <2>0, <3>2 DEF Promise
      <4>2. \A res \in {"route", "noroute"} :
               /\ r(res) \in LocRecord /\ r(res).pc = "zc_cast"
               /\ r(res).buf \in Buffers /\ r(res).msg \in Msgs
        BY <1>0, <2>0, <4>1 DEF LocRecord, PCs, Results
      <4> HIDE DEF r
      <4>3. \A res \in {"route", "noroute"} : Promise(r(res))
        BY <4>2 DEF Promise, OnPipeId
      <4> QED BY <1>0, <3>2, <4>2, <4>3, GotoTyped
    <3> QED BY <1>2, <3>1, <3>2 DEF TransmitBufferValidate
  <2> QED BY <1>0, <2>0, <2>1, <2>2, <2>3
        DEF Typed, TypeOK, tables, queues, routing, apps
<1>3. CASE TransmitBufferCast(t)
  <2>1. loc[t].buf \in Buffers /\ loc[t].msg \in Msgs
    BY <1>0, <1>3 DEF TransmitBufferCast, Promise
  <2>2. hold' \in [Tasks -> Buffers \cup {NoBuf}] /\ UNCHANGED <<appState, todo>>
    BY <1>0, <1>3 DEF TransmitBufferCast
  <2> QED BY <1>3, <2>1, <2>2, BroadcastTyped DEF TransmitBufferCast
<1> QED BY <1>1, <1>2, <1>3

LEMMA CommandTyped ==
  ASSUME Typed, NEW t \in Tasks,
         \/ GetPipeIdByName(t) \/ GetPipeIdByNameEnd(t)
         \/ RouteCmd(t) \/ ResetCounters(t)
  PROVE  Typed'
<1>0. TypeOK /\ Locals /\ t \in Actors
  BY DEF Typed, Actors
<1>1. CASE GetPipeIdByName(t)
  <2>1. loc' \in [Actors -> LocRecord] /\ Locals'
    <3>1. CASE UNCHANGED loc
      BY <3>1, SameLocTyped
    <3>2. CASE \E pid \in Issued :
                  Goto(t, [Idle EXCEPT !.pc = "by_name", !.pid = pid])
      <4>1. PICK pid \in PipeIds :
                  Goto(t, [Idle EXCEPT !.pc = "by_name", !.pid = pid])
        BY Zenon, <3>2, IssuedIds
      <4> DEFINE r == [Idle EXCEPT !.pc = "by_name", !.pid = pid]
      <4>2. r \in LocRecord /\ r.pc = "by_name" /\ r.pid \in PipeIds
        BY IdleTyped DEF LocRecord, PCs, Idle
      <4> HIDE DEF r
      <4>3. Promise(r)
        BY <4>2 DEF Promise
      <4> QED BY <1>0, <4>1, <4>2, <4>3, GotoTyped DEF r
    <3> QED BY Zenon, <1>1, <3>1, <3>2 DEF GetPipeIdByName
  <2>2. hk' \in [Counters -> Nat]
    <3>1. UNCHANGED hk \/ Count(One("GetPipeIdByName"))
      BY Zenon, <1>1 DEF GetPipeIdByName
    <3> QED BY <1>0, <3>1, OneTyped DEF TypeOK
  <2> QED BY Zenon, <1>0, <1>1, <2>1, <2>2
        DEF Typed, TypeOK, GetPipeIdByName, tables, queues, routing, apps
<1>2. CASE GetPipeIdByNameEnd(t)
  <2>1. loc' \in [Actors -> LocRecord] /\ Locals'
    BY <1>0, <1>2, FinishTyped DEF GetPipeIdByNameEnd
  <2>2. hk' \in [Counters -> Nat]
    <3>1. UNCHANGED hk \/ Count(One("GetPipeIdByName"))
      BY <1>2 DEF GetPipeIdByNameEnd
    <3> QED BY <1>0, <3>1, OneTyped DEF TypeOK
  <2> QED BY <1>0, <1>2, <2>1, <2>2
        DEF Typed, TypeOK, GetPipeIdByNameEnd, tables, queues, routing, apps
<1>3. CASE RouteCmd(t)
  <2>0. UNCHANGED <<tables, queues, routes, subs, desc, stat, loc, apps>>
    BY <1>3 DEF RouteCmd
  <2>1. loc' \in [Actors -> LocRecord] /\ Locals'
    BY <2>0, SameLocTyped
  <2>2. hk' \in [Counters -> Nat]
    <3>1. \E c \in Counters : Count(One(c))
      BY <1>3 DEF RouteCmd, Counters
    <3> QED BY <1>0, <3>1, OneTyped
  <2>3. dst' \in [Msgs -> [PipeIds -> DestRecord]]
    <3>1. dst \in [Msgs -> [PipeIds -> DestRecord]] /\ routes \subseteq Msgs
      BY <1>0 DEF TypeOK
    <3>2. CASE UNCHANGED dst
      BY <3>1, <3>2
    <3>3. CASE \E m \in routes, pid \in Issued, active \in BOOLEAN :
                  dst' = [dst EXCEPT ![m][pid].active = active]
      <4>1. PICK m \in Msgs, pid \in PipeIds, active \in BOOLEAN :
                  dst' = [dst EXCEPT ![m][pid].active = active]
        BY <3>1, <3>3, IssuedIds
      <4>2. [dst[m][pid] EXCEPT !.active = active] \in DestRecord
        BY <3>1 DEF DestRecord
      <4>3. dst' = [dst EXCEPT ![m][pid] = [dst[m][pid] EXCEPT !.active = active]]
        BY <3>1, <4>1
      <4> QED BY <3>1, <4>2, <4>3, DestTyped
    <3> QED BY <1>3, <3>2, <3>3 DEF RouteCmd
  <2> QED BY <1>0, <2>0, <2>1, <2>2, <2>3 DEF Typed, TypeOK, tables, queues, apps
<1>4. CASE ResetCounters(t)
  <2>1. loc' \in [Actors -> LocRecord] /\ Locals'
    BY <1>4, SameLocTyped DEF ResetCounters
  <2>2. hk' \in [Counters -> Nat]
    BY <1>0, <1>4 DEF ResetCounters, TypeOK
  <2> QED BY <1>0, <1>4, <2>1, <2>2
        DEF Typed, TypeOK, ResetCounters, tables, queues, routing, apps
<1> QED BY <1>1, <1>2, <1>3, <1>4

LEMMA CleanUpTyped ==
  ASSUME Typed,
         \/ \E a \in Apps : CleanUpBegin(a)
         \/ CleanUpList \/ CleanUpDeletePipe \/ CleanUpZeroCopy \/ CleanUpEnd
         \/ \E t \in Tasks : KillTask(t)
  PROVE  Typed'
<1> DEFINE L == loc[Cleaner]
<1>0. /\ TypeOK /\ Locals /\ Cleaner \in Actors /\ L \in LocRecord
      /\ L.app \in Apps \cup {NoApp} /\ appState \in [Apps -> AppStates]
  BY DEF Typed, TypeOK, Actors, LocRecord
<1>1. ASSUME NEW a \in Apps, CleanUpBegin(a)
      PROVE  Typed'
  <2> DEFINE r == [Idle EXCEPT !.pc = "cl_list", !.app = a]
  <2>1. r \in LocRecord /\ r.pc = "cl_list"
    BY IdleTyped DEF LocRecord, PCs, Idle
  <2>2. Goto(Cleaner, r)
    BY Zenon, <1>1 DEF CleanUpBegin
  <2> HIDE DEF r
  <2>3. Promise(r)
    BY <2>1 DEF Promise, OnPipeId
  <2>4. loc' \in [Actors -> LocRecord] /\ Locals'
    BY <1>0, <2>1, <2>2, <2>3, GotoTyped
  <2>5. appState' \in [Apps -> AppStates]
    BY Zenon, <1>0, <1>1 DEF CleanUpBegin, AppStates
  <2> QED BY Zenon, <1>0, <1>1, <2>4, <2>5
        DEF Typed, TypeOK, CleanUpBegin, tables, queues, routing
<1>2. CASE CleanUpList
  <2> DEFINE r == [L EXCEPT !.pc = "cl_next"]
  <2>1. r \in LocRecord /\ r.pc = "cl_next"
    BY <1>0 DEF LocRecord, PCs
  <2>2. Goto(Cleaner, r)
    BY <1>2 DEF CleanUpList
  <2> HIDE DEF r
  <2>3. Promise(r)
    BY <2>1 DEF Promise, OnPipeId
  <2>4. loc' \in [Actors -> LocRecord] /\ Locals'
    BY <1>0, <2>1, <2>2, <2>3, GotoTyped
  <2>5. todo' \subseteq PipeIds
    <3>1. pipeId \in [Slots -> PipeIds \cup {FREE, RESERVED}]
      BY <1>0 DEF TypeOK
    <3> QED BY <1>2, <3>1 DEF CleanUpList
  <2> QED BY <1>0, <1>2, <2>4, <2>5
        DEF Typed, TypeOK, CleanUpList, tables, queues, routing
<1>3. CASE CleanUpDeletePipe
  <2>1. PICK pid \in todo : /\ todo' = todo \ {pid}
                            /\ DeletePipeFull(Cleaner, pid, L.app)
    BY <1>3 DEF CleanUpDeletePipe
  <2>2. /\ pid \in PipeIds /\ todo' \subseteq PipeIds
        /\ UNCHANGED <<hold, appState>>
    BY <1>0, <1>3, <2>1 DEF TypeOK, CleanUpDeletePipe
  <2> QED BY <1>0, <2>1, <2>2, DeletePipeFullTyped
<1>4. CASE CleanUpZeroCopy
  <2> DEFINE nd == [b \in Buffers |-> IF b \in ZeroCopyOf(L.app)
                                        THEN Decr(desc[b]) ELSE desc[b]]
             r == [L EXCEPT !.pc = "cl_kill"]
  <2>1. r \in LocRecord /\ r.pc = "cl_kill"
    BY <1>0 DEF LocRecord, PCs
  <2>2. Goto(Cleaner, r) /\ SetDesc(nd)
    BY <1>4 DEF CleanUpZeroCopy
  <2>3. nd \in [Buffers -> DescRecord]
    BY <1>0, DescTyped DEF TypeOK
  <2> HIDE DEF r, nd
  <2>4. Promise(r)
    BY <2>1 DEF Promise, OnPipeId
  <2>5. loc' \in [Actors -> LocRecord] /\ Locals'
    BY <1>0, <2>1, <2>2, <2>4, GotoTyped
  <2>6. /\ desc' \in [Buffers -> DescRecord]
        /\ stat' \in [pipes : Int, subs : Int, bufs : Int]
    BY <1>0, <2>2, <2>3, SetDescTyped
  <2> QED BY <1>0, <1>4, <2>5, <2>6
        DEF Typed, TypeOK, CleanUpZeroCopy, tables, queues, routing, apps
<1>5. CASE CleanUpEnd
  <2>1. Idle \in LocRecord /\ Promise(Idle)
    BY IdleTyped DEF Promise, OnPipeId, Idle
  <2>2. loc' \in [Actors -> LocRecord] /\ Locals'
    BY <1>0, <1>5, <2>1, GotoTyped DEF CleanUpEnd
  <2>3. appState' \in [Apps -> AppStates]
    BY <1>0, <1>5 DEF CleanUpEnd, AppStates
  <2> QED BY <1>0, <1>5, <2>2, <2>3
        DEF Typed, TypeOK, CleanUpEnd, tables, queues, routing
<1>6. ASSUME NEW t \in Tasks, KillTask(t)
      PROVE  Typed'
  <2> DEFINE r == [Idle EXCEPT !.pc = "dead"]
  <2>1. r \in LocRecord /\ r.pc = "dead"
    BY IdleTyped DEF LocRecord, PCs, Idle
  <2>2. Goto(t, r) /\ t \in Actors
    BY <1>6 DEF KillTask, Actors
  <2> HIDE DEF r
  <2>3. Promise(r)
    BY <2>1 DEF Promise, OnPipeId
  <2>4. loc' \in [Actors -> LocRecord] /\ Locals'
    BY <1>0, <2>1, <2>2, <2>3, GotoTyped
  <2>5. hold' \in [Tasks -> Buffers \cup {NoBuf}]
    BY <1>0, <1>6 DEF KillTask, TypeOK
  <2> QED BY <1>0, <1>6, <2>4, <2>5
        DEF Typed, TypeOK, KillTask, tables, queues, routing
<1> QED BY <1>1, <1>2, <1>3, <1>4, <1>5, <1>6

LEMMA StepTyped ==
  ASSUME Typed, [Next]_vars
  PROVE  Typed'
<1>1. ASSUME NEW t \in Tasks, Start(t) PROVE Typed'
  BY <1>1, CreateTyped, DeletePipeTyped, SubscribeTyped, TransmitMsgTyped,
     ReceiveTyped, ZeroCopyTyped, TransmitBufferTyped, CommandTyped DEF Start
<1>2. ASSUME NEW t \in Tasks, Continue(t) PROVE Typed'
  BY <1>2, CreateTyped, TransmitMsgTyped, ReceiveTyped, ZeroCopyTyped,
     TransmitBufferTyped, CommandTyped DEF Continue
<1>3. ASSUME NEW t \in Tasks, KillTask(t) PROVE Typed'
  BY <1>3, CleanUpTyped
<1>4. ASSUME NEW a \in Apps, CleanUpBegin(a) PROVE Typed'
  BY <1>4, CleanUpTyped
<1>5. CASE CleanUpStep
  BY <1>5, CleanUpTyped DEF CleanUpStep
<1>6. CASE UNCHANGED vars
  BY <1>6, SameLocTyped DEF Typed, TypeOK, vars
<1> QED BY <1>1, <1>2, <1>3, <1>4, <1>5, <1>6, DeleteStepTyped DEF Next

LEMMA AlwaysTyped == Spec => []Typed
BY InitTyped, StepTyped, PTL DEF Spec

(* Every variable of the Software Bus keeps its type.                       *)
THEOREM TypeCorrect == Spec => []TypeOK
BY AlwaysTyped, PTL DEF Typed

-----------------------------------------------------------------------------
(* Slots, queues and subscriptions.  What ReservedOwned, SubscriptionsLive  *)
(* and NoOrphanQueue need to be inductive: an ID is in the slot its serial  *)
(* selects and was handed out before; a reserving task holds its slot       *)
(* alone; a published pipe has its queue, and a task in CreatePipe knows    *)
(* whether the queue of its pipe exists.                                    *)
SlotsIndexed ==
    \A s \in Slots : pipeId[s] \in PipeIds =>
       Slot(pipeId[s]) = s /\ pipeId[s] <= lastPipeId

HeldAlone ==
    /\ \A t \in Actors : Reserving(t) =>
          pipeId[Slot(loc[t].pid)] = RESERVED /\ loc[t].pid <= lastPipeId
    /\ \A t, u \in Actors :
          Reserving(t) /\ Reserving(u) /\ Slot(loc[t].pid) = Slot(loc[u].pid)
             => t = u
    /\ \A s \in Slots : pipeId[s] = RESERVED =>
          \E t \in Actors : Reserving(t) /\ Slot(loc[t].pid) = s

QueueKnown ==
    /\ \A p \in PipeIds : IsMatch(p) => qcap[p] > 0
    /\ \A t \in Actors :
          /\ loc[t].pc = "cr_queue" => loc[t].n > 0 /\ qcap[loc[t].pid] = 0
          /\ loc[t].pc = "cr_end" => IF loc[t].res = "ok" THEN qcap[loc[t].pid] > 0
                                                         ELSE qcap[loc[t].pid] = 0

Holding == /\ SlotsIndexed /\ HeldAlone /\ QueueKnown
           /\ NoOrphanQueue /\ SubscriptionsLive

LEMMA InitHolding == Init => Holding
<1> SUFFICES ASSUME Init PROVE Holding
  OBVIOUS
<1>1. /\ \A s \in Slots : pipeId[s] = FREE
      /\ \A p \in PipeIds : qcap[p] = 0
      /\ \A m \in Msgs : subs[m] = {}
      /\ \A t \in Actors : loc[t].pc = "idle"
  BY DEF Init, Idle
<1>2. FREE # RESERVED /\ FREE \notin PipeIds
  BY NamesAssumption
<1>3. \A p \in PipeIds : ~IsMatch(p)
  BY <1>1, <1>2, SlotInRange DEF IsMatch
<1>4. SlotsIndexed /\ HeldAlone /\ QueueKnown
  BY <1>1, <1>2, <1>3 DEF SlotsIndexed, HeldAlone, QueueKnown, Reserving
<1>5. NoOrphanQueue /\ SubscriptionsLive
  BY <1>1 DEF NoOrphanQueue, SubscriptionsLive
<1> QED BY <1>4, <1>5 DEF Holding

(* Most steps neither touch slots, queues and subscriptions nor move their  *)
(* task into or out of a reservation.                                       *)
ReservePCs == {"cr_queue", "cr_end", "del_drain", "del_queue", "del_end"}
Moves(t) ==
    /\ \A u \in Actors : u # t => loc'[u] = loc[u]
    /\ \/ loc[t].pc \notin ReservePCs /\ loc'[t].pc \notin ReservePCs
       \/ /\ loc[t].pc = "del_drain" /\ loc'[t].pc \in {"del_drain", "del_queue"}
          /\ loc'[t].pid = loc[t].pid
Slots0 == UNCHANGED <<pipeId, lastPipeId, qcap>>

(* What NoResurrection says of a step.                                      *)
BirthsNew ==
    /\ \A p \in PipeIds : /\ ~IsMatch(p) /\ IsMatch(p)' => Creating(p)
                          /\ ~Creating(p) /\ Creating(p)' => p > lastPipeId
    /\ lastPipeId' >= lastPipeId

LEMMA QuietStep ==
  ASSUME Typed, Holding, NEW t \in Actors, Slots0, UNCHANGED loc \/ Moves(t),
         \A m \in Msgs : \A p \in subs'[m] :
            p \in PipeIds /\ ((p \in subs[m] /\ m \in routes) \/ IsMatch(p)),
         \A m \in Msgs : subs'[m] # {} => m \in routes'
  PROVE  Holding' /\ BirthsNew
<1>0. /\ SlotsIndexed /\ HeldAlone /\ QueueKnown /\ NoOrphanQueue
      /\ SubscriptionsLive /\ pipeId' = pipeId /\ lastPipeId' = lastPipeId
      /\ qcap' = qcap
  BY DEF Holding, Slots0
<1>1. \A u \in Actors : /\ loc'[u].pc \in ReservePCs <=> loc[u].pc \in ReservePCs
                        /\ loc[u].pc \in ReservePCs => loc'[u].pid = loc[u].pid
                        /\ \/ loc'[u] = loc[u]
                           \/ loc'[u].pc \notin {"cr_queue", "cr_end"}
  BY DEF Moves, ReservePCs
<1>2. SlotsIndexed'
  BY <1>0 DEF SlotsIndexed
<1>3. HeldAlone'
  BY <1>0, <1>1 DEF HeldAlone, Reserving, ReservePCs
<1>4. \A p \in PipeIds : IsMatch(p)' <=> IsMatch(p)
  BY <1>0 DEF IsMatch
<1>5. QueueKnown'
  BY <1>0, <1>1, <1>4 DEF QueueKnown
<1>6. NoOrphanQueue'
  <2> SUFFICES ASSUME NEW p \in PipeIds, qcap[p] > 0, ~IsMatch(p)
               PROVE  \E u \in Actors : /\ loc'[u].pid = p
                                        /\ loc'[u].pc \in {"cr_end", "del_drain",
                                                           "del_queue"}
    BY <1>0, <1>4 DEF NoOrphanQueue
  <2>1. PICK u \in Actors : /\ loc[u].pid = p
                            /\ loc[u].pc \in {"cr_end", "del_drain", "del_queue"}
    BY <1>0 DEF NoOrphanQueue
  <2>2. /\ loc'[u].pid = p
        /\ loc'[u].pc \in {"cr_end", "del_drain", "del_queue"}
    BY <2>1 DEF Moves, ReservePCs
  <2> QED BY <2>2
<1>7. SubscriptionsLive'
  BY <1>0, <1>4 DEF SubscriptionsLive, QueueKnown
<1>8. \A p \in PipeIds : Creating(p)' => Creating(p)
  BY <1>1 DEF Creating, Actors, ReservePCs
<1>9. BirthsNew
  <2>1. lastPipeId \in Int
    BY SizesAssumption DEF Typed, TypeOK, PipeIds
  <2> QED BY <1>0, <1>4, <1>8, <2>1 DEF BirthsNew
<1> QED BY <1>2, <1>3, <1>5, <1>6, <1>7, <1>9 DEF Holding

LEMMA QuietRouting ==
  ASSUME Typed, Holding, UNCHANGED <<routes, subs>>
  PROVE  /\ \A m \in Msgs : \A p \in subs'[m] :
               p \in PipeIds /\ ((p \in subs[m] /\ m \in routes) \/ IsMatch(p))
         /\ \A m \in Msgs : subs'[m] # {} => m \in routes'
BY DEF Typed, TypeOK, Holding, SubscriptionsLive

LEMMA GotoMoves ==
  ASSUME Typed, NEW t \in Actors, NEW r, Goto(t, r),
         loc[t].pc \notin ReservePCs, r.pc \notin ReservePCs
  PROVE  Moves(t)
BY DEF Typed, TypeOK, Goto, Moves

LEMMA FinishMoves ==
  ASSUME Typed, NEW t \in Actors, Finish(t)
  PROVE  /\ \A u \in Actors : u # t => loc'[u] = loc[u]
         /\ loc'[t].pc \notin ReservePCs
<1>1. loc \in [Actors -> LocRecord]
  BY DEF Typed, TypeOK
<1>2. [Idle EXCEPT !.pc = "cl_next", !.app = loc[t].app].pc = "cl_next"
  BY DEF Idle
<1>3. Idle.pc = "idle"
  BY DEF Idle
<1> QED BY <1>1, <1>2, <1>3 DEF Finish, Goto, ReservePCs

(* The brackets of the API calls that neither create nor delete a pipe.     *)
LEMMA SubscribeHolding ==
  ASSUME Typed, Holding, NEW t \in Tasks,
         SetPipeOpts(t) \/ Subscribe(t) \/ Unsubscribe(t)
  PROVE  Holding' /\ BirthsNew
<1>0. t \in Actors /\ Issued \subseteq PipeIds
  BY IssuedIds DEF Actors
<1>1. Slots0 /\ UNCHANGED loc
  BY DEF SetPipeOpts, Subscribe, Unsubscribe, Slots0, tables, queues
<1>2. subs \in [Msgs -> SUBSET PipeIds] /\ routes \subseteq Msgs
  BY DEF Typed, TypeOK
<1>3. \A m \in Msgs : \A p \in subs[m] : p \in PipeIds /\ m \in routes
  BY <1>2 DEF Holding, SubscriptionsLive
<1>4. CASE SetPipeOpts(t)
  BY <1>0, <1>1, <1>4, QuietRouting, QuietStep DEF SetPipeOpts, routing
<1>5. CASE Subscribe(t)
  <2>1. CASE UNCHANGED subs
    <3>1. routes \subseteq routes'
      BY <1>5 DEF Subscribe
    <3> QED BY <1>0, <1>1, <1>3, <2>1, <3>1, QuietStep
  <2>2. CASE \E m \in Msgs, pid \in Issued :
               /\ IsMatch(pid) /\ routes' = routes \cup {m}
               /\ subs' = [subs EXCEPT ![m] = @ \cup {pid}]
    <3>1. PICK m \in Msgs, pid \in PipeIds :
               /\ IsMatch(pid) /\ routes' = routes \cup {m}
               /\ subs' = [subs EXCEPT ![m] = @ \cup {pid}]
      BY <1>0, <2>2
    <3>2. \A k \in Msgs : subs'[k] = IF k = m THEN subs[k] \cup {pid} ELSE subs[k]
      BY <1>2, <3>1
    <3>3. \A k \in Msgs : subs'[k] # {} => k \in routes'
      BY <1>3, <3>1, <3>2
    <3> QED BY <1>0, <1>1, <1>3, <3>1, <3>2, <3>3, QuietStep
  <2> QED BY <1>5, <2>1, <2>2 DEF Subscribe
<1>6. CASE Unsubscribe(t)
  <2>1. PICK m \in Msgs, pid \in PipeIds : subs' = [subs EXCEPT ![m] = @ \ {pid}]
    BY <1>0, <1>2, <1>6 DEF Unsubscribe
  <2>2. \A k \in Msgs : subs'[k] \subseteq subs[k]
    BY <1>2, <2>1
  <2>3. UNCHANGED routes
    BY <1>6 DEF Unsubscribe
  <2> QED BY <1>0, <1>1, <1>3, <2>2, <2>3, QuietStep
<1> QED BY <1>4, <1>5, <1>6

LEMMA TransmitHolding ==
  ASSUME Typed, Holding, NEW t \in Tasks,
         \/ TransmitMsg(t) \/ TransmitMsgAlloc(t) \/ TransmitMsgCast(t)
         \/ AllocateMessageBuffer(t) \/ ReleaseMessageBuffer(t)
         \/ ReleaseMessageBufferEnd(t) \/ TransmitBuffer(t)
         \/ TransmitBufferValidate(t) \/ TransmitBufferCast(t)
  PROVE  Holding' /\ BirthsNew
<1>0. t \in Actors
  BY DEF Actors
<1>1. Slots0 /\ UNCHANGED <<routes, subs>>
  BY Zenon DEF TransmitMsg, TransmitMsgAlloc, TransmitMsgCast, AllocateMessageBuffer,
         ReleaseMessageBuffer, ReleaseMessageBufferEnd, TransmitBuffer,
         TransmitBufferValidate, TransmitBufferCast, Broadcast, Slots0,
         tables, queues, routing
<1>2. loc[t].pc \notin ReservePCs
  BY Zenon DEF TransmitMsg, TransmitMsgAlloc, TransmitMsgCast, AllocateMessageBuffer,
         ReleaseMessageBuffer, ReleaseMessageBufferEnd, TransmitBuffer,
         TransmitBufferValidate, TransmitBufferCast, Starts, ReservePCs
<1>3. \/ UNCHANGED loc \/ Finish(t)
      \/ \E r : Goto(t, r) /\ r.pc \in {"tx_alloc", "tx_cast", "rel", "zc_check",
                                        "zc_cast"}
  <2>0. loc[t] \in LocRecord
    BY <1>0 DEF Typed, TypeOK
  <2>1. CASE TransmitMsg(t)
    <3>1. \A m : [Idle EXCEPT !.pc = "tx_alloc", !.msg = m].pc = "tx_alloc"
      BY DEF Idle
    <3> QED BY Zenon, <2>1, <3>1 DEF TransmitMsg
  <2>2. CASE TransmitMsgAlloc(t)
    <3>1. \A b : [loc[t] EXCEPT !.pc = "tx_cast", !.buf = b].pc = "tx_cast"
      BY <2>0 DEF LocRecord
    <3> QED BY Zenon, <2>2, <3>1 DEF TransmitMsgAlloc
  <2>3. CASE TransmitMsgCast(t) \/ TransmitBufferCast(t)
    BY Zenon, <2>3 DEF TransmitMsgCast, TransmitBufferCast, Broadcast
  <2>4. CASE AllocateMessageBuffer(t) \/ ReleaseMessageBufferEnd(t)
    BY <2>4 DEF AllocateMessageBuffer, ReleaseMessageBufferEnd
  <2>5. CASE ReleaseMessageBuffer(t)
    <3>1. [Idle EXCEPT !.pc = "rel", !.buf = hold[t]].pc = "rel"
      BY DEF Idle
    <3> QED BY <2>5, <3>1 DEF ReleaseMessageBuffer
  <2>6. CASE TransmitBuffer(t)
    <3>1. \A m, res : [Idle EXCEPT !.pc = "zc_check", !.buf = hold[t],
                                   !.msg = m, !.res = res].pc = "zc_check"
      BY DEF Idle
    <3>2. [Idle EXCEPT !.pc = "zc_check", !.buf = hold[t],
                       !.res = "invalid"].pc = "zc_check"
      BY DEF Idle
    <3> QED BY Zenon, <2>6, <3>1, <3>2 DEF TransmitBuffer
  <2>7. CASE TransmitBufferValidate(t)
    <3>1. \A res : [loc[t] EXCEPT !.pc = "zc_cast", !.res = res].pc = "zc_cast"
      BY <2>0 DEF LocRecord
    <3> QED BY <2>7, <3>1 DEF TransmitBufferValidate
  <2> QED BY <2>1, <2>2, <2>3, <2>4, <2>5, <2>6, <2>7
<1>4. UNCHANGED loc \/ Moves(t)
  <2>1. CASE Finish(t)
    BY <1>0, <1>2, <2>1, FinishMoves DEF Moves
  <2>2. CASE \E r : Goto(t, r) /\ r.pc \in {"tx_alloc", "tx_cast", "rel",
                                            "zc_check", "zc_cast"}
    BY <1>0, <1>2, <2>2, GotoMoves DEF ReservePCs
  <2> QED BY <1>3, <2>1, <2>2
<1> QED BY <1>0, <1>1, <1>4, QuietRouting, QuietStep

LEMMA ReceiveHolding ==
  ASSUME Typed, Holding, NEW t \in Tasks,
         \/ ReceiveBuffer(t) \/ ReceiveBadArgument(t)
         \/ ReceiveBufferGet(t) \/ ReceiveBufferEnd(t)
         \/ GetPipeIdByName(t) \/ GetPipeIdByNameEnd(t)
         \/ RouteCmd(t) \/ ResetCounters(t)
  PROVE  Holding' /\ BirthsNew
<1>0. t \in Actors
  BY DEF Actors
<1>1. Slots0 /\ UNCHANGED <<routes, subs>>
  BY Zenon DEF ReceiveBuffer, ReceiveFrom, ReceiveBadArgument, ReceiveBufferGet,
         ReceiveBufferEnd, GetPipeIdByName, GetPipeIdByNameEnd, RouteCmd,
         ResetCounters, Slots0, tables, queues, routing
<1>2. loc[t].pc \notin ReservePCs
  BY Zenon DEF ReceiveBuffer, ReceiveFrom, ReceiveBadArgument, ReceiveBufferGet,
         ReceiveBufferEnd, GetPipeIdByName, GetPipeIdByNameEnd, RouteCmd,
         ResetCounters, Starts, ReservePCs
<1>3. \/ UNCHANGED loc \/ Finish(t)
      \/ \E r : Goto(t, r) /\ r.pc \in {"rcv_get", "rcv_end", "by_name"}
  <2>0. loc[t] \in LocRecord
    BY <1>0 DEF Typed, TypeOK
  <2>1. CASE ReceiveBuffer(t)
    <3>1. \A pid, n : [Idle EXCEPT !.pc = "rcv_get", !.pid = pid, !.n = n].pc
                        = "rcv_get"
      BY DEF Idle
    <3> QED BY Zenon, <2>1, <3>1 DEF ReceiveBuffer, ReceiveFrom
  <2>2. CASE ReceiveBufferGet(t)
    <3>1. \A b, res : /\ [loc[t] EXCEPT !.pc = "rcv_end", !.n = 0, !.res = res,
                                        !.buf = b].pc = "rcv_end"
                      /\ [loc[t] EXCEPT !.pc = "rcv_end", !.n = 0,
                                        !.res = res].pc = "rcv_end"
      BY <2>0 DEF LocRecord
    <3> QED BY <2>2, <3>1 DEF ReceiveBufferGet
  <2>3. CASE ReceiveBadArgument(t) \/ RouteCmd(t) \/ ResetCounters(t)
    BY <2>3 DEF ReceiveBadArgument, RouteCmd, ResetCounters
  <2>4. CASE ReceiveBufferEnd(t) \/ GetPipeIdByNameEnd(t)
    BY <2>4 DEF ReceiveBufferEnd, GetPipeIdByNameEnd
  <2>5. CASE GetPipeIdByName(t)
    <3>1. \A pid : [Idle EXCEPT !.pc = "by_name", !.pid = pid].pc = "by_name"
      BY DEF Idle
    <3> QED BY Zenon, <2>5, <3>1 DEF GetPipeIdByName
  <2> QED BY <2>1, <2>2, <2>3, <2>4, <2>5
<1>4. UNCHANGED loc \/ Moves(t)
  <2>1. CASE Finish(t)
    BY <1>0, <1>2, <2>1, FinishMoves DEF Moves
  <2>2. CASE \E r : Goto(t, r) /\ r.pc \in {"rcv_get", "rcv_end", "by_name"}
    BY <1>0, <1>2, <2>2, GotoMoves DEF ReservePCs
  <2> QED BY <1>3, <2>1, <2>2
<1> QED BY <1>0, <1>1, <1>4, QuietRouting, QuietStep

(* ES cleaning up, apart from the deletion of a pipe.                       *)
LEMMA CleanUpHolding ==
  ASSUME Typed, Holding,
         \/ \E a \in Apps : CleanUpBegin(a)
         \/ CleanUpList \/ CleanUpZeroCopy \/ CleanUpEnd
         \/ \E t \in Tasks : KillTask(t)
  PROVE  Holding' /\ BirthsNew
<1>1. Slots0 /\ UNCHANGED <<routes, subs>>
  BY Zenon DEF CleanUpBegin, CleanUpList, CleanUpZeroCopy, CleanUpEnd, KillTask,
         Slots0, tables, queues, routing
<1>2. \E t \in Actors : \E r : /\ Goto(t, r) /\ loc[t].pc \notin ReservePCs
                               /\ r.pc \notin ReservePCs
  <2>0. Cleaner \in Actors /\ loc[Cleaner] \in LocRecord
    BY DEF Typed, TypeOK, Actors
  <2>1. ASSUME NEW a \in Apps, CleanUpBegin(a)
        PROVE  /\ Goto(Cleaner, [Idle EXCEPT !.pc = "cl_list", !.app = a])
               /\ loc[Cleaner].pc \notin ReservePCs
    BY Zenon, <2>1 DEF CleanUpBegin, ReservePCs
  <2>2. \A a : [Idle EXCEPT !.pc = "cl_list", !.app = a].pc \notin ReservePCs
    BY DEF Idle, ReservePCs
  <2>3. CASE CleanUpList
    <3>1. [loc[Cleaner] EXCEPT !.pc = "cl_next"].pc = "cl_next"
      BY <2>0 DEF LocRecord
    <3> QED BY <2>0, <2>3, <3>1 DEF CleanUpList, ReservePCs
  <2>4. CASE CleanUpZeroCopy
    <3>1. [loc[Cleaner] EXCEPT !.pc = "cl_kill"].pc = "cl_kill"
      BY <2>0 DEF LocRecord
    <3> QED BY <2>0, <2>4, <3>1 DEF CleanUpZeroCopy, ReservePCs
  <2>5. CASE CleanUpEnd
    BY <2>0, <2>5 DEF CleanUpEnd, ReservePCs, Idle
  <2>6. ASSUME NEW t \in Tasks, KillTask(t)
        PROVE  /\ Goto(t, [Idle EXCEPT !.pc = "dead"])
               /\ loc[t].pc \notin ReservePCs /\ t \in Actors
    BY <2>6 DEF KillTask, ReservePCs, Actors
  <2>7. [Idle EXCEPT !.pc = "dead"].pc \notin ReservePCs
    BY DEF Idle, ReservePCs
  <2> QED BY Zenon, <2>0, <2>1, <2>2, <2>3, <2>4, <2>5, <2>6, <2>7
<1> QED BY <1>1, <1>2, GotoMoves, QuietRouting, QuietStep

(* The brackets of CFE_SB_CreatePipe.                                       *)
LEMMA CreateBeginHolding ==
  ASSUME Typed, Holding, NEW t \in Tasks, CreatePipeBegin(t)
  PROVE  Holding' /\ BirthsNew
<1> DEFINE pid == FindNext(lastPipeId, MAX_PIPES, SerialMax,
                           {s \in Slots : SlotUsed(s)}, FREE)
           r(depth) == [Idle EXCEPT !.pc = "cr_queue", !.pid = pid,
                                    !.app = Caller(t), !.n = depth]
<1>0. /\ t \in Actors /\ lastPipeId \in PipeIds /\ lastPipeId + MAX_PIPES < SerialMax
      /\ UNCHANGED <<queues, routing>> /\ loc[t].pc = "idle"
      /\ loc \in [Actors -> LocRecord]
      /\ pipeId \in [Slots -> PipeIds \cup {FREE, RESERVED}]
  BY DEF Typed, TypeOK, Actors, CreatePipeBegin, Starts
<1>1. CASE UNCHANGED <<tables, loc>>
  <2>1. Slots0 /\ UNCHANGED <<routes, subs>>
    BY <1>0, <1>1 DEF Slots0, tables, queues, routing
  <2> QED BY <1>0, <1>1, <2>1, QuietRouting, QuietStep
<1>2. ASSUME NEW depth \in Depths, depth # 0, pid # FREE,
             pipeId' = [pipeId EXCEPT ![Slot(pid)] = RESERVED],
             lastPipeId' = pid, Goto(t, r(depth))
      PROVE  Holding' /\ BirthsNew
  <2>1. pid \in PipeIds /\ pid > lastPipeId /\ Slot(pid) \notin {s \in Slots : SlotUsed(s)}
    BY <1>0, <1>2, FindNextFresh
  <2> HIDE DEF pid
  <2>2. Slot(pid) \in Slots /\ pipeId[Slot(pid)] = FREE
    BY <2>1, SlotInRange DEF SlotUsed
  <2>3. /\ loc'[t].pc = "cr_queue" /\ loc'[t].pid = pid /\ loc'[t].n = depth
        /\ \A u \in Actors : u # t => loc'[u] = loc[u]
    BY <1>0, <1>2 DEF Goto, Idle
  <2> HIDE DEF r
  <2>4. /\ \A s \in Slots : pipeId'[s] = IF s = Slot(pid) THEN RESERVED ELSE pipeId[s]
        /\ qcap' = qcap /\ subs' = subs /\ routes' = routes /\ depth > 0
        /\ pid \in Int /\ lastPipeId \in Int
    BY <1>0, <1>2, <2>1, EnvironmentAssumption, SizesAssumption
       DEF queues, routing, PipeIds
  <2>5. /\ FREE \notin PipeIds /\ RESERVED \notin PipeIds /\ FREE # RESERVED
    BY NamesAssumption
  <2>6. \A p \in PipeIds : IsMatch(p)' <=> IsMatch(p)
    BY <2>2, <2>4, <2>5, SlotInRange DEF IsMatch
  <2>7. SlotsIndexed'
    <3> SUFFICES ASSUME NEW s \in Slots, pipeId'[s] \in PipeIds
                 PROVE  Slot(pipeId'[s]) = s /\ pipeId'[s] <= pid
      BY <1>2 DEF SlotsIndexed
    <3>1. pipeId'[s] = pipeId[s]
      BY <2>4, <2>5
    <3>2. Slot(pipeId[s]) = s /\ pipeId[s] <= lastPipeId /\ pipeId[s] \in Int
      BY <3>1, SizesAssumption DEF Holding, SlotsIndexed, PipeIds
    <3> QED BY <2>1, <2>4, <3>1, <3>2
  <2>8. HeldAlone'
    <3>1. \A u \in Actors : u # t => (Reserving(u)' <=> Reserving(u))
      BY <2>3 DEF Reserving
    <3>2. Reserving(t)' /\ ~Reserving(t)
      BY <1>0, <2>3 DEF Reserving
    <3>3. \A u \in Actors : Reserving(u) =>
             /\ loc[u].pid \in PipeIds /\ pipeId[Slot(loc[u].pid)] = RESERVED
             /\ loc[u].pid <= lastPipeId /\ Slot(loc[u].pid) # Slot(pid)
             /\ Slot(loc[u].pid) \in Slots /\ loc[u].pid \in Int
      BY <2>2, <2>5, SlotInRange, SizesAssumption
         DEF Holding, HeldAlone, Reserving, Typed, Locals, Promise, OnPipeId, PipeIds
    <3>4. \A u \in Actors : Reserving(u)' =>
             pipeId'[Slot(loc'[u].pid)] = RESERVED /\ loc'[u].pid <= pid
      BY <2>1, <2>2, <2>3, <2>4, <3>1, <3>3
    <3>5. \A u, v \in Actors :
             Reserving(u)' /\ Reserving(v)' /\ Slot(loc'[u].pid) = Slot(loc'[v].pid)
                => u = v
      BY <2>3, <3>1, <3>3 DEF Holding, HeldAlone
    <3>6. \A s \in Slots : pipeId'[s] = RESERVED =>
             \E u \in Actors : Reserving(u)' /\ Slot(loc'[u].pid) = s
      <4> SUFFICES ASSUME NEW s \in Slots, pipeId'[s] = RESERVED
                   PROVE  \E u \in Actors : Reserving(u)' /\ Slot(loc'[u].pid) = s
        OBVIOUS
      <4>1. CASE s = Slot(pid)
        BY <1>0, <2>3, <3>2, <4>1
      <4>2. CASE s # Slot(pid)
        <5>1. PICK u \in Actors : Reserving(u) /\ Slot(loc[u].pid) = s
          BY <2>4, <4>2 DEF Holding, HeldAlone
        <5> QED BY <2>3, <3>1, <3>2, <5>1
      <4> QED BY <4>1, <4>2
    <3> QED BY <1>2, <3>4, <3>5, <3>6 DEF HeldAlone
  <2>9. qcap[pid] = 0
    <3>1. ~(qcap[pid] > 0)
      <4> SUFFICES ASSUME qcap[pid] > 0 PROVE FALSE
        OBVIOUS
      <4>1. ~IsMatch(pid)
        BY <2>2, <2>5, <2>1 DEF IsMatch
      <4>2. PICK u \in Actors : Reserving(u) /\ loc[u].pid = pid
        BY <2>1, <4>1 DEF Holding, NoOrphanQueue, Reserving
      <4>3. pid <= lastPipeId
        BY <4>2 DEF Holding, HeldAlone
      <4> QED BY <2>1, <2>4, <4>3
    <3>2. qcap[pid] \in Nat
      BY <2>1 DEF Typed, TypeOK
    <3> QED BY <3>1, <3>2
  <2>10. QueueKnown'
    <3>1. \A p \in PipeIds : IsMatch(p)' => qcap'[p] > 0
      BY <2>4, <2>6 DEF Holding, QueueKnown
    <3>2. \A u \in Actors :
            /\ loc'[u].pc = "cr_queue" => loc'[u].n > 0 /\ qcap'[loc'[u].pid] = 0
            /\ loc'[u].pc = "cr_end" => IF loc'[u].res = "ok"
                                          THEN qcap'[loc'[u].pid] > 0
                                          ELSE qcap'[loc'[u].pid] = 0
      BY <2>3, <2>4, <2>9 DEF Holding, QueueKnown
    <3> QED BY <3>1, <3>2 DEF QueueKnown
  <2>11. NoOrphanQueue'
    <3> SUFFICES ASSUME NEW p \in PipeIds, qcap[p] > 0, ~IsMatch(p)
                 PROVE  \E u \in Actors : /\ loc'[u].pid = p
                                          /\ loc'[u].pc \in {"cr_end", "del_drain",
                                                             "del_queue"}
      BY <2>4, <2>6 DEF NoOrphanQueue
    <3>1. PICK u \in Actors : /\ loc[u].pid = p
                              /\ loc[u].pc \in {"cr_end", "del_drain", "del_queue"}
      BY DEF Holding, NoOrphanQueue
    <3> QED BY <1>0, <2>3, <3>1
  <2>12. SubscriptionsLive'
    <3>1. \A m \in Msgs : subs[m] \subseteq PipeIds
      BY DEF Typed, TypeOK
    <3> QED BY <2>4, <2>6, <3>1 DEF Holding, SubscriptionsLive
  <2>13. BirthsNew
    <3>1. \A p \in PipeIds : Creating(p)' => Creating(p) \/ p = pid
      BY <2>3 DEF Creating, Actors
    <3>2. lastPipeId' >= lastPipeId
      BY <1>2, <2>1, <2>4
    <3> QED BY <2>1, <2>6, <3>1, <3>2 DEF BirthsNew
  <2> QED BY <2>7, <2>8, <2>10, <2>11, <2>12, <2>13 DEF Holding
<1> HIDE DEF pid
<1>3. \/ UNCHANGED <<tables, loc>>
      \/ \E depth \in Depths : /\ depth # 0 /\ pid # FREE
                               /\ pipeId' = [pipeId EXCEPT ![Slot(pid)] = RESERVED]
                               /\ lastPipeId' = pid /\ Goto(t, r(depth))
  BY Zenon DEF CreatePipeBegin, pid
<1> QED BY Zenon, <1>1, <1>2, <1>3

(* What a reservation means for the pipe ID of the task.                    *)
LEMMA ReservationFacts ==
  ASSUME Typed, Holding, NEW t \in Actors, Reserving(t)
  PROVE  /\ loc[t].pid \in PipeIds /\ Slot(loc[t].pid) \in Slots
         /\ pipeId[Slot(loc[t].pid)] = RESERVED /\ loc[t].pid <= lastPipeId
         /\ ~IsMatch(loc[t].pid)
         /\ \A u \in Actors : u # t /\ Reserving(u) =>
               Slot(loc[u].pid) # Slot(loc[t].pid) /\ loc[u].pid # loc[t].pid
<1>1. loc[t].pid \in PipeIds
  BY DEF Typed, Locals, Promise, Reserving, OnPipeId
<1>2. pipeId[Slot(loc[t].pid)] = RESERVED /\ loc[t].pid <= lastPipeId
  BY DEF Holding, HeldAlone
<1>3. ~IsMatch(loc[t].pid)
  BY <1>1, <1>2, NamesAssumption DEF IsMatch
<1>4. \A u \in Actors : u # t /\ Reserving(u) => Slot(loc[u].pid) # Slot(loc[t].pid)
  BY DEF Holding, HeldAlone
<1> QED BY <1>1, <1>2, <1>3, <1>4, SlotInRange

(* A task that makes or deletes the queue of the pipe it reserves.          *)
LEMMA QueueStep ==
  ASSUME Typed, Holding, NEW t \in Actors, Reserving(t), NEW n \in Nat,
         qcap' = [qcap EXCEPT ![loc[t].pid] = n],
         UNCHANGED <<pipeId, lastPipeId, routes, subs>>,
         \A u \in Actors : u # t => loc'[u] = loc[u],
         loc'[t].pid = loc[t].pid,
         \/ /\ loc[t].pc = "cr_queue" /\ loc'[t].pc = "cr_end"
            /\ IF loc'[t].res = "ok" THEN n > 0 ELSE n = 0
         \/ loc'[t].pc = "del_end" /\ n = 0
  PROVE  Holding' /\ BirthsNew
<1> DEFINE pid == loc[t].pid
<1>0. /\ pid \in PipeIds /\ ~IsMatch(pid)
      /\ \A u \in Actors : u # t /\ Reserving(u) => loc[u].pid # pid
  BY ReservationFacts
<1>1. \A p \in PipeIds : qcap'[p] = IF p = pid THEN n ELSE qcap[p]
  BY <1>0 DEF Typed, TypeOK
<1>2. \A p \in PipeIds : IsMatch(p)' <=> IsMatch(p)
  BY DEF IsMatch
<1>3. /\ \A u \in Actors : Reserving(u)' <=> Reserving(u)
      /\ \A u \in Actors : Reserving(u) => loc'[u].pid = loc[u].pid
  BY DEF Reserving
<1>4. SlotsIndexed'
  BY DEF Holding, SlotsIndexed
<1>5. HeldAlone'
  BY <1>3 DEF Holding, HeldAlone
<1>6. QueueKnown'
  <2>1. \A p \in PipeIds : IsMatch(p)' => qcap'[p] > 0
    BY <1>0, <1>1, <1>2 DEF Holding, QueueKnown
  <2>2. ASSUME NEW u \in Actors
        PROVE  /\ loc'[u].pc = "cr_queue" => loc'[u].n > 0 /\ qcap'[loc'[u].pid] = 0
               /\ loc'[u].pc = "cr_end" => IF loc'[u].res = "ok"
                                             THEN qcap'[loc'[u].pid] > 0
                                             ELSE qcap'[loc'[u].pid] = 0
    <3>1. CASE u = t
      BY <1>0, <1>1, <3>1
    <3>2. CASE u # t /\ loc[u].pc \in {"cr_queue", "cr_end"}
      <4>1. Reserving(u) /\ loc'[u] = loc[u]
        BY <3>2 DEF Reserving
      <4>2. loc[u].pid \in PipeIds /\ loc[u].pid # pid
        BY <1>0, <3>2, <4>1, ReservationFacts
      <4>3. qcap'[loc[u].pid] = qcap[loc[u].pid]
        BY <1>1, <4>2
      <4> QED BY <4>1, <4>3 DEF Holding, QueueKnown
    <3>3. CASE u # t /\ loc[u].pc \notin {"cr_queue", "cr_end"}
      BY <3>3
    <3> QED BY <3>1, <3>2, <3>3
  <2> QED BY <2>1, <2>2 DEF QueueKnown
<1>7. NoOrphanQueue'
  <2> SUFFICES ASSUME NEW p \in PipeIds, qcap'[p] > 0, ~IsMatch(p)
               PROVE  \E u \in Actors : /\ loc'[u].pid = p
                                        /\ loc'[u].pc \in {"cr_end", "del_drain",
                                                           "del_queue"}
    BY <1>2 DEF NoOrphanQueue
  <2>1. CASE p = pid
    BY <1>1, <2>1
  <2>2. CASE p # pid
    <3>1. PICK u \in Actors : /\ loc[u].pid = p
                              /\ loc[u].pc \in {"cr_end", "del_drain", "del_queue"}
      BY <1>1, <2>2 DEF Holding, NoOrphanQueue
    <3> QED BY <2>2, <3>1
  <2> QED BY <2>1, <2>2
<1>8. SubscriptionsLive'
  <2>1. \A m \in Msgs : subs[m] \subseteq PipeIds
    BY DEF Typed, TypeOK
  <2> QED BY <1>0, <1>1, <1>2, <2>1 DEF Holding, SubscriptionsLive
<1>9. BirthsNew
  <2>1. \A p \in PipeIds : Creating(p)' => Creating(p)
    BY DEF Creating, Actors
  <2>2. lastPipeId \in Int
    BY SizesAssumption DEF Typed, TypeOK, PipeIds
  <2> QED BY <1>2, <2>1, <2>2 DEF BirthsNew
<1> QED BY <1>4, <1>5, <1>6, <1>7, <1>8, <1>9 DEF Holding

(* A task that gives up its reservation: the pipe is published with its     *)
(* queue, or the slot is free and there is no queue.                        *)
LEMMA ReleaseStep ==
  ASSUME Typed, Holding, NEW t \in Actors, Reserving(t),
         NEW v, pipeId' = [pipeId EXCEPT ![Slot(loc[t].pid)] = v],
         \/ v = loc[t].pid /\ qcap[loc[t].pid] > 0 /\ Creating(loc[t].pid)
         \/ v = FREE /\ qcap[loc[t].pid] = 0,
         UNCHANGED <<lastPipeId, qcap, routes, subs>>, Finish(t)
  PROVE  Holding' /\ BirthsNew
<1> DEFINE pid == loc[t].pid
<1>0. /\ pid \in PipeIds /\ Slot(pid) \in Slots /\ pipeId[Slot(pid)] = RESERVED
      /\ pid <= lastPipeId /\ ~IsMatch(pid)
      /\ \A u \in Actors : u # t /\ Reserving(u) =>
            Slot(loc[u].pid) # Slot(pid) /\ loc[u].pid # pid
  BY ReservationFacts
<1>1. \A s \in Slots : pipeId'[s] = IF s = Slot(pid) THEN v ELSE pipeId[s]
  BY <1>0 DEF Typed, TypeOK
<1>2. FREE \notin PipeIds /\ RESERVED \notin PipeIds /\ FREE # RESERVED
  BY NamesAssumption
<1>3. /\ \A u \in Actors : u # t => loc'[u] = loc[u]
      /\ loc'[t].pc \notin ReservePCs
  BY FinishMoves
<1>4. \A u \in Actors : Reserving(u)' <=> u # t /\ Reserving(u)
  BY <1>3 DEF Reserving, ReservePCs
<1>5. \A p \in PipeIds : IsMatch(p)' <=> IsMatch(p) \/ (p = pid /\ v = pid)
  <2> TAKE p \in PipeIds
  <2>1. Slot(p) \in Slots
    BY SlotInRange
  <2> QED BY <1>0, <1>1, <1>2, <2>1 DEF IsMatch
<1>6. SlotsIndexed'
  BY <1>0, <1>1, <1>2 DEF Holding, SlotsIndexed
<1>7. HeldAlone'
  <2>1. \A u \in Actors : Reserving(u) => Slot(loc[u].pid) \in Slots
    BY ReservationFacts
  <2>2. \A u \in Actors : Reserving(u)' =>
           pipeId'[Slot(loc'[u].pid)] = RESERVED /\ loc'[u].pid <= lastPipeId
    BY <1>0, <1>1, <1>3, <1>4, <2>1 DEF Holding, HeldAlone
  <2>3. \A u, w \in Actors :
           Reserving(u)' /\ Reserving(w)' /\ Slot(loc'[u].pid) = Slot(loc'[w].pid)
              => u = w
    BY <1>3, <1>4 DEF Holding, HeldAlone
  <2>4. \A s \in Slots : pipeId'[s] = RESERVED =>
           \E u \in Actors : Reserving(u)' /\ Slot(loc'[u].pid) = s
    <3> SUFFICES ASSUME NEW s \in Slots, pipeId'[s] = RESERVED
                 PROVE  \E u \in Actors : Reserving(u)' /\ Slot(loc'[u].pid) = s
      OBVIOUS
    <3>1. s # Slot(pid) /\ pipeId[s] = RESERVED
      BY <1>0, <1>1, <1>2
    <3>2. PICK u \in Actors : Reserving(u) /\ Slot(loc[u].pid) = s
      BY <3>1 DEF Holding, HeldAlone
    <3> QED BY <1>3, <1>4, <3>1, <3>2
  <2> QED BY <2>2, <2>3, <2>4 DEF HeldAlone
<1>8. QueueKnown'
  <2>1. \A p \in PipeIds : IsMatch(p)' => qcap[p] > 0
    BY <1>0, <1>2, <1>5 DEF Holding, QueueKnown
  <2>2. \A u \in Actors :
           /\ loc'[u].pc = "cr_queue" => loc'[u].n > 0 /\ qcap[loc'[u].pid] = 0
           /\ loc'[u].pc = "cr_end" => IF loc'[u].res = "ok"
                                         THEN qcap[loc'[u].pid] > 0
                                         ELSE qcap[loc'[u].pid] = 0
    BY <1>3 DEF Holding, QueueKnown, ReservePCs
  <2> QED BY <2>1, <2>2 DEF QueueKnown
<1>9. NoOrphanQueue'
  <2> SUFFICES ASSUME NEW p \in PipeIds, qcap[p] > 0, ~IsMatch(p)'
               PROVE  \E u \in Actors : /\ loc'[u].pid = p
                                        /\ loc'[u].pc \in {"cr_end", "del_drain",
                                                           "del_queue"}
    BY DEF NoOrphanQueue
  <2>1. p # pid /\ ~IsMatch(p)
    BY <1>5
  <2>2. PICK u \in Actors : /\ loc[u].pid = p
                            /\ loc[u].pc \in {"cr_end", "del_drain", "del_queue"}
    BY <2>1 DEF Holding, NoOrphanQueue
  <2> QED BY <1>3, <2>1, <2>2
<1>10. SubscriptionsLive'
  <2>1. \A m \in Msgs : subs[m] \subseteq PipeIds
    BY DEF Typed, TypeOK
  <2> QED BY <1>5, <2>1 DEF Holding, SubscriptionsLive
<1>11. BirthsNew
  <2>1. \A p \in PipeIds : Creating(p)' => Creating(p)
    BY <1>3 DEF Creating, Actors, ReservePCs
  <2>2. lastPipeId \in Int
    BY SizesAssumption DEF Typed, TypeOK, PipeIds
  <2>3. \A p \in PipeIds : ~IsMatch(p) /\ IsMatch(p)' => Creating(p)
    BY <1>0, <1>2, <1>5
  <2> QED BY <2>1, <2>2, <2>3 DEF BirthsNew
<1> QED BY <1>6, <1>7, <1>8, <1>9, <1>10, <1>11 DEF Holding

LEMMA CreateHolding ==
  ASSUME Typed, Holding, NEW t \in Tasks, CreatePipeQueue(t) \/ CreatePipeEnd(t)
  PROVE  Holding' /\ BirthsNew
<1>0. t \in Actors /\ Reserving(t) /\ loc \in [Actors -> LocRecord]
  BY DEF CreatePipeQueue, CreatePipeEnd, Reserving, Actors, Typed, TypeOK
<1>1. loc[t] \in LocRecord /\ loc[t].pid \in PipeIds
  BY <1>0, ReservationFacts
<1>2. CASE CreatePipeQueue(t)
  <2>1. UNCHANGED <<pipeId, lastPipeId, routes, subs>> /\ loc[t].pc = "cr_queue"
    BY <1>2 DEF CreatePipeQueue, tables, routing
  <2>2. loc[t].n \in Nat /\ loc[t].n > 0 /\ qcap[loc[t].pid] = 0
    BY <1>0, <1>1, <2>1 DEF Holding, QueueKnown, LocRecord
  <2> DEFINE r(res) == [loc[t] EXCEPT !.pc = "cr_end", !.res = res]
  <2>3. \A res \in {"ok", "error"} :
           r(res).pc = "cr_end" /\ r(res).res = res /\ r(res).pid = loc[t].pid
    BY <1>1 DEF LocRecord
  <2> HIDE DEF r
  <2>4. CASE qcap' = [qcap EXCEPT ![loc[t].pid] = loc[t].n] /\ Goto(t, r("ok"))
    <3>1. loc'[t] = r("ok") /\ \A u \in Actors : u # t => loc'[u] = loc[u]
      BY <1>0, <2>4 DEF Goto
    <3> QED BY <1>0, <2>1, <2>2, <2>3, <2>4, <3>1, QueueStep
  <2>5. CASE UNCHANGED queues /\ Goto(t, r("error"))
    <3>1. loc'[t] = r("error") /\ \A u \in Actors : u # t => loc'[u] = loc[u]
      BY <1>0, <2>5 DEF Goto
    <3>2. qcap' = [qcap EXCEPT ![loc[t].pid] = 0]
      BY <1>1, <2>2, <2>5 DEF queues, Typed, TypeOK
    <3> QED BY <1>0, <2>1, <2>3, <3>1, <3>2, QueueStep
  <2> QED BY <1>2, <2>4, <2>5 DEF CreatePipeQueue, r
<1>3. CASE CreatePipeEnd(t)
  <2>1. /\ UNCHANGED <<lastPipeId, qcap, routes, subs>> /\ Finish(t)
        /\ loc[t].pc = "cr_end"
    BY <1>3 DEF CreatePipeEnd, queues, routing
  <2>2. IF loc[t].res = "ok" THEN qcap[loc[t].pid] > 0 ELSE qcap[loc[t].pid] = 0
    BY <1>0, <2>1 DEF Holding, QueueKnown
  <2>3. \/ /\ loc[t].res = "ok"
           /\ pipeId' = [pipeId EXCEPT ![Slot(loc[t].pid)] = loc[t].pid]
        \/ /\ loc[t].res = "error"
           /\ pipeId' = [pipeId EXCEPT ![Slot(loc[t].pid)] = FREE]
    BY <1>3 DEF CreatePipeEnd
  <2>4. Creating(loc[t].pid)
    BY <2>1 DEF Creating
  <2> QED BY <1>0, <2>1, <2>2, <2>3, <2>4, ReleaseStep
<1> QED BY <1>2, <1>3

(* CFE_SB_DeletePipeFull unsubscribes the pipe everywhere before it takes   *)
(* the slot, so no destination is left behind.                              *)
LEMMA DeletePipeFullHolding ==
  ASSUME Typed, Holding, NEW t \in Actors, NEW pid \in PipeIds, NEW app,
         loc[t].pc \notin ReservePCs, DeletePipeFull(t, pid, app)
  PROVE  Holding' /\ BirthsNew
<1> DEFINE from == {m \in routes : pid \in subs[m]}
           r == [Idle EXCEPT !.pc = "del_drain", !.pid = pid,
                             !.buf = pipe[Slot(pid)].last, !.app = app]
<1>0. /\ UNCHANGED <<lastPipeId, qcap, routes>> /\ loc \in [Actors -> LocRecord]
      /\ pipeId \in [Slots -> PipeIds \cup {FREE, RESERVED}]
      /\ Slot(pid) \in Slots /\ subs \in [Msgs -> SUBSET PipeIds]
  BY SlotInRange DEF DeletePipeFull, queues, Typed, TypeOK
<1>1. CASE Finish(t) /\ UNCHANGED <<pipeId, subs>>
  <2>1. Moves(t)
    BY <1>1, FinishMoves DEF Moves
  <2>2. Slots0 /\ UNCHANGED <<routes, subs>>
    BY <1>0, <1>1 DEF Slots0
  <2> QED BY <2>1, <2>2, QuietRouting, QuietStep
<1>2. CASE /\ IsMatch(pid)
           /\ subs' = [m \in Msgs |-> IF m \in from THEN subs[m] \ {pid}
                                                    ELSE subs[m]]
           /\ pipeId' = [pipeId EXCEPT ![Slot(pid)] = RESERVED]
           /\ Goto(t, r)
  <2>1. /\ loc'[t].pc = "del_drain" /\ loc'[t].pid = pid
        /\ \A u \in Actors : u # t => loc'[u] = loc[u]
    BY <1>0, <1>2 DEF Goto, Idle
  <2>2. /\ \A s \in Slots : pipeId'[s] = IF s = Slot(pid) THEN RESERVED ELSE pipeId[s]
        /\ pipeId[Slot(pid)] = pid
    BY <1>0, <1>2 DEF IsMatch
  <2>3. /\ FREE \notin PipeIds /\ RESERVED \notin PipeIds /\ FREE # RESERVED
    BY NamesAssumption
  <2>4. \A p \in PipeIds : IsMatch(p)' <=> IsMatch(p) /\ p # pid
    <3> TAKE p \in PipeIds
    <3>1. Slot(p) \in Slots
      BY SlotInRange
    <3> QED BY <2>2, <2>3, <3>1 DEF IsMatch
  <2>5. SlotsIndexed'
    BY <1>0, <2>2, <2>3 DEF Holding, SlotsIndexed
  <2>6. \A u \in Actors : Reserving(u)' <=> u = t \/ Reserving(u)
    BY <2>1 DEF Reserving
  <2>7. /\ ~Reserving(t)
        /\ \A u \in Actors : Reserving(u) =>
              /\ Slot(loc[u].pid) \in Slots /\ pipeId[Slot(loc[u].pid)] = RESERVED
              /\ Slot(loc[u].pid) # Slot(pid)
    BY <2>2, <2>3, ReservationFacts DEF Reserving, ReservePCs
  <2>8. pid <= lastPipeId
    BY <1>0, <2>2 DEF Holding, SlotsIndexed
  <2>9. HeldAlone'
    <3>1. \A u \in Actors : Reserving(u)' =>
             pipeId'[Slot(loc'[u].pid)] = RESERVED /\ loc'[u].pid <= lastPipeId
      BY <1>0, <2>1, <2>2, <2>6, <2>7, <2>8 DEF Holding, HeldAlone
    <3>2. \A u, w \in Actors :
             Reserving(u)' /\ Reserving(w)' /\ Slot(loc'[u].pid) = Slot(loc'[w].pid)
                => u = w
      BY <2>1, <2>6, <2>7 DEF Holding, HeldAlone
    <3>3. \A s \in Slots : pipeId'[s] = RESERVED =>
             \E u \in Actors : Reserving(u)' /\ Slot(loc'[u].pid) = s
      <4> SUFFICES ASSUME NEW s \in Slots, pipeId'[s] = RESERVED
                   PROVE  \E u \in Actors : Reserving(u)' /\ Slot(loc'[u].pid) = s
        OBVIOUS
      <4>1. CASE s = Slot(pid)
        BY <2>1, <2>6, <4>1
      <4>2. CASE s # Slot(pid)
        <5>1. PICK u \in Actors : Reserving(u) /\ Slot(loc[u].pid) = s
          BY <2>2, <4>2 DEF Holding, HeldAlone
        <5> QED BY <2>1, <2>6, <2>7, <5>1
      <4> QED BY <4>1, <4>2
    <3> QED BY <1>0, <3>1, <3>2, <3>3 DEF HeldAlone
  <2>10. QueueKnown'
    <3>1. \A p \in PipeIds : IsMatch(p)' => qcap[p] > 0
      BY <2>4 DEF Holding, QueueKnown
    <3>2. \A u \in Actors :
             /\ loc'[u].pc = "cr_queue" => loc'[u].n > 0 /\ qcap[loc'[u].pid] = 0
             /\ loc'[u].pc = "cr_end" => IF loc'[u].res = "ok"
                                           THEN qcap[loc'[u].pid] > 0
                                           ELSE qcap[loc'[u].pid] = 0
      BY <2>1 DEF Holding, QueueKnown
    <3> QED BY <1>0, <3>1, <3>2 DEF QueueKnown
  <2>11. NoOrphanQueue'
    <3> SUFFICES ASSUME NEW p \in PipeIds, qcap[p] > 0, ~IsMatch(p)'
                 PROVE  \E u \in Actors : /\ loc'[u].pid = p
                                          /\ loc'[u].pc \in {"cr_end", "del_drain",
                                                             "del_queue"}
      BY <1>0 DEF NoOrphanQueue
    <3>1. CASE p = pid
      BY <2>1, <3>1
    <3>2. CASE p # pid
      <4>1. PICK u \in Actors : /\ loc[u].pid = p
                                /\ loc[u].pc \in {"cr_end", "del_drain", "del_queue"}
        BY <2>4, <3>2 DEF Holding, NoOrphanQueue
      <4> QED BY <2>1, <2>7, <4>1 DEF Reserving
    <3> QED BY <3>1, <3>2
  <2>12. SubscriptionsLive'
    <3>1. \A m \in Msgs : \A p \in subs[m] :
             p \in PipeIds /\ m \in routes /\ IsMatch(p) /\ qcap[p] > 0
      BY <1>0 DEF Holding, SubscriptionsLive
    <3>2. \A m \in Msgs : \A p \in subs'[m] : p \in subs[m] /\ p # pid
      BY <1>2, <3>1
    <3> QED BY <1>0, <2>4, <3>1, <3>2 DEF SubscriptionsLive
  <2>13. BirthsNew
    <3>1. \A p \in PipeIds : Creating(p)' => Creating(p)
      BY <2>1 DEF Creating, Actors
    <3>2. lastPipeId \in Int
      BY SizesAssumption DEF Typed, TypeOK, PipeIds
    <3> QED BY <1>0, <2>4, <3>1, <3>2 DEF BirthsNew
  <2> QED BY <2>5, <2>9, <2>10, <2>11, <2>12, <2>13 DEF Holding
<1> QED BY <1>1, <1>2 DEF DeletePipeFull

LEMMA DeletePipeHolding ==
  ASSUME Typed, Holding, CleanUpDeletePipe \/ \E t \in Tasks : DeletePipe(t)
  PROVE  Holding' /\ BirthsNew
<1>1. CASE CleanUpDeletePipe
  <2>1. PICK pid \in todo : DeletePipeFull(Cleaner, pid, loc[Cleaner].app)
    BY <1>1 DEF CleanUpDeletePipe
  <2>2. /\ pid \in PipeIds /\ Cleaner \in Actors
        /\ loc[Cleaner].pc \notin ReservePCs
    BY <1>1 DEF Typed, TypeOK, Actors, CleanUpDeletePipe, ReservePCs
  <2> QED BY <2>1, <2>2, DeletePipeFullHolding
<1>2. ASSUME NEW t \in Tasks, DeletePipe(t)
      PROVE  Holding' /\ BirthsNew
  <2>1. PICK pid \in Issued : DeletePipeFull(t, pid, Caller(t))
    BY <1>2 DEF DeletePipe
  <2>2. pid \in PipeIds /\ t \in Actors /\ loc[t].pc \notin ReservePCs
    BY <1>2, IssuedIds DEF Actors, DeletePipe, Starts, ReservePCs
  <2> QED BY <2>1, <2>2, DeletePipeFullHolding
<1> QED BY <1>1, <1>2

LEMMA DeleteStepHolding ==
  ASSUME Typed, Holding, NEW t \in Actors, DeleteStep(t)
  PROVE  Holding' /\ BirthsNew
<1>0. loc \in [Actors -> LocRecord] /\ loc[t] \in LocRecord /\ Reserving(t)
  BY DEF Typed, TypeOK, DeleteStep, DeletePipeDrain, DeletePipeQueue,
         DeletePipeEnd, Reserving
<1>1. CASE DeletePipeDrain(t)
  <2>1. /\ Slots0 /\ UNCHANGED <<routes, subs>> /\ loc[t].pc = "del_drain"
    BY <1>1 DEF DeletePipeDrain, Slots0, tables, routing
  <2>2. \E r : /\ Goto(t, r) /\ r.pc \in {"del_drain", "del_queue"}
               /\ r.pid = loc[t].pid
    <3>1. \A b : LET r == [loc[t] EXCEPT !.buf = b]
                 IN  r.pc = "del_drain" /\ r.pid = loc[t].pid
      BY <1>0, <2>1 DEF LocRecord
    <3>2. LET r == [loc[t] EXCEPT !.pc = "del_queue"]
          IN  r.pc = "del_queue" /\ r.pid = loc[t].pid
      BY <1>0 DEF LocRecord
    <3> QED BY <1>1, <3>1, <3>2 DEF DeletePipeDrain
  <2>3. Moves(t)
    BY <1>0, <2>1, <2>2 DEF Goto, Moves
  <2> QED BY <2>1, <2>3, QuietRouting, QuietStep
<1>2. CASE DeletePipeQueue(t)
  <2> DEFINE r == [loc[t] EXCEPT !.pc = "del_end"]
  <2>1. r.pc = "del_end" /\ r.pid = loc[t].pid
    BY <1>0 DEF LocRecord
  <2>2. /\ qcap' = [qcap EXCEPT ![loc[t].pid] = 0] /\ Goto(t, r)
        /\ UNCHANGED <<pipeId, lastPipeId, routes, subs>>
    BY <1>2 DEF DeletePipeQueue, tables, routing
  <2> HIDE DEF r
  <2>3. loc'[t] = r /\ \A u \in Actors : u # t => loc'[u] = loc[u]
    BY <1>0, <2>2 DEF Goto
  <2> QED BY <1>0, <2>1, <2>2, <2>3, QueueStep
<1>3. CASE DeletePipeEnd(t)
  <2>1. /\ pipeId' = [pipeId EXCEPT ![Slot(loc[t].pid)] = FREE] /\ Finish(t)
        /\ UNCHANGED <<lastPipeId, qcap, routes, subs>> /\ loc[t].pc = "del_end"
    BY <1>3 DEF DeletePipeEnd, queues, routing
  <2>2. qcap[loc[t].pid] = 0
    <3>1. loc[t].pid \in PipeIds /\ ~IsMatch(loc[t].pid)
      BY <1>0, ReservationFacts
    <3>2. \A u \in Actors : loc[u].pid = loc[t].pid =>
             loc[u].pc \notin {"cr_end", "del_drain", "del_queue"}
      BY <1>0, <2>1, ReservationFacts DEF Reserving
    <3>3. ~(qcap[loc[t].pid] > 0)
      BY <3>1, <3>2 DEF Holding, NoOrphanQueue
    <3>4. qcap[loc[t].pid] \in Nat
      BY <3>1 DEF Typed, TypeOK
    <3> QED BY <3>3, <3>4
  <2> QED BY <1>0, <2>1, <2>2, ReleaseStep
<1> QED BY <1>1, <1>2, <1>3 DEF DeleteStep

LEMMA StepHolding ==
  ASSUME Typed, Holding, [Next]_vars
  PROVE  Holding' /\ BirthsNew
<1>1. ASSUME NEW t \in Tasks, Start(t) PROVE Holding' /\ BirthsNew
  BY <1>1, CreateBeginHolding, DeletePipeHolding, SubscribeHolding,
     TransmitHolding, ReceiveHolding DEF Start
<1>2. ASSUME NEW t \in Tasks, Continue(t) PROVE Holding' /\ BirthsNew
  BY <1>2, CreateHolding, TransmitHolding, ReceiveHolding DEF Continue
<1>3. ASSUME NEW t \in Tasks, KillTask(t) PROVE Holding' /\ BirthsNew
  BY <1>3, CleanUpHolding
<1>4. ASSUME NEW a \in Apps, CleanUpBegin(a) PROVE Holding' /\ BirthsNew
  BY <1>4, CleanUpHolding
<1>5. CASE CleanUpStep
  BY <1>5, CleanUpHolding, DeletePipeHolding DEF CleanUpStep
<1>6. CASE UNCHANGED vars
  <2>1. Slots0 /\ UNCHANGED loc /\ UNCHANGED <<routes, subs>> /\ Cleaner \in Actors
    BY <1>6 DEF vars, Slots0, Actors
  <2> QED BY <2>1, QuietRouting, QuietStep
<1> QED BY <1>1, <1>2, <1>3, <1>4, <1>5, <1>6, DeleteStepHolding DEF Next

LEMMA AlwaysHolding == Spec => [](Typed /\ Holding)
<1>1. Init => Typed /\ Holding
  BY InitTyped, InitHolding
<1>2. Typed /\ Holding /\ [Next]_vars => (Typed /\ Holding)'
  BY StepTyped, StepHolding
<1> QED BY <1>1, <1>2, PTL DEF Spec

(* A reserved slot is held by exactly one task, which is inside CreatePipe  *)
(* or DeletePipe, and a slot that is free or published by none.             *)
THEOREM ReservationCorrect == Spec => []ReservedOwned
<1>1. Typed /\ Holding => ReservedOwned
  <2> SUFFICES ASSUME Typed, Holding, NEW s \in Slots
               PROVE  LET owners == {t \in Actors : Reserving(t)
                                                    /\ Slot(loc[t].pid) = s}
                      IN  IF pipeId[s] = RESERVED THEN \E t \in Actors : owners = {t}
                                                  ELSE owners = {}
    BY DEF ReservedOwned
  <2> DEFINE owners == {t \in Actors : Reserving(t) /\ Slot(loc[t].pid) = s}
  <2>1. CASE pipeId[s] = RESERVED
    <3>1. PICK t \in Actors : Reserving(t) /\ Slot(loc[t].pid) = s
      BY <2>1 DEF Holding, HeldAlone
    <3>2. \A u \in owners : u = t
      BY <3>1 DEF Holding, HeldAlone
    <3> QED BY <2>1, <3>1, <3>2
  <2>2. CASE pipeId[s] # RESERVED
    BY <2>2 DEF Holding, HeldAlone
  <2> QED BY <2>1, <2>2
<1> QED BY <1>1, AlwaysHolding, PTL

(* A destination list never names a pipe that does not exist or whose OSAL  *)
(* queue is gone, whatever is deleted or cleaned up meanwhile.              *)
THEOREM DestinationsExist == Spec => []SubscriptionsLive
BY AlwaysHolding, PTL DEF Holding

(* Every OSAL queue is that of a pipe, or of one being created or deleted.  *)
THEOREM NoQueueLeft == Spec => []NoOrphanQueue
BY AlwaysHolding, PTL DEF Holding

(* A deleted pipe ID never names a pipe again: a step that makes an ID name *)
(* a pipe is the end of its creation, and creations take new IDs.           *)
THEOREM IdsNotReused == Spec => NoResurrection
<1>1. Typed /\ Holding /\ [Next]_vars => [BirthsNew]_vars
  BY StepHolding
<1>2. [BirthsNew]_vars =>
      [/\ \A p \in PipeIds : /\ ~IsMatch(p) /\ IsMatch(p)' => Creating(p)
                             /\ ~Creating(p) /\ Creating(p)' => p > lastPipeId
       /\ lastPipeId' >= lastPipeId]_vars
  BY DEF BirthsNew
<1> QED BY <1>1, <1>2, AlwaysHolding, PTL DEF Spec, NoResurrection

-----------------------------------------------------------------------------
(* The steps of the bus, one after the other, said pointwise: what happens  *)
(* to the slots, the queues, the descriptors and the task that moves.  The  *)
(* rest of the proofs goes through these forms instead of the actions.      *)
Others(t) == \A u \in Actors : u # t => loc'[u] = loc[u]
Runs(t) == t \in Tasks /\ appState[AppOf[t]] = "running"
Rests(t) == Others(t) /\ loc'[t].pc = "idle" /\ loc'[t].buf = NoBuf
SamePipes == /\ \A s \in Slots : /\ pipe'[s].app = pipe[s].app
                                 /\ pipe'[s].last = pipe[s].last
                                 /\ pipe'[s].depth = pipe[s].depth
SameDst == \A m \in Msgs, p \in PipeIds :
              /\ dst'[m][p].count = dst[m][p].count
              /\ dst'[m][p].lim = dst[m][p].lim

(* A step that concerns neither buffers nor pipes.                          *)
Passing == {"idle", "tx_alloc", "by_name"}
Passes(t) ==
    /\ UNCHANGED <<pipeId, lastPipeId, queue, qcap, subs, desc, stat,
                   appState, todo>>
    /\ SamePipes /\ SameDst /\ Others(t)
    /\ \/ loc'[t] = loc[t]
       \/ /\ t \in Tasks /\ loc[t].pc \in Passing /\ loc'[t].pc \in Passing
          /\ loc'[t].buf = NoBuf
          /\ loc'[t].pc # "idle" => Runs(t)
    /\ \A u \in Tasks : hold'[u] = hold[u] \/ (hold'[u] = NoBuf /\ loc[u].pc = "idle"
                                               /\ loc'[u] = loc[u])

(* CFE_SB_CreatePipe.                                                       *)
Reserved(t, pid) ==
    /\ Runs(t) /\ loc[t].pc = "idle" /\ pid \in PipeIds
    /\ pid > lastPipeId /\ lastPipeId' = pid /\ pipeId[Slot(pid)] = FREE
    /\ \A s \in Slots : pipeId'[s] = IF s = Slot(pid) THEN RESERVED ELSE pipeId[s]
    /\ \A s \in Slots : pipe'[s] = IF s = Slot(pid) THEN ClearPipe ELSE pipe[s]
    /\ Others(t) /\ loc'[t].pc = "cr_queue" /\ loc'[t].pid = pid
    /\ loc'[t].buf = NoBuf /\ loc'[t].app = AppOf[t]
    /\ UNCHANGED <<queue, qcap, subs, dst, desc, stat, hold, appState, todo>>

QueueMade(t) ==
    /\ t \in Tasks /\ loc[t].pc = "cr_queue"
    /\ Others(t) /\ loc'[t].pc = "cr_end" /\ loc'[t].pid = loc[t].pid
    /\ loc'[t].buf = loc[t].buf /\ loc'[t].app = loc[t].app
    /\ \A p \in PipeIds : p # loc[t].pid => qcap'[p] = qcap[p]
    /\ \/ queue' = queue
       \/ \A p \in PipeIds : queue'[p] = IF p = loc[t].pid THEN <<>> ELSE queue[p]
    /\ UNCHANGED <<pipeId, pipe, lastPipeId, subs, dst, desc, stat, hold,
                   appState, todo>>

Published(t) ==
    /\ t \in Tasks /\ loc[t].pc = "cr_end" /\ Rests(t)
    /\ \A s \in Slots : pipeId'[s] = IF s = Slot(loc[t].pid) THEN loc[t].pid
                                                             ELSE pipeId[s]
    /\ \A s \in Slots : /\ pipe'[s].last = pipe[s].last
                        /\ pipe'[s].depth = pipe[s].depth
                        /\ pipe'[s].app = IF s = Slot(loc[t].pid) THEN loc[t].app
                                                                  ELSE pipe[s].app
    /\ stat' = [stat EXCEPT !.pipes = @ + 1]
    /\ UNCHANGED <<lastPipeId, queue, qcap, subs, dst, desc, hold, appState, todo>>

Withdrawn(t) ==
    /\ t \in Tasks /\ loc[t].pc = "cr_end" /\ Rests(t)
    /\ \A s \in Slots : pipeId'[s] = IF s = Slot(loc[t].pid) THEN FREE ELSE pipeId[s]
    /\ UNCHANGED <<pipe, lastPipeId, queue, qcap, subs, dst, desc, stat, hold,
                   appState, todo>>

(* CFE_SB_DeletePipeFull and the brackets after it.                         *)
Unpublished(t, pid) ==
    /\ pid \in PipeIds /\ IsMatch(pid)
    /\ \/ Runs(t) /\ loc[t].pc = "idle" /\ pipe[Slot(pid)].app = AppOf[t]
          /\ todo' = todo /\ loc'[t].app = AppOf[t]
       \/ /\ t = Cleaner /\ loc[t].pc = "cl_next" /\ pid \in todo
          /\ pipe[Slot(pid)].app = loc[t].app
          /\ todo' = todo \ {pid} /\ loc'[t].app = loc[t].app
    /\ \A s \in Slots : pipeId'[s] = IF s = Slot(pid) THEN RESERVED ELSE pipeId[s]
    /\ \A m \in Msgs : subs'[m] = subs[m] \ {pid}
    /\ \A m \in Msgs, p \in PipeIds : p # pid => dst'[m][p] = dst[m][p]
    /\ stat' = [stat EXCEPT !.subs = @ - Cardinality({m \in Msgs : pid \in subs[m]})]
    /\ Others(t) /\ loc'[t].pc = "del_drain" /\ loc'[t].pid = pid
    /\ loc'[t].buf = pipe[Slot(pid)].last
    /\ UNCHANGED <<pipe, lastPipeId, queue, qcap, desc, hold, appState>>

Skipped(pid) ==
    /\ loc[Cleaner].pc = "cl_next" /\ pid \in todo /\ todo' = todo \ {pid}
    /\ ~(IsMatch(pid) /\ pipe[Slot(pid)].app = loc[Cleaner].app)
    /\ Others(Cleaner) /\ loc'[Cleaner].pc = "cl_next"
    /\ loc'[Cleaner].app = loc[Cleaner].app /\ loc'[Cleaner].buf = NoBuf
    /\ UNCHANGED <<pipeId, pipe, lastPipeId, queue, qcap, subs, dst, desc, stat,
                   hold, appState>>

(* One reference to a buffer is given up.                                   *)
Drops(b) ==
    /\ b \in Buffers
    /\ \A c \in Buffers : desc'[c] = IF c = b THEN Decr(desc[b]) ELSE desc[c]
    /\ stat' = [stat EXCEPT !.bufs = @ - IF desc[b].use = 1 THEN 1 ELSE 0]

Drained(t) ==
    /\ loc[t].pc = "del_drain" /\ loc'[t].pc = "del_drain" /\ Others(t)
    /\ loc'[t].pid = loc[t].pid /\ loc'[t].app = loc[t].app
    /\ Drops(loc[t].buf) /\ loc'[t].buf = NoBuf
    /\ UNCHANGED <<pipeId, pipe, lastPipeId, queue, qcap, subs, dst, hold,
                   appState, todo>>
DrainTook(t) ==
    /\ loc[t].pc = "del_drain" /\ loc'[t].pc = "del_drain" /\ Others(t)
    /\ loc'[t].pid = loc[t].pid /\ loc'[t].app = loc[t].app
    /\ loc[t].buf = NoBuf /\ queue[loc[t].pid] # <<>>
    /\ loc'[t].buf = Head(queue[loc[t].pid])
    /\ \A p \in PipeIds : queue'[p] = IF p = loc[t].pid THEN Tail(queue[p])
                                                        ELSE queue[p]
    /\ UNCHANGED <<pipeId, pipe, lastPipeId, qcap, subs, dst, desc, stat, hold,
                   appState, todo>>
DrainEnded(t) ==
    /\ loc[t].pc = "del_drain" /\ loc'[t].pc = "del_queue" /\ Others(t)
    /\ loc'[t].pid = loc[t].pid /\ loc'[t].app = loc[t].app
    /\ loc[t].buf = NoBuf /\ loc'[t].buf = NoBuf /\ queue[loc[t].pid] = <<>>
    /\ UNCHANGED <<pipeId, pipe, lastPipeId, queue, qcap, subs, dst, desc, stat,
                   hold, appState, todo>>
QueueDeleted(t) ==
    /\ loc[t].pc = "del_queue" /\ loc'[t].pc = "del_end" /\ Others(t)
    /\ loc'[t].pid = loc[t].pid /\ loc'[t].app = loc[t].app
    /\ loc'[t].buf = loc[t].buf
    /\ \A p \in PipeIds : /\ queue'[p] = IF p = loc[t].pid THEN <<>> ELSE queue[p]
                          /\ p # loc[t].pid => qcap'[p] = qcap[p]
    /\ UNCHANGED <<pipeId, pipe, lastPipeId, subs, dst, desc, stat, hold,
                   appState, todo>>
SlotFreed(t) ==
    /\ loc[t].pc = "del_end" /\ Others(t) /\ loc'[t].buf = NoBuf
    /\ IF t = Cleaner THEN loc'[t].pc = "cl_next" /\ loc'[t].app = loc[t].app
                      ELSE loc'[t].pc = "idle"
    /\ \A s \in Slots : pipeId'[s] = IF s = Slot(loc[t].pid) THEN FREE ELSE pipeId[s]
    /\ stat' = [stat EXCEPT !.pipes = @ - 1]
    /\ UNCHANGED <<pipe, lastPipeId, queue, qcap, subs, dst, desc, hold,
                   appState, todo>>

(* CFE_SB_SubscribeFull and CFE_SB_UnsubscribeFull.                         *)
Subscribed(t, m, pid) ==
    /\ IsMatch(pid) /\ pid \in PipeIds /\ m \in Msgs /\ pid \notin subs[m]
    /\ \A k \in Msgs : subs'[k] = IF k = m THEN subs[k] \cup {pid} ELSE subs[k]
    /\ \A k \in Msgs, p \in PipeIds :
          IF k = m /\ p = pid THEN dst'[k][p].count = 0
                              ELSE dst'[k][p] = dst[k][p]
    /\ stat' = [stat EXCEPT !.subs = @ + 1]
    /\ UNCHANGED <<pipeId, pipe, lastPipeId, queue, qcap, desc, loc, hold,
                   appState, todo>>
Unsubscribed(t, m, pid) ==
    /\ "Unsubscribe" \in Calls[t] /\ t \in Tasks
    /\ IsMatch(pid) /\ pid \in PipeIds /\ m \in Msgs /\ pid \in subs[m]
    /\ \A k \in Msgs : subs'[k] = IF k = m THEN subs[k] \ {pid} ELSE subs[k]
    /\ \A k \in Msgs, p \in PipeIds : ~(k = m /\ p = pid) => dst'[k][p] = dst[k][p]
    /\ stat' = [stat EXCEPT !.subs = @ - 1]
    /\ UNCHANGED <<pipeId, pipe, lastPipeId, queue, qcap, desc, loc, hold,
                   appState, todo>>

(* CFE_SB_TransmitMsg.                                                      *)
Filling(t, b) ==
    /\ t \in Tasks /\ loc[t].pc = "tx_alloc" /\ b \in Buffers /\ ~Allocated(b)
    /\ \A c \in Buffers :
          desc'[c] = IF c = b THEN [FreshDesc EXCEPT !.msg = loc[t].msg] ELSE desc[c]
    /\ stat' = [stat EXCEPT !.bufs = @ + 1]
    /\ Others(t) /\ loc'[t].pc = "tx_cast" /\ loc'[t].buf = b
    /\ loc'[t].msg = loc[t].msg
    /\ UNCHANGED <<pipeId, pipe, lastPipeId, queue, qcap, subs, dst, hold,
                   appState, todo>>

Sent(t, sent) ==
    LET b == loc[t].buf
        m == loc[t].msg
    IN  /\ t \in Tasks /\ b \in Buffers /\ m \in Msgs
        /\ sent \subseteq subs[m] /\ sent \subseteq PipeIds
        /\ \A p \in sent : dst[m][p].count < dst[m][p].lim
        /\ \A p \in PipeIds : queue'[p] = IF p \in sent THEN Append(queue[p], b)
                                                        ELSE queue[p]
        /\ \A k \in Msgs, p \in PipeIds :
              /\ dst'[k][p].lim = dst[k][p].lim
              /\ dst'[k][p].count = IF k = m /\ p \in sent THEN dst[k][p].count + 1
                                                           ELSE dst[k][p].count
        /\ \A s \in Slots :
              /\ pipe'[s].app = pipe[s].app /\ pipe'[s].last = pipe[s].last
              /\ pipe'[s].depth = IF \E p \in sent : Slot(p) = s
                                    THEN pipe[s].depth + 1 ELSE pipe[s].depth
        /\ \A c \in Buffers :
              desc'[c] = IF c = b THEN Decr(Launched(Incr(desc[b], Cardinality(sent))))
                                  ELSE desc[c]
        /\ stat' = [stat EXCEPT !.bufs = @ -
                      Cardinality({c \in Buffers : desc[c].use > 0 /\ desc'[c].use = 0})]
        /\ Rests(t)
        /\ \/ loc[t].pc = "tx_cast" /\ hold' = hold
           \/ /\ loc[t].pc = "zc_cast"
              /\ \A u \in Tasks : hold'[u] = IF u = t THEN NoBuf ELSE hold[u]
        /\ UNCHANGED <<pipeId, lastPipeId, qcap, subs, appState, todo>>

(* CFE_SB_ReceiveBuffer.                                                    *)
Polled(t, pid) ==
    /\ Runs(t) /\ loc[t].pc = "idle" /\ pid \in PipeIds /\ pid <= lastPipeId
    /\ IsMatch(pid) /\ \A u \in Tasks : ~Receiving(u, pid)
    /\ Others(t) /\ loc'[t].pc = "rcv_get" /\ loc'[t].pid = pid
    /\ loc'[t].buf = NoBuf
    /\ \A s \in Slots : /\ pipe'[s].app = pipe[s].app
                        /\ pipe'[s].depth = pipe[s].depth
                        /\ pipe'[s].last = IF s = Slot(pid) THEN NoBuf
                                                            ELSE pipe[s].last
    /\ \/ pipe[Slot(pid)].last = NoBuf /\ desc' = desc /\ stat' = stat
       \/ Drops(pipe[Slot(pid)].last)
    /\ UNCHANGED <<pipeId, lastPipeId, queue, qcap, subs, dst, hold, appState, todo>>
Took(t) ==
    /\ t \in Tasks /\ loc[t].pc = "rcv_get" /\ queue[loc[t].pid] # <<>>
    /\ Others(t) /\ loc'[t].pc = "rcv_end" /\ loc'[t].pid = loc[t].pid
    /\ loc'[t].res = "ok" /\ loc'[t].buf = Head(queue[loc[t].pid])
    /\ \A p \in PipeIds : queue'[p] = IF p = loc[t].pid THEN Tail(queue[p])
                                                        ELSE queue[p]
    /\ UNCHANGED <<pipeId, pipe, lastPipeId, qcap, subs, dst, desc, stat, hold,
                   appState, todo>>
TookNothing(t) ==
    /\ t \in Tasks /\ loc[t].pc = "rcv_get"
    /\ Others(t) /\ loc'[t].pc = "rcv_end" /\ loc'[t].pid = loc[t].pid
    /\ loc'[t].res \in {"empty", "error"} /\ loc'[t].buf = loc[t].buf
    /\ UNCHANGED <<pipeId, pipe, lastPipeId, queue, qcap, subs, dst, desc, stat,
                   hold, appState, todo>>
Handed(t) ==
    LET b == loc[t].buf
        pid == loc[t].pid
        m == desc[b].msg
    IN  /\ t \in Tasks /\ loc[t].pc = "rcv_end" /\ loc[t].res = "ok" /\ IsMatch(pid)
        /\ b \in Buffers /\ Rests(t)
        /\ \A s \in Slots :
              /\ pipe'[s].app = pipe[s].app
              /\ pipe'[s].last = IF s = Slot(pid) THEN b ELSE pipe[s].last
              /\ pipe'[s].depth = IF s = Slot(pid) /\ pipe[s].depth > 0
                                    THEN pipe[s].depth - 1 ELSE pipe[s].depth
        /\ \A k \in Msgs, p \in PipeIds :
              /\ dst'[k][p].lim = dst[k][p].lim
              /\ p \in subs[k] =>
                    dst'[k][p].count = IF k = m /\ p = pid /\ dst[k][p].count > 0
                                         THEN dst[k][p].count - 1
                                         ELSE dst[k][p].count
        /\ \A c \in Buffers : desc'[c] = IF c = b THEN Decr(Incr(desc[b], 1))
                                                  ELSE desc[c]
        /\ stat' = [stat EXCEPT !.bufs = @ -
                      Cardinality({c \in Buffers : desc[c].use > 0 /\ desc'[c].use = 0})]
        /\ UNCHANGED <<pipeId, lastPipeId, queue, qcap, subs, hold, appState, todo>>
Lost(t) ==
    /\ t \in Tasks /\ loc[t].pc = "rcv_end" /\ loc[t].res = "ok"
    /\ ~IsMatch(loc[t].pid) /\ Drops(loc[t].buf) /\ Rests(t)
    /\ UNCHANGED <<pipeId, pipe, lastPipeId, queue, qcap, subs, dst, hold,
                   appState, todo>>
Refused(t) ==
    /\ t \in Tasks /\ loc[t].pc = "rcv_end" /\ loc[t].res # "ok" /\ Rests(t)
    /\ UNCHANGED <<pipeId, pipe, lastPipeId, queue, qcap, subs, dst, desc, stat,
                   hold, appState, todo>>

(* Zero copy.                                                               *)
Issues(t, b) ==
    /\ Runs(t) /\ loc[t].pc = "idle" /\ hold[t] = NoBuf
    /\ b \in Buffers /\ ~Allocated(b) /\ loc' = loc
    /\ \A c \in Buffers :
          desc'[c] = IF c = b THEN [FreshDesc EXCEPT !.app = AppOf[t],
                                                     !.list = "zeroCopy"]
                              ELSE desc[c]
    /\ stat' = [stat EXCEPT !.bufs = @ + 1]
    /\ \A u \in Tasks : hold'[u] = IF u = t THEN b ELSE hold[u]
    /\ UNCHANGED <<pipeId, pipe, lastPipeId, queue, qcap, subs, dst, appState, todo>>
Claimed(t) ==
    /\ Runs(t) /\ loc[t].pc = "idle" /\ hold[t] # NoBuf
    /\ Others(t) /\ loc'[t].pc \in {"rel", "zc_check"} /\ loc'[t].buf = hold[t]
    /\ UNCHANGED <<pipeId, pipe, lastPipeId, queue, qcap, subs, dst, desc, stat,
                   hold, appState, todo>>
GivenBack(t) ==
    LET b == loc[t].buf
    IN  /\ t \in Tasks /\ loc[t].pc = "rel" /\ b \in Buffers /\ Rests(t)
        /\ \A c \in Buffers :
              desc'[c] = IF c = b THEN Decr([desc[b] EXCEPT !.app = NoApp]) ELSE desc[c]
        /\ stat' = [stat EXCEPT !.bufs = @ -
                      Cardinality({c \in Buffers : desc[c].use > 0 /\ desc'[c].use = 0})]
        /\ \A u \in Tasks : hold'[u] = IF u = t THEN NoBuf ELSE hold[u]
        /\ UNCHANGED <<pipeId, pipe, lastPipeId, queue, qcap, subs, dst, appState, todo>>
Validated(t) ==
    LET b == loc[t].buf
    IN  /\ t \in Tasks /\ loc[t].pc = "zc_check" /\ b \in Buffers
        /\ \/ Rests(t)
           \/ /\ Others(t) /\ loc'[t].pc = "zc_cast" /\ loc'[t].buf = b
              /\ loc'[t].msg = loc[t].msg
        /\ \A c \in Buffers :
              desc'[c] = IF c = b THEN [desc[b] EXCEPT !.msg = loc[t].msg] ELSE desc[c]
        /\ UNCHANGED <<pipeId, pipe, lastPipeId, queue, qcap, subs, dst, stat, hold,
                       appState, todo>>

(* CFE_ES_CleanUpApp.                                                       *)
Begun(a) ==
    /\ loc[Cleaner].pc = "idle" /\ a \in Apps /\ appState[a] = "running"
    /\ \A t \in TasksOf(a) : loc[t].pc \in {"idle", "rcv_get"}
    /\ \A c \in Apps : appState'[c] = IF c = a THEN "cleaning" ELSE appState[c]
    /\ Others(Cleaner) /\ loc'[Cleaner].pc = "cl_list" /\ loc'[Cleaner].app = a
    /\ loc'[Cleaner].buf = NoBuf
    /\ UNCHANGED <<pipeId, pipe, lastPipeId, queue, qcap, subs, dst, desc, stat,
                   hold, todo>>
Listed ==
    /\ loc[Cleaner].pc = "cl_list" /\ Others(Cleaner)
    /\ loc'[Cleaner].pc = "cl_next" /\ loc'[Cleaner].app = loc[Cleaner].app
    /\ loc'[Cleaner].buf = loc[Cleaner].buf
    /\ \A s \in Slots : Used(s) /\ pipe[s].app = loc[Cleaner].app => pipeId[s] \in todo'
    /\ UNCHANGED <<pipeId, pipe, lastPipeId, queue, qcap, subs, dst, desc, stat,
                   hold, appState>>
Reclaimed ==
    /\ loc[Cleaner].pc = "cl_next" /\ todo = {} /\ Others(Cleaner)
    /\ loc'[Cleaner].pc = "cl_kill" /\ loc'[Cleaner].app = loc[Cleaner].app
    /\ loc'[Cleaner].buf = loc[Cleaner].buf
    /\ \A c \in Buffers :
          desc'[c] = IF desc[c].list = "zeroCopy" /\ desc[c].app = loc[Cleaner].app
                       THEN Decr(desc[c]) ELSE desc[c]
    /\ stat' = [stat EXCEPT !.bufs = @ -
                  Cardinality({c \in Buffers : desc[c].use > 0 /\ desc'[c].use = 0})]
    /\ UNCHANGED <<pipeId, pipe, lastPipeId, queue, qcap, subs, dst, hold,
                   appState, todo>>
Killed(t) ==
    /\ t \in Tasks /\ loc[Cleaner].pc = "cl_kill" /\ AppOf[t] = loc[Cleaner].app
    /\ loc[t].pc \in {"idle", "rcv_get"}
    /\ Others(t) /\ loc'[t].pc = "dead" /\ loc'[t].buf = NoBuf
    /\ \A u \in Tasks : hold'[u] = IF u = t THEN NoBuf ELSE hold[u]
    /\ UNCHANGED <<pipeId, pipe, lastPipeId, queue, qcap, subs, dst, desc, stat,
                   appState, todo>>
Ended ==
    /\ loc[Cleaner].pc = "cl_kill" /\ Rests(Cleaner)
    /\ \A t \in Tasks : AppOf[t] = loc[Cleaner].app => loc[t].pc = "dead"
    /\ \A c \in Apps : appState'[c] = IF c = loc[Cleaner].app THEN "gone"
                                                              ELSE appState[c]
    /\ UNCHANGED <<pipeId, pipe, lastPipeId, queue, qcap, subs, dst, desc, stat,
                   hold, todo>>

PipeForm(t) ==
    \/ \E pid \in PipeIds : Reserved(t, pid) \/ Unpublished(t, pid)
    \/ QueueMade(t) \/ Published(t) \/ Withdrawn(t)
    \/ Drained(t) \/ DrainTook(t) \/ DrainEnded(t) \/ QueueDeleted(t) \/ SlotFreed(t)
    \/ \E m \in Msgs, pid \in PipeIds : Subscribed(t, m, pid) \/ Unsubscribed(t, m, pid)
BufferForm(t) ==
    \/ \E b \in Buffers : Filling(t, b) \/ Issues(t, b)
    \/ \E sent \in SUBSET PipeIds : Sent(t, sent)
    \/ \E pid \in PipeIds : Polled(t, pid)
    \/ Took(t) \/ TookNothing(t) \/ Handed(t) \/ Lost(t) \/ Refused(t)
    \/ Claimed(t) \/ GivenBack(t) \/ Validated(t)
CleanUpForm ==
    \/ \E a \in Apps : Begun(a)
    \/ Listed \/ Reclaimed \/ Ended
    \/ \E pid \in PipeIds : Skipped(pid)
    \/ \E t \in Tasks : Killed(t)
StepForm == CleanUpForm \/ \E t \in Actors : Passes(t) \/ PipeForm(t) \/ BufferForm(t)

(* What the theorems below rest on: an application stops calling before it  *)
(* is cleaned up, and two tasks do not receive on one pipe.                 *)
Disciplined == QuietCleanup /\ ~SharedPipes

LEMMA GotoForm ==
  ASSUME Typed, NEW t \in Actors, NEW r, Goto(t, r)
  PROVE  Others(t) /\ loc'[t] = r
  BY DEF Typed, TypeOK, Goto, Others

LEMMA FinishForm ==
  ASSUME Typed, NEW t \in Actors, Finish(t)
  PROVE  /\ Others(t) /\ loc'[t].buf = NoBuf
         /\ IF t = Cleaner THEN loc'[t].pc = "cl_next" /\ loc'[t].app = loc[t].app
                           ELSE loc'[t].pc = "idle"
<1> DEFINE r == IF t = Cleaner
                  THEN [Idle EXCEPT !.pc = "cl_next", !.app = loc[t].app]
                  ELSE Idle
<1>1. Others(t) /\ loc'[t] = r
  BY GotoForm DEF Finish
<1>2. /\ r.buf = NoBuf
      /\ IF t = Cleaner THEN r.pc = "cl_next" /\ r.app = loc[t].app
                        ELSE r.pc = "idle"
  BY DEF Idle
<1> QED BY <1>1, <1>2

LEMMA RestsForm ==
  ASSUME Typed, NEW t \in Tasks, Finish(t)
  PROVE  Rests(t)
  BY FinishForm, NamesAssumption DEF Rests, Actors

LEMMA RunsForm ==
  ASSUME Disciplined, NEW t \in Tasks, NEW c, Starts(t, c)
  PROVE  Runs(t) /\ loc[t].pc = "idle" /\ Caller(t) = AppOf[t]
  BY DEF Disciplined, Starts, Runs, Caller

LEMMA SetDescForm ==
  ASSUME Typed, NEW nd \in [Buffers -> DescRecord], SetDesc(nd)
  PROVE  /\ desc' = nd
         /\ stat' = [stat EXCEPT !.bufs = @ -
              Cardinality({c \in Buffers : desc[c].use > 0 /\ desc'[c].use = 0})]
<1>1. Freed(nd) = {c \in Buffers : desc[c].use > 0 /\ nd[c].use = 0}
  BY DEF Freed
<1> QED BY <1>1 DEF SetDesc

LEMMA DropsForm ==
  ASSUME Typed, NEW b \in Buffers, DecrUse(b)
  PROVE  Drops(b)
<1>1. desc \in [Buffers -> DescRecord] /\ desc[b] \in DescRecord
  BY DEF Typed, TypeOK
<1>2. Decr(desc[b]) \in DescRecord
  BY <1>1, DescTyped
<1>3. desc' = [desc EXCEPT ![b] = Decr(@)]
  BY DEF DecrUse, SetDesc
<1>4. \A c \in Buffers : desc'[c] = IF c = b THEN Decr(desc[b]) ELSE desc[c]
  BY <1>1, <1>3
<1>5. desc[b].use \in Nat
  BY <1>1 DEF DescRecord
<1>6. Freed(desc') = IF desc[b].use = 1 THEN {b} ELSE {}
  <2>1. \A c \in Buffers : c # b => ~(desc[c].use > 0 /\ desc'[c].use = 0)
    <3>1. \A c \in Buffers : desc[c].use \in Nat
      BY <1>1 DEF DescRecord
    <3> QED BY <1>4, <3>1
  <2>2. (desc[b].use > 0 /\ desc'[b].use = 0) <=> desc[b].use = 1
    <3>1. CASE desc[b].use > 1
      <4>1. Decr(desc[b]).use = desc[b].use - 1
        BY <1>1, <3>1 DEF Decr, DescRecord
      <4> QED BY <1>4, <1>5, <3>1, <4>1
    <3>2. CASE desc[b].use = 1
      <4>1. Decr(desc[b]).use = 0
        BY <3>2 DEF Decr, FreeDesc
      <4> QED BY <1>4, <3>2, <4>1
    <3>3. CASE desc[b].use = 0
      BY <3>3
    <3> QED BY <1>5, <3>1, <3>2, <3>3
  <2> QED BY <2>1, <2>2 DEF Freed
<1>7. Cardinality(Freed(desc')) = IF desc[b].use = 1 THEN 1 ELSE 0
  BY <1>6, FS_Singleton, FS_EmptySet
<1>8. stat' = [stat EXCEPT !.bufs = @ - IF desc[b].use = 1 THEN 1 ELSE 0]
  BY <1>3, <1>7 DEF DecrUse, SetDesc
<1> QED BY <1>4, <1>8 DEF Drops

(* Every action is one of these steps.                                      *)
LEMMA PassesForm ==
  ASSUME Typed, NEW t \in Actors, UNCHANGED <<pipeId, lastPipeId, queue, qcap, subs,
         desc, stat, appState, todo, pipe, dst, hold>>, Others(t),
         \/ loc'[t] = loc[t]
         \/ /\ t \in Tasks /\ loc[t].pc \in Passing /\ loc'[t].pc \in Passing
            /\ loc'[t].buf = NoBuf
            /\ loc'[t].pc # "idle" => Runs(t)
  PROVE  Passes(t)
  BY DEF Passes, SamePipes, SameDst

LEMMA SameForm ==
  ASSUME Typed, NEW t \in Actors, UNCHANGED <<pipeId, lastPipeId, queue, qcap, subs,
         desc, stat, appState, todo, pipe, dst, hold, loc>>
  PROVE  Passes(t)
  BY DEF Passes, SamePipes, SameDst, Others

LEMMA CreateForms ==
  ASSUME Disciplined, Typed, Holding, NEW t \in Tasks,
         CreatePipeBegin(t) \/ CreatePipeQueue(t) \/ CreatePipeEnd(t)
  PROVE  Passes(t) \/ PipeForm(t)
<1>0. /\ t \in Actors /\ loc \in [Actors -> LocRecord] /\ loc[t] \in LocRecord
      /\ pipeId \in [Slots -> PipeIds \cup {FREE, RESERVED}]
      /\ pipe \in [Slots -> PipeRecord] /\ queue \in [PipeIds -> Seq(Buffers)]
      /\ qcap \in [PipeIds -> Nat] /\ lastPipeId \in PipeIds
  BY DEF Actors, Typed, TypeOK
<1>1. CASE CreatePipeBegin(t)
  <2> DEFINE pid == FindNext(lastPipeId, MAX_PIPES, SerialMax,
                             {s \in Slots : SlotUsed(s)}, FREE)
             r(depth) == [Idle EXCEPT !.pc = "cr_queue", !.pid = pid,
                                      !.app = Caller(t), !.n = depth]
  <2>0. /\ UNCHANGED <<queues, routing, desc, stat, apps>>
        /\ lastPipeId + MAX_PIPES < SerialMax
        /\ Runs(t) /\ loc[t].pc = "idle" /\ Caller(t) = AppOf[t]
    BY Zenon, <1>1, RunsForm DEF CreatePipeBegin
  <2>1. CASE UNCHANGED <<tables, loc>>
    BY <1>0, <2>0, <2>1, SameForm DEF tables, queues, routing, apps
  <2>2. ASSUME NEW depth \in Depths, pid # FREE,
               pipeId' = [pipeId EXCEPT ![Slot(pid)] = RESERVED],
               pipe' = [pipe EXCEPT ![Slot(pid)] = ClearPipe],
               lastPipeId' = pid, Goto(t, r(depth))
        PROVE  Reserved(t, pid) /\ pid \in PipeIds
    <3>1. /\ pid \in PipeIds /\ pid > lastPipeId
          /\ Slot(pid) \notin {s \in Slots : SlotUsed(s)}
      BY <1>0, <2>0, <2>2, FindNextFresh
    <3> HIDE DEF pid
    <3>2. Slot(pid) \in Slots /\ pipeId[Slot(pid)] = FREE
      BY <3>1, SlotInRange DEF SlotUsed
    <3>3. Others(t) /\ loc'[t] = r(depth)
      BY <1>0, <2>2, GotoForm
    <3>4. /\ loc'[t].pc = "cr_queue" /\ loc'[t].pid = pid
          /\ loc'[t].buf = NoBuf /\ loc'[t].app = AppOf[t]
      BY <2>0, <3>3 DEF Idle
    <3>5. /\ \A s \in Slots : pipeId'[s] = IF s = Slot(pid) THEN RESERVED ELSE pipeId[s]
          /\ \A s \in Slots : pipe'[s] = IF s = Slot(pid) THEN ClearPipe ELSE pipe[s]
      BY <1>0, <2>2, <3>2
    <3> QED BY <2>0, <2>2, <3>1, <3>2, <3>3, <3>4, <3>5
          DEF Reserved, queues, routing, apps
  <2>3. \/ UNCHANGED <<tables, loc>>
        \/ \E depth \in Depths :
              /\ pid # FREE /\ pipeId' = [pipeId EXCEPT ![Slot(pid)] = RESERVED]
              /\ pipe' = [pipe EXCEPT ![Slot(pid)] = ClearPipe]
              /\ lastPipeId' = pid /\ Goto(t, r(depth))
    BY Zenon, <1>1 DEF CreatePipeBegin
  <2> HIDE DEF pid, r
  <2> QED BY <2>1, <2>2, <2>3 DEF PipeForm
<1>2. CASE CreatePipeQueue(t)
  <2>0. loc[t].pc = "cr_queue" /\ loc[t].pid \in PipeIds
    BY <1>0, <1>2 DEF CreatePipeQueue, Typed, Locals, Promise, OnPipeId
  <2>1. PICK res \in {"ok", "error"} :
           Goto(t, [loc[t] EXCEPT !.pc = "cr_end", !.res = res])
    BY <1>2 DEF CreatePipeQueue
  <2>2. Others(t) /\ loc'[t] = [loc[t] EXCEPT !.pc = "cr_end", !.res = res]
    BY <1>0, <2>1, GotoForm
  <2>3. /\ loc'[t].pc = "cr_end" /\ loc'[t].pid = loc[t].pid
        /\ loc'[t].buf = loc[t].buf /\ loc'[t].app = loc[t].app
    BY <1>0, <2>2 DEF LocRecord
  <2>4. /\ \A p \in PipeIds : p # loc[t].pid => qcap'[p] = qcap[p]
        /\ \/ queue' = queue
           \/ \A p \in PipeIds : queue'[p] = IF p = loc[t].pid THEN <<>> ELSE queue[p]
    BY <1>0, <1>2, <2>0 DEF CreatePipeQueue, queues
  <2> QED BY <1>2, <2>0, <2>2, <2>3, <2>4
        DEF CreatePipeQueue, QueueMade, PipeForm, tables, routing, apps
<1>3. CASE CreatePipeEnd(t)
  <2> DEFINE pid == loc[t].pid
  <2>0. /\ loc[t].pc = "cr_end" /\ pid \in PipeIds /\ Slot(pid) \in Slots
    BY <1>0, <1>3, SlotInRange DEF CreatePipeEnd, Typed, Locals, Promise, OnPipeId
  <2>1. Rests(t) /\ UNCHANGED <<lastPipeId, queue, qcap, subs, dst, desc, hold,
                                appState, todo>>
    BY <1>3, RestsForm DEF CreatePipeEnd, queues, routing, apps
  <2>2. CASE /\ pipe' = [pipe EXCEPT ![Slot(pid)].queue = pid,
                                     ![Slot(pid)].max = loc[t].n,
                                     ![Slot(pid)].app = loc[t].app]
             /\ pipeId' = [pipeId EXCEPT ![Slot(pid)] = pid]
             /\ stat' = [stat EXCEPT !.pipes = @ + 1]
    <3>1. pipe' = [pipe EXCEPT ![Slot(pid)] =
                     [@ EXCEPT !.queue = pid, !.max = loc[t].n, !.app = loc[t].app]]
      BY <1>0, <2>0, <2>2
    <3>2. LET d == [pipe[Slot(pid)] EXCEPT !.queue = pid, !.max = loc[t].n,
                                           !.app = loc[t].app]
          IN  /\ d.last = pipe[Slot(pid)].last /\ d.depth = pipe[Slot(pid)].depth
              /\ d.app = loc[t].app
      BY <1>0, <2>0 DEF PipeRecord
    <3>3. \A s \in Slots : /\ pipe'[s].last = pipe[s].last
                           /\ pipe'[s].depth = pipe[s].depth
                           /\ pipe'[s].app = IF s = Slot(pid) THEN loc[t].app
                                                              ELSE pipe[s].app
      BY <1>0, <2>0, <3>1, <3>2
    <3>4. \A s \in Slots : pipeId'[s] = IF s = Slot(pid) THEN pid ELSE pipeId[s]
      BY <1>0, <2>0, <2>2
    <3> QED BY <2>0, <2>1, <2>2, <3>3, <3>4 DEF Published, PipeForm
  <2>3. CASE pipeId' = [pipeId EXCEPT ![Slot(pid)] = FREE] /\ UNCHANGED <<pipe, stat>>
    <3>1. \A s \in Slots : pipeId'[s] = IF s = Slot(pid) THEN FREE ELSE pipeId[s]
      BY <1>0, <2>0, <2>3
    <3> QED BY <2>0, <2>1, <2>3, <3>1 DEF Withdrawn, PipeForm
  <2> QED BY <1>3, <2>2, <2>3 DEF CreatePipeEnd
<1> QED BY <1>1, <1>2, <1>3

(* What CFE_SB_DeletePipeFull does when the pipe is not, or is, the          *)
(* application's.                                                           *)
NotMine(t, pid, app) ==
    /\ ~(IsMatch(pid) /\ pipe[Slot(pid)].app = app)
    /\ Finish(t) /\ UNCHANGED <<pipeId, subs, dst, stat>>
TakenDown(t, pid, app) ==
    /\ IsMatch(pid) /\ pipe[Slot(pid)].app = app
    /\ \A s \in Slots : pipeId'[s] = IF s = Slot(pid) THEN RESERVED ELSE pipeId[s]
    /\ \A m \in Msgs : subs'[m] = subs[m] \ {pid}
    /\ \A m \in Msgs, p \in PipeIds : p # pid => dst'[m][p] = dst[m][p]
    /\ stat' = [stat EXCEPT !.subs = @ - Cardinality({m \in Msgs : pid \in subs[m]})]
    /\ loc'[t].pc = "del_drain" /\ loc'[t].pid = pid
    /\ loc'[t].buf = pipe[Slot(pid)].last /\ loc'[t].app = app

LEMMA DeletePipeFullForm ==
  ASSUME Typed, Holding, NEW t \in Actors, NEW pid \in PipeIds, NEW app,
         DeletePipeFull(t, pid, app)
  PROVE  /\ UNCHANGED <<pipe, lastPipeId, queue, qcap, desc>> /\ Others(t)
         /\ NotMine(t, pid, app) \/ TakenDown(t, pid, app)
<1> DEFINE from == {m \in routes : pid \in subs[m]}
           r == [Idle EXCEPT !.pc = "del_drain", !.pid = pid,
                             !.buf = pipe[Slot(pid)].last, !.app = app]
           mine == IsMatch(pid) /\ pipe[Slot(pid)].app = app
<1>0. /\ UNCHANGED <<pipe, lastPipeId, queue, qcap, desc>>
      /\ pipeId \in [Slots -> PipeIds \cup {FREE, RESERVED}]
      /\ Slot(pid) \in Slots /\ dst \in [Msgs -> [PipeIds -> DestRecord]]
      /\ routes \subseteq Msgs /\ subs \in [Msgs -> SUBSET PipeIds]
  BY SlotInRange DEF DeletePipeFull, queues, Typed, TypeOK
<1>1. CASE ~mine /\ Finish(t) /\ UNCHANGED <<pipeId, subs, dst, stat>>
  BY <1>0, <1>1, FinishForm DEF NotMine
<1>2. CASE /\ mine
           /\ subs' = [m \in Msgs |-> IF m \in from THEN subs[m] \ {pid} ELSE subs[m]]
           /\ dst' = [m \in Msgs |-> IF m \in from THEN [dst[m] EXCEPT ![pid] = NoDest]
                                                   ELSE dst[m]]
           /\ stat' = [stat EXCEPT !.subs = @ - Cardinality(from)]
           /\ pipeId' = [pipeId EXCEPT ![Slot(pid)] = RESERVED]
           /\ Goto(t, r)
  <2>1. \A m \in Msgs : pid \in subs[m] => m \in routes
    BY DEF Holding, SubscriptionsLive
  <2>2. from = {m \in Msgs : pid \in subs[m]}
    BY <1>0, <2>1
  <2>3. \A m \in Msgs : subs'[m] = subs[m] \ {pid}
    BY <1>2, <2>2
  <2>4. \A m \in Msgs, p \in PipeIds : p # pid => dst'[m][p] = dst[m][p]
    BY <1>0, <1>2
  <2>5. Others(t) /\ loc'[t] = r
    BY <1>2, GotoForm
  <2>6. /\ r.pc = "del_drain" /\ r.pid = pid /\ r.buf = pipe[Slot(pid)].last
        /\ r.app = app
    BY DEF Idle
  <2>7. \A s \in Slots : pipeId'[s] = IF s = Slot(pid) THEN RESERVED ELSE pipeId[s]
    BY <1>0, <1>2
  <2> QED BY <1>0, <1>2, <2>2, <2>3, <2>4, <2>5, <2>6, <2>7 DEF TakenDown
<1>3. \/ ~mine /\ Finish(t) /\ UNCHANGED <<pipeId, subs, dst, stat>>
      \/ /\ mine
         /\ subs' = [m \in Msgs |-> IF m \in from THEN subs[m] \ {pid} ELSE subs[m]]
         /\ dst' = [m \in Msgs |-> IF m \in from THEN [dst[m] EXCEPT ![pid] = NoDest]
                                                 ELSE dst[m]]
         /\ stat' = [stat EXCEPT !.subs = @ - Cardinality(from)]
         /\ pipeId' = [pipeId EXCEPT ![Slot(pid)] = RESERVED]
         /\ Goto(t, r)
  BY DEF DeletePipeFull
<1> QED BY <1>1, <1>2, <1>3

LEMMA DeleteForms ==
  ASSUME Disciplined, Typed, Holding
  PROVE  /\ \A t \in Tasks : DeletePipe(t) => Passes(t) \/ PipeForm(t)
         /\ CleanUpDeletePipe => CleanUpForm \/ PipeForm(Cleaner)
<1>1. ASSUME NEW t \in Tasks, DeletePipe(t)
      PROVE  Passes(t) \/ PipeForm(t)
  <2>1. PICK pid \in PipeIds : DeletePipeFull(t, pid, Caller(t))
    BY <1>1, IssuedIds DEF DeletePipe
  <2>2. /\ Runs(t) /\ loc[t].pc = "idle" /\ Caller(t) = AppOf[t] /\ t \in Actors
        /\ UNCHANGED <<hold, appState, todo>>
    BY <1>1, RunsForm DEF DeletePipe, Actors, apps
  <2>3. /\ UNCHANGED <<pipe, lastPipeId, queue, qcap, desc>> /\ Others(t)
        /\ NotMine(t, pid, AppOf[t]) \/ TakenDown(t, pid, AppOf[t])
    BY <2>1, <2>2, DeletePipeFullForm
  <2>4. CASE NotMine(t, pid, AppOf[t])
    <3>1. Rests(t)
      BY <2>4, RestsForm DEF NotMine
    <3> QED BY <2>2, <2>3, <2>4, <3>1, PassesForm DEF NotMine, Rests, Passing
  <2>5. CASE TakenDown(t, pid, AppOf[t])
    <3>1. Unpublished(t, pid)
      BY <2>2, <2>3, <2>5 DEF TakenDown, Unpublished
    <3> QED BY <3>1 DEF PipeForm
  <2> QED BY <2>3, <2>4, <2>5
<1>2. ASSUME CleanUpDeletePipe
      PROVE  CleanUpForm \/ PipeForm(Cleaner)
  <2>1. PICK pid \in todo : /\ todo' = todo \ {pid}
                            /\ DeletePipeFull(Cleaner, pid, loc[Cleaner].app)
    BY <1>2 DEF CleanUpDeletePipe
  <2>2. /\ pid \in PipeIds /\ Cleaner \in Actors /\ UNCHANGED <<hold, appState>>
        /\ loc[Cleaner].pc = "cl_next"
    BY <1>2 DEF CleanUpDeletePipe, Typed, TypeOK, Actors
  <2>3. /\ UNCHANGED <<pipe, lastPipeId, queue, qcap, desc>> /\ Others(Cleaner)
        /\ \/ NotMine(Cleaner, pid, loc[Cleaner].app)
           \/ TakenDown(Cleaner, pid, loc[Cleaner].app)
    BY <2>1, <2>2, DeletePipeFullForm
  <2>4. CASE NotMine(Cleaner, pid, loc[Cleaner].app)
    <3>1. Skipped(pid)
      BY <2>1, <2>2, <2>3, <2>4, FinishForm DEF NotMine, Skipped
    <3> QED BY <2>2, <3>1 DEF CleanUpForm
  <2>5. CASE TakenDown(Cleaner, pid, loc[Cleaner].app)
    <3>1. Unpublished(Cleaner, pid)
      BY <2>1, <2>2, <2>3, <2>5 DEF TakenDown, Unpublished
    <3> QED BY <2>2, <3>1 DEF PipeForm
  <2> QED BY <2>3, <2>4, <2>5
<1> QED BY <1>1, <1>2

LEMMA DeleteStepForms ==
  ASSUME Typed, Holding, NEW t \in Actors, DeleteStep(t)
  PROVE  PipeForm(t)
<1>0. /\ loc \in [Actors -> LocRecord] /\ loc[t] \in LocRecord
      /\ pipeId \in [Slots -> PipeIds \cup {FREE, RESERVED}]
      /\ queue \in [PipeIds -> Seq(Buffers)] /\ qcap \in [PipeIds -> Nat]
      /\ Reserving(t) /\ loc[t].pid \in PipeIds /\ Slot(loc[t].pid) \in Slots
  <2>1. Reserving(t)
    BY DEF DeleteStep, DeletePipeDrain, DeletePipeQueue, DeletePipeEnd, Reserving
  <2> QED BY <2>1, ReservationFacts DEF Typed, TypeOK
<1>1. CASE DeletePipeDrain(t)
  <2>0. /\ loc[t].pc = "del_drain"
        /\ UNCHANGED <<pipeId, pipe, lastPipeId, qcap, subs, dst, hold, appState, todo>>
    BY <1>1 DEF DeletePipeDrain, tables, routing, apps
  <2>1. \A b : LET r == [loc[t] EXCEPT !.buf = b]
               IN  /\ r.pc = "del_drain" /\ r.pid = loc[t].pid /\ r.app = loc[t].app
                   /\ r.buf = b
    BY <1>0, <2>0 DEF LocRecord
  <2>2. CASE /\ loc[t].buf # NoBuf /\ DecrUse(loc[t].buf)
             /\ Goto(t, [loc[t] EXCEPT !.buf = NoBuf]) /\ UNCHANGED queue
    <3>1. loc[t].buf \in Buffers
      BY <1>0, <2>2 DEF LocRecord
    <3>2. Drops(loc[t].buf)
      BY <2>2, <3>1, DropsForm
    <3>3. Others(t) /\ loc'[t] = [loc[t] EXCEPT !.buf = NoBuf]
      BY <2>2, GotoForm
    <3>4. Drained(t)
      BY <2>0, <2>1, <2>2, <3>2, <3>3 DEF Drained
    <3> QED BY <3>4 DEF PipeForm
  <2>3. CASE /\ loc[t].buf = NoBuf /\ queue[loc[t].pid] # <<>>
             /\ queue' = [queue EXCEPT ![loc[t].pid] = Tail(@)]
             /\ Goto(t, [loc[t] EXCEPT !.buf = Head(queue[loc[t].pid])])
             /\ UNCHANGED <<desc, stat>>
    <3>1. /\ Others(t)
          /\ loc'[t] = [loc[t] EXCEPT !.buf = Head(queue[loc[t].pid])]
      BY <2>3, GotoForm
    <3>2. \A p \in PipeIds : queue'[p] = IF p = loc[t].pid THEN Tail(queue[p])
                                                           ELSE queue[p]
      BY <1>0, <2>3
    <3>3. DrainTook(t)
      BY <2>0, <2>1, <2>3, <3>1, <3>2 DEF DrainTook
    <3> QED BY <3>3 DEF PipeForm
  <2>4. CASE /\ loc[t].buf = NoBuf /\ queue[loc[t].pid] = <<>>
             /\ Goto(t, [loc[t] EXCEPT !.pc = "del_queue"])
             /\ UNCHANGED <<queue, desc, stat>>
    <3>1. Others(t) /\ loc'[t] = [loc[t] EXCEPT !.pc = "del_queue"]
      BY <2>4, GotoForm
    <3>2. LET r == [loc[t] EXCEPT !.pc = "del_queue"]
          IN  /\ r.pc = "del_queue" /\ r.pid = loc[t].pid /\ r.app = loc[t].app
              /\ r.buf = loc[t].buf
      BY <1>0 DEF LocRecord
    <3>3. DrainEnded(t)
      BY <2>0, <2>4, <3>1, <3>2 DEF DrainEnded
    <3> QED BY <3>3 DEF PipeForm
  <2> QED BY <1>1, <2>2, <2>3, <2>4 DEF DeletePipeDrain, QueueLooksEmpty
<1>2. CASE DeletePipeQueue(t)
  <2>1. Others(t) /\ loc'[t] = [loc[t] EXCEPT !.pc = "del_end"]
    BY <1>2, GotoForm DEF DeletePipeQueue
  <2>2. LET r == [loc[t] EXCEPT !.pc = "del_end"]
        IN  /\ r.pc = "del_end" /\ r.pid = loc[t].pid /\ r.app = loc[t].app
            /\ r.buf = loc[t].buf
    BY <1>0 DEF LocRecord
  <2>3. \A p \in PipeIds : /\ queue'[p] = IF p = loc[t].pid THEN <<>> ELSE queue[p]
                           /\ p # loc[t].pid => qcap'[p] = qcap[p]
    BY <1>0, <1>2 DEF DeletePipeQueue
  <2>4. QueueDeleted(t)
    BY <1>2, <2>1, <2>2, <2>3
       DEF DeletePipeQueue, QueueDeleted, tables, routing, apps
  <2> QED BY <2>4 DEF PipeForm
<1>3. CASE DeletePipeEnd(t)
  <2>1. \A s \in Slots : pipeId'[s] = IF s = Slot(loc[t].pid) THEN FREE ELSE pipeId[s]
    BY <1>0, <1>3 DEF DeletePipeEnd
  <2>2. SlotFreed(t)
    BY <1>3, <2>1, FinishForm DEF DeletePipeEnd, SlotFreed, queues, routing, apps
  <2> QED BY <2>2 DEF PipeForm
<1> QED BY <1>1, <1>2, <1>3 DEF DeleteStep

LEMMA SubscribeForms ==
  ASSUME Disciplined, Typed, Holding, NEW t \in Tasks,
         Subscribe(t) \/ Unsubscribe(t) \/ SetPipeOpts(t)
  PROVE  Passes(t) \/ PipeForm(t)
<1>0. /\ t \in Actors /\ subs \in [Msgs -> SUBSET PipeIds] /\ routes \subseteq Msgs
      /\ dst \in [Msgs -> [PipeIds -> DestRecord]] /\ pipe \in [Slots -> PipeRecord]
      /\ Issued \subseteq PipeIds
  BY IssuedIds DEF Actors, Typed, TypeOK
<1>1. CASE Subscribe(t)
  <2>0. UNCHANGED <<tables, queues, desc, loc, apps>>
    BY <1>1 DEF Subscribe
  <2>1. PICK m \in Msgs, pid \in Issued, lim \in MsgLims :
          \/ /\ IsMatch(pid) /\ pid \notin subs[m]
             /\ subs' = [subs EXCEPT ![m] = @ \cup {pid}]
             /\ dst' = [dst EXCEPT ![m][pid] =
                          [lim |-> lim, count |-> 0, active |-> TRUE]]
             /\ stat' = [stat EXCEPT !.subs = @ + 1]
          \/ UNCHANGED <<subs, dst, stat>>
    BY <1>1 DEF Subscribe
  <2>2. CASE UNCHANGED <<subs, dst, stat>>
    BY <1>0, <2>0, <2>2, SameForm DEF tables, queues, apps
  <2>3. CASE /\ IsMatch(pid) /\ pid \notin subs[m]
             /\ subs' = [subs EXCEPT ![m] = @ \cup {pid}]
             /\ dst' = [dst EXCEPT ![m][pid] =
                          [lim |-> lim, count |-> 0, active |-> TRUE]]
             /\ stat' = [stat EXCEPT !.subs = @ + 1]
    <3>1. pid \in PipeIds
      BY <1>0
    <3>2. \A k \in Msgs : subs'[k] = IF k = m THEN subs[k] \cup {pid} ELSE subs[k]
      BY <1>0, <2>3
    <3>3. \A k \in Msgs, p \in PipeIds :
             IF k = m /\ p = pid THEN dst'[k][p].count = 0
                                 ELSE dst'[k][p] = dst[k][p]
      BY <1>0, <2>3, <3>1
    <3>4. Subscribed(t, m, pid)
      BY <2>0, <2>3, <3>1, <3>2, <3>3 DEF Subscribed, tables, queues, apps
    <3> QED BY <3>1, <3>4 DEF PipeForm
  <2> QED BY <2>1, <2>2, <2>3
<1>2. CASE Unsubscribe(t)
  <2>1. PICK m \in routes, pid \in Issued :
         /\ IsMatch(pid) /\ pid \in subs[m]
         /\ subs' = [subs EXCEPT ![m] = @ \ {pid}]
         /\ dst' = [dst EXCEPT ![m][pid] = NoDest]
         /\ stat' = [stat EXCEPT !.subs = @ - 1]
    BY <1>2 DEF Unsubscribe
  <2>2. "Unsubscribe" \in Calls[t] /\ m \in Msgs /\ pid \in PipeIds
    BY <1>0, <1>2 DEF Unsubscribe, Starts
  <2>3. \A k \in Msgs : subs'[k] = IF k = m THEN subs[k] \ {pid} ELSE subs[k]
    BY <1>0, <2>1, <2>2
  <2>4. \A k \in Msgs, p \in PipeIds : ~(k = m /\ p = pid) => dst'[k][p] = dst[k][p]
    BY <1>0, <2>1, <2>2
  <2>5. Unsubscribed(t, m, pid)
    BY <1>2, <2>1, <2>2, <2>3, <2>4 DEF Unsubscribe, Unsubscribed, tables, queues, apps
  <2> QED BY <2>2, <2>5 DEF PipeForm
<1>3. CASE SetPipeOpts(t)
  <2>1. UNCHANGED <<pipeId, lastPipeId, queues, routing, desc, stat, loc, apps>>
    BY <1>3 DEF SetPipeOpts
  <2>2. SamePipes
    <3>1. PICK pid \in Issued, ignore \in BOOLEAN :
             \/ pipe' = [pipe EXCEPT ![Slot(pid)].ignoreMine = ignore]
             \/ pipe' = pipe
      BY <1>3 DEF SetPipeOpts
    <3>2. CASE pipe' = [pipe EXCEPT ![Slot(pid)].ignoreMine = ignore]
      <4>1. \A s \in Slots : LET d == [pipe[s] EXCEPT !.ignoreMine = ignore]
                             IN  /\ d.app = pipe[s].app /\ d.last = pipe[s].last
                                 /\ d.depth = pipe[s].depth
        BY <1>0 DEF PipeRecord
      <4>2. \A s \in Slots : \/ pipe'[s] = pipe[s]
                             \/ pipe'[s] = [pipe[s] EXCEPT !.ignoreMine = ignore]
        BY <1>0, <3>2
      <4> QED BY <4>1, <4>2 DEF SamePipes
    <3> QED BY <3>1, <3>2 DEF SamePipes
  <2> QED BY <2>1, <2>2 DEF Passes, SameDst, Others, queues, routing, apps
<1> QED BY <1>1, <1>2, <1>3

LEMMA PipeIdsFinite == IsFiniteSet(PipeIds)
<1>1. SerialMax - 1 \in Int /\ 0 \in Int
  BY SizesAssumption
<1> QED BY <1>1, FS_Interval DEF PipeIds

LEMMA IncrDecrTyped ==
  ASSUME Typed, NEW b \in Buffers, NEW n \in Nat
  PROVE  /\ Decr(Launched(Incr(desc[b], n))) \in DescRecord
         /\ Decr(Incr(desc[b], n)) \in DescRecord
<1>1. desc[b] \in DescRecord
  BY DEF Typed, TypeOK
<1> QED BY <1>1, DescTyped

(* A transmission's last bracket, with or without copy.                     *)
LEMMA BroadcastForm ==
  ASSUME Typed, Holding, NEW t \in Tasks, NEW b \in Buffers, NEW m \in Msgs,
         b = loc[t].buf, m = loc[t].msg, NEW routed, Broadcast(t, b, m, routed),
         UNCHANGED <<appState, todo>>,
         \/ loc[t].pc = "tx_cast" /\ hold' = hold
         \/ /\ loc[t].pc = "zc_cast"
            /\ \A u \in Tasks : hold'[u] = IF u = t THEN NoBuf ELSE hold[u]
  PROVE  BufferForm(t)
<1> DEFINE served == IF routed THEN Served(m, Caller(t)) ELSE {}
           over == OverLimit(m, served)
           sent == served \ (over \cup QueueFull(served \ over)
                                  \cup QueueGone(served \ over))
           nd == [desc EXCEPT ![b] = Decr(Launched(Incr(@, Cardinality(sent))))]
<1>0. /\ subs \in [Msgs -> SUBSET PipeIds] /\ desc \in [Buffers -> DescRecord]
      /\ dst \in [Msgs -> [PipeIds -> DestRecord]] /\ pipe \in [Slots -> PipeRecord]
      /\ queue \in [PipeIds -> Seq(Buffers)]
  BY DEF Typed, TypeOK
<1>5. /\ queue' = [p \in PipeIds |-> IF p \in sent THEN Append(queue[p], b)
                                                   ELSE queue[p]]
      /\ dst' = [dst EXCEPT ![m] =
                   [p \in PipeIds |->
                      IF p \in sent THEN [dst[m][p] EXCEPT !.count = @ + 1]
                                    ELSE dst[m][p]]]
      /\ pipe' = [s \in Slots |->
                    IF \E p \in sent : Slot(p) = s THEN Delivered(pipe[s])
                                                   ELSE pipe[s]]
      /\ SetDesc(nd)
      /\ Finish(t)
      /\ UNCHANGED <<pipeId, lastPipeId, qcap, routes, subs>>
  BY DEF Broadcast
<1>1. served \subseteq subs[m]
  BY DEF Served
<1> HIDE DEF served
<1>11. sent \subseteq served /\ \A p \in sent : p \in served /\ p \notin over
  OBVIOUS
<1>12. \A p \in served : p \notin over => ~(dst[m][p].count >= dst[m][p].lim)
  BY DEF OverLimit
<1> HIDE DEF sent, over
<1>2. sent \subseteq subs[m] /\ sent \subseteq PipeIds
  BY <1>0, <1>1, <1>11
<1>3. \A p \in sent : dst[m][p].count < dst[m][p].lim
  <2> TAKE p \in sent
  <2>1. dst[m][p] \in DestRecord
    BY <1>0, <1>2
  <2> QED BY <1>11, <1>12, <2>1 DEF DestRecord
<1>4. Cardinality(sent) \in Nat
  BY <1>2, PipeIdsFinite, FS_Subset, FS_CardinalityType
<1>6. \A k \in Msgs, p \in PipeIds :
         /\ dst'[k][p].lim = dst[k][p].lim
         /\ dst'[k][p].count = IF k = m /\ p \in sent THEN dst[k][p].count + 1
                                                      ELSE dst[k][p].count
  <2>1. \A k \in Msgs, p \in PipeIds :
           dst'[k][p] = IF k = m /\ p \in sent THEN [dst[k][p] EXCEPT !.count = @ + 1]
                                               ELSE dst[k][p]
    BY <1>0, <1>5
  <2> TAKE k \in Msgs, p \in PipeIds
  <2>2. dst[k][p] \in DestRecord
    BY <1>0
  <2>3. CASE k = m /\ p \in sent
    <3>1. dst'[k][p] = [dst[k][p] EXCEPT !.count = @ + 1]
      BY <2>1, <2>3
    <3> QED BY <2>2, <2>3, <3>1 DEF DestRecord
  <2>4. CASE ~(k = m /\ p \in sent)
    BY <2>1, <2>4
  <2> QED BY <2>3, <2>4
<1>7. \A s \in Slots :
         /\ pipe'[s].app = pipe[s].app /\ pipe'[s].last = pipe[s].last
         /\ pipe'[s].depth = IF \E p \in sent : Slot(p) = s
                               THEN pipe[s].depth + 1 ELSE pipe[s].depth
  <2>1. \A s \in Slots :
           /\ Delivered(pipe[s]).app = pipe[s].app
           /\ Delivered(pipe[s]).last = pipe[s].last
           /\ Delivered(pipe[s]).depth = pipe[s].depth + 1
    BY <1>0 DEF PipeRecord, Delivered
  <2> QED BY <1>5, <2>1
<1>8. nd \in [Buffers -> DescRecord]
  BY <1>0, <1>4, IncrDecrTyped
<1>9. /\ \A c \in Buffers :
            desc'[c] = IF c = b THEN Decr(Launched(Incr(desc[b], Cardinality(sent))))
                                ELSE desc[c]
      /\ stat' = [stat EXCEPT !.bufs = @ -
                    Cardinality({c \in Buffers : desc[c].use > 0 /\ desc'[c].use = 0})]
  BY <1>0, <1>5, <1>8, SetDescForm
<1>10. Rests(t)
  BY <1>5, RestsForm
<1>13. \A p \in PipeIds : queue'[p] = IF p \in sent THEN Append(queue[p], b)
                                                    ELSE queue[p]
  BY <1>5
<1>14. Sent(t, sent)
  BY <1>2, <1>3, <1>5, <1>6, <1>7, <1>9, <1>10, <1>13 DEF Sent
<1> QED BY <1>2, <1>14 DEF BufferForm

(* ReceiveBuffer leaves the buffer with the pipe and counts one message off. *)
Lends(f, g, n, b) ==
    g = [f EXCEPT ![n].last = b, ![n].depth = IF @ > 0 THEN @ - 1 ELSE 0]
LentAt(f, g, n, b) ==
    \A s \in Slots :
       /\ g[s].app = f[s].app
       /\ g[s].last = IF s = n THEN b ELSE f[s].last
       /\ g[s].depth = IF s = n /\ f[s].depth > 0 THEN f[s].depth - 1 ELSE f[s].depth

LEMMA Lent ==
  ASSUME NEW f \in [Slots -> PipeRecord], NEW g, NEW n \in Slots, NEW b \in Buffers,
         Lends(f, g, n, b)
  PROVE  LentAt(f, g, n, b)
<1>0. SUFFICES ASSUME NEW s \in Slots
               PROVE  /\ g[s].app = f[s].app
                      /\ g[s].last = IF s = n THEN b ELSE f[s].last
                      /\ g[s].depth = IF s = n /\ f[s].depth > 0 THEN f[s].depth - 1
                                                                  ELSE f[s].depth
  BY DEF LentAt
<1>1. s # n => g[s] = f[s]
  BY DEF Lends
<1>2. g[n].app = f[n].app
  BY DEF Lends, PipeRecord
<1>3. g[n].last = b
  BY DEF Lends, PipeRecord
<1>4. g[n].depth = IF f[n].depth > 0 THEN f[n].depth - 1 ELSE 0
  BY DEF Lends, PipeRecord
<1>5. f[n].depth \in Nat
  BY DEF PipeRecord
<1> QED BY <1>1, <1>2, <1>3, <1>4, <1>5

LEMMA TransmitForms ==
  ASSUME Disciplined, Typed, Holding, NEW t \in Tasks,
         \/ TransmitMsg(t) \/ TransmitMsgAlloc(t) \/ TransmitMsgCast(t)
         \/ TransmitBufferCast(t)
  PROVE  Passes(t) \/ BufferForm(t)
<1>0. /\ t \in Actors /\ Promise(loc[t]) /\ desc \in [Buffers -> DescRecord]
      /\ hold \in [Tasks -> Buffers \cup {NoBuf}]
      /\ loc \in [Actors -> LocRecord] /\ loc[t] \in LocRecord
  BY DEF Actors, Typed, TypeOK, Locals
<1>1. CASE TransmitMsg(t)
  <2>0. /\ UNCHANGED <<tables, queues, routing, desc, stat, apps>>
        /\ Runs(t) /\ loc[t].pc = "idle"
    BY Zenon, <1>1, RunsForm DEF TransmitMsg
  <2>1. CASE UNCHANGED loc
    BY <1>0, <2>0, <2>1, SameForm DEF tables, queues, routing, apps
  <2>2. ASSUME NEW m \in routes, Goto(t, [Idle EXCEPT !.pc = "tx_alloc", !.msg = m])
        PROVE  Passes(t)
    <3>1. Others(t) /\ loc'[t] = [Idle EXCEPT !.pc = "tx_alloc", !.msg = m]
      BY <1>0, <2>2, GotoForm
    <3>2. loc'[t].pc = "tx_alloc" /\ loc'[t].buf = NoBuf
      BY <3>1 DEF Idle
    <3> QED BY <1>0, <2>0, <3>1, <3>2, PassesForm
          DEF Passing, tables, queues, routing, apps
  <2> QED BY Zenon, <1>1, <2>1, <2>2 DEF TransmitMsg
<1>2. CASE TransmitMsgAlloc(t)
  <2>0. UNCHANGED <<tables, queues, routing, apps>> /\ loc[t].pc = "tx_alloc"
    BY Zenon, <1>2 DEF TransmitMsgAlloc
  <2>1. CASE Finish(t) /\ UNCHANGED <<desc, stat>>
    <3>1. Rests(t)
      BY <2>1, RestsForm
    <3> QED BY <1>0, <2>0, <2>1, <3>1, PassesForm
          DEF Rests, Passing, tables, queues, routing, apps
  <2>2. ASSUME NEW b \in Buffers, ~Allocated(b),
               desc' = [desc EXCEPT ![b] = [FreshDesc EXCEPT !.msg = loc[t].msg]],
               stat' = [stat EXCEPT !.bufs = @ + 1],
               Goto(t, [loc[t] EXCEPT !.pc = "tx_cast", !.buf = b])
        PROVE  BufferForm(t)
    <3>1. Others(t) /\ loc'[t] = [loc[t] EXCEPT !.pc = "tx_cast", !.buf = b]
      BY <1>0, <2>2, GotoForm
    <3>2. loc'[t].pc = "tx_cast" /\ loc'[t].buf = b /\ loc'[t].msg = loc[t].msg
      BY <1>0, <3>1 DEF LocRecord
    <3>3. \A c \in Buffers : desc'[c] = IF c = b THEN [FreshDesc EXCEPT !.msg = loc[t].msg]
                                                 ELSE desc[c]
      BY <1>0, <2>2
    <3>4. Filling(t, b)
      BY <2>0, <2>2, <3>1, <3>2, <3>3 DEF Filling, tables, queues, routing, apps
    <3> QED BY <3>4 DEF BufferForm
  <2> QED BY Zenon, <1>2, <2>1, <2>2 DEF TransmitMsgAlloc
<1>3. CASE TransmitMsgCast(t)
  <2>1. /\ loc[t].pc = "tx_cast" /\ Broadcast(t, loc[t].buf, loc[t].msg, TRUE)
        /\ UNCHANGED <<hold, appState, todo>>
    BY <1>3 DEF TransmitMsgCast, apps
  <2>2. loc[t].buf \in Buffers /\ loc[t].msg \in Msgs
    BY <1>0, <2>1 DEF Promise
  <2> QED BY <2>1, <2>2, BroadcastForm
<1>4. CASE TransmitBufferCast(t)
  <2>1. /\ loc[t].pc = "zc_cast"
        /\ Broadcast(t, loc[t].buf, loc[t].msg, loc[t].res = "route")
        /\ UNCHANGED <<appState, todo>> /\ hold' = [hold EXCEPT ![t] = NoBuf]
    BY <1>4 DEF TransmitBufferCast
  <2>2. loc[t].buf \in Buffers /\ loc[t].msg \in Msgs
    BY <1>0, <2>1 DEF Promise
  <2>3. \A u \in Tasks : hold'[u] = IF u = t THEN NoBuf ELSE hold[u]
    BY <1>0, <2>1
  <2> HIDE DEF Broadcast
  <2> QED BY <2>1, <2>2, <2>3, BroadcastForm
<1> QED BY <1>1, <1>2, <1>3, <1>4

LEMMA ReceiveForms ==
  ASSUME Disciplined, Typed, Holding, NEW t \in Tasks,
         \/ ReceiveBuffer(t) \/ ReceiveBadArgument(t)
         \/ ReceiveBufferGet(t) \/ ReceiveBufferEnd(t)
  PROVE  Passes(t) \/ BufferForm(t)
<1>0. /\ t \in Actors /\ Promise(loc[t]) /\ desc \in [Buffers -> DescRecord]
      /\ loc \in [Actors -> LocRecord] /\ loc[t] \in LocRecord
      /\ pipe \in [Slots -> PipeRecord] /\ queue \in [PipeIds -> Seq(Buffers)]
      /\ dst \in [Msgs -> [PipeIds -> DestRecord]] /\ lastPipeId \in PipeIds
      /\ Issued \subseteq PipeIds /\ routes \subseteq Msgs
  BY IssuedIds DEF Actors, Typed, TypeOK, Locals
<1>1. CASE ReceiveBuffer(t)
  <2>1. PICK pid \in Issued, finite \in {0, 1} : ReceiveFrom(t, pid, finite)
    BY <1>1 DEF ReceiveBuffer
  <2>2. /\ UNCHANGED <<pipeId, lastPipeId, queues, routing, apps>>
        /\ Runs(t) /\ loc[t].pc = "idle" /\ \A u \in Tasks : ~Receiving(u, pid)
        /\ pid \in PipeIds /\ pid <= lastPipeId /\ Slot(pid) \in Slots
    BY <1>0, <2>1, RunsForm, SlotInRange DEF ReceiveFrom, Disciplined, Issued
  <2>3. CASE UNCHANGED <<pipe, desc, stat, loc>>
    BY <1>0, <2>2, <2>3, SameForm DEF queues, routing, apps
  <2>4. CASE /\ IsMatch(pid)
             /\ IF pipe[Slot(pid)].last = NoBuf
                  THEN UNCHANGED <<pipe, desc, stat>>
                  ELSE /\ DecrUse(pipe[Slot(pid)].last)
                       /\ pipe' = [pipe EXCEPT ![Slot(pid)].last = NoBuf]
             /\ Goto(t, [Idle EXCEPT !.pc = "rcv_get", !.pid = pid, !.n = finite])
    <3>1. /\ Others(t)
          /\ loc'[t] = [Idle EXCEPT !.pc = "rcv_get", !.pid = pid, !.n = finite]
      BY <1>0, <2>4, GotoForm
    <3>2. loc'[t].pc = "rcv_get" /\ loc'[t].pid = pid /\ loc'[t].buf = NoBuf
      BY <3>1 DEF Idle
    <3>3. \A s \in Slots : LET d == [pipe[s] EXCEPT !.last = NoBuf]
                           IN  /\ d.app = pipe[s].app /\ d.depth = pipe[s].depth
                               /\ d.last = NoBuf
      BY <1>0 DEF PipeRecord
    <3>4. \A s \in Slots : /\ pipe'[s].app = pipe[s].app
                           /\ pipe'[s].depth = pipe[s].depth
                           /\ pipe'[s].last = IF s = Slot(pid) THEN NoBuf
                                                               ELSE pipe[s].last
      <4>1. CASE pipe' = pipe /\ pipe[Slot(pid)].last = NoBuf
        BY <4>1
      <4>2. CASE pipe' = [pipe EXCEPT ![Slot(pid)].last = NoBuf]
        <5>1. \A s \in Slots : pipe'[s] = IF s = Slot(pid)
                                            THEN [pipe[s] EXCEPT !.last = NoBuf]
                                            ELSE pipe[s]
          BY <1>0, <2>2, <4>2
        <5> QED BY <3>3, <5>1
      <4> QED BY <2>4, <4>1, <4>2
    <3>5. \/ pipe[Slot(pid)].last = NoBuf /\ desc' = desc /\ stat' = stat
          \/ Drops(pipe[Slot(pid)].last)
      <4>1. CASE pipe[Slot(pid)].last = NoBuf
        BY <2>4, <4>1
      <4>2. CASE pipe[Slot(pid)].last # NoBuf
        <5>1. pipe[Slot(pid)].last \in Buffers
          BY <1>0, <2>2, <4>2 DEF PipeRecord
        <5> QED BY <2>4, <4>2, <5>1, DropsForm
      <4> QED BY <4>1, <4>2
    <3>6. Polled(t, pid)
      BY <2>2, <2>4, <3>1, <3>2, <3>4, <3>5 DEF Polled, queues, routing, apps
    <3> QED BY <2>2, <3>6 DEF BufferForm
  <2> QED BY <2>1, <2>3, <2>4 DEF ReceiveFrom
<1>2. CASE ReceiveBadArgument(t)
  BY <1>0, <1>2, SameForm DEF ReceiveBadArgument, tables, queues, routing, apps
<1>3. CASE ReceiveBufferGet(t)
  <2>0. /\ loc[t].pc = "rcv_get" /\ loc[t].pid \in PipeIds
        /\ UNCHANGED <<tables, qcap, routing, desc, stat, hk, apps>>
    BY <1>0, <1>3 DEF ReceiveBufferGet, Promise, OnPipeId
  <2>1. CASE /\ queue[loc[t].pid] # <<>>
             /\ queue' = [queue EXCEPT ![loc[t].pid] = Tail(@)]
             /\ Goto(t, [loc[t] EXCEPT !.pc = "rcv_end", !.n = 0, !.res = "ok",
                                       !.buf = Head(queue[loc[t].pid])])
    <3>1. /\ Others(t)
          /\ loc'[t] = [loc[t] EXCEPT !.pc = "rcv_end", !.n = 0, !.res = "ok",
                                      !.buf = Head(queue[loc[t].pid])]
      BY <1>0, <2>1, GotoForm
    <3>2. \A b : LET r == [loc[t] EXCEPT !.pc = "rcv_end", !.n = 0, !.res = "ok",
                                         !.buf = b]
                 IN  /\ r.pc = "rcv_end" /\ r.pid = loc[t].pid /\ r.res = "ok"
                     /\ r.buf = b
      BY <1>0 DEF LocRecord
    <3>3. \A p \in PipeIds : queue'[p] = IF p = loc[t].pid THEN Tail(queue[p])
                                                           ELSE queue[p]
      BY <1>0, <2>1
    <3>4. Took(t)
      BY <2>0, <2>1, <3>1, <3>2, <3>3 DEF Took, tables, routing, apps
    <3> QED BY <3>4 DEF BufferForm
  <2>2. ASSUME NEW res \in {"empty", "error"},
               Goto(t, [loc[t] EXCEPT !.pc = "rcv_end", !.n = 0, !.res = res]),
               UNCHANGED queue
        PROVE  BufferForm(t)
    <3>1. /\ Others(t)
          /\ loc'[t] = [loc[t] EXCEPT !.pc = "rcv_end", !.n = 0, !.res = res]
      BY <1>0, <2>2, GotoForm
    <3>2. /\ loc'[t].pc = "rcv_end" /\ loc'[t].pid = loc[t].pid
          /\ loc'[t].res = res /\ loc'[t].buf = loc[t].buf
      BY <1>0, <3>1 DEF LocRecord
    <3>3. TookNothing(t)
      BY <2>0, <2>2, <3>1, <3>2 DEF TookNothing, tables, routing, apps
    <3> QED BY <3>3 DEF BufferForm
  <2> QED BY <1>3, <2>1, <2>2 DEF ReceiveBufferGet
<1>4. CASE ReceiveBufferEnd(t)
  <2> DEFINE pid == loc[t].pid
             b == loc[t].buf
             m == desc[b].msg
  <2>0. /\ loc[t].pc = "rcv_end" /\ pid \in PipeIds /\ Slot(pid) \in Slots
        /\ loc[t].res = "ok" => b \in Buffers
        /\ UNCHANGED <<pipeId, lastPipeId, queues, routes, subs, apps>> /\ Rests(t)
    BY <1>0, <1>4, SlotInRange, RestsForm DEF ReceiveBufferEnd, Promise, OnPipeId
  <2>1. CASE /\ loc[t].res = "ok" /\ IsMatch(pid)
             /\ pipe' = [pipe EXCEPT ![Slot(pid)].last = b,
                                     ![Slot(pid)].depth = IF @ > 0 THEN @ - 1 ELSE 0]
             /\ dst' = Received(m, pid)
             /\ SetDesc([desc EXCEPT ![b] = Decr(Incr(@, 1))])
    <3>1. b \in Buffers
      BY <2>0, <2>1
    <3>2. [desc EXCEPT ![b] = Decr(Incr(@, 1))] \in [Buffers -> DescRecord]
      BY <1>0, <3>1, IncrDecrTyped
    <3>3. /\ \A c \in Buffers : desc'[c] = IF c = b THEN Decr(Incr(desc[b], 1))
                                                    ELSE desc[c]
          /\ stat' = [stat EXCEPT !.bufs = @ - Cardinality(
                        {c \in Buffers : desc[c].use > 0 /\ desc'[c].use = 0})]
      BY <1>0, <2>1, <3>1, <3>2, SetDescForm
    <3>6. \A s \in Slots :
             /\ pipe'[s].app = pipe[s].app
             /\ pipe'[s].last = IF s = Slot(pid) THEN b ELSE pipe[s].last
             /\ pipe'[s].depth = IF s = Slot(pid) /\ pipe[s].depth > 0
                                   THEN pipe[s].depth - 1 ELSE pipe[s].depth
      <4>1. pipe \in [Slots -> PipeRecord] /\ Slot(pid) \in Slots
        BY <1>0, <2>0
      <4>2. pipe' = [pipe EXCEPT ![Slot(pid)].last = b,
                                 ![Slot(pid)].depth = IF @ > 0 THEN @ - 1 ELSE 0]
        BY Zenon, <2>1
      <4> HIDE DEF pid, b
      <4>3. PICK n : n = Slot(pid)
        OBVIOUS
      <4>4. Lends(pipe, pipe', n, b)
        BY Zenon, <4>2, <4>3 DEF Lends
      <4>5. n \in Slots
        BY <4>1, <4>3
      <4>6. LentAt(pipe, pipe', n, b)
        BY <3>1, <4>1, <4>4, <4>5, Lent
      <4> QED BY <4>3, <4>6 DEF LentAt
    <3>7. \A k \in Msgs, p \in PipeIds :
             /\ dst'[k][p].lim = dst[k][p].lim
             /\ p \in subs[k] =>
                   dst'[k][p].count = IF k = m /\ p = pid /\ dst[k][p].count > 0
                                        THEN dst[k][p].count - 1
                                        ELSE dst[k][p].count
      <4>1. CASE m \in routes /\ pid \in subs[m] /\ dst[m][pid].count > 0
        <5>1. dst' = [dst EXCEPT ![m][pid].count = @ - 1] /\ m \in Msgs
          BY Zenon, <1>0, <2>1, <4>1 DEF Received
        <5>2. \A k \in Msgs, p \in PipeIds :
                 dst'[k][p] = IF k = m /\ p = pid
                                THEN [dst[k][p] EXCEPT !.count = @ - 1]
                                ELSE dst[k][p]
          BY Zenon, <1>0, <2>0, <5>1
        <5> TAKE k \in Msgs, p \in PipeIds
        <5>3. dst[k][p] \in DestRecord
          BY <1>0
        <5>4. CASE k = m /\ p = pid
          <6>1. dst'[k][p] = [dst[k][p] EXCEPT !.count = @ - 1]
            BY Zenon, <5>2, <5>4
          <6> QED BY Zenon, <4>1, <5>3, <5>4, <6>1 DEF DestRecord
        <5>5. CASE ~(k = m /\ p = pid)
          BY <5>2, <5>5
        <5> QED BY <5>4, <5>5
      <4>2. CASE ~(m \in routes /\ pid \in subs[m] /\ dst[m][pid].count > 0)
        <5>1. dst' = dst
          BY Zenon, <2>1, <4>2 DEF Received
        <5>2. \A k \in Msgs : pid \in subs[k] => k \in routes
          BY DEF Holding, SubscriptionsLive
        <5> QED BY <4>2, <5>1, <5>2
      <4> QED BY <4>1, <4>2
    <3>8. Handed(t)
      BY Zenon, <2>0, <2>1, <3>1, <3>3, <3>6, <3>7 DEF Handed, queues, apps
    <3> QED BY <3>8 DEF BufferForm
  <2>2. CASE /\ loc[t].res = "ok" /\ ~IsMatch(pid)
             /\ DecrUse(b)
             /\ UNCHANGED <<pipe, dst>>
    <3>1. Drops(b)
      BY <2>0, <2>2, DropsForm
    <3>2. Lost(t)
      BY <2>0, <2>2, <3>1 DEF Lost, queues, apps
    <3> QED BY <3>2 DEF BufferForm
  <2>3. CASE /\ loc[t].res \in {"empty", "error"}
             /\ UNCHANGED <<pipe, dst, desc, stat>>
    <3>1. Refused(t)
      BY <2>0, <2>3 DEF Refused, queues, apps
    <3> QED BY <3>1 DEF BufferForm
  <2> QED BY <1>4, <2>1, <2>2, <2>3 DEF ReceiveBufferEnd
<1> QED BY <1>1, <1>2, <1>3, <1>4

LEMMA ZeroCopyForms ==
  ASSUME Disciplined, Typed, NEW t \in Tasks,
         \/ AllocateMessageBuffer(t) \/ ReleaseMessageBuffer(t)
         \/ ReleaseMessageBufferEnd(t) \/ TransmitBuffer(t)
         \/ TransmitBufferValidate(t)
  PROVE  Passes(t) \/ BufferForm(t)
<1>0. /\ t \in Actors /\ Promise(loc[t]) /\ desc \in [Buffers -> DescRecord]
      /\ hold \in [Tasks -> Buffers \cup {NoBuf}]
      /\ loc \in [Actors -> LocRecord] /\ loc[t] \in LocRecord
  BY DEF Actors, Typed, TypeOK, Locals
<1>1. CASE AllocateMessageBuffer(t)
  <2>0. /\ UNCHANGED <<tables, queues, routing, loc, appState, todo>>
        /\ Runs(t) /\ loc[t].pc = "idle" /\ Caller(t) = AppOf[t] /\ hold[t] = NoBuf
        /\ stat' = [stat EXCEPT !.bufs = @ + 1]
    BY <1>1, RunsForm DEF AllocateMessageBuffer
  <2>1. PICK b \in Buffers :
          /\ ~Allocated(b)
          /\ desc' = [desc EXCEPT ![b] = [FreshDesc EXCEPT !.app = Caller(t),
                                                           !.list = "zeroCopy"]]
          /\ hold' = [hold EXCEPT ![t] = b]
    BY <1>1 DEF AllocateMessageBuffer
  <2>2. /\ \A c \in Buffers :
             desc'[c] = IF c = b THEN [FreshDesc EXCEPT !.app = AppOf[t],
                                                        !.list = "zeroCopy"]
                                 ELSE desc[c]
        /\ \A u \in Tasks : hold'[u] = IF u = t THEN b ELSE hold[u]
    BY <1>0, <2>0, <2>1
  <2>3. Issues(t, b)
    BY <2>0, <2>1, <2>2 DEF Issues, tables, queues, routing
  <2> QED BY <2>3 DEF BufferForm
<1>2. CASE ReleaseMessageBuffer(t) \/ TransmitBuffer(t)
  <2>0. /\ UNCHANGED <<tables, queues, routing, desc, stat, appState, todo>>
        /\ Runs(t) /\ loc[t].pc = "idle" /\ hold[t] # NoBuf
    BY Zenon, <1>2, RunsForm DEF ReleaseMessageBuffer, TransmitBuffer
  <2>1. CASE hold' = [hold EXCEPT ![t] = NoBuf] /\ UNCHANGED loc
    <3>1. \A u \in Tasks : hold'[u] = IF u = t THEN NoBuf ELSE hold[u]
      BY <1>0, <2>1
    <3> QED BY <2>0, <2>1, <3>1
          DEF Passes, SamePipes, SameDst, Others, tables, queues, routing
  <2>2. ASSUME NEW r, Goto(t, r), r.pc \in {"rel", "zc_check"}, r.buf = hold[t],
               UNCHANGED hold
        PROVE  BufferForm(t)
    <3>1. Others(t) /\ loc'[t] = r
      BY <1>0, <2>2, GotoForm
    <3>2. Claimed(t)
      BY <2>0, <2>2, <3>1 DEF Claimed, tables, queues, routing
    <3> QED BY <3>2 DEF BufferForm
  <2>3. \/ hold' = [hold EXCEPT ![t] = NoBuf] /\ UNCHANGED loc
        \/ /\ UNCHANGED hold
           /\ \/ Goto(t, [Idle EXCEPT !.pc = "rel", !.buf = hold[t]])
              \/ \E m, res : Goto(t, [Idle EXCEPT !.pc = "zc_check", !.buf = hold[t],
                                                  !.msg = m, !.res = res])
              \/ Goto(t, [Idle EXCEPT !.pc = "zc_check", !.buf = hold[t],
                                      !.res = "invalid"])
    BY Zenon, <1>2 DEF ReleaseMessageBuffer, TransmitBuffer
  <2>4. ASSUME UNCHANGED hold, Goto(t, [Idle EXCEPT !.pc = "rel", !.buf = hold[t]])
        PROVE  BufferForm(t)
    <3> DEFINE r == [Idle EXCEPT !.pc = "rel", !.buf = hold[t]]
    <3>1. r.pc = "rel" /\ r.buf = hold[t]
      BY DEF Idle
    <3> QED BY <2>2, <2>4, <3>1
  <2>5. ASSUME UNCHANGED hold, NEW m, NEW res,
               Goto(t, [Idle EXCEPT !.pc = "zc_check", !.buf = hold[t],
                                    !.msg = m, !.res = res])
        PROVE  BufferForm(t)
    <3> DEFINE r == [Idle EXCEPT !.pc = "zc_check", !.buf = hold[t],
                                 !.msg = m, !.res = res]
    <3>1. r.pc = "zc_check" /\ r.buf = hold[t]
      BY DEF Idle
    <3> QED BY <2>2, <2>5, <3>1
  <2>6. ASSUME UNCHANGED hold,
               Goto(t, [Idle EXCEPT !.pc = "zc_check", !.buf = hold[t],
                                    !.res = "invalid"])
        PROVE  BufferForm(t)
    <3> DEFINE r == [Idle EXCEPT !.pc = "zc_check", !.buf = hold[t],
                                 !.res = "invalid"]
    <3>1. r.pc = "zc_check" /\ r.buf = hold[t]
      BY DEF Idle
    <3> QED BY <2>2, <2>6, <3>1
  <2> QED BY Zenon, <2>1, <2>3, <2>4, <2>5, <2>6
<1>3. CASE ReleaseMessageBufferEnd(t)
  <2> DEFINE b == loc[t].buf
             nd == [desc EXCEPT ![b] = Decr([@ EXCEPT !.app = NoApp])]
  <2>0. /\ UNCHANGED <<tables, queues, routing, appState, todo>>
        /\ loc[t].pc = "rel" /\ b \in Buffers /\ SetDesc(nd)
    BY <1>0, <1>3 DEF ReleaseMessageBufferEnd, Promise
  <2>1. nd \in [Buffers -> DescRecord]
    <3>1. [desc[b] EXCEPT !.app = NoApp] \in DescRecord
      BY <1>0, <2>0 DEF DescRecord
    <3>2. Decr([desc[b] EXCEPT !.app = NoApp]) \in DescRecord
      BY <3>1, DescTyped
    <3> QED BY <1>0, <2>0, <3>2
  <2>2. /\ \A c \in Buffers :
             desc'[c] = IF c = b THEN Decr([desc[b] EXCEPT !.app = NoApp]) ELSE desc[c]
        /\ stat' = [stat EXCEPT !.bufs = @ -
                      Cardinality({c \in Buffers : desc[c].use > 0 /\ desc'[c].use = 0})]
    BY <1>0, <2>0, <2>1, SetDescForm
  <2>3. \A u \in Tasks : hold'[u] = IF u = t THEN NoBuf ELSE hold[u]
    BY <1>0, <1>3 DEF ReleaseMessageBufferEnd
  <2>4. Rests(t)
    BY <1>3, RestsForm DEF ReleaseMessageBufferEnd
  <2>5. GivenBack(t)
    BY <2>0, <2>2, <2>3, <2>4 DEF GivenBack, tables, queues, routing
  <2> QED BY <2>5 DEF BufferForm
<1>4. CASE TransmitBufferValidate(t)
  <2> DEFINE b == loc[t].buf
             m == loc[t].msg
  <2>0. /\ UNCHANGED <<tables, queues, routing, stat, apps>>
        /\ loc[t].pc = "zc_check" /\ b \in Buffers
    BY <1>0, <1>4 DEF TransmitBufferValidate, Promise
  <2>1. \A c \in Buffers : desc'[c] = IF c = b THEN [desc[b] EXCEPT !.msg = m]
                                               ELSE desc[c]
    BY <1>0, <1>4, <2>0 DEF TransmitBufferValidate
  <2>2. ASSUME NEW res, Goto(t, [loc[t] EXCEPT !.pc = "zc_cast", !.res = res])
        PROVE  /\ Others(t) /\ loc'[t].pc = "zc_cast" /\ loc'[t].buf = b
               /\ loc'[t].msg = m
    <3>1. Others(t) /\ loc'[t] = [loc[t] EXCEPT !.pc = "zc_cast", !.res = res]
      BY <1>0, <2>2, GotoForm
    <3> QED BY <1>0, <3>1 DEF LocRecord
  <2>3. Finish(t) => Rests(t)
    BY RestsForm
  <2>4. Validated(t)
    BY Zenon, <1>4, <2>0, <2>1, <2>2, <2>3
       DEF TransmitBufferValidate, Validated, tables, queues, routing, apps
  <2> QED BY <2>4 DEF BufferForm
<1> QED BY <1>1, <1>2, <1>3, <1>4

LEMMA CommandForms ==
  ASSUME Disciplined, Typed, NEW t \in Tasks,
         \/ GetPipeIdByName(t) \/ GetPipeIdByNameEnd(t)
         \/ RouteCmd(t) \/ ResetCounters(t)
  PROVE  Passes(t)
<1>0. /\ t \in Actors /\ dst \in [Msgs -> [PipeIds -> DestRecord]]
      /\ Issued \subseteq PipeIds /\ routes \subseteq Msgs
  BY IssuedIds DEF Actors, Typed, TypeOK
<1>1. CASE GetPipeIdByName(t)
  <2>0. /\ UNCHANGED <<tables, queues, routing, desc, stat, apps>>
        /\ Runs(t) /\ loc[t].pc = "idle"
    BY Zenon, <1>1, RunsForm DEF GetPipeIdByName
  <2>1. CASE UNCHANGED loc
    BY <1>0, <2>0, <2>1, SameForm DEF tables, queues, routing, apps
  <2>2. ASSUME NEW pid, Goto(t, [Idle EXCEPT !.pc = "by_name", !.pid = pid])
        PROVE  Passes(t)
    <3>1. Others(t) /\ loc'[t] = [Idle EXCEPT !.pc = "by_name", !.pid = pid]
      BY <1>0, <2>2, GotoForm
    <3>2. loc'[t].pc = "by_name" /\ loc'[t].buf = NoBuf
      BY <3>1 DEF Idle
    <3> QED BY <1>0, <2>0, <3>1, <3>2, PassesForm
          DEF Passing, tables, queues, routing, apps
  <2> QED BY Zenon, <1>1, <2>1, <2>2 DEF GetPipeIdByName
<1>2. CASE GetPipeIdByNameEnd(t)
  <2>1. Rests(t)
    BY <1>2, RestsForm DEF GetPipeIdByNameEnd
  <2> QED BY <1>0, <1>2, <2>1, PassesForm
        DEF GetPipeIdByNameEnd, Rests, Passing, tables, queues, routing, apps
<1>3. CASE RouteCmd(t)
  <2>1. SameDst
    <3>1. \/ dst' = dst
          \/ \E m \in routes, pid \in Issued, active \in BOOLEAN :
                dst' = [dst EXCEPT ![m][pid].active = active]
      BY <1>3 DEF RouteCmd
    <3>2. ASSUME NEW m \in Msgs, NEW pid \in PipeIds, NEW active \in BOOLEAN,
                 dst' = [dst EXCEPT ![m][pid].active = active]
          PROVE  SameDst
      <4> SUFFICES ASSUME NEW k \in Msgs, NEW p \in PipeIds
                   PROVE  /\ dst'[k][p].count = dst[k][p].count
                          /\ dst'[k][p].lim = dst[k][p].lim
        BY DEF SameDst
      <4>1. dst[k][p] \in DestRecord
        BY <1>0
      <4>2. \/ dst'[k][p] = dst[k][p]
            \/ dst'[k][p] = [dst[k][p] EXCEPT !.active = active]
        BY <1>0, <3>2
      <4> QED BY <4>1, <4>2 DEF DestRecord
    <3> QED BY <1>0, <3>1, <3>2 DEF SameDst
  <2> QED BY <1>3, <2>1
        DEF RouteCmd, Passes, SamePipes, Others, tables, queues, apps
<1>4. CASE ResetCounters(t)
  BY <1>0, <1>4, SameForm DEF ResetCounters, tables, queues, routing, apps
<1> QED BY <1>1, <1>2, <1>3, <1>4

LEMMA CleanUpForms ==
  ASSUME Disciplined, Typed,
         \/ \E a \in Apps : CleanUpBegin(a)
         \/ CleanUpList \/ CleanUpZeroCopy \/ CleanUpEnd
         \/ \E t \in Tasks : KillTask(t)
  PROVE  CleanUpForm
<1>0. /\ Cleaner \in Actors /\ loc \in [Actors -> LocRecord]
      /\ loc[Cleaner] \in LocRecord /\ appState \in [Apps -> AppStates]
      /\ desc \in [Buffers -> DescRecord] /\ hold \in [Tasks -> Buffers \cup {NoBuf}]
      /\ pipeId \in [Slots -> PipeIds \cup {FREE, RESERVED}]
  BY DEF Actors, Typed, TypeOK
<1>a. \A pc : LET r == [loc[Cleaner] EXCEPT !.pc = pc]
              IN  /\ r.pc = pc /\ r.app = loc[Cleaner].app
                  /\ r.buf = loc[Cleaner].buf
  BY <1>0 DEF LocRecord
<1>1. ASSUME NEW a \in Apps, CleanUpBegin(a)
      PROVE  CleanUpForm
  <2>1. /\ Others(Cleaner)
        /\ loc'[Cleaner] = [Idle EXCEPT !.pc = "cl_list", !.app = a]
    BY Zenon, <1>0, <1>1, GotoForm DEF CleanUpBegin
  <2>2. /\ loc'[Cleaner].pc = "cl_list" /\ loc'[Cleaner].app = a
        /\ loc'[Cleaner].buf = NoBuf
    BY <2>1 DEF Idle
  <2>3. \A c \in Apps : appState'[c] = IF c = a THEN "cleaning" ELSE appState[c]
    BY Zenon, <1>0, <1>1 DEF CleanUpBegin
  <2>4. Begun(a)
    BY Zenon, <1>1, <2>1, <2>2, <2>3
       DEF CleanUpBegin, Begun, Disciplined, tables, queues, routing
  <2> QED BY <2>4 DEF CleanUpForm
<1>2. CASE CleanUpList
  <2>1. /\ Others(Cleaner)
        /\ loc'[Cleaner] = [loc[Cleaner] EXCEPT !.pc = "cl_next"]
    BY <1>0, <1>2, GotoForm DEF CleanUpList
  <2>2. \A s \in Slots : Used(s) /\ pipe[s].app = loc[Cleaner].app
                            => pipeId[s] \in todo'
    BY <1>2, NamesAssumption DEF CleanUpList, Used
  <2>3. Listed
    BY <1>a, <1>2, <2>1, <2>2 DEF CleanUpList, Listed, tables, queues, routing
  <2> QED BY <2>3 DEF CleanUpForm
<1>3. CASE CleanUpZeroCopy
  <2> DEFINE mine == ZeroCopyOf(loc[Cleaner].app)
             nd == [b \in Buffers |-> IF b \in mine THEN Decr(desc[b]) ELSE desc[b]]
  <2>1. nd \in [Buffers -> DescRecord]
    BY <1>0, DescTyped
  <2>2. /\ \A c \in Buffers : desc'[c] = IF c \in mine THEN Decr(desc[c]) ELSE desc[c]
        /\ stat' = [stat EXCEPT !.bufs = @ -
                      Cardinality({c \in Buffers : desc[c].use > 0 /\ desc'[c].use = 0})]
    BY <1>0, <1>3, <2>1, SetDescForm DEF CleanUpZeroCopy
  <2>3. /\ Others(Cleaner)
        /\ loc'[Cleaner] = [loc[Cleaner] EXCEPT !.pc = "cl_kill"]
    BY <1>0, <1>3, GotoForm DEF CleanUpZeroCopy
  <2>4. \A c \in Buffers : c \in mine <=> /\ desc[c].list = "zeroCopy"
                                          /\ desc[c].app = loc[Cleaner].app
    BY DEF ZeroCopyOf
  <2> HIDE DEF mine, nd
  <2>5. Reclaimed
    BY <1>a, <1>3, <2>2, <2>3, <2>4
       DEF CleanUpZeroCopy, Reclaimed, tables, queues, routing, apps
  <2> QED BY <2>5 DEF CleanUpForm
<1>4. CASE CleanUpEnd
  <2>1. Others(Cleaner) /\ loc'[Cleaner] = Idle
    BY <1>0, <1>4, GotoForm DEF CleanUpEnd
  <2>2. Rests(Cleaner)
    BY <2>1 DEF Rests, Idle
  <2>3. \A c \in Apps : appState'[c] = IF c = loc[Cleaner].app THEN "gone"
                                                              ELSE appState[c]
    BY <1>0, <1>4 DEF CleanUpEnd
  <2>4. \A t \in Tasks : AppOf[t] = loc[Cleaner].app => loc[t].pc = "dead"
    BY <1>4 DEF CleanUpEnd, TasksOf
  <2>5. Ended
    BY <1>4, <2>2, <2>3, <2>4 DEF CleanUpEnd, Ended, tables, queues, routing
  <2> QED BY <2>5 DEF CleanUpForm
<1>5. ASSUME NEW t \in Tasks, KillTask(t)
      PROVE  CleanUpForm
  <2>1. Others(t) /\ loc'[t] = [Idle EXCEPT !.pc = "dead"]
    BY <1>5, GotoForm DEF KillTask, Actors
  <2>2. loc'[t].pc = "dead" /\ loc'[t].buf = NoBuf
    BY <2>1 DEF Idle
  <2>3. \A u \in Tasks : hold'[u] = IF u = t THEN NoBuf ELSE hold[u]
    BY <1>0, <1>5 DEF KillTask
  <2>4. Killed(t)
    BY <1>5, <2>1, <2>2, <2>3 DEF KillTask, Killed, tables, queues, routing
  <2> QED BY <2>4 DEF CleanUpForm
<1> QED BY <1>1, <1>2, <1>3, <1>4, <1>5

LEMMA StepForms ==
  ASSUME Disciplined, Typed, Holding, [Next]_vars
  PROVE  StepForm
<1>1. ASSUME NEW t \in Tasks, Start(t) PROVE StepForm
  <2>1. Passes(t) \/ PipeForm(t) \/ BufferForm(t)
    BY <1>1, CreateForms, DeleteForms, SubscribeForms, TransmitForms, ReceiveForms,
       ZeroCopyForms, CommandForms DEF Start
  <2> QED BY <2>1 DEF StepForm, Actors
<1>2. ASSUME NEW t \in Tasks, Continue(t) PROVE StepForm
  <2>1. Passes(t) \/ PipeForm(t) \/ BufferForm(t)
    BY <1>2, CreateForms, TransmitForms, ReceiveForms,
       ZeroCopyForms, CommandForms DEF Continue
  <2> QED BY <2>1 DEF StepForm, Actors
<1>3. ASSUME NEW t \in Tasks, KillTask(t) PROVE StepForm
  BY <1>3, CleanUpForms DEF StepForm
<1>4. ASSUME NEW a \in Apps, CleanUpBegin(a) PROVE StepForm
  BY <1>4, CleanUpForms DEF StepForm
<1>5. CASE CleanUpStep
  BY <1>5, CleanUpForms, DeleteForms DEF CleanUpStep, StepForm, Actors
<1>6. ASSUME NEW t \in Actors, DeleteStep(t) PROVE StepForm
  BY <1>6, DeleteStepForms DEF StepForm
<1>7. CASE UNCHANGED vars
  <2>1. Passes(Cleaner)
    BY <1>7, SameForm DEF vars, Actors
  <2> QED BY <2>1 DEF StepForm, Actors
<1> QED BY <1>1, <1>2, <1>3, <1>4, <1>5, <1>6, <1>7 DEF Next

-----------------------------------------------------------------------------
(* Tidiness: who may be where, and what is empty.                           *)

CleanerPCs == {"idle", "cl_list", "cl_next", "cl_kill",
               "del_drain", "del_queue", "del_end"}
Roles ==
    /\ loc[Cleaner].pc \in CleanerPCs
    /\ \A t \in Tasks : loc[t].pc \notin {"cl_list", "cl_next", "cl_kill"}

Quiet ==
    \A t \in Tasks : appState[AppOf[t]] # "running" =>
       loc[t].pc \in {"idle", "rcv_get", "rcv_end", "dead"}

InHand ==
    \A t \in Actors :
      /\ loc[t].pc \in {"idle", "rcv_get"} => loc[t].buf = NoBuf
      /\ loc[t].pc = "rcv_end" /\ loc[t].res # "ok" => loc[t].buf = NoBuf
      /\ loc[t].pc = "rcv_end" => loc[t].res \in {"ok", "empty", "error"}

Emptied ==
    /\ \A p \in PipeIds : qcap[p] = 0 => queue[p] = <<>>
    /\ \A t \in Actors : loc[t].pc = "del_queue" => queue[loc[t].pid] = <<>>

(* The pipe a task is creating is empty, its slot cleared, and nobody       *)
(* receives from it.                                                        *)
Fresh ==
    \A t \in Actors : loc[t].pc \in {"cr_queue", "cr_end"} =>
       /\ t \in Tasks /\ loc[t].app = AppOf[t]
       /\ pipe[Slot(loc[t].pid)].last = NoBuf
       /\ pipe[Slot(loc[t].pid)].depth = 0
       /\ queue[loc[t].pid] = <<>>
       /\ \A u \in Tasks : ~Receiving(u, loc[t].pid)

(* One task at a time receives from a pipe, and while it does so the pipe   *)
(* keeps no buffer of an earlier call.                                      *)
Receivers ==
    /\ \A t, u \in Tasks : \A p \in PipeIds :
          Receiving(t, p) /\ Receiving(u, p) => t = u
    /\ \A t \in Tasks : \A p \in PipeIds : Receiving(t, p) =>
          p <= lastPipeId /\ (IsMatch(p) => pipe[Slot(p)].last = NoBuf)

Tidy == Roles /\ Quiet /\ InHand /\ Emptied /\ Fresh /\ Receivers

LEMMA RolesKept ==
  ASSUME Typed, Roles, StepForm
  PROVE  Roles'
<1>0. /\ Cleaner \notin Tasks /\ Cleaner \in Actors
      /\ \A t \in Tasks : t \in Actors /\ AppOf[t] \in Apps
  BY NamesAssumption DEF Actors
<1>1. CASE CleanUpForm
  BY <1>0, <1>1
     DEF CleanUpForm, Begun, Listed, Reclaimed, Ended, Skipped, Killed,
         Others, Rests, Runs, Roles, CleanerPCs
<1>2. ASSUME NEW t \in Actors, Passes(t) PROVE Roles'
  BY <1>0, <1>2 DEF Passes, Passing, Runs, Others, Roles, CleanerPCs
<1>3. ASSUME NEW t \in Actors, PipeForm(t) PROVE Roles'
  BY <1>0, <1>3
     DEF PipeForm, Reserved, Unpublished, QueueMade, Published, Withdrawn,
         Drained, DrainTook, DrainEnded, QueueDeleted, SlotFreed, Subscribed,
         Unsubscribed, Others, Rests, Runs, Roles, CleanerPCs
<1>4. ASSUME NEW t \in Actors, BufferForm(t) PROVE Roles'
  BY Zenon, <1>0, <1>4
     DEF BufferForm, Filling, Issues, Sent, Polled, Took, TookNothing, Handed,
         Lost, Refused, Claimed, GivenBack, Validated, Others, Rests, Runs,
         Roles, CleanerPCs
<1> QED BY <1>1, <1>2, <1>3, <1>4 DEF StepForm

LEMMA QuietKept ==
  ASSUME Typed, Roles, Quiet, StepForm
  PROVE  Quiet'
<1>0. /\ Cleaner \notin Tasks /\ Cleaner \in Actors
      /\ \A t \in Tasks : t \in Actors /\ AppOf[t] \in Apps
  BY NamesAssumption DEF Actors
<1>5. \A a \in Apps : \A t \in Tasks : AppOf[t] = a <=> t \in TasksOf(a)
  BY DEF TasksOf
<1>1. CASE CleanUpForm
  <2>1. CASE \E a \in Apps : Begun(a)
    BY <1>0, <1>1, <2>1, <1>5 DEF Begun, Others, Rests, Runs, Quiet
  <2>2. CASE \/ Ended
             \/ \E t \in Tasks : Killed(t)
    BY <1>0, <1>1, <2>2 DEF Ended, Killed, Others, Rests, Runs, Quiet
  <2>3. CASE \/ Listed
             \/ Reclaimed
             \/ \E pid \in PipeIds : Skipped(pid)
    BY <1>0, <1>1, <2>3
       DEF Listed, Reclaimed, Skipped, Others, Rests, Runs, Quiet, Roles
  <2> QED BY <1>1, <2>1, <2>2, <2>3 DEF CleanUpForm
<1>2. ASSUME NEW t \in Actors, Passes(t) PROVE Quiet'
  BY <1>0, <1>2 DEF Passes, Passing, Runs, Others, Quiet
<1>3. ASSUME NEW t \in Actors, PipeForm(t) PROVE Quiet'
  BY <1>0, <1>3
     DEF PipeForm, Reserved, Unpublished, QueueMade, Published, Withdrawn,
         Drained, DrainTook, DrainEnded, QueueDeleted, SlotFreed, Subscribed,
         Unsubscribed, Others, Rests, Runs, Quiet
<1>4. ASSUME NEW t \in Actors, BufferForm(t) PROVE Quiet'
  BY Zenon, <1>0, <1>4
     DEF BufferForm, Filling, Issues, Sent, Polled, Took, TookNothing, Handed,
         Lost, Refused, Claimed, GivenBack, Validated, Others, Rests, Runs,
         Quiet
<1> QED BY <1>1, <1>2, <1>3, <1>4 DEF StepForm

LEMMA InHandKept ==
  ASSUME Typed, Roles, InHand, StepForm
  PROVE  InHand'
<1>0. /\ Cleaner \notin Tasks /\ Cleaner \in Actors
      /\ \A t \in Tasks : t \in Actors /\ AppOf[t] \in Apps
  BY NamesAssumption DEF Actors
<1>1. CASE CleanUpForm
  BY <1>0, <1>1, NamesAssumption
     DEF CleanUpForm, Begun, Listed, Reclaimed, Ended, Skipped, Killed,
         Others, Rests, Runs, InHand, Roles, CleanerPCs, Passing
<1>2. ASSUME NEW t \in Actors, Passes(t) PROVE InHand'
  <2>1. \A u \in Actors : \/ loc'[u] = loc[u]
                          \/ loc'[u].pc \in Passing /\ loc'[u].buf = NoBuf
    BY <1>2 DEF Passes, Others
  <2> QED BY <2>1 DEF InHand, Passing
<1>3. ASSUME NEW t \in Actors, PipeForm(t) PROVE InHand'
  <2>1. CASE Published(t) \/ Withdrawn(t)
    <3>1. Rests(t)
      BY <2>1 DEF Published, Withdrawn
    <3> QED BY <3>1 DEF Rests, Others, InHand
  <2>2. CASE \E m \in Msgs, pid \in PipeIds : Subscribed(t, m, pid) \/ Unsubscribed(t, m, pid)
    <3>1. loc' = loc
      BY <2>2 DEF Subscribed, Unsubscribed
    <3> QED BY <3>1 DEF InHand
  <2>3. CASE \/ \E pid \in PipeIds : Reserved(t, pid) \/ Unpublished(t, pid)
             \/ QueueMade(t) \/ Drained(t) \/ DrainTook(t) \/ DrainEnded(t)
             \/ QueueDeleted(t) \/ SlotFreed(t)
    <3>1. /\ Others(t) /\ loc'[t].pc \notin {"rcv_get", "rcv_end"}
          /\ loc'[t].pc = "idle" => loc'[t].buf = NoBuf
      BY <2>3 DEF Reserved, Unpublished, QueueMade, Drained, DrainTook, DrainEnded,
         QueueDeleted, SlotFreed
    <3> QED BY <3>1 DEF Others, InHand
  <2> QED BY <1>3, <2>1, <2>2, <2>3 DEF PipeForm
<1>4. ASSUME NEW t \in Actors, BufferForm(t) PROVE InHand'
  <2>1. CASE \E b \in Buffers : Filling(t, b) \/ Issues(t, b)
    BY <2>1 DEF Filling, Issues, Others, InHand
  <2>2. CASE \/ \E sent \in SUBSET PipeIds : Sent(t, sent)
             \/ Handed(t) \/ Lost(t) \/ Refused(t)
    <3>1. Rests(t)
      BY <2>2 DEF Sent, Handed, Lost, Refused
    <3> QED BY <3>1 DEF Rests, Others, InHand
  <2>3. CASE (\E pid \in PipeIds : Polled(t, pid)) \/ Took(t) \/ TookNothing(t)
    BY <2>3 DEF Polled, Took, TookNothing, Others, InHand
  <2>4. CASE Claimed(t) \/ GivenBack(t) \/ Validated(t)
    BY <2>4 DEF Claimed, GivenBack, Validated, Rests, Others, InHand
  <2> QED BY <1>4, <2>1, <2>2, <2>3, <2>4 DEF BufferForm
<1> QED BY <1>1, <1>2, <1>3, <1>4 DEF StepForm

(* The facts about pipe IDs that the steps below use.                       *)
LEMMA PipeFacts ==
  ASSUME Typed, Holding
  PROVE  /\ \A p \in PipeIds : Slot(p) \in Slots
         /\ \A p, q \in PipeIds : IsMatch(p) /\ IsMatch(q) /\ Slot(p) = Slot(q) => p = q
         /\ \A p \in PipeIds : IsMatch(p) => p <= lastPipeId /\ qcap[p] > 0
         /\ \A m \in Msgs : \A p \in subs[m] : p \in PipeIds /\ IsMatch(p) /\ qcap[p] > 0
         /\ \A p \in PipeIds : p > lastPipeId => qcap[p] = 0
<1>1. \A p \in PipeIds : Slot(p) \in Slots
  BY SlotInRange
<1>2. \A p, q \in PipeIds : IsMatch(p) /\ IsMatch(q) /\ Slot(p) = Slot(q) => p = q
  BY DEF IsMatch
<1>3. \A p \in PipeIds : IsMatch(p) => p <= lastPipeId /\ qcap[p] > 0
  BY <1>1 DEF Holding, SlotsIndexed, QueueKnown, IsMatch
<1>4. \A m \in Msgs : \A p \in subs[m] : p \in PipeIds /\ IsMatch(p) /\ qcap[p] > 0
  BY DEF Holding, SubscriptionsLive, Typed, TypeOK
<1>5. ASSUME NEW p \in PipeIds, p > lastPipeId
      PROVE  qcap[p] = 0
  <2>1. ~IsMatch(p)
    BY <1>3, <1>5, SizesAssumption DEF Typed, TypeOK, PipeIds
  <2>2. \A t \in Actors : Reserving(t) => loc[t].pid <= lastPipeId
    BY DEF Holding, HeldAlone
  <2>3. \A t \in Actors : Reserving(t) => loc[t].pid # p
    BY <1>5, <2>2, SizesAssumption DEF Typed, TypeOK, PipeIds
  <2>4. ~(qcap[p] > 0)
    BY <2>1, <2>3 DEF Holding, NoOrphanQueue, Reserving
  <2> QED BY <2>4 DEF Typed, TypeOK
<1> QED BY <1>1, <1>2, <1>3, <1>4, <1>5

LEMMA ReserveFacts ==
  ASSUME Typed, Holding
  PROVE  \A t \in Actors : Reserving(t) =>
            /\ loc[t].pid \in PipeIds /\ Slot(loc[t].pid) \in Slots
            /\ pipeId[Slot(loc[t].pid)] = RESERVED /\ loc[t].pid <= lastPipeId
            /\ ~IsMatch(loc[t].pid)
            /\ \A p \in PipeIds : IsMatch(p) => Slot(p) # Slot(loc[t].pid)
            /\ \A u \in Actors : u # t /\ Reserving(u) =>
                  Slot(loc[u].pid) # Slot(loc[t].pid) /\ loc[u].pid # loc[t].pid
  BY ReservationFacts, NamesAssumption DEF IsMatch

LEMMA EmptiedKept ==
  ASSUME Typed, Holding, Emptied, Fresh, StepForm
  PROVE  Emptied'
<1>0. /\ Cleaner \notin Tasks /\ Cleaner \in Actors
      /\ \A t \in Tasks : t \in Actors /\ AppOf[t] \in Apps
  BY NamesAssumption DEF Actors
<1>1. CASE CleanUpForm
  BY <1>0, <1>1
     DEF CleanUpForm, Begun, Listed, Reclaimed, Ended, Skipped, Killed,
         Others, Rests, Runs, Emptied, Fresh, Reserving
<1>2. ASSUME NEW t \in Actors, Passes(t) PROVE Emptied'
  BY <1>0, <1>2 DEF Passes, Passing, Runs, Others, Emptied, Fresh, Reserving
<1>3. ASSUME NEW t \in Actors, PipeForm(t) PROVE Emptied'
  <2>1. CASE QueueMade(t)
    BY <1>0, <1>3, <2>1, PipeFacts, ReserveFacts
       DEF QueueMade, Others, Rests, Runs, Emptied, Fresh, Reserving
  <2>2. CASE DrainTook(t)
    BY <1>0, <1>3, <2>2, PipeFacts, ReserveFacts
       DEF DrainTook, Others, Rests, Runs, Emptied, Fresh, Reserving
  <2>3. CASE DrainEnded(t)
    BY <1>0, <1>3, <2>3, PipeFacts, ReserveFacts
       DEF DrainEnded, Others, Rests, Runs, Emptied, Fresh, Reserving
  <2>4. CASE QueueDeleted(t)
    BY <1>0, <1>3, <2>4, PipeFacts, ReserveFacts
       DEF QueueDeleted, Others, Rests, Runs, Emptied, Fresh, Reserving
  <2>5. CASE \/ \E m \in Msgs, pid \in PipeIds : Subscribed(t, m, pid)
             \/ \E m \in Msgs, pid \in PipeIds : Unsubscribed(t, m, pid)
    BY <1>0, <1>3, <2>5
       DEF Subscribed, Unsubscribed, Others, Rests, Runs, Emptied, Fresh,
           Reserving
  <2>6. CASE \E pid \in PipeIds : Reserved(t, pid)
    BY <1>0, <1>3, <2>6 DEF Reserved, Others, Rests, Runs, Emptied
  <2>7. CASE \E pid \in PipeIds : Unpublished(t, pid)
    BY <1>0, <1>3, <2>7 DEF Unpublished, Others, Rests, Runs, Emptied
  <2>8. CASE \/ Published(t)
             \/ Withdrawn(t)
             \/ Drained(t)
             \/ SlotFreed(t)
    BY <1>0, <1>3, <2>8
       DEF Published, Withdrawn, Drained, SlotFreed, Others, Rests, Runs,
           Emptied, Fresh, Reserving
  <2> QED BY <1>3, <2>1, <2>2, <2>3, <2>4, <2>5, <2>6, <2>7, <2>8 DEF PipeForm
<1>4. ASSUME NEW t \in Actors, BufferForm(t) PROVE Emptied'
  <2>1. CASE \E sent \in SUBSET PipeIds : Sent(t, sent)
    BY <1>0, <1>4, <2>1, PipeFacts, ReserveFacts
       DEF Sent, Others, Rests, Runs, Emptied, Fresh, Reserving
  <2>2. CASE Took(t)
    BY <1>0, <1>4, <2>2, PipeFacts, ReserveFacts
       DEF Took, Others, Rests, Runs, Emptied, Fresh, Reserving
  <2>3. CASE \/ \E b \in Buffers : Filling(t, b)
             \/ \E b \in Buffers : Issues(t, b)
             \/ \E pid \in PipeIds : Polled(t, pid)
             \/ TookNothing(t)
             \/ Handed(t)
             \/ Lost(t)
             \/ Refused(t)
             \/ Claimed(t)
             \/ GivenBack(t)
             \/ Validated(t)
    <3>1. queue' = queue /\ qcap' = qcap
      BY <2>3 DEF Filling, Issues, Polled, TookNothing, Handed, Lost, Refused,
         Claimed, GivenBack, Validated
    <3>2. \A u \in Actors : loc'[u] = loc[u] \/ loc'[u].pc # "del_queue"
      <4>1. CASE loc' = loc
        BY <4>1
      <4>2. CASE loc' # loc
        <5>1. Others(t) /\ loc'[t].pc # "del_queue"
          BY <2>3, <4>2 DEF Filling, Issues, Polled, TookNothing, Handed, Lost, Refused,
             Claimed, GivenBack, Validated, Rests
        <5> QED BY <5>1 DEF Others
      <4> QED BY <4>1, <4>2
    <3> QED BY <3>1, <3>2 DEF Emptied
  <2> QED BY <1>4, <2>1, <2>2, <2>3 DEF BufferForm
<1> QED BY <1>1, <1>2, <1>3, <1>4 DEF StepForm

LEMMA FreshKept ==
  ASSUME Typed, Holding, Roles, Emptied, Fresh, Receivers, StepForm
  PROVE  Fresh'
<1>0. /\ Cleaner \notin Tasks /\ Cleaner \in Actors
      /\ \A t \in Tasks : t \in Actors /\ AppOf[t] \in Apps
  BY NamesAssumption DEF Actors
<1>5. lastPipeId \in Int /\ PipeIds \subseteq Int
  BY SizesAssumption DEF Typed, TypeOK, PipeIds
<1>1. CASE CleanUpForm
  BY <1>0, <1>1
     DEF CleanUpForm, Begun, Listed, Reclaimed, Ended, Skipped, Killed,
         Others, Rests, Runs, Fresh, Receiving
<1>2. ASSUME NEW t \in Actors, Passes(t) PROVE Fresh'
  BY <1>0, <1>2, PipeFacts, ReserveFacts
     DEF Passes, Passing, Runs, Others, Fresh, Receiving, Reserving, SamePipes
<1>3. ASSUME NEW t \in Actors, PipeForm(t) PROVE Fresh'
  <2>1. CASE \E pid \in PipeIds : Reserved(t, pid)
    <3>1. PICK pid \in PipeIds : Reserved(t, pid)
      BY <2>1
    <3>2. queue[pid] = <<>> /\ \A u \in Tasks : ~Receiving(u, pid)
      BY <1>5, <3>1, PipeFacts DEF Reserved, Emptied, Receivers
    <3>3. \A u \in Actors : u # t /\ loc[u].pc \in {"cr_queue", "cr_end"} =>
             Slot(loc[u].pid) \in Slots /\ Slot(loc[u].pid) # Slot(pid)
      BY <3>1, ReserveFacts, NamesAssumption DEF Reserved, Reserving
    <3>4. \A u \in Tasks, p \in PipeIds : Receiving(u, p)' => Receiving(u, p)
      BY <1>0, <3>1 DEF Reserved, Others, Receiving
    <3>5. \A u \in Actors : u # t /\ loc[u].pc \in {"cr_queue", "cr_end"} =>
             loc[u].pid \in PipeIds
      BY ReserveFacts DEF Reserving
    <3>6. ClearPipe.last = NoBuf /\ ClearPipe.depth = 0 /\ Slot(pid) \in Slots
      BY SlotInRange DEF ClearPipe
    <3> QED BY <1>0, <3>1, <3>2, <3>3, <3>4, <3>5, <3>6
          DEF Reserved, Runs, Others, Fresh
  <2>2. CASE QueueMade(t)
    BY <1>0, <1>3, <2>2, PipeFacts, ReserveFacts
       DEF QueueMade, Others, Rests, Runs, Fresh, Receiving, Reserving
  <2>3. CASE Published(t)
    BY <1>0, <1>3, <2>3, PipeFacts, ReserveFacts
       DEF Published, Others, Rests, Runs, Fresh, Receiving, Reserving
  <2>4. CASE DrainTook(t)
    BY <1>0, <1>3, <2>4, PipeFacts, ReserveFacts
       DEF DrainTook, Others, Rests, Runs, Fresh, Receiving, Reserving
  <2>5. CASE QueueDeleted(t)
    BY <1>0, <1>3, <2>5, PipeFacts, ReserveFacts
       DEF QueueDeleted, Others, Rests, Runs, Fresh, Receiving, Reserving
  <2>6. CASE \E pid \in PipeIds : Unpublished(t, pid)
    BY <1>0, <1>3, <2>6 DEF Unpublished, Others, Rests, Runs, Fresh, Receiving
  <2>7. CASE \/ \E m \in Msgs, pid \in PipeIds : Subscribed(t, m, pid)
             \/ \E m \in Msgs, pid \in PipeIds : Unsubscribed(t, m, pid)
    BY <1>0, <1>3, <2>7
       DEF Subscribed, Unsubscribed, Others, Rests, Runs, Fresh, Receiving
  <2>8. CASE \/ Withdrawn(t)
             \/ Drained(t)
             \/ DrainEnded(t)
             \/ SlotFreed(t)
    BY <1>0, <1>3, <2>8
       DEF Withdrawn, Drained, DrainEnded, SlotFreed, Others, Rests, Runs,
           Fresh, Receiving
  <2> QED BY <1>3, <2>1, <2>2, <2>3, <2>4, <2>5, <2>6, <2>7, <2>8 DEF PipeForm
<1>4. ASSUME NEW t \in Actors, BufferForm(t) PROVE Fresh'
  <2>1. CASE \E sent \in SUBSET PipeIds : Sent(t, sent)
    BY <1>0, <1>4, <2>1, PipeFacts, ReserveFacts
       DEF Sent, Others, Rests, Runs, Fresh, Receiving, Reserving
  <2>2. CASE \E pid \in PipeIds : Polled(t, pid)
    BY <1>0, <1>4, <2>2, PipeFacts, ReserveFacts
       DEF Polled, Others, Rests, Runs, Fresh, Receiving, Reserving
  <2>3. CASE Took(t)
    BY <1>0, <1>4, <2>3, PipeFacts, ReserveFacts
       DEF Took, Others, Rests, Runs, Fresh, Receiving, Reserving
  <2>4. CASE Handed(t)
    <3>0. loc[t].pid \in PipeIds /\ IsMatch(loc[t].pid)
      BY <2>4 DEF Handed, IsMatch
    <3>1. \A u \in Actors : loc'[u].pc \in {"cr_queue", "cr_end"} =>
             /\ loc'[u] = loc[u] /\ Slot(loc[u].pid) \in Slots
             /\ Slot(loc[u].pid) # Slot(loc[t].pid) /\ loc[u].pid \in PipeIds
      BY <2>4, <3>0, ReserveFacts DEF Handed, Rests, Others, Reserving
    <3>2. \A u \in Tasks, p \in PipeIds : Receiving(u, p)' => Receiving(u, p)
      BY <1>0, <2>4 DEF Handed, Rests, Others, Receiving
    <3> QED BY <2>4, <3>1, <3>2 DEF Handed, Fresh
  <2>5. CASE \/ Lost(t)
             \/ Refused(t)
             \/ TookNothing(t)
    BY <1>0, <1>4, <2>5
       DEF Lost, Refused, TookNothing, Others, Rests, Runs, Fresh, Receiving
  <2>6. CASE \/ \E b \in Buffers : Filling(t, b)
             \/ \E b \in Buffers : Issues(t, b)
             \/ Claimed(t)
             \/ GivenBack(t)
             \/ Validated(t)
    BY <1>0, <1>4, <2>6
       DEF Filling, Issues, Claimed, GivenBack, Validated, Others, Rests,
           Runs, Fresh, Receiving
  <2> QED BY <1>4, <2>1, <2>2, <2>3, <2>4, <2>5, <2>6 DEF BufferForm
<1> QED BY <1>1, <1>2, <1>3, <1>4 DEF StepForm

LEMMA ReceiversKept ==
  ASSUME Typed, Holding, Roles, Emptied, Fresh, Receivers, StepForm
  PROVE  Receivers'
<1>0. /\ Cleaner \notin Tasks /\ Cleaner \in Actors
      /\ \A t \in Tasks : t \in Actors /\ AppOf[t] \in Apps
  BY NamesAssumption DEF Actors
<1>5. lastPipeId \in Int /\ PipeIds \subseteq Int
  BY SizesAssumption DEF Typed, TypeOK, PipeIds
<1>1. CASE CleanUpForm
  BY <1>0, <1>1
     DEF CleanUpForm, Begun, Listed, Reclaimed, Ended, Skipped, Killed,
         Others, Rests, Runs, Receivers, Receiving, IsMatch
<1>2. ASSUME NEW t \in Actors, Passes(t) PROVE Receivers'
  BY <1>0, <1>2, PipeFacts
     DEF Passes, Passing, Runs, Others, Receivers, Receiving, IsMatch,
         SamePipes
<1>3. ASSUME NEW t \in Actors, PipeForm(t) PROVE Receivers'
  <2>1. CASE \E pid \in PipeIds : Reserved(t, pid)
    <3>1. PICK pid \in PipeIds : Reserved(t, pid)
      BY <2>1
    <3>2. \A u \in Tasks, p \in PipeIds : Receiving(u, p)' => Receiving(u, p)
      BY <1>0, <3>1 DEF Reserved, Others, Receiving
    <3>3. \A p \in PipeIds : IsMatch(p)' => IsMatch(p) /\ pipe'[Slot(p)] = pipe[Slot(p)]
      BY <3>1, SlotInRange, NamesAssumption DEF Reserved, IsMatch
    <3>4. \A p \in PipeIds : p <= lastPipeId => p <= lastPipeId'
      BY <1>5, <3>1 DEF Reserved
    <3> QED BY <3>2, <3>3, <3>4 DEF Receivers
  <2>2. CASE Published(t)
    BY <1>0, <1>3, <2>2, PipeFacts, ReserveFacts, NamesAssumption
       DEF Published, Others, Rests, Runs, Receivers, Receiving, IsMatch,
           Fresh, Reserving
  <2>3. CASE Withdrawn(t)
    BY <1>0, <1>3, <2>3, PipeFacts, ReserveFacts, NamesAssumption
       DEF Withdrawn, Others, Rests, Runs, Receivers, Receiving, IsMatch
  <2>4. CASE \E pid \in PipeIds : Unpublished(t, pid)
    BY <1>0, <1>3, <2>4, PipeFacts, ReserveFacts, NamesAssumption
       DEF Unpublished, Others, Rests, Runs, Receivers, Receiving, IsMatch
  <2>5. CASE SlotFreed(t)
    BY <1>0, <1>3, <2>5, PipeFacts, ReserveFacts, NamesAssumption
       DEF SlotFreed, Others, Rests, Runs, Receivers, Receiving, IsMatch
  <2>6. CASE \/ QueueMade(t)
             \/ Drained(t)
             \/ DrainTook(t)
             \/ DrainEnded(t)
             \/ QueueDeleted(t)
             \/ \E m \in Msgs, pid \in PipeIds : Subscribed(t, m, pid)
             \/ \E m \in Msgs, pid \in PipeIds : Unsubscribed(t, m, pid)
    BY <1>0, <1>3, <2>6
       DEF QueueMade, Drained, DrainTook, DrainEnded, QueueDeleted,
           Subscribed, Unsubscribed, Others, Rests, Runs, Receivers,
           Receiving, IsMatch
  <2> QED BY <1>3, <2>1, <2>2, <2>3, <2>4, <2>5, <2>6 DEF PipeForm
<1>4. ASSUME NEW t \in Actors, BufferForm(t) PROVE Receivers'
  <2>1. CASE \E sent \in SUBSET PipeIds : Sent(t, sent)
    BY <1>0, <1>4, <2>1, PipeFacts
       DEF Sent, Others, Rests, Runs, Receivers, Receiving, IsMatch
  <2>2. CASE \E pid \in PipeIds : Polled(t, pid)
    BY <1>0, <1>4, <2>2, PipeFacts, ReserveFacts
       DEF Polled, Others, Rests, Runs, Receivers, Receiving, IsMatch
  <2>3. CASE Handed(t)
    BY <1>0, <1>4, <2>3, PipeFacts, ReserveFacts
       DEF Handed, Others, Rests, Runs, Receivers, Receiving, IsMatch
  <2>4. CASE \/ Took(t)
             \/ TookNothing(t)
             \/ Lost(t)
             \/ Refused(t)
    BY <1>0, <1>4, <2>4
       DEF Took, TookNothing, Lost, Refused, Others, Rests, Runs, Receivers,
           Receiving, IsMatch
  <2>5. CASE \/ \E b \in Buffers : Filling(t, b)
             \/ \E b \in Buffers : Issues(t, b)
             \/ Claimed(t)
             \/ GivenBack(t)
             \/ Validated(t)
    BY <1>0, <1>4, <2>5
       DEF Filling, Issues, Claimed, GivenBack, Validated, Others, Rests,
           Runs, Receivers, Receiving, IsMatch
  <2> QED BY <1>4, <2>1, <2>2, <2>3, <2>4, <2>5 DEF BufferForm
<1> QED BY <1>1, <1>2, <1>3, <1>4 DEF StepForm

LEMMA InitTidy == Init => Tidy
<1> SUFFICES ASSUME Init PROVE Tidy
  OBVIOUS
<1>1. /\ \A t \in Actors : loc[t].pc = "idle" /\ loc[t].buf = NoBuf
      /\ \A p \in PipeIds : queue[p] = <<>>
      /\ \A t \in Tasks : t \in Actors
      /\ Cleaner \in Actors
  BY DEF Init, Idle, Actors
<1>2. Roles /\ Quiet /\ InHand /\ Emptied
  BY <1>1 DEF Roles, CleanerPCs, Quiet, InHand, Emptied
<1>3. Fresh /\ Receivers
  BY <1>1 DEF Fresh, Receivers, Receiving
<1> QED BY <1>2, <1>3 DEF Tidy

LEMMA StepTidy ==
  ASSUME Typed, Holding, Tidy, StepForm
  PROVE  Tidy'
  BY RolesKept, QuietKept, InHandKept, EmptiedKept, FreshKept, ReceiversKept DEF Tidy

-----------------------------------------------------------------------------
(* The clean-up of an application: it is alone in it, and the pipes of the  *)
(* application are on its list.                                             *)

(* Exactly the application the cleaner is busy with is being cleaned up.    *)
Busy ==
    /\ loc[Cleaner].pc # "idle" =>
          loc[Cleaner].app \in Apps /\ appState[loc[Cleaner].app] = "cleaning"
    /\ \A a \in Apps : appState[a] = "cleaning" =>
          loc[Cleaner].pc # "idle" /\ loc[Cleaner].app = a

(* Every pipe has an owner that runs, or that is being cleaned up with the  *)
(* pipe still on the cleaner's list.                                        *)
Owned ==
    /\ loc[Cleaner].pc \in {"idle", "cl_list", "cl_kill"} => todo = {}
    /\ \A s \in Slots : Used(s) =>
          /\ pipe[s].app \in Apps
          /\ \/ appState[pipe[s].app] = "running"
             \/ /\ appState[pipe[s].app] = "cleaning"
                /\ loc[Cleaner].pc # "cl_list" => pipeId[s] \in todo

Cleaning == Busy /\ Owned

LEMMA BusyKept ==
  ASSUME Typed, Roles, Busy, StepForm
  PROVE  Busy'
<1>0. /\ Cleaner \notin Tasks /\ Cleaner \in Actors
      /\ \A t \in Tasks : t \in Actors /\ AppOf[t] \in Apps
  BY NamesAssumption DEF Actors
<1>1. CASE CleanUpForm
  BY <1>0, <1>1
     DEF CleanUpForm, Begun, Listed, Reclaimed, Ended, Skipped, Killed,
         Others, Rests, Runs, Busy, Roles, CleanerPCs, Passing
<1>2. ASSUME NEW t \in Actors, Passes(t) PROVE Busy'
  <2>1. loc'[Cleaner] = loc[Cleaner] /\ appState' = appState
    BY <1>0, <1>2 DEF Passes, Others
  <2> QED BY <2>1 DEF Busy
<1>3. ASSUME NEW t \in Actors, PipeForm(t) PROVE Busy'
  <2>1. appState' = appState
    BY <1>3 DEF PipeForm, Reserved, Unpublished, QueueMade, Published, Withdrawn,
       Drained, DrainTook, DrainEnded, QueueDeleted, SlotFreed, Subscribed, Unsubscribed
  <2>2. CASE t # Cleaner
    <3>1. loc'[Cleaner] = loc[Cleaner]
      <4>1. loc' = loc \/ Others(t)
        BY <1>3 DEF PipeForm, Reserved, Unpublished, QueueMade, Published, Withdrawn,
           Drained, DrainTook, DrainEnded, QueueDeleted, SlotFreed, Subscribed,
           Unsubscribed, Rests
      <4> QED BY <1>0, <2>2, <4>1 DEF Others
    <3> QED BY <2>1, <3>1 DEF Busy
  <2>3. CASE t = Cleaner
    <3>1. \/ loc' = loc
          \/ /\ loc[t].pc # "idle" /\ loc'[t].pc # "idle"
             /\ loc'[t].app = loc[t].app
      <4>1. CASE \E pid \in PipeIds : Reserved(t, pid) \/ Unpublished(t, pid)
        BY <1>0, <2>3, <4>1 DEF Reserved, Unpublished, Runs
      <4>2. CASE QueueMade(t) \/ Published(t) \/ Withdrawn(t)
        BY <1>0, <2>3, <4>2 DEF QueueMade, Published, Withdrawn
      <4>3. CASE Drained(t) \/ DrainTook(t) \/ DrainEnded(t) \/ QueueDeleted(t) \/ SlotFreed(t)
        BY <2>3, <4>3 DEF Drained, DrainTook, DrainEnded, QueueDeleted, SlotFreed
      <4>4. CASE \E m \in Msgs, pid \in PipeIds :
                   Subscribed(t, m, pid) \/ Unsubscribed(t, m, pid)
        BY <4>4 DEF Subscribed, Unsubscribed
      <4> QED BY <1>3, <4>1, <4>2, <4>3, <4>4 DEF PipeForm
    <3> QED BY <2>1, <2>3, <3>1 DEF Busy
  <2> QED BY <2>2, <2>3
<1>4. ASSUME NEW t \in Actors, BufferForm(t) PROVE Busy'
  BY Zenon, <1>0, <1>4
     DEF BufferForm, Filling, Issues, Sent, Polled, Took, TookNothing, Handed,
         Lost, Refused, Claimed, GivenBack, Validated, Others, Rests, Runs,
         Busy, Roles, CleanerPCs, Passing
<1> QED BY <1>1, <1>2, <1>3, <1>4 DEF StepForm

LEMMA OwnedKept ==
  ASSUME Typed, Holding, Roles, Quiet, Fresh, Busy, Owned, StepForm
  PROVE  Owned'
<1>0. /\ Cleaner \notin Tasks /\ Cleaner \in Actors
      /\ \A t \in Tasks : t \in Actors /\ AppOf[t] \in Apps
  BY NamesAssumption DEF Actors
<1>5. \A s \in Slots : Used(s) => pipeId[s] \in PipeIds /\ Slot(pipeId[s]) = s
                                   /\ IsMatch(pipeId[s])
  BY DEF Holding, SlotsIndexed, Used, IsMatch
<1>6. RESERVED \notin PipeIds /\ FREE \notin PipeIds
  BY NamesAssumption
<1>7. loc[Cleaner].pc \in CleanerPCs
  BY DEF Roles
<1>1. CASE CleanUpForm
  <2>1. CASE \E a \in Apps : Begun(a)
    BY <1>0, <1>1, <2>1 DEF Begun, Others, Rests, Runs, Owned, Used, Busy
  <2>2. CASE \E pid \in PipeIds : Skipped(pid)
    BY <1>0, <1>1, <2>2, <1>5, <1>6, <1>7
       DEF Skipped, Others, Rests, Runs, Owned, Used, Busy
  <2>3. CASE Ended
    BY <1>0, <1>1, <2>3 DEF Ended, Others, Rests, Runs, Owned, Used, Busy
  <2>4. CASE Listed
    BY <1>0, <1>1, <2>4 DEF Listed, Others, Rests, Runs, Owned, Used, Busy
  <2>5. CASE \/ Reclaimed
             \/ \E t \in Tasks : Killed(t)
    BY <1>0, <1>1, <2>5
       DEF Reclaimed, Killed, Others, Rests, Runs, Owned, Used
  <2> QED BY <1>1, <2>1, <2>2, <2>3, <2>4, <2>5 DEF CleanUpForm
<1>2. ASSUME NEW t \in Actors, Passes(t) PROVE Owned'
  BY <1>0, <1>2 DEF Passes, Passing, Runs, Others, Owned, Used, SamePipes
<1>3. ASSUME NEW t \in Actors, PipeForm(t) PROVE Owned'
  <2>1. CASE \E pid \in PipeIds : Reserved(t, pid)
    BY <1>0, <1>3, <2>1, <1>5, <1>6, <1>7
       DEF Reserved, Others, Rests, Runs, Owned, Used
  <2>2. CASE Published(t)
    BY <1>0, <1>3, <2>2, <1>5, <1>6, <1>7, ReserveFacts
       DEF Published, Others, Rests, Runs, Owned, Used, Fresh, Quiet,
           Reserving
  <2>3. CASE Withdrawn(t)
    BY <1>0, <1>3, <2>3, <1>5, <1>6, <1>7
       DEF Withdrawn, Others, Rests, Runs, Owned, Used
  <2>4. CASE \E pid \in PipeIds : Unpublished(t, pid)
    BY <1>0, <1>3, <2>4, <1>5, <1>6, <1>7
       DEF Unpublished, Others, Rests, Runs, Owned, Used
  <2>5. CASE SlotFreed(t)
    BY <1>0, <1>3, <2>5, <1>5, <1>6, <1>7
       DEF SlotFreed, Others, Rests, Runs, Owned, Used, CleanerPCs
  <2>6. CASE \/ Drained(t)
             \/ DrainTook(t)
             \/ DrainEnded(t)
             \/ QueueDeleted(t)
    BY <1>0, <1>3, <2>6
       DEF Drained, DrainTook, DrainEnded, QueueDeleted, Others, Rests, Runs,
           Owned, Used
  <2>7. CASE \/ QueueMade(t)
             \/ \E m \in Msgs, pid \in PipeIds : Subscribed(t, m, pid)
             \/ \E m \in Msgs, pid \in PipeIds : Unsubscribed(t, m, pid)
    BY <1>0, <1>3, <2>7
       DEF QueueMade, Subscribed, Unsubscribed, Others, Rests, Runs, Owned,
           Used
  <2> QED BY <1>3, <2>1, <2>2, <2>3, <2>4, <2>5, <2>6, <2>7 DEF PipeForm
<1>4. ASSUME NEW t \in Actors, BufferForm(t) PROVE Owned'
  BY Zenon, <1>0, <1>4
     DEF BufferForm, Filling, Issues, Sent, Polled, Took, TookNothing, Handed,
         Lost, Refused, Claimed, GivenBack, Validated, Others, Rests, Runs,
         Owned, Used
<1> QED BY <1>1, <1>2, <1>3, <1>4 DEF StepForm

LEMMA InitCleaning == Init => Cleaning
<1> SUFFICES ASSUME Init PROVE Cleaning
  OBVIOUS
<1>1. /\ loc[Cleaner].pc = "idle" /\ \A a \in Apps : appState[a] = "running"
      /\ todo = {} /\ \A s \in Slots : pipeId[s] = FREE
  BY DEF Init, Idle, Actors
<1> QED BY <1>1, NamesAssumption DEF Cleaning, Busy, Owned, Used

LEMMA StepCleaning ==
  ASSUME Typed, Holding, Tidy, Cleaning, StepForm
  PROVE  Cleaning'
  BY BusyKept, OwnedKept DEF Tidy, Cleaning

-----------------------------------------------------------------------------
(* Counting the references to a buffer.  A slot refers to the buffer it     *)
(* lends out, a task to the one it carries.                                 *)
Ind(x, b) == IF x = b THEN 1 ELSE 0
CarryPCs == {"del_drain", "tx_cast", "rcv_end"}
Lasts == [s \in Slots |-> IF Used(s) THEN pipe[s].last ELSE NoBuf]
Carried == [t \in Actors |-> IF loc[t].pc \in CarryPCs THEN loc[t].buf ELSE NoBuf]
Total(b) == Cardinality(QueuesOf(b)) + Cardinality(LastOf(b))
            + Cardinality(Carriers(b))

(* A queue holds a buffer at most once.                                     *)
Distinct == \A p \in PipeIds : \A i, j \in DOMAIN queue[p] :
               queue[p][i] = queue[p][j] => i = j

(* Sets that differ in one element at most.                                 *)
LEMMA CountDiff ==
  ASSUME NEW S, NEW T, NEW d, IsFiniteSet(S), \A e : e # d => (e \in S <=> e \in T)
  PROVE  /\ Cardinality(S) \in Nat /\ Cardinality(T) \in Nat /\ IsFiniteSet(T)
         /\ d \in S /\ d \in T => Cardinality(T) = Cardinality(S)
         /\ d \in S /\ d \notin T => Cardinality(T) = Cardinality(S) - 1
         /\ d \notin S /\ d \in T => Cardinality(T) = Cardinality(S) + 1
         /\ d \notin S /\ d \notin T => Cardinality(T) = Cardinality(S)
<1>1. /\ IsFiniteSet(S \ {d}) /\ IsFiniteSet(S \cup {d})
      /\ Cardinality(S \ {d}) = IF d \in S THEN Cardinality(S) - 1 ELSE Cardinality(S)
      /\ Cardinality(S \cup {d}) = IF d \in S THEN Cardinality(S)
                                              ELSE Cardinality(S) + 1
  BY FS_AddElement, FS_RemoveElement
<1>2. /\ Cardinality(S) \in Nat /\ Cardinality(S \ {d}) \in Nat
      /\ Cardinality(S \cup {d}) \in Nat
  BY <1>1, FS_CardinalityType
<1>3. T = IF d \in T THEN S \cup {d} ELSE S \ {d}
  OBVIOUS
<1>4. CASE d \in T
  <2>1. T = S \cup {d}
    BY <1>3, <1>4
  <2> QED BY <1>1, <1>2, <1>4, <2>1
<1>5. CASE d \notin T
  <2>1. T = S \ {d}
    BY <1>3, <1>5
  <2> QED BY <1>1, <1>2, <1>5, <2>1
<1> QED BY <1>4, <1>5

LEMMA ActorsFinite == IsFiniteSet(Actors) /\ IsFiniteSet(Slots)
<1>1. IsFiniteSet(Actors)
  BY SizesAssumption, FS_AddElement DEF Actors
<1>2. MAX_PIPES - 1 \in Int /\ 0 \in Int
  BY SizesAssumption
<1> QED BY <1>1, <1>2, FS_Interval DEF Slots

LEMMA RefSets ==
  ASSUME NEW b \in Buffers
  PROVE  /\ LastOf(b) = {s \in Slots : Lasts[s] = b}
         /\ Carriers(b) = {t \in Actors : Carried[t] = b}
         /\ LastOf(b)' = {s \in Slots : Lasts'[s] = b}
         /\ Carriers(b)' = {t \in Actors : Carried'[t] = b}
<1>1. NoBuf # b
  BY NamesAssumption
<1> QED BY <1>1 DEF LastOf, Carriers, Lasts, Carried, CarryPCs

LEMMA RefCounts ==
  ASSUME NEW b \in Buffers
  PROVE  /\ Cardinality(QueuesOf(b)) \in Nat /\ IsFiniteSet(QueuesOf(b))
         /\ Cardinality(LastOf(b)) \in Nat /\ IsFiniteSet(LastOf(b))
         /\ Cardinality(Carriers(b)) \in Nat /\ IsFiniteSet(Carriers(b))
         /\ Total(b) \in Nat
         /\ QueuesOf(b) # {} => Total(b) >= 1
         /\ \A s \in Slots : Lasts[s] = b => Total(b) >= 1
         /\ \A t \in Actors : Carried[t] = b => Total(b) >= 1
         /\ Total(b) = 0 => QueuesOf(b) = {} /\ LastOf(b) = {} /\ Carriers(b) = {}
<1>1. IsFiniteSet(QueuesOf(b)) /\ IsFiniteSet(LastOf(b)) /\ IsFiniteSet(Carriers(b))
  BY PipeIdsFinite, ActorsFinite, FS_Subset DEF QueuesOf, LastOf, Carriers
<1>2. /\ Cardinality(QueuesOf(b)) \in Nat /\ Cardinality(LastOf(b)) \in Nat
      /\ Cardinality(Carriers(b)) \in Nat
      /\ Cardinality(QueuesOf(b)) = 0 <=> QueuesOf(b) = {}
      /\ Cardinality(LastOf(b)) = 0 <=> LastOf(b) = {}
      /\ Cardinality(Carriers(b)) = 0 <=> Carriers(b) = {}
  BY <1>1, FS_CardinalityType, FS_EmptySet
<1>3. /\ \A s \in Slots : Lasts[s] = b => LastOf(b) # {}
      /\ \A t \in Actors : Carried[t] = b => Carriers(b) # {}
  BY RefSets
<1> QED BY <1>1, <1>2, <1>3 DEF Total

(* The next state's counts are numbers too.                                 *)
LEMMA NextCounts ==
  ASSUME NEW b \in Buffers
  PROVE  /\ Cardinality(QueuesOf(b))' \in Nat /\ Cardinality(LastOf(b))' \in Nat
         /\ Cardinality(Carriers(b))' \in Nat /\ Total(b)' \in Nat
         /\ \A s \in Slots : Lasts'[s] = b => Total(b)' >= 1
         /\ \A t \in Actors : Carried'[t] = b => Total(b)' >= 1
         /\ QueuesOf(b)' # {} => Total(b)' >= 1
<1>1. /\ IsFiniteSet(QueuesOf(b)') /\ IsFiniteSet(LastOf(b)')
      /\ IsFiniteSet(Carriers(b)')
  BY PipeIdsFinite, ActorsFinite, FS_Subset DEF QueuesOf, LastOf, Carriers
<1>2. /\ Cardinality(QueuesOf(b)') \in Nat /\ Cardinality(LastOf(b)') \in Nat
      /\ Cardinality(Carriers(b)') \in Nat
      /\ Cardinality(LastOf(b)') = 0 <=> LastOf(b)' = {}
      /\ Cardinality(QueuesOf(b)') = 0 <=> QueuesOf(b)' = {}
      /\ Cardinality(Carriers(b)') = 0 <=> Carriers(b)' = {}
  BY <1>1, FS_CardinalityType, FS_EmptySet
<1>3. /\ \A s \in Slots : Lasts'[s] = b => LastOf(b)' # {}
      /\ \A t \in Actors : Carried'[t] = b => Carriers(b)' # {}
  BY RefSets
<1> QED BY <1>2, <1>3 DEF Total

(* Two tasks that carry one buffer are two references.                      *)
LEMMA TwoCarriers ==
  ASSUME NEW b \in Buffers, NEW t \in Actors, NEW u \in Actors, t # u,
         Carried[t] = b, Carried[u] = b
  PROVE  Total(b) >= 2
<1>1. {t, u} \subseteq Carriers(b) /\ IsFiniteSet(Carriers(b))
  BY RefSets, RefCounts
<1>2. Cardinality({t, u}) = 2
  <2>1. Cardinality({t}) = 1 /\ IsFiniteSet({t}) /\ {t, u} = {t} \cup {u}
    BY FS_Singleton
  <2>2. u \notin {t}
    OBVIOUS
  <2>3. Cardinality({t} \cup {u}) = Cardinality({t}) + 1
    BY <2>1, <2>2, FS_AddElement
  <2> QED BY <2>1, <2>3
<1>3. Cardinality({t, u}) <= Cardinality(Carriers(b))
  BY <1>1, FS_Subset
<1> QED BY <1>2, <1>3, RefCounts DEF Total

LEMMA CarrierAndOther ==
  ASSUME NEW b \in Buffers, NEW t \in Actors, Carried[t] = b,
         QueuesOf(b) # {} \/ LastOf(b) # {}
  PROVE  Total(b) >= 2
<1>1. /\ Cardinality(QueuesOf(b)) = 0 <=> QueuesOf(b) = {}
      /\ Cardinality(LastOf(b)) = 0 <=> LastOf(b) = {}
      /\ Cardinality(Carriers(b)) = 0 <=> Carriers(b) = {}
  BY RefCounts, FS_EmptySet
<1>2. Carriers(b) # {}
  BY RefSets
<1> QED BY <1>1, <1>2, RefCounts DEF Total

LEMMA LastsCount ==
  ASSUME NEW s \in Slots, \A r \in Slots : r # s => Lasts'[r] = Lasts[r],
         NEW b \in Buffers
  PROVE  Cardinality(LastOf(b))' =
           Cardinality(LastOf(b)) - Ind(Lasts[s], b) + Ind(Lasts'[s], b)
<1>1. /\ \A r : r # s => (r \in LastOf(b) <=> r \in LastOf(b)')
      /\ s \in LastOf(b) <=> Lasts[s] = b
      /\ s \in LastOf(b)' <=> Lasts'[s] = b
  BY RefSets
<1>2. IsFiniteSet(LastOf(b))
  BY RefCounts
<1> QED BY <1>1, <1>2, CountDiff DEF Ind

LEMMA CarriedCount ==
  ASSUME NEW t \in Actors, \A u \in Actors : u # t => Carried'[u] = Carried[u],
         NEW b \in Buffers
  PROVE  Cardinality(Carriers(b))' =
           Cardinality(Carriers(b)) - Ind(Carried[t], b) + Ind(Carried'[t], b)
<1>1. /\ \A u : u # t => (u \in Carriers(b) <=> u \in Carriers(b)')
      /\ t \in Carriers(b) <=> Carried[t] = b
      /\ t \in Carriers(b)' <=> Carried'[t] = b
  BY RefSets
<1>2. IsFiniteSet(Carriers(b))
  BY RefCounts
<1> QED BY <1>1, <1>2, CountDiff DEF Ind

LEMMA QueuesSame ==
  ASSUME \A p \in PipeIds : queue'[p] = queue[p]
  PROVE  /\ \A b \in Buffers : QueuesOf(b)' = QueuesOf(b)
         /\ Distinct => Distinct'
  BY DEF QueuesOf, InQueue, Distinct

LEMMA HeadTail ==
  ASSUME NEW s \in Seq(Buffers), s # <<>>
  PROVE  /\ Head(s) \in Buffers /\ Head(s) = s[1] /\ 1 \in DOMAIN s
         /\ Tail(s) \in Seq(Buffers) /\ DOMAIN Tail(s) = 1..(Len(s) - 1)
         /\ \A i \in DOMAIN Tail(s) : Tail(s)[i] = s[i + 1] /\ i + 1 \in DOMAIN s
         /\ Len(s) \in Nat /\ Len(s) >= 1 /\ DOMAIN s = 1..Len(s)
         /\ Len(Tail(s)) = Len(s) - 1
         /\ \A i \in DOMAIN s : i # 1 => i - 1 \in DOMAIN Tail(s) /\ i \in Int
         /\ \A i \in DOMAIN Tail(s) : i \in Int /\ i >= 1
  OBVIOUS

LEMMA QueueTook ==
  ASSUME Typed, Distinct, NEW pid \in PipeIds, queue[pid] # <<>>,
         \A p \in PipeIds : queue'[p] = IF p = pid THEN Tail(queue[p]) ELSE queue[p]
  PROVE  /\ Distinct' /\ Head(queue[pid]) \in Buffers
         /\ pid \in QueuesOf(Head(queue[pid]))
         /\ \A b \in Buffers : Cardinality(QueuesOf(b))' =
               Cardinality(QueuesOf(b)) - Ind(Head(queue[pid]), b)
<1> DEFINE h == Head(queue[pid])
<1>0. queue[pid] \in Seq(Buffers)
  BY DEF Typed, TypeOK
<1>1. /\ h \in Buffers /\ h = queue[pid][1] /\ 1 \in DOMAIN queue[pid]
      /\ \A i \in DOMAIN queue'[pid] : /\ queue'[pid][i] = queue[pid][i + 1]
                                       /\ i + 1 \in DOMAIN queue[pid]
                                       /\ i \in Int /\ i >= 1
      /\ \A i \in DOMAIN queue[pid] : i # 1 => i - 1 \in DOMAIN queue'[pid] /\ i \in Int
  <2>1. queue'[pid] = Tail(queue[pid])
    OBVIOUS
  <2> QED BY <1>0, <2>1, HeadTail
<1>2. \A p \in PipeIds : p # pid => queue'[p] = queue[p]
  OBVIOUS
<1> HIDE DEF h
<1>3. Distinct'
  <2> SUFFICES ASSUME NEW p \in PipeIds, NEW i \in DOMAIN queue'[p],
                      NEW j \in DOMAIN queue'[p], queue'[p][i] = queue'[p][j]
               PROVE  i = j
    BY DEF Distinct
  <2>1. CASE p = pid
    <3>1. i + 1 = j + 1 /\ i \in Int /\ j \in Int
      BY <1>1, <2>1 DEF Distinct
    <3> QED BY <3>1
  <2>2. CASE p # pid
    BY <1>2, <2>2 DEF Distinct
  <2> QED BY <2>1, <2>2
<1>4. pid \in QueuesOf(h)
  BY <1>1 DEF QueuesOf, InQueue
<1>5. \A b \in Buffers : QueuesOf(b)' = IF b = h THEN QueuesOf(b) \ {pid} ELSE QueuesOf(b)
  <2> TAKE b \in Buffers
  <2>1. \A p \in PipeIds : p # pid => (InQueue(b, p)' <=> InQueue(b, p))
    BY <1>2 DEF InQueue
  <2>2. InQueue(b, pid)' => InQueue(b, pid)
    BY <1>1 DEF InQueue
  <2>3. b # h /\ InQueue(b, pid) => InQueue(b, pid)'
    <3> SUFFICES ASSUME b # h, InQueue(b, pid) PROVE InQueue(b, pid)'
      OBVIOUS
    <3>1. PICK i \in DOMAIN queue[pid] : queue[pid][i] = b
      BY DEF InQueue
    <3>2. i # 1
      BY <1>1, <3>1
    <3>3. i - 1 \in DOMAIN queue'[pid] /\ i \in Int
      BY <1>1, <3>2
    <3>4. queue'[pid][i - 1] = queue[pid][i]
      BY <1>1, <3>3
    <3> QED BY <3>1, <3>3, <3>4 DEF InQueue
  <2>4. b = h => ~InQueue(b, pid)'
    <3>1. ASSUME b = h, NEW i \in DOMAIN queue'[pid], queue'[pid][i] = b PROVE FALSE
      <4>1. /\ i + 1 \in DOMAIN queue[pid] /\ i \in Int /\ i >= 1
            /\ queue[pid][i + 1] = queue[pid][1] /\ 1 \in DOMAIN queue[pid]
        BY <1>1, <3>1
      <4>2. i + 1 = 1
        BY <4>1 DEF Distinct
      <4> QED BY <4>1, <4>2
    <3> QED BY <3>1 DEF InQueue
  <2> QED BY <2>1, <2>2, <2>3, <2>4 DEF QueuesOf
<1>6. \A b \in Buffers : Cardinality(QueuesOf(b))' = Cardinality(QueuesOf(b)) - Ind(h, b)
  <2> TAKE b \in Buffers
  <2>1. IsFiniteSet(QueuesOf(b)) /\ Cardinality(QueuesOf(b)) \in Nat
    BY RefCounts
  <2>2. /\ \A p : p # pid => (p \in QueuesOf(b) <=> p \in QueuesOf(b)')
        /\ b # h => (pid \in QueuesOf(b) <=> pid \in QueuesOf(b)')
        /\ b = h => pid \in QueuesOf(b) /\ pid \notin QueuesOf(b)'
    BY <1>4, <1>5
  <2> QED BY <2>1, <2>2, CountDiff DEF Ind
<1> QED BY <1>1, <1>3, <1>4, <1>6 DEF h

LEMMA QueueSent ==
  ASSUME Typed, Distinct, NEW b \in Buffers, QueuesOf(b) = {},
         NEW sent \in SUBSET PipeIds,
         \A p \in PipeIds : queue'[p] = IF p \in sent THEN Append(queue[p], b)
                                                      ELSE queue[p]
  PROVE  /\ Distinct' /\ QueuesOf(b)' = sent
         /\ \A c \in Buffers : c # b => QueuesOf(c)' = QueuesOf(c)
<1>1. \A p \in PipeIds : queue[p] \in Seq(Buffers)
  BY DEF Typed, TypeOK
<1>2. \A p \in PipeIds : \A i \in DOMAIN queue[p] : queue[p][i] # b
  BY DEF QueuesOf, InQueue
<1>3. \A p \in sent :
         /\ DOMAIN queue[p] = 1..Len(queue[p]) /\ Len(queue[p]) \in Nat
         /\ DOMAIN queue'[p] = 1..(Len(queue[p]) + 1)
         /\ \A i \in DOMAIN queue[p] : queue'[p][i] = queue[p][i]
         /\ queue'[p][Len(queue[p]) + 1] = b
  <2> TAKE p \in sent
  <2>1. queue[p] \in Seq(Buffers) /\ queue'[p] = Append(queue[p], b)
    BY <1>1
  <2> QED BY <2>1
<1>4. \A p \in PipeIds : p \notin sent => queue'[p] = queue[p]
  OBVIOUS
<1>5. \A p \in sent : \A i \in DOMAIN queue'[p] :
         i \in DOMAIN queue[p] \/ i = Len(queue[p]) + 1
  BY <1>3
<1>6. Distinct'
  <2> SUFFICES ASSUME NEW p \in PipeIds, NEW i \in DOMAIN queue'[p],
                      NEW j \in DOMAIN queue'[p], queue'[p][i] = queue'[p][j]
               PROVE  i = j
    BY DEF Distinct
  <2>1. CASE p \in sent
    BY <1>2, <1>3, <1>5, <2>1 DEF Distinct
  <2>2. CASE p \notin sent
    BY <1>4, <2>2 DEF Distinct
  <2> QED BY <2>1, <2>2
<1>7. QueuesOf(b)' = sent
  <2>1. \A p \in sent : Len(queue[p]) + 1 \in DOMAIN queue'[p]
    BY <1>3
  <2>2. \A p \in PipeIds : InQueue(b, p)' <=> p \in sent
    BY <1>2, <1>3, <1>4, <2>1 DEF InQueue
  <2> QED BY <2>2 DEF QueuesOf
<1>8. ASSUME NEW c \in Buffers, c # b
      PROVE  QueuesOf(c)' = QueuesOf(c)
  <2>1. \A p \in sent : \A i \in DOMAIN queue[p] : i \in DOMAIN queue'[p]
    BY <1>3
  <2>2. \A p \in PipeIds : InQueue(c, p)' <=> InQueue(c, p)
    BY <1>3, <1>4, <1>5, <1>8, <2>1 DEF InQueue
  <2> QED BY <2>2 DEF QueuesOf
<1> QED BY <1>6, <1>7, <1>8

(* The tasks of TransmitMsg that fill a buffer nobody else knows of.        *)
Fillers(b) == {t \in Tasks : loc[t].pc = "tx_cast" /\ loc[t].buf = b}

(* What holds of a buffer: its count is the number of references to it and  *)
(* of the application it is issued to, and the list it is on says who that  *)
(* is.                                                                      *)
Sound(b) ==
    /\ desc[b].use = Total(b) + Ind(desc[b].list, "zeroCopy")
    /\ desc[b].use <= MAX_PIPES
    /\ desc[b].list = "zeroCopy" => desc[b].use = 1
    /\ (desc[b].app # NoApp) <=> (desc[b].list = "zeroCopy")
    /\ ~Allocated(b) => desc[b].list = "none"
    /\ Allocated(b) /\ desc[b].list = "none" => Fillers(b) # {}
    /\ Fillers(b) # {} => desc[b].list = "none" /\ desc[b].use = 1

Counted == Distinct /\ \A b \in Buffers : Sound(b)

(* The zero-copy pointer of a running task is its own.                      *)
Held(t) == Runs(t) /\ hold[t] # NoBuf
Holders ==
    /\ \A t \in Tasks : Held(t) =>
          desc[hold[t]].list = "zeroCopy" /\ desc[hold[t]].app = AppOf[t]
    /\ \A t, u \in Tasks : Held(t) /\ Held(u) /\ hold[t] = hold[u] => t = u
    /\ \A t \in Tasks : loc[t].pc \in {"rel", "zc_check", "zc_cast"} =>
          hold[t] = loc[t].buf

SameDesc(b) == /\ desc'[b].use = desc[b].use /\ desc'[b].list = desc[b].list
               /\ desc'[b].app = desc[b].app

LEMMA DescFields ==
  ASSUME Typed, NEW b \in Buffers
  PROVE  desc[b] \in DescRecord /\ desc[b].use \in Nat /\ desc[b].list \in Lists
         /\ (desc[b].use > 0 <=> Allocated(b)) /\ (desc[b].use = 0 <=> ~Allocated(b))
         /\ Ind(desc[b].list, "zeroCopy") \in {0, 1}
  BY DEF Typed, TypeOK, DescRecord, Allocated, Ind

LEMMA SoundKept ==
  ASSUME NEW b \in Buffers, Sound(b), SameDesc(b), Total(b)' = Total(b),
         Fillers(b)' = Fillers(b)
  PROVE  Sound(b)'
  BY DEF Sound, SameDesc, Allocated, Ind

(* A buffer somebody else than a filling task refers to is in transit.      *)
LEMMA Referred ==
  ASSUME Typed, Counted, NEW b \in Buffers,
         \/ QueuesOf(b) # {} \/ LastOf(b) # {}
         \/ \E t \in Actors : Carried[t] = b /\ loc[t].pc # "tx_cast"
  PROVE  /\ desc[b].list = "inTransit" /\ desc[b].use >= 1 /\ Allocated(b)
         /\ desc[b].app = NoApp /\ Fillers(b) = {} /\ desc[b].use = Total(b)
<1>1. Total(b) >= 1 /\ Total(b) \in Nat
  <2>1. LastOf(b) # {} => \E s \in Slots : Lasts[s] = b
    BY RefSets
  <2> QED BY <2>1, RefCounts
<1>2. Sound(b) /\ desc[b].use \in Nat /\ desc[b].list \in Lists
  BY DescFields DEF Counted
<1>3. desc[b].list # "zeroCopy"
  BY <1>1, <1>2 DEF Sound, Ind
<1>4. desc[b].use = Total(b)
  BY <1>1, <1>2, <1>3 DEF Sound, Ind
<1>5. Fillers(b) = {}
  <2> SUFFICES ASSUME NEW u \in Fillers(b) PROVE FALSE
    OBVIOUS
  <2>1. u \in Actors /\ Carried[u] = b /\ loc[u].pc = "tx_cast"
    BY DEF Fillers, Actors, Carried, CarryPCs
  <2>2. desc[b].use = 1
    BY <1>2 DEF Sound
  <2>3. CASE QueuesOf(b) # {} \/ LastOf(b) # {}
    <3>1. Total(b) >= 2
      BY <2>1, <2>3, CarrierAndOther
    <3> QED BY <1>1, <1>4, <2>2, <3>1
  <2>4. CASE \E t \in Actors : Carried[t] = b /\ loc[t].pc # "tx_cast"
    <3>1. PICK t \in Actors : Carried[t] = b /\ loc[t].pc # "tx_cast"
      BY <2>4
    <3>2. t # u
      BY <2>1, <3>1
    <3>3. Total(b) >= 2
      BY <2>1, <3>1, <3>2, TwoCarriers
    <3> QED BY <1>1, <1>4, <2>2, <3>3
  <2> QED BY <2>3, <2>4
<1>6. Allocated(b)
  BY <1>1, <1>2, <1>4 DEF Allocated
<1>7. desc[b].list # "none"
  BY <1>2, <1>5, <1>6 DEF Sound
<1> QED BY <1>1, <1>2, <1>3, <1>4, <1>5, <1>6, <1>7 DEF Sound, Lists

LEMMA NotReferred ==
  ASSUME Typed, Counted, NEW b \in Buffers,
         ~Allocated(b) \/ desc[b].list = "zeroCopy"
  PROVE  /\ Total(b) = 0 /\ Fillers(b) = {}
         /\ desc[b].list = "zeroCopy" => desc[b].use = 1
         /\ ~Allocated(b) => desc[b].list = "none" /\ desc[b].app = NoApp
<1>1. Sound(b) /\ desc[b].use \in Nat /\ Total(b) \in Nat
  BY DescFields, RefCounts DEF Counted
<1>2. desc[b].list = "zeroCopy" => desc[b].use = 1
  BY <1>1 DEF Sound
<1>3. ~Allocated(b) => desc[b].use = 0 /\ desc[b].list = "none" /\ desc[b].app = NoApp
  BY <1>1, DescFields DEF Sound
<1>4. Total(b) = 0
  BY <1>1, <1>2, <1>3 DEF Sound, Ind
<1> QED BY <1>1, <1>2, <1>3, <1>4 DEF Sound

(* The pointer a task claimed is still its own.                             *)
LEMMA Claims ==
  ASSUME Typed, Quiet, Holders, NEW t \in Tasks,
         loc[t].pc \in {"rel", "zc_check", "zc_cast"}
  PROVE  /\ Held(t) /\ hold[t] = loc[t].buf /\ loc[t].buf \in Buffers
         /\ desc[loc[t].buf].list = "zeroCopy"
<1>1. t \in Actors /\ loc[t].buf \in Buffers
  BY DEF Typed, Locals, Promise, Actors
<1>2. hold[t] = loc[t].buf /\ hold[t] # NoBuf /\ Runs(t)
  BY <1>1, NamesAssumption DEF Holders, Quiet, Runs
<1> QED BY <1>1, <1>2 DEF Holders, Held

(* Steps that move no reference.                                            *)
SameRefs ==
    /\ \A s \in Slots : Lasts'[s] = Lasts[s]
    /\ \A t \in Actors : Carried'[t] = Carried[t]
    /\ \A p \in PipeIds : queue'[p] = queue[p]
    /\ \A b \in Buffers : SameDesc(b) /\ Fillers(b)' = Fillers(b)

LEMMA SameCounted ==
  ASSUME Counted, SameRefs
  PROVE  Counted'
<1>1. /\ \A b \in Buffers : QueuesOf(b)' = QueuesOf(b)
      /\ Distinct'
  BY QueuesSame DEF SameRefs, Counted
<1>2. ASSUME NEW b \in Buffers PROVE Sound(b)'
  <2>1. LastOf(b)' = LastOf(b) /\ Carriers(b)' = Carriers(b)
    <3>1. /\ {s \in Slots : Lasts'[s] = b} = {s \in Slots : Lasts[s] = b}
          /\ {t \in Actors : Carried'[t] = b} = {t \in Actors : Carried[t] = b}
      BY DEF SameRefs
    <3> QED BY <3>1, RefSets
  <2>2. Total(b)' = Total(b)
    BY <1>1, <2>1 DEF Total
  <2> QED BY <2>2, SoundKept DEF SameRefs, Counted
<1> QED BY <1>1, <1>2 DEF Counted

(* What a task carries, and who fills a buffer, when one task moves.        *)
LEMMA OneMoves ==
  ASSUME NEW t \in Actors, Others(t)
  PROVE  /\ \A u \in Actors : u # t => Carried'[u] = Carried[u]
         /\ Carried[t] = IF loc[t].pc \in CarryPCs THEN loc[t].buf ELSE NoBuf
         /\ Carried'[t] = IF loc'[t].pc \in CarryPCs THEN loc'[t].buf ELSE NoBuf
         /\ \A b \in Buffers :
               (t \in Tasks /\ loc[t].pc = "tx_cast" /\ loc[t].buf = b
                  <=> t \in Tasks /\ loc'[t].pc = "tx_cast" /\ loc'[t].buf = b)
               => Fillers(b)' = Fillers(b)
<1>1. \A u \in Tasks : u \in Actors
  BY DEF Actors
<1>2. \A u \in Actors : u # t => loc'[u] = loc[u]
  BY DEF Others
<1>3. \A b \in Buffers :
        (t \in Tasks /\ loc[t].pc = "tx_cast" /\ loc[t].buf = b
           <=> t \in Tasks /\ loc'[t].pc = "tx_cast" /\ loc'[t].buf = b)
        => Fillers(b)' = Fillers(b)
  BY <1>1, <1>2 DEF Fillers
<1> QED BY <1>2, <1>3 DEF Carried

LEMMA LastsSame ==
  ASSUME \A s \in Slots : (Used(s)' <=> Used(s)) /\ pipe'[s].last = pipe[s].last
  PROVE  \A s \in Slots : Lasts'[s] = Lasts[s]
  BY DEF Lasts

LEMMA SlotsSame ==
  ASSUME pipeId' = pipeId
  PROVE  \A s \in Slots : Used(s)' <=> Used(s)
  BY DEF Used

Carries(t) == IF loc[t].pc \in CarryPCs THEN loc[t].buf ELSE NoBuf
Fills(t, b) == t \in Tasks /\ loc[t].pc = "tx_cast" /\ loc[t].buf = b

(* The task that moves carries what it carried.                             *)
LEMMA StillTask ==
  ASSUME NEW t \in Actors, Others(t), Carries(t)' = Carries(t),
         loc[t].pc # "tx_cast", loc'[t].pc # "tx_cast"
  PROVE  /\ \A u \in Actors : Carried'[u] = Carried[u]
         /\ \A b \in Buffers : Fillers(b)' = Fillers(b)
<1>1. Carried'[t] = Carried[t]
  BY DEF Carries, Carried
<1> QED BY <1>1, OneMoves

LEMMA StillLoc ==
  ASSUME \A t \in Actors : loc'[t] = loc[t]
  PROVE  /\ \A u \in Actors : Carried'[u] = Carried[u]
         /\ \A b \in Buffers : Fillers(b)' = Fillers(b)
  BY DEF Carried, Fillers, Actors

LEMMA PassesStill ==
  ASSUME Typed, NEW t \in Actors, Passes(t)
  PROVE  SameRefs
<1>1. /\ \A u \in Actors : Carried'[u] = Carried[u]
      /\ \A b \in Buffers : Fillers(b)' = Fillers(b)
  <2>1. CASE loc'[t] = loc[t]
    <3>1. \A u \in Actors : loc'[u] = loc[u]
      BY <2>1 DEF Passes, Others
    <3> QED BY <3>1, StillLoc
  <2>2. CASE loc'[t] # loc[t]
    BY <2>2, StillTask DEF Passes, Passing, Carries, CarryPCs
  <2> QED BY <2>1, <2>2
<1>2. \A s \in Slots : Lasts'[s] = Lasts[s]
  BY LastsSame, SlotsSame DEF Passes, SamePipes
<1> QED BY <1>1, <1>2 DEF Passes, SameRefs, SameDesc

LEMMA CleanUpStill ==
  ASSUME Typed, Roles, InHand, CleanUpForm, ~Reclaimed
  PROVE  SameRefs
<1>0. Cleaner \in Actors /\ \A t \in Tasks : t \in Actors
  BY DEF Actors
<1>1. /\ \A s \in Slots : Lasts'[s] = Lasts[s]
      /\ \A p \in PipeIds : queue'[p] = queue[p]
      /\ \A b \in Buffers : SameDesc(b)
  BY LastsSame, SlotsSame
     DEF CleanUpForm, Begun, Listed, Ended, Skipped, Killed, SameDesc
<1>2. ASSUME NEW t \in Actors, Others(t), Carries(t)' = Carries(t),
             loc[t].pc # "tx_cast", loc'[t].pc # "tx_cast"
      PROVE  SameRefs
  BY <1>1, <1>2, StillTask DEF SameRefs
<1>3. CASE \E a \in Apps : Begun(a)
  BY <1>0, <1>2, <1>3 DEF Begun, Carries, CarryPCs
<1>4. CASE Listed
  BY <1>0, <1>2, <1>4 DEF Listed, Carries, CarryPCs
<1>5. CASE Ended
  BY <1>0, <1>2, <1>5 DEF Ended, Rests, Carries, CarryPCs
<1>6. CASE \E pid \in PipeIds : Skipped(pid)
  BY <1>0, <1>2, <1>6 DEF Skipped, Carries, CarryPCs
<1>7. CASE \E t \in Tasks : Killed(t)
  BY <1>0, <1>2, <1>7 DEF Killed, Carries, CarryPCs
<1> QED BY <1>3, <1>4, <1>5, <1>6, <1>7 DEF CleanUpForm

LEMMA ReclaimedRefs ==
  ASSUME Typed, Reclaimed
  PROVE  /\ \A s \in Slots : Lasts'[s] = Lasts[s]
         /\ \A u \in Actors : Carried'[u] = Carried[u]
         /\ \A b \in Buffers : Fillers(b)' = Fillers(b)
<1>1. Cleaner \in Actors
  BY DEF Actors
<1>2. \A s \in Slots : Lasts'[s] = Lasts[s]
  BY LastsSame, SlotsSame DEF Reclaimed
<1> QED BY <1>1, <1>2, StillTask DEF Reclaimed, Carries, CarryPCs

(* The forms on pipes that move no reference.                               *)
PipeStill(t) ==
    \/ \E pid \in PipeIds : Reserved(t, pid)
    \/ QueueMade(t) \/ Published(t) \/ Withdrawn(t)
    \/ DrainEnded(t) \/ QueueDeleted(t) \/ SlotFreed(t)
    \/ \E m \in Msgs, pid \in PipeIds : Subscribed(t, m, pid) \/ Unsubscribed(t, m, pid)

LEMMA PipeStillForms ==
  ASSUME Typed, Holding, Tidy, NEW t \in Actors, PipeStill(t)
  PROVE  SameRefs
<1>1. \A b \in Buffers : SameDesc(b)
  BY DEF PipeStill, Reserved, QueueMade, Published, Withdrawn, DrainEnded,
         QueueDeleted, SlotFreed, Subscribed, Unsubscribed, SameDesc
<1>2. \A p \in PipeIds : queue'[p] = queue[p]
  <2>1. CASE QueueMade(t)
    BY <2>1 DEF QueueMade, Tidy, Fresh
  <2>2. CASE QueueDeleted(t)
    BY <2>2 DEF QueueDeleted, Tidy, Emptied
  <2>3. CASE ~QueueMade(t) /\ ~QueueDeleted(t)
    BY <2>3
       DEF PipeStill, Reserved, Published, Withdrawn, DrainEnded, SlotFreed,
           Subscribed, Unsubscribed
  <2> QED BY <2>1, <2>2, <2>3
<1>3. RESERVED \notin PipeIds /\ FREE \notin PipeIds
  BY NamesAssumption
<1>4. Reserving(t) => /\ Slot(loc[t].pid) \in Slots /\ loc[t].pid \in PipeIds
                      /\ pipeId[Slot(loc[t].pid)] = RESERVED
  BY ReserveFacts
<1>5. \A s \in Slots : Lasts'[s] = Lasts[s]
  <2>1. CASE \E pid \in PipeIds : Reserved(t, pid)
    BY <1>3, <2>1, SlotInRange DEF Reserved, Lasts, Used
  <2>2. CASE Published(t)
    BY <1>3, <1>4, <2>2 DEF Published, Reserving, Lasts, Used, Tidy, Fresh
  <2>3. CASE Withdrawn(t) \/ SlotFreed(t)
    BY <1>3, <1>4, <2>3 DEF Withdrawn, SlotFreed, Reserving, Lasts, Used
  <2>4. CASE \/ QueueMade(t) \/ DrainEnded(t) \/ QueueDeleted(t)
             \/ \E m \in Msgs, pid \in PipeIds :
                   Subscribed(t, m, pid) \/ Unsubscribed(t, m, pid)
    BY <2>4, LastsSame, SlotsSame
       DEF QueueMade, DrainEnded, QueueDeleted, Subscribed, Unsubscribed
  <2> QED BY <2>1, <2>2, <2>3, <2>4 DEF PipeStill
<1>6. /\ \A u \in Actors : Carried'[u] = Carried[u]
      /\ \A b \in Buffers : Fillers(b)' = Fillers(b)
  <2>1. CASE \E m \in Msgs, pid \in PipeIds :
                Subscribed(t, m, pid) \/ Unsubscribed(t, m, pid)
    BY <2>1, StillLoc DEF Subscribed, Unsubscribed
  <2>2. CASE ~\E m \in Msgs, pid \in PipeIds :
                 Subscribed(t, m, pid) \/ Unsubscribed(t, m, pid)
    <3>1. /\ Others(t) /\ Carries(t)' = Carries(t)
          /\ loc[t].pc # "tx_cast" /\ loc'[t].pc # "tx_cast"
      BY <2>2 DEF PipeStill, Reserved, QueueMade, Published, Withdrawn, DrainEnded,
                  QueueDeleted, SlotFreed, Runs, Rests, Carries, CarryPCs
    <3> QED BY <3>1, StillTask
  <2> QED BY <2>1, <2>2
<1> QED BY <1>1, <1>2, <1>5, <1>6 DEF SameRefs

BufferStill(t) ==
    \/ \E pid \in PipeIds : Polled(t, pid) /\ pipe[Slot(pid)].last = NoBuf
                            /\ desc' = desc
    \/ TookNothing(t) \/ Refused(t) \/ Claimed(t) \/ Validated(t)

LEMMA BufferStillForms ==
  ASSUME Typed, Tidy, NEW t \in Actors, BufferStill(t)
  PROVE  SameRefs
<1>0. \A b \in Buffers : desc[b] \in DescRecord
  BY DescFields
<1>1. \A b \in Buffers : SameDesc(b)
  <2>1. CASE Validated(t)
    <3> SUFFICES ASSUME NEW b \in Buffers PROVE SameDesc(b)
      OBVIOUS
    <3>1. \/ desc'[b] = [desc[b] EXCEPT !.msg = loc[t].msg]
          \/ desc'[b] = desc[b]
      BY <2>1 DEF Validated
    <3> QED BY <1>0, <3>1 DEF SameDesc, DescRecord
  <2>2. CASE ~Validated(t)
    BY <2>2 DEF BufferStill, TookNothing, Refused, Claimed, SameDesc
  <2> QED BY <2>1, <2>2
<1>2. \A p \in PipeIds : queue'[p] = queue[p]
  BY DEF BufferStill, Polled, TookNothing, Refused, Claimed, Validated
<1>3. \A s \in Slots : Lasts'[s] = Lasts[s]
  BY LastsSame, SlotsSame DEF BufferStill, Polled, TookNothing, Refused, Claimed, Validated
<1>4. /\ Others(t) /\ Carries(t)' = Carries(t)
      /\ loc[t].pc # "tx_cast" /\ loc'[t].pc # "tx_cast"
  BY DEF BufferStill, Polled, TookNothing, Refused, Claimed, Validated, Tidy, InHand,
         Runs, Rests, Carries, CarryPCs
<1> QED BY <1>1, <1>2, <1>3, <1>4, StillTask DEF SameRefs

LEMMA CountedSame ==
  ASSUME Counted, Distinct',
         \A b \in Buffers : /\ SameDesc(b) /\ Fillers(b)' = Fillers(b)
                            /\ Total(b)' = Total(b)
  PROVE  Counted'
  BY SoundKept DEF Counted

(* One reference in a slot and one in the hands of a task change.           *)
LEMMA Tally ==
  ASSUME NEW b \in Buffers, NEW s \in Slots, NEW t \in Actors,
         \A r \in Slots : r # s => Lasts'[r] = Lasts[r],
         \A u \in Actors : u # t => Carried'[u] = Carried[u]
  PROVE  /\ Total(b)' = Cardinality(QueuesOf(b))' + Cardinality(LastOf(b))
                        + Cardinality(Carriers(b))
                        - Ind(Lasts[s], b) + Ind(Lasts'[s], b)
                        - Ind(Carried[t], b) + Ind(Carried'[t], b)
         /\ Cardinality(QueuesOf(b))' \in Nat /\ Cardinality(QueuesOf(b)) \in Nat
         /\ Cardinality(LastOf(b)) \in Nat /\ Cardinality(Carriers(b)) \in Nat
<1>1. /\ Cardinality(LastOf(b))' =
           Cardinality(LastOf(b)) - Ind(Lasts[s], b) + Ind(Lasts'[s], b)
      /\ Cardinality(Carriers(b))' =
           Cardinality(Carriers(b)) - Ind(Carried[t], b) + Ind(Carried'[t], b)
  BY LastsCount, CarriedCount
<1>2. /\ Cardinality(QueuesOf(b)) \in Nat /\ Cardinality(LastOf(b)) \in Nat
      /\ Cardinality(Carriers(b)) \in Nat /\ Cardinality(QueuesOf(b))' \in Nat
  BY RefCounts, NextCounts
<1>3. \A x : Ind(x, b) \in {0, 1}
  BY DEF Ind
<1> QED BY <1>1, <1>2, <1>3 DEF Total

LEMMA NoInd == \A b \in Buffers : Ind(NoBuf, b) = 0
  BY NamesAssumption DEF Ind

LEMMA UnpublishedCounted ==
  ASSUME Typed, Holding, Counted, InHand, Roles,
         NEW t \in Actors, NEW pid \in PipeIds, Unpublished(t, pid)
  PROVE  Counted'
<1> DEFINE s == Slot(pid)
<1>1. s \in Slots /\ Used(s) /\ ~Used(s)'
  BY SlotInRange, NamesAssumption DEF Unpublished, IsMatch, Used
<1>2. \A r \in Slots : r # s => Lasts'[r] = Lasts[r]
  BY DEF Unpublished, Lasts, Used
<1>3. Lasts[s] = pipe[s].last /\ Lasts'[s] = NoBuf
  BY <1>1 DEF Lasts
<1>4. Others(t) /\ Carried[t] = NoBuf /\ Carried'[t] = pipe[s].last
  BY OneMoves DEF Unpublished, CarryPCs
<1>5. /\ \A u \in Actors : u # t => Carried'[u] = Carried[u]
      /\ \A b \in Buffers : Fillers(b)' = Fillers(b)
  BY <1>4, OneMoves DEF Unpublished
<1>6. /\ \A b \in Buffers : QueuesOf(b)' = QueuesOf(b)
      /\ Distinct'
  BY QueuesSame DEF Unpublished, Counted
<1> HIDE DEF s
<1>7. ASSUME NEW b \in Buffers PROVE Total(b)' = Total(b)
  <2>1. Cardinality(QueuesOf(b))' = Cardinality(QueuesOf(b))
    BY <1>6
  <2>2. Ind(pipe[s].last, b) \in {0, 1}
    BY DEF Ind
  <2> QED BY <1>1, <1>2, <1>3, <1>4, <1>5, <2>1, <2>2, Tally, NoInd DEF Total
<1>8. \A b \in Buffers : SameDesc(b)
  BY DEF Unpublished, SameDesc
<1> QED BY <1>5, <1>6, <1>7, <1>8, CountedSame

(* A task takes a buffer off a queue.                                       *)
LEMMA TookCounted ==
  ASSUME Typed, Counted, InHand, NEW t \in Actors, DrainTook(t) \/ Took(t)
  PROVE  Counted'
<1> DEFINE h == Head(queue[loc[t].pid])
           pid == loc[t].pid
<1>0. pid \in PipeIds /\ queue[pid] # <<>>
  BY DEF Typed, Locals, Promise, OnPipeId, DrainTook, Took
<1>1. \A p \in PipeIds : queue'[p] = IF p = pid THEN Tail(queue[p]) ELSE queue[p]
  BY DEF DrainTook, Took
<1>2. /\ Distinct' /\ h \in Buffers
      /\ \A b \in Buffers : Cardinality(QueuesOf(b))' =
            Cardinality(QueuesOf(b)) - Ind(h, b)
  BY <1>0, <1>1, QueueTook DEF Counted
<1>3. \A r \in Slots : Lasts'[r] = Lasts[r]
  BY LastsSame, SlotsSame DEF DrainTook, Took
<1>4. Others(t) /\ Carried[t] = NoBuf /\ Carried'[t] = h
  BY OneMoves DEF DrainTook, Took, CarryPCs
<1>5. /\ \A u \in Actors : u # t => Carried'[u] = Carried[u]
      /\ \A b \in Buffers : Fillers(b)' = Fillers(b)
  BY <1>4, OneMoves DEF DrainTook, Took
<1> HIDE DEF h, pid
<1>6. PICK s \in Slots : TRUE
  BY SizesAssumption DEF Slots
<1>7. ASSUME NEW b \in Buffers PROVE Total(b)' = Total(b)
  <2>1. Ind(h, b) \in {0, 1} /\ Ind(Lasts[s], b) \in {0, 1}
    BY DEF Ind
  <2>2. Lasts'[s] = Lasts[s]
    BY <1>3
  <2>3. Total(b)' = Cardinality(QueuesOf(b))' + Cardinality(LastOf(b))
                        + Cardinality(Carriers(b))
                        - Ind(Lasts[s], b) + Ind(Lasts'[s], b)
                        - Ind(Carried[t], b) + Ind(Carried'[t], b)
    BY <1>3, <1>5, Tally
  <2> QED BY <1>2, <1>4, <2>1, <2>2, <2>3, RefCounts, NoInd DEF Total
<1>8. \A b \in Buffers : SameDesc(b)
  BY DEF DrainTook, Took, SameDesc
<1> QED BY <1>2, <1>5, <1>7, <1>8, CountedSame

(* Counting up and down again changes nothing, far from the cap.            *)
LEMMA UpAndDown ==
  ASSUME NEW d \in DescRecord, d.use >= 1, d.use <= MAX_PIPES
  PROVE  Decr(Incr(d, 1)) = d
<1>1. d.use \in Nat /\ MAX_PIPES \in Nat /\ USE_CAP \in Nat /\ d.use + 1 <= USE_CAP
  BY SizesAssumption DEF DescRecord
<1>2. Incr(d, 1) = [d EXCEPT !.use = d.use + 1]
  BY <1>1 DEF Incr
<1>3. Incr(d, 1).use = d.use + 1
  BY <1>2 DEF DescRecord
<1>4. Decr(Incr(d, 1)) = [Incr(d, 1) EXCEPT !.use = d.use]
  BY <1>1, <1>3 DEF Decr
<1> QED BY <1>2, <1>4 DEF DescRecord

LEMMA HandedDesc ==
  ASSUME Typed, Counted, NEW t \in Actors, Handed(t)
  PROVE  /\ \A c \in Buffers : desc'[c] = desc[c]
         /\ desc[loc[t].buf].list = "inTransit"
<1> DEFINE b == loc[t].buf
<1>1. b \in Buffers /\ Carried[t] = b /\ loc[t].pc # "tx_cast"
  BY DEF Handed, Carried, CarryPCs
<1>2. desc[b].use >= 1 /\ desc[b].list = "inTransit"
  BY <1>1, Referred
<1>3. desc[b].use <= MAX_PIPES /\ desc[b] \in DescRecord
  BY <1>1, DescFields DEF Counted, Sound
<1>4. Decr(Incr(desc[b], 1)) = desc[b]
  BY <1>2, <1>3, UpAndDown
<1> QED BY <1>1, <1>2, <1>4 DEF Handed

LEMMA HandedCounted ==
  ASSUME Typed, Holding, Counted, Receivers, NEW t \in Actors, Handed(t)
  PROVE  Counted'
<1> DEFINE s == Slot(loc[t].pid)
           b == loc[t].buf
<1>0. loc[t].pid \in PipeIds /\ t \in Tasks
  BY DEF Handed, IsMatch
<1>1. s \in Slots /\ Used(s) /\ \A r \in Slots : Used(r)' <=> Used(r)
  BY <1>0, SlotInRange, SlotsSame DEF Handed, IsMatch, Used
<1>2. pipe[s].last = NoBuf
  BY <1>0 DEF Receivers, Receiving, Handed
<1>3. \A r \in Slots : r # s => Lasts'[r] = Lasts[r]
  BY <1>1 DEF Handed, Lasts
<1>4. Lasts[s] = NoBuf /\ Lasts'[s] = b
  BY <1>1, <1>2 DEF Lasts, Handed
<1>5. Others(t) /\ Carried[t] = b /\ Carried'[t] = NoBuf
  BY OneMoves DEF Handed, Rests, CarryPCs
<1>6. /\ \A u \in Actors : u # t => Carried'[u] = Carried[u]
      /\ \A c \in Buffers : Fillers(c)' = Fillers(c)
  BY <1>5, OneMoves DEF Handed, Rests
<1>7. /\ \A c \in Buffers : QueuesOf(c)' = QueuesOf(c)
      /\ Distinct'
  BY QueuesSame DEF Handed, Counted
<1> HIDE DEF s, b
<1>8. ASSUME NEW c \in Buffers PROVE Total(c)' = Total(c)
  <2>1. Cardinality(QueuesOf(c))' = Cardinality(QueuesOf(c))
    BY <1>7
  <2>2. Ind(b, c) \in {0, 1}
    BY DEF Ind
  <2> QED BY <1>1, <1>3, <1>4, <1>5, <1>6, <2>1, <2>2, Tally, NoInd DEF Total
<1>9. \A c \in Buffers : SameDesc(c)
  BY HandedDesc DEF SameDesc
<1> QED BY <1>6, <1>7, <1>8, <1>9, CountedSame

(* One reference to a buffer is given up.                                   *)
LEMMA DropsCounted ==
  ASSUME Typed, Counted, Distinct', NEW x \in Buffers, Drops(x),
         desc[x].list = "inTransit", desc[x].use >= 1,
         \A b \in Buffers : Total(b)' = Total(b) - Ind(x, b),
         \A b \in Buffers : Fillers(b)' = Fillers(b)
  PROVE  Counted'
<1>1. ASSUME NEW b \in Buffers, b # x PROVE Sound(b)'
  <2>1. SameDesc(b)
    BY <1>1 DEF Drops, SameDesc
  <2>2. Total(b)' = Total(b)
    BY <1>1, RefCounts DEF Ind
  <2> QED BY <2>1, <2>2, SoundKept DEF Counted
<1>2. Sound(x)'
  <2>1. Sound(x) /\ desc[x].use \in Nat /\ desc[x] \in DescRecord /\ MAX_PIPES \in Nat
    BY DescFields, SizesAssumption DEF Counted
  <2>2. Total(x) = desc[x].use /\ Fillers(x) = {} /\ desc[x].app = NoApp
    BY <2>1, RefCounts DEF Sound, Ind
  <2>3. desc'[x] = Decr(desc[x]) /\ Total(x)' = desc[x].use - 1 /\ Fillers(x)' = {}
    BY <2>2 DEF Drops, Ind
  <2>4. CASE desc[x].use = 1
    <3>1. desc'[x] = FreeDesc
      BY <2>3, <2>4 DEF Decr
    <3>2. desc'[x].use = 0 /\ desc'[x].app = NoApp /\ desc'[x].list = "none"
      BY <3>1 DEF FreeDesc
    <3> QED BY <2>1, <2>3, <2>4, <3>2 DEF Sound, Ind, Allocated
  <2>5. CASE desc[x].use > 1
    <3>1. desc'[x] = [desc[x] EXCEPT !.use = desc[x].use - 1]
      BY <2>3, <2>5 DEF Decr
    <3>2. /\ desc'[x].use = desc[x].use - 1 /\ desc'[x].app = NoApp
          /\ desc'[x].list = "inTransit"
      BY <2>1, <2>2, <3>1 DEF DescRecord
    <3> QED BY <2>1, <2>3, <2>5, <3>2 DEF Sound, Ind, Allocated
  <2> QED BY <2>1, <2>4, <2>5
<1> QED BY <1>1, <1>2 DEF Counted

LEMMA DroppedFacts ==
  ASSUME Typed, Counted, NEW t \in Actors, Drained(t) \/ Lost(t)
  PROVE  /\ loc[t].buf \in Buffers /\ Carried[t] = loc[t].buf
         /\ Drops(loc[t].buf) /\ desc[loc[t].buf].list = "inTransit"
         /\ desc[loc[t].buf].use >= 1
<1>1. /\ loc[t].buf \in Buffers /\ Carried[t] = loc[t].buf /\ loc[t].pc # "tx_cast"
      /\ Drops(loc[t].buf)
  BY DEF Drained, Lost, Drops, Carried, CarryPCs
<1> QED BY <1>1, Referred

LEMMA DroppedCounted ==
  ASSUME Typed, Counted, NEW t \in Actors, Drained(t) \/ Lost(t)
  PROVE  Counted'
<1> DEFINE x == loc[t].buf
<1>1. /\ x \in Buffers /\ Carried[t] = x /\ Drops(x)
      /\ desc[x].list = "inTransit" /\ desc[x].use >= 1
  BY DroppedFacts
<1>2. Others(t) /\ Carried'[t] = NoBuf
  BY OneMoves DEF Drained, Lost, Rests, CarryPCs
<1>3. /\ \A u \in Actors : u # t => Carried'[u] = Carried[u]
      /\ \A c \in Buffers : Fillers(c)' = Fillers(c)
  BY <1>2, OneMoves DEF Drained, Lost, Rests
<1>4. /\ \A c \in Buffers : QueuesOf(c)' = QueuesOf(c)
      /\ Distinct'
  BY QueuesSame DEF Drained, Lost, Counted
<1>5. \A r \in Slots : Lasts'[r] = Lasts[r]
  BY LastsSame, SlotsSame DEF Drained, Lost
<1>6. PICK s \in Slots : TRUE
  BY SizesAssumption DEF Slots
<1> HIDE DEF x
<1>7. \A b \in Buffers : Total(b)' = Total(b) - Ind(x, b)
  <2> TAKE b \in Buffers
  <2>1. Cardinality(QueuesOf(b))' = Cardinality(QueuesOf(b)) /\ Lasts'[s] = Lasts[s]
    BY <1>4, <1>5
  <2>2. Ind(x, b) \in {0, 1} /\ Ind(Lasts[s], b) \in {0, 1}
    BY DEF Ind
  <2>3. Total(b)' = Cardinality(QueuesOf(b))' + Cardinality(LastOf(b))
                        + Cardinality(Carriers(b))
                        - Ind(Lasts[s], b) + Ind(Lasts'[s], b)
                        - Ind(Carried[t], b) + Ind(Carried'[t], b)
    BY <1>3, <1>5, Tally
  <2> QED BY <1>1, <1>2, <2>1, <2>2, <2>3, RefCounts, NoInd DEF Total
<1> QED BY <1>1, <1>3, <1>4, <1>7, DropsCounted

LEMMA PolledCounted ==
  ASSUME Typed, Holding, Counted, NEW t \in Actors, NEW pid \in PipeIds,
         Polled(t, pid), Drops(pipe[Slot(pid)].last)
  PROVE  Counted'
<1> DEFINE s == Slot(pid)
           x == pipe[s].last
<1>1. s \in Slots /\ Used(s) /\ \A r \in Slots : Used(r)' <=> Used(r)
  BY SlotInRange, SlotsSame DEF Polled, IsMatch, Used
<1>2. x \in Buffers /\ Lasts[s] = x /\ Lasts'[s] = NoBuf
  BY <1>1 DEF Polled, Drops, Lasts
<1>3. \A r \in Slots : r # s => Lasts'[r] = Lasts[r]
  BY <1>1 DEF Polled, Lasts
<1>4. Others(t) /\ Carried[t] = NoBuf /\ Carried'[t] = NoBuf
  BY OneMoves DEF Polled, CarryPCs
<1>5. /\ \A u \in Actors : u # t => Carried'[u] = Carried[u]
      /\ \A c \in Buffers : Fillers(c)' = Fillers(c)
  BY <1>4, OneMoves DEF Polled
<1>6. /\ \A c \in Buffers : QueuesOf(c)' = QueuesOf(c)
      /\ Distinct'
  BY QueuesSame DEF Polled, Counted
<1>7. Drops(x)
  OBVIOUS
<1> HIDE DEF s, x
<1>8. LastOf(x) # {}
  BY <1>1, <1>2, RefSets
<1>9. desc[x].list = "inTransit" /\ desc[x].use >= 1
  BY <1>2, <1>8, Referred
<1>10. \A b \in Buffers : Total(b)' = Total(b) - Ind(x, b)
  <2> TAKE b \in Buffers
  <2>1. Cardinality(QueuesOf(b))' = Cardinality(QueuesOf(b))
    BY <1>6
  <2>2. Ind(x, b) \in {0, 1}
    BY DEF Ind
  <2> QED BY <1>1, <1>2, <1>3, <1>4, <1>5, <2>1, <2>2, Tally, NoInd DEF Total
<1> QED BY <1>2, <1>5, <1>6, <1>7, <1>9, <1>10, DropsCounted

(* One buffer changes, the others stay as they are.                         *)
LEMMA OneBuffer ==
  ASSUME Counted, Distinct', NEW x \in Buffers, Sound(x)',
         \A b \in Buffers : b # x => /\ SameDesc(b) /\ Fillers(b)' = Fillers(b)
                                     /\ Total(b)' = Total(b)
  PROVE  Counted'
  BY SoundKept DEF Counted

(* A pipe is taken from the pool once, so a message reaches MAX_PIPES pipes *)
(* at most.                                                                 *)
LEMMA SentCount ==
  ASSUME Typed, Holding, NEW t \in Actors, NEW sent \in SUBSET PipeIds, Sent(t, sent)
  PROVE  IsFiniteSet(sent) /\ Cardinality(sent) \in Nat /\ Cardinality(sent) <= MAX_PIPES
         /\ (Cardinality(sent) = 0 <=> sent = {})
<1> DEFINE f == [p \in sent |-> Slot(p)]
<1>1. \A p \in sent : p \in PipeIds /\ IsMatch(p) /\ Slot(p) \in Slots
  BY PipeFacts DEF Sent
<1>2. \A p, q \in sent : Slot(p) = Slot(q) => p = q
  BY <1>1, PipeFacts
<1>3. f \in Injection(sent, Slots)
  BY <1>1, <1>2 DEF Injection, IsInjective
<1>4. IsFiniteSet(Slots) /\ Cardinality(Slots) = MAX_PIPES
  <2>1. 0 \in Int /\ MAX_PIPES - 1 \in Int /\ MAX_PIPES >= 1 /\ MAX_PIPES \in Nat
    BY SizesAssumption
  <2> QED BY <2>1, FS_Interval DEF Slots
<1>5. IsFiniteSet(sent) /\ Cardinality(sent) <= MAX_PIPES
  BY <1>3, <1>4, FS_Injection
<1> QED BY <1>5, FS_CardinalityType, FS_EmptySet

LEMMA CastDesc ==
  ASSUME NEW d \in DescRecord, d.use = 1, NEW n \in Nat, n <= MAX_PIPES
  PROVE  /\ n = 0 => Decr(Launched(Incr(d, n))) = FreeDesc
         /\ n > 0 => /\ Decr(Launched(Incr(d, n))).use = n
                     /\ Decr(Launched(Incr(d, n))).app = NoApp
                     /\ Decr(Launched(Incr(d, n))).list = "inTransit"
                     /\ Decr(Launched(Incr(d, n))).msg = d.msg
<1>1. USE_CAP \in Nat /\ MAX_PIPES \in Nat /\ 1 + n <= USE_CAP
  BY SizesAssumption
<1> DEFINE e == Launched(Incr(d, n))
<1>2. e = [d EXCEPT !.use = 1 + n, !.app = NoApp, !.list = "inTransit"]
  BY <1>1 DEF Incr, Launched, DescRecord
<1>3. /\ e.use = 1 + n /\ e.app = NoApp /\ e.list = "inTransit" /\ e.msg = d.msg
  BY <1>2 DEF DescRecord
<1> HIDE DEF e
<1>4. CASE n = 0
  BY <1>3, <1>4 DEF Decr, e
<1>5. CASE n > 0
  <2>1. Decr(e) = [e EXCEPT !.use = n]
    BY <1>3, <1>5 DEF Decr
  <2> QED BY <1>3, <1>5, <2>1 DEF e
<1> QED BY <1>4, <1>5

(* What is known of the buffer that is sent.                                *)
LEMMA SentBuffer ==
  ASSUME Typed, Quiet, Counted, Holders, NEW t \in Actors, NEW sent \in SUBSET PipeIds,
         Sent(t, sent)
  PROVE  /\ loc[t].buf \in Buffers /\ desc[loc[t].buf].use = 1
         /\ QueuesOf(loc[t].buf) = {} /\ Cardinality(QueuesOf(loc[t].buf)) = 0
         /\ Cardinality(LastOf(loc[t].buf)) = 0
         /\ Cardinality(Carriers(loc[t].buf)) = Ind(Carried[t], loc[t].buf)
         /\ Carried[t] # loc[t].buf => Carried[t] = NoBuf
<1> DEFINE b == loc[t].buf
<1>0. b \in Buffers /\ t \in Tasks
  BY DEF Sent
<1>1. /\ Cardinality(QueuesOf(b)) \in Nat /\ Cardinality(LastOf(b)) \in Nat
      /\ Cardinality(Carriers(b)) \in Nat /\ IsFiniteSet(QueuesOf(b))
      /\ IsFiniteSet(LastOf(b)) /\ IsFiniteSet(Carriers(b))
  BY <1>0, RefCounts
<1>2. CASE loc[t].pc = "tx_cast"
  <2>1. Carried[t] = b
    BY <1>2 DEF Carried, CarryPCs
  <2>2. t \in Fillers(b)
    BY <1>0, <1>2 DEF Fillers
  <2>3. desc[b].use = 1 /\ desc[b].list = "none" /\ Total(b) = 1
    BY <1>0, <2>2, RefCounts DEF Counted, Sound, Ind
  <2>4. QueuesOf(b) = {} /\ LastOf(b) = {}
    BY <1>0, <2>1, <2>3, CarrierAndOther
  <2>5. Cardinality(QueuesOf(b)) = 0 /\ Cardinality(LastOf(b)) = 0
    BY <1>1, <2>4, FS_EmptySet
  <2> QED BY <1>0, <1>1, <2>1, <2>3, <2>4, <2>5 DEF Ind, Total
<1>3. CASE loc[t].pc = "zc_cast"
  <2>1. Carried[t] = NoBuf
    BY <1>3 DEF Carried, CarryPCs
  <2>2. desc[b].list = "zeroCopy"
    BY <1>0, <1>3, Claims
  <2>3. Total(b) = 0 /\ desc[b].use = 1
    BY <1>0, <2>2, NotReferred
  <2>4. QueuesOf(b) = {} /\ Cardinality(QueuesOf(b)) = 0
    BY <1>0, <1>1, <2>3, FS_EmptySet DEF Total
  <2>5. Cardinality(LastOf(b)) = 0 /\ Cardinality(Carriers(b)) = 0
    BY <1>1, <2>3 DEF Total
  <2>6. Ind(Carried[t], b) = 0
    BY <1>0, <2>1, NoInd
  <2> QED BY <1>0, <2>1, <2>3, <2>4, <2>5, <2>6
<1> QED BY <1>2, <1>3 DEF Sent

LEMMA SentCounted ==
  ASSUME Typed, Holding, Quiet, Counted, Holders, NEW t \in Actors,
         NEW sent \in SUBSET PipeIds, Sent(t, sent)
  PROVE  Counted'
<1> DEFINE x == loc[t].buf
           n == Cardinality(sent)
<1>1. /\ x \in Buffers /\ desc[x].use = 1 /\ desc[x] \in DescRecord
      /\ QueuesOf(x) = {} /\ Cardinality(QueuesOf(x)) = 0
      /\ Cardinality(LastOf(x)) = 0
      /\ Cardinality(Carriers(x)) = Ind(Carried[t], x)
      /\ Carried[t] # x => Carried[t] = NoBuf
  BY SentBuffer, DescFields
<1>2. n \in Nat /\ n <= MAX_PIPES
  BY SentCount
<1>3. \A p \in PipeIds : queue'[p] = IF p \in sent THEN Append(queue[p], x)
                                                   ELSE queue[p]
  BY DEF Sent
<1>4. /\ desc'[x] = Decr(Launched(Incr(desc[x], n)))
      /\ \A c \in Buffers : c # x => desc'[c] = desc[c]
  BY <1>1 DEF Sent
<1>5. /\ Distinct' /\ \A c \in Buffers : c = x => QueuesOf(c)' = sent
      /\ \A c \in Buffers : c # x => QueuesOf(c)' = QueuesOf(c)
  <2> DEFINE y == x
  <2>1. \A b \in Buffers : b = x =>
            /\ Distinct' /\ QueuesOf(b)' = sent
            /\ \A c \in Buffers : c # b => QueuesOf(c)' = QueuesOf(c)
    <3> TAKE b \in Buffers
    <3> HAVE b = x
    <3>1. /\ QueuesOf(b) = {} /\ Distinct
          /\ \A p \in PipeIds : queue'[p] = IF p \in sent THEN Append(queue[p], b)
                                                          ELSE queue[p]
      BY <1>1, <1>3 DEF Counted
    <3> QED BY <3>1, QueueSent
  <2> QED BY <1>1, <2>1
<1>6. Others(t) /\ Carried'[t] = NoBuf
  BY OneMoves DEF Sent, Rests, CarryPCs
<1>7. /\ \A u \in Actors : u # t => Carried'[u] = Carried[u]
      /\ \A c \in Buffers : c # x => Fillers(c)' = Fillers(c)
  BY <1>6, OneMoves DEF Sent, Rests
<1>8. \A r \in Slots : Lasts'[r] = Lasts[r]
  BY LastsSame, SlotsSame DEF Sent
<1>9. PICK s \in Slots : TRUE
  BY SizesAssumption DEF Slots
<1> HIDE DEF x, n
<1>10. ASSUME NEW b \in Buffers
       PROVE  /\ Total(b)' = Cardinality(QueuesOf(b))' + Cardinality(LastOf(b))
                        + Cardinality(Carriers(b)) - Ind(Carried[t], b)
              /\ Cardinality(QueuesOf(b))' \in Nat /\ Cardinality(QueuesOf(b)) \in Nat
              /\ Cardinality(LastOf(b)) \in Nat /\ Cardinality(Carriers(b)) \in Nat
              /\ Ind(Carried[t], b) \in {0, 1}
  <2>1. Total(b)' = Cardinality(QueuesOf(b))' + Cardinality(LastOf(b))
                        + Cardinality(Carriers(b))
                        - Ind(Lasts[s], b) + Ind(Lasts'[s], b)
                        - Ind(Carried[t], b) + Ind(Carried'[t], b)
    BY <1>7, <1>8, Tally
  <2>2. Ind(Lasts[s], b) \in {0, 1} /\ Lasts'[s] = Lasts[s] /\ Ind(Carried[t], b) \in {0, 1}
    BY <1>8 DEF Ind
  <2> QED BY <1>6, <2>1, <2>2, RefCounts, NextCounts, NoInd
<1>11. \A b \in Buffers : b # x => Total(b)' = Total(b)
  <2> TAKE b \in Buffers
  <2> HAVE b # x
  <2>1. Cardinality(QueuesOf(b))' = Cardinality(QueuesOf(b)) /\ Ind(Carried[t], b) = 0
    BY <1>1, <1>5, NoInd DEF Ind
  <2> QED BY <1>10, <2>1 DEF Total
<1>12. \A b \in Buffers : b = x => Sound(b)'
  <2> TAKE b \in Buffers
  <2> HAVE b = x
  <2>1. Cardinality(QueuesOf(b))' = n
    BY <1>5 DEF n
  <2>2. Total(b)' = n
    BY <1>1, <1>2, <1>10, <2>1
  <2>3. Fillers(b)' = {}
    <3>1. Cardinality(Carriers(b))' = 0
      BY <1>2, <2>1, <2>2, NextCounts DEF Total
    <3>2. IsFiniteSet(Carriers(b)')
      BY ActorsFinite, FS_Subset DEF Carriers
    <3>3. Carriers(b)' = {}
      BY <3>1, <3>2, FS_EmptySet
    <3> QED BY <3>3 DEF Fillers, Carriers, Actors
  <2>4. /\ n = 0 => desc'[b] = FreeDesc
        /\ n > 0 => desc'[b].use = n /\ desc'[b].app = NoApp /\ desc'[b].list = "inTransit"
    BY <1>1, <1>2, <1>4, CastDesc
  <2>5. CASE n = 0
    <3>1. desc'[b].use = 0 /\ desc'[b].app = NoApp /\ desc'[b].list = "none"
      BY <2>4, <2>5 DEF FreeDesc
    <3> QED BY <1>2, <2>2, <2>3, <2>5, <3>1 DEF Sound, Ind, Allocated
  <2>6. CASE n > 0
    BY <1>2, <2>2, <2>3, <2>4, <2>6 DEF Sound, Ind, Allocated
  <2> QED BY <1>2, <2>5, <2>6
<1>13. \A b \in Buffers : b # x => SameDesc(b)
  BY <1>4 DEF SameDesc
<1> QED BY <1>1, <1>5, <1>7, <1>11, <1>12, <1>13, OneBuffer

LEMMA FillingCounted ==
  ASSUME Typed, Counted, NEW t \in Actors, NEW x \in Buffers, Filling(t, x)
  PROVE  Counted'
<1>1. ~Allocated(x) /\ Total(x) = 0
  BY NotReferred DEF Filling
<1>2. Others(t) /\ Carried[t] = NoBuf /\ Carried'[t] = x
  BY OneMoves DEF Filling, CarryPCs
<1>3. /\ \A u \in Actors : u # t => Carried'[u] = Carried[u]
      /\ \A c \in Buffers : c # x => Fillers(c)' = Fillers(c)
  BY <1>2, OneMoves DEF Filling
<1>4. /\ \A c \in Buffers : QueuesOf(c)' = QueuesOf(c)
      /\ Distinct'
  BY QueuesSame DEF Filling, Counted
<1>5. \A r \in Slots : Lasts'[r] = Lasts[r]
  BY LastsSame, SlotsSame DEF Filling
<1>6. PICK s \in Slots : TRUE
  BY SizesAssumption DEF Slots
<1>7. \A b \in Buffers : Total(b)' = Total(b) + Ind(x, b)
  <2> TAKE b \in Buffers
  <2>1. Cardinality(QueuesOf(b))' = Cardinality(QueuesOf(b)) /\ Lasts'[s] = Lasts[s]
    BY <1>4, <1>5
  <2>2. Ind(x, b) \in {0, 1} /\ Ind(Lasts[s], b) \in {0, 1}
    BY DEF Ind
  <2>3. Total(b)' = Cardinality(QueuesOf(b))' + Cardinality(LastOf(b))
                        + Cardinality(Carriers(b))
                        - Ind(Lasts[s], b) + Ind(Lasts'[s], b)
                        - Ind(Carried[t], b) + Ind(Carried'[t], b)
    BY <1>3, <1>5, Tally
  <2> QED BY <1>2, <2>1, <2>2, <2>3, RefCounts, NoInd DEF Total
<1>8. \A b \in Buffers : b # x => SameDesc(b) /\ Total(b)' = Total(b)
  BY <1>7, RefCounts DEF Filling, SameDesc, Ind
<1>9. Sound(x)'
  <2>1. desc'[x] = [FreshDesc EXCEPT !.msg = loc[t].msg]
    BY DEF Filling
  <2>2. desc'[x].use = 1 /\ desc'[x].app = NoApp /\ desc'[x].list = "none"
    BY <2>1 DEF FreshDesc, FreeDesc
  <2>3. Total(x)' = 1
    BY <1>1, <1>7 DEF Ind
  <2>4. t \in Fillers(x)'
    BY DEF Filling, Fillers
  <2>5. MAX_PIPES \in Nat /\ 1 <= MAX_PIPES
    BY SizesAssumption
  <2> QED BY <2>2, <2>3, <2>4, <2>5 DEF Sound, Ind, Allocated
<1> QED BY <1>3, <1>4, <1>8, <1>9, OneBuffer

(* Zero copy: no reference moves.                                           *)
LEMMA IssuesCounted ==
  ASSUME Typed, Counted, NEW t \in Actors, NEW x \in Buffers, Issues(t, x)
  PROVE  Counted'
<1>1. ~Allocated(x) /\ Total(x) = 0 /\ Fillers(x) = {}
  BY NotReferred DEF Issues
<1>2. /\ \A u \in Actors : Carried'[u] = Carried[u]
      /\ \A c \in Buffers : Fillers(c)' = Fillers(c)
  BY StillLoc DEF Issues
<1>3. /\ \A c \in Buffers : QueuesOf(c)' = QueuesOf(c)
      /\ Distinct'
  BY QueuesSame DEF Issues, Counted
<1>4. \A r \in Slots : Lasts'[r] = Lasts[r]
  BY LastsSame, SlotsSame DEF Issues
<1>5. \A b \in Buffers : Total(b)' = Total(b)
  <2> TAKE b \in Buffers
  <2>1. /\ {s \in Slots : Lasts'[s] = b} = {s \in Slots : Lasts[s] = b}
        /\ {u \in Actors : Carried'[u] = b} = {u \in Actors : Carried[u] = b}
    BY <1>2, <1>4
  <2> QED BY <1>3, <2>1, RefSets DEF Total
<1>6. Sound(x)'
  <2>1. desc'[x] = [FreshDesc EXCEPT !.app = AppOf[t], !.list = "zeroCopy"]
        /\ t \in Tasks
    BY DEF Issues, Runs
  <2>2. desc'[x].use = 1 /\ desc'[x].app = AppOf[t] /\ desc'[x].list = "zeroCopy"
    BY <2>1 DEF FreshDesc, FreeDesc
  <2>3. Total(x)' = 0 /\ Fillers(x)' = {}
    BY <1>1, <1>2, <1>5
  <2>4. MAX_PIPES \in Nat /\ 1 <= MAX_PIPES /\ AppOf[t] # NoApp
    BY <2>1, SizesAssumption, NamesAssumption
  <2> QED BY <2>2, <2>3, <2>4 DEF Sound, Ind, Allocated
<1>7. \A b \in Buffers : b # x => SameDesc(b)
  BY DEF Issues, SameDesc
<1> QED BY <1>2, <1>3, <1>5, <1>6, <1>7, OneBuffer

(* The zero-copy buffers of a set are freed, all else stays.                *)
LEMMA FreedCounted ==
  ASSUME Typed, Counted, NEW X \in SUBSET Buffers,
         \A x \in X : desc[x].list = "zeroCopy" /\ desc'[x] = FreeDesc,
         \A b \in Buffers \ X : SameDesc(b),
         \A s \in Slots : Lasts'[s] = Lasts[s],
         \A u \in Actors : Carried'[u] = Carried[u],
         \A p \in PipeIds : queue'[p] = queue[p],
         \A b \in Buffers : Fillers(b)' = Fillers(b)
  PROVE  Counted'
<1>1. /\ \A c \in Buffers : QueuesOf(c)' = QueuesOf(c)
      /\ Distinct'
  BY QueuesSame DEF Counted
<1>2. \A b \in Buffers : Total(b)' = Total(b)
  <2> TAKE b \in Buffers
  <2>1. /\ {s \in Slots : Lasts'[s] = b} = {s \in Slots : Lasts[s] = b}
        /\ {u \in Actors : Carried'[u] = b} = {u \in Actors : Carried[u] = b}
    OBVIOUS
  <2> QED BY <1>1, <2>1, RefSets DEF Total
<1>3. ASSUME NEW b \in Buffers PROVE Sound(b)'
  <2>1. CASE b \in X
    <3>1. Total(b)' = 0 /\ Fillers(b)' = {}
      BY <1>2, <2>1, NotReferred
    <3>2. desc'[b].use = 0 /\ desc'[b].app = NoApp /\ desc'[b].list = "none"
      BY <2>1 DEF FreeDesc
    <3>3. MAX_PIPES \in Nat
      BY SizesAssumption
    <3> QED BY <3>1, <3>2, <3>3 DEF Sound, Ind, Allocated
  <2>2. CASE b \notin X
    BY <1>2, <2>2, SoundKept DEF Counted
  <2> QED BY <2>1, <2>2
<1> QED BY <1>1, <1>3 DEF Counted

LEMMA GivenBackCounted ==
  ASSUME Typed, Quiet, Counted, Holders, NEW t \in Actors, GivenBack(t)
  PROVE  Counted'
<1> DEFINE x == loc[t].buf
<1>1. x \in Buffers /\ desc[x].list = "zeroCopy"
  BY Claims DEF GivenBack
<1>2. desc[x].use = 1 /\ desc[x] \in DescRecord
  BY <1>1, NotReferred, DescFields
<1>3. desc'[x] = FreeDesc
  <2>1. [desc[x] EXCEPT !.app = NoApp].use = 1
    BY <1>2 DEF DescRecord
  <2>2. Decr([desc[x] EXCEPT !.app = NoApp]) = FreeDesc
    BY <2>1 DEF Decr
  <2> QED BY <1>1, <2>2 DEF GivenBack
<1>4. \A b \in Buffers \ {x} : SameDesc(b)
  BY DEF GivenBack, SameDesc
<1>5. \A s \in Slots : Lasts'[s] = Lasts[s]
  BY LastsSame, SlotsSame DEF GivenBack
<1>6. \A p \in PipeIds : queue'[p] = queue[p]
  BY DEF GivenBack
<1>7. /\ \A u \in Actors : Carried'[u] = Carried[u]
      /\ \A b \in Buffers : Fillers(b)' = Fillers(b)
  BY StillTask DEF GivenBack, Rests, Carries, CarryPCs
<1> HIDE DEF x
<1>8. {x} \in SUBSET Buffers
  BY <1>1
<1> QED BY <1>1, <1>3, <1>4, <1>5, <1>6, <1>7, <1>8, FreedCounted

LEMMA ReclaimedCounted ==
  ASSUME Typed, Counted, Reclaimed
  PROVE  Counted'
<1> DEFINE X == {b \in Buffers : desc[b].list = "zeroCopy" /\ desc[b].app = loc[Cleaner].app}
<1>1. \A x \in X : desc[x].list = "zeroCopy" /\ desc'[x] = FreeDesc
  <2> TAKE x \in X
  <2>1. desc[x].use = 1
    BY NotReferred
  <2>2. Decr(desc[x]) = FreeDesc
    BY <2>1 DEF Decr
  <2> QED BY <2>2 DEF Reclaimed
<1>2. \A b \in Buffers \ X : SameDesc(b)
  BY DEF Reclaimed, SameDesc
<1>3. \A p \in PipeIds : queue'[p] = queue[p]
  BY DEF Reclaimed
<1>4. X \in SUBSET Buffers
  OBVIOUS
<1> HIDE DEF X
<1> QED BY <1>1, <1>2, <1>3, <1>4, ReclaimedRefs, FreedCounted

LEMMA StepCounted ==
  ASSUME Typed, Holding, Tidy, Counted, Holders, StepForm
  PROVE  Counted'
<1>0. Roles /\ Quiet /\ InHand /\ Receivers
  BY DEF Tidy
<1>1. CASE CleanUpForm
  BY <1>0, <1>1, CleanUpStill, ReclaimedCounted, SameCounted
<1>2. ASSUME NEW t \in Actors, Passes(t) PROVE Counted'
  BY <1>2, PassesStill, SameCounted
<1>3. ASSUME NEW t \in Actors, PipeForm(t) PROVE Counted'
  <2>1. CASE \E pid \in PipeIds : Unpublished(t, pid)
    BY <1>0, <2>1, UnpublishedCounted
  <2>2. CASE DrainTook(t)
    BY <1>0, <2>2, TookCounted
  <2>3. CASE Drained(t)
    BY <2>3, DroppedCounted
  <2>4. CASE PipeStill(t)
    BY <2>4, PipeStillForms, SameCounted
  <2> QED BY <1>3, <2>1, <2>2, <2>3, <2>4 DEF PipeForm, PipeStill
<1>4. ASSUME NEW t \in Actors, BufferForm(t) PROVE Counted'
  <2>1. CASE \E b \in Buffers : Filling(t, b) \/ Issues(t, b)
    BY <2>1, FillingCounted, IssuesCounted
  <2>2. CASE \E sent \in SUBSET PipeIds : Sent(t, sent)
    BY <1>0, <2>2, SentCounted
  <2>3. CASE \E pid \in PipeIds : Polled(t, pid)
    <3>1. PICK pid \in PipeIds : Polled(t, pid)
      BY <2>3
    <3>2. CASE Drops(pipe[Slot(pid)].last)
      BY <3>1, <3>2, PolledCounted
    <3>3. CASE pipe[Slot(pid)].last = NoBuf /\ desc' = desc
      <4>1. BufferStill(t)
        BY <3>1, <3>3 DEF BufferStill
      <4> QED BY <4>1, BufferStillForms, SameCounted
    <3>4. (pipe[Slot(pid)].last = NoBuf /\ desc' = desc) \/ Drops(pipe[Slot(pid)].last)
      BY <3>1 DEF Polled
    <3> QED BY <3>2, <3>3, <3>4
  <2>4. CASE Took(t)
    BY <1>0, <2>4, TookCounted
  <2>5. CASE Handed(t)
    BY <1>0, <2>5, HandedCounted
  <2>6. CASE Lost(t)
    BY <2>6, DroppedCounted
  <2>7. CASE GivenBack(t)
    BY <1>0, <2>7, GivenBackCounted
  <2>8. CASE TookNothing(t) \/ Refused(t) \/ Claimed(t) \/ Validated(t)
    BY <2>8, BufferStillForms, SameCounted DEF BufferStill
  <2> QED BY <1>4, <2>1, <2>2, <2>3, <2>4, <2>5, <2>6, <2>7, <2>8 DEF BufferForm
<1> QED BY <1>1, <1>2, <1>3, <1>4 DEF StepForm

(* A running task keeps its pointer, and the buffer stays its own.          *)
KeepsBuffer(b) == desc[b].list = "zeroCopy" =>
                    desc'[b].list = desc[b].list /\ desc'[b].app = desc[b].app
Claiming == {"rel", "zc_check", "zc_cast"}

LEMMA HoldersMove ==
  ASSUME Holders,
         \A u \in Tasks : Held(u)' =>
            Held(u) /\ hold'[u] = hold[u] /\ KeepsBuffer(hold[u]),
         \A u \in Tasks : loc'[u].pc \in Claiming => hold'[u] = loc'[u].buf
  PROVE  Holders'
<1>1. \A u \in Tasks : Held(u)' =>
         desc'[hold'[u]].list = "zeroCopy" /\ desc'[hold'[u]].app = AppOf[u]
  BY DEF Holders, KeepsBuffer
<1>2. \A t, u \in Tasks : Held(t)' /\ Held(u)' /\ hold'[t] = hold'[u] => t = u
  BY DEF Holders
<1> QED BY <1>1, <1>2 DEF Holders, Claiming

LEMMA HeldTyped ==
  ASSUME Typed
  PROVE  \A u \in Tasks : Held(u) => hold[u] \in Buffers
  BY DEF Typed, TypeOK, Held

LEMMA SentHolders ==
  ASSUME Typed, Quiet, Counted, Holders, NEW t \in Actors,
         (\E sent \in SUBSET PipeIds : Sent(t, sent)) \/ GivenBack(t)
  PROVE  Holders'
<1> DEFINE x == loc[t].buf
<1>0. /\ t \in Tasks /\ Rests(t) /\ appState' = appState
      /\ \A u \in Tasks : u # t => hold'[u] = hold[u]
      /\ hold'[t] = hold[t] \/ hold'[t] = NoBuf
      /\ \A c \in Buffers : c # x => desc'[c] = desc[c]
  BY DEF Sent, GivenBack
<1>1. \A u \in Tasks : u # t => loc'[u] = loc[u]
  BY <1>0 DEF Rests, Others, Actors
<1>2. \A u \in Tasks : Held(u)' => Held(u) /\ hold'[u] = hold[u]
  BY <1>0 DEF Held, Runs
<1>3. \A u \in Tasks : loc'[u].pc \in Claiming => hold'[u] = loc'[u].buf
  BY <1>0, <1>1 DEF Holders, Claiming, Rests
<1>4. ASSUME NEW u \in Tasks, Held(u)'
      PROVE  KeepsBuffer(hold[u])
  <2>1. hold[u] \in Buffers /\ Held(u)
    BY <1>2, <1>4, HeldTyped
  <2>2. CASE hold[u] # x
    BY <1>0, <2>1, <2>2 DEF KeepsBuffer
  <2>3. CASE hold[u] = x
    <3>1. CASE loc[t].pc = "tx_cast"
      <4>1. t \in Fillers(x)
        BY <1>0, <3>1 DEF Fillers
      <4>2. desc[x].list = "none"
        BY <2>1, <2>3, <4>1 DEF Counted, Sound
      <4> QED BY <2>3, <4>2 DEF KeepsBuffer
    <3>2. CASE loc[t].pc \in {"rel", "zc_cast"}
      <4>1. Held(t) /\ hold[t] = x
        BY <1>0, <3>2, Claims
      <4>2. u = t
        BY <1>0, <2>1, <2>3, <4>1 DEF Holders
      <4>3. hold'[t] = NoBuf
        BY <3>2, <1>0 DEF Sent, GivenBack
      <4> QED BY <1>4, <4>2, <4>3 DEF Held
    <3> QED BY <3>1, <3>2 DEF Sent, GivenBack
  <2> QED BY <2>2, <2>3
<1> QED BY <1>2, <1>3, <1>4, HoldersMove

LEMMA IssuesHolders ==
  ASSUME Typed, Quiet, InHand, Counted, Holders, NEW t \in Actors,
         NEW x \in Buffers, Issues(t, x)
  PROVE  Holders'
<1>0. /\ t \in Tasks /\ loc[t].pc = "idle" /\ loc' = loc /\ appState' = appState
      /\ \A u \in Tasks : hold'[u] = IF u = t THEN x ELSE hold[u]
      /\ \A c \in Buffers : c # x => desc'[c] = desc[c]
      /\ desc[x].list = "none"
  BY NotReferred DEF Issues, Runs
<1>1. desc'[x].app = AppOf[t] /\ desc'[x].list = "zeroCopy"
  <2>1. desc'[x] = [FreshDesc EXCEPT !.app = AppOf[t], !.list = "zeroCopy"]
    BY DEF Issues
  <2> QED BY <2>1 DEF FreshDesc, FreeDesc
<1>2. \A u \in Tasks : u # t /\ Held(u)' =>
         /\ Held(u) /\ hold'[u] = hold[u] /\ hold[u] # x
         /\ desc'[hold[u]] = desc[hold[u]]
  <2>1. \A u \in Tasks : u # t /\ Held(u)' => Held(u) /\ hold'[u] = hold[u]
    BY <1>0 DEF Held, Runs
  <2>2. \A u \in Tasks : Held(u) => hold[u] # x
    BY <1>0 DEF Holders
  <2> QED BY <1>0, <2>1, <2>2, HeldTyped
<1>3. \A u \in Tasks : Held(u)' =>
         desc'[hold'[u]].list = "zeroCopy" /\ desc'[hold'[u]].app = AppOf[u]
  BY <1>0, <1>1, <1>2 DEF Holders
<1>4. \A u, v \in Tasks : Held(u)' /\ Held(v)' /\ hold'[u] = hold'[v] => u = v
  BY <1>0, <1>2 DEF Holders
<1>5. \A u \in Tasks : loc'[u].pc \in Claiming => hold'[u] = loc'[u].buf
  BY <1>0 DEF Holders, Claiming
<1> QED BY <1>3, <1>4, <1>5 DEF Holders, Claiming

(* Any other step leaves the zero-copy buffers of running tasks alone.      *)
LEMMA OthersHold ==
  ASSUME Typed, Tidy, Busy, Counted, Holders, StepForm,
         \A t \in Actors : /\ ~GivenBack(t)
                           /\ \A b \in Buffers : ~Issues(t, b)
                           /\ \A sent \in SUBSET PipeIds : ~Sent(t, sent)
  PROVE  Holders'
<1>0. /\ Cleaner \notin Tasks /\ Cleaner \in Actors
      /\ \A t \in Tasks : t \in Actors /\ AppOf[t] \in Apps
      /\ \A t \in Tasks : loc[t].pc \in Claiming => hold[t] = loc[t].buf
  BY NamesAssumption DEF Actors, Holders, Claiming
<1>1. CASE CleanUpForm
  <2>1. \A u \in Tasks : Held(u)' => Held(u) /\ hold'[u] = hold[u]
    BY <1>0, <1>1
       DEF CleanUpForm, Begun, Listed, Reclaimed, Ended, Skipped, Killed, Held, Runs
  <2>2. \A u \in Tasks : loc'[u].pc \in Claiming => hold'[u] = loc'[u].buf
    BY <1>0, <1>1
       DEF CleanUpForm, Begun, Listed, Reclaimed, Ended, Skipped, Killed, Others,
           Rests, Claiming
  <2>3. ASSUME NEW u \in Tasks, Held(u)' PROVE KeepsBuffer(hold[u])
    <3>1. Held(u) /\ hold[u] \in Buffers
      BY <2>1, <2>3, HeldTyped
    <3>2. CASE Reclaimed
      <4>1. desc[hold[u]].app = AppOf[u] /\ appState[AppOf[u]] = "running"
        BY <3>1 DEF Holders, Held, Runs
      <4>2. loc[Cleaner].app # AppOf[u]
        BY <3>2, <4>1 DEF Busy, Reclaimed
      <4> QED BY <3>1, <3>2, <4>1, <4>2 DEF Reclaimed, KeepsBuffer
    <3>3. CASE ~Reclaimed
      BY <1>1, <3>1, <3>3
         DEF CleanUpForm, Begun, Listed, Ended, Skipped, Killed, KeepsBuffer
    <3> QED BY <3>2, <3>3
  <2> QED BY <2>1, <2>2, <2>3, HoldersMove
<1>2. ASSUME NEW t \in Actors, Passes(t) PROVE Holders'
  <2>1. \A u \in Tasks : Held(u)' => Held(u) /\ hold'[u] = hold[u]
    BY <1>2 DEF Passes, Held, Runs
  <2>2. \A u \in Tasks : loc'[u].pc \in Claiming => hold'[u] = loc'[u].buf
    BY <1>0, <1>2 DEF Passes, Passing, Others, Claiming
  <2>3. \A u \in Tasks : KeepsBuffer(hold[u])
    BY <1>2 DEF Passes, KeepsBuffer
  <2> QED BY <2>1, <2>2, <2>3, HoldersMove
<1>3. ASSUME NEW t \in Actors, PipeForm(t) PROVE Holders'
  <2>1. hold' = hold /\ appState' = appState
    BY <1>3
       DEF PipeForm, Reserved, Unpublished, QueueMade, Published, Withdrawn, Drained,
           DrainTook, DrainEnded, QueueDeleted, SlotFreed, Subscribed, Unsubscribed
  <2>2. \A u \in Tasks : Held(u)' => Held(u) /\ hold'[u] = hold[u]
    BY <2>1 DEF Held, Runs
  <2>3. \A u \in Tasks : loc'[u].pc \in Claiming => hold'[u] = loc'[u].buf
    BY <1>0, <1>3, <2>1
       DEF PipeForm, Reserved, Unpublished, QueueMade, Published, Withdrawn, Drained,
           DrainTook, DrainEnded, QueueDeleted, SlotFreed, Subscribed, Unsubscribed,
           Others, Rests, Runs, Claiming
  <2>4. \A b \in Buffers : KeepsBuffer(b)
    <3>1. CASE Drained(t)
      BY <3>1, DroppedFacts DEF Drops, KeepsBuffer
    <3>2. CASE ~Drained(t)
      BY <1>3, <3>2
         DEF PipeForm, Reserved, Unpublished, QueueMade, Published, Withdrawn,
             DrainTook, DrainEnded, QueueDeleted, SlotFreed, Subscribed,
             Unsubscribed, KeepsBuffer
    <3> QED BY <3>1, <3>2
  <2> QED BY <2>2, <2>3, <2>4, HeldTyped, HoldersMove
<1>4. ASSUME NEW t \in Actors, BufferForm(t) PROVE Holders'
  <2>0. \/ \E b \in Buffers : Filling(t, b)
        \/ \E pid \in PipeIds : Polled(t, pid)
        \/ Took(t) \/ TookNothing(t) \/ Handed(t) \/ Lost(t) \/ Refused(t)
        \/ Claimed(t) \/ Validated(t)
    BY <1>4 DEF BufferForm
  <2>1. hold' = hold /\ appState' = appState
    BY <2>0 DEF Filling, Polled, Took, TookNothing, Handed, Lost, Refused, Claimed,
                Validated
  <2>2. \A u \in Tasks : Held(u)' => Held(u) /\ hold'[u] = hold[u]
    BY <2>1 DEF Held, Runs
  <2>3. \A u \in Tasks : loc'[u].pc \in Claiming => hold'[u] = loc'[u].buf
    BY <1>0, <2>0, <2>1
       DEF Filling, Polled, Took, TookNothing, Handed, Lost, Refused, Claimed,
           Validated, Others, Rests, Runs, Claiming
  <2>4. \A b \in Buffers : KeepsBuffer(b)
    <3>1. CASE \E b \in Buffers : Filling(t, b)
      BY <3>1, NotReferred DEF Filling, KeepsBuffer
    <3>2. CASE \E pid \in PipeIds : Polled(t, pid)
      <4>1. PICK pid \in PipeIds : Polled(t, pid)
        BY <3>2
      <4>2. CASE Drops(pipe[Slot(pid)].last)
        <5>1. /\ Slot(pid) \in Slots /\ pipe[Slot(pid)].last \in Buffers
              /\ Lasts[Slot(pid)] = pipe[Slot(pid)].last
          BY <4>1, <4>2, SlotInRange DEF Polled, Drops, IsMatch, Lasts, Used
        <5>2. desc[pipe[Slot(pid)].last].list = "inTransit"
          BY <5>1, RefSets, Referred
        <5> QED BY <4>2, <5>2 DEF Drops, KeepsBuffer
      <4> QED BY <4>1, <4>2 DEF Polled, KeepsBuffer
    <3>3. CASE Handed(t)
      BY <3>3, HandedDesc DEF KeepsBuffer
    <3>4. CASE Lost(t)
      BY <3>4, DroppedFacts DEF Drops, KeepsBuffer
    <3>5. CASE Took(t) \/ TookNothing(t) \/ Refused(t) \/ Claimed(t)
      BY <3>5 DEF Took, TookNothing, Refused, Claimed, KeepsBuffer
    <3>6. CASE Validated(t)
      BY <3>6, BufferStillForms DEF BufferStill, SameRefs, SameDesc, KeepsBuffer
    <3> QED BY <2>0, <3>1, <3>2, <3>3, <3>4, <3>5, <3>6
  <2> QED BY <2>2, <2>3, <2>4, HeldTyped, HoldersMove
<1> QED BY <1>1, <1>2, <1>3, <1>4 DEF StepForm

LEMMA HoldersKept ==
  ASSUME Typed, Tidy, Busy, Counted, Holders, StepForm
  PROVE  Holders'
<1>0. Quiet /\ InHand
  BY DEF Tidy
<1>1. CASE \E t \in Actors : (\E sent \in SUBSET PipeIds : Sent(t, sent)) \/ GivenBack(t)
  BY <1>0, <1>1, SentHolders
<1>2. CASE \E t \in Actors : \E b \in Buffers : Issues(t, b)
  BY <1>0, <1>2, IssuesHolders
<1>3. CASE \A t \in Actors : /\ ~GivenBack(t)
                             /\ \A b \in Buffers : ~Issues(t, b)
                             /\ \A sent \in SUBSET PipeIds : ~Sent(t, sent)
  BY <1>3, OthersHold
<1> QED BY <1>1, <1>2, <1>3

-----------------------------------------------------------------------------
(* The invariant of the bus, and what follows from it.                      *)

(* A zero-copy buffer belongs to an application that runs, or whose buffers *)
(* the cleaner has yet to take back.                                        *)
Borne == \A b \in Buffers : desc[b].app \in Apps =>
            \/ appState[desc[b].app] = "running"
            \/ /\ appState[desc[b].app] = "cleaning"
               /\ loc[Cleaner].pc # "cl_kill"

(* Nobody becomes the owner of a buffer that is not issued to it.           *)
LEMMA OwnersKept ==
  ASSUME Typed, Counted, NEW t \in Actors, BufferForm(t) \/ Drained(t),
         \A b \in Buffers : ~Issues(t, b)
  PROVE  \A b \in Buffers : desc'[b].app \in {desc[b].app, NoApp}
<1>1. ASSUME NEW x \in Buffers, Drops(x)
      PROVE  \A b \in Buffers : desc'[b].app \in {desc[b].app, NoApp}
  <2>1. desc[x] \in DescRecord
    BY DescFields
  <2>2. Decr(desc[x]).app \in {desc[x].app, NoApp}
    BY <2>1 DEF Decr, FreeDesc, DescRecord
  <2> QED BY <1>1, <2>2 DEF Drops
<1>2. CASE \E sent \in SUBSET PipeIds : Sent(t, sent)
  <2>1. PICK sent \in SUBSET PipeIds : Sent(t, sent)
    BY <1>2
  <2> DEFINE x == loc[t].buf
             d == Launched(Incr(desc[x], Cardinality(sent)))
  <2>2. x \in Buffers /\ desc[x] \in DescRecord
    BY <2>1, DescFields DEF Sent
  <2>3. d.app = NoApp /\ d \in DescRecord
    <3>1. Incr(desc[x], Cardinality(sent)) =
            [desc[x] EXCEPT !.use = Incr(desc[x], Cardinality(sent)).use]
      BY <2>2 DEF Incr, DescRecord
    <3>2. d = [desc[x] EXCEPT !.use = Incr(desc[x], Cardinality(sent)).use,
                              !.app = NoApp, !.list = "inTransit"]
      BY <3>1 DEF Launched
    <3>3. Cardinality(sent) \in Nat
      BY PipeIdsFinite, FS_Subset, FS_CardinalityType
    <3>4. d \in DescRecord
      BY <2>2, <3>3, DescTyped
    <3> QED BY <2>2, <3>2, <3>4 DEF DescRecord
  <2>4. Decr(d).app = NoApp
    <3> HIDE DEF d
    <3> QED BY <2>3 DEF Decr, FreeDesc, DescRecord
  <2> QED BY <2>1, <2>4 DEF Sent
<1>3. CASE GivenBack(t)
  <2> DEFINE x == loc[t].buf
             d == [desc[x] EXCEPT !.app = NoApp]
  <2>1. x \in Buffers /\ desc[x] \in DescRecord
    BY <1>3, DescFields DEF GivenBack
  <2>2. d.app = NoApp /\ d \in DescRecord
    BY <2>1 DEF DescRecord
  <2>3. Decr(d).app = NoApp
    BY <2>2 DEF Decr, FreeDesc, DescRecord
  <2> QED BY <1>3, <2>3 DEF GivenBack
<1>4. CASE Drained(t) \/ Lost(t)
  BY <1>1, <1>4, DroppedFacts
<1>5. CASE \E pid \in PipeIds : Polled(t, pid)
  BY <1>1, <1>5 DEF Polled, Drops
<1>6. CASE \E b \in Buffers : Filling(t, b)
  BY <1>6 DEF Filling, FreshDesc, FreeDesc
<1>7. CASE Handed(t)
  BY <1>7, HandedDesc
<1>8. CASE Validated(t)
  <2> SUFFICES ASSUME NEW b \in Buffers PROVE desc'[b].app = desc[b].app
    OBVIOUS
  <2>1. desc'[b] \in {[desc[b] EXCEPT !.msg = loc[t].msg], desc[b]}
    BY <1>8 DEF Validated
  <2> QED BY <2>1, DescFields DEF DescRecord
<1>9. CASE Took(t) \/ TookNothing(t) \/ Refused(t) \/ Claimed(t)
  BY <1>9 DEF Took, TookNothing, Refused, Claimed
<1> QED BY <1>2, <1>3, <1>4, <1>5, <1>6, <1>7, <1>8, <1>9 DEF BufferForm

LEMMA BorneKept ==
  ASSUME Typed, Roles, Busy, Counted, Borne, StepForm
  PROVE  Borne'
<1>0. /\ Cleaner \notin Tasks /\ Cleaner \in Actors
      /\ \A t \in Tasks : t \in Actors /\ AppOf[t] \in Apps
      /\ NoApp \notin Apps
  BY NamesAssumption DEF Actors
<1>1. CASE CleanUpForm
  <2>1. CASE \E a \in Apps : Begun(a)
    BY <1>0, <2>1 DEF Begun, Borne
  <2>2. CASE Reclaimed
    <3>1. ASSUME NEW b \in Buffers, desc'[b].app \in Apps
          PROVE  desc'[b] = desc[b] /\ desc[b].app # loc[Cleaner].app
      <4>1. desc'[b] = desc[b] \/ desc'[b] = FreeDesc
        <5>1. desc[b].list = "zeroCopy" => desc[b].use = 1
          BY NotReferred
        <5>2. desc[b].use = 1 => Decr(desc[b]) = FreeDesc
          BY DEF Decr
        <5> QED BY <2>2, <5>1, <5>2 DEF Reclaimed
      <4>2. desc'[b] = desc[b]
        BY <1>0, <3>1, <4>1 DEF FreeDesc
      <4>3. desc[b].list = "zeroCopy"
        BY <1>0, <3>1, <4>2 DEF Counted, Sound
      <4>4. desc[b].app # loc[Cleaner].app
        <5> SUFFICES ASSUME desc[b].app = loc[Cleaner].app PROVE FALSE
          OBVIOUS
        <5>1. desc'[b] = Decr(desc[b]) /\ desc[b].use = 1
          BY <2>2, <4>3, NotReferred DEF Reclaimed
        <5>2. desc'[b] = FreeDesc
          BY <5>1 DEF Decr
        <5> QED BY <1>0, <3>1, <5>2 DEF FreeDesc
      <4> QED BY <4>2, <4>4
    <3> QED BY <2>2, <3>1 DEF Reclaimed, Borne, Busy
  <2>3. CASE Ended
    BY <1>0, <2>3 DEF Ended, Rests, Borne, Busy
  <2>4. CASE \/ Listed
             \/ \E pid \in PipeIds : Skipped(pid)
             \/ \E t \in Tasks : Killed(t)
    BY <1>0, <2>4 DEF Listed, Skipped, Killed, Others, Borne
  <2> QED BY <1>1, <2>1, <2>2, <2>3, <2>4 DEF CleanUpForm
<1>2. ASSUME NEW t \in Actors, Passes(t) PROVE Borne'
  BY <1>0, <1>2 DEF Passes, Passing, Runs, Others, Borne
<1>3. ASSUME NEW t \in Actors, PipeForm(t) PROVE Borne'
  <2>1. appState' = appState /\ (loc'[Cleaner].pc = "cl_kill" => loc[Cleaner].pc = "cl_kill")
    BY <1>0, <1>3
       DEF PipeForm, Reserved, Unpublished, QueueMade, Published, Withdrawn, Drained,
           DrainTook, DrainEnded, QueueDeleted, SlotFreed, Subscribed, Unsubscribed,
           Others, Rests, Runs
  <2>2. \A b \in Buffers : desc'[b].app \in {desc[b].app, NoApp}
    <3>1. CASE Drained(t)
      <4>1. \A b \in Buffers : ~Issues(t, b)
        BY <3>1, <1>0 DEF Drained, Issues
      <4> QED BY <3>1, <4>1, OwnersKept
    <3>2. CASE ~Drained(t)
      BY <1>3, <3>2
         DEF PipeForm, Reserved, Unpublished, QueueMade, Published, Withdrawn,
             DrainTook, DrainEnded, QueueDeleted, SlotFreed, Subscribed, Unsubscribed
    <3> QED BY <3>1, <3>2
  <2> QED BY <1>0, <2>1, <2>2 DEF Borne
<1>4. ASSUME NEW t \in Actors, BufferForm(t) PROVE Borne'
  <2>1. appState' = appState /\ (loc'[Cleaner].pc = "cl_kill" => loc[Cleaner].pc = "cl_kill")
    BY Zenon, <1>0, <1>4
       DEF BufferForm, Filling, Issues, Sent, Polled, Took, TookNothing, Handed,
           Lost, Refused, Claimed, GivenBack, Validated, Others, Rests, Runs
  <2>2. CASE \E b \in Buffers : Issues(t, b)
    <3>1. PICK x \in Buffers : Issues(t, x)
      BY <2>2
    <3>2. desc'[x].app = AppOf[t] /\ appState[AppOf[t]] = "running"
      <4>1. desc'[x] = [FreshDesc EXCEPT !.app = AppOf[t], !.list = "zeroCopy"]
        BY <3>1 DEF Issues
      <4> QED BY <3>1, <4>1 DEF FreshDesc, FreeDesc, Issues, Runs
    <3>3. \A b \in Buffers : b # x => desc'[b] = desc[b]
      BY <3>1 DEF Issues
    <3> QED BY <2>1, <3>2, <3>3 DEF Borne
  <2>3. CASE ~\E b \in Buffers : Issues(t, b)
    <3>1. \A b \in Buffers : desc'[b].app \in {desc[b].app, NoApp}
      BY <1>4, <2>3, OwnersKept
    <3> QED BY <1>0, <2>1, <3>1 DEF Borne
  <2> QED BY <2>2, <2>3
<1> QED BY <1>1, <1>2, <1>3, <1>4 DEF StepForm

LEMMA InitCounted == Init => Counted /\ Holders /\ Borne
<1> SUFFICES ASSUME Init PROVE Counted /\ Holders /\ Borne
  OBVIOUS
<1>1. /\ \A t \in Actors : loc[t].pc = "idle"
      /\ \A s \in Slots : pipeId[s] = FREE
      /\ \A p \in PipeIds : queue[p] = <<>>
      /\ \A b \in Buffers : /\ desc[b].use = 0 /\ desc[b].app = NoApp
                            /\ desc[b].list = "none"
      /\ \A t \in Tasks : t \in Actors /\ hold[t] = NoBuf
  BY DEF Init, Idle, Actors, FreeDesc
<1>2. Distinct
  BY <1>1 DEF Distinct
<1>3. ASSUME NEW b \in Buffers PROVE Sound(b)
  <2>1. QueuesOf(b) = {} /\ LastOf(b) = {} /\ Carriers(b) = {}
    BY <1>1, NamesAssumption DEF QueuesOf, InQueue, LastOf, Used, Carriers
  <2>2. Total(b) = 0
    BY <2>1, FS_EmptySet DEF Total
  <2>3. Fillers(b) = {}
    BY <1>1 DEF Fillers
  <2>4. MAX_PIPES \in Nat
    BY SizesAssumption
  <2> QED BY <1>1, <2>2, <2>3, <2>4 DEF Sound, Ind, Allocated
<1> QED BY <1>1, <1>2, <1>3, NamesAssumption DEF Counted, Holders, Held, Borne

(* The invariant of the bus, with all its parts.                            *)
BusInv == Typed /\ Holding /\ Tidy /\ Cleaning /\ Counted /\ Holders /\ Borne

LEMMA StepBus ==
  ASSUME Disciplined, BusInv, [Next]_vars
  PROVE  BusInv' /\ StepForm
<1>1. Typed /\ Holding /\ Tidy /\ Cleaning /\ Counted /\ Holders /\ Borne
  BY DEF BusInv
<1>2. StepForm
  BY <1>1, StepForms
<1>3. Typed' /\ Holding'
  BY <1>1, StepTyped, StepHolding
<1>4. Tidy' /\ Cleaning' /\ Counted'
  BY <1>1, <1>2, StepTidy, StepCleaning, StepCounted
<1>5. Holders' /\ Borne'
  BY <1>1, <1>2, HoldersKept, BorneKept DEF Tidy, Cleaning
<1> QED BY <1>2, <1>3, <1>4, <1>5 DEF BusInv

LEMMA AlwaysBus ==
  ASSUME Disciplined
  PROVE  Spec => []BusInv
<1>1. Init => BusInv
  BY InitTyped, InitHolding, InitTidy, InitCleaning, InitCounted DEF BusInv
<1>2. BusInv /\ [Next]_vars => BusInv'
  BY StepBus
<1> QED BY <1>1, <1>2, PTL DEF Spec

LEMMA SoundExact ==
  ASSUME Typed, Counted
  PROVE  BuffersExact
<1>1. ASSUME NEW b \in Buffers
      PROVE  desc[b].use = Cardinality(QueuesOf(b)) + Cardinality(LastOf(b))
                     + Cardinality(Carriers(b)) + Cardinality(IssuedTo(b))
  <2>1. Cardinality(IssuedTo(b)) = Ind(desc[b].list, "zeroCopy")
    <3>1. CASE desc[b].list = "zeroCopy"
      <4>1. desc[b].app \in Apps
        BY <3>1, DescFields DEF Counted, Sound, DescRecord
      <4>2. IssuedTo(b) = {desc[b].app}
        BY <3>1, <4>1 DEF IssuedTo
      <4> QED BY <3>1, <4>2, FS_Singleton DEF Ind
    <3>2. CASE desc[b].list # "zeroCopy"
      <4>1. IssuedTo(b) = {}
        BY <3>2 DEF IssuedTo
      <4> QED BY <3>2, <4>1, FS_EmptySet DEF Ind
    <3> QED BY <3>1, <3>2
  <2> QED BY <2>1 DEF Counted, Sound, Total
<1>2. TrackingExact
  BY DEF Counted, Sound, TrackingExact, Fillers
<1> QED BY <1>1, <1>2 DEF UseCountExact, BuffersExact

LEMMA CleanedComplete ==
  ASSUME Typed, Busy, Owned, Borne
  PROVE  CleanUpComplete
<1>1. ASSUME NEW a \in Apps, CleanedUp(a)
      PROVE  appState[a] # "running" /\ (appState[a] = "cleaning" => loc[Cleaner].pc = "cl_kill")
  BY <1>1 DEF CleanedUp, Busy
<1>2. ASSUME NEW a \in Apps, CleanedUp(a), NEW s \in Slots, Used(s)
      PROVE  pipe[s].app # a
  <2>1. loc[Cleaner].pc = "cl_kill" => todo = {}
    BY DEF Owned
  <2> QED BY <1>1, <1>2, <2>1 DEF Owned
<1>3. ASSUME NEW a \in Apps, CleanedUp(a), NEW b \in Buffers
      PROVE  desc[b].app # a
  BY <1>1, <1>3 DEF Borne
<1>4. \A s \in Slots : Used(s) => pipe[s].app # NoApp
  BY NamesAssumption DEF Owned
<1> QED BY <1>2, <1>3, <1>4 DEF CleanUpComplete

(* Under every interleaving of the brackets of any number of tasks, the     *)
(* count of a buffer is the number of references to it: no reference is     *)
(* lost, forgotten or counted twice, and the pool never hands out a buffer  *)
(* that a queue, a pipe or a task still refers to.                          *)
THEOREM UseCountCorrect == Spec /\ Disciplined => []UseCountExact
<1> SUFFICES ASSUME Disciplined PROVE Spec => []UseCountExact
  OBVIOUS
<1>1. BusInv => UseCountExact
  BY SoundExact DEF BusInv, BuffersExact
<1> QED BY <1>1, AlwaysBus, PTL

(* Counts and tracking lists agree with who has the buffers.                *)
THEOREM BuffersCorrect == Spec /\ Disciplined => []BuffersExact
<1> SUFFICES ASSUME Disciplined PROVE Spec => []BuffersExact
  OBVIOUS
<1>1. BusInv => BuffersExact
  BY SoundExact DEF BusInv
<1> QED BY <1>1, AlwaysBus, PTL

(* Nothing of an application is left when its clean-up is over.             *)
THEOREM CleanUpCorrect == Spec /\ Disciplined => []CleanUpComplete
<1> SUFFICES ASSUME Disciplined PROVE Spec => []CleanUpComplete
  OBVIOUS
<1>1. BusInv => CleanUpComplete
  BY CleanedComplete DEF BusInv, Cleaning
<1> QED BY <1>1, AlwaysBus, PTL

-----------------------------------------------------------------------------
(* A received buffer stays as it is until its pipe is received from again.  *)

(* A buffer in transit keeps its message for as long as it is allocated.    *)
LEMMA MessageKept ==
  ASSUME Typed, Quiet, Counted, Holders, StepForm,
         NEW b \in Buffers, desc[b].list = "inTransit"
  PROVE  desc'[b].use > 0 => desc'[b].msg = desc[b].msg
<1>0. desc[b] \in DescRecord /\ Allocated(b) /\ desc[b].use \in Nat
  BY DescFields DEF Counted, Sound
<1>1. ASSUME NEW x \in Buffers, Drops(x)
      PROVE  desc'[b].use > 0 => desc'[b].msg = desc[b].msg
  <2>1. Decr(desc[b]).use > 0 => Decr(desc[b]).msg = desc[b].msg
    BY <1>0 DEF Decr, FreeDesc, DescRecord
  <2> QED BY <1>1, <2>1 DEF Drops
<1>2. CASE CleanUpForm
  BY <1>2
     DEF CleanUpForm, Begun, Listed, Reclaimed, Ended, Skipped, Killed
<1>3. ASSUME NEW t \in Actors, Passes(t)
      PROVE  desc'[b].msg = desc[b].msg
  BY <1>3 DEF Passes
<1>4. ASSUME NEW t \in Actors, PipeForm(t)
      PROVE  desc'[b].use > 0 => desc'[b].msg = desc[b].msg
  <2>1. CASE Drained(t)
    BY <1>1, <2>1, DroppedFacts
  <2>2. CASE ~Drained(t)
    BY <1>4, <2>2
       DEF PipeForm, Reserved, Unpublished, QueueMade, Published, Withdrawn,
           DrainTook, DrainEnded, QueueDeleted, SlotFreed, Subscribed, Unsubscribed
  <2> QED BY <2>1, <2>2
<1>5. ASSUME NEW t \in Actors, BufferForm(t)
      PROVE  desc'[b].use > 0 => desc'[b].msg = desc[b].msg
  <2>1. CASE \E x \in Buffers : Filling(t, x) \/ Issues(t, x)
    BY <1>0, <2>1 DEF Filling, Issues
  <2>2. CASE \E sent \in SUBSET PipeIds : Sent(t, sent)
    <3>1. PICK sent \in SUBSET PipeIds : Sent(t, sent)
      BY <2>2
    <3>2. loc[t].buf # b
      <4>1. CASE loc[t].pc = "tx_cast"
        <5>1. t \in Tasks /\ (loc[t].buf = b => t \in Fillers(b))
          BY <3>1, <4>1 DEF Sent, Fillers
        <5> QED BY <5>1 DEF Counted, Sound
      <4>2. CASE loc[t].pc = "zc_cast"
        <5>1. t \in Tasks
          BY <3>1 DEF Sent
        <5>2. desc[loc[t].buf].list = "zeroCopy"
          BY <4>2, <5>1, Claims
        <5> QED BY <5>2
      <4> QED BY <3>1, <4>1, <4>2 DEF Sent
    <3> QED BY <3>1, <3>2 DEF Sent
  <2>3. CASE \E pid \in PipeIds : Polled(t, pid)
    BY <1>1, <2>3 DEF Polled, Drops
  <2>4. CASE Lost(t)
    BY <1>1, <2>4, DroppedFacts
  <2>5. CASE Handed(t)
    BY <2>5, HandedDesc
  <2>6. CASE GivenBack(t) \/ Validated(t)
    <3>1. t \in Tasks /\ loc[t].pc \in {"rel", "zc_check"}
      BY <2>6 DEF GivenBack, Validated
    <3>2. desc[loc[t].buf].list = "zeroCopy"
      BY <3>1, Claims
    <3> QED BY <2>6, <3>2 DEF GivenBack, Validated
  <2>7. CASE Took(t) \/ TookNothing(t) \/ Refused(t) \/ Claimed(t)
    BY <2>7 DEF Took, TookNothing, Refused, Claimed
  <2> QED BY <1>5, <2>1, <2>2, <2>3, <2>4, <2>5, <2>6, <2>7 DEF BufferForm
<1> QED BY <1>2, <1>3, <1>4, <1>5 DEF StepForm

(* The buffer a pipe lends out is replaced by none but the receiver of that *)
(* pipe, who has given it back before.                                      *)
LEMMA LastKept ==
  ASSUME Typed, Holding, Tidy, StepForm,
         NEW s \in Slots, Used(s), pipe[s].last # NoBuf,
         pipe'[s].last # NoBuf, pipeId'[s] # RESERVED
  PROVE  Used(s)' /\ pipe'[s].last = pipe[s].last
<1>0. pipeId[s] \in PipeIds /\ pipeId[s] # FREE /\ pipeId[s] # RESERVED
  BY NamesAssumption DEF Used
<1>1. CASE CleanUpForm
  BY <1>1 DEF CleanUpForm, Begun, Listed, Reclaimed, Ended, Skipped, Killed, Used
<1>2. ASSUME NEW t \in Actors, Passes(t) PROVE Used(s)' /\ pipe'[s].last = pipe[s].last
  BY <1>2 DEF Passes, SamePipes, Used
<1>3. ASSUME NEW t \in Actors, PipeForm(t) PROVE Used(s)' /\ pipe'[s].last = pipe[s].last
  <2>1. CASE Published(t) \/ Withdrawn(t) \/ SlotFreed(t)
    <3>1. Slot(loc[t].pid) # s
      BY <1>0, <2>1, ReserveFacts DEF Published, Withdrawn, SlotFreed, Reserving
    <3> QED BY <2>1, <3>1 DEF Published, Withdrawn, SlotFreed, Used
  <2>2. CASE ~(Published(t) \/ Withdrawn(t) \/ SlotFreed(t))
    BY <1>0, <1>3, <2>2
       DEF PipeForm, Reserved, Unpublished, QueueMade, Drained, DrainTook, DrainEnded,
           QueueDeleted, Subscribed, Unsubscribed, Used
  <2> QED BY <2>1, <2>2
<1>4. ASSUME NEW t \in Actors, BufferForm(t) PROVE Used(s)' /\ pipe'[s].last = pipe[s].last
  <2>1. CASE Handed(t)
    <3>1. loc[t].pid \in PipeIds /\ pipe[Slot(loc[t].pid)].last = NoBuf
      BY <2>1 DEF Handed, IsMatch, Tidy, Receivers, Receiving
    <3> QED BY <2>1, <3>1 DEF Handed, Used
  <2>2. CASE ~Handed(t)
    BY Zenon, <1>4, <2>2
       DEF BufferForm, Filling, Issues, Sent, Polled, Took, TookNothing,
           Lost, Refused, Claimed, GivenBack, Validated, Used
  <2> QED BY <2>1, <2>2
<1> QED BY <1>1, <1>2, <1>3, <1>4 DEF StepForm

(* What ReceiveBuffer handed out is not taken away or overwritten before    *)
(* the next call on that pipe or its deletion.                              *)
THEOREM BorrowingCorrect == Spec /\ Disciplined => BorrowedStable
<1> SUFFICES ASSUME Disciplined PROVE Spec => BorrowedStable
  OBVIOUS
<1>1. ASSUME BusInv, [Next]_vars, NEW s \in Slots, Used(s), pipe[s].last # NoBuf
      PROVE  LET b == pipe[s].last
             IN  \/ pipe'[s].last = NoBuf
                 \/ pipeId'[s] = RESERVED
                 \/ desc'[b].use > 0 /\ desc'[b].msg = desc[b].msg
  <2> SUFFICES ASSUME pipe'[s].last # NoBuf, pipeId'[s] # RESERVED
               PROVE  desc'[pipe[s].last].use > 0
                      /\ desc'[pipe[s].last].msg = desc[pipe[s].last].msg
    OBVIOUS
  <2>1. PICK b : b = pipe[s].last
    OBVIOUS
  <2>2. /\ Typed /\ Holding /\ Tidy /\ Counted /\ Holders /\ Quiet /\ StepForm
        /\ Typed' /\ Counted'
    BY <1>1, StepBus DEF BusInv, Tidy
  <2>3. b \in Buffers /\ Lasts[s] = b
    BY <1>1, <2>1, <2>2 DEF Typed, TypeOK, PipeRecord, Lasts
  <2>4. desc[b].list = "inTransit"
    BY <2>2, <2>3, RefSets, Referred
  <2>5. Lasts'[s] = b
    BY <1>1, <2>1, <2>2, LastKept DEF Lasts
  <2>6. Total(b)' >= 1 /\ Total(b)' \in Nat
    BY <2>3, <2>5, NextCounts
  <2>7. desc'[b].use > 0
    BY <2>2, <2>3, <2>6 DEF Counted, Sound, Ind
  <2> QED BY <2>1, <2>2, <2>3, <2>4, <2>7, MessageKept
<1>2. BusInv /\ [Next]_vars =>
        [\A s \in Slots : Used(s) /\ pipe[s].last # NoBuf =>
          LET b == pipe[s].last
          IN  \/ pipe'[s].last = NoBuf
              \/ pipeId'[s] = RESERVED
              \/ desc'[b].use > 0 /\ desc'[b].msg = desc[b].msg]_vars
  BY <1>1
<1> QED BY <1>2, AlwaysBus, PTL DEF Spec, BorrowedStable
=============================================================================
