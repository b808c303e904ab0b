-------------------------- MODULE MessageBus_proofs --------------------------
(***************************************************************************)
(* What the clients of the Software Bus may count on, for any number of    *)
(* applications, tasks, pipes, messages and buffers: its counters and the  *)
(* message limits are exact, and it implements the message bus of module   *)
(* MessageBus.  Everything here rests on the invariant of the module       *)
(* SoftwareBus_proofs and its hypothesis Disciplined.                      *)
(***************************************************************************)
EXTENDS SoftwareBus_proofs, SequenceTheorems

(* What counts: the messages on their way to a pipe, and the counters kept  *)
(* for them.                                                                *)

(* The descriptor of the buffer a task is about to send shows the message   *)
(* the task looked the route up for.                                        *)
Sending == {"tx_cast", "zc_cast"}
Filled == \A t \in Tasks : loc[t].pc \in Sending => desc[loc[t].buf].msg = loc[t].msg

(* Two tasks never work on one buffer before it is sent.                    *)
LEMMA Alone ==
  ASSUME Typed, Quiet, Counted, Holders, NEW t \in Tasks, NEW u \in Tasks,
         loc[t].pc \in {"tx_cast", "rel", "zc_check", "zc_cast"},
         loc[u].pc \in {"tx_cast", "rel", "zc_check", "zc_cast"},
         loc[t].buf = loc[u].buf
  PROVE  t = u
<1> DEFINE x == loc[t].buf
<1>1. x \in Buffers /\ t \in Actors /\ u \in Actors
  BY DEF Typed, Locals, Promise, Actors
<1>2. \A v \in Tasks : loc[v].pc = "tx_cast" /\ loc[v].buf = x =>
         Carried[v] = x /\ desc[x].list = "none" /\ Total(x) = 1
  <2> TAKE v \in Tasks
  <2> HAVE loc[v].pc = "tx_cast" /\ loc[v].buf = x
  <2>1. v \in Fillers(x) /\ Sound(x)
    BY <1>1 DEF Fillers, Counted
  <2> QED BY <1>1, <2>1, RefCounts DEF Sound, Ind, Carried, CarryPCs, Actors
<1>3. \A v \in Tasks : loc[v].pc \in Claiming /\ loc[v].buf = x =>
         Held(v) /\ hold[v] = x /\ desc[x].list = "zeroCopy"
  BY Claims DEF Claiming
<1>4. CASE loc[t].pc = "tx_cast"
  <2>1. loc[u].pc = "tx_cast"
    BY <1>2, <1>3, <1>4 DEF Claiming
  <2>2. Carried[t] = x /\ Carried[u] = x /\ Total(x) = 1
    BY <1>2, <1>4, <2>1
  <2>3. t # u => Total(x) >= 2
    BY <1>1, <2>2, TwoCarriers
  <2> QED BY <2>2, <2>3
<1>5. CASE loc[t].pc # "tx_cast"
  <2>1. loc[t].pc \in Claiming
    BY <1>5 DEF Claiming
  <2>2. desc[x].list = "zeroCopy"
    BY <1>3, <2>1
  <2>3. loc[u].pc # "tx_cast"
    BY <1>2, <2>2
  <2>4. loc[u].pc \in Claiming
    BY <2>3 DEF Claiming
  <2> QED BY <1>3, <2>1, <2>4 DEF Holders
<1> QED BY <1>4, <1>5

(* While it does, nobody else writes to the descriptor.                     *)
LEMMA OwnMessage ==
  ASSUME Typed, Tidy, Busy, Counted, Holders, StepForm, NEW t \in Tasks,
         loc[t].pc \in Sending, loc'[t] = loc[t]
  PROVE  desc'[loc[t].buf].msg = desc[loc[t].buf].msg
<1> DEFINE x == loc[t].buf
<1>0. /\ x \in Buffers /\ t \in Actors /\ Quiet /\ Allocated(x)
      /\ desc[x].list \in {"none", "zeroCopy"} /\ desc[x] \in DescRecord
  <2>1. x \in Buffers /\ t \in Actors /\ Quiet
    BY DEF Typed, Locals, Promise, Sending, Actors, Tidy
  <2>2. CASE loc[t].pc = "tx_cast"
    <3>1. t \in Fillers(x) /\ Sound(x)
      BY <2>1, <2>2 DEF Fillers, Counted
    <3> QED BY <2>1, <3>1, DescFields DEF Sound, Allocated
  <2>3. CASE loc[t].pc = "zc_cast"
    <3>1. desc[x].list = "zeroCopy"
      BY <2>1, <2>3, Claims
    <3> QED BY <2>1, <3>1, DescFields DEF Counted, Sound, Allocated
  <2> QED BY <2>2, <2>3 DEF Sending
<1>1. ASSUME NEW y \in Buffers, Drops(y), desc[y].list = "inTransit"
      PROVE  desc'[x].msg = desc[x].msg
  BY <1>0, <1>1 DEF Drops
<1>2. CASE CleanUpForm
  <2>1. CASE Reclaimed
    <3>1. CASE desc[x].list = "zeroCopy"
      <4>1. loc[t].pc # "tx_cast"
        BY <1>0, <3>1 DEF Counted, Sound, Fillers
      <4>2. Held(t) /\ hold[t] = x
        BY <1>0, <4>1, Claims DEF Sending
      <4>3. desc[x].app = AppOf[t] /\ appState[AppOf[t]] = "running"
        BY <4>2 DEF Holders, Held, Runs
      <4>4. desc[x].app # loc[Cleaner].app
        BY <2>1, <4>3 DEF Busy, Reclaimed
      <4> QED BY <1>0, <2>1, <4>4 DEF Reclaimed
    <3>2. CASE desc[x].list # "zeroCopy"
      BY <1>0, <2>1, <3>2 DEF Reclaimed
    <3> QED BY <3>1, <3>2
  <2>2. CASE ~Reclaimed
    BY <1>2, <2>2 DEF CleanUpForm, Begun, Listed, Ended, Skipped, Killed
  <2> QED BY <2>1, <2>2
<1>3. ASSUME NEW u \in Actors, Passes(u)
      PROVE  desc'[x].msg = desc[x].msg
  BY <1>3 DEF Passes
<1>4. ASSUME NEW u \in Actors, PipeForm(u)
      PROVE  desc'[x].msg = desc[x].msg
  <2>1. CASE Drained(u)
    BY <1>1, <2>1, DroppedFacts
  <2>2. CASE ~Drained(u)
    BY <1>4, <2>2
       DEF PipeForm, Reserved, Unpublished, QueueMade, Published, Withdrawn,
           DrainTook, DrainEnded, QueueDeleted, SlotFreed, Subscribed, Unsubscribed
  <2> QED BY <2>1, <2>2
<1>5. ASSUME NEW u \in Actors, BufferForm(u)
      PROVE  desc'[x].msg = desc[x].msg
  <2>1. CASE \E y \in Buffers : Filling(u, y) \/ Issues(u, y)
    BY <1>0, <2>1 DEF Filling, Issues
  <2>2. CASE (\E sent \in SUBSET PipeIds : Sent(u, sent)) \/ GivenBack(u) \/ Validated(u)
    <3>1. /\ u \in Tasks /\ loc[u].pc \in {"tx_cast", "rel", "zc_check", "zc_cast"}
          /\ \A c \in Buffers : c # loc[u].buf => desc'[c] = desc[c]
      BY <2>2 DEF Sent, GivenBack, Validated
    <3>2. u # t
      BY <2>2 DEF Sent, GivenBack, Validated, Rests, Sending
    <3>3. loc[u].buf # x
      BY <1>0, <3>1, <3>2, Alone DEF Sending
    <3> QED BY <1>0, <3>1, <3>3
  <2>3. CASE \E pid \in PipeIds : Polled(u, pid)
    <3>1. PICK pid \in PipeIds : Polled(u, pid)
      BY <2>3
    <3>2. CASE Drops(pipe[Slot(pid)].last)
      <4>1. /\ Slot(pid) \in Slots /\ pipe[Slot(pid)].last \in Buffers
            /\ Lasts[Slot(pid)] = pipe[Slot(pid)].last
        BY <3>1, <3>2, SlotInRange DEF Polled, Drops, IsMatch, Lasts, Used
      <4>2. desc[pipe[Slot(pid)].last].list = "inTransit"
        BY <4>1, RefSets, Referred
      <4> QED BY <1>1, <3>2, <4>1, <4>2
    <3> QED BY <3>1, <3>2 DEF Polled
  <2>4. CASE Lost(u)
    BY <1>1, <2>4, DroppedFacts
  <2>5. CASE Handed(u)
    BY <1>0, <2>5, HandedDesc
  <2>6. CASE Took(u) \/ TookNothing(u) \/ Refused(u) \/ Claimed(u)
    BY <2>6 DEF Took, TookNothing, Refused, Claimed
  <2> QED BY <1>5, <2>1, <2>2, <2>3, <2>4, <2>5, <2>6 DEF BufferForm
<1> QED BY <1>2, <1>3, <1>4, <1>5 DEF StepForm

LEMMA FilledKept ==
  ASSUME Typed, Tidy, Busy, Counted, Holders, Filled, StepForm
  PROVE  Filled'
<1> SUFFICES ASSUME NEW t \in Tasks, loc'[t].pc \in Sending
             PROVE  desc'[loc'[t].buf].msg = loc'[t].msg
  BY DEF Filled
<1>0. Cleaner \notin Tasks /\ \A u \in Tasks : u \in Actors
  BY NamesAssumption DEF Actors
<1>1. CASE loc'[t] = loc[t]
  BY <1>1, OwnMessage DEF Filled
<1>2. CASE loc'[t] # loc[t]
  <2>1. ASSUME NEW u \in Actors, \/ \E x \in Buffers : Filling(u, x)
                                 \/ Validated(u)
        PROVE  desc'[loc'[t].buf].msg = loc'[t].msg
    <3>1. u = t
      BY <1>0, <1>2, <2>1 DEF Filling, Validated, Rests, Others
    <3>2. CASE \E x \in Buffers : Filling(u, x)
      <4>1. PICK x \in Buffers : Filling(u, x)
        BY <3>2
      <4>2. desc'[x].msg = loc[t].msg
        BY <3>1, <4>1 DEF Filling, FreshDesc, FreeDesc
      <4> QED BY <3>1, <4>1, <4>2 DEF Filling
    <3>3. CASE Validated(u)
      <4>1. /\ loc'[t].buf = loc[t].buf /\ loc'[t].msg = loc[t].msg
            /\ loc[t].buf \in Buffers
            /\ desc'[loc[t].buf] = [desc[loc[t].buf] EXCEPT !.msg = loc[t].msg]
        BY <3>1, <3>3 DEF Validated, Rests, Sending
      <4> QED BY <4>1, DescFields DEF DescRecord
    <3> QED BY <2>1, <3>2, <3>3
  <2>2. CASE CleanUpForm
    BY <1>0, <1>2, <2>2
       DEF CleanUpForm, Begun, Listed, Reclaimed, Ended, Skipped, Killed,
           Others, Rests, Sending
  <2>3. ASSUME NEW u \in Actors, Passes(u) PROVE FALSE
    BY <1>0, <1>2, <2>3 DEF Passes, Passing, Others, Sending
  <2>4. ASSUME NEW u \in Actors, PipeForm(u) PROVE FALSE
    BY <1>0, <1>2, <2>4
       DEF PipeForm, Reserved, Unpublished, QueueMade, Published, Withdrawn, Drained,
           DrainTook, DrainEnded, QueueDeleted, SlotFreed, Subscribed, Unsubscribed,
           Others, Rests, Sending
  <2>5. ASSUME NEW u \in Actors, BufferForm(u), ~Validated(u),
               \A x \in Buffers : ~Filling(u, x)
        PROVE  FALSE
    BY Zenon, <1>0, <1>2, <2>5
       DEF BufferForm, Issues, Sent, Polled, Took, TookNothing, Handed,
           Lost, Refused, Claimed, GivenBack, Others, Rests, Runs, Sending
  <2> QED BY <2>1, <2>2, <2>3, <2>4, <2>5 DEF StepForm
<1> QED BY <1>1, <1>2

(* Positions of a message in a queue.                                       *)
At(m, p) == {i \in DOMAIN queue[p] : desc[queue[p][i]].msg = m}
(* A receiver between taking a message and accounting for it.               *)
Flying(t, p) == t \in Tasks /\ loc[t].pc = "rcv_end" /\ loc[t].res = "ok"
                /\ loc[t].pid = p
FlyingOf(m, p) == {t \in InFlight(p) : desc[loc[t].buf].msg = m}

LEMMA AtFinite ==
  ASSUME Typed, NEW m, NEW p \in PipeIds
  PROVE  /\ IsFiniteSet(At(m, p)) /\ OnPipe(m, p) = Cardinality(At(m, p))
         /\ OnPipe(m, p) \in Nat /\ Len(queue[p]) \in Nat
         /\ DOMAIN queue[p] = 1..Len(queue[p]) /\ queue[p] \in Seq(Buffers)
         /\ \A i \in DOMAIN queue[p] : queue[p][i] \in Buffers
<1>1. queue[p] \in Seq(Buffers)
  BY DEF Typed, TypeOK
<1>2. /\ Len(queue[p]) \in Nat /\ DOMAIN queue[p] = 1..Len(queue[p])
      /\ \A i \in DOMAIN queue[p] : queue[p][i] \in Buffers
  BY <1>1
<1>3. IsFiniteSet(At(m, p))
  <2>1. IsFiniteSet(1..Len(queue[p]))
    BY <1>2, FS_Interval
  <2> QED BY <1>2, <2>1, FS_Subset DEF At
<1> QED BY <1>1, <1>2, <1>3, FS_CardinalityType DEF OnPipe, At

LEMMA FlightsFinite ==
  ASSUME NEW m, NEW p
  PROVE  /\ IsFiniteSet(InFlight(p)) /\ Cardinality(InFlight(p)) \in Nat
         /\ IsFiniteSet(FlyingOf(m, p)) /\ InFlightOf(m, p) = Cardinality(FlyingOf(m, p))
         /\ InFlightOf(m, p) \in Nat
<1>1. IsFiniteSet(InFlight(p)) /\ IsFiniteSet(FlyingOf(m, p))
  BY SizesAssumption, FS_Subset DEF InFlight, FlyingOf
<1> QED BY <1>1, FS_CardinalityType DEF InFlightOf, FlyingOf

(* What waits on a queue, and what a receiver has taken off it, keeps its   *)
(* message.                                                                 *)
LEMMA QueuedMessage ==
  ASSUME Typed, Tidy, Counted, Holders, StepForm, Counted', Typed',
         NEW p \in PipeIds, NEW i \in DOMAIN queue[p],
         NEW q \in PipeIds, NEW j \in DOMAIN queue'[q], queue'[q][j] = queue[p][i]
  PROVE  desc'[queue[p][i]].msg = desc[queue[p][i]].msg
<1>1. PICK b : b = queue[p][i]
  OBVIOUS
<1>2. b \in Buffers
  BY <1>1, AtFinite
<1>3. QueuesOf(b) # {} /\ QueuesOf(b)' # {}
  BY <1>1 DEF QueuesOf, InQueue
<1>4. desc[b].list = "inTransit"
  BY <1>2, <1>3, Referred
<1>5. desc'[b].use > 0
  <2>1. Total(b)' >= 1 /\ Total(b)' \in Nat
    BY <1>2, <1>3, NextCounts
  <2> QED BY <1>2, <2>1 DEF Counted, Sound, Ind
<1> QED BY <1>1, <1>2, <1>4, <1>5, MessageKept DEF Tidy

LEMMA FlyingMessage ==
  ASSUME Typed, Tidy, Counted, Holders, StepForm, Counted', Typed',
         NEW t \in Tasks, NEW p, Flying(t, p), loc'[t] = loc[t]
  PROVE  desc'[loc[t].buf].msg = desc[loc[t].buf].msg
<1>1. PICK b : b = loc[t].buf
  OBVIOUS
<1>2. b \in Buffers /\ t \in Actors
  BY <1>1 DEF Typed, Locals, Promise, Flying, Actors
<1>3. Carried[t] = b /\ Carried'[t] = b /\ loc[t].pc # "tx_cast"
  BY <1>1, <1>2 DEF Carried, CarryPCs, Flying
<1>4. desc[b].list = "inTransit"
  BY <1>2, <1>3, Referred
<1>5. desc'[b].use > 0
  <2>1. Total(b)' >= 1 /\ Total(b)' \in Nat
    BY <1>2, <1>3, NextCounts
  <2> QED BY <1>2, <2>1 DEF Counted, Sound, Ind
<1> QED BY <1>1, <1>2, <1>4, <1>5, MessageKept DEF Tidy

(* How the count of a message on a pipe changes with its queue.             *)
LEMMA OnPipeSame ==
  ASSUME Typed, NEW p \in PipeIds, queue'[p] = queue[p],
         \A i \in DOMAIN queue[p] : desc'[queue[p][i]].msg = desc[queue[p][i]].msg
  PROVE  /\ \A m : OnPipe(m, p)' = OnPipe(m, p)
         /\ Len(queue'[p]) = Len(queue[p])
  BY DEF OnPipe

LEMMA OnPipeSent ==
  ASSUME Typed, NEW p \in PipeIds, NEW x \in Buffers, queue'[p] = Append(queue[p], x),
         \A i \in DOMAIN queue[p] : desc'[queue[p][i]].msg = desc[queue[p][i]].msg
  PROVE  /\ \A m : OnPipe(m, p)' = OnPipe(m, p) + Ind(desc'[x].msg, m)
         /\ Len(queue'[p]) = Len(queue[p]) + 1
<1>1. /\ queue[p] \in Seq(Buffers) /\ Len(queue[p]) \in Nat
      /\ DOMAIN queue[p] = 1..Len(queue[p])
  BY AtFinite
<1> DEFINE n == Len(queue[p]) + 1
<1>2. /\ DOMAIN queue'[p] = 1..n /\ Len(queue'[p]) = n
      /\ \A i \in 1..Len(queue[p]) : queue'[p][i] = queue[p][i]
      /\ queue'[p][n] = x
  BY <1>1
<1>3. ASSUME NEW m
      PROVE  OnPipe(m, p)' = OnPipe(m, p) + Ind(desc'[x].msg, m)
  <2> DEFINE T == {i \in DOMAIN queue'[p] : desc'[queue'[p][i]].msg = m}
  <2>0. OnPipe(m, p)' = Cardinality(T)
    BY DEF OnPipe
  <2>1. IsFiniteSet(At(m, p)) /\ OnPipe(m, p) = Cardinality(At(m, p)) /\ OnPipe(m, p) \in Nat
    BY AtFinite
  <2>2. n \notin At(m, p)
    BY <1>1 DEF At
  <2>3. n \in T <=> desc'[x].msg = m
    BY <1>1, <1>2
  <2>4. \A i : i # n => (i \in At(m, p) <=> i \in T)
    BY <1>1, <1>2 DEF At
  <2> HIDE DEF T, n
  <2> QED BY <2>0, <2>1, <2>2, <2>3, <2>4, CountDiff DEF Ind
<1> QED BY <1>2, <1>3

LEMMA OnPipeTook ==
  ASSUME Typed, NEW p \in PipeIds, queue[p] # <<>>, queue'[p] = Tail(queue[p]),
         desc' = desc
  PROVE  /\ \A m : OnPipe(m, p)' = OnPipe(m, p) - Ind(desc[Head(queue[p])].msg, m)
         /\ Len(queue'[p]) = Len(queue[p]) - 1
<1>1. /\ queue[p] \in Seq(Buffers) /\ Len(queue[p]) \in Nat
      /\ DOMAIN queue[p] = 1..Len(queue[p])
  BY AtFinite
<1>2. /\ 1 \in DOMAIN queue[p] /\ queue[p][1] = Head(queue[p])
      /\ DOMAIN queue'[p] = 1..(Len(queue[p]) - 1)
      /\ Len(queue'[p]) = Len(queue[p]) - 1
      /\ \A i \in DOMAIN queue'[p] : queue'[p][i] = queue[p][i + 1]
  BY <1>1, HeadTail
<1>3. ASSUME NEW m
      PROVE  OnPipe(m, p)' = OnPipe(m, p) - Ind(desc[Head(queue[p])].msg, m)
  <2> DEFINE T == {i \in DOMAIN queue'[p] : desc'[queue'[p][i]].msg = m}
             U == At(m, p) \ {1}
             f == [i \in T |-> i + 1]
  <2>0. OnPipe(m, p)' = Cardinality(T)
    BY DEF OnPipe
  <2>1. IsFiniteSet(At(m, p)) /\ OnPipe(m, p) = Cardinality(At(m, p)) /\ OnPipe(m, p) \in Nat
    BY AtFinite
  <2>2. 1 \in At(m, p) <=> desc[Head(queue[p])].msg = m
    BY <1>2 DEF At
  <2>3. IsFiniteSet(U) /\ Cardinality(U) = IF 1 \in At(m, p) THEN OnPipe(m, p) - 1
                                                             ELSE OnPipe(m, p)
    BY <2>1, FS_RemoveElement
  <2>4. f \in Bijection(T, U)
    <3>1. \A i \in T : i + 1 \in U /\ i \in Int
      <4> TAKE i \in T
      <4>1. /\ i \in 1..(Len(queue[p]) - 1) /\ queue'[p][i] = queue[p][i + 1]
            /\ desc'[queue'[p][i]].msg = m
        BY <1>2
      <4>2. i + 1 \in 1..Len(queue[p]) /\ i \in Int /\ i + 1 # 1
        BY <1>1, <4>1
      <4>3. i + 1 \in At(m, p)
        BY <1>1, <4>1, <4>2 DEF At
      <4> QED BY <4>2, <4>3
    <3>2. \A j \in U : j - 1 \in T /\ j \in Int
      <4> TAKE j \in U
      <4>1. j \in 1..Len(queue[p]) /\ desc[queue[p][j]].msg = m /\ j # 1
        BY <1>1 DEF At
      <4>2. j - 1 \in 1..(Len(queue[p]) - 1) /\ j \in Int /\ (j - 1) + 1 = j
        BY <1>1, <4>1
      <4>3. queue'[p][j - 1] = queue[p][j]
        BY <1>2, <4>2
      <4> QED BY <1>2, <4>1, <4>2, <4>3
    <3>3. f \in [T -> U]
      BY <3>1
    <3>4. \A i, j \in T : f[i] = f[j] => i = j
      BY <3>1
    <3>5. \A j \in U : \E i \in T : f[i] = j
      <4> TAKE j \in U
      <4>1. j - 1 \in T /\ f[j - 1] = j
        BY <3>2
      <4> QED BY <4>1
    <3> QED BY <3>3, <3>4, <3>5 DEF Bijection, Injection, Surjection, IsInjective
  <2>5. IsFiniteSet(T)
    <3>1. IsFiniteSet(1..(Len(queue[p]) - 1))
      BY <1>1, FS_Interval
    <3> QED BY <1>2, <3>1, FS_Subset
  <2>6. Cardinality(T) = Cardinality(U)
    <3>1. ExistsBijection(T, U)
      BY <2>4 DEF ExistsBijection
    <3> QED BY <2>5, <3>1, FS_Bijection
  <2> HIDE DEF T, U
  <2> QED BY <2>0, <2>1, <2>2, <2>3, <2>6 DEF Ind
<1> QED BY <1>2, <1>3

(* A step that leaves alone what waits on a pipe and what is in flight from *)
(* it.                                                                      *)
FlightsStill(p) ==
    \A u \in Tasks : /\ Flying(u, p)' <=> Flying(u, p)
                     /\ Flying(u, p) => loc'[u] = loc[u]
Calm(p) ==
    /\ queue'[p] = queue[p] /\ FlightsStill(p)
    /\ pipe'[Slot(p)].depth = pipe[Slot(p)].depth
    /\ \A m \in Msgs : p \in subs[m] /\ p \in subs'[m] =>
          dst'[m][p].count = dst[m][p].count /\ dst'[m][p].lim = dst[m][p].lim

LEMMA CalmCleanUp ==
  ASSUME Typed, Roles, InHand, CleanUpForm, NEW p \in PipeIds
  PROVE  Calm(p)
<1>0. Cleaner \notin Tasks /\ \A t \in Tasks : t \in Actors
  BY NamesAssumption DEF Actors
<1> QED BY <1>0 DEF CleanUpForm, Begun, Listed, Reclaimed, Ended, Skipped, Killed,
             Others, Rests, Calm, FlightsStill, Flying

LEMMA CalmPasses ==
  ASSUME Typed, NEW t \in Actors, Passes(t), NEW p \in PipeIds
  PROVE  Calm(p)
<1>0. \A u \in Tasks : u \in Actors
  BY DEF Actors
<1>1. FlightsStill(p)
  BY <1>0 DEF Passes, Passing, Others, FlightsStill, Flying
<1> QED BY <1>1, SlotInRange DEF Passes, SamePipes, SameDst, Calm

LEMMA CalmPipe ==
  ASSUME Typed, Holding, Tidy, NEW t \in Actors, PipeForm(t),
         NEW p \in PipeIds, IsMatch(p)
  PROVE  Calm(p)
<1>0. /\ \A u \in Tasks : u \in Actors
      /\ Slot(p) \in Slots
      /\ \A u \in Actors : Reserving(u) => loc[u].pid # p /\ Slot(loc[u].pid) # Slot(p)
      /\ \A q \in PipeIds : pipeId[Slot(q)] = FREE => Slot(q) # Slot(p)
  BY SlotInRange, ReserveFacts, NamesAssumption DEF Actors, IsMatch
<1>1. CASE \E pid \in PipeIds : Reserved(t, pid)
  BY <1>0, <1>1 DEF Reserved, Others, Calm, FlightsStill, Flying
<1>2. CASE \E pid \in PipeIds : Unpublished(t, pid)
  <2>1. PICK pid \in PipeIds : Unpublished(t, pid)
    BY <1>2
  <2>2. FlightsStill(p)
    BY <1>0, <2>1, NamesAssumption DEF Unpublished, Runs, Others, FlightsStill, Flying
  <2>3. \A m \in Msgs : p \in subs'[m] => dst'[m][p] = dst[m][p]
    BY <2>1 DEF Unpublished
  <2> QED BY <2>1, <2>2, <2>3 DEF Unpublished, Calm
<1>3. CASE \/ QueueMade(t) \/ Published(t) \/ Withdrawn(t)
           \/ Drained(t) \/ DrainTook(t) \/ DrainEnded(t) \/ QueueDeleted(t)
           \/ SlotFreed(t)
  <2>1. Reserving(t)
    BY <1>3 DEF Reserving, QueueMade, Published, Withdrawn, Drained, DrainTook,
                DrainEnded, QueueDeleted, SlotFreed
  <2>2. loc[t].pid # p /\ Slot(loc[t].pid) # Slot(p)
    BY <1>0, <2>1
  <2>3. FlightsStill(p)
    BY <1>0, <1>3 DEF QueueMade, Published, Withdrawn, Drained, DrainTook, DrainEnded,
         QueueDeleted, SlotFreed, Rests, Others, FlightsStill, Flying
  <2> QED BY <1>0, <1>3, <2>2, <2>3
          DEF QueueMade, Published, Withdrawn, Drained, DrainTook, DrainEnded,
              QueueDeleted, SlotFreed, Calm
<1>4. CASE \E m \in Msgs, pid \in PipeIds : Subscribed(t, m, pid) \/ Unsubscribed(t, m, pid)
  <2>1. PICK m \in Msgs, pid \in PipeIds : Subscribed(t, m, pid) \/ Unsubscribed(t, m, pid)
    BY <1>4
  <2>2. FlightsStill(p)
    BY <2>1 DEF Subscribed, Unsubscribed, FlightsStill, Flying
  <2>3. \A k \in Msgs : p \in subs[k] /\ p \in subs'[k] => dst'[k][p] = dst[k][p]
    BY <2>1 DEF Subscribed, Unsubscribed
  <2> QED BY <2>1, <2>2, <2>3 DEF Subscribed, Unsubscribed, Calm
<1> QED BY <1>1, <1>2, <1>3, <1>4 DEF PipeForm

(* The steps that put a message on pipe p, take one off, account for one.   *)
SentTo(t, p) == \E sent \in SUBSET PipeIds : Sent(t, sent) /\ p \in sent
TookFrom(t, p) == Took(t) /\ loc[t].pid = p
HandedFrom(t, p) == Handed(t) /\ loc[t].pid = p

LEMMA CalmBuffer ==
  ASSUME Typed, Holding, Tidy, NEW t \in Actors, BufferForm(t),
         NEW p \in PipeIds, IsMatch(p),
         ~SentTo(t, p), ~TookFrom(t, p), ~HandedFrom(t, p)
  PROVE  Calm(p)
<1>0. /\ \A u \in Tasks : u \in Actors
      /\ Slot(p) \in Slots
      /\ \A q \in PipeIds : IsMatch(q) /\ Slot(q) = Slot(p) => q = p
  BY SlotInRange, PipeFacts DEF Actors
<1>1. CASE \E sent \in SUBSET PipeIds : Sent(t, sent)
  <2>1. PICK sent \in SUBSET PipeIds : Sent(t, sent)
    BY <1>1
  <2>2. p \notin sent
    BY <2>1 DEF SentTo
  <2>3. \A q \in sent : q \in PipeIds /\ IsMatch(q)
    BY <2>1, PipeFacts DEF Sent
  <2>4. ~\E q \in sent : Slot(q) = Slot(p)
    BY <1>0, <2>2, <2>3
  <2>5. FlightsStill(p)
    BY <1>0, <2>1 DEF Sent, Rests, Others, FlightsStill, Flying
  <2> QED BY <1>0, <2>1, <2>2, <2>4, <2>5 DEF Sent, Calm
<1>2. CASE \E pid \in PipeIds : Polled(t, pid)
  <2>1. FlightsStill(p)
    BY <1>0, <1>2 DEF Polled, Others, FlightsStill, Flying
  <2> QED BY <1>0, <1>2, <2>1 DEF Polled, Calm
<1>3. CASE Took(t)
  <2>1. loc[t].pid # p
    BY <1>3 DEF TookFrom
  <2>2. FlightsStill(p)
    BY <1>0, <1>3, <2>1 DEF Took, Others, FlightsStill, Flying
  <2> QED BY <1>3, <2>1, <2>2 DEF Took, Calm
<1>4. CASE Handed(t)
  <2>1. loc[t].pid # p /\ loc[t].pid \in PipeIds /\ IsMatch(loc[t].pid)
    BY <1>4 DEF HandedFrom, Handed, IsMatch
  <2>2. FlightsStill(p)
    BY <1>0, <1>4, <2>1 DEF Handed, Rests, Others, FlightsStill, Flying
  <2>3. Slot(loc[t].pid) # Slot(p)
    BY <1>0, <2>1
  <2> QED BY <1>0, <1>4, <2>1, <2>2, <2>3 DEF Handed, Calm
<1>5. CASE Lost(t)
  <2>1. loc[t].pid # p
    BY <1>5 DEF Lost
  <2>2. FlightsStill(p)
    BY <1>0, <1>5, <2>1 DEF Lost, Rests, Others, FlightsStill, Flying
  <2> QED BY <1>5, <2>2 DEF Lost, Calm
<1>6. CASE \/ \E b \in Buffers : Filling(t, b) \/ Issues(t, b)
           \/ TookNothing(t) \/ Refused(t)
           \/ Claimed(t) \/ GivenBack(t) \/ Validated(t)
  <2>1. FlightsStill(p)
    BY <1>0, <1>6 DEF Filling, Issues, TookNothing, Refused, Claimed, GivenBack,
                      Validated, Rests, Others, FlightsStill, Flying
  <2> QED BY <1>6, <2>1 DEF Filling, Issues, TookNothing, Refused, Claimed, GivenBack,
                            Validated, Calm
<1> QED BY <1>1, <1>2, <1>3, <1>4, <1>5, <1>6 DEF BufferForm

LEMMA CalmUnless ==
  ASSUME Typed, Holding, Tidy, StepForm, NEW p \in PipeIds, IsMatch(p)
  PROVE  Calm(p) \/ \E t \in Actors : SentTo(t, p) \/ TookFrom(t, p) \/ HandedFrom(t, p)
BY CalmCleanUp, CalmPasses, CalmPipe, CalmBuffer DEF StepForm, Tidy

(* Messages on a pipe and in flight from it: all, and those with one ID.    *)
Load(p) == Len(queue[p]) + Cardinality(InFlight(p))
LoadOf(m, p) == OnPipe(m, p) + InFlightOf(m, p)

LEMMA FlightsSame ==
  ASSUME Typed, Tidy, Counted, Holders, StepForm, Counted', Typed',
         NEW p, FlightsStill(p)
  PROVE  /\ Cardinality(InFlight(p))' = Cardinality(InFlight(p))
         /\ \A m : InFlightOf(m, p)' = InFlightOf(m, p)
<1>1. InFlight(p)' = InFlight(p)
  BY DEF FlightsStill, Flying, InFlight
<1>2. \A t \in InFlight(p) : /\ desc'[loc'[t].buf].msg = desc[loc[t].buf].msg
  BY FlyingMessage DEF FlightsStill, Flying, InFlight
<1>3. \A m : {t \in InFlight(p) : desc[loc[t].buf].msg = m}'
             = {t \in InFlight(p) : desc[loc[t].buf].msg = m}
  BY <1>1, <1>2
<1> QED BY <1>1, <1>3 DEF InFlightOf

LEMMA FlightsMoved ==
  ASSUME Typed, Tidy, Counted, Holders, StepForm, Counted', Typed',
         NEW p, NEW t \in Tasks, Others(t), Flying(t, p)' <=> ~Flying(t, p)
  PROVE  IF Flying(t, p)
           THEN /\ Cardinality(InFlight(p))' = Cardinality(InFlight(p)) - 1
                /\ \A m : InFlightOf(m, p)' = InFlightOf(m, p) - Ind(desc[loc[t].buf].msg, m)
           ELSE /\ Cardinality(InFlight(p))' = Cardinality(InFlight(p)) + 1
                /\ \A m : InFlightOf(m, p)' = InFlightOf(m, p) + Ind(desc'[loc'[t].buf].msg, m)
<1>0. \A u \in Tasks : u \in Actors /\ (u # t => loc'[u] = loc[u])
  BY DEF Others, Actors
<1>1. \A u : u # t => (u \in InFlight(p) <=> u \in InFlight(p)')
  BY <1>0 DEF InFlight
<1>2. /\ t \in InFlight(p) <=> Flying(t, p)
      /\ t \in InFlight(p)' <=> Flying(t, p)'
  BY DEF InFlight, Flying
<1>3. IF Flying(t, p)
        THEN Cardinality(InFlight(p)') = Cardinality(InFlight(p)) - 1
        ELSE Cardinality(InFlight(p)') = Cardinality(InFlight(p)) + 1
  BY <1>1, <1>2, CountDiff, FlightsFinite
<1>4. ASSUME NEW m
      PROVE  IF Flying(t, p)
               THEN InFlightOf(m, p)' = InFlightOf(m, p) - Ind(desc[loc[t].buf].msg, m)
               ELSE InFlightOf(m, p)' = InFlightOf(m, p) + Ind(desc'[loc'[t].buf].msg, m)
  <2>1. \A u : u # t => (u \in FlyingOf(m, p) <=> u \in FlyingOf(m, p)')
    <3>1. \A u \in InFlight(p) : u # t => desc'[loc'[u].buf].msg = desc[loc[u].buf].msg
      BY <1>0, FlyingMessage DEF Flying, InFlight
    <3> QED BY <1>1, <3>1 DEF FlyingOf
  <2>2. /\ t \in FlyingOf(m, p) <=> Flying(t, p) /\ desc[loc[t].buf].msg = m
        /\ t \in FlyingOf(m, p)' <=> Flying(t, p)' /\ desc'[loc'[t].buf].msg = m
    BY <1>2 DEF FlyingOf
  <2>3. /\ IsFiniteSet(FlyingOf(m, p)) /\ InFlightOf(m, p) = Cardinality(FlyingOf(m, p))
        /\ InFlightOf(m, p) \in Nat
        /\ InFlightOf(m, p)' = Cardinality(FlyingOf(m, p)')
    BY FlightsFinite DEF InFlightOf, FlyingOf
  <2>4. /\ t \in FlyingOf(m, p) /\ t \notin FlyingOf(m, p)' =>
              InFlightOf(m, p)' = InFlightOf(m, p) - 1
        /\ t \notin FlyingOf(m, p) /\ t \in FlyingOf(m, p)' =>
              InFlightOf(m, p)' = InFlightOf(m, p) + 1
        /\ t \notin FlyingOf(m, p) /\ t \notin FlyingOf(m, p)' =>
              InFlightOf(m, p)' = InFlightOf(m, p)
    BY <2>1, <2>3, CountDiff
  <2> QED BY <2>2, <2>3, <2>4 DEF Ind
<1> QED BY <1>3, <1>4

-----------------------------------------------------------------------------
(* One step, and what it does to the load of a pipe.                        *)

(* What every step may rely on.                                             *)
BusStep == /\ BusInv /\ Filled /\ StepForm
           /\ Typed' /\ Holding' /\ Tidy' /\ Counted'

LEMMA BusStepFacts ==
  ASSUME BusStep
  PROVE  /\ Typed /\ Holding /\ Tidy /\ Counted /\ Holders /\ Filled /\ StepForm
         /\ Typed' /\ Holding' /\ Tidy' /\ Counted'
  BY DEF BusStep, BusInv

LEMMA LoadTyped ==
  ASSUME Typed, NEW p \in PipeIds
  PROVE  /\ Load(p) \in Nat /\ Len(queue[p]) \in Nat /\ Cardinality(InFlight(p)) \in Nat
         /\ \A m : LoadOf(m, p) \in Nat /\ OnPipe(m, p) \in Nat /\ InFlightOf(m, p) \in Nat
  BY AtFinite, FlightsFinite DEF Load, LoadOf

LEMMA StillQueue ==
  ASSUME BusStep, NEW p \in PipeIds, queue'[p] = queue[p]
  PROVE  /\ \A m : OnPipe(m, p)' = OnPipe(m, p)
         /\ Len(queue'[p]) = Len(queue[p])
<1>1. \A i \in DOMAIN queue[p] : desc'[queue[p][i]].msg = desc[queue[p][i]].msg
  BY BusStepFacts, QueuedMessage
<1> QED BY <1>1, BusStepFacts, OnPipeSame

LEMMA LoadCalm ==
  ASSUME BusStep, NEW p \in PipeIds, Calm(p)
  PROVE  Load(p)' = Load(p) /\ \A m : LoadOf(m, p)' = LoadOf(m, p)
<1>1. /\ \A m : OnPipe(m, p)' = OnPipe(m, p)
      /\ Len(queue'[p]) = Len(queue[p])
  BY StillQueue DEF Calm
<1>2. /\ Cardinality(InFlight(p))' = Cardinality(InFlight(p))
      /\ \A m : InFlightOf(m, p)' = InFlightOf(m, p)
  BY BusStepFacts, FlightsSame DEF Calm
<1> QED BY <1>1, <1>2 DEF Load, LoadOf

(* A transmitted buffer holds the message its sender asked for.              *)
LEMMA SentMessage ==
  ASSUME BusStep, NEW t \in Actors, NEW sent \in SUBSET PipeIds, Sent(t, sent), sent # {}
  PROVE  desc'[loc[t].buf].msg = loc[t].msg
<1> DEFINE x == loc[t].buf
           n == Cardinality(sent)
<1>1. /\ t \in Tasks /\ x \in Buffers /\ loc[t].pc \in Sending
      /\ desc'[x] = Decr(Launched(Incr(desc[x], n)))
  BY DEF Sent, Sending
<1>2. desc[x] \in DescRecord /\ desc[x].use = 1
  BY <1>1, BusStepFacts, SentBuffer, DescFields DEF Tidy
<1>3. n \in Nat /\ n <= MAX_PIPES /\ n # 0
  BY BusStepFacts, SentCount
<1>4. desc'[x].msg = desc[x].msg
  BY <1>1, <1>2, <1>3, CastDesc
<1> QED BY <1>1, <1>4, BusStepFacts DEF Filled

LEMMA LoadSent ==
  ASSUME BusStep, NEW p \in PipeIds, NEW t \in Actors, SentTo(t, p)
  PROVE  /\ Load(p)' = Load(p) + 1
         /\ \A m : LoadOf(m, p)' = LoadOf(m, p) + Ind(loc[t].msg, m)
<1>1. PICK sent \in SUBSET PipeIds : Sent(t, sent) /\ p \in sent
  BY DEF SentTo
<1> DEFINE x == loc[t].buf
<1>2. /\ t \in Tasks /\ x \in Buffers /\ queue'[p] = Append(queue[p], x)
      /\ loc[t].pc \in Sending /\ Others(t) /\ loc'[t].pc = "idle"
  BY <1>1 DEF Sent, Rests, Sending
<1>3. desc'[x].msg = loc[t].msg
  BY <1>1, SentMessage
<1>4. queue[p] \in Seq(Buffers)
  BY BusStepFacts, AtFinite
<1>5. \A i \in DOMAIN queue[p] : i \in DOMAIN queue'[p] /\ queue'[p][i] = queue[p][i]
  BY <1>2, <1>4
<1>6. \A i \in DOMAIN queue[p] : desc'[queue[p][i]].msg = desc[queue[p][i]].msg
  BY <1>5, BusStepFacts, QueuedMessage
<1>7. /\ \A m : OnPipe(m, p)' = OnPipe(m, p) + Ind(loc[t].msg, m)
      /\ Len(queue'[p]) = Len(queue[p]) + 1
  BY <1>2, <1>3, <1>6, BusStepFacts, OnPipeSent
<1>8. FlightsStill(p)
  BY <1>2 DEF FlightsStill, Flying, Others, Sending, Actors
<1>9. /\ Cardinality(InFlight(p))' = Cardinality(InFlight(p))
      /\ \A m : InFlightOf(m, p)' = InFlightOf(m, p)
  BY <1>8, BusStepFacts, FlightsSame
<1>10. /\ Len(queue[p]) \in Nat /\ Cardinality(InFlight(p)) \in Nat
       /\ \A m : OnPipe(m, p) \in Nat /\ InFlightOf(m, p) \in Nat
       /\ \A m : Ind(loc[t].msg, m) \in Nat
  BY LoadTyped, BusStepFacts DEF Ind
<1> HIDE DEF x
<1> QED BY <1>7, <1>9, <1>10 DEF Load, LoadOf

LEMMA LoadTook ==
  ASSUME BusStep, NEW p \in PipeIds, NEW t \in Actors, TookFrom(t, p)
  PROVE  Load(p)' = Load(p) /\ \A m : LoadOf(m, p)' = LoadOf(m, p)
<1>1. /\ t \in Tasks /\ loc[t].pc = "rcv_get" /\ queue[p] # <<>> /\ Others(t)
      /\ queue'[p] = Tail(queue[p]) /\ desc' = desc
      /\ loc'[t].buf = Head(queue[p]) /\ ~Flying(t, p) /\ Flying(t, p)'
  BY DEF TookFrom, Took, Flying
<1> DEFINE h == Head(queue[p])
<1>2. /\ \A m : OnPipe(m, p)' = OnPipe(m, p) - Ind(desc[h].msg, m)
      /\ Len(queue'[p]) = Len(queue[p]) - 1
  BY <1>1, BusStepFacts, OnPipeTook
<1>3. /\ Cardinality(InFlight(p))' = Cardinality(InFlight(p)) + 1
      /\ \A m : InFlightOf(m, p)' = InFlightOf(m, p) + Ind(desc'[loc'[t].buf].msg, m)
  BY <1>1, BusStepFacts, FlightsMoved
<1>4. desc'[loc'[t].buf].msg = desc[h].msg
  BY <1>1
<1>5. /\ Len(queue[p]) \in Nat /\ Cardinality(InFlight(p)) \in Nat
      /\ \A m : OnPipe(m, p) \in Nat /\ InFlightOf(m, p) \in Nat
      /\ \A m : Ind(desc[h].msg, m) \in Nat
  BY LoadTyped, BusStepFacts DEF Ind
<1> HIDE DEF h
<1> QED BY <1>2, <1>3, <1>4, <1>5 DEF Load, LoadOf

LEMMA LoadHanded ==
  ASSUME BusStep, NEW p \in PipeIds, NEW t \in Actors, HandedFrom(t, p)
  PROVE  /\ Load(p)' = Load(p) - 1 /\ Load(p) >= 1
         /\ \A m : LoadOf(m, p)' = LoadOf(m, p) - Ind(desc[loc[t].buf].msg, m)
         /\ LoadOf(desc[loc[t].buf].msg, p) >= 1
<1>1. /\ t \in Tasks /\ Others(t) /\ queue'[p] = queue[p]
      /\ Flying(t, p) /\ ~Flying(t, p)'
  BY DEF HandedFrom, Handed, Rests, Flying
<1>0. PICK k : k = desc[loc[t].buf].msg
  OBVIOUS
<1>2. /\ \A m : OnPipe(m, p)' = OnPipe(m, p)
      /\ Len(queue'[p]) = Len(queue[p])
  BY <1>1, StillQueue
<1>3. /\ Cardinality(InFlight(p))' = Cardinality(InFlight(p)) - 1
      /\ \A m : InFlightOf(m, p)' = InFlightOf(m, p) - Ind(k, m)
  BY <1>0, <1>1, BusStepFacts, FlightsMoved
<1>4. /\ Len(queue[p]) \in Nat /\ Cardinality(InFlight(p)) \in Nat
      /\ Len(queue'[p]) \in Nat /\ Cardinality(InFlight(p))' \in Nat
      /\ \A m : OnPipe(m, p) \in Nat /\ InFlightOf(m, p) \in Nat
      /\ \A m : Ind(k, m) \in Nat
  <2>1. Cardinality(InFlight(p)') \in Nat
    <3>1. InFlight(p)' \subseteq Tasks
      BY DEF InFlight
    <3> QED BY <3>1, SizesAssumption, FS_Subset, FS_CardinalityType
  <2> QED BY <1>2, <2>1, LoadTyped, BusStepFacts DEF Ind
<1>5. InFlightOf(k, p)' = InFlightOf(k, p) - 1 /\ InFlightOf(k, p)' \in Nat
  <2>1. \A m : InFlightOf(m, p)' \in Nat
    <3> TAKE m
    <3>1. {u \in InFlight(p)' : desc'[loc'[u].buf].msg = m} \subseteq Tasks
      BY DEF InFlight
    <3> QED BY <3>1, SizesAssumption, FS_Subset, FS_CardinalityType DEF InFlightOf
  <2> QED BY <1>3, <2>1 DEF Ind
<1>6. Load(p)' = Load(p) - 1 /\ Load(p) >= 1
  BY <1>2, <1>3, <1>4 DEF Load
<1>7. \A m : LoadOf(m, p)' = LoadOf(m, p) - Ind(k, m)
  BY <1>2, <1>3, <1>4 DEF LoadOf
<1>8. LoadOf(k, p) >= 1
  BY <1>4, <1>5 DEF LoadOf
<1> QED BY <1>0, <1>6, <1>7, <1>8

(* A slot in use was in use by the same pipe before, or its pipe is just    *)
(* made.                                                                    *)
LEMMA BornOrSame ==
  ASSUME BusStep, NEW s \in Slots, Used(s)'
  PROVE  \/ pipeId'[s] = pipeId[s]
         \/ \E t \in Actors : Published(t) /\ s = Slot(loc[t].pid) /\ pipeId'[s] = loc[t].pid
<1>0. FREE \notin PipeIds /\ RESERVED \notin PipeIds
  BY NamesAssumption
<1>1. CASE CleanUpForm
  BY <1>1 DEF CleanUpForm, Begun, Listed, Reclaimed, Ended, Skipped, Killed
<1>2. ASSUME NEW t \in Actors, Passes(t) PROVE pipeId'[s] = pipeId[s]
  BY <1>2 DEF Passes
<1>3. ASSUME NEW t \in Actors, PipeForm(t)
      PROVE  pipeId'[s] = pipeId[s] \/ (Published(t) /\ s = Slot(loc[t].pid)
                                        /\ pipeId'[s] = loc[t].pid)
  BY <1>0, <1>3 DEF PipeForm, Reserved, QueueMade, Published, Withdrawn, Unpublished,
     Drained, DrainTook, DrainEnded, QueueDeleted, SlotFreed, Subscribed, Unsubscribed,
     Used
<1>4. ASSUME NEW t \in Actors, BufferForm(t) PROVE pipeId'[s] = pipeId[s]
  BY Zenon, <1>4 DEF BufferForm, Sent, Polled, Took, Handed, Lost, TookNothing, Refused,
     Filling, Issues, Claimed, GivenBack, Validated
<1> QED BY <1>1, <1>2, <1>3, <1>4, BusStepFacts DEF StepForm

(* Nothing waits on a pipe that is just made, or is on its way from it.     *)
LEMMA BornEmpty ==
  ASSUME BusStep, NEW t \in Actors, Published(t), NEW p, p = loc[t].pid
  PROVE  /\ p \in PipeIds
         /\ Load(p)' = 0 /\ pipe'[Slot(p)].depth = 0
         /\ \A m : LoadOf(m, p)' = 0
<1>1. p = loc[t].pid
  OBVIOUS
<1>2. /\ Typed /\ t \in Tasks /\ p \in PipeIds /\ Slot(p) \in Slots /\ queue'[p] = <<>>
      /\ pipe'[Slot(p)].depth = 0
      /\ \A u \in Tasks : ~Receiving(u, p)
  <2>1. Typed /\ Fresh /\ loc[t].pc = "cr_end" /\ t \in Tasks
    BY BusStepFacts DEF Published, Tidy
  <2>2. p \in PipeIds
    BY <1>1, <2>1 DEF Typed, Locals, Promise, OnPipeId
  <2> QED BY <1>1, <2>1, <2>2, SlotInRange DEF Published, Fresh
<1>3. InFlight(p)' = {}
  <2>1. \A u \in Tasks : ~Flying(u, p)'
    <3> TAKE u \in Tasks
    <3>1. CASE u = t
      BY <3>1 DEF Published, Rests, Flying
    <3>2. CASE u # t
      BY <1>2, <3>2 DEF Published, Rests, Others, Flying, Receiving, Actors
    <3> QED BY <3>1, <3>2
  <2> QED BY <2>1 DEF InFlight, Flying
<1>4. Load(p)' = 0
  BY <1>2, <1>3, FS_EmptySet DEF Load
<1>5. ASSUME NEW m PROVE LoadOf(m, p)' = 0
  <2>1. {i \in DOMAIN queue'[p] : desc'[queue'[p][i]].msg = m} = {}
    BY <1>2
  <2>2. {u \in InFlight(p)' : desc'[loc'[u].buf].msg = m} = {}
    BY <1>3
  <2>3. OnPipe(m, p)' = Cardinality({i \in DOMAIN queue'[p] : desc'[queue'[p][i]].msg = m})
    BY DEF OnPipe
  <2>4. InFlightOf(m, p)' = Cardinality({u \in InFlight(p)' : desc'[loc'[u].buf].msg = m})
    BY DEF InFlightOf
  <2>5. OnPipe(m, p)' = 0 /\ InFlightOf(m, p)' = 0
    BY <2>1, <2>2, <2>3, <2>4, FS_EmptySet, Zenon
  <2>6. LoadOf(m, p)' = OnPipe(m, p)' + InFlightOf(m, p)'
    BY DEF LoadOf
  <2> QED BY <2>5, <2>6
<1> QED BY <1>2, <1>4, <1>5

LEMMA DepthKept ==
  ASSUME BusStep, DepthExact
  PROVE  DepthExact'
<1>1. SUFFICES ASSUME NEW s \in Slots, Used(s)', NEW p, p = pipeId'[s]
               PROVE  pipe'[s].depth = Load(p)'
  BY DEF DepthExact, Load, Used
<1>2. p \in PipeIds
  BY <1>1 DEF Used
<1>3. CASE \E t \in Actors : Published(t) /\ s = Slot(loc[t].pid) /\ p = loc[t].pid
  <2>1. PICK t \in Actors : Published(t) /\ s = Slot(loc[t].pid) /\ p = loc[t].pid
    BY <1>3
  <2> QED BY <2>1, BornEmpty
<1>4. CASE p = pipeId[s]
  <2>1. Slot(p) = s /\ IsMatch(p) /\ pipe[s].depth = Load(p) /\ Load(p) \in Nat
    BY <1>2, <1>4, BusStepFacts, LoadTyped
       DEF Holding, SlotsIndexed, IsMatch, DepthExact, Used, Load
  <2>2. CASE Calm(p)
    BY <2>1, <2>2, <1>2, LoadCalm DEF Calm
  <2>3. ASSUME NEW t \in Actors, SentTo(t, p)
        PROVE  pipe'[s].depth = pipe[s].depth + 1
    BY <1>2, <2>1, <2>3 DEF SentTo, Sent
  <2>4. ASSUME NEW t \in Actors, TookFrom(t, p)
        PROVE  pipe'[s].depth = pipe[s].depth
    BY <2>4 DEF TookFrom, Took
  <2>5. ASSUME NEW t \in Actors, HandedFrom(t, p), Load(p) >= 1
        PROVE  pipe'[s].depth = pipe[s].depth - 1
    BY <2>1, <2>5 DEF HandedFrom, Handed
  <2> QED BY <1>2, <2>1, <2>2, <2>3, <2>4, <2>5, CalmUnless, BusStepFacts,
             LoadSent, LoadTook, LoadHanded
<1> QED BY <1>1, <1>3, <1>4, BornOrSame

(* A destination is new, or was there before.                               *)
LEMMA SubscribedOrSame ==
  ASSUME BusStep, NEW m \in Msgs, NEW p \in subs'[m], p \notin subs[m]
  PROVE  \E t \in Actors : Subscribed(t, m, p)
<1>1. CASE CleanUpForm
  BY <1>1 DEF CleanUpForm, Begun, Listed, Reclaimed, Ended, Skipped, Killed
<1>2. ASSUME NEW t \in Actors, Passes(t) PROVE FALSE
  BY <1>2 DEF Passes
<1>3. ASSUME NEW t \in Actors, PipeForm(t)
      PROVE  Subscribed(t, m, p)
  <2>1. CASE \E k \in Msgs, pid \in PipeIds : Subscribed(t, k, pid)
    <3>1. PICK k \in Msgs, pid \in PipeIds : Subscribed(t, k, pid)
      BY <2>1
    <3>2. k = m /\ pid = p
      <4>1. subs'[m] = IF m = k THEN subs[m] \cup {pid} ELSE subs[m]
        BY <3>1 DEF Subscribed
      <4> QED BY <4>1
    <3> QED BY <3>1, <3>2
  <2>2. CASE \E k \in Msgs, pid \in PipeIds : Unsubscribed(t, k, pid)
    BY <2>2 DEF Unsubscribed
  <2>3. CASE \E pid \in PipeIds : Reserved(t, pid) \/ Unpublished(t, pid)
    BY <2>3 DEF Reserved, Unpublished
  <2>4. CASE \/ QueueMade(t) \/ Published(t) \/ Withdrawn(t) \/ Drained(t)
             \/ DrainTook(t) \/ DrainEnded(t) \/ QueueDeleted(t) \/ SlotFreed(t)
    BY <2>4 DEF QueueMade, Published, Withdrawn, Drained, DrainTook, DrainEnded,
                QueueDeleted, SlotFreed
  <2> QED BY <1>3, <2>1, <2>2, <2>3, <2>4 DEF PipeForm
<1>4. ASSUME NEW t \in Actors, BufferForm(t) PROVE FALSE
  BY Zenon, <1>4 DEF BufferForm, Sent, Polled, Took, Handed, Lost, TookNothing, Refused,
     Filling, Issues, Claimed, GivenBack, Validated
<1> QED BY <1>1, <1>2, <1>3, <1>4, BusStepFacts DEF StepForm

(* How the count of a destination changes with what is on its pipe.         *)
LEMMA CountStep ==
  ASSUME BusStep, NEW m \in Msgs, NEW p \in PipeIds, p \in subs[m], p \in subs'[m]
  PROVE  /\ dst'[m][p].lim = dst[m][p].lim
         /\ \/ dst'[m][p].count = dst[m][p].count /\ LoadOf(m, p)' = LoadOf(m, p)
            \/ /\ dst'[m][p].count = dst[m][p].count + 1
               /\ LoadOf(m, p)' = LoadOf(m, p) + 1 /\ dst[m][p].count < dst[m][p].lim
            \/ /\ dst'[m][p].count = IF dst[m][p].count > 0 THEN dst[m][p].count - 1
                                                            ELSE dst[m][p].count
               /\ LoadOf(m, p)' = LoadOf(m, p) - 1 /\ LoadOf(m, p) >= 1
<1>1. IsMatch(p) /\ LoadOf(m, p) \in Nat
  BY BusStepFacts, PipeFacts, LoadTyped
<1>2. CASE Calm(p)
  BY <1>2, LoadCalm DEF Calm
<1>3. ASSUME NEW t \in Actors, SentTo(t, p)
      PROVE  /\ dst'[m][p].lim = dst[m][p].lim
             /\ \/ dst'[m][p].count = dst[m][p].count /\ LoadOf(m, p)' = LoadOf(m, p)
                \/ /\ dst'[m][p].count = dst[m][p].count + 1
                   /\ LoadOf(m, p)' = LoadOf(m, p) + 1 /\ dst[m][p].count < dst[m][p].lim
  <2>1. LoadOf(m, p)' = LoadOf(m, p) + Ind(loc[t].msg, m)
    BY <1>3, LoadSent
  <2> QED BY <1>1, <1>3, <2>1 DEF SentTo, Sent, Ind
<1>4. ASSUME NEW t \in Actors, TookFrom(t, p)
      PROVE  dst'[m][p] = dst[m][p] /\ LoadOf(m, p)' = LoadOf(m, p)
  BY <1>4, LoadTook DEF TookFrom, Took
<1>5. ASSUME NEW t \in Actors, HandedFrom(t, p)
      PROVE  /\ dst'[m][p].lim = dst[m][p].lim
             /\ \/ dst'[m][p].count = dst[m][p].count /\ LoadOf(m, p)' = LoadOf(m, p)
                \/ /\ dst'[m][p].count = IF dst[m][p].count > 0 THEN dst[m][p].count - 1
                                                                ELSE dst[m][p].count
                   /\ LoadOf(m, p)' = LoadOf(m, p) - 1 /\ LoadOf(m, p) >= 1
  <2>1. PICK k : k = desc[loc[t].buf].msg
    OBVIOUS
  <2>2. LoadOf(m, p)' = LoadOf(m, p) - Ind(k, m) /\ (k = m => LoadOf(m, p) >= 1)
    BY <1>5, <2>1, LoadHanded
  <2>3. /\ dst'[m][p].lim = dst[m][p].lim
        /\ dst'[m][p].count = IF m = k /\ dst[m][p].count > 0
                                THEN dst[m][p].count - 1 ELSE dst[m][p].count
    BY <1>5, <2>1 DEF HandedFrom, Handed
  <2> QED BY <1>1, <2>2, <2>3 DEF Ind
<1> QED BY <1>1, <1>2, <1>3, <1>4, <1>5, CalmUnless, BusStepFacts

LEMMA CountTypes ==
  ASSUME Typed, NEW m \in Msgs, NEW p \in PipeIds
  PROVE  dst[m][p].count \in Nat /\ dst[m][p].lim \in Nat
  BY DEF Typed, TypeOK, DestRecord

LEMMA LimitsKept ==
  ASSUME BusStep, LimitNotOvercounted
  PROVE  LimitNotOvercounted'
<1>1. SUFFICES ASSUME NEW m \in Msgs, NEW p \in subs'[m]
               PROVE  dst'[m][p].count <= LoadOf(m, p)'
  BY DEF LimitNotOvercounted, LoadOf
<1>2. p \in PipeIds
  BY BusStepFacts DEF Typed, TypeOK
<1>3. CASE p \in subs[m]
  <2>1. dst[m][p].count <= LoadOf(m, p)
    BY <1>3 DEF LimitNotOvercounted, LoadOf
  <2>2. dst[m][p].count \in Nat /\ dst[m][p].lim \in Nat /\ LoadOf(m, p) \in Nat
    BY <1>2, CountTypes, LoadTyped, BusStepFacts
  <2>3. \/ dst'[m][p].count = dst[m][p].count /\ LoadOf(m, p)' = LoadOf(m, p)
        \/ dst'[m][p].count = dst[m][p].count + 1 /\ LoadOf(m, p)' = LoadOf(m, p) + 1
        \/ /\ dst'[m][p].count = IF dst[m][p].count > 0 THEN dst[m][p].count - 1
                                                        ELSE dst[m][p].count
           /\ LoadOf(m, p)' = LoadOf(m, p) - 1 /\ LoadOf(m, p) >= 1
    BY <1>2, <1>3, CountStep
  <2> QED BY <2>1, <2>2, <2>3
<1>4. CASE p \notin subs[m]
  <2>1. PICK t \in Actors : Subscribed(t, m, p)
    BY <1>4, SubscribedOrSame
  <2>2. dst'[m][p].count = 0 /\ queue' = queue /\ loc' = loc /\ desc' = desc
    BY <1>2, <2>1 DEF Subscribed
  <2>3. LoadOf(m, p)' = LoadOf(m, p)
    BY <2>2 DEF LoadOf, OnPipe, InFlightOf, InFlight
  <2> QED BY <1>2, <2>2, <2>3, LoadTyped, BusStepFacts
<1> QED BY <1>3, <1>4

(* The statistics, one field at a time.                                     *)
DelPCs == {"del_drain", "del_queue", "del_end"}
UsedSlots == {s \in Slots : Used(s)}
Deleters == {t \in Actors : loc[t].pc \in DelPCs}
Dests == {d \in Msgs \X PipeIds : d[2] \in subs[d[1]]}
Taken == {b \in Buffers : Allocated(b)}
PipesExact == stat.pipes = Cardinality(UsedSlots) + Cardinality(Deleters)
SubsExact == stat.subs = Cardinality(Dests)
BufsExact == stat.bufs = Cardinality(Taken)
Bit(P) == IF P THEN 1 ELSE 0

LEMMA StatTyped ==
  ASSUME Typed
  PROVE  /\ stat \in [pipes : Int, subs : Int, bufs : Int]
         /\ stat.pipes \in Int /\ stat.subs \in Int /\ stat.bufs \in Int
         /\ \A n : LET r == [stat EXCEPT !.pipes = n]
                   IN  r.pipes = n /\ r.subs = stat.subs /\ r.bufs = stat.bufs
         /\ \A n : LET r == [stat EXCEPT !.subs = n]
                   IN  r.subs = n /\ r.pipes = stat.pipes /\ r.bufs = stat.bufs
         /\ \A n : LET r == [stat EXCEPT !.bufs = n]
                   IN  r.bufs = n /\ r.pipes = stat.pipes /\ r.subs = stat.subs
  BY DEF Typed, TypeOK

LEMMA PipesStill ==
  ASSUME PipesExact, \A s \in Slots : Used(s)' <=> Used(s), stat'.pipes = stat.pipes,
         \A u \in Actors : loc'[u].pc \in DelPCs <=> loc[u].pc \in DelPCs
  PROVE  PipesExact'
<1>1. UsedSlots' = UsedSlots /\ Deleters' = Deleters
  BY DEF UsedSlots, Deleters
<1> QED BY <1>1 DEF PipesExact

(* One slot and one task change.                                            *)
LEMMA PipesMoved ==
  ASSUME Typed, NEW s \in Slots, \A r \in Slots : r # s => pipeId'[r] = pipeId[r],
         NEW t \in Actors, Others(t)
  PROVE  /\ Cardinality(UsedSlots)' = Cardinality(UsedSlots) - Bit(Used(s)) + Bit(Used(s)')
         /\ Cardinality(Deleters)' = Cardinality(Deleters)
               - Bit(loc[t].pc \in DelPCs) + Bit(loc'[t].pc \in DelPCs)
         /\ Cardinality(UsedSlots) \in Nat /\ Cardinality(Deleters) \in Nat
<1>1. IsFiniteSet(UsedSlots) /\ IsFiniteSet(Deleters)
  BY ActorsFinite, FS_Subset DEF UsedSlots, Deleters
<1>2. /\ \A r : r # s => (r \in UsedSlots <=> r \in UsedSlots')
      /\ \A u : u # t => (u \in Deleters <=> u \in Deleters')
  BY DEF UsedSlots, Used, Deleters, Others
<1>3. /\ s \in UsedSlots <=> Used(s)
      /\ s \in UsedSlots' <=> Used(s)'
      /\ t \in Deleters <=> loc[t].pc \in DelPCs
      /\ t \in Deleters' <=> loc'[t].pc \in DelPCs
  BY DEF UsedSlots, Deleters
<1>4. /\ Cardinality(UsedSlots') = Cardinality(UsedSlots) - Bit(Used(s)) + Bit(Used(s)')
      /\ Cardinality(UsedSlots) \in Nat
  BY <1>1, <1>2, <1>3, CountDiff DEF Bit
<1>5. /\ Cardinality(Deleters') = Cardinality(Deleters)
               - Bit(loc[t].pc \in DelPCs) + Bit(loc'[t].pc \in DelPCs)
      /\ Cardinality(Deleters) \in Nat
  BY <1>1, <1>2, <1>3, CountDiff DEF Bit
<1> QED BY <1>4, <1>5

LEMMA PipesKept ==
  ASSUME BusStep, PipesExact
  PROVE  PipesExact'
<1>0. /\ Typed /\ Holding /\ Roles /\ StepForm /\ Cleaner \notin Tasks
      /\ \A u \in Tasks : u \in Actors
      /\ FREE \notin PipeIds /\ RESERVED \notin PipeIds /\ Cleaner \in Actors
  BY BusStepFacts, NamesAssumption DEF Tidy, Actors
<1>1. CASE CleanUpForm
  <2>1. \A s \in Slots : Used(s)' <=> Used(s)
    BY <1>1 DEF CleanUpForm, Begun, Listed, Reclaimed, Ended, Skipped, Killed, Used
  <2>2. \A u \in Actors : loc'[u].pc \in DelPCs <=> loc[u].pc \in DelPCs
    BY <1>0, <1>1 DEF CleanUpForm, Begun, Listed, Reclaimed, Ended, Skipped, Killed,
                      Rests, Others, DelPCs
  <2>3. stat'.pipes = stat.pipes
    BY <1>0, <1>1, StatTyped
       DEF CleanUpForm, Begun, Listed, Reclaimed, Ended, Skipped, Killed
  <2> QED BY <2>1, <2>2, <2>3, PipesStill
<1>2. ASSUME NEW t \in Actors, Passes(t) PROVE PipesExact'
  <2>1. \A u \in Actors : loc'[u].pc \in DelPCs <=> loc[u].pc \in DelPCs
    BY <1>2 DEF Passes, Others, Passing, DelPCs
  <2>2. stat'.pipes = stat.pipes /\ \A s \in Slots : Used(s)' <=> Used(s)
    BY <1>2 DEF Passes, Used
  <2> QED BY <2>1, <2>2, PipesStill
<1>3. ASSUME NEW t \in Actors, PipeForm(t) PROVE PipesExact'
  <2>0. Reserving(t) => /\ loc[t].pid \in PipeIds /\ Slot(loc[t].pid) \in Slots
                        /\ pipeId[Slot(loc[t].pid)] = RESERVED
    BY <1>0, ReserveFacts
  <2>1. CASE \E pid \in PipeIds : Reserved(t, pid)
    <3>1. PICK pid \in PipeIds : Reserved(t, pid)
      BY <2>1
    <3>2. stat' = stat /\ loc[t].pc \notin DelPCs /\ loc'[t].pc \notin DelPCs /\ Others(t)
      BY <3>1 DEF Reserved, DelPCs
    <3>3. \A s \in Slots : Used(s)' <=> Used(s)
      BY <1>0, <3>1, SlotInRange DEF Reserved, Used
    <3> QED BY <3>2, <3>3, PipesStill DEF Others
  <2>2. CASE Published(t)
    <3>1. PICK s : s = Slot(loc[t].pid)
      OBVIOUS
    <3>2. /\ s \in Slots /\ ~Used(s) /\ Used(s)'
          /\ \A r \in Slots : r # s => pipeId'[r] = pipeId[r]
          /\ loc[t].pc \notin DelPCs /\ loc'[t].pc \notin DelPCs /\ Others(t)
      BY <1>0, <2>0, <2>2, <3>1 DEF Published, Reserving, Rests, DelPCs, Used
    <3>3. stat'.pipes = stat.pipes + 1
      BY <1>0, <2>2, StatTyped DEF Published
    <3> QED BY <1>0, <3>2, <3>3, PipesMoved, StatTyped DEF PipesExact, Bit
  <2>3. CASE Withdrawn(t)
    <3>1. /\ Slot(loc[t].pid) \in Slots /\ pipeId[Slot(loc[t].pid)] = RESERVED
          /\ loc[t].pc \notin DelPCs /\ loc'[t].pc \notin DelPCs /\ Others(t)
      BY <2>0, <2>3 DEF Withdrawn, Reserving, Rests, DelPCs
    <3>2. \A s \in Slots : Used(s)' <=> Used(s)
      BY <1>0, <2>3, <3>1 DEF Withdrawn, Used
    <3> QED BY <2>3, <3>1, <3>2, PipesStill DEF Others, Withdrawn
  <2>4. CASE \E pid \in PipeIds : Unpublished(t, pid)
    <3>1. PICK pid \in PipeIds : Unpublished(t, pid)
      BY <2>4
    <3>2. PICK s \in Slots : s = Slot(pid)
      BY SlotInRange
    <3>3. /\ Used(s) /\ ~Used(s)' /\ \A r \in Slots : r # s => pipeId'[r] = pipeId[r]
          /\ loc[t].pc \notin DelPCs /\ loc'[t].pc \in DelPCs /\ Others(t)
      BY <1>0, <3>1, <3>2 DEF Unpublished, IsMatch, Used, DelPCs, Runs
    <3>4. stat'.pipes = stat.pipes
      BY <1>0, <3>1, StatTyped DEF Unpublished
    <3> QED BY <1>0, <3>3, <3>4, PipesMoved, StatTyped DEF PipesExact, Bit
  <2>5. CASE SlotFreed(t)
    <3>1. PICK s : s = Slot(loc[t].pid)
      OBVIOUS
    <3>2. /\ s \in Slots /\ ~Used(s) /\ ~Used(s)'
          /\ \A r \in Slots : r # s => pipeId'[r] = pipeId[r]
          /\ loc[t].pc \in DelPCs /\ loc'[t].pc \notin DelPCs /\ Others(t)
      BY <1>0, <2>0, <2>5, <3>1 DEF SlotFreed, Reserving, DelPCs, Used
    <3>3. stat'.pipes = stat.pipes - 1
      BY <1>0, <2>5, StatTyped DEF SlotFreed
    <3> QED BY <1>0, <3>2, <3>3, PipesMoved, StatTyped DEF PipesExact, Bit
  <2>6. CASE QueueMade(t) \/ Drained(t) \/ DrainTook(t) \/ DrainEnded(t) \/ QueueDeleted(t)
    <3>1. pipeId' = pipeId /\ Others(t) /\ (loc'[t].pc \in DelPCs <=> loc[t].pc \in DelPCs)
      BY <2>6 DEF QueueMade, Drained, DrainTook, DrainEnded, QueueDeleted, DelPCs
    <3>2. stat'.pipes = stat.pipes
      BY <1>0, <2>6, StatTyped
         DEF QueueMade, Drained, DrainTook, DrainEnded, QueueDeleted, Drops
    <3> QED BY <3>1, <3>2, PipesStill DEF Others, Used
  <2>7. CASE \E m \in Msgs, pid \in PipeIds : Subscribed(t, m, pid) \/ Unsubscribed(t, m, pid)
    <3>1. pipeId' = pipeId /\ loc' = loc /\ stat'.pipes = stat.pipes
      BY <1>0, <2>7, StatTyped DEF Subscribed, Unsubscribed
    <3> QED BY <3>1, PipesStill DEF Used
  <2> QED BY <1>3, <2>1, <2>2, <2>3, <2>4, <2>5, <2>6, <2>7 DEF PipeForm
<1>4. ASSUME NEW t \in Actors, BufferForm(t) PROVE PipesExact'
  <2>1. pipeId' = pipeId
    BY Zenon, <1>4 DEF BufferForm, Sent, Polled, Took, Handed, Lost, TookNothing, Refused,
         Filling, Issues, Claimed, GivenBack, Validated
  <2>2. \A u \in Actors : loc'[u].pc \in DelPCs <=> loc[u].pc \in DelPCs
    BY Zenon, <1>4 DEF BufferForm, Sent, Polled, Took, Handed, Lost, TookNothing, Refused,
         Filling, Issues, Claimed, GivenBack, Validated, Rests, Others, Runs, DelPCs
  <2>3. stat'.pipes = stat.pipes
    BY Zenon, <1>0, <1>4, StatTyped DEF BufferForm, Sent, Polled, Took, Handed, Lost,
         TookNothing, Refused, Filling, Issues, Claimed, GivenBack, Validated, Drops
  <2> QED BY <2>1, <2>2, <2>3, PipesStill DEF Used
<1> QED BY <1>0, <1>1, <1>2, <1>3, <1>4 DEF StepForm

LEMMA DestsFinite ==
  ASSUME Typed
  PROVE  IsFiniteSet(Dests) /\ Cardinality(Dests) \in Nat
<1>1. IsFiniteSet(Msgs \X PipeIds)
  BY PipeIdsFinite, SizesAssumption, FS_Product
<1> QED BY <1>1, FS_Subset, FS_CardinalityType DEF Dests

LEMMA SubsStill ==
  ASSUME SubsExact, \A m \in Msgs : subs'[m] = subs[m], stat'.subs = stat.subs
  PROVE  SubsExact'
<1>1. Dests' = Dests
  BY DEF Dests
<1> QED BY <1>1 DEF SubsExact

(* One destination comes or goes.                                           *)
LEMMA SubsMoved ==
  ASSUME Typed, SubsExact, NEW m \in Msgs, NEW p \in PipeIds,
         \A k \in Msgs : subs'[k] = subs[k] \/ k = m,
         \A q \in PipeIds : q # p => (q \in subs'[m] <=> q \in subs[m]),
         stat'.subs = stat.subs - Bit(p \in subs[m]) + Bit(p \in subs'[m])
  PROVE  SubsExact'
<1> DEFINE d == <<m, p>>
<1>1. \A e : e # d => (e \in Dests <=> e \in Dests')
  BY DEF Dests
<1>2. (d \in Dests <=> p \in subs[m]) /\ (d \in Dests' <=> p \in subs'[m])
  BY DEF Dests
<1>3. Cardinality(Dests') = Cardinality(Dests) - Bit(p \in subs[m]) + Bit(p \in subs'[m])
  BY <1>1, <1>2, DestsFinite, CountDiff DEF Bit
<1> QED BY <1>3, DestsFinite DEF SubsExact, Bit

(* A pipe goes with all its destinations.                                   *)
LEMMA SubsRemoved ==
  ASSUME Typed, SubsExact, NEW p \in PipeIds,
         \A m \in Msgs : subs'[m] = subs[m] \ {p},
         stat'.subs = stat.subs - Cardinality({m \in Msgs : p \in subs[m]})
  PROVE  SubsExact'
<1> DEFINE M == {m \in Msgs : p \in subs[m]}
           X == M \X {p}
<1>1. IsFiniteSet(M) /\ Cardinality(M) \in Nat
  BY SizesAssumption, FS_Subset, FS_CardinalityType
<1>2. Cardinality(X) = Cardinality(M)
  <2> HIDE DEF M
  <2>1. IsFiniteSet({p}) /\ Cardinality({p}) = 1
    BY FS_Singleton
  <2>2. Cardinality(X) = Cardinality(M) * Cardinality({p})
    BY <1>1, <2>1, FS_Product
  <2> QED BY <1>1, <2>1, <2>2
<1>3. Dests' = Dests \ X
  BY DEF Dests
<1>4. Dests \cap X = X
  BY DEF Dests
<1> HIDE DEF X
<1>5. Cardinality(Dests \ X) = Cardinality(Dests) - Cardinality(X)
  <2>1. Cardinality(Dests \ X) = Cardinality(Dests) - Cardinality(Dests \cap X)
    BY DestsFinite, FS_Difference
  <2> QED BY <1>4, <2>1
<1> QED BY <1>2, <1>3, <1>5 DEF SubsExact

LEMMA SubsKept ==
  ASSUME BusStep, SubsExact
  PROVE  SubsExact'
<1>0. Typed /\ StepForm /\ subs \in [Msgs -> SUBSET PipeIds]
  BY BusStepFacts DEF Typed, TypeOK
<1>1. CASE CleanUpForm
  <2>1. subs' = subs
    BY <1>1 DEF CleanUpForm, Begun, Listed, Reclaimed, Ended, Skipped, Killed
  <2>2. stat'.subs = stat.subs
    BY <1>0, <1>1, StatTyped
       DEF CleanUpForm, Begun, Listed, Reclaimed, Ended, Skipped, Killed
  <2> QED BY <2>1, <2>2, SubsStill
<1>2. ASSUME NEW t \in Actors, Passes(t) PROVE SubsExact'
  BY <1>2, SubsStill DEF Passes
<1>3. ASSUME NEW t \in Actors, PipeForm(t) PROVE SubsExact'
  <2>1. CASE \E pid \in PipeIds : Unpublished(t, pid)
    <3>1. PICK pid \in PipeIds : Unpublished(t, pid)
      BY <2>1
    <3>2. stat'.subs = stat.subs - Cardinality({m \in Msgs : pid \in subs[m]})
      BY <1>0, <3>1, StatTyped DEF Unpublished
    <3> QED BY <1>0, <3>1, <3>2, SubsRemoved DEF Unpublished
  <2>2. CASE \E m \in Msgs, pid \in PipeIds : Subscribed(t, m, pid)
    <3>1. PICK m \in Msgs, pid \in PipeIds : Subscribed(t, m, pid)
      BY <2>2
    <3>2. stat'.subs = stat.subs + 1 /\ stat.subs \in Int
      BY <1>0, <3>1, StatTyped DEF Subscribed
    <3>3. pid \notin subs[m] /\ subs'[m] = subs[m] \cup {pid}
          /\ \A k \in Msgs : subs'[k] = subs[k] \/ k = m
      BY <3>1 DEF Subscribed
    <3>4. stat'.subs = stat.subs - Bit(pid \in subs[m]) + Bit(pid \in subs'[m])
      BY <3>2, <3>3 DEF Bit
    <3> QED BY <1>0, <3>3, <3>4, SubsMoved
  <2>3. CASE \E m \in Msgs, pid \in PipeIds : Unsubscribed(t, m, pid)
    <3>1. PICK m \in Msgs, pid \in PipeIds : Unsubscribed(t, m, pid)
      BY <2>3
    <3>2. stat'.subs = stat.subs - 1 /\ stat.subs \in Int
      BY <1>0, <3>1, StatTyped DEF Unsubscribed
    <3>3. pid \in subs[m] /\ subs'[m] = subs[m] \ {pid}
          /\ \A k \in Msgs : subs'[k] = subs[k] \/ k = m
      BY <3>1 DEF Unsubscribed
    <3>4. stat'.subs = stat.subs - Bit(pid \in subs[m]) + Bit(pid \in subs'[m])
      BY <3>2, <3>3 DEF Bit
    <3> QED BY <1>0, <3>3, <3>4, SubsMoved
  <2>4. CASE \/ \E pid \in PipeIds : Reserved(t, pid)
             \/ QueueMade(t) \/ Published(t) \/ Withdrawn(t) \/ Drained(t)
             \/ DrainTook(t) \/ DrainEnded(t) \/ QueueDeleted(t) \/ SlotFreed(t)
    <3>1. subs' = subs
      BY <2>4 DEF Reserved, QueueMade, Published, Withdrawn, Drained, DrainTook,
                  DrainEnded, QueueDeleted, SlotFreed
    <3>2. stat'.subs = stat.subs
      BY <1>0, <2>4, StatTyped
         DEF Reserved, QueueMade, Published, Withdrawn, Drained, DrainTook,
             DrainEnded, QueueDeleted, SlotFreed, Drops
    <3> QED BY <3>1, <3>2, SubsStill
  <2> QED BY <1>3, <2>1, <2>2, <2>3, <2>4 DEF PipeForm
<1>4. ASSUME NEW t \in Actors, BufferForm(t) PROVE SubsExact'
  <2>1. subs' = subs
    BY Zenon, <1>4 DEF BufferForm, Sent, Polled, Took, Handed, Lost, TookNothing, Refused,
         Filling, Issues, Claimed, GivenBack, Validated
  <2>2. stat'.subs = stat.subs
    BY Zenon, <1>0, <1>4, StatTyped DEF BufferForm, Sent, Polled, Took, Handed, Lost,
         TookNothing, Refused, Filling, Issues, Claimed, GivenBack, Validated, Drops
  <2> QED BY <2>1, <2>2, SubsStill
<1> QED BY <1>0, <1>1, <1>2, <1>3, <1>4 DEF StepForm

LEMMA TakenFinite == IsFiniteSet(Taken) /\ Cardinality(Taken) \in Nat
BY SizesAssumption, FS_Subset, FS_CardinalityType DEF Taken

LEMMA BufsStill ==
  ASSUME BufsExact, \A b \in Buffers : desc'[b].use = desc[b].use, stat'.bufs = stat.bufs
  PROVE  BufsExact'
<1>1. Taken' = Taken
  BY DEF Taken, Allocated
<1> QED BY <1>1 DEF BufsExact

LEMMA BufsMoved ==
  ASSUME Typed, BufsExact, NEW x \in Buffers,
         \A b \in Buffers : b # x => desc'[b] = desc[b],
         stat'.bufs = stat.bufs - Bit(desc[x].use > 0) + Bit(desc'[x].use > 0)
  PROVE  BufsExact'
<1>1. \A e : e # x => (e \in Taken <=> e \in Taken')
  BY DEF Taken, Allocated
<1>2. (x \in Taken <=> desc[x].use > 0) /\ (x \in Taken' <=> desc'[x].use > 0)
  BY DEF Taken, Allocated
<1>3. Cardinality(Taken') = Cardinality(Taken) - Bit(desc[x].use > 0) + Bit(desc'[x].use > 0)
  BY <1>1, <1>2, TakenFinite, CountDiff DEF Bit
<1> QED BY <1>3, TakenFinite DEF BufsExact, Bit

(* A step that only gives buffers back to the pool.                         *)
LEMMA BufsFreed ==
  ASSUME Typed, Typed', BufsExact,
         \A b \in Buffers : desc'[b].use > 0 => desc[b].use > 0,
         stat' = [stat EXCEPT !.bufs = @ -
                   Cardinality({c \in Buffers : desc[c].use > 0 /\ desc'[c].use = 0})]
  PROVE  BufsExact'
<1> DEFINE F == {c \in Buffers : desc[c].use > 0 /\ desc'[c].use = 0}
<1>1. \A b \in Buffers : desc'[b].use \in Nat /\ desc[b].use \in Nat
  BY DEF Typed, TypeOK, DescRecord
<1>2. Taken' = Taken \ F
  BY <1>1 DEF Taken, Allocated
<1>3. Taken \cap F = F
  BY DEF Taken, Allocated
<1>4. stat'.bufs = stat.bufs - Cardinality(F)
  BY StatTyped
<1> HIDE DEF F
<1>5. Cardinality(Taken \ F) = Cardinality(Taken) - Cardinality(F)
  BY <1>3, TakenFinite, FS_Difference
<1> QED BY <1>2, <1>4, <1>5 DEF BufsExact

LEMMA BufsDropped ==
  ASSUME Typed, BufsExact, NEW x \in Buffers, Drops(x)
  PROVE  BufsExact'
<1>1. desc[x] \in DescRecord /\ desc[x].use \in Nat
  BY DescFields
<1>2. desc'[x] = Decr(desc[x]) /\ \A b \in Buffers : b # x => desc'[b] = desc[b]
  BY DEF Drops
<1>3. desc'[x].use > 0 <=> desc[x].use > 1
  BY <1>1, <1>2 DEF Decr, FreeDesc, DescRecord
<1>4. stat'.bufs = stat.bufs - IF desc[x].use = 1 THEN 1 ELSE 0
  BY StatTyped DEF Drops
<1>5. stat'.bufs = stat.bufs - Bit(desc[x].use > 0) + Bit(desc'[x].use > 0)
  BY <1>1, <1>3, <1>4, StatTyped DEF Bit
<1> QED BY <1>2, <1>5, BufsMoved

LEMMA BufsKept ==
  ASSUME BusStep, BufsExact
  PROVE  BufsExact'
<1>0. Typed /\ Typed' /\ StepForm /\ Counted /\ Holders /\ Quiet
  BY BusStepFacts DEF Tidy
<1>1. CASE CleanUpForm
  <2>1. CASE Reclaimed
    <3>1. \A b \in Buffers : desc'[b].use > 0 => desc[b].use > 0
      <4> TAKE b \in Buffers
      <4>1. Decr(desc[b]).use > 0 => desc[b].use > 0
        BY <1>0, DescFields DEF Decr, FreeDesc
      <4> QED BY <2>1, <4>1 DEF Reclaimed
    <3> QED BY <1>0, <2>1, <3>1, BufsFreed DEF Reclaimed
  <2>2. CASE ~Reclaimed
    <3>1. desc' = desc /\ stat' = stat
      BY <1>1, <2>2 DEF CleanUpForm, Begun, Listed, Ended, Skipped, Killed
    <3> QED BY <3>1, BufsStill
  <2> QED BY <2>1, <2>2
<1>2. ASSUME NEW t \in Actors, Passes(t) PROVE BufsExact'
  BY <1>2, BufsStill DEF Passes
<1>3. ASSUME NEW t \in Actors, PipeForm(t) PROVE BufsExact'
  <2>1. CASE Drained(t)
    BY <1>0, <2>1, DroppedFacts, BufsDropped
  <2>2. CASE ~Drained(t)
    <3>1. desc' = desc
      BY <1>3, <2>2 DEF PipeForm, Reserved, QueueMade, Published, Withdrawn, Unpublished,
         DrainTook, DrainEnded, QueueDeleted, SlotFreed, Subscribed, Unsubscribed
    <3>2. stat'.bufs = stat.bufs
      BY <1>0, <1>3, <2>2, StatTyped
         DEF PipeForm, Reserved, QueueMade, Published, Withdrawn, Unpublished,
             DrainTook, DrainEnded, QueueDeleted, SlotFreed, Subscribed, Unsubscribed
    <3> QED BY <3>1, <3>2, BufsStill
  <2> QED BY <2>1, <2>2
<1>4. ASSUME NEW t \in Actors, BufferForm(t) PROVE BufsExact'
  <2>1. CASE \E x \in Buffers : Filling(t, x) \/ Issues(t, x)
    <3>1. PICK x \in Buffers : Filling(t, x) \/ Issues(t, x)
      BY <2>1
    <3>2. desc'[x].use = 1 /\ desc[x].use = 0 /\ \A b \in Buffers : b # x => desc'[b] = desc[b]
      BY <1>0, <3>1, DescFields DEF Filling, Issues, FreshDesc, FreeDesc
    <3>3. stat'.bufs = stat.bufs + 1 /\ stat.bufs \in Int
      BY <1>0, <3>1, StatTyped DEF Filling, Issues
    <3>4. stat'.bufs = stat.bufs - Bit(desc[x].use > 0) + Bit(desc'[x].use > 0)
      BY <3>2, <3>3 DEF Bit
    <3> QED BY <1>0, <3>2, <3>4, BufsMoved
  <2>2. CASE \E sent \in SUBSET PipeIds : Sent(t, sent)
    <3>1. PICK sent \in SUBSET PipeIds : Sent(t, sent)
      BY <2>2
    <3>2. desc[loc[t].buf].use = 1
      BY <1>0, <3>1, SentBuffer
    <3>3. \A b \in Buffers : desc'[b].use > 0 => desc[b].use > 0
      BY <3>1, <3>2 DEF Sent
    <3> QED BY <1>0, <3>1, <3>3, BufsFreed DEF Sent
  <2>3. CASE Handed(t)
    <3>1. \A b \in Buffers : desc'[b] = desc[b]
      BY <1>0, <2>3, HandedDesc
    <3> QED BY <1>0, <2>3, <3>1, BufsFreed DEF Handed
  <2>4. CASE GivenBack(t)
    <3>1. loc[t].buf \in Buffers /\ desc[loc[t].buf].use = 1
      BY <1>0, <2>4, Claims, NotReferred DEF GivenBack
    <3>2. \A b \in Buffers : desc'[b].use > 0 => desc[b].use > 0
      BY <2>4, <3>1 DEF GivenBack
    <3> QED BY <1>0, <2>4, <3>2, BufsFreed DEF GivenBack
  <2>5. CASE Lost(t)
    BY <1>0, <2>5, DroppedFacts, BufsDropped
  <2>6. CASE \E pid \in PipeIds : Polled(t, pid)
    <3>1. PICK pid \in PipeIds : Polled(t, pid)
      BY <2>6
    <3>2. CASE desc' = desc /\ stat' = stat
      BY <3>2, BufsStill
    <3>3. CASE Drops(pipe[Slot(pid)].last)
      BY <1>0, <3>3, BufsDropped DEF Drops
    <3> QED BY <3>1, <3>2, <3>3 DEF Polled
  <2>7. CASE Validated(t)
    <3>1. \A b \in Buffers : desc'[b].use = desc[b].use
      <4> TAKE b \in Buffers
      <4>1. desc[b] \in DescRecord
        BY <1>0, DescFields
      <4> QED BY <2>7, <4>1 DEF Validated, DescRecord
    <3> QED BY <2>7, <3>1, BufsStill DEF Validated
  <2>8. CASE Took(t) \/ TookNothing(t) \/ Refused(t) \/ Claimed(t)
    BY <2>8, BufsStill DEF Took, TookNothing, Refused, Claimed
  <2> QED BY <1>4, <2>1, <2>2, <2>3, <2>4, <2>5, <2>6, <2>7, <2>8 DEF BufferForm
<1> QED BY <1>0, <1>1, <1>2, <1>3, <1>4 DEF StepForm

-----------------------------------------------------------------------------
(* The counters of the bus.                                                 *)

LEMMA StatisticsParts ==
  StatisticsExact <=> PipesExact /\ SubsExact /\ BufsExact
BY DEF StatisticsExact, PipesExact, SubsExact, BufsExact, UsedSlots, Deleters, DelPCs,
       Dests, Taken

(* The counts of the bus, with what a sender filled in.                     *)
CountInv == Filled /\ LimitNotOvercounted /\ DepthExact /\ StatisticsExact

LEMMA InitCounts == Init => CountInv
<1> SUFFICES ASSUME Init PROVE CountInv
  OBVIOUS
<1>1. /\ \A s \in Slots : pipeId[s] = FREE
      /\ \A m \in Msgs : subs[m] = {}
      /\ \A b \in Buffers : desc[b].use = 0
      /\ \A t \in Actors : loc[t].pc = "idle"
      /\ stat.pipes = 0 /\ stat.subs = 0 /\ stat.bufs = 0
  BY DEF Init, FreeDesc, Idle
<1>2. Filled
  BY <1>1 DEF Filled, Sending, Actors
<1>3. LimitNotOvercounted
  BY <1>1 DEF LimitNotOvercounted
<1>4. DepthExact
  BY <1>1, NamesAssumption DEF DepthExact, Used
<1>5. UsedSlots = {} /\ Deleters = {} /\ Dests = {} /\ Taken = {}
  BY <1>1, NamesAssumption DEF UsedSlots, Used, Deleters, DelPCs, Dests, Taken, Allocated
<1>6. Cardinality({}) = 0
  BY FS_EmptySet
<1>7. StatisticsExact
  BY <1>1, <1>5, <1>6, StatisticsParts DEF PipesExact, SubsExact, BufsExact
<1> QED BY <1>2, <1>3, <1>4, <1>7 DEF CountInv

LEMMA StepCounts ==
  ASSUME Disciplined, BusInv, CountInv, [Next]_vars
  PROVE  CountInv' /\ BusStep
<1>1. BusInv' /\ StepForm
  BY StepBus
<1>2. BusStep
  BY <1>1 DEF BusStep, BusInv, CountInv
<1>3. Filled'
  BY <1>1, FilledKept DEF BusInv, CountInv, Cleaning
<1>4. LimitNotOvercounted' /\ DepthExact'
  BY <1>2, LimitsKept, DepthKept DEF CountInv
<1>5. PipesExact' /\ SubsExact' /\ BufsExact'
  BY <1>2, PipesKept, SubsKept, BufsKept, StatisticsParts DEF CountInv
<1>6. StatisticsExact'
  BY <1>5 DEF StatisticsExact, PipesExact, SubsExact, BufsExact, UsedSlots, Deleters, DelPCs,
              Dests, Taken
<1> QED BY <1>2, <1>3, <1>4, <1>6 DEF CountInv

LEMMA AlwaysCounts ==
  ASSUME Disciplined
  PROVE  Spec => [](BusInv /\ CountInv)
<1>1. Init => CountInv
  BY InitCounts
<1>2. BusInv /\ CountInv /\ [Next]_vars => CountInv'
  BY StepCounts
<1> QED BY <1>1, <1>2, AlwaysBus, PTL DEF Spec

(* Depths, statistics and limits agree with what is on its way, on a bus on *)
(* which subscriptions come and go.                                         *)
THEOREM CountersCorrect == Spec /\ Disciplined => []CountersExact
<1> SUFFICES ASSUME Disciplined PROVE Spec => []CountersExact
  OBVIOUS
<1>1. BusInv /\ CountInv => CountersExact
  BY DEF BusInv, Typed, CountInv, CountersExact
<1> QED BY <1>1, AlwaysCounts, PTL

-----------------------------------------------------------------------------
(* The limit of a subscription.  Unless subscriptions are removed while     *)
(* messages wait, BuffCount is exact: it counts the messages of the         *)
(* subscription, and nothing waits that nobody subscribed to.               *)
NoUnsubscribe == \A t \in Tasks : "Unsubscribe" \notin Calls[t]
LoadsExact ==
    \A m \in Msgs, p \in PipeIds : IsMatch(p) =>
       IF p \in subs[m] THEN /\ dst[m][p].count = LoadOf(m, p)
                             /\ dst[m][p].count <= dst[m][p].lim
                        ELSE LoadOf(m, p) = 0

LEMMA UnsubscribedOrSame ==
  ASSUME BusStep, NoUnsubscribe, NEW m \in Msgs, NEW p \in subs[m], p \notin subs'[m],
         p \in PipeIds
  PROVE  ~IsMatch(p)'
<1>1. CASE CleanUpForm
  BY <1>1 DEF CleanUpForm, Begun, Listed, Reclaimed, Ended, Skipped, Killed
<1>2. ASSUME NEW t \in Actors, Passes(t) PROVE FALSE
  BY <1>2 DEF Passes
<1>3. ASSUME NEW t \in Actors, PipeForm(t) PROVE ~IsMatch(p)'
  <2>1. CASE \E pid \in PipeIds : Unpublished(t, pid)
    <3>1. PICK pid \in PipeIds : Unpublished(t, pid)
      BY <2>1
    <3>2. subs'[m] = subs[m] \ {pid}
      BY <3>1 DEF Unpublished
    <3>3. p = pid
      BY <3>2
    <3>4. pipeId'[Slot(p)] = RESERVED
      BY <3>1, <3>3, SlotInRange DEF Unpublished
    <3> QED BY <3>4, NamesAssumption DEF IsMatch
  <2>2. CASE \E k \in Msgs, pid \in PipeIds : Unsubscribed(t, k, pid)
    BY <2>2 DEF Unsubscribed, NoUnsubscribe
  <2>3. CASE \E k \in Msgs, pid \in PipeIds : Subscribed(t, k, pid)
    BY <2>3 DEF Subscribed
  <2>4. CASE \/ \E pid \in PipeIds : Reserved(t, pid)
             \/ QueueMade(t) \/ Published(t) \/ Withdrawn(t) \/ Drained(t)
             \/ DrainTook(t) \/ DrainEnded(t) \/ QueueDeleted(t) \/ SlotFreed(t)
    BY <2>4 DEF Reserved, QueueMade, Published, Withdrawn, Drained, DrainTook,
                DrainEnded, QueueDeleted, SlotFreed
  <2> QED BY <1>3, <2>1, <2>2, <2>3, <2>4 DEF PipeForm
<1>4. ASSUME NEW t \in Actors, BufferForm(t) PROVE FALSE
  BY Zenon, <1>4 DEF BufferForm, Sent, Polled, Took, Handed, Lost, TookNothing, Refused,
     Filling, Issues, Claimed, GivenBack, Validated
<1> QED BY <1>1, <1>2, <1>3, <1>4, BusStepFacts DEF StepForm

LEMMA LoadsKept ==
  ASSUME BusStep, NoUnsubscribe, LoadsExact
  PROVE  LoadsExact'
<1>1. SUFFICES ASSUME NEW m \in Msgs, NEW p \in PipeIds, IsMatch(p)'
               PROVE  IF p \in subs'[m] THEN /\ dst'[m][p].count = LoadOf(m, p)'
                                             /\ dst'[m][p].count <= dst'[m][p].lim
                                        ELSE LoadOf(m, p)' = 0
  BY DEF LoadsExact
<1>2. Slot(p) \in Slots /\ pipeId'[Slot(p)] = p /\ Used(Slot(p))'
  BY <1>1, SlotInRange DEF IsMatch, Used
<1>3. ASSUME NEW t \in Actors, Published(t), p = loc[t].pid
      PROVE  LoadOf(m, p)' = 0 /\ p \notin subs'[m]
  <2>1. LoadOf(m, p)' = 0
    BY <1>3, BornEmpty
  <2>2. Reserving(t) /\ subs' = subs
    BY <1>3 DEF Published, Reserving
  <2>3. ~IsMatch(p)
    BY <1>3, <2>2, BusStepFacts, ReserveFacts
  <2> QED BY <2>1, <2>2, <2>3, BusStepFacts, PipeFacts
<1>4. ASSUME IsMatch(p), p \in subs[m], p \in subs'[m]
      PROVE  dst'[m][p].count = LoadOf(m, p)' /\ dst'[m][p].count <= dst'[m][p].lim
  <2>1. dst[m][p].count = LoadOf(m, p) /\ dst[m][p].count <= dst[m][p].lim
    BY <1>4 DEF LoadsExact
  <2>2. dst[m][p].count \in Nat /\ dst[m][p].lim \in Nat /\ LoadOf(m, p) \in Nat
    BY CountTypes, LoadTyped, BusStepFacts
  <2>3. dst'[m][p].lim = dst[m][p].lim
    BY <1>4, CountStep
  <2>4. \/ dst'[m][p].count = dst[m][p].count /\ LoadOf(m, p)' = LoadOf(m, p)
        \/ /\ dst'[m][p].count = dst[m][p].count + 1
           /\ LoadOf(m, p)' = LoadOf(m, p) + 1 /\ dst[m][p].count < dst[m][p].lim
        \/ /\ dst'[m][p].count = IF dst[m][p].count > 0 THEN dst[m][p].count - 1
                                                        ELSE dst[m][p].count
           /\ LoadOf(m, p)' = LoadOf(m, p) - 1 /\ LoadOf(m, p) >= 1
    BY <1>4, CountStep
  <2> QED BY <2>1, <2>2, <2>3, <2>4
<1>5. ASSUME IsMatch(p), p \notin subs[m], p \in subs'[m]
      PROVE  dst'[m][p].count = LoadOf(m, p)' /\ dst'[m][p].count <= dst'[m][p].lim
  <2>1. PICK t \in Actors : Subscribed(t, m, p)
    BY <1>5, SubscribedOrSame
  <2>2. dst'[m][p].count = 0 /\ queue' = queue /\ loc' = loc /\ desc' = desc
    BY <2>1 DEF Subscribed
  <2>3. LoadOf(m, p)' = LoadOf(m, p)
    BY <2>2 DEF LoadOf, OnPipe, InFlightOf, InFlight
  <2>4. dst'[m][p].lim \in Nat
    BY BusStepFacts DEF Typed, TypeOK, DestRecord
  <2>5. LoadOf(m, p) = 0
    BY <1>5 DEF LoadsExact
  <2> QED BY <2>2, <2>3, <2>4, <2>5
<1>6. ASSUME IsMatch(p), p \notin subs[m]
      PROVE  LoadOf(m, p)' = 0
  <2>1. LoadOf(m, p) = 0
    BY <1>6 DEF LoadsExact
  <2>2. CASE Calm(p)
    BY <2>1, <2>2, LoadCalm
  <2>3. ASSUME NEW t \in Actors, SentTo(t, p) PROVE LoadOf(m, p)' = 0
    <3>1. loc[t].msg # m
      BY <1>6, <2>3 DEF SentTo, Sent
    <3>2. LoadOf(m, p)' = LoadOf(m, p) + Ind(loc[t].msg, m)
      BY <2>3, LoadSent
    <3> QED BY <2>1, <3>1, <3>2 DEF Ind
  <2>4. ASSUME NEW t \in Actors, TookFrom(t, p) PROVE LoadOf(m, p)' = 0
    BY <2>1, <2>4, LoadTook
  <2>5. ASSUME NEW t \in Actors, HandedFrom(t, p) PROVE LoadOf(m, p)' = 0
    <3>1. PICK k : k = desc[loc[t].buf].msg
      OBVIOUS
    <3>2. LoadOf(m, p)' = LoadOf(m, p) - Ind(k, m) /\ LoadOf(k, p) >= 1
      BY <2>5, <3>1, LoadHanded
    <3>3. k # m
      BY <2>1, <3>2
    <3>4. Ind(k, m) = 0
      BY <3>3 DEF Ind
    <3>5. LoadOf(m, p)' = LoadOf(m, p) - Ind(k, m)
      BY <3>2
    <3> QED BY <2>1, <3>4, <3>5
  <2> QED BY <1>6, <2>2, <2>3, <2>4, <2>5, CalmUnless, BusStepFacts
<1>7. CASE IsMatch(p)
  BY <1>1, <1>4, <1>5, <1>6, <1>7, UnsubscribedOrSame
<1>8. CASE ~IsMatch(p)
  <2>1. pipeId'[Slot(p)] # pipeId[Slot(p)]
    BY <1>2, <1>8 DEF IsMatch
  <2>2. \E t \in Actors : Published(t) /\ p = loc[t].pid
    BY <1>2, <2>1, BornOrSame
  <2> QED BY <1>3, <2>2
<1> QED BY <1>7, <1>8

(* No more than MsgLim messages of a subscription wait on its pipe.         *)
THEOREM MsgLimitCorrect == Spec /\ Disciplined /\ NoUnsubscribe => []MsgLimitKept
<1> SUFFICES ASSUME Disciplined, NoUnsubscribe PROVE Spec => []MsgLimitKept
  OBVIOUS
<1>1. Init => LoadsExact
  BY NamesAssumption, SlotInRange DEF Init, LoadsExact, IsMatch
<1>2. BusInv /\ CountInv /\ LoadsExact /\ [Next]_vars => LoadsExact'
  BY StepCounts, LoadsKept
<1>3. BusInv /\ LoadsExact => MsgLimitKept
  <2> SUFFICES ASSUME BusInv, LoadsExact, NEW m \in Msgs, NEW p \in subs[m]
               PROVE  OnPipe(m, p) <= dst[m][p].lim
    BY DEF MsgLimitKept
  <2>1. p \in PipeIds /\ IsMatch(p) /\ Typed
    BY PipeFacts DEF BusInv
  <2>2. dst[m][p].count = LoadOf(m, p) /\ dst[m][p].count <= dst[m][p].lim
    BY <2>1 DEF LoadsExact
  <2> QED BY <2>1, <2>2, LoadTyped, CountTypes DEF LoadOf
<1> QED BY <1>1, <1>2, <1>3, AlwaysCounts, PTL DEF Spec

-----------------------------------------------------------------------------
(* The abstract message bus: what waits on a pipe is a sequence of messages.*)

(* What waits on a pipe, as the abstract bus sees it: the messages of the   *)
(* buffers on its queue.                                                    *)
AnyMsg == Msgs \cup {NoMsg}
MessagesOf(s, d) == [i \in DOMAIN s |-> d[s[i]].msg]

LEMMA MessagesTyped ==
  ASSUME NEW s \in Seq(Buffers), NEW d \in [Buffers -> DescRecord]
  PROVE  /\ MessagesOf(s, d) \in Seq(AnyMsg) /\ Len(MessagesOf(s, d)) = Len(s)
         /\ Len(s) \in Nat /\ DOMAIN s = 1..Len(s) /\ \A i \in 1..Len(s) : s[i] \in Buffers
         /\ \A i \in 1..Len(s) : MessagesOf(s, d)[i] = d[s[i]].msg
<1>1. Len(s) \in Nat /\ DOMAIN s = 1..Len(s) /\ \A i \in 1..Len(s) : s[i] \in Buffers
  OBVIOUS
<1>2. \A b \in Buffers : d[b].msg \in AnyMsg
  BY DEF AnyMsg, DescRecord
<1>3. MessagesOf(s, d) \in [1..Len(s) -> AnyMsg]
  BY <1>1, <1>2 DEF MessagesOf
<1>4. MessagesOf(s, d) \in Seq(AnyMsg) /\ Len(MessagesOf(s, d)) = Len(s)
  BY <1>1, <1>3
<1>5. \A i \in 1..Len(s) : MessagesOf(s, d)[i] = d[s[i]].msg
  BY <1>1 DEF MessagesOf
<1> QED BY <1>1, <1>4, <1>5

LEMMA MessagesTail ==
  ASSUME NEW s \in Seq(Buffers), NEW d \in [Buffers -> DescRecord], s # <<>>
  PROVE  /\ MessagesOf(s, d) # <<>> /\ 1 \in 1..Len(MessagesOf(s, d))
         /\ MessagesOf(Tail(s), d) = Tail(MessagesOf(s, d))
         /\ Tail(MessagesOf(s, d)) = SubSeq(MessagesOf(s, d), 2, Len(MessagesOf(s, d)))
<1> DEFINE g == MessagesOf(s, d)
           h == MessagesOf(Tail(s), d)
<1>1. /\ g \in Seq(AnyMsg) /\ Len(g) = Len(s) /\ Len(s) \in Nat
      /\ \A i \in 1..Len(s) : g[i] = d[s[i]].msg
  BY MessagesTyped
<1>2. /\ Tail(s) \in Seq(Buffers) /\ Len(Tail(s)) = Len(s) - 1
      /\ \A i \in 1..(Len(s) - 1) : Tail(s)[i] = s[i + 1]
      /\ Len(s) >= 1
  BY <1>1, HeadTailProperties, EmptySeq
<1>3. /\ h \in Seq(AnyMsg) /\ Len(h) = Len(s) - 1
      /\ \A i \in 1..(Len(s) - 1) : h[i] = d[Tail(s)[i]].msg
  BY Zenon, <1>2, MessagesTyped
<1> HIDE DEF g, h
<1>4. g # <<>>
  BY <1>1, <1>2
<1>5. /\ Tail(g) \in Seq(AnyMsg) /\ Len(Tail(g)) = Len(g) - 1
      /\ \A i \in 1..(Len(g) - 1) : Tail(g)[i] = g[i + 1]
  BY <1>1, <1>4, HeadTailProperties
<1>6. \A i \in 1..(Len(s) - 1) : h[i] = Tail(g)[i]
  <2> TAKE i \in 1..(Len(s) - 1)
  <2>1. i + 1 \in 1..Len(s)
    BY <1>1
  <2> QED BY <1>1, <1>2, <1>3, <1>5, <2>1
<1>7. h = Tail(g)
  BY <1>1, <1>3, <1>5, <1>6, SeqEqual
<1>8. Tail(g) = SubSeq(g, 2, Len(g))
  BY <1>1, <1>4, TailIsSubSeq
<1> QED BY <1>1, <1>2, <1>4, <1>7, <1>8 DEF g, h

LEMMA MessagesAppend ==
  ASSUME NEW s \in Seq(Buffers), NEW d \in [Buffers -> DescRecord],
         NEW e \in [Buffers -> DescRecord], NEW b \in Buffers,
         \A i \in DOMAIN s : e[s[i]].msg = d[s[i]].msg
  PROVE  MessagesOf(Append(s, b), e) = Append(MessagesOf(s, d), e[b].msg)
<1> DEFINE g == MessagesOf(s, d)
           h == MessagesOf(Append(s, b), e)
           x == e[b].msg
           n == Len(s)
<1>1. /\ g \in Seq(AnyMsg) /\ Len(g) = n /\ n \in Nat /\ DOMAIN s = 1..n
      /\ \A i \in 1..n : g[i] = d[s[i]].msg
  BY MessagesTyped
<1>2. /\ Append(s, b) \in Seq(Buffers) /\ Len(Append(s, b)) = n + 1
      /\ \A i \in 1..n : Append(s, b)[i] = s[i]
      /\ Append(s, b)[n + 1] = b
  BY <1>1
<1>3. /\ h \in Seq(AnyMsg) /\ Len(h) = n + 1
      /\ \A i \in 1..(n + 1) : h[i] = e[Append(s, b)[i]].msg
  BY <1>2, MessagesTyped
<1>4. x \in AnyMsg
  BY DEF AnyMsg, DescRecord
<1> HIDE DEF g, h, x, n
<1>5. /\ Append(g, x) \in Seq(AnyMsg) /\ Len(Append(g, x)) = n + 1
      /\ \A i \in 1..n : Append(g, x)[i] = g[i]
      /\ Append(g, x)[n + 1] = x
  BY <1>1, <1>4
<1>6. \A i \in 1..(n + 1) : h[i] = Append(g, x)[i]
  <2> TAKE i \in 1..(n + 1)
  <2>1. CASE i = n + 1
    BY <1>1, <1>2, <1>3, <1>5, <2>1 DEF x
  <2>2. CASE i # n + 1
    <3>1. i \in 1..n
      BY <1>1, <2>2
    <3> QED BY <1>1, <1>2, <1>3, <1>5, <3>1
  <2> QED BY <2>1, <2>2
<1>7. h = Append(g, x)
  BY <1>3, <1>5, <1>6, SeqEqual
<1> QED BY <1>7 DEF g, h, x

(* The state of the abstract bus.                                           *)
Unused == {p \in PipeIds : p > lastPipeId \/ Creating(p)}
Existing == {p \in PipeIds : IsMatch(p)}
Waiting == [p \in PipeIds |-> MessagesOf(queue[p], desc)]
BusStutters == /\ Unused' = Unused /\ Existing' = Existing
               /\ subs' = subs /\ Waiting' = Waiting
Steps == BusStutters \/ Bus!BusNext

LEMMA BusNames ==
  /\ BusStutters => UNCHANGED Bus!busVars
  /\ \A ids : Bus!Skip(ids) <=>
        /\ ids # {} /\ ids \subseteq Unused /\ Unused' = Unused \ ids
        /\ Existing' = Existing /\ subs' = subs /\ Waiting' = Waiting
  /\ \A p : Bus!Open(p) <=>
        /\ p \in Unused /\ Unused' = Unused \ {p} /\ Existing' = Existing \cup {p}
        /\ subs' = subs /\ Waiting' = Waiting
  /\ \A p : Bus!Close(p) <=>
        /\ p \in Existing /\ Existing' = Existing \ {p}
        /\ subs' = [m \in Msgs |-> subs[m] \ {p}]
        /\ Unused' = Unused /\ Waiting' = Waiting
  /\ \A p, n : Bus!Drop(p, n) <=>
        /\ p \notin Existing /\ n \in 1..Len(Waiting[p])
        /\ Waiting' = [Waiting EXCEPT ![p] = SubSeq(@, n + 1, Len(@))]
        /\ Unused' = Unused /\ Existing' = Existing /\ subs' = subs
  /\ \A m, p : Bus!Want(m, p) <=>
        /\ p \in Existing \ subs[m] /\ subs' = [subs EXCEPT ![m] = @ \cup {p}]
        /\ Unused' = Unused /\ Existing' = Existing /\ Waiting' = Waiting
  /\ \A m, p : Bus!Unwant(m, p) <=>
        /\ p \in subs[m] /\ subs' = [subs EXCEPT ![m] = @ \ {p}]
        /\ Unused' = Unused /\ Existing' = Existing /\ Waiting' = Waiting
  /\ \A m, ps : Bus!Publish(m, ps) <=>
        /\ ps # {} /\ ps \subseteq subs[m]
        /\ Waiting' = [p \in PipeIds |-> IF p \in ps THEN Append(Waiting[p], m)
                                                     ELSE Waiting[p]]
        /\ Unused' = Unused /\ Existing' = Existing /\ subs' = subs
  /\ \A p : Bus!Take(p) <=>
        /\ Waiting[p] # <<>> /\ Waiting' = [Waiting EXCEPT ![p] = Tail(@)]
        /\ Unused' = Unused /\ Existing' = Existing /\ subs' = subs
BY DEF Unused, Existing, Waiting, MessagesOf, BusStutters, Bus!busVars, Bus!Skip, Bus!Open,
       Bus!Close, Bus!Drop, Bus!Want, Bus!Unwant, Bus!Publish, Bus!Take

(* Parts of the abstract state that a step leaves alone.                    *)
LEMMA UnusedSame ==
  ASSUME lastPipeId' = lastPipeId, \A p \in PipeIds : Creating(p)' <=> Creating(p)
  PROVE  Unused' = Unused
  BY DEF Unused

LEMMA ExistingSame ==
  ASSUME \A p \in PipeIds : IsMatch(p)' <=> IsMatch(p)
  PROVE  Existing' = Existing
  BY DEF Existing

LEMMA MatchSame ==
  ASSUME pipeId' = pipeId
  PROVE  \A p \in PipeIds : IsMatch(p)' <=> IsMatch(p)
  BY DEF IsMatch

LEMMA SubsSame ==
  ASSUME BusStep, \A m \in Msgs : subs'[m] = subs[m]
  PROVE  subs' = subs
  BY BusStepFacts DEF Typed, TypeOK

CreatePCs == {"cr_queue", "cr_end"}
LEMMA CreatingSame ==
  ASSUME NEW t \in Actors, Others(t),
         loc[t].pc \notin CreatePCs, loc'[t].pc \notin CreatePCs
  PROVE  \A p \in PipeIds : Creating(p)' <=> Creating(p)
<1>1. \A u \in Tasks : u \in Actors
  BY DEF Actors
<1> QED BY <1>1 DEF Creating, Others, CreatePCs

LEMMA WaitingPart ==
  ASSUME BusStep, NEW p \in PipeIds, queue'[p] = queue[p]
  PROVE  MessagesOf(queue'[p], desc') = MessagesOf(queue[p], desc)
<1>1. \A i \in DOMAIN queue[p] : desc'[queue[p][i]].msg = desc[queue[p][i]].msg
  BY BusStepFacts, QueuedMessage
<1> QED BY <1>1 DEF MessagesOf

LEMMA WaitingSame ==
  ASSUME BusStep, \A p \in PipeIds : queue'[p] = queue[p]
  PROVE  Waiting' = Waiting
<1>1. \A p \in PipeIds : MessagesOf(queue'[p], desc') = MessagesOf(queue[p], desc)
  BY WaitingPart
<1> QED BY <1>1 DEF Waiting

LEMMA QueueTyped ==
  ASSUME Typed
  PROVE  desc \in [Buffers -> DescRecord] /\ \A p \in PipeIds : queue[p] \in Seq(Buffers)
  BY DEF Typed, TypeOK

(* The first message goes.                                                  *)
LEMMA WaitingTook ==
  ASSUME BusStep, NEW pid \in PipeIds, queue[pid] # <<>>, desc' = desc,
         \A p \in PipeIds : queue'[p] = IF p = pid THEN Tail(queue[p]) ELSE queue[p]
  PROVE  /\ Waiting' = [Waiting EXCEPT ![pid] = Tail(@)]
         /\ Waiting' = [Waiting EXCEPT ![pid] = SubSeq(@, 1 + 1, Len(@))]
         /\ Waiting[pid] # <<>> /\ 1 \in 1..Len(Waiting[pid])
<1>1. /\ MessagesOf(queue'[pid], desc') = Tail(MessagesOf(queue[pid], desc))
      /\ MessagesOf(queue'[pid], desc') =
           SubSeq(MessagesOf(queue[pid], desc), 2, Len(MessagesOf(queue[pid], desc)))
      /\ MessagesOf(queue[pid], desc) # <<>> /\ 1 \in 1..Len(MessagesOf(queue[pid], desc))
  BY BusStepFacts, QueueTyped, MessagesTail
<1>2. \A p \in PipeIds : p # pid =>
         MessagesOf(queue'[p], desc') = MessagesOf(queue[p], desc)
  BY WaitingPart
<1>3. /\ Waiting[pid] = MessagesOf(queue[pid], desc)
      /\ Waiting \in [PipeIds -> {MessagesOf(queue[p], desc) : p \in PipeIds}]
      /\ Waiting' = [p \in PipeIds |-> MessagesOf(queue'[p], desc')]
      /\ \A p \in PipeIds : Waiting[p] = MessagesOf(queue[p], desc)
  BY DEF Waiting
<1>4. Waiting' = [Waiting EXCEPT ![pid] = MessagesOf(queue'[pid], desc')]
  BY <1>2, <1>3
<1>5. Waiting' = [Waiting EXCEPT ![pid] = Tail(@)]
  BY <1>1, <1>3, <1>4
<1>6. Waiting' = [Waiting EXCEPT ![pid] = SubSeq(@, 1 + 1, Len(@))]
  <2>1. PICK w : w = MessagesOf(queue[pid], desc)
    OBVIOUS
  <2>2. Waiting' = [Waiting EXCEPT ![pid] = SubSeq(w, 2, Len(w))]
    BY <1>1, <1>4, <2>1
  <2>3. Waiting[pid] = w /\ 1 + 1 = 2
    BY <1>3, <2>1
  <2> QED BY <2>2, <2>3
<1> QED BY <1>1, <1>3, <1>5, <1>6

(* A message is put on some pipes.                                          *)
LEMMA WaitingSent ==
  ASSUME BusStep, NEW t \in Actors, NEW sent \in SUBSET PipeIds, Sent(t, sent)
  PROVE  Waiting' = [p \in PipeIds |-> IF p \in sent THEN Append(Waiting[p], loc[t].msg)
                                                     ELSE Waiting[p]]
<1>1. PICK x : x = loc[t].buf
  OBVIOUS
<1>2. /\ x \in Buffers /\ Typed /\ Typed'
      /\ \A p \in PipeIds : queue'[p] = IF p \in sent THEN Append(queue[p], x) ELSE queue[p]
  BY <1>1, BusStepFacts DEF Sent
<1>3. \A p \in PipeIds : Waiting[p] = MessagesOf(queue[p], desc)
  BY DEF Waiting
<1>4. ASSUME NEW p \in sent
      PROVE  MessagesOf(queue'[p], desc') = Append(MessagesOf(queue[p], desc), loc[t].msg)
  <2>1. desc'[x].msg = loc[t].msg
    BY <1>1, <1>4, SentMessage
  <2>2. /\ queue[p] \in Seq(Buffers) /\ desc \in [Buffers -> DescRecord]
        /\ desc' \in [Buffers -> DescRecord]
    BY <1>2 DEF Typed, TypeOK
  <2>3. \A i \in DOMAIN queue[p] : i \in DOMAIN queue'[p] /\ queue'[p][i] = queue[p][i]
    <3>1. PICK q : q = queue[p]
      OBVIOUS
    <3>2. q \in Seq(Buffers) /\ queue'[p] = Append(q, x)
      BY <1>2, <2>2, <3>1, <1>4
    <3>3. \A i \in DOMAIN q : i \in DOMAIN Append(q, x) /\ Append(q, x)[i] = q[i]
      BY <1>2, <3>2
    <3> QED BY <3>1, <3>2, <3>3
  <2>4. \A i \in DOMAIN queue[p] : desc'[queue[p][i]].msg = desc[queue[p][i]].msg
    BY <2>3, BusStepFacts, QueuedMessage
  <2>5. MessagesOf(Append(queue[p], x), desc') = Append(MessagesOf(queue[p], desc), desc'[x].msg)
    BY <1>2, <2>2, <2>4, MessagesAppend
  <2> QED BY <1>2, <2>1, <2>5
<1>5. \A p \in PipeIds : p \notin sent =>
         MessagesOf(queue'[p], desc') = MessagesOf(queue[p], desc)
  BY <1>2, WaitingPart
<1> QED BY <1>3, <1>4, <1>5 DEF Waiting

-----------------------------------------------------------------------------
(* Every step of the bus is a step of the message bus, or a stutter.        *)

(* Where each abstract step leads.                                          *)
LEMMA BusSteps ==
  /\ \A ids \in SUBSET PipeIds : Bus!Skip(ids) => Steps
  /\ \A p \in PipeIds : Bus!Open(p) \/ Bus!Close(p) \/ Bus!Take(p) => Steps
  /\ \A p \in PipeIds : \A n \in 1..Len(Waiting[p]) : Bus!Drop(p, n) => Steps
  /\ \A m \in Msgs, p \in PipeIds : Bus!Want(m, p) \/ Bus!Unwant(m, p) => Steps
  /\ \A m \in Msgs, ps \in SUBSET PipeIds : Bus!Publish(m, ps) => Steps
<1>1. \A p \in PipeIds : \A n \in 1..Len(Waiting[p]) : Bus!Drop(p, n) => Steps
  BY DEF Steps, Bus!BusNext, Waiting, MessagesOf
<1> QED BY <1>1 DEF Steps, Bus!BusNext

(* A step that only moves a task, off the creation of pipes.                *)
LEMMA BusQuiet ==
  ASSUME BusStep, lastPipeId' = lastPipeId, pipeId' = pipeId, subs' = subs,
         \A p \in PipeIds : queue'[p] = queue[p],
         \A p \in PipeIds : Creating(p)' <=> Creating(p)
  PROVE  BusStutters
<1>1. Unused' = Unused
  BY UnusedSame
<1>2. Existing' = Existing
  BY MatchSame, ExistingSame
<1>3. Waiting' = Waiting
  BY WaitingSame
<1>4. subs' = subs
  OBVIOUS
<1>5. Unused' = Unused /\ Existing' = Existing /\ subs' = subs /\ Waiting' = Waiting
  BY <1>1, <1>2, <1>3, <1>4
<1> QED BY <1>5 DEF BusStutters

LEMMA CreatingMoves ==
  ASSUME NEW t \in Actors, Others(t), loc[t].pc \in CreatePCs, loc'[t].pc \in CreatePCs,
         loc'[t].pid = loc[t].pid
  PROVE  \A p \in PipeIds : Creating(p)' <=> Creating(p)
<1>1. \A u \in Tasks : u \in Actors
  BY DEF Actors
<1> QED BY <1>1 DEF Creating, Others, CreatePCs

(* The pipe a task reserves, or is taking away, does not exist, and nobody  *)
(* else creates it.                                                         *)
LEMMA ReservedPipe ==
  ASSUME BusStep, NEW t \in Actors, Reserving(t), NEW pid, pid = loc[t].pid
  PROVE  /\ pid \in PipeIds /\ Slot(pid) \in Slots /\ pid <= lastPipeId
         /\ pipeId[Slot(pid)] = RESERVED
         /\ \A p \in PipeIds : Slot(p) = Slot(pid) => ~IsMatch(p)
         /\ \A u \in Tasks : u # t /\ loc[u].pc \in CreatePCs => loc[u].pid # pid
<1>1. Typed /\ HeldAlone
  BY BusStepFacts DEF Holding
<1>2. pid \in PipeIds
  BY <1>1 DEF Typed, Locals, Promise, OnPipeId, Reserving
<1>3. Slot(pid) \in Slots /\ pid <= lastPipeId /\ pipeId[Slot(pid)] = RESERVED
  BY <1>1, <1>2, SlotInRange DEF HeldAlone
<1>4. \A p \in PipeIds : Slot(p) = Slot(pid) => ~IsMatch(p)
  BY <1>3, NamesAssumption DEF IsMatch
<1>5. \A u \in Tasks : u # t /\ loc[u].pc \in CreatePCs => loc[u].pid # pid
  BY <1>1 DEF HeldAlone, Reserving, CreatePCs, Actors
<1> QED BY <1>2, <1>3, <1>4, <1>5

(* Freeing a reserved slot, or reserving a free one, makes or ends no pipe. *)
LEMMA ExistingKept ==
  ASSUME BusStep, NEW s \in Slots, pipeId[s] \in {FREE, RESERVED}, NEW v \in {FREE, RESERVED},
         \A r \in Slots : pipeId'[r] = IF r = s THEN v ELSE pipeId[r]
  PROVE  Existing' = Existing
<1>1. FREE \notin PipeIds /\ RESERVED \notin PipeIds
  BY NamesAssumption
<1>2. \A p \in PipeIds : IsMatch(p)' <=> IsMatch(p)
  BY <1>1, SlotInRange DEF IsMatch
<1> QED BY <1>2, ExistingSame

(* A task that ends the creation of a pipe gives up its name.               *)
LEMMA NameGiven ==
  ASSUME BusStep, NEW t \in Tasks, loc[t].pc \in CreatePCs, loc'[t].pc \notin CreatePCs,
         Others(t), lastPipeId' = lastPipeId, NEW pid, pid = loc[t].pid
  PROVE  pid \in Unused /\ Unused' = Unused \ {pid}
<1>1. t \in Actors /\ Reserving(t) /\ \A u \in Tasks : u \in Actors
  BY DEF Actors, Reserving, CreatePCs
<1>2. /\ pid \in PipeIds /\ pid <= lastPipeId
      /\ \A u \in Tasks : u # t /\ loc[u].pc \in CreatePCs => loc[u].pid # pid
  BY <1>1, ReservedPipe
<1>3. Creating(pid) /\ ~Creating(pid)'
  BY <1>1, <1>2 DEF Creating, Others, CreatePCs
<1>4. \A p \in PipeIds : p # pid => (Creating(p)' <=> Creating(p))
  BY <1>1 DEF Creating, Others, CreatePCs
<1>5. ~(pid > lastPipeId)
  BY <1>2, BusStepFacts DEF Typed, TypeOK, PipeIds
<1>6. pid \in Unused
  BY <1>2, <1>3 DEF Unused
<1>7. Unused' = {p \in PipeIds : p > lastPipeId' \/ Creating(p)'}
  BY DEF Unused
<1>8. Unused' = Unused \ {pid}
  BY <1>2, <1>3, <1>4, <1>5, <1>7 DEF Unused
<1> QED BY <1>6, <1>8

(* CFE_SB_CreatePipe gives up the numbers it passes over and the one it takes, *)
(* until the pipe is published under it.                                       *)
LEMMA ReservedAbstract ==
  ASSUME BusStep, NEW t \in Actors, NEW pid \in PipeIds, Reserved(t, pid)
  PROVE  Steps
<1>1. /\ t \in Tasks /\ loc[t].pc = "idle" /\ Others(t) /\ loc'[t].pc = "cr_queue"
      /\ loc'[t].pid = pid /\ pid > lastPipeId /\ lastPipeId' = pid
      /\ subs' = subs /\ queue' = queue
  BY DEF Reserved, Runs
<1>2. Existing' = Existing
  <2>1. /\ Slot(pid) \in Slots /\ pipeId[Slot(pid)] \in {FREE, RESERVED}
        /\ RESERVED \in {FREE, RESERVED}
    BY SlotInRange DEF Reserved
  <2>2. \A r \in Slots : pipeId'[r] = IF r = Slot(pid) THEN RESERVED ELSE pipeId[r]
    BY DEF Reserved
  <2> QED BY <2>1, <2>2, ExistingKept
<1>3. Waiting' = Waiting
  BY <1>1, WaitingSame
<1>4. \A u \in Tasks : u \in Actors
  BY DEF Actors
<1>5. \A p \in PipeIds : p # pid => (Creating(p)' <=> Creating(p))
  BY <1>1, <1>4 DEF Creating, Others
<1>6. Creating(pid)'
  BY <1>1 DEF Creating
<1>7. \A p \in PipeIds : Creating(p) => p <= lastPipeId
  <2>1. \A u \in Tasks : loc[u].pc \in {"cr_queue", "cr_end"} => loc[u].pid <= lastPipeId
    BY <1>4, BusStepFacts, ReserveFacts DEF Reserving
  <2> QED BY <2>1 DEF Creating
<1> DEFINE ids == {p \in PipeIds : p > lastPipeId /\ p < pid}
<1>8. lastPipeId \in PipeIds /\ PipeIds \subseteq Int
  BY BusStepFacts DEF Typed, TypeOK, PipeIds
<1>9. Unused' = Unused \ ids
  <2>1. Unused' = {p \in PipeIds : p > pid \/ Creating(p)'}
    BY <1>1 DEF Unused
  <2>2. \A p \in PipeIds : (p > pid \/ Creating(p)') <=>
                            /\ p > lastPipeId \/ Creating(p)
                            /\ ~(p > lastPipeId /\ p < pid)
    <3> TAKE p \in PipeIds
    <3>1. CASE p = pid
      BY <1>1, <1>6, <1>8, <3>1
    <3>2. CASE p # pid
      BY <1>1, <1>5, <1>7, <1>8, <3>2
    <3> QED BY <3>1, <3>2
  <2> QED BY <2>1, <2>2 DEF Unused
<1>10. ids \subseteq Unused /\ ids \in SUBSET PipeIds
  BY DEF Unused
<1>11. CASE ids = {}
  BY <1>1, <1>2, <1>3, <1>9, <1>11 DEF Steps, BusStutters
<1>12. CASE ids # {}
  <2>1. PICK gone \in SUBSET PipeIds : gone = ids
    BY <1>10
  <2>2. Bus!Skip(gone)
    BY <1>1, <1>2, <1>3, <1>9, <1>10, <1>12, <2>1, BusNames
  <2> QED BY <2>2, BusSteps
<1> QED BY <1>11, <1>12

(* It publishes the pipe, or withdraws it.                                  *)
LEMMA CreatedAbstract ==
  ASSUME BusStep, NEW t \in Actors, Published(t) \/ Withdrawn(t)
  PROVE  Steps
<1>1. PICK pid : pid = loc[t].pid
  OBVIOUS
<1>2. /\ t \in Tasks /\ loc[t].pc \in CreatePCs /\ loc'[t].pc \notin CreatePCs /\ Others(t)
      /\ lastPipeId' = lastPipeId /\ subs' = subs /\ queue' = queue /\ Reserving(t)
  BY DEF Published, Withdrawn, Rests, CreatePCs, Reserving
<1>3. pid \in Unused /\ Unused' = Unused \ {pid}
  BY <1>1, <1>2, NameGiven
<1>4. /\ pid \in PipeIds /\ Slot(pid) \in Slots /\ pipeId[Slot(pid)] = RESERVED
      /\ \A p \in PipeIds : Slot(p) = Slot(pid) => ~IsMatch(p)
  BY <1>1, <1>2, ReservedPipe
<1>5. Waiting' = Waiting
  BY <1>2, WaitingSame
<1>6. CASE Published(t)
  <2>1. \A s \in Slots : pipeId'[s] = IF s = Slot(pid) THEN pid ELSE pipeId[s]
    BY <1>1, <1>6 DEF Published
  <2>2. \A p \in PipeIds : IsMatch(p)' <=> IsMatch(p) \/ p = pid
    BY <1>4, <2>1, SlotInRange DEF IsMatch
  <2>3. Existing' = Existing \cup {pid}
    BY <1>4, <2>2 DEF Existing
  <2>4. Bus!Open(pid)
    BY <1>2, <1>3, <1>5, <2>3, BusNames
  <2> QED BY <1>4, <2>4, BusSteps
<1>7. CASE Withdrawn(t)
  <2>1. \A s \in Slots : pipeId'[s] = IF s = Slot(pid) THEN FREE ELSE pipeId[s]
    BY <1>1, <1>7 DEF Withdrawn
  <2>2. Existing' = Existing
    <3>1. pipeId[Slot(pid)] \in {FREE, RESERVED} /\ FREE \in {FREE, RESERVED}
      BY <1>4
    <3> QED BY <1>4, <2>1, <3>1, ExistingKept
  <2>3. {pid} # {} /\ {pid} \subseteq Unused /\ {pid} \in SUBSET PipeIds
    BY <1>3, <1>4
  <2>4. Bus!Skip({pid})
    BY <1>2, <1>3, <1>5, <2>2, <2>3, BusNames
  <2> QED BY <2>3, <2>4, BusSteps
<1> QED BY <1>6, <1>7

(* A deletion takes the pipe away with its interest.                        *)
LEMMA UnpublishedAbstract ==
  ASSUME BusStep, NEW t \in Actors, NEW pid \in PipeIds, Unpublished(t, pid)
  PROVE  Steps
<1>1. /\ loc[t].pc \in {"idle", "cl_next"} /\ loc'[t].pc = "del_drain" /\ Others(t)
      /\ lastPipeId' = lastPipeId /\ queue' = queue /\ IsMatch(pid)
      /\ \A s \in Slots : pipeId'[s] = IF s = Slot(pid) THEN RESERVED ELSE pipeId[s]
      /\ \A m \in Msgs : subs'[m] = subs[m] \ {pid}
  BY DEF Unpublished, Runs
<1>2. \A p \in PipeIds : Creating(p)' <=> Creating(p)
  BY <1>1, CreatingSame DEF CreatePCs
<1>3. Unused' = Unused
  BY <1>1, <1>2, UnusedSame
<1>4. Waiting' = Waiting
  BY <1>1, WaitingSame
<1>5. subs' = [m \in Msgs |-> subs[m] \ {pid}]
  BY <1>1, BusStepFacts DEF Typed, TypeOK
<1>6. \A p \in PipeIds : IsMatch(p)' <=> IsMatch(p) /\ p # pid
  BY <1>1, SlotInRange, NamesAssumption DEF IsMatch
<1>7. pid \in Existing /\ Existing' = Existing \ {pid}
  BY <1>1, <1>6 DEF Existing
<1>8. Bus!Close(pid)
  BY <1>3, <1>4, <1>5, <1>7, BusNames
<1> QED BY <1>8, BusSteps

(* The rest of the creation and deletion of a pipe: only the drain is seen. *)
LEMMA PipeWorkAbstract ==
  ASSUME BusStep, NEW t \in Actors,
         QueueMade(t) \/ Drained(t) \/ DrainTook(t) \/ DrainEnded(t) \/ QueueDeleted(t)
            \/ SlotFreed(t)
  PROVE  Steps
<1>1. PICK pid : pid = loc[t].pid
  OBVIOUS
<1>2. Reserving(t) /\ Others(t) /\ lastPipeId' = lastPipeId /\ subs' = subs
  BY DEF QueueMade, Drained, DrainTook, DrainEnded, QueueDeleted, SlotFreed, Reserving
<1>3. /\ pid \in PipeIds /\ Slot(pid) \in Slots /\ pipeId[Slot(pid)] = RESERVED
      /\ \A p \in PipeIds : Slot(p) = Slot(pid) => ~IsMatch(p)
  BY <1>1, <1>2, ReservedPipe
<1>4. \A p \in PipeIds : Creating(p)' <=> Creating(p)
  <2>1. CASE QueueMade(t)
    BY <2>1, <1>2, CreatingMoves DEF QueueMade, CreatePCs
  <2>2. CASE SlotFreed(t)
    <3>1. loc[t].pc \notin CreatePCs /\ loc'[t].pc \notin CreatePCs
      BY <2>2 DEF SlotFreed, CreatePCs
    <3> QED BY <1>2, <3>1, CreatingSame
  <2>3. CASE Drained(t) \/ DrainTook(t) \/ DrainEnded(t) \/ QueueDeleted(t)
    <3>1. loc[t].pc \notin CreatePCs /\ loc'[t].pc \notin CreatePCs
      BY <2>3 DEF Drained, DrainTook, DrainEnded, QueueDeleted, CreatePCs
    <3> QED BY <1>2, <3>1, CreatingSame
  <2> QED BY <2>1, <2>2, <2>3
<1>5. Unused' = Unused
  BY <1>2, <1>4, UnusedSame
<1>6. ASSUME pipeId' = pipeId, \A p \in PipeIds : queue'[p] = queue[p]
      PROVE  Steps
  BY <1>2, <1>4, <1>6, BusQuiet DEF Steps
<1>7. Emptied /\ Fresh
  BY BusStepFacts DEF Tidy
<1>8. CASE QueueMade(t)
  <2>1. queue[pid] = <<>>
    BY <1>1, <1>7, <1>8 DEF QueueMade, Fresh
  <2>2. \A p \in PipeIds : queue'[p] = queue[p]
    BY <1>1, <1>8, <2>1 DEF QueueMade
  <2> QED BY <1>6, <1>8, <2>2 DEF QueueMade
<1>9. CASE Drained(t) \/ DrainEnded(t)
  BY <1>6, <1>9 DEF Drained, DrainEnded
<1>10. CASE DrainTook(t)
  <2>1. /\ pipeId' = pipeId /\ desc' = desc /\ queue[pid] # <<>>
        /\ \A p \in PipeIds : queue'[p] = IF p = pid THEN Tail(queue[p]) ELSE queue[p]
    BY <1>1, <1>10 DEF DrainTook
  <2>2. /\ Waiting' = [Waiting EXCEPT ![pid] = SubSeq(@, 1 + 1, Len(@))]
        /\ 1 \in 1..Len(Waiting[pid])
    BY <1>3, <2>1, WaitingTook
  <2>3. Existing' = Existing /\ pid \notin Existing
    BY <1>3, <2>1, MatchSame, ExistingSame DEF Existing
  <2>4. Bus!Drop(pid, 1)
    BY <1>2, <1>5, <2>2, <2>3, BusNames
  <2> QED BY <1>3, <2>2, <2>4, BusSteps
<1>11. CASE QueueDeleted(t)
  <2>1. queue[pid] = <<>>
    BY <1>1, <1>7, <1>11 DEF QueueDeleted, Emptied
  <2>2. \A p \in PipeIds : queue'[p] = queue[p]
    BY <1>1, <1>11, <2>1 DEF QueueDeleted
  <2> QED BY <1>6, <1>11, <2>2 DEF QueueDeleted
<1>12. CASE SlotFreed(t)
  <2>1. /\ queue' = queue
        /\ \A s \in Slots : pipeId'[s] = IF s = Slot(pid) THEN FREE ELSE pipeId[s]
    BY <1>1, <1>12 DEF SlotFreed
  <2>2. pipeId[Slot(pid)] \in {FREE, RESERVED} /\ FREE \in {FREE, RESERVED}
    BY <1>3
  <2>3. Existing' = Existing
    BY <1>3, <2>1, <2>2, ExistingKept
  <2>4. Waiting' = Waiting
    BY <2>1, WaitingSame
  <2> QED BY <1>2, <1>5, <2>3, <2>4 DEF Steps, BusStutters
<1> QED BY <1>8, <1>9, <1>10, <1>11, <1>12

(* Interest.                                                                *)
LEMMA InterestAbstract ==
  ASSUME BusStep, NEW t \in Actors, NEW m \in Msgs, NEW pid \in PipeIds,
         Subscribed(t, m, pid) \/ Unsubscribed(t, m, pid)
  PROVE  Steps
<1>1. /\ pipeId' = pipeId /\ lastPipeId' = lastPipeId /\ queue' = queue /\ loc' = loc
      /\ IsMatch(pid)
  BY DEF Subscribed, Unsubscribed
<1>2. Unused' = Unused /\ Existing' = Existing
  BY <1>1, UnusedSame, MatchSame, ExistingSame DEF Creating
<1>3. Waiting' = Waiting
  BY <1>1, WaitingSame
<1>4. pid \in Existing
  BY <1>1 DEF Existing
<1>5. /\ subs \in [Msgs -> SUBSET PipeIds] /\ subs' \in [Msgs -> SUBSET PipeIds]
  BY BusStepFacts DEF Typed, TypeOK
<1>6. CASE Subscribed(t, m, pid)
  <2>1. pid \notin subs[m] /\ subs' = [subs EXCEPT ![m] = @ \cup {pid}]
    BY <1>5, <1>6 DEF Subscribed
  <2>2. Bus!Want(m, pid)
    BY <1>2, <1>3, <1>4, <2>1, BusNames
  <2> QED BY <2>2, BusSteps
<1>7. CASE Unsubscribed(t, m, pid)
  <2>1. pid \in subs[m] /\ subs' = [subs EXCEPT ![m] = @ \ {pid}]
    BY <1>5, <1>7 DEF Unsubscribed
  <2>2. Bus!Unwant(m, pid)
    BY <1>2, <1>3, <2>1, BusNames
  <2> QED BY <2>2, BusSteps
<1> QED BY <1>6, <1>7

(* Transmission and reception.                                              *)
LEMMA BufferAbstract ==
  ASSUME BusStep, NEW t \in Actors, BufferForm(t)
  PROVE  Steps
<1>1. pipeId' = pipeId /\ lastPipeId' = lastPipeId /\ subs' = subs
  BY Zenon DEF BufferForm, Sent, Polled, Took, Handed, Lost, TookNothing, Refused,
     Filling, Issues, Claimed, GivenBack, Validated
<1>2. \A p \in PipeIds : Creating(p)' <=> Creating(p)
  <2>1. CASE \E b \in Buffers : Issues(t, b)
    BY <2>1 DEF Issues, Creating
  <2>2. CASE ~\E b \in Buffers : Issues(t, b)
    <3>1. Others(t) /\ loc[t].pc \notin CreatePCs /\ loc'[t].pc \notin CreatePCs
      BY Zenon, <2>2 DEF BufferForm, Sent, Polled, Took, Handed, Lost, TookNothing, Refused,
         Filling, Claimed, GivenBack, Validated, Rests, CreatePCs
    <3> QED BY <3>1, CreatingSame
  <2> QED BY <2>1, <2>2
<1>3. Unused' = Unused /\ Existing' = Existing
  BY <1>1, <1>2, UnusedSame, MatchSame, ExistingSame
<1>4. ASSUME NEW sent \in SUBSET PipeIds, Sent(t, sent) PROVE Steps
  <2>1. CASE sent = {}
    <3>1. \A p \in PipeIds : queue'[p] = queue[p]
      BY <1>4, <2>1 DEF Sent
    <3> QED BY <1>1, <1>2, <3>1, BusQuiet DEF Steps
  <2>2. CASE sent # {}
    <3>1. PICK m : m = loc[t].msg
      OBVIOUS
    <3>2. m \in Msgs /\ sent \subseteq subs[m]
      BY <1>4, <3>1 DEF Sent
    <3>3. Waiting' = [p \in PipeIds |-> IF p \in sent THEN Append(Waiting[p], m)
                                                      ELSE Waiting[p]]
      BY <1>4, <2>2, <3>1, WaitingSent
    <3>4. Bus!Publish(m, sent)
      BY <1>1, <1>3, <2>2, <3>2, <3>3, BusNames
    <3> QED BY <3>2, <3>4, BusSteps
  <2> QED BY <2>1, <2>2
<1>5. ASSUME Took(t) PROVE Steps
  <2>1. PICK pid : pid = loc[t].pid
    OBVIOUS
  <2>2. pid \in PipeIds
    BY <1>5, <2>1, BusStepFacts DEF Took, Typed, Locals, Promise, OnPipeId
  <2>3. /\ queue[pid] # <<>> /\ desc' = desc
        /\ \A p \in PipeIds : queue'[p] = IF p = pid THEN Tail(queue[p]) ELSE queue[p]
    BY <1>5, <2>1 DEF Took
  <2>4. Waiting' = [Waiting EXCEPT ![pid] = Tail(@)] /\ Waiting[pid] # <<>>
    BY <2>2, <2>3, WaitingTook
  <2>5. Bus!Take(pid)
    BY <1>1, <1>3, <2>4, BusNames
  <2> QED BY <2>2, <2>5, BusSteps
<1>6. CASE ~Took(t) /\ \A sent \in SUBSET PipeIds : ~Sent(t, sent)
  <2>1. queue' = queue
    BY <1>6 DEF BufferForm, Polled, Handed, Lost, TookNothing, Refused,
       Filling, Issues, Claimed, GivenBack, Validated
  <2> QED BY <1>1, <1>2, <2>1, BusQuiet DEF Steps
<1> QED BY <1>4, <1>5, <1>6

(* The clean-up of an application, beside the deletion of its pipes, and a  *)
(* step that concerns neither buffers nor pipes.                            *)
LEMMA CleanUpAbstract ==
  ASSUME BusStep, CleanUpForm
  PROVE  Steps
<1>0. Cleaner \in Actors /\ \A u \in Tasks : u \in Actors
  BY DEF Actors
<1>1. pipeId' = pipeId /\ lastPipeId' = lastPipeId /\ subs' = subs /\ queue' = queue
  BY DEF CleanUpForm, Begun, Listed, Reclaimed, Ended, Skipped, Killed
<1>2. \E t \in Actors : /\ Others(t) /\ loc[t].pc \notin CreatePCs
                        /\ loc'[t].pc \notin CreatePCs
  <2>1. CASE \E t \in Tasks : Killed(t)
    BY <1>0, <2>1 DEF Killed, CreatePCs
  <2>2. CASE ~\E t \in Tasks : Killed(t)
    BY <1>0, <2>2 DEF CleanUpForm, Begun, Listed, Reclaimed, Ended, Skipped, Rests, CreatePCs
  <2> QED BY <2>1, <2>2
<1>3. \A p \in PipeIds : Creating(p)' <=> Creating(p)
  BY <1>2, CreatingSame
<1> QED BY <1>1, <1>3, BusQuiet DEF Steps

LEMMA PassingAbstract ==
  ASSUME BusStep, NEW t \in Actors, Passes(t)
  PROVE  Steps
<1>1. /\ pipeId' = pipeId /\ lastPipeId' = lastPipeId /\ subs' = subs /\ queue' = queue
      /\ Others(t)
  BY DEF Passes
<1>2. \A p \in PipeIds : Creating(p)' <=> Creating(p)
  <2>1. CASE loc'[t] = loc[t]
    <3>1. \A u \in Tasks : loc'[u] = loc[u]
      BY <1>1, <2>1 DEF Others, Actors
    <3> QED BY <3>1 DEF Creating
  <2>2. CASE loc[t].pc \in Passing /\ loc'[t].pc \in Passing
    <3>1. loc[t].pc \notin CreatePCs /\ loc'[t].pc \notin CreatePCs
      BY <2>2 DEF Passing, CreatePCs
    <3> QED BY <1>1, <3>1, CreatingSame
  <2> QED BY <2>1, <2>2 DEF Passes
<1> QED BY <1>1, <1>2, BusQuiet DEF Steps

LEMMA StepAbstract ==
  ASSUME BusStep
  PROVE  Steps
<1>1. ASSUME NEW t \in Actors, PipeForm(t) PROVE Steps
  BY <1>1, ReservedAbstract, CreatedAbstract, UnpublishedAbstract, PipeWorkAbstract,
     InterestAbstract DEF PipeForm
<1> QED BY <1>1, CleanUpAbstract, PassingAbstract, BufferAbstract, BusStepFacts DEF StepForm

LEMMA InitAbstract == Init => Bus!BusInit
<1> SUFFICES ASSUME Init PROVE Bus!BusInit
  OBVIOUS
<1>1. /\ \A s \in Slots : pipeId[s] = FREE
      /\ subs = [m \in Msgs |-> {}]
      /\ queue = [p \in PipeIds |-> <<>>]
  BY DEF Init
<1>2. {p \in PipeIds : IsMatch(p)} = {}
  BY <1>1, SlotInRange, NamesAssumption DEF IsMatch
<1>3. [p \in PipeIds |-> [i \in DOMAIN queue[p] |-> desc[queue[p][i]].msg]]
         = [p \in PipeIds |-> <<>>]
  BY <1>1
<1>4. {p \in PipeIds : p > lastPipeId \/ Creating(p)} \subseteq PipeIds
  OBVIOUS
<1> QED BY <1>1, <1>2, <1>3, <1>4 DEF Bus!BusInit

(* The Software Bus is a message bus: a message reaches only pipes that     *)
(* exist and want it, in order and at most once.                            *)
THEOREM BusCorrect == Spec /\ Disciplined => ImplementsBus
<1> SUFFICES ASSUME Disciplined PROVE Spec => ImplementsBus
  OBVIOUS
<1>1. BusInv /\ CountInv /\ [Next]_vars => [Bus!BusNext]_(Bus!busVars)
  BY StepCounts, StepAbstract, BusNames DEF Steps
<1> QED BY <1>1, InitAbstract, AlwaysCounts, PTL DEF Spec, ImplementsBus, Bus!BusSpec
=============================================================================
