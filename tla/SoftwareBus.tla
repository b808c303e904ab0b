----------------------------- MODULE SoftwareBus -----------------------------
(***************************************************************************)
(* The cFE Software Bus (modules/sb): pipes, subscriptions, message        *)
(* buffers and the operations of its API, executed by tasks that run       *)
(* concurrently.                                                           *)
(*                                                                         *)
(* CFE_SB_LockSharedData / CFE_SB_UnlockSharedData bracket the code that   *)
(* touches CFE_SB_Global, so one bracket is one action.  An API call that  *)
(* releases the lock in between (around an OSAL queue call, or between two *)
(* look-ups) is several actions of its task, linked by the task's program  *)
(* counter: every interleaving of the brackets of all tasks is explored.   *)
(***************************************************************************)
EXTENDS Integers, Sequences, FiniteSets, ResourceIds

CONSTANTS
    Apps,              \* applications; every task belongs to one
    Tasks,             \* application tasks
    AppOf,             \* [Tasks -> Apps]
    Cleaner,           \* the ES task that cleans up after an application
    Msgs,              \* valid message IDs
    Buffers,           \* blocks of the SB memory pool
    NoApp, NoMsg, NoBuf, \* CFE_ES_APPID_UNDEFINED, CFE_SB_INVALID_MSG_ID, NULL
    FREE, RESERVED,    \* CFE_RESOURCEID_UNDEFINED, CFE_RESOURCEID_RESERVED
    MAX_PIPES,         \* CFE_PLATFORM_SB_MAX_PIPES
    MAX_MSG_IDS,       \* CFE_PLATFORM_SB_MAX_MSG_IDS
    MAX_DEST_PER_PKT,  \* CFE_PLATFORM_SB_MAX_DEST_PER_PKT
    MAX_DEPTH,         \* OS_QUEUE_MAX_DEPTH
    USE_CAP,           \* 0x7FFF, where CFE_SB_IncrBufUseCnt stops counting
    SerialMax          \* CFE_RESOURCEID_MAX; also bounds the pipes created

CONSTANTS              \* the environment: what the applications do
    Calls,             \* [Tasks -> SUBSET API calls] the task makes
    Depths,            \* queue depths passed to CFE_SB_CreatePipe
    MsgLims,           \* limits passed to the subscribe calls
    SharedPipes,       \* may two tasks be inside ReceiveBuffer on one pipe?
    QuietCleanup,      \* does an application stop calling before it is cleaned?
    CounterMod         \* [Counters -> Nat]: where each error counter wraps

(* API calls, for Calls; the two ground commands run in the SB task.       *)
ApiCalls == {"CreatePipe", "DeletePipe", "SetPipeOpts", "Subscribe",
             "Unsubscribe", "TransmitMsg", "ReceiveBuffer", "Allocate",
             "Release", "TransmitBuffer", "GetPipeIdByName", "RouteCmd",
             "ResetCounters"}

(* Error counters of CFE_SB_HousekeepingTlm_Payload_t.                     *)
Counters == {"CreatePipe", "Subscribe", "DuplicateSub", "PipeOpts",
             "GetPipeIdByName", "NoSubscribers", "MsgSend", "MsgReceive",
             "Internal", "MsgLimit", "PipeOverflow", "Command",
             "CommandError"}

PipeIds == 0..(SerialMax - 1)
Slots   == 0..(MAX_PIPES - 1)
Actors  == Tasks \cup {Cleaner}

ASSUME SizesAssumption ==
    /\ MAX_PIPES \in Nat \ {0}
    /\ SerialMax \in Nat /\ 2 * MAX_PIPES < SerialMax
    /\ MAX_MSG_IDS \in Nat \ {0}
    /\ MAX_DEST_PER_PKT \in Nat \ {0}
    /\ MAX_DEPTH \in Nat \ {0}
    /\ USE_CAP \in Nat /\ MAX_PIPES < USE_CAP
    /\ IsFiniteSet(Buffers) /\ IsFiniteSet(Msgs) /\ IsFiniteSet(Tasks)

ASSUME NamesAssumption ==
    /\ AppOf \in [Tasks -> Apps]
    /\ NoApp \notin Apps /\ NoMsg \notin Msgs /\ NoBuf \notin Buffers
    /\ Cleaner \notin Tasks
    /\ FREE \notin PipeIds /\ RESERVED \notin PipeIds /\ FREE # RESERVED

ASSUME EnvironmentAssumption ==
    /\ Calls \in [Tasks -> SUBSET ApiCalls]
    /\ Depths \subseteq Nat /\ MsgLims \subseteq Nat
    /\ SharedPipes \in BOOLEAN /\ QuietCleanup \in BOOLEAN
    /\ CounterMod \in [Counters -> Nat \ {0}]

VARIABLES
    pipeId,      \* [Slots -> PipeIds, FREE or RESERVED]: PipeTbl[].PipeId
    pipe,        \* [Slots -> record]: the rest of CFE_SB_PipeD_t
    lastPipeId,  \* CFE_SB_Global.LastPipeId
    queue,       \* [PipeIds -> Seq(Buffers)]: the OSAL queue made for a pipe
    qcap,        \* [PipeIds -> Nat]: its depth, 0 when there is no such queue
    routes,      \* SUBSET Msgs: message IDs that have a route
    subs,        \* [Msgs -> SUBSET PipeIds]: destination list of a route
    dst,         \* [Msgs -> [PipeIds -> record]]: CFE_SB_DestinationD_t
    desc,        \* [Buffers -> record]: CFE_SB_BufferD_t
    stat,        \* CFE_SB_Global.StatTlmMsg.Payload
    hk,          \* [Counters -> Nat]: CFE_SB_Global.HKTlmMsg.Payload
    loc,         \* [Actors -> record]: where a task is in its call, its locals
    hold,        \* [Tasks -> Buffers or NoBuf]: zero-copy pointer of the task
    appState,    \* [Apps -> state]: the ES application record
    todo         \* SUBSET PipeIds: DelList of CFE_SB_CleanUpApp

tables == <<pipeId, pipe, lastPipeId>>
queues == <<queue, qcap>>
routing == <<routes, subs, dst>>
apps == <<hold, appState, todo>>
vars == <<pipeId, pipe, lastPipeId, queue, qcap, routes, subs, dst, desc,
          stat, hk, loc, hold, appState, todo>>

-----------------------------------------------------------------------------
(* Descriptors.                                                            *)

Slot(pid) == ToIndex(pid, MAX_PIPES)

(* The OSAL queue made for a pipe is named by the pipe's ID, so the field   *)
(* `queue' (SysQueueId) is a pipe ID, or FREE for an undefined object ID.   *)
PipeRecord == [app : Apps \cup {NoApp}, queue : PipeIds \cup {FREE},
               max : Nat, depth : Nat, peak : Nat,
               ignoreMine : BOOLEAN, last : Buffers \cup {NoBuf}]
ClearPipe == [app |-> NoApp, queue |-> FREE, max |-> 0, depth |-> 0,
              peak |-> 0, ignoreMine |-> FALSE, last |-> NoBuf]

DestRecord == [lim : Nat, count : Nat, active : BOOLEAN]
NoDest == [lim |-> 0, count |-> 0, active |-> FALSE]

(* Link membership of a descriptor: CFE_SB_Global.ZeroCopyList,            *)
(* InTransitList, or none (singleton).                                     *)
Lists == {"none", "zeroCopy", "inTransit"}
DescRecord == [use : Nat, app : Apps \cup {NoApp},
               msg : Msgs \cup {NoMsg}, list : Lists]
(* Pool memory that is not allocated; what a freed descriptor still        *)
(* contains is never relied on, so its stale fields are normalised.        *)
FreeDesc == [use |-> 0, app |-> NoApp, msg |-> NoMsg, list |-> "none"]
(* CFE_SB_GetBufferFromPool *)
FreshDesc == [FreeDesc EXCEPT !.use = 1]

Idle == [pc |-> "idle", pid |-> FREE, buf |-> NoBuf, msg |-> NoMsg,
         app |-> NoApp, n |-> 0, res |-> "none"]

PCs == {"idle", "cr_queue", "cr_end", "del_drain", "del_queue", "del_end",
        "tx_alloc", "tx_cast", "rcv_get", "rcv_end", "rel", "zc_check",
        "zc_cast", "by_name", "cl_list", "cl_next", "cl_kill", "dead"}
Results == {"none", "ok", "empty", "error", "route", "noroute", "invalid"}
LocRecord == [pc : PCs, pid : PipeIds \cup {FREE}, buf : Buffers \cup {NoBuf},
              msg : Msgs \cup {NoMsg}, app : Apps \cup {NoApp},
              n : Nat, res : Results]

AppStates == {"running", "cleaning", "gone"}

Init ==
    /\ pipeId = [s \in Slots |-> FREE]
    /\ pipe = [s \in Slots |-> ClearPipe]
    /\ lastPipeId = 0
    /\ queue = [p \in PipeIds |-> <<>>]
    /\ qcap = [p \in PipeIds |-> 0]
    /\ routes = {}
    /\ subs = [m \in Msgs |-> {}]
    /\ dst = [m \in Msgs |-> [p \in PipeIds |-> NoDest]]
    /\ desc = [b \in Buffers |-> FreeDesc]
    /\ stat = [pipes |-> 0, subs |-> 0, bufs |-> 0]
    /\ hk = [c \in Counters |-> 0]
    /\ loc = [t \in Actors |-> Idle]
    /\ hold = [t \in Tasks |-> NoBuf]
    /\ appState = [a \in Apps |-> "running"]
    /\ todo = {}

-----------------------------------------------------------------------------
(* Helpers.                                                                *)

(* Mutant of IsMatch: any slot in use will do. *)
IsSlotUsed(pid) == pid \in PipeIds /\ pipeId[Slot(pid)] # FREE

(* CFE_SB_LocatePipeDescByID followed by CFE_SB_PipeDescIsMatch. *)
IsMatch(pid) == pid \in PipeIds /\ pipeId[Slot(pid)] = pid

(* Mutant of SlotUsed: a reserved slot is taken for a free one. *)
SlotPublished(s) == pipeId[s] \in PipeIds

(* CFE_SB_CheckPipeDescSlotUsed: reserved slots count as used. *)
SlotUsed(s) == pipeId[s] # FREE

(* CFE_ES_GetAppID: undefined once the records of the application and its  *)
(* tasks are marked for removal.                                           *)
Caller(t) == IF appState[AppOf[t]] = "running" THEN AppOf[t] ELSE NoApp

Allocated(b) == desc[b].use > 0

(* Mutants: a reference is forgotten, or counted twice; a buffer is freed   *)
(* early.                                                                   *)
IncrLess(d, n) == [d EXCEPT !.use = IF n > 1 THEN @ + n - 1 ELSE @ + n]
IncrMore(d, n) == [d EXCEPT !.use = @ + n + 1]
DecrEarly(d) == IF d.use > 2 THEN [d EXCEPT !.use = @ - 1] ELSE FreeDesc

(* CFE_SB_IncrBufUseCnt (n times) and CFE_SB_DecrBufUseCnt on a descriptor. *)
Incr(d, n) == [d EXCEPT !.use = IF @ + n <= USE_CAP THEN @ + n
                                ELSE IF @ < USE_CAP THEN USE_CAP ELSE @]
Decr(d) == IF d.use > 1 THEN [d EXCEPT !.use = @ - 1]
           ELSE IF d.use = 1 THEN FreeDesc ELSE d

(* Buffers that the new descriptors `nd' have returned to the pool. *)
Freed(nd) == {b \in Buffers : desc[b].use > 0 /\ nd[b].use = 0}

(* Replace the descriptors, keeping SBBuffersInUse. *)
SetDesc(nd) ==
    /\ desc' = nd
    /\ stat' = [stat EXCEPT !.bufs = @ - Cardinality(Freed(nd))]

DecrUse(b) == SetDesc([desc EXCEPT ![b] = Decr(@)])

(* Add n(c) to every error counter c. *)
Count(n) == hk' = [c \in Counters |-> (hk[c] + n[c]) % CounterMod[c]]
One(c) == [k \in Counters |-> IF k = c THEN 1 ELSE 0]

Goto(t, record) == loc' = [loc EXCEPT ![t] = record]
(* Return from a call; the cleaner goes on with its clean-up. *)
Finish(t) == Goto(t, IF t = Cleaner
                       THEN [Idle EXCEPT !.pc = "cl_next", !.app = loc[t].app]
                       ELSE Idle)

(* A task starts API call c. *)
Starts(t, c) ==
    /\ loc[t].pc = "idle"
    /\ c \in Calls[t]
    /\ QuietCleanup => appState[AppOf[t]] = "running"

(* Pipe IDs handed out so far, deleted ones included: what a caller can     *)
(* pass.                                                                    *)
Issued == 1..lastPipeId

-----------------------------------------------------------------------------
(* CFE_SB_CreatePipe: reserve a slot under the lock, create the OSAL queue *)
(* without it, publish (or free) the slot under the lock again.  An error  *)
(* found in the first bracket only bumps a counter in the last one; the    *)
(* two are one step.                                                       *)

CreatePipeBegin(t) ==
    /\ Starts(t, "CreatePipe")
    /\ lastPipeId + MAX_PIPES < SerialMax        \* bound: no serial wraps
    /\ \E depth \in Depths :
         LET pid == FindNext(lastPipeId, MAX_PIPES, SerialMax,
                         {s \in Slots : SlotUsed(s)}, FREE)
             bad == depth = 0 \/ depth > MAX_DEPTH \/ pid = FREE
         IN  \/ /\ bad
                /\ Count(One("CreatePipe"))
                /\ UNCHANGED <<tables, loc>>
             \/ /\ ~bad
                /\ pipeId' = [pipeId EXCEPT ![Slot(pid)] = RESERVED]
                /\ pipe' = [pipe EXCEPT ![Slot(pid)] = ClearPipe]
                /\ lastPipeId' = pid
                /\ Goto(t, [Idle EXCEPT !.pc = "cr_queue", !.pid = pid,
                                        !.app = Caller(t), !.n = depth])
                /\ UNCHANGED hk
    /\ UNCHANGED <<queues, routing, desc, stat, apps>>

(* OS_QueueCreate may fail: name taken, no free IDs. *)
CreatePipeQueue(t) ==
    /\ loc[t].pc = "cr_queue"
    /\ \/ /\ queue' = [queue EXCEPT ![loc[t].pid] = <<>>]
          /\ qcap' = [qcap EXCEPT ![loc[t].pid] = loc[t].n]
          /\ Goto(t, [loc[t] EXCEPT !.pc = "cr_end", !.res = "ok"])
       \/ /\ Goto(t, [loc[t] EXCEPT !.pc = "cr_end", !.res = "error"])
          /\ UNCHANGED queues
    /\ UNCHANGED <<tables, routing, desc, stat, hk, apps>>

CreatePipeEnd(t) ==
    LET pid == loc[t].pid
        slot == Slot(pid)
    IN  /\ loc[t].pc = "cr_end"
        /\ \/ /\ loc[t].res = "ok"
              /\ pipe' = [pipe EXCEPT ![slot].queue = pid,
                                      ![slot].max = loc[t].n,
                                      ![slot].app = loc[t].app]
              /\ pipeId' = [pipeId EXCEPT ![slot] = pid]
              /\ stat' = [stat EXCEPT !.pipes = @ + 1]
              /\ UNCHANGED hk
           \/ /\ loc[t].res = "error"
              /\ pipeId' = [pipeId EXCEPT ![slot] = FREE]
              /\ Count(One("CreatePipe"))
              /\ UNCHANGED <<pipe, stat>>
        /\ Finish(t)
        /\ UNCHANGED <<lastPipeId, queues, routing, desc, apps>>

-----------------------------------------------------------------------------
(* CFE_SB_DeletePipeFull, on behalf of application `app'.                  *)

(* First bracket: CFE_SB_RemovePipeFromRoute for every route, then the     *)
(* slot is reserved so that nothing can reach the pipe any more.           *)
DeletePipeFull(t, pid, app) ==
    LET slot == Slot(pid)
        mine == IsMatch(pid) /\ pipe[slot].app = app
        from == {m \in routes : pid \in subs[m]}
    IN  /\ \/ /\ ~mine
              /\ Count(One("CreatePipe"))
              /\ Finish(t)
              /\ UNCHANGED <<pipeId, subs, dst, stat>>
           \/ /\ mine
              /\ subs' = [m \in Msgs |-> IF m \in from THEN subs[m] \ {pid}
                                                       ELSE subs[m]]
              /\ dst' = [m \in Msgs |-> IF m \in from
                                          THEN [dst[m] EXCEPT ![pid] = NoDest]
                                          ELSE dst[m]]
              /\ stat' = [stat EXCEPT !.subs = @ - Cardinality(from)]
              /\ pipeId' = [pipeId EXCEPT ![slot] = RESERVED]
              /\ Goto(t, [Idle EXCEPT !.pc = "del_drain", !.pid = pid,
                                      !.buf = pipe[slot].last,
                                      !.app = app])
              /\ UNCHANGED hk
        /\ UNCHANGED <<pipe, lastPipeId, queues, routes, desc>>

DeletePipe(t) ==
    /\ Starts(t, "DeletePipe")
    /\ \E pid \in Issued : DeletePipeFull(t, pid, Caller(t))
    /\ UNCHANGED apps

(* Mutant of QueueLooksEmpty: OS_PEND for OS_CHECK. *)
QueueNeverEmpty(pid) == pid \notin PipeIds

(* OS_QueueGet with OS_CHECK reports an empty queue. *)
QueueLooksEmpty(pid) == queue[pid] = <<>>

(* The drain loop: release the buffer in hand, or take the next one off    *)
(* the queue, or leave when the queue is empty.                            *)
DeletePipeDrain(t) ==
    LET pid == loc[t].pid
    IN  /\ loc[t].pc = "del_drain"
        /\ \/ /\ loc[t].buf # NoBuf
              /\ DecrUse(loc[t].buf)
              /\ Goto(t, [loc[t] EXCEPT !.buf = NoBuf])
              /\ UNCHANGED queue
           \/ /\ loc[t].buf = NoBuf /\ queue[pid] # <<>>
              /\ queue' = [queue EXCEPT ![pid] = Tail(@)]
              /\ Goto(t, [loc[t] EXCEPT !.buf = Head(queue[pid])])
              /\ UNCHANGED <<desc, stat>>
           \/ /\ loc[t].buf = NoBuf /\ QueueLooksEmpty(pid)
              /\ Goto(t, [loc[t] EXCEPT !.pc = "del_queue"])
              /\ UNCHANGED <<queue, desc, stat>>
        /\ UNCHANGED <<tables, qcap, routing, hk, apps>>

(* Mutant of DeletePipeQueue: the OSAL queue is not deleted. *)
DeletePipeNoQueue(t) ==
    /\ loc[t].pc = "del_queue"
    /\ Goto(t, [loc[t] EXCEPT !.pc = "del_end"])
    /\ UNCHANGED <<tables, queues, routing, desc, stat, hk, apps>>

(* OS_QueueDelete discards whatever the queue still holds. *)
DeletePipeQueue(t) ==
    /\ loc[t].pc = "del_queue"
    /\ queue' = [queue EXCEPT ![loc[t].pid] = <<>>]
    /\ qcap' = [qcap EXCEPT ![loc[t].pid] = 0]
    /\ Goto(t, [loc[t] EXCEPT !.pc = "del_end"])
    /\ UNCHANGED <<tables, routing, desc, stat, hk, apps>>

DeletePipeEnd(t) ==
    /\ loc[t].pc = "del_end"
    /\ pipeId' = [pipeId EXCEPT ![Slot(loc[t].pid)] = FREE]
    /\ stat' = [stat EXCEPT !.pipes = @ - 1]
    /\ Finish(t)
    /\ UNCHANGED <<pipe, lastPipeId, queues, routing, desc, hk, apps>>

-----------------------------------------------------------------------------
(* CFE_SB_SetPipeOpts, CFE_SB_SubscribeFull, CFE_SB_UnsubscribeFull: one   *)
(* bracket each.                                                           *)

SetPipeOpts(t) ==
    /\ Starts(t, "SetPipeOpts")
    /\ Caller(t) # NoApp
    /\ \E pid \in Issued, ignore \in BOOLEAN :
         LET mine == IsMatch(pid) /\ pipe[Slot(pid)].app = Caller(t)
         IN  \/ /\ mine
                /\ pipe' = [pipe EXCEPT ![Slot(pid)].ignoreMine = ignore]
                /\ UNCHANGED hk
             \/ /\ ~mine
                /\ Count(One("PipeOpts"))
                /\ UNCHANGED pipe
    /\ UNCHANGED <<pipeId, lastPipeId, queues, routing, desc, stat, loc, apps>>

(* The pipe must exist and belong to the caller; the route is made on the  *)
(* first subscription to a message (and stays); the destination may be a   *)
(* duplicate, one too many, or impossible to allocate from the SB pool.    *)
Subscribe(t) ==
    /\ Starts(t, "Subscribe")
    /\ \E m \in Msgs, pid \in Issued, lim \in MsgLims :
         LET mine == IsMatch(pid) /\ pipe[Slot(pid)].app = Caller(t)
             routed == m \in routes \/ Cardinality(routes) < MAX_MSG_IDS
             dup == pid \in subs[m]
             room == Cardinality(subs[m]) < MAX_DEST_PER_PKT
         IN  /\ routes' = IF mine /\ routed THEN routes \cup {m} ELSE routes
             /\ \/ /\ mine /\ routed /\ ~dup /\ room
                   /\ subs' = [subs EXCEPT ![m] = @ \cup {pid}]
                   /\ dst' = [dst EXCEPT ![m][pid] =
                                [lim |-> lim, count |-> 0, active |-> TRUE]]
                   /\ stat' = [stat EXCEPT !.subs = @ + 1]
                   /\ UNCHANGED hk
                \/ /\ mine /\ routed /\ dup
                   /\ Count(One("DuplicateSub"))
                   /\ UNCHANGED <<subs, dst, stat>>
                \/ /\ ~(mine /\ routed /\ dup)
                   /\ Count(One("Subscribe"))
                   /\ UNCHANGED <<subs, dst, stat>>
    /\ UNCHANGED <<tables, queues, desc, loc, apps>>

(* Every refusal of CFE_SB_UnsubscribeFull changes nothing. *)
Unsubscribe(t) ==
    /\ Starts(t, "Unsubscribe")
    /\ \E m \in routes, pid \in Issued :
         /\ IsMatch(pid) /\ pipe[Slot(pid)].app = Caller(t)
         /\ pid \in subs[m]
         /\ subs' = [subs EXCEPT ![m] = @ \ {pid}]
         /\ dst' = [dst EXCEPT ![m][pid] = NoDest]
         /\ stat' = [stat EXCEPT !.subs = @ - 1]
    /\ UNCHANGED <<tables, queues, routes, desc, hk, loc, apps>>

-----------------------------------------------------------------------------
(* CFE_SB_BroadcastBufferToRoute: offer the buffer to every destination of *)
(* its route, give up the sender's reference, track it as in transit.  A   *)
(* pipe is at most once in a destination list and the whole loop runs in   *)
(* one bracket, so the destinations are served all at once.                *)

(* Destinations the loop does not skip: active, existing, and not the      *)
(* sender's own pipe when that ignores its owner's messages.               *)
Served(m, app) ==
    {p \in subs[m] : /\ dst[m][p].active
                     /\ IsMatch(p)
                     /\ ~(pipe[Slot(p)].ignoreMine /\ pipe[Slot(p)].app = app)}

(* Mutant of OverLimit: off by one. *)
OverLimitLate(m, pids) == {p \in pids : dst[m][p].count > dst[m][p].lim}
OverLimit(m, pids) == {p \in pids : dst[m][p].count >= dst[m][p].lim}
(* OS_QueuePut fails with OS_QUEUE_FULL, or otherwise (no such queue). *)
QueueFull(pids) == {p \in pids : qcap[p] > 0 /\ Len(queue[p]) >= qcap[p]}
QueueGone(pids) == {p \in pids : qcap[p] = 0}

(* Mutant of Launched: the descriptor keeps its owner. *)
LaunchedOwned(d) == [d EXCEPT !.list = "inTransit"]

(* The buffer has no single owner any more and moves to the InTransitList. *)
Launched(d) == [d EXCEPT !.app = NoApp, !.list = "inTransit"]
Delivered(r) == [r EXCEPT !.depth = @ + 1,
                          !.peak = IF r.depth + 1 >= @ THEN r.depth + 1 ELSE @]

Broadcast(t, b, m, routed) ==
    LET served == IF routed THEN Served(m, Caller(t)) ELSE {}
        over == OverLimit(m, served)
        full == QueueFull(served \ over)
        gone == QueueGone(served \ over)
        sent == served \ (over \cup full \cup gone)
    IN  /\ queue' = [p \in PipeIds |-> IF p \in sent THEN Append(queue[p], b)
                                                     ELSE queue[p]]
        /\ dst' = [dst EXCEPT ![m] =
                     [p \in PipeIds |->
                        IF p \in sent THEN [dst[m][p] EXCEPT !.count = @ + 1]
                                      ELSE dst[m][p]]]
        /\ pipe' = [s \in Slots |->
                      IF \E p \in sent : Slot(p) = s THEN Delivered(pipe[s])
                                                     ELSE pipe[s]]
        /\ SetDesc([desc EXCEPT ![b] =
                      Decr(Launched(Incr(@, Cardinality(sent))))])
        /\ Count([c \in Counters |->
                    CASE c = "MsgLimit" -> Cardinality(over)
                      [] c = "PipeOverflow" -> Cardinality(full)
                      [] c = "Internal" -> Cardinality(gone)
                      [] c = "MsgSend" -> IF served = sent THEN 0 ELSE 1
                      [] OTHER -> 0])
        /\ Finish(t)
        /\ UNCHANGED <<pipeId, lastPipeId, qcap, routes, subs>>

-----------------------------------------------------------------------------
(* CFE_SB_TransmitMsg: look the route up; take a buffer; fill and send it. *)

TransmitMsg(t) ==
    /\ Starts(t, "TransmitMsg")
    /\ \/ /\ Count(One("MsgSend"))     \* invalid message ID, or too big
          /\ UNCHANGED loc
       \/ \E m \in routes :
             /\ Goto(t, [Idle EXCEPT !.pc = "tx_alloc", !.msg = m])
             /\ UNCHANGED hk
       \/ /\ Msgs \ routes # {}
          /\ Count(One("NoSubscribers"))
          /\ UNCHANGED loc
    /\ UNCHANGED <<tables, queues, routing, desc, stat, apps>>

(* The message ID is stored outside the lock, into a buffer nobody else    *)
(* knows of yet.                                                           *)
TransmitMsgAlloc(t) ==
    /\ loc[t].pc = "tx_alloc"
    /\ \/ \E b \in Buffers :
             /\ ~Allocated(b)
             /\ desc' = [desc EXCEPT ![b] =
                           [FreshDesc EXCEPT !.msg = loc[t].msg]]
             /\ stat' = [stat EXCEPT !.bufs = @ + 1]
             /\ Goto(t, [loc[t] EXCEPT !.pc = "tx_cast", !.buf = b])
             /\ UNCHANGED hk
       \/ /\ \A b \in Buffers : Allocated(b)
          /\ Count(One("MsgSend"))
          /\ Finish(t)
          /\ UNCHANGED <<desc, stat>>
    /\ UNCHANGED <<tables, queues, routing, apps>>

TransmitMsgCast(t) ==
    /\ loc[t].pc = "tx_cast"
    /\ Broadcast(t, loc[t].buf, loc[t].msg, TRUE)
    /\ UNCHANGED apps

-----------------------------------------------------------------------------
(* CFE_SB_ReceiveBuffer.                                                   *)

Receiving(t, pid) == loc[t].pc \in {"rcv_get", "rcv_end"} /\ loc[t].pid = pid

(* First bracket: release the buffer of the previous call.  loc.n is 1 for *)
(* CFE_SB_POLL and finite timeouts, 0 for CFE_SB_PEND_FOREVER.             *)
ReceiveFrom(t, pid, finite) ==
    /\ Starts(t, "ReceiveBuffer")
    /\ SharedPipes \/ \A u \in Tasks : ~Receiving(u, pid)
    /\ \/ /\ IsMatch(pid)
          /\ IF pipe[Slot(pid)].last = NoBuf
               THEN UNCHANGED <<pipe, desc, stat>>
               ELSE /\ DecrUse(pipe[Slot(pid)].last)
                    /\ pipe' = [pipe EXCEPT ![Slot(pid)].last = NoBuf]
          /\ Goto(t, [Idle EXCEPT !.pc = "rcv_get", !.pid = pid, !.n = finite])
          /\ UNCHANGED hk
       \/ /\ ~IsMatch(pid)
          /\ Count(One("MsgReceive"))
          /\ UNCHANGED <<pipe, desc, stat, loc>>
    /\ UNCHANGED <<pipeId, lastPipeId, queues, routing, apps>>

ReceiveBuffer(t) ==
    \E pid \in Issued, finite \in {0, 1} : ReceiveFrom(t, pid, finite)

(* A NULL output pointer or a bad timeout value. *)
ReceiveBadArgument(t) ==
    /\ Starts(t, "ReceiveBuffer")
    /\ Count(One("MsgReceive"))
    /\ UNCHANGED <<tables, queues, routing, desc, stat, loc, apps>>

(* OS_QueueGet, without the lock: a buffer; nothing, for a poll or when    *)
(* the timeout expires; an error if the queue has been deleted.            *)
ReceiveBufferGet(t) ==
    LET pid == loc[t].pid
    IN  /\ loc[t].pc = "rcv_get"
        /\ \/ /\ queue[pid] # <<>>
              /\ queue' = [queue EXCEPT ![pid] = Tail(@)]
              /\ Goto(t, [loc[t] EXCEPT !.pc = "rcv_end", !.n = 0, !.res = "ok",
                                        !.buf = Head(queue[pid])])
           \/ /\ queue[pid] = <<>> /\ qcap[pid] > 0 /\ loc[t].n = 1
              /\ Goto(t, [loc[t] EXCEPT !.pc = "rcv_end", !.n = 0,
                                        !.res = "empty"])
              /\ UNCHANGED queue
           \/ /\ qcap[pid] = 0
              /\ Goto(t, [loc[t] EXCEPT !.pc = "rcv_end", !.n = 0,
                                        !.res = "error"])
              /\ UNCHANGED queue
        /\ UNCHANGED <<tables, qcap, routing, desc, stat, hk, apps>>

(* Mutant of Received: BuffCount is decremented although the message was   *)
(* unsubscribed meanwhile.                                                  *)
ReceivedAlways(m, pid) == [dst EXCEPT ![m][pid].count = @ - 1]

(* BuffCount goes down, unless the message was unsubscribed (and possibly  *)
(* subscribed again) while it was on the pipe.                             *)
Received(m, pid) ==
    IF m \in routes /\ pid \in subs[m] /\ dst[m][pid].count > 0
      THEN [dst EXCEPT ![m][pid].count = @ - 1]
      ELSE dst

(* Last bracket.  The pipe may have been deleted meanwhile. *)
ReceiveBufferEnd(t) ==
    LET pid == loc[t].pid
        b == loc[t].buf
        m == desc[b].msg
    IN  /\ loc[t].pc = "rcv_end"
        /\ \/ /\ loc[t].res = "ok" /\ IsMatch(pid)
              /\ pipe' = [pipe EXCEPT ![Slot(pid)].last = b,
                                      ![Slot(pid)].depth = IF @ > 0 THEN @ - 1
                                                                    ELSE 0]
              /\ dst' = Received(m, pid)
              /\ SetDesc([desc EXCEPT ![b] = Decr(Incr(@, 1))])
              /\ UNCHANGED hk
           \/ /\ loc[t].res = "ok" /\ ~IsMatch(pid)
              /\ DecrUse(b)
              /\ Count(One("MsgReceive"))
              /\ UNCHANGED <<pipe, dst>>
           \/ /\ loc[t].res \in {"empty", "error"}
              /\ Count(One("Internal"))
              /\ UNCHANGED <<pipe, dst, desc, stat>>
        /\ Finish(t)
        /\ UNCHANGED <<pipeId, lastPipeId, queues, routes, subs, apps>>

-----------------------------------------------------------------------------
(* Zero copy: CFE_SB_AllocateMessageBuffer, CFE_SB_ReleaseMessageBuffer    *)
(* and CFE_SB_TransmitBuffer.  A task holds one such pointer at a time.    *)

AllocateMessageBuffer(t) ==
    /\ Starts(t, "Allocate")
    /\ hold[t] = NoBuf
    /\ Caller(t) # NoApp
    /\ \E b \in Buffers :
         /\ ~Allocated(b)
         /\ desc' = [desc EXCEPT ![b] = [FreshDesc EXCEPT !.app = Caller(t),
                                                          !.list = "zeroCopy"]]
         /\ hold' = [hold EXCEPT ![t] = b]
    /\ stat' = [stat EXCEPT !.bufs = @ + 1]
    /\ UNCHANGED <<tables, queues, routing, hk, loc, appState, todo>>

(* CFE_SB_ZeroCopyBufferValidate reads the descriptor without the lock.    *)
(* Freed pool memory may or may not still show an owner.                   *)
MayLookOwned(b) == Allocated(b) => desc[b].app # NoApp
MayLookInvalid(b) == desc[b].app = NoApp

ReleaseMessageBuffer(t) ==
    /\ Starts(t, "Release")
    /\ hold[t] # NoBuf
    /\ \/ /\ MayLookOwned(hold[t])
          /\ Goto(t, [Idle EXCEPT !.pc = "rel", !.buf = hold[t]])
          /\ UNCHANGED hold
       \/ /\ MayLookInvalid(hold[t])
          /\ hold' = [hold EXCEPT ![t] = NoBuf]
          /\ UNCHANGED loc
    /\ UNCHANGED <<tables, queues, routing, desc, stat, hk, appState, todo>>

ReleaseMessageBufferEnd(t) ==
    /\ loc[t].pc = "rel"
    /\ SetDesc([desc EXCEPT ![loc[t].buf] = Decr([@ EXCEPT !.app = NoApp])])
    /\ hold' = [hold EXCEPT ![t] = NoBuf]
    /\ Finish(t)
    /\ UNCHANGED <<tables, queues, routing, hk, appState, todo>>

(* The content of the buffer: a valid message m, an oversized message m,   *)
(* or an invalid message ID.                                               *)
TransmitBuffer(t) ==
    /\ Starts(t, "TransmitBuffer")
    /\ hold[t] # NoBuf
    /\ \/ /\ MayLookOwned(hold[t])
          /\ \/ \E m \in Msgs, res \in {"ok", "invalid"} :
                   Goto(t, [Idle EXCEPT !.pc = "zc_check", !.buf = hold[t],
                                        !.msg = m, !.res = res])
             \/ Goto(t, [Idle EXCEPT !.pc = "zc_check", !.buf = hold[t],
                                     !.res = "invalid"])
          /\ UNCHANGED <<hk, hold>>
       \/ /\ MayLookInvalid(hold[t])
          /\ Count(One("MsgSend"))
          /\ hold' = [hold EXCEPT ![t] = NoBuf]
          /\ UNCHANGED loc
    /\ UNCHANGED <<tables, queues, routing, desc, stat, appState, todo>>

(* CFE_SB_TransmitMsgValidate stores the message ID straight into the      *)
(* descriptor, then looks the route up.                                    *)
TransmitBufferValidate(t) ==
    LET m == loc[t].msg
    IN  /\ loc[t].pc = "zc_check"
        /\ desc' = [desc EXCEPT ![loc[t].buf].msg = m]
        /\ \/ /\ loc[t].res = "invalid"
              /\ Count(One("MsgSend"))
              /\ Finish(t)
           \/ /\ loc[t].res = "ok" /\ m \in routes
              /\ Goto(t, [loc[t] EXCEPT !.pc = "zc_cast", !.res = "route"])
              /\ UNCHANGED hk
           \/ /\ loc[t].res = "ok" /\ m \notin routes
              /\ Count(One("NoSubscribers"))
              /\ Goto(t, [loc[t] EXCEPT !.pc = "zc_cast", !.res = "noroute"])
        /\ UNCHANGED <<tables, queues, routing, stat, apps>>

TransmitBufferCast(t) ==
    /\ loc[t].pc = "zc_cast"
    /\ Broadcast(t, loc[t].buf, loc[t].msg, loc[t].res = "route")
    /\ hold' = [hold EXCEPT ![t] = NoBuf]
    /\ UNCHANGED <<appState, todo>>

-----------------------------------------------------------------------------
(* CFE_SB_GetPipeIdByName: the name is looked up in OSAL before the lock   *)
(* is taken; under the lock the first slot with that queue is returned,    *)
(* whatever its PipeId.                                                    *)

GetPipeIdByName(t) ==
    /\ Starts(t, "GetPipeIdByName")
    /\ \/ \E pid \in Issued :
             /\ qcap[pid] > 0
             /\ Goto(t, [Idle EXCEPT !.pc = "by_name", !.pid = pid])
             /\ UNCHANGED hk
       \/ /\ Count(One("GetPipeIdByName"))
          /\ UNCHANGED loc
    /\ UNCHANGED <<tables, queues, routing, desc, stat, apps>>

Named(pid) == {s \in Slots : pipe[s].queue = pid}

GetPipeIdByNameEnd(t) ==
    /\ loc[t].pc = "by_name"
    /\ IF Named(loc[t].pid) = {} THEN Count(One("GetPipeIdByName"))
                                 ELSE UNCHANGED hk
    /\ Finish(t)
    /\ UNCHANGED <<tables, queues, routing, desc, stat, apps>>

-----------------------------------------------------------------------------
(* Ground commands, executed by the SB task: CFE_SB_EnableRouteCmd and     *)
(* CFE_SB_DisableRouteCmd, and CFE_SB_ResetCounters (which leaves          *)
(* PipeOptsErrorCounter alone).                                            *)

RouteCmd(t) ==
    /\ Starts(t, "RouteCmd")
    /\ \/ \E m \in routes, pid \in Issued, active \in BOOLEAN :
             /\ IsMatch(pid) /\ pid \in subs[m]
             /\ dst' = [dst EXCEPT ![m][pid].active = active]
             /\ Count(One("Command"))
       \/ /\ \E m \in Msgs, pid \in Issued : ~(IsMatch(pid) /\ pid \in subs[m])
          /\ Count(One("CommandError"))
          /\ UNCHANGED dst
    /\ UNCHANGED <<tables, queues, routes, subs, desc, stat, loc, apps>>

ResetCounters(t) ==
    /\ Starts(t, "ResetCounters")
    /\ hk' = [c \in Counters |-> IF c = "PipeOpts" THEN hk[c] ELSE 0]
    /\ UNCHANGED <<tables, queues, routing, desc, stat, loc, apps>>

-----------------------------------------------------------------------------
(* CFE_ES_CleanUpApp, as far as it concerns SB.  ES first marks the        *)
(* records of the application and of its tasks, so that CFE_ES_GetAppID    *)
(* fails in them; it calls CFE_SB_CleanUpApp; only then it deletes the     *)
(* tasks, one after the other.                                             *)

TasksOf(a) == {t \in Tasks : AppOf[t] = a}

CleanUpBegin(a) ==
    /\ loc[Cleaner].pc = "idle"
    /\ appState[a] = "running"
    /\ QuietCleanup => \A t \in TasksOf(a) : loc[t].pc \in {"idle", "rcv_get"}
    /\ appState' = [appState EXCEPT ![a] = "cleaning"]
    /\ Goto(Cleaner, [Idle EXCEPT !.pc = "cl_list", !.app = a])
    /\ UNCHANGED <<tables, queues, routing, desc, stat, hk, hold, todo>>

(* First bracket of CFE_SB_CleanUpApp: the pipes of the application. *)
CleanUpList ==
    LET a == loc[Cleaner].app
    IN  /\ loc[Cleaner].pc = "cl_list"
        /\ todo' = {pipeId[s] : s \in {r \in Slots : /\ pipeId[r] # FREE
                                                     /\ pipeId[r] # RESERVED
                                                     /\ pipe[r].app = a}}
        /\ Goto(Cleaner, [loc[Cleaner] EXCEPT !.pc = "cl_next"])
        /\ UNCHANGED <<tables, queues, routing, desc, stat, hk, hold, appState>>

(* CFE_SB_DeletePipeWithAppId for the next pipe of the list, in table order. *)
CleanUpDeletePipe ==
    /\ loc[Cleaner].pc = "cl_next"
    /\ \E pid \in todo :
         /\ \A other \in todo : Slot(pid) <= Slot(other)
         /\ todo' = todo \ {pid}
         /\ DeletePipeFull(Cleaner, pid, loc[Cleaner].app)
    /\ UNCHANGED <<hold, appState>>

(* Mutant of ZeroCopyOf: the wrong list is searched. *)
InTransitOf(a) == {b \in Buffers : desc[b].list = "inTransit" /\ desc[b].app = a}

ZeroCopyOf(a) == {b \in Buffers : desc[b].list = "zeroCopy" /\ desc[b].app = a}

(* CFE_SB_ZeroCopyReleaseAppId, one bracket. *)
CleanUpZeroCopy ==
    LET mine == ZeroCopyOf(loc[Cleaner].app)
    IN  /\ loc[Cleaner].pc = "cl_next" /\ todo = {}
        /\ SetDesc([b \in Buffers |-> IF b \in mine THEN Decr(desc[b])
                                                    ELSE desc[b]])
        /\ Goto(Cleaner, [loc[Cleaner] EXCEPT !.pc = "cl_kill"])
        /\ UNCHANGED <<tables, queues, routing, hk, apps>>

(* OS_TaskDelete.  Cancellation is deferred: a task dies between calls or  *)
(* blocked in OS_QueueGet, not inside a bracket.                           *)
KillTask(t) ==
    /\ loc[Cleaner].pc = "cl_kill" /\ AppOf[t] = loc[Cleaner].app
    /\ loc[t].pc \in {"idle", "rcv_get"}
    /\ Goto(t, [Idle EXCEPT !.pc = "dead"])
    /\ hold' = [hold EXCEPT ![t] = NoBuf]
    /\ UNCHANGED <<tables, queues, routing, desc, stat, hk, appState, todo>>

CleanUpEnd ==
    LET a == loc[Cleaner].app
    IN  /\ loc[Cleaner].pc = "cl_kill"
        /\ \A t \in TasksOf(a) : loc[t].pc = "dead"
        /\ appState' = [appState EXCEPT ![a] = "gone"]
        /\ Goto(Cleaner, Idle)
        /\ UNCHANGED <<tables, queues, routing, desc, stat, hk, hold, todo>>

-----------------------------------------------------------------------------
(* A task starts a call ...                                                *)
Start(t) ==
    \/ CreatePipeBegin(t) \/ DeletePipe(t) \/ SetPipeOpts(t)
    \/ Subscribe(t) \/ Unsubscribe(t)
    \/ TransmitMsg(t) \/ ReceiveBuffer(t) \/ ReceiveBadArgument(t)
    \/ AllocateMessageBuffer(t) \/ ReleaseMessageBuffer(t) \/ TransmitBuffer(t)
    \/ GetPipeIdByName(t) \/ RouteCmd(t) \/ ResetCounters(t)

(* ... goes on with the call it is in ...                                  *)
Continue(t) ==
    \/ CreatePipeQueue(t) \/ CreatePipeEnd(t)
    \/ TransmitMsgAlloc(t) \/ TransmitMsgCast(t)
    \/ ReceiveBufferGet(t) \/ ReceiveBufferEnd(t)
    \/ ReleaseMessageBufferEnd(t)
    \/ TransmitBufferValidate(t) \/ TransmitBufferCast(t)
    \/ GetPipeIdByNameEnd(t)

DeleteStep(t) ==
    DeletePipeDrain(t) \/ DeletePipeQueue(t) \/ DeletePipeEnd(t)

(* ... and ES cleans up.                                                   *)
CleanUpStep == CleanUpList \/ CleanUpDeletePipe \/ CleanUpZeroCopy \/ CleanUpEnd

Next ==
    \/ \E t \in Tasks : Start(t) \/ Continue(t) \/ KillTask(t)
    \/ \E t \in Actors : DeleteStep(t)
    \/ \E a \in Apps : CleanUpBegin(a)
    \/ CleanUpStep

(* A task that is inside a call keeps running; the same goes for the       *)
(* cleaner.  Nothing forces an application to start a call, and nothing    *)
(* forces OSAL to wake a receiver whose queue was deleted.                 *)
Wakes(t) == loc[t].pc = "rcv_get" => qcap[loc[t].pid] > 0

Fairness ==
    /\ \A t \in Tasks : /\ WF_vars(Wakes(t) /\ Continue(t))
                        /\ WF_vars(KillTask(t))
    /\ \A t \in Actors : WF_vars(DeleteStep(t))
    /\ WF_vars(CleanUpStep)

Spec == Init /\ [][Next]_vars
FairSpec == Spec /\ Fairness

(* An application's main loop: every pipe is polled again and again.       *)
Serviced == \A t \in Tasks, pid \in PipeIds :
                WF_vars(IsMatch(pid) /\ ReceiveFrom(t, pid, 1))
=============================================================================
