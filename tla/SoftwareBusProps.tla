-------------------------- MODULE SoftwareBusProps --------------------------
(***************************************************************************)
(* What must hold of the Software Bus: its type invariant, the relations   *)
(* between its tables, buffers and queues that every interleaving of the   *)
(* brackets must keep, what a step may never do, and what must happen.     *)
(***************************************************************************)
EXTENDS SoftwareBus

(* Every variable keeps its type: among others, a counter never goes below *)
(* zero and a slot holds a pipe ID, FREE or RESERVED.                      *)
TypeOK ==
    /\ pipeId \in [Slots -> PipeIds \cup {FREE, RESERVED}]
    /\ pipe \in [Slots -> PipeRecord]
    /\ lastPipeId \in PipeIds
    /\ queue \in [PipeIds -> Seq(Buffers)]
    /\ qcap \in [PipeIds -> Nat]
    /\ routes \subseteq Msgs
    /\ subs \in [Msgs -> SUBSET PipeIds]
    /\ dst \in [Msgs -> [PipeIds -> DestRecord]]
    /\ desc \in [Buffers -> DescRecord]
    /\ stat \in [pipes : Int, subs : Int, bufs : Int]
    /\ hk \in [Counters -> Nat]
    /\ loc \in [Actors -> LocRecord]
    /\ hold \in [Tasks -> Buffers \cup {NoBuf}]
    /\ appState \in [Apps -> AppStates]
    /\ todo \subseteq PipeIds

Used(s) == pipeId[s] \in PipeIds
InQueue(b, p) == \E i \in DOMAIN queue[p] : queue[p][i] = b

QueuesOf(b) == {p \in PipeIds : InQueue(b, p)}
LastOf(b) == {s \in Slots : Used(s) /\ pipe[s].last = b}
Carriers(b) == {t \in Actors : /\ loc[t].pc \in {"del_drain", "tx_cast", "rcv_end"}
                               /\ loc[t].buf = b}
IssuedTo(b) == {a \in Apps : desc[b].list = "zeroCopy" /\ desc[b].app = a}

(* A buffer's UseCount is the number of references to it: one per queue    *)
(* that holds it, per pipe whose last received buffer it is, per task that *)
(* carries it through an unlocked part of TransmitMsg, ReceiveBuffer or    *)
(* DeletePipe, and one of the application it is issued to.  A buffer in    *)
(* the pool (UseCount 0) is referenced by nothing.                         *)
UseCountExact ==
    \A b \in Buffers :
       desc[b].use = Cardinality(QueuesOf(b)) + Cardinality(LastOf(b))
                     + Cardinality(Carriers(b)) + Cardinality(IssuedTo(b))

(* The tracking lists: exactly the buffers with an owner are on the        *)
(* ZeroCopyList, nothing in the pool is on a list, and a buffer is on no   *)
(* list only while the task in TransmitMsg that took it fills it.          *)
TrackingExact ==
    \A b \in Buffers :
       /\ (desc[b].app # NoApp) <=> (desc[b].list = "zeroCopy")
       /\ ~Allocated(b) => desc[b].list = "none"
       /\ Allocated(b) /\ desc[b].list = "none" =>
             \E t \in Tasks : loc[t].pc = "tx_cast" /\ loc[t].buf = b

(* Counts and lists of all buffers agree with who has them. *)
BuffersExact == UseCountExact /\ TrackingExact

(* Every destination of every route names a pipe that exists, is owned by  *)
(* an application and has its OSAL queue: a message is never put on a      *)
(* queue that is being drained or is gone.                                 *)
SubscriptionsLive ==
    \A m \in Msgs : \A p \in subs[m] :
       m \in routes /\ IsMatch(p) /\ qcap[p] > 0

(* An OSAL queue exists only for a pipe in use or one that a task is just  *)
(* creating or deleting: none is left behind.                              *)
NoOrphanQueue ==
    \A p \in PipeIds : qcap[p] > 0 =>
       \/ IsMatch(p)
       \/ \E t \in Actors : /\ loc[t].pid = p
                            /\ loc[t].pc \in {"cr_end", "del_drain", "del_queue"}

(* A reserved slot belongs to exactly one task, which is between the first *)
(* and the last bracket of CreatePipe or DeletePipe, and that task owns    *)
(* it until it publishes or frees it.                                      *)
Reserving(t) == loc[t].pc \in {"cr_queue", "cr_end", "del_drain", "del_queue",
                               "del_end"}
ReservedOwned ==
    \A s \in Slots :
       LET owners == {t \in Actors : Reserving(t) /\ Slot(loc[t].pid) = s}
       IN  IF pipeId[s] = RESERVED THEN \E t \in Actors : owners = {t}
                                   ELSE owners = {}

(* CurrentQueueDepth of a pipe is the number of messages in its queue plus *)
(* those a receiver has taken but not yet accounted for.                   *)
InFlight(p) == {t \in Tasks : /\ loc[t].pc = "rcv_end" /\ loc[t].res = "ok"
                              /\ loc[t].pid = p}
DepthExact ==
    \A s \in Slots : Used(s) =>
       pipe[s].depth = Len(queue[pipeId[s]]) + Cardinality(InFlight(pipeId[s]))

(* The number of messages m in pipe p, and the ones in flight from it. *)
OnPipe(m, p) == Cardinality({i \in DOMAIN queue[p] : desc[queue[p][i]].msg = m})
InFlightOf(m, p) == Cardinality({t \in InFlight(p) : desc[loc[t].buf].msg = m})

(* BuffCount never exceeds what is really on its way through the pipe, so  *)
(* no message is refused for the limit without cause, also when the        *)
(* subscription was removed and made again meanwhile.                      *)
LimitNotOvercounted ==
    \A m \in Msgs : \A p \in subs[m] :
       dst[m][p].count <= OnPipe(m, p) + InFlightOf(m, p)

(* "The maximum number of messages with this Message ID to allow in this   *)
(* pipe at the same time" (MsgLim of CFE_SB_SubscribeEx).                  *)
MsgLimitKept ==
    \A m \in Msgs : \A p \in subs[m] : OnPipe(m, p) <= dst[m][p].lim

(* The statistics packet tells the truth: PipesInUse counts the pipes that *)
(* exist or are still being taken down, SubscriptionsInUse the             *)
(* destinations of all routes, SBBuffersInUse the buffers out of the pool. *)
StatisticsExact ==
    /\ stat.pipes = Cardinality({s \in Slots : Used(s)})
                    + Cardinality({t \in Actors : loc[t].pc \in
                                    {"del_drain", "del_queue", "del_end"}})
    /\ stat.subs = Cardinality({d \in Msgs \X PipeIds : d[2] \in subs[d[1]]})
    /\ stat.bufs = Cardinality({b \in Buffers : Allocated(b)})

(* All the counts of a bus on which subscriptions come and go agree. *)
CountersExact == TypeOK /\ LimitNotOvercounted /\ StatisticsExact /\ DepthExact

(* Once SB has cleaned up after an application, it owns no pipe and no     *)
(* zero-copy buffer; and no pipe is without an owner.                      *)
CleanedUp(a) == \/ appState[a] = "gone"
                \/ loc[Cleaner].pc = "cl_kill" /\ loc[Cleaner].app = a
CleanUpComplete ==
    /\ \A a \in Apps : CleanedUp(a) =>
          /\ \A s \in Slots : Used(s) => pipe[s].app # a
          /\ \A b \in Buffers : desc[b].app # a
    /\ \A s \in Slots : Used(s) => pipe[s].app # NoApp

(* A pipe ID that has been deleted never names a pipe again: a pipe comes  *)
(* into being only by its creation, and a creation takes a new ID.         *)
Creating(p) == \E t \in Tasks : loc[t].pc \in {"cr_queue", "cr_end"} /\ loc[t].pid = p
NoResurrection ==
    [][/\ \A p \in PipeIds : /\ ~IsMatch(p) /\ IsMatch(p)' => Creating(p)
                             /\ ~Creating(p) /\ Creating(p)' => p > lastPipeId
       /\ lastPipeId' >= lastPipeId]_vars

(* The buffer handed out by ReceiveBuffer stays allocated and keeps its    *)
(* message until the next ReceiveBuffer on that pipe or its deletion.      *)
BorrowedStable ==
    [][\A s \in Slots : Used(s) /\ pipe[s].last # NoBuf =>
          LET b == pipe[s].last
          IN  \/ pipe'[s].last = NoBuf
              \/ pipeId'[s] = RESERVED
              \/ desc'[b].use > 0 /\ desc'[b].msg = desc[b].msg]_vars

(* A deletion that has begun finishes, although its drain loop runs against *)
(* tasks that keep sending; an application whose clean-up has begun goes    *)
(* away, even when its tasks are blocked on its pipes.                      *)
CallsEnd ==
    /\ \A t \in Actors : loc[t].pc = "del_drain" ~> loc[t].pc \in {"idle", "cl_next"}
    /\ \A a \in Apps : appState[a] = "cleaning" ~> appState[a] = "gone"

(* Every buffer that was sent returns to the pool, if the applications     *)
(* keep servicing their pipes: no reference to it is lost or counted twice. *)
BuffersRecycled == Serviced =>
    \A b \in Buffers : desc[b].list = "inTransit" ~> ~Allocated(b)
-----------------------------------------------------------------------------
(* The Software Bus implements the abstract message bus: a pipe exists     *)
(* while its slot is published, its content are the messages of the        *)
(* buffers on its queue, its interest the destination lists.               *)
Bus == INSTANCE MessageBus WITH
         Pipes <- PipeIds,
         unused <- {p \in PipeIds : p > lastPipeId \/ Creating(p)},
         exists <- {p \in PipeIds : IsMatch(p)},
         interest <- subs,
         content <- [p \in PipeIds |->
                       [i \in DOMAIN queue[p] |-> desc[queue[p][i]].msg]]

(* Every step of SB is a step of the message bus or changes nothing it     *)
(* knows of: a message is delivered only to pipes that exist and want it,  *)
(* in order, and what waits on a pipe does not change under it.            *)
ImplementsBus == Bus!BusSpec
=============================================================================
