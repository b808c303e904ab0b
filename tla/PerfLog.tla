-------------------------------- MODULE PerfLog --------------------------------
(***************************************************************************)
(* The performance analyser of Executive Services (cfe_es_perf.c): tasks   *)
(* log events into a ring under a mutex until a trigger, or a command, ends *)
(* the collection; a background job then writes the ring to a file and     *)
(* holds the mutex from pass to pass.  The stop command does not take it.  *)
(* The credit of a pass only says how many turns of the loop it makes: any *)
(* turn may be the last of its pass here.  An event that the filter masks  *)
(* is not logged and not modelled.                                         *)
(***************************************************************************)
EXTENDS Naturals, Sequences

CONSTANTS
    Loggers,    \* tasks that log events
    NoOne,      \* no task
    SIZE,       \* CFE_PLATFORM_ES_PERF_DATA_BUFFER_SIZE
    EventMax    \* bound on the events

PerfAssumption == /\ SIZE \in Nat \ {0, 1} /\ EventMax \in Nat
                  /\ {NoOne, "dump"} \cap Loggers = {}

(* CFE_ES_PerfDumpState_t *)
IDLE == 0
INIT == 1
OPEN_FILE == 2
DELAY == 3
LOCK_DATA == 4
WRITE_FS_HDR == 5
WRITE_PERF_METADATA == 6
WRITE_PERF_ENTRIES == 7
CLEANUP == 8
UNLOCK_DATA == 9
CLOSE_FILE == 10

VARIABLES
    meta,       \* MetaData: State, Mode, TriggerCount, DataStart, DataEnd, DataCount
    ring,       \* DataBuffer
    mutex,      \* who holds PerfDataMutex
    logger,     \* CFE_ES_PerfLogAdd of each task: where it is, and if it triggers
    perf,       \* BackgroundPerfDumpState: CurrentState, PendingState, ...
    written,    \* history: length in the header and entries of the file
    events,     \* history: number of events logged
    logged,     \* history: events logged since the start command
    trigger     \* history: place of the event that triggered among them, or 0

vars == <<meta, ring, mutex, logger, perf, written, events, logged, trigger>>

Quiet == [pc |-> "idle", hits |-> FALSE]
AtRest == [at |-> IDLE, to |-> IDLE, counter |-> 0, pos |-> 0]
NoFile == [length |-> 0, entries |-> <<>>]
Collecting(mode) == [state |-> "waiting", mode |-> mode, hits |-> 0,
                     start |-> 0, end |-> 0, count |-> 0]

Init ==
    /\ meta = [Collecting("start") EXCEPT !.state = "idle"]
    /\ ring = [i \in 0..SIZE - 1 |-> 0]
    /\ mutex = NoOne
    /\ logger = [l \in Loggers |-> Quiet]
    /\ perf = AtRest /\ written = NoFile
    /\ events = 0 /\ logged = <<>> /\ trigger = 0

-----------------------------------------------------------------------------
(* Commands of the ES task, refused while a dump is in progress.           *)
DumpIdle == perf.at = IDLE /\ perf.to = IDLE

StartPerfDataCmd(mode) ==
    /\ DumpIdle /\ mutex = NoOne
    /\ meta' = Collecting(mode)
    /\ logged' = <<>> /\ trigger' = 0
    /\ UNCHANGED <<ring, mutex, logger, perf, written, events>>

(* The file name may be no good: the collection ends all the same.          *)
StopPerfDataCmd ==
    /\ DumpIdle
    /\ meta' = [meta EXCEPT !.state = "idle"]
    /\ \/ perf' = [perf EXCEPT !.to = INIT]
       \/ UNCHANGED perf
    /\ UNCHANGED <<ring, mutex, logger, written, events, logged, trigger>>

-----------------------------------------------------------------------------
(* CFE_ES_PerfLogAdd: the state is looked at without the mutex, ...         *)
PerfLogAdd(l, hits) ==
    /\ logger[l].pc = "idle" /\ meta.state # "idle" /\ events < EventMax
    /\ logger' = [logger EXCEPT ![l] = [pc |-> "take", hits |-> hits]]
    /\ UNCHANGED <<meta, ring, mutex, perf, written, events, logged, trigger>>

(* ... and again with it.                                                   *)
PerfLogEntry(l) ==
    LET end == (meta.end + 1) % SIZE
    IN  /\ logger[l].pc = "take" /\ mutex = NoOne
        /\ IF meta.state = "idle"
             THEN /\ logger' = [logger EXCEPT ![l] = Quiet]
                  /\ UNCHANGED <<meta, ring, mutex, events, logged>>
             ELSE /\ mutex' = l
                  /\ logger' = [logger EXCEPT ![l].pc = "trigger"]
                  /\ events' = events + 1
                  /\ ring' = [ring EXCEPT ![meta.end] = events']
                  /\ meta' = [meta EXCEPT !.end = end,
                                !.count = IF @ < SIZE THEN @ + 1 ELSE @,
                                !.start = IF meta.count < SIZE THEN @ ELSE end]
                  /\ logged' = Append(logged, events')
        /\ UNCHANGED <<perf, written, trigger>>

(* The state is read, and written if this event triggers; the stop command  *)
(* may come between the two.                                                *)
Trigger(l) ==
    /\ logger[l].pc = "trigger"
    /\ logger' = [logger EXCEPT ![l].pc =
                    IF meta.state = "waiting" /\ logger[l].hits THEN "set" ELSE "count"]
    /\ UNCHANGED <<meta, ring, mutex, perf, written, events, logged, trigger>>

SetTriggered(l) ==
    /\ logger[l].pc = "set"
    /\ meta' = [meta EXCEPT !.state = "triggered"]
    /\ logger' = [logger EXCEPT ![l].pc = "count"]
    /\ trigger' = Len(logged)
    /\ UNCHANGED <<ring, mutex, perf, written, events, logged>>

(* How many events, the one that triggered included, end a collection.      *)
Window(mode) == CASE mode = "start" -> SIZE [] mode = "center" -> SIZE \div 2
                  [] mode = "end" -> 1

(* Mutant of Ends: one event too many. *)
EndsLate(hits, mode) == hits > Window(mode)
Ends(hits, mode) == hits >= Window(mode)

CountTrigger(l) ==
    /\ logger[l].pc = "count"
    /\ logger' = [logger EXCEPT ![l] = Quiet] /\ mutex' = NoOne
    /\ meta' = IF meta.state = "triggered"
                 THEN [meta EXCEPT !.hits = @ + 1,
                         !.state = IF Ends(meta.hits + 1, meta.mode) THEN "idle" ELSE @]
                 ELSE meta
    /\ UNCHANGED <<ring, perf, written, events, logged, trigger>>

-----------------------------------------------------------------------------
(* CFE_ES_RunPerfLogDump: a turn of its loop enters a pending state, ...     *)
Blocks(s) == CASE s \in {WRITE_FS_HDR, WRITE_PERF_METADATA} -> 1
               [] s = WRITE_PERF_ENTRIES -> meta.count [] OTHER -> 0
Entered == IF perf.to = perf.at THEN perf
           ELSE [perf EXCEPT !.at = perf.to, !.counter = Blocks(perf.to),
                   !.pos = IF perf.to = WRITE_PERF_ENTRIES THEN meta.start ELSE @]
Enters(s) == perf.at # s /\ perf.to = s

EnterIdle ==
    /\ Enters(IDLE) /\ perf' = Entered
    /\ UNCHANGED <<meta, ring, mutex, logger, written, events, logged, trigger>>

OpenFile ==
    /\ Enters(OPEN_FILE)
    /\ \E next \in {DELAY, IDLE} : perf' = [Entered EXCEPT !.to = next]
    /\ written' = NoFile
    /\ UNCHANGED <<meta, ring, mutex, logger, events, logged, trigger>>

(* ... goes on to the next one when nothing is left to do, ...              *)
Advance ==
    /\ Entered.at \notin {IDLE, OPEN_FILE} /\ Entered.counter = 0
    /\ Enters(LOCK_DATA) => mutex = NoOne
    /\ mutex' = IF Enters(LOCK_DATA) THEN "dump"
                ELSE IF Enters(UNLOCK_DATA) THEN NoOne ELSE mutex
    /\ perf' = [Entered EXCEPT !.to = IF @ = CLOSE_FILE THEN IDLE ELSE @ + 1]
    /\ UNCHANGED <<meta, ring, logger, written, events, logged, trigger>>

(* ... or writes a block; an error goes to the clean-up.                    *)
WriteBlock ==
    LET d == Entered
    IN  /\ d.counter > 0
        /\ \/ /\ perf' = [d EXCEPT !.counter = @ - 1,
                            !.pos = IF d.at = WRITE_PERF_ENTRIES THEN (@ + 1) % SIZE ELSE @]
              /\ written' = CASE d.at = WRITE_FS_HDR -> [written EXCEPT !.length = meta.count]
                              [] d.at = WRITE_PERF_METADATA -> written
                              [] d.at = WRITE_PERF_ENTRIES ->
                                   [written EXCEPT !.entries = Append(@, ring[d.pos])]
           \/ /\ perf' = [d EXCEPT !.counter = @ - 1, !.to = CLEANUP,
                            !.pos = IF d.at = WRITE_PERF_ENTRIES THEN (@ + 1) % SIZE ELSE @]
              /\ written' = NoFile
        /\ UNCHANGED <<meta, ring, mutex, logger, events, logged, trigger>>

(* CFE_ES_SetupPerfVariables: the log survives a processor reset.  The      *)
(* reset comes between two updates of the ring.                             *)
ProcessorReset ==
    /\ mutex \notin Loggers
    /\ meta' = [meta EXCEPT !.state = "idle"]
    /\ mutex' = NoOne /\ logger' = [l \in Loggers |-> Quiet]
    /\ perf' = AtRest /\ written' = NoFile
    /\ UNCHANGED <<ring, events, logged, trigger>>

Next ==
    \/ \E mode \in {"start", "center", "end"} : StartPerfDataCmd(mode)
    \/ StopPerfDataCmd
    \/ \E l \in Loggers :
         \/ \E hits \in BOOLEAN : PerfLogAdd(l, hits)
         \/ PerfLogEntry(l) \/ Trigger(l) \/ SetTriggered(l) \/ CountTrigger(l)
    \/ EnterIdle \/ OpenFile \/ Advance \/ WriteBlock
    \/ ProcessorReset

Spec == Init /\ [][Next]_vars
-----------------------------------------------------------------------------
(* The ring holds the last events that were logged, oldest first. *)
Latest == SubSeq(logged, 1 + IF Len(logged) > SIZE THEN Len(logged) - SIZE ELSE 0, Len(logged))
RingExact == [i \in 1..meta.count |-> ring[(meta.start + i - 1) % SIZE]] = Latest

(* The event that triggered is not overwritten, and at the place that the   *)
(* mode asks for when the collection ends.                                  *)
TriggerKept == trigger # 0 => Len(logged) - trigger < Window(meta.mode)

(* A file without errors is the ring, and as long as its header says.       *)
FileExact == perf.at = WRITE_PERF_ENTRIES /\ perf.to = CLEANUP /\ written # NoFile =>
    written = [length |-> Len(Latest), entries |-> Latest]

(* However events, commands and the dump interleave, and when a stop        *)
(* command comes between the test and the change of the state, too.         *)
PerfExact == RingExact /\ TriggerKept /\ FileExact
=============================================================================
