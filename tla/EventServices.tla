----------------------------- MODULE EventServices -----------------------------
(***************************************************************************)
(* Event Services: the tasks of one application send the event for which   *)
(* it has a filter, the EVS task carries out commands for it, and what     *)
(* passes goes to a log that survives a processor reset.  Only the log is  *)
(* under the EVS mutex: the record of the application and its filter are   *)
(* read and written field by field.                                        *)
(***************************************************************************)
EXTENDS Integers, Sequences

CONSTANTS
    Senders,    \* tasks of the application
    Masks,      \* masks, each as the set of counts it lets pass
    COUNT_MAX,  \* CFE_EVS_MAX_FILTER_COUNT, the largest number of its width
    LOG_MAX,    \* CFE_PLATFORM_EVS_LOG_MAX
    EventMax    \* bound on the events that are logged

EventAssumption ==
    /\ {COUNT_MAX, LOG_MAX} \subseteq Nat \ {0} /\ EventMax \in Nat
    /\ Masks # {} /\ \A m \in Masks : m \subseteq 0..COUNT_MAX

VARIABLES
    app,        \* AppData: AppID, UnregAppID and ActiveFlag
    filter,     \* its BinFilters entry: EventID, Mask and Count
    sender,     \* each task inside CFE_EVS_SendEvent
    log,        \* EVS_Log
    dump,       \* the EVS task inside CFE_EVS_WriteLogDataFileCmd, with the
                \* entries in the file and those the log had when it began
    logged,     \* history: number of events given to the log
    kept        \* history: the events the log has to have, oldest first

vars == <<app, filter, sender, log, dump, logged, kept>>

NoApp == [registered |-> FALSE, noted |-> FALSE, active |-> FALSE]
NoFilter == [used |-> FALSE, mask |-> 0..COUNT_MAX, count |-> 0]
Filters == [used : {TRUE}, mask : Masks, count : {0}]
Quiet == [pc |-> "idle", passes |-> FALSE, seen |-> 0]
AtRest == [pc |-> "idle", at |-> 0, i |-> 0, file |-> <<>>, goal |-> <<>>]
Cleared(mode) == [next |-> 0, count |-> 0, full |-> FALSE, mode |-> mode,
                  entry |-> [i \in 0..LOG_MAX - 1 |-> 0]]

(* After a power-on reset. *)
Init ==
    /\ app = NoApp /\ filter = NoFilter
    /\ sender = [t \in Senders |-> Quiet]
    /\ log = Cleared("discard")
    /\ dump = AtRest
    /\ logged = 0 /\ kept = <<>>

Unlocked == dump.pc # "write"

-----------------------------------------------------------------------------
(* EVS_AddLog. *)
Full == log.full /\ log.mode = "discard"

(* Mutant of Counted: the log is full one event late. *)
CountedLate(n) == [log EXCEPT !.count = n, !.full = @ \/ log.count = LOG_MAX]
Counted(n) == [log EXCEPT !.count = n, !.full = @ \/ n = LOG_MAX]

AddLog ==
    LET n == IF log.count < LOG_MAX THEN log.count + 1 ELSE LOG_MAX
    IN  /\ Unlocked /\ logged < EventMax
        /\ logged' = logged + 1
        /\ log' = IF Full THEN log
                  ELSE [Counted(n) EXCEPT !.entry[log.next] = logged',
                                          !.next = (@ + 1) % LOG_MAX]
        /\ kept' = IF Len(kept) < LOG_MAX THEN Append(kept, logged')
                   ELSE IF log.mode = "discard" THEN kept
                   ELSE Append(Tail(kept), logged')

-----------------------------------------------------------------------------
(* The tasks of the application. *)
Goto(t, pc) == sender' = [sender EXCEPT ![t].pc = pc]
OnlySender == UNCHANGED <<app, filter, log, dump, logged, kept>>

(* CFE_EVS_SendEvent of an application that is not registered is reported   *)
(* once; EVS_IsFiltered drops all events of one that is not active.         *)
SendEvent(t) ==
    /\ sender[t].pc = "idle"
    /\ \/ ~app.registered /\ ~app.noted /\ Goto(t, "note")
       \/ app.registered /\ app.active
          /\ sender' = [sender EXCEPT ![t] =
               IF filter.used
                 THEN [Quiet EXCEPT !.pc = "count", !.passes = filter.count \in filter.mask]
                 ELSE [Quiet EXCEPT !.pc = "log"]]
    /\ OnlySender

NotRegistered(t) ==
    /\ sender[t].pc = "note" /\ Goto(t, "log")
    /\ app' = [app EXCEPT !.noted = TRUE]
    /\ UNCHANGED <<filter, log, dump, logged, kept>>

AfterCount(t) == IF sender[t].passes THEN "log" ELSE "idle"

(* The count is tested, read, written one higher, and looked at again.      *)
TestCount(t) ==
    /\ sender[t].pc = "count" /\ OnlySender
    /\ Goto(t, IF filter.count < COUNT_MAX THEN "read" ELSE AfterCount(t))

ReadCount(t) ==
    /\ sender[t].pc = "read" /\ OnlySender
    /\ sender' = [sender EXCEPT ![t].pc = "increment", ![t].seen = filter.count]

IncrementCount(t) ==
    /\ sender[t].pc = "increment"
    /\ filter' = [filter EXCEPT !.count = (sender[t].seen + 1) % (COUNT_MAX + 1)]
    /\ sender' = [sender EXCEPT ![t].pc = "latched", ![t].seen = 0]
    /\ UNCHANGED <<app, log, dump, logged, kept>>

(* An event of EVS tells that the filter is locked. *)
TestLatched(t) ==
    /\ sender[t].pc = "latched"
    /\ Goto(t, AfterCount(t))
    /\ IF filter.count = COUNT_MAX THEN AddLog ELSE UNCHANGED <<log, logged, kept>>
    /\ UNCHANGED <<app, filter, dump>>

(* EVS_GenerateEventTelemetry, as far as the log. *)
GenerateEventTelemetry(t) ==
    /\ sender[t].pc = "log" /\ AddLog
    /\ sender' = [sender EXCEPT ![t] = Quiet]
    /\ UNCHANGED <<app, filter, dump>>

(* CFE_EVS_Register, at any time and again; bad arguments only clear the    *)
(* record.                                                                  *)
Register ==
    /\ \/ /\ app' = [registered |-> TRUE, noted |-> FALSE, active |-> TRUE]
          /\ filter' \in Filters \cup {NoFilter}
       \/ app' = NoApp /\ filter' = NoFilter
    /\ UNCHANGED <<sender, log, dump, logged, kept>>

(* CFE_EVS_CleanUpApp, while tasks of the application may be inside calls,   *)
(* and what ES does next: its tasks go, and a new application gets the      *)
(* record with another ID.                                                  *)
CleanUpApp ==
    /\ app' = [app EXCEPT !.registered = FALSE]
    /\ UNCHANGED <<filter, sender, log, dump, logged, kept>>

CleanupTaskResources ==
    /\ ~app.registered /\ app' = NoApp
    /\ sender' = [t \in Senders |-> Quiet]
    /\ UNCHANGED <<filter, log, dump, logged, kept>>

(* CFE_EVS_ResetFilter, CFE_EVS_ResetAllFilters and their commands. *)
ResetFilter ==
    /\ app.registered /\ filter.used
    /\ filter' = [filter EXCEPT !.count = 0]
    /\ UNCHANGED <<app, sender, log, dump, logged, kept>>

-----------------------------------------------------------------------------
(* Other commands of the EVS task. *)
Command == dump.pc = "idle"

SetFilter(f) ==
    /\ Command /\ app.registered
    /\ filter' = f
    /\ UNCHANGED <<app, sender, log, dump, logged, kept>>
SetFilterCmd == filter.used /\ \E m \in Masks : SetFilter([filter EXCEPT !.mask = m])
AddEventFilterCmd == ~filter.used /\ \E f \in Filters : SetFilter(f)
DeleteEventFilterCmd == filter.used /\ SetFilter(NoFilter)

EnableAppEventsCmd(on) ==
    /\ Command /\ app.registered
    /\ app' = [app EXCEPT !.active = on]
    /\ UNCHANGED <<filter, sender, log, dump, logged, kept>>

SetLogModeCmd(mode) ==
    /\ Command
    /\ log' = [log EXCEPT !.mode = mode]
    /\ UNCHANGED <<app, filter, sender, dump, logged, kept>>

ClearLogCmd ==
    /\ Command
    /\ log' = Cleared(log.mode) /\ kept' = <<>>
    /\ UNCHANGED <<app, filter, sender, dump, logged>>

(* CFE_EVS_WriteLogDataFileCmd writes the log with the mutex, ... *)
WriteLogDataFileCmd ==
    /\ Command
    /\ dump' = [AtRest EXCEPT !.pc = "write",
                  !.at = IF log.count = LOG_MAX THEN log.next ELSE 0, !.goal = kept]
    /\ UNCHANGED <<app, filter, sender, log, logged, kept>>

WriteEntry ==
    /\ dump.pc = "write"
    /\ \/ /\ dump.i < log.count
          /\ dump' = [dump EXCEPT !.file = Append(@, log.entry[dump.at]),
                                  !.at = (@ + 1) % LOG_MAX, !.i = @ + 1]
       \/ dump' = [dump EXCEPT !.pc = "answer"]
    /\ UNCHANGED <<app, filter, sender, log, logged, kept>>

(* ... and looks at the log without it to see if it has written all of it.  *)
Complete == dump.i = log.count

AnswerDump ==
    /\ dump.pc = "answer" /\ dump' = AtRest
    /\ IF Complete THEN UNCHANGED <<log, logged, kept>> ELSE AddLog
    /\ UNCHANGED <<app, filter, sender>>

(* CFE_EVS_EarlyInit after a processor reset, which comes while nobody adds *)
(* to the log.                                                              *)
ProcessorReset ==
    /\ app' = NoApp /\ filter' = NoFilter
    /\ sender' = [t \in Senders |-> Quiet]
    /\ dump' = AtRest
    /\ UNCHANGED <<log, logged, kept>>

Next ==
    \/ \E t \in Senders :
         \/ SendEvent(t) \/ NotRegistered(t)
         \/ TestCount(t) \/ ReadCount(t) \/ IncrementCount(t) \/ TestLatched(t)
         \/ GenerateEventTelemetry(t)
    \/ Register \/ CleanUpApp \/ CleanupTaskResources \/ ResetFilter
    \/ SetFilterCmd \/ AddEventFilterCmd \/ DeleteEventFilterCmd
    \/ \E on \in BOOLEAN : EnableAppEventsCmd(on)
    \/ \E mode \in {"overwrite", "discard"} : SetLogModeCmd(mode)
    \/ ClearLogCmd
    \/ WriteLogDataFileCmd \/ WriteEntry \/ AnswerDump
    \/ ProcessorReset

Spec == Init /\ [][Next]_vars
-----------------------------------------------------------------------------
(* The log has the events that were kept, and is full when it says so:      *)
(* through a clearing, a change of its mode and a reset, and whenever it    *)
(* wraps.                                                                   *)
Start == IF log.count = LOG_MAX THEN log.next ELSE 0
LogExact ==
    /\ [i \in 1..log.count |-> log.entry[(Start + i - 1) % LOG_MAX]] = kept
    /\ log.full <=> Len(kept) = LOG_MAX

(* A file that is said to be written holds the log as it was when the dump  *)
(* began, although events are logged before the dump looks at its count.    *)
FileTrue == dump.pc = "answer" /\ Complete => dump.file = dump.goal

EventsExact == LogExact /\ FileTrue

(* A locked filter stays locked until it is reset, set or deleted: "latched *)
(* until filter is reset" (cfe_evs_events.h:457).  Two tasks that count the *)
(* last event together break it.                                            *)
FilterLatched == [][\A t \in Senders : IncrementCount(t) => filter.count < COUNT_MAX
                      \/ filter'.count = COUNT_MAX]_vars
=============================================================================
