------------------------------ MODULE MCServices ------------------------------
(***************************************************************************)
(* Eleven parts of the core that share no state, each in a small instance  *)
(* of its own: a table of resource IDs, the critical data store, the time  *)
(* reference, the tone that updates it, the object IDs of OSAL, the        *)
(* reports of subscriptions, the file writer, the performance, the system  *)
(* and the event log, and applications that are asked to go.  A behaviour  *)
(* is one of a single part; the others rest in their initial states.       *)
(***************************************************************************)
EXTENDS Naturals

CONSTANTS FREE, RESERVED, None

VARIABLES
    part,
    held, serial,                                                 \* ResourceTable
    header, saved, desc, data, reg, pool, op, active, wrote,      \* CriticalStore
    last, state, writer, reader, published,                       \* TimeReference
    now, ref, vmet, latch, prev, forced, sem, sending, pipe, set, \* TimeTone
    record, issued, owner, call,                                  \* ObjectIds
    route, scope, reporting, report, walk, known, informed,       \* SubscriptionReports
    entry, requested, completed, pending, file, pass, disk, answers, \* FileDumps
    meta, ring, mutex, logger, perf, written, events, logged, trigger, \* PerfLog
    cells, index, overwrite, messages, reading, dumped, burst,    \* SystemLog
    client, filter, sender, evlog, evdump, evcount, kept, \* EventServices
    app, task, glob, os, loaded, scan, job, create, ask, sent, asked, waited

ids == <<held, serial>>
cds == <<header, saved, desc, data, reg, pool, op, active, wrote>>
time == <<last, state, writer, reader, published>>
tone == <<now, ref, vmet, latch, prev, forced, sem, sending, pipe, set>>
osal == <<record, issued, owner, call>>
sbn == <<route, scope, reporting, report, walk, known, informed>>
fs == <<entry, requested, completed, pending, file, pass, disk, answers>>
plog == <<meta, ring, mutex, logger, perf, written, events, logged, trigger>>
slog == <<cells, index, overwrite, messages, reading, dumped, burst>>
evs == <<client, filter, sender, evlog, evdump, evcount, kept>>
es == <<app, task, glob, os, loaded, scan, job, create, ask, sent, asked, waited>>

IDS == INSTANCE ResourceTable WITH last <- serial, TableSize <- 4, MaxSerial <- 11

(* Two block sizes, and a name whose size changes from one to the other. *)
CDS == INSTANCE CriticalStore WITH
    SIZES <- {2, 3}, START <- 1, POOL_MAX <- 9, ALIGN <- 1,
    Names <- {"a", "b"}, NoName <- "no", MAX_ENTRIES <- 2,
    SizesOf <- [n \in {"a", "b"} |-> IF n = "a" THEN {1, 2} ELSE {1}],
    ImagesOf <- [n \in {"a", "b"} |-> IF n = "a" THEN {"x"} ELSE {"y"}], Faults <- {}

(* Two copies and three updates: a slow reader is overtaken by a whole turn *)
(* of the ring and runs out of retries.                                     *)
TIME == INSTANCE TimeReference WITH
    DEPTH <- 2, RETRIES <- 1, Readers <- {"task"}, VersionMax <- 5

(* Four seconds across a wrap of the local clock, with tones that are late, *)
(* rejected and lost: the fly-wheel starts, is left and latches.            *)
TONE == INSTANCE TimeTone WITH
    SEC <- 3, TONE_UNDER <- 1, TONE_OVER <- 1, MIN_WINDOW <- 0, MAX_WINDOW <- 1,
    START_FLY <- 2, LATCH_FLY <- 2, MAX_LOCAL <- 12, MSG_LIM <- 1,
    Boot <- 8, Horizon <- 20, MaxLate <- 2

(* A user of an object, and two tasks that delete, create and look up.     *)
OSAL == INSTANCE ObjectIds WITH
    Tasks <- {"user", "app", "other"}, NoTask <- "none", MAX_OBJECTS <- 2,
    INDEX_MASK <- 4, ATTEMPTS <- 2, Names <- {"a"}, NoName <- "no"

(* Packets of two entries, and a route more: the walk over the routes       *)
(* releases the lock with a route left, and ends with a packet in part.     *)
SBN == INSTANCE SubscriptionReports WITH
    Tasks <- {"app"}, Msgs <- {"m1", "m2", "m3"}, MAX_MSG_IDS <- 3,
    MAX_DEST_PER_PKT <- 1, ENTRIES_PER_PKT <- 2

(* Three core tasks and a queue of two entries; files of one to three       *)
(* records, one of them empty, and passes that earn nothing to everything.  *)
FS == INSTANCE FileDumps WITH
    Requesters <- {"SB", "TBL", "ES"}, NoOne <- "none", MAX_WRITES <- 2,
    HEADER <- 1, MAX_CREDIT <- 3, Earned <- {0, 1, 3}, MAX_RECORD <- 2,
    SizesOf <- [r \in {"SB", "TBL", "ES"} |->
                  CASE r = "SB" -> <<2, 0, 1>> [] r = "TBL" -> <<1, 0>> [] r = "ES" -> <<2>>],
    RequestMax <- 4

(* A ring of two events that three or four fill and overwrite.             *)
PLOG == INSTANCE PerfLog WITH
    Loggers <- {"a", "b"}, NoOne <- "none", SIZE <- 2, EventMax <- 3

(* Lines of two and three bytes in a log of seven, read in blocks of five,  *)
(* and one byte less than a block logged while a block is written.          *)
SLOG == INSTANCE SystemLog WITH
    SIZE <- 7, STAMP <- 2, BLOCK <- 5, Lengths <- {2, 3}, BURST <- 4, MessageMax <- 7

(* A filter that passes every second event or all; a log of two events that *)
(* wraps and is dumped.                                                     *)
EVS == INSTANCE EventServices WITH
    app <- client, log <- evlog, dump <- evdump, logged <- evcount,
    Senders <- {"task"}, Masks <- {{0}, {0, 1}}, COUNT_MAX <- 1, LOG_MAX <- 2, EventMax <- 3

(* One name that is started, stopped, restarted and exits, its main task may *)
(* fail to start; scans that are late, early and skipped.                    *)
ES == INSTANCE AppLifecycleProps WITH
    Names <- {"n"}, NoName <- "no", MAX_APPS <- 2, MAX_TASKS <- 2,
    SCAN_RATE <- 2, KILL_TIMEOUT <- 2, Delays <- {1, 2, 3}, CmdMax <- 2,
    ChildMax <- 0, CreateMayFail <- TRUE, PromptStart <- TRUE, QuietCleanup <- TRUE

ASSUME SizesAssumption ==
    /\ IDS!SizesAssumption /\ CDS!StoreAssumption
    /\ TIME!ReferenceAssumption /\ TONE!ToneAssumption
    /\ OSAL!ObjectAssumption /\ SBN!ReportAssumption /\ FS!DumpAssumption
    /\ PLOG!PerfAssumption /\ SLOG!LogAssumption /\ EVS!EventAssumption

Init == /\ part \in {"ids", "cds", "time", "tone", "osal", "sbn", "fs", "plog", "slog", "evs", "es"}
        /\ IDS!Init /\ CDS!Init /\ TIME!Init /\ TONE!Init
        /\ OSAL!Init /\ SBN!Init /\ FS!Init
        /\ PLOG!Init /\ SLOG!Init /\ EVS!Init /\ ES!Init

Next ==
    \/ /\ part = "ids" /\ IDS!Next
       /\ UNCHANGED <<part, cds, time, tone, osal, sbn, fs, plog, slog, evs, es>>
    \/ /\ part = "cds" /\ CDS!Next
       /\ UNCHANGED <<part, ids, time, tone, osal, sbn, fs, plog, slog, evs, es>>
    \/ /\ part = "time" /\ TIME!Next
       /\ UNCHANGED <<part, ids, cds, tone, osal, sbn, fs, plog, slog, evs, es>>
    \/ /\ part = "tone" /\ TONE!Next
       /\ UNCHANGED <<part, ids, cds, time, osal, sbn, fs, plog, slog, evs, es>>
    \/ /\ part = "osal" /\ OSAL!Next
       /\ UNCHANGED <<part, ids, cds, time, tone, sbn, fs, plog, slog, evs, es>>
    \/ /\ part = "sbn" /\ SBN!Next
       /\ UNCHANGED <<part, ids, cds, time, tone, osal, fs, plog, slog, evs, es>>
    \/ /\ part = "fs" /\ FS!Next
       /\ UNCHANGED <<part, ids, cds, time, tone, osal, sbn, plog, slog, evs, es>>
    \/ /\ part = "plog" /\ PLOG!Next
       /\ UNCHANGED <<part, ids, cds, time, tone, osal, sbn, fs, slog, evs, es>>
    \/ /\ part = "slog" /\ SLOG!Next
       /\ UNCHANGED <<part, ids, cds, time, tone, osal, sbn, fs, plog, evs, es>>
    \/ /\ part = "evs" /\ EVS!Next
       /\ UNCHANGED <<part, ids, cds, time, tone, osal, sbn, fs, plog, slog, es>>
    \/ /\ part = "es" /\ ES!Next
       /\ UNCHANGED <<part, ids, cds, time, tone, osal, sbn, fs, plog, slog, evs>>

Spec == Init /\ [][Next]_<<part, ids, cds, time, tone, osal, sbn, fs, plog, slog, evs, es>>
-----------------------------------------------------------------------------
(* CFE_ResourceId_FindNext is the loop it is written as, and finds a slot   *)
(* whenever one is free, also across the wrap of the serial.                *)
IdsExact == part = "ids" => IDS!FindNextIsLoop /\ IDS!FindsFreeSlot

(* Across resets every block of the store has one owner and every name the  *)
(* contents it was last given.                                              *)
StoreIntact == part = "cds" => CDS!StoreIntact

(* CFE_TIME_GetReference hands out references that an update has left,      *)
(* whole.                                                                   *)
ReadsWhole == part = "time" => TIME!ReadsWhole

(* Whatever tones are late, rejected or missed, an update of the reference  *)
(* moves the MET by less than a second.                                     *)
METTracks == TONE!METTracks

(* Whatever calls overlap, OSAL objects are counted, reserved and named as  *)
(* the tokens of their users and owners say.                                *)
ObjectsExact == part = "osal" => OSAL!ObjectsExact

(* A bridge that asked for all subscriptions knows of every one that takes  *)
(* messages from the network.                                               *)
BridgeInformed == part = "sbn" => SBN!BridgeInformed

(* Requests for files are kept, answered truly, and paid for in time.       *)
DumpsExact == part = "fs" => FS!DumpsExact

(* The performance log and its file hold the events they should, and a dump *)
(* of the system log is whole lines up to the newest.                       *)
LogsExact == (part = "plog" => PLOG!PerfExact) /\ (part = "slog" => SLOG!LinesWhole)

(* The event log holds what was kept, also when it wraps, is dumped, and    *)
(* after a reset.                                                           *)
EventsExact == part = "evs" => EVS!EventsExact

(* An application that is asked to exit gets the whole grace period, and    *)
(* not much more, however the passes of the background task fall.           *)
GraceKept == part = "es" => ES!GraceKept

(* While the background task runs, an application that is asked to go, or   *)
(* exits, is cleaned up.  Two creations use the IDs 1 and 2.                *)
Fairness == /\ WF_es(part = "es" /\ ES!Background)
            /\ WF_es(part = "es" /\ ES!Creation("bg"))
RequestServed == Fairness => \A i \in 1..2 : ES!Served(i)
=============================================================================
