------------------------------- MODULE SystemLog -------------------------------
(***************************************************************************)
(* The system log of Executive Services (cfe_es_syslog.c): lines of text   *)
(* in a ring of bytes that survives a processor reset.  Any task appends   *)
(* under the ES lock; the ES task dumps the log to a file in blocks, and   *)
(* holds the lock for the first block only.                                *)
(***************************************************************************)
EXTENDS Naturals, Sequences, FiniteSetsExt

CONSTANTS
    SIZE,       \* CFE_PLATFORM_ES_SYSTEM_LOG_SIZE
    STAMP,      \* CFE_TIME_PRINTED_STRING_SIZE
    BLOCK,      \* CFE_ES_SYSLOG_READ_BUFFER_SIZE
    Lengths,    \* lengths of messages
    BURST,      \* bound on the bytes logged while a block is written
    MessageMax  \* bound on the messages

LogAssumption ==
    /\ {SIZE, BLOCK} \subseteq Nat \ {0} /\ STAMP \in 1..SIZE
    /\ Lengths \subseteq Nat \ {0} /\ BURST \in Nat

VARIABLES
    cells,      \* SystemLog: of each byte the message, its place, and if it is a newline
    index,      \* SystemLogWriteIdx and SystemLogEndIdx
    overwrite,  \* SystemLogMode is OVERWRITE
    messages,   \* SystemLogEntryNum, never cleared
    reading,    \* CFE_ES_SysLogDump: its buffer, and whether it holds the lock
    dumped,     \* history: the bytes of the dump
    burst       \* history: bytes logged since the last block was read

vars == <<cells, index, overwrite, messages, reading, dumped, burst>>

Blank == [msg |-> 0, place |-> 0, newline |-> FALSE]
Resting == [pc |-> "idle", left |-> 0, offset |-> 0, end |-> 0, room |-> 0,
            locked |-> FALSE, newest |-> 0]

Init ==
    /\ cells = [i \in 0..SIZE - 1 |-> Blank]
    /\ index = [write |-> 0, end |-> 0]
    /\ overwrite = FALSE /\ messages = 0
    /\ reading = Resting /\ dumped = <<>> /\ burst = 0

-----------------------------------------------------------------------------
(* CFE_ES_SysLogAppend_Unsync, which all callers call with the lock. *)
Truncated(len) == IF len > SIZE \div 2 THEN SIZE \div 2 ELSE len
Fits(len) == index.write + len <= SIZE

(* Where a message begins, how much of it is kept, and the end before it. *)
Placed(len) ==
    IF Fits(len) THEN [from |-> index.write, len |-> len, end |-> index.end]
    ELSE IF overwrite THEN [from |-> 0, len |-> len, end |-> index.write]
    ELSE [from |-> index.write, end |-> index.end,
          len |-> IF index.write < SIZE - STAMP THEN SIZE - index.write ELSE 0]

(* Mutant of EndAfter: the end does not move with the newest message. *)
EndAfterKept(p) == p.end
EndAfter(p) == Max({p.from + p.len, p.end})

SysLogAppend(len) ==
    LET p == Placed(Truncated(len))
    IN  /\ ~reading.locked /\ messages < MessageMax /\ p.len > 0
        /\ reading.pc # "idle" => burst + p.len <= BURST
        /\ cells' = [i \in DOMAIN cells |->
                       IF i \in p.from..p.from + p.len - 1
                         THEN [msg |-> messages + 1, place |-> i - p.from + 1,
                               newline |-> i = p.from + p.len - 1]
                         ELSE cells[i]]
        /\ index' = [write |-> p.from + p.len, end |-> EndAfter(p)]
        /\ messages' = messages + 1
        /\ burst' = IF reading.pc = "idle" THEN 0 ELSE burst + p.len
        /\ UNCHANGED <<overwrite, reading, dumped>>

-----------------------------------------------------------------------------
(* Commands of the ES task, which does not dump the log meanwhile. *)
SysLogSetMode ==
    /\ reading.pc = "idle" /\ overwrite' = ~overwrite
    /\ UNCHANGED <<cells, index, messages, reading, dumped, burst>>

ClearSysLogCmd ==
    /\ reading.pc = "idle" /\ index' = [write |-> 0, end |-> 0]
    /\ UNCHANGED <<cells, overwrite, messages, reading, dumped, burst>>

(* CFE_ES_SysLogReadStart_Unsync goes to the end of the line that the       *)
(* newest message has overwritten in part.                                  *)
Newlines == {i \in index.write..index.end - 1 : cells[i].newline}
Oldest == IF index.write >= index.end THEN index.write
          ELSE IF Newlines = {} THEN index.end ELSE Min(Newlines) + 1

SysLogDump ==
    /\ reading.pc = "idle"
    /\ reading' = [pc |-> "read", left |-> index.end - (Oldest - index.write),
                   offset |-> Oldest, end |-> index.end, room |-> BLOCK,
                   locked |-> TRUE, newest |-> messages]
    /\ dumped' = <<>> /\ burst' = 0
    /\ UNCHANGED <<cells, index, overwrite, messages>>

(* One turn of the loop of CFE_ES_SysLogReadData. *)
SysLogReadData ==
    LET from == IF reading.offset >= reading.end THEN 0 ELSE reading.offset
        size == Min({reading.room, reading.end - from, reading.left})
    IN  /\ reading.pc = "read" /\ reading.left > 0 /\ reading.room > 0
        /\ dumped' = dumped \o [i \in 1..size |-> cells[from + i - 1]]
        /\ reading' = [reading EXCEPT !.offset = from + size, !.room = @ - size,
                                      !.left = @ - size]
        /\ UNCHANGED <<cells, index, overwrite, messages, burst>>

BlockRead ==
    /\ reading.pc = "read" /\ 0 \in {reading.left, reading.room}
    /\ reading' = [reading EXCEPT !.pc = IF reading.room = BLOCK THEN "done" ELSE "write",
                                  !.locked = FALSE]
    /\ burst' = 0
    /\ UNCHANGED <<cells, index, overwrite, messages, dumped>>

(* The block is written to the file, or an error ends the dump. *)
WriteBlock ==
    /\ reading.pc = "write"
    /\ \/ reading' = [reading EXCEPT !.pc = "read", !.room = BLOCK] /\ UNCHANGED dumped
       \/ reading' = Resting /\ dumped' = <<>>
    /\ UNCHANGED <<cells, index, overwrite, messages, burst>>

EndDump ==
    /\ reading.pc = "done" /\ reading' = Resting /\ dumped' = <<>>
    /\ UNCHANGED <<cells, index, overwrite, messages, burst>>

Next ==
    \/ \E len \in Lengths : SysLogAppend(len)
    \/ SysLogSetMode \/ ClearSysLogCmd
    \/ SysLogDump \/ SysLogReadData \/ BlockRead \/ WriteBlock \/ EndDump

Spec == Init /\ [][Next]_vars
-----------------------------------------------------------------------------
(* A sequence of bytes is whole lines of consecutive messages so far. *)
WholeSoFar(s) ==
    /\ s # <<>> => s[1].place = 1
    /\ \A i \in 2..Len(s) :
         IF s[i - 1].newline
           THEN s[i].place = 1 /\ s[i].msg = s[i - 1].msg + 1
           ELSE s[i].place = s[i - 1].place + 1 /\ s[i].msg = s[i - 1].msg

(* A dump is the whole lines of the log, oldest first, to the newest when   *)
(* it began, although the log wraps, changes its mode, and grows while the  *)
(* dump reads it without the lock.                                          *)
LinesWhole ==
    /\ WholeSoFar(dumped)
    /\ reading.pc = "done" /\ reading.end > 0 =>
         /\ dumped # <<>>
         /\ dumped[Len(dumped)].newline
         /\ dumped[Len(dumped)].msg = reading.newest
=============================================================================
