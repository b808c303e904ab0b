------------------------------ MODULE FileDumps ------------------------------
(***************************************************************************)
(* The background file writer of File Services (cfe_fs_api.c): core tasks  *)
(* queue requests for files, and a job of the ES background task writes    *)
(* them record by record, in passes that may spend a credit of bytes that  *)
(* time earns.  A task works on its own request without the lock while the *)
(* request is not pending; only the queue is under the lock.               *)
(***************************************************************************)
EXTENDS Naturals, Integers, Sequences, FiniteSets

CONSTANTS
    Requesters, NoOne,  \* tasks with a CFE_FS_FileWriteMetaData_t, and NULL
    MAX_WRITES,         \* CFE_FS_MAX_BACKGROUND_FILE_WRITES
    HEADER,             \* size of the file header
    MAX_CREDIT,         \* CFE_FS_BACKGROUND_MAX_CREDIT
    Earned,             \* credits a pass may earn, by the time since the last
    MAX_RECORD,         \* the largest record
    SizesOf,            \* the sizes of the records of each file, 0 for none
    RequestMax          \* bound on the requests

DumpAssumption ==
    /\ NoOne \notin Requesters
    /\ MAX_WRITES \in Nat \ {0} /\ {HEADER, MAX_CREDIT, MAX_RECORD} \subseteq Nat /\ Earned \subseteq Nat
    /\ \A r \in Requesters : SizesOf[r] \in Seq(0..MAX_RECORD) /\ SizesOf[r] # <<>>

VARIABLES
    entry,      \* Entries
    requested,  \* RequestCount
    completed,  \* CompleteCount
    pending,    \* IsPending of each request
    file,       \* Current: Fd, Credit and RecordNum
    pass,        \* CFE_FS_RunBackgroundFileDump: where it is, Curr and IsEOF
    disk,       \* history: what the file of each request consists of
    answers     \* history: the events since each request was made

vars == <<entry, requested, completed, pending, file, pass, disk, answers>>

Slots == 0..MAX_WRITES - 1
Slot(count) == count % MAX_WRITES
Resting == [pc |-> "idle", curr |-> NoOne, eof |-> FALSE]

Init ==
    /\ entry = [k \in Slots |-> NoOne]
    /\ requested = 0 /\ completed = 0
    /\ pending = [r \in Requesters |-> FALSE]
    /\ file = [open |-> FALSE, credit |-> 0, record |-> 0]
    /\ pass = Resting
    /\ disk = [r \in Requesters |-> <<>>]
    /\ answers = [r \in Requesters |-> <<"none">>]

-----------------------------------------------------------------------------
(* Mutant of HasRoom: one request too many. *)
HasRoomForOneMore == requested <= completed + MAX_WRITES
HasRoom == requested + 1 # completed + MAX_WRITES

(* A command of the task, which has found IsPending false and written the  *)
(* request anew; CFE_FS_BackgroundFileDumpRequest.                          *)
BackgroundFileDumpRequest(r) ==
    /\ ~pending[r] /\ HasRoom /\ requested < RequestMax
    /\ entry' = [entry EXCEPT ![Slot(requested)] = r]
    /\ pending' = [pending EXCEPT ![r] = TRUE]
    /\ requested' = requested + 1
    /\ disk' = [disk EXCEPT ![r] = <<>>]
    /\ answers' = [answers EXCEPT ![r] = <<>>]
    /\ UNCHANGED <<completed, file, pass>>

-----------------------------------------------------------------------------
(* A pass: it earns credit and looks for a request under the lock. *)
StartPass(earned) ==
    /\ pass.pc = "idle"
    /\ file' = [file EXCEPT !.credit = IF @ + earned > MAX_CREDIT THEN MAX_CREDIT
                                       ELSE @ + earned]
    /\ pass' = IF completed = requested THEN Resting
              ELSE [Resting EXCEPT !.pc = "open", !.curr = entry[Slot(completed)]]
    /\ UNCHANGED <<entry, requested, completed, pending, disk, answers>>

OnEvent(r, event) == answers' = [answers EXCEPT ![r] = Append(@, event)]

(* The file is created and its header written, whatever the credit. *)
OpenCreate ==
    LET r == pass.curr
    IN  /\ pass.pc = "open" /\ pass' = [pass EXCEPT !.pc = "write"]
        /\ IF ~file.open /\ pending[r]
             THEN \/ /\ file' = [open |-> TRUE, credit |-> file.credit - HEADER,
                                 record |-> 0]
                     /\ disk' = [disk EXCEPT ![r] = <<"header">>]
                     /\ UNCHANGED answers
                  \/ /\ OnEvent(r, "CREATE_ERROR") /\ UNCHANGED <<file, disk>>
                  \/ /\ OnEvent(r, "HEADER_WRITE_ERROR") /\ UNCHANGED <<file, disk>>
             ELSE UNCHANGED <<file, disk, answers>>
        /\ UNCHANGED <<entry, requested, completed, pending>>

(* Mutant of Goes: a file goes on in the next pass whatever it has got to. *)
GoesUnpaid == file.open /\ ~pass.eof
Goes == file.open /\ file.credit > 0 /\ ~pass.eof

(* One turn of the loop: the record that GetData returns, if any, is       *)
(* written, or cannot be written.                                           *)
WriteRecord ==
    LET r == pass.curr
        size == SizesOf[r][file.record + 1]
        eof == file.record + 1 = Len(SizesOf[r])
    IN  /\ pass.pc = "write" /\ Goes
        /\ pass' = [pass EXCEPT !.eof = eof]
        /\ \/ /\ file' = [file EXCEPT !.credit = @ - size, !.record = @ + 1]
              /\ disk' = [disk EXCEPT ![r] = IF size = 0 THEN @
                                             ELSE Append(@, file.record)]
              /\ UNCHANGED answers
           \/ /\ size > 0
              /\ file' = [file EXCEPT !.credit = @ - size, !.open = FALSE]
              /\ OnEvent(r, "RECORD_WRITE_ERROR")
              /\ UNCHANGED disk
        /\ UNCHANGED <<entry, requested, completed, pending>>

(* After the loop.  A last record that could not be written is at the end  *)
(* of the file, too.                                                        *)
Close ==
    /\ pass.pc = "write" /\ ~Goes
    /\ pass' = [pass EXCEPT !.pc = "finish"]
    /\ file' = [file EXCEPT !.open = @ /\ ~pass.eof]
    /\ IF pass.eof THEN OnEvent(pass.curr, "COMPLETE") ELSE UNCHANGED answers
    /\ UNCHANGED <<entry, requested, completed, pending, disk>>

FinishPass ==
    /\ pass.pc = "finish" /\ pass' = Resting
    /\ IF file.open
         THEN UNCHANGED <<entry, completed, pending>>
         ELSE /\ entry' = [entry EXCEPT ![Slot(completed)] = NoOne]
              /\ completed' = completed + 1
              /\ pending' = [pending EXCEPT ![pass.curr] = FALSE]
    /\ UNCHANGED <<requested, file, disk, answers>>

Next ==
    \/ \E r \in Requesters : BackgroundFileDumpRequest(r)
    \/ \E earned \in Earned : StartPass(earned)
    \/ OpenCreate \/ WriteRecord \/ Close \/ FinishPass

Spec == Init /\ [][Next]_vars
-----------------------------------------------------------------------------
(* The queue holds each pending request once, in a slot of its own. *)
Queued == {k \in Slots : \E count \in completed..requested - 1 : k = Slot(count)}
QueueExact ==
    /\ Cardinality(Queued) = requested - completed
    /\ \A r \in Requesters : Cardinality({k \in Queued : entry[k] = r}) =
                               IF pending[r] THEN 1 ELSE 0

(* The records that a file should have. *)
Records(r) == SelectSeq([k \in 1..Len(SizesOf[r]) |-> k - 1],
                        LAMBDA n : SizesOf[r][n + 1] > 0)

(* A request is answered once it is no longer pending, and first with what *)
(* became of it: a file that is complete has the header and all its        *)
(* records, in order.                                                       *)
AnsweredTruly == \A r \in Requesters :
    /\ ~pending[r] => answers[r] # <<>>
    /\ answers[r] # <<>> /\ Head(answers[r]) = "COMPLETE" =>
         disk[r] = <<"header">> \o Records(r)

(* What was written ahead of the time that pays for it is at most a record *)
(* and a header.                                                            *)
CreditKept == file.credit > -(HEADER + MAX_RECORD)

(* However requests and passes interleave and writes fail, requests are    *)
(* kept, answered, and paid for.                                            *)
DumpsExact == QueueExact /\ AnsweredTruly /\ CreditKept
=============================================================================
