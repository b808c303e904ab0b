---------------------------- MODULE TimeReference ----------------------------
(***************************************************************************)
(* The reference state of Time Services (cfe_time_utils.c): a ring of      *)
(* numbered copies that only the TIME task updates and that every task     *)
(* reads without a lock.  Each field is read or written on its own; a      *)
(* volatile access takes effect at once and in program order.              *)
(***************************************************************************)
EXTENDS Integers, Sequences

CONSTANTS
    DEPTH,          \* CFE_TIME_REFERENCE_BUF_DEPTH
    RETRIES,        \* what RetryCount starts from
    Readers,        \* tasks that call CFE_TIME_GetReference
    VersionMax      \* bound on the updates

ReferenceAssumption ==
    DEPTH \in Nat \ {0} /\ RETRIES \in Nat /\ VersionMax \in Nat \ {0, 1}

(* Two of the eight fields, in the orders of the two copies. *)
Fields == {"MET", "fly"}
WriteOrder == <<"fly", "MET">>
ReadOrder == <<"MET", "fly">>

VARIABLES
    last,       \* LastVersionCounter
    state,      \* ReferenceState: version, and the update each field is from
    writer,     \* the TIME task inside an update
    reader,     \* each task inside CFE_TIME_GetReference
    published   \* what each finished update has left

vars == <<last, state, writer, reader, published>>

Slot(version) == version % DEPTH
Whole(version) == [f \in Fields |-> version]
Resting == [pc |-> "idle", version |-> 0, todo |-> <<>>, may |-> {}]
Absent == [pc |-> "idle", version |-> 0, todo |-> <<>>, got |-> Whole(0),
           retry |-> 0, since |-> 0]

(* After CFE_TIME_InitData, which makes two updates; a version of -1 stands *)
(* for 0xFFFFFFFF.                                                          *)
Init ==
    /\ last = 2
    /\ state = [k \in 0..DEPTH - 1 |->
          IF k = Slot(2) THEN [version |-> 2, val |-> Whole(2)]
          ELSE IF k = Slot(1) THEN [version |-> 1, val |-> Whole(1)]
          ELSE [version |-> -1, val |-> Whole(0)]]
    /\ writer = Resting
    /\ reader = [r \in Readers |-> Absent]
    /\ published = [v \in 1..VersionMax |-> Whole(v)]

-----------------------------------------------------------------------------
(* CFE_TIME_StartReferenceUpdate numbers the next copy before it fills it. *)
StartReferenceUpdate ==
    /\ writer.pc = "idle" /\ last < VersionMax
    /\ writer' = [pc |-> "copy", version |-> last + 1, todo |-> WriteOrder,
                  may |-> Fields]
    /\ state' = [state EXCEPT ![Slot(last + 1)].version = last + 1]
    /\ UNCHANGED <<last, reader, published>>

CopyField ==
    LET f == Head(writer.todo)
    IN  /\ writer.pc = "copy"
        /\ state' = [state EXCEPT ![Slot(writer.version)].val[f] =
                                    state[Slot(writer.version - 1)].val[f]]
        /\ writer' = [writer EXCEPT !.todo = Tail(@),
                        !.pc = IF Len(writer.todo) = 1 THEN "change" ELSE "copy"]
        /\ UNCHANGED <<last, reader, published>>

(* What the caller sets before CFE_TIME_FinishReferenceUpdate. *)
ChangeField(f) ==
    /\ writer.pc = "change" /\ f \in writer.may
    /\ state' = [state EXCEPT ![Slot(writer.version)].val[f] = writer.version]
    /\ writer' = [writer EXCEPT !.may = @ \ {f}]
    /\ UNCHANGED <<last, reader, published>>

FinishReferenceUpdate ==
    /\ writer.pc = "change"
    /\ last' = state[Slot(writer.version)].version
    /\ published' = [published EXCEPT ![writer.version] =
                       state[Slot(writer.version)].val]
    /\ writer' = Resting
    /\ UNCHANGED <<state, reader>>

-----------------------------------------------------------------------------
(* CFE_TIME_GetReference. *)

Attempt(r, retry, since) ==
    reader' = [reader EXCEPT ![r] =
                 [pc |-> "copy", version |-> last, todo |-> ReadOrder,
                  got |-> Whole(0), retry |-> retry, since |-> since]]

GetReference(r) ==
    /\ reader[r].pc = "idle"
    /\ Attempt(r, RETRIES, last)
    /\ UNCHANGED <<last, state, writer, published>>

ReadField(r) ==
    LET f == Head(reader[r].todo)
    IN  /\ reader[r].pc = "copy"
        /\ reader' = [reader EXCEPT
             ![r].got[f] = state[Slot(reader[r].version)].val[f],
             ![r].todo = Tail(@),
             ![r].pc = IF Len(reader[r].todo) = 1 THEN "check" ELSE "copy"]
        /\ UNCHANGED <<last, state, writer, published>>

(* Mutant of Settled: the number is not compared. *)
SettledAlways(r) == TRUE
Settled(r) == reader[r].version = state[Slot(reader[r].version)].version

Retry(r) ==
    /\ reader[r].pc = "check" /\ ~Settled(r) /\ reader[r].retry # 0
    /\ Attempt(r, reader[r].retry - 1, reader[r].since)
    /\ UNCHANGED <<last, state, writer, published>>

(* The loop is over: the copy counts unless RetryCount is down to zero. *)
Finish(r) ==
    /\ reader[r].pc = "check" /\ (Settled(r) \/ reader[r].retry = 0)
    /\ reader' = [reader EXCEPT ![r].pc =
                    IF reader[r].retry = 0 THEN "failed" ELSE "ok"]
    /\ UNCHANGED <<last, state, writer, published>>

Return(r) ==
    /\ reader[r].pc \in {"ok", "failed"}
    /\ reader' = [reader EXCEPT ![r] = Absent]
    /\ UNCHANGED <<last, state, writer, published>>

Next ==
    \/ StartReferenceUpdate \/ CopyField \/ FinishReferenceUpdate
    \/ \E f \in Fields : ChangeField(f)
    \/ \E r \in Readers : \/ GetReference(r) \/ ReadField(r) \/ Retry(r)
                          \/ Finish(r) \/ Return(r)

Spec == Init /\ [][Next]_vars
-----------------------------------------------------------------------------
(* A reference that is handed out is one that an update has left, whole,    *)
(* and no older than the one that was current when the task asked, however  *)
(* often the ring turns over meanwhile.                                     *)
ReadsWhole == \A r \in Readers : reader[r].pc = "ok" =>
    /\ reader[r].got = published[reader[r].version]
    /\ reader[r].version >= reader[r].since
=============================================================================
