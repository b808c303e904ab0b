------------------------------ MODULE ObjectIds ------------------------------
(***************************************************************************)
(* The object ID map of OSAL (osapi-idmap.c) for one type of object, the   *)
(* queues that SB pipes are made of: records in a table under one lock,    *)
(* tokens that keep a record in use or to themselves after the lock is     *)
(* released, and callers that wait for a record to change.  What runs      *)
(* under the lock is one action.                                           *)
(***************************************************************************)
EXTENDS ResourceIds, FiniteSets

CONSTANTS
    Tasks, NoTask,      \* tasks, and the owner of a lock that is free
    MAX_OBJECTS,        \* OS_MAX_QUEUES
    INDEX_MASK,         \* OS_OBJECT_INDEX_MASK, where the serial wraps
    ATTEMPTS,           \* what OS_ObjectIdConvertToken gives up after
    Names, NoName,      \* names, and the NULL of name_entry
    FREE,               \* OS_OBJECT_ID_UNDEFINED
    RESERVED            \* OS_OBJECT_ID_RESERVED

ObjectAssumption ==
    /\ MAX_OBJECTS \in Nat \ {0} /\ INDEX_MASK \in Nat /\ ATTEMPTS \in Nat \ {0}
    /\ MAX_OBJECTS < INDEX_MASK
    /\ IsFiniteSet(Tasks) /\ NoTask \notin Tasks /\ NoName \notin Names
    /\ FREE # RESERVED /\ {FREE, RESERVED} \cap 0..INDEX_MASK = {}

VARIABLES
    record,     \* OS_common_table: active_id, name_entry, refcount
    issued,     \* last_id_issued
    owner,      \* the task that has kept the lock of the table, or NoTask
    call        \* each task inside a call: its token, and where it is

vars == <<record, issued, owner, call>>

Slots == 0..(MAX_OBJECTS - 1)
Ids == 0..(INDEX_MASK - 1)
Resting == [pc |-> "idle", mode |-> "NONE", id |-> FREE, slot |-> 0,
            tries |-> 0, owns |-> FALSE, name |-> NoName]
Token(mode, id) == [Resting EXCEPT !.mode = mode, !.id = id,
                                   !.slot = ToIndex(id, MAX_OBJECTS)]

Init ==
    /\ record = [s \in Slots |-> [id |-> FREE, name |-> NoName, refs |-> 0]]
    /\ issued = 0
    /\ owner = NoTask
    /\ call = [t \in Tasks |-> Resting]

-----------------------------------------------------------------------------
(* OS_ObjectIdConvertToken, one pass of its loop.  A caller that wants a   *)
(* record for itself makes its ID RESERVED at the first match and then     *)
(* waits for the references to go; `owns' is that it has done so.          *)

Expected(c) == IF c.owns THEN RESERVED ELSE c.id
Mine(c, r) == c.mode = "EXCLUSIVE" /\ r.id = Expected(c)
Marked(c, r) == IF Mine(c, r) THEN [r EXCEPT !.id = RESERVED] ELSE r

(* Mutant of Ready: the references are not looked at. *)
ReadyAtOnce(c, r) == r.id = Expected(c)
Ready(c, r) == r.id = Expected(c) /\ (c.mode = "EXCLUSIVE" => r.refs = 0)
Invalid(c, r) == r.id # Expected(c) /\ r.id # RESERVED

Granted(t, c, r) ==
    /\ Ready(c, r)
    /\ IF c.mode = "GLOBAL"         \* released by the caller, under the same lock
         THEN UNCHANGED record /\ call' = [call EXCEPT ![t] = Resting]
         ELSE /\ record' = [record EXCEPT ![c.slot] =
                              [Marked(c, r) EXCEPT !.refs = @ + 1]]
              /\ call' = [call EXCEPT ![t] =
                            [c EXCEPT !.pc = "hold", !.owns = Mine(c, r), !.tries = 0]]

Refused(t, c, r) ==
    /\ Invalid(c, r)
    /\ UNCHANGED record /\ call' = [call EXCEPT ![t] = Resting]

(* OS_ERR_OBJECT_IN_USE: an owner gives the record its ID back. *)
InUse(t, c, r) ==
    /\ ~Ready(c, r) /\ ~Invalid(c, r) /\ c.tries + 1 >= ATTEMPTS
    /\ record' = [record EXCEPT ![c.slot].id = IF Mine(c, r) THEN c.id ELSE @]
    /\ call' = [call EXCEPT ![t] = Resting]

WaitForStateChange(t, c, r) ==
    /\ ~Ready(c, r) /\ ~Invalid(c, r) /\ c.tries + 1 < ATTEMPTS
    /\ record' = [record EXCEPT ![c.slot] = Marked(c, r)]
    /\ call' = [call EXCEPT ![t] = [c EXCEPT !.pc = "wait", !.tries = @ + 1,
                                             !.owns = Mine(c, r)]]

ConvertToken(t, c) ==
    LET r == record[c.slot]
    IN  /\ owner = NoTask
        /\ \/ Granted(t, c, r) \/ Refused(t, c, r)
           \/ InUse(t, c, r) \/ WaitForStateChange(t, c, r)
        /\ UNCHANGED <<issued, owner>>

(* OS_ObjectIdGetById, with any ID the caller may have kept. *)
GetById(t, mode, id) == call[t].pc = "idle" /\ ConvertToken(t, Token(mode, id))

(* The table was unlocked, or the time is up: the loop goes on. *)
Awake(t) == call[t].pc = "wait" /\ ConvertToken(t, call[t])

(* OS_ObjectIdTransactionFinish: the end of a call that holds a token. *)
Finish(t, id) ==
    /\ owner = NoTask
    /\ record' = [record EXCEPT ![call[t].slot].refs = IF @ > 0 THEN @ - 1 ELSE 0,
                                ![call[t].slot].id = id]
    /\ call' = [call EXCEPT ![t] = Resting]
    /\ UNCHANGED <<issued, owner>>

Release(t) ==
    /\ call[t].pc = "hold" /\ call[t].mode = "REFCOUNT"
    /\ Finish(t, record[call[t].slot].id)

(* OS_QueueDelete, when the implementation has deleted the queue or failed. *)
FinalizeDelete(t) ==
    /\ call[t].pc = "hold" /\ call[t].mode = "EXCLUSIVE"
    /\ \E final \in {FREE, call[t].id} : Finish(t, final)

-----------------------------------------------------------------------------
(* OS_QueueCreate.  OS_ObjectIdAllocateNew looks for the name and for a    *)
(* free record under the lock; the name is written after its release.      *)

Defined == {s \in Slots : record[s].id # FREE}
Named(n) == {s \in Defined : record[s].name = n}
FindNextFree == FindNext(issued, MAX_OBJECTS, INDEX_MASK, Defined, FREE)

AllocateNew(t, n) ==
    LET c == Token("EXCLUSIVE", FindNextFree)
    IN  /\ call[t].pc = "idle" /\ owner = NoTask
        /\ Named(n) = {} /\ FindNextFree # FREE
        /\ record' = [record EXCEPT ![c.slot] = [id |-> RESERVED, name |-> NoName,
                                                 refs |-> 1]]
        /\ issued' = c.id
        /\ call' = [call EXCEPT ![t] = [c EXCEPT !.pc = "new", !.owns = TRUE,
                                                 !.name = n]]
        /\ UNCHANGED owner

ObjectInit(t) ==
    /\ call[t].pc = "new"
    /\ record' = [record EXCEPT ![call[t].slot].name = call[t].name]
    /\ call' = [call EXCEPT ![t].pc = "init"]
    /\ UNCHANGED <<issued, owner>>

(* The implementation has created the queue or failed. *)
FinalizeNew(t) ==
    /\ call[t].pc = "init"
    /\ \E final \in {FREE, call[t].id} : Finish(t, final)

-----------------------------------------------------------------------------
(* OS_ObjectIdFindByName, for a name that some record has.  A record whose *)
(* ID is RESERVED matches too; OS_ObjectIdConvertToken then returns an     *)
(* error at once and OS_ObjectIdGetBySearch returns it without releasing   *)
(* the lock, which is not recursive and has no timeout.                    *)
FindByName(t, n) ==
    LET first == CHOOSE s \in Named(n) : \A o \in Named(n) : s <= o
    IN  /\ call[t].pc = "idle" /\ owner = NoTask /\ Named(n) # {}
        /\ owner' = IF record[first].id = RESERVED THEN t ELSE NoTask
        /\ UNCHANGED <<record, issued, call>>

Next == \E t \in Tasks :
    \/ \E id \in Ids, mode \in {"GLOBAL", "REFCOUNT", "EXCLUSIVE"} : GetById(t, mode, id)
    \/ \E n \in Names : AllocateNew(t, n) \/ FindByName(t, n)
    \/ Awake(t) \/ Release(t) \/ FinalizeDelete(t) \/ ObjectInit(t) \/ FinalizeNew(t)

Spec == Init /\ [][Next]_vars
-----------------------------------------------------------------------------
Holders(s) == {t \in Tasks : call[t].slot = s /\ call[t].pc \in {"new", "init", "hold"}}
Owners(s) == {t \in Tasks : call[t].slot = s /\ call[t].owns}

(* Whatever calls overlap, a reference is counted for every token; a record *)
(* is RESERVED for exactly one caller; a caller that was granted a record   *)
(* for itself is alone with it; an object in use keeps its ID, or is        *)
(* waited for; and an ID leads to its record.                               *)
ObjectsExact ==
    /\ \A s \in Slots :
         /\ record[s].refs = Cardinality(Holders(s))
         /\ Cardinality(Owners(s)) = IF record[s].id = RESERVED THEN 1 ELSE 0
         /\ \A t \in Holders(s) : call[t].owns => Holders(s) = {t}
         /\ record[s].id \in Ids => ToIndex(record[s].id, MAX_OBJECTS) = s
    /\ \A t \in Tasks : call[t].pc = "hold" /\ ~call[t].owns =>
         record[call[t].slot].id \in {call[t].id, RESERVED}

(* No call returns with the lock of the table: what the comment at          *)
(* osapi-idmap.c:397 says of the calls that fail.                           *)
LockReleased == \A t \in Tasks : call[t].pc = "idle" => owner # t
=============================================================================
