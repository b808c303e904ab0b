---------------------------- MODULE ResourceTable ----------------------------
(* A table of objects named by resource identifiers, allocated with FindNext *)
(* and freed in any order; serials wrap.  FindNext is compared with the      *)
(* do-while loop it stands for.                                              *)
EXTENDS ResourceIds, FiniteSets

CONSTANTS
    TableSize,
    MaxSerial,      \* CFE_RESOURCEID_MAX
    None            \* CFE_RESOURCEID_UNDEFINED

SizesAssumption ==
    /\ TableSize \in Nat \ {0} /\ MaxSerial \in Nat
    /\ TableSize < MaxSerial

VARIABLES
    held,           \* [slot -> serial of the object in it, or None]
    last            \* the serial handed out last

vars == <<held, last>>
TableSlots == 0..(TableSize - 1)
Taken(serial) == held[ToIndex(serial, TableSize)] # None

(* The loop of CFE_ResourceId_FindNext, iteration by iteration. *)
Step(serial) == IF serial + 1 >= MaxSerial THEN (serial + 1) % TableSize
                                           ELSE serial + 1
RECURSIVE Loop(_, _)
Loop(serial, count) ==
    IF count = 0 THEN None
    ELSE IF Taken(Step(serial)) THEN Loop(Step(serial), count - 1)
    ELSE Step(serial)

Found == FindNext(last, TableSize, MaxSerial,
                  {s \in TableSlots : held[s] # None}, None)

Init == held = [s \in TableSlots |-> None] /\ last = 0

Allocate ==
    /\ Found # None
    /\ held' = [held EXCEPT ![ToIndex(Found, TableSize)] = Found]
    /\ last' = Found

Free == \E s \in TableSlots : held[s] # None /\ held' = [held EXCEPT ![s] = None]
                              /\ UNCHANGED last

Next == Allocate \/ Free
Spec == Init /\ [][Next]_vars

(* FindNext finds what the loop of CFE_ResourceId_FindNext finds, also when  *)
(* the serial wraps in the middle of the search.                             *)
FindNextIsLoop == Found = Loop(last, TableSize)

(* CFE_ResourceId_FindNext fails only when every slot is in use: the wrap    *)
(* skips no slot and visits none twice.                                      *)
FindsFreeSlot == Found = None <=> \A s \in TableSlots : held[s] # None
=============================================================================
