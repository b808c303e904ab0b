----------------------------- MODULE ResourceIds -----------------------------
(***************************************************************************)
(* Resource identifiers of cFE (modules/resourceid).  An identifier is a   *)
(* resource type base plus a serial number; the table slot of an object is *)
(* its serial modulo the table size.  Only serials are modelled: the base  *)
(* separates resource types, and one table holds one type.                 *)
(***************************************************************************)
EXTENDS Naturals

(* CFE_ResourceId_ToIndex: a serial above `maxSerial' is not an ID at all. *)
IsSerial(serial, maxSerial) == serial \in 0..maxSerial

ToIndex(serial, tableSize) == serial % tableSize

(* Mutants of Candidate: the search starts over at the first slot; the      *)
(* serial wraps to zero.                                                    *)
CandidateFromZero(start, k, tableSize, maxSerial) == k
CandidateResets(start, k, tableSize, maxSerial) ==
    IF start + k < maxSerial THEN start + k ELSE start + k - maxSerial

(***************************************************************************)
(* The k-th identifier CFE_ResourceId_FindNext tries after `start'.  The   *)
(* serial counts up by one; on reaching `maxSerial' it is reduced modulo   *)
(* the table size and counts on from there, so the slots it visits stay    *)
(* consecutive.  For k up to the table size this is the closed form of the *)
(* do-while loop (the module ResourceTable checks it against the loop).    *)
(***************************************************************************)
Candidate(start, k, tableSize, maxSerial) ==
    IF start + k < maxSerial
      THEN start + k
      ELSE (maxSerial % tableSize) + (start + k - maxSerial)

(* CFE_ResourceId_FindNext: the first candidate whose slot is not in `used', *)
(* out of as many candidates as the table has slots; `none' if all are.     *)
FindNext(start, tableSize, maxSerial, used, none) ==
    LET Free(k) == ToIndex(Candidate(start, k, tableSize, maxSerial), tableSize)
                     \notin used
        open == {k \in 1..tableSize : Free(k)}
    IN  IF open = {} THEN none
        ELSE Candidate(start, CHOOSE k \in open : \A j \in open : k <= j,
                       tableSize, maxSerial)
=============================================================================
