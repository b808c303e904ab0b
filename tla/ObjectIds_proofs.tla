-------------------------- MODULE ObjectIds_proofs --------------------------
(***************************************************************************)
(* Proofs about the object IDs of OSAL, for any number of tasks, objects,  *)
(* serial numbers and attempts: whatever calls overlap, references, owners *)
(* and IDs of a record are what the tokens of the tasks say.               *)
(***************************************************************************)
EXTENDS ObjectIds, FiniteSetTheorems, WellFoundedInduction, TLAPS

Record == [id : Ids \cup {FREE, RESERVED}, name : Names \cup {NoName}, refs : Nat]
Call == [pc : {"idle", "wait", "hold", "new", "init"},
         mode : {"NONE", "GLOBAL", "REFCOUNT", "EXCLUSIVE"},
         id : Ids \cup {FREE}, slot : Slots, tries : Nat, owns : BOOLEAN,
         name : Names \cup {NoName}]
TypeOK ==
    /\ record \in [Slots -> Record]
    /\ issued \in Ids
    /\ owner \in Tasks \cup {NoTask}
    /\ call \in [Tasks -> Call]

Holding(c) == c.pc \in {"new", "init", "hold"}

(* What each place in a call says of the token. *)
Shaped(c) ==
    /\ c.pc # "idle" => c.id \in Ids /\ c.slot = ToIndex(c.id, MAX_OBJECTS)
    /\ c.owns => c.pc # "idle" /\ c.mode = "EXCLUSIVE"
    /\ Holding(c) => (c.owns <=> c.mode = "EXCLUSIVE")
    /\ c.pc \in {"new", "init"} => c.mode = "EXCLUSIVE"
CallsShaped == \A t \in Tasks : Shaped(call[t])

IdsLead == \A s \in Slots :
    record[s].id \in Ids => ToIndex(record[s].id, MAX_OBJECTS) = s
RefsCounted == \A s \in Slots : record[s].refs = Cardinality(Holders(s))

(* A record is RESERVED for its owner, who is one, and alone once it holds. *)
OwnersReserve == \A t \in Tasks :
    call[t].owns => record[call[t].slot].id = RESERVED
ReservedOwned == \A s \in Slots :
    record[s].id = RESERVED => \E t \in Tasks : call[t].owns /\ call[t].slot = s
OwnersAlone == \A t, u \in Tasks :
    call[t].owns /\ call[u].slot = call[t].slot
      /\ (call[u].owns \/ (Holding(call[t]) /\ Holding(call[u]))) => t = u

(* A user's record keeps its ID, or is reserved for one who waits for the   *)
(* users of that same ID to go, and can give it back.                       *)
IdKept == \A u \in Tasks : Holding(call[u]) /\ ~call[u].owns =>
    \/ record[call[u].slot].id = call[u].id
    \/ \E t \in Tasks : call[t].owns /\ call[t].slot = call[u].slot
                        /\ call[t].id = call[u].id

Inv == /\ TypeOK /\ CallsShaped /\ IdsLead /\ RefsCounted
       /\ OwnersReserve /\ ReservedOwned /\ OwnersAlone /\ IdKept

-----------------------------------------------------------------------------
LEMMA Remainder ==
  ASSUME NEW a \in Nat, NEW b \in Nat \ {0}
  PROVE  a % b \in 0..b - 1
  OBVIOUS

LEMMA RemainderBelow ==
  ASSUME NEW a \in Nat, NEW b \in Nat \ {0}, b <= a
  PROVE  a % b <= a - b
<1> DEFINE q == a \div b
<1>1. a = b * q + (a % b) /\ q \in Int /\ a % b \in 0..b - 1
  OBVIOUS
<1>2. q >= 1
  <2>1. CASE q <= 0
    <3>1. b * q <= 0
      BY <1>1, <2>1
    <3> QED BY <1>1, <3>1
  <2> QED BY <1>1, <2>1
<1>3. b * q >= b
  BY <1>1, <1>2
<1> QED BY <1>1, <1>3

(* A nonempty set of numbers has a least element.                           *)
LEMMA LeastNumber ==
  ASSUME NEW S, S \subseteq Nat, S # {}
  PROVE  \E k \in S : \A j \in S : k <= j
<1>1. PICK k \in S : \A j \in S : ~ (<<j, k>> \in OpToRel(<, Nat))
  BY NatLessThanWellFounded, WFMin
<1>2. \A j \in S : ~ (j < k)
  BY <1>1 DEF OpToRel
<1> QED BY <1>2

(* OS_ObjectIdFindNextFree finds an ID whose record is free, also across    *)
(* the wrap of the serial.                                                  *)
LEMMA FindNextFreeId ==
  ASSUME ObjectAssumption, issued \in Ids, FindNextFree # FREE
  PROVE  /\ FindNextFree \in Ids
         /\ ToIndex(FindNextFree, MAX_OBJECTS) \in Slots \ Defined
<1> DEFINE open == {k \in 1..MAX_OBJECTS :
                      ToIndex(Candidate(issued, k, MAX_OBJECTS, INDEX_MASK),
                              MAX_OBJECTS) \notin Defined}
           k == CHOOSE k \in open : \A j \in open : k <= j
<1>1. open # {} /\ FindNextFree = Candidate(issued, k, MAX_OBJECTS, INDEX_MASK)
  BY DEF FindNextFree, FindNext
<1>2. open \subseteq Nat
  OBVIOUS
<1>3. k \in open
  BY <1>1, <1>2, LeastNumber
<1>4. /\ k \in 1..MAX_OBJECTS
      /\ ToIndex(Candidate(issued, k, MAX_OBJECTS, INDEX_MASK), MAX_OBJECTS)
           \notin Defined
  BY <1>3
<1> HIDE DEF k, open
<1>5. /\ MAX_OBJECTS \in Nat \ {0} /\ INDEX_MASK \in Nat /\ MAX_OBJECTS < INDEX_MASK
      /\ issued \in Nat /\ issued < INDEX_MASK
  BY DEF ObjectAssumption, Ids
<1>6. /\ INDEX_MASK % MAX_OBJECTS \in 0..MAX_OBJECTS - 1
      /\ INDEX_MASK % MAX_OBJECTS <= INDEX_MASK - MAX_OBJECTS
  <2>1. MAX_OBJECTS <= INDEX_MASK
    BY <1>5
  <2>2. INDEX_MASK % MAX_OBJECTS <= INDEX_MASK - MAX_OBJECTS
    BY <1>5, <2>1, RemainderBelow
  <2> QED BY <1>5, <2>2, Remainder
<1>7. Candidate(issued, k, MAX_OBJECTS, INDEX_MASK) \in Ids
  BY <1>4, <1>5, <1>6 DEF Candidate, Ids
<1>8. \A n \in Ids : n % MAX_OBJECTS \in Slots
  BY <1>5, Remainder DEF Ids, Slots
<1> QED BY <1>1, <1>4, <1>7, <1>8 DEF ToIndex

LEMMA IndexTyped ==
  ASSUME ObjectAssumption, NEW id \in Ids
  PROVE  ToIndex(id, MAX_OBJECTS) \in Slots
  BY Remainder DEF ToIndex, Ids, Slots, ObjectAssumption

LEMMA NamesApart ==
  ASSUME ObjectAssumption
  PROVE  FREE \notin Ids /\ RESERVED \notin Ids /\ FREE # RESERVED /\ 0 \in Slots
         /\ 0 \in Ids
  BY DEF ObjectAssumption, Ids, Slots

LEMMA HoldersFinite ==
  ASSUME ObjectAssumption, NEW s
  PROVE  IsFiniteSet(Holders(s)) /\ Cardinality(Holders(s)) \in Nat
<1>1. Holders(s) \subseteq Tasks /\ IsFiniteSet(Tasks)
  BY DEF Holders, ObjectAssumption
<1> QED BY <1>1, FS_Subset, FS_CardinalityType

-----------------------------------------------------------------------------
(* One task's step: its call becomes c, and one record becomes r. *)
Count(c) == IF Holding(c) THEN 1 ELSE 0

Legal(t, s, c, r) ==
    /\ c \in Call /\ Shaped(c) /\ s \in Slots /\ r \in Record
    /\ call[t].pc # "idle" => call[t].slot = s
    /\ c.pc # "idle" => c.slot = s
    /\ r.refs = record[s].refs + Count(c) - Count(call[t])
    /\ r.id \in Ids => ToIndex(r.id, MAX_OBJECTS) = s
    /\ c.owns => r.id = RESERVED /\ (call[t].owns \/ record[s].id # RESERVED)
    /\ r.id = RESERVED => c.owns \/ (record[s].id = RESERVED /\ ~call[t].owns)
    /\ record[s].id = RESERVED /\ ~call[t].owns => r.id = RESERVED
    /\ Holding(c) /\ c.owns => Holders(s) \subseteq {t}
    /\ Holding(c) /\ ~c.owns => r.id = c.id /\ record[s].id = c.id
    /\ \A u \in Holders(s) \ {t} : ~call[u].owns =>
          \/ r.id = call[u].id
          \/ c.owns /\ c.id = call[u].id
          \/ record[s].id = RESERVED /\ ~call[t].owns

LEMMA Step ==
  ASSUME ObjectAssumption, Inv, NEW t \in Tasks, NEW s, NEW c, NEW r,
         Legal(t, s, c, r),
         call' = [call EXCEPT ![t] = c], record' = [record EXCEPT ![s] = r],
         issued' \in Ids, owner' = owner
  PROVE  Inv'
<1> USE DEF Inv
<1>1. /\ call'[t] = c /\ \A u \in Tasks : u # t => call'[u] = call[u]
      /\ record'[s] = r /\ \A q \in Slots : q # s => record'[q] = record[q]
      /\ s \in Slots /\ \A u \in Tasks : call[u] \in Call
  BY DEF TypeOK, Legal
<1>2. TypeOK'
  BY DEF TypeOK, Legal
<1>3. CallsShaped'
  BY <1>1 DEF CallsShaped, Legal, Shaped, Holding
<1>4. IdsLead'
  BY <1>1 DEF IdsLead, Legal
<1>5. RefsCounted'
  <2> SUFFICES ASSUME NEW q \in Slots
               PROVE  record'[q].refs = Cardinality(Holders(q)')
    BY DEF RefsCounted
  <2>0. IsFiniteSet(Holders(q)) /\ record[q].refs = Cardinality(Holders(q))
    BY HoldersFinite DEF RefsCounted
  <2>1. CASE q # s
    <3>1. Holders(q)' = Holders(q)
      BY <2>1, <1>1 DEF Holders, Legal
    <3> QED BY <2>0, <2>1, <3>1, <1>1
  <2>2. CASE q = s
    <3>1. t \in Holders(s) <=> Holding(call[t])
      BY DEF Holders, Holding, Legal
    <3>2. Holders(s)' = (Holders(s) \ {t}) \cup (IF Holding(c) THEN {t} ELSE {})
      BY <1>1 DEF Holders, Holding, Legal
    <3>3. /\ IsFiniteSet(Holders(s) \ {t})
          /\ Cardinality(Holders(s) \ {t}) = Cardinality(Holders(s)) - Count(call[t])
      <4>1. CASE Holding(call[t])
        BY <4>1, <2>0, <2>2, <3>1, FS_RemoveElement DEF Count
      <4>2. CASE ~Holding(call[t])
        <5>1. Holders(s) \ {t} = Holders(s) /\ Count(call[t]) = 0
          BY <4>2, <3>1 DEF Count
        <5>2. IsFiniteSet(Holders(s)) /\ Cardinality(Holders(s)) \in Nat
          BY HoldersFinite
        <5> QED BY <5>1, <5>2
      <4> QED BY <4>1, <4>2
    <3>4. Cardinality(Holders(s)') = Cardinality(Holders(s) \ {t}) + Count(c)
      <4>1. CASE Holding(c)
        BY <4>1, <3>2, <3>3, FS_AddElement DEF Count
      <4>2. CASE ~Holding(c)
        <5>1. Holders(s)' = Holders(s) \ {t} /\ Count(c) = 0
          BY <4>2, <3>2 DEF Count
        <5> QED BY <5>1, <3>3, FS_CardinalityType
      <4> QED BY <4>1, <4>2
    <3>5. Count(c) \in Int /\ Count(call[t]) \in Int /\ Cardinality(Holders(s)) \in Int
      BY <2>0, <2>2, FS_CardinalityType DEF Count
    <3> QED BY <2>0, <2>2, <3>3, <3>4, <3>5, <1>1 DEF Legal
  <2> QED BY <2>1, <2>2
<1>6. OwnersReserve'
  <2> SUFFICES ASSUME NEW u \in Tasks, call'[u].owns
               PROVE  record'[call'[u].slot].id = RESERVED
    BY DEF OwnersReserve
  <2>1. CASE u = t
    BY <2>1, <1>1 DEF Legal, Shaped
  <2>2. CASE u # t /\ call[u].slot # s
    BY <2>2, <1>1 DEF OwnersReserve, Call
  <2>3. CASE u # t /\ call[u].slot = s
    BY <2>3, <1>1 DEF OwnersReserve, OwnersAlone, Legal, CallsShaped, Shaped
  <2> QED BY <2>1, <2>2, <2>3
<1>7. ReservedOwned'
  <2> SUFFICES ASSUME NEW q \in Slots, record'[q].id = RESERVED
               PROVE  \E u \in Tasks : call'[u].owns /\ call'[u].slot = q
    BY DEF ReservedOwned
  <2>1. CASE q # s
    <3>1. PICK u \in Tasks : call[u].owns /\ call[u].slot = q
      BY <2>1, <1>1 DEF ReservedOwned
    <3>2. u # t
      BY <2>1, <3>1 DEF Legal, CallsShaped, Shaped
    <3> QED BY <3>1, <3>2, <1>1
  <2>2. CASE q = s /\ c.owns
    BY <2>2, <1>1 DEF Legal, Shaped
  <2>3. CASE q = s /\ ~c.owns
    <3>1. record[s].id = RESERVED /\ ~call[t].owns
      BY <2>3, <1>1 DEF Legal
    <3>2. PICK u \in Tasks : call[u].owns /\ call[u].slot = s
      BY <3>1, <1>1 DEF ReservedOwned
    <3> QED BY <2>3, <3>1, <3>2, <1>1
  <2> QED BY <2>1, <2>2, <2>3
<1>8. OwnersAlone'
  <2> SUFFICES ASSUME NEW u \in Tasks, NEW v \in Tasks, u # v, call'[u].owns,
                      call'[v].slot = call'[u].slot,
                      call'[v].owns \/ (Holding(call'[u]) /\ Holding(call'[v]))
               PROVE  FALSE
    BY DEF OwnersAlone, Holding
  <2>1. CASE u # t /\ v # t
    BY <2>1, <1>1 DEF OwnersAlone
  <2>2. CASE u = t
    <3>1. c.owns /\ c.slot = s /\ call[v].slot = s /\ call'[v] = call[v]
      BY <2>2, <1>1 DEF Legal, Shaped
    <3>2. CASE call[v].owns
      <4>1. record[s].id = RESERVED
        BY <3>1, <3>2 DEF OwnersReserve
      <4>2. call[t].owns /\ call[t].slot = s
        BY <3>1, <4>1 DEF Legal, CallsShaped, Shaped
      <4> QED BY <2>2, <3>1, <3>2, <4>2 DEF OwnersAlone
    <3>3. CASE Holding(c) /\ Holding(call[v])
      <4>1. v \in Holders(s)
        BY <3>1, <3>3 DEF Holders, Holding
      <4> QED BY <2>2, <3>1, <3>3, <4>1 DEF Legal
    <3> QED BY <2>2, <3>1, <3>2, <3>3, <1>1
  <2>3. CASE v = t
    <3>1. /\ call'[u] = call[u] /\ call[u].owns /\ c.slot = call[u].slot
          /\ c.owns \/ (Holding(call[u]) /\ Holding(c))
      BY <2>3, <1>1
    <3>2. c.slot = s /\ call[u].slot = s /\ record[s].id = RESERVED
      BY <3>1 DEF Legal, Shaped, Holding, OwnersReserve
    <3>3. CASE c.owns
      <4>1. call[t].owns /\ call[t].slot = s
        BY <3>2, <3>3 DEF Legal, CallsShaped, Shaped
      <4> QED BY <2>3, <3>1, <3>2, <4>1 DEF OwnersAlone
    <3>4. CASE ~c.owns /\ Holding(c)
      <4>1. c.id = RESERVED /\ c.id \in Ids
        BY <3>2, <3>4 DEF Legal, Shaped, Holding
      <4> QED BY <4>1, NamesApart
    <3> QED BY <3>1, <3>3, <3>4
  <2> QED BY <2>1, <2>2, <2>3
<1>9. IdKept'
  <2> SUFFICES ASSUME NEW u \in Tasks, Holding(call'[u]), ~call'[u].owns
               PROVE  \/ record'[call'[u].slot].id = call'[u].id
                      \/ \E v \in Tasks : /\ call'[v].owns
                                          /\ call'[v].slot = call'[u].slot
                                          /\ call'[v].id = call'[u].id
    BY DEF IdKept, Holding
  <2>1. CASE u = t
    BY <2>1, <1>1 DEF Legal, Holding
  <2>2. CASE u # t /\ call[u].slot # s
    <3>1. CASE record[call[u].slot].id = call[u].id
      BY <2>2, <3>1, <1>1 DEF Call
    <3>2. CASE \E v \in Tasks : /\ call[v].owns /\ call[v].slot = call[u].slot
                                /\ call[v].id = call[u].id
      <4>1. PICK v \in Tasks : /\ call[v].owns /\ call[v].slot = call[u].slot
                               /\ call[v].id = call[u].id
        BY <3>2
      <4>2. v # t
        BY <2>2, <4>1 DEF Legal, CallsShaped, Shaped
      <4> QED BY <2>2, <4>1, <4>2, <1>1
    <3> QED BY <2>2, <3>1, <3>2, <1>1 DEF IdKept
  <2>3. CASE u # t /\ call[u].slot = s
    <3>1. u \in Holders(s) \ {t} /\ ~call[u].owns /\ call'[u] = call[u]
      BY <2>3, <1>1 DEF Holders, Holding
    <3>2. CASE r.id = call[u].id
      BY <2>3, <3>1, <3>2, <1>1
    <3>3. CASE c.owns /\ c.id = call[u].id
      BY <2>3, <3>1, <3>3, <1>1 DEF Legal, Shaped
    <3>4. CASE record[s].id = RESERVED /\ ~call[t].owns
      <4>1. call[u].id \in Ids
        BY <3>1, <2>3, <1>1 DEF CallsShaped, Shaped, Holding
      <4>2. PICK v \in Tasks : /\ call[v].owns /\ call[v].slot = call[u].slot
                               /\ call[v].id = call[u].id
        BY <2>3, <3>1, <3>4, <4>1, NamesApart DEF IdKept, Holders, Holding
      <4> QED BY <2>3, <3>1, <3>4, <4>2, <1>1
    <3> QED BY <3>1, <3>2, <3>3, <3>4 DEF Legal
  <2> QED BY <2>1, <2>2, <2>3
<1> QED BY <1>2, <1>3, <1>4, <1>5, <1>6, <1>7, <1>8, <1>9

(* A task that owns a record or holds one finds it as it left it. *)
LEMMA Facts ==
  ASSUME ObjectAssumption, Inv, NEW t \in Tasks
  PROVE  /\ call[t] \in Call /\ Shaped(call[t]) /\ Resting \in Call /\ Shaped(Resting)
         /\ call[t].slot \in Slots /\ record[call[t].slot] \in Record
         /\ record[call[t].slot].refs \in Nat
         /\ record[call[t].slot].id \in Ids =>
              ToIndex(record[call[t].slot].id, MAX_OBJECTS) = call[t].slot
         /\ call[t].owns => record[call[t].slot].id = RESERVED
         /\ Holding(call[t]) => record[call[t].slot].refs > 0
         /\ call[t].owns /\ Holding(call[t]) =>
              Holders(call[t].slot) \subseteq {t} /\ record[call[t].slot].refs = 1
         /\ \A u \in Holders(call[t].slot) \ {t} :
              /\ call[t].owns => ~call[u].owns \/ ~Holding(call[t])
              /\ call[t].owns /\ ~call[u].owns => call[u].id = call[t].id
<1> USE DEF Inv
<1> DEFINE s == call[t].slot
<1>1. call[t] \in Call /\ Shaped(call[t]) /\ s \in Slots /\ record[s] \in Record
     /\ record[s].refs \in Nat
  BY DEF TypeOK, CallsShaped, Call, Record
<1>2. Resting \in Call /\ Shaped(Resting)
  BY NamesApart DEF Resting, Call, Shaped, Holding
<1>3. IsFiniteSet(Holders(s)) /\ record[s].refs = Cardinality(Holders(s))
  BY <1>1, HoldersFinite DEF RefsCounted
<1>4. Holding(call[t]) => t \in Holders(s)
  BY DEF Holders, Holding
<1>5. Holding(call[t]) => record[s].refs > 0
  BY <1>1, <1>3, <1>4, FS_EmptySet
<1>6. call[t].owns /\ Holding(call[t]) => Holders(s) = {t}
  BY <1>4 DEF Holders, Holding, OwnersAlone
<1>7. call[t].owns /\ Holding(call[t]) => record[s].refs = 1
  BY <1>3, <1>6, FS_Singleton
<1>8. ASSUME NEW u \in Holders(s) \ {t}, call[t].owns, ~call[u].owns
      PROVE  call[u].id = call[t].id
  <2>1. u \in Tasks /\ Holding(call[u]) /\ call[u].slot = s /\ record[s].id = RESERVED
    BY <1>8 DEF Holders, Holding, OwnersReserve
  <2>2. record[s].id # call[u].id
    BY <2>1, NamesApart DEF CallsShaped, Shaped, Holding
  <2>3. PICK v \in Tasks : call[v].owns /\ call[v].slot = s /\ call[v].id = call[u].id
    BY <1>8, <2>1, <2>2 DEF IdKept
  <2> QED BY <1>8, <2>3 DEF OwnersAlone
<1>9. \A u \in Holders(s) \ {t} : call[t].owns => ~call[u].owns \/ ~Holding(call[t])
  BY <1>6
<1> QED BY <1>1, <1>2, <1>5, <1>6, <1>7, <1>8, <1>9 DEF IdsLead, OwnersReserve

(* A record that is not referenced has no holder. *)
LEMMA NoHolders ==
  ASSUME ObjectAssumption, Inv, NEW s \in Slots,
         record[s].refs = 0 \/ record[s].id = FREE
  PROVE  Holders(s) = {} /\ record[s].refs = 0
<1> USE DEF Inv
<1>1. IsFiniteSet(Holders(s)) /\ record[s].refs = Cardinality(Holders(s))
  BY HoldersFinite DEF RefsCounted
<1>2. record[s].id = FREE => Holders(s) = {}
  <2> SUFFICES ASSUME NEW u \in Tasks, Holding(call[u]), call[u].slot = s,
                      record[s].id = FREE
               PROVE  FALSE
    BY DEF Holders, Holding
  <2>1. call[u].id \in Ids /\ ~call[u].owns
    BY NamesApart DEF CallsShaped, Shaped, Holding, OwnersReserve
  <2>2. PICK v \in Tasks : call[v].owns /\ call[v].slot = s
    BY <2>1, NamesApart DEF IdKept
  <2> QED BY <2>2, NamesApart DEF OwnersReserve
<1> QED BY <1>1, <1>2, FS_EmptySet

LEMMA UsersIds ==
  ASSUME ObjectAssumption, Inv, NEW s \in Slots, NEW u \in Holders(s), ~call[u].owns
  PROVE  record[s].id = call[u].id \/ record[s].id = RESERVED
  BY DEF Inv, Holders, Holding, IdKept, OwnersReserve

-----------------------------------------------------------------------------
(* One pass of OS_ObjectIdConvertToken, for a new token or a waiting one.   *)
LEMMA ConvertInv ==
  ASSUME ObjectAssumption, Inv, NEW t \in Tasks, NEW c \in Call, Shaped(c),
         c.id \in Ids, c.slot = ToIndex(c.id, MAX_OBJECTS),
         c = call[t] \/ (call[t].pc = "idle" /\ c.pc = "idle"),
         c.pc \in {"idle", "wait"}, ConvertToken(t, c)
  PROVE  Inv'
<1> DEFINE s == c.slot
           r == record[s]
           marked == [r EXCEPT !.id = RESERVED]
<1>1. s \in Slots /\ r \in Record /\ r.refs \in Nat /\ issued \in Ids
  BY DEF Inv, TypeOK, Call, Record
<1>2. /\ ~Holding(c) /\ ~Holding(call[t]) /\ (c.owns <=> call[t].owns)
      /\ call[t].pc # "idle" => call[t].slot = s
      /\ c.owns => r.id = RESERVED /\ c.mode = "EXCLUSIVE" /\ c = call[t]
      /\ r.id \in Ids => ToIndex(r.id, MAX_OBJECTS) = s
  BY Facts DEF Holding, Shaped, Inv, IdsLead, Call
<1>3. /\ Count(call[t]) = 0 /\ Count(Resting) = 0
      /\ Resting \in Call /\ Shaped(Resting)
      /\ Resting.pc = "idle" /\ ~Resting.owns /\ ~Holding(Resting)
      /\ FREE \notin Ids /\ RESERVED \notin Ids /\ FREE # RESERVED
  BY <1>2, Facts, NamesApart DEF Count, Holding, Resting
<1>4. \A u \in Holders(s) : ~call[u].owns => r.id = call[u].id \/ r.id = RESERVED
  BY <1>1, UsersIds
<1>5. /\ marked \in Record /\ marked.id = RESERVED /\ marked.refs = r.refs
      /\ r.refs = 0 => r.refs + 1 \in Nat
  BY <1>1 DEF Record
<1>6. \A u \in Holders(s) \ {t} : c.owns /\ ~call[u].owns => call[u].id = c.id
  BY <1>2, Facts
<1>7. ASSUME NEW rr, NEW cc, Legal(t, s, cc, rr),
             record' = [record EXCEPT ![s] = rr], call' = [call EXCEPT ![t] = cc]
      PROVE  Inv'
  BY <1>1, <1>7, Step DEF ConvertToken
<1>8. CASE Granted(t, c, r)
  <2>1. CASE c.mode = "GLOBAL"
    <3>1. record' = [record EXCEPT ![s] = r] /\ call' = [call EXCEPT ![t] = Resting]
      BY <1>8, <2>1, <1>1 DEF Granted, Inv, TypeOK
    <3>2. Legal(t, s, Resting, r)
      BY <2>1, <1>1, <1>2, <1>3, <1>4 DEF Legal
    <3> QED BY <3>1, <3>2, <1>7
  <2>2. CASE c.mode = "EXCLUSIVE"
    <3> DEFINE rr == [r EXCEPT !.id = RESERVED, !.refs = 1]
               cc == [c EXCEPT !.pc = "hold", !.owns = TRUE, !.tries = 0]
    <3>1. Mine(c, r) /\ r.refs = 0 /\ r.id = Expected(c)
      BY <1>8, <2>2 DEF Granted, Ready, Mine
    <3>2. record' = [record EXCEPT ![s] = rr] /\ call' = [call EXCEPT ![t] = cc]
      <4>1. [marked EXCEPT !.refs = @ + 1] = rr
        <5>1. marked.refs = 0 /\ marked.refs + 1 = 1
          BY <1>1, <3>1 DEF Record
        <5>2. [marked EXCEPT !.refs = @ + 1] = [marked EXCEPT !.refs = 1]
          BY <5>1
        <5>3. [marked EXCEPT !.refs = 1] = rr
          BY <1>1 DEF Record
        <5> QED BY <5>2, <5>3
      <4>2. [c EXCEPT !.pc = "hold", !.owns = Mine(c, r), !.tries = 0] = cc
        BY <3>1
      <4>3. record' = [record EXCEPT ![s] = [marked EXCEPT !.refs = @ + 1]]
        BY <1>8, <2>2, <3>1 DEF Granted, Marked
      <4> QED BY <1>8, <2>2, <4>1, <4>2, <4>3 DEF Granted
    <3>3. /\ rr \in Record /\ rr.id = RESERVED /\ rr.refs = 1 /\ cc \in Call
          /\ cc.owns /\ cc.pc = "hold" /\ cc.slot = s /\ cc.id = c.id
          /\ cc.mode = "EXCLUSIVE"
      BY <1>1, <2>2 DEF Record, Call
    <3>4. Holders(s) = {}
      BY <1>1, <3>1, NoHolders
    <3>5. ~c.owns => r.id # RESERVED
      BY <1>3, <3>1 DEF Expected
    <3> HIDE DEF rr, cc
    <3>6. Legal(t, s, cc, rr)
      <4>1. Shaped(cc) /\ Count(cc) = 1 /\ Holding(cc)
        BY <3>3 DEF Shaped, Holding, Count
      <4> QED BY <4>1, <3>1, <3>3, <3>4, <3>5, <1>1, <1>2, <1>3 DEF Legal
    <3> QED BY <3>2, <3>6, <1>7
  <2>3. CASE c.mode \notin {"GLOBAL", "EXCLUSIVE"}
    <3> DEFINE rr == [r EXCEPT !.refs = @ + 1]
               cc == [c EXCEPT !.pc = "hold", !.owns = FALSE, !.tries = 0]
    <3>1. ~Mine(c, r) /\ ~c.owns /\ r.id = c.id
      BY <1>2, <1>8, <2>3 DEF Granted, Ready, Mine, Expected
    <3>2. record' = [record EXCEPT ![s] = rr] /\ call' = [call EXCEPT ![t] = cc]
      <4>0. Mine(c, r) = FALSE
        BY <3>1 DEF Mine
      <4>1. [c EXCEPT !.pc = "hold", !.owns = Mine(c, r), !.tries = 0] = cc
        BY <4>0
      <4> QED BY <1>8, <2>3, <3>1, <4>1 DEF Granted, Marked
    <3>3. /\ cc \in Call /\ ~cc.owns /\ cc.pc = "hold" /\ cc.slot = s /\ cc.id = c.id
          /\ cc.mode = c.mode
      BY DEF Call
    <3>5. rr \in Record /\ rr.id = r.id /\ rr.refs = r.refs + 1
      BY <1>1 DEF Record
    <3> HIDE DEF rr, cc
    <3>4. Legal(t, s, cc, rr)
      <4>1. Shaped(cc) /\ Count(cc) = 1 /\ Holding(cc)
        BY <2>3, <3>3 DEF Shaped, Holding, Count
      <4> QED BY <4>1, <3>1, <3>3, <3>5, <1>1, <1>2, <1>3, <1>4 DEF Legal
    <3> QED BY <3>2, <3>4, <1>7
  <2> QED BY <2>1, <2>2, <2>3
<1>9. CASE Refused(t, c, r)
  <2>1. record' = [record EXCEPT ![s] = r] /\ call' = [call EXCEPT ![t] = Resting]
    BY <1>9, <1>1 DEF Refused, Inv, TypeOK
  <2>2. ~c.owns
    BY <1>2, <1>9 DEF Refused, Invalid, Expected
  <2>3. Legal(t, s, Resting, r)
    BY <2>2, <1>1, <1>2, <1>3, <1>4 DEF Legal
  <2> QED BY <2>1, <2>3, <1>7
<1>10. CASE InUse(t, c, r)
  <2> DEFINE rr == [r EXCEPT !.id = IF Mine(c, r) THEN c.id ELSE @]
  <2>1. record' = [record EXCEPT ![s] = rr] /\ call' = [call EXCEPT ![t] = Resting]
    BY <1>10, <1>1 DEF InUse, Inv, TypeOK
  <2>2. /\ rr \in Record /\ rr.refs = r.refs
        /\ rr.id = IF c.owns THEN c.id ELSE r.id
    BY <1>1, <1>2 DEF Record, Mine, Expected
  <2> HIDE DEF rr
  <2>3. Legal(t, s, Resting, rr)
    BY <2>2, <1>1, <1>2, <1>3, <1>4, <1>6 DEF Legal
  <2> QED BY <2>1, <2>3, <1>7
<1>11. CASE WaitForStateChange(t, c, r)
  <2> DEFINE cc == [c EXCEPT !.pc = "wait", !.tries = @ + 1, !.owns = Mine(c, r)]
  <2>1. record' = [record EXCEPT ![s] = Marked(c, r)] /\ call' = [call EXCEPT ![t] = cc]
    BY <1>11 DEF WaitForStateChange
  <2>2. /\ cc \in Call /\ cc.pc = "wait" /\ (cc.owns <=> Mine(c, r)) /\ cc.slot = s
        /\ cc.id = c.id /\ cc.mode = c.mode
    <3>1. Mine(c, r) \in BOOLEAN
      BY DEF Mine
    <3> DEFINE step(owns) == [c EXCEPT !.pc = "wait", !.tries = @ + 1, !.owns = owns]
    <3>0. c.tries + 1 \in Nat
      BY DEF Call
    <3>2. ASSUME NEW x, x = step(TRUE)
          PROVE  x \in Call /\ x.pc = "wait" /\ x.owns /\ x.slot = s
                 /\ x.id = c.id /\ x.mode = c.mode
      BY <3>0, <3>2 DEF Call
    <3>3. ASSUME NEW x, x = step(FALSE)
          PROVE  x \in Call /\ x.pc = "wait" /\ ~x.owns /\ x.slot = s
                 /\ x.id = c.id /\ x.mode = c.mode
      BY <3>0, <3>3 DEF Call
    <3>4. cc = step(Mine(c, r))
      OBVIOUS
    <3> HIDE DEF cc, step
    <3>5. CASE Mine(c, r) = TRUE
      BY <3>2, <3>4, <3>5
    <3>6. CASE Mine(c, r) = FALSE
      BY <3>3, <3>4, <3>6
    <3> QED BY <3>1, <3>5, <3>6
  <2>3. /\ Mine(c, r) => c.mode = "EXCLUSIVE" /\ Marked(c, r) = marked
        /\ ~Mine(c, r) => Marked(c, r) = r /\ ~c.owns
        /\ Mine(c, r) /\ ~c.owns => r.id = c.id
    BY <1>2 DEF Mine, Marked, Expected
  <2> HIDE DEF cc, marked
  <2>4. Shaped(cc) /\ Count(cc) = 0 /\ ~Holding(cc)
    BY <2>2, <2>3 DEF Shaped, Holding, Count
  <2>5. CASE Mine(c, r)
    <3>1. Legal(t, s, cc, marked)
      BY <2>2, <2>3, <2>4, <2>5, <1>1, <1>2, <1>3, <1>4, <1>5, <1>6 DEF Legal
    <3> QED BY <2>1, <2>3, <2>5, <3>1, <1>7
  <2>6. CASE ~Mine(c, r)
    <3>1. Legal(t, s, cc, r)
      BY <2>2, <2>3, <2>4, <2>6, <1>1, <1>2, <1>3, <1>4 DEF Legal
    <3> QED BY <2>1, <2>3, <2>6, <3>1, <1>7
  <2> QED BY <2>5, <2>6
<1> QED BY <1>8, <1>9, <1>10, <1>11 DEF ConvertToken

LEMMA GetByIdInv ==
  ASSUME ObjectAssumption, Inv, NEW t \in Tasks, NEW id \in Ids,
         NEW mode \in {"GLOBAL", "REFCOUNT", "EXCLUSIVE"}, GetById(t, mode, id)
  PROVE  Inv'
<1> DEFINE c == Token(mode, id)
<1>1. ToIndex(id, MAX_OBJECTS) \in Slots
  BY IndexTyped
<1>2. c \in Call /\ Shaped(c) /\ c.id = id /\ c.slot = ToIndex(id, MAX_OBJECTS)
     /\ c.pc = "idle"
  BY <1>1, NamesApart DEF Token, Resting, Call, Shaped, Holding
<1>3. call[t].pc = "idle" /\ ConvertToken(t, c)
  BY DEF GetById
<1> HIDE DEF c
<1> QED BY <1>2, <1>3, ConvertInv

LEMMA AwakeInv ==
  ASSUME ObjectAssumption, Inv, NEW t \in Tasks, Awake(t)
  PROVE  Inv'
<1>1. call[t] \in Call /\ Shaped(call[t]) /\ call[t].pc = "wait"
  BY Facts DEF Awake
<1>2. call[t].id \in Ids /\ call[t].slot = ToIndex(call[t].id, MAX_OBJECTS)
  BY <1>1 DEF Shaped
<1> QED BY <1>1, <1>2, ConvertInv DEF Awake

(* The end of a call: a user leaves the ID alone, an owner is alone.        *)
LEMMA FinishInv ==
  ASSUME ObjectAssumption, Inv, NEW t \in Tasks, NEW id, Finish(t, id),
         Holding(call[t]),
         \/ ~call[t].owns /\ id = record[call[t].slot].id
         \/ call[t].owns /\ id \in {FREE, call[t].id}
  PROVE  Inv'
<1> DEFINE s == call[t].slot
           r == record[s]
           rr == [r EXCEPT !.refs = IF @ > 0 THEN @ - 1 ELSE 0, !.id = id]
<1>1. /\ call[t] \in Call /\ Shaped(call[t]) /\ Resting \in Call /\ Shaped(Resting)
      /\ s \in Slots /\ r \in Record /\ r.refs \in Nat /\ r.refs > 0
      /\ r.id \in Ids => ToIndex(r.id, MAX_OBJECTS) = s
      /\ call[t].owns => r.id = RESERVED /\ Holders(s) \subseteq {t}
  BY Facts
<1>2. /\ call[t].id \in Ids /\ s = ToIndex(call[t].id, MAX_OBJECTS)
      /\ FREE \notin Ids /\ RESERVED \notin Ids /\ FREE # RESERVED
      /\ call[t].pc # "idle"
  BY <1>1, NamesApart DEF Shaped, Holding
<1>3. record' = [record EXCEPT ![s] = rr] /\ call' = [call EXCEPT ![t] = Resting]
     /\ issued' = issued /\ owner' = owner /\ issued \in Ids
  <2>1. record' = [record EXCEPT ![s].refs = IF @ > 0 THEN @ - 1 ELSE 0, ![s].id = id]
    BY DEF Finish
  <2>2. record \in [Slots -> Record]
    BY DEF Inv, TypeOK
  <2>3. [record EXCEPT ![s].refs = IF @ > 0 THEN @ - 1 ELSE 0, ![s].id = id]
          = [record EXCEPT ![s] = rr]
    BY <2>2, <1>1
  <2> QED BY <2>1, <2>3 DEF Finish, Inv, TypeOK
<1>4. /\ id \in Ids \cup {FREE, RESERVED} /\ rr \in Record
      /\ rr.id = id /\ rr.refs = r.refs - 1
  <2>1. id \in Ids \cup {FREE, RESERVED} /\ r.refs - 1 \in Nat
    BY <1>1, <1>2 DEF Record
  <2>2. rr = [r EXCEPT !.refs = r.refs - 1, !.id = id]
    BY <1>1
  <2>3. /\ [r EXCEPT !.refs = r.refs - 1, !.id = id] \in Record
        /\ [r EXCEPT !.refs = r.refs - 1, !.id = id].id = id
        /\ [r EXCEPT !.refs = r.refs - 1, !.id = id].refs = r.refs - 1
    BY <1>1, <2>1 DEF Record
  <2> QED BY <2>1, <2>2, <2>3
<1>5. \A u \in Holders(s) : ~call[u].owns => r.id = call[u].id \/ r.id = RESERVED
  BY <1>1, UsersIds
<1>6. /\ Count(call[t]) = 1 /\ Count(Resting) = 0 /\ ~Resting.owns
      /\ Resting.pc = "idle" /\ ~Holding(Resting)
  BY DEF Count, Holding, Resting
<1> HIDE DEF rr
<1>7. Legal(t, s, Resting, rr)
  BY <1>1, <1>2, <1>4, <1>5, <1>6 DEF Legal
<1> QED BY <1>3, <1>7, Step

LEMMA EndInv ==
  ASSUME ObjectAssumption, Inv, NEW t \in Tasks,
         Release(t) \/ FinalizeDelete(t) \/ FinalizeNew(t)
  PROVE  Inv'
<1>1. Shaped(call[t]) /\ call[t] \in Call
  BY Facts
<1>2. CASE Release(t)
  <2>1. Holding(call[t]) /\ ~call[t].owns
    BY <1>1, <1>2 DEF Release, Shaped, Holding
  <2> QED BY <1>2, <2>1, FinishInv DEF Release
<1>3. CASE FinalizeDelete(t)
  <2>1. Holding(call[t]) /\ call[t].owns
    BY <1>1, <1>3 DEF FinalizeDelete, Shaped, Holding
  <2> QED BY <1>3, <2>1, FinishInv DEF FinalizeDelete
<1>4. CASE FinalizeNew(t)
  <2>1. Holding(call[t]) /\ call[t].owns
    BY <1>1, <1>4 DEF FinalizeNew, Shaped, Holding
  <2> QED BY <1>4, <2>1, FinishInv DEF FinalizeNew
<1> QED BY <1>2, <1>3, <1>4

LEMMA AllocateInv ==
  ASSUME ObjectAssumption, Inv, NEW t \in Tasks, NEW n \in Names, AllocateNew(t, n)
  PROVE  Inv'
<1> DEFINE c == Token("EXCLUSIVE", FindNextFree)
           s == c.slot
           cc == [c EXCEPT !.pc = "new", !.owns = TRUE, !.name = n]
           rr == [id |-> RESERVED, name |-> NoName, refs |-> 1]
<1>1. /\ FindNextFree \in Ids
      /\ ToIndex(FindNextFree, MAX_OBJECTS) \in Slots \ Defined
  BY FindNextFreeId DEF AllocateNew, Inv, TypeOK
<1>2. c \in Call /\ c.id = FindNextFree /\ s = ToIndex(FindNextFree, MAX_OBJECTS)
     /\ c.mode = "EXCLUSIVE"
  BY <1>1, NamesApart DEF Token, Resting, Call
<1>3. s \in Slots /\ record[s].id = FREE
  BY <1>1, <1>2 DEF Defined
<1>4. Holders(s) = {} /\ record[s].refs = 0
  BY <1>3, NoHolders
<1>5. /\ record' = [record EXCEPT ![s] = rr] /\ issued' = c.id /\ owner' = owner
      /\ call' = [call EXCEPT ![t] = cc] /\ call[t].pc = "idle"
  BY DEF AllocateNew
<1> HIDE DEF c
<1>6. cc \in Call /\ cc.pc = "new" /\ cc.owns /\ cc.id = c.id /\ cc.slot = s
     /\ cc.mode = "EXCLUSIVE"
  BY <1>2 DEF Call
<1>7. rr \in Record /\ rr.id = RESERVED /\ rr.refs = 1
  BY DEF Record
<1>8. Count(call[t]) = 0 /\ FREE # RESERVED /\ RESERVED \notin Ids
  BY <1>5, NamesApart DEF Count, Holding
<1> HIDE DEF cc, rr
<1>9. Shaped(cc) /\ Count(cc) = 1
  BY <1>1, <1>2, <1>6 DEF Shaped, Holding, Count
<1>10. Legal(t, s, cc, rr)
  BY <1>3, <1>4, <1>5, <1>6, <1>7, <1>8, <1>9 DEF Legal
<1> QED BY <1>1, <1>2, <1>5, <1>10, Step

LEMMA ObjectInitInv ==
  ASSUME ObjectAssumption, Inv, NEW t \in Tasks, ObjectInit(t)
  PROVE  Inv'
<1> DEFINE s == call[t].slot
           cc == [call[t] EXCEPT !.pc = "init"]
           rr == [record[s] EXCEPT !.name = call[t].name]
<1>1. /\ call[t] \in Call /\ Shaped(call[t]) /\ call[t].pc = "new"
      /\ s \in Slots /\ record[s] \in Record /\ record[s].refs \in Nat
      /\ record[s].id \in Ids => ToIndex(record[s].id, MAX_OBJECTS) = s
      /\ Holding(call[t]) /\ call[t].owns
  BY Facts DEF ObjectInit, Shaped, Holding
<1>2. record[s].id = RESERVED /\ Holders(s) \subseteq {t}
  BY <1>1, Facts
<1>3. /\ record' = [record EXCEPT ![s] = rr] /\ call' = [call EXCEPT ![t] = cc]
      /\ issued' = issued /\ owner' = owner /\ issued \in Ids
  BY <1>1 DEF ObjectInit, Inv, TypeOK
<1>4. /\ cc \in Call /\ cc.pc = "init" /\ cc.owns /\ cc.id = call[t].id /\ cc.slot = s
      /\ cc.mode = call[t].mode
      /\ rr \in Record /\ rr.id = RESERVED /\ rr.refs = record[s].refs
  BY <1>1, <1>2 DEF Call, Record
<1> HIDE DEF cc, rr
<1>5. Shaped(cc) /\ Count(cc) = 1 /\ Count(call[t]) = 1
  BY <1>1, <1>4 DEF Shaped, Holding, Count
<1>6. Legal(t, s, cc, rr)
  BY <1>1, <1>2, <1>4, <1>5, NamesApart DEF Legal
<1> QED BY <1>3, <1>6, Step

-----------------------------------------------------------------------------
LEMMA InitInv ==
  ASSUME ObjectAssumption, Init
  PROVE  Inv
<1>1. \A s : Holders(s) = {}
  BY DEF Init, Resting, Holders
<1>2. RefsCounted
  BY <1>1, FS_EmptySet DEF RefsCounted, Init
<1>3. TypeOK
  BY NamesApart DEF TypeOK, Init, Resting, Call, Record
<1> QED BY <1>2, <1>3, NamesApart
    DEF Inv, Init, Resting, CallsShaped, Shaped, Holding, IdsLead, OwnersReserve,
        ReservedOwned, OwnersAlone, IdKept

LEMMA NextInv ==
  ASSUME ObjectAssumption, Inv, [Next]_vars
  PROVE  Inv'
<1>1. ASSUME UNCHANGED <<record, issued, call>>, owner' \in Tasks \cup {NoTask}
      PROVE  Inv'
  BY <1>1 DEF Inv, TypeOK, CallsShaped, IdsLead, RefsCounted, OwnersReserve,
              ReservedOwned, OwnersAlone, IdKept, Holders
<1>2. CASE UNCHANGED vars
  BY <1>1, <1>2 DEF vars, Inv, TypeOK
<1>3. ASSUME NEW t \in Tasks, NEW n \in Names, FindByName(t, n)
      PROVE  Inv'
  BY <1>1, <1>3 DEF FindByName
<1> QED BY <1>2, <1>3, GetByIdInv, AwakeInv, EndInv, AllocateInv, ObjectInitInv DEF Next

LEMMA InvExact ==
  ASSUME ObjectAssumption, Inv
  PROVE  ObjectsExact
<1> USE DEF Inv
<1>1. ASSUME NEW s \in Slots
      PROVE  Cardinality(Owners(s)) = IF record[s].id = RESERVED THEN 1 ELSE 0
  <2>1. CASE record[s].id = RESERVED
    <3>1. PICK t \in Tasks : call[t].owns /\ call[t].slot = s
      BY <2>1 DEF ReservedOwned
    <3>2. Owners(s) = {t}
      BY <3>1 DEF Owners, OwnersAlone
    <3> QED BY <2>1, <3>2, FS_Singleton
  <2>2. CASE record[s].id # RESERVED
    <3>1. Owners(s) = {}
      BY <2>2 DEF Owners, OwnersReserve
    <3> QED BY <2>2, <3>1, FS_EmptySet
  <2> QED BY <2>1, <2>2
<1>2. ASSUME NEW s \in Slots, NEW t \in Holders(s), call[t].owns
      PROVE  Holders(s) = {t}
  BY <1>2 DEF Holders, Holding, OwnersAlone
<1>3. ASSUME NEW t \in Tasks, call[t].pc = "hold", ~call[t].owns
      PROVE  record[call[t].slot].id \in {call[t].id, RESERVED}
  BY <1>3 DEF Holding, IdKept, OwnersReserve
<1> QED BY <1>1, <1>2, <1>3 DEF ObjectsExact, RefsCounted, IdsLead

(* Whatever calls overlap, with any number of tasks and queues and across   *)
(* the wrap of the serial: OS_common_table counts a reference for every     *)
(* token, is RESERVED for exactly one caller, who is alone once granted,    *)
(* and keeps the ID of an object that somebody uses.                        *)
THEOREM OsalObjectsExact == ObjectAssumption /\ Spec => []ObjectsExact
<1>1. ASSUME ObjectAssumption
      PROVE  Spec => []ObjectsExact
  <2>1. Init => Inv
    BY <1>1, InitInv
  <2>2. Inv /\ [Next]_vars => Inv'
    BY <1>1, NextInv
  <2>3. Inv => ObjectsExact
    BY <1>1, InvExact
  <2> QED BY <2>1, <2>2, <2>3, PTL DEF Spec
<1> QED BY <1>1
=============================================================================
