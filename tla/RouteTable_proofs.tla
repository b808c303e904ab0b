-------------------------- MODULE RouteTable_proofs --------------------------
(***************************************************************************)
(* Proofs about the route table: for any number of messages and routes,    *)
(* any map larger than the table and any hash, look-ups are exact, probes  *)
(* end, messages are numbered by themselves and dumps are faithful.  At    *)
(* the end, what a network bridge is told of the subscriptions.            *)
(***************************************************************************)
EXTENDS RouteTable, FiniteSetTheorems, WellFoundedInduction, TLAPS

(* What LookupExact needs to be inductive: the routes below RouteIdxTop     *)
(* have distinct messages, the map has each route at most once and no       *)
(* other, and between the hash of a message and its entry there is neither  *)
(* a hole nor its own route.                                                *)
Distinct ==
    /\ \A r \in RouteIds : IF r < top THEN msgOf[r] \in MsgIds
                                      ELSE msgOf[r] = InvalidMsgId
    /\ \A r, s \in RouteIds : r < top /\ s < top /\ msgOf[r] = msgOf[s] => r = s

MapOfRoutes ==
    /\ \A i \in MapIndex : map[i] # NoRoute => map[i] < top
    /\ \A i, j \in MapIndex : map[i] # NoRoute /\ map[i] = map[j] => i = j

Reachable ==
    \A r \in RouteIds : r < top =>
       \E k \in MapIndex : /\ map[Probe(msgOf[r], k)] = r
                           /\ \A j \in 0..(k - 1) :
                                 map[Probe(msgOf[r], j)] \notin {NoRoute, r}

(* The counters of messages and routes that are not in use are zero, and    *)
(* the dump in progress has written the first routes of the table.          *)
Numbering ==
    /\ \A r \in RouteIds : IF r < top THEN seq[r] = sent[msgOf[r]]
                                      ELSE seq[r] = 0
    /\ \A m \in MsgIds : (\A r \in RouteIds : msgOf[r] # m) => sent[m] = 0

Dumping == dump # NoRoute =>
    /\ dump \in 0..top /\ (dump = top => top = 0)
    /\ file = [i \in 1..dump |-> msgOf[i - 1]]

IInv == TypeOK /\ Distinct /\ MapOfRoutes /\ Reachable /\ Numbering /\ Dumping

-----------------------------------------------------------------------------
LEMMA ProbeInMap ==
  ASSUME NEW m \in MsgIds, NEW k \in Nat
  PROVE  Probe(m, k) \in MapIndex
  BY RouteTableAssumption DEF Probe, MapIndex

(* What % does to a number less than twice the modulus.                     *)
LEMMA ModWraps ==
  ASSUME NEW n \in Nat, NEW i \in 0..(n - 1)
  PROVE  i % n = i /\ (i + n) % n = i
<1>1. i % n = i
  OBVIOUS
<1>2. (i + n) % n = i
  OBVIOUS
<1> QED BY <1>1, <1>2

(* Every entry of the map is probed for every message.                      *)
LEMMA ProbeReachesAll ==
  ASSUME NEW m \in MsgIds, NEW i \in MapIndex
  PROVE  \E k \in MapIndex : Probe(m, k) = i
<1> DEFINE h == Hash[m]
           k == IF i >= h THEN i - h ELSE i - h + MAP_SIZE
<1>1. h \in 0..(MAP_SIZE - 1) /\ i \in 0..(MAP_SIZE - 1) /\ MAP_SIZE \in Nat
  BY RouteTableAssumption DEF MapIndex
<1>2. k \in MapIndex
  BY <1>1 DEF MapIndex
<1>3. (h + k) % MAP_SIZE = i
  <2>1. CASE i >= h
    BY <1>1, <2>1, ModWraps
  <2>2. CASE i < h
    <3>1. h + k = i + MAP_SIZE
      BY <1>1, <2>2
    <3> HIDE DEF k
    <3> QED BY <1>1, <3>1, ModWraps
  <2> QED BY <1>1, <2>1, <2>2
<1> QED BY <1>2, <1>3 DEF Probe

(* A nonempty set of numbers has a least element.                           *)
LEMMA LeastExists ==
  ASSUME NEW S, S \subseteq Nat, S # {}
  PROVE  \E k \in S : \A j \in S : k <= j
<1>1. PICK k \in S : \A j \in S : ~ (<<j, k>> \in OpToRel(<, Nat))
  BY NatLessThanWellFounded, WFMin
<1>2. \A j \in S : ~ (j < k)
  BY <1>1 DEF OpToRel
<1> QED BY <1>2

(* The map is larger than the table of routes, so it always has a hole.     *)
LEMMA MapHasHole ==
  ASSUME TypeOK, MapOfRoutes
  PROVE  ProbesEnd
<1> SUFFICES ASSUME \A i \in MapIndex : map[i] # NoRoute PROVE FALSE
  BY DEF ProbesEnd
<1>1. map \in [MapIndex -> RouteIds]
  BY DEF TypeOK
<1>2. /\ IsFiniteSet(MapIndex) /\ IsFiniteSet(RouteIds)
      /\ Cardinality(RouteIds) < Cardinality(MapIndex)
  BY FS_Interval, RouteTableAssumption DEF MapIndex, RouteIds
<1>3. \E i, j \in MapIndex : i # j /\ map[i] = map[j]
  BY <1>1, <1>2, FS_PigeonHole
<1> QED BY <1>3 DEF MapOfRoutes

(* The loop of CFE_SBR_GetRouteId ends, and what it ends at is unique.      *)
LEMMA FoundExists ==
  ASSUME TypeOK, MapOfRoutes, NEW m \in MsgIds
  PROVE  \E k \in MapIndex : Found(m, k)
<1> DEFINE S == {k \in MapIndex : Stops(m, k)}
<1>1. S # {}
  BY MapHasHole, ProbeReachesAll DEF ProbesEnd, Stops
<1>2. S \subseteq Nat
  BY DEF MapIndex
<1>3. PICK k \in S : \A j \in S : k <= j
  BY <1>1, <1>2, LeastExists
<1>4. \A j \in 0..(k - 1) : ~Stops(m, j)
  BY <1>3, RouteTableAssumption DEF MapIndex
<1> QED BY <1>3, <1>4 DEF Found

LEMMA FoundUnique ==
  ASSUME NEW m \in MsgIds, NEW k \in MapIndex, NEW l \in MapIndex,
         Found(m, k), Found(m, l)
  PROVE  k = l
  BY RouteTableAssumption DEF Found, MapIndex

(* Exact look-ups from the inductive invariant.                             *)
LEMMA LookupOfInvariant ==
  ASSUME TypeOK, Distinct, MapOfRoutes, Reachable
  PROVE  LookupExact
<1>1. ASSUME NEW r \in RouteIds, r < top
      PROVE  GetRouteId(msgOf[r]) = r
  <2> DEFINE m == msgOf[r]
  <2>1. m \in MsgIds
    BY <1>1 DEF Distinct
  <2>2. PICK k \in MapIndex : /\ map[Probe(m, k)] = r
                              /\ \A j \in 0..(k - 1) :
                                    map[Probe(m, j)] \notin {NoRoute, r}
    BY <1>1 DEF Reachable
  <2>3. Stops(m, k)
    BY <2>2 DEF Stops
  <2>4. \A j \in 0..(k - 1) : ~Stops(m, j)
    <3> SUFFICES ASSUME NEW j \in 0..(k - 1) PROVE ~Stops(m, j)
      OBVIOUS
    <3>1. Probe(m, j) \in MapIndex
      BY <2>1, ProbeInMap DEF MapIndex
    <3>2. /\ map[Probe(m, j)] \in RouteIds /\ map[Probe(m, j)] < top
          /\ map[Probe(m, j)] # NoRoute /\ map[Probe(m, j)] # r
      BY <2>2, <3>1 DEF TypeOK, MapOfRoutes
    <3> QED BY <1>1, <3>2 DEF Stops, Distinct
  <2>5. Found(m, k)
    BY <2>3, <2>4 DEF Found
  <2>6. (CHOOSE l \in MapIndex : Found(m, l)) = k
    BY <2>1, <2>5, FoundUnique
  <2> QED BY <2>2, <2>6 DEF GetRouteId
<1>2. ASSUME NEW m \in MsgIds, \A r \in RouteIds : msgOf[r] # m
      PROVE  GetRouteId(m) = NoRoute
  <2> DEFINE k == CHOOSE l \in MapIndex : Found(m, l)
  <2>1. k \in MapIndex /\ Found(m, k)
    BY FoundExists
  <2>2. Probe(m, k) \in MapIndex
    BY <2>1, ProbeInMap DEF MapIndex
  <2>3. map[Probe(m, k)] \in RouteIds \cup {NoRoute}
    BY <2>2 DEF TypeOK
  <2> QED BY <1>2, <2>1, <2>3 DEF Found, Stops, GetRouteId
<1> QED BY <1>1, <1>2 DEF LookupExact

-----------------------------------------------------------------------------
LEMMA InitInvariant == Init => IInv
  BY RouteTableAssumption
  DEF Init, IInv, TypeOK, Distinct, MapOfRoutes, Reachable, Numbering, Dumping,
      RouteIds

(* Adding a route: the new entry fills a hole, so no probe is cut short.    *)
LEMMA AddRouteStep ==
  ASSUME IInv, NEW m \in MsgIds, AddRoute(m)
  PROVE  IInv'
<1>0. /\ top \in RouteIds /\ top' = top + 1 /\ msgOf' = [msgOf EXCEPT ![top] = m]
      /\ TypeOK /\ Distinct /\ MapOfRoutes /\ Reachable /\ Numbering /\ Dumping
  <2>1. TypeOK /\ Distinct /\ MapOfRoutes /\ Reachable /\ Numbering /\ Dumping
    BY DEF IInv
  <2>2. top < MAX_MSG_IDS /\ top' = top + 1 /\ msgOf' = [msgOf EXCEPT ![top] = m]
    BY DEF AddRoute, Room
  <2>3. top \in RouteIds
    BY <2>1, <2>2, RouteTableAssumption DEF TypeOK, RouteIds
  <2> QED BY <2>1, <2>2, <2>3
<1>1. PICK n \in MapIndex : Open(m, n) /\ map' = [map EXCEPT ![Probe(m, n)] = top]
  BY DEF AddRoute
<1>2. /\ Probe(m, n) \in MapIndex /\ map[Probe(m, n)] = NoRoute
      /\ n \in Nat
  BY <1>1, ProbeInMap DEF Open, MapIndex
<1>3. \A r \in RouteIds : msgOf[r] # m
  <2>1. \A r \in RouteIds : r < top => msgOf[r] # m
    BY <1>0, LookupOfInvariant, RouteTableAssumption
    DEF LookupExact, AddRoute, RouteIds
  <2> QED BY <1>0, <2>1, RouteTableAssumption DEF Distinct, RouteIds, TypeOK
<1>4. TypeOK'
  <2>1. UNCHANGED <<seq, file, dump, sent>>
    BY DEF AddRoute
  <2>2. top' \in 0..MAX_MSG_IDS
    BY <1>0, RouteTableAssumption DEF RouteIds
  <2>3. map' \in [MapIndex -> RouteIds \cup {NoRoute}]
    BY <1>0, <1>1 DEF TypeOK
  <2> QED BY <1>0, <2>1, <2>2, <2>3 DEF TypeOK
<1>5. Distinct'
  BY <1>0, <1>3, RouteTableAssumption DEF Distinct, TypeOK, RouteIds
<1>6. MapOfRoutes'
  BY <1>0, <1>1, <1>2, RouteTableAssumption DEF MapOfRoutes, TypeOK, RouteIds
<1>7. Reachable'
  <2> SUFFICES ASSUME NEW r \in RouteIds, r < top'
               PROVE  \E k \in MapIndex :
                         /\ map'[Probe(msgOf'[r], k)] = r
                         /\ \A j \in 0..(k - 1) :
                               map'[Probe(msgOf'[r], j)] \notin {NoRoute, r}
    BY DEF Reachable, Probe
  <2>1. CASE r = top
    <3>1. msgOf'[r] = m /\ map'[Probe(m, n)] = r
      BY <1>0, <1>1, <1>2, <2>1 DEF TypeOK
    <3>2. \A j \in 0..(n - 1) : map'[Probe(m, j)] \notin {NoRoute, r}
      <4> SUFFICES ASSUME NEW j \in 0..(n - 1)
                   PROVE  map'[Probe(m, j)] \notin {NoRoute, r}
        OBVIOUS
      <4>1. Probe(m, j) \in MapIndex /\ map[Probe(m, j)] # NoRoute
        BY <1>1, ProbeInMap DEF Open
      <4>2. map[Probe(m, j)] < top
        BY <1>0, <4>1 DEF MapOfRoutes
      <4> QED BY <1>0, <1>1, <1>2, <2>1, <4>1, <4>2 DEF TypeOK, RouteIds
    <3> QED BY <3>1, <3>2
  <2>2. CASE r # top
    <3>1. r < top /\ msgOf'[r] = msgOf[r] /\ msgOf[r] \in MsgIds
      BY <1>0, <2>2 DEF TypeOK, RouteIds, Distinct
    <3>2. PICK k \in MapIndex : /\ map[Probe(msgOf[r], k)] = r
                                /\ \A j \in 0..(k - 1) :
                                      map[Probe(msgOf[r], j)] \notin {NoRoute, r}
      BY <1>0, <3>1 DEF Reachable
    <3>3. Probe(msgOf[r], k) \in MapIndex
      BY <3>1, ProbeInMap DEF MapIndex
    <3>4. map'[Probe(msgOf[r], k)] = r
      BY <1>0, <1>1, <1>2, <3>2, <3>3, RouteTableAssumption DEF TypeOK, RouteIds
    <3>5. \A j \in 0..(k - 1) : map'[Probe(msgOf[r], j)] \notin {NoRoute, r}
      <4> SUFFICES ASSUME NEW j \in 0..(k - 1)
                   PROVE  map'[Probe(msgOf[r], j)] \notin {NoRoute, r}
        OBVIOUS
      <4>1. Probe(msgOf[r], j) \in MapIndex
        BY <3>1, ProbeInMap
      <4> QED BY <1>0, <1>1, <1>2, <3>2, <4>1 DEF TypeOK
    <3> QED BY <3>1, <3>4, <3>5
  <2> QED BY <2>1, <2>2
<1>8. Numbering'
  BY <1>0, <1>3, RouteTableAssumption
  DEF Numbering, Distinct, AddRoute, TypeOK, RouteIds
<1>9. Dumping'
  <2>1. dump' = dump /\ file' = file
    BY DEF AddRoute
  <2>2. CASE dump = NoRoute
    BY <2>1, <2>2 DEF Dumping
  <2>3. CASE dump # NoRoute /\ dump = 0
    BY <1>0, <2>1, <2>3, RouteTableAssumption DEF Dumping, TypeOK, RouteIds
  <2>4. CASE dump # NoRoute /\ dump # 0
    <3>1. dump \in 1..(top - 1) /\ file = [i \in 1..dump |-> msgOf[i - 1]]
      BY <1>0, <2>4 DEF Dumping, TypeOK, RouteIds
    <3>2. \A i \in 1..dump : msgOf'[i - 1] = msgOf[i - 1]
      BY <1>0, <3>1 DEF TypeOK, RouteIds
    <3> QED BY <1>0, <2>1, <3>1, <3>2 DEF Dumping, RouteIds
  <2> QED BY <2>2, <2>3, <2>4
<1> QED BY <1>4, <1>5, <1>6, <1>7, <1>8, <1>9 DEF IInv

LEMMA IncrementStep ==
  ASSUME IInv, NEW m \in MsgIds, IncrementSequenceCounter(m)
  PROVE  IInv'
<1> DEFINE r == GetRouteId(m)
<1>0. TypeOK /\ Distinct /\ MapOfRoutes /\ Reachable /\ Numbering /\ Dumping
  BY DEF IInv
<1>1. UNCHANGED <<map, msgOf, top, file, dump>> /\ r # NoRoute
  BY DEF IncrementSequenceCounter
<1>2. r \in RouteIds /\ r < top /\ msgOf[r] = m
  <2>1. LookupExact
    BY <1>0, LookupOfInvariant
  <2>2. PICK s \in RouteIds : msgOf[s] = m
    BY <1>1, <2>1 DEF LookupExact
  <2>3. s < top
    BY <1>0, <2>2, RouteTableAssumption DEF Distinct
  <2> QED BY <2>1, <2>2, <2>3 DEF LookupExact
<1>3. TypeOK'
  <2>1. \A x \in Nat : (x + 1) % SEQ_MOD \in Nat
    BY RouteTableAssumption
  <2> HIDE DEF r
  <2>2. /\ seq' = [seq EXCEPT ![r] = (@ + 1) % SEQ_MOD]
        /\ sent' = [sent EXCEPT ![m] = (@ + 1) % SEQ_MOD]
    BY DEF IncrementSequenceCounter, r
  <2> QED BY <1>0, <1>1, <2>1, <2>2 DEF TypeOK
<1>4. Distinct' /\ MapOfRoutes' /\ Dumping'
  BY <1>0, <1>1 DEF Distinct, MapOfRoutes, Dumping
<1>5. Reachable'
  BY <1>0, <1>1 DEF Reachable, Probe
<1>6. Numbering'
  <2> HIDE DEF r
  <2>1. /\ seq' = [seq EXCEPT ![r] = (@ + 1) % SEQ_MOD]
        /\ sent' = [sent EXCEPT ![m] = (@ + 1) % SEQ_MOD]
    BY DEF IncrementSequenceCounter, r
  <2> QED BY <1>0, <1>1, <1>2, <2>1 DEF Numbering, Distinct, TypeOK
<1> QED BY <1>3, <1>4, <1>5, <1>6 DEF IInv

LEMMA DumpStep ==
  ASSUME IInv, StartDump \/ DumpRecord
  PROVE  IInv'
<1>0. TypeOK /\ Distinct /\ MapOfRoutes /\ Reachable /\ Numbering /\ Dumping
  BY DEF IInv
<1>1. UNCHANGED <<map, msgOf, top, seq, sent>>
  BY DEF StartDump, DumpRecord
<1>2. Distinct' /\ MapOfRoutes' /\ Numbering'
  BY <1>0, <1>1 DEF Distinct, MapOfRoutes, Numbering
<1>3. Reachable'
  BY <1>0, <1>1 DEF Reachable, Probe
<1>4. TypeOK' /\ Dumping'
  <2>1. CASE StartDump
    BY <1>0, <1>1, <2>1 DEF TypeOK, Dumping, StartDump
  <2>2. CASE DumpRecord
    <3>1. dump \in 0..top /\ file = [i \in 1..dump |-> msgOf[i - 1]] /\ top \in Nat
      BY <1>0, <2>2 DEF Dumping, DumpRecord, TypeOK
    <3>2. CASE dump < top
      <4>1. msgOf[dump] \in MsgIds
        <5>1. dump \in RouteIds
          BY <1>0, <3>1, <3>2, RouteTableAssumption DEF TypeOK, RouteIds
        <5> QED BY <1>0, <3>2, <5>1 DEF Distinct
      <4>2. file' = [i \in 1..(dump + 1) |-> msgOf[i - 1]]
        <5>1. file' = Append(file, msgOf[dump]) /\ file \in Seq(MsgIds)
          BY <1>0, <2>2, <3>2 DEF DumpRecord, TypeOK
        <5>2. Len(file) = dump
          BY <3>1, <5>1
        <5> QED BY <3>1, <4>1, <5>1, <5>2
      <4>3. file' \in Seq(MsgIds)
        BY <1>0, <2>2, <3>2, <4>1 DEF DumpRecord, TypeOK
      <4>4. dump' = IF dump + 1 >= top THEN NoRoute ELSE dump + 1
        BY <2>2 DEF DumpRecord, DumpEnds
      <4> QED BY <1>0, <1>1, <3>1, <3>2, <4>2, <4>3, <4>4 DEF TypeOK, Dumping
    <3>3. CASE ~(dump < top)
      <4>1. file' = file /\ dump' = NoRoute
        BY <2>2, <3>1, <3>3 DEF DumpRecord, DumpEnds
      <4> QED BY <1>0, <1>1, <4>1 DEF TypeOK, Dumping
    <3> QED BY <3>2, <3>3
  <2> QED BY <2>1, <2>2
<1> QED BY <1>2, <1>3, <1>4 DEF IInv

LEMMA InvariantStep == IInv /\ [Next]_vars => IInv'
<1> SUFFICES ASSUME IInv, [Next]_vars PROVE IInv'
  OBVIOUS
<1>1. CASE Next
  BY <1>1, AddRouteStep, IncrementStep, DumpStep DEF Next
<1>2. CASE UNCHANGED vars
  BY <1>2 DEF vars, IInv, TypeOK, Distinct, MapOfRoutes, Reachable, Probe,
              Numbering, Dumping
<1> QED BY <1>1, <1>2

(* The types of the route table and its map.                                *)
THEOREM TypeCorrect == Spec => []TypeOK
<1>1. IInv => TypeOK
  BY DEF IInv
<1> QED BY <1>1, InitInvariant, InvariantStep, PTL DEF Spec

(* CFE_SBR_GetRouteId finds every route of the table and nothing else,      *)
(* whatever the hash and however full the table.                            *)
THEOREM LookupCorrect == Spec => []LookupExact
<1>1. IInv => LookupExact
  BY LookupOfInvariant DEF IInv
<1> QED BY <1>1, InitInvariant, InvariantStep, PTL DEF Spec

(* "Since map is larger than possible routes this will never deadlock".     *)
THEOREM ProbingEnds == Spec => []ProbesEnd
<1>1. IInv => ProbesEnd
  BY MapHasHole DEF IInv
<1> QED BY <1>1, InitInvariant, InvariantStep, PTL DEF Spec

(* Sequence counts of different messages do not interfere.                  *)
THEOREM NumberingCorrect == Spec => []NumberedAlone
<1>1. IInv => NumberedAlone
  BY DEF IInv, Numbering, NumberedAlone
<1> QED BY <1>1, InitInvariant, InvariantStep, PTL DEF Spec

(* A dump of the routes is complete and in order.                           *)
THEOREM DumpCorrect == Spec => DumpFaithful
<1>1. IInv /\ [Next]_vars =>
         [dump # NoRoute /\ dump' = NoRoute =>
            file' = [i \in 1..top |-> msgOf[i - 1]]]_vars
  <2> SUFFICES ASSUME IInv, Next, dump # NoRoute, dump' = NoRoute
               PROVE  file' = [i \in 1..top |-> msgOf[i - 1]]
    OBVIOUS
  <2>1. DumpRecord /\ dump \in 0..top /\ (dump = top => top = 0) /\ top \in Nat
        /\ file = [i \in 1..dump |-> msgOf[i - 1]] /\ file \in Seq(MsgIds)
    BY DEF Next, AddRoute, IncrementSequenceCounter, StartDump, IInv, Dumping, TypeOK
  <2>2. CASE dump < top
    <3>1. dump + 1 = top /\ file' = Append(file, msgOf[dump])
      BY <2>1, <2>2, RouteTableAssumption DEF DumpRecord, DumpEnds
    <3>2. Len(file) = dump
      BY <2>1
    <3>3. dump \in RouteIds
      BY <2>1, <2>2, RouteTableAssumption DEF IInv, TypeOK, RouteIds
    <3>4. msgOf[dump] \in MsgIds
      BY <2>2, <3>3 DEF IInv, Distinct
    <3> QED BY <2>1, <3>1, <3>2, <3>4
  <2>3. CASE ~(dump < top)
    BY <2>1, <2>3 DEF DumpRecord
  <2> QED BY <2>2, <2>3
<1> QED BY <1>1, InitInvariant, InvariantStep, PTL DEF Spec, DumpFaithful

-----------------------------------------------------------------------------
(***************************************************************************)
(* The reports of subscriptions, which walk over the routes of that table  *)
(* while tasks add to it, for any number of tasks, messages, routes and    *)
(* entries of a packet: a bridge that asked for all of them misses none    *)
(* that comes or goes while the walk is under way.                         *)
(***************************************************************************)
CONSTANTS Tasks, Msgs, MAX_DEST_PER_PKT, ENTRIES_PER_PKT
VARIABLES route, scope, reporting, report, walk, known, informed

R == INSTANCE SubscriptionReports

ReportsTyped ==
    /\ route \in Seq(Msgs)
    /\ scope \in [Msgs -> [Tasks -> {"global", "local", R!Nothing}]]
    /\ reporting \in BOOLEAN
    /\ report \in [Tasks -> Msgs \cup {R!Nothing}]
    /\ walk \in [pc : {"idle", "walk", "full", "partial"}, next : Nat \ {0},
                 end : Nat, entries : SUBSET Msgs]
    /\ known \subseteq Msgs
    /\ informed \in BOOLEAN

(* A subscription has its route, and routes stay where they are. *)
ReportRoutes ==
    /\ \A m \in Msgs : R!Exported(m) => m \in R!Routed
    /\ walk.end <= Len(route)
    /\ walk.pc = "partial" => walk.next > walk.end

Ahead(m) == \E i \in walk.next..walk.end : route[i] = m
Told(m) == m \in known \/ \E t \in Tasks : report[t] = m

(* What the bridge has to know is on its way: told, in the packet, or at a  *)
(* route the walk still comes to.                                           *)
OnItsWay == reporting /\ walk.pc # "idle" =>
    \A m \in Msgs : R!Exported(m) => Told(m) \/ m \in walk.entries \/ Ahead(m)
InformedOn == informed => reporting

ReportsInv == ReportsTyped /\ ReportRoutes /\ OnItsWay /\ InformedOn /\ R!BridgeInformed

-----------------------------------------------------------------------------
LEMMA ReportsInit == ASSUME R!ReportAssumption, R!Init PROVE ReportsInv
<1>1. ReportsTyped
  <2>1. <<>> \in Seq(Msgs) /\ {} \subseteq Msgs /\ FALSE \in BOOLEAN
    OBVIOUS
  <2>2. scope \in [Msgs -> [Tasks -> {"global", "local", R!Nothing}]]
    BY DEF R!Init
  <2>3. report \in [Tasks -> Msgs \cup {R!Nothing}]
    BY DEF R!Init
  <2>4. walk \in [pc : {"idle", "walk", "full", "partial"}, next : Nat \ {0},
                  end : Nat, entries : SUBSET Msgs]
    BY DEF R!Init, R!Resting
  <2> QED BY <2>1, <2>2, <2>3, <2>4 DEF R!Init, ReportsTyped
<1>2. \A m \in Msgs : ~R!Exported(m)
  BY DEF R!Init, R!Exported, R!Nothing
<1>3. route = <<>> /\ walk.end = 0 /\ walk.pc = "idle" /\ informed = FALSE
  BY DEF R!Init, R!Resting
<1> QED BY <1>1, <1>2, <1>3
    DEF ReportsInv, ReportRoutes, OnItsWay, InformedOn, R!BridgeInformed

(* A new export is about to be reported by the task that makes it.          *)
LEMMA SubscribeInv ==
  ASSUME R!ReportAssumption, ReportsInv, NEW t \in Tasks, NEW m \in Msgs,
         NEW s \in {"global", "local"}, R!Subscribe(t, m, s)
  PROVE  ReportsInv'
<1> USE DEF ReportsInv
<1>1. /\ route' = (IF m \in R!Routed THEN route ELSE Append(route, m))
      /\ scope' = [scope EXCEPT ![m][t] = IF @ = R!Nothing THEN s ELSE @]
      /\ report' = [report EXCEPT ![t] = IF s = "global" THEN m ELSE R!Nothing]
      /\ report[t] = R!Nothing /\ UNCHANGED <<reporting, walk, known, informed>>
  BY DEF R!Subscribe
<1>2. ReportsTyped'
  <2>1. route' \in Seq(Msgs)
    BY <1>1 DEF ReportsTyped
  <2>2. report' \in [Tasks -> Msgs \cup {R!Nothing}]
    BY <1>1 DEF ReportsTyped
  <2>3. scope' \in [Msgs -> [Tasks -> {"global", "local", R!Nothing}]]
    BY <1>1 DEF ReportsTyped
  <2> QED BY <2>1, <2>2, <2>3, <1>1 DEF ReportsTyped
<1>3. /\ Len(route) \in Nat /\ Len(route') >= Len(route) /\ m \in R!Routed'
      /\ \A i \in 1..Len(route) : route'[i] = route[i]
      /\ \A n \in R!Routed : n \in R!Routed'
  <2>1. Len(route) \in Nat /\ DOMAIN route = 1..Len(route) /\ route \in Seq(Msgs)
    BY DEF ReportsTyped
  <2>2. CASE m \in R!Routed
    BY <1>1, <2>1, <2>2 DEF R!Routed
  <2>3. CASE m \notin R!Routed
    <3>1. /\ route' = Append(route, m) /\ Len(route') = Len(route) + 1
          /\ DOMAIN route' = 1..Len(route) + 1 /\ route'[Len(route) + 1] = m
          /\ \A i \in 1..Len(route) : route'[i] = route[i]
      BY <1>1, <2>1, <2>3
    <3> QED BY <2>1, <3>1 DEF R!Routed
  <2> QED BY <2>2, <2>3
<1>4. ASSUME NEW n \in Msgs, R!Exported(n)'
      PROVE  R!Exported(n) \/ (n = m /\ s = "global")
  <2>1. PICK u \in Tasks : scope'[n][u] = "global"
    BY <1>4 DEF R!Exported
  <2>2. \/ scope'[n][u] = scope[n][u]
        \/ n = m /\ u = t /\ scope'[n][u] = s
    BY <1>1 DEF ReportsTyped
  <2> QED BY <2>1, <2>2 DEF R!Exported
<1>5. ASSUME NEW n \in Msgs
      PROVE  /\ Told(n) => Told(n)'
             /\ n = m /\ s = "global" => Told(n)'
  <2>1. \A u \in Tasks : u # t => report'[u] = report[u]
    BY <1>1 DEF ReportsTyped
  <2>2. report'[t] = (IF s = "global" THEN m ELSE R!Nothing)
    BY <1>1 DEF ReportsTyped
  <2>3. n # R!Nothing
    BY DEF R!ReportAssumption, R!Nothing
  <2> QED BY <1>1, <2>1, <2>2, <2>3 DEF Told
<1>6. \A n \in Msgs : Ahead(n) => Ahead(n)'
  <2>1. walk.end <= Len(route) /\ walk.next >= 1 /\ walk.end \in Nat /\ walk.next \in Nat
    BY DEF ReportsTyped, ReportRoutes
  <2>2. \A i \in walk.next..walk.end : i \in 1..Len(route)
    BY <2>1, <1>3
  <2> QED BY <2>2, <1>1, <1>3 DEF Ahead
<1>7. ReportRoutes'
  BY <1>1, <1>2, <1>3, <1>4 DEF ReportRoutes, ReportsTyped
<1>8. OnItsWay'
  BY <1>1, <1>4, <1>5, <1>6 DEF OnItsWay
<1>9. R!BridgeInformed'
  BY <1>1, <1>4, <1>5 DEF R!BridgeInformed, Told
<1> QED BY <1>1, <1>2, <1>7, <1>8, <1>9 DEF InformedOn

LEMMA UnsubscribeInv ==
  ASSUME ReportsInv, NEW t \in Tasks, NEW m \in Msgs, R!Unsubscribe(t, m)
  PROVE  ReportsInv'
<1> USE DEF ReportsInv
<1>1. /\ scope' = [scope EXCEPT ![m][t] = R!Nothing]
      /\ UNCHANGED <<route, reporting, report, walk, known, informed>>
  BY DEF R!Unsubscribe
<1>2. ReportsTyped'
  <2>1. scope' \in [Msgs -> [Tasks -> {"global", "local", R!Nothing}]]
    BY <1>1 DEF ReportsTyped
  <2> QED BY <1>1, <2>1 DEF ReportsTyped
<1>3. \A n \in Msgs : R!Exported(n)' => R!Exported(n)
  BY <1>1 DEF R!Exported, ReportsTyped, R!Nothing
<1>4. \A n : (Told(n)' <=> Told(n)) /\ (Ahead(n)' <=> Ahead(n)) /\ R!Routed' = R!Routed
  BY <1>1 DEF Told, Ahead, R!Routed
<1> QED BY <1>1, <1>2, <1>3, <1>4
    DEF ReportRoutes, OnItsWay, InformedOn, R!BridgeInformed, Told

(* Steps that leave routes and subscriptions alone. *)
LEMMA ReportInv ==
  ASSUME ReportsInv, NEW t \in Tasks, R!SendSubscriptionReport(t)
  PROVE  ReportsInv'
<1> USE DEF ReportsInv
<1>1. /\ report[t] \in Msgs /\ report' = [report EXCEPT ![t] = R!Nothing]
      /\ known' = (IF reporting THEN known \cup {report[t]} ELSE known)
      /\ UNCHANGED <<route, scope, reporting, walk, informed>>
  BY DEF R!SendSubscriptionReport, R!Tell, ReportsTyped
<1>2. ReportsTyped'
  BY <1>1 DEF ReportsTyped
<1>3. ASSUME NEW n, reporting, Told(n)
      PROVE  Told(n)'
  <2>1. \A u \in Tasks : u # t => report'[u] = report[u]
    BY <1>1 DEF ReportsTyped
  <2> QED BY <1>1, <1>3, <2>1 DEF Told
<1>4. \A n : (R!Exported(n)' <=> R!Exported(n)) /\ (Ahead(n)' <=> Ahead(n))
     /\ R!Routed' = R!Routed
  BY <1>1 DEF R!Exported, Ahead, R!Routed
<1> QED BY <1>1, <1>2, <1>3, <1>4
    DEF ReportRoutes, OnItsWay, InformedOn, R!BridgeInformed, Told

LEMMA SetReportingInv ==
  ASSUME ReportsInv, NEW on \in BOOLEAN, R!SetSubscriptionReporting(on)
  PROVE  ReportsInv'
<1> USE DEF ReportsInv
<1>1. \A n : (R!Exported(n)' <=> R!Exported(n)) /\ R!Routed' = R!Routed
  BY DEF R!SetSubscriptionReporting, R!Exported, R!Routed
<1> QED BY <1>1
    DEF R!SetSubscriptionReporting, ReportsTyped, ReportRoutes, OnItsWay,
        InformedOn, R!BridgeInformed

LEMMA WalkInv ==
  ASSUME ReportsInv,
         \/ R!SendPrevSubsCmd \/ R!SendRouteSub \/ R!SendFullPacket
         \/ R!WalkEnds \/ R!SendPartialPacket
  PROVE  ReportsInv'
<1> USE DEF ReportsInv
<1>1. UNCHANGED <<route, scope, reporting, report>>
  BY DEF R!SendPrevSubsCmd, R!SendRouteSub, R!SendFullPacket, R!WalkEnds,
         R!SendPartialPacket
<1>2. \A n : (R!Exported(n)' <=> R!Exported(n)) /\ R!Routed' = R!Routed
  BY <1>1 DEF R!Exported, R!Routed
<1>3. /\ Len(route) \in Nat /\ DOMAIN route = 1..Len(route)
      /\ walk.next \in Nat \ {0} /\ walk.end \in Nat /\ walk.entries \subseteq Msgs
      /\ walk.end <= Len(route) /\ known \subseteq Msgs
  BY DEF ReportsTyped, ReportRoutes
<1>4. CASE R!SendPrevSubsCmd
  <2>1. /\ walk' = [pc |-> "walk", next |-> 1, end |-> Len(route), entries |-> {}]
        /\ UNCHANGED <<known, informed>>
    BY <1>4 DEF R!SendPrevSubsCmd
  <2>2. \A n \in R!Routed : Ahead(n)'
    BY <1>1, <1>3, <2>1 DEF R!Routed, Ahead
  <2> QED BY <1>1, <1>2, <1>3, <2>1, <2>2
      DEF ReportsTyped, ReportRoutes, OnItsWay, InformedOn, R!BridgeInformed
<1>5. CASE R!SendRouteSub
  <2> DEFINE m == route[walk.next]
  <2>1. /\ walk.pc = "walk" /\ walk.next <= walk.end /\ walk'.pc \in {"walk", "full"}
        /\ walk'.next = walk.next + 1 /\ walk'.end = walk.end
        /\ walk'.entries = R!Collected(m) /\ UNCHANGED <<known, informed>>
        /\ walk' = [walk EXCEPT !.next = walk'.next, !.entries = walk'.entries,
                                !.pc = walk'.pc]
    BY <1>3, <1>5 DEF R!SendRouteSub, ReportsTyped, R!Walked
  <2>2. m \in Msgs
    BY <1>3, <2>1 DEF ReportsTyped
  <2>3. R!Collected(m) \subseteq Msgs
    BY <1>3, <2>2 DEF R!Collected
  <2>4. ReportsTyped'
    <3>1. walk' \in [pc : {"idle", "walk", "full", "partial"}, next : Nat \ {0},
                     end : Nat, entries : SUBSET Msgs]
      <4>1. walk'.next \in Nat \ {0} /\ walk'.entries \in SUBSET Msgs
        BY <1>3, <2>1, <2>3
      <4> QED BY <2>1, <4>1 DEF ReportsTyped
    <3> QED BY <1>1, <2>1, <3>1 DEF ReportsTyped
  <2>5. ASSUME NEW n \in Msgs, R!Exported(n), Ahead(n)
        PROVE  n \in R!Collected(m) \/ Ahead(n)'
    <3>1. PICK i \in walk.next..walk.end : route[i] = n
      BY <2>5 DEF Ahead
    <3>2. CASE i = walk.next
      BY <2>5, <3>1, <3>2 DEF R!Collected
    <3>3. CASE i # walk.next
      <4>1. i \in walk'.next..walk'.end
        BY <1>3, <2>1, <3>1, <3>3
      <4> QED BY <1>1, <3>1, <4>1 DEF Ahead
    <3> QED BY <3>2, <3>3
  <2>6. OnItsWay'
    <3>1. \A n \in Msgs : (Told(n) => Told(n)') /\ (n \in walk.entries => n \in walk'.entries)
      BY <1>1, <2>1 DEF Told, R!Collected
    <3> QED BY <1>1, <1>2, <2>1, <2>5, <3>1 DEF OnItsWay
  <2> QED BY <1>1, <1>2, <2>1, <2>4, <2>6 DEF ReportRoutes, InformedOn, R!BridgeInformed
<1>6. CASE R!SendFullPacket
  <2>1. /\ walk.pc = "full" /\ walk' = [walk EXCEPT !.pc = "walk", !.entries = {}]
        /\ known' = (IF reporting THEN known \cup walk.entries ELSE known)
        /\ UNCHANGED informed
    BY <1>6 DEF R!SendFullPacket, R!Tell
  <2>2. ReportsTyped'
    BY <1>1, <1>3, <2>1 DEF ReportsTyped
  <2>3. /\ walk'.pc = "walk" /\ walk'.next = walk.next /\ walk'.end = walk.end
    BY <2>1 DEF ReportsTyped
  <2>4. \A n : (Ahead(n) => Ahead(n)') /\ (Told(n) => Told(n)')
               /\ (reporting /\ n \in walk.entries => Told(n)')
    BY <1>1, <2>1, <2>3 DEF Ahead, Told
  <2> QED BY <1>1, <1>2, <2>1, <2>2, <2>3, <2>4
      DEF ReportRoutes, OnItsWay, InformedOn, R!BridgeInformed, Told
<1>7. CASE R!WalkEnds
  <2>1. /\ walk' = [walk EXCEPT !.pc = "partial"] /\ walk.pc = "walk" /\ R!Walked
        /\ UNCHANGED <<known, informed>>
    BY <1>7 DEF R!WalkEnds
  <2>2. /\ walk'.pc = "partial" /\ walk'.next = walk.next /\ walk'.end = walk.end
        /\ walk'.entries = walk.entries /\ ReportsTyped'
    BY <1>1, <2>1 DEF ReportsTyped
  <2>3. \A n : (Ahead(n) => Ahead(n)') /\ (Told(n) => Told(n)')
    BY <1>1, <2>1, <2>2 DEF Ahead, Told
  <2> QED BY <1>1, <1>2, <2>1, <2>2, <2>3
      DEF ReportRoutes, OnItsWay, InformedOn, R!BridgeInformed, R!Walked
<1>8. CASE R!SendPartialPacket
  <2>1. /\ walk.pc = "partial" /\ walk' = R!Resting /\ informed' = reporting
        /\ known' = (IF reporting THEN known \cup walk.entries ELSE known)
    BY <1>8 DEF R!SendPartialPacket, R!Tell
  <2>2. ReportsTyped'
    BY <1>1, <1>3, <2>1 DEF ReportsTyped, R!Resting
  <2>3. \A n : ~Ahead(n)
    BY <1>3, <2>1 DEF Ahead, ReportRoutes
  <2>4. \A n : (Told(n) => Told(n)') /\ (reporting /\ n \in walk.entries => Told(n)')
    BY <1>1, <2>1 DEF Told
  <2>5. R!BridgeInformed'
    BY <1>1, <1>2, <2>1, <2>3, <2>4 DEF OnItsWay, R!BridgeInformed, Told
  <2> QED BY <1>1, <1>2, <1>3, <2>1, <2>2, <2>5
      DEF ReportRoutes, OnItsWay, InformedOn, R!Resting
<1> QED BY <1>4, <1>5, <1>6, <1>7, <1>8

(* Whatever subscriptions come and go while CFE_SB_SendPrevSubsCmd has      *)
(* released the lock, and however many there are: a bridge that has enabled *)
(* the reports and then asked for the previous subscriptions knows of every *)
(* one that takes messages from the network, or is about to.                *)
THEOREM BridgeIsInformed == R!ReportAssumption /\ R!Spec => []R!BridgeInformed
<1>1. ASSUME R!ReportAssumption
      PROVE  R!Spec => []R!BridgeInformed
  <2>1. R!Init => ReportsInv
    BY <1>1, ReportsInit
  <2>2. ReportsInv /\ [R!Next]_R!vars => ReportsInv'
    <3>1. ReportsInv /\ UNCHANGED R!vars => ReportsInv'
      BY DEF R!vars, ReportsInv, ReportsTyped, ReportRoutes, OnItsWay, InformedOn,
             R!BridgeInformed, R!Exported, R!Routed, Ahead, Told
    <3> QED BY <1>1, <3>1, SubscribeInv, UnsubscribeInv, ReportInv, SetReportingInv,
               WalkInv DEF R!Next
  <2>3. ReportsInv => R!BridgeInformed
    BY DEF ReportsInv
  <2> QED BY <2>1, <2>2, <2>3, PTL DEF R!Spec
<1> QED BY <1>1
=============================================================================
