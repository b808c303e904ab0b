------------------------ MODULE TimeReference_proofs ------------------------
(***************************************************************************)
(* Proofs about the reference of Time Services, for any depth of the ring, *)
(* any number of retries and of reading tasks and any number of updates:   *)
(* what CFE_TIME_GetReference hands out is one finished update, whole.     *)
(***************************************************************************)
EXTENDS TimeReference, TLAPS

Copy == [Fields -> Int]
Versions == 1..VersionMax
TypeOK ==
    /\ last \in Versions
    /\ state \in [0..DEPTH - 1 -> [version : Int, val : Copy]]
    /\ writer \in [pc : {"idle", "copy", "change"}, version : Nat,
                   todo : {WriteOrder, <<"MET">>, <<>>}, may : SUBSET Fields]
    /\ reader \in [Readers -> [pc : {"idle", "copy", "check", "ok", "failed"},
                     version : Nat, todo : {ReadOrder, <<"fly">>, <<>>},
                     got : Copy, retry : Nat, since : Nat]]
    /\ published \in [Versions -> Copy]

(* The TIME task works on the number after the current one, in its slot,    *)
(* which bears that number from the start.                                  *)
WriterAhead == writer.pc # "idle" =>
    /\ writer.version = last + 1 /\ last < VersionMax
    /\ state[Slot(last + 1)].version = last + 1
    /\ writer.pc = "copy" <=> writer.todo # <<>>

(* A slot bears a finished number and that update's values, or it is the    *)
(* one the TIME task works on, or it has not been used.                     *)
SlotsKept == \A k \in 0..DEPTH - 1 :
    /\ state[k].version \in 1..last => state[k].val = published[state[k].version]
    /\ state[k].version > last =>
          writer.pc # "idle" /\ k = Slot(last + 1) /\ state[k].version = last + 1

(* The fields a reader has copied are of the update it wants, or the slot   *)
(* has been given another number since, and never gets the old one back.    *)
Copied(r) == CASE reader[r].todo = ReadOrder -> {}
               [] reader[r].todo = <<"fly">> -> {"MET"}
               [] OTHER -> Fields
ReaderBehind == \A r \in Readers :
    /\ reader[r].pc \in {"copy", "check", "ok"} =>
         reader[r].version \in 1..last /\ reader[r].since <= reader[r].version
    /\ reader[r].pc = "copy" <=> reader[r].todo # <<>>
    /\ reader[r].pc \in {"copy", "check"} =>
         \/ state[Slot(reader[r].version)].version # reader[r].version
         \/ \A f \in Copied(r) : reader[r].got[f] = published[reader[r].version][f]

Inv == TypeOK /\ WriterAhead /\ SlotsKept /\ ReaderBehind /\ ReadsWhole

-----------------------------------------------------------------------------
LEMMA SlotTyped ==
  ASSUME ReferenceAssumption, NEW version \in Int
  PROVE  Slot(version) \in 0..DEPTH - 1
  BY DEF ReferenceAssumption, Slot

LEMMA WholeTyped ==
  ASSUME NEW version \in Int
  PROVE  Whole(version) \in Copy
  BY DEF Whole, Copy

LEMMA InitInv ==
  ASSUME ReferenceAssumption, Init
  PROVE  Inv
<1>1. TypeOK
  <2>1. /\ Whole(0) \in Copy /\ Whole(1) \in Copy /\ Whole(2) \in Copy
        /\ \A v \in Versions : Whole(v) \in Copy
    BY WholeTyped, ReferenceAssumption DEF ReferenceAssumption, Versions
  <2>2. state \in [0..DEPTH - 1 -> [version : Int, val : Copy]]
    BY <2>1 DEF Init
  <2>3. last \in Versions
    BY DEF Init, Versions, ReferenceAssumption
  <2>4. /\ reader \in [Readers -> [pc : {"idle", "copy", "check", "ok", "failed"},
                     version : Nat, todo : {ReadOrder, <<"fly">>, <<>>},
                     got : Copy, retry : Nat, since : Nat]]
        /\ published \in [Versions -> Copy]
    BY <2>1 DEF Init, Absent, Versions
  <2> QED BY <2>2, <2>3, <2>4 DEF TypeOK, Init, Resting
<1>2. SlotsKept
  <2>1. 1 \in Versions /\ 2 \in Versions
    BY DEF Versions, ReferenceAssumption
  <2> QED BY <2>1 DEF SlotsKept, Init, Versions
<1> QED BY <1>1, <1>2 DEF Inv, Init, WriterAhead, ReaderBehind, ReadsWhole, Resting,
                          Absent

-----------------------------------------------------------------------------
(* One lemma per action of the TIME task and of a reader. *)
LEMMA StartInv ==
  ASSUME ReferenceAssumption, Inv, StartReferenceUpdate
  PROVE  Inv'
<1> USE DEF Inv
<1> DEFINE n == last + 1
<1>1. n \in Nat /\ n \in Versions /\ Slot(n) \in 0..DEPTH - 1
  BY SlotTyped DEF TypeOK, Versions, ReferenceAssumption, StartReferenceUpdate
<1>2. \A k \in 0..DEPTH - 1 :
         /\ state'[k].val = state[k].val
         /\ state'[k].version = IF k = Slot(n) THEN n ELSE state[k].version
  BY <1>1 DEF StartReferenceUpdate, TypeOK
<1>3. writer' = [pc |-> "copy", version |-> n, todo |-> WriteOrder, may |-> Fields]
     /\ UNCHANGED <<last, reader, published>> /\ writer.pc = "idle" /\ last < VersionMax
  BY DEF StartReferenceUpdate
<1>4. TypeOK'
  <2>1. state' \in [0..DEPTH - 1 -> [version : Int, val : Copy]]
    BY <1>1 DEF StartReferenceUpdate, TypeOK
  <2>2. writer' \in [pc : {"idle", "copy", "change"}, version : Nat,
                     todo : {WriteOrder, <<"MET">>, <<>>}, may : SUBSET Fields]
    BY <1>1, <1>3
  <2> QED BY <2>1, <2>2, <1>3 DEF TypeOK
<1>5. WriterAhead'
  BY <1>1, <1>2, <1>3 DEF WriterAhead, WriteOrder, TypeOK
<1>6. SlotsKept'
  <2> SUFFICES ASSUME NEW k \in 0..DEPTH - 1
               PROVE  /\ state'[k].version \in 1..last =>
                           state'[k].val = published[state'[k].version]
                      /\ state'[k].version > last =>
                           k = Slot(n) /\ state'[k].version = n
    BY <1>3 DEF SlotsKept
  <2>1. state[k].version \in Int /\ last \in Int
    BY DEF TypeOK, Versions
  <2> QED BY <2>1, <1>1, <1>2, <1>3 DEF SlotsKept
<1>7. ReaderBehind'
  <2> SUFFICES ASSUME NEW r \in Readers, reader[r].pc \in {"copy", "check"},
                      state[Slot(reader[r].version)].version # reader[r].version
               PROVE  state'[Slot(reader[r].version)].version # reader[r].version
    <3>1. ASSUME NEW r \in Readers, reader[r].pc \in {"copy", "check"}
          PROVE  \/ state'[Slot(reader[r].version)].version # reader[r].version
                 \/ \A f \in Copied(r) :
                      reader[r].got[f] = published[reader[r].version][f]
      BY <3>1 DEF ReaderBehind
    <3> QED BY <3>1, <1>3 DEF ReaderBehind, Copied
  <2>1. reader[r].version \in 1..last
    BY DEF ReaderBehind
  <2>2. Slot(reader[r].version) \in 0..DEPTH - 1 /\ reader[r].version # n
    BY <2>1, SlotTyped DEF TypeOK, Versions
  <2> QED BY <2>2, <1>2
<1> QED BY <1>3, <1>4, <1>5, <1>6, <1>7 DEF ReadsWhole

(* Steps that change fields of the slot the TIME task works on, only.       *)
LEMMA FieldInv ==
  ASSUME ReferenceAssumption, Inv, writer.pc # "idle", writer'.pc # "idle",
         NEW f \in Fields, NEW x \in Int,
         state' = [state EXCEPT ![Slot(last + 1)].val[f] = x],
         UNCHANGED <<last, reader, published>>
  PROVE  /\ state' \in [0..DEPTH - 1 -> [version : Int, val : Copy]]
         /\ state'[Slot(last + 1)].version = last + 1
         /\ SlotsKept' /\ ReaderBehind' /\ ReadsWhole'
<1> USE DEF Inv
<1> DEFINE n == last + 1
<1>1. n \in Nat /\ Slot(n) \in 0..DEPTH - 1
  BY SlotTyped DEF TypeOK, Versions
<1>2. state' \in [0..DEPTH - 1 -> [version : Int, val : Copy]]
  BY <1>1 DEF TypeOK, Copy
<1>3. /\ \A k \in 0..DEPTH - 1 : state'[k].version = state[k].version
      /\ \A k \in 0..DEPTH - 1 : k # Slot(n) => state'[k] = state[k]
  BY <1>1 DEF TypeOK
<1>4. state[Slot(n)].version = n
  BY DEF WriterAhead
<1>5. SlotsKept'
  <2> SUFFICES ASSUME NEW k \in 0..DEPTH - 1
               PROVE  /\ state'[k].version \in 1..last =>
                           state'[k].val = published[state'[k].version]
                      /\ state'[k].version > last =>
                           k = Slot(n) /\ state'[k].version = n
    BY DEF SlotsKept
  <2>1. last \in Int
    BY DEF TypeOK, Versions
  <2> QED BY <2>1, <1>3, <1>4 DEF SlotsKept
<1>6. ReaderBehind'
  <2>1. \A r \in Readers : reader[r].pc \in {"copy", "check"} =>
           Slot(reader[r].version) \in 0..DEPTH - 1
    BY SlotTyped DEF TypeOK
  <2> QED BY <2>1, <1>3 DEF ReaderBehind, Copied
<1> QED BY <1>1, <1>2, <1>3, <1>4, <1>5, <1>6 DEF ReadsWhole

LEMMA CopyInv ==
  ASSUME ReferenceAssumption, Inv, CopyField
  PROVE  Inv'
<1> USE DEF Inv
<1> DEFINE f == Head(writer.todo)
           x == state[Slot(last)].val[f]
<1>1. /\ writer.version = last + 1 /\ last < VersionMax /\ last \in Int
      /\ writer.todo \in {WriteOrder, <<"MET">>}
      /\ writer \in [pc : {"idle", "copy", "change"}, version : Nat,
                     todo : {WriteOrder, <<"MET">>, <<>>}, may : SUBSET Fields]
  BY DEF CopyField, WriterAhead, TypeOK, Versions
<1>2. f \in Fields /\ x \in Int
  <2>1. f \in Fields
    BY <1>1 DEF WriteOrder, Fields
  <2>2. Slot(last) \in 0..DEPTH - 1
    BY <1>1, SlotTyped
  <2> QED BY <2>1, <2>2 DEF TypeOK, Copy
<1>3. /\ writer'.pc = (IF writer.todo = WriteOrder THEN "copy" ELSE "change")
      /\ writer'.todo = (IF writer.todo = WriteOrder THEN <<"MET">> ELSE <<>>)
      /\ writer'.version = last + 1 /\ writer'.may = writer.may
      /\ writer' \in [pc : {"idle", "copy", "change"}, version : Nat,
                      todo : {WriteOrder, <<"MET">>, <<>>}, may : SUBSET Fields]
  <2> DEFINE step(todo, pc) == [writer EXCEPT !.todo = todo, !.pc = pc]
  <2>1. /\ Tail(WriteOrder) = <<"MET">> /\ Len(WriteOrder) = 2
        /\ Tail(<<"MET">>) = <<>> /\ Len(<<"MET">>) = 1 /\ <<"MET">> # WriteOrder
    BY DEF WriteOrder
  <2>2. writer' = step(Tail(writer.todo),
                       IF Len(writer.todo) = 1 THEN "change" ELSE "copy")
    BY DEF CopyField
  <2>3. CASE writer.todo = WriteOrder
    <3>1. writer' = step(<<"MET">>, "copy")
      <4> HIDE DEF step
      <4>1. Len(writer.todo) # 1 /\ Tail(writer.todo) = <<"MET">>
        BY <2>1, <2>3
      <4>2. (IF Len(writer.todo) = 1 THEN "change" ELSE "copy") = "copy"
        BY <4>1
      <4> QED BY <4>1, <4>2, <2>2
    <3> QED BY <1>1, <2>3, <3>1
  <2>4. CASE writer.todo = <<"MET">>
    <3>1. writer' = step(<<>>, "change")
      <4> HIDE DEF step
      <4> QED BY <2>1, <2>2, <2>4
    <3> QED BY <1>1, <2>1, <2>4, <3>1
  <2> QED BY <2>3, <2>4, <1>1
<1>4. writer'.pc = "copy" <=> writer'.todo # <<>>
  BY <1>3
<1>5. /\ state' = [state EXCEPT ![Slot(last + 1)].val[f] = x]
      /\ UNCHANGED <<last, reader, published>>
      /\ writer.pc # "idle" /\ writer'.pc # "idle"
  <2>1. writer.version = last + 1 /\ writer.version - 1 = last
    BY <1>1
  <2>2. writer.pc # "idle" /\ writer'.pc # "idle"
    BY <1>3 DEF CopyField
  <2> QED BY <2>1, <2>2 DEF CopyField
<1>6. /\ state' \in [0..DEPTH - 1 -> [version : Int, val : Copy]]
      /\ state'[Slot(last + 1)].version = last + 1
      /\ SlotsKept' /\ ReaderBehind' /\ ReadsWhole'
  BY <1>2, <1>5, FieldInv
<1> QED BY <1>1, <1>3, <1>4, <1>5, <1>6 DEF TypeOK, WriterAhead

LEMMA ChangeInv ==
  ASSUME ReferenceAssumption, Inv, NEW f \in Fields, ChangeField(f)
  PROVE  Inv'
<1> USE DEF Inv
<1>1. /\ writer.version = last + 1 /\ last < VersionMax /\ last + 1 \in Int
      /\ writer \in [pc : {"idle", "copy", "change"}, version : Nat,
                     todo : {WriteOrder, <<"MET">>, <<>>}, may : SUBSET Fields]
  BY DEF ChangeField, WriterAhead, TypeOK, Versions
<1>2. /\ state' = [state EXCEPT ![Slot(last + 1)].val[f] = last + 1]
      /\ writer' = [writer EXCEPT !.may = @ \ {f}]
      /\ UNCHANGED <<last, reader, published>>
      /\ writer.pc # "idle" /\ writer'.pc # "idle"
  BY <1>1 DEF ChangeField
<1>3. /\ state' \in [0..DEPTH - 1 -> [version : Int, val : Copy]]
      /\ state'[Slot(last + 1)].version = last + 1
      /\ SlotsKept' /\ ReaderBehind' /\ ReadsWhole'
  BY <1>1, <1>2, FieldInv
<1> QED BY <1>1, <1>2, <1>3 DEF TypeOK, WriterAhead

(* The number is out before anyone reads under it; the slot is then what    *)
(* the update has left.                                                     *)
LEMMA FinishUpdateInv ==
  ASSUME ReferenceAssumption, Inv, FinishReferenceUpdate
  PROVE  Inv'
<1> USE DEF Inv
<1> DEFINE n == last + 1
<1>1. /\ n \in Versions /\ Slot(n) \in 0..DEPTH - 1 /\ last \in Int /\ last >= 1
      /\ writer.version = n /\ state[Slot(n)].version = n
      /\ \A v \in 1..last : v # n /\ v \in Versions
  BY SlotTyped
     DEF FinishReferenceUpdate, WriterAhead, TypeOK, Versions, ReferenceAssumption
<1>2. /\ last' = n /\ writer' = Resting /\ UNCHANGED <<state, reader>>
      /\ published' = [published EXCEPT ![n] = state[Slot(n)].val]
  BY <1>1 DEF FinishReferenceUpdate
<1>3. /\ published'[n] = state[Slot(n)].val
      /\ \A v \in 1..last : published'[v] = published[v]
      /\ published' \in [Versions -> Copy]
  <2>1. state[Slot(n)].val \in Copy
    BY <1>1 DEF TypeOK
  <2> QED BY <2>1, <1>1, <1>2 DEF TypeOK
<1>4. TypeOK'
  BY <1>1, <1>2, <1>3 DEF TypeOK, Resting
<1>5. SlotsKept'
  <2> SUFFICES ASSUME NEW k \in 0..DEPTH - 1
               PROVE  /\ state[k].version \in 1..n =>
                           state[k].val = published'[state[k].version]
                      /\ ~ (state[k].version > n)
    BY <1>2 DEF SlotsKept
  <2>1. state[k].version \in Int
    BY DEF TypeOK
  <2>2. state[k].version \in 1..last => state[k].val = published'[state[k].version]
    BY <1>3 DEF SlotsKept
  <2>3. state[k].version > last => k = Slot(n) /\ state[k].version = n
    BY DEF SlotsKept
  <2> QED BY <2>1, <2>2, <2>3, <1>1, <1>3
<1>6. ReaderBehind' /\ ReadsWhole'
  <2>1. ASSUME NEW r \in Readers
        PROVE  reader[r].pc \in {"copy", "check", "ok"} =>
                 /\ reader[r].version \in 1..last /\ reader[r].version \in 1..n
                 /\ published'[reader[r].version] = published[reader[r].version]
    BY <1>1, <1>3 DEF ReaderBehind
  <2> QED BY <2>1, <1>2 DEF ReaderBehind, ReadsWhole, Copied
<1> QED BY <1>2, <1>4, <1>5, <1>6 DEF WriterAhead, Resting

(* What the record of a reader must satisfy next to this ring. *)
Record == [pc : {"idle", "copy", "check", "ok", "failed"},
           version : Nat, todo : {ReadOrder, <<"fly">>, <<>>},
           got : Copy, retry : Nat, since : Nat]
Legal(rec) ==
    /\ rec \in Record
    /\ rec.pc \in {"copy", "check", "ok"} =>
         rec.version \in 1..last /\ rec.since <= rec.version
    /\ rec.pc = "copy" <=> rec.todo # <<>>
    /\ rec.pc \in {"copy", "check"} =>
         \/ state[Slot(rec.version)].version # rec.version
         \/ rec.todo = ReadOrder
         \/ rec.todo = <<"fly">> /\ rec.got["MET"] = published[rec.version]["MET"]
         \/ rec.todo = <<>> /\ rec.got = published[rec.version]
    /\ rec.pc = "ok" => rec.got = published[rec.version]

(* A step of one reader leaves the ring and the other readers alone.        *)
LEMMA ReaderStep ==
  ASSUME Inv, NEW r \in Readers, NEW rec, Legal(rec),
         reader' = [reader EXCEPT ![r] = rec],
         UNCHANGED <<last, state, writer, published>>
  PROVE  Inv'
<1> USE DEF Inv, Legal, Record
<1>1. /\ reader'[r] = rec
      /\ \A q \in Readers : q # r => reader'[q] = reader[q]
  BY DEF TypeOK
<1>2. TypeOK'
  BY DEF TypeOK
<1>3. ReaderBehind'
  <2> SUFFICES ASSUME NEW q \in Readers
               PROVE  /\ reader'[q].pc \in {"copy", "check", "ok"} =>
                           /\ reader'[q].version \in 1..last
                           /\ reader'[q].since <= reader'[q].version
                      /\ reader'[q].pc = "copy" <=> reader'[q].todo # <<>>
                      /\ reader'[q].pc \in {"copy", "check"} =>
                           \/ state[Slot(reader'[q].version)].version
                                # reader'[q].version
                           \/ \A f \in Copied(q)' :
                                reader'[q].got[f] = published[reader'[q].version][f]
    BY DEF ReaderBehind
  <2>1. CASE q = r
    BY <2>1, <1>1 DEF Copied, ReadOrder
  <2>2. CASE q # r
    BY <2>2, <1>1 DEF Copied, ReaderBehind
  <2> QED BY <2>1, <2>2
<1>4. ReadsWhole'
  <2> SUFFICES ASSUME NEW q \in Readers, reader'[q].pc = "ok"
               PROVE  /\ reader'[q].got = published[reader'[q].version]
                      /\ reader'[q].version >= reader'[q].since
    BY DEF ReadsWhole
  <2>1. CASE q = r
    <3>1. rec.version \in Int /\ rec.since \in Int
      OBVIOUS
    <3> QED BY <2>1, <1>1, <3>1
  <2>2. CASE q # r
    BY <2>2, <1>1 DEF ReadsWhole
  <2> QED BY <2>1, <2>2
<1> QED BY <1>2, <1>3, <1>4 DEF WriterAhead, SlotsKept

LEMMA ReaderInv ==
  ASSUME ReferenceAssumption, Inv, NEW r \in Readers,
         \/ GetReference(r) \/ ReadField(r) \/ Retry(r) \/ Finish(r) \/ Return(r)
  PROVE  Inv'
<1> USE DEF Inv
<1> DEFINE v == reader[r].version
<1>1. /\ reader[r] \in Record /\ last \in Nat /\ last >= 1 /\ Whole(0) \in Copy
      /\ RETRIES \in Nat /\ v \in Int /\ Slot(v) \in 0..DEPTH - 1
      /\ \A u \in 1..last : u \in Versions
  <2>1. reader[r] \in Record /\ v \in Int
    BY DEF TypeOK, Record
  <2>2. /\ last \in Nat /\ last >= 1 /\ RETRIES \in Nat
        /\ \A u \in 1..last : u \in Versions
    BY DEF TypeOK, Versions, ReferenceAssumption
  <2>3. Slot(v) \in 0..DEPTH - 1 /\ Whole(0) \in Copy
    BY <2>1, SlotTyped, WholeTyped
  <2> QED BY <2>1, <2>2, <2>3
<1>2. /\ ReadOrder # <<>> /\ ReadOrder # <<"fly">>
      /\ Head(ReadOrder) = "MET" /\ Tail(ReadOrder) = <<"fly">> /\ Len(ReadOrder) = 2
      /\ Head(<<"fly">>) = "fly" /\ Tail(<<"fly">>) = <<>> /\ Len(<<"fly">>) = 1
      /\ <<"fly">> # <<>>
  BY DEF ReadOrder
<1>3. ASSUME NEW retry \in Nat, NEW since \in Nat, since <= last,
             Attempt(r, retry, since), UNCHANGED <<last, state, writer, published>>
      PROVE  Inv'
  <2> DEFINE rec == [pc |-> "copy", version |-> last, todo |-> ReadOrder,
                     got |-> Whole(0), retry |-> retry, since |-> since]
  <2>1. reader' = [reader EXCEPT ![r] = rec]
    BY <1>3 DEF Attempt
  <2>2. Legal(rec)
    BY <1>1, <1>2, <1>3 DEF Legal, Record
  <2> HIDE DEF rec
  <2> QED BY <2>1, <2>2, <1>3, ReaderStep
<1>4. CASE GetReference(r)
  BY <1>1, <1>3, <1>4 DEF GetReference
<1>5. CASE ReadField(r)
  <2> DEFINE s == state[Slot(v)]
             rec(f, rest, pc) ==
               [reader[r] EXCEPT !.got[f] = s.val[f], !.todo = rest, !.pc = pc]
  <2>1. /\ reader[r].pc = "copy" /\ reader[r].todo \in {ReadOrder, <<"fly">>}
        /\ v \in 1..last /\ reader[r].since <= v
    BY <1>1, <1>2, <1>5 DEF ReadField, ReaderBehind, Record
  <2>2. /\ s \in [version : Int, val : Copy] /\ s.val \in Copy
        /\ s.version = v => s.val = published[v]
        /\ published[v] \in Copy
    <3>1. v \in Versions
      BY <2>1, <1>1
    <3>2. s \in [version : Int, val : Copy] /\ published[v] \in Copy
      BY <1>1, <3>1 DEF TypeOK
    <3>3. s.version \in 1..last => s.val = published[s.version]
      BY <1>1 DEF SlotsKept
    <3> QED BY <2>1, <3>2, <3>3
  <2>3. /\ reader' = [reader EXCEPT ![r] = rec(Head(reader[r].todo),
                         Tail(reader[r].todo),
                         IF Len(reader[r].todo) = 1 THEN "check" ELSE "copy")]
        /\ UNCHANGED <<last, state, writer, published>>
    BY <1>5 DEF ReadField, TypeOK
  <2>4. CASE reader[r].todo = ReadOrder
    <3>1. (IF Len(reader[r].todo) = 1 THEN "check" ELSE "copy") = "copy"
      BY <2>4, <1>2
    <3>2. reader' = [reader EXCEPT ![r] = rec("MET", <<"fly">>, "copy")]
      <4> HIDE DEF rec
      <4> QED BY <3>1, <2>3, <2>4, <1>2
    <3>3. rec("MET", <<"fly">>, "copy") \in Record
      BY <1>1, <2>2 DEF Copy, Fields, Record
    <3>4. s.version = v => rec("MET", <<"fly">>, "copy").got["MET"] = published[v]["MET"]
      BY <1>1, <2>2 DEF Copy, Fields, Record
    <3>5. /\ rec("MET", <<"fly">>, "copy").pc = "copy"
          /\ rec("MET", <<"fly">>, "copy").todo = <<"fly">>
          /\ rec("MET", <<"fly">>, "copy").version = v
          /\ rec("MET", <<"fly">>, "copy").since = reader[r].since
      BY <1>1 DEF Record
    <3> HIDE DEF rec
    <3>6. Legal(rec("MET", <<"fly">>, "copy"))
      BY <3>3, <3>4, <3>5, <2>1, <1>2 DEF Legal
    <3> QED BY <3>2, <3>6, <2>3, ReaderStep
  <2>5. CASE reader[r].todo = <<"fly">>
    <3>1. (IF Len(reader[r].todo) = 1 THEN "check" ELSE "copy") = "check"
      BY <2>5, <1>2
    <3>2. reader' = [reader EXCEPT ![r] = rec("fly", <<>>, "check")]
      <4> HIDE DEF rec
      <4> QED BY <3>1, <2>3, <2>5, <1>2
    <3>3. rec("fly", <<>>, "check") \in Record
      BY <1>1, <2>2 DEF Copy, Fields, Record
    <3>4. s.version = v => rec("fly", <<>>, "check").got = published[v]
      <4> SUFFICES ASSUME s.version = v
                   PROVE  rec("fly", <<>>, "check").got = published[v]
        OBVIOUS
      <4>1. reader[r].got["MET"] = published[v]["MET"]
        BY <2>1, <2>5, <1>2 DEF ReaderBehind, Copied
      <4>2. /\ rec("fly", <<>>, "check").got = [reader[r].got EXCEPT !["fly"] = s.val["fly"]]
            /\ reader[r].got \in Copy
        BY <1>1 DEF Record
      <4> QED BY <4>1, <4>2, <2>2 DEF Copy, Fields
    <3>5. /\ rec("fly", <<>>, "check").pc = "check"
          /\ rec("fly", <<>>, "check").todo = <<>>
          /\ rec("fly", <<>>, "check").version = v
          /\ rec("fly", <<>>, "check").since = reader[r].since
      BY <1>1 DEF Record
    <3> HIDE DEF rec
    <3>6. Legal(rec("fly", <<>>, "check"))
      BY <3>3, <3>4, <3>5, <2>1, <1>2 DEF Legal
    <3> QED BY <3>2, <3>6, <2>3, ReaderStep
  <2> QED BY <2>1, <2>4, <2>5
<1>6. CASE Retry(r)
  <2>1. reader[r].since \in Nat /\ reader[r].since <= last
    BY <1>1, <1>6 DEF Retry, ReaderBehind, Record
  <2>2. reader[r].retry - 1 \in Nat
    BY <1>1, <1>6 DEF Retry, Record
  <2> QED BY <1>3, <1>6, <2>1, <2>2 DEF Retry
<1>7. CASE Finish(r)
  <2> DEFINE rec == [reader[r] EXCEPT !.pc =
                       IF reader[r].retry = 0 THEN "failed" ELSE "ok"]
  <2>1. /\ reader[r].pc = "check" /\ v \in 1..last /\ reader[r].since <= v
        /\ reader[r].todo = <<>>
    BY <1>1, <1>2, <1>7 DEF Finish, ReaderBehind
  <2>2. /\ reader' = [reader EXCEPT ![r] = rec]
        /\ UNCHANGED <<last, state, writer, published>>
    BY <1>7 DEF Finish, TypeOK
  <2>3. rec \in Record /\ rec.version = v /\ rec.since = reader[r].since
        /\ rec.todo = <<>> /\ rec.got = reader[r].got /\ rec.pc \in {"failed", "ok"}
        /\ (rec.pc = "ok" => reader[r].retry # 0)
    BY <1>1, <2>1 DEF Record
  <2>4. rec.pc = "ok" => reader[r].got = published[v]
    <3> SUFFICES ASSUME rec.pc = "ok"
                 PROVE  reader[r].got = published[v]
      OBVIOUS
    <3>1. state[Slot(v)].version = v
      BY <1>7, <2>3 DEF Finish, Settled
    <3>2. Copied(r) = Fields
      BY <2>1, <1>2 DEF Copied
    <3>3. \A f \in Fields : reader[r].got[f] = published[v][f]
      BY <2>1, <3>1, <3>2 DEF ReaderBehind
    <3>4. v \in Versions
      BY <1>1, <2>1
    <3>5. reader[r].got \in Copy /\ published[v] \in Copy
      BY <1>1, <3>4 DEF TypeOK, Record
    <3> QED BY <3>3, <3>5 DEF Copy
  <2>5. Legal(rec)
    <3> HIDE DEF rec
    <3>1. rec.pc = "check" => FALSE
      BY <2>3
    <3> QED BY <2>1, <2>3, <2>4, <3>1 DEF Legal
  <2> HIDE DEF rec
  <2> QED BY <2>2, <2>5, ReaderStep
<1>8. CASE Return(r)
  <2>1. Legal(Absent)
    BY <1>1 DEF Absent, Legal, Record
  <2> QED BY <1>8, <2>1, ReaderStep DEF Return
<1> QED BY <1>4, <1>5, <1>6, <1>7, <1>8

-----------------------------------------------------------------------------
LEMMA InvInductive ==
  ASSUME ReferenceAssumption
  PROVE  Spec => []Inv
<1>1. Init => Inv
  BY InitInv
<1>2. Inv /\ [Next]_vars => Inv'
  <2> SUFFICES ASSUME Inv, [Next]_vars
               PROVE  Inv'
    OBVIOUS
  <2>1. CASE UNCHANGED vars
    BY <2>1 DEF vars, Inv, TypeOK, WriterAhead, SlotsKept, ReaderBehind, Copied,
                ReadsWhole
  <2> QED BY <2>1, StartInv, CopyInv, ChangeInv, FinishUpdateInv, ReaderInv DEF Next
<1> QED BY <1>1, <1>2, PTL DEF Spec

(* Whatever the depth of the ring, the number of retries and the order of   *)
(* the steps, a reference that CFE_TIME_GetReference hands out is one that  *)
(* CFE_TIME_FinishReferenceUpdate has published, all its fields of the same *)
(* update, and not older than the one current when the task asked.          *)
THEOREM TimeReadsWhole == ReferenceAssumption /\ Spec => []ReadsWhole
<1>1. ReferenceAssumption /\ Spec => []Inv
  BY InvInductive
<1>2. Inv => ReadsWhole
  BY DEF Inv
<1> QED BY <1>1, <1>2, PTL
=============================================================================
