---------------------------- MODULE Tables_proofs ----------------------------
(***************************************************************************)
(* Proofs about Table Services, for any number of applications, tables,    *)
(* descriptors, working buffers and requests.                              *)
(***************************************************************************)
EXTENDS TablesProps, FiniteSetTheorems, WellFoundedInduction, TLAPS

BufRecord == [img : Images, validated : BOOLEAN]
RegRecord ==
    [owner : Apps \union {NotOwned}, name : Names \union {NoName},
     kind : Names \union {NoName}, head : Handles \union {NONE},
     loaded : BOOLEAN, lip : {NONE, 0, 1} \union Loads, pend : BOOLEAN,
     active : 0..1, valActive : Validations \union {NONE},
     valInactive : Validations \union {NONE}, dumpIndex : Loads \union {NONE},
     buf : [0..1 -> BufRecord]]
HandleRecord ==
    [used : BOOLEAN, app : Apps \union {NotOwned}, reg : Tables,
     prev : Handles \union {NONE}, next : Handles \union {NONE},
     lock : BOOLEAN, updated : BOOLEAN, buf : 0..1, sure : BOOLEAN]
Place == [shared : BOOLEAN, tbl : Tables \union {NONE}, k : {NONE, 0, 1} \union Loads]
CallRecord ==
    [pc : {"idle", "remove", "clean", "unlink", "fill", "good", "failed"},
     h : Handles \union {NONE}, at : Place]
CmdRecord == [pc : {"idle", "read"}, r : Tables \union {NONE}, at : Place]
DumpRecord == [st : {"FREE", "PENDING", "PERFORMED"}, r : Tables \union {NONE},
               b : {NONE, 0, 1} \union Loads]

Typed ==
    /\ reg \in [Tables -> RegRecord]
    /\ handle \in [Handles -> HandleRecord]
    /\ loadBuf \in [Loads -> [taken : BOOLEAN, img : Images, validated : BOOLEAN]]
    /\ val \in [Validations -> {"FREE", "PENDING", "PERFORMED"}]
    /\ dump \in [Loads -> DumpRecord]
    /\ cds \in [Names -> {"none", "unset"} \union Images]
    /\ crit \in [CritSlots -> [name : Names \union {NoName}, loaded : BOOLEAN]]
    /\ up \subseteq Apps
    /\ call \in [Apps -> CallRecord]
    /\ cmd \in CmdRecord
    /\ fresh \in [Handles -> BOOLEAN]
    /\ pool \in Int

-----------------------------------------------------------------------------
(* Records, descriptors and who is in the middle of what. *)

Used(r) == reg[r].head # NONE

(* A record of a table has the name and the owner that it was registered    *)
(* with until it is disowned.                                               *)
Recorded == \A r \in Tables :
    /\ Used(r) <=> reg[r].kind # NoName
    /\ ~Used(r) => ~reg[r].loaded
    /\ Owned(r) <=> reg[r].name # NoName
    /\ Owned(r) => reg[r].name = reg[r].kind /\ OwnerOf[reg[r].kind] = reg[r].owner

Described == \A h \in Handles : ~handle[h].used => handle[h] = EmptyHandle

(* What an application is in the middle of is about a descriptor of its own. *)
Busy(a) == call[a].pc \in {"remove", "unlink", "fill", "good", "failed"}
Calling == \A a \in Apps :
    /\ call[a].pc \in {"clean", "unlink"} <=> a \notin up
    /\ Busy(a) => /\ call[a].h \in Handles
                  /\ handle[call[a].h].used /\ handle[call[a].h].app = a
    /\ call[a].pc \in {"remove", "unlink"} => reg[handle[call[a].h].reg].owner # a

Single(r) == Used(r) /\ ~Double(r)
Working == \A r \in Tables :
    /\ Double(r) => reg[r].lip \in {NONE, Inactive(r)}
    /\ Single(r) => reg[r].lip \in Loads \union {NONE} /\ reg[r].active = 0

Links == Typed /\ AccessListExact /\ Recorded /\ Described /\ Calling /\ Working

(* A user who has not had the address since a change has been notified. *)
Told == \A h \in Handles : handle[h].used => fresh[h] \/ handle[h].updated

-----------------------------------------------------------------------------
(* Loads, when operators and applications wait for each other. *)

DumpKind(r) == reg[r].kind \in DumpOnly
AppFills(a, r) == call[a].pc \in {"fill", "good", "failed"} /\ handle[call[a].h].reg = r
CmdReads(r) == cmd.pc = "read" /\ cmd.r = r
Served(r) == Owned(r) /\ reg[r].owner \in up

(* The buffer of the load in progress. *)
WorkOf(r) == IF Double(r) THEN [shared |-> FALSE, tbl |-> r, k |-> Inactive(r)]
             ELSE [shared |-> TRUE, tbl |-> r, k |-> reg[r].lip]

Loading == \A r \in Tables : reg[r].pend => reg[r].lip # NONE /\ ~DumpKind(r)

(* One fills a buffer of a table at a time, and it is the first image or    *)
(* the load in progress.                                                    *)
FillsOf(r) ==
    /\ \A a \in Apps : AppFills(a, r) =>
         /\ ~CmdReads(r) /\ ~DumpKind(r) /\ ~reg[r].pend
         /\ \A b \in Apps : AppFills(b, r) => b = a
         /\ reg[r].loaded => reg[r].lip # NONE /\ call[a].at = WorkOf(r)
         /\ ~reg[r].loaded =>
              /\ reg[r].lip = NONE
              /\ call[a].at = [shared |-> FALSE, tbl |-> r, k |-> reg[r].active]
    /\ CmdReads(r) => Served(r) /\ ~DumpKind(r) /\ reg[r].lip # NONE /\ cmd.at = WorkOf(r)
OneFills == /\ \A r \in Tables : FillsOf(r)
            /\ cmd.pc = "read" => cmd.r \in Tables

(* A working buffer is taken by the single-buffered table that has it. *)
Taking ==
    /\ \A r \in Tables : Single(r) /\ reg[r].lip # NONE => loadBuf[reg[r].lip].taken
    /\ \A q, r \in Tables : Single(q) /\ Single(r) /\ q # r /\ reg[q].lip # NONE
                              => reg[q].lip # reg[r].lip
    /\ \A b \in Loads : loadBuf[b].taken => \E r \in Tables : Single(r) /\ reg[r].lip = b

(* A dump has the working buffer of its dump-only table, whose owner runs. *)
DumpOwned(i) == dump[i].st # "FREE" =>
    /\ dump[i].r \in Tables /\ Served(dump[i].r) /\ DumpKind(dump[i].r)
    /\ dump[i].b # NONE /\ reg[dump[i].r].lip = dump[i].b
    /\ dump[i].st = "PENDING" <=> reg[dump[i].r].dumpIndex = i
    /\ \A j \in Loads : dump[j].st # "FREE" /\ dump[j].r = dump[i].r => j = i
DumpsOf(r) ==
    /\ reg[r].dumpIndex # NONE =>
         dump[reg[r].dumpIndex].st # "FREE" /\ dump[reg[r].dumpIndex].r = r
    /\ Used(r) /\ DumpKind(r) /\ reg[r].lip # NONE =>
         \E i \in Loads : dump[i].st # "FREE" /\ dump[i].r = r
Dumps == (\A i \in Loads : DumpOwned(i)) /\ (\A r \in Tables : DumpsOf(r))

(* A request for a validation is one of a table whose owner runs, and the   *)
(* buffer it is about stays.                                                *)
Asked(r) == {reg[r].valActive, reg[r].valInactive}
AsksOf(r) ==
    /\ Asked(r) # {NONE} => Served(r)
    /\ reg[r].valInactive # NONE =>
         /\ ~DumpKind(r)
         /\ ~Double(r) => /\ reg[r].lip # NONE /\ ~reg[r].pend
                          /\ \A a \in Apps : ~AppFills(a, r)
Requesting ==
    /\ \A r \in Tables : AsksOf(r)
    /\ \A v \in Validations : val[v] = "PENDING" => \E r \in Tables : v \in Asked(r)

(* A critical table is alone and what the CDS has of it is its image. *)
Alone == \A q, r \in Tables : Used(q) /\ Used(r) /\ reg[q].kind \in Critical
                                /\ reg[q].kind = reg[r].kind => q = r
Saved == Alone /\ CriticalSaved

(* A buffer that is being filled is nobody's, nor is the first image before *)
(* it is there.                                                             *)
HeldOf(h) == handle[h].used /\ handle[h].lock =>
    LET r == handle[h].reg
    IN  /\ handle[h].sure => reg[r].loaded
        /\ ~Double(r) => handle[h].buf = 0
        /\ Double(r) /\ reg[r].lip # NONE => handle[h].buf = reg[r].active
Holding == \A h \in Handles : HeldOf(h)

Contents == Loading /\ OneFills /\ Taking /\ Dumps /\ Requesting /\ Saved /\ Holding
-----------------------------------------------------------------------------
(* Numbers and records. *)

LEMMA LeastNumber ==
  ASSUME NEW S, S \subseteq Nat, S # {}
  PROVE  Min(S) \in S
<1>1. PICK k \in S : \A j \in S : ~ (<<j, k>> \in OpToRel(<, Nat))
  BY NatLessThanWellFounded, WFMin
<1>2. \A j \in S : ~ (j < k)
  BY <1>1 DEF OpToRel
<1>3. \E i \in S : \A j \in S : i <= j
  BY <1>2
<1> QED BY <1>3 DEF Min

LEMMA Ranges ==
  /\ Tables \subseteq Nat /\ Handles \subseteq Nat /\ Loads \subseteq Nat
  /\ Validations \subseteq Nat /\ CritSlots \subseteq Nat
  /\ 0 \in Tables /\ 0 \in Handles
  /\ NONE \notin Nat /\ NotOwned \notin Apps
  BY TablesAssumption DEF Tables, Handles, Loads, Validations, CritSlots, NONE, NotOwned

LEMMA EmptyTyped ==
  EmptyRecord \in RegRecord /\ EmptyHandle \in HandleRecord /\ FreeDump \in DumpRecord
  /\ IdleCall \in CallRecord /\ IdleCmd \in CmdRecord
  BY Ranges DEF EmptyRecord, EmptyHandle, RegRecord, HandleRecord, BufRecord, Images,
     FreeDump, DumpRecord, IdleCall, CallRecord, IdleCmd, CmdRecord, Place, Nowhere

LEMMA StartTyped ==
  /\ Start.reg \in [Tables -> RegRecord] /\ Start.handle \in [Handles -> HandleRecord]
  /\ Start.loadBuf \in [Loads -> [taken : BOOLEAN, img : Images, validated : BOOLEAN]]
  /\ Start.val \in [Validations -> {"FREE", "PENDING", "PERFORMED"}]
  /\ Start.dump \in [Loads -> DumpRecord] /\ Start.call \in [Apps -> CallRecord]
  /\ Start.fresh \in [Handles -> BOOLEAN]
  BY EmptyTyped DEF Start, Images

LEMMA InitTyped == Init => Typed
  BY StartTyped, EmptyTyped, TablesAssumption DEF Init, Typed, Images

LEMMA HandleFields ==
  ASSUME NEW x \in HandleRecord, NEW p \in Handles \union {NONE}, NEW u \in BOOLEAN
  PROVE  /\ [x EXCEPT !.prev = p] \in HandleRecord /\ [x EXCEPT !.next = p] \in HandleRecord
         /\ [x EXCEPT !.updated = u] \in HandleRecord
         /\ \A k \in 0..1, b \in BOOLEAN :
              [x EXCEPT !.lock = b, !.buf = k, !.updated = FALSE, !.sure = u] \in HandleRecord
         /\ [x EXCEPT !.lock = FALSE, !.sure = FALSE] \in HandleRecord
  BY DEF HandleRecord

LEMMA RegFields ==
  ASSUME NEW x \in RegRecord, NEW l \in {NONE, 0, 1} \union Loads
  PROVE  /\ [x EXCEPT !.lip = l] \in RegRecord
         /\ \A o \in Apps \union {NotOwned}, n \in Names \union {NoName} :
              [x EXCEPT !.owner = o, !.name = n] \in RegRecord
         /\ \A h \in Handles \union {NONE} : [x EXCEPT !.head = h] \in RegRecord
         /\ \A k \in 0..1 : [x EXCEPT !.active = k] \in RegRecord
         /\ \A p, b \in BOOLEAN : [x EXCEPT !.lip = l, !.pend = p, !.loaded = b] \in RegRecord
         /\ \A p \in BOOLEAN : [x EXCEPT !.pend = p] \in RegRecord
                               /\ [x EXCEPT !.lip = l, !.pend = p] \in RegRecord
         /\ \A v \in Validations \union {NONE} :
              [x EXCEPT !.valActive = v] \in RegRecord /\ [x EXCEPT !.valInactive = v] \in RegRecord
         /\ \A i \in Loads \union {NONE} :
              [x EXCEPT !.dumpIndex = i] \in RegRecord
              /\ [x EXCEPT !.lip = l, !.dumpIndex = i] \in RegRecord
<1>1. [x EXCEPT !.lip = l] \in RegRecord
  BY DEF RegRecord
<1>2. \A o \in Apps \union {NotOwned}, n \in Names \union {NoName} :
        [x EXCEPT !.owner = o, !.name = n] \in RegRecord
  BY DEF RegRecord
<1>3. \A h \in Handles \union {NONE} : [x EXCEPT !.head = h] \in RegRecord
  BY DEF RegRecord
<1>4. \A k \in 0..1 : [x EXCEPT !.active = k] \in RegRecord
  BY DEF RegRecord
<1>5. \A p, b \in BOOLEAN : [x EXCEPT !.lip = l, !.pend = p, !.loaded = b] \in RegRecord
  BY DEF RegRecord
<1>6. \A p \in BOOLEAN : [x EXCEPT !.pend = p] \in RegRecord
  BY DEF RegRecord
<1>7. \A p \in BOOLEAN : [x EXCEPT !.lip = l, !.pend = p] \in RegRecord
  BY DEF RegRecord
<1>8. \A v \in Validations \union {NONE} : [x EXCEPT !.valActive = v] \in RegRecord
  BY DEF RegRecord
<1>9. \A v \in Validations \union {NONE} : [x EXCEPT !.valInactive = v] \in RegRecord
  BY DEF RegRecord
<1>10. \A i \in Loads \union {NONE} : [x EXCEPT !.dumpIndex = i] \in RegRecord
  BY DEF RegRecord
<1>11. \A i \in Loads \union {NONE} : [x EXCEPT !.lip = l, !.dumpIndex = i] \in RegRecord
  BY DEF RegRecord
<1> QED BY <1>1, <1>2, <1>3, <1>4, <1>5, <1>6, <1>7, <1>8, <1>9, <1>10, <1>11

LEMMA BufEdit ==
  ASSUME NEW f \in [0..1 -> BufRecord], NEW k, NEW img \in Images
  PROVE  /\ [f EXCEPT ![k].img = img] \in [0..1 -> BufRecord]
         /\ \A v \in BOOLEAN : [f EXCEPT ![k].validated = v] \in [0..1 -> BufRecord]
<1>1. CASE k \in 0..1
  <2>1. f[k] \in BufRecord
    BY <1>1
  <2>2. /\ [f[k] EXCEPT !.img = img] \in BufRecord
        /\ \A v \in BOOLEAN : [f[k] EXCEPT !.validated = v] \in BufRecord
    BY <2>1 DEF BufRecord
  <2> QED BY <1>1, <2>2
<1>2. CASE k \notin 0..1
  BY <1>2
<1> QED BY <1>1, <1>2

LEMMA BufFields ==
  ASSUME NEW x \in RegRecord, NEW k, NEW img \in Images
  PROVE  /\ [x EXCEPT !.buf[k].img = img] \in RegRecord
         /\ \A v \in BOOLEAN : [x EXCEPT !.buf[k].img = img, !.buf[k].validated = v] \in RegRecord
         /\ [x EXCEPT !.buf[k].validated = TRUE] \in RegRecord
<1>1. \A f \in [0..1 -> BufRecord] : [x EXCEPT !.buf = f] \in RegRecord
  BY DEF RegRecord
<1>2. x.buf \in [0..1 -> BufRecord]
  BY DEF RegRecord
<1>3. [x EXCEPT !.buf[k].img = img] \in RegRecord
  BY <1>1, <1>2, BufEdit
<1>4. [x EXCEPT !.buf[k].validated = TRUE] \in RegRecord
  BY <1>1, <1>2, BufEdit
<1>5. ASSUME NEW v \in BOOLEAN
      PROVE  [x EXCEPT !.buf[k].img = img, !.buf[k].validated = v] \in RegRecord
  <2> DEFINE y == [x EXCEPT !.buf[k].img = img]
  <2>1. y \in RegRecord /\ y.buf \in [0..1 -> BufRecord]
    BY <1>3 DEF RegRecord
  <2>2. \A f \in [0..1 -> BufRecord] : [y EXCEPT !.buf = f] \in RegRecord
    BY <2>1 DEF RegRecord
  <2> HIDE DEF y
  <2>3. [y EXCEPT !.buf[k].validated = v] \in RegRecord
    BY <2>1, <2>2, BufEdit
  <2> QED BY <2>3 DEF y
<1> QED BY <1>3, <1>4, <1>5

LEMMA UserHandle ==
  ASSUME NEW a \in Apps, NEW r \in Tables, NEW u \in BOOLEAN, NEW x \in Handles \union {NONE}
  PROVE  /\ [EmptyHandle EXCEPT !.used = TRUE, !.app = a, !.reg = r, !.updated = u]
               \in HandleRecord
         /\ [EmptyHandle EXCEPT !.used = TRUE, !.app = a, !.reg = r, !.updated = u, !.next = x]
               \in HandleRecord
<1>1. [EmptyHandle EXCEPT !.used = TRUE, !.app = a, !.reg = r, !.updated = u]
        \in HandleRecord
  BY EmptyTyped DEF HandleRecord
<1>2. [EmptyHandle EXCEPT !.used = TRUE, !.app = a, !.reg = r, !.updated = u, !.next = x]
        \in HandleRecord
  BY EmptyTyped DEF HandleRecord
<1> QED BY <1>1, <1>2

LEMMA NewRecordTyped ==
  ASSUME NEW a \in Apps, NEW n \in Names, NEW h \in Handles
  PROVE  NewRecord(n, a, h) \in RegRecord
<1> DEFINE seen == n \in DumpOnly \ UserDef \/ Recoverable(n)
           img == Restored(n)
           new == [EmptyRecord EXCEPT !.owner = a, !.name = n, !.kind = n, !.head = h,
                                      !.loaded = seen]
<1>1. seen \in BOOLEAN /\ img \in Images
  BY DEF Restored, Images, Recoverable
<1>2. NewRecord(n, a, h) = [new EXCEPT !.buf[0].img = img]
  BY DEF NewRecord
<1> HIDE DEF seen, img
<1>3. new \in RegRecord
  BY <1>1, EmptyTyped DEF RegRecord
<1> HIDE DEF new
<1> QED BY <1>1, <1>2, <1>3 DEF RegRecord, BufRecord

LEMMA RegisterTyped ==
  ASSUME Typed, NEW a \in Apps, NEW n \in Names, Register(a, n)
  PROVE  Typed'
<1> DEFINE r == Min(FreeRecords)
           h == Min(FreeHandles)
<1>1. r \in Tables /\ h \in Handles
  BY LeastNumber, Ranges DEF Register, FreeRecords, FreeHandles
<1>2. Restored(n) \in Images /\ Recoverable(n) \in BOOLEAN
  BY DEF Restored, Images, Recoverable
<1>3. NewRecord(n, a, h) \in RegRecord
  BY <1>1, NewRecordTyped
<1>4. [EmptyHandle EXCEPT !.used = TRUE, !.app = a, !.reg = r, !.updated = Recoverable(n)]
        \in HandleRecord
  BY <1>1, <1>2, UserHandle, Ranges
<1>5. [name |-> n, loaded |-> FALSE] \in [name : Names \union {NoName}, loaded : BOOLEAN]
  OBVIOUS
<1>6. Blocks(n) \in 0..2
  BY DEF Blocks
<1> DEFINE new == [EmptyHandle EXCEPT !.used = TRUE, !.app = a, !.reg = r,
                      !.updated = Recoverable(n)]
           spare == {c \in CritSlots : crit[c].name = NoName}
<1>7. /\ reg' = [reg EXCEPT ![r] = NewRecord(n, a, h)]
      /\ handle' = [handle EXCEPT ![h] = new]
      /\ fresh' = [fresh EXCEPT ![h] = ~Recoverable(n)]
      /\ cds' = IF n \in Critical /\ cds[n] = "none"
                  THEN [cds EXCEPT ![n] = "unset"] ELSE cds
      /\ crit' = IF n \in Critical /\ ~Recoverable(n) /\ spare # {}
                   THEN [crit EXCEPT ![Min(spare)] = [name |-> n, loaded |-> FALSE]]
                   ELSE crit
      /\ pool' = pool - Blocks(n)
      /\ UNCHANGED <<loadBuf, val, dump, up, call, cmd>>
  BY DEF Register
<1> HIDE DEF r, h, new, spare
<1>8. reg' \in [Tables -> RegRecord] /\ handle' \in [Handles -> HandleRecord]
      /\ fresh' \in [Handles -> BOOLEAN]
  BY <1>2, <1>3, <1>4, <1>7 DEF Typed, new
<1>9. cds' \in [Names -> {"none", "unset"} \union Images]
  BY <1>7 DEF Typed
<1>10. crit' \in [CritSlots -> [name : Names \union {NoName}, loaded : BOOLEAN]]
  BY <1>5, <1>7 DEF Typed
<1>11. pool' \in Int
  BY <1>6, <1>7 DEF Typed
<1> QED BY <1>7, <1>8, <1>9, <1>10, <1>11 DEF Typed

LEMMA NoRoomTyped ==
  ASSUME Typed, NEW a \in Apps, NEW n \in Names, RegisterNoRoom(a, n)
  PROVE  Typed'
<1>1. pool' \in Int
  BY DEF RegisterNoRoom, Blocks, Typed
<1>2. PICK r : reg' = [reg EXCEPT ![r] = EmptyRecord]
  BY DEF RegisterNoRoom
<1> QED BY <1>1, <1>2, EmptyTyped DEF RegisterNoRoom, Typed

LEMMA ShareTyped ==
  ASSUME Typed, NEW a \in Apps, NEW n \in Names, Share(a, n)
  PROVE  Typed'
<1> DEFINE h == Min(FreeHandles)
<1>1. h \in Handles
  BY LeastNumber, Ranges DEF Share, FreeHandles
<1> HIDE DEF h
<1>2. PICK r \in Tables :
        LET new == [EmptyHandle EXCEPT !.used = TRUE, !.app = a, !.reg = r,
                       !.updated = reg[r].loaded, !.next = reg[r].head]
        IN  /\ handle' = [handle EXCEPT ![reg[r].head].prev = h, ![h] = new]
            /\ reg' = [reg EXCEPT ![r].head = h]
            /\ fresh' = [fresh EXCEPT ![h] = ~reg[r].loaded]
  BY DEF Share, Find, h
<1>3. reg[r] \in RegRecord /\ reg[r].head \in Handles \union {NONE} /\ reg[r].loaded \in BOOLEAN
  BY <1>2 DEF Typed, RegRecord
<1>4. [EmptyHandle EXCEPT !.used = TRUE, !.app = a, !.reg = r,
            !.updated = reg[r].loaded, !.next = reg[r].head] \in HandleRecord
  BY <1>2, <1>3, UserHandle
<1>5. [handle EXCEPT ![reg[r].head].prev = h] \in [Handles -> HandleRecord]
  <2>1. CASE reg[r].head \in Handles
    <3> DEFINE p == reg[r].head
    <3>1. p \in Handles /\ handle[p] \in HandleRecord
      BY <2>1 DEF Typed
    <3>2. [handle[p] EXCEPT !.prev = h] \in HandleRecord
      BY <1>1, <3>1, HandleFields
    <3> HIDE DEF p
    <3>3. [handle EXCEPT ![p].prev = h] \in [Handles -> HandleRecord]
      BY <3>1, <3>2 DEF Typed
    <3> QED BY <3>3 DEF p
  <2>2. CASE reg[r].head \notin Handles
    BY <2>2 DEF Typed
  <2> QED BY <2>1, <2>2
<1>6. handle' \in [Handles -> HandleRecord]
  BY <1>1, <1>2, <1>4, <1>5
<1>7. reg' \in [Tables -> RegRecord]
  <2>1. reg[r] \in RegRecord /\ reg \in [Tables -> RegRecord]
    BY DEF Typed
  <2>2. [reg[r] EXCEPT !.head = h] \in RegRecord
    BY <1>1, <2>1, RegFields
  <2>3. [reg EXCEPT ![r].head = h] \in [Tables -> RegRecord]
    BY <2>1, <2>2
  <2> QED BY <1>2, <2>3
<1> QED BY <1>2, <1>6, <1>7 DEF Share, Typed

LEMMA UnlinkedTyped ==
  ASSUME Typed, NEW h \in Handles
  PROVE  Unlinked(h) \in [Handles -> HandleRecord]
<1> SUFFICES ASSUME NEW k \in Handles PROVE Unlinked(h)[k] \in HandleRecord
  BY DEF Unlinked
<1>1. /\ handle[k] \in HandleRecord /\ handle[h].next \in Handles \union {NONE}
      /\ handle[h].prev \in Handles \union {NONE}
  BY DEF Typed, HandleRecord
<1>2. /\ [handle[k] EXCEPT !.next = handle[h].next] \in HandleRecord
      /\ [handle[k] EXCEPT !.prev = handle[h].prev] \in HandleRecord
  BY <1>1, HandleFields
<1> QED BY <1>1, <1>2, EmptyTyped DEF Unlinked

LEMMA FreedTyped ==
  ASSUME Typed, NEW b
  PROVE  Freed(b) \in [Loads -> [taken : BOOLEAN, img : Images, validated : BOOLEAN]]
<1>1. CASE b \in Loads
  <2>1. loadBuf \in [Loads -> [taken : BOOLEAN, img : Images, validated : BOOLEAN]]
    BY DEF Typed
  <2>2. [loadBuf[b] EXCEPT !.taken = FALSE, !.img = "blank"]
          \in [taken : BOOLEAN, img : Images, validated : BOOLEAN]
    <3>1. "blank" \in Images
      BY DEF Images
    <3> QED BY <1>1, <2>1, <3>1
  <2>3. Freed(b) = [loadBuf EXCEPT ![b] = [loadBuf[b] EXCEPT !.taken = FALSE, !.img = "blank"]]
    BY <1>1, <2>1 DEF Freed
  <2> QED BY <1>1, <2>1, <2>2, <2>3
<1>2. CASE b \notin Loads
  BY <1>2 DEF Freed, Typed
<1> QED BY <1>1, <1>2

LEMMA RemoveTyped ==
  ASSUME Typed, NEW h \in Handles, RemoveAccessLink(h)
  PROVE  /\ reg' \in [Tables -> RegRecord] /\ handle' \in [Handles -> HandleRecord]
         /\ loadBuf' \in [Loads -> [taken : BOOLEAN, img : Images, validated : BOOLEAN]]
         /\ fresh' \in [Handles -> BOOLEAN] /\ pool' \in Int
<1> DEFINE r == handle[h].reg
           head == IF handle[h].prev = NONE THEN handle[h].next ELSE reg[r].head
           lip == IF ReleasesLoad(r) THEN NONE ELSE reg[r].lip
<1>1. /\ r \in Tables /\ reg[r] \in RegRecord /\ head \in Handles \union {NONE}
      /\ lip \in {NONE, 0, 1} \union Loads
  BY DEF Typed, RegRecord, HandleRecord
<1>2. /\ handle' = Unlinked(h) /\ fresh' = [fresh EXCEPT ![h] = FALSE]
      /\ \/ /\ reg' = [reg EXCEPT ![r].head = head]
            /\ UNCHANGED <<pool, loadBuf>>
         \/ /\ reg' = [reg EXCEPT ![r] = [EmptyRecord EXCEPT !.lip = lip]]
            /\ pool' = pool + Returned(r)
            /\ loadBuf' = IF ReleasesLoad(r) THEN Freed(reg[r].lip) ELSE loadBuf
  BY DEF RemoveAccessLink
<1>3. Returned(r) \in Int
  BY DEF Returned, Blocks
<1> HIDE DEF r, head, lip
<1>4. [reg[r] EXCEPT !.head = head] \in RegRecord /\ [EmptyRecord EXCEPT !.lip = lip] \in RegRecord
  BY <1>1, EmptyTyped DEF RegRecord
<1>5. reg' \in [Tables -> RegRecord]
  BY <1>1, <1>2, <1>4 DEF Typed
<1>6. /\ loadBuf' \in [Loads -> [taken : BOOLEAN, img : Images, validated : BOOLEAN]]
      /\ pool' \in Int
  BY <1>2, <1>3, FreedTyped DEF Typed
<1> QED BY <1>2, <1>5, <1>6, UnlinkedTyped DEF Typed

LEMMA DisownedTyped ==
  ASSUME Typed, NEW r \in Tables, NEW a
  PROVE  Disowned(r, a) \in [Tables -> RegRecord]
<1>1. [reg[r] EXCEPT !.owner = NotOwned, !.name = NoName] \in RegRecord
  <2>1. reg[r] \in RegRecord /\ NotOwned \in Apps \union {NotOwned}
        /\ NoName \in Names \union {NoName}
    BY DEF Typed
  <2> QED BY <2>1, RegFields
<1> QED BY <1>1 DEF Disowned, Typed

LEMMA CallTyped ==
  ASSUME Typed, NEW a \in Apps
  PROVE  /\ \A pc \in {"idle", "clean", "unlink", "fill", "good", "failed"} :
              [call EXCEPT ![a].pc = pc] \in [Apps -> CallRecord]
         /\ \A h \in Handles : [call EXCEPT ![a].pc = "unlink", ![a].h = h] \in [Apps -> CallRecord]
         /\ \A h \in Handles : [IdleCall EXCEPT !.pc = "remove", !.h = h] \in CallRecord
         /\ [IdleCall EXCEPT !.pc = "clean"] \in CallRecord
         /\ [call EXCEPT ![a] = IdleCall] \in [Apps -> CallRecord]
  BY EmptyTyped DEF Typed, CallRecord

(* The calls that begin or end the use of a table.                          *)
LEMMA UseTyped ==
  ASSUME Typed, NEW a \in Apps, Calling
  PROVE  /\ \A h \in Handles : UnregisterBegin(a, h) => Typed'
         /\ UnregisterEnd(a) \/ CleanUpBegin(a) \/ CleanUpDisown(a)
            \/ CleanUpUnlink(a) \/ StartApp(a) => Typed'
<1>0. \A h \in Handles : handle[h].reg \in Tables
  BY DEF Typed, HandleRecord
<1>1. ASSUME NEW h \in Handles, UnregisterBegin(a, h) PROVE Typed'
  BY <1>0, <1>1, CallTyped, DisownedTyped DEF UnregisterBegin, Typed
<1>2. ASSUME UnregisterEnd(a) PROVE Typed'
  <2>1. call[a].h \in Handles
    BY <1>2 DEF UnregisterEnd, Calling, Busy
  <2> QED BY <1>2, <2>1, RemoveTyped, CallTyped DEF UnregisterEnd, Typed
<1>3. ASSUME CleanUpBegin(a) PROVE Typed'
  <2>1. dump' \in [Loads -> DumpRecord]
    BY <1>3, EmptyTyped DEF CleanUpBegin, Typed
  <2> QED BY <1>3, <2>1, CallTyped DEF CleanUpBegin, Typed
<1>4. ASSUME CleanUpDisown(a) PROVE Typed'
  <2>1. Min(HandlesOf(a)) \in Handles
    BY <1>4, LeastNumber, Ranges DEF CleanUpDisown, HandlesOf
  <2> QED BY <1>0, <1>4, <2>1, CallTyped, DisownedTyped DEF CleanUpDisown, Typed
<1>5. ASSUME CleanUpUnlink(a) PROVE Typed'
  <2>1. call[a].h \in Handles
    BY <1>5 DEF CleanUpUnlink, Calling, Busy
  <2> QED BY <1>5, <2>1, RemoveTyped, CallTyped DEF CleanUpUnlink, Typed
<1>6. ASSUME StartApp(a) PROVE Typed'
  BY <1>6, CallTyped DEF StartApp, Typed
<1> QED BY <1>1, <1>2, <1>3, <1>4, <1>5, <1>6

-----------------------------------------------------------------------------
(* What the parts of the operations do, field by field.                     *)

TableTypes(r) ==
    /\ reg[r] \in RegRecord /\ reg[r].lip \in {NONE, 0, 1} \union Loads
    /\ reg[r].active \in 0..1 /\ Inactive(r) \in 0..1 /\ Inactive(r) # reg[r].active
    /\ reg[r].buf \in [0..1 -> BufRecord] /\ Active(r) \in Images
    /\ reg[r].loaded \in BOOLEAN /\ reg[r].pend \in BOOLEAN
    /\ reg[r].head \in Handles \union {NONE}
    /\ reg[r].valActive \in Validations \union {NONE}
    /\ reg[r].valInactive \in Validations \union {NONE}
    /\ reg[r].dumpIndex \in Loads \union {NONE}
    /\ reg[r].kind \in Names \union {NoName} /\ reg[r].name \in Names \union {NoName}
    /\ reg[r].owner \in Apps \union {NotOwned}

LEMMA TableFields ==
  ASSUME Typed, NEW r \in Tables
  PROVE  TableTypes(r)
  BY DEF Typed, RegRecord, BufRecord, Active, Inactive, TableTypes

(* Nothing but table r is changed, and who owns and uses it stays.          *)
SameUse(r) == reg'[r].owner = reg[r].owner /\ reg'[r].name = reg[r].name
              /\ reg'[r].kind = reg[r].kind /\ reg'[r].head = reg[r].head
Edits(r) == /\ SameUse(r) /\ reg' \in [Tables -> RegRecord]
            /\ \A q \in Tables : q # r => reg'[q] = reg[q]
SameRequests(r) == reg'[r].valActive = reg[r].valActive
                   /\ reg'[r].valInactive = reg[r].valInactive
                   /\ reg'[r].dumpIndex = reg[r].dumpIndex
SameBuffers(r) == reg'[r].active = reg[r].active /\ reg'[r].buf = reg[r].buf
SameLoad(r) == reg'[r].lip = reg[r].lip /\ reg'[r].pend = reg[r].pend
               /\ reg'[r].loaded = reg[r].loaded
LoadBufs == [Loads -> [taken : BOOLEAN, img : Images, validated : BOOLEAN]]

(* Only the image and the flag of working buffer b are changed. *)
Writes(b) == /\ loadBuf' \in LoadBufs
             /\ \A i \in Loads : loadBuf'[i].taken = loadBuf[i].taken
             /\ \A i \in Loads : i # b => loadBuf'[i] = loadBuf[i]
Frees(b) == /\ loadBuf' \in LoadBufs /\ ~loadBuf'[b].taken
            /\ \A i \in Loads : i # b => loadBuf'[i] = loadBuf[i]

LEMMA FreedEffect ==
  ASSUME Typed, NEW b \in Loads, loadBuf' = Freed(b)
  PROVE  Frees(b)
<1>1. loadBuf[b] \in [taken : BOOLEAN, img : Images, validated : BOOLEAN]
  BY DEF Typed
<1> QED BY <1>1, FreedTyped DEF Freed, Frees, LoadBufs, Typed

LEMMA TakenEffect ==
  ASSUME Typed, NEW b \in Loads, NEW m \in Images,
         loadBuf' = [loadBuf EXCEPT ![b].taken = TRUE, ![b].img = m]
  PROVE  /\ loadBuf' \in LoadBufs /\ loadBuf'[b].taken
         /\ \A i \in Loads : i # b => loadBuf'[i] = loadBuf[i]
<1>1. loadBuf \in [Loads -> [taken : BOOLEAN, img : Images, validated : BOOLEAN]]
  BY DEF Typed
<1>2. [loadBuf[b] EXCEPT !.taken = TRUE, !.img = m]
        \in [taken : BOOLEAN, img : Images, validated : BOOLEAN]
  BY <1>1
<1>3. loadBuf' = [loadBuf EXCEPT ![b] = [loadBuf[b] EXCEPT !.taken = TRUE, !.img = m]]
  BY <1>1
<1>4. [loadBuf[b] EXCEPT !.taken = TRUE, !.img = m].taken
  BY <1>1
<1> QED BY <1>1, <1>2, <1>3, <1>4 DEF LoadBufs

LEMMA OneBufKept ==
  ASSUME NEW x \in RegRecord, NEW k, NEW img, NEW v, NEW y,
         y = [x EXCEPT !.buf[k].img = img] \/ y = [x EXCEPT !.buf[k].validated = v]
  PROVE  /\ y.owner = x.owner /\ y.name = x.name /\ y.kind = x.kind /\ y.head = x.head
         /\ y.valActive = x.valActive /\ y.valInactive = x.valInactive
         /\ y.dumpIndex = x.dumpIndex /\ y.active = x.active /\ y.pend = x.pend
         /\ y.loaded = x.loaded /\ y.lip = x.lip
         /\ \A j \in 0..1 : j # k => y.buf[j] = x.buf[j]
<1>1. PICK f : /\ y = [x EXCEPT !.buf = f]
               /\ \A j \in 0..1 : j # k => f[j] = x.buf[j]
  <2>1. x.buf \in [0..1 -> BufRecord]
    BY DEF RegRecord
  <2>2. CASE y = [x EXCEPT !.buf[k].img = img]
    BY <2>1, <2>2
  <2>3. CASE y = [x EXCEPT !.buf[k].validated = v]
    BY <2>1, <2>3
  <2> QED BY <2>2, <2>3
<1> QED BY <1>1 DEF RegRecord

(* A copy of the active image in a buffer that is taken for a new load. *)
LEMMA TakeWorkEffect ==
  ASSUME Typed, Working, NEW r \in Tables, NEW byApp \in BOOLEAN, Used(r),
         WorkAvailable(r, byApp), TakeWork(r, byApp)
  PROVE  /\ Edits(r) /\ SameRequests(r) /\ reg'[r].active = reg[r].active
         /\ reg'[r].pend = reg[r].pend /\ reg'[r].loaded = reg[r].loaded
         /\ WorkAt(r, byApp) \in Place
         /\ \/ /\ FirstLoad(r, byApp) /\ reg' = reg /\ loadBuf' = loadBuf
               /\ WorkAt(r, byApp) = [shared |-> FALSE, tbl |-> r, k |-> reg[r].active]
            \/ /\ ~FirstLoad(r, byApp) /\ reg[r].lip # NONE
               /\ reg' = reg /\ loadBuf' = loadBuf
               /\ WorkAt(r, byApp) = WorkOf(r)
            \/ /\ ~FirstLoad(r, byApp) /\ reg[r].lip = NONE /\ Double(r)
               /\ ~InactiveHeld(r) /\ reg'[r].lip = Inactive(r) /\ loadBuf' = loadBuf
               /\ reg'[r].buf[reg[r].active] = reg[r].buf[reg[r].active]
               /\ WorkAt(r, byApp) = [shared |-> FALSE, tbl |-> r, k |-> Inactive(r)]
            \/ \E b \in Loads :
               /\ ~FirstLoad(r, byApp) /\ reg[r].lip = NONE /\ ~Double(r)
               /\ ~loadBuf[b].taken /\ reg'[r].lip = b /\ reg'[r].buf = reg[r].buf
               /\ loadBuf' \in LoadBufs /\ loadBuf'[b].taken
               /\ \A i \in Loads : i # b => loadBuf'[i] = loadBuf[i]
               /\ WorkAt(r, byApp) = [shared |-> TRUE, tbl |-> r, k |-> b]
<1>0. TableTypes(r)
  BY TableFields
<1>1. CASE FirstLoad(r, byApp)
  <2>1. ~NewLoad(r, byApp) /\ reg' = reg /\ loadBuf' = loadBuf
    BY <1>1 DEF NewLoad, TakeWork
  <2>2. WorkAt(r, byApp) = [shared |-> FALSE, tbl |-> r, k |-> reg[r].active]
    BY <1>1 DEF WorkAt
  <2>3. WorkAt(r, byApp) \in Place
    BY <1>0, <2>2 DEF Place, TableTypes
  <2> QED BY <1>1, <2>1, <2>2, <2>3 DEF Edits, SameUse, SameRequests, Typed
<1>2. CASE ~FirstLoad(r, byApp) /\ reg[r].lip # NONE
  <2>1. ~NewLoad(r, byApp) /\ reg' = reg /\ loadBuf' = loadBuf
    BY <1>2 DEF NewLoad, TakeWork
  <2>2. WorkAt(r, byApp) = WorkOf(r)
    BY <1>2, <2>1 DEF WorkAt, WorkOf
  <2>3. WorkAt(r, byApp) \in Place
    BY <1>0, <2>2 DEF Place, WorkOf, TableTypes
  <2> QED BY <1>2, <2>1, <2>2, <2>3 DEF Edits, SameUse, SameRequests, Typed
<1>3. CASE ~FirstLoad(r, byApp) /\ reg[r].lip = NONE /\ Double(r)
  <2>1. NewLoad(r, byApp) /\ ~InactiveHeld(r)
    BY <1>3 DEF NewLoad, WorkAvailable
  <2>2. WorkAt(r, byApp) = [shared |-> FALSE, tbl |-> r, k |-> Inactive(r)]
    BY <1>3 DEF WorkAt
  <2>3. WorkAt(r, byApp) \in Place
    BY <1>0, <2>2 DEF Place, TableTypes
  <2>4. /\ reg' = [reg EXCEPT ![r].lip = Inactive(r), ![r].buf[Inactive(r)].img = Active(r)]
        /\ loadBuf' = loadBuf
    BY <2>1, <2>2 DEF TakeWork
  <2> DEFINE k == Inactive(r)
             img == Active(r)
             x == [reg[r] EXCEPT !.lip = k]
             y == [x EXCEPT !.buf[k].img = img]
  <2>5. x \in RegRecord
    <3>1. reg[r] \in RegRecord /\ k \in {NONE, 0, 1} \union Loads
      BY <1>0 DEF TableTypes
    <3> QED BY <3>1, RegFields
  <2>6. y \in RegRecord
    <3>1. img \in Images
      BY <1>0 DEF TableTypes
    <3> HIDE DEF x, k, img
    <3> QED BY <2>5, <3>1, BufFields
  <2>7. reg' = [reg EXCEPT ![r] = y]
    BY <2>4 DEF Typed
  <2>8. /\ x.owner = reg[r].owner /\ x.name = reg[r].name /\ x.kind = reg[r].kind
        /\ x.head = reg[r].head /\ x.valActive = reg[r].valActive
        /\ x.valInactive = reg[r].valInactive /\ x.dumpIndex = reg[r].dumpIndex
        /\ x.active = reg[r].active /\ x.pend = reg[r].pend /\ x.loaded = reg[r].loaded
        /\ x.buf = reg[r].buf /\ x.lip = k
    BY <1>0 DEF TableTypes, RegRecord
  <2>12. k \in 0..1 /\ k # reg[r].active /\ reg[r].active \in 0..1
    BY <1>0 DEF TableTypes
  <2> HIDE DEF k, img, x
  <2>9. /\ y.owner = x.owner /\ y.name = x.name /\ y.kind = x.kind
        /\ y.head = x.head /\ y.valActive = x.valActive
        /\ y.valInactive = x.valInactive /\ y.dumpIndex = x.dumpIndex
        /\ y.active = x.active /\ y.pend = x.pend /\ y.loaded = x.loaded /\ y.lip = x.lip
        /\ \A j \in 0..1 : j # k => y.buf[j] = x.buf[j]
    BY <2>5, <2>12, OneBufKept
  <2> HIDE DEF y
  <2>10. reg'[r] = y /\ reg' \in [Tables -> RegRecord] /\ \A q \in Tables : q # r => reg'[q] = reg[q]
    BY <2>6, <2>7 DEF Typed
  <2>11. reg'[r].lip = Inactive(r) /\ reg'[r].buf[reg[r].active] = reg[r].buf[reg[r].active]
    BY <2>8, <2>9, <2>10, <2>12 DEF k
  <2> QED BY <1>3, <2>1, <2>2, <2>3, <2>4, <2>8, <2>9, <2>10, <2>11 DEF Edits, SameUse, SameRequests
<1>4. CASE ~FirstLoad(r, byApp) /\ reg[r].lip = NONE /\ ~Double(r)
  <2> DEFINE b == Min(FreeLoads)
             img == Active(r)
  <2>1. NewLoad(r, byApp) /\ FreeLoads # {}
    BY <1>4 DEF NewLoad, WorkAvailable
  <2>2. FreeLoads \subseteq Nat
    BY Ranges DEF FreeLoads
  <2>9. b \in FreeLoads
    BY <2>1, <2>2, LeastNumber
  <2>10. b \in Loads /\ ~loadBuf[b].taken
    BY <2>9 DEF FreeLoads
  <2>3. WorkAt(r, byApp) = [shared |-> TRUE, tbl |-> r, k |-> b]
    BY <1>4, <2>1 DEF WorkAt
  <2>4. WorkAt(r, byApp) \in Place
    BY <2>10, <2>3 DEF Place
  <2> HIDE DEF b, img
  <2>5. /\ loadBuf' = [loadBuf EXCEPT ![b].taken = TRUE, ![b].img = img]
        /\ reg' = [reg EXCEPT ![r].lip = b]
    <3> DEFINE at == WorkAt(r, byApp)
    <3>1. at.shared /\ at.k = b
      BY <2>3
    <3> HIDE DEF at
    <3>2. /\ loadBuf' = [loadBuf EXCEPT ![at.k].taken = TRUE, ![at.k].img = img]
          /\ reg' = [reg EXCEPT ![r].lip = at.k]
      BY <2>1, <3>1 DEF TakeWork, at, img
    <3> QED BY <3>1, <3>2
  <2>6. [reg[r] EXCEPT !.lip = b] \in RegRecord
    BY <1>0, <2>10, RegFields DEF TableTypes
  <2>7. Edits(r) /\ SameRequests(r) /\ reg'[r].lip = b /\ reg'[r].buf = reg[r].buf
        /\ reg'[r].active = reg[r].active /\ reg'[r].pend = reg[r].pend
        /\ reg'[r].loaded = reg[r].loaded
    BY <1>0, <2>5, <2>6 DEF Edits, SameUse, SameRequests, Typed, RegRecord
  <2>8. loadBuf' \in LoadBufs /\ loadBuf'[b].taken
        /\ \A i \in Loads : i # b => loadBuf'[i] = loadBuf[i]
    <3>1. img \in Images
      BY <1>0 DEF img, TableTypes
    <3> QED BY <2>10, <2>5, <3>1, TakenEffect
  <2> QED BY <1>4, <2>10, <2>3, <2>4, <2>7, <2>8
<1> QED BY <1>1, <1>2, <1>3, <1>4

(* An image, with or without its flag, into the buffer at a place. *)
Places(at, k) == /\ loadBuf' = loadBuf /\ reg' \in [Tables -> RegRecord]
                 /\ \A q \in Tables : q # at => reg'[q] = reg[q]
                 /\ \A r \in Tables :
                      /\ SameUse(r) /\ SameRequests(r) /\ SameLoad(r)
                      /\ reg'[r].active = reg[r].active
                      /\ \A j \in 0..1 : r # at \/ j # k => reg'[r].buf[j] = reg[r].buf[j]

LEMMA EditBuf ==
  ASSUME Typed, NEW at \in Place, ~at.shared, NEW r, r = at.tbl, NEW k, k = at.k,
         NEW img \in Images, NEW v \in BOOLEAN, Put(at, img) \/ SetValidated(at, img, v)
  PROVE  Places(r, k)
<1>1. /\ loadBuf' = loadBuf
      /\ \/ reg' = [reg EXCEPT ![r].buf[k].img = img]
         \/ reg' = [reg EXCEPT ![r].buf[k].img = img, ![r].buf[k].validated = v]
  BY DEF Put, SetValidated
<1>2. CASE r \notin Tables
  <2>1. reg \in [Tables -> RegRecord]
    BY DEF Typed
  <2>2. reg' = reg
    BY <1>1, <1>2, <2>1
  <2> QED BY <1>1, <1>2, <2>1, <2>2 DEF Places, SameUse, SameRequests, SameLoad
<1>3. CASE r \in Tables
  <2> DEFINE x == [reg[r] EXCEPT !.buf[k].img = img]
             y == [reg[r] EXCEPT !.buf[k].img = img, !.buf[k].validated = v]
             F == [reg EXCEPT ![r].buf[k].img = img]
  <2>1. reg[r] \in RegRecord
    BY <1>3 DEF Typed
  <2>2. x \in RegRecord /\ y \in RegRecord
    BY <2>1, BufFields
  <2>3. F = [reg EXCEPT ![r] = x] /\ F[r] = x
    BY <1>3 DEF Typed
  <2>4. [F EXCEPT ![r].buf[k].validated = v]
          = [F EXCEPT ![r] = [F[r] EXCEPT !.buf[k].validated = v]]
    OBVIOUS
  <2>5. reg' = F \/ reg' = [F EXCEPT ![r].buf[k].validated = v]
    BY <1>1
  <2>6. y = [x EXCEPT !.buf[k].validated = v]
    OBVIOUS
  <2>11. x = [reg[r] EXCEPT !.buf[k].img = img]
    OBVIOUS
  <2> HIDE DEF x, y, F
  <2>7. /\ x.owner = reg[r].owner /\ x.name = reg[r].name /\ x.kind = reg[r].kind
        /\ x.head = reg[r].head /\ x.valActive = reg[r].valActive
        /\ x.valInactive = reg[r].valInactive /\ x.dumpIndex = reg[r].dumpIndex
        /\ x.active = reg[r].active /\ x.pend = reg[r].pend
        /\ x.loaded = reg[r].loaded /\ x.lip = reg[r].lip
        /\ \A j \in 0..1 : j # k => x.buf[j] = reg[r].buf[j]
    BY <2>1, <2>11, OneBufKept
  <2>12. /\ y.owner = x.owner /\ y.name = x.name /\ y.kind = x.kind /\ y.head = x.head
         /\ y.valActive = x.valActive /\ y.valInactive = x.valInactive
         /\ y.dumpIndex = x.dumpIndex /\ y.active = x.active /\ y.pend = x.pend
         /\ y.loaded = x.loaded /\ y.lip = x.lip
         /\ \A j \in 0..1 : j # k => y.buf[j] = x.buf[j]
    BY <2>2, <2>6, OneBufKept
  <2>9. PICK z \in {x, y} : reg' = [reg EXCEPT ![r] = z]
    <3>1. CASE reg' = F
      BY <2>3, <3>1
    <3>2. CASE reg' = [F EXCEPT ![r].buf[k].validated = v]
      <4>1. reg' = [[reg EXCEPT ![r] = x] EXCEPT ![r] = y]
        BY <2>3, <2>4, <2>6, <3>2
      <4> QED BY <1>3, <4>1 DEF Typed
    <3> QED BY <2>5, <3>1, <3>2
  <2>10. reg' \in [Tables -> RegRecord] /\ reg'[r] = z
         /\ \A q \in Tables : q # r => reg'[q] = reg[q]
    <3>1. z \in RegRecord /\ reg \in [Tables -> RegRecord]
      BY <2>2, <2>9 DEF Typed
    <3> QED BY <1>3, <2>9, <3>1
  <2>13. /\ z.owner = reg[r].owner /\ z.name = reg[r].name /\ z.kind = reg[r].kind
         /\ z.head = reg[r].head /\ z.valActive = reg[r].valActive
         /\ z.valInactive = reg[r].valInactive /\ z.dumpIndex = reg[r].dumpIndex
         /\ z.active = reg[r].active /\ z.pend = reg[r].pend
         /\ z.loaded = reg[r].loaded /\ z.lip = reg[r].lip
         /\ \A j \in 0..1 : j # k => z.buf[j] = reg[r].buf[j]
    <3>1. z = x \/ z = y
      BY <2>9
    <3> QED BY <2>7, <2>12, <3>1
  <2> QED BY <1>1, <2>10, <2>13 DEF Places, SameUse, SameRequests, SameLoad
<1> QED BY <1>2, <1>3

LEMMA PutEffect ==
  ASSUME Typed, NEW at \in Place, NEW img \in Images, NEW v \in BOOLEAN,
         Put(at, img) \/ SetValidated(at, img, v)
  PROVE  \/ at.shared /\ reg' = reg /\ Writes(at.k)
         \/ ~at.shared /\ Places(at.tbl, at.k)
<1>1. CASE at.shared
  <2>1. reg' = reg
    BY <1>1 DEF Put, SetValidated
  <2> DEFINE b == at.k
  <2>2. \/ loadBuf' = [loadBuf EXCEPT ![b].img = img]
        \/ loadBuf' = [loadBuf EXCEPT ![b].img = img, ![b].validated = v]
    BY <1>1 DEF Put, SetValidated
  <2> HIDE DEF b
  <2>3. Writes(b)
    <3>1. CASE b \in Loads
      BY <2>2, <3>1 DEF Typed, Writes, LoadBufs
    <3>2. CASE b \notin Loads
      BY <2>2, <3>2 DEF Typed, Writes, LoadBufs
    <3> QED BY <3>1, <3>2
  <2> QED BY <1>1, <2>1, <2>3 DEF b
<1> QED BY <1>1, EditBuf

(* Descriptors: what lists and calls rely on, and what users hold. *)
SameLinks(h) == /\ handle'[h].used = handle[h].used /\ handle'[h].app = handle[h].app
                /\ handle'[h].reg = handle[h].reg /\ handle'[h].prev = handle[h].prev
                /\ handle'[h].next = handle[h].next
SameHold(h) == /\ handle'[h].lock = handle[h].lock /\ handle'[h].buf = handle[h].buf
               /\ handle'[h].sure = handle[h].sure
Notifies(r) ==
    /\ handle' \in [Handles -> HandleRecord]
    /\ \A h \in Handles : SameLinks(h) /\ SameHold(h)
    /\ \A h \in Handles : h \in UsersOf(r) => handle'[h].updated
    /\ \A h \in Handles : h \notin UsersOf(r) => handle'[h] = handle[h] /\ fresh'[h] = fresh[h]
    /\ fresh' \in [Handles -> BOOLEAN]

LEMMA NotifyEffect ==
  ASSUME Typed, NEW r, handle' = Notified(r), Stale(r)
  PROVE  Notifies(r)
<1>1. ASSUME NEW h \in Handles
      PROVE  /\ handle'[h] \in HandleRecord /\ SameLinks(h) /\ SameHold(h)
             /\ h \in UsersOf(r) => handle'[h].updated
             /\ h \notin UsersOf(r) => handle'[h] = handle[h]
  <2>1. handle[h] \in HandleRecord
    BY DEF Typed
  <2>2. CASE h \in UsersOf(r)
    <3>1. handle'[h] = [handle[h] EXCEPT !.updated = TRUE]
      BY <2>2 DEF Notified
    <3> QED BY <2>1, <2>2, <3>1 DEF HandleRecord, SameLinks, SameHold
  <2>3. CASE h \notin UsersOf(r)
    <3>1. handle'[h] = handle[h]
      BY <2>3 DEF Notified
    <3> QED BY <2>1, <2>3, <3>1 DEF SameLinks, SameHold
  <2> QED BY <2>2, <2>3
<1>2. handle' \in [Handles -> HandleRecord]
  BY <1>1 DEF Notified
<1>3. /\ fresh' \in [Handles -> BOOLEAN]
      /\ \A h \in Handles : h \notin UsersOf(r) => fresh'[h] = fresh[h]
  BY DEF Stale, Typed
<1> QED BY <1>1, <1>2, <1>3 DEF Notifies

(* The copy of a critical table. *)
Copies(r, img) ==
    /\ cds' \in [Names -> {"none", "unset"} \union Images]
    /\ crit' \in [CritSlots -> [name : Names \union {NoName}, loaded : BOOLEAN]]
    /\ \A n \in Names : cds'[n] = IF n = reg[r].kind /\ n \in Critical THEN img ELSE cds[n]

LEMMA CopyEffect ==
  ASSUME Typed, NEW r \in Tables, NEW img \in Images, NEW once \in BOOLEAN,
         UpdateCriticalTblCDS(r, img, once)
  PROVE  Copies(r, img)
<1> DEFINE n == reg[r].kind
           c == Min(EntriesOf(n))
<1>1. CASE n \notin Critical
  BY <1>1 DEF UpdateCriticalTblCDS, Copies, Typed
<1>2. CASE n \in Critical
  <2>1. /\ cds' = [cds EXCEPT ![n] = img]
        /\ crit' = crit \/ crit' = [crit EXCEPT ![c].loaded = once]
    BY <1>2 DEF UpdateCriticalTblCDS
  <2> HIDE DEF n, c
  <2>2. crit' \in [CritSlots -> [name : Names \union {NoName}, loaded : BOOLEAN]]
    <3>1. CASE c \in CritSlots
      BY <2>1, <3>1 DEF Typed
    <3>2. CASE c \notin CritSlots
      BY <2>1, <3>2 DEF Typed
    <3> QED BY <3>1, <3>2
  <2>3. cds' \in [Names -> {"none", "unset"} \union Images]
        /\ \A m \in Names : cds'[m] = IF m = n THEN img ELSE cds[m]
    BY <1>2, <2>1, TablesAssumption DEF Typed
  <2> QED BY <1>2, <2>2, <2>3 DEF Copies, n
<1> QED BY <1>1, <1>2

LEMMA UpdateEffect ==
  ASSUME Typed, Working, NEW r \in Tables, Used(r), reg[r].lip # NONE, ApplyUpdate(r)
  PROVE  /\ Edits(r) /\ SameRequests(r) /\ Notifies(r) /\ Copies(r, reg'[r].buf[reg'[r].active].img)
         /\ reg'[r].lip = NONE /\ ~reg'[r].pend /\ reg'[r].loaded
         /\ Double(r) => /\ reg'[r].active = Inactive(r) /\ reg'[r].buf = reg[r].buf
                         /\ loadBuf' = loadBuf
         /\ ~Double(r) => reg'[r].active = reg[r].active /\ Frees(reg[r].lip)
<1> DEFINE b == reg[r].lip
           new == IF Double(r) THEN [reg[r] EXCEPT !.active = b]
                  ELSE [reg[r] EXCEPT !.buf[0].img = loadBuf[b].img]
           done == [new EXCEPT !.lip = NONE, !.pend = FALSE, !.loaded = TRUE]
<1>0. TableTypes(r)
  BY TableFields
<1>1. /\ reg' = [reg EXCEPT ![r] = done]
      /\ loadBuf' = IF Double(r) THEN loadBuf ELSE Freed(b)
      /\ handle' = Notified(r) /\ Stale(r)
      /\ UpdateCriticalTblCDS(r, new.buf[new.active].img, TRUE)
  BY DEF ApplyUpdate
<1>2. Double(r) => b = Inactive(r) /\ b \in 0..1
  BY <1>0 DEF Working, TableTypes
<1>3. ~Double(r) => b \in Loads /\ loadBuf[b].img \in Images
  BY DEF Working, Single, Typed
<1> HIDE DEF b
<1>4. /\ new \in RegRecord
      /\ new.owner = reg[r].owner /\ new.name = reg[r].name /\ new.kind = reg[r].kind
      /\ new.head = reg[r].head /\ new.valActive = reg[r].valActive
      /\ new.valInactive = reg[r].valInactive /\ new.dumpIndex = reg[r].dumpIndex
      /\ Double(r) => new.active = b /\ new.buf = reg[r].buf
      /\ ~Double(r) => new.active = reg[r].active
  <2>1. reg[r] \in RegRecord
    BY <1>0 DEF TableTypes
  <2>2. CASE Double(r)
    <3>1. new = [reg[r] EXCEPT !.active = b]
      BY <2>2
    <3> HIDE DEF new
    <3>2. new \in RegRecord
      BY <1>2, <2>1, <2>2, <3>1 DEF RegRecord
    <3>3. new.active = b /\ new.buf = reg[r].buf
      BY <2>1, <3>1 DEF RegRecord
    <3>4. /\ new.owner = reg[r].owner /\ new.name = reg[r].name /\ new.kind = reg[r].kind
          /\ new.head = reg[r].head /\ new.valActive = reg[r].valActive
          /\ new.valInactive = reg[r].valInactive /\ new.dumpIndex = reg[r].dumpIndex
      BY <2>1, <3>1 DEF RegRecord
    <3> QED BY <2>2, <3>2, <3>3, <3>4
  <2>3. CASE ~Double(r)
    <3> DEFINE img == loadBuf[b].img
    <3>1. new = [reg[r] EXCEPT !.buf[0].img = img]
      BY <2>3
    <3>2. img \in Images
      BY <1>3, <2>3
    <3> HIDE DEF new, img
    <3>3. new \in RegRecord
      BY <2>1, <3>1, <3>2, BufFields
    <3> QED BY <2>1, <2>3, <3>1, <3>3, OneBufKept
  <2> QED BY <2>2, <2>3
<1> HIDE DEF new
<1>5. /\ done \in RegRecord
      /\ done.owner = new.owner /\ done.name = new.name /\ done.kind = new.kind
      /\ done.head = new.head /\ done.valActive = new.valActive
      /\ done.valInactive = new.valInactive /\ done.dumpIndex = new.dumpIndex
      /\ done.active = new.active /\ done.buf = new.buf
      /\ done.lip = NONE /\ ~done.pend /\ done.loaded
  BY <1>4 DEF RegRecord
<1> HIDE DEF done
<1>6. reg'[r] = done /\ reg' \in [Tables -> RegRecord] /\ \A q \in Tables : q # r => reg'[q] = reg[q]
  BY <1>1, <1>5 DEF Typed
<1>7. Edits(r) /\ SameRequests(r)
  BY <1>4, <1>5, <1>6 DEF Edits, SameUse, SameRequests
<1>8. Notifies(r)
  BY <1>1, NotifyEffect
<1>9. Copies(r, reg'[r].buf[reg'[r].active].img)
  <2>1. new.buf[new.active].img \in Images /\ new.buf[new.active].img = reg'[r].buf[reg'[r].active].img
    BY <1>4, <1>5, <1>6 DEF RegRecord, BufRecord
  <2> DEFINE img == new.buf[new.active].img
  <2> HIDE DEF img
  <2>2. Copies(r, img)
    BY <1>1, <2>1, CopyEffect DEF img
  <2> QED BY <2>1, <2>2 DEF img
<1>10. ~Double(r) => Frees(reg[r].lip)
  BY <1>1, <1>3, FreedEffect DEF b
<1> QED BY <1>1, <1>2, <1>4, <1>5, <1>6, <1>7, <1>8, <1>9, <1>10

-----------------------------------------------------------------------------
(* Steps that leave the lists of users alone.                               *)

Proceeds(a) ==
    \/ call'[a] = call[a]
    \/ /\ a \in up /\ call[a].pc \notin {"remove", "unlink", "clean"}
       /\ call'[a].pc \in {"idle", "fill", "good", "failed"}
       /\ call'[a].pc # "idle" => /\ call'[a].h \in Handles /\ handle[call'[a].h].used
                                  /\ handle[call'[a].h].app = a
ToldOf(h) == handle'[h].used => fresh'[h] \/ handle'[h].updated
WorkingOf(r) ==
    /\ Double(r) => reg'[r].lip \in {NONE, 1 - reg'[r].active}
    /\ Single(r) => reg'[r].lip \in Loads \union {NONE} /\ reg'[r].active = 0
Content ==
    /\ Typed' /\ up' = up
    /\ \A r \in Tables : SameUse(r) /\ WorkingOf(r) /\ (~Used(r) => ~reg'[r].loaded)
    /\ \A h \in Handles : SameLinks(h) /\ ToldOf(h)
                          /\ (~handle[h].used => handle'[h] = handle[h])
    /\ \A a \in Apps : Proceeds(a)

LEMMA UserTable ==
  ASSUME Links, NEW h \in Handles, handle[h].used
  PROVE  /\ handle[h].reg \in Tables /\ Used(handle[h].reg)
         /\ reg[handle[h].reg].kind \in Names /\ h \in UsersOf(handle[h].reg)
<1>1. handle[h].reg \in Tables
  BY DEF Links, Typed, HandleRecord
<1>2. h \in UsersOf(handle[h].reg)
  BY DEF UsersOf
<1>3. Used(handle[h].reg)
  BY <1>1, <1>2 DEF Links, AccessListExact, Used
<1>4. TableTypes(handle[h].reg)
  BY <1>1, TableFields DEF Links
<1> QED BY <1>1, <1>2, <1>3, <1>4 DEF Links, Recorded, TableTypes

LEMMA NamedTable ==
  ASSUME Links, NEW n \in Names, NEW r \in Find(n)
  PROVE  r \in Tables /\ Used(r) /\ Owned(r) /\ reg[r].kind = n
<1>1. r \in Tables /\ Owned(r) /\ reg[r].name = n
  BY DEF Find
<1> QED BY <1>1, TablesAssumption DEF Links, Recorded

LEMMA ContentLinks ==
  ASSUME Links, Content
  PROVE  Links' /\ Told'
<1>1. \A r \in Tables : /\ UsersOf(r)' = UsersOf(r) /\ Used(r)' = Used(r) /\ Owned(r)' = Owned(r)
                        /\ Double(r)' = Double(r) /\ Single(r)' = Single(r)
  BY DEF Content, SameUse, SameLinks, UsersOf, Used, Owned, Double, Single
<1>2. AccessListExact'
  <2>1. ASSUME NEW r \in Tables
        PROVE  /\ Grounded(r)'
               /\ reg'[r].head = NONE <=> UsersOf(r)' = {}
               /\ reg'[r].head # NONE => reg'[r].head \in UsersOf(r)' /\ handle'[reg'[r].head].prev = NONE
               /\ \A h \in UsersOf(r)' :
                    /\ Leads(r, h)'
                    /\ handle'[h].next # NONE =>
                         handle'[h].next \in UsersOf(r)' /\ handle'[handle'[h].next].prev = h
               /\ Owned(r)' => \E h \in UsersOf(r)' : handle'[h].app = reg'[r].owner
    <3>1. reg'[r].head = reg[r].head /\ reg'[r].owner = reg[r].owner
      BY DEF Content, SameUse
    <3>2. \A h \in Handles : SameLinks(h)
      BY DEF Content
    <3>3. UsersOf(r) \subseteq Handles
      BY DEF UsersOf
    <3>5. Grounded(r)'
      <4>1. Grounded(r)
        BY DEF Links, AccessListExact
      <4>2. ASSUME NEW S \in SUBSET UsersOf(r), S # {}
            PROVE  \E h \in S : handle'[h].prev \notin S
        BY <3>2, <3>3, <4>1, <4>2 DEF Grounded, SameLinks
      <4> QED BY <1>1, <4>2 DEF Grounded
    <3>4. /\ reg[r].head = NONE <=> UsersOf(r) = {}
          /\ reg[r].head # NONE => reg[r].head \in UsersOf(r) /\ handle[reg[r].head].prev = NONE
          /\ \A h \in UsersOf(r) :
               /\ Leads(r, h)
               /\ handle[h].next # NONE =>
                    handle[h].next \in UsersOf(r) /\ handle[handle[h].next].prev = h
          /\ Owned(r) => \E h \in UsersOf(r) : handle[h].app = reg[r].owner
      BY DEF Links, AccessListExact
    <3> QED BY <1>1, <3>1, <3>2, <3>3, <3>4, <3>5 DEF SameLinks, Leads
  <2> QED BY <2>1 DEF AccessListExact
<1>3. Recorded'
  BY <1>1 DEF Content, SameUse, Links, Recorded
<1>4. Described'
  BY DEF Content, SameLinks, Links, Described
<1>5. Calling'
  <2>1. ASSUME NEW a \in Apps
        PROVE  /\ call'[a].pc \in {"clean", "unlink"} <=> a \notin up
               /\ Busy(a)' => /\ call'[a].h \in Handles
                              /\ handle'[call'[a].h].used /\ handle'[call'[a].h].app = a
               /\ call'[a].pc \in {"remove", "unlink"} => reg'[handle'[call'[a].h].reg].owner # a
    <3>1. Proceeds(a) /\ \A h \in Handles : SameLinks(h)
      BY DEF Content
    <3>2. /\ call[a].pc \in {"clean", "unlink"} <=> a \notin up
          /\ Busy(a) => /\ call[a].h \in Handles
                        /\ handle[call[a].h].used /\ handle[call[a].h].app = a
          /\ call[a].pc \in {"remove", "unlink"} => reg[handle[call[a].h].reg].owner # a
      BY DEF Links, Calling
    <3>3. \A h \in Handles : handle[h].reg \in Tables /\ reg'[handle[h].reg].owner = reg[handle[h].reg].owner
      BY DEF Content, SameUse, Links, Typed, HandleRecord
    <3>4. CASE call'[a] = call[a]
      BY <3>1, <3>2, <3>3, <3>4 DEF Busy, SameLinks
    <3>5. CASE call'[a] # call[a]
      BY <3>1, <3>2, <3>5 DEF Busy, SameLinks, Proceeds
    <3> QED BY <3>4, <3>5
  <2> QED BY <2>1 DEF Calling, Content
<1>6. Working'
  BY <1>1 DEF Content, WorkingOf, Working, Inactive
<1>7. Told'
  BY DEF Content, ToldOf, Told
<1> QED BY <1>2, <1>3, <1>4, <1>5, <1>6, <1>7 DEF Links, Content

LEMMA LoadEdit ==
  ASSUME Typed, NEW r \in Tables, NEW l \in {NONE, 0, 1} \union Loads,
         NEW p \in BOOLEAN, NEW d \in BOOLEAN,
         reg' = [reg EXCEPT ![r].lip = l, ![r].pend = p, ![r].loaded = d]
  PROVE  /\ Edits(r) /\ SameRequests(r) /\ SameBuffers(r)
         /\ reg'[r].lip = l /\ reg'[r].pend = p /\ reg'[r].loaded = d
<1> DEFINE x == [reg[r] EXCEPT !.lip = l, !.pend = p, !.loaded = d]
<1>1. reg[r] \in RegRecord
  BY DEF Typed
<1>2. x \in RegRecord
  BY <1>1, RegFields
<1>3. reg' = [reg EXCEPT ![r] = x]
  BY DEF Typed
<1>4. /\ x.owner = reg[r].owner /\ x.name = reg[r].name /\ x.kind = reg[r].kind
      /\ x.head = reg[r].head /\ x.valActive = reg[r].valActive
      /\ x.valInactive = reg[r].valInactive /\ x.dumpIndex = reg[r].dumpIndex
      /\ x.active = reg[r].active /\ x.buf = reg[r].buf
      /\ x.lip = l /\ x.pend = p /\ x.loaded = d
  BY <1>1 DEF RegRecord
<1> HIDE DEF x
<1>5. reg'[r] = x /\ reg' \in [Tables -> RegRecord] /\ \A q \in Tables : q # r => reg'[q] = reg[q]
  BY <1>2, <1>3 DEF Typed
<1> QED BY <1>4, <1>5 DEF Edits, SameUse, SameRequests, SameBuffers

LEMMA UpdateContent ==
  ASSUME Links, Told, NEW a \in Apps, NEW h \in Handles, Update(a, h)
  PROVE  Content
<1> DEFINE r == handle[h].reg
<1>1. r \in Tables /\ Used(r) /\ reg[r].lip # NONE /\ ApplyUpdate(r) /\ Typed /\ Working
  BY UserTable DEF Update, Calls, Links
<1>2. UNCHANGED <<val, dump, pool, up, call, cmd>>
  BY DEF Update
<1> HIDE DEF r
<1>3. /\ Edits(r) /\ Notifies(r) /\ Copies(r, reg'[r].buf[reg'[r].active].img)
      /\ reg'[r].lip = NONE
      /\ Double(r) => reg'[r].active = Inactive(r) /\ loadBuf' = loadBuf
      /\ ~Double(r) => reg'[r].active = reg[r].active /\ Frees(reg[r].lip)
  BY <1>1, UpdateEffect
<1>4. Typed'
  BY <1>1, <1>2, <1>3 DEF Typed, Edits, Notifies, Copies, Frees, LoadBufs
<1> QED BY <1>1, <1>2, <1>3, <1>4 DEF Content, Edits, SameUse, WorkingOf, Working, Single, Notifies, ToldOf, Told, UsersOf, SameLinks, Proceeds, Links, Recorded, Used, Inactive

LEMMA LipEdit ==
  ASSUME Typed, NEW r \in Tables, NEW l \in {NONE, 0, 1} \union Loads,
         reg' = [reg EXCEPT ![r].lip = l]
  PROVE  /\ Edits(r) /\ SameRequests(r) /\ SameBuffers(r)
         /\ reg'[r].lip = l /\ reg'[r].pend = reg[r].pend /\ reg'[r].loaded = reg[r].loaded
<1> DEFINE x == [reg[r] EXCEPT !.lip = l]
<1>1. reg[r] \in RegRecord
  BY DEF Typed
<1>2. x \in RegRecord
  BY <1>1, RegFields
<1>3. reg' = [reg EXCEPT ![r] = x]
  BY DEF Typed
<1>4. /\ x.owner = reg[r].owner /\ x.name = reg[r].name /\ x.kind = reg[r].kind
      /\ x.head = reg[r].head /\ x.valActive = reg[r].valActive
      /\ x.valInactive = reg[r].valInactive /\ x.dumpIndex = reg[r].dumpIndex
      /\ x.active = reg[r].active /\ x.buf = reg[r].buf
      /\ x.lip = l /\ x.pend = reg[r].pend /\ x.loaded = reg[r].loaded
  BY <1>1 DEF RegRecord
<1> HIDE DEF x
<1>5. reg'[r] = x /\ reg' \in [Tables -> RegRecord] /\ \A q \in Tables : q # r => reg'[q] = reg[q]
  BY <1>2, <1>3 DEF Typed
<1> QED BY <1>4, <1>5 DEF Edits, SameUse, SameRequests, SameBuffers

LEMMA PendEdit ==
  ASSUME Typed, NEW r \in Tables, reg' = [reg EXCEPT ![r].pend = TRUE]
  PROVE  /\ Edits(r) /\ SameRequests(r) /\ SameBuffers(r)
         /\ reg'[r].lip = reg[r].lip /\ reg'[r].pend /\ reg'[r].loaded = reg[r].loaded
<1> DEFINE x == [reg[r] EXCEPT !.pend = TRUE]
<1>1. reg[r] \in RegRecord
  BY DEF Typed
<1>2. x \in RegRecord
  BY <1>1 DEF RegRecord
<1>3. reg' = [reg EXCEPT ![r] = x]
  BY DEF Typed
<1>4. /\ x.owner = reg[r].owner /\ x.name = reg[r].name /\ x.kind = reg[r].kind
      /\ x.head = reg[r].head /\ x.valActive = reg[r].valActive
      /\ x.valInactive = reg[r].valInactive /\ x.dumpIndex = reg[r].dumpIndex
      /\ x.active = reg[r].active /\ x.buf = reg[r].buf
      /\ x.lip = reg[r].lip /\ x.pend /\ x.loaded = reg[r].loaded
  BY <1>1 DEF RegRecord
<1> HIDE DEF x
<1>5. reg'[r] = x /\ reg' \in [Tables -> RegRecord] /\ \A q \in Tables : q # r => reg'[q] = reg[q]
  BY <1>2, <1>3 DEF Typed
<1> QED BY <1>4, <1>5 DEF Edits, SameUse, SameRequests, SameBuffers

LEMMA AbortEdit ==
  ASSUME Typed, NEW r \in Tables, reg' = [reg EXCEPT ![r] = Aborted(r)]
  PROVE  /\ Edits(r) /\ SameRequests(r) /\ SameBuffers(r)
         /\ reg'[r].lip = NONE /\ ~reg'[r].pend /\ reg'[r].loaded = reg[r].loaded
<1> DEFINE x == Aborted(r)
<1>1. reg[r] \in RegRecord
  BY DEF Typed
<1>2. x \in RegRecord
  BY <1>1, RegFields DEF Aborted
<1>4. /\ x.owner = reg[r].owner /\ x.name = reg[r].name /\ x.kind = reg[r].kind
      /\ x.head = reg[r].head /\ x.valActive = reg[r].valActive
      /\ x.valInactive = reg[r].valInactive /\ x.dumpIndex = reg[r].dumpIndex
      /\ x.active = reg[r].active /\ x.buf = reg[r].buf
      /\ x.lip = NONE /\ ~x.pend /\ x.loaded = reg[r].loaded
  BY <1>1 DEF RegRecord, Aborted
<1> HIDE DEF x
<1>5. reg'[r] = x /\ reg' \in [Tables -> RegRecord] /\ \A q \in Tables : q # r => reg'[q] = reg[q]
  BY <1>2 DEF Typed, x
<1> QED BY <1>4, <1>5 DEF Edits, SameUse, SameRequests, SameBuffers

LEMMA AskEdit ==
  ASSUME Typed, NEW r \in Tables, NEW v \in Validations \union {NONE}
  PROVE  /\ reg' = [reg EXCEPT ![r].valActive = v] =>
              /\ Edits(r) /\ SameLoad(r) /\ SameBuffers(r)
              /\ reg'[r].valActive = v /\ reg'[r].valInactive = reg[r].valInactive
              /\ reg'[r].dumpIndex = reg[r].dumpIndex
         /\ reg' = [reg EXCEPT ![r].valInactive = v] =>
              /\ Edits(r) /\ SameLoad(r) /\ SameBuffers(r)
              /\ reg'[r].valActive = reg[r].valActive /\ reg'[r].valInactive = v
              /\ reg'[r].dumpIndex = reg[r].dumpIndex
<1>1. reg[r] \in RegRecord
  BY DEF Typed
<1>2. ASSUME reg' = [reg EXCEPT ![r].valActive = v]
      PROVE  /\ Edits(r) /\ SameLoad(r) /\ SameBuffers(r)
             /\ reg'[r].valActive = v /\ reg'[r].valInactive = reg[r].valInactive
             /\ reg'[r].dumpIndex = reg[r].dumpIndex
  <2> DEFINE x == [reg[r] EXCEPT !.valActive = v]
  <2>1. x \in RegRecord
    BY <1>1, RegFields
  <2>2. reg' = [reg EXCEPT ![r] = x]
    BY <1>2 DEF Typed
  <2>3. /\ x.owner = reg[r].owner /\ x.name = reg[r].name /\ x.kind = reg[r].kind
        /\ x.head = reg[r].head /\ x.valActive = v
        /\ x.valInactive = reg[r].valInactive /\ x.dumpIndex = reg[r].dumpIndex
        /\ x.active = reg[r].active /\ x.buf = reg[r].buf
        /\ x.lip = reg[r].lip /\ x.pend = reg[r].pend /\ x.loaded = reg[r].loaded
    BY <1>1 DEF RegRecord
  <2> HIDE DEF x
  <2>4. reg'[r] = x /\ reg' \in [Tables -> RegRecord] /\ \A q \in Tables : q # r => reg'[q] = reg[q]
    BY <2>1, <2>2 DEF Typed
  <2> QED BY <2>3, <2>4 DEF Edits, SameUse, SameLoad, SameBuffers
<1>3. ASSUME reg' = [reg EXCEPT ![r].valInactive = v]
      PROVE  /\ Edits(r) /\ SameLoad(r) /\ SameBuffers(r)
             /\ reg'[r].valActive = reg[r].valActive /\ reg'[r].valInactive = v
             /\ reg'[r].dumpIndex = reg[r].dumpIndex
  <2> DEFINE x == [reg[r] EXCEPT !.valInactive = v]
  <2>1. x \in RegRecord
    BY <1>1, RegFields
  <2>2. reg' = [reg EXCEPT ![r] = x]
    BY <1>3 DEF Typed
  <2>3. /\ x.owner = reg[r].owner /\ x.name = reg[r].name /\ x.kind = reg[r].kind
        /\ x.head = reg[r].head /\ x.valActive = reg[r].valActive
        /\ x.valInactive = v /\ x.dumpIndex = reg[r].dumpIndex
        /\ x.active = reg[r].active /\ x.buf = reg[r].buf
        /\ x.lip = reg[r].lip /\ x.pend = reg[r].pend /\ x.loaded = reg[r].loaded
    BY <1>1 DEF RegRecord
  <2> HIDE DEF x
  <2>4. reg'[r] = x /\ reg' \in [Tables -> RegRecord] /\ \A q \in Tables : q # r => reg'[q] = reg[q]
    BY <2>1, <2>2 DEF Typed
  <2> QED BY <2>3, <2>4 DEF Edits, SameUse, SameLoad, SameBuffers
<1> QED BY <1>2, <1>3

(* A dump request is made, or carried out. *)
LEMMA DumpEdit ==
  ASSUME Typed, NEW r \in Tables, NEW i \in Loads \union {NONE}, NEW l \in {NONE, 0, 1} \union Loads,
         \/ reg' = [reg EXCEPT ![r].lip = l, ![r].dumpIndex = i]
         \/ l = reg[r].lip /\ reg' = [reg EXCEPT ![r].dumpIndex = i]
  PROVE  /\ Edits(r) /\ SameBuffers(r) /\ reg'[r].dumpIndex = i /\ reg'[r].lip = l
         /\ reg'[r].valActive = reg[r].valActive /\ reg'[r].valInactive = reg[r].valInactive
         /\ reg'[r].pend = reg[r].pend /\ reg'[r].loaded = reg[r].loaded
<1>1. reg[r] \in RegRecord
  BY DEF Typed
<1>2. PICK x \in {[reg[r] EXCEPT !.lip = l, !.dumpIndex = i], [reg[r] EXCEPT !.dumpIndex = i]} :
        /\ x = [reg[r] EXCEPT !.dumpIndex = i] => l = reg[r].lip
        /\ reg' = [reg EXCEPT ![r] = x]
  <2>1. CASE reg' = [reg EXCEPT ![r].lip = l, ![r].dumpIndex = i]
    <3>1. reg' = [reg EXCEPT ![r] = [reg[r] EXCEPT !.lip = l, !.dumpIndex = i]]
      BY <2>1 DEF Typed
    <3>2. [reg[r] EXCEPT !.lip = l, !.dumpIndex = i] = [reg[r] EXCEPT !.dumpIndex = i]
            => l = reg[r].lip
      BY <1>1 DEF RegRecord
    <3> QED BY <3>1, <3>2
  <2>2. CASE l = reg[r].lip /\ reg' = [reg EXCEPT ![r].dumpIndex = i]
    <3>1. reg' = [reg EXCEPT ![r] = [reg[r] EXCEPT !.dumpIndex = i]]
      BY <2>2 DEF Typed
    <3> QED BY <2>2, <3>1
  <2> QED BY <2>1, <2>2
<1>3. x \in RegRecord
  <2>1. CASE x = [reg[r] EXCEPT !.lip = l, !.dumpIndex = i]
    BY <1>1, <2>1, RegFields
  <2>2. CASE x = [reg[r] EXCEPT !.dumpIndex = i]
    BY <1>1, <2>2, RegFields
  <2> QED BY <1>2, <2>1, <2>2
<1>4. /\ x.owner = reg[r].owner /\ x.name = reg[r].name /\ x.kind = reg[r].kind
      /\ x.head = reg[r].head /\ x.valActive = reg[r].valActive
      /\ x.valInactive = reg[r].valInactive /\ x.dumpIndex = i
      /\ x.active = reg[r].active /\ x.buf = reg[r].buf
      /\ x.lip = l /\ x.pend = reg[r].pend /\ x.loaded = reg[r].loaded
  <2>1. CASE x = [reg[r] EXCEPT !.lip = l, !.dumpIndex = i]
    BY <1>1, <2>1 DEF RegRecord
  <2>2. CASE x = [reg[r] EXCEPT !.dumpIndex = i]
    BY <1>1, <1>2, <2>2 DEF RegRecord
  <2> QED BY <1>2, <2>1, <2>2
<1>5. reg'[r] = x /\ reg' \in [Tables -> RegRecord] /\ \A q \in Tables : q # r => reg'[q] = reg[q]
  BY <1>2, <1>3 DEF Typed
<1> QED BY <1>4, <1>5 DEF Edits, SameUse, SameBuffers

LEMMA UserDefEdit ==
  ASSUME Typed, NEW r \in Tables,
         reg' = [reg EXCEPT ![r].loaded = TRUE, ![r].buf[0].img = "good"]
  PROVE  /\ Edits(r) /\ SameRequests(r) /\ reg'[r].active = reg[r].active
         /\ reg'[r].lip = reg[r].lip /\ reg'[r].pend = reg[r].pend /\ reg'[r].loaded
<1> DEFINE x == [reg[r] EXCEPT !.loaded = TRUE]
           y == [x EXCEPT !.buf[0].img = "good"]
           F == [reg EXCEPT ![r] = x]
<1>1. reg[r] \in RegRecord /\ "good" \in Images
  BY DEF Typed, Images
<1>2. /\ x \in RegRecord
      /\ x.owner = reg[r].owner /\ x.name = reg[r].name /\ x.kind = reg[r].kind
      /\ x.head = reg[r].head /\ x.valActive = reg[r].valActive
      /\ x.valInactive = reg[r].valInactive /\ x.dumpIndex = reg[r].dumpIndex
      /\ x.active = reg[r].active /\ x.pend = reg[r].pend /\ x.loaded
      /\ x.lip = reg[r].lip
  BY <1>1 DEF RegRecord
<1>3. F = [reg EXCEPT ![r].loaded = TRUE] /\ F[r] = x
  BY DEF Typed
<1>4. reg' = [F EXCEPT ![r].buf[0].img = "good"]
  BY <1>3
<1>5. reg' = [F EXCEPT ![r] = [F[r] EXCEPT !.buf[0].img = "good"]]
  BY <1>4
<1>6. reg' = [F EXCEPT ![r] = y]
  BY <1>3, <1>5
<1>7. reg' = [reg EXCEPT ![r] = y]
  BY <1>6 DEF Typed
<1> HIDE DEF x, F
<1>8. y \in RegRecord
  BY <1>1, <1>2, BufFields
<1>10. /\ y.owner = x.owner /\ y.name = x.name /\ y.kind = x.kind /\ y.head = x.head
       /\ y.valActive = x.valActive /\ y.valInactive = x.valInactive
       /\ y.dumpIndex = x.dumpIndex /\ y.active = x.active /\ y.pend = x.pend
       /\ y.loaded = x.loaded /\ y.lip = x.lip
  <2> DEFINE good == "good"
  <2>1. \/ y = [x EXCEPT !.buf[0].img = good]
        \/ y = [x EXCEPT !.buf[0].validated = TRUE]
    OBVIOUS
  <2>2. x \in RegRecord
    BY <1>2
  <2> HIDE DEF y, good
  <2> QED BY <2>1, <2>2, OneBufKept
<1> HIDE DEF y
<1>9. reg'[r] = y /\ reg' \in [Tables -> RegRecord] /\ \A q \in Tables : q # r => reg'[q] = reg[q]
  BY <1>7, <1>8 DEF Typed
<1> QED BY <1>2, <1>8, <1>9, <1>10 DEF Edits, SameUse, SameRequests

(* The validation of an inactive buffer sets its flag at most. *)
SameImages(r) == /\ reg'[r].active = reg[r].active
                 /\ \A j \in 0..1 : reg'[r].buf[j].img = reg[r].buf[j].img

LEMMA ValidateEdit ==
  ASSUME Typed, NEW r \in Tables, NEW k, NEW f,
         f \in {reg[r].buf, [reg[r].buf EXCEPT ![k].validated = TRUE]},
         reg' = [reg EXCEPT ![r].valInactive = NONE, ![r].buf = f]
  PROVE  /\ Edits(r) /\ SameLoad(r) /\ SameImages(r) /\ reg'[r].valInactive = NONE
         /\ reg'[r].valActive = reg[r].valActive /\ reg'[r].dumpIndex = reg[r].dumpIndex
<1> DEFINE x == [reg[r] EXCEPT !.valInactive = NONE, !.buf = f]
<1>1. reg \in [Tables -> RegRecord] /\ reg[r] \in RegRecord /\ reg[r].buf \in [0..1 -> BufRecord]
  BY DEF Typed, RegRecord
<1>2. f \in [0..1 -> BufRecord] /\ \A j \in 0..1 : f[j].img = reg[r].buf[j].img
  <2>1. CASE f = [reg[r].buf EXCEPT ![k].validated = TRUE]
    <3>1. f \in [0..1 -> BufRecord]
      BY <1>1, <2>1, BufEdit DEF Images
    <3>2. \A j \in 0..1 : f[j].img = reg[r].buf[j].img
      <4> TAKE j \in 0..1
      <4>1. reg[r].buf[j] \in BufRecord
        BY <1>1
      <4>2. CASE j = k
        <5>1. f[j] = [reg[r].buf[j] EXCEPT !.validated = TRUE]
          BY <1>1, <2>1, <4>2
        <5> QED BY <4>1, <5>1 DEF BufRecord
      <4>3. CASE j # k
        BY <1>1, <2>1, <4>3
      <4> QED BY <4>2, <4>3
    <3> QED BY <3>1, <3>2
  <2>2. CASE f = reg[r].buf
    BY <1>1, <2>2
  <2> QED BY <2>1, <2>2
<1>3. /\ x \in RegRecord
      /\ x.owner = reg[r].owner /\ x.name = reg[r].name /\ x.kind = reg[r].kind
      /\ x.head = reg[r].head /\ x.valActive = reg[r].valActive
      /\ x.valInactive = NONE /\ x.dumpIndex = reg[r].dumpIndex
      /\ x.active = reg[r].active /\ x.pend = reg[r].pend /\ x.loaded = reg[r].loaded
      /\ x.lip = reg[r].lip /\ x.buf = f
  BY <1>1, <1>2 DEF RegRecord
<1>4. reg' = [reg EXCEPT ![r] = x]
  BY <1>1
<1> HIDE DEF x
<1>5. reg'[r] = x /\ reg' \in [Tables -> RegRecord] /\ \A q \in Tables : q # r => reg'[q] = reg[q]
  BY <1>1, <1>3, <1>4
<1> QED BY <1>2, <1>3, <1>5 DEF Edits, SameUse, SameLoad, SameImages

-----------------------------------------------------------------------------
(* The operations that leave the lists of users alone. *)

LEMMA EditsContent ==
  ASSUME Links, Told, Typed', NEW r \in Tables, Used(r), Edits(r), WorkingOf(r),
         handle' = handle, fresh' = fresh, up' = up, \A a \in Apps : Proceeds(a)
  PROVE  Content
<1>1. \A q \in Tables : SameUse(q) /\ WorkingOf(q) /\ (~Used(q) => ~reg'[q].loaded)
  BY DEF Links, Working, Recorded, Edits, SameUse, WorkingOf, Single, Used, Inactive
<1>2. \A h \in Handles : SameLinks(h) /\ ToldOf(h) /\ (~handle[h].used => handle'[h] = handle[h])
  BY DEF Told, SameLinks, ToldOf
<1> QED BY <1>1, <1>2 DEF Content

LEMMA LoadUserDefContent ==
  ASSUME Links, Told, NEW a \in Apps, NEW h \in Handles, LoadUserDef(a, h)
  PROVE  Content
<1> DEFINE r == handle[h].reg
<1>1. r \in Tables /\ Used(r)
  BY UserTable DEF LoadUserDef, Calls
<1>2. /\ reg' = [reg EXCEPT ![r].loaded = TRUE, ![r].buf[0].img = "good"]
      /\ UNCHANGED <<handle, loadBuf, val, dump, pool, cds, crit, up, call, cmd, fresh>>
  BY DEF LoadUserDef
<1> HIDE DEF r
<1>3. Edits(r) /\ WorkingOf(r)
  BY <1>1, <1>2, UserDefEdit DEF Links, Working, WorkingOf, Edits, SameUse, Single, Inactive
<1>4. Typed'
  BY <1>2, <1>3 DEF Links, Typed, Edits
<1> QED BY <1>1, <1>2, <1>3, <1>4, EditsContent DEF Proceeds

LEMMA TakesWork ==
  ASSUME Links, NEW r \in Tables, NEW byApp \in BOOLEAN, Used(r),
         WorkAvailable(r, byApp), TakeWork(r, byApp)
  PROVE  Edits(r) /\ WorkAt(r, byApp) \in Place /\ loadBuf' \in LoadBufs /\ WorkingOf(r)
<1>1. Typed /\ Working
  BY DEF Links
<1>2. Edits(r) /\ WorkAt(r, byApp) \in Place /\ reg'[r].active = reg[r].active
  BY <1>1, TakeWorkEffect
<1>3. \/ reg'[r].lip = reg[r].lip /\ loadBuf' = loadBuf
      \/ Double(r) /\ reg'[r].lip = Inactive(r) /\ loadBuf' = loadBuf
      \/ ~Double(r) /\ reg'[r].lip \in Loads /\ loadBuf' \in LoadBufs
  BY <1>1, TakeWorkEffect
<1>4. WorkingOf(r)
  BY <1>1, <1>2, <1>3 DEF Working, WorkingOf, Single, Inactive
<1> QED BY <1>1, <1>2, <1>3, <1>4 DEF Typed, LoadBufs

LEMMA LoadBeginContent ==
  ASSUME Links, Told, NEW a \in Apps, NEW h \in Handles, LoadBegin(a, h)
  PROVE  Content
<1> DEFINE r == handle[h].reg
           at == WorkAt(r, TRUE)
<1>1. /\ r \in Tables /\ Used(r) /\ a \in up /\ call[a].pc = "idle"
      /\ handle[h].used /\ handle[h].app = a
  BY UserTable DEF LoadBegin, Calls
<1>2. /\ WorkAvailable(r, TRUE) /\ TakeWork(r, TRUE)
      /\ call' = [call EXCEPT ![a] = [pc |-> "fill", h |-> h, at |-> at]]
      /\ UNCHANGED <<handle, val, dump, pool, cds, crit, up, cmd, fresh>>
  BY DEF LoadBegin
<1>3. Typed /\ Working
  BY DEF Links
<1> HIDE DEF r
<1>4. Edits(r) /\ at \in Place /\ loadBuf' \in LoadBufs /\ WorkingOf(r)
  BY <1>1, <1>2, <1>3, TakesWork
<1> HIDE DEF at
<1>5. call' \in [Apps -> CallRecord]
  BY <1>2, <1>3, <1>4 DEF Typed, CallRecord
<1>6. Typed'
  BY <1>2, <1>3, <1>4, <1>5 DEF Typed, Edits, LoadBufs
<1>7. \A b \in Apps : Proceeds(b)
  BY <1>1, <1>2, <1>3 DEF Proceeds, Typed
<1> QED BY <1>1, <1>2, <1>4, <1>6, <1>7, EditsContent

LEMMA LoadFillContent ==
  ASSUME Links, Told, NEW a \in Apps, LoadFill(a)
  PROVE  Content
<1>1. /\ call[a].pc = "fill" /\ call[a].at \in Place /\ call[a].h \in Handles
      /\ handle[call[a].h].used /\ handle[call[a].h].app = a /\ a \in up
      /\ call[a] \in CallRecord
  BY DEF LoadFill, Links, Typed, Calling, Busy, CallRecord
<1> DEFINE at == call[a].at
           r == handle[call[a].h].reg
<1>2. r \in Tables /\ Used(r) /\ Typed
  BY <1>1, UserTable DEF Links
<1>3. /\ \/ reg' = reg /\ loadBuf' = loadBuf
         \/ \E img \in Images : Put(at, img)
      /\ \E pc \in {"failed", "good"} : call' = [call EXCEPT ![a].pc = pc]
      /\ UNCHANGED <<handle, val, dump, pool, cds, crit, up, cmd, fresh>>
  BY TablesAssumption DEF LoadFill, Images
<1> HIDE DEF at, r
<1>4. \/ reg' = reg /\ loadBuf' = loadBuf
      \/ reg' = reg /\ Writes(at.k)
      \/ Places(at.tbl, at.k)
  BY <1>1, <1>2, <1>3, PutEffect DEF at
<1>5. /\ reg' \in [Tables -> RegRecord] /\ loadBuf' \in LoadBufs
      /\ \A q \in Tables : SameUse(q) /\ WorkingOf(q) /\ reg'[q].loaded = reg[q].loaded
  <2>1. CASE reg' = reg /\ loadBuf' \in LoadBufs
    BY <2>1 DEF Links, Working, Typed, SameUse, WorkingOf, Single, Inactive
  <2>2. CASE Places(at.tbl, at.k)
    BY <1>2, <2>2 DEF Links, Working, Typed, SameUse, WorkingOf, Single, Inactive, Places,
       SameLoad, LoadBufs
  <2> QED BY <1>2, <1>4, <2>1, <2>2 DEF Writes, LoadBufs, Typed
<1>10. PICK pc \in {"failed", "good"} : call' = [call EXCEPT ![a].pc = pc]
  BY <1>3
<1>6. call' \in [Apps -> CallRecord]
  BY <1>2, <1>10, CallTyped
<1>7. Typed'
  BY <1>2, <1>3, <1>5, <1>6 DEF Typed, LoadBufs
<1>8. \A b \in Apps : Proceeds(b)
  <2> TAKE b \in Apps
  <2>1. CASE b = a
    <3>1. call'[a].pc \in {"failed", "good"} /\ call'[a].h = call[a].h
      BY <1>1, <1>2, <1>3 DEF Typed, CallRecord
    <3> QED BY <1>1, <2>1, <3>1 DEF Proceeds
  <2>2. CASE b # a
    BY <1>2, <1>3, <2>2 DEF Proceeds, Typed
  <2> QED BY <2>1, <2>2
<1>9. \A h \in Handles : SameLinks(h) /\ ToldOf(h) /\ (~handle[h].used => handle'[h] = handle[h])
  BY <1>3 DEF Told, SameLinks, ToldOf
<1> QED BY <1>3, <1>5, <1>7, <1>8, <1>9 DEF Content, Links, Recorded

(* What the application is filling is a table it uses. *)
LEMMA FilledTable ==
  ASSUME Links, NEW a \in Apps, call[a].pc \in {"fill", "good", "failed"}
  PROVE  /\ call[a].h \in Handles /\ handle[call[a].h].used /\ handle[call[a].h].app = a
         /\ handle[call[a].h].reg \in Tables /\ Used(handle[call[a].h].reg) /\ a \in up
<1>1. /\ call[a].h \in Handles /\ handle[call[a].h].used /\ handle[call[a].h].app = a
      /\ a \in up
  BY DEF Links, Calling, Busy
<1> QED BY <1>1, UserTable

LEMMA CallEnds ==
  ASSUME Links, NEW a \in Apps, call[a].pc \in {"fill", "good", "failed"},
         call' = [call EXCEPT ![a] = IdleCall]
  PROVE  call' \in [Apps -> CallRecord] /\ \A b \in Apps : Proceeds(b)
<1>1. a \in up
  BY FilledTable
<1>2. call' \in [Apps -> CallRecord]
  BY CallTyped DEF Links
<1> QED BY <1>1, <1>2 DEF Proceeds, Links, Typed, IdleCall

LEMMA MaybeFrees ==
  ASSUME Typed, NEW b \in {NONE, 0, 1} \union Loads, loadBuf' = Freed(b) \/ loadBuf' = loadBuf
  PROVE  loadBuf' \in LoadBufs
  BY FreedTyped DEF LoadBufs, Typed

LEMMA LoadFailedContent ==
  ASSUME Links, Told, NEW a \in Apps, LoadFailed(a)
  PROVE  Content
<1> DEFINE r == handle[call[a].h].reg
           b == reg[r].lip
<1>1. call[a].pc = "failed" /\ r \in Tables /\ Used(r)
  BY FilledTable DEF LoadFailed
<1>2. /\ loadBuf' = Freed(b) \/ loadBuf' = loadBuf
      /\ reg' = [reg EXCEPT ![r].lip = NONE] /\ call' = [call EXCEPT ![a] = IdleCall]
      /\ UNCHANGED <<handle, val, dump, pool, cds, crit, up, cmd, fresh>>
  BY DEF LoadFailed
<1> HIDE DEF r
<1>3. Typed /\ Working /\ TableTypes(r)
  BY <1>1, TableFields DEF Links
<1>4. loadBuf' \in LoadBufs
  BY <1>2, <1>3, MaybeFrees DEF TableTypes
<1>5. Edits(r) /\ reg'[r].lip = NONE /\ reg'[r].active = reg[r].active
  BY <1>1, <1>2, <1>3, LipEdit DEF SameBuffers
<1>6. call' \in [Apps -> CallRecord] /\ \A c \in Apps : Proceeds(c)
  BY <1>1, <1>2, CallEnds
<1>7. Typed'
  BY <1>2, <1>3, <1>4, <1>5, <1>6 DEF Typed, Edits, LoadBufs
<1>8. WorkingOf(r)
  BY <1>1, <1>3, <1>5 DEF WorkingOf, Working, Single
<1> QED BY <1>1, <1>2, <1>5, <1>6, <1>7, <1>8, EditsContent

LEMMA NotifiesContent ==
  ASSUME Links, Told, Typed', NEW r \in Tables, Used(r), Edits(r), WorkingOf(r),
         Notifies(r), up' = up, \A a \in Apps : Proceeds(a)
  PROVE  Content
<1>1. \A q \in Tables : SameUse(q) /\ WorkingOf(q) /\ (~Used(q) => ~reg'[q].loaded)
  BY DEF Links, Working, Recorded, Edits, SameUse, WorkingOf, Single, Used, Inactive
<1>2. \A h \in Handles : SameLinks(h) /\ ToldOf(h) /\ (~handle[h].used => handle'[h] = handle[h])
  <2> TAKE h \in Handles
  <2>1. SameLinks(h)
    BY DEF Notifies
  <2>2. CASE h \in UsersOf(r)
    BY <2>1, <2>2 DEF Notifies, ToldOf, UsersOf
  <2>3. CASE h \notin UsersOf(r)
    BY <2>1, <2>3 DEF Notifies, ToldOf, Told
  <2> QED BY <2>1, <2>2, <2>3
<1> QED BY <1>1, <1>2 DEF Content

(* The first image is in place. *)
LEMMA FirstEndEffect ==
  ASSUME Typed, NEW r \in Tables,
         reg' = [reg EXCEPT ![r].lip = NONE, ![r].pend = FALSE, ![r].loaded = TRUE],
         handle' = Notified(r), Stale(r), UpdateCriticalTblCDS(r, Active(r), TRUE)
  PROVE  /\ Edits(r) /\ SameRequests(r) /\ SameBuffers(r) /\ Notifies(r)
         /\ Copies(r, Active(r)) /\ reg'[r].lip = NONE /\ ~reg'[r].pend /\ reg'[r].loaded
<1>1. Notifies(r)
  BY NotifyEffect
<1>2. Copies(r, Active(r))
  <2> DEFINE img == Active(r)
  <2>1. img \in Images
    BY TableFields DEF TableTypes
  <2> HIDE DEF img
  <2>2. UpdateCriticalTblCDS(r, img, TRUE)
    BY DEF img
  <2>3. Copies(r, img)
    BY <2>1, <2>2, CopyEffect
  <2> QED BY <2>3 DEF img
<1>3. /\ Edits(r) /\ SameRequests(r) /\ SameBuffers(r)
      /\ reg'[r].lip = NONE /\ reg'[r].pend = FALSE /\ reg'[r].loaded = TRUE
  BY LoadEdit
<1> QED BY <1>1, <1>2, <1>3

LEMMA LoadEndContent ==
  ASSUME Links, Told, NEW a \in Apps, LoadEnd(a)
  PROVE  Content
<1> DEFINE r == handle[call[a].h].reg
<1>1. call[a].pc = "good" /\ r \in Tables /\ Used(r)
  BY ZenonT(30), FilledTable DEF LoadEnd
<1>2. /\ call' = [call EXCEPT ![a] = IdleCall]
      /\ UNCHANGED <<val, dump, pool, up, cmd>>
  BY ZenonT(30) DEF LoadEnd
<1>3. Typed /\ Working
  BY DEF Links
<1>4. call' \in [Apps -> CallRecord] /\ \A c \in Apps : Proceeds(c)
  BY ZenonT(30), <1>1, <1>2, CallEnds
<1>5. \/ /\ reg' = [reg EXCEPT ![r].lip = NONE, ![r].pend = FALSE, ![r].loaded = TRUE]
         /\ handle' = Notified(r) /\ Stale(r)
         /\ UpdateCriticalTblCDS(r, Active(r), TRUE)
         /\ UNCHANGED loadBuf
      \/ reg[r].lip # NONE /\ ApplyUpdate(r)
      \/ /\ reg' = [reg EXCEPT ![r].pend = TRUE]
         /\ UNCHANGED <<handle, loadBuf, fresh, cds, crit>>
  BY ZenonT(30) DEF LoadEnd
<1> HIDE DEF r
<1>6. CASE /\ reg' = [reg EXCEPT ![r].lip = NONE, ![r].pend = FALSE, ![r].loaded = TRUE]
           /\ handle' = Notified(r) /\ Stale(r)
           /\ UpdateCriticalTblCDS(r, Active(r), TRUE)
           /\ UNCHANGED loadBuf
  <2>1. /\ Edits(r) /\ SameBuffers(r) /\ Notifies(r) /\ Copies(r, Active(r))
        /\ reg'[r].lip = NONE
    BY <1>1, <1>3, <1>6, FirstEndEffect
  <2>2. WorkingOf(r)
    BY <1>1, <1>3, <2>1 DEF WorkingOf, Working, Single, SameBuffers
  <2>3. Typed'
    BY <1>2, <1>3, <1>4, <1>6, <2>1 DEF Typed, Edits, Notifies, Copies
  <2> QED BY <1>1, <1>2, <1>4, <2>1, <2>2, <2>3, NotifiesContent
<1>7. CASE reg[r].lip # NONE /\ ApplyUpdate(r)
  <2>1. /\ Edits(r) /\ Notifies(r) /\ Copies(r, reg'[r].buf[reg'[r].active].img)
        /\ reg'[r].lip = NONE
        /\ Double(r) => loadBuf' = loadBuf
        /\ ~Double(r) => reg'[r].active = reg[r].active /\ Frees(reg[r].lip)
    BY <1>1, <1>3, <1>7, UpdateEffect
  <2>2. WorkingOf(r)
    BY <1>1, <1>3, <2>1 DEF WorkingOf, Working, Single
  <2>3. Typed'
    BY <1>2, <1>3, <1>4, <2>1 DEF Typed, Edits, Notifies, Copies, Frees, LoadBufs
  <2> QED BY <1>1, <1>2, <1>4, <2>1, <2>2, <2>3, NotifiesContent
<1>8. CASE /\ reg' = [reg EXCEPT ![r].pend = TRUE]
           /\ UNCHANGED <<handle, loadBuf, fresh, cds, crit>>
  <2>1. Edits(r) /\ SameBuffers(r) /\ reg'[r].lip = reg[r].lip
    BY <1>1, <1>3, <1>8, PendEdit
  <2>2. WorkingOf(r)
    BY <1>1, <1>3, <2>1 DEF WorkingOf, Working, Single, SameBuffers, Inactive
  <2>3. Typed'
    BY <1>2, <1>3, <1>4, <1>8, <2>1 DEF Typed, Edits
  <2> QED BY <1>1, <1>2, <1>4, <1>8, <2>1, <2>2, <2>3, EditsContent
<1> QED BY ZenonT(30), <1>5, <1>6, <1>7, <1>8

(* Steps that change descriptors only. *)
LEMMA HandlesContent ==
  ASSUME Links, Typed', reg' = reg, up' = up, call' = call,
         \A h \in Handles : SameLinks(h) /\ ToldOf(h) /\ (~handle[h].used => handle'[h] = handle[h])
  PROVE  Content
<1>1. \A r \in Tables : SameUse(r) /\ WorkingOf(r) /\ (~Used(r) => ~reg'[r].loaded)
  BY DEF Links, Working, Recorded, SameUse, WorkingOf, Single, Used, Inactive
<1> QED BY <1>1 DEF Content, Proceeds

(* What a user holds of a table, after a call of its own. *)
LEMMA AddressEffect ==
  ASSUME Typed, NEW a \in Apps, NEW h \in Handles
  PROVE  /\ GetAddress(a, h) =>
              /\ handle' \in [Handles -> HandleRecord] /\ SameLinks(h) /\ fresh'[h]
              /\ handle'[h].lock /\ handle'[h].buf = reg[handle[h].reg].active
              /\ handle'[h].sure = reg[handle[h].reg].loaded
              /\ \A k \in Handles : k # h => handle'[k] = handle[k] /\ fresh'[k] = fresh[k]
         /\ ReleaseAddress(a, h) =>
              /\ handle' \in [Handles -> HandleRecord] /\ SameLinks(h)
              /\ ~handle'[h].lock /\ handle'[h].updated = handle[h].updated
              /\ \A k \in Handles : k # h => handle'[k] = handle[k]
<1>1. handle[h] \in HandleRecord /\ handle[h].reg \in Tables
  BY DEF Typed, HandleRecord
<1>2. ASSUME GetAddress(a, h)
      PROVE  /\ handle' \in [Handles -> HandleRecord] /\ SameLinks(h) /\ fresh'[h]
             /\ handle'[h].lock /\ handle'[h].buf = reg[handle[h].reg].active
             /\ handle'[h].sure = reg[handle[h].reg].loaded
             /\ \A k \in Handles : k # h => handle'[k] = handle[k] /\ fresh'[k] = fresh[k]
  <2> DEFINE r == handle[h].reg
             k == reg[r].active
             s == reg[r].loaded
             x == [handle[h] EXCEPT !.lock = TRUE, !.buf = k, !.updated = FALSE, !.sure = s]
  <2>1. handle' = [handle EXCEPT ![h] = x] /\ fresh' = [fresh EXCEPT ![h] = TRUE]
    BY <1>2 DEF GetAddress, Typed
  <2>2. k \in 0..1 /\ s \in BOOLEAN
    BY <1>1, TableFields DEF TableTypes
  <2> HIDE DEF r, k, s
  <2>3. x \in HandleRecord
    BY <1>1, <2>2, HandleFields
  <2>4. /\ x.used = handle[h].used /\ x.app = handle[h].app /\ x.reg = handle[h].reg
        /\ x.prev = handle[h].prev /\ x.next = handle[h].next
        /\ x.lock = TRUE /\ x.buf = k /\ x.sure = s
    BY <1>1 DEF HandleRecord
  <2> HIDE DEF x
  <2>5. handle' \in [Handles -> HandleRecord] /\ handle'[h] = x
        /\ \A j \in Handles : j # h => handle'[j] = handle[j]
    BY <2>1, <2>3 DEF Typed
  <2>6. fresh'[h] /\ \A j \in Handles : j # h => fresh'[j] = fresh[j]
    BY <2>1 DEF Typed
  <2> QED BY <2>4, <2>5, <2>6 DEF SameLinks, r, k, s
<1>3. ASSUME ReleaseAddress(a, h)
      PROVE  /\ handle' \in [Handles -> HandleRecord] /\ SameLinks(h)
             /\ ~handle'[h].lock /\ handle'[h].updated = handle[h].updated
             /\ \A k \in Handles : k # h => handle'[k] = handle[k]
  <2> DEFINE x == [handle[h] EXCEPT !.lock = FALSE, !.sure = FALSE]
  <2>1. handle' = [handle EXCEPT ![h] = x]
    BY <1>3 DEF ReleaseAddress, Typed
  <2>2. x \in HandleRecord
    BY <1>1, HandleFields
  <2>3. /\ x.used = handle[h].used /\ x.app = handle[h].app /\ x.reg = handle[h].reg
        /\ x.prev = handle[h].prev /\ x.next = handle[h].next
        /\ x.lock = FALSE /\ x.updated = handle[h].updated
    BY <1>1 DEF HandleRecord
  <2> HIDE DEF x
  <2>4. handle' \in [Handles -> HandleRecord] /\ handle'[h] = x
        /\ \A j \in Handles : j # h => handle'[j] = handle[j]
    BY <2>1, <2>2 DEF Typed
  <2> QED BY <2>3, <2>4 DEF SameLinks
<1> QED BY <1>2, <1>3

LEMMA GetAddressContent ==
  ASSUME Links, Told, NEW a \in Apps, NEW h \in Handles, GetAddress(a, h)
  PROVE  Content
<1>1. UNCHANGED <<reg, loadBuf, val, dump, pool, cds, crit, up, call, cmd>> /\ handle[h].used
  BY DEF GetAddress, Calls
<1>2. /\ handle' \in [Handles -> HandleRecord] /\ SameLinks(h) /\ fresh'[h]
      /\ \A k \in Handles : k # h => handle'[k] = handle[k] /\ fresh'[k] = fresh[k]
  BY AddressEffect DEF Links
<1>3. fresh' \in [Handles -> BOOLEAN]
  BY DEF GetAddress, Links, Typed
<1>4. Typed'
  BY <1>1, <1>2, <1>3 DEF Links, Typed
<1>5. \A k \in Handles : SameLinks(k) /\ ToldOf(k) /\ (~handle[k].used => handle'[k] = handle[k])
  BY <1>1, <1>2 DEF SameLinks, ToldOf, Told
<1> QED BY <1>1, <1>4, <1>5, HandlesContent

LEMMA ReleaseAddressContent ==
  ASSUME Links, Told, NEW a \in Apps, NEW h \in Handles, ReleaseAddress(a, h)
  PROVE  Content
<1>1. /\ UNCHANGED <<reg, loadBuf, val, dump, pool, cds, crit, up, call, cmd, fresh>>
      /\ handle[h].used
  BY DEF ReleaseAddress, Calls
<1>2. /\ handle' \in [Handles -> HandleRecord] /\ SameLinks(h)
      /\ handle'[h].updated = handle[h].updated
      /\ \A k \in Handles : k # h => handle'[k] = handle[k]
  BY AddressEffect DEF Links
<1>4. Typed'
  BY <1>1, <1>2 DEF Links, Typed
<1>5. \A k \in Handles : SameLinks(k) /\ ToldOf(k) /\ (~handle[k].used => handle'[k] = handle[k])
  BY <1>1, <1>2 DEF SameLinks, ToldOf, Told
<1> QED BY <1>1, <1>4, <1>5, HandlesContent

LEMMA ModifiedEffect ==
  ASSUME Typed, NEW a \in Apps, NEW h \in Handles, Modified(a, h)
  PROVE  /\ handle' \in [Handles -> HandleRecord] /\ fresh' \in [Handles -> BOOLEAN]
         /\ \A k \in Handles :
              /\ SameLinks(k) /\ SameHold(k)
              /\ \/ handle'[k].updated /\ handle[k].used
                 \/ handle'[k] = handle[k] /\ fresh'[k] = fresh[k]
         /\ Copies(handle[h].reg, Active(handle[h].reg))
<1> DEFINE r == handle[h].reg
           others == {k \in UsersOf(r) : handle[k].app # a}
<1>1. /\ handle' = [k \in Handles |-> IF k \in others
                      THEN [handle[k] EXCEPT !.updated = TRUE] ELSE handle[k]]
      /\ fresh' = [k \in Handles |-> fresh[k] /\ k \notin others]
      /\ UpdateCriticalTblCDS(r, Active(r), reg[r].loaded)
  BY DEF Modified
<1>2. \A k \in others : handle[k].used
  BY DEF UsersOf
<1>3. r \in Tables
  BY DEF Typed, HandleRecord
<1>4. Copies(r, Active(r))
  <2> DEFINE img == Active(r)
             once == reg[r].loaded
  <2>1. img \in Images /\ once \in BOOLEAN
    BY <1>3, TableFields DEF TableTypes
  <2>2. UpdateCriticalTblCDS(r, img, once)
    BY <1>1
  <2> HIDE DEF img, once, r
  <2>3. Copies(r, img)
    BY <1>3, <2>1, <2>2, CopyEffect
  <2> QED BY <2>3 DEF img
<1> HIDE DEF r, others
<1>5. ASSUME NEW k \in Handles
      PROVE  /\ handle'[k] \in HandleRecord /\ SameLinks(k) /\ SameHold(k)
             /\ \/ handle'[k].updated /\ handle[k].used
                \/ handle'[k] = handle[k] /\ fresh'[k] = fresh[k]
  <2>1. handle[k] \in HandleRecord
    BY DEF Typed
  <2>2. CASE k \in others
    <3>1. handle'[k] = [handle[k] EXCEPT !.updated = TRUE]
      BY <1>1, <2>2
    <3> QED BY <1>2, <2>1, <2>2, <3>1 DEF HandleRecord, SameLinks, SameHold
  <2>3. CASE k \notin others
    <3>1. handle'[k] = handle[k]
      BY <1>1, <2>3
    <3>2. fresh'[k] = fresh[k]
      BY <1>1, <2>3 DEF Typed
    <3> QED BY <2>1, <3>1, <3>2 DEF SameLinks, SameHold
  <2> QED BY <2>2, <2>3
<1>6. handle' \in [Handles -> HandleRecord]
  BY <1>1, <1>5
<1>7. fresh' \in [Handles -> BOOLEAN]
  BY <1>1 DEF Typed
<1> QED BY <1>4, <1>5, <1>6, <1>7 DEF r

LEMMA ModifiedContent ==
  ASSUME Links, Told, NEW a \in Apps, NEW h \in Handles, Modified(a, h)
  PROVE  Content
<1>1. UNCHANGED <<reg, loadBuf, val, dump, pool, up, call, cmd>>
  BY DEF Modified
<1>2. Typed
  BY DEF Links
<1>3. /\ handle' \in [Handles -> HandleRecord] /\ fresh' \in [Handles -> BOOLEAN]
      /\ \A k \in Handles :
           /\ SameLinks(k)
           /\ \/ handle'[k].updated /\ handle[k].used
              \/ handle'[k] = handle[k] /\ fresh'[k] = fresh[k]
      /\ Copies(handle[h].reg, Active(handle[h].reg))
  BY <1>2, ModifiedEffect
<1>4. Typed'
  BY <1>1, <1>2, <1>3 DEF Typed, Copies
<1>5. \A k \in Handles : SameLinks(k) /\ ToldOf(k) /\ (~handle[k].used => handle'[k] = handle[k])
  BY <1>3 DEF SameLinks, ToldOf, Told
<1> QED BY <1>1, <1>4, <1>5, HandlesContent

-----------------------------------------------------------------------------
(* Commands. *)

LEMMA LoadCmdBeginContent ==
  ASSUME Links, Told, NEW n \in Names, LoadCmdBegin(n)
  PROVE  Content
<1>1. PICK r \in Find(n) :
        /\ WorkAvailable(r, FALSE) /\ TakeWork(r, FALSE)
        /\ cmd' = [pc |-> "read", r |-> r, at |-> WorkAt(r, FALSE)]
  BY DEF LoadCmdBegin
<1>2. UNCHANGED <<handle, val, dump, pool, cds, crit, up, call, fresh>>
  BY DEF LoadCmdBegin
<1>3. r \in Tables /\ Used(r)
  BY NamedTable
<1>4. Edits(r) /\ WorkAt(r, FALSE) \in Place /\ loadBuf' \in LoadBufs /\ WorkingOf(r)
  BY <1>1, <1>3, TakesWork
<1>5. cmd' \in CmdRecord
  BY <1>1, <1>3, <1>4 DEF CmdRecord
<1>6. Typed'
  BY <1>2, <1>4, <1>5 DEF Links, Typed, Edits, LoadBufs
<1> QED BY <1>2, <1>3, <1>4, <1>6, EditsContent DEF Proceeds

LEMMA LoadCmdEndContent ==
  ASSUME Links, Told, LoadCmdEnd
  PROVE  Content
<1> DEFINE at == cmd.at
<1>1. UNCHANGED <<handle, val, dump, pool, cds, crit, up, call, fresh>> /\ cmd' = IdleCmd
  BY DEF LoadCmdEnd
<1>2. at \in Place /\ Typed
  BY DEF Links, Typed, CmdRecord
<1>3. \E img \in Images, v \in BOOLEAN : Put(at, img) \/ SetValidated(at, img, v)
  BY TablesAssumption DEF LoadCmdEnd, Images, Unvalidated
<1> HIDE DEF at
<1>4. \/ reg' = reg /\ Writes(at.k)
      \/ Places(at.tbl, at.k)
  BY <1>2, <1>3, PutEffect
<1>5. /\ reg' \in [Tables -> RegRecord] /\ loadBuf' \in LoadBufs
      /\ \A q \in Tables : SameUse(q) /\ WorkingOf(q) /\ reg'[q].loaded = reg[q].loaded
  <2>1. CASE reg' = reg /\ loadBuf' \in LoadBufs
    BY <2>1 DEF Links, Working, Typed, SameUse, WorkingOf, Single, Inactive
  <2>2. CASE Places(at.tbl, at.k)
    BY <1>2, <2>2 DEF Links, Working, Typed, SameUse, WorkingOf, Single, Inactive, Places,
       SameLoad, LoadBufs
  <2> QED BY <1>2, <1>4, <2>1, <2>2 DEF Writes, LoadBufs, Typed
<1>6. Typed'
  BY <1>1, <1>2, <1>5, EmptyTyped DEF Typed, LoadBufs
<1>7. \A h \in Handles : SameLinks(h) /\ ToldOf(h) /\ (~handle[h].used => handle'[h] = handle[h])
  BY <1>1 DEF Told, SameLinks, ToldOf
<1> QED BY <1>1, <1>5, <1>6, <1>7 DEF Content, Links, Recorded, Proceeds

LEMMA ActivateCmdContent ==
  ASSUME Links, Told, NEW n \in Names, ActivateCmd(n)
  PROVE  Content
<1>1. PICK r \in Find(n) : reg' = [reg EXCEPT ![r].pend = TRUE]
  BY DEF ActivateCmd
<1>2. UNCHANGED <<handle, loadBuf, val, dump, pool, cds, crit, up, call, cmd, fresh>>
  BY DEF ActivateCmd
<1>3. r \in Tables /\ Used(r) /\ Typed /\ Working
  BY NamedTable DEF Links
<1>4. Edits(r) /\ SameBuffers(r) /\ reg'[r].lip = reg[r].lip
  BY <1>1, <1>3, PendEdit
<1>5. WorkingOf(r)
  BY <1>3, <1>4 DEF WorkingOf, Working, Single, SameBuffers, Inactive
<1>6. Typed'
  BY <1>2, <1>3, <1>4 DEF Typed, Edits
<1> QED BY <1>2, <1>3, <1>4, <1>5, <1>6, EditsContent DEF Proceeds

LEMMA AbortLoadCmdContent ==
  ASSUME Links, Told, NEW n \in Names, AbortLoadCmd(n)
  PROVE  Content
<1>1. PICK r \in Find(n) : /\ reg' = [reg EXCEPT ![r] = Aborted(r)]
                           /\ loadBuf' = IF Double(r) THEN loadBuf ELSE Freed(reg[r].lip)
  BY DEF AbortLoadCmd
<1>2. UNCHANGED <<handle, val, dump, pool, cds, crit, up, call, cmd, fresh>>
  BY DEF AbortLoadCmd
<1>3. r \in Tables /\ Used(r) /\ Typed /\ Working /\ TableTypes(r)
  BY NamedTable, TableFields DEF Links
<1>4. Edits(r) /\ SameBuffers(r) /\ reg'[r].lip = NONE
  BY <1>1, <1>3, AbortEdit
<1>5. WorkingOf(r)
  BY <1>3, <1>4 DEF WorkingOf, Working, Single, SameBuffers
<1>6. loadBuf' \in LoadBufs
  BY <1>1, <1>3, MaybeFrees DEF TableTypes
<1>7. Typed'
  BY <1>2, <1>3, <1>4, <1>6 DEF Typed, Edits, LoadBufs
<1> QED BY <1>2, <1>3, <1>4, <1>5, <1>7, EditsContent DEF Proceeds

LEMMA ValidateCmdContent ==
  ASSUME Links, Told, NEW n \in Names, NEW active \in BOOLEAN, ValidateCmd(n, active)
  PROVE  Content
<1>1. PICK r \in Find(n), v \in {w \in Validations : val[w] = "FREE"} :
        /\ val' = [val EXCEPT ![v] = IF n \in Validating THEN "PENDING" ELSE "PERFORMED"]
        /\ reg' = IF n \notin Validating THEN reg
                  ELSE IF active THEN [reg EXCEPT ![r].valActive = v]
                  ELSE [reg EXCEPT ![r].valInactive = v]
  BY DEF ValidateCmd
<1>2. UNCHANGED <<handle, loadBuf, dump, pool, cds, crit, up, call, cmd, fresh>>
  BY DEF ValidateCmd
<1>3. r \in Tables /\ Used(r) /\ Typed /\ Working
  BY NamedTable DEF Links
<1>4. Edits(r) /\ SameBuffers(r) /\ SameLoad(r)
  <2>1. CASE reg' = reg
    BY <1>3, <2>1 DEF Edits, SameUse, SameBuffers, SameLoad, Typed
  <2>2. CASE reg' = [reg EXCEPT ![r].valActive = v]
    BY <1>3, <2>2, AskEdit
  <2>3. CASE reg' = [reg EXCEPT ![r].valInactive = v]
    BY <1>3, <2>3, AskEdit
  <2> QED BY <1>1, <2>1, <2>2, <2>3
<1>5. WorkingOf(r)
  BY <1>3, <1>4 DEF WorkingOf, Working, Single, SameBuffers, SameLoad, Inactive
<1>6. Typed'
  BY <1>1, <1>2, <1>3, <1>4 DEF Typed, Edits
<1> QED BY <1>2, <1>3, <1>4, <1>5, <1>6, EditsContent DEF Proceeds

DumpBegins(n, r, i, b) ==
    /\ r \in Tables /\ Used(r) /\ Owned(r) /\ ~Double(r) /\ n \in DumpOnly /\ reg[r].kind = n
    /\ dump[i].st = "FREE" /\ reg[r].dumpIndex = NONE
    /\ Serving(r) /\ (Orderly => reg[r].lip = NONE)
    /\ reg[r].lip = NONE => ~loadBuf[b].taken
    /\ dump' = [dump EXCEPT ![i] = [st |-> "PENDING", r |-> r, b |-> b]]
    /\ loadBuf' = [loadBuf EXCEPT ![b].taken = TRUE, ![b].img = Active(r)]
    /\ reg' = [reg EXCEPT ![r].lip = b, ![r].dumpIndex = i]

LEMMA DumpCmdEffect ==
  ASSUME Links, NEW n \in Names, DumpCmd(n)
  PROVE  \E r \in Tables, i \in Loads, b \in Loads : DumpBegins(n, r, i, b)
<1>1. PICK r \in Find(n), i \in {j \in Loads : dump[j].st = "FREE"} :
        /\ reg[r].dumpIndex = NONE
        /\ Serving(r) /\ (Orderly => reg[r].lip = NONE)
        /\ WorkAvailable(r, FALSE)
        /\ LET b == WorkAt(r, FALSE).k
           IN  /\ dump' = [dump EXCEPT ![i] = [st |-> "PENDING", r |-> r, b |-> b]]
               /\ loadBuf' = [loadBuf EXCEPT ![b].taken = TRUE, ![b].img = Active(r)]
               /\ reg' = [reg EXCEPT ![r].lip = b, ![r].dumpIndex = i]
  BY DEF DumpCmd
<1>2. /\ r \in Tables /\ Used(r) /\ Owned(r) /\ n \in DumpOnly /\ ~Double(r)
      /\ reg[r].kind = n
  BY NamedTable, TablesAssumption DEF DumpCmd, Double
<1> DEFINE b == WorkAt(r, FALSE).k
<1>3. b \in Loads /\ (reg[r].lip = NONE => ~loadBuf[b].taken)
  <2>1. ~FirstLoad(r, FALSE)
    BY DEF FirstLoad
  <2>2. CASE reg[r].lip = NONE
    <3>1. NewLoad(r, FALSE) /\ FreeLoads # {}
      BY <1>1, <1>2, <2>1, <2>2 DEF NewLoad, WorkAvailable
    <3>2. Min(FreeLoads) \in FreeLoads
      BY <3>1, LeastNumber, Ranges DEF FreeLoads
    <3>3. b = Min(FreeLoads)
      BY <1>2, <2>1, <3>1 DEF WorkAt
    <3> QED BY <3>2, <3>3 DEF FreeLoads
  <2>3. CASE reg[r].lip # NONE
    <3>1. ~NewLoad(r, FALSE)
      BY <2>3 DEF NewLoad
    <3>2. b = reg[r].lip
      BY <1>2, <2>1, <3>1 DEF WorkAt
    <3> QED BY <1>2, <2>3, <3>2 DEF Links, Working, Single
  <2> QED BY <2>2, <2>3
<1> HIDE DEF b
<1>4. /\ dump' = [dump EXCEPT ![i] = [st |-> "PENDING", r |-> r, b |-> b]]
      /\ loadBuf' = [loadBuf EXCEPT ![b].taken = TRUE, ![b].img = Active(r)]
      /\ reg' = [reg EXCEPT ![r].lip = b, ![r].dumpIndex = i]
  BY <1>1 DEF b
<1>5. /\ dump[i].st = "FREE" /\ reg[r].dumpIndex = NONE
      /\ Serving(r) /\ (Orderly => reg[r].lip = NONE)
  BY <1>1
<1>6. DumpBegins(n, r, i, b)
  BY <1>2, <1>3, <1>4, <1>5 DEF DumpBegins
<1> QED BY <1>2, <1>3, <1>6

LEMMA DumpCmdContent ==
  ASSUME Links, Told, NEW n \in Names, DumpCmd(n)
  PROVE  Content
<1>0. PICK r \in Tables, i \in Loads, b \in Loads : DumpBegins(n, r, i, b)
  BY DumpCmdEffect
<1>1. /\ Used(r) /\ ~Double(r)
      /\ dump' = [dump EXCEPT ![i] = [st |-> "PENDING", r |-> r, b |-> b]]
      /\ loadBuf' = [loadBuf EXCEPT ![b].taken = TRUE, ![b].img = Active(r)]
      /\ reg' = [reg EXCEPT ![r].lip = b, ![r].dumpIndex = i]
  BY <1>0 DEF DumpBegins
<1>2. UNCHANGED <<handle, val, pool, cds, crit, up, call, cmd, fresh>>
  BY DEF DumpCmd
<1>9. Typed /\ Working
  BY DEF Links
<1>10. TableTypes(r)
  BY <1>9, TableFields
<1>3. Typed /\ Working /\ Active(r) \in Images
  BY <1>9, <1>10 DEF TableTypes
<1>4. Edits(r) /\ SameBuffers(r) /\ reg'[r].lip = b
  <2>1. i \in Loads \union {NONE} /\ b \in {NONE, 0, 1} \union Loads
    OBVIOUS
  <2>2. reg' = [reg EXCEPT ![r].lip = b, ![r].dumpIndex = i]
    BY <1>1
  <2> QED BY <1>9, <2>1, <2>2, DumpEdit
<1>5. WorkingOf(r)
  BY <1>1, <1>3, <1>4 DEF WorkingOf, Working, Single, SameBuffers
<1>6. dump' \in [Loads -> DumpRecord]
  BY <1>1, <1>3 DEF Typed, DumpRecord
<1>7. loadBuf' \in LoadBufs
  BY <1>1, <1>3, TakenEffect
<1>8. Typed'
  BY <1>2, <1>3, <1>4, <1>6, <1>7 DEF Typed, Edits, LoadBufs
<1> QED BY <1>1, <1>2, <1>4, <1>5, <1>8, EditsContent DEF Proceeds

LEMMA DumpToBufferContent ==
  ASSUME Links, Told, NEW a \in Apps, NEW h \in Handles, DumpToBuffer(a, h)
  PROVE  Content
<1> DEFINE r == handle[h].reg
           i == reg[r].dumpIndex
           b == dump[i].b
<1>1. r \in Tables /\ Used(r)
  BY ZenonT(30), UserTable DEF DumpToBuffer, Calls
<1>2. /\ i # NONE
      /\ dump' = [dump EXCEPT ![i].st = "PERFORMED"]
      /\ loadBuf' = [loadBuf EXCEPT ![b].img = Active(r)]
      /\ reg' = [reg EXCEPT ![r].dumpIndex = NONE]
      /\ UNCHANGED <<handle, val, pool, cds, crit, up, call, cmd, fresh>>
  BY ZenonT(30) DEF DumpToBuffer
<1>3. Typed /\ Working /\ TableTypes(r)
  BY <1>1, TableFields DEF Links
<1>4. i \in Loads /\ Active(r) \in Images
  BY ZenonT(30), <1>2, <1>3 DEF TableTypes
<1> HIDE DEF r, i, b
<1>5. Edits(r) /\ SameBuffers(r) /\ reg'[r].lip = reg[r].lip
  <2> DEFINE l == reg[r].lip
  <2>1. l \in {NONE, 0, 1} \union Loads /\ l = reg[r].lip
    BY <1>3 DEF TableTypes
  <2> HIDE DEF l
  <2>2. r \in Tables /\ NONE \in Loads \union {NONE} /\ Typed
        /\ reg' = [reg EXCEPT ![r].dumpIndex = NONE]
    BY <1>1, <1>2, <1>3
  <2>3. /\ Edits(r) /\ SameBuffers(r) /\ reg'[r].lip = l
    BY <2>1, <2>2, DumpEdit
  <2> QED BY <2>1, <2>3
<1>6. WorkingOf(r)
  BY <1>1, <1>3, <1>5 DEF WorkingOf, Working, Single, SameBuffers, Inactive
<1>7. dump' \in [Loads -> DumpRecord]
  <2>1. dump \in [Loads -> DumpRecord]
    BY <1>3 DEF Typed
  <2>2. [dump[i] EXCEPT !.st = "PERFORMED"] \in DumpRecord
    BY <1>4, <2>1 DEF DumpRecord
  <2> QED BY <1>2, <1>4, <2>1, <2>2
<1>8. loadBuf' \in LoadBufs
  BY <1>2, <1>3, <1>4 DEF Typed, LoadBufs
<1>9. Typed'
  BY <1>2, <1>3, <1>5, <1>7, <1>8 DEF Typed, Edits, LoadBufs
<1> QED BY <1>1, <1>2, <1>5, <1>6, <1>9, EditsContent DEF Proceeds

(* A request for a validation is done: the inactive buffer's flag may be    *)
(* set.                                                                     *)
ValidatesInactive(r) ==
    /\ reg[r].valInactive # NONE
    /\ val' = [val EXCEPT ![reg[r].valInactive] = "PERFORMED"]
    /\ Edits(r) /\ SameLoad(r) /\ SameImages(r) /\ reg'[r].valInactive = NONE
    /\ reg'[r].valActive = reg[r].valActive /\ reg'[r].dumpIndex = reg[r].dumpIndex
    /\ loadBuf' = loadBuf \/ (~Double(r) /\ reg[r].lip # NONE /\ Writes(reg[r].lip))
ValidatesActive(r) ==
    /\ reg[r].valInactive = NONE /\ reg[r].valActive # NONE
    /\ val' = [val EXCEPT ![reg[r].valActive] = "PERFORMED"]
    /\ Edits(r) /\ SameLoad(r) /\ SameImages(r) /\ reg'[r].valInactive = NONE
    /\ reg'[r].valActive = NONE /\ reg'[r].dumpIndex = reg[r].dumpIndex
    /\ loadBuf' = loadBuf

LEMMA FlagWrites ==
  ASSUME Typed, NEW b \in Loads, loadBuf' = [loadBuf EXCEPT ![b].validated = TRUE]
  PROVE  Writes(b)
  BY DEF Typed, Writes, LoadBufs

LEMMA ValidateEffect ==
  ASSUME Links, NEW a \in Apps, NEW h \in Handles, Validate(a, h)
  PROVE  LET r == handle[h].reg
         IN  r \in Tables /\ Used(r) /\ (ValidatesInactive(r) \/ ValidatesActive(r))
<1> DEFINE r == handle[h].reg
           at == IF Double(r) THEN [shared |-> FALSE, tbl |-> r, k |-> Inactive(r)]
                 ELSE [shared |-> TRUE, tbl |-> r, k |-> reg[r].lip]
           img == IF at.shared THEN loadBuf[at.k].img ELSE reg[r].buf[at.k].img
           passes == at.k # NONE /\ Accepted(img)
           k == at.k
<1>1. r \in Tables /\ Used(r) /\ Typed /\ Working
  BY ZenonT(30), UserTable DEF Validate, Calls, Links
<1>2. TableTypes(r)
  BY <1>1, TableFields
<1>3. \/ /\ reg[r].valInactive # NONE
         /\ val' = [val EXCEPT ![reg[r].valInactive] = "PERFORMED"]
         /\ reg' = [reg EXCEPT ![r].valInactive = NONE,
                     ![r].buf = IF passes /\ ~at.shared
                       THEN [@ EXCEPT ![k].validated = TRUE] ELSE @]
         /\ loadBuf' = IF passes /\ at.shared
              THEN [loadBuf EXCEPT ![k].validated = TRUE] ELSE loadBuf
      \/ /\ reg[r].valInactive = NONE /\ reg[r].valActive # NONE
         /\ val' = [val EXCEPT ![reg[r].valActive] = "PERFORMED"]
         /\ reg' = [reg EXCEPT ![r].valActive = NONE] /\ loadBuf' = loadBuf
  BY ZenonT(30) DEF Validate
<1>4. at.shared => ~Double(r) /\ k = reg[r].lip
  OBVIOUS
<1>5. passes => k # NONE
  OBVIOUS
<1> HIDE DEF r, passes, k
<1> DEFINE shared == at.shared
<1>6. shared => ~Double(r) /\ k = reg[r].lip
  BY <1>4
<1>7. \/ /\ reg[r].valInactive # NONE
         /\ val' = [val EXCEPT ![reg[r].valInactive] = "PERFORMED"]
         /\ reg' = [reg EXCEPT ![r].valInactive = NONE,
                     ![r].buf = IF passes /\ ~shared
                       THEN [@ EXCEPT ![k].validated = TRUE] ELSE @]
         /\ loadBuf' = IF passes /\ shared
              THEN [loadBuf EXCEPT ![k].validated = TRUE] ELSE loadBuf
      \/ /\ reg[r].valInactive = NONE /\ reg[r].valActive # NONE
         /\ val' = [val EXCEPT ![reg[r].valActive] = "PERFORMED"]
         /\ reg' = [reg EXCEPT ![r].valActive = NONE] /\ loadBuf' = loadBuf
  BY <1>3
<1> HIDE DEF at, shared
<1>8. CASE /\ reg[r].valInactive # NONE
           /\ val' = [val EXCEPT ![reg[r].valInactive] = "PERFORMED"]
           /\ reg' = [reg EXCEPT ![r].valInactive = NONE,
                       ![r].buf = IF passes /\ ~shared
                         THEN [@ EXCEPT ![k].validated = TRUE] ELSE @]
           /\ loadBuf' = IF passes /\ shared
                THEN [loadBuf EXCEPT ![k].validated = TRUE] ELSE loadBuf
  <2> DEFINE f == IF passes /\ ~shared THEN [reg[r].buf EXCEPT ![k].validated = TRUE]
                  ELSE reg[r].buf
  <2>1. reg' = [reg EXCEPT ![r].valInactive = NONE, ![r].buf = f]
    <3> DEFINE F == [reg EXCEPT ![r].valInactive = NONE]
    <3>1. F[r].buf = reg[r].buf
      BY <1>1, <1>2 DEF Typed, TableTypes, RegRecord
    <3>2. reg' = [F EXCEPT ![r].buf = IF passes /\ ~shared
                         THEN [F[r].buf EXCEPT ![k].validated = TRUE] ELSE F[r].buf]
      BY <1>8
    <3> HIDE DEF F
    <3>3. reg' = [F EXCEPT ![r].buf = f]
      BY <3>1, <3>2
    <3> QED BY <3>3 DEF F
  <2>2. f \in {reg[r].buf, [reg[r].buf EXCEPT ![k].validated = TRUE]}
    OBVIOUS
  <2> HIDE DEF f
  <2>3. Edits(r) /\ SameLoad(r) /\ SameImages(r) /\ reg'[r].valInactive = NONE
        /\ reg'[r].valActive = reg[r].valActive /\ reg'[r].dumpIndex = reg[r].dumpIndex
    BY <1>1, <2>1, <2>2, ValidateEdit
  <2>4. loadBuf' = loadBuf \/ (~Double(r) /\ reg[r].lip # NONE /\ Writes(reg[r].lip))
    <3>1. CASE passes /\ shared
      <4>1. ~Double(r) /\ k = reg[r].lip /\ k # NONE
        BY <1>5, <1>6, <3>1
      <4>2. k \in Loads
        BY <1>1, <4>1 DEF Working, Single
      <4>3. loadBuf' = [loadBuf EXCEPT ![k].validated = TRUE]
        BY <1>8, <3>1
      <4>4. Writes(k)
        BY <1>1, <4>2, <4>3, FlagWrites
      <4>5. Writes(reg[r].lip)
        BY <4>1, <4>4 DEF Writes
      <4>6. ~Double(r) /\ reg[r].lip # NONE
        BY <4>1
      <4> QED BY <4>5, <4>6
    <3> QED BY <1>8, <3>1
  <2>5. ValidatesInactive(r)
    BY <1>8, <2>3, <2>4 DEF ValidatesInactive
  <2> QED BY <1>1, <2>5 DEF r
<1>9. CASE /\ reg[r].valInactive = NONE /\ reg[r].valActive # NONE
           /\ val' = [val EXCEPT ![reg[r].valActive] = "PERFORMED"]
           /\ reg' = [reg EXCEPT ![r].valActive = NONE] /\ loadBuf' = loadBuf
  <2>1. /\ Edits(r) /\ SameLoad(r) /\ SameBuffers(r)
        /\ reg'[r].valActive = NONE /\ reg'[r].valInactive = reg[r].valInactive
        /\ reg'[r].dumpIndex = reg[r].dumpIndex
    BY <1>1, <1>9, AskEdit
  <2>2. ValidatesActive(r)
    BY <1>9, <2>1 DEF ValidatesActive, SameBuffers, SameImages
  <2> QED BY <1>1, <2>2 DEF r
<1> QED BY <1>7, <1>8, <1>9

LEMMA ValidateContent ==
  ASSUME Links, Told, NEW a \in Apps, NEW h \in Handles, Validate(a, h)
  PROVE  Content
<1> DEFINE r == handle[h].reg
<1>1. r \in Tables /\ Used(r) /\ (ValidatesInactive(r) \/ ValidatesActive(r))
  BY ValidateEffect
<1>2. UNCHANGED <<handle, dump, pool, cds, crit, up, call, cmd, fresh>>
  BY ZenonT(30) DEF Validate
<1>3. Typed /\ Working
  BY DEF Links
<1> HIDE DEF r
<1>4. Edits(r) /\ SameLoad(r) /\ reg'[r].active = reg[r].active
  BY <1>1 DEF ValidatesInactive, ValidatesActive, SameImages
<1>5. val' \in [Validations -> {"FREE", "PENDING", "PERFORMED"}] /\ loadBuf' \in LoadBufs
  BY <1>1, <1>3 DEF ValidatesInactive, ValidatesActive, Typed, Writes, LoadBufs
<1>6. WorkingOf(r)
  BY <1>1, <1>3, <1>4 DEF WorkingOf, Working, Single, SameLoad, Inactive
<1>7. Typed'
  BY <1>2, <1>3, <1>4, <1>5 DEF Typed, Edits, LoadBufs
<1> QED BY <1>1, <1>2, <1>4, <1>6, <1>7, EditsContent DEF Proceeds

(* One validation is reported, and the dumps that were carried out end. *)
Ended == {dump[i].r : i \in Written}
LEMMA HousekeepingEffect ==
  ASSUME Typed, Housekeeping
  PROVE  /\ reg' \in [Tables -> RegRecord]
         /\ \A r \in Tables :
              /\ SameUse(r) /\ SameRequests(r) /\ SameBuffers(r)
              /\ reg'[r].pend = reg[r].pend /\ reg'[r].loaded = reg[r].loaded
              /\ reg'[r].lip = IF r \in Ended THEN NONE ELSE reg[r].lip
         /\ dump' \in [Loads -> DumpRecord]
         /\ \A i \in Loads : dump'[i] = IF i \in Written THEN FreeDump ELSE dump[i]
         /\ val' \in [Validations -> {"FREE", "PENDING", "PERFORMED"}]
         /\ \A v \in Validations : val'[v] = "PENDING" => val[v] = "PENDING"
         /\ loadBuf' \in LoadBufs
         /\ \A b \in Loads : IF b \in {reg[r].lip : r \in Ended}
                               THEN ~loadBuf'[b].taken ELSE loadBuf'[b] = loadBuf[b]
<1> DEFINE l == {reg[r].lip : r \in Ended}
<1>1. /\ val' = IF Reported = {} THEN val ELSE [val EXCEPT ![Min(Reported)] = "FREE"]
      /\ dump' = [i \in Loads |-> IF i \in Written THEN FreeDump ELSE dump[i]]
      /\ reg' = [r \in Tables |-> IF r \in Ended THEN [reg[r] EXCEPT !.lip = NONE] ELSE reg[r]]
      /\ loadBuf' = [b \in Loads |-> IF b \in l THEN Freed(b)[b] ELSE loadBuf[b]]
  BY DEF Housekeeping, Ended
<1>2. ASSUME NEW r \in Tables
      PROVE  /\ reg'[r] \in RegRecord /\ SameUse(r) /\ SameRequests(r) /\ SameBuffers(r)
             /\ reg'[r].pend = reg[r].pend /\ reg'[r].loaded = reg[r].loaded
             /\ reg'[r].lip = IF r \in Ended THEN NONE ELSE reg[r].lip
  <2>1. reg[r] \in RegRecord
    BY DEF Typed
  <2>2. CASE r \in Ended
    <3> DEFINE x == [reg[r] EXCEPT !.lip = NONE]
    <3>1. reg'[r] = x
      BY <1>1, <2>2
    <3>2. x \in RegRecord
      BY <2>1 DEF RegRecord
    <3>3. /\ x.owner = reg[r].owner /\ x.name = reg[r].name /\ x.kind = reg[r].kind
          /\ x.head = reg[r].head /\ x.valActive = reg[r].valActive
          /\ x.valInactive = reg[r].valInactive /\ x.dumpIndex = reg[r].dumpIndex
          /\ x.active = reg[r].active /\ x.pend = reg[r].pend /\ x.loaded = reg[r].loaded
          /\ x.lip = NONE /\ x.buf = reg[r].buf
      BY <2>1 DEF RegRecord
    <3> HIDE DEF x
    <3> QED BY <2>2, <3>1, <3>2, <3>3 DEF SameUse, SameRequests, SameBuffers
  <2>3. CASE r \notin Ended
    BY <1>1, <2>1, <2>3 DEF SameUse, SameRequests, SameBuffers
  <2> QED BY <2>2, <2>3
<1>3. reg' \in [Tables -> RegRecord]
  BY <1>1, <1>2
<1>4. /\ dump' \in [Loads -> DumpRecord]
      /\ \A i \in Loads : dump'[i] = IF i \in Written THEN FreeDump ELSE dump[i]
  BY <1>1, EmptyTyped DEF Typed
<1>5. /\ val' \in [Validations -> {"FREE", "PENDING", "PERFORMED"}]
      /\ \A v \in Validations : val'[v] = "PENDING" => val[v] = "PENDING"
  BY <1>1 DEF Typed
<1> HIDE DEF l
<1>6. ASSUME NEW b \in Loads
      PROVE  /\ loadBuf'[b] \in [taken : BOOLEAN, img : Images, validated : BOOLEAN]
             /\ IF b \in l THEN ~loadBuf'[b].taken ELSE loadBuf'[b] = loadBuf[b]
  <2>1. loadBuf[b] \in [taken : BOOLEAN, img : Images, validated : BOOLEAN]
    BY DEF Typed
  <2>2. CASE b \in l
    <3>1. loadBuf'[b] = Freed(b)[b]
      BY <1>1, <2>2
    <3>2. Freed(b) \in [Loads -> [taken : BOOLEAN, img : Images, validated : BOOLEAN]]
      BY FreedTyped
    <3>3. ~Freed(b)[b].taken
      BY <2>1 DEF Freed, Typed
    <3> QED BY <2>2, <3>1, <3>2, <3>3
  <2>3. CASE b \notin l
    BY <1>1, <2>1, <2>3
  <2> QED BY <2>2, <2>3
<1>7. loadBuf' \in LoadBufs
  BY <1>1, <1>6 DEF LoadBufs
<1> QED BY <1>2, <1>3, <1>4, <1>5, <1>6, <1>7 DEF l

LEMMA HousekeepingContent ==
  ASSUME Links, Told, Housekeeping
  PROVE  Content
<1>1. UNCHANGED <<handle, pool, cds, crit, up, call, cmd, fresh>>
  BY DEF Housekeeping
<1>2. Typed /\ Working
  BY DEF Links
<1>3. /\ reg' \in [Tables -> RegRecord]
      /\ \A r \in Tables : /\ SameUse(r) /\ SameBuffers(r) /\ reg'[r].loaded = reg[r].loaded
                           /\ reg'[r].lip \in {NONE, reg[r].lip}
      /\ dump' \in [Loads -> DumpRecord] /\ loadBuf' \in LoadBufs
      /\ val' \in [Validations -> {"FREE", "PENDING", "PERFORMED"}]
  BY <1>2, HousekeepingEffect
<1>4. Typed'
  BY <1>1, <1>2, <1>3 DEF Typed, LoadBufs
<1>5. \A r \in Tables : WorkingOf(r)
  BY <1>2, <1>3 DEF WorkingOf, Working, Single, SameBuffers, Inactive
<1>6. \A h \in Handles : SameLinks(h) /\ ToldOf(h) /\ (~handle[h].used => handle'[h] = handle[h])
  BY <1>1 DEF Told, SameLinks, ToldOf
<1> QED BY <1>1, <1>3, <1>4, <1>5, <1>6 DEF Content, Links, Recorded, Proceeds

-----------------------------------------------------------------------------
(* The operations that begin or end the use of a table. *)

LEMMA DisownEffect ==
  ASSUME Typed, NEW r \in Tables, NEW a \in Apps, reg' = Disowned(r, a)
  PROVE  /\ reg' \in [Tables -> RegRecord]
         /\ \A q \in Tables :
              /\ SameRequests(q) /\ SameBuffers(q) /\ SameLoad(q)
              /\ reg'[q].kind = reg[q].kind /\ reg'[q].head = reg[q].head
              /\ IF q = r /\ reg[q].owner = a
                   THEN reg'[q].owner = NotOwned /\ reg'[q].name = NoName
                   ELSE reg'[q].owner = reg[q].owner /\ reg'[q].name = reg[q].name
<1>1. reg' \in [Tables -> RegRecord]
  BY DisownedTyped
<1>2. CASE reg[r].owner = a
  <2> DEFINE x == [reg[r] EXCEPT !.owner = NotOwned, !.name = NoName]
  <2>1. reg' = [reg EXCEPT ![r] = x]
    BY <1>2 DEF Disowned, Typed
  <2>2. reg[r] \in RegRecord
    BY DEF Typed
  <2>3. /\ x.owner = NotOwned /\ x.name = NoName /\ x.kind = reg[r].kind
        /\ x.head = reg[r].head /\ x.valActive = reg[r].valActive
        /\ x.valInactive = reg[r].valInactive /\ x.dumpIndex = reg[r].dumpIndex
        /\ x.active = reg[r].active /\ x.pend = reg[r].pend /\ x.loaded = reg[r].loaded
        /\ x.lip = reg[r].lip /\ x.buf = reg[r].buf
    BY <2>2 DEF RegRecord
  <2> HIDE DEF x
  <2>4. reg'[r] = x /\ \A q \in Tables : q # r => reg'[q] = reg[q]
    BY <2>1 DEF Typed
  <2> QED BY <1>1, <1>2, <2>3, <2>4 DEF SameRequests, SameBuffers, SameLoad
<1>3. CASE reg[r].owner # a
  BY <1>1, <1>3 DEF Disowned, SameRequests, SameBuffers, SameLoad
<1> QED BY <1>2, <1>3

(* The table loses its owner, if it is the application that calls. *)
LEMMA DisownLinks ==
  ASSUME Links, Typed', NEW a \in Apps, NEW h \in Handles, handle[h].used, handle[h].app = a,
         reg' = Disowned(handle[h].reg, a), handle' = handle, up' = up,
         call'[a].pc \in {"remove", "unlink"}, call'[a].h = h,
         call'[a].pc = "unlink" <=> a \notin up,
         \A b \in Apps : b # a => call'[b] = call[b]
  PROVE  Links'
<1> DEFINE r == handle[h].reg
<1>1. r \in Tables /\ Typed
  BY DEF Links, Typed, HandleRecord
<1>0. reg' = Disowned(r, a)
  OBVIOUS
<1> HIDE DEF r
<1>2. \A q \in Tables :
        /\ SameLoad(q) /\ reg'[q].kind = reg[q].kind /\ reg'[q].head = reg[q].head
        /\ reg'[q].active = reg[q].active
        /\ IF q = r /\ reg[q].owner = a
             THEN reg'[q].owner = NotOwned /\ reg'[q].name = NoName
             ELSE reg'[q].owner = reg[q].owner /\ reg'[q].name = reg[q].name
  BY <1>0, <1>1, DisownEffect DEF SameBuffers
<1>3. \A q \in Tables : UsersOf(q)' = UsersOf(q) /\ (Owned(q)' => Owned(q) /\ reg'[q].owner = reg[q].owner)
  BY <1>2 DEF UsersOf, Owned
<1>4. AccessListExact'
  <2>1. ASSUME NEW q \in Tables
        PROVE  /\ Grounded(q)'
               /\ reg'[q].head = NONE <=> UsersOf(q)' = {}
               /\ reg'[q].head # NONE => reg'[q].head \in UsersOf(q)' /\ handle'[reg'[q].head].prev = NONE
               /\ \A k \in UsersOf(q)' :
                    /\ Leads(q, k)'
                    /\ handle'[k].next # NONE =>
                         handle'[k].next \in UsersOf(q)' /\ handle'[handle'[k].next].prev = k
               /\ Owned(q)' => \E k \in UsersOf(q)' : handle'[k].app = reg'[q].owner
    BY <1>2, <1>3, <2>1 DEF Links, AccessListExact, Grounded, Leads
  <2> QED BY <2>1 DEF AccessListExact
<1>5. Recorded'
  BY <1>2, Ranges DEF Links, Recorded, Used, Owned, SameLoad
<1>6. Described' /\ Working'
  BY <1>2 DEF Links, Described, Working, Single, Double, Used, Inactive, SameLoad
<1>7. Calling'
  <2>1. ASSUME NEW b \in Apps
        PROVE  /\ call'[b].pc \in {"clean", "unlink"} <=> b \notin up'
               /\ Busy(b)' => /\ call'[b].h \in Handles
                              /\ handle'[call'[b].h].used /\ handle'[call'[b].h].app = b
               /\ call'[b].pc \in {"remove", "unlink"} => reg'[handle'[call'[b].h].reg].owner # b
    <3>1. CASE b = a
      <4>1. reg'[r].owner # a
        BY <1>1, <1>2, Ranges
      <4> QED BY <3>1, <4>1 DEF Busy, r
    <3>2. CASE b # a
      <4>1. call'[b] = call[b]
        BY <3>2
      <4>2. /\ call[b].pc \in {"clean", "unlink"} <=> b \notin up
            /\ Busy(b) => /\ call[b].h \in Handles
                          /\ handle[call[b].h].used /\ handle[call[b].h].app = b
            /\ call[b].pc \in {"remove", "unlink"} => reg[handle[call[b].h].reg].owner # b
        BY DEF Links, Calling
      <4>3. \A k \in Handles : handle[k].reg \in Tables
        BY <1>1 DEF Typed, HandleRecord
      <4>4. \A q \in Tables : reg'[q].owner \in {NotOwned, reg[q].owner}
        BY <1>2
      <4>5. call'[b].pc \in {"clean", "unlink"} <=> b \notin up'
        BY <4>1, <4>2
      <4>6. Busy(b)' => /\ call'[b].h \in Handles
                        /\ handle'[call'[b].h].used /\ handle'[call'[b].h].app = b
        BY <4>1, <4>2 DEF Busy
      <4>7. call'[b].pc \in {"remove", "unlink"} => reg'[handle'[call'[b].h].reg].owner # b
        <5> HAVE call'[b].pc \in {"remove", "unlink"}
        <5>1. call[b].h \in Handles /\ reg[handle[call[b].h].reg].owner # b
          BY <4>1, <4>2 DEF Busy
        <5>2. NotOwned # b
          BY Ranges
        <5> QED BY <4>1, <4>3, <4>4, <5>1, <5>2
      <4> QED BY <4>5, <4>6, <4>7
    <3> QED BY <3>1, <3>2
  <2> QED BY <2>1 DEF Calling
<1> QED BY <1>4, <1>5, <1>6, <1>7 DEF Links

LEMMA UnregisterBeginLinks ==
  ASSUME Links, Told, NEW a \in Apps, NEW h \in Handles, UnregisterBegin(a, h)
  PROVE  Links' /\ Told'
<1>1. Typed'
  BY UseTyped DEF Links
<1>2. /\ call' = [call EXCEPT ![a] = [IdleCall EXCEPT !.pc = "remove", !.h = h]]
      /\ reg' = Disowned(handle[h].reg, a) /\ a \in up
      /\ handle' = handle /\ up' = up /\ fresh' = fresh /\ handle[h].used /\ handle[h].app = a
  BY DEF UnregisterBegin, Calls
<1>3. /\ call'[a].pc = "remove" /\ call'[a].h = h
      /\ \A b \in Apps : b # a => call'[b] = call[b]
  BY <1>2 DEF Links, Typed, IdleCall
<1>4. Links'
  BY <1>1, <1>2, <1>3, DisownLinks
<1> QED BY <1>2, <1>4 DEF Told

LEMMA CleanUpDisownLinks ==
  ASSUME Links, Told, NEW a \in Apps, CleanUpDisown(a)
  PROVE  Links' /\ Told'
<1> DEFINE h == Min(HandlesOf(a))
<1>1. Typed'
  BY UseTyped DEF Links
<1>2. h \in HandlesOf(a)
  BY LeastNumber, Ranges DEF CleanUpDisown, HandlesOf
<1>3. h \in Handles /\ handle[h].used /\ handle[h].app = a
  BY <1>2 DEF HandlesOf
<1>4. /\ call' = [call EXCEPT ![a].pc = "unlink", ![a].h = h]
      /\ reg' = Disowned(handle[h].reg, a) /\ call[a].pc = "clean"
      /\ handle' = handle /\ up' = up /\ fresh' = fresh
  BY DEF CleanUpDisown
<1> HIDE DEF h
<1>5. /\ call'[a].pc = "unlink" /\ call'[a].h = h
      /\ \A b \in Apps : b # a => call'[b] = call[b]
  BY <1>4 DEF Links, Typed, CallRecord
<1>6. a \notin up
  BY <1>4 DEF Links, Calling
<1>7. Links'
  BY <1>1, <1>3, <1>4, <1>5, <1>6, DisownLinks
<1> QED BY <1>4, <1>7 DEF Told

(* The application stops, and starts again when it is cleaned up. *)
LEMMA UpLinks ==
  ASSUME Links, Told, Typed', NEW a \in Apps, UNCHANGED <<reg, handle, fresh>>,
         \/ up' = up \ {a} /\ call'[a].pc = "clean"
         \/ up' = up \union {a} /\ call'[a].pc = "idle",
         \A b \in Apps : b # a => call'[b] = call[b]
  PROVE  Links' /\ Told'
<1>1. AccessListExact' /\ Recorded' /\ Described' /\ Working' /\ Told'
  BY DEF Links, AccessListExact, Recorded, Described, Working, Told, Grounded, UsersOf, Leads, Owned,
     Used, Single, Double, Inactive
<1>2. Calling'
  BY DEF Links, Calling, Busy
<1> QED BY <1>1, <1>2 DEF Links

LEMMA CleanUpBeginLinks ==
  ASSUME Links, Told, NEW a \in Apps, CleanUpBegin(a)
  PROVE  Links' /\ Told'
<1>1. Typed'
  BY UseTyped DEF Links
<1>2. /\ call' = [call EXCEPT ![a].pc = "clean"] /\ up' = up \ {a}
      /\ UNCHANGED <<reg, handle, fresh>>
  BY DEF CleanUpBegin
<1>3. call'[a].pc = "clean" /\ \A b \in Apps : b # a => call'[b] = call[b]
  BY <1>2 DEF Links, Typed, CallRecord
<1> QED BY <1>1, <1>2, <1>3, UpLinks

LEMMA StartAppLinks ==
  ASSUME Links, Told, NEW a \in Apps, StartApp(a)
  PROVE  Links' /\ Told'
<1>1. Typed'
  BY UseTyped DEF Links
<1>2. /\ call' = [call EXCEPT ![a] = IdleCall] /\ up' = up \union {a}
      /\ UNCHANGED <<reg, handle, fresh>>
  BY DEF StartApp
<1>3. call'[a].pc = "idle" /\ \A b \in Apps : b # a => call'[b] = call[b]
  BY <1>2 DEF Links, Typed, IdleCall
<1> QED BY <1>1, <1>2, <1>3, UpLinks

(* Nothing is registered. *)
LEMMA BlankLinks ==
  ASSUME Typed', reg' = Start.reg, handle' = Start.handle, call' = Start.call,
         fresh' = Start.fresh, up' = Apps
  PROVE  Links' /\ Told'
<1>1. /\ \A r \in Tables : reg'[r] = EmptyRecord
      /\ \A h \in Handles : handle'[h] = EmptyHandle
      /\ \A a \in Apps : call'[a] = IdleCall
  BY DEF Start
<1>2. \A r \in Tables : UsersOf(r)' = {}
  BY <1>1 DEF UsersOf, EmptyHandle
<1>3. AccessListExact'
  BY <1>1, <1>2 DEF AccessListExact, Grounded, EmptyRecord, Owned
<1>4. Recorded'
  <2>1. \A r \in Tables : /\ reg'[r].head = NONE /\ reg'[r].kind = NoName /\ ~reg'[r].loaded
                          /\ reg'[r].name = NoName /\ reg'[r].owner = NotOwned
    BY <1>1 DEF EmptyRecord
  <2> QED BY <2>1 DEF Recorded, Owned, Used
<1>5. Described' /\ Told'
  <2>1. \A h \in Handles : ~handle'[h].used
    BY <1>1 DEF EmptyHandle
  <2>2. Described'
    BY <1>1 DEF Described
  <2> QED BY <2>1, <2>2 DEF Told
<1>6. Calling'
  BY <1>1 DEF Calling, IdleCall, Busy
<1>7. Working'
  BY <1>1, TablesAssumption DEF Working, EmptyRecord, Single, Double, Used
<1> QED BY <1>3, <1>4, <1>5, <1>6, <1>7 DEF Links

LEMMA ProcessorResetLinks ==
  ASSUME Links, ProcessorReset
  PROVE  Links' /\ Told'
<1>1. Typed'
  BY StartTyped, EmptyTyped, TablesAssumption DEF ProcessorReset, Typed, Links
<1> QED BY <1>1, BlankLinks DEF ProcessorReset

(* A record without a user is cleared. *)
LEMMA RegisterNoRoomLinks ==
  ASSUME Links, Told, NEW a \in Apps, NEW n \in Names, RegisterNoRoom(a, n)
  PROVE  Links' /\ Told'
<1> DEFINE r == Min(FreeRecords)
<1>1. r \in FreeRecords
  BY LeastNumber, Ranges DEF RegisterNoRoom, FreeRecords
<1>2. r \in Tables /\ ~Owned(r) /\ reg[r].head = NONE
  BY <1>1 DEF FreeRecords
<1>3. Typed'
  BY NoRoomTyped DEF Links
<1>4. /\ reg' = [reg EXCEPT ![r] = EmptyRecord]
      /\ UNCHANGED <<handle, up, call, fresh>>
  BY DEF RegisterNoRoom
<1> HIDE DEF r
<1>5. reg'[r] = EmptyRecord /\ \A q \in Tables : q # r => reg'[q] = reg[q]
  BY <1>2, <1>4 DEF Links, Typed
<1>6. \A q \in Tables : /\ UsersOf(q)' = UsersOf(q) /\ reg'[q].head = reg[q].head
                        /\ reg'[q].owner = reg[q].owner
  BY <1>2, <1>4, <1>5 DEF UsersOf, EmptyRecord, Owned
<1>7. AccessListExact'
  BY <1>4, <1>6 DEF Links, AccessListExact, Grounded, Leads, Owned
<1>8. Recorded'
  BY <1>5 DEF Links, Recorded, EmptyRecord, Used, Owned
<1>9. Described' /\ Told'
  BY <1>4 DEF Links, Described, Told
<1>10. Calling'
  <2>1. \A h \in Handles : handle[h].reg \in Tables
    BY DEF Links, Typed, HandleRecord
  <2> QED BY <1>4, <1>6, <2>1 DEF Links, Calling, Busy
<1>11. Working'
  BY <1>5, TablesAssumption DEF Links, Working, EmptyRecord, Single, Double, Used, Inactive
<1> QED BY <1>3, <1>7, <1>8, <1>9, <1>10, <1>11 DEF Links

(* The first user of a table. *)
LEMMA RegisterEffect ==
  ASSUME Typed, NEW a \in Apps, NEW n \in Names, Register(a, n)
  PROVE  \E r \in Tables, h \in Handles :
           /\ r = Min(FreeRecords) /\ h = Min(FreeHandles)
           /\ ~Owned(r) /\ reg[r].head = NONE /\ ~handle[h].used
           /\ reg'[r].owner = a /\ reg'[r].name = n /\ reg'[r].kind = n /\ reg'[r].head = h
           /\ reg'[r].lip = NONE /\ reg'[r].active = 0
           /\ \A q \in Tables : q # r => reg'[q] = reg[q]
           /\ handle'[h].used /\ handle'[h].app = a /\ handle'[h].reg = r
           /\ handle'[h].prev = NONE /\ handle'[h].next = NONE
           /\ fresh'[h] \/ handle'[h].updated
           /\ \A k \in Handles : k # h => handle'[k] = handle[k] /\ fresh'[k] = fresh[k]
<1> DEFINE r == Min(FreeRecords)
           h == Min(FreeHandles)
           b == Recoverable(n)
           x == NewRecord(n, a, h)
           new == [EmptyHandle EXCEPT !.used = TRUE, !.app = a, !.reg = r, !.updated = b]
<1>1. r \in FreeRecords /\ h \in FreeHandles
  BY LeastNumber, Ranges DEF Register, FreeRecords, FreeHandles
<1>2. r \in Tables /\ ~Owned(r) /\ reg[r].head = NONE /\ h \in Handles /\ ~handle[h].used
  BY <1>1 DEF FreeRecords, FreeHandles
<1>3. b \in BOOLEAN
  BY DEF Recoverable
<1>4. /\ reg' = [reg EXCEPT ![r] = x] /\ handle' = [handle EXCEPT ![h] = new]
      /\ fresh' = [fresh EXCEPT ![h] = ~b]
  BY DEF Register
<1> HIDE DEF r, h, b
<1>5. /\ x.owner = a /\ x.name = n /\ x.kind = n /\ x.head = h /\ x.lip = NONE /\ x.active = 0
  BY DEF NewRecord, EmptyRecord
<1>6. /\ new.used /\ new.app = a /\ new.reg = r /\ new.prev = NONE /\ new.next = NONE
      /\ new.updated = b
  BY DEF EmptyHandle
<1> HIDE DEF x, new
<1>7. /\ reg'[r] = x /\ \A q \in Tables : q # r => reg'[q] = reg[q]
      /\ handle'[h] = new /\ \A k \in Handles : k # h => handle'[k] = handle[k]
  BY <1>2, <1>4 DEF Typed
<1>8. fresh'[h] = ~b /\ \A k \in Handles : k # h => fresh'[k] = fresh[k]
  BY <1>2, <1>4 DEF Typed
<1>9. fresh'[h] \/ handle'[h].updated
  BY <1>3, <1>6, <1>7, <1>8
<1>10. r = Min(FreeRecords) /\ h = Min(FreeHandles)
  BY DEF r, h
<1> QED BY <1>2, <1>5, <1>6, <1>7, <1>8, <1>9, <1>10

LEMMA RegisterLinks ==
  ASSUME Links, Told, NEW a \in Apps, NEW n \in Names, Register(a, n)
  PROVE  Links' /\ Told'
<1>0. Typed
  BY DEF Links
<1>1. PICK r \in Tables, h \in Handles :
        /\ ~Owned(r) /\ reg[r].head = NONE /\ ~handle[h].used
        /\ reg'[r].owner = a /\ reg'[r].name = n /\ reg'[r].kind = n /\ reg'[r].head = h
        /\ reg'[r].lip = NONE /\ reg'[r].active = 0
        /\ \A q \in Tables : q # r => reg'[q] = reg[q]
        /\ handle'[h].used /\ handle'[h].app = a /\ handle'[h].reg = r
        /\ handle'[h].prev = NONE /\ handle'[h].next = NONE
        /\ fresh'[h] \/ handle'[h].updated
        /\ \A k \in Handles : k # h => handle'[k] = handle[k] /\ fresh'[k] = fresh[k]
  BY <1>0, RegisterEffect
<1>2. Typed'
  BY <1>0, RegisterTyped
<1>3. UNCHANGED <<up, call>> /\ a \in up /\ OwnerOf[n] = a
  BY DEF Register
<1>4. UsersOf(r) = {}
  BY <1>1 DEF Links, AccessListExact
<1>5. UsersOf(r)' = {h}
  BY <1>1, <1>4 DEF UsersOf
<1>6. \A q \in Tables : q # r => UsersOf(q)' = UsersOf(q)
  BY <1>1 DEF UsersOf
<1>7. AccessListExact'
  <2>1. ASSUME NEW q \in Tables
        PROVE  /\ Grounded(q)'
               /\ reg'[q].head = NONE <=> UsersOf(q)' = {}
               /\ reg'[q].head # NONE => reg'[q].head \in UsersOf(q)' /\ handle'[reg'[q].head].prev = NONE
               /\ \A k \in UsersOf(q)' :
                    /\ Leads(q, k)'
                    /\ handle'[k].next # NONE =>
                         handle'[k].next \in UsersOf(q)' /\ handle'[handle'[k].next].prev = k
               /\ Owned(q)' => \E k \in UsersOf(q)' : handle'[k].app = reg'[q].owner
    <3>1. CASE q = r
      <4>1. Grounded(r)'
        BY <1>1, <1>5, Ranges DEF Grounded
      <4> QED BY <1>1, <1>5, <3>1, <4>1, Ranges DEF Leads
    <3>2. CASE q # r
      <4>1. reg'[q] = reg[q] /\ UsersOf(q)' = UsersOf(q)
        BY <1>1, <1>6, <3>2
      <4>2. \A k \in UsersOf(q) : handle'[k] = handle[k]
        BY <1>1 DEF UsersOf
      <4>3. /\ Grounded(q)
            /\ reg[q].head = NONE <=> UsersOf(q) = {}
            /\ reg[q].head # NONE => reg[q].head \in UsersOf(q) /\ handle[reg[q].head].prev = NONE
            /\ \A k \in UsersOf(q) :
                 /\ Leads(q, k)
                 /\ handle[k].next # NONE =>
                      handle[k].next \in UsersOf(q) /\ handle[handle[k].next].prev = k
            /\ Owned(q) => \E k \in UsersOf(q) : handle[k].app = reg[q].owner
        BY DEF Links, AccessListExact
      <4>4. Grounded(q)'
        BY <4>1, <4>2, <4>3 DEF Grounded
      <4> QED BY <4>1, <4>2, <4>3, <4>4 DEF Leads, Owned
    <3> QED BY <3>1, <3>2
  <2> QED BY <2>1 DEF AccessListExact
<1>8. Recorded'
  BY <1>1, <1>3, TablesAssumption, Ranges DEF Links, Recorded, Used, Owned
<1>9. Described' /\ Told'
  BY <1>1 DEF Links, Described, Told
<1>10. Calling'
  <2>1. \A k \in Handles : handle[k].used => handle[k].reg \in Tables \ {r} /\ k # h
    BY <1>1, <1>4 DEF Links, Typed, HandleRecord, UsersOf
  <2> QED BY <1>1, <1>3, <2>1 DEF Links, Calling, Busy
<1>11. Working'
  BY <1>1 DEF Links, Working, Single, Double, Used, Inactive
<1> QED BY <1>2, <1>7, <1>8, <1>9, <1>10, <1>11 DEF Links

(* A new user at the head of the list. *)
LEMMA ShareEffect ==
  ASSUME Links, NEW a \in Apps, NEW n \in Names, Share(a, n)
  PROVE  \E r \in Tables, h \in Handles :
           /\ Owned(r) /\ Used(r) /\ ~handle[h].used
           /\ reg' = [reg EXCEPT ![r].head = h]
           /\ handle'[h].used /\ handle'[h].app = a /\ handle'[h].reg = r
           /\ handle'[h].prev = NONE /\ handle'[h].next = reg[r].head /\ ~handle'[h].lock
           /\ fresh'[h] \/ handle'[h].updated
           /\ \A k \in Handles : k # h =>
                /\ SameHold(k) /\ fresh'[k] = fresh[k]
                /\ handle'[k].used = handle[k].used /\ handle'[k].app = handle[k].app
                /\ handle'[k].reg = handle[k].reg /\ handle'[k].next = handle[k].next
                /\ handle'[k].updated = handle[k].updated
                /\ handle'[k].prev = IF k = reg[r].head THEN h ELSE handle[k].prev
                /\ ~handle[k].used => handle'[k] = handle[k]
<1> DEFINE h == Min(FreeHandles)
<1>1. h \in FreeHandles
  BY LeastNumber, Ranges DEF Share, FreeHandles
<1>2. h \in Handles /\ ~handle[h].used
  BY <1>1 DEF FreeHandles
<1>3. PICK r \in Find(n) :
        LET new == [EmptyHandle EXCEPT !.used = TRUE, !.app = a, !.reg = r,
                       !.updated = reg[r].loaded, !.next = reg[r].head]
        IN  /\ handle' = [handle EXCEPT ![reg[r].head].prev = h, ![h] = new]
            /\ reg' = [reg EXCEPT ![r].head = h]
            /\ fresh' = [fresh EXCEPT ![h] = ~reg[r].loaded]
  BY DEF Share
<1>4. r \in Tables /\ Owned(r) /\ Used(r) /\ Typed
  BY NamedTable DEF Links
<1>5. reg[r].head \in UsersOf(r) /\ reg[r].loaded \in BOOLEAN
  BY <1>4, TableFields DEF Links, AccessListExact, Used, TableTypes
<1> DEFINE p == reg[r].head
           b == reg[r].loaded
           new == [EmptyHandle EXCEPT !.used = TRUE, !.app = a, !.reg = r,
                       !.updated = b, !.next = p]
           x == [handle[p] EXCEPT !.prev = h]
<1>6. p \in Handles /\ handle[p].used /\ p # h /\ b \in BOOLEAN
  BY <1>2, <1>5 DEF UsersOf
<1>7. /\ handle' = [handle EXCEPT ![p].prev = h, ![h] = new]
      /\ reg' = [reg EXCEPT ![r].head = h]
      /\ fresh' = [fresh EXCEPT ![h] = ~b]
  BY <1>3
<1> HIDE DEF h, p, b
<1>8. /\ new.used /\ new.app = a /\ new.reg = r /\ new.prev = NONE /\ new.next = p
      /\ new.updated = b /\ ~new.lock
  BY DEF EmptyHandle
<1>9. /\ x.used = handle[p].used /\ x.app = handle[p].app /\ x.reg = handle[p].reg
      /\ x.prev = h /\ x.next = handle[p].next /\ x.updated = handle[p].updated
      /\ x.lock = handle[p].lock /\ x.buf = handle[p].buf /\ x.sure = handle[p].sure
  <2>1. handle[p] \in HandleRecord
    BY <1>4, <1>6 DEF Typed
  <2> QED BY <2>1 DEF HandleRecord
<1>10. handle' = [[handle EXCEPT ![p] = x] EXCEPT ![h] = new]
  BY <1>4, <1>6, <1>7 DEF Typed
<1> HIDE DEF new, x
<1>11. /\ handle'[h] = new /\ handle'[p] = x
       /\ \A k \in Handles : k # h /\ k # p => handle'[k] = handle[k]
  BY <1>2, <1>4, <1>6, <1>10 DEF Typed
<1>12. fresh'[h] = ~b /\ \A k \in Handles : k # h => fresh'[k] = fresh[k]
  BY <1>2, <1>4, <1>7 DEF Typed
<1>13. fresh'[h] \/ handle'[h].updated
  BY <1>6, <1>8, <1>11, <1>12
<1>14. /\ handle'[h].used /\ handle'[h].app = a /\ handle'[h].reg = r
       /\ handle'[h].prev = NONE /\ handle'[h].next = reg[r].head /\ ~handle'[h].lock
  BY <1>8, <1>11 DEF p
<1>15. ASSUME NEW k \in Handles, k # h
       PROVE  /\ SameHold(k) /\ fresh'[k] = fresh[k]
              /\ handle'[k].used = handle[k].used /\ handle'[k].app = handle[k].app
              /\ handle'[k].reg = handle[k].reg /\ handle'[k].next = handle[k].next
              /\ handle'[k].updated = handle[k].updated
              /\ handle'[k].prev = IF k = reg[r].head THEN h ELSE handle[k].prev
              /\ ~handle[k].used => handle'[k] = handle[k]
  <2>1. CASE k = p
    BY <1>6, <1>9, <1>11, <1>12, <1>15, <2>1 DEF p, SameHold
  <2>2. CASE k # p
    BY <1>11, <1>12, <1>15, <2>2 DEF p, SameHold
  <2> QED BY <2>1, <2>2
<1> QED BY <1>2, <1>4, <1>7, <1>13, <1>14, <1>15

LEMMA HeadEdit ==
  ASSUME Typed, NEW r \in Tables, NEW h \in Handles \union {NONE},
         reg' = [reg EXCEPT ![r].head = h]
  PROVE  /\ reg' \in [Tables -> RegRecord] /\ reg'[r].head = h
         /\ \A q \in Tables :
              /\ SameRequests(q) /\ SameBuffers(q) /\ SameLoad(q)
              /\ reg'[q].owner = reg[q].owner /\ reg'[q].name = reg[q].name
              /\ reg'[q].kind = reg[q].kind
              /\ q # r => reg'[q].head = reg[q].head
<1> DEFINE x == [reg[r] EXCEPT !.head = h]
<1>1. reg \in [Tables -> RegRecord] /\ reg[r] \in RegRecord
  BY DEF Typed
<1>2. reg' = [reg EXCEPT ![r] = x] /\ x \in RegRecord
  BY <1>1, RegFields
<1>3. /\ x.owner = reg[r].owner /\ x.name = reg[r].name /\ x.kind = reg[r].kind
      /\ x.head = h /\ x.valActive = reg[r].valActive
      /\ x.valInactive = reg[r].valInactive /\ x.dumpIndex = reg[r].dumpIndex
      /\ x.active = reg[r].active /\ x.pend = reg[r].pend /\ x.loaded = reg[r].loaded
      /\ x.lip = reg[r].lip /\ x.buf = reg[r].buf
  BY <1>1 DEF RegRecord
<1> HIDE DEF x
<1>4. reg' \in [Tables -> RegRecord] /\ reg'[r] = x
      /\ \A q \in Tables : q # r => reg'[q] = reg[q]
  BY <1>2 DEF Typed
<1> QED BY <1>3, <1>4 DEF SameRequests, SameBuffers, SameLoad

(* What a step that touches table r's list keeps of another table's.        *)
LEMMA OtherList ==
  ASSUME Links, NEW q \in Tables, UsersOf(q)' = UsersOf(q),
         reg'[q].head = reg[q].head, reg'[q].owner \in {NotOwned, reg[q].owner},
         \A k \in UsersOf(q) : /\ handle'[k].prev = handle[k].prev
                               /\ handle'[k].next = handle[k].next
                               /\ handle'[k].app = handle[k].app
  PROVE  /\ Grounded(q)'
         /\ reg'[q].head = NONE <=> UsersOf(q)' = {}
         /\ reg'[q].head # NONE => reg'[q].head \in UsersOf(q)' /\ handle'[reg'[q].head].prev = NONE
         /\ \A k \in UsersOf(q)' :
              /\ Leads(q, k)'
              /\ handle'[k].next # NONE =>
                   handle'[k].next \in UsersOf(q)' /\ handle'[handle'[k].next].prev = k
         /\ Owned(q)' => \E k \in UsersOf(q)' : handle'[k].app = reg'[q].owner
<1>1. /\ Grounded(q)
      /\ reg[q].head = NONE <=> UsersOf(q) = {}
      /\ reg[q].head # NONE => reg[q].head \in UsersOf(q) /\ handle[reg[q].head].prev = NONE
      /\ \A k \in UsersOf(q) :
           /\ Leads(q, k)
           /\ handle[k].next # NONE =>
                handle[k].next \in UsersOf(q) /\ handle[handle[k].next].prev = k
      /\ Owned(q) => \E k \in UsersOf(q) : handle[k].app = reg[q].owner
  BY DEF Links, AccessListExact
<1>2. Grounded(q)'
  BY <1>1 DEF Grounded
<1>3. \A k \in UsersOf(q)' : Leads(q, k)'
  BY <1>1 DEF Leads
<1> QED BY <1>1, <1>2, <1>3 DEF Owned

LEMMA ShareLinks ==
  ASSUME Links, Told, NEW a \in Apps, NEW n \in Names, Share(a, n)
  PROVE  Links' /\ Told'
<1>1. PICK r \in Tables, h \in Handles :
        /\ Owned(r) /\ Used(r) /\ ~handle[h].used
        /\ reg' = [reg EXCEPT ![r].head = h]
        /\ handle'[h].used /\ handle'[h].app = a /\ handle'[h].reg = r
        /\ handle'[h].prev = NONE /\ handle'[h].next = reg[r].head
        /\ fresh'[h] \/ handle'[h].updated
        /\ \A k \in Handles : k # h =>
             /\ fresh'[k] = fresh[k]
             /\ handle'[k].used = handle[k].used /\ handle'[k].app = handle[k].app
             /\ handle'[k].reg = handle[k].reg /\ handle'[k].next = handle[k].next
             /\ handle'[k].updated = handle[k].updated
             /\ handle'[k].prev = IF k = reg[r].head THEN h ELSE handle[k].prev
             /\ ~handle[k].used => handle'[k] = handle[k]
  BY ShareEffect
<1>2. Typed /\ Typed'
  BY ShareTyped DEF Links
<1>3. UNCHANGED <<up, call>> /\ a \in up
  BY DEF Share
<1>4. /\ reg'[r].head = h
      /\ \A q \in Tables : /\ SameLoad(q) /\ reg'[q].active = reg[q].active
                           /\ reg'[q].owner = reg[q].owner /\ reg'[q].name = reg[q].name
                           /\ reg'[q].kind = reg[q].kind
                           /\ q # r => reg'[q].head = reg[q].head
  <2>1. h \in Handles \union {NONE}
    OBVIOUS
  <2>2. reg' = [reg EXCEPT ![r].head = h]
    BY <1>1
  <2>3. /\ reg'[r].head = h
        /\ \A q \in Tables : /\ SameLoad(q) /\ SameBuffers(q)
                             /\ reg'[q].owner = reg[q].owner /\ reg'[q].name = reg[q].name
                             /\ reg'[q].kind = reg[q].kind
                             /\ q # r => reg'[q].head = reg[q].head
    BY <1>2, <2>1, <2>2, HeadEdit
  <2> QED BY <2>3 DEF SameBuffers
<1> DEFINE p == reg[r].head
<1>5. /\ p # NONE /\ p \in UsersOf(r) /\ handle[p].prev = NONE /\ Grounded(r)
      /\ \A k \in UsersOf(r) :
           /\ Leads(r, k)
           /\ handle[k].next # NONE =>
                handle[k].next \in UsersOf(r) /\ handle[handle[k].next].prev = k
      /\ Owned(r) => \E k \in UsersOf(r) : handle[k].app = reg[r].owner
  BY <1>1 DEF Links, AccessListExact, Used
<1>6. UsersOf(r)' = UsersOf(r) \union {h} /\ h \notin UsersOf(r) /\ UsersOf(r) \subseteq Handles
  BY <1>1 DEF UsersOf
<1>7. \A q \in Tables : q # r => UsersOf(q)' = UsersOf(q) /\ h \notin UsersOf(q) /\ p \notin UsersOf(q)
  BY <1>1, <1>5 DEF UsersOf
<1>8. AccessListExact'
  <2>1. ASSUME NEW q \in Tables
        PROVE  /\ Grounded(q)'
               /\ reg'[q].head = NONE <=> UsersOf(q)' = {}
               /\ reg'[q].head # NONE => reg'[q].head \in UsersOf(q)' /\ handle'[reg'[q].head].prev = NONE
               /\ \A k \in UsersOf(q)' :
                    /\ Leads(q, k)'
                    /\ handle'[k].next # NONE =>
                         handle'[k].next \in UsersOf(q)' /\ handle'[handle'[k].next].prev = k
               /\ Owned(q)' => \E k \in UsersOf(q)' : handle'[k].app = reg'[q].owner
    <3>1. CASE q = r
      <4>0. NONE \notin Handles
        BY Ranges
      <4>1. Grounded(r)'
        <5>1. ASSUME NEW S \in SUBSET UsersOf(r)', S # {}
              PROVE  \E k \in S : handle'[k].prev \notin S
          <6>1. CASE h \in S
            BY <1>1, <1>6, <4>0, <5>1, <6>1
          <6>2. CASE h \notin S
            <7>1. S \in SUBSET UsersOf(r)
              BY <1>6, <6>2
            <7>2. PICK k \in S : handle[k].prev \notin S
              BY <1>5, <5>1, <7>1 DEF Grounded
            <7> QED BY <1>1, <1>6, <6>2, <7>1, <7>2
          <6> QED BY <6>1, <6>2
        <5> QED BY <5>1 DEF Grounded
      <4>2. reg'[r].head # NONE /\ reg'[r].head \in UsersOf(r)' /\ handle'[reg'[r].head].prev = NONE
        BY <1>1, <1>4, <1>6, <4>0
      <4>3. ASSUME NEW k \in UsersOf(r)'
            PROVE  /\ Leads(r, k)'
                   /\ handle'[k].next # NONE =>
                        handle'[k].next \in UsersOf(r)' /\ handle'[handle'[k].next].prev = k
        <5>1. CASE k = h
          BY <1>1, <1>4, <1>5, <1>6, <5>1 DEF Leads
        <5>2. CASE k = p
          <6>1. k # h /\ k \in UsersOf(r) /\ k \in Handles
            BY <1>5, <1>6, <5>2
          <6>2. handle'[k].prev = h /\ handle'[h].next = k /\ h \in UsersOf(r)'
            BY <1>1, <1>6, <5>2, <6>1
          <6>3. Leads(r, k)'
            BY <6>1, <6>2, <4>0 DEF Leads
          <6>4. handle[k].next # NONE => handle[k].next \in UsersOf(r) /\ handle[handle[k].next].prev = k
            BY <1>5, <6>1
          <6>5. handle'[k].next = handle[k].next
            BY <1>1, <6>1
          <6>6. handle[k].next # NONE => handle[k].next \in Handles /\ handle[k].next # h
                                         /\ handle[k].next # p
            BY <1>5, <1>6, <5>2, <6>1, <6>4, Ranges
          <6> QED BY <1>1, <1>6, <6>3, <6>4, <6>5, <6>6
        <5>3. CASE k # h /\ k # p
          <6>1. k \in UsersOf(r) /\ k \in Handles
            BY <1>6, <5>3
          <6>2. handle'[k].prev = handle[k].prev /\ handle'[k].next = handle[k].next
            BY <1>1, <5>3, <6>1
          <6>3. Leads(r, k) /\ handle[k].prev # NONE
            BY <1>5, <5>3, <6>1 DEF Leads
          <6>4. handle[k].prev \in UsersOf(r) /\ handle[handle[k].prev].next = k
            BY <6>3 DEF Leads
          <6>5. Leads(r, k)'
            BY <1>1, <1>6, <6>2, <6>3, <6>4 DEF Leads
          <6>6. handle[k].next # NONE => handle[k].next \in UsersOf(r) /\ handle[handle[k].next].prev = k
            BY <1>5, <6>1
          <6>7. handle[k].next # NONE => handle[k].next \in Handles /\ handle[k].next # h
                                         /\ handle[k].next # p
            BY <1>5, <1>6, <6>1, <6>6, Ranges
          <6> QED BY <1>1, <1>6, <6>2, <6>5, <6>6, <6>7
        <5> QED BY <5>1, <5>2, <5>3
      <4>4. Owned(r)' => \E k \in UsersOf(r)' : handle'[k].app = reg'[r].owner
        BY <1>1, <1>4, <1>5, <1>6 DEF Owned
      <4>5. UsersOf(r)' # {}
        BY <1>6
      <4> QED BY <3>1, <4>1, <4>2, <4>3, <4>4, <4>5
    <3>2. CASE q # r
      BY <1>1, <1>4, <1>7, <3>2, OtherList DEF UsersOf
    <3> QED BY <3>1, <3>2
  <2> QED BY <2>1 DEF AccessListExact
<1>9. Recorded'
  <2>1. \A q \in Tables : Used(q)' <=> Used(q)
    BY <1>1, <1>4, Ranges DEF Used
  <2> QED BY <1>4, <2>1 DEF Links, Recorded, Owned, SameLoad
<1>10. Described' /\ Told'
  BY <1>1 DEF Links, Described, Told
<1>11. Calling'
  <2>1. \A k \in Handles : handle[k].used => handle[k].reg \in Tables /\ k # h
    BY <1>1, <1>2 DEF Typed, HandleRecord
  <2> QED BY <1>1, <1>3, <1>4, <2>1 DEF Links, Calling, Busy
<1>12. Working'
  <2>1. \A q \in Tables : Used(q)' <=> Used(q)
    BY <1>1, <1>4, Ranges DEF Used
  <2> QED BY <1>4, <2>1 DEF Links, Working, Single, Double, Inactive, SameLoad
<1> QED BY <1>2, <1>8, <1>9, <1>10, <1>11, <1>12 DEF Links

(* A user is taken out of the list, and with the last one goes the table.   *)
Leaves(h) ==
    LET r == handle[h].reg
    IN  /\ handle'[h] = EmptyHandle
        /\ \A k \in Handles : k # h =>
             /\ SameHold(k) /\ fresh'[k] = fresh[k]
             /\ handle'[k].used = handle[k].used /\ handle'[k].app = handle[k].app
             /\ handle'[k].reg = handle[k].reg /\ handle'[k].updated = handle[k].updated
             /\ handle'[k].next = IF k = handle[h].prev THEN handle[h].next ELSE handle[k].next
             /\ handle'[k].prev = IF k = handle[h].next /\ k # handle[h].prev
                                    THEN handle[h].prev ELSE handle[k].prev
             /\ k \notin UsersOf(r) => handle'[k] = handle[k]
        /\ \A q \in Tables : q # r => reg'[q] = reg[q]

LEMMA LeavesEffect ==
  ASSUME Links, NEW h \in Handles, handle[h].used, RemoveAccessLink(h)
  PROVE  Leaves(h)
<1> DEFINE r == handle[h].reg
<1>1. /\ r \in Tables /\ Typed /\ h \in UsersOf(r)
      /\ handle[h].prev # NONE => handle[h].prev \in UsersOf(r)
      /\ handle[h].next # NONE => handle[h].next \in UsersOf(r)
      /\ handle[h].prev \in Handles \union {NONE} /\ handle[h].next \in Handles \union {NONE}
  <2>1. r \in Tables /\ Typed /\ h \in UsersOf(r)
    BY DEF Links, Typed, HandleRecord, UsersOf
  <2>2. /\ Leads(r, h)
        /\ handle[h].next # NONE => handle[h].next \in UsersOf(r)
    BY <2>1 DEF Links, AccessListExact
  <2> QED BY <2>1, <2>2 DEF Leads, Typed, HandleRecord
<1>2. handle' = Unlinked(h) /\ fresh' = [fresh EXCEPT ![h] = FALSE]
  BY DEF RemoveAccessLink
<1>3. \A q \in Tables : q # r => reg'[q] = reg[q]
  BY <1>1 DEF RemoveAccessLink, Typed
<1> HIDE DEF r
<1>4. ASSUME NEW k \in Handles, k # h
      PROVE  /\ SameHold(k) /\ fresh'[k] = fresh[k]
             /\ handle'[k].used = handle[k].used /\ handle'[k].app = handle[k].app
             /\ handle'[k].reg = handle[k].reg /\ handle'[k].updated = handle[k].updated
             /\ handle'[k].next = IF k = handle[h].prev THEN handle[h].next ELSE handle[k].next
             /\ handle'[k].prev = IF k = handle[h].next /\ k # handle[h].prev
                                    THEN handle[h].prev ELSE handle[k].prev
             /\ k \notin UsersOf(r) => handle'[k] = handle[k]
  <2>1. handle[k] \in HandleRecord /\ fresh'[k] = fresh[k]
    BY <1>1, <1>2, <1>4 DEF Typed
  <2>2. k \notin UsersOf(r) => k # handle[h].prev /\ k # handle[h].next
    BY <1>1, Ranges
  <2>3. CASE k = handle[h].prev
    <3> DEFINE p == handle[h].next
    <3>1. handle'[k] = [handle[k] EXCEPT !.next = p]
      BY <1>2, <1>4, <2>3 DEF Unlinked
    <3> HIDE DEF p
    <3>2. /\ handle'[k].used = handle[k].used /\ handle'[k].app = handle[k].app
          /\ handle'[k].reg = handle[k].reg /\ handle'[k].updated = handle[k].updated
          /\ handle'[k].next = p /\ handle'[k].prev = handle[k].prev
          /\ handle'[k].lock = handle[k].lock /\ handle'[k].buf = handle[k].buf
          /\ handle'[k].sure = handle[k].sure
      BY <2>1, <3>1 DEF HandleRecord
    <3> QED BY <2>1, <2>2, <2>3, <3>2 DEF SameHold, p
  <2>4. CASE k # handle[h].prev /\ k = handle[h].next
    <3> DEFINE p == handle[h].prev
    <3>1. handle'[k] = [handle[k] EXCEPT !.prev = p]
      BY <1>2, <1>4, <2>4 DEF Unlinked
    <3> HIDE DEF p
    <3>2. /\ handle'[k].used = handle[k].used /\ handle'[k].app = handle[k].app
          /\ handle'[k].reg = handle[k].reg /\ handle'[k].updated = handle[k].updated
          /\ handle'[k].prev = p /\ handle'[k].next = handle[k].next
          /\ handle'[k].lock = handle[k].lock /\ handle'[k].buf = handle[k].buf
          /\ handle'[k].sure = handle[k].sure
      BY <2>1, <3>1 DEF HandleRecord
    <3> QED BY <2>1, <2>2, <2>4, <3>2 DEF SameHold, p
  <2>5. CASE k # handle[h].prev /\ k # handle[h].next
    <3>1. handle'[k] = handle[k]
      BY <1>2, <1>4, <2>5 DEF Unlinked
    <3> QED BY <2>1, <2>5, <3>1 DEF SameHold
  <2> QED BY <2>3, <2>4, <2>5
<1>5. handle'[h] = EmptyHandle
  BY <1>2 DEF Unlinked
<1> QED BY <1>3, <1>4, <1>5 DEF Leaves, r

(* The table after it: its head is the first of those that stay, if any.    *)
LEMMA RecordAfter ==
  ASSUME Links, NEW h \in Handles, handle[h].used, RemoveAccessLink(h)
  PROVE  LET r == handle[h].reg
             stay == UsersOf(r) \ {h}
         IN  \/ /\ stay # {} /\ pool' = pool /\ loadBuf' = loadBuf
                /\ reg' = [reg EXCEPT ![r].head =
                             IF handle[h].prev = NONE THEN handle[h].next ELSE reg[r].head]
             \/ /\ stay = {} /\ pool' = pool + Returned(r)
                /\ reg' = [reg EXCEPT ![r] = [EmptyRecord EXCEPT
                             !.lip = IF ReleasesLoad(r) THEN NONE ELSE reg[r].lip]]
                /\ loadBuf' = IF ReleasesLoad(r) THEN Freed(reg[r].lip) ELSE loadBuf
<1> DEFINE r == handle[h].reg
           stay == UsersOf(r) \ {h}
           head == IF handle[h].prev = NONE THEN handle[h].next ELSE reg[r].head
<1>1. r \in Tables /\ h \in UsersOf(r)
  BY DEF Links, Typed, HandleRecord, UsersOf
<1>2. /\ Grounded(r) /\ reg[r].head \in UsersOf(r) /\ handle[reg[r].head].prev = NONE
      /\ reg[r].head # NONE
      /\ \A k \in UsersOf(r) :
           /\ Leads(r, k)
           /\ handle[k].next # NONE =>
                handle[k].next \in UsersOf(r) /\ handle[handle[k].next].prev = k
  BY <1>1 DEF Links, AccessListExact
<1>3. \/ /\ head # NONE /\ pool' = pool /\ loadBuf' = loadBuf
         /\ reg' = [reg EXCEPT ![r].head = head]
      \/ /\ head = NONE /\ pool' = pool + Returned(r)
         /\ reg' = [reg EXCEPT ![r] = [EmptyRecord EXCEPT
                      !.lip = IF ReleasesLoad(r) THEN NONE ELSE reg[r].lip]]
         /\ loadBuf' = IF ReleasesLoad(r) THEN Freed(reg[r].lip) ELSE loadBuf
  BY DEF RemoveAccessLink
<1>4. head # NONE => stay # {}
  <2>1. CASE handle[h].prev = NONE
    <3>1. reg[r].head = h
      BY <1>1, <1>2, <2>1 DEF Leads
    <3>2. handle[h].next # NONE => handle[h].next \in UsersOf(r) /\ handle[h].next # h
      BY <1>1, <1>2, <2>1, Ranges
    <3> QED BY <2>1, <3>2
  <2>2. CASE handle[h].prev # NONE
    BY <1>2, <2>2
  <2> QED BY <2>1, <2>2
<1>5. head = NONE => stay = {}
  <2> SUFFICES ASSUME head = NONE, stay # {} PROVE FALSE
    OBVIOUS
  <2>1. handle[h].prev = NONE /\ handle[h].next = NONE
    BY <1>2
  <2>2. reg[r].head = h
    BY <1>1, <1>2, <2>1 DEF Leads
  <2>3. PICK k \in stay : handle[k].prev \notin stay
    BY <1>2 DEF Grounded
  <2>4. Leads(r, k) /\ k # h
    BY <1>2, <2>3
  <2>5. handle[k].prev = h /\ handle[h].next = k
    BY <2>2, <2>3, <2>4 DEF Leads
  <2> QED BY <2>1, <2>3, <2>5, Ranges DEF UsersOf
<1> QED BY <1>3, <1>4, <1>5

(* The record after it, field by field. *)
LEMMA RecordLeft ==
  ASSUME Links, NEW h \in Handles, handle[h].used, RemoveAccessLink(h)
  PROVE  LET r == handle[h].reg
             stay == UsersOf(r) \ {h}
         IN  \/ /\ stay # {} /\ pool' = pool /\ loadBuf' = loadBuf
                /\ reg'[r].head = IF handle[h].prev = NONE THEN handle[h].next ELSE reg[r].head
                /\ SameRequests(r) /\ SameBuffers(r) /\ SameLoad(r)
                /\ reg'[r].owner = reg[r].owner /\ reg'[r].name = reg[r].name
                /\ reg'[r].kind = reg[r].kind
             \/ /\ stay = {} /\ pool' = pool + Returned(r)
                /\ reg'[r].head = NONE /\ reg'[r].owner = NotOwned /\ reg'[r].name = NoName
                /\ reg'[r].kind = NoName /\ reg'[r].active = 0
                /\ ~reg'[r].loaded /\ ~reg'[r].pend
                /\ reg'[r].valActive = NONE /\ reg'[r].valInactive = NONE
                /\ reg'[r].dumpIndex = NONE
                /\ loadBuf' = IF ReleasesLoad(r) THEN Freed(reg[r].lip) ELSE loadBuf
<1> DEFINE r == handle[h].reg
           stay == UsersOf(r) \ {h}
           head == IF handle[h].prev = NONE THEN handle[h].next ELSE reg[r].head
           l == IF ReleasesLoad(r) THEN NONE ELSE reg[r].lip
           x == [EmptyRecord EXCEPT !.lip = l]
<1>1. r \in Tables /\ Typed /\ head \in Handles \union {NONE}
  BY DEF Links, Typed, HandleRecord, RegRecord
<1>2. \/ /\ stay # {} /\ pool' = pool /\ loadBuf' = loadBuf
         /\ reg' = [reg EXCEPT ![r].head = head]
      \/ /\ stay = {} /\ pool' = pool + Returned(r)
         /\ reg' = [reg EXCEPT ![r] = x]
         /\ loadBuf' = IF ReleasesLoad(r) THEN Freed(reg[r].lip) ELSE loadBuf
  BY RecordAfter
<1> HIDE DEF r, stay, head, l
<1>3. /\ x.head = NONE /\ x.owner = NotOwned /\ x.name = NoName
      /\ x.kind = NoName /\ x.active = 0 /\ ~x.loaded /\ ~x.pend
      /\ x.valActive = NONE /\ x.valInactive = NONE /\ x.dumpIndex = NONE
  BY DEF EmptyRecord
<1> HIDE DEF x
<1>4. CASE reg' = [reg EXCEPT ![r].head = head] /\ stay # {} /\ pool' = pool /\ loadBuf' = loadBuf
  <2>1. /\ reg'[r].head = head /\ SameRequests(r) /\ SameBuffers(r) /\ SameLoad(r)
        /\ reg'[r].owner = reg[r].owner /\ reg'[r].name = reg[r].name
        /\ reg'[r].kind = reg[r].kind
    BY <1>1, <1>4, HeadEdit
  <2> QED BY <1>4, <2>1 DEF r, stay, head
<1>5. CASE /\ reg' = [reg EXCEPT ![r] = x] /\ stay = {} /\ pool' = pool + Returned(r)
           /\ loadBuf' = IF ReleasesLoad(r) THEN Freed(reg[r].lip) ELSE loadBuf
  <2>1. reg'[r] = x
    BY <1>1, <1>5 DEF Typed
  <2> QED BY <1>3, <1>5, <2>1 DEF r, stay
<1> QED BY <1>2, <1>4, <1>5

LEMMA RemoveList ==
  ASSUME Links, NEW h \in Handles, handle[h].used, RemoveAccessLink(h),
         reg[handle[h].reg].owner # handle[h].app
  PROVE  AccessListExact'
<1>0. PICK r, p, n, stay :
        r = handle[h].reg /\ p = handle[h].prev /\ n = handle[h].next /\ stay = UsersOf(r) \ {h}
  OBVIOUS
<1>1. /\ r \in Tables /\ h \in UsersOf(r) /\ UsersOf(r) \subseteq Handles /\ NONE \notin Handles
      /\ NONE \notin UsersOf(r)
  BY <1>0, Ranges DEF Links, Typed, HandleRecord, UsersOf
<1>2. /\ Grounded(r) /\ reg[r].head \in UsersOf(r) /\ handle[reg[r].head].prev = NONE
      /\ \A k \in UsersOf(r) :
           /\ Leads(r, k)
           /\ handle[k].next # NONE =>
                handle[k].next \in UsersOf(r) /\ handle[handle[k].next].prev = k
      /\ Owned(r) => \E k \in UsersOf(r) : handle[k].app = reg[r].owner
  BY <1>1 DEF Links, AccessListExact
<1>3. /\ handle'[h] = EmptyHandle
      /\ \A k \in Handles : k # h =>
           /\ handle'[k].used = handle[k].used /\ handle'[k].app = handle[k].app
           /\ handle'[k].reg = handle[k].reg
           /\ handle'[k].next = IF k = p THEN n ELSE handle[k].next
           /\ handle'[k].prev = IF k = n /\ k # p THEN p ELSE handle[k].prev
           /\ k \notin UsersOf(r) => handle'[k] = handle[k]
      /\ \A q \in Tables : q # r => reg'[q] = reg[q]
  BY <1>0, LeavesEffect DEF Leaves
<1>4. /\ stay # {} => /\ reg'[r].head = IF p = NONE THEN n ELSE reg[r].head
                      /\ reg'[r].owner = reg[r].owner
      /\ stay = {} => reg'[r].head = NONE /\ reg'[r].owner = NotOwned
  BY <1>0, RecordLeft
<1>5. UsersOf(r)' = stay /\ \A q \in Tables : q # r => UsersOf(q)' = UsersOf(q)
  BY <1>0, <1>3 DEF UsersOf, EmptyHandle
<1>6. reg[r].owner # handle[h].app
  BY <1>0
<1>7. stay = UsersOf(r) \ {h}
  BY <1>0
<1>8. \* two neighbours are not one
      /\ p # NONE => p \in stay /\ handle[p].next = h
      /\ n # NONE => n \in stay /\ handle[n].prev = h
      /\ p = NONE => reg[r].head = h
      /\ p # NONE => p # n
  <2>1. Leads(r, h) /\ (n # NONE => n \in UsersOf(r) /\ handle[n].prev = h)
    BY <1>0, <1>1, <1>2
  <2>2. p # NONE => p \in UsersOf(r) /\ handle[p].next = h
    BY <1>0, <2>1 DEF Leads
  <2>3. p # h
    <3>1. {h} \in SUBSET UsersOf(r) /\ {h} # {}
      BY <1>1
    <3>2. handle[h].prev \notin {h}
      BY <1>2, <3>1 DEF Grounded
    <3> QED BY <1>0, <3>2
  <2>4. n # h
    <3> SUFFICES ASSUME n = h PROVE FALSE
      OBVIOUS
    <3>1. handle[h].prev = h
      BY <1>1, <2>1
    <3> QED BY <1>0, <2>3, <3>1
  <2>5. p # NONE => p # n
    <3> SUFFICES ASSUME p # NONE, p = n PROVE FALSE
      OBVIOUS
    <3>1. handle[p].prev = h /\ handle[h].prev = p /\ {h, p} \subseteq UsersOf(r)
      BY <1>0, <1>1, <2>1, <2>2
    <3>2. PICK k \in {h, p} : handle[k].prev \notin {h, p}
      BY <1>2, <3>1 DEF Grounded
    <3> QED BY <3>1, <3>2
  <2> QED BY <1>0, <1>7, <2>1, <2>2, <2>3, <2>4, <2>5 DEF Leads
<1>9. Grounded(r)'
  <2>1. ASSUME NEW S \in SUBSET stay, S # {}
        PROVE  \E k \in S : handle'[k].prev \notin S
    <3>0. S \subseteq UsersOf(r) /\ h \notin S
      BY <1>7
    <3>1. \A k \in S : k \in Handles /\ k # h
      BY <1>1, <3>0
    <3>2. CASE p \in S
      <4>1. S \union {h} \in SUBSET UsersOf(r) /\ S \union {h} # {}
        BY <1>1, <3>0
      <4>2. PICK k \in S \union {h} : handle[k].prev \notin S \union {h}
        BY <1>2, <4>1 DEF Grounded
      <4>3. k # h
        BY <1>0, <3>2, <4>2
      <4>4. k \in S /\ k # n
        BY <1>1, <1>8, <3>0, <4>2, <4>3
      <4> QED BY <1>3, <3>1, <4>2, <4>4
    <3>3. CASE p \notin S
      <4>1. PICK k \in S : handle[k].prev \notin S
        BY <1>2, <2>1, <3>0 DEF Grounded
      <4> QED BY <1>3, <3>1, <3>3, <4>1
    <3> QED BY <3>2, <3>3
  <2> QED BY <1>5, <2>1 DEF Grounded
<1>10. ASSUME stay # {}
       PROVE  reg'[r].head \in stay /\ handle'[reg'[r].head].prev = NONE
  <2>1. CASE p = NONE
    <3>1. n # NONE
      <4> SUFFICES ASSUME n = NONE PROVE FALSE
        OBVIOUS
      <4>1. PICK k \in stay : handle[k].prev \notin stay
        BY <1>2, <1>7, <1>10 DEF Grounded
      <4>2. Leads(r, k) /\ k # h
        BY <1>2, <1>7, <4>1
      <4>3. handle[k].prev = h /\ handle[h].next = k
        BY <1>7, <1>8, <2>1, <4>1, <4>2 DEF Leads
      <4> QED BY <1>0, <1>1, <1>7, <4>1, <4>3
    <3>2. n \in stay /\ reg'[r].head = n /\ n \in Handles /\ n # h
      BY <1>1, <1>4, <1>7, <1>8, <1>10, <2>1, <3>1
    <3>3. handle'[n].prev = p
      BY <1>1, <1>3, <2>1, <3>2
    <3> QED BY <2>1, <3>2, <3>3
  <2>2. CASE p # NONE
    <3>1. reg'[r].head = reg[r].head /\ reg[r].head # h /\ reg[r].head # n
      BY <1>0, <1>1, <1>2, <1>4, <1>8, <1>10, <2>2
    <3> QED BY <1>1, <1>2, <1>3, <1>7, <3>1
  <2> QED BY <2>1, <2>2
<1>11. ASSUME NEW k \in stay
       PROVE  /\ Leads(r, k)'
              /\ handle'[k].next # NONE =>
                   handle'[k].next \in stay /\ handle'[handle'[k].next].prev = k
  <2>1. k \in UsersOf(r) /\ k \in Handles /\ k # h
    BY <1>1, <1>7
  <2>2. /\ Leads(r, k)
        /\ handle[k].next # NONE =>
             handle[k].next \in UsersOf(r) /\ handle[handle[k].next].prev = k
    BY <1>2, <2>1
  <2>3. \A j \in stay : j \in Handles /\ j # h
    BY <1>1, <1>7
  <2>4. Leads(r, k)'
    <3>1. CASE k = n
      <4>1. k # p /\ handle'[k].prev = p
        BY <1>1, <1>3, <1>8, <2>1, <3>1
      <4>2. CASE p = NONE
        BY <1>4, <2>1, <3>1, <4>1, <4>2 DEF Leads
      <4>3. CASE p # NONE
        <5>1. p \in stay /\ handle'[p].next = k
          BY <1>3, <1>8, <2>3, <3>1, <4>3
        <5> QED BY <1>5, <4>1, <4>3, <5>1 DEF Leads
      <4> QED BY <4>2, <4>3
    <3>2. CASE k # n
      <4>1. handle'[k].prev = handle[k].prev
        BY <1>3, <2>1, <3>2
      <4>2. CASE handle[k].prev = NONE
        <5>1. reg[r].head = k /\ p # NONE
          BY <1>8, <2>1, <2>2, <4>2 DEF Leads
        <5> QED BY <1>4, <4>1, <4>2, <5>1 DEF Leads
      <4>3. CASE handle[k].prev # NONE
        <5> DEFINE j == handle[k].prev
        <5>1. j \in UsersOf(r) /\ handle[j].next = k
          BY <2>2, <4>3 DEF Leads
        <5>2. j # h /\ j # p
          BY <1>0, <1>8, <2>1, <3>2, <4>3, <5>1
        <5>3. j \in stay /\ handle'[j].next = k
          BY <1>3, <1>7, <2>3, <5>1, <5>2
        <5> QED BY <1>5, <4>1, <4>3, <5>3 DEF Leads
      <4> QED BY <4>2, <4>3
    <3> QED BY <3>1, <3>2
  <2>5. ASSUME handle'[k].next # NONE
        PROVE  handle'[k].next \in stay /\ handle'[handle'[k].next].prev = k
    <3>1. CASE k = p
      <4>1. handle'[k].next = n /\ n # NONE
        BY <1>3, <2>1, <2>5, <3>1
      <4>2. n \in stay /\ n # p
        BY <1>1, <1>8, <2>1, <3>1, <4>1
      <4>3. handle'[n].prev = p
        BY <1>3, <2>3, <4>2
      <4> QED BY <3>1, <4>1, <4>2, <4>3
    <3>2. CASE k # p
      <4> DEFINE j == handle[k].next
      <4>1. handle'[k].next = j /\ j # NONE
        BY <1>3, <2>1, <2>5, <3>2
      <4>2. j \in UsersOf(r) /\ handle[j].prev = k
        BY <2>2, <4>1
      <4>3. j # h /\ j # n
        BY <1>0, <1>1, <1>8, <2>1, <3>2, <4>2
      <4>4. j \in stay /\ handle'[j].prev = k
        BY <1>3, <1>7, <2>3, <4>2, <4>3
      <4> QED BY <4>1, <4>4
    <3> QED BY <3>1, <3>2
  <2> QED BY <2>4, <2>5
<1>12. Owned(r)' => \E k \in stay : handle'[k].app = reg'[r].owner
  <2> HAVE Owned(r)'
  <2>1. stay # {} /\ reg'[r].owner = reg[r].owner /\ Owned(r)
    BY <1>4 DEF Owned
  <2>2. PICK k \in UsersOf(r) : handle[k].app = reg[r].owner
    BY <1>2, <2>1
  <2>3. k # h
    BY <1>6, <2>2
  <2> QED BY <1>1, <1>3, <1>7, <2>1, <2>2, <2>3
<1>13. ASSUME NEW q \in Tables
       PROVE  /\ Grounded(q)'
              /\ reg'[q].head = NONE <=> UsersOf(q)' = {}
              /\ reg'[q].head # NONE => reg'[q].head \in UsersOf(q)' /\ handle'[reg'[q].head].prev = NONE
              /\ \A k \in UsersOf(q)' :
                   /\ Leads(q, k)'
                   /\ handle'[k].next # NONE =>
                        handle'[k].next \in UsersOf(q)' /\ handle'[handle'[k].next].prev = k
              /\ Owned(q)' => \E k \in UsersOf(q)' : handle'[k].app = reg'[q].owner
  <2>1. CASE q = r
    <3>1. reg'[r].head = NONE <=> stay = {}
      BY <1>1, <1>4, <1>7, <1>10
    <3>2. reg'[r].head # NONE => reg'[r].head \in stay /\ handle'[reg'[r].head].prev = NONE
      BY <1>4, <1>10
    <3> QED BY <1>5, <1>9, <1>11, <1>12, <2>1, <3>1, <3>2
  <2>2. CASE q # r
    <3>1. reg'[q] = reg[q] /\ UsersOf(q)' = UsersOf(q)
      BY <1>3, <1>5, <2>2
    <3>2. \A k \in UsersOf(q) : handle'[k] = handle[k]
      BY <1>1, <1>3, <2>2 DEF UsersOf
    <3> QED BY <3>1, <3>2, OtherList
  <2> QED BY <2>1, <2>2
<1> QED BY <1>13 DEF AccessListExact

LEMMA RemoveLinks ==
  ASSUME Links, Told, Typed', NEW a \in Apps, NEW h \in Handles, handle[h].used, handle[h].app = a,
         RemoveAccessLink(h), reg[handle[h].reg].owner # a, up' = up,
         call'[a].pc \in {"idle", "clean"}, call'[a].pc = "clean" <=> a \notin up,
         \A b \in Apps : b # a => call'[b] = call[b]
  PROVE  Links' /\ Told'
<1>0. PICK r, stay : r = handle[h].reg /\ stay = UsersOf(r) \ {h}
  OBVIOUS
<1>1. /\ r \in Tables /\ \A k \in Handles : handle[k].reg \in Tables
      /\ handle'[h] = EmptyHandle
  BY <1>0, LeavesEffect DEF Links, Typed, HandleRecord, Leaves
<1>2. ASSUME NEW k \in Handles, k # h
      PROVE  /\ fresh'[k] = fresh[k]
             /\ handle'[k].used = handle[k].used /\ handle'[k].app = handle[k].app
             /\ handle'[k].reg = handle[k].reg /\ handle'[k].updated = handle[k].updated
             /\ k \notin UsersOf(r) => handle'[k] = handle[k]
  BY <1>0, <1>2, LeavesEffect DEF Leaves
<1>3. \A q \in Tables : q # r => reg'[q] = reg[q]
  BY <1>0, LeavesEffect DEF Leaves
<1>4. \/ /\ stay # {} /\ SameBuffers(r) /\ SameLoad(r)
         /\ reg'[r].owner = reg[r].owner /\ reg'[r].name = reg[r].name
         /\ reg'[r].kind = reg[r].kind
      \/ /\ stay = {}
         /\ reg'[r].head = NONE /\ reg'[r].owner = NotOwned /\ reg'[r].name = NoName
         /\ reg'[r].kind = NoName /\ ~reg'[r].loaded
  BY <1>0, RecordLeft
<1>5. AccessListExact'
  BY RemoveList
<1>6. UsersOf(r)' = stay
  BY <1>0, <1>1, <1>2 DEF UsersOf, EmptyHandle
<1>7. stay # {} => Used(r)' /\ Used(r)
  <2> HAVE stay # {}
  <2>1. UsersOf(r) # {} /\ UsersOf(r)' # {}
    BY <1>0, <1>6
  <2> QED BY <1>1, <1>5, <2>1 DEF Links, AccessListExact, Used
<1>8. Recorded'
  <2>1. ASSUME NEW q \in Tables
        PROVE  /\ Used(q)' <=> reg'[q].kind # NoName
               /\ ~Used(q)' => ~reg'[q].loaded
               /\ Owned(q)' <=> reg'[q].name # NoName
               /\ Owned(q)' => reg'[q].name = reg'[q].kind /\ OwnerOf[reg'[q].kind] = reg'[q].owner
    <3>1. CASE q # r
      BY <1>3, <3>1 DEF Links, Recorded, Used, Owned
    <3>2. CASE q = r /\ stay # {}
      BY <1>4, <1>7, <3>2 DEF Links, Recorded, Used, Owned
    <3>3. CASE q = r /\ stay = {}
      BY <1>4, <3>3 DEF Used, Owned
    <3> QED BY <3>1, <3>2, <3>3
  <2> QED BY <2>1 DEF Recorded
<1>9. Described'
  <2>1. \A k \in Handles : k # h /\ ~handle[k].used => k \notin UsersOf(r)
    BY DEF UsersOf
  <2> QED BY <1>1, <1>2, <2>1 DEF Links, Described
<1>10. Told'
  <2>1. ~handle'[h].used
    BY <1>1 DEF EmptyHandle
  <2> QED BY <1>2, <2>1 DEF Told
<1>11. Calling'
  <2>1. ASSUME NEW b \in Apps
        PROVE  /\ call'[b].pc \in {"clean", "unlink"} <=> b \notin up'
               /\ Busy(b)' => /\ call'[b].h \in Handles
                              /\ handle'[call'[b].h].used /\ handle'[call'[b].h].app = b
               /\ call'[b].pc \in {"remove", "unlink"} => reg'[handle'[call'[b].h].reg].owner # b
    <3>1. CASE b = a
      BY <3>1 DEF Busy
    <3>2. CASE b # a
      <4>1. call'[b] = call[b]
        BY <3>2
      <4>2. /\ call[b].pc \in {"clean", "unlink"} <=> b \notin up
            /\ Busy(b) => /\ call[b].h \in Handles
                          /\ handle[call[b].h].used /\ handle[call[b].h].app = b
            /\ call[b].pc \in {"remove", "unlink"} => reg[handle[call[b].h].reg].owner # b
        BY DEF Links, Calling
      <4>3. Busy(b) => /\ call[b].h # h /\ handle'[call[b].h].used
                       /\ handle'[call[b].h].app = b
                       /\ handle'[call[b].h].reg = handle[call[b].h].reg
        BY <1>2, <3>2, <4>2
      <4>4. \A q \in Tables : reg'[q].owner = NotOwned \/ reg'[q].owner = reg[q].owner
        BY <1>3, <1>4
      <4>5. call'[b].pc \in {"remove", "unlink"} => reg'[handle'[call'[b].h].reg].owner # b
        <5> HAVE call'[b].pc \in {"remove", "unlink"}
        <5>1. /\ Busy(b) /\ call[b].h \in Handles /\ reg[handle[call[b].h].reg].owner # b
              /\ call'[b].h = call[b].h /\ handle'[call[b].h].reg = handle[call[b].h].reg
          BY <4>1, <4>2, <4>3 DEF Busy
        <5>2. NotOwned # b
          BY Ranges
        <5> QED BY <1>1, <4>4, <5>1, <5>2
      <4> QED BY <4>1, <4>2, <4>3, <4>5 DEF Busy
    <3> QED BY <3>1, <3>2
  <2> QED BY <2>1 DEF Calling
<1>12. Working'
  <2>1. ASSUME NEW q \in Tables
        PROVE  /\ Double(q)' => reg'[q].lip \in {NONE, Inactive(q)'}
               /\ Single(q)' => reg'[q].lip \in Loads \union {NONE} /\ reg'[q].active = 0
    <3>1. CASE q # r
      BY <1>3, <3>1 DEF Links, Working, Single, Double, Used, Inactive
    <3>2. CASE q = r /\ stay # {}
      BY <1>4, <1>7, <3>2 DEF Links, Working, Single, Double, Used, Inactive, SameBuffers, SameLoad
    <3>3. CASE q = r /\ stay = {}
      BY <1>4, <3>3, TablesAssumption DEF Single, Double, Used
    <3> QED BY <3>1, <3>2, <3>3
  <2> QED BY <2>1 DEF Working
<1> QED BY <1>5, <1>8, <1>9, <1>10, <1>11, <1>12 DEF Links

LEMMA UnregisterEndLinks ==
  ASSUME Links, Told, NEW a \in Apps, UnregisterEnd(a)
  PROVE  Links' /\ Told'
<1> DEFINE h == call[a].h
<1>1. Typed'
  BY UseTyped DEF Links
<1>2. /\ h \in Handles /\ handle[h].used /\ handle[h].app = a
      /\ reg[handle[h].reg].owner # a /\ a \in up
  BY DEF UnregisterEnd, Links, Calling, Busy
<1>3. RemoveAccessLink(h) /\ call' = [call EXCEPT ![a] = IdleCall] /\ up' = up
  BY DEF UnregisterEnd
<1> HIDE DEF h
<1>4. call'[a].pc = "idle" /\ \A b \in Apps : b # a => call'[b] = call[b]
  BY <1>3 DEF Links, Typed, IdleCall
<1> QED BY <1>1, <1>2, <1>3, <1>4, RemoveLinks

LEMMA CleanUpUnlinkLinks ==
  ASSUME Links, Told, NEW a \in Apps, CleanUpUnlink(a)
  PROVE  Links' /\ Told'
<1> DEFINE h == call[a].h
<1>1. Typed'
  BY UseTyped DEF Links
<1>2. /\ h \in Handles /\ handle[h].used /\ handle[h].app = a
      /\ reg[handle[h].reg].owner # a /\ a \notin up
  BY DEF CleanUpUnlink, Links, Calling, Busy
<1>3. /\ RemoveAccessLink(h) /\ up' = up
      /\ call' = [call EXCEPT ![a] = [IdleCall EXCEPT !.pc = "clean"]]
  BY DEF CleanUpUnlink
<1> HIDE DEF h
<1>4. call'[a].pc = "clean" /\ \A b \in Apps : b # a => call'[b] = call[b]
  BY <1>3 DEF Links, Typed, IdleCall
<1> QED BY <1>1, <1>2, <1>3, <1>4, RemoveLinks

-----------------------------------------------------------------------------

LEMMA InitLinks == Init => Links /\ Told
<1> SUFFICES ASSUME Init PROVE Links /\ Told
  OBVIOUS
<1>1. Typed
  BY InitTyped
<1>2. /\ \A r \in Tables : reg[r] = EmptyRecord
      /\ \A h \in Handles : handle[h] = EmptyHandle
      /\ \A a \in Apps : call[a] = IdleCall
      /\ up = Apps
  BY DEF Init, Start
<1>3. \A r \in Tables : UsersOf(r) = {}
  BY <1>2 DEF UsersOf, EmptyHandle
<1>4. AccessListExact
  BY <1>2, <1>3 DEF AccessListExact, Grounded, EmptyRecord, Owned
<1>5. Recorded
  <2>1. \A r \in Tables : /\ reg[r].head = NONE /\ reg[r].kind = NoName /\ ~reg[r].loaded
                          /\ reg[r].name = NoName /\ reg[r].owner = NotOwned
    BY <1>2 DEF EmptyRecord
  <2> QED BY <2>1 DEF Recorded, Owned, Used
<1>6. Described /\ Told
  <2>1. \A h \in Handles : ~handle[h].used
    BY <1>2 DEF EmptyHandle
  <2>2. Described
    BY <1>2 DEF Described
  <2> QED BY <2>1, <2>2 DEF Told
<1>7. Calling
  BY <1>2 DEF Calling, IdleCall, Busy
<1>8. Working
  BY <1>2, TablesAssumption DEF Working, EmptyRecord, Single, Double, Used
<1> QED BY <1>1, <1>4, <1>5, <1>6, <1>7, <1>8 DEF Links

LEMMA StutterLinks ==
  ASSUME Links, Told, UNCHANGED vars
  PROVE  Links' /\ Told'
<1>1. Typed'
  BY DEF vars, Links, Typed
<1>2. Content
  BY <1>1 DEF vars, Content, Links, Recorded, Working, SameUse, WorkingOf, Single, Used, Inactive,
     SameLinks, ToldOf, Told, Proceeds
<1> QED BY <1>2, ContentLinks

LEMMA NextLinks ==
  ASSUME Links, Told, [Next]_vars
  PROVE  Links' /\ Told'
<1>1. ASSUME NEW a \in Apps, NEW n \in Names, Register(a, n) \/ RegisterNoRoom(a, n) \/ Share(a, n)
      PROVE  Links' /\ Told'
  BY <1>1, RegisterLinks, RegisterNoRoomLinks, ShareLinks
<1>2. ASSUME NEW a \in Apps, NEW h \in Handles, Access(a, h)
      PROVE  Links' /\ Told'
  <2>1. CASE UnregisterBegin(a, h)
    BY <2>1, UnregisterBeginLinks
  <2>2. CASE ~UnregisterBegin(a, h)
    <3>1. Content
      BY <1>2, <2>2, UpdateContent, LoadBeginContent, LoadUserDefContent, GetAddressContent,
         ReleaseAddressContent, ModifiedContent, ValidateContent, DumpToBufferContent DEF Access
    <3> QED BY <3>1, ContentLinks
  <2> QED BY <2>1, <2>2
<1>3. ASSUME NEW a \in Apps, LoadFill(a) \/ LoadFailed(a) \/ LoadEnd(a)
      PROVE  Links' /\ Told'
  BY <1>3, LoadFillContent, LoadFailedContent, LoadEndContent, ContentLinks
<1>4. ASSUME NEW a \in Apps,
             \/ UnregisterEnd(a) \/ CleanUpBegin(a) \/ CleanUpDisown(a)
             \/ CleanUpUnlink(a) \/ StartApp(a)
      PROVE  Links' /\ Told'
  BY <1>4, UnregisterEndLinks, CleanUpBeginLinks, CleanUpDisownLinks, CleanUpUnlinkLinks,
     StartAppLinks
<1>5. ASSUME Command PROVE Links' /\ Told'
  <2>1. Content
    BY <1>5, LoadCmdBeginContent, ActivateCmdContent, AbortLoadCmdContent, ValidateCmdContent,
       DumpCmdContent, LoadCmdEndContent, HousekeepingContent DEF Command
  <2> QED BY <2>1, ContentLinks
<1>6. ASSUME ProcessorReset PROVE Links' /\ Told'
  BY <1>6, ProcessorResetLinks
<1>7. ASSUME UNCHANGED vars PROVE Links' /\ Told'
  BY <1>7, StutterLinks
<1> QED BY <1>1, <1>2, <1>3, <1>4, <1>5, <1>6, <1>7 DEF Next, Application

LEMMA LinksHold == Spec => [](Links /\ Told)
  BY InitLinks, NextLinks, PTL DEF Spec

(* The descriptors of a table are one list, linked both ways, from its head *)
(* (CFE_TBL_Register, CFE_TBL_Share, CFE_TBL_RemoveAccessLink), whatever    *)
(* applications and operators do and in whatever order.                     *)
THEOREM ListsExact == Spec => []AccessListExact
<1>1. Links => AccessListExact
  BY DEF Links
<1> QED BY <1>1, LinksHold, PTL

(* A user of a table who has not been told of a change has had the address  *)
(* since (CFE_TBL_NotifyTblUsersOfUpdate, CFE_TBL_GetAddress).              *)
THEOREM ChangesTold == Spec => []NoMissedUpdate
<1>1. Told => NoMissedUpdate
  BY DEF Told, NoMissedUpdate, UsersOf
<1> QED BY <1>1, LinksHold, PTL

-----------------------------------------------------------------------------
(* What keeps the parts of Contents, for a step on one table and another.   *)

Idle(r) == ~CmdReads(r) /\ \A a \in Apps : ~AppFills(a, r)
SameFills(r) ==
    /\ \A a \in Apps : AppFills(a, r)' => AppFills(a, r) /\ call'[a].at = call[a].at
    /\ CmdReads(r)' => CmdReads(r) /\ cmd'.at = cmd.at

LEMMA QuietIdle ==
  ASSUME Orderly, NEW r \in Tables
  PROVE  /\ Quiet(r) => Idle(r)
         /\ Serving(r) => Idle(r) /\ reg[r].owner \in up
         /\ Settled(r) => /\ Idle(r) /\ reg[r].valActive = NONE /\ reg[r].valInactive = NONE
                          /\ reg[r].dumpIndex = NONE
                          /\ \A i \in Loads : dump[i].st # "FREE" => dump[i].r # r
  BY DEF Quiet, Serving, Settled, Filling, Idle, CmdReads, AppFills

LEMMA FillsKept ==
  ASSUME NEW r \in Tables, FillsOf(r), SameFills(r), SameLoad(r), reg'[r].kind = reg[r].kind,
         reg'[r].active = reg[r].active, CmdReads(r) => Served(r)'
  PROVE  FillsOf(r)'
<1>1. WorkOf(r)' = WorkOf(r) /\ (DumpKind(r)' <=> DumpKind(r))
  BY DEF WorkOf, Double, Inactive, DumpKind, SameLoad
<1>2. ASSUME NEW a \in Apps, AppFills(a, r)'
      PROVE  /\ ~CmdReads(r)' /\ ~DumpKind(r)' /\ ~reg'[r].pend
             /\ \A b \in Apps : AppFills(b, r)' => b = a
             /\ reg'[r].loaded => reg'[r].lip # NONE /\ call'[a].at = WorkOf(r)'
             /\ ~reg'[r].loaded =>
                  /\ reg'[r].lip = NONE
                  /\ call'[a].at = [shared |-> FALSE, tbl |-> r, k |-> reg'[r].active]
  <2>1. AppFills(a, r) /\ call'[a].at = call[a].at
    BY <1>2 DEF SameFills
  <2>2. /\ ~CmdReads(r) /\ ~DumpKind(r) /\ ~reg[r].pend
        /\ \A b \in Apps : AppFills(b, r) => b = a
        /\ reg[r].loaded => reg[r].lip # NONE /\ call[a].at = WorkOf(r)
        /\ ~reg[r].loaded =>
             /\ reg[r].lip = NONE
             /\ call[a].at = [shared |-> FALSE, tbl |-> r, k |-> reg[r].active]
    BY <2>1 DEF FillsOf
  <2> QED BY <1>1, <2>1, <2>2 DEF SameFills, SameLoad
<1>3. ASSUME CmdReads(r)'
      PROVE  Served(r)' /\ ~DumpKind(r)' /\ reg'[r].lip # NONE /\ cmd'.at = WorkOf(r)'
  BY <1>1, <1>3 DEF SameFills, FillsOf, SameLoad
<1> QED BY <1>2, <1>3 DEF FillsOf

LEMMA IdleFills ==
  ASSUME NEW r \in Tables, Idle(r)'
  PROVE  FillsOf(r)'
  BY DEF Idle, FillsOf

LEMMA TakingKept ==
  ASSUME Taking, \A q \in Tables : (Single(q)' <=> Single(q)) /\ (Single(q) => reg'[q].lip = reg[q].lip),
         \A b \in Loads : loadBuf'[b].taken = loadBuf[b].taken, Working
  PROVE  Taking'
<1>1. \A q \in Tables : Single(q) => reg[q].lip \in Loads \union {NONE}
  BY DEF Working
<1>2. ASSUME NEW r \in Tables, Single(r)', reg'[r].lip # NONE
      PROVE  loadBuf'[reg'[r].lip].taken
  BY <1>1, <1>2 DEF Taking
<1>3. ASSUME NEW q \in Tables, NEW r \in Tables, Single(q)', Single(r)', q # r, reg'[q].lip # NONE
      PROVE  reg'[q].lip # reg'[r].lip
  BY <1>3 DEF Taking
<1>4. ASSUME NEW b \in Loads, loadBuf'[b].taken
      PROVE  \E r \in Tables : Single(r)' /\ reg'[r].lip = b
  BY <1>4 DEF Taking
<1> QED BY <1>2, <1>3, <1>4 DEF Taking

(* A load or a dump of table r ends. *)
LEMMA TakingFreed ==
  ASSUME Taking, Working, NEW r \in Tables, Single(r), reg[r].lip # NONE, Frees(reg[r].lip),
         reg'[r].lip = NONE \/ ~Single(r)',
         \A q \in Tables : q # r => (Single(q)' <=> Single(q)) /\ reg'[q].lip = reg[q].lip
  PROVE  Taking'
<1>1. \A q \in Tables : Single(q) => reg[q].lip \in Loads \union {NONE}
  BY DEF Working
<1>0. /\ ~loadBuf'[reg[r].lip].taken
      /\ \A i \in Loads : i # reg[r].lip => loadBuf'[i] = loadBuf[i]
  BY DEF Frees
<1>2. ASSUME NEW q \in Tables, Single(q)', reg'[q].lip # NONE
      PROVE  loadBuf'[reg'[q].lip].taken
  <2>1. q # r /\ Single(q) /\ reg'[q].lip = reg[q].lip
    BY <1>2
  <2>2. reg[q].lip # reg[r].lip /\ loadBuf[reg[q].lip].taken
    BY <1>2, <2>1 DEF Taking
  <2> QED BY <1>0, <1>1, <1>2, <2>1, <2>2
<1>3. ASSUME NEW q \in Tables, NEW p \in Tables, Single(q)', Single(p)', q # p, reg'[q].lip # NONE
      PROVE  reg'[q].lip # reg'[p].lip
  BY <1>3 DEF Taking
<1>4. ASSUME NEW b \in Loads, loadBuf'[b].taken
      PROVE  \E q \in Tables : Single(q)' /\ reg'[q].lip = b
  <2>1. b # reg[r].lip /\ loadBuf[b].taken
    BY <1>0, <1>4
  <2>2. PICK q \in Tables : Single(q) /\ reg[q].lip = b
    BY <2>1 DEF Taking
  <2> QED BY <2>1, <2>2
<1> QED BY <1>2, <1>3, <1>4 DEF Taking

(* A load or a dump of table r begins. *)
LEMMA TakingGrabbed ==
  ASSUME Taking, Working, NEW r \in Tables, NEW b \in Loads, Single(r), Single(r)', reg[r].lip = NONE,
         ~loadBuf[b].taken, reg'[r].lip = b, loadBuf'[b].taken,
         \A i \in Loads : i # b => loadBuf'[i].taken = loadBuf[i].taken,
         \A q \in Tables : q # r => (Single(q)' <=> Single(q)) /\ reg'[q].lip = reg[q].lip
  PROVE  Taking'
<1>1. \A q \in Tables : Single(q) => reg[q].lip \in Loads \union {NONE}
  BY DEF Working
<1>2. \A q \in Tables : q # r /\ Single(q) /\ reg[q].lip # NONE => reg[q].lip # b /\ loadBuf[reg[q].lip].taken
  BY DEF Taking
<1>3. ASSUME NEW q \in Tables, Single(q)', reg'[q].lip # NONE
      PROVE  loadBuf'[reg'[q].lip].taken
  BY <1>1, <1>2, <1>3
<1>4. ASSUME NEW q \in Tables, NEW p \in Tables, Single(q)', Single(p)', q # p, reg'[q].lip # NONE
      PROVE  reg'[q].lip # reg'[p].lip
  BY <1>2, <1>4 DEF Taking
<1>5. ASSUME NEW c \in Loads, loadBuf'[c].taken
      PROVE  \E q \in Tables : Single(q)' /\ reg'[q].lip = c
  <2>1. CASE c = b
    BY <2>1
  <2>2. CASE c # b
    <3>1. loadBuf[c].taken
      BY <1>5, <2>2
    <3>2. PICK q \in Tables : Single(q) /\ reg[q].lip = c
      BY <3>1 DEF Taking
    <3>3. q # r
      BY <3>2, Ranges
    <3> QED BY <3>2, <3>3
  <2> QED BY <2>1, <2>2
<1> QED BY <1>3, <1>4, <1>5 DEF Taking

(* A step about one table leaves the others, and who fills them, as they    *)
(* were.                                                                    *)
Beside(r) == \A q \in Tables : q # r => reg'[q] = reg[q] /\ SameFills(q)

LEMMA SameFillers ==
  ASSUME Links, Content, NEW q, NEW a \in Apps, call'[a] = call[a]
  PROVE  AppFills(a, q)' <=> AppFills(a, q)
<1>1. CASE call[a].pc \in {"fill", "good", "failed"}
  <2>1. call[a].h \in Handles
    BY <1>1 DEF Links, Calling, Busy
  <2>2. handle'[call[a].h].reg = handle[call[a].h].reg
    BY <2>1 DEF Content, SameLinks
  <2> QED BY <2>2 DEF AppFills
<1>2. CASE call[a].pc \notin {"fill", "good", "failed"}
  BY <1>2 DEF AppFills
<1> QED BY <1>1, <1>2

LEMMA StillFills ==
  ASSUME Links, Content, call' = call, cmd' = cmd
  PROVE  \A q \in Tables : SameFills(q) /\ (Idle(q) => Idle(q)')
<1> TAKE q \in Tables
<1>1. \A a \in Apps : AppFills(a, q)' <=> AppFills(a, q)
  BY SameFillers
<1>2. CmdReads(q)' <=> CmdReads(q)
  BY DEF CmdReads
<1> QED BY <1>1, <1>2 DEF SameFills, Idle

LEMMA CallFills ==
  ASSUME Links, Content, NEW a \in Apps, NEW h \in Handles, NEW r, r = handle[h].reg, cmd' = cmd,
         \A b \in Apps : b # a => call'[b] = call[b],
         call'[a].pc \in {"fill", "good", "failed"} => call'[a].h = h
  PROVE  /\ \A q \in Tables : q # r => SameFills(q)
         /\ \A b \in Apps : b # a => (AppFills(b, r)' <=> AppFills(b, r))
         /\ AppFills(a, r)' <=> call'[a].pc \in {"fill", "good", "failed"}
<1>1. handle'[h].reg = r
  BY DEF Content, SameLinks
<1>2. \A b \in Apps : b # a => \A q : (AppFills(b, q)' <=> AppFills(b, q))
  BY SameFillers
<1>3. ASSUME NEW q \in Tables, q # r
      PROVE  SameFills(q)
  <2>1. ~AppFills(a, q)'
    BY <1>1, <1>3 DEF AppFills
  <2>2. CmdReads(q)' <=> CmdReads(q)
    BY DEF CmdReads
  <2>3. ASSUME NEW b \in Apps, AppFills(b, q)'
        PROVE  AppFills(b, q) /\ call'[b].at = call[b].at
    <3>1. b # a
      BY <2>1, <2>3
    <3> QED BY <1>2, <2>3, <3>1
  <2> QED BY <2>2, <2>3 DEF SameFills
<1>4. AppFills(a, r)' <=> call'[a].pc \in {"fill", "good", "failed"}
  BY <1>1 DEF AppFills
<1> QED BY <1>2, <1>3, <1>4

LEMMA CmdFills ==
  ASSUME Links, Content, NEW r \in Tables, call' = call, cmd'.pc = "read" => cmd'.r = r
  PROVE  /\ \A q \in Tables : q # r => SameFills(q)
         /\ \A b \in Apps : AppFills(b, r)' <=> AppFills(b, r)
<1>1. \A b \in Apps, q \in Tables : AppFills(b, q)' <=> AppFills(b, q)
  BY SameFillers
<1>2. ASSUME NEW q \in Tables, q # r
      PROVE  SameFills(q)
  BY <1>1, <1>2 DEF SameFills, CmdReads
<1> QED BY <1>1, <1>2

LEMMA LoadingBeside ==
  ASSUME Loading, Content, NEW r \in Tables, Beside(r),
         reg'[r].pend => reg'[r].lip # NONE /\ ~DumpKind(r)
  PROVE  Loading'
<1> SUFFICES ASSUME NEW q \in Tables, reg'[q].pend
             PROVE  reg'[q].lip # NONE /\ ~DumpKind(q)'
  BY DEF Loading
<1>1. DumpKind(q)' <=> DumpKind(q)
  BY DEF DumpKind, Content, SameUse
<1>2. CASE q = r
  BY <1>1, <1>2
<1>3. CASE q # r
  BY <1>1, <1>3 DEF Loading, Beside
<1> QED BY <1>2, <1>3

LEMMA FillsBeside ==
  ASSUME OneFills, Content, NEW r \in Tables, Beside(r), FillsOf(r)',
         cmd'.pc = "read" => cmd'.r \in Tables
  PROVE  OneFills'
<1> SUFFICES ASSUME NEW q \in Tables, q # r
             PROVE  FillsOf(q)'
  BY DEF OneFills
<1>1. reg'[q] = reg[q] /\ SameFills(q) /\ FillsOf(q)
  BY DEF Beside, OneFills
<1>2. SameLoad(q) /\ reg'[q].kind = reg[q].kind /\ reg'[q].active = reg[q].active
  BY <1>1 DEF SameLoad
<1>3. CmdReads(q) => Served(q)'
  BY <1>1 DEF FillsOf, Served, Owned, Content
<1> QED BY <1>1, <1>2, <1>3, FillsKept

LEMMA DumpsBeside ==
  ASSUME Dumps, Content, NEW r \in Tables, Beside(r), dump' = dump,
         reg'[r].dumpIndex = reg[r].dumpIndex, DumpKind(r) => reg'[r].lip = reg[r].lip
  PROVE  Dumps'
<1>1. \A q \in Tables : /\ reg'[q].dumpIndex = reg[q].dumpIndex
                        /\ DumpKind(q) => reg'[q].lip = reg[q].lip
                        /\ DumpKind(q)' <=> DumpKind(q)
                        /\ Used(q)' <=> Used(q)
                        /\ Served(q)' <=> Served(q)
  BY DEF Beside, Content, SameUse, DumpKind, Used, Served, Owned
<1>2. ASSUME NEW i \in Loads
      PROVE  DumpOwned(i)'
  <2>1. DumpOwned(i)
    BY DEF Dumps
  <2> QED BY <1>1, <2>1 DEF DumpOwned
<1>3. ASSUME NEW q \in Tables
      PROVE  DumpsOf(q)'
  <2>1. DumpsOf(q)
    BY DEF Dumps
  <2> QED BY <1>1, <2>1 DEF DumpsOf
<1> QED BY <1>2, <1>3 DEF Dumps

(* A request for a validation of an inactive buffer is about table q. *)
Checking(q) == ~Double(q) /\ reg[q].valInactive # NONE

LEMMA AsksKept ==
  ASSUME NEW q \in Tables, AsksOf(q), Content, Asked(q)' \subseteq Asked(q) \union {NONE},
         reg'[q].valInactive \in {reg[q].valInactive, NONE},
         Checking(q) => reg'[q].lip # NONE /\ ~reg'[q].pend /\ \A a \in Apps : ~AppFills(a, q)'
  PROVE  AsksOf(q)'
<1>1. Served(q)' <=> Served(q)
  BY DEF Content, SameUse, Served, Owned
<1>2. (DumpKind(q)' <=> DumpKind(q)) /\ (Double(q)' <=> Double(q))
  BY DEF Content, SameUse, DumpKind, Double
<1>3. Asked(q)' # {NONE} => Served(q)'
  <2>1. CASE Asked(q) = {NONE}
    BY <2>1 DEF Asked
  <2>2. CASE Asked(q) # {NONE}
    BY <1>1, <2>2 DEF AsksOf
  <2> QED BY <2>1, <2>2
<1>4. ASSUME reg'[q].valInactive # NONE
      PROVE  /\ ~DumpKind(q)'
             /\ ~Double(q)' => /\ reg'[q].lip # NONE /\ ~reg'[q].pend
                               /\ \A a \in Apps : ~AppFills(a, q)'
  BY <1>2, <1>4 DEF AsksOf, Checking
<1> QED BY <1>3, <1>4 DEF AsksOf

LEMMA AsksBeside ==
  ASSUME Requesting, Content, NEW r \in Tables, Beside(r), val' = val, SameRequests(r),
         Checking(r) => reg'[r].lip # NONE /\ ~reg'[r].pend /\ \A a \in Apps : ~AppFills(a, r)'
  PROVE  Requesting'
<1>1. \A q \in Tables : reg'[q].valActive = reg[q].valActive
                        /\ reg'[q].valInactive = reg[q].valInactive
  BY DEF Beside, SameRequests
<1>2. \A q \in Tables : Asked(q)' = Asked(q)
  BY <1>1 DEF Asked
<1>3. ASSUME NEW q \in Tables
      PROVE  AsksOf(q)'
  <2>1. AsksOf(q)
    BY DEF Requesting
  <2>2. Checking(q) => reg'[q].lip # NONE /\ ~reg'[q].pend /\ \A a \in Apps : ~AppFills(a, q)'
    <3>1. CASE q = r
      BY <3>1
    <3>2. CASE q # r
      <4>1. reg'[q] = reg[q] /\ SameFills(q)
        BY <3>2 DEF Beside
      <4> QED BY <2>1, <4>1 DEF AsksOf, Checking, SameFills
    <3> QED BY <3>1, <3>2
  <2> QED BY <1>1, <1>2, <2>1, <2>2, AsksKept
<1>4. ASSUME NEW v \in Validations, val'[v] = "PENDING"
      PROVE  \E q \in Tables : v \in Asked(q)'
  BY <1>2, <1>4 DEF Requesting
<1> QED BY <1>3, <1>4 DEF Requesting

SavedOf(q) == Owned(q) /\ reg[q].kind \in Critical /\ reg[q].loaded =>
                  cds[reg[q].kind] = Active(q)

LEMMA SavedBeside ==
  ASSUME Saved, Links, Content, NEW r \in Tables, Beside(r),
         \/ /\ cds' = cds
            /\ reg[r].kind \in Critical /\ reg'[r].loaded
                 => reg[r].loaded /\ Active(r)' = Active(r)
         \/ Used(r) /\ Copies(r, Active(r)')
  PROVE  Saved'
<1>0. \A q \in Tables : /\ reg'[q].kind = reg[q].kind
                        /\ Used(q)' <=> Used(q)
                        /\ Owned(q)' <=> Owned(q)
  BY DEF Content, SameUse, Used, Owned
<1>1. Alone'
  BY <1>0 DEF Saved, Alone
<1>2. \A q \in Tables : Owned(q) => Used(q) /\ reg[q].kind \in Names
  BY DEF Links, AccessListExact, Recorded, Used, Typed, RegRecord, UsersOf
<1>3. \A q \in Tables : SavedOf(q)
  BY DEF Saved, CriticalSaved, SavedOf
<1>4. ASSUME NEW q \in Tables
      PROVE  SavedOf(q)'
  <2>1. CASE q = r /\ cds' = cds /\ (reg[r].kind \in Critical /\ reg'[r].loaded
                                      => reg[r].loaded /\ Active(r)' = Active(r))
    <3>1. SavedOf(q)
      BY <1>3
    <3> QED BY <1>0, <2>1, <3>1 DEF SavedOf
  <2>2. CASE q = r /\ Copies(r, Active(r)')
    BY <1>0, <1>2, <2>2 DEF SavedOf, Copies
  <2>3. CASE q # r
    <3>1. reg'[q] = reg[q] /\ Active(q)' = Active(q)
      BY <2>3 DEF Beside, Active
    <3> SUFFICES ASSUME Owned(q), reg[q].kind \in Critical, reg[q].loaded
                 PROVE  cds'[reg[q].kind] = Active(q)
      BY <1>0, <3>1 DEF SavedOf
    <3>2. cds[reg[q].kind] = Active(q)
      BY <1>3 DEF SavedOf
    <3>3. Used(r) => reg[r].kind # reg[q].kind
      BY <1>2, <2>3 DEF Saved, Alone
    <3> QED BY <1>2, <3>2, <3>3 DEF Copies
  <2> QED BY <2>1, <2>2, <2>3
<1>5. CriticalSaved'
  BY <1>4 DEF CriticalSaved, SavedOf
<1> QED BY <1>1, <1>5 DEF Saved

LEMMA HoldingBeside ==
  ASSUME Holding, Links, Content, NEW r \in Tables, Beside(r), \A h \in Handles : SameHold(h),
         reg[r].loaded => reg'[r].loaded,
         Double(r) /\ reg'[r].lip # NONE =>
           \/ reg[r].lip # NONE /\ reg'[r].active = reg[r].active
           \/ \A h \in UsersOf(r) : handle[h].lock => handle[h].buf = reg'[r].active
  PROVE  Holding'
<1> SUFFICES ASSUME NEW h \in Handles, handle'[h].used, handle'[h].lock
             PROVE  HeldOf(h)'
  BY DEF Holding, HeldOf
<1>1. /\ handle'[h].reg = handle[h].reg /\ handle'[h].buf = handle[h].buf
      /\ handle'[h].sure = handle[h].sure /\ handle[h].used /\ handle[h].lock
  BY DEF Content, SameLinks, SameHold
<1>2. PICK q \in Tables : q = handle[h].reg /\ h \in UsersOf(q)
  BY <1>1, UserTable
<1>3. Double(q)' <=> Double(q)
  BY DEF Content, SameUse, Double
<1>4. /\ handle[h].sure => reg[q].loaded
      /\ ~Double(q) => handle[h].buf = 0
      /\ Double(q) /\ reg[q].lip # NONE => handle[h].buf = reg[q].active
  BY <1>1, <1>2 DEF Holding, HeldOf
<1>5. /\ handle'[h].sure => reg'[q].loaded
      /\ ~Double(q)' => handle'[h].buf = 0
      /\ Double(q)' /\ reg'[q].lip # NONE => handle'[h].buf = reg'[q].active
  <2>1. CASE q = r
    BY <1>1, <1>2, <1>3, <1>4, <2>1
  <2>2. CASE q # r
    <3>1. reg'[q] = reg[q]
      BY <2>2 DEF Beside
    <3> QED BY <1>1, <1>3, <1>4, <3>1
  <2> QED BY <2>1, <2>2
<1> QED BY <1>1, <1>2, <1>5 DEF HeldOf, Double

LEMMA TakingBeside ==
  ASSUME Taking, Links, Content, NEW r \in Tables, Used(r), Beside(r),
         \/ /\ \A b \in Loads : loadBuf'[b].taken = loadBuf[b].taken
            /\ ~Double(r) => reg'[r].lip = reg[r].lip
         \/ ~Double(r) /\ reg[r].lip # NONE /\ Frees(reg[r].lip) /\ reg'[r].lip = NONE
         \/ \E b \in Loads :
              /\ ~Double(r) /\ reg[r].lip = NONE /\ ~loadBuf[b].taken
              /\ reg'[r].lip = b /\ loadBuf'[b].taken
              /\ \A i \in Loads : i # b => loadBuf'[i].taken = loadBuf[i].taken
  PROVE  Taking'
<1>1. \A q \in Tables : (Single(q)' <=> Single(q)) /\ (q # r => reg'[q].lip = reg[q].lip)
  BY DEF Content, SameUse, Single, Used, Double, Beside
<1>2. Working
  BY DEF Links
<1>3. CASE /\ \A b \in Loads : loadBuf'[b].taken = loadBuf[b].taken
           /\ ~Double(r) => reg'[r].lip = reg[r].lip
  <2>1. \A q \in Tables : Single(q) => reg'[q].lip = reg[q].lip
    BY <1>1, <1>3 DEF Single
  <2> QED BY <1>1, <1>2, <1>3, <2>1, TakingKept
<1>4. CASE ~Double(r) /\ reg[r].lip # NONE /\ Frees(reg[r].lip) /\ reg'[r].lip = NONE
  <2>1. Single(r)
    BY <1>4 DEF Single
  <2> QED BY <1>1, <1>2, <1>4, <2>1, TakingFreed
<1>5. ASSUME NEW b \in Loads, ~Double(r), reg[r].lip = NONE, ~loadBuf[b].taken,
             reg'[r].lip = b, loadBuf'[b].taken,
             \A i \in Loads : i # b => loadBuf'[i].taken = loadBuf[i].taken
      PROVE  Taking'
  <2>1. Single(r) /\ Single(r)'
    BY <1>1, <1>5 DEF Single
  <2> QED BY <1>1, <1>2, <1>5, <2>1, TakingGrabbed
<1> QED BY <1>3, <1>4, <1>5

LEMMA EditsBeside ==
  ASSUME NEW r \in Tables, Edits(r), \A q \in Tables : q # r => SameFills(q)
  PROVE  Beside(r)
  BY DEF Edits, Beside

(* A load ends with its image in place. *)
LEMMA ApplyKeeps ==
  ASSUME Links, Contents, Content, NEW r \in Tables, Used(r), reg[r].lip # NONE, ~DumpKind(r),
         ApplyUpdate(r), Idle(r)', ~Checking(r), \A q \in Tables : q # r => SameFills(q),
         cmd'.pc = "read" => cmd'.r \in Tables, UNCHANGED <<val, dump>>
  PROVE  Contents'
<1>1. Typed /\ Working
  BY DEF Links
<1>2. /\ Edits(r) /\ SameRequests(r) /\ Notifies(r)
      /\ Copies(r, reg'[r].buf[reg'[r].active].img)
      /\ reg'[r].lip = NONE /\ ~reg'[r].pend /\ reg'[r].loaded
      /\ Double(r) => loadBuf' = loadBuf
      /\ ~Double(r) => Frees(reg[r].lip)
  BY <1>1, UpdateEffect
<1>3. Beside(r)
  BY <1>2, EditsBeside
<1>4. Loading'
  BY <1>2, <1>3, LoadingBeside DEF Contents
<1>5. OneFills'
  BY <1>3, IdleFills, FillsBeside DEF Contents
<1>6. Taking'
  BY <1>2, <1>3, TakingBeside DEF Contents
<1>7. Dumps'
  BY <1>2, <1>3, DumpsBeside DEF Contents, SameRequests
<1>8. Requesting'
  BY <1>2, <1>3, AsksBeside DEF Contents
<1>9. Saved'
  <2>1. Copies(r, Active(r)')
    BY <1>2 DEF Active
  <2> QED BY <1>3, <2>1, SavedBeside DEF Contents
<1>10. Holding'
  BY <1>2, <1>3, HoldingBeside DEF Contents, Notifies
<1> QED BY <1>4, <1>5, <1>6, <1>7, <1>8, <1>9, <1>10 DEF Contents

LEMMA UpdateKeeps ==
  ASSUME Links, Told, Contents, Orderly, NEW a \in Apps, NEW h \in Handles, Update(a, h)
  PROVE  Contents'
<1>1. PICK r \in Tables : r = handle[h].reg /\ Used(r)
  BY UserTable DEF Update, Calls
<1>2. /\ Quiet(r) /\ reg[r].pend /\ reg[r].lip # NONE /\ ApplyUpdate(r)
      /\ UNCHANGED <<val, dump, pool, up, call, cmd>>
  BY <1>1 DEF Update
<1>3. Content
  BY UpdateContent
<1>4. \A q \in Tables : SameFills(q) /\ (Idle(q) => Idle(q)')
  BY <1>2, <1>3, StillFills
<1>5. Idle(r)
  BY <1>2, QuietIdle
<1>6. ~DumpKind(r) /\ ~Checking(r)
  BY <1>2 DEF Contents, Loading, Requesting, AsksOf, Checking
<1>7. cmd'.pc = "read" => cmd'.r \in Tables
  BY <1>2 DEF Contents, OneFills
<1> QED BY <1>1, <1>2, <1>3, <1>4, <1>5, <1>6, <1>7, ApplyKeeps

(* What application a fills is a buffer of a table that nobody else does.   *)
LEMMA FillerTable ==
  ASSUME Links, Contents, NEW a \in Apps, call[a].pc \in {"fill", "good", "failed"}
  PROVE  \E r \in Tables, h \in Handles :
           /\ h = call[a].h /\ r = handle[h].reg /\ Used(r) /\ AppFills(a, r)
           /\ ~CmdReads(r) /\ ~DumpKind(r) /\ ~reg[r].pend /\ ~Checking(r)
           /\ \A b \in Apps : AppFills(b, r) => b = a
           /\ reg[r].loaded => reg[r].lip # NONE /\ call[a].at = WorkOf(r)
           /\ ~reg[r].loaded =>
                /\ reg[r].lip = NONE
                /\ call[a].at = [shared |-> FALSE, tbl |-> r, k |-> reg[r].active]
<1>1. PICK h \in Handles : h = call[a].h /\ handle[h].used
  BY DEF Links, Calling, Busy
<1>2. PICK r \in Tables : r = handle[h].reg /\ Used(r)
  BY <1>1, UserTable
<1>3. AppFills(a, r)
  BY <1>1, <1>2 DEF AppFills
<1>4. FillsOf(r) /\ AsksOf(r)
  BY DEF Contents, OneFills, Requesting
<1>5. ~Checking(r)
  BY <1>3, <1>4 DEF AsksOf, Checking
<1> QED BY ZenonT(30), <1>1, <1>2, <1>3, <1>4, <1>5 DEF FillsOf

(* Application a has done with it. *)
LEMMA FillEnds ==
  ASSUME Links, Content, Contents, NEW a \in Apps, NEW h \in Handles, NEW r \in Tables, r = handle[h].reg,
         AppFills(a, r), \A b \in Apps : AppFills(b, r) => b = a, ~CmdReads(r),
         call' = [call EXCEPT ![a] = IdleCall], cmd' = cmd
  PROVE  /\ \A q \in Tables : q # r => SameFills(q)
         /\ Idle(r)' /\ (cmd'.pc = "read" => cmd'.r \in Tables)
<1>1. call'[a].pc = "idle" /\ \A b \in Apps : b # a => call'[b] = call[b]
  BY DEF Links, Typed, IdleCall
<1>2. /\ \A q \in Tables : q # r => SameFills(q)
      /\ \A b \in Apps : b # a => (AppFills(b, r)' <=> AppFills(b, r))
      /\ ~AppFills(a, r)'
  BY <1>1, CallFills
<1>3. ~CmdReads(r)'
  BY DEF CmdReads
<1>4. Idle(r)'
  BY <1>2, <1>3 DEF Idle
<1> QED BY <1>2, <1>4 DEF Contents, OneFills

LEMMA LoadFailedKeeps ==
  ASSUME Links, Told, Contents, Orderly, NEW a \in Apps, LoadFailed(a)
  PROVE  Contents'
<1>1. PICK r \in Tables, h \in Handles :
           /\ h = call[a].h /\ r = handle[h].reg /\ Used(r) /\ AppFills(a, r)
           /\ ~CmdReads(r) /\ ~DumpKind(r) /\ ~reg[r].pend /\ ~Checking(r)
           /\ \A b \in Apps : AppFills(b, r) => b = a
           /\ reg[r].loaded => reg[r].lip # NONE
           /\ ~reg[r].loaded => reg[r].lip = NONE
  BY ZenonT(30), FillerTable DEF LoadFailed
<1>2. /\ loadBuf' = IF ~Double(r) /\ reg[r].loaded /\ reg[r].lip # NONE
                      THEN Freed(reg[r].lip) ELSE loadBuf
      /\ reg' = [reg EXCEPT ![r].lip = NONE]
      /\ call' = [call EXCEPT ![a] = IdleCall]
      /\ UNCHANGED <<handle, val, dump, pool, cds, crit, up, cmd, fresh>>
  BY <1>1 DEF LoadFailed
<1>3. Content
  BY LoadFailedContent
<1>4. /\ \A q \in Tables : q # r => SameFills(q)
      /\ Idle(r)' /\ (cmd'.pc = "read" => cmd'.r \in Tables)
  BY ZenonT(30), <1>1, <1>2, <1>3, FillEnds
<1>5. /\ Edits(r) /\ SameRequests(r) /\ SameBuffers(r)
      /\ reg'[r].lip = NONE /\ reg'[r].pend = reg[r].pend /\ reg'[r].loaded = reg[r].loaded
  <2>1. Typed /\ NONE \in {NONE, 0, 1} \union Loads
    BY DEF Links
  <2> QED BY <1>2, <2>1, LipEdit
<1>6. Beside(r)
  BY <1>4, <1>5, EditsBeside
<1>7. Loading'
  BY <1>1, <1>5, <1>6, <1>3, LoadingBeside DEF Contents
<1>8. OneFills'
  BY <1>3, <1>4, <1>6, IdleFills, FillsBeside DEF Contents
<1>9. Taking'
  <2>1. CASE ~Double(r) /\ reg[r].loaded
    <3>1. reg[r].lip # NONE /\ loadBuf' = Freed(reg[r].lip)
      BY ZenonT(30), <1>1, <1>2, <2>1
    <3>2. reg[r].lip \in Loads /\ Typed
      BY <1>1, <2>1, <3>1 DEF Links, Working, Single
    <3>3. Frees(reg[r].lip)
      BY <3>1, <3>2, FreedEffect
    <3> QED BY ZenonT(30), <1>1, <1>3, <1>5, <1>6, <2>1, <3>1, <3>3, TakingBeside DEF Contents
  <2>2. CASE Double(r) \/ ~reg[r].loaded
    <3>1. loadBuf' = loadBuf /\ (~Double(r) => reg'[r].lip = reg[r].lip)
      BY ZenonT(30), <1>1, <1>2, <1>5, <2>2
    <3> QED BY <1>1, <1>3, <1>6, <3>1, TakingBeside DEF Contents
  <2> QED BY <2>1, <2>2
<1>10. Dumps'
  BY ZenonT(30), <1>1, <1>2, <1>3, <1>5, <1>6, DumpsBeside DEF Contents, SameRequests
<1>11. Requesting'
  BY ZenonT(30), <1>1, <1>2, <1>3, <1>5, <1>6, AsksBeside DEF Contents
<1>12. Saved'
  <2>1. Active(r)' = Active(r) /\ cds' = cds
    BY <1>2, <1>5 DEF Active, SameBuffers
  <2> QED BY <1>3, <1>5, <1>6, <2>1, SavedBeside DEF Contents
<1>13. Holding'
  <2>1. \A k \in Handles : SameHold(k)
    BY <1>2 DEF SameHold
  <2> QED BY <1>3, <1>5, <1>6, <2>1, HoldingBeside DEF Contents
<1> QED BY <1>7, <1>8, <1>9, <1>10, <1>11, <1>12, <1>13 DEF Contents

LEMMA LoadEndKeeps ==
  ASSUME Links, Told, Contents, Orderly, NEW a \in Apps, LoadEnd(a)
  PROVE  Contents'
<1>1. PICK r \in Tables, h \in Handles :
           /\ h = call[a].h /\ r = handle[h].reg /\ Used(r) /\ AppFills(a, r)
           /\ ~CmdReads(r) /\ ~DumpKind(r) /\ ~reg[r].pend /\ ~Checking(r)
           /\ \A b \in Apps : AppFills(b, r) => b = a
           /\ reg[r].loaded => reg[r].lip # NONE
           /\ ~reg[r].loaded => reg[r].lip = NONE
  <2>1. call[a].pc \in {"fill", "good", "failed"}
    BY ZenonT(30) DEF LoadEnd
  <2> QED BY ZenonT(30), <2>1, FillerTable
<1>2. /\ \/ /\ ~reg[r].loaded
            /\ reg' = [reg EXCEPT ![r].lip = NONE, ![r].pend = FALSE, ![r].loaded = TRUE]
            /\ handle' = Notified(r) /\ Stale(r)
            /\ UpdateCriticalTblCDS(r, Active(r), TRUE)
            /\ UNCHANGED loadBuf
         \/ reg[r].lip # NONE /\ ApplyUpdate(r)
         \/ /\ reg[r].loaded /\ reg' = [reg EXCEPT ![r].pend = TRUE]
            /\ UNCHANGED <<handle, loadBuf, fresh, cds, crit>>
      /\ call' = [call EXCEPT ![a] = IdleCall]
      /\ UNCHANGED <<val, dump, pool, up, cmd>>
  BY ZenonT(30), <1>1 DEF LoadEnd
<1>3. Content
  BY LoadEndContent
<1>4. /\ \A q \in Tables : q # r => SameFills(q)
      /\ Idle(r)' /\ (cmd'.pc = "read" => cmd'.r \in Tables)
  BY ZenonT(30), <1>1, <1>2, <1>3, FillEnds
<1>5. ASSUME ~reg[r].loaded,
             reg' = [reg EXCEPT ![r].lip = NONE, ![r].pend = FALSE, ![r].loaded = TRUE],
             handle' = Notified(r), Stale(r), UpdateCriticalTblCDS(r, Active(r), TRUE),
             UNCHANGED loadBuf
      PROVE  Contents'
  <2>1. /\ Edits(r) /\ SameRequests(r) /\ SameBuffers(r) /\ Notifies(r)
        /\ Copies(r, Active(r)) /\ reg'[r].lip = NONE /\ ~reg'[r].pend /\ reg'[r].loaded
    BY <1>5, FirstEndEffect DEF Links
  <2>2. Beside(r)
    BY <1>4, <2>1, EditsBeside
  <2>3. Loading'
    BY <1>3, <2>1, <2>2, LoadingBeside DEF Contents
  <2>4. OneFills'
    BY <1>3, <1>4, <2>2, IdleFills, FillsBeside DEF Contents
  <2>5. Taking'
    BY ZenonT(30), <1>1, <1>3, <1>5, <2>1, <2>2, TakingBeside DEF Contents
  <2>6. Dumps'
    BY ZenonT(30), <1>1, <1>2, <1>3, <2>1, <2>2, DumpsBeside DEF Contents, SameRequests
  <2>7. Requesting'
    BY ZenonT(30), <1>1, <1>2, <1>3, <2>1, <2>2, AsksBeside DEF Contents
  <2>8. Saved'
    <3>1. Copies(r, Active(r)')
      BY <2>1 DEF Active, SameBuffers
    <3> QED BY <1>1, <1>3, <2>2, <3>1, SavedBeside DEF Contents
  <2>9. Holding'
    BY <1>3, <2>1, <2>2, HoldingBeside DEF Contents, Notifies
  <2> QED BY <2>3, <2>4, <2>5, <2>6, <2>7, <2>8, <2>9 DEF Contents
<1>6. ASSUME reg[r].lip # NONE, ApplyUpdate(r)
      PROVE  Contents'
  BY ZenonT(30), <1>1, <1>2, <1>3, <1>4, <1>6, ApplyKeeps
<1>7. ASSUME reg[r].loaded, reg' = [reg EXCEPT ![r].pend = TRUE],
             UNCHANGED <<handle, loadBuf, fresh, cds, crit>>
      PROVE  Contents'
  <2>1. /\ Edits(r) /\ SameRequests(r) /\ SameBuffers(r)
        /\ reg'[r].lip = reg[r].lip /\ reg'[r].pend /\ reg'[r].loaded = reg[r].loaded
    BY ZenonT(30), <1>7, PendEdit DEF Links
  <2>2. Beside(r)
    BY <1>4, <2>1, EditsBeside
  <2>3. Loading'
    BY ZenonT(30), <1>1, <1>3, <1>7, <2>1, <2>2, LoadingBeside DEF Contents
  <2>4. OneFills'
    BY <1>3, <1>4, <2>2, IdleFills, FillsBeside DEF Contents
  <2>5. Taking'
    BY ZenonT(30), <1>1, <1>3, <1>7, <2>1, <2>2, TakingBeside DEF Contents
  <2>6. Dumps'
    BY ZenonT(30), <1>1, <1>2, <1>3, <2>1, <2>2, DumpsBeside DEF Contents, SameRequests
  <2>7. Requesting'
    BY ZenonT(30), <1>1, <1>2, <1>3, <2>1, <2>2, AsksBeside DEF Contents
  <2>8. Saved'
    <3>1. Active(r)' = Active(r) /\ cds' = cds
      BY <1>7, <2>1 DEF Active, SameBuffers
    <3> QED BY <1>3, <1>7, <2>2, <3>1, SavedBeside DEF Contents
  <2>9. Holding'
    <3>1. \A k \in Handles : SameHold(k)
      BY <1>7 DEF SameHold
    <3> QED BY <1>3, <2>1, <2>2, <3>1, HoldingBeside DEF Contents, SameBuffers
  <2> QED BY <2>3, <2>4, <2>5, <2>6, <2>7, <2>8, <2>9 DEF Contents
<1> QED BY <1>2, <1>5, <1>6, <1>7

(* A load of table r begins, in a buffer that nobody holds. *)
LEMMA TakeKeeps ==
  ASSUME Links, Contents, Content, NEW r \in Tables, NEW byApp \in BOOLEAN, Used(r), ~DumpKind(r),
         WorkAvailable(r, byApp), TakeWork(r, byApp), \A q \in Tables : q # r => SameFills(q),
         FillsOf(r)', cmd'.pc = "read" => cmd'.r \in Tables,
         Checking(r) => \A a \in Apps : ~AppFills(a, r)',
         UNCHANGED <<handle, val, dump, cds>>
  PROVE  Contents'
<1>1. /\ Edits(r) /\ SameRequests(r) /\ reg'[r].active = reg[r].active
      /\ reg'[r].pend = reg[r].pend /\ reg'[r].loaded = reg[r].loaded
  BY TakeWorkEffect DEF Links
<1>2. \/ reg' = reg /\ loadBuf' = loadBuf
      \/ /\ reg[r].lip = NONE /\ Double(r) /\ loadBuf' = loadBuf
         /\ ~InactiveHeld(r)
         /\ reg'[r].buf[reg[r].active] = reg[r].buf[reg[r].active]
      \/ \E b \in Loads :
           /\ reg[r].lip = NONE /\ ~Double(r)
           /\ ~loadBuf[b].taken /\ reg'[r].lip = b /\ reg'[r].buf = reg[r].buf
           /\ loadBuf'[b].taken /\ \A i \in Loads : i # b => loadBuf'[i] = loadBuf[i]
  BY TakeWorkEffect DEF Links
<1>3. Beside(r)
  BY <1>1, EditsBeside
<1>4. reg[r].lip # NONE => reg'[r].lip # NONE
  BY <1>2
<1>5. Loading'
  <2>1. reg[r].pend => reg[r].lip # NONE
    BY DEF Contents, Loading
  <2> QED BY <1>1, <1>3, <1>4, <2>1, LoadingBeside DEF Contents
<1>6. OneFills'
  BY <1>3, FillsBeside DEF Contents
<1>7. Taking'
  <2>1. CASE \E b \in Loads :
           /\ reg[r].lip = NONE /\ ~Double(r)
           /\ ~loadBuf[b].taken /\ reg'[r].lip = b /\ reg'[r].buf = reg[r].buf
           /\ loadBuf'[b].taken /\ \A i \in Loads : i # b => loadBuf'[i] = loadBuf[i]
    <3>1. \E b \in Loads :
              /\ ~Double(r) /\ reg[r].lip = NONE /\ ~loadBuf[b].taken
              /\ reg'[r].lip = b /\ loadBuf'[b].taken
              /\ \A i \in Loads : i # b => loadBuf'[i].taken = loadBuf[i].taken
      BY <2>1
    <3> QED BY <1>3, <3>1, TakingBeside DEF Contents
  <2>2. CASE loadBuf' = loadBuf /\ (reg' = reg \/ Double(r))
    BY <1>3, <2>2, TakingBeside DEF Contents
  <2> QED BY <1>2, <2>1, <2>2
<1>8. Dumps'
  BY <1>1, <1>3, DumpsBeside DEF Contents, SameRequests
<1>9. Requesting'
  <2>1. Checking(r) => reg[r].lip # NONE /\ ~reg[r].pend
    BY DEF Contents, Requesting, AsksOf, Checking
  <2> QED BY <1>1, <1>3, <1>4, <2>1, AsksBeside DEF Contents
<1>10. Saved'
  <2>1. Active(r)' = Active(r)
    BY <1>1, <1>2 DEF Active
  <2> QED BY <1>1, <1>3, <2>1, SavedBeside DEF Contents
<1>11. Holding'
  <2>1. \A k \in Handles : SameHold(k)
    BY DEF SameHold
  <2>2. ASSUME ~InactiveHeld(r), NEW h \in UsersOf(r), handle[h].lock
        PROVE  handle[h].buf = reg'[r].active
    <3>1. handle[h].buf # Inactive(r) /\ handle[h].buf \in 0..1 /\ reg[r].active \in 0..1
      BY <2>2 DEF InactiveHeld, UsersOf, Links, Typed, HandleRecord, RegRecord
    <3> QED BY <1>1, <3>1 DEF Inactive
  <2>3. Double(r) /\ reg'[r].lip # NONE =>
           \/ reg[r].lip # NONE /\ reg'[r].active = reg[r].active
           \/ \A h \in UsersOf(r) : handle[h].lock => handle[h].buf = reg'[r].active
    BY <1>1, <1>2, <2>2
  <2> QED BY <1>1, <1>3, <2>1, <2>3, HoldingBeside DEF Contents
<1> QED BY <1>5, <1>6, <1>7, <1>8, <1>9, <1>10, <1>11 DEF Contents

LEMMA LoadBeginKeeps ==
  ASSUME Links, Told, Contents, Orderly, NEW a \in Apps, NEW h \in Handles, LoadBegin(a, h)
  PROVE  Contents'
<1>1. PICK r \in Tables : r = handle[h].reg /\ Used(r)
  BY UserTable DEF LoadBegin, Calls
<1>2. /\ Quiet(r) /\ ~DumpKind(r) /\ reg[r].lip = NONE
      /\ WorkAvailable(r, TRUE) /\ TakeWork(r, TRUE)
      /\ call' = [call EXCEPT ![a] = [pc |-> "fill", h |-> h, at |-> WorkAt(r, TRUE)]]
      /\ UNCHANGED <<handle, val, dump, pool, cds, crit, up, cmd, fresh>>
  BY <1>1 DEF LoadBegin, DumpKind
<1>3. Content
  BY LoadBeginContent
<1>4. /\ call'[a].pc = "fill" /\ call'[a].h = h /\ call'[a].at = WorkAt(r, TRUE)
      /\ \A b \in Apps : b # a => call'[b] = call[b]
  BY <1>2 DEF Links, Typed
<1>5. /\ \A q \in Tables : q # r => SameFills(q)
      /\ \A b \in Apps : b # a => (AppFills(b, r)' <=> AppFills(b, r))
  BY <1>1, <1>2, <1>3, <1>4, CallFills
<1>6. ~reg[r].pend /\ ~Checking(r)
  BY <1>2 DEF Contents, Loading, Requesting, AsksOf, Checking
<1>7. FillsOf(r)'
  <2>1. \A b \in Apps : AppFills(b, r)' => b = a
    BY <1>2, <1>5, QuietIdle DEF Idle
  <2>2. ~CmdReads(r)'
    BY <1>2, QuietIdle DEF Idle, CmdReads
  <2>3. ~DumpKind(r)' /\ ~reg'[r].pend /\ reg'[r].loaded = reg[r].loaded
        /\ reg'[r].active = reg[r].active
    <3>1. ~DumpKind(r)'
      BY <1>2, <1>3 DEF Content, SameUse, DumpKind
    <3> QED BY <1>1, <1>2, <1>6, <3>1, TakeWorkEffect DEF Links
  <2>4. reg'[r].loaded => reg'[r].lip # NONE /\ call'[a].at = WorkOf(r)'
    <3>1. ASSUME ~FirstLoad(r, TRUE)
          PROVE  reg'[r].lip # NONE /\ WorkAt(r, TRUE) = WorkOf(r)'
      <4>1. Double(r)' <=> Double(r)
        BY <1>3 DEF Content, SameUse, Double
      <4>2. \/ /\ Double(r) /\ reg'[r].lip = Inactive(r)
               /\ WorkAt(r, TRUE) = [shared |-> FALSE, tbl |-> r, k |-> Inactive(r)]
            \/ /\ ~Double(r) /\ reg'[r].lip \in Loads
               /\ WorkAt(r, TRUE) = [shared |-> TRUE, tbl |-> r, k |-> reg'[r].lip]
        BY <1>1, <1>2, <3>1, TakeWorkEffect DEF Links
      <4>3. Inactive(r) # NONE /\ NONE \notin Loads
        BY Ranges, TableFields DEF TableTypes, Links, NONE
      <4> QED BY <2>3, <4>1, <4>2, <4>3 DEF WorkOf, Inactive
    <3>2. reg[r].loaded => ~FirstLoad(r, TRUE)
      BY DEF FirstLoad
    <3> QED BY <1>4, <2>3, <3>1, <3>2
  <2>5. ~reg'[r].loaded =>
          /\ reg'[r].lip = NONE
          /\ call'[a].at = [shared |-> FALSE, tbl |-> r, k |-> reg'[r].active]
    <3>1. ~reg[r].loaded => FirstLoad(r, TRUE)
      BY <1>2 DEF FirstLoad
    <3>2. FirstLoad(r, TRUE) =>
            /\ reg' = reg /\ WorkAt(r, TRUE) = [shared |-> FALSE, tbl |-> r, k |-> reg[r].active]
      BY <1>1, <1>2, TakeWorkEffect DEF Links
    <3> QED BY <1>2, <1>4, <2>3, <3>1, <3>2
  <2> QED BY <2>1, <2>2, <2>3, <2>4, <2>5 DEF FillsOf
<1>8. cmd'.pc = "read" => cmd'.r \in Tables
  BY <1>2 DEF Contents, OneFills
<1> QED BY <1>1, <1>2, <1>3, <1>5, <1>6, <1>7, <1>8, TakeKeeps

LEMMA LoadUserDefKeeps ==
  ASSUME Links, Told, Contents, Orderly, NEW a \in Apps, NEW h \in Handles, LoadUserDef(a, h)
  PROVE  Contents'
<1>1. PICK r \in Tables : r = handle[h].reg /\ Used(r)
  BY UserTable DEF LoadUserDef, Calls
<1>2. /\ DumpKind(r) /\ reg[r].kind \notin Critical /\ ~Double(r)
      /\ reg' = [reg EXCEPT ![r].loaded = TRUE, ![r].buf[0].img = "good"]
      /\ UNCHANGED <<handle, loadBuf, val, dump, pool, cds, crit, up, call, cmd, fresh>>
  BY <1>1, TablesAssumption DEF LoadUserDef, DumpKind, Double
<1>3. Content
  BY LoadUserDefContent
<1>4. \A q \in Tables : SameFills(q) /\ (Idle(q) => Idle(q)')
  BY <1>2, <1>3, StillFills
<1>5. /\ Edits(r) /\ SameRequests(r) /\ reg'[r].active = reg[r].active
      /\ reg'[r].lip = reg[r].lip /\ reg'[r].pend = reg[r].pend /\ reg'[r].loaded
  BY <1>2, UserDefEdit DEF Links
<1>6. Beside(r)
  BY <1>4, <1>5, EditsBeside
<1>7. ~reg[r].pend /\ ~Checking(r) /\ Idle(r)
  BY <1>2 DEF Contents, Loading, Requesting, AsksOf, Checking, OneFills, FillsOf, Idle
<1>8. Loading'
  BY <1>3, <1>5, <1>6, <1>7, LoadingBeside DEF Contents
<1>9. OneFills'
  <2>1. cmd'.pc = "read" => cmd'.r \in Tables
    BY <1>2 DEF Contents, OneFills
  <2>2. FillsOf(r)'
    BY <1>4, <1>7, IdleFills
  <2> QED BY <1>3, <1>6, <2>1, <2>2, FillsBeside DEF Contents
<1>10. Taking'
  BY ZenonT(30), <1>1, <1>2, <1>3, <1>5, <1>6, TakingBeside DEF Contents
<1>11. Dumps'
  BY <1>2, <1>3, <1>5, <1>6, DumpsBeside DEF Contents, SameRequests
<1>12. Requesting'
  BY <1>2, <1>3, <1>5, <1>6, <1>7, AsksBeside DEF Contents
<1>13. Saved'
  BY <1>2, <1>3, <1>6, SavedBeside DEF Contents
<1>14. Holding'
  BY <1>2, <1>3, <1>5, <1>6, HoldingBeside DEF Contents, SameHold
<1> QED BY <1>8, <1>9, <1>10, <1>11, <1>12, <1>13, <1>14 DEF Contents

(* A step that puts something into a buffer being filled, or nothing. *)
LEMMA FillKeeps ==
  ASSUME Links, Contents, Content, NEW r \in Tables, Used(r), NEW at \in Place,
         \/ reg' = reg /\ Writes(at.k)
         \/ reg' = reg /\ loadBuf' = loadBuf
         \/ ~at.shared /\ Places(at.tbl, at.k),
         at.tbl = r, reg[r].loaded => at = WorkOf(r),
         \A q \in Tables : q # r => SameFills(q),
         FillsOf(r)' \/ SameFills(r), cmd'.pc = "read" => cmd'.r \in Tables,
         Checking(r) => \A a \in Apps : ~AppFills(a, r)',
         UNCHANGED <<handle, val, dump, cds, up>>
  PROVE  Contents'
<1>1. /\ SameLoad(r) /\ SameRequests(r) /\ reg'[r].active = reg[r].active
      /\ \A q \in Tables : q # r => reg'[q] = reg[q]
      /\ \A b \in Loads : loadBuf'[b].taken = loadBuf[b].taken
  BY DEF Places, Writes, SameLoad, SameRequests
<1>2. Beside(r)
  BY <1>1 DEF Beside
<1>3. Loading'
  BY <1>1, <1>2, LoadingBeside DEF Contents, Loading, SameLoad
<1>4. OneFills'
  <2>1. CASE SameFills(r)
    <3>1. FillsOf(r) /\ (CmdReads(r) => Served(r)') /\ reg'[r].kind = reg[r].kind
      BY DEF Contents, OneFills, FillsOf, Served, Owned, Content, SameUse
    <3>2. FillsOf(r)'
      BY <1>1, <2>1, <3>1, FillsKept
    <3> QED BY <1>2, <3>2, FillsBeside DEF Contents
  <2>2. CASE FillsOf(r)'
    BY <1>2, <2>2, FillsBeside DEF Contents
  <2> QED BY <2>1, <2>2
<1>5. Taking'
  BY <1>1, <1>2, TakingBeside DEF Contents, SameLoad
<1>6. Dumps'
  BY <1>1, <1>2, DumpsBeside DEF Contents, SameLoad, SameRequests
<1>7. Requesting'
  <2>1. Checking(r) => reg[r].lip # NONE /\ ~reg[r].pend
    BY DEF Contents, Requesting, AsksOf, Checking
  <2> QED BY <1>1, <1>2, <2>1, AsksBeside DEF Contents, SameLoad
<1>8. Saved'
  <2>1. ASSUME reg'[r].loaded
        PROVE  reg[r].loaded /\ Active(r)' = Active(r)
    <3>1. reg[r].loaded /\ at = WorkOf(r)
      BY <1>1, <2>1 DEF SameLoad
    <3>2. ~at.shared => at.k # reg[r].active
      BY <3>1, TableFields DEF WorkOf, TableTypes, Links
    <3>3. reg'[r].buf[reg[r].active] = reg[r].buf[reg[r].active]
      BY <3>2, TableFields DEF Places, TableTypes, Links
    <3> QED BY <1>1, <3>1, <3>3 DEF Active
  <2> QED BY <1>2, <2>1, SavedBeside DEF Contents
<1>9. Holding'
  BY <1>1, <1>2, HoldingBeside DEF Contents, SameHold, SameLoad
<1> QED BY <1>3, <1>4, <1>5, <1>6, <1>7, <1>8, <1>9 DEF Contents

LEMMA LoadFillKeeps ==
  ASSUME Links, Told, Contents, Orderly, NEW a \in Apps, LoadFill(a)
  PROVE  Contents'
<1>0. call[a].pc = "fill"
  BY DEF LoadFill
<1>1. PICK r \in Tables, h \in Handles :
           /\ h = call[a].h /\ r = handle[h].reg /\ Used(r) /\ AppFills(a, r)
           /\ ~CmdReads(r) /\ ~Checking(r)
           /\ reg[r].loaded => call[a].at = WorkOf(r)
           /\ ~reg[r].loaded =>
                call[a].at = [shared |-> FALSE, tbl |-> r, k |-> reg[r].active]
  BY <1>0, FillerTable
<1>2. PICK at \in Place : at = call[a].at /\ at.tbl = r
  <2>1. call[a].at \in Place
    BY DEF Links, Typed, CallRecord
  <2> QED BY <1>1, <2>1 DEF WorkOf
<1>3. /\ \/ reg' = reg /\ loadBuf' = loadBuf
         \/ \E img \in Images : Put(at, img)
      /\ \E pc \in {"failed", "good"} : call' = [call EXCEPT ![a].pc = pc]
      /\ UNCHANGED <<handle, val, dump, pool, cds, crit, up, cmd, fresh>>
  BY <1>2, TablesAssumption DEF LoadFill, Images
<1>4. \/ reg' = reg /\ Writes(at.k)
      \/ reg' = reg /\ loadBuf' = loadBuf
      \/ ~at.shared /\ Places(at.tbl, at.k)
  BY <1>3, PutEffect DEF Links
<1>5. Content
  BY LoadFillContent
<1>6. /\ call'[a].pc \in {"failed", "good"} /\ call'[a].h = h /\ call'[a].at = call[a].at
      /\ \A b \in Apps : b # a => call'[b] = call[b]
  BY <1>1, <1>3 DEF Links, Typed, CallRecord
<1>7. /\ \A q \in Tables : q # r => SameFills(q)
      /\ \A b \in Apps : b # a => (AppFills(b, r)' <=> AppFills(b, r))
  BY <1>1, <1>3, <1>5, <1>6, CallFills
<1>8. SameFills(r)
  <2>1. ASSUME NEW b \in Apps, AppFills(b, r)'
        PROVE  AppFills(b, r) /\ call'[b].at = call[b].at
    BY <1>1, <1>6, <1>7, <2>1
  <2>2. CmdReads(r)' => CmdReads(r) /\ cmd'.at = cmd.at
    BY <1>3 DEF CmdReads
  <2> QED BY <2>1, <2>2 DEF SameFills
<1>9. cmd'.pc = "read" => cmd'.r \in Tables
  BY <1>3 DEF Contents, OneFills
<1>10. reg[r].loaded => at = WorkOf(r)
  BY <1>1, <1>2
<1> QED BY <1>1, <1>2, <1>3, <1>4, <1>5, <1>7, <1>8, <1>9, <1>10, FillKeeps

(* Steps that change descriptors only. *)
LEMMA HandlesKeep ==
  ASSUME Links, Contents, Content, NEW r \in Tables, Used(r), Holding',
         cds' = cds \/ Copies(r, Active(r)), UNCHANGED <<reg, loadBuf, val, dump, call, cmd>>
  PROVE  Contents'
<1>1. \A q \in Tables : SameFills(q)
  BY StillFills
<1>2. Beside(r) /\ SameLoad(r) /\ SameRequests(r) /\ reg'[r].active = reg[r].active
  BY <1>1 DEF Beside, SameLoad, SameRequests
<1>3. Loading'
  BY <1>2, LoadingBeside DEF Contents, Loading
<1>4. OneFills'
  <2>1. FillsOf(r) /\ (CmdReads(r) => Served(r)') /\ reg'[r].kind = reg[r].kind
    BY DEF Contents, OneFills, FillsOf, Served, Owned, Content
  <2>2. FillsOf(r)'
    BY <1>1, <1>2, <2>1, FillsKept
  <2>3. cmd'.pc = "read" => cmd'.r \in Tables
    BY DEF Contents, OneFills
  <2> QED BY <1>2, <2>2, <2>3, FillsBeside DEF Contents
<1>5. Taking'
  BY <1>2, TakingBeside DEF Contents
<1>6. Dumps'
  BY <1>2, DumpsBeside DEF Contents
<1>7. Requesting'
  <2>1. Checking(r) => reg'[r].lip # NONE /\ ~reg'[r].pend /\ \A a \in Apps : ~AppFills(a, r)'
    BY <1>1 DEF Contents, Requesting, AsksOf, Checking, SameFills
  <2> QED BY <1>2, <2>1, AsksBeside DEF Contents
<1>8. Saved'
  <2>1. Active(r)' = Active(r)
    BY DEF Active
  <2> QED BY <1>2, <2>1, SavedBeside DEF Contents
<1> QED BY <1>3, <1>4, <1>5, <1>6, <1>7, <1>8 DEF Contents

LEMMA GetAddressKeeps ==
  ASSUME Links, Told, Contents, Orderly, NEW a \in Apps, NEW h \in Handles, GetAddress(a, h)
  PROVE  Contents'
<1>1. PICK r \in Tables : r = handle[h].reg /\ Used(r)
  BY UserTable DEF GetAddress, Calls
<1>2. UNCHANGED <<reg, loadBuf, val, dump, pool, cds, crit, up, call, cmd>>
  BY DEF GetAddress
<1>3. Content
  BY GetAddressContent
<1>4. /\ SameLinks(h) /\ handle'[h].lock /\ handle'[h].buf = reg[r].active
      /\ handle'[h].sure = reg[r].loaded
      /\ \A k \in Handles : k # h => handle'[k] = handle[k]
  BY <1>1, AddressEffect DEF Links
<1>5. Holding'
  <2> SUFFICES ASSUME NEW k \in Handles
               PROVE  HeldOf(k)'
    BY DEF Holding
  <2>1. CASE k = h
    <3>1. ~Double(r) => reg[r].active = 0
      BY <1>1 DEF Links, Working, Single
    <3> QED BY <1>1, <1>2, <1>4, <2>1, <3>1 DEF HeldOf, SameLinks, Double
  <2>2. CASE k # h
    <3>1. HeldOf(k) /\ handle'[k] = handle[k]
      BY <1>4, <2>2 DEF Contents, Holding
    <3> QED BY <1>2, <3>1 DEF HeldOf, Double
  <2> QED BY <2>1, <2>2
<1> QED BY <1>1, <1>2, <1>3, <1>5, HandlesKeep

LEMMA ReleaseAddressKeeps ==
  ASSUME Links, Told, Contents, Orderly, NEW a \in Apps, NEW h \in Handles, ReleaseAddress(a, h)
  PROVE  Contents'
<1>1. PICK r \in Tables : r = handle[h].reg /\ Used(r)
  BY UserTable DEF ReleaseAddress, Calls
<1>2. UNCHANGED <<reg, loadBuf, val, dump, pool, cds, crit, up, call, cmd>>
  BY DEF ReleaseAddress
<1>3. Content
  BY ReleaseAddressContent
<1>4. ~handle'[h].lock /\ \A k \in Handles : k # h => handle'[k] = handle[k]
  BY AddressEffect DEF Links
<1>5. Holding'
  <2> SUFFICES ASSUME NEW k \in Handles
               PROVE  HeldOf(k)'
    BY DEF Holding
  <2>1. CASE k = h
    BY <1>4, <2>1 DEF HeldOf
  <2>2. CASE k # h
    <3>1. HeldOf(k) /\ handle'[k] = handle[k]
      BY <1>4, <2>2 DEF Contents, Holding
    <3> QED BY <1>2, <3>1 DEF HeldOf, Double
  <2> QED BY <2>1, <2>2
<1> QED BY <1>1, <1>2, <1>3, <1>5, HandlesKeep

LEMMA ModifiedKeeps ==
  ASSUME Links, Told, Contents, Orderly, NEW a \in Apps, NEW h \in Handles, Modified(a, h)
  PROVE  Contents'
<1>1. PICK r \in Tables : r = handle[h].reg /\ Used(r)
  BY UserTable DEF Modified, Calls
<1>2. UNCHANGED <<reg, loadBuf, val, dump, pool, up, call, cmd>>
  BY DEF Modified
<1>3. Content
  BY ModifiedContent
<1>4. Copies(r, Active(r)) /\ \A k \in Handles : SameLinks(k) /\ SameHold(k)
  BY <1>1, ModifiedEffect DEF Links
<1>5. Holding'
  <2> SUFFICES ASSUME NEW k \in Handles
               PROVE  HeldOf(k)'
    BY DEF Holding
  <2>1. HeldOf(k) /\ SameLinks(k) /\ SameHold(k)
    BY <1>4 DEF Contents, Holding
  <2> QED BY <1>2, <2>1 DEF HeldOf, Double, SameLinks, SameHold
<1> QED BY <1>1, <1>2, <1>3, <1>4, <1>5, HandlesKeep

LEMMA LoadCmdBeginKeeps ==
  ASSUME Links, Told, Contents, Orderly, NEW n \in Names, LoadCmdBegin(n)
  PROVE  Contents'
<1>1. PICK r \in Find(n) :
         /\ n \notin DumpOnly /\ ~reg[r].pend /\ Serving(r)
         /\ WorkAvailable(r, FALSE) /\ TakeWork(r, FALSE)
         /\ cmd' = [pc |-> "read", r |-> r, at |-> WorkAt(r, FALSE)]
  BY DEF LoadCmdBegin
<1>2. /\ UNCHANGED <<handle, val, dump, pool, cds, crit, up, call, fresh>>
      /\ r \in Tables /\ Used(r) /\ Owned(r) /\ ~DumpKind(r)
  BY <1>1, NamedTable DEF LoadCmdBegin, DumpKind
<1>3. Content
  BY LoadCmdBeginContent
<1>4. /\ \A q \in Tables : q # r => SameFills(q)
      /\ \A b \in Apps : AppFills(b, r)' <=> AppFills(b, r)
  BY <1>1, <1>2, <1>3, CmdFills
<1>5. Idle(r) /\ reg[r].owner \in up
  BY <1>1, <1>2, QuietIdle
<1>6. \A a \in Apps : ~AppFills(a, r)'
  BY <1>4, <1>5 DEF Idle
<1>7. FillsOf(r)'
  <2>1. Served(r)' /\ ~DumpKind(r)' /\ (Double(r)' <=> Double(r))
    BY <1>2, <1>3, <1>5 DEF Content, SameUse, DumpKind, Served, Owned, Double
  <2>2. ~FirstLoad(r, FALSE)
    BY DEF FirstLoad
  <2>3. reg'[r].active = reg[r].active
    BY <1>1, <1>2, TakeWorkEffect DEF Links
  <2>4. \/ reg' = reg /\ reg[r].lip # NONE /\ WorkAt(r, FALSE) = WorkOf(r)
        \/ /\ Double(r) /\ reg'[r].lip = Inactive(r)
           /\ WorkAt(r, FALSE) = [shared |-> FALSE, tbl |-> r, k |-> Inactive(r)]
        \/ /\ ~Double(r) /\ reg'[r].lip \in Loads
           /\ WorkAt(r, FALSE) = [shared |-> TRUE, tbl |-> r, k |-> reg'[r].lip]
    BY <1>1, <1>2, <2>2, TakeWorkEffect DEF Links
  <2>5. Inactive(r) # NONE /\ NONE \notin Loads
    BY <1>2, Ranges, TableFields DEF TableTypes, Links, NONE
  <2>6. reg'[r].lip # NONE /\ WorkAt(r, FALSE) = WorkOf(r)'
    BY <2>1, <2>3, <2>4, <2>5 DEF WorkOf, Inactive
  <2>7. cmd'.at = WorkOf(r)'
    BY <1>1, <2>6
  <2> QED BY <1>6, <2>1, <2>6, <2>7 DEF FillsOf
<1>8. cmd'.pc = "read" => cmd'.r \in Tables
  BY <1>1, <1>2
<1> QED BY <1>1, <1>2, <1>3, <1>4, <1>6, <1>7, <1>8, TakeKeeps

LEMMA LoadCmdEndKeeps ==
  ASSUME Links, Told, Contents, Orderly, LoadCmdEnd
  PROVE  Contents'
<1>1. /\ cmd.pc = "read" /\ cmd' = IdleCmd
      /\ UNCHANGED <<handle, val, dump, pool, cds, crit, up, call, fresh>>
  BY DEF LoadCmdEnd
<1>2. PICK r \in Tables : r = cmd.r /\ CmdReads(r)
  BY <1>1 DEF Contents, OneFills, CmdReads
<1>3. Served(r) /\ reg[r].lip # NONE /\ cmd.at = WorkOf(r) /\ \A a \in Apps : ~AppFills(a, r)
  BY <1>2 DEF Contents, OneFills, FillsOf
<1>4. PICK at \in Place : at = cmd.at
  BY DEF Links, Typed, CmdRecord
<1>5. PICK img \in Images : SetValidated(at, img, Unvalidated(at)) \/ Put(at, img)
  BY <1>4, TablesAssumption DEF LoadCmdEnd, Images
<1>6. \/ reg' = reg /\ Writes(at.k)
      \/ reg' = reg /\ loadBuf' = loadBuf
      \/ ~at.shared /\ Places(at.tbl, at.k)
  BY <1>5, PutEffect DEF Links, Unvalidated
<1>7. Content
  BY LoadCmdEndContent
<1>8. /\ \A q \in Tables : q # r => SameFills(q)
      /\ \A b \in Apps : AppFills(b, r)' <=> AppFills(b, r)
      /\ ~CmdReads(r)' /\ cmd'.pc # "read"
  BY <1>1, <1>7, CmdFills DEF IdleCmd, CmdReads
<1>9. FillsOf(r)' /\ \A a \in Apps : ~AppFills(a, r)'
  <2>1. Idle(r)'
    BY <1>3, <1>8 DEF Idle
  <2> QED BY <1>3, <1>8, <2>1, IdleFills
<1>10. Used(r)
  BY <1>3 DEF Served, Owned, Links, AccessListExact, UsersOf, Used
<1>11. at.tbl = r /\ at = WorkOf(r)
  BY <1>3, <1>4 DEF WorkOf
<1> QED BY <1>1, <1>6, <1>7, <1>8, <1>9, <1>10, <1>11, FillKeeps

(* A command that edits the record of a table that nobody fills. *)
LEMMA CommandBeside ==
  ASSUME Links, Contents, Content, NEW r \in Tables, Edits(r), call' = call, cmd' = cmd, Idle(r)
  PROVE  /\ Beside(r) /\ OneFills' /\ Idle(r)'
         /\ \A q \in Tables : SameFills(q)
<1>1. \A q \in Tables : SameFills(q) /\ (Idle(q) => Idle(q)')
  BY StillFills
<1>2. Beside(r)
  BY <1>1, EditsBeside
<1>3. cmd'.pc = "read" => cmd'.r \in Tables
  BY DEF Contents, OneFills
<1>4. FillsOf(r)'
  BY <1>1, IdleFills
<1> QED BY <1>1, <1>2, <1>3, <1>4, FillsBeside DEF Contents

LEMMA ActivateCmdKeeps ==
  ASSUME Links, Told, Contents, Orderly, NEW n \in Names, ActivateCmd(n)
  PROVE  Contents'
<1>1. PICK r \in Find(n) : /\ n \notin DumpOnly /\ reg[r].lip # NONE /\ Serving(r)
                           /\ reg[r].valInactive = NONE
                           /\ reg' = [reg EXCEPT ![r].pend = TRUE]
  BY DEF ActivateCmd
<1>2. /\ UNCHANGED <<handle, loadBuf, val, dump, pool, cds, crit, up, call, cmd, fresh>>
      /\ r \in Tables /\ Used(r) /\ ~DumpKind(r)
  BY <1>1, NamedTable DEF ActivateCmd, DumpKind
<1>3. Content
  BY ActivateCmdContent
<1>4. /\ Edits(r) /\ SameRequests(r) /\ SameBuffers(r)
      /\ reg'[r].lip = reg[r].lip /\ reg'[r].pend /\ reg'[r].loaded = reg[r].loaded
  BY <1>1, <1>2, PendEdit DEF Links
<1>5. Beside(r) /\ OneFills'
  BY <1>1, <1>2, <1>3, <1>4, QuietIdle, CommandBeside
<1>6. Loading'
  BY <1>1, <1>2, <1>3, <1>4, <1>5, LoadingBeside DEF Contents
<1>7. Taking'
  BY <1>2, <1>3, <1>4, <1>5, TakingBeside DEF Contents
<1>8. Dumps'
  BY <1>2, <1>3, <1>4, <1>5, DumpsBeside DEF Contents, SameRequests
<1>9. Requesting'
  BY <1>1, <1>2, <1>3, <1>4, <1>5, AsksBeside DEF Contents, Checking
<1>10. Saved'
  <2>1. Active(r)' = Active(r)
    BY <1>4 DEF Active, SameBuffers
  <2> QED BY <1>2, <1>3, <1>4, <1>5, <2>1, SavedBeside DEF Contents
<1>11. Holding'
  BY <1>2, <1>3, <1>4, <1>5, HoldingBeside DEF Contents, SameHold, SameBuffers
<1> QED BY <1>5, <1>6, <1>7, <1>8, <1>9, <1>10, <1>11 DEF Contents

LEMMA AbortLoadCmdKeeps ==
  ASSUME Links, Told, Contents, Orderly, NEW n \in Names, AbortLoadCmd(n)
  PROVE  Contents'
<1>1. PICK r \in Find(n) : /\ n \notin DumpOnly /\ reg[r].lip # NONE /\ Serving(r)
                           /\ reg[r].valInactive = NONE
                           /\ reg' = [reg EXCEPT ![r] = Aborted(r)]
                           /\ loadBuf' = IF Double(r) THEN loadBuf ELSE Freed(reg[r].lip)
  BY DEF AbortLoadCmd
<1>2. /\ UNCHANGED <<handle, val, dump, pool, cds, crit, up, call, cmd, fresh>>
      /\ r \in Tables /\ Used(r) /\ ~DumpKind(r)
  BY <1>1, NamedTable DEF AbortLoadCmd, DumpKind
<1>3. Content
  BY AbortLoadCmdContent
<1>4. /\ Edits(r) /\ SameRequests(r) /\ SameBuffers(r)
      /\ reg'[r].lip = NONE /\ ~reg'[r].pend /\ reg'[r].loaded = reg[r].loaded
  BY <1>1, <1>2, AbortEdit DEF Links
<1>5. Beside(r) /\ OneFills'
  BY <1>1, <1>2, <1>3, <1>4, QuietIdle, CommandBeside
<1>6. Loading'
  BY <1>1, <1>2, <1>3, <1>4, <1>5, LoadingBeside DEF Contents
<1>7. Taking'
  <2>1. CASE Double(r)
    BY <1>1, <1>2, <1>3, <1>4, <1>5, <2>1, TakingBeside DEF Contents
  <2>2. CASE ~Double(r)
    <3>1. reg[r].lip \in Loads /\ Typed
      BY <1>1, <1>2, <2>2 DEF Links, Working, Single
    <3>2. Frees(reg[r].lip)
      BY <1>1, <2>2, <3>1, FreedEffect
    <3> QED BY <1>1, <1>2, <1>3, <1>4, <1>5, <2>2, <3>2, TakingBeside DEF Contents
  <2> QED BY <2>1, <2>2
<1>8. Dumps'
  BY <1>2, <1>3, <1>4, <1>5, DumpsBeside DEF Contents, SameRequests
<1>9. Requesting'
  BY <1>1, <1>2, <1>3, <1>4, <1>5, AsksBeside DEF Contents, Checking
<1>10. Saved'
  <2>1. Active(r)' = Active(r)
    BY <1>4 DEF Active, SameBuffers
  <2> QED BY <1>2, <1>3, <1>4, <1>5, <2>1, SavedBeside DEF Contents
<1>11. Holding'
  BY <1>2, <1>3, <1>4, <1>5, HoldingBeside DEF Contents, SameHold, SameBuffers
<1> QED BY <1>5, <1>6, <1>7, <1>8, <1>9, <1>10, <1>11 DEF Contents

(* Requests of table r are made or done, and its record is else as it was. *)
LEMMA AskedKeeps ==
  ASSUME Links, Contents, Content, NEW r \in Tables, Used(r), SameLoad(r), SameImages(r),
         reg'[r].dumpIndex = reg[r].dumpIndex, \A q \in Tables : q # r => reg'[q] = reg[q],
         \A b \in Loads : loadBuf'[b].taken = loadBuf[b].taken,
         UNCHANGED <<handle, dump, cds, call, cmd>>, AsksOf(r)',
         \A v \in Validations : val'[v] = "PENDING" =>
           (val[v] = "PENDING" /\ v \notin Asked(r)) \/ v \in Asked(r)'
  PROVE  Contents'
<1>1. \A q \in Tables : SameFills(q)
  BY StillFills
<1>2. Beside(r)
  BY <1>1 DEF Beside
<1>3. Loading'
  BY <1>2, LoadingBeside DEF Contents, Loading, SameLoad
<1>4. OneFills'
  <2>1. FillsOf(r) /\ (CmdReads(r) => Served(r)') /\ reg'[r].kind = reg[r].kind
    BY DEF Contents, OneFills, FillsOf, Served, Owned, Content, SameUse
  <2>2. FillsOf(r)'
    BY <1>1, <2>1, FillsKept DEF SameImages
  <2>3. cmd'.pc = "read" => cmd'.r \in Tables
    BY DEF Contents, OneFills
  <2> QED BY <1>2, <2>2, <2>3, FillsBeside DEF Contents
<1>5. Taking'
  BY <1>2, TakingBeside DEF Contents, SameLoad
<1>6. Dumps'
  BY <1>2, DumpsBeside DEF Contents, SameLoad
<1>7. Requesting'
  <2>1. ASSUME NEW q \in Tables, q # r
        PROVE  AsksOf(q)'
    <3>1. AsksOf(q) /\ reg'[q] = reg[q] /\ SameFills(q)
      BY <2>1, <1>2 DEF Beside, Contents, Requesting
    <3>2. Asked(q)' = Asked(q)
      BY <3>1 DEF Asked
    <3> QED BY <3>1, <3>2, AsksKept DEF AsksOf, Checking, SameFills
  <2>2. ASSUME NEW v \in Validations, val'[v] = "PENDING"
        PROVE  \E q \in Tables : v \in Asked(q)'
    <3>1. CASE v \in Asked(r)'
      BY <3>1
    <3>2. CASE val[v] = "PENDING" /\ v \notin Asked(r)
      <4>1. PICK q \in Tables : v \in Asked(q)
        BY <3>2 DEF Contents, Requesting
      <4>2. reg'[q] = reg[q]
        BY <3>2, <4>1
      <4> QED BY <4>1, <4>2 DEF Asked
    <3> QED BY <2>2, <3>1, <3>2
  <2> QED BY <2>1, <2>2 DEF Requesting
<1>8. Saved'
  <2>1. Active(r)' = Active(r)
    BY TableFields DEF Active, SameImages, Links, TableTypes
  <2> QED BY <1>2, <2>1, SavedBeside DEF Contents, SameLoad
<1>9. Holding'
  BY <1>2, HoldingBeside DEF Contents, SameHold, SameLoad, SameImages
<1> QED BY <1>3, <1>4, <1>5, <1>6, <1>7, <1>8, <1>9 DEF Contents

LEMMA ValidateCmdKeeps ==
  ASSUME Links, Told, Contents, Orderly, NEW n \in Names, NEW active \in BOOLEAN, ValidateCmd(n, active)
  PROVE  Contents'
<1>1. PICK r \in Find(n), v \in {w \in Validations : val[w] = "FREE"} :
        /\ IF active THEN TRUE ELSE Double(r) \/ reg[r].lip # NONE
        /\ Serving(r)
        /\ IF active THEN reg[r].valActive = NONE
           ELSE reg[r].valInactive = NONE /\ ~reg[r].pend /\ n \notin DumpOnly
        /\ val' = [val EXCEPT ![v] = IF n \in Validating THEN "PENDING" ELSE "PERFORMED"]
        /\ reg' = IF n \notin Validating THEN reg
                  ELSE IF active THEN [reg EXCEPT ![r].valActive = v]
                  ELSE [reg EXCEPT ![r].valInactive = v]
  BY DEF ValidateCmd
<1>2. /\ UNCHANGED <<handle, loadBuf, dump, pool, cds, crit, up, call, cmd, fresh>>
      /\ r \in Tables /\ Used(r) /\ Owned(r) /\ reg[r].kind = n /\ v \in Validations
      /\ val[v] = "FREE" /\ v # NONE
  BY <1>1, NamedTable, Ranges DEF ValidateCmd
<1>3. Content
  BY ValidateCmdContent
<1>4. Idle(r) /\ Served(r) /\ Served(r)' /\ (Double(r)' <=> Double(r)) /\ (DumpKind(r)' <=> DumpKind(r))
  BY <1>1, <1>2, <1>3, QuietIdle DEF Served, Owned, Content, SameUse, Double, DumpKind
<1>5. \A q \in Tables : SameFills(q) /\ (Idle(q) => Idle(q)')
  BY <1>2, <1>3, StillFills
<1>10. \A a \in Apps : ~AppFills(a, r)'
  BY <1>2, <1>4, <1>5 DEF Idle
<1>6. AsksOf(r) /\ Typed
  BY <1>2 DEF Contents, Requesting, Links
<1>7. CASE reg' = reg /\ n \notin Validating
  <2>1. \A w \in Validations : val'[w] = "PENDING" => val[w] = "PENDING"
    <3>1. val'[v] = "PERFORMED" /\ \A w \in Validations : w # v => val'[w] = val[w]
      BY <1>1, <1>2, <1>6, <1>7 DEF Typed
    <3> QED BY <3>1
  <2>2. AsksOf(r)'
    <3>1. Asked(r)' \subseteq Asked(r) \union {NONE}
      BY <1>7 DEF Asked
    <3>2. Checking(r) => reg'[r].lip # NONE /\ ~reg'[r].pend
      BY <1>6, <1>7 DEF Checking, AsksOf
    <3> QED BY <1>2, <1>3, <1>6, <1>7, <1>10, <3>1, <3>2, AsksKept
  <2>3. SameLoad(r) /\ SameImages(r) /\ Asked(r)' = Asked(r)
    BY <1>7 DEF SameLoad, SameImages, Asked
  <2> QED BY <1>2, <1>3, <1>7, <2>1, <2>2, <2>3, AskedKeeps
<1>8. CASE active /\ reg' = [reg EXCEPT ![r].valActive = v]
  <2>1. /\ Edits(r) /\ SameLoad(r) /\ SameBuffers(r)
        /\ reg'[r].valActive = v /\ reg'[r].valInactive = reg[r].valInactive
        /\ reg'[r].dumpIndex = reg[r].dumpIndex
    BY <1>2, <1>6, <1>8, AskEdit
  <2>2. reg[r].valActive = NONE
    BY <1>1, <1>8
  <2>3. AsksOf(r)'
    <3>1. reg'[r].valInactive # NONE =>
            /\ ~DumpKind(r)'
            /\ ~Double(r)' => /\ reg'[r].lip # NONE /\ ~reg'[r].pend
                              /\ \A a \in Apps : ~AppFills(a, r)'
      <4>1. reg[r].valInactive # NONE =>
              ~DumpKind(r) /\ (~Double(r) => reg[r].lip # NONE /\ ~reg[r].pend)
        BY <1>6 DEF AsksOf
      <4>2. reg'[r].lip = reg[r].lip /\ reg'[r].pend = reg[r].pend
        BY <2>1 DEF SameLoad
      <4> HIDE DEF DumpKind, Double
      <4> QED BY <1>4, <1>10, <2>1, <4>1, <4>2
    <3> QED BY <1>4, <3>1 DEF AsksOf
  <2>4. \A w \in Validations : val'[w] = "PENDING" =>
           (val[w] = "PENDING" /\ w \notin Asked(r)) \/ w \in Asked(r)'
    <3> TAKE w \in Validations
    <3>1. w # v => val'[w] = val[w]
      BY <1>1, <1>2, <1>6 DEF Typed
    <3>2. w # NONE
      BY Ranges
    <3> QED BY <2>1, <2>2, <3>1, <3>2 DEF Asked
  <2>5. SameImages(r)
    BY <2>1 DEF SameBuffers, SameImages
  <2> QED BY <1>2, <1>3, <2>1, <2>3, <2>4, <2>5, AskedKeeps DEF Edits
<1>9. CASE ~active /\ reg' = [reg EXCEPT ![r].valInactive = v]
  <2>1. /\ Edits(r) /\ SameLoad(r) /\ SameBuffers(r)
        /\ reg'[r].valActive = reg[r].valActive /\ reg'[r].valInactive = v
        /\ reg'[r].dumpIndex = reg[r].dumpIndex
    BY <1>2, <1>6, <1>9, AskEdit
  <2>2. /\ reg[r].valInactive = NONE /\ ~reg[r].pend /\ ~DumpKind(r)
        /\ Double(r) \/ reg[r].lip # NONE
    BY <1>1, <1>2, <1>9 DEF DumpKind
  <2>3. AsksOf(r)'
    <3>1. /\ ~DumpKind(r)'
          /\ ~Double(r)' => /\ reg'[r].lip # NONE /\ ~reg'[r].pend
                            /\ \A a \in Apps : ~AppFills(a, r)'
      <4>1. reg'[r].lip = reg[r].lip /\ reg'[r].pend = reg[r].pend
        BY <2>1 DEF SameLoad
      <4> QED BY <1>4, <1>10, <2>2, <4>1
    <3> QED BY <1>4, <3>1 DEF AsksOf
  <2>4. \A w \in Validations : val'[w] = "PENDING" =>
           (val[w] = "PENDING" /\ w \notin Asked(r)) \/ w \in Asked(r)'
    <3> TAKE w \in Validations
    <3>1. w # v => val'[w] = val[w]
      BY <1>1, <1>2, <1>6 DEF Typed
    <3>2. w # NONE
      BY Ranges
    <3> QED BY <2>1, <2>2, <3>1, <3>2 DEF Asked
  <2>5. SameImages(r)
    BY <2>1 DEF SameBuffers, SameImages
  <2> QED BY <1>2, <1>3, <2>1, <2>3, <2>4, <2>5, AskedKeeps DEF Edits
<1> QED BY <1>1, <1>7, <1>8, <1>9

LEMMA ValidateKeeps ==
  ASSUME Links, Told, Contents, Orderly, NEW a \in Apps, NEW h \in Handles, Validate(a, h)
  PROVE  Contents'
<1>1. PICK r \in Tables : r = handle[h].reg /\ Used(r) /\ (ValidatesInactive(r) \/ ValidatesActive(r))
  BY ValidateEffect
<1>2. UNCHANGED <<handle, dump, pool, cds, crit, up, call, cmd, fresh>>
  BY ZenonT(30) DEF Validate
<1>3. Content
  BY ValidateContent
<1>4. /\ Edits(r) /\ SameLoad(r) /\ SameImages(r) /\ reg'[r].dumpIndex = reg[r].dumpIndex
      /\ \A b \in Loads : loadBuf'[b].taken = loadBuf[b].taken
      /\ Asked(r)' \subseteq Asked(r) \union {NONE} /\ reg'[r].valInactive = NONE
  BY <1>1 DEF ValidatesInactive, ValidatesActive, Writes, Asked
<1>5. \A q \in Tables : SameFills(q)
  BY <1>2, <1>3, StillFills
<1>6. AsksOf(r) /\ val \in [Validations -> {"FREE", "PENDING", "PERFORMED"}]
  BY DEF Contents, Requesting, Links, Typed
<1>7. AsksOf(r)'
  BY <1>3, <1>4, <1>5, <1>6, AsksKept DEF AsksOf, Checking, SameLoad, SameFills
<1>8. \A w \in Validations : val'[w] = "PENDING" =>
         (val[w] = "PENDING" /\ w \notin Asked(r)) \/ w \in Asked(r)'
  <2> TAKE w \in Validations
  <2>1. w # NONE
    BY Ranges
  <2>2. CASE ValidatesInactive(r)
    <3>1. w # reg[r].valInactive => val'[w] = val[w]
      BY <1>6, <2>2 DEF ValidatesInactive
    <3>2. w = reg[r].valInactive => val'[w] = "PERFORMED"
      BY <1>6, <2>2 DEF ValidatesInactive
    <3> QED BY <2>1, <2>2, <3>1, <3>2 DEF Asked, ValidatesInactive
  <2>3. CASE ValidatesActive(r)
    <3>1. w # reg[r].valActive => val'[w] = val[w]
      BY <1>6, <2>3 DEF ValidatesActive
    <3>2. w = reg[r].valActive => val'[w] = "PERFORMED"
      BY <1>6, <2>3 DEF ValidatesActive
    <3> QED BY <2>1, <2>3, <3>1, <3>2 DEF Asked, ValidatesActive
  <2> QED BY <1>1, <2>2, <2>3
<1> QED BY <1>1, <1>2, <1>3, <1>4, <1>7, <1>8, AskedKeeps DEF Edits

LEMMA DumpCmdKeeps ==
  ASSUME Links, Told, Contents, Orderly, NEW n \in Names, DumpCmd(n)
  PROVE  Contents'
<1>1. PICK r \in Tables, i \in Loads, b \in Loads : DumpBegins(n, r, i, b)
  BY DumpCmdEffect
<1>2. /\ Used(r) /\ Owned(r) /\ ~Double(r) /\ DumpKind(r) /\ reg[r].kind = n
      /\ dump[i].st = "FREE" /\ reg[r].dumpIndex = NONE
      /\ Serving(r) /\ reg[r].lip = NONE /\ ~loadBuf[b].taken
      /\ dump' = [dump EXCEPT ![i] = [st |-> "PENDING", r |-> r, b |-> b]]
      /\ loadBuf' = [loadBuf EXCEPT ![b].taken = TRUE, ![b].img = Active(r)]
      /\ reg' = [reg EXCEPT ![r].lip = b, ![r].dumpIndex = i]
  BY <1>1 DEF DumpBegins, DumpKind
<1>3. UNCHANGED <<handle, val, pool, cds, crit, up, call, cmd, fresh>>
  BY DEF DumpCmd
<1>4. Content /\ Typed
  BY DumpCmdContent DEF Links
<1>5. Edits(r) /\ SameBuffers(r) /\ reg'[r].dumpIndex = i /\ reg'[r].lip = b
      /\ reg'[r].valActive = reg[r].valActive /\ reg'[r].valInactive = reg[r].valInactive
      /\ reg'[r].pend = reg[r].pend /\ reg'[r].loaded = reg[r].loaded
  <2>1. i \in Loads \union {NONE} /\ b \in {NONE, 0, 1} \union Loads
    OBVIOUS
  <2> QED BY <1>2, <1>4, <2>1, DumpEdit
<1>6. Idle(r) /\ Served(r)
  BY <1>2, QuietIdle DEF Served
<1>7. Beside(r) /\ OneFills' /\ Idle(r)' /\ \A q \in Tables : SameFills(q)
  BY <1>3, <1>4, <1>5, <1>6, CommandBeside
<1>8. ~reg[r].pend /\ ~Checking(r) /\ AsksOf(r) /\ reg[r].kind \notin Critical
  <2>1. ~reg[r].pend
    BY <1>2 DEF Contents, Loading
  <2>2. AsksOf(r)
    BY DEF Contents, Requesting
  <2>3. ~Checking(r)
    BY <1>2, <2>2 DEF AsksOf, Checking
  <2>4. reg[r].kind \notin Critical
    BY <1>2, TablesAssumption DEF DumpKind
  <2> QED BY <2>1, <2>2, <2>3, <2>4
<1>9. Loading'
  BY <1>4, <1>5, <1>7, <1>8, LoadingBeside DEF Contents
<1>10. Taking'
  <2>1. /\ loadBuf'[b].taken
        /\ \A j \in Loads : j # b => loadBuf'[j].taken = loadBuf[j].taken
    BY <1>2, <1>4 DEF Typed
  <2>2. \E c \in Loads :
              /\ ~Double(r) /\ reg[r].lip = NONE /\ ~loadBuf[c].taken
              /\ reg'[r].lip = c /\ loadBuf'[c].taken
              /\ \A j \in Loads : j # c => loadBuf'[j].taken = loadBuf[j].taken
    BY <1>2, <1>5, <2>1
  <2> QED BY <1>2, <1>4, <1>7, <2>2, TakingBeside DEF Contents
<1>11. Dumps'
  <2>1. \A q \in Tables : /\ DumpKind(q)' <=> DumpKind(q)
                          /\ Used(q)' <=> Used(q)
                          /\ Served(q)' <=> Served(q)
                          /\ q # r => reg'[q] = reg[q]
    BY <1>4, <1>7 DEF Beside, Content, SameUse, DumpKind, Used, Served, Owned
  <2>2. /\ dump'[i].st = "PENDING" /\ dump'[i].r = r /\ dump'[i].b = b
        /\ \A j \in Loads : j # i => dump'[j] = dump[j]
    BY <1>2, <1>4 DEF Typed, DumpRecord
  <2>3. \A j \in Loads : dump[j].st # "FREE" => dump[j].r # r
    BY <1>2 DEF Contents, Dumps, DumpOwned
  <2>4. NONE \notin Loads
    BY Ranges
  <2>5. ASSUME NEW j \in Loads
        PROVE  DumpOwned(j)'
    <3>1. CASE j = i
      <4>1. \A k \in Loads : dump'[k].st # "FREE" /\ dump'[k].r = r => k = i
        BY <2>2, <2>3
      <4>2. Served(r)' /\ DumpKind(r)'
        BY <1>2, <1>6, <2>1
      <4>3. b # NONE /\ reg'[r].lip = dump'[i].b /\ reg'[r].dumpIndex = i
        BY <1>5, <2>2, <2>4
      <4>4. dump'[j] = dump'[i]
        BY <3>1
      <4> HIDE DEF Served, DumpKind
      <4> QED BY <2>2, <3>1, <4>1, <4>2, <4>3 DEF DumpOwned
    <3>2. CASE j # i
      <4>1. DumpOwned(j)
        BY DEF Contents, Dumps
      <4>2. SUFFICES ASSUME dump[j].st # "FREE"
                     PROVE  DumpOwned(j)'
        BY <2>2, <3>2 DEF DumpOwned
      <4>3. dump[j].r # r
        BY <2>3, <4>2
      <4>4. \A k \in Loads : dump'[k].st # "FREE" /\ dump'[k].r = dump[j].r => k = j
        BY <2>2, <4>1, <4>2, <4>3 DEF DumpOwned
      <4> QED BY <2>1, <2>2, <3>2, <4>1, <4>2, <4>3, <4>4 DEF DumpOwned
    <3> QED BY <3>1, <3>2
  <2>6. ASSUME NEW q \in Tables
        PROVE  DumpsOf(q)'
    <3>1. CASE q = r
      BY <1>5, <2>2, <3>1 DEF DumpsOf
    <3>2. CASE q # r
      <4>1. DumpsOf(q) /\ reg'[q] = reg[q]
        BY <2>1, <3>2 DEF Contents, Dumps
      <4>2. \A j \in Loads : dump[j].st # "FREE" => dump'[j] = dump[j]
        BY <1>2, <2>2
      <4>3. reg[q].dumpIndex # NONE => reg[q].dumpIndex \in Loads
        BY TableFields, <1>4 DEF TableTypes
      <4> QED BY <2>1, <4>1, <4>2, <4>3 DEF DumpsOf
    <3> QED BY <3>1, <3>2
  <2> QED BY <2>5, <2>6 DEF Dumps
<1>12. Requesting'
  <2>1. \A q \in Tables : Asked(q)' = Asked(q)
    BY <1>5, <1>7 DEF Beside, Asked
  <2>2. ASSUME NEW q \in Tables
        PROVE  AsksOf(q)'
    <3>1. AsksOf(q) /\ SameFills(q) /\ (q # r => reg'[q] = reg[q])
      BY <1>7 DEF Beside, Contents, Requesting
    <3>2. reg'[q].valInactive = reg[q].valInactive
      BY <1>5, <3>1
    <3>3. Checking(q) => reg'[q].lip # NONE /\ ~reg'[q].pend /\ \A a \in Apps : ~AppFills(a, q)'
      BY <1>8, <3>1 DEF AsksOf, Checking, SameFills
    <3> QED BY <1>4, <2>1, <3>1, <3>2, <3>3, AsksKept
  <2> QED BY <1>3, <2>1, <2>2 DEF Contents, Requesting
<1>13. Saved'
  BY <1>3, <1>4, <1>7, <1>8, <1>2, SavedBeside DEF Contents
<1>14. Holding'
  BY <1>2, <1>3, <1>4, <1>5, <1>7, HoldingBeside DEF Contents, SameHold
<1> QED BY <1>7, <1>9, <1>10, <1>11, <1>12, <1>13, <1>14 DEF Contents

LEMMA FillsStill ==
  ASSUME Links, Content, OneFills, call' = call, cmd' = cmd,
         \A q \in Tables : Idle(q) \/ (SameLoad(q) /\ reg'[q].active = reg[q].active)
  PROVE  OneFills'
<1>1. \A q \in Tables : SameFills(q) /\ (Idle(q) => Idle(q)')
  BY StillFills
<1>2. ASSUME NEW q \in Tables
      PROVE  FillsOf(q)'
  <2>1. CASE Idle(q)
    BY <1>1, <2>1, IdleFills
  <2>2. CASE SameLoad(q) /\ reg'[q].active = reg[q].active
    <3>1. FillsOf(q) /\ (CmdReads(q) => Served(q)') /\ reg'[q].kind = reg[q].kind
      BY DEF OneFills, FillsOf, Served, Owned, Content, SameUse
    <3> QED BY <1>1, <2>2, <3>1, FillsKept
  <2> QED BY <2>1, <2>2
<1> QED BY <1>2 DEF OneFills

LEMMA AsksStill ==
  ASSUME Links, Content, Requesting, call' = call, cmd' = cmd,
         \A v \in Validations : val'[v] = "PENDING" => val[v] = "PENDING",
         \A q \in Tables : /\ reg'[q].valActive = reg[q].valActive
                           /\ reg'[q].valInactive = reg[q].valInactive
                           /\ Checking(q) => SameLoad(q)
  PROVE  Requesting'
<1>1. \A q \in Tables : Asked(q)' = Asked(q)
  BY DEF Asked
<1>2. ASSUME NEW q \in Tables
      PROVE  AsksOf(q)'
  <2>1. AsksOf(q) /\ SameFills(q)
    BY StillFills DEF Requesting
  <2>2. Checking(q) => reg'[q].lip # NONE /\ ~reg'[q].pend /\ \A a \in Apps : ~AppFills(a, q)'
    BY <2>1 DEF AsksOf, Checking, SameFills, SameLoad
  <2> QED BY <1>1, <2>1, <2>2, AsksKept
<1> QED BY <1>1, <1>2 DEF Requesting

LEMMA DumpToBufferKeeps ==
  ASSUME Links, Told, Contents, Orderly, NEW a \in Apps, NEW h \in Handles, DumpToBuffer(a, h)
  PROVE  Contents'
<1>1. PICK r \in Tables : r = handle[h].reg /\ Used(r)
  BY ZenonT(30), UserTable DEF DumpToBuffer, Calls
<1>2. /\ reg[r].dumpIndex # NONE
      /\ dump' = [dump EXCEPT ![reg[r].dumpIndex].st = "PERFORMED"]
      /\ loadBuf' = [loadBuf EXCEPT ![dump[reg[r].dumpIndex].b].img = Active(r)]
      /\ reg' = [reg EXCEPT ![r].dumpIndex = NONE]
      /\ UNCHANGED <<handle, val, pool, cds, crit, up, call, cmd, fresh>>
  BY ZenonT(30), <1>1 DEF DumpToBuffer
<1>3. Content /\ Typed
  BY DumpToBufferContent DEF Links
<1>4. PICK i \in Loads : i = reg[r].dumpIndex
  BY <1>2, <1>3, TableFields DEF TableTypes
<1>5. /\ Edits(r) /\ SameBuffers(r) /\ reg'[r].dumpIndex = NONE /\ reg'[r].lip = reg[r].lip
      /\ reg'[r].valActive = reg[r].valActive /\ reg'[r].valInactive = reg[r].valInactive
      /\ reg'[r].pend = reg[r].pend /\ reg'[r].loaded = reg[r].loaded
  <2>1. PICK l \in {NONE, 0, 1} \union Loads : l = reg[r].lip
    BY <1>3, TableFields DEF TableTypes
  <2>2. NONE \in Loads \union {NONE}
    OBVIOUS
  <2> QED BY <1>2, <1>3, <2>1, <2>2, DumpEdit
<1>6. \A q \in Tables : SameFills(q)
  BY <1>2, <1>3, StillFills
<1>7. Beside(r) /\ SameLoad(r)
  BY <1>5, <1>6, EditsBeside DEF SameLoad
<1>8. Loading'
  BY <1>3, <1>7, LoadingBeside DEF Contents, Loading, SameLoad
<1>9. OneFills'
  BY <1>2, <1>3, <1>5, <1>7, FillsStill DEF Contents, Beside, SameLoad, SameBuffers
<1>10. Taking'
  <2>1. \A b \in Loads : loadBuf'[b].taken = loadBuf[b].taken
    BY <1>2, <1>3 DEF Typed
  <2> QED BY <1>1, <1>3, <1>5, <1>7, <2>1, TakingBeside DEF Contents
<1>11. Dumps'
  <2>1. \A q \in Tables : /\ DumpKind(q)' <=> DumpKind(q)
                          /\ Used(q)' <=> Used(q)
                          /\ Served(q)' <=> Served(q)
                          /\ q # r => reg'[q] = reg[q]
    BY <1>3, <1>7 DEF Beside, Content, SameUse, DumpKind, Used, Served, Owned
  <2>2. /\ dump'[i].st = "PERFORMED" /\ dump'[i].r = dump[i].r /\ dump'[i].b = dump[i].b
        /\ \A j \in Loads : j # i => dump'[j] = dump[j]
    BY <1>2, <1>3, <1>4 DEF Typed, DumpRecord
  <2>3. dump[i].st # "FREE" /\ dump[i].r = r
    BY <1>2, <1>4 DEF Contents, Dumps, DumpsOf
  <2>4. \A j \in Loads : dump[j].st # "FREE" /\ dump[j].r = r => j = i
    BY <2>3 DEF Contents, Dumps, DumpOwned
  <2>5. NONE \notin Loads
    BY Ranges
  <2>6. \A j \in Loads : /\ dump'[j].st # "FREE" <=> dump[j].st # "FREE"
                         /\ dump'[j].r = dump[j].r /\ dump'[j].b = dump[j].b
    BY <2>2, <2>3
  <2>7. ASSUME NEW j \in Loads, dump'[j].st # "FREE"
        PROVE  DumpOwned(j)'
    <3>1. /\ dump[j].r \in Tables /\ Served(dump[j].r) /\ DumpKind(dump[j].r)
          /\ dump[j].b # NONE /\ reg[dump[j].r].lip = dump[j].b
          /\ dump[j].st = "PENDING" <=> reg[dump[j].r].dumpIndex = j
          /\ \A k \in Loads : dump[k].st # "FREE" /\ dump[k].r = dump[j].r => k = j
      BY <2>6, <2>7 DEF Contents, Dumps, DumpOwned
    <3>2. PICK q \in Tables : q = dump[j].r
      BY <3>1
    <3>3. reg'[q].lip = dump'[j].b /\ dump'[j].b # NONE /\ dump'[j].r = q
      BY <1>5, <2>1, <2>6, <3>1, <3>2
    <3>4. dump'[j].st = "PENDING" <=> reg'[q].dumpIndex = j
      <4>1. CASE j = i
        BY <1>5, <2>2, <2>3, <2>5, <3>2, <4>1
      <4>2. CASE j # i
        <5>1. q # r
          BY <2>4, <2>6, <2>7, <3>2, <4>2
        <5> QED BY <2>1, <2>2, <3>1, <3>2, <4>2, <5>1
      <4> QED BY <4>1, <4>2
    <3>5. \A k \in Loads : dump'[k].st # "FREE" /\ dump'[k].r = q => k = j
      BY <2>6, <3>1, <3>2
    <3>6. Served(q)' /\ DumpKind(q)'
      BY <2>1, <3>1, <3>2
    <3> HIDE DEF Served, DumpKind
    <3> QED BY <3>3, <3>4, <3>5, <3>6 DEF DumpOwned
  <2>8. ASSUME NEW q \in Tables
        PROVE  DumpsOf(q)'
    <3>1. DumpsOf(q)
      BY DEF Contents, Dumps
    <3>2. reg'[q].lip = reg[q].lip /\ reg'[q].dumpIndex \in {reg[q].dumpIndex, NONE}
      BY <1>5, <2>1
    <3>3. reg[q].dumpIndex # NONE => reg[q].dumpIndex \in Loads
      BY <1>3, TableFields DEF TableTypes
    <3>4. reg'[q].dumpIndex # NONE =>
            dump'[reg'[q].dumpIndex].st # "FREE" /\ dump'[reg'[q].dumpIndex].r = q
      BY <2>6, <3>1, <3>2, <3>3 DEF DumpsOf
    <3>5. Used(q) /\ DumpKind(q) /\ reg'[q].lip # NONE =>
            \E j \in Loads : dump'[j].st # "FREE" /\ dump'[j].r = q
      BY <2>6, <3>1, <3>2 DEF DumpsOf
    <3> QED BY <2>1, <3>4, <3>5 DEF DumpsOf
  <2>9. \A j \in Loads : DumpOwned(j)'
    BY <2>7 DEF DumpOwned
  <2> QED BY <2>8, <2>9 DEF Dumps
<1>12. Requesting'
  BY <1>2, <1>3, <1>5, <1>7, AsksStill DEF Contents, Beside, SameLoad
<1>13. Saved'
  <2>1. Active(r)' = Active(r)
    BY <1>5 DEF Active, SameBuffers
  <2> QED BY <1>2, <1>3, <1>5, <1>7, <2>1, SavedBeside DEF Contents
<1>14. Holding'
  BY <1>2, <1>3, <1>5, <1>7, HoldingBeside DEF Contents, SameHold, SameBuffers
<1> QED BY <1>8, <1>9, <1>10, <1>11, <1>12, <1>13, <1>14 DEF Contents

LEMMA HousekeepingKeeps ==
  ASSUME Links, Told, Contents, Orderly, Housekeeping
  PROVE  Contents'
<1>1. UNCHANGED <<handle, pool, cds, crit, up, call, cmd, fresh>>
  BY DEF Housekeeping
<1>2. Content /\ Typed
  BY HousekeepingContent DEF Links
<1>3. \A q \in Tables :
        /\ SameUse(q) /\ SameRequests(q) /\ SameBuffers(q)
        /\ reg'[q].pend = reg[q].pend /\ reg'[q].loaded = reg[q].loaded
        /\ reg'[q].lip = IF q \in Ended THEN NONE ELSE reg[q].lip
  BY <1>2, HousekeepingEffect
<1>4. \A i \in Loads : dump'[i] = IF i \in Written THEN FreeDump ELSE dump[i]
  BY <1>2, HousekeepingEffect
<1>5. \A v \in Validations : val'[v] = "PENDING" => val[v] = "PENDING"
  BY <1>2, HousekeepingEffect
<1>6. \A b \in Loads : IF b \in {reg[q].lip : q \in Ended}
                         THEN ~loadBuf'[b].taken ELSE loadBuf'[b] = loadBuf[b]
  BY <1>2, HousekeepingEffect
<1>7. \A q \in Tables : /\ DumpKind(q)' <=> DumpKind(q)
                        /\ Used(q)' <=> Used(q)
                        /\ Served(q)' <=> Served(q)
                        /\ Double(q)' <=> Double(q)
  BY <1>1, <1>3 DEF SameUse, DumpKind, Used, Served, Owned, Double
<1>8. ASSUME NEW i \in Written
      PROVE  /\ i \in Loads /\ dump[i].st = "PERFORMED"
             /\ dump[i].r \in Ended /\ dump[i].r \in Tables /\ DumpKind(dump[i].r)
  BY DEF Written, Ended, Contents, Dumps, DumpOwned
<1>9. \A q \in Ended : q \in Tables /\ DumpKind(q) /\ \E i \in Written : dump[i].r = q
  BY <1>8 DEF Ended
<1>10. \A q \in Ended : Single(q)
  <2> TAKE q \in Ended
  <2>1. PICK i \in Written : dump[i].r = q
    BY <1>9
  <2>2. Served(q)
    BY <1>8, <2>1 DEF Contents, Dumps, DumpOwned
  <2>3. Used(q)
    BY <1>9, <2>2 DEF Served, Owned, Links, AccessListExact, UsersOf, Used
  <2> QED BY <1>9, <2>3, TablesAssumption DEF Single, Double, DumpKind
<1>11. Loading'
  <2> SUFFICES ASSUME NEW q \in Tables, reg'[q].pend
               PROVE  reg'[q].lip # NONE /\ ~DumpKind(q)'
    BY DEF Loading
  <2>1. reg[q].pend
    BY <1>3
  <2> QED BY <1>3, <1>7, <1>9, <2>1 DEF Contents, Loading
<1>12. OneFills'
  <2>1. ASSUME NEW q \in Tables
        PROVE  Idle(q) \/ (SameLoad(q) /\ reg'[q].active = reg[q].active)
    <3>1. CASE q \in Ended
      BY <1>9, <3>1 DEF Contents, OneFills, FillsOf, Idle
    <3>2. CASE q \notin Ended
      BY <1>3, <3>2 DEF SameLoad, SameBuffers
    <3> QED BY <3>1, <3>2
  <2> QED BY <1>1, <1>2, <2>1, FillsStill DEF Contents
<1>13. Taking'
  <2>1. \A q \in Tables : (Single(q)' <=> Single(q))
    BY <1>7 DEF Single
  <2>2. ASSUME NEW q \in Tables, Single(q), reg'[q].lip # NONE
        PROVE  /\ reg'[q].lip = reg[q].lip /\ reg[q].lip \in Loads
               /\ reg[q].lip \notin {reg[p].lip : p \in Ended}
    <3>1. q \notin Ended /\ reg'[q].lip = reg[q].lip
      BY <1>3, <2>2
    <3>2. reg[q].lip \in Loads
      BY <2>2, <3>1 DEF Links, Working
    <3>3. \A p \in Ended : reg[p].lip # reg[q].lip
      BY <1>9, <1>10, <2>2, <3>1 DEF Contents, Taking
    <3> QED BY <3>1, <3>2, <3>3
  <2>3. ASSUME NEW q \in Tables, Single(q)', reg'[q].lip # NONE
        PROVE  loadBuf'[reg'[q].lip].taken
    <3>1. loadBuf[reg[q].lip].taken
      BY <2>1, <2>2, <2>3 DEF Contents, Taking
    <3>2. loadBuf'[reg[q].lip] = loadBuf[reg[q].lip]
      BY <1>6, <2>1, <2>2, <2>3
    <3> QED BY <2>1, <2>2, <2>3, <3>1, <3>2
  <2>4. ASSUME NEW p \in Tables, NEW q \in Tables, Single(p)', Single(q)', p # q, reg'[p].lip # NONE
        PROVE  reg'[p].lip # reg'[q].lip
    <3>1. CASE reg'[q].lip = NONE
      BY <2>4, <3>1
    <3>2. CASE reg'[q].lip # NONE
      BY <2>1, <2>2, <2>4, <3>2 DEF Contents, Taking
    <3> QED BY <3>1, <3>2
  <2>5. ASSUME NEW b \in Loads, loadBuf'[b].taken
        PROVE  \E q \in Tables : Single(q)' /\ reg'[q].lip = b
    <3>1. b \notin {reg[q].lip : q \in Ended} /\ loadBuf[b].taken
      BY <1>6, <2>5
    <3>2. PICK q \in Tables : Single(q) /\ reg[q].lip = b
      BY <3>1 DEF Contents, Taking
    <3> QED BY <1>3, <2>1, <3>1, <3>2
  <2> QED BY <2>3, <2>4, <2>5 DEF Taking
<1>14. Dumps'
  <2>1. ASSUME NEW j \in Loads, dump'[j].st # "FREE"
        PROVE  DumpOwned(j)'
    <3>1. j \notin Written /\ dump'[j] = dump[j]
      BY <1>4, <2>1 DEF FreeDump
    <3>2. /\ dump[j].r \in Tables /\ Served(dump[j].r) /\ DumpKind(dump[j].r)
          /\ dump[j].b # NONE /\ reg[dump[j].r].lip = dump[j].b
          /\ dump[j].st = "PENDING" <=> reg[dump[j].r].dumpIndex = j
          /\ \A k \in Loads : dump[k].st # "FREE" /\ dump[k].r = dump[j].r => k = j
      BY <2>1, <3>1 DEF Contents, Dumps, DumpOwned
    <3>3. PICK q \in Tables : q = dump[j].r
      BY <3>2
    <3>4. q \notin Ended
      <4>1. SUFFICES ASSUME NEW i \in Written, dump[i].r = q
                     PROVE  FALSE
        BY <1>9
      <4>2. i = j
        BY <1>8, <3>2, <3>3, <4>1
      <4> QED BY <3>1, <4>2
    <3>5. reg'[q].lip = reg[q].lip /\ reg'[q].dumpIndex = reg[q].dumpIndex
      BY <1>3, <3>4 DEF SameRequests
    <3>6. \A k \in Loads : dump'[k].st # "FREE" /\ dump'[k].r = q => k = j
      BY <1>4, <3>2, <3>3 DEF FreeDump
    <3>7. Served(q)' /\ DumpKind(q)'
      BY <1>7, <3>2, <3>3
    <3> HIDE DEF Served, DumpKind
    <3> QED BY <3>1, <3>2, <3>3, <3>5, <3>6, <3>7 DEF DumpOwned
  <2>2. ASSUME NEW q \in Tables
        PROVE  DumpsOf(q)'
    <3>1. DumpsOf(q)
      BY DEF Contents, Dumps
    <3>2. reg'[q].dumpIndex # NONE =>
            dump'[reg'[q].dumpIndex].st # "FREE" /\ dump'[reg'[q].dumpIndex].r = q
      <4> SUFFICES ASSUME reg[q].dumpIndex # NONE
                   PROVE  dump'[reg[q].dumpIndex].st # "FREE" /\ dump'[reg[q].dumpIndex].r = q
        BY <1>3 DEF SameRequests
      <4>1. PICK i \in Loads : i = reg[q].dumpIndex
        BY <1>2, TableFields DEF TableTypes
      <4>2. dump[i].st # "FREE" /\ dump[i].r = q
        BY <3>1, <4>1 DEF DumpsOf
      <4>3. dump[i].st = "PENDING"
        BY <4>1, <4>2 DEF Contents, Dumps, DumpOwned
      <4>4. i \notin Written
        BY <4>3 DEF Written
      <4> QED BY <1>4, <4>1, <4>2, <4>4
    <3>3. Used(q) /\ DumpKind(q) /\ reg'[q].lip # NONE =>
            \E j \in Loads : dump'[j].st # "FREE" /\ dump'[j].r = q
      <4> SUFFICES ASSUME Used(q), DumpKind(q), reg'[q].lip # NONE
                   PROVE  \E j \in Loads : dump'[j].st # "FREE" /\ dump'[j].r = q
        OBVIOUS
      <4>1. q \notin Ended /\ reg[q].lip # NONE
        BY <1>3
      <4>2. PICK j \in Loads : dump[j].st # "FREE" /\ dump[j].r = q
        BY <3>1, <4>1 DEF DumpsOf
      <4>3. j \notin Written
        BY <1>8, <4>1, <4>2
      <4> QED BY <1>4, <4>2, <4>3
    <3> QED BY <1>7, <3>2, <3>3 DEF DumpsOf
  <2>3. \A j \in Loads : DumpOwned(j)'
    BY <2>1 DEF DumpOwned
  <2> QED BY <2>2, <2>3 DEF Dumps
<1>15. Requesting'
  <2>1. ASSUME NEW q \in Tables
        PROVE  /\ reg'[q].valActive = reg[q].valActive
               /\ reg'[q].valInactive = reg[q].valInactive
               /\ Checking(q) => SameLoad(q)
    <3>1. Checking(q) => q \notin Ended
      BY <1>9 DEF Contents, Requesting, AsksOf, Checking
    <3> QED BY <1>3, <3>1 DEF SameRequests, SameLoad
  <2> QED BY <1>1, <1>2, <1>5, <2>1, AsksStill DEF Contents
<1>16. Saved'
  <2>1. \A q \in Tables : Active(q)' = Active(q)
    BY <1>3 DEF Active, SameBuffers
  <2>2. CriticalSaved'
    BY <1>1, <1>3, <2>1 DEF Contents, Saved, CriticalSaved, SameUse, Owned
  <2>3. Alone'
    BY <1>3, <1>7 DEF Contents, Saved, Alone, SameUse
  <2> QED BY <2>2, <2>3 DEF Saved
<1>17. Holding'
  <2> SUFFICES ASSUME NEW h \in Handles, handle[h].used, handle[h].lock
               PROVE  HeldOf(h)'
    BY <1>1 DEF Holding, HeldOf
  <2>1. PICK q \in Tables : q = handle[h].reg
    BY UserTable
  <2>2. /\ handle[h].sure => reg[q].loaded
        /\ ~Double(q) => handle[h].buf = 0
        /\ Double(q) /\ reg[q].lip # NONE => handle[h].buf = reg[q].active
    BY <2>1 DEF Contents, Holding, HeldOf
  <2>3. reg'[q].lip # NONE => reg[q].lip # NONE
    BY <1>3
  <2>4. reg'[q].active = reg[q].active /\ reg'[q].loaded = reg[q].loaded
        /\ reg'[q].kind = reg[q].kind
    BY <1>3 DEF SameBuffers, SameUse
  <2> QED BY <1>1, <2>1, <2>2, <2>3, <2>4 DEF HeldOf, Double
<1> QED BY <1>11, <1>12, <1>13, <1>14, <1>15, <1>16, <1>17 DEF Contents

(* Who needs the owner of the table to run. *)
Serves(q) == \/ CmdReads(q) \/ Asked(q) # {NONE}
             \/ \E i \in Loads : dump[i].st # "FREE" /\ dump[i].r = q

LEMMA ServesOwner ==
  ASSUME Contents, NEW q \in Tables, Serves(q)
  PROVE  Served(q)
<1>1. CASE CmdReads(q)
  BY <1>1 DEF Contents, OneFills, FillsOf
<1>2. CASE Asked(q) # {NONE}
  BY <1>2 DEF Contents, Requesting, AsksOf
<1>3. CASE \E i \in Loads : dump[i].st # "FREE" /\ dump[i].r = q
  BY <1>3 DEF Contents, Dumps, DumpOwned
<1> QED BY <1>1, <1>2, <1>3 DEF Serves

(* A step about who uses and owns tables, not what they are or hold. *)
SameTable(q) ==
    /\ SameRequests(q) /\ SameBuffers(q) /\ SameLoad(q) /\ reg'[q].kind = reg[q].kind
    /\ Used(q)' <=> Used(q)
    /\ Owned(q)' => Owned(q)
    /\ Serves(q) => Served(q)'
    /\ SameFills(q)
StaysHeld(h) == handle'[h].used /\ handle'[h].lock =>
    handle[h].used /\ handle[h].lock /\ SameHold(h) /\ handle'[h].reg = handle[h].reg

LEMMA UseKeeps ==
  ASSUME Links, Contents, UNCHANGED <<loadBuf, val, dump, cds, cmd>>,
         \A q \in Tables : SameTable(q), \A h \in Handles : StaysHeld(h)
  PROVE  Contents'
<1>1. \A q \in Tables : /\ reg'[q].kind = reg[q].kind /\ reg'[q].lip = reg[q].lip
                        /\ reg'[q].pend = reg[q].pend /\ reg'[q].loaded = reg[q].loaded
                        /\ reg'[q].active = reg[q].active /\ reg'[q].buf = reg[q].buf
                        /\ reg'[q].valActive = reg[q].valActive
                        /\ reg'[q].valInactive = reg[q].valInactive
                        /\ reg'[q].dumpIndex = reg[q].dumpIndex
  BY DEF SameTable, SameRequests, SameBuffers, SameLoad
<1>2. \A q \in Tables : /\ Double(q)' <=> Double(q)
                        /\ DumpKind(q)' <=> DumpKind(q)
                        /\ Used(q)' <=> Used(q)
                        /\ Owned(q)' => Owned(q)
                        /\ Single(q)' <=> Single(q)
  BY <1>1 DEF SameTable, Double, DumpKind, Single
<1>3. \A q \in Tables : (Serves(q) => Served(q)') /\ SameFills(q)
  BY DEF SameTable
<1>4. Loading'
  BY <1>1, <1>2 DEF Contents, Loading
<1>5. OneFills'
  <2>1. ASSUME NEW q \in Tables
        PROVE  FillsOf(q)'
    <3>1. FillsOf(q) /\ (CmdReads(q) => Served(q)')
      BY <1>3 DEF Contents, OneFills, Serves
    <3> QED BY <1>1, <1>3, <3>1, FillsKept DEF SameLoad
  <2> QED BY <2>1 DEF Contents, OneFills
<1>6. Taking'
  BY <1>1, <1>2, TakingKept DEF Contents, Links
<1>7. Dumps'
  <2>1. ASSUME NEW i \in Loads, dump[i].st # "FREE"
        PROVE  DumpOwned(i)'
    <3>1. /\ dump[i].r \in Tables /\ DumpKind(dump[i].r)
          /\ dump[i].b # NONE /\ reg[dump[i].r].lip = dump[i].b
          /\ dump[i].st = "PENDING" <=> reg[dump[i].r].dumpIndex = i
          /\ \A j \in Loads : dump[j].st # "FREE" /\ dump[j].r = dump[i].r => j = i
      BY <2>1 DEF Contents, Dumps, DumpOwned
    <3>2. PICK q \in Tables : q = dump[i].r
      BY <3>1
    <3>3. Served(q)' /\ DumpKind(q)'
      BY <1>2, <1>3, <2>1, <3>1, <3>2 DEF Serves
    <3>4. reg'[q].lip = reg[q].lip /\ reg'[q].dumpIndex = reg[q].dumpIndex
      BY <1>1
    <3> HIDE DEF Served, DumpKind
    <3> QED BY <3>1, <3>2, <3>3, <3>4 DEF DumpOwned
  <2>2. \A i \in Loads : DumpOwned(i)'
    BY <2>1 DEF DumpOwned
  <2>3. \A q \in Tables : DumpsOf(q)'
    BY <1>1, <1>2 DEF Contents, Dumps, DumpsOf
  <2> QED BY <2>2, <2>3 DEF Dumps
<1>8. Requesting'
  <2>1. \A q \in Tables : Asked(q)' = Asked(q)
    BY <1>1 DEF Asked
  <2>2. ASSUME NEW q \in Tables
        PROVE  AsksOf(q)'
    <3>1. AsksOf(q)
      BY DEF Contents, Requesting
    <3>2. Asked(q)' # {NONE} => Served(q)'
      BY <1>3, <2>1 DEF Serves
    <3>3. ASSUME reg'[q].valInactive # NONE
          PROVE  /\ ~DumpKind(q)'
                 /\ ~Double(q)' => /\ reg'[q].lip # NONE /\ ~reg'[q].pend
                                   /\ \A a \in Apps : ~AppFills(a, q)'
      BY <1>1, <1>2, <1>3, <3>1, <3>3 DEF AsksOf, SameFills
    <3> QED BY <3>2, <3>3 DEF AsksOf
  <2> QED BY <2>1, <2>2 DEF Contents, Requesting
<1>9. Saved'
  <2>1. \A q \in Tables : Active(q)' = Active(q)
    BY <1>1 DEF Active
  <2>2. CriticalSaved'
    BY <1>1, <1>2, <2>1 DEF Contents, Saved, CriticalSaved
  <2>3. Alone'
    BY <1>1, <1>2 DEF Contents, Saved, Alone
  <2> QED BY <2>2, <2>3 DEF Saved
<1>10. Holding'
  <2> SUFFICES ASSUME NEW h \in Handles, handle'[h].used, handle'[h].lock
               PROVE  HeldOf(h)'
    BY DEF Holding, HeldOf
  <2>1. /\ handle[h].used /\ handle[h].lock /\ handle'[h].reg = handle[h].reg
        /\ handle'[h].buf = handle[h].buf /\ handle'[h].sure = handle[h].sure
    BY DEF StaysHeld, SameHold
  <2>2. PICK q \in Tables : q = handle[h].reg
    BY <2>1, UserTable
  <2>3. /\ handle[h].sure => reg[q].loaded
        /\ ~Double(q) => handle[h].buf = 0
        /\ Double(q) /\ reg[q].lip # NONE => handle[h].buf = reg[q].active
    BY <2>1, <2>2 DEF Contents, Holding, HeldOf
  <2>4. /\ reg'[q].lip = reg[q].lip /\ reg'[q].active = reg[q].active
        /\ reg'[q].loaded = reg[q].loaded /\ reg'[q].kind = reg[q].kind
    BY <1>1
  <2> QED BY <2>1, <2>2, <2>3, <2>4 DEF HeldOf, Double
<1> QED BY <1>4, <1>5, <1>6, <1>7, <1>8, <1>9, <1>10 DEF Contents

(* Whoever fills goes on, if its descriptor stays. *)
LEMMA SettledFills ==
  ASSUME Links, NEW a \in Apps, call'[a].pc \notin {"fill", "good", "failed"}, cmd' = cmd,
         \A b \in Apps : b # a => call'[b] = call[b],
         \A h \in Handles : handle[h].used /\ handle[h].app # a => handle'[h].reg = handle[h].reg
  PROVE  \A q \in Tables : SameFills(q)
<1> TAKE q \in Tables
<1>1. ASSUME NEW b \in Apps, AppFills(b, q)'
      PROVE  AppFills(b, q) /\ call'[b].at = call[b].at
  <2>1. b # a /\ call'[b] = call[b] /\ call[b].pc \in {"fill", "good", "failed"}
    BY <1>1 DEF AppFills
  <2>2. call[b].h \in Handles /\ handle[call[b].h].used /\ handle[call[b].h].app = b
    BY <2>1 DEF Links, Calling, Busy
  <2>3. handle'[call[b].h].reg = handle[call[b].h].reg
    BY <2>1, <2>2
  <2> QED BY <1>1, <2>1, <2>3 DEF AppFills
<1> QED BY <1>1 DEF SameFills, CmdReads

LEMMA DisownKeeps ==
  ASSUME Links, Contents, NEW r \in Tables, NEW a \in Apps, reg' = Disowned(r, a),
         call'[a].pc \notin {"fill", "good", "failed"},
         \A b \in Apps : b # a => call'[b] = call[b],
         UNCHANGED <<handle, loadBuf, val, dump, cds, up, cmd>>,
         reg[r].owner = a => ~Serves(r)
  PROVE  Contents'
<1>1. \A q \in Tables :
        /\ SameRequests(q) /\ SameBuffers(q) /\ SameLoad(q)
        /\ reg'[q].kind = reg[q].kind /\ reg'[q].head = reg[q].head
        /\ IF q = r /\ reg[q].owner = a
             THEN reg'[q].owner = NotOwned /\ reg'[q].name = NoName
             ELSE reg'[q].owner = reg[q].owner /\ reg'[q].name = reg[q].name
  BY DisownEffect DEF Links
<1>2. \A q \in Tables : SameFills(q)
  BY SettledFills
<1>3. ASSUME NEW q \in Tables
      PROVE  SameTable(q)
  <2>1. Serves(q) => Served(q)'
    <3> SUFFICES ASSUME Serves(q)
                 PROVE  Served(q)'
      OBVIOUS
    <3>1. Served(q)
      BY ServesOwner
    <3> QED BY <1>1, <3>1 DEF Served, Owned
  <2>2. (Used(q)' <=> Used(q)) /\ (Owned(q)' => Owned(q))
    BY <1>1 DEF Used, Owned
  <2> QED BY <1>1, <1>2, <2>1, <2>2 DEF SameTable
<1>4. \A h \in Handles : StaysHeld(h)
  BY DEF StaysHeld, SameHold
<1> QED BY <1>3, <1>4, UseKeeps

LEMMA SettledServes ==
  ASSUME Orderly, NEW r \in Tables, Settled(r)
  PROVE  ~Serves(r)
<1>1. /\ Idle(r) /\ reg[r].valActive = NONE /\ reg[r].valInactive = NONE
      /\ \A i \in Loads : dump[i].st # "FREE" => dump[i].r # r
  BY QuietIdle
<1>2. Asked(r) = {NONE}
  BY <1>1 DEF Asked
<1> QED BY <1>1, <1>2 DEF Serves, Idle

LEMMA UnregisterBeginKeeps ==
  ASSUME Links, Told, Contents, Orderly, NEW a \in Apps, NEW h \in Handles, UnregisterBegin(a, h)
  PROVE  Contents'
<1>1. PICK r \in Tables : r = handle[h].reg
  BY UserTable DEF UnregisterBegin, Calls
<1>2. /\ Settled(r) /\ reg' = Disowned(r, a)
      /\ call' = [call EXCEPT ![a] = [IdleCall EXCEPT !.pc = "remove", !.h = h]]
      /\ UNCHANGED <<handle, loadBuf, val, dump, pool, cds, crit, up, cmd, fresh>>
  BY <1>1 DEF UnregisterBegin
<1>3. call'[a].pc = "remove" /\ \A b \in Apps : b # a => call'[b] = call[b]
  BY <1>2 DEF Links, Typed, IdleCall
<1> QED BY <1>2, <1>3, SettledServes, DisownKeeps

LEMMA CleanUpDisownKeeps ==
  ASSUME Links, Told, Contents, Orderly, NEW a \in Apps, CleanUpDisown(a)
  PROVE  Contents'
<1>1. PICK h \in Handles : h = Min(HandlesOf(a)) /\ handle[h].used
  <2>1. HandlesOf(a) \subseteq Nat /\ HandlesOf(a) # {}
    BY Ranges DEF CleanUpDisown, HandlesOf
  <2> QED BY <2>1, LeastNumber DEF HandlesOf
<1>2. PICK r \in Tables : r = handle[h].reg
  BY <1>1, UserTable
<1>3. /\ call[a].pc = "clean" /\ reg' = Disowned(r, a)
      /\ call' = [call EXCEPT ![a].pc = "unlink", ![a].h = h]
      /\ UNCHANGED <<handle, loadBuf, val, dump, pool, cds, crit, up, cmd, fresh>>
  BY <1>1, <1>2 DEF CleanUpDisown
<1>4. call'[a].pc = "unlink" /\ \A b \in Apps : b # a => call'[b] = call[b]
  BY <1>3 DEF Links, Typed, CallRecord
<1>5. a \notin up
  BY <1>3 DEF Links, Calling
<1>6. reg[r].owner = a => ~Serves(r)
  BY <1>5, ServesOwner DEF Served
<1> QED BY <1>3, <1>4, <1>6, DisownKeeps

LEMMA CleanUpBeginKeeps ==
  ASSUME Links, Told, Contents, Orderly, NEW a \in Apps, CleanUpBegin(a)
  PROVE  Contents'
<1>1. /\ \A h \in HandlesOf(a) : Settled(handle[h].reg)
      /\ up' = up \ {a}
      /\ dump' = [i \in Loads |->
                    IF dump[i].st # "FREE" /\ reg[dump[i].r].owner = a
                      THEN FreeDump ELSE dump[i]]
      /\ call' = [call EXCEPT ![a].pc = "clean"]
      /\ UNCHANGED <<reg, handle, loadBuf, val, pool, cds, crit, cmd, fresh>>
  BY DEF CleanUpBegin
<1>2. ASSUME NEW q \in Tables, Serves(q)
      PROVE  reg[q].owner # a /\ Served(q)'
  <2>1. Served(q)
    BY <1>2, ServesOwner
  <2>2. reg[q].owner # a
    <3> SUFFICES ASSUME reg[q].owner = a
                 PROVE  FALSE
      OBVIOUS
    <3>1. PICK h \in UsersOf(q) : handle[h].app = a
      BY <2>1 DEF Links, AccessListExact, Served
    <3>2. Settled(q)
      BY <1>1, <3>1 DEF HandlesOf, UsersOf
    <3> QED BY <1>2, <3>2, SettledServes
  <2> QED BY <1>1, <2>1, <2>2 DEF Served, Owned
<1>3. dump' = dump
  <2>1. dump \in [Loads -> DumpRecord]
    BY DEF Links, Typed
  <2>2. \A i \in Loads : ~(dump[i].st # "FREE" /\ reg[dump[i].r].owner = a)
    BY <1>2 DEF Contents, Dumps, DumpOwned, Serves
  <2> QED BY <1>1, <2>1, <2>2
<1>4. call'[a].pc = "clean" /\ \A b \in Apps : b # a => call'[b] = call[b]
  BY <1>1 DEF Links, Typed, CallRecord
<1>5. \A q \in Tables : SameFills(q)
  BY <1>1, <1>4, SettledFills
<1>6. \A q \in Tables : SameTable(q)
  BY <1>1, <1>2, <1>5 DEF SameTable, SameRequests, SameBuffers, SameLoad, Used, Owned
<1>7. \A h \in Handles : StaysHeld(h)
  BY <1>1 DEF StaysHeld, SameHold
<1> QED BY <1>1, <1>3, <1>6, <1>7, UseKeeps

LEMMA StartAppKeeps ==
  ASSUME Links, Told, Contents, Orderly, NEW a \in Apps, StartApp(a)
  PROVE  Contents'
<1>1. /\ call' = [call EXCEPT ![a] = IdleCall]
      /\ up' = up \union {a}
      /\ UNCHANGED <<reg, handle, loadBuf, val, dump, pool, cds, crit, cmd, fresh>>
  BY DEF StartApp
<1>2. call'[a].pc = "idle" /\ \A b \in Apps : b # a => call'[b] = call[b]
  BY <1>1 DEF Links, Typed, IdleCall
<1>3. \A q \in Tables : SameFills(q)
  BY <1>1, <1>2, SettledFills
<1>4. ASSUME NEW q \in Tables
      PROVE  Serves(q) => Served(q)'
  BY <1>1, ServesOwner DEF Served, Owned
<1>5. \A q \in Tables : SameTable(q)
  BY <1>1, <1>3, <1>4 DEF SameTable, SameRequests, SameBuffers, SameLoad, Used, Owned
<1>6. \A h \in Handles : StaysHeld(h)
  BY <1>1 DEF StaysHeld, SameHold
<1> QED BY <1>1, <1>5, <1>6, UseKeeps

LEMMA TakingAside ==
  ASSUME Taking, Working, NEW r \in Tables, ~Single(r), reg'[r].lip = NONE \/ ~Single(r)',
         \A q \in Tables : q # r => (Single(q)' <=> Single(q)) /\ reg'[q].lip = reg[q].lip,
         loadBuf' = loadBuf
  PROVE  Taking'
<1>1. ASSUME NEW q \in Tables, Single(q)', reg'[q].lip # NONE
      PROVE  q # r /\ Single(q) /\ reg'[q].lip = reg[q].lip
  BY <1>1
<1>2. ASSUME NEW q \in Tables, Single(q)', reg'[q].lip # NONE
      PROVE  loadBuf'[reg'[q].lip].taken
  BY <1>1, <1>2 DEF Taking
<1>3. ASSUME NEW p \in Tables, NEW q \in Tables, Single(p)', Single(q)', p # q, reg'[p].lip # NONE
      PROVE  reg'[p].lip # reg'[q].lip
  <2>1. CASE reg'[q].lip = NONE
    BY <1>3, <2>1
  <2>2. CASE reg'[q].lip # NONE
    BY <1>1, <1>3, <2>2 DEF Taking
  <2> QED BY <2>1, <2>2
<1>4. ASSUME NEW b \in Loads, loadBuf'[b].taken
      PROVE  \E q \in Tables : Single(q)' /\ reg'[q].lip = b
  <2>1. PICK q \in Tables : Single(q) /\ reg[q].lip = b
    BY <1>4 DEF Taking
  <2> QED BY <2>1
<1> QED BY <1>2, <1>3, <1>4 DEF Taking

(* The record of table r begins or ends its life. *)
BlankRequests(r) == /\ ~reg'[r].pend /\ reg'[r].valActive = NONE
                    /\ reg'[r].valInactive = NONE /\ reg'[r].dumpIndex = NONE

LEMMA LifeKeeps ==
  ASSUME Links, Contents, NEW r \in Tables, ~Serves(r), Idle(r)', BlankRequests(r),
         reg'[r].lip = NONE \/ ~Used(r)',
         \A q \in Tables : q # r => reg'[q] = reg[q] /\ SameFills(q),
         Taking', Saved', UNCHANGED <<val, dump, up, cmd>>,
         \A h \in Handles : StaysHeld(h) /\ (handle'[h].used /\ handle'[h].lock => handle[h].reg # r)
  PROVE  Contents'
<1>1. \A q \in Tables : q # r => /\ reg'[q] = reg[q]
                                 /\ Double(q)' <=> Double(q)
                                 /\ DumpKind(q)' <=> DumpKind(q)
                                 /\ Used(q)' <=> Used(q)
                                 /\ Served(q)' <=> Served(q)
                                 /\ Asked(q)' = Asked(q)
  BY DEF Double, DumpKind, Used, Served, Owned, Asked
<1>2. Loading'
  BY <1>1 DEF Contents, Loading, BlankRequests
<1>3. OneFills'
  <2>1. ASSUME NEW q \in Tables
        PROVE  FillsOf(q)'
    <3>1. CASE q = r
      BY <3>1, IdleFills
    <3>2. CASE q # r
      <4>1. FillsOf(q) /\ (CmdReads(q) => Served(q)')
        BY <1>1, <3>2 DEF Contents, OneFills, FillsOf
      <4>2. reg'[q] = reg[q] /\ SameFills(q)
        BY <3>2
      <4> QED BY <4>1, <4>2, FillsKept DEF SameLoad
    <3> QED BY <3>1, <3>2
  <2> QED BY <2>1 DEF Contents, OneFills
<1>4. Dumps'
  <2>1. ASSUME NEW i \in Loads, dump[i].st # "FREE"
        PROVE  DumpOwned(i)'
    <3>1. /\ dump[i].r \in Tables /\ Served(dump[i].r) /\ DumpKind(dump[i].r)
          /\ dump[i].b # NONE /\ reg[dump[i].r].lip = dump[i].b
          /\ dump[i].st = "PENDING" <=> reg[dump[i].r].dumpIndex = i
          /\ \A j \in Loads : dump[j].st # "FREE" /\ dump[j].r = dump[i].r => j = i
      BY <2>1 DEF Contents, Dumps, DumpOwned
    <3>2. PICK q \in Tables : q = dump[i].r
      BY <3>1
    <3>3. q # r
      BY <2>1, <3>2 DEF Serves
    <3>4. Served(q)' /\ DumpKind(q)' /\ reg'[q] = reg[q]
      BY <1>1, <3>1, <3>2, <3>3
    <3> HIDE DEF Served, DumpKind
    <3> QED BY <3>1, <3>2, <3>4 DEF DumpOwned
  <2>2. \A i \in Loads : DumpOwned(i)'
    BY <2>1 DEF DumpOwned
  <2>3. ASSUME NEW q \in Tables
        PROVE  DumpsOf(q)'
    <3>1. CASE q = r
      BY <3>1 DEF DumpsOf, BlankRequests
    <3>2. CASE q # r
      BY <1>1, <3>2 DEF Contents, Dumps, DumpsOf
    <3> QED BY <3>1, <3>2
  <2> QED BY <2>2, <2>3 DEF Dumps
<1>5. Requesting'
  <2>1. AsksOf(r)'
    BY DEF AsksOf, Asked, BlankRequests
  <2>2. ASSUME NEW q \in Tables, q # r
        PROVE  AsksOf(q)'
    <3>1. AsksOf(q) /\ reg'[q] = reg[q] /\ SameFills(q)
      BY <2>2 DEF Contents, Requesting
    <3>2. reg[q].valInactive # NONE /\ ~Double(q) => \A a \in Apps : ~AppFills(a, q)'
      BY <3>1 DEF AsksOf, SameFills
    <3> QED BY <1>1, <2>2, <3>1, <3>2 DEF AsksOf
  <2>3. ASSUME NEW v \in Validations, val[v] = "PENDING"
        PROVE  \E q \in Tables : v \in Asked(q)'
    <3>1. PICK q \in Tables : v \in Asked(q)
      BY <2>3 DEF Contents, Requesting
    <3>2. q # r
      BY <3>1, Ranges DEF Serves
    <3> QED BY <1>1, <3>1, <3>2
  <2> QED BY <2>1, <2>2, <2>3 DEF Requesting
<1>6. Holding'
  <2> SUFFICES ASSUME NEW h \in Handles, handle'[h].used, handle'[h].lock
               PROVE  HeldOf(h)'
    BY DEF Holding, HeldOf
  <2>1. /\ handle[h].used /\ handle[h].lock /\ handle'[h].reg = handle[h].reg
        /\ handle'[h].buf = handle[h].buf /\ handle'[h].sure = handle[h].sure
        /\ handle[h].reg # r
    BY DEF StaysHeld, SameHold
  <2>2. PICK q \in Tables : q = handle[h].reg /\ q # r
    BY <2>1, UserTable
  <2>3. HeldOf(h) /\ reg'[q] = reg[q]
    BY <2>2 DEF Contents, Holding
  <2> QED BY <2>1, <2>2, <2>3 DEF HeldOf, Double
<1> QED BY <1>2, <1>3, <1>4, <1>5, <1>6 DEF Contents

(* A record that nobody uses or owns, of which nothing is left. *)
LEMMA FreeRecord ==
  ASSUME Links, Contents, NEW r \in Tables, ~Owned(r), ~Used(r)
  PROVE  /\ ~Serves(r) /\ ~Single(r)
         /\ \A h \in Handles : handle[h].used => handle[h].reg # r
         /\ \A a \in Apps : ~AppFills(a, r)
<1>1. ~Serves(r)
  BY ServesOwner DEF Served
<1>2. \A h \in Handles : handle[h].used => handle[h].reg # r
  BY UserTable
<1>3. \A a \in Apps : ~AppFills(a, r)
  BY <1>2 DEF AppFills, Links, Calling, Busy
<1> QED BY <1>1, <1>2, <1>3 DEF Single

LEMMA RegisterNoRoomKeeps ==
  ASSUME Links, Told, Contents, Orderly, NEW a \in Apps, NEW n \in Names, RegisterNoRoom(a, n)
  PROVE  Contents'
<1>1. PICK r \in FreeRecords : r = Min(FreeRecords)
  BY LeastNumber, Ranges DEF RegisterNoRoom, FreeRecords
<1>2. r \in Tables /\ ~Owned(r) /\ ~Used(r)
  BY <1>1 DEF FreeRecords, Used
<1>3. /\ reg' = [reg EXCEPT ![r] = EmptyRecord]
      /\ UNCHANGED <<handle, loadBuf, val, dump, cds, crit, up, call, cmd, fresh>>
  BY <1>1 DEF RegisterNoRoom
<1>4. reg'[r] = EmptyRecord /\ \A q \in Tables : q # r => reg'[q] = reg[q]
  BY <1>2, <1>3 DEF Links, Typed
<1>5. /\ ~Serves(r) /\ ~Single(r)
      /\ \A h \in Handles : handle[h].used => handle[h].reg # r
      /\ \A b \in Apps : ~AppFills(b, r)
  BY <1>2, FreeRecord
<1>6. \A q \in Tables : SameFills(q)
  BY <1>3 DEF SameFills, AppFills, CmdReads
<1>7. Idle(r)'
  BY <1>3, <1>5 DEF Idle, Serves, AppFills, CmdReads
<1>8. /\ BlankRequests(r) /\ reg'[r].lip = NONE /\ ~Used(r)' /\ ~Owned(r)'
  BY <1>4 DEF BlankRequests, EmptyRecord, Used, Owned
<1>9. \A q \in Tables : q # r => /\ Single(q)' <=> Single(q)
                                 /\ Used(q)' <=> Used(q)
                                 /\ Owned(q)' <=> Owned(q)
                                 /\ Active(q)' = Active(q)
                                 /\ reg'[q] = reg[q]
  BY <1>4 DEF Single, Used, Double, Owned, Active
<1>10. Taking'
  BY <1>2, <1>3, <1>5, <1>8, <1>9, TakingAside DEF Contents, Links
<1>11. Saved'
  <2>1. CriticalSaved'
    BY <1>3, <1>8, <1>9 DEF Contents, Saved, CriticalSaved
  <2>2. Alone'
    BY <1>8, <1>9 DEF Contents, Saved, Alone
  <2> QED BY <2>1, <2>2 DEF Saved
<1>12. \A h \in Handles : StaysHeld(h) /\ (handle'[h].used /\ handle'[h].lock => handle[h].reg # r)
  BY <1>3, <1>5 DEF StaysHeld, SameHold
<1> QED BY <1>2, <1>3, <1>4, <1>5, <1>6, <1>7, <1>8, <1>10, <1>11, <1>12, LifeKeeps

LEMMA RegisterBlank ==
  ASSUME Typed, NEW a \in Apps, NEW n \in Names, Register(a, n), NEW r \in Tables, NEW h \in Handles,
         r = Min(FreeRecords), h = Min(FreeHandles)
  PROVE  /\ BlankRequests(r) /\ ~handle'[h].lock
         /\ reg'[r].loaded => n \in DumpOnly \/ Recoverable(n)
         /\ reg'[r].buf[0].img = Restored(n)
<1> DEFINE img == Restored(n)
           seen == n \in DumpOnly \ UserDef \/ Recoverable(n)
           x == [EmptyRecord EXCEPT !.owner = a, !.name = n, !.kind = n, !.head = h,
                                    !.loaded = seen]
           y == [x EXCEPT !.buf[0].img = img]
           new == [EmptyHandle EXCEPT !.used = TRUE, !.app = a, !.reg = r,
                                      !.updated = Recoverable(n)]
<1>1. reg' = [reg EXCEPT ![r] = NewRecord(n, a, h)] /\ handle' = [handle EXCEPT ![h] = new]
  BY DEF Register
<1>2. NewRecord(n, a, h) = y
  BY DEF NewRecord
<1>3. ~new.lock
  BY DEF EmptyHandle
<1> HIDE DEF img, seen, new
<1>4. /\ ~x.pend /\ x.valActive = NONE /\ x.valInactive = NONE /\ x.dumpIndex = NONE
      /\ x.loaded = seen /\ x.buf = EmptyRecord.buf
      /\ EmptyRecord.buf = [k \in 0..1 |-> [img |-> "blank", validated |-> FALSE]]
      /\ DOMAIN x = DOMAIN EmptyRecord
  BY DEF EmptyRecord
<1>5. /\ y.pend = x.pend /\ y.valActive = x.valActive /\ y.valInactive = x.valInactive
      /\ y.dumpIndex = x.dumpIndex /\ y.loaded = x.loaded /\ y.buf[0].img = img
  BY <1>4 DEF EmptyRecord
<1> HIDE DEF x, y
<1>6. reg'[r] = y /\ handle'[h] = new
  BY <1>1, <1>2 DEF Typed
<1> QED BY <1>3, <1>4, <1>5, <1>6 DEF BlankRequests, img, seen

LEMMA RegisterKeeps ==
  ASSUME Links, Told, Contents, Orderly, NEW a \in Apps, NEW n \in Names, Register(a, n)
  PROVE  Contents'
<1>0. Typed
  BY DEF Links
<1>1. PICK r \in Tables, h \in Handles :
        /\ r = Min(FreeRecords) /\ h = Min(FreeHandles)
        /\ ~Owned(r) /\ reg[r].head = NONE /\ ~handle[h].used
        /\ reg'[r].kind = n /\ reg'[r].lip = NONE /\ reg'[r].active = 0
        /\ \A q \in Tables : q # r => reg'[q] = reg[q]
        /\ \A k \in Handles : k # h => handle'[k] = handle[k]
  BY <1>0, RegisterEffect
<1>2. /\ BlankRequests(r) /\ ~handle'[h].lock
      /\ reg'[r].loaded => n \in DumpOnly \/ Recoverable(n)
      /\ reg'[r].buf[0].img = Restored(n)
  BY <1>0, <1>1, RegisterBlank
<1>3. /\ LetGo(n)
      /\ cds' = IF n \in Critical /\ cds[n] = "none" THEN [cds EXCEPT ![n] = "unset"] ELSE cds
      /\ UNCHANGED <<loadBuf, val, dump, up, call, cmd>>
  BY DEF Register
<1>4. /\ ~Serves(r) /\ ~Single(r)
      /\ \A k \in Handles : handle[k].used => handle[k].reg # r
      /\ \A b \in Apps : ~AppFills(b, r)
  BY <1>1, FreeRecord DEF Used
<1>5. ASSUME NEW b \in Apps, call[b].pc \in {"fill", "good", "failed"}
      PROVE  handle'[call[b].h].reg = handle[call[b].h].reg
  <2>1. call[b].h \in Handles /\ handle[call[b].h].used
    BY <1>5 DEF Links, Calling, Busy
  <2> QED BY <1>1, <2>1
<1>6. \A q \in Tables : SameFills(q)
  BY <1>3, <1>5 DEF SameFills, AppFills, CmdReads
<1>7. Idle(r)'
  BY <1>3, <1>4, <1>5 DEF Idle, Serves, AppFills, CmdReads
<1>8. \A q \in Tables : q # r => /\ Single(q)' <=> Single(q)
                                 /\ Used(q)' <=> Used(q)
                                 /\ Owned(q)' <=> Owned(q)
                                 /\ Active(q)' = Active(q)
                                 /\ reg'[q] = reg[q]
  BY <1>1 DEF Single, Used, Double, Owned, Active
<1>9. Taking'
  BY <1>0, <1>1, <1>3, <1>4, <1>8, TakingAside DEF Contents, Links
<1>10. n \in Critical => \A q \in Tables : Used(q) => reg[q].kind # n
  BY <1>3 DEF LetGo, Used
<1>11. Alone'
  <2>1. ASSUME NEW p \in Tables, NEW q \in Tables, Used(p)', Used(q)', reg'[p].kind \in Critical,
               reg'[p].kind = reg'[q].kind, p # q
        PROVE  FALSE
    <3>1. CASE p = r
      BY <1>1, <1>8, <1>10, <2>1, <3>1
    <3>2. CASE q = r
      BY <1>1, <1>8, <1>10, <2>1, <3>2
    <3>3. CASE p # r /\ q # r
      BY <1>8, <2>1, <3>3 DEF Contents, Saved, Alone
    <3> QED BY <3>1, <3>2, <3>3
  <2> QED BY <2>1 DEF Alone
<1>12. CriticalSaved'
  <2> SUFFICES ASSUME NEW q \in Tables, Owned(q)', reg'[q].kind \in Critical, reg'[q].loaded
               PROVE  cds'[reg'[q].kind] = Active(q)'
    BY DEF CriticalSaved
  <2>1. CASE q = r
    <3>1. Recoverable(n) /\ n \in Critical
      BY <1>1, <1>2, <2>1, TablesAssumption
    <3>2. cds[n] \in Images /\ "none" \notin Images
      BY <3>1 DEF Recoverable, Images
    <3>3. cds' = cds /\ Restored(n) = cds[n]
      BY <1>3, <3>1, <3>2 DEF Restored
    <3> QED BY <1>1, <1>2, <2>1, <3>3 DEF Active
  <2>2. CASE q # r
    <3>1. Owned(q) /\ reg[q].kind \in Critical /\ reg[q].loaded /\ reg'[q].kind = reg[q].kind
      BY <1>8, <2>2
    <3>2. Used(q)
      BY <3>1 DEF Links, AccessListExact, UsersOf, Used
    <3>3. cds'[reg[q].kind] = cds[reg[q].kind]
      BY <1>3, <1>10, <3>2
    <3>4. cds[reg[q].kind] = Active(q)
      BY <3>1 DEF Contents, Saved, CriticalSaved
    <3> QED BY <1>8, <2>2, <3>1, <3>3, <3>4
  <2> QED BY <2>1, <2>2
<1>13. \A k \in Handles : StaysHeld(k) /\ (handle'[k].used /\ handle'[k].lock => handle[k].reg # r)
  BY <1>1, <1>2, <1>4 DEF StaysHeld, SameHold
<1> QED BY <1>1, <1>2, <1>3, <1>4, <1>6, <1>7, <1>8, <1>9, <1>11, <1>12, <1>13, LifeKeeps DEF Saved

LEMMA ShareKeeps ==
  ASSUME Links, Told, Contents, Orderly, NEW a \in Apps, NEW n \in Names, Share(a, n)
  PROVE  Contents'
<1>1. PICK r \in Tables, h \in Handles :
        /\ Owned(r) /\ Used(r) /\ ~handle[h].used
        /\ reg' = [reg EXCEPT ![r].head = h]
        /\ ~handle'[h].lock
        /\ \A k \in Handles : k # h => /\ SameHold(k) /\ handle'[k].used = handle[k].used
                                       /\ handle'[k].reg = handle[k].reg
  BY ShareEffect
<1>2. /\ UNCHANGED <<loadBuf, val, dump, pool, cds, crit, up, call, cmd>>
      /\ call[a].pc = "idle"
  BY DEF Share
<1>3. /\ reg'[r].head = h
      /\ \A q \in Tables :
           /\ SameRequests(q) /\ SameBuffers(q) /\ SameLoad(q)
           /\ reg'[q].owner = reg[q].owner /\ reg'[q].kind = reg[q].kind
           /\ q # r => reg'[q].head = reg[q].head
  BY <1>1, HeadEdit DEF Links
<1>4. \A q \in Tables : SameFills(q)
  BY <1>1, <1>2, SettledFills
<1>5. ASSUME NEW q \in Tables
      PROVE  SameTable(q)
  <2>1. Used(q)' <=> Used(q)
    <3>1. h # NONE
      BY Ranges
    <3> QED BY <1>1, <1>3, <3>1 DEF Used
  <2>2. Owned(q)' => Owned(q)
    BY <1>3 DEF Owned
  <2>3. Serves(q) => Served(q)'
    BY <1>2, <1>3, ServesOwner DEF Served, Owned
  <2> QED BY <1>3, <1>4, <2>1, <2>2, <2>3 DEF SameTable
<1>6. \A k \in Handles : StaysHeld(k)
  BY <1>1 DEF StaysHeld, SameHold
<1> QED BY <1>2, <1>5, <1>6, UseKeeps

(* An application's descriptor of a table that it does not own goes. *)
LEMMA RemoveKeeps ==
  ASSUME Links, Contents, NEW a \in Apps, NEW h \in Handles, handle[h].used, handle[h].app = a,
         RemoveAccessLink(h), reg[handle[h].reg].owner # a,
         call[a].pc \in {"remove", "unlink"}, call'[a].pc \in {"idle", "clean"},
         \A b \in Apps : b # a => call'[b] = call[b], UNCHANGED <<val, dump, cds, up, cmd>>
  PROVE  Contents'
<1>1. PICK r \in Tables : r = handle[h].reg /\ Used(r)
  BY UserTable
<1>2. /\ handle'[h] = EmptyHandle
      /\ \A k \in Handles : k # h =>
           SameHold(k) /\ handle'[k].used = handle[k].used /\ handle'[k].reg = handle[k].reg
      /\ \A q \in Tables : q # r => reg'[q] = reg[q]
  BY <1>1, LeavesEffect DEF Leaves
<1>3. \A q \in Tables : SameFills(q)
  <2>1. call'[a].pc \notin {"fill", "good", "failed"}
    OBVIOUS
  <2>2. \A k \in Handles : handle[k].used /\ handle[k].app # a => handle'[k].reg = handle[k].reg
    BY <1>2 DEF SameHold
  <2> QED BY <2>1, <2>2, SettledFills
<1>4. ASSUME NEW k \in Handles
      PROVE  StaysHeld(k)
  <2>1. CASE k = h
    <3>1. ~handle'[k].used
      BY <1>2, <2>1 DEF EmptyHandle
    <3> QED BY <3>1 DEF StaysHeld
  <2>2. CASE k # h
    BY <1>2, <2>2 DEF StaysHeld, SameHold
  <2> QED BY <2>1, <2>2
<1>5. CASE UsersOf(r) \ {h} # {}
  <2>1. /\ loadBuf' = loadBuf
        /\ SameRequests(r) /\ SameBuffers(r) /\ SameLoad(r)
        /\ reg'[r].owner = reg[r].owner /\ reg'[r].kind = reg[r].kind
        /\ reg'[r].head = IF handle[h].prev = NONE THEN handle[h].next ELSE reg[r].head
    BY <1>1, <1>5, RecordLeft
  <2>2. Used(r)'
    <3>1. ~(handle[h].prev = NONE /\ handle[h].next = NONE)
      <4> SUFFICES ASSUME handle[h].prev = NONE, handle[h].next = NONE
                   PROVE  FALSE
        OBVIOUS
      <4>1. PICK S \in SUBSET UsersOf(r) : S = UsersOf(r) \ {h}
        OBVIOUS
      <4>2. PICK k \in S : handle[k].prev \notin S
        BY <1>5, <4>1 DEF Links, AccessListExact, Grounded
      <4>3. /\ k \in UsersOf(r) /\ Leads(r, k) /\ Leads(r, h) /\ h \in UsersOf(r)
        BY <1>1, <4>1, <4>2 DEF Links, AccessListExact, UsersOf
      <4>4. h = reg[r].head
        BY <4>3 DEF Leads
      <4>5. handle[k].prev = h /\ handle[h].next = k
        BY <4>1, <4>2, <4>3, <4>4 DEF Leads
      <4> QED BY <4>3, <4>5, Ranges DEF UsersOf
    <3> QED BY <1>1, <2>1, <3>1 DEF Used
  <2>3. ASSUME NEW q \in Tables
        PROVE  SameTable(q)
    <3>1. Serves(q) => Served(q)'
      BY <1>2, <2>1, ServesOwner DEF Served, Owned
    <3>2. /\ SameRequests(q) /\ SameBuffers(q) /\ SameLoad(q) /\ reg'[q].kind = reg[q].kind
          /\ Used(q)' <=> Used(q)
          /\ Owned(q)' => Owned(q)
      <4>1. CASE q = r
        BY <1>1, <2>1, <2>2, <4>1 DEF Owned
      <4>2. CASE q # r
        BY <1>2, <4>2 DEF SameRequests, SameBuffers, SameLoad, Used, Owned
      <4> QED BY <4>1, <4>2
    <3> QED BY <1>3, <3>1, <3>2 DEF SameTable
  <2> QED BY <1>4, <2>1, <2>3, UseKeeps
<1>6. CASE UsersOf(r) \ {h} = {}
  <2>1. /\ reg'[r].head = NONE /\ reg'[r].owner = NotOwned /\ reg'[r].kind = NoName
        /\ BlankRequests(r)
        /\ loadBuf' = IF ReleasesLoad(r) THEN Freed(reg[r].lip) ELSE loadBuf
    BY <1>1, <1>6, RecordLeft DEF BlankRequests
  <2>2. ~Owned(r)
    BY <1>1, <1>6 DEF Links, AccessListExact, UsersOf
  <2>3. ~Serves(r)
    BY <2>2, ServesOwner DEF Served
  <2>4. \A b \in Apps : ~AppFills(b, r)
    <3> SUFFICES ASSUME NEW b \in Apps, AppFills(b, r)
                 PROVE  FALSE
      OBVIOUS
    <3>1. call[b].h \in UsersOf(r) /\ handle[call[b].h].app = b
      BY DEF AppFills, Links, Calling, Busy, UsersOf
    <3>2. b = a
      BY <1>6, <3>1
    <3> QED BY <3>2 DEF AppFills
  <2>5. Idle(r)'
    BY <1>3, <2>3, <2>4 DEF Idle, Serves, SameFills, CmdReads
  <2>6. ~Used(r)' /\ ~Single(r)' /\ ~Owned(r)'
    BY <2>1 DEF Used, Single, Owned
  <2>7. \A q \in Tables : q # r => /\ Single(q)' <=> Single(q)
                                   /\ Used(q)' <=> Used(q)
                                   /\ Owned(q)' <=> Owned(q)
                                   /\ Active(q)' = Active(q)
                                   /\ reg'[q] = reg[q]
    BY <1>2 DEF Single, Used, Double, Owned, Active
  <2>8. Taking'
    <3>1. CASE Double(r)
      <4>1. loadBuf' = loadBuf /\ ~Single(r)
        BY <2>1, <3>1 DEF ReleasesLoad, Single
      <4> QED BY <2>6, <2>7, <4>1, TakingAside DEF Contents, Links
    <3>2. CASE ~Double(r) /\ reg[r].lip = NONE
      <4>1. loadBuf' = loadBuf
        BY <2>1, <3>2 DEF ReleasesLoad
      <4>2. ASSUME NEW q \in Tables, Single(q)', reg'[q].lip # NONE
            PROVE  q # r /\ Single(q) /\ reg'[q].lip = reg[q].lip
        BY <2>6, <2>7, <4>2
      <4>3. ASSUME NEW q \in Tables, Single(q)', reg'[q].lip # NONE
            PROVE  loadBuf'[reg'[q].lip].taken
        BY <4>1, <4>2, <4>3 DEF Contents, Taking
      <4>4. ASSUME NEW p \in Tables, NEW q \in Tables, Single(p)', Single(q)', p # q,
                   reg'[p].lip # NONE
            PROVE  reg'[p].lip # reg'[q].lip
        <5>1. CASE reg'[q].lip = NONE
          BY <4>4, <5>1
        <5>2. CASE reg'[q].lip # NONE
          BY <4>2, <4>4, <5>2 DEF Contents, Taking
        <5> QED BY <5>1, <5>2
      <4>5. ASSUME NEW b \in Loads, loadBuf'[b].taken
            PROVE  \E q \in Tables : Single(q)' /\ reg'[q].lip = b
        <5>1. PICK q \in Tables : Single(q) /\ reg[q].lip = b
          BY <4>1, <4>5 DEF Contents, Taking
        <5>2. q # r
          BY <3>2, <5>1, Ranges
        <5> QED BY <2>7, <5>1, <5>2
      <4> QED BY <4>3, <4>4, <4>5 DEF Taking
    <3>3. CASE ~Double(r) /\ reg[r].lip # NONE
      <4>1. Single(r)
        BY <1>1, <3>3 DEF Single
      <4>2. reg[r].kind \notin UserDef
        <5>1. DumpKind(r) => \E i \in Loads : dump[i].st # "FREE" /\ dump[i].r = r
          BY <1>1, <3>3 DEF Contents, Dumps, DumpsOf
        <5> QED BY <2>3, <5>1, TablesAssumption DEF Serves, DumpKind
      <4>3. loadBuf' = Freed(reg[r].lip)
        BY <2>1, <3>3, <4>2 DEF ReleasesLoad
      <4>4. reg[r].lip \in Loads /\ Typed
        BY <3>3, <4>1 DEF Links, Working
      <4>5. Frees(reg[r].lip)
        BY <4>3, <4>4, FreedEffect
      <4> QED BY <2>6, <2>7, <3>3, <4>1, <4>5, TakingFreed DEF Contents, Links
    <3> QED BY <3>1, <3>2, <3>3
  <2>9. Saved'
    <3>1. CriticalSaved'
      BY <2>6, <2>7 DEF Contents, Saved, CriticalSaved
    <3>2. Alone'
      BY <2>6, <2>7 DEF Contents, Saved, Alone
    <3> QED BY <3>1, <3>2 DEF Saved
  <2>10. \A k \in Handles : handle'[k].used /\ handle'[k].lock => handle[k].reg # r
    <3> SUFFICES ASSUME NEW k \in Handles, handle'[k].used, handle[k].reg = r
                 PROVE  FALSE
      OBVIOUS
    <3>1. k # h
      BY <1>2 DEF EmptyHandle
    <3> QED BY <1>2, <1>6, <3>1 DEF UsersOf
  <2> QED BY <1>3, <1>4, <2>1, <2>3, <2>5, <2>6, <2>7, <2>8, <2>9, <2>10, LifeKeeps
<1> QED BY <1>5, <1>6

LEMMA UnregisterEndKeeps ==
  ASSUME Links, Told, Contents, Orderly, NEW a \in Apps, UnregisterEnd(a)
  PROVE  Contents'
<1>1. /\ call[a].pc = "remove" /\ RemoveAccessLink(call[a].h)
      /\ call' = [call EXCEPT ![a] = IdleCall]
      /\ UNCHANGED <<val, dump, cds, crit, up, cmd>>
  BY DEF UnregisterEnd
<1>2. PICK h \in Handles : /\ h = call[a].h /\ handle[h].used /\ handle[h].app = a
                           /\ reg[handle[h].reg].owner # a
  BY <1>1 DEF Links, Calling, Busy
<1>3. call'[a].pc = "idle" /\ \A b \in Apps : b # a => call'[b] = call[b]
  BY <1>1 DEF Links, Typed, IdleCall
<1> QED BY <1>1, <1>2, <1>3, RemoveKeeps

LEMMA CleanUpUnlinkKeeps ==
  ASSUME Links, Told, Contents, Orderly, NEW a \in Apps, CleanUpUnlink(a)
  PROVE  Contents'
<1>1. /\ call[a].pc = "unlink" /\ RemoveAccessLink(call[a].h)
      /\ call' = [call EXCEPT ![a] = [IdleCall EXCEPT !.pc = "clean"]]
      /\ UNCHANGED <<val, dump, cds, crit, up, cmd>>
  BY DEF CleanUpUnlink
<1>2. PICK h \in Handles : /\ h = call[a].h /\ handle[h].used /\ handle[h].app = a
                           /\ reg[handle[h].reg].owner # a
  BY <1>1 DEF Links, Calling, Busy
<1>3. call'[a].pc = "clean" /\ \A b \in Apps : b # a => call'[b] = call[b]
  BY <1>1 DEF Links, Typed, IdleCall
<1> QED BY <1>1, <1>2, <1>3, RemoveKeeps

(* At the start, and after a reset, nothing is going on. *)
Blank ==
    /\ reg = Start.reg /\ handle = Start.handle /\ loadBuf = Start.loadBuf /\ val = Start.val
    /\ dump = Start.dump /\ call = Start.call /\ cmd = IdleCmd

LEMMA BlankContents == Blank => Contents
<1> SUFFICES ASSUME Blank PROVE Contents
  OBVIOUS
<1>1. \A r \in Tables : reg[r] = EmptyRecord
  BY DEF Blank, Start
<1>2. \A r \in Tables : /\ ~reg[r].pend /\ ~Used(r) /\ ~Owned(r) /\ reg[r].valActive = NONE
                        /\ reg[r].valInactive = NONE /\ reg[r].dumpIndex = NONE
  BY <1>1 DEF EmptyRecord, Used, Owned
<1>3. /\ \A h \in Handles : ~handle[h].used
      /\ \A i \in Loads : ~loadBuf[i].taken /\ dump[i].st = "FREE"
      /\ \A v \in Validations : val[v] = "FREE"
      /\ \A a \in Apps : call[a].pc = "idle"
      /\ cmd.pc = "idle"
  BY DEF Blank, Start, EmptyHandle, FreeDump, IdleCall, IdleCmd
<1>4. OneFills
  BY <1>3 DEF OneFills, FillsOf, AppFills, CmdReads
<1>5. Taking
  BY <1>2, <1>3 DEF Taking, Single
<1>6. Dumps
  BY <1>2, <1>3 DEF Dumps, DumpOwned, DumpsOf
<1>7. Requesting
  BY <1>2, <1>3 DEF Requesting, AsksOf, Asked
<1>8. Saved
  BY <1>2 DEF Saved, Alone, CriticalSaved
<1>9. Loading /\ Holding
  BY <1>2, <1>3 DEF Loading, Holding, HeldOf
<1> QED BY <1>4, <1>5, <1>6, <1>7, <1>8, <1>9 DEF Contents

LEMMA StutterKeeps ==
  ASSUME Links, Contents, UNCHANGED vars
  PROVE  Contents'
<1>1. ASSUME NEW q \in Tables
      PROVE  SameTable(q)
  <2>1. SameFills(q)
    BY DEF vars, SameFills, AppFills, CmdReads
  <2>2. Serves(q) => Served(q)'
    BY ServesOwner DEF vars, Served, Owned
  <2>3. SameRequests(q) /\ SameBuffers(q) /\ SameLoad(q) /\ reg'[q].kind = reg[q].kind
    BY DEF vars, SameRequests, SameBuffers, SameLoad
  <2>4. (Used(q)' <=> Used(q)) /\ (Owned(q)' => Owned(q))
    BY DEF vars, Used, Owned
  <2> QED BY <2>1, <2>2, <2>3, <2>4 DEF SameTable
<1>2. \A h \in Handles : StaysHeld(h)
  BY DEF vars, StaysHeld, SameHold
<1> QED BY <1>1, <1>2, UseKeeps DEF vars

LEMMA NextKeeps ==
  ASSUME Links, Told, Contents, Orderly, [Next]_vars
  PROVE  Contents'
<1>1. ASSUME NEW a \in Apps, NEW n \in Names, Register(a, n) \/ RegisterNoRoom(a, n) \/ Share(a, n)
      PROVE  Contents'
  BY <1>1, RegisterKeeps, RegisterNoRoomKeeps, ShareKeeps
<1>2. ASSUME NEW a \in Apps, NEW h \in Handles, Access(a, h)
      PROVE  Contents'
  BY <1>2, UnregisterBeginKeeps, UpdateKeeps, LoadBeginKeeps, LoadUserDefKeeps, GetAddressKeeps,
     ReleaseAddressKeeps, ModifiedKeeps, ValidateKeeps, DumpToBufferKeeps DEF Access
<1>3. ASSUME NEW a \in Apps, LoadFill(a) \/ LoadFailed(a) \/ LoadEnd(a)
      PROVE  Contents'
  BY <1>3, LoadFillKeeps, LoadFailedKeeps, LoadEndKeeps
<1>4. ASSUME NEW a \in Apps,
             \/ UnregisterEnd(a) \/ CleanUpBegin(a) \/ CleanUpDisown(a)
             \/ CleanUpUnlink(a) \/ StartApp(a)
      PROVE  Contents'
  BY <1>4, UnregisterEndKeeps, CleanUpBeginKeeps, CleanUpDisownKeeps, CleanUpUnlinkKeeps,
     StartAppKeeps
<1>5. ASSUME Command PROVE Contents'
  BY <1>5, LoadCmdBeginKeeps, ActivateCmdKeeps, AbortLoadCmdKeeps, ValidateCmdKeeps,
     DumpCmdKeeps, LoadCmdEndKeeps, HousekeepingKeeps DEF Command
<1>6. ASSUME ProcessorReset PROVE Contents'
  <2>1. Blank'
    BY <1>6 DEF ProcessorReset, Blank, Start
  <2> QED BY <2>1, BlankContents, PTL
<1>7. ASSUME UNCHANGED vars PROVE Contents'
  BY <1>7, StutterKeeps
<1> QED BY <1>1, <1>2, <1>3, <1>4, <1>5, <1>6, <1>7 DEF Next, Application

LEMMA ContentsHold == Spec /\ Orderly => [](Links /\ Told /\ Contents)
<1> SUFFICES ASSUME Orderly
             PROVE  Spec => [](Links /\ Told /\ Contents)
  OBVIOUS
<1>1. Init => Contents
  BY BlankContents DEF Init, Blank
<1>2. Links /\ Told /\ Contents /\ [Next]_vars => Contents'
  BY NextKeeps
<1> QED BY <1>1, <1>2, InitLinks, NextLinks, PTL DEF Spec

(* A validation or a dump that is outstanding is known to the owner of its  *)
(* table, and the buffer that a request is about is still there             *)
(* (CFE_TBL_ValidateCmd, CFE_TBL_DumpCmd, CFE_TBL_ActivateCmd), when        *)
(* operators and applications wait for each other.                          *)
THEOREM RequestsKept == Spec /\ Orderly => []RequestsOwned
<1>1. Contents => RequestsOwned
  <2> SUFFICES ASSUME Contents PROVE RequestsOwned
    OBVIOUS
  <2>1. ASSUME NEW v \in Validations, val[v] = "PENDING"
        PROVE  \E r \in Tables : Owned(r) /\ v \in {reg[r].valActive, reg[r].valInactive}
    <3>1. PICK r \in Tables : v \in Asked(r)
      BY <2>1 DEF Contents, Requesting
    <3>2. v # NONE
      BY Ranges
    <3>3. Asked(r) # {NONE}
      BY <3>1, <3>2
    <3> QED BY <3>1, <3>3 DEF Contents, Requesting, AsksOf, Served, Asked
  <2>2. ASSUME NEW i \in Loads, dump[i].st # "FREE"
        PROVE  /\ reg[dump[i].r].lip = dump[i].b
               /\ dump[i].st = "PENDING" <=> reg[dump[i].r].dumpIndex = i
    BY <2>2 DEF Contents, Dumps, DumpOwned
  <2>3. ASSUME NEW r \in Tables, reg[r].valInactive # NONE
        PROVE  Double(r) \/ reg[r].lip # NONE
    BY <2>3 DEF Contents, Requesting, AsksOf
  <2>4. \A r \in Tables : reg[r].pend => reg[r].lip # NONE
    BY DEF Contents, Loading
  <2> QED BY <2>1, <2>2, <2>3, <2>4 DEF RequestsOwned
<1> QED BY <1>1, ContentsHold, PTL

(* What the CDS has of a critical table is its active image, so that a      *)
(* processor reset at any moment gives it back (CFE_TBL_Register,           *)
(* CFE_TBL_UpdateCriticalTblCDS), when operators and applications wait for  *)
(* each other.                                                              *)
THEOREM CriticalKept == Spec /\ Orderly => []CriticalSaved
<1>1. Contents => CriticalSaved
  BY DEF Contents, Saved
<1> QED BY <1>1, ContentsHold, PTL

-----------------------------------------------------------------------------
(* The memory pool. *)

(* The blocks in the pool, for the records f, and those of one record. *)
BlocksIn(f) == {b \in Tables \X (1..2) : f[b[1]].head # NONE /\ b[2] <= Blocks(f[b[1]].kind)}
BlocksBut(f, r) == {b \in BlocksIn(f) : b[1] # r}
Room(x) == IF x.head # NONE THEN Blocks(x.kind) ELSE 0

LEMMA BlocksRange == \A n : Blocks(n) \in 0..2
  BY DEF Blocks

LEMMA BlocksCounted ==
  ASSUME NEW f, NEW r \in Tables
  PROVE  /\ Cardinality(BlocksIn(f)) \in Nat /\ Cardinality(BlocksBut(f, r)) \in Nat
         /\ Cardinality(BlocksIn(f)) = Cardinality(BlocksBut(f, r)) + Room(f[r])
         /\ Cardinality(BlocksBut(f, r)) <= 2 * (MAX_TABLES - 1)
<1> DEFINE n == Room(f[r])
           own == {r} \X (1..n)
<1>1. n \in 0..2
  BY BlocksRange DEF Room
<1> HIDE DEF n
<1>2. IsFiniteSet(1..2) /\ Cardinality(1..2) = 2 /\ IsFiniteSet(1..n) /\ Cardinality(1..n) = n
  <2>1. \A m \in Int : IsFiniteSet(1..m) /\ Cardinality(1..m) = IF 1 > m THEN 0 ELSE m - 1 + 1
    BY FS_Interval
  <2>2. IsFiniteSet(1..n) /\ Cardinality(1..n) = n
    BY <1>1, <2>1
  <2>3. IsFiniteSet(1..2) /\ Cardinality(1..2) = 2
    <3>1. PICK m \in 0..2 : m = 2
      OBVIOUS
    <3>2. IsFiniteSet(1..m) /\ Cardinality(1..m) = m
      BY <2>1
    <3> QED BY <3>1, <3>2
  <2> QED BY <2>2, <2>3
<1>3. IsFiniteSet(own) /\ Cardinality(own) = n
  <2>1. \A T : IsFiniteSet(T) =>
         /\ IsFiniteSet({r} \X T)
         /\ Cardinality({r} \X T) = Cardinality({r}) * Cardinality(T)
    BY FS_Product, FS_Singleton
  <2>2. Cardinality({r}) = 1
    BY FS_Singleton
  <2>3. IsFiniteSet(own) /\ Cardinality(own) = 1 * n
    BY <1>2, <2>1, <2>2
  <2> QED BY <1>1, <2>3
<1>4. /\ IsFiniteSet(Tables \ {r}) /\ Cardinality(Tables \ {r}) = MAX_TABLES - 1
  <2>1. IsFiniteSet(Tables) /\ Cardinality(Tables) = MAX_TABLES
    BY FS_Interval, TablesAssumption DEF Tables
  <2> QED BY <2>1, FS_RemoveElement
<1>5. /\ IsFiniteSet((Tables \ {r}) \X (1..2))
      /\ Cardinality((Tables \ {r}) \X (1..2)) = 2 * (MAX_TABLES - 1)
  <2>1. /\ IsFiniteSet((Tables \ {r}) \X (1..2))
        /\ Cardinality((Tables \ {r}) \X (1..2)) = Cardinality(Tables \ {r}) * Cardinality(1..2)
    BY <1>2, <1>4, FS_Product
  <2>2. Cardinality((Tables \ {r}) \X (1..2)) = (MAX_TABLES - 1) * 2
    BY <1>2, <1>4, <2>1
  <2> QED BY <2>1, <2>2, TablesAssumption
<1>6. BlocksBut(f, r) \in SUBSET ((Tables \ {r}) \X (1..2))
  BY DEF BlocksBut, BlocksIn
<1>7. IsFiniteSet(BlocksBut(f, r)) /\ Cardinality(BlocksBut(f, r)) <= 2 * (MAX_TABLES - 1)
  BY <1>5, <1>6, FS_Subset
<1>8. BlocksIn(f) = BlocksBut(f, r) \union own
  <2>1. ASSUME NEW b \in BlocksIn(f), b[1] = r
        PROVE  b \in own
    BY <1>1, <2>1 DEF BlocksIn, Room, n
  <2>2. ASSUME NEW b \in own
        PROVE  b \in BlocksIn(f)
    BY <1>1, <2>2 DEF BlocksIn, Room, n
  <2> QED BY <2>1, <2>2 DEF BlocksBut
<1>9. BlocksBut(f, r) \intersect own = {}
  BY DEF BlocksBut
<1>10. Cardinality(BlocksBut(f, r)) \in Nat /\ Cardinality(BlocksIn(f)) \in Nat
  BY <1>3, <1>7, <1>8, FS_CardinalityType, FS_Union
<1> HIDE DEF own
<1>11. Cardinality(BlocksIn(f)) = Cardinality(BlocksBut(f, r)) + n - 0
  BY <1>3, <1>7, <1>8, <1>9, FS_Union, FS_EmptySet
<1> QED BY <1>1, <1>7, <1>10, <1>11 DEF n

(* The pool is never overdrawn. *)
PoolExact == pool \in Nat /\ PoolOwned

LEMMA PoolSame ==
  ASSUME PoolExact, pool' = pool,
         \A q \in Tables : (Used(q)' <=> Used(q)) /\ reg'[q].kind = reg[q].kind
  PROVE  PoolExact'
<1>1. BlocksHeld' = BlocksHeld
  BY DEF BlocksHeld, Used
<1> QED BY <1>1 DEF PoolExact, PoolOwned

(* What the blocks of one table do to the pool. *)
LEMMA PoolMoved ==
  ASSUME PoolExact, NEW r \in Tables, pool' \in Nat,
         pool' + Room(reg'[r]) = pool + Room(reg[r]),
         \A q \in Tables : q # r => reg'[q] = reg[q]
  PROVE  PoolExact'
<1>1. BlocksBut(reg', r) = BlocksBut(reg, r)
  BY DEF BlocksBut, BlocksIn
<1>2. BlocksHeld = BlocksIn(reg) /\ BlocksHeld' = BlocksIn(reg')
  BY DEF BlocksHeld, BlocksIn
<1>3. /\ Cardinality(BlocksHeld) = Cardinality(BlocksBut(reg, r)) + Room(reg[r])
      /\ Cardinality(BlocksHeld') = Cardinality(BlocksBut(reg, r)) + Room(reg'[r])
      /\ Cardinality(BlocksBut(reg, r)) \in Nat
  BY <1>1, <1>2, BlocksCounted
<1>4. Room(reg[r]) \in 0..2 /\ Room(reg'[r]) \in 0..2
  BY BlocksRange DEF Room
<1>5. pool + Cardinality(BlocksHeld) = POOL /\ pool \in Nat
  BY DEF PoolExact, PoolOwned
<1>6. pool' + Cardinality(BlocksHeld') = POOL
  BY <1>3, <1>4, <1>5
<1> QED BY <1>6 DEF PoolExact, PoolOwned

(* No table is left with one of its two buffers. *)
RoomEnough == DoubleBuffered = {} \/ (~Fragmented /\ POOL >= 2 * MAX_TABLES)

LEMMA RegisterNoRoomPool ==
  ASSUME Links, PoolExact, RoomEnough, NEW a \in Apps, NEW n \in Names, RegisterNoRoom(a, n)
  PROVE  PoolExact'
<1>1. PICK r \in Tables : ~Owned(r) /\ ~Used(r) /\ reg' = [reg EXCEPT ![r] = EmptyRecord]
  <2>1. Min(FreeRecords) \in FreeRecords
    BY LeastNumber, Ranges DEF RegisterNoRoom, FreeRecords
  <2> QED BY <2>1 DEF RegisterNoRoom, FreeRecords, Used
<1>2. PICK got \in 0..Blocks(n) - 1 :
        got <= pool /\ (Fragmented \/ got = pool) /\ pool' = pool - got
  BY DEF RegisterNoRoom
<1>3. Blocks(n) \in 0..2 /\ pool \in Nat
  BY BlocksRange DEF PoolExact
<1>4. got = 0
  <2>1. CASE DoubleBuffered = {}
    <3>1. Blocks(n) \in 0..1
      BY <2>1 DEF Blocks
    <3> QED BY <1>2, <3>1
  <2>2. CASE ~Fragmented /\ POOL >= 2 * MAX_TABLES
    <3>1. /\ Cardinality(BlocksIn(reg)) = Cardinality(BlocksBut(reg, r)) + Room(reg[r])
          /\ Cardinality(BlocksBut(reg, r)) <= 2 * (MAX_TABLES - 1)
          /\ Cardinality(BlocksBut(reg, r)) \in Nat
      BY BlocksCounted
    <3>2. Room(reg[r]) = 0
      BY <1>1 DEF Room, Used
    <3>3. pool + Cardinality(BlocksIn(reg)) = POOL
      BY DEF PoolExact, PoolOwned, BlocksHeld, BlocksIn
    <3>4. pool >= 2
      BY <1>3, <2>2, <3>1, <3>2, <3>3, TablesAssumption
    <3> QED BY <1>2, <1>3, <2>2, <3>4
  <2> QED BY <2>1, <2>2 DEF RoomEnough
<1>5. /\ reg'[r].head = NONE /\ reg[r].head = NONE
      /\ \A q \in Tables : q # r => reg'[q] = reg[q]
  BY <1>1 DEF Links, Typed, EmptyRecord, Used
<1>6. pool' = pool
  BY <1>2, <1>3, <1>4
<1>7. pool' + Room(reg'[r]) = pool + Room(reg[r])
  BY <1>5, <1>6 DEF Room
<1> QED BY <1>3, <1>5, <1>6, <1>7, PoolMoved

LEMMA RegisterPool ==
  ASSUME Links, PoolExact, NEW a \in Apps, NEW n \in Names, Register(a, n)
  PROVE  PoolExact'
<1>1. pool >= Blocks(n) /\ pool' = pool - Blocks(n)
  BY DEF Register
<1>2. PICK r \in Tables, h \in Handles :
        /\ reg[r].head = NONE /\ reg'[r].kind = n /\ reg'[r].head = h
        /\ \A q \in Tables : q # r => reg'[q] = reg[q]
  BY RegisterEffect DEF Links
<1>3. Blocks(n) \in 0..2 /\ pool \in Nat
  BY BlocksRange DEF PoolExact
<1>4. h # NONE
  BY Ranges
<1>5. Room(reg[r]) = 0 /\ Room(reg'[r]) = Blocks(n)
  BY <1>2, <1>4 DEF Room
<1>6. pool' \in Nat /\ pool' + Blocks(n) = pool + 0
  BY <1>1, <1>3
<1> QED BY <1>2, <1>5, <1>6, PoolMoved

LEMMA SharePool ==
  ASSUME Links, PoolExact, NEW a \in Apps, NEW n \in Names, Share(a, n)
  PROVE  PoolExact'
<1>1. PICK r \in Tables, h \in Handles : Used(r) /\ reg' = [reg EXCEPT ![r].head = h]
  BY ShareEffect
<1>2. /\ reg'[r].head = h /\ reg'[r].kind = reg[r].kind
      /\ \A q \in Tables : q # r => reg'[q] = reg[q]
  BY <1>1, HeadEdit DEF Links
<1>3. h # NONE
  BY Ranges
<1>4. \A q \in Tables : (Used(q)' <=> Used(q)) /\ reg'[q].kind = reg[q].kind
  BY <1>1, <1>2, <1>3 DEF Used
<1>5. pool' = pool
  BY DEF Share
<1> QED BY <1>4, <1>5, PoolSame

LEMMA RemovePool ==
  ASSUME Links, PoolExact, NEW h \in Handles, handle[h].used, RemoveAccessLink(h)
  PROVE  PoolExact'
<1>1. PICK r \in Tables : r = handle[h].reg /\ Used(r)
  BY UserTable
<1>2. \A q \in Tables : q # r => reg'[q] = reg[q]
  BY <1>1, LeavesEffect DEF Leaves
<1>3. PICK head : head = IF handle[h].prev = NONE THEN handle[h].next ELSE reg[r].head
  OBVIOUS
<1>4. \/ /\ head # NONE /\ reg' = [reg EXCEPT ![r].head = head] /\ pool' = pool
      \/ /\ head = NONE /\ pool' = pool + Blocks(reg[r].kind)
         /\ \E l : reg' = [reg EXCEPT ![r] = [EmptyRecord EXCEPT !.lip = l]]
  BY <1>1, <1>3 DEF RemoveAccessLink, Returned
<1>5. Blocks(reg[r].kind) \in 0..2 /\ pool \in Nat /\ Room(reg[r]) = Blocks(reg[r].kind)
  BY <1>1, BlocksRange DEF PoolExact, Room, Used
<1>6. CASE head # NONE /\ reg' = [reg EXCEPT ![r].head = head] /\ pool' = pool
  <2>1. reg'[r].head = head /\ reg'[r].kind = reg[r].kind
    BY <1>6 DEF Links, Typed, RegRecord
  <2>2. Room(reg'[r]) = Room(reg[r])
    BY <1>1, <1>6, <2>1 DEF Room, Used
  <2> QED BY <1>2, <1>5, <1>6, <2>2, PoolMoved
<1>7. CASE /\ head = NONE /\ pool' = pool + Blocks(reg[r].kind)
           /\ \E l : reg' = [reg EXCEPT ![r] = [EmptyRecord EXCEPT !.lip = l]]
  <2>1. reg'[r].head = NONE
    BY <1>7 DEF Links, Typed, EmptyRecord
  <2>2. Room(reg'[r]) = 0
    BY <2>1 DEF Room
  <2>3. pool' \in Nat /\ pool' + 0 = pool + Blocks(reg[r].kind)
    BY <1>5, <1>7
  <2> QED BY <1>2, <1>5, <2>2, <2>3, PoolMoved
<1> QED BY <1>4, <1>6, <1>7

LEMMA BusyPool ==
  ASSUME Links, PoolExact, NEW a \in Apps,
         \/ \E h \in Handles : UnregisterBegin(a, h)
         \/ UnregisterEnd(a) \/ CleanUpBegin(a) \/ CleanUpDisown(a)
         \/ CleanUpUnlink(a) \/ StartApp(a)
  PROVE  PoolExact'
<1>1. ASSUME NEW r, reg' = Disowned(r, a), pool' = pool
      PROVE  PoolExact'
  <2>1. \A q \in Tables : reg'[q].head = reg[q].head /\ reg'[q].kind = reg[q].kind
    BY <1>1 DEF Disowned, Links, Typed, RegRecord
  <2> QED BY <1>1, <2>1, PoolSame DEF Used
<1>2. CASE \E h \in Handles : UnregisterBegin(a, h)
  BY <1>1, <1>2 DEF UnregisterBegin
<1>3. CASE CleanUpDisown(a)
  BY <1>1, <1>3 DEF CleanUpDisown
<1>4. CASE UnregisterEnd(a) \/ CleanUpUnlink(a)
  <2>1. call[a].pc \in {"remove", "unlink"} /\ RemoveAccessLink(call[a].h)
    BY <1>4 DEF UnregisterEnd, CleanUpUnlink
  <2>2. call[a].h \in Handles /\ handle[call[a].h].used
    BY <2>1 DEF Links, Calling, Busy
  <2> QED BY <2>1, <2>2, RemovePool
<1>5. CASE CleanUpBegin(a) \/ StartApp(a)
  <2>1. reg' = reg /\ pool' = pool
    BY <1>5 DEF CleanUpBegin, StartApp
  <2> QED BY <2>1, PoolSame DEF Used
<1> QED BY <1>2, <1>3, <1>4, <1>5

LEMMA CallPool ==
  ASSUME NEW a \in Apps,
         \/ \E h \in Handles : \/ Update(a, h) \/ LoadBegin(a, h) \/ LoadUserDef(a, h)
                               \/ GetAddress(a, h) \/ ReleaseAddress(a, h) \/ Modified(a, h)
                               \/ Validate(a, h) \/ DumpToBuffer(a, h)
         \/ LoadFill(a) \/ LoadFailed(a) \/ LoadEnd(a)
  PROVE  pool' = pool
<1>1. ASSUME NEW h \in Handles,
             \/ Update(a, h) \/ LoadBegin(a, h) \/ LoadUserDef(a, h) \/ GetAddress(a, h)
             \/ ReleaseAddress(a, h) \/ Modified(a, h) \/ Validate(a, h) \/ DumpToBuffer(a, h)
      PROVE  pool' = pool
  <2>1. CASE Update(a, h)
    BY <2>1 DEF Update
  <2>2. CASE LoadBegin(a, h)
    BY <2>2 DEF LoadBegin
  <2>3. CASE LoadUserDef(a, h)
    BY ZenonT(30), <2>3 DEF LoadUserDef
  <2>4. CASE GetAddress(a, h)
    BY ZenonT(30), <2>4 DEF GetAddress
  <2>5. CASE ReleaseAddress(a, h)
    BY <2>5 DEF ReleaseAddress
  <2>6. CASE Modified(a, h)
    BY <2>6 DEF Modified
  <2>7. CASE Validate(a, h)
    BY ZenonT(30), <2>7 DEF Validate
  <2>8. CASE DumpToBuffer(a, h)
    BY ZenonT(30), <2>8 DEF DumpToBuffer
  <2> QED BY <1>1, <2>1, <2>2, <2>3, <2>4, <2>5, <2>6, <2>7, <2>8
<1>2. CASE LoadFill(a)
  BY <1>2 DEF LoadFill
<1>3. CASE LoadFailed(a)
  BY <1>3 DEF LoadFailed
<1>4. CASE LoadEnd(a)
  BY ZenonT(30), <1>4 DEF LoadEnd
<1> QED BY <1>1, <1>2, <1>3, <1>4

LEMMA CommandPool == Command => pool' = pool
<1> SUFFICES ASSUME Command PROVE pool' = pool
  OBVIOUS
<1>1. ASSUME NEW n \in Names,
             \/ LoadCmdBegin(n) \/ ActivateCmd(n) \/ AbortLoadCmd(n)
             \/ ValidateCmd(n, TRUE) \/ ValidateCmd(n, FALSE) \/ DumpCmd(n)
      PROVE  pool' = pool
  <2>1. CASE LoadCmdBegin(n)
    BY <2>1 DEF LoadCmdBegin
  <2>2. CASE ActivateCmd(n) \/ AbortLoadCmd(n)
    BY <2>2 DEF ActivateCmd, AbortLoadCmd
  <2>3. CASE ValidateCmd(n, TRUE) \/ ValidateCmd(n, FALSE)
    BY <2>3 DEF ValidateCmd
  <2>4. CASE DumpCmd(n)
    BY <2>4 DEF DumpCmd
  <2> QED BY <1>1, <2>1, <2>2, <2>3, <2>4
<1>2. CASE LoadCmdEnd
  BY <1>2 DEF LoadCmdEnd
<1>3. CASE Housekeeping
  BY <1>3 DEF Housekeeping
<1> QED BY <1>1, <1>2, <1>3 DEF Command

LEMMA NextPool ==
  ASSUME Links, Told, PoolExact, RoomEnough, [Next]_vars
  PROVE  PoolExact'
<1>1. ASSUME Content, pool' = pool
      PROVE  PoolExact'
  BY <1>1, PoolSame DEF Content, SameUse, Used
<1>2. ASSUME NEW a \in Apps, NEW n \in Names, Register(a, n) \/ RegisterNoRoom(a, n) \/ Share(a, n)
      PROVE  PoolExact'
  BY <1>2, RegisterPool, RegisterNoRoomPool, SharePool
<1>3. ASSUME NEW a \in Apps, NEW h \in Handles, Access(a, h)
      PROVE  PoolExact'
  <2>1. CASE UnregisterBegin(a, h)
    BY <2>1, BusyPool
  <2>2. CASE ~UnregisterBegin(a, h)
    <3>1. Content
      BY <1>3, <2>2, UpdateContent, LoadBeginContent, LoadUserDefContent, GetAddressContent,
         ReleaseAddressContent, ModifiedContent, ValidateContent, DumpToBufferContent DEF Access
    <3>2. pool' = pool
      BY <1>3, <2>2, CallPool DEF Access
    <3> QED BY <1>1, <3>1, <3>2
  <2> QED BY <2>1, <2>2
<1>4. ASSUME NEW a \in Apps, LoadFill(a) \/ LoadFailed(a) \/ LoadEnd(a)
      PROVE  PoolExact'
  BY <1>1, <1>4, CallPool, LoadFillContent, LoadFailedContent, LoadEndContent
<1>5. ASSUME NEW a \in Apps,
             \/ UnregisterEnd(a) \/ CleanUpBegin(a) \/ CleanUpDisown(a)
             \/ CleanUpUnlink(a) \/ StartApp(a)
      PROVE  PoolExact'
  BY <1>5, BusyPool
<1>6. ASSUME Command PROVE PoolExact'
  <2>1. Content
    BY <1>6, LoadCmdBeginContent, ActivateCmdContent, AbortLoadCmdContent, ValidateCmdContent,
       DumpCmdContent, LoadCmdEndContent, HousekeepingContent DEF Command
  <2> QED BY <1>1, <1>6, <2>1, CommandPool
<1>7. ASSUME ProcessorReset PROVE PoolExact'
  <2>1. pool' = POOL /\ reg' = [r \in Tables |-> EmptyRecord]
    BY <1>7 DEF ProcessorReset, Start
  <2>2. BlocksHeld' = {}
    BY <2>1 DEF BlocksHeld, EmptyRecord
  <2> QED BY <2>1, <2>2, FS_EmptySet, TablesAssumption DEF PoolExact, PoolOwned
<1>8. ASSUME UNCHANGED vars PROVE PoolExact'
  BY <1>8, PoolSame DEF vars, Used
<1> QED BY <1>2, <1>3, <1>4, <1>5, <1>6, <1>7, <1>8 DEF Next, Application

LEMMA PoolHolds == Spec /\ RoomEnough => []PoolExact
<1> SUFFICES ASSUME RoomEnough
             PROVE  Spec => []PoolExact
  OBVIOUS
<1>1. Init => PoolExact
  <2> SUFFICES ASSUME Init PROVE PoolExact
    OBVIOUS
  <2>1. pool = POOL /\ reg = [r \in Tables |-> EmptyRecord]
    BY DEF Init, Start
  <2>2. BlocksHeld = {}
    BY <2>1 DEF BlocksHeld, EmptyRecord
  <2> QED BY <2>1, <2>2, FS_EmptySet, TablesAssumption DEF PoolExact, PoolOwned
<1>2. Links /\ Told /\ PoolExact /\ [Next]_vars => PoolExact'
  BY NextPool
<1> QED BY <1>1, <1>2, LinksHold, PTL DEF Spec

LEMMA LoadersCounted ==
  ASSUME Links, Taking
  PROVE  LoadsOwned
<1> SUFFICES ASSUME NEW b \in Loads
             PROVE  Cardinality(LoadersOf(b)) = IF loadBuf[b].taken THEN 1 ELSE 0
  BY DEF LoadsOwned
<1>1. LoadersOf(b) = {r \in Tables : Single(r) /\ reg[r].lip = b}
  <2>1. \A r \in Tables : Used(r) <=> reg[r].kind \in Names
    BY TablesAssumption DEF Links, Recorded, Typed, RegRecord
  <2> QED BY <2>1 DEF LoadersOf, Single, Double
<1>2. b # NONE
  BY Ranges
<1>3. CASE loadBuf[b].taken
  <2>1. PICK r \in Tables : Single(r) /\ reg[r].lip = b
    BY <1>3 DEF Taking
  <2>2. LoadersOf(b) = {r}
    BY <1>1, <1>2, <2>1 DEF Taking
  <2> QED BY <1>3, <2>2, FS_Singleton
<1>4. CASE ~loadBuf[b].taken
  <2>1. LoadersOf(b) = {}
    BY <1>1, <1>2, <1>4 DEF Taking
  <2> QED BY <1>4, <2>1, FS_EmptySet
<1> QED BY <1>3, <1>4

(* No working buffer and no block of the pool is lost or used twice,        *)
(* whatever becomes of a table (CFE_TBL_Register,                           *)
(* CFE_TBL_RemoveAccessLink, CFE_TBL_GetWorkingBuffer), when operators and  *)
(* applications wait for each other and no table can be left with one of    *)
(* its two buffers: CFE_TBL_Register does not put the first one back.       *)
THEOREM BuffersKept == Spec /\ Orderly /\ RoomEnough => []BuffersOwned
<1>1. Links /\ PoolExact => TypeOK
  <2> SUFFICES ASSUME Links, PoolExact PROVE TypeOK
    OBVIOUS
  <2>1. ASSUME NEW r \in Tables
        PROVE  /\ reg[r].owner \in Apps \union {NotOwned}
               /\ {reg[r].name, reg[r].kind} \subseteq Names \union {NoName}
               /\ reg[r].head \in Handles \union {NONE}
               /\ reg[r].lip \in {NONE, 0, 1} \union Loads
               /\ reg[r].active \in 0..1
               /\ {reg[r].valActive, reg[r].valInactive} \subseteq Validations \union {NONE}
               /\ reg[r].dumpIndex \in Loads \union {NONE}
    <3>1. reg[r] \in RegRecord
      BY DEF Links, Typed
    <3> QED BY <3>1 DEF RegRecord
  <2>2. ASSUME NEW h \in Handles
        PROVE  /\ handle[h].reg \in Tables
               /\ {handle[h].prev, handle[h].next} \subseteq Handles \union {NONE}
    <3>1. handle[h] \in HandleRecord
      BY DEF Links, Typed
    <3> QED BY <3>1 DEF HandleRecord
  <2>3. pool \in 0..POOL
    <3>1. Cardinality(BlocksHeld) \in Nat
      BY Ranges, BlocksCounted DEF BlocksHeld, BlocksIn
    <3> QED BY <3>1, TablesAssumption DEF PoolExact, PoolOwned
  <2>4. up \subseteq Apps
    BY DEF Links, Typed
  <2> QED BY <2>1, <2>2, <2>3, <2>4 DEF TypeOK
<1>2. Links /\ Contents => LoadsOwned
  BY LoadersCounted DEF Contents
<1>3. PoolExact => PoolOwned
  BY DEF PoolExact
<1>4. TypeOK /\ PoolOwned /\ LoadsOwned => BuffersOwned
  BY DEF BuffersOwned
<1> SUFFICES ASSUME Orderly, RoomEnough
             PROVE  Spec => []BuffersOwned
  OBVIOUS
<1> QED BY <1>1, <1>2, <1>3, <1>4, ContentsHold, PoolHolds, PTL

-----------------------------------------------------------------------------
(* What the users of tables see: TableImages. *)

(* A step does what TableImages lets be done, or nothing to be seen. *)
Promised == Promise!Next \/ UNCHANGED Promise!vars
SameImage(r) == ImageOf(r)' = ImageOf(r)
SameHeld(h) == HeldBy(h)' = HeldBy(h)

LEMMA SeenStep ==
  ASSUME NEW r \in Tables, NEW h \in Handles
  PROVE  /\ (\A q \in Tables : SameImage(q)) /\ (\A k \in Handles : SameHeld(k)) => Promised
         /\ /\ \A q \in Tables : q # r => SameImage(q)
            /\ \A k \in Handles : SameHeld(k)
            /\ ImageOf(r)' \in Images
            => Promised
         /\ /\ \A q \in Tables : SameImage(q)
            /\ \A k \in Handles : k # h => SameHeld(k)
            /\ HeldBy(h)' = ImageOf(r) \/ HeldBy(h)' = NoImage
            => Promised
         /\ /\ \A q \in Tables : q # r => SameImage(q)
            /\ \A k \in Handles : k # h => SameHeld(k)
            /\ ImageOf(r)' = NoImage /\ HeldBy(h)' = NoImage
            => Promised
         /\ /\ \A q \in Tables : ImageOf(q)' = NoImage
            /\ \A k \in Handles : HeldBy(k)' = NoImage
            => Promised
<1> DEFINE current == [q \in Tables |-> ImageOf(q)]
           held == [k \in Handles |-> HeldBy(k)]
<1>1. (\A q \in Tables : SameImage(q)) => current' = current
  BY DEF SameImage
<1>2. (\A q \in Tables : q # r => SameImage(q)) => current' = [current EXCEPT ![r] = ImageOf(r)']
  BY DEF SameImage
<1>3. (\A k \in Handles : SameHeld(k)) => held' = held
  BY DEF SameHeld
<1>4. (\A k \in Handles : k # h => SameHeld(k)) => held' = [held EXCEPT ![h] = HeldBy(h)']
  BY DEF SameHeld
<1>5. ASSUME \A q \in Tables : SameImage(q), \A k \in Handles : SameHeld(k)
      PROVE  Promised
  BY <1>1, <1>3, <1>5 DEF Promised, Promise!vars
<1>6. ASSUME \A q \in Tables : q # r => SameImage(q), \A k \in Handles : SameHeld(k),
             ImageOf(r)' \in Images
      PROVE  Promised
  <2>1. Promise!Publish(r, ImageOf(r)')
    BY <1>2, <1>3, <1>6 DEF Promise!Publish
  <2> QED BY <1>6, <2>1 DEF Promised, Promise!Next
<1>7. ASSUME \A q \in Tables : SameImage(q), \A k \in Handles : k # h => SameHeld(k),
             HeldBy(h)' = ImageOf(r) \/ HeldBy(h)' = NoImage
      PROVE  Promised
  <2>1. current' = current /\ held' = [held EXCEPT ![h] = HeldBy(h)']
    BY <1>1, <1>4, <1>7
  <2>2. CASE HeldBy(h)' = ImageOf(r)
    <3>1. held' = [held EXCEPT ![h] = current[r]]
      BY <2>1, <2>2
    <3>2. Promise!Take(h, r)
      BY <2>1, <3>1 DEF Promise!Take
    <3> QED BY <3>2 DEF Promised, Promise!Next
  <2>3. CASE HeldBy(h)' = NoImage
    <3>1. Promise!Drop(h)
      BY <2>1, <2>3 DEF Promise!Drop
    <3> QED BY <3>1 DEF Promised, Promise!Next
  <2> QED BY <1>7, <2>2, <2>3
<1>8. ASSUME \A q \in Tables : q # r => SameImage(q), \A k \in Handles : k # h => SameHeld(k),
             ImageOf(r)' = NoImage, HeldBy(h)' = NoImage
      PROVE  Promised
  <2>1. Promise!Discard(r, h)
    BY <1>2, <1>4, <1>8 DEF Promise!Discard
  <2> QED BY <2>1 DEF Promised, Promise!Next
<1>9. ASSUME \A q \in Tables : ImageOf(q)' = NoImage, \A k \in Handles : HeldBy(k)' = NoImage
      PROVE  Promised
  <2>1. Promise!Restart
    BY <1>9 DEF Promise!Restart
  <2> QED BY <2>1 DEF Promised, Promise!Next
<1> QED BY <1>5, <1>6, <1>7, <1>8, <1>9

(* What is held, and where. *)
LEMMA HeldWhere ==
  ASSUME Links, Contents, NEW h \in Handles, handle[h].lock
  PROVE  /\ handle[h].used /\ handle[h].reg \in Tables /\ handle[h].buf \in 0..1
         /\ \A r \in Tables : r = handle[h].reg =>
              /\ h \in UsersOf(r) /\ Used(r)
              /\ handle[h].sure => reg[r].loaded
              /\ ~Double(r) => handle[h].buf = 0
              /\ Double(r) /\ reg[r].lip # NONE => handle[h].buf = reg[r].active
<1>1. handle[h].used
  BY DEF Links, Described, EmptyHandle
<1>2. PICK r \in Tables : r = handle[h].reg
  BY DEF Links, Typed, HandleRecord
<1>3. HeldOf(h)
  BY DEF Contents, Holding
<1>4. handle[h].buf \in 0..1
  BY DEF Links, Typed, HandleRecord
<1> QED BY <1>1, <1>2, <1>3, <1>4, UserTable DEF HeldOf, UsersOf

LEMMA HeldKept ==
  ASSUME Links, NEW h \in Handles, SameHold(h), handle'[h].reg = handle[h].reg,
         NEW r \in Tables, r = handle[h].reg,
         handle[h].lock /\ handle[h].sure =>
           reg'[r].buf[handle[h].buf].img = reg[r].buf[handle[h].buf].img
  PROVE  SameHeld(h)
  BY DEF SameHold, SameHeld, HeldBy

(* A step that edits the record of r and neither takes nor drops: nobody    *)
(* holds a buffer that it writes.                                           *)
LEMMA EditSeen ==
  ASSUME Links, Contents, Content, NEW r \in Tables, \A q \in Tables : q # r => reg'[q] = reg[q],
         \A h \in Handles : SameHold(h),
         reg[r].loaded => reg'[r].loaded,
         \A h \in UsersOf(r) : handle[h].lock /\ handle[h].sure =>
           reg'[r].buf[handle[h].buf].img = reg[r].buf[handle[h].buf].img
  PROVE  Promised
<1>1. \A q \in Tables : q # r => SameImage(q)
  BY DEF SameImage, ImageOf, Active
<1>2. ASSUME NEW h \in Handles
      PROVE  SameHeld(h)
  <2>1. SameHold(h) /\ handle'[h].reg = handle[h].reg
    BY DEF Content, SameLinks
  <2>2. PICK q \in Tables : q = handle[h].reg
    BY DEF Links, Typed, HandleRecord
  <2>3. CASE q # r
    <3>1. reg'[q] = reg[q]
      BY <2>3
    <3> QED BY <2>1, <2>2, <3>1, HeldKept
  <2>4. CASE q = r
    <3>1. handle[h].lock => h \in UsersOf(r)
      BY <2>2, <2>4, HeldWhere
    <3> QED BY <2>1, <2>2, <2>4, <3>1, HeldKept
  <2> QED BY <2>3, <2>4
<1>3. CASE reg'[r].loaded
  <2>1. ImageOf(r)' \in Images
    <3>1. reg'[r] \in RegRecord
      BY DEF Content, Typed
    <3> QED BY <1>3, <3>1 DEF ImageOf, Active, RegRecord, BufRecord
  <2>2. 0 \in Handles
    BY Ranges
  <2> QED BY <1>1, <1>2, <2>1, <2>2, SeenStep
<1>4. CASE ~reg'[r].loaded
  <2>1. SameImage(r)
    BY <1>4 DEF SameImage, ImageOf
  <2>2. 0 \in Handles
    BY Ranges
  <2> QED BY <1>1, <1>2, <2>1, <2>2, SeenStep
<1> QED BY <1>3, <1>4

(* Nothing to be seen happens to the images. *)
LEMMA ImagesSeen ==
  ASSUME Links, Contents, \A q \in Tables : SameImages(q) /\ reg'[q].loaded = reg[q].loaded,
         \A h \in Handles : SameHold(h) /\ handle'[h].reg = handle[h].reg
  PROVE  Promised
<1>1. ASSUME NEW q \in Tables
      PROVE  SameImage(q)
  BY TableFields DEF SameImage, ImageOf, Active, SameImages, Links, TableTypes
<1>2. ASSUME NEW h \in Handles
      PROVE  SameHeld(h)
  <2>1. PICK q \in Tables : q = handle[h].reg
    BY DEF Links, Typed, HandleRecord
  <2>2. SameImages(q)
    OBVIOUS
  <2> QED BY <2>1, <2>2, HeldKept, HeldWhere DEF SameImages
<1>3. 0 \in Tables /\ 0 \in Handles
  BY Ranges
<1> QED BY <1>1, <1>2, <1>3, SeenStep

(* A load ends with its image in place. *)
LEMMA ApplySeen ==
  ASSUME Links, Contents, Content, NEW r \in Tables, Used(r), reg[r].lip # NONE, ~Locked(r),
         ApplyUpdate(r)
  PROVE  Promised
<1>1. /\ Edits(r) /\ Notifies(r) /\ reg'[r].loaded
      /\ Double(r) => reg'[r].buf = reg[r].buf
  BY UpdateEffect DEF Links
<1>2. \A h \in UsersOf(r) : handle[h].lock => Double(r)
  BY DEF Locked
<1> QED BY <1>1, <1>2, EditSeen DEF Edits, Notifies

LEMMA UpdateSeen ==
  ASSUME Links, Told, Contents, Orderly, NEW a \in Apps, NEW h \in Handles, Update(a, h)
  PROVE  Promised
<1>1. PICK r \in Tables : r = handle[h].reg /\ Used(r)
  BY UserTable DEF Update, Calls
<1>2. reg[r].lip # NONE /\ ~Locked(r) /\ ApplyUpdate(r)
  BY <1>1 DEF Update
<1> QED BY <1>1, <1>2, UpdateContent, ApplySeen

(* A step that edits the record of r but not its buffers. *)
LEMMA BuffersSeen ==
  ASSUME Links, Contents, Content, NEW r \in Tables, Edits(r), SameBuffers(r),
         reg[r].loaded => reg'[r].loaded, \A h \in Handles : SameHold(h)
  PROVE  Promised
  BY EditSeen DEF Edits, SameBuffers

LEMMA LoadEndSeen ==
  ASSUME Links, Told, Contents, Orderly, NEW a \in Apps, LoadEnd(a)
  PROVE  Promised
<1>0. call[a].pc \in {"fill", "good", "failed"}
  BY DEF LoadEnd
<1>1. PICK r \in Tables : r = handle[call[a].h].reg /\ Used(r)
  BY ZenonT(30), <1>0, FillerTable
<1>2. \/ /\ ~reg[r].loaded
         /\ reg' = [reg EXCEPT ![r].lip = NONE, ![r].pend = FALSE, ![r].loaded = TRUE]
         /\ handle' = Notified(r) /\ Stale(r)
         /\ UpdateCriticalTblCDS(r, Active(r), TRUE)
      \/ reg[r].lip # NONE /\ ~Locked(r) /\ ApplyUpdate(r)
      \/ reg' = [reg EXCEPT ![r].pend = TRUE] /\ handle' = handle
  BY ZenonT(30), <1>1 DEF LoadEnd
<1>3. Content /\ Typed
  BY LoadEndContent DEF Links
<1>4. ASSUME reg' = [reg EXCEPT ![r].lip = NONE, ![r].pend = FALSE, ![r].loaded = TRUE],
             handle' = Notified(r), Stale(r), UpdateCriticalTblCDS(r, Active(r), TRUE)
      PROVE  Promised
  <2>1. Edits(r) /\ SameBuffers(r) /\ Notifies(r) /\ reg'[r].loaded
    BY <1>3, <1>4, FirstEndEffect
  <2> QED BY <1>3, <2>1, BuffersSeen DEF Notifies
<1>5. ASSUME reg' = [reg EXCEPT ![r].pend = TRUE], handle' = handle
      PROVE  Promised
  <2>1. Edits(r) /\ SameBuffers(r) /\ reg'[r].loaded = reg[r].loaded
    BY <1>3, <1>5, PendEdit
  <2>2. \A h \in Handles : SameHold(h)
    BY <1>5 DEF SameHold
  <2> QED BY <1>3, <2>1, <2>2, BuffersSeen
<1> QED BY ZenonT(30), <1>1, <1>2, <1>3, <1>4, <1>5, ApplySeen

LEMMA LoadFailedSeen ==
  ASSUME Links, Told, Contents, Orderly, NEW a \in Apps, LoadFailed(a)
  PROVE  Promised
<1>1. PICK r \in Tables : r = handle[call[a].h].reg /\ Used(r)
  BY FillerTable DEF LoadFailed
<1>2. reg' = [reg EXCEPT ![r].lip = NONE] /\ handle' = handle
  BY <1>1 DEF LoadFailed
<1>3. Edits(r) /\ SameBuffers(r) /\ reg'[r].loaded = reg[r].loaded
  BY <1>2, LipEdit DEF Links
<1>4. \A h \in Handles : SameHold(h)
  BY <1>2 DEF SameHold
<1> QED BY <1>3, <1>4, LoadFailedContent, BuffersSeen

(* A load of table r begins, in a buffer that nobody holds. *)
LEMMA TakeSeen ==
  ASSUME Links, Contents, Content, NEW r \in Tables, NEW byApp \in BOOLEAN, Used(r),
         WorkAvailable(r, byApp), TakeWork(r, byApp), handle' = handle
  PROVE  Promised
<1>1. /\ Edits(r) /\ reg'[r].loaded = reg[r].loaded
      /\ \/ reg' = reg
         \/ /\ Double(r) /\ ~InactiveHeld(r)
            /\ reg'[r].buf[reg[r].active] = reg[r].buf[reg[r].active]
         \/ reg'[r].buf = reg[r].buf
  BY TakeWorkEffect DEF Links
<1>2. ASSUME ~InactiveHeld(r), NEW h \in UsersOf(r), handle[h].lock
      PROVE  handle[h].buf = reg[r].active
  BY <1>2 DEF InactiveHeld, Inactive, UsersOf, Links, Typed, HandleRecord, RegRecord
<1>3. \A h \in UsersOf(r) : handle[h].lock /\ handle[h].sure =>
        reg'[r].buf[handle[h].buf].img = reg[r].buf[handle[h].buf].img
  BY <1>1, <1>2
<1> QED BY <1>1, <1>3, EditSeen DEF Edits, SameHold

LEMMA LoadBeginSeen ==
  ASSUME Links, Told, Contents, Orderly, NEW a \in Apps, NEW h \in Handles, LoadBegin(a, h)
  PROVE  Promised
<1>1. PICK r \in Tables : r = handle[h].reg /\ Used(r)
  BY UserTable DEF LoadBegin, Calls
<1>2. WorkAvailable(r, TRUE) /\ TakeWork(r, TRUE) /\ handle' = handle
  BY <1>1 DEF LoadBegin
<1> QED BY <1>1, <1>2, LoadBeginContent, TakeSeen

LEMMA LoadCmdBeginSeen ==
  ASSUME Links, Told, Contents, Orderly, NEW n \in Names, LoadCmdBegin(n)
  PROVE  Promised
<1>1. PICK r \in Find(n) : WorkAvailable(r, FALSE) /\ TakeWork(r, FALSE)
  BY DEF LoadCmdBegin
<1>2. r \in Tables /\ Used(r) /\ handle' = handle
  BY NamedTable DEF LoadCmdBegin
<1> QED BY <1>1, <1>2, LoadCmdBeginContent, TakeSeen

(* A step that puts something into a buffer being filled, or nothing. *)
LEMMA FillSeen ==
  ASSUME Links, Contents, Content, NEW r \in Tables, NEW at, at.tbl = r,
         reg' = reg \/ (~at.shared /\ Places(at.tbl, at.k)),
         reg[r].loaded => reg[r].lip # NONE /\ at = WorkOf(r), handle' = handle
  PROVE  Promised
<1>1. \A q \in Tables : q # r => reg'[q] = reg[q]
  BY DEF Places
<1>2. reg'[r].loaded = reg[r].loaded
  BY DEF Places, SameLoad
<1>3. ASSUME NEW h \in UsersOf(r), handle[h].lock, handle[h].sure
      PROVE  reg'[r].buf[handle[h].buf].img = reg[r].buf[handle[h].buf].img
  <2>1. /\ h \in Handles /\ r = handle[h].reg
    BY DEF UsersOf
  <2>2. /\ handle[h].buf \in 0..1 /\ reg[r].loaded
        /\ Double(r) /\ reg[r].lip # NONE => handle[h].buf = reg[r].active
    BY <1>3, <2>1, HeldWhere
  <2>3. reg[r].lip # NONE /\ at = WorkOf(r)
    BY <2>2
  <2>4. CASE reg' = reg
    BY <2>4
  <2>5. CASE ~at.shared /\ Places(at.tbl, at.k)
    <3>1. Double(r) /\ at.k = Inactive(r)
      BY <2>3, <2>5 DEF WorkOf
    <3>2. handle[h].buf # at.k
      BY <2>2, <2>3, <3>1, TableFields DEF TableTypes, Links
    <3>3. reg'[r].buf[handle[h].buf] = reg[r].buf[handle[h].buf]
      BY <2>2, <2>5, <3>2 DEF Places
    <3> QED BY <3>3
  <2> QED BY <2>4, <2>5
<1>4. \A h \in Handles : SameHold(h)
  BY DEF SameHold
<1> QED BY <1>1, <1>2, <1>3, <1>4, EditSeen

LEMMA LoadFillSeen ==
  ASSUME Links, Told, Contents, Orderly, NEW a \in Apps, LoadFill(a)
  PROVE  Promised
<1>0. call[a].pc = "fill"
  BY DEF LoadFill
<1>1. PICK r \in Tables :
           /\ reg[r].loaded => reg[r].lip # NONE /\ call[a].at = WorkOf(r)
           /\ ~reg[r].loaded =>
                call[a].at = [shared |-> FALSE, tbl |-> r, k |-> reg[r].active]
  BY <1>0, FillerTable
<1>2. PICK at \in Place : at = call[a].at
  BY DEF Links, Typed, CallRecord
<1>3. at.tbl = r
  BY <1>1, <1>2 DEF WorkOf
<1>4. /\ reg' = reg \/ \E img \in Images : Put(at, img)
      /\ handle' = handle
  BY <1>2, TablesAssumption DEF LoadFill, Images
<1>5. reg' = reg \/ (~at.shared /\ Places(at.tbl, at.k))
  BY <1>4, PutEffect DEF Links
<1> QED BY <1>1, <1>2, <1>3, <1>4, <1>5, LoadFillContent, FillSeen

LEMMA LoadCmdEndSeen ==
  ASSUME Links, Told, Contents, Orderly, LoadCmdEnd
  PROVE  Promised
<1>1. cmd.pc = "read" /\ handle' = handle
  BY DEF LoadCmdEnd
<1>2. PICK r \in Tables : r = cmd.r /\ CmdReads(r)
  BY <1>1 DEF Contents, OneFills, CmdReads
<1>3. reg[r].lip # NONE /\ cmd.at = WorkOf(r)
  BY <1>2 DEF Contents, OneFills, FillsOf
<1>4. PICK at \in Place : at = cmd.at
  BY DEF Links, Typed, CmdRecord
<1>5. PICK img \in Images : SetValidated(at, img, Unvalidated(at)) \/ Put(at, img)
  BY <1>4, TablesAssumption DEF LoadCmdEnd, Images
<1>6. reg' = reg \/ (~at.shared /\ Places(at.tbl, at.k))
  BY <1>5, PutEffect DEF Links, Unvalidated
<1>7. at.tbl = r
  BY <1>3, <1>4 DEF WorkOf
<1> QED BY <1>1, <1>3, <1>4, <1>6, <1>7, LoadCmdEndContent, FillSeen

LEMMA LoadUserDefSeen ==
  ASSUME Links, Told, Contents, Orderly, NEW a \in Apps, NEW h \in Handles, LoadUserDef(a, h)
  PROVE  Promised
<1>1. PICK r \in Tables : r = handle[h].reg /\ Used(r)
  BY UserTable DEF LoadUserDef, Calls
<1>2. /\ ~reg[r].loaded /\ handle' = handle
      /\ reg' = [reg EXCEPT ![r].loaded = TRUE, ![r].buf[0].img = "good"]
  BY <1>1 DEF LoadUserDef
<1>3. Edits(r) /\ reg'[r].loaded
  BY <1>2, UserDefEdit DEF Links
<1>4. ASSUME NEW k \in UsersOf(r), handle[k].lock, handle[k].sure
      PROVE  FALSE
  BY <1>2, <1>4, HeldWhere DEF UsersOf
<1>5. \A k \in Handles : SameHold(k)
  BY <1>2 DEF SameHold
<1> QED BY <1>3, <1>4, <1>5, LoadUserDefContent, EditSeen DEF Edits

LEMMA ModifiedSeen ==
  ASSUME Links, Told, Contents, Orderly, NEW a \in Apps, NEW h \in Handles, Modified(a, h)
  PROVE  Promised
<1>1. reg' = reg
  BY DEF Modified
<1>2. \A k \in Handles : SameLinks(k) /\ SameHold(k)
  BY ModifiedEffect DEF Links
<1> QED BY <1>1, <1>2, ImagesSeen DEF SameImages, SameLinks

(* Commands, of which an application's descriptors do not hear at once. *)
LEMMA CommandSeen ==
  ASSUME Links, Contents, Content, NEW r \in Tables, reg' = reg \/ (Edits(r) /\ SameBuffers(r)),
         reg'[r].loaded = reg[r].loaded, handle' = handle
  PROVE  Promised
<1>1. \A q \in Tables : SameImages(q) /\ reg'[q].loaded = reg[q].loaded
  BY DEF Edits, SameBuffers, SameImages
<1>2. \A k \in Handles : SameHold(k) /\ handle'[k].reg = handle[k].reg
  BY DEF SameHold
<1> QED BY <1>1, <1>2, ImagesSeen

LEMMA ActivateCmdSeen ==
  ASSUME Links, Told, Contents, Orderly, NEW n \in Names, ActivateCmd(n)
  PROVE  Promised
<1>1. PICK r \in Find(n) : reg' = [reg EXCEPT ![r].pend = TRUE]
  BY DEF ActivateCmd
<1>2. r \in Tables /\ handle' = handle
  BY NamedTable DEF ActivateCmd
<1>3. Edits(r) /\ SameBuffers(r) /\ reg'[r].loaded = reg[r].loaded
  BY <1>1, <1>2, PendEdit DEF Links
<1> QED BY <1>2, <1>3, ActivateCmdContent, CommandSeen

LEMMA AbortLoadCmdSeen ==
  ASSUME Links, Told, Contents, Orderly, NEW n \in Names, AbortLoadCmd(n)
  PROVE  Promised
<1>1. PICK r \in Find(n) : reg' = [reg EXCEPT ![r] = Aborted(r)]
  BY DEF AbortLoadCmd
<1>2. r \in Tables /\ handle' = handle
  BY NamedTable DEF AbortLoadCmd
<1>3. Edits(r) /\ SameBuffers(r) /\ reg'[r].loaded = reg[r].loaded
  BY <1>1, <1>2, AbortEdit DEF Links
<1> QED BY <1>2, <1>3, AbortLoadCmdContent, CommandSeen

LEMMA ValidateCmdSeen ==
  ASSUME Links, Told, Contents, Orderly, NEW n \in Names, NEW active \in BOOLEAN,
         ValidateCmd(n, active)
  PROVE  Promised
<1>1. PICK r \in Find(n), v \in {w \in Validations : val[w] = "FREE"} :
        reg' = IF n \notin Validating THEN reg
               ELSE IF active THEN [reg EXCEPT ![r].valActive = v]
               ELSE [reg EXCEPT ![r].valInactive = v]
  BY DEF ValidateCmd
<1>2. r \in Tables /\ v \in Validations /\ handle' = handle
  BY NamedTable DEF ValidateCmd
<1>3. \/ reg' = reg
      \/ Edits(r) /\ SameBuffers(r) /\ SameLoad(r)
  BY <1>1, <1>2, AskEdit DEF Links
<1>4. reg'[r].loaded = reg[r].loaded
  BY <1>3 DEF SameLoad
<1> QED BY <1>2, <1>3, <1>4, ValidateCmdContent, CommandSeen

LEMMA ValidateSeen ==
  ASSUME Links, Told, Contents, Orderly, NEW a \in Apps, NEW h \in Handles, Validate(a, h)
  PROVE  Promised
<1>1. PICK r \in Tables : r = handle[h].reg /\ (ValidatesInactive(r) \/ ValidatesActive(r))
  BY ValidateEffect
<1>2. handle' = handle
  BY ZenonT(30) DEF Validate
<1>3. Edits(r) /\ SameLoad(r) /\ SameImages(r)
  BY <1>1 DEF ValidatesInactive, ValidatesActive
<1>4. \A q \in Tables : SameImages(q) /\ reg'[q].loaded = reg[q].loaded
  BY <1>3 DEF Edits, SameLoad, SameImages
<1>5. \A k \in Handles : SameHold(k) /\ handle'[k].reg = handle[k].reg
  BY <1>2 DEF SameHold
<1> QED BY <1>4, <1>5, ImagesSeen

LEMMA DumpCmdSeen ==
  ASSUME Links, Told, Contents, Orderly, NEW n \in Names, DumpCmd(n)
  PROVE  Promised
<1>1. PICK r \in Tables, i \in Loads, b \in Loads : DumpBegins(n, r, i, b)
  BY DumpCmdEffect
<1>2. reg' = [reg EXCEPT ![r].lip = b, ![r].dumpIndex = i] /\ handle' = handle
  BY <1>1 DEF DumpBegins, DumpCmd
<1>3. Edits(r) /\ SameBuffers(r) /\ reg'[r].loaded = reg[r].loaded
  <2>1. i \in Loads \union {NONE} /\ b \in {NONE, 0, 1} \union Loads /\ Typed
    BY DEF Links
  <2> QED BY <1>2, <2>1, DumpEdit
<1> QED BY <1>2, <1>3, DumpCmdContent, CommandSeen

LEMMA DumpToBufferSeen ==
  ASSUME Links, Told, Contents, Orderly, NEW a \in Apps, NEW h \in Handles, DumpToBuffer(a, h)
  PROVE  Promised
<1>1. PICK r \in Tables : r = handle[h].reg
  BY ZenonT(30), UserTable DEF DumpToBuffer, Calls
<1>2. reg' = [reg EXCEPT ![r].dumpIndex = NONE] /\ handle' = handle
  BY ZenonT(30), <1>1 DEF DumpToBuffer
<1>3. Edits(r) /\ SameBuffers(r) /\ reg'[r].loaded = reg[r].loaded
  <2>1. PICK l \in {NONE, 0, 1} \union Loads : l = reg[r].lip
    BY TableFields DEF TableTypes, Links
  <2>2. NONE \in Loads \union {NONE} /\ Typed
    BY DEF Links
  <2> QED BY <1>2, <2>1, <2>2, DumpEdit
<1> QED BY <1>2, <1>3, DumpToBufferContent, CommandSeen

LEMMA HousekeepingSeen ==
  ASSUME Links, Told, Contents, Orderly, Housekeeping
  PROVE  Promised
<1>1. \A q \in Tables : SameBuffers(q) /\ reg'[q].loaded = reg[q].loaded
  BY HousekeepingEffect DEF Links
<1>2. handle' = handle
  BY DEF Housekeeping
<1>3. \A q \in Tables : SameImages(q) /\ reg'[q].loaded = reg[q].loaded
  BY <1>1 DEF SameBuffers, SameImages
<1>4. \A k \in Handles : SameHold(k) /\ handle'[k].reg = handle[k].reg
  BY <1>2 DEF SameHold
<1> QED BY <1>3, <1>4, ImagesSeen

LEMMA DisownSeen ==
  ASSUME Links, Contents, NEW a \in Apps, NEW r \in Tables, reg' = Disowned(r, a), handle' = handle
  PROVE  Promised
<1>1. \A q \in Tables : SameImages(q) /\ reg'[q].loaded = reg[q].loaded
  BY DisownEffect DEF Links, SameBuffers, SameImages, SameLoad
<1>2. \A k \in Handles : SameHold(k) /\ handle'[k].reg = handle[k].reg
  BY DEF SameHold
<1> QED BY <1>1, <1>2, ImagesSeen

LEMMA UseSeen ==
  ASSUME Links, Told, Contents, Orderly, NEW a \in Apps,
         \/ \E h \in Handles : UnregisterBegin(a, h)
         \/ CleanUpBegin(a) \/ CleanUpDisown(a) \/ StartApp(a)
  PROVE  Promised
<1>1. ASSUME NEW h \in Handles, UnregisterBegin(a, h)
      PROVE  Promised
  <2>1. handle[h].reg \in Tables
    BY <1>1, UserTable DEF UnregisterBegin, Calls
  <2> QED BY <1>1, <2>1, DisownSeen DEF UnregisterBegin
<1>2. ASSUME CleanUpDisown(a)
      PROVE  Promised
  <2>1. HandlesOf(a) \subseteq Nat /\ HandlesOf(a) # {}
    BY <1>2, Ranges DEF CleanUpDisown, HandlesOf
  <2>2. handle[Min(HandlesOf(a))].reg \in Tables
    BY <2>1, LeastNumber, UserTable DEF HandlesOf
  <2> QED BY <1>2, <2>2, DisownSeen DEF CleanUpDisown
<1>3. ASSUME reg' = reg, handle' = handle
      PROVE  Promised
  BY <1>3, ImagesSeen DEF SameImages, SameHold
<1> QED BY <1>1, <1>2, <1>3 DEF CleanUpBegin, StartApp

LEMMA ShareSeen ==
  ASSUME Links, Told, Contents, Orderly, NEW a \in Apps, NEW n \in Names, Share(a, n)
  PROVE  Promised
<1>1. PICK r \in Tables, h \in Handles :
        /\ ~handle[h].used
        /\ reg' = [reg EXCEPT ![r].head = h]
        /\ ~handle'[h].lock
        /\ \A k \in Handles : k # h => SameHold(k) /\ handle'[k].reg = handle[k].reg
  BY ShareEffect
<1>2. \A q \in Tables : SameImages(q) /\ reg'[q].loaded = reg[q].loaded
  BY <1>1, HeadEdit DEF Links, SameBuffers, SameImages, SameLoad
<1>3. ASSUME NEW q \in Tables
      PROVE  SameImage(q)
  BY <1>2, TableFields DEF SameImage, ImageOf, Active, SameImages, Links, TableTypes
<1>4. ASSUME NEW k \in Handles
      PROVE  SameHeld(k)
  <2>1. CASE k = h
    <3>1. ~handle[h].lock
      BY <1>1 DEF Links, Described, EmptyHandle
    <3> QED BY <1>1, <2>1, <3>1 DEF SameHeld, HeldBy
  <2>2. CASE k # h
    <3>1. PICK q \in Tables : q = handle[k].reg
      BY DEF Links, Typed, HandleRecord
    <3>2. SameImages(q) /\ SameHold(k) /\ handle'[k].reg = handle[k].reg
      BY <1>1, <1>2, <2>2
    <3> QED BY <3>1, <3>2, HeldKept, HeldWhere DEF SameImages
  <2> QED BY <2>1, <2>2
<1> QED BY <1>1, <1>3, <1>4, SeenStep

LEMMA AddressSeen ==
  ASSUME Links, Told, Contents, Orderly, NEW a \in Apps, NEW h \in Handles,
         GetAddress(a, h) \/ ReleaseAddress(a, h)
  PROVE  Promised
<1>1. PICK r \in Tables : r = handle[h].reg
  BY UserTable DEF GetAddress, ReleaseAddress, Calls
<1>2. reg' = reg
  BY DEF GetAddress, ReleaseAddress
<1>3. \A q \in Tables : SameImage(q)
  BY <1>2 DEF SameImage, ImageOf, Active
<1>4. SameLinks(h) /\ \A k \in Handles : k # h => handle'[k] = handle[k]
  BY AddressEffect DEF Links
<1>5. \A k \in Handles : k # h => SameHeld(k)
  BY <1>2, <1>4 DEF SameHeld, HeldBy
<1>6. CASE GetAddress(a, h)
  <2>1. /\ handle'[h].lock /\ handle'[h].buf = reg[r].active /\ handle'[h].sure = reg[r].loaded
        /\ handle'[h].reg = r
    BY <1>1, <1>4, <1>6, AddressEffect DEF Links, SameLinks
  <2>2. HeldBy(h)' = ImageOf(r)
    BY <1>2, <2>1 DEF HeldBy, ImageOf, Active
  <2> QED BY <1>3, <1>5, <2>2, SeenStep
<1>7. CASE ReleaseAddress(a, h)
  <2>1. ~handle'[h].lock
    BY <1>7, AddressEffect DEF Links
  <2>2. HeldBy(h)' = NoImage
    BY <2>1 DEF HeldBy
  <2> QED BY <1>1, <1>3, <1>5, <2>2, SeenStep
<1> QED BY <1>6, <1>7

(* Nobody holds a buffer of a table that is not used. *)
LEMMA UnusedSeen ==
  ASSUME Links, Contents, NEW r \in Tables, ~Used(r), \A q \in Tables : q # r => reg'[q] = reg[q],
         \A k \in Handles : (~handle[k].lock /\ ~handle'[k].lock) \/ handle'[k] = handle[k],
         reg'[r] \in RegRecord
  PROVE  Promised
<1>1. \A q \in Tables : q # r => SameImage(q)
  BY DEF SameImage, ImageOf, Active
<1>2. ASSUME NEW k \in Handles
      PROVE  SameHeld(k)
  <2>1. CASE ~handle[k].lock /\ ~handle'[k].lock
    BY <2>1 DEF SameHeld, HeldBy
  <2>2. CASE handle'[k] = handle[k] /\ handle[k].lock
    <3>1. handle[k].reg \in Tables /\ handle[k].reg # r
      BY <2>2, HeldWhere
    <3>2. reg'[handle[k].reg] = reg[handle[k].reg]
      BY <3>1
    <3> QED BY <2>2, <3>2 DEF SameHeld, HeldBy
  <2>3. CASE handle'[k] = handle[k] /\ ~handle[k].lock
    BY <2>3 DEF SameHeld, HeldBy
  <2> QED BY <2>1, <2>2, <2>3
<1>3. 0 \in Handles
  BY Ranges
<1>4. CASE reg'[r].loaded
  <2>1. ImageOf(r)' \in Images
    BY <1>4 DEF ImageOf, Active, RegRecord, BufRecord
  <2> QED BY <1>1, <1>2, <1>3, <2>1, SeenStep
<1>5. CASE ~reg'[r].loaded
  <2>1. ~reg[r].loaded
    BY DEF Links, Recorded
  <2>2. SameImage(r)
    BY <1>5, <2>1 DEF SameImage, ImageOf
  <2> QED BY <1>1, <1>2, <1>3, <2>2, SeenStep
<1> QED BY <1>4, <1>5

LEMMA RegisterSeen ==
  ASSUME Links, Told, Contents, Orderly, NEW a \in Apps, NEW n \in Names, Register(a, n)
  PROVE  Promised
<1>0. Typed
  BY DEF Links
<1>1. PICK r \in Tables, h \in Handles :
        /\ r = Min(FreeRecords) /\ h = Min(FreeHandles)
        /\ reg[r].head = NONE /\ ~handle[h].used
        /\ \A q \in Tables : q # r => reg'[q] = reg[q]
        /\ \A k \in Handles : k # h => handle'[k] = handle[k]
  BY <1>0, RegisterEffect
<1>2. ~handle'[h].lock
  BY <1>0, <1>1, RegisterBlank
<1>3. ~handle[h].lock
  BY <1>1 DEF Links, Described, EmptyHandle
<1>4. reg'[r] \in RegRecord
  BY <1>0, RegisterTyped DEF Typed
<1> QED BY <1>1, <1>2, <1>3, <1>4, UnusedSeen DEF Used

LEMMA RegisterNoRoomSeen ==
  ASSUME Links, Told, Contents, Orderly, NEW a \in Apps, NEW n \in Names, RegisterNoRoom(a, n)
  PROVE  Promised
<1>1. PICK r \in FreeRecords : r = Min(FreeRecords)
  BY LeastNumber, Ranges DEF RegisterNoRoom, FreeRecords
<1>2. r \in Tables /\ ~Used(r)
  BY <1>1 DEF FreeRecords, Used
<1>3. reg' = [reg EXCEPT ![r] = EmptyRecord] /\ handle' = handle
  BY <1>1 DEF RegisterNoRoom
<1>4. reg'[r] \in RegRecord /\ \A q \in Tables : q # r => reg'[q] = reg[q]
  BY <1>2, <1>3, EmptyTyped DEF Links, Typed
<1> QED BY <1>2, <1>3, <1>4, UnusedSeen

(* A descriptor goes, and if it is the last the table with it. *)
LEMMA RemoveSeen ==
  ASSUME Links, Contents, NEW h \in Handles, handle[h].used, RemoveAccessLink(h)
  PROVE  Promised
<1>1. PICK r \in Tables : r = handle[h].reg /\ Used(r)
  BY UserTable
<1>2. /\ handle'[h] = EmptyHandle
      /\ \A k \in Handles : k # h =>
           SameHold(k) /\ handle'[k].used = handle[k].used /\ handle'[k].reg = handle[k].reg
      /\ \A q \in Tables : q # r => reg'[q] = reg[q]
  BY <1>1, LeavesEffect DEF Leaves
<1>3. HeldBy(h)' = NoImage
  BY <1>2 DEF EmptyHandle, HeldBy
<1>4. \A q \in Tables : q # r => SameImage(q)
  BY <1>2 DEF SameImage, ImageOf, Active
<1>5. CASE UsersOf(r) \ {h} # {}
  <2>1. reg'[r].buf = reg[r].buf /\ reg'[r].active = reg[r].active /\ reg'[r].loaded = reg[r].loaded
    BY <1>1, <1>5, RecordLeft DEF SameBuffers, SameLoad
  <2>2. SameImage(r)
    BY <2>1 DEF SameImage, ImageOf, Active
  <2>3. ASSUME NEW k \in Handles, k # h
        PROVE  SameHeld(k)
    <3>1. PICK q \in Tables : q = handle[k].reg
      BY DEF Links, Typed, HandleRecord
    <3>2. reg'[q].buf = reg[q].buf
      BY <1>2, <2>1
    <3> QED BY <1>2, <2>3, <3>1, <3>2, HeldKept
  <2> QED BY <1>3, <1>4, <2>2, <2>3, SeenStep
<1>6. CASE UsersOf(r) \ {h} = {}
  <2>1. ~reg'[r].loaded
    BY <1>1, <1>6, RecordLeft
  <2>2. ImageOf(r)' = NoImage
    BY <2>1 DEF ImageOf
  <2>3. ASSUME NEW k \in Handles, k # h
        PROVE  SameHeld(k)
    <3>1. PICK q \in Tables : q = handle[k].reg
      BY DEF Links, Typed, HandleRecord
    <3>2. handle[k].lock => q # r
      BY <1>6, <2>3, <3>1, HeldWhere
    <3>3. handle[k].lock => reg'[q] = reg[q]
      BY <1>2, <3>2
    <3> QED BY <1>2, <2>3, <3>1, <3>3, HeldKept
  <2> QED BY <1>3, <1>4, <2>2, <2>3, SeenStep
<1> QED BY <1>5, <1>6

LEMMA LeaveSeen ==
  ASSUME Links, Told, Contents, Orderly, NEW a \in Apps, UnregisterEnd(a) \/ CleanUpUnlink(a)
  PROVE  Promised
<1>1. RemoveAccessLink(call[a].h) /\ Busy(a)
  BY DEF UnregisterEnd, CleanUpUnlink, Busy
<1>2. PICK h \in Handles : h = call[a].h /\ handle[h].used
  BY <1>1 DEF Links, Calling
<1> QED BY <1>1, <1>2, RemoveSeen

LEMMA ResetSeen ==
  ASSUME Links, ProcessorReset
  PROVE  Promised
<1>1. \A q \in Tables : ~reg'[q].loaded
  BY DEF ProcessorReset, Start, EmptyRecord
<1>2. \A k \in Handles : ~handle'[k].lock
  BY DEF ProcessorReset, Start, EmptyHandle
<1>3. (\A q \in Tables : ImageOf(q)' = NoImage) /\ (\A k \in Handles : HeldBy(k)' = NoImage)
  BY <1>1, <1>2 DEF ImageOf, HeldBy
<1>4. 0 \in Tables /\ 0 \in Handles
  BY Ranges
<1> QED BY <1>3, <1>4, SeenStep

LEMMA NextSeen ==
  ASSUME Links, Told, Contents, Orderly, [Next]_vars
  PROVE  Promised
<1>1. ASSUME NEW a \in Apps, NEW n \in Names, Register(a, n) \/ RegisterNoRoom(a, n) \/ Share(a, n)
      PROVE  Promised
  BY <1>1, RegisterSeen, RegisterNoRoomSeen, ShareSeen
<1>2. ASSUME NEW a \in Apps, NEW h \in Handles, Access(a, h)
      PROVE  Promised
  BY <1>2, UseSeen, UpdateSeen, LoadBeginSeen, LoadUserDefSeen, AddressSeen, ModifiedSeen,
     ValidateSeen, DumpToBufferSeen DEF Access
<1>3. ASSUME NEW a \in Apps, LoadFill(a) \/ LoadFailed(a) \/ LoadEnd(a)
      PROVE  Promised
  BY <1>3, LoadFillSeen, LoadFailedSeen, LoadEndSeen
<1>4. ASSUME NEW a \in Apps,
             \/ UnregisterEnd(a) \/ CleanUpBegin(a) \/ CleanUpDisown(a)
             \/ CleanUpUnlink(a) \/ StartApp(a)
      PROVE  Promised
  BY <1>4, LeaveSeen, UseSeen
<1>5. ASSUME Command PROVE Promised
  BY <1>5, LoadCmdBeginSeen, ActivateCmdSeen, AbortLoadCmdSeen, ValidateCmdSeen,
     DumpCmdSeen, LoadCmdEndSeen, HousekeepingSeen DEF Command
<1>6. ASSUME ProcessorReset PROVE Promised
  BY <1>6, ResetSeen
<1>7. ASSUME UNCHANGED vars PROVE Promised
  BY <1>7, ImagesSeen DEF vars, SameImages, SameHold
<1> QED BY <1>1, <1>2, <1>3, <1>4, <1>5, <1>6, <1>7 DEF Next, Application

(* What a user has taken of a table stays as it was until the user gives it *)
(* back, whatever is loaded, activated, dumped or aborted meanwhile, and    *)
(* its image changes at once for those who take it then                     *)
(* (CFE_TBL_GetAddress, CFE_TBL_UpdateInternal, CFE_TBL_GetWorkingBuffer),  *)
(* when operators and applications wait for each other.                     *)
THEOREM KeepsImages == Spec /\ Orderly => ImplementsImages
<1> SUFFICES ASSUME Orderly
             PROVE  Spec => ImplementsImages
  OBVIOUS
<1>1. Init => Promise!Init
  BY DEF Init, Start, EmptyRecord, EmptyHandle, Promise!Init, ImageOf, HeldBy
<1>2. Links /\ Told /\ Contents /\ [Next]_vars => [Promise!Next]_Promise!vars
  BY NextSeen DEF Promised
<1> QED BY <1>1, <1>2, ContentsHold, PTL DEF Spec, ImplementsImages, Promise!Spec
=============================================================================
