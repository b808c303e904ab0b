------------------------ MODULE EventServices_proofs ------------------------
(***************************************************************************)
(* Proofs about the log of Event Services, for any size of the log, any    *)
(* number of senders and events and whatever commands come between: the    *)
(* ring holds the events it should, in order, and a dump that claims to be *)
(* complete is.                                                            *)
(***************************************************************************)
EXTENDS EventServices, TLAPS

Places == 0..LOG_MAX - 1
LogRecord == [next : Places, count : 0..LOG_MAX, full : BOOLEAN,
              mode : {"overwrite", "discard"}, entry : [Places -> Nat]]
DumpRecord == [pc : {"idle", "write", "answer"}, at : Places, i : 0..LOG_MAX,
               file : Seq(Nat), goal : Seq(Nat)]
TypeOK ==
    /\ log \in LogRecord
    /\ dump \in DumpRecord
    /\ logged \in Nat
    /\ kept \in Seq(Nat)

(* Where the i-th event is: a ring that is not full starts at its first     *)
(* place, a full one at the place that is written next.                     *)
Wrapped(n) == IF n < LOG_MAX THEN n ELSE n - LOG_MAX
Place(i) == Wrapped(Start + i - 1)
LogMatches ==
    /\ log.count < LOG_MAX => log.next = log.count
    /\ log.full <=> log.count = LOG_MAX
    /\ Len(kept) = log.count
    /\ \A i \in 1..log.count : kept[i] = log.entry[Place(i)]

(* The file under way is the beginning of the log, which no one changes.    *)
DumpMatches ==
    /\ dump.pc = "write" =>
          /\ dump.goal = kept /\ dump.i <= log.count
          /\ dump.i < log.count => dump.at = Place(dump.i + 1)
          /\ Len(dump.file) = dump.i
          /\ \A j \in 1..dump.i : dump.file[j] = kept[j]
    /\ dump.pc = "answer" =>
          /\ dump.i <= log.count
          /\ dump.i = log.count => dump.file = dump.goal

Inv == TypeOK /\ LogMatches /\ DumpMatches

-----------------------------------------------------------------------------
LEMMA Sizes ==
  ASSUME EventAssumption
  PROVE  LOG_MAX \in Nat \ {0}
  BY DEF EventAssumption

LEMMA Reduced ==
  ASSUME NEW L \in Nat \ {0}, NEW n \in Nat, n < 2 * L
  PROVE  n % L = IF n < L THEN n ELSE n - L
<1> DEFINE q == n \div L
<1>1. n = L * q + (n % L) /\ q \in Int /\ n % L \in 0..L - 1
  OBVIOUS
<1> HIDE DEF q
<1>2. q = 0 \/ q = 1
  <2>1. q <= -1 => L * q <= -L
    BY <1>1
  <2>2. q >= 2 => L * q >= 2 * L
    BY <1>1
  <2> QED BY <1>1, <2>1, <2>2
<1>3. q = 0 => L * q = 0
  OBVIOUS
<1>4. q = 1 => L * q = L
  OBVIOUS
<1> QED BY <1>1, <1>2, <1>3, <1>4

LEMMA ModOnce ==
  ASSUME EventAssumption, NEW n \in 0..2 * LOG_MAX - 1
  PROVE  n % LOG_MAX = Wrapped(n) /\ Wrapped(n) \in Places
<1>1. n \in Nat /\ n < 2 * LOG_MAX /\ LOG_MAX \in Nat \ {0}
  BY Sizes
<1>2. n % LOG_MAX = IF n < LOG_MAX THEN n ELSE n - LOG_MAX
  BY <1>1, Reduced
<1> QED BY <1>1, <1>2 DEF Wrapped, Places

LEMMA StartPlace ==
  ASSUME EventAssumption, TypeOK
  PROVE  /\ Start \in Places
         /\ \A i \in 1..LOG_MAX : Place(i) \in Places
              /\ Place(i) = (Start + i - 1) % LOG_MAX
<1>1. Start \in Places
  BY Sizes DEF Start, TypeOK, LogRecord, Places
<1>2. ASSUME NEW i \in 1..LOG_MAX
      PROVE  Start + i - 1 \in 0..2 * LOG_MAX - 1
  BY <1>1, Sizes DEF Places
<1> HIDE DEF Start
<1> QED BY <1>1, <1>2, ModOnce DEF Place

LEMMA WrappedNext ==
  ASSUME EventAssumption, NEW s \in Places, NEW i \in 1..LOG_MAX - 1
  PROVE  /\ Wrapped(Wrapped(s + 1) + i - 1) = Wrapped(s + i)
         /\ Wrapped(s + i) # s /\ Wrapped(s + i) \in Places
<1>1. LOG_MAX \in Nat \ {0} /\ s \in Int /\ i \in Int /\ 0 <= s /\ s < LOG_MAX
     /\ 1 <= i /\ i < LOG_MAX
  BY Sizes DEF Places
<1>2. CASE s + 1 < LOG_MAX
  <2>1. Wrapped(s + 1) = s + 1 /\ s + 1 + i - 1 = s + i
    BY <1>1, <1>2 DEF Wrapped
  <2> QED BY <1>1, <2>1 DEF Wrapped, Places
<1>3. CASE s + 1 = LOG_MAX
  <2>1. Wrapped(s + 1) = 0 /\ Wrapped(i - 1) = i - 1 /\ Wrapped(s + i) = i - 1
    BY <1>1, <1>3 DEF Wrapped
  <2> QED BY <1>1, <1>3, <2>1 DEF Places
<1> QED BY <1>1, <1>2, <1>3

LEMMA WrappedAfter ==
  ASSUME EventAssumption, NEW s \in Places, NEW n \in 1..LOG_MAX - 1
  PROVE  Wrapped(Wrapped(s + n - 1) + 1) = Wrapped(s + n)
<1>1. LOG_MAX \in Nat \ {0} /\ s \in Int /\ n \in Int /\ 0 <= s /\ s < LOG_MAX
     /\ 1 <= n /\ n < LOG_MAX
  BY Sizes DEF Places
<1>2. CASE s + n - 1 < LOG_MAX
  <2>1. Wrapped(s + n - 1) = s + n - 1 /\ s + n - 1 + 1 = s + n
    BY <1>1, <1>2 DEF Wrapped
  <2> QED BY <2>1
<1>3. CASE s + n - 1 >= LOG_MAX
  <2>1. Wrapped(s + n - 1) = s + n - 1 - LOG_MAX
    BY <1>1, <1>3 DEF Wrapped
  <2>2. s + n - 1 - LOG_MAX + 1 = s + n - LOG_MAX /\ s + n - LOG_MAX < LOG_MAX
        /\ ~ (s + n < LOG_MAX)
    BY <1>1, <1>3
  <2> QED BY <1>1, <2>1, <2>2 DEF Wrapped
<1> QED BY <1>1, <1>2, <1>3

(* The log with an event at its next place. *)
Put(n, full, next, e) == [[log EXCEPT !.count = n, !.full = full]
                            EXCEPT !.entry[log.next] = e, !.next = next]
LEMMA Written ==
  ASSUME log \in LogRecord, NEW n \in 0..LOG_MAX, NEW full \in BOOLEAN,
         NEW next \in Places, NEW e \in Nat
  PROVE  LET l == Put(n, full, next, e)
         IN  /\ l \in LogRecord
             /\ l.count = n /\ l.full = full /\ l.next = next /\ l.mode = log.mode
             /\ \A p \in Places :
                  l.entry[p] = IF p = log.next THEN e ELSE log.entry[p]
<1> DEFINE l == Put(n, full, next, e)
<1>1. l.entry = [log.entry EXCEPT ![log.next] = e]
  BY DEF LogRecord, Put
<1>2. log.next \in Places /\ log.entry \in [Places -> Nat]
  BY DEF LogRecord
<1>3. l.count = n /\ l.full = full /\ l.next = next /\ l.mode = log.mode
  BY DEF LogRecord, Put
<1>4. l \in LogRecord
  BY DEF LogRecord, Put
<1> HIDE DEF l
<1>5. /\ l \in LogRecord
      /\ l.count = n /\ l.full = full /\ l.next = next /\ l.mode = log.mode
      /\ \A p \in Places : l.entry[p] = IF p = log.next THEN e ELSE log.entry[p]
  BY <1>1, <1>2, <1>3, <1>4
<1> QED BY <1>5 DEF l

(* EVS_AddLog keeps the log in step with the events, wherever it is called  *)
(* from, and never makes it shorter.                                        *)
LEMMA AddLogKeeps ==
  ASSUME EventAssumption, TypeOK, LogMatches, AddLog
  PROVE  /\ log' \in LogRecord /\ logged' \in Nat /\ kept' \in Seq(Nat)
         /\ LogMatches' /\ log'.count >= log.count
<1>1. /\ LOG_MAX \in Nat \ {0} /\ log \in LogRecord /\ kept \in Seq(Nat)
      /\ log.next \in Places /\ log.count \in 0..LOG_MAX /\ log.entry \in [Places -> Nat]
      /\ Len(kept) = log.count /\ logged' \in Nat
      /\ log.mode \in {"overwrite", "discard"}
  BY Sizes DEF TypeOK, LogMatches, AddLog, LogRecord
<1>2. CASE Full
  <2>1. log.count = LOG_MAX /\ log.mode = "discard"
    BY <1>2 DEF Full, LogMatches
  <2>2. log' = log /\ kept' = kept
    BY <1>1, <1>2, <2>1 DEF AddLog
  <2> QED BY <1>1, <2>2 DEF LogMatches, Place, Start
<1>3. CASE ~Full /\ log.count < LOG_MAX
  <2> DEFINE n == log.count + 1
             full == log.full \/ n = LOG_MAX
  <2>1. log.next = log.count /\ ~log.full
    BY <1>1, <1>3 DEF LogMatches
  <2>2. kept' = Append(kept, logged')
    BY <1>1, <1>3 DEF AddLog
  <2>3. (log.next + 1) % LOG_MAX = Wrapped(n) /\ Wrapped(n) \in Places
    BY <1>1, <1>3, <2>1, ModOnce
  <2>4. log' = Put(n, full, Wrapped(n), logged')
    <3>1. log' = [Counted(n) EXCEPT !.entry[log.next] = logged',
                                    !.next = (@ + 1) % LOG_MAX]
      BY <1>1, <1>3 DEF AddLog
    <3>2. Counted(n) = [log EXCEPT !.count = n, !.full = full]
      BY DEF Counted
    <3>3. Counted(n).next = log.next
      BY <1>1 DEF Counted, LogRecord
    <3> QED BY <2>3, <3>1, <3>2, <3>3 DEF Put
  <2>5. full \in BOOLEAN /\ (full <=> n = LOG_MAX) /\ n \in 0..LOG_MAX
    BY <1>1, <1>3, <2>1
  <2> HIDE DEF full
  <2>6. /\ log' \in LogRecord /\ log'.next = Wrapped(n)
        /\ log'.count = n /\ (log'.full <=> n = LOG_MAX)
        /\ \A p \in Places : log'.entry[p] = IF p = log.next THEN logged' ELSE log.entry[p]
    BY <1>1, <2>3, <2>4, <2>5, Written
  <2>7. Start = 0 /\ Start' = 0
    BY <1>1, <1>3, <2>6 DEF Start, Wrapped
  <2>8. /\ kept' \in Seq(Nat) /\ Len(kept') = n /\ kept'[n] = logged'
        /\ \A i \in 1..log.count : kept'[i] = kept[i]
    BY <1>1, <2>2
  <2>9. ASSUME NEW i \in 1..n
        PROVE  kept'[i] = log'.entry[Place(i)']
    <3>1. Place(i)' = i - 1 /\ i - 1 \in Places
      BY <1>1, <1>3, <2>7 DEF Place, Wrapped, Places
    <3>2. CASE i = n
      BY <1>1, <2>1, <2>6, <2>8, <3>1, <3>2
    <3>3. CASE i # n
      <4>1. i \in 1..log.count /\ Place(i) = i - 1
        BY <1>1, <1>3, <2>7, <3>3 DEF Place, Wrapped
      <4>2. kept[i] = log.entry[i - 1]
        BY <4>1 DEF LogMatches
      <4> QED BY <1>1, <2>1, <2>6, <2>8, <3>1, <3>3, <4>1, <4>2
    <3> QED BY <3>2, <3>3
  <2>10. n < LOG_MAX => log'.next = n
    BY <1>1, <2>6 DEF Wrapped
  <2> QED BY <1>1, <2>6, <2>8, <2>9, <2>10 DEF LogMatches
<1>4. CASE ~Full /\ log.count = LOG_MAX
  <2> DEFINE full == log.full \/ LOG_MAX = LOG_MAX
  <2>1. log.full /\ log.mode # "discard" /\ ~ (log.count < LOG_MAX)
    BY <1>1, <1>4 DEF LogMatches, Full
  <2>2. kept' = Append(Tail(kept), logged')
    BY <1>1, <1>4, <2>1 DEF AddLog
  <2>3. /\ (log.next + 1) % LOG_MAX = Wrapped(log.next + 1)
        /\ Wrapped(log.next + 1) \in Places
    <3>1. log.next + 1 \in 0..2 * LOG_MAX - 1
      BY <1>1 DEF Places
    <3> QED BY <3>1, ModOnce
  <2>4. log' = Put(LOG_MAX, full, Wrapped(log.next + 1), logged')
    <3>1. log' = [Counted(LOG_MAX) EXCEPT !.entry[log.next] = logged',
                                          !.next = (@ + 1) % LOG_MAX]
      BY <1>4, <2>1 DEF AddLog
    <3>2. Counted(LOG_MAX) = [log EXCEPT !.count = LOG_MAX, !.full = full]
      BY DEF Counted
    <3>3. Counted(LOG_MAX).next = log.next
      BY <1>1 DEF Counted, LogRecord
    <3> QED BY <2>3, <3>1, <3>2, <3>3 DEF Put
  <2>5. full \in BOOLEAN
    BY DEF LogRecord
  <2>6. /\ log' \in LogRecord /\ log'.next = Wrapped(log.next + 1)
        /\ log'.count = LOG_MAX /\ log'.full
        /\ \A p \in Places : log'.entry[p] = IF p = log.next THEN logged' ELSE log.entry[p]
    <3>1. full = TRUE
      OBVIOUS
    <3> HIDE DEF full
    <3>2. LOG_MAX \in 0..LOG_MAX
      BY <1>1
    <3>3. /\ log' \in LogRecord /\ log'.next = Wrapped(log.next + 1)
          /\ log'.count = LOG_MAX /\ log'.full = full
          /\ \A p \in Places :
               log'.entry[p] = IF p = log.next THEN logged' ELSE log.entry[p]
      BY <1>1, <2>3, <2>4, <2>5, <3>2, Written
    <3> QED BY <3>1, <3>3
  <2>7. Start = log.next /\ Start' = log'.next
    BY <1>4, <2>6 DEF Start
  <2>8. /\ kept' \in Seq(Nat) /\ Len(kept') = LOG_MAX /\ kept'[LOG_MAX] = logged'
        /\ \A i \in 1..LOG_MAX - 1 : kept'[i] = kept[i + 1]
    <3>1. kept # <<>> /\ Len(Tail(kept)) = LOG_MAX - 1 /\ Tail(kept) \in Seq(Nat)
          /\ \A i \in 1..LOG_MAX - 1 : Tail(kept)[i] = kept[i + 1]
      BY <1>1, <1>4
    <3> QED BY <1>1, <2>2, <3>1
  <2>9. ASSUME NEW i \in 1..LOG_MAX
        PROVE  kept'[i] = log'.entry[Place(i)']
    <3>1. CASE i = LOG_MAX
      <4>1. Place(i)' = log.next
        BY <1>1, <2>6, <2>7, <3>1 DEF Place, Wrapped, Places
      <4> QED BY <1>1, <2>6, <2>8, <3>1, <4>1
    <3>2. CASE i # LOG_MAX
      <4>1. i \in 1..LOG_MAX - 1 /\ i + 1 \in 1..log.count
        BY <1>1, <1>4, <3>2
      <4>2. Place(i)' = Place(i + 1) /\ Place(i + 1) # log.next /\ Place(i + 1) \in Places
        <5>1. /\ Place(i)' = Wrapped(Wrapped(log.next + 1) + i - 1)
              /\ Place(i + 1) = Wrapped(log.next + i)
          BY <1>1, <2>6, <2>7, <4>1 DEF Place, Places
        <5> QED BY <1>1, <4>1, <5>1, WrappedNext
      <4>3. kept[i + 1] = log.entry[Place(i + 1)]
        BY <4>1 DEF LogMatches
      <4> QED BY <2>6, <2>8, <4>1, <4>2, <4>3
    <3> QED BY <3>1, <3>2
  <2> QED BY <1>1, <1>4, <2>6, <2>8, <2>9 DEF LogMatches
<1> QED BY <1>1, <1>2, <1>3, <1>4

(* Events come while no file is being written, but also before the dump has *)
(* looked at the count of the log.                                          *)
LEMMA AddLogInv ==
  ASSUME EventAssumption, Inv, AddLog, UNCHANGED dump \/ dump' = AtRest
  PROVE  Inv'
<1> USE DEF Inv
<1>1. /\ log' \in LogRecord /\ logged' \in Nat /\ kept' \in Seq(Nat)
      /\ LogMatches' /\ log'.count >= log.count
  BY AddLogKeeps
<1>2. dump.pc # "write" /\ log.count \in Int /\ log'.count \in Int /\ dump.i \in Int
  <2>1. dump.pc # "write"
    BY DEF AddLog, Unlocked
  <2>2. \A l \in LogRecord : l.count \in Int
    BY Sizes DEF LogRecord
  <2>3. \A d \in DumpRecord : d.i \in Int
    BY Sizes DEF DumpRecord
  <2> QED BY <1>1, <2>1, <2>2, <2>3 DEF TypeOK
<1>3. AtRest \in DumpRecord /\ AtRest.pc = "idle"
  BY Sizes DEF AtRest, DumpRecord, Places
<1>4. dump' \in DumpRecord
  BY <1>3 DEF TypeOK
<1>5. DumpMatches'
  BY <1>1, <1>2, <1>3 DEF DumpMatches
<1> QED BY <1>1, <1>4, <1>5 DEF TypeOK

(* Steps that leave the log alone, or change its mode. *)
LEMMA LogKept ==
  ASSUME EventAssumption, Inv,
         log' = log \/ \E mode \in {"overwrite", "discard"} : log' = [log EXCEPT !.mode = mode],
         UNCHANGED <<logged, kept>>
  PROVE  /\ log' \in LogRecord /\ LogMatches'
         /\ Start' = Start /\ log'.count = log.count /\ log'.next = log.next
<1> USE DEF Inv
<1>1. /\ log' \in LogRecord /\ log'.count = log.count /\ log'.next = log.next
      /\ log'.entry = log.entry /\ (log'.full <=> log.full)
  BY DEF TypeOK, LogRecord
<1>2. Start' = Start
  BY <1>1 DEF Start
<1>3. LogMatches'
  BY <1>1, <1>2 DEF LogMatches, Place
<1> QED BY <1>1, <1>2, <1>3

LEMMA QuietInv ==
  ASSUME EventAssumption, Inv,
         log' = log \/ (dump.pc = "idle" /\
           \E mode \in {"overwrite", "discard"} : log' = [log EXCEPT !.mode = mode]),
         UNCHANGED <<logged, kept>>, dump' = dump \/ dump' = AtRest
  PROVE  Inv'
<1> USE DEF Inv
<1>1. /\ log' \in LogRecord /\ LogMatches'
      /\ Start' = Start /\ log'.count = log.count /\ log'.next = log.next
  BY LogKept
<1>2. AtRest \in DumpRecord /\ AtRest.pc = "idle"
  BY Sizes DEF AtRest, DumpRecord, Places
<1>3. DumpMatches'
  BY <1>1, <1>2 DEF DumpMatches, Place
<1> QED BY <1>1, <1>2, <1>3 DEF TypeOK

LEMMA ClearInv ==
  ASSUME EventAssumption, Inv, ClearLogCmd
  PROVE  Inv'
<1> USE DEF Inv
<1>1. /\ LOG_MAX \in Nat \ {0} /\ 0 \in Places /\ log.mode \in {"overwrite", "discard"}
      /\ \A p \in Places : 0 \in Nat
  BY Sizes DEF TypeOK, LogRecord, Places
<1>2. /\ log' = Cleared(log.mode) /\ kept' = <<>> /\ dump.pc = "idle"
      /\ UNCHANGED <<dump, logged>>
  BY DEF ClearLogCmd, Command
<1>3. Cleared(log.mode) \in LogRecord
  BY <1>1 DEF Cleared, LogRecord, Places
<1>4. /\ Cleared(log.mode).next = 0 /\ Cleared(log.mode).count = 0
      /\ Cleared(log.mode).full = FALSE
  BY DEF Cleared
<1>5. LogMatches'
  BY <1>1, <1>2, <1>4 DEF LogMatches
<1>6. DumpMatches'
  BY <1>2 DEF DumpMatches
<1> QED BY <1>2, <1>3, <1>5, <1>6 DEF TypeOK

(* The dump. *)
LEMMA WriteInv ==
  ASSUME EventAssumption, Inv, WriteLogDataFileCmd \/ WriteEntry
  PROVE  Inv'
<1> USE DEF Inv
<1>1. /\ LOG_MAX \in Nat \ {0} /\ 0 \in Places /\ Start \in Places
      /\ log.count \in 0..LOG_MAX /\ log.entry \in [Places -> Nat]
      /\ dump \in DumpRecord /\ dump.at \in Places /\ dump.i \in 0..LOG_MAX
      /\ dump.file \in Seq(Nat) /\ dump.goal \in Seq(Nat) /\ kept \in Seq(Nat)
      /\ Len(kept) = log.count
  BY Sizes, StartPlace DEF TypeOK, LogRecord, DumpRecord, Places, LogMatches
<1>2. UNCHANGED <<log, logged, kept>>
  BY DEF WriteLogDataFileCmd, WriteEntry
<1>3. LogMatches' /\ log' \in LogRecord /\ Start' = Start
  BY <1>2, LogKept
<1>4. \A i : Place(i)' = Place(i)
  BY <1>3 DEF Place
<1>5. CASE WriteLogDataFileCmd
  <2>1. dump' = [AtRest EXCEPT !.pc = "write", !.at = Start, !.goal = kept]
    BY <1>5 DEF WriteLogDataFileCmd, Start
  <2>2. /\ dump'.pc = "write" /\ dump'.at = Start /\ dump'.goal = kept
        /\ dump'.i = 0 /\ dump'.file = <<>> /\ dump' \in DumpRecord
    <3>1. AtRest = [pc |-> "idle", at |-> 0, i |-> 0, file |-> <<>>, goal |-> <<>>]
      BY DEF AtRest
    <3>2. dump' = [pc |-> "write", at |-> Start, i |-> 0, file |-> <<>>, goal |-> kept]
      BY <2>1, <3>1
    <3>3. 0 \in 0..LOG_MAX /\ <<>> \in Seq(Nat)
      BY <1>1
    <3> HIDE DEF Start
    <3> QED BY <1>1, <3>2, <3>3 DEF DumpRecord
  <2>3. Place(1) = Start
    BY <1>1 DEF Place, Wrapped, Places
  <2> HIDE DEF Start
  <2>4. DumpMatches'
    BY <1>1, <1>2, <1>4, <2>2, <2>3 DEF DumpMatches
  <2> QED BY <1>2, <1>3, <2>2, <2>4 DEF TypeOK
<1>6. CASE dump.pc = "write" /\ dump' = [dump EXCEPT !.pc = "answer"]
  <2>1. /\ dump'.pc = "answer" /\ dump'.i = dump.i /\ dump'.file = dump.file
        /\ dump'.goal = dump.goal /\ dump' \in DumpRecord
    BY <1>1, <1>6 DEF DumpRecord
  <2>2. /\ dump.goal = kept /\ dump.i <= log.count /\ Len(dump.file) = dump.i
        /\ \A j \in 1..dump.i : dump.file[j] = kept[j]
    BY <1>6 DEF DumpMatches
  <2>3. dump.i = log.count => dump.file = kept
    <3>1. SUFFICES ASSUME dump.i = log.count
                   PROVE  dump.file = kept
      OBVIOUS
    <3>2. /\ dump.file = [j \in 1..dump.i |-> dump.file[j]]
          /\ kept = [j \in 1..dump.i |-> kept[j]]
      <4>1. \A f \in Seq(Nat) : f = [j \in 1..Len(f) |-> f[j]]
        OBVIOUS
      <4> QED BY <1>1, <2>2, <3>1, <4>1
    <3> QED BY <2>2, <3>2
  <2>4. DumpMatches'
    BY <1>2, <2>1, <2>2, <2>3 DEF DumpMatches
  <2> QED BY <1>2, <1>3, <2>1, <2>4 DEF TypeOK
<1>7. CASE /\ dump.pc = "write" /\ dump.i < log.count
           /\ dump' = [dump EXCEPT !.file = Append(@, log.entry[dump.at]),
                                   !.at = (@ + 1) % LOG_MAX, !.i = @ + 1]
  <2> DEFINE n == dump.i + 1
  <2>1. /\ dump.goal = kept /\ dump.i <= log.count /\ Len(dump.file) = dump.i
        /\ dump.at = Place(n)
        /\ \A j \in 1..dump.i : dump.file[j] = kept[j]
    BY <1>7 DEF DumpMatches
  <2>2. /\ n \in 1..LOG_MAX /\ n <= log.count /\ n \in 1..log.count
        /\ kept[n] = log.entry[dump.at] /\ log.entry[dump.at] \in Nat
    <3>1. n \in 1..LOG_MAX /\ n <= log.count /\ n \in 1..log.count
      BY <1>1, <1>7
    <3>2. kept[n] = log.entry[Place(n)]
      BY <3>1 DEF LogMatches
    <3> QED BY <1>1, <2>1, <3>1, <3>2
  <2>3. (dump.at + 1) % LOG_MAX = Wrapped(dump.at + 1) /\ Wrapped(dump.at + 1) \in Places
    <3>1. dump.at + 1 \in 0..2 * LOG_MAX - 1
      BY <1>1 DEF Places
    <3> QED BY <3>1, ModOnce
  <2>4. /\ dump'.pc = "write" /\ dump'.at = Wrapped(dump.at + 1) /\ dump'.i = n
        /\ dump'.goal = kept /\ dump'.file = Append(dump.file, kept[n])
        /\ dump' \in DumpRecord
    <3>1. dump' = [dump EXCEPT !.file = Append(dump.file, kept[n]),
                               !.at = Wrapped(dump.at + 1), !.i = n]
      BY <1>7, <2>2, <2>3
    <3>2. Append(dump.file, kept[n]) \in Seq(Nat) /\ n \in 0..LOG_MAX
      BY <1>1, <2>2
    <3> QED BY <1>1, <1>7, <2>1, <2>3, <3>1, <3>2 DEF DumpRecord
  <2>5. n < log.count => Wrapped(dump.at + 1) = Place(n + 1)
    <3>1. SUFFICES ASSUME n < log.count
                   PROVE  Wrapped(dump.at + 1) = Place(n + 1)
      OBVIOUS
    <3>2. n \in 1..LOG_MAX - 1 /\ n + 1 - 1 = n
      BY <1>1, <2>2, <3>1
    <3>3. Start \in Int /\ Start + (n + 1) - 1 = Start + n
      BY <1>1, <3>2 DEF Places
    <3>4. dump.at = Wrapped(Start + n - 1) /\ Place(n + 1) = Wrapped(Start + n)
      BY <2>1, <3>3 DEF Place
    <3> QED BY <1>1, <3>2, <3>4, WrappedAfter
  <2>6. /\ Len(dump'.file) = n
        /\ \A j \in 1..n : dump'.file[j] = kept[j]
    <3>1. \A f \in Seq(Nat), e \in Nat :
             /\ Len(Append(f, e)) = Len(f) + 1 /\ Append(f, e)[Len(f) + 1] = e
             /\ \A j \in 1..Len(f) : Append(f, e)[j] = f[j]
      OBVIOUS
    <3>2. /\ Len(dump'.file) = n /\ dump'.file[n] = kept[n]
          /\ \A j \in 1..dump.i : dump'.file[j] = dump.file[j]
      BY <1>1, <2>1, <2>2, <2>4, <3>1
    <3>3. \A j \in 1..n : j = n \/ j \in 1..dump.i
      BY <1>1
    <3> QED BY <2>1, <3>2, <3>3
  <2>7. DumpMatches'
    BY <1>2, <1>4, <2>2, <2>4, <2>5, <2>6 DEF DumpMatches
  <2> QED BY <1>2, <1>3, <2>4, <2>7 DEF TypeOK
<1> QED BY <1>5, <1>6, <1>7 DEF WriteEntry

-----------------------------------------------------------------------------
LEMMA InitInv == ASSUME EventAssumption, Init PROVE Inv
<1>1. LOG_MAX \in Nat \ {0} /\ 0 \in Places
  BY Sizes DEF Places
<1>2. Cleared("discard") \in LogRecord /\ AtRest \in DumpRecord
  BY <1>1 DEF Cleared, LogRecord, AtRest, DumpRecord, Places
<1>3. /\ log = Cleared("discard") /\ log.next = 0 /\ log.count = 0 /\ log.full = FALSE
      /\ dump.pc = "idle" /\ dump = AtRest /\ kept = <<>> /\ logged = 0
  BY DEF Init, Cleared, AtRest
<1> QED BY <1>1, <1>2, <1>3 DEF Inv, TypeOK, LogMatches, DumpMatches

LEMMA NextInv ==
  ASSUME EventAssumption, Inv, [Next]_vars
  PROVE  Inv'
<1>1. CASE UNCHANGED vars
  BY <1>1, QuietInv DEF vars
<1>2. ASSUME NEW t \in Senders,
             \/ SendEvent(t) \/ NotRegistered(t)
             \/ TestCount(t) \/ ReadCount(t) \/ IncrementCount(t) \/ TestLatched(t)
             \/ GenerateEventTelemetry(t)
      PROVE  Inv'
  BY <1>2, QuietInv, AddLogInv
     DEF SendEvent, NotRegistered, TestCount, ReadCount, IncrementCount, TestLatched,
         GenerateEventTelemetry, OnlySender
<1>3. CASE \/ Register \/ CleanUpApp \/ CleanupTaskResources \/ ResetFilter
           \/ SetFilterCmd \/ AddEventFilterCmd \/ DeleteEventFilterCmd
           \/ \E on \in BOOLEAN : EnableAppEventsCmd(on)
           \/ ProcessorReset
  BY <1>3, QuietInv
     DEF Register, CleanUpApp, CleanupTaskResources, ResetFilter, SetFilterCmd,
         AddEventFilterCmd, DeleteEventFilterCmd, SetFilter, EnableAppEventsCmd,
         ProcessorReset
<1>4. ASSUME NEW mode \in {"overwrite", "discard"}, SetLogModeCmd(mode)
      PROVE  Inv'
  BY <1>4, QuietInv DEF SetLogModeCmd, Command
<1>5. CASE AnswerDump
  BY <1>5, QuietInv, AddLogInv DEF AnswerDump
<1> QED BY <1>1, <1>2, <1>3, <1>4, <1>5, ClearInv, WriteInv DEF Next

LEMMA InvExact ==
  ASSUME EventAssumption, Inv
  PROVE  EventsExact
<1> USE DEF Inv
<1>1. /\ LOG_MAX \in Nat \ {0} /\ log.count \in 0..LOG_MAX /\ kept \in Seq(Nat)
      /\ Len(kept) = log.count
  BY Sizes DEF TypeOK, LogRecord, LogMatches
<1>2. \A i \in 1..log.count : log.entry[(Start + i - 1) % LOG_MAX] = kept[i]
  <2> SUFFICES ASSUME NEW i \in 1..log.count
               PROVE  log.entry[(Start + i - 1) % LOG_MAX] = kept[i]
    OBVIOUS
  <2>1. i \in 1..LOG_MAX
    BY <1>1
  <2>2. Place(i) = (Start + i - 1) % LOG_MAX
    BY <2>1, StartPlace
  <2> QED BY <2>2 DEF LogMatches
<1>3. kept = [i \in 1..log.count |-> kept[i]]
  BY <1>1
<1>4. LogExact
  BY <1>1, <1>2, <1>3 DEF LogExact, LogMatches
<1>5. FileTrue
  BY DEF FileTrue, Complete, DumpMatches
<1> QED BY <1>4, <1>5 DEF EventsExact

(* For any size of the log and any number of senders: through clearings,    *)
(* changes of its mode, wraps and processor resets EVS_Log has exactly the  *)
(* events it should, in order, LogFullFlag is up when it is full, and       *)
(* CFE_EVS_WriteLogDataFileCmd never reports as whole a file that is not    *)
(* the log as it was when the dump began.                                   *)
THEOREM LogAndDumpExact == EventAssumption /\ Spec => []EventsExact
<1>1. ASSUME EventAssumption
      PROVE  Spec => []EventsExact
  <2>1. Init => Inv
    BY <1>1, InitInv
  <2>2. Inv /\ [Next]_vars => Inv'
    BY <1>1, NextInv
  <2>3. Inv => EventsExact
    BY <1>1, InvExact
  <2> QED BY <2>1, <2>2, <2>3, PTL DEF Spec
<1> QED BY <1>1
=============================================================================
