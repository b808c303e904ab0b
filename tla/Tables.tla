-------------------------------- MODULE Tables --------------------------------
(***************************************************************************)
(* Table Services: the registry of tables, the access descriptors of the   *)
(* applications that use them, loading through working buffers, validation,*)
(* dumps, clean-up, and critical tables across a processor reset.          *)
(*                                                                         *)
(* A call that reads a file or leaves the registry lock in between is      *)
(* several actions; a call that does not block is one.                     *)
(***************************************************************************)
EXTENDS Integers, FiniteSets, FiniteSetsExt

CONSTANTS
    Apps, Names, NoName,
    OwnerOf,            \* the application in the full name of a table
    DoubleBuffered, DumpOnly, UserDef, Critical, \* names, by their options
    Validating,         \* names of the tables with a validation function
    Files,              \* what files hold: "good", "bad" images
    MAX_TABLES,         \* CFE_PLATFORM_TBL_MAX_NUM_TABLES
    MAX_HANDLES,        \* CFE_PLATFORM_TBL_MAX_NUM_HANDLES
    MAX_LOADS,          \* CFE_PLATFORM_TBL_MAX_SIMULTANEOUS_LOADS
    MAX_VALIDATIONS,    \* CFE_PLATFORM_TBL_MAX_NUM_VALIDATIONS
    MAX_CRITICAL,       \* CFE_PLATFORM_TBL_MAX_CRITICAL_TABLES
    POOL,               \* tables the memory pool has room for
    Fragmented,         \* may a pool with room have no block of a size?
    Resets,             \* may the processor be reset?
    Orderly             \* do operators and applications wait for each other?

ASSUME TablesAssumption ==
    /\ MAX_TABLES \in Nat \ {0} /\ MAX_HANDLES \in Nat \ {0}
    /\ MAX_LOADS \in Nat \ {0} /\ MAX_VALIDATIONS \in Nat \ {0}
    /\ MAX_CRITICAL \in Nat /\ POOL \in Nat
    /\ OwnerOf \in [Names -> Apps] /\ NoName \notin Names /\ "none" \notin Apps
    /\ DoubleBuffered \union DumpOnly \union Critical \union Validating \subseteq Names
    /\ UserDef \subseteq DumpOnly /\ Critical \cap DumpOnly = {}
    /\ DoubleBuffered \cap DumpOnly = {} /\ Files \subseteq {"good", "bad"}

VARIABLES
    reg,      \* CFE_TBL_Global.Registry
    handle,   \* Handles
    loadBuf,  \* LoadBuffs
    val,      \* states of ValidationResults
    dump,     \* DumpControlBlocks
    pool,     \* room left in the memory pool
    cds,      \* the critical data store of each table
    crit,     \* CritReg
    up,       \* applications that run
    call,     \* what each application is in the middle of
    cmd,      \* the load command the Table Services task is in the middle of
    fresh     \* has the user had the address since the last change?

vars == <<reg, handle, loadBuf, val, dump, pool, cds, crit, up, call, cmd, fresh>>

Tables == 0..MAX_TABLES - 1
Handles == 0..MAX_HANDLES - 1
Loads == 0..MAX_LOADS - 1
Validations == 0..MAX_VALIDATIONS - 1
CritSlots == 1..MAX_CRITICAL
NONE == -1      \* CFE_TBL_NO_LOAD_IN_PROGRESS and its like, END_OF_LIST
NotOwned == "none"

(* What a buffer holds: zeros, an image its validation function accepts, or *)
(* one it does not, such as part of a file over something else.             *)
Images == {"blank", "good", "bad"}
Accepted(i) == i = "good"

EmptyRecord == [owner |-> NotOwned, name |-> NoName, kind |-> NoName,
                head |-> NONE, loaded |-> FALSE, lip |-> NONE, pend |-> FALSE,
                active |-> 0, valActive |-> NONE, valInactive |-> NONE,
                dumpIndex |-> NONE,
                buf |-> [k \in 0..1 |-> [img |-> "blank", validated |-> FALSE]]]
EmptyHandle == [used |-> FALSE, app |-> NotOwned, reg |-> 0, prev |-> NONE,
                next |-> NONE, lock |-> FALSE, updated |-> FALSE, buf |-> 0,
                sure |-> FALSE]
Nowhere == [shared |-> FALSE, tbl |-> NONE, k |-> 0]
IdleCall == [pc |-> "idle", h |-> NONE, at |-> Nowhere]
FreeDump == [st |-> "FREE", r |-> NONE, b |-> NONE]
IdleCmd == [pc |-> "idle", r |-> NONE, at |-> Nowhere]

(* The part of CFE_TBL_EarlyInit that does not look at the CDS. *)
Start ==
    [reg |-> [r \in Tables |-> EmptyRecord],
     handle |-> [h \in Handles |-> EmptyHandle],
     loadBuf |-> [i \in Loads |-> [taken |-> FALSE, img |-> "blank", validated |-> FALSE]],
     val |-> [v \in Validations |-> "FREE"],
     dump |-> [i \in Loads |-> FreeDump],
     call |-> [a \in Apps |-> IdleCall],
     fresh |-> [h \in Handles |-> FALSE]]

Init ==
    /\ reg = Start.reg /\ handle = Start.handle /\ loadBuf = Start.loadBuf
    /\ val = Start.val /\ dump = Start.dump /\ pool = POOL
    /\ call = Start.call /\ cmd = IdleCmd /\ fresh = Start.fresh /\ up = Apps
    /\ cds = [n \in Names |-> "none"]
    /\ crit = [c \in CritSlots |-> [name |-> NoName, loaded |-> FALSE]]

-----------------------------------------------------------------------------
(* Look-ups. *)

Double(r) == reg[r].kind \in DoubleBuffered
Owned(r) == reg[r].owner # NotOwned
Find(n) == {r \in Tables : Owned(r) /\ reg[r].name = n}

(* Mutant of FreeRecords: a table without an owner is free. *)
UnownedRecords == {r \in Tables : ~Owned(r)}
FreeRecords == {r \in Tables : ~Owned(r) /\ reg[r].head = NONE}
FreeHandles == {h \in Handles : ~handle[h].used}

UsersOf(r) == {h \in Handles : handle[h].used /\ handle[h].reg = r}
Blocks(n) == IF n \in UserDef THEN 0 ELSE IF n \in DoubleBuffered THEN 2 ELSE 1
Active(r) == reg[r].buf[reg[r].active].img

(* An application calls with one of its handles. *)
Calls(a, h) == /\ a \in up /\ call[a].pc = "idle"
               /\ handle[h].used /\ handle[h].app = a

(* Somebody is in the middle of filling a buffer of the table. *)
Filling(r) == \/ cmd.pc = "read" /\ cmd.r = r
              \/ \E a \in Apps : call[a].pc \in {"fill", "good", "failed"}
                                 /\ handle[call[a].h].reg = r

Quiet(r) == Orderly => ~Filling(r)

(* A command for the table: its owner runs, and nobody fills a buffer. *)
Serving(r) == Orderly => reg[r].owner \in up /\ ~Filling(r)

(* The others have let go of a critical table before it is registered anew. *)
LetGo(n) == Orderly /\ n \in Critical =>
    \A r \in Tables : reg[r].head # NONE => reg[r].kind # n

(* A table may be given up: nothing its last user would leave behind. *)
Settled(r) == Orderly =>
    /\ ~Filling(r)
    /\ reg[r].valActive = NONE /\ reg[r].valInactive = NONE
    /\ reg[r].dumpIndex = NONE
    /\ \A i \in Loads : dump[i].st # "FREE" => dump[i].r # r

-----------------------------------------------------------------------------
(* Notification, and the copy of a critical table. *)

(* Mutant of Notified: only the owner hears of it. *)
OwnerNotified(r) == [h \in Handles |->
    IF handle[h].used /\ handle[h].reg = r /\ handle[h].app = reg[r].owner
      THEN [handle[h] EXCEPT !.updated = TRUE] ELSE handle[h]]
Notified(r) == [h \in Handles |->
    IF h \in UsersOf(r) THEN [handle[h] EXCEPT !.updated = TRUE] ELSE handle[h]]

Stale(r) == fresh' = [h \in Handles |-> fresh[h] /\ h \notin UsersOf(r)]

EntriesOf(n) == {c \in CritSlots : crit[c].name = n}

(* CFE_TBL_UpdateCriticalTblCDS, with the active image to be. *)
UpdateCriticalTblCDS(r, img, loadedOnce) ==
    LET n == reg[r].kind
    IN  IF n \notin Critical THEN UNCHANGED <<cds, crit>>
        ELSE /\ cds' = [cds EXCEPT ![n] = img]
             /\ crit' = IF EntriesOf(n) = {} THEN crit
                        ELSE [crit EXCEPT ![Min(EntriesOf(n))].loaded = loadedOnce]

-----------------------------------------------------------------------------
(* CFE_TBL_Register. *)

(* What a processor reset left of the table, if its entry says so. *)
Recoverable(n) == /\ n \in Critical /\ cds[n] \in Images
                  /\ EntriesOf(n) # {} /\ crit[Min(EntriesOf(n))].loaded

(* Mutant of Restored: the new buffer is left cleared. *)
RestoredNot(n) == "blank"
Restored(n) == IF n \in Critical /\ cds[n] \in Images THEN cds[n] ELSE "blank"

NewRecord(n, a, h) ==
    [EmptyRecord EXCEPT !.owner = a, !.name = n, !.kind = n, !.head = h,
        !.loaded = n \in DumpOnly \ UserDef \/ Recoverable(n),
        !.buf[0].img = Restored(n)]

Register(a, n) ==
    /\ a \in up /\ call[a].pc = "idle" /\ OwnerOf[n] = a
    /\ Find(n) = {} /\ LetGo(n) /\ FreeRecords # {} /\ FreeHandles # {}
    /\ pool >= Blocks(n) /\ pool' = pool - Blocks(n)
    /\ LET r == Min(FreeRecords)
           h == Min(FreeHandles)
           spare == {c \in CritSlots : crit[c].name = NoName}
       IN  /\ reg' = [reg EXCEPT ![r] = NewRecord(n, a, h)]
           /\ handle' = [handle EXCEPT ![h] =
                            [EmptyHandle EXCEPT !.used = TRUE, !.app = a, !.reg = r,
                                !.updated = Recoverable(n)]]
           /\ fresh' = [fresh EXCEPT ![h] = ~Recoverable(n)]
           /\ cds' = IF n \in Critical /\ cds[n] = "none"
                       THEN [cds EXCEPT ![n] = "unset"] ELSE cds
           /\ crit' = IF n \in Critical /\ ~Recoverable(n) /\ spare # {}
                        THEN [crit EXCEPT ![Min(spare)] = [name |-> n, loaded |-> FALSE]]
                        ELSE crit
    /\ UNCHANGED <<loadBuf, val, dump, up, call, cmd>>

(* The pool refuses a buffer; one that it gave before is not put back. *)
RegisterNoRoom(a, n) ==
    /\ a \in up /\ call[a].pc = "idle" /\ OwnerOf[n] = a
    /\ Find(n) = {} /\ FreeRecords # {} /\ FreeHandles # {}
    /\ \E got \in 0..Blocks(n) - 1 :
         /\ got <= pool /\ (Fragmented \/ got = pool)
         /\ pool' = pool - got
    /\ reg' = [reg EXCEPT ![Min(FreeRecords)] = EmptyRecord]
    /\ UNCHANGED <<handle, loadBuf, val, dump, cds, crit, up, call, cmd, fresh>>

(* CFE_TBL_Share: the new user goes to the head of the list. *)
Share(a, n) ==
    /\ a \in up /\ call[a].pc = "idle" /\ FreeHandles # {}
    /\ \E r \in Find(n) :
         LET h == Min(FreeHandles)
             new == [EmptyHandle EXCEPT !.used = TRUE, !.app = a, !.reg = r,
                        !.updated = reg[r].loaded, !.next = reg[r].head]
         IN  /\ handle' = [handle EXCEPT ![reg[r].head].prev = h, ![h] = new]
             /\ reg' = [reg EXCEPT ![r].head = h]
             /\ fresh' = [fresh EXCEPT ![h] = ~reg[r].loaded]
    /\ UNCHANGED <<loadBuf, val, dump, pool, cds, crit, up, call, cmd>>

-----------------------------------------------------------------------------
(* CFE_TBL_RemoveAccessLink, CFE_TBL_Unregister, CFE_TBL_CleanUpApp. *)

(* Mutant of Unlinked: the descriptor after it keeps its link back. *)
UnlinkedOneWay(h) == [k \in Handles |->
    IF k = h THEN EmptyHandle
    ELSE IF k = handle[h].prev THEN [handle[k] EXCEPT !.next = handle[h].next]
    ELSE handle[k]]

Unlinked(h) == [k \in Handles |->
    IF k = h THEN EmptyHandle
    ELSE IF k = handle[h].prev THEN [handle[k] EXCEPT !.next = handle[h].next]
    ELSE IF k = handle[h].next THEN [handle[k] EXCEPT !.prev = handle[h].prev]
    ELSE handle[k]]

Freed(b) == [loadBuf EXCEPT ![b].taken = FALSE, ![b].img = "blank"]

(* Mutant of ReleasesLoad: the working buffer is kept. *)
ReleasesNoLoad(r) == FALSE
ReleasesLoad(r) == ~Double(r) /\ reg[r].kind \notin UserDef /\ reg[r].lip # NONE

(* Mutant of Returned: both buffers, whatever the table has. *)
ReturnedBoth(r) == 2
Returned(r) == Blocks(reg[r].kind)

(* With the last user go the buffers; what is left of the record does not   *)
(* matter but for its working buffer.                                       *)
RemoveAccessLink(h) ==
    LET r == handle[h].reg
        head == IF handle[h].prev = NONE THEN handle[h].next ELSE reg[r].head
    IN  /\ handle' = Unlinked(h)
        /\ fresh' = [fresh EXCEPT ![h] = FALSE]
        /\ IF head # NONE
             THEN /\ reg' = [reg EXCEPT ![r].head = head]
                  /\ UNCHANGED <<pool, loadBuf>>
             ELSE /\ reg' = [reg EXCEPT ![r] = [EmptyRecord EXCEPT
                                !.lip = IF ReleasesLoad(r) THEN NONE ELSE reg[r].lip]]
                  /\ pool' = pool + Returned(r)
                  /\ loadBuf' = IF ReleasesLoad(r) THEN Freed(reg[r].lip) ELSE loadBuf

Disowned(r, a) ==
    IF reg[r].owner = a
      THEN [reg EXCEPT ![r].owner = NotOwned, ![r].name = NoName] ELSE reg

UnregisterBegin(a, h) ==
    /\ Calls(a, h) /\ Settled(handle[h].reg)
    /\ reg' = Disowned(handle[h].reg, a)
    /\ call' = [call EXCEPT ![a] = [IdleCall EXCEPT !.pc = "remove", !.h = h]]
    /\ UNCHANGED <<handle, loadBuf, val, dump, pool, cds, crit, up, cmd, fresh>>

UnregisterEnd(a) ==
    /\ call[a].pc = "remove"
    /\ RemoveAccessLink(call[a].h)
    /\ call' = [call EXCEPT ![a] = IdleCall]
    /\ UNCHANGED <<val, dump, cds, crit, up, cmd>>

HandlesOf(a) == {h \in Handles : handle[h].used /\ handle[h].app = a}

(* An application that makes no more calls is cleaned up. *)
CleanUpBegin(a) ==
    /\ a \in up /\ call[a].pc = "idle"
    /\ \A h \in HandlesOf(a) : Settled(handle[h].reg)
    /\ up' = up \ {a}
    /\ dump' = [i \in Loads |->
                  IF dump[i].st # "FREE" /\ reg[dump[i].r].owner = a
                    THEN FreeDump ELSE dump[i]]
    /\ call' = [call EXCEPT ![a].pc = "clean"]
    /\ UNCHANGED <<reg, handle, loadBuf, val, pool, cds, crit, cmd, fresh>>

CleanUpDisown(a) ==
    /\ call[a].pc = "clean" /\ HandlesOf(a) # {}
    /\ reg' = Disowned(handle[Min(HandlesOf(a))].reg, a)
    /\ call' = [call EXCEPT ![a].pc = "unlink", ![a].h = Min(HandlesOf(a))]
    /\ UNCHANGED <<handle, loadBuf, val, dump, pool, cds, crit, up, cmd, fresh>>

CleanUpUnlink(a) ==
    /\ call[a].pc = "unlink"
    /\ RemoveAccessLink(call[a].h)
    /\ call' = [call EXCEPT ![a] = [IdleCall EXCEPT !.pc = "clean"]]
    /\ UNCHANGED <<val, dump, cds, crit, up, cmd>>

(* The application starts again. *)
StartApp(a) ==
    /\ call[a].pc = "clean" /\ HandlesOf(a) = {}
    /\ call' = [call EXCEPT ![a] = IdleCall]
    /\ up' = up \union {a}
    /\ UNCHANGED <<reg, handle, loadBuf, val, dump, pool, cds, crit, cmd, fresh>>

-----------------------------------------------------------------------------
(* CFE_TBL_GetWorkingBuffer. *)

Inactive(r) == 1 - reg[r].active
(* Mutant of InactiveHeld: nobody looks at the locks. *)
InactiveNeverHeld(r) == FALSE
InactiveHeld(r) == \E h \in UsersOf(r) :
    handle[h].lock /\ handle[h].buf = Inactive(r)

FreeLoads == {i \in Loads : ~loadBuf[i].taken}
FirstLoad(r, byApp) == reg[r].lip = NONE /\ ~reg[r].loaded /\ byApp
NewLoad(r, byApp) == reg[r].lip = NONE /\ ~FirstLoad(r, byApp)

WorkAvailable(r, byApp) ==
    NewLoad(r, byApp) => IF Double(r) THEN ~InactiveHeld(r) ELSE FreeLoads # {}

WorkAt(r, byApp) ==
    IF FirstLoad(r, byApp) THEN [shared |-> FALSE, tbl |-> r, k |-> reg[r].active]
    ELSE IF Double(r) THEN [shared |-> FALSE, tbl |-> r, k |-> Inactive(r)]
    ELSE [shared |-> TRUE, tbl |-> r,
          k |-> IF NewLoad(r, byApp) THEN Min(FreeLoads) ELSE reg[r].lip]

(* A buffer taken for a new load starts as a copy of the active one. *)
TakeWork(r, byApp) ==
    LET at == WorkAt(r, byApp)
    IN  IF ~NewLoad(r, byApp) THEN UNCHANGED <<reg, loadBuf>>
        ELSE IF at.shared
          THEN /\ loadBuf' = [loadBuf EXCEPT ![at.k].taken = TRUE, ![at.k].img = Active(r)]
               /\ reg' = [reg EXCEPT ![r].lip = at.k]
          ELSE /\ reg' = [reg EXCEPT ![r].lip = at.k, ![r].buf[at.k].img = Active(r)]
               /\ UNCHANGED loadBuf

Put(at, img) ==
    IF at.shared THEN loadBuf' = [loadBuf EXCEPT ![at.k].img = img] /\ UNCHANGED reg
    ELSE reg' = [reg EXCEPT ![at.tbl].buf[at.k].img = img] /\ UNCHANGED loadBuf

-----------------------------------------------------------------------------
(* CFE_TBL_UpdateInternal, CFE_TBL_Update. *)

Locked(r) == ~Double(r) /\ \E h \in UsersOf(r) : handle[h].lock

(* The new image becomes the active one and every user hears of it. *)
ApplyUpdate(r) ==
    LET b == reg[r].lip
        new == IF Double(r) THEN [reg[r] EXCEPT !.active = b]
               ELSE [reg[r] EXCEPT !.buf[0].img = loadBuf[b].img]
    IN  /\ reg' = [reg EXCEPT ![r] = [new EXCEPT !.lip = NONE, !.pend = FALSE,
                                                 !.loaded = TRUE]]
        /\ loadBuf' = IF Double(r) THEN loadBuf ELSE Freed(b)
        /\ handle' = Notified(r) /\ Stale(r)
        /\ UpdateCriticalTblCDS(r, new.buf[new.active].img, TRUE)

Update(a, h) ==
    LET r == handle[h].reg
    IN  /\ Calls(a, h) /\ Quiet(r)
        /\ reg[r].pend /\ reg[r].lip # NONE /\ ~Locked(r)
        /\ ApplyUpdate(r)
        /\ UNCHANGED <<val, dump, pool, up, call, cmd>>

-----------------------------------------------------------------------------
(* CFE_TBL_Load. *)

LoadBegin(a, h) ==
    LET r == handle[h].reg
    IN  /\ Calls(a, h) /\ Quiet(r)
        /\ reg[r].kind \notin DumpOnly /\ reg[r].lip = NONE
        /\ WorkAvailable(r, TRUE) /\ TakeWork(r, TRUE)
        /\ call' = [call EXCEPT ![a] = [pc |-> "fill", h |-> h, at |-> WorkAt(r, TRUE)]]
        /\ UNCHANGED <<handle, val, dump, pool, cds, crit, up, cmd, fresh>>

(* A dump-only table at an address of the owner's is loaded once. *)
LoadUserDef(a, h) ==
    LET r == handle[h].reg
    IN  /\ Calls(a, h) /\ reg[r].kind \in UserDef /\ ~reg[r].loaded
        /\ reg' = [reg EXCEPT ![r].loaded = TRUE, ![r].buf[0].img = "good"]
        /\ UNCHANGED <<handle, loadBuf, val, dump, pool, cds, crit, up, call, cmd, fresh>>

(* Reading the file or copying, and validation: the file may be unusable,   *)
(* end early or hold something the validation function refuses.             *)
LoadFill(a) ==
    LET at == call[a].at
        checks == reg[handle[call[a].h].reg].kind \in Validating
        Then(pc) == call' = [call EXCEPT ![a].pc = pc]
    IN  /\ call[a].pc = "fill"
        /\ \/ Then("failed") /\ UNCHANGED <<reg, loadBuf>>
           \/ Then("failed") /\ Put(at, "bad")
           \/ \E img \in Files :
                IF checks /\ ~Accepted(img) THEN Then("failed") /\ Put(at, "blank")
                ELSE Then("good") /\ Put(at, img)
        /\ UNCHANGED <<handle, val, dump, pool, cds, crit, up, cmd, fresh>>

LoadFailed(a) ==
    LET r == handle[call[a].h].reg
    IN  /\ call[a].pc = "failed"
        /\ loadBuf' = IF ~Double(r) /\ reg[r].loaded /\ reg[r].lip # NONE
                        THEN Freed(reg[r].lip) ELSE loadBuf
        /\ reg' = [reg EXCEPT ![r].lip = NONE]
        /\ call' = [call EXCEPT ![a] = IdleCall]
        /\ UNCHANGED <<handle, val, dump, pool, cds, crit, up, cmd, fresh>>

(* The first load is in place; a later one is applied at once unless the    *)
(* table is locked, when it stays pending.                                  *)
LoadEnd(a) ==
    LET r == handle[call[a].h].reg
    IN  /\ call[a].pc = "good"
        /\ \/ /\ ~reg[r].loaded
              /\ reg' = [reg EXCEPT ![r].lip = NONE, ![r].pend = FALSE, ![r].loaded = TRUE]
              /\ handle' = Notified(r) /\ Stale(r)
              /\ UpdateCriticalTblCDS(r, Active(r), TRUE)
              /\ UNCHANGED loadBuf
           \/ /\ reg[r].loaded /\ reg[r].lip # NONE /\ ~Locked(r)
              /\ ApplyUpdate(r)
           \/ /\ reg[r].loaded /\ (reg[r].lip = NONE \/ Locked(r))
              /\ reg' = [reg EXCEPT ![r].pend = TRUE]
              /\ UNCHANGED <<handle, loadBuf, fresh, cds, crit>>
        /\ call' = [call EXCEPT ![a] = IdleCall]
        /\ UNCHANGED <<val, dump, pool, up, cmd>>

-----------------------------------------------------------------------------
(* The addresses of tables. *)

GetAddress(a, h) ==
    LET r == handle[h].reg
    IN  /\ Calls(a, h) /\ Owned(r)
        /\ handle' = [handle EXCEPT ![h].lock = TRUE, ![h].buf = reg[r].active,
                                    ![h].updated = FALSE, ![h].sure = reg[r].loaded]
        /\ fresh' = [fresh EXCEPT ![h] = TRUE]
        /\ UNCHANGED <<reg, loadBuf, val, dump, pool, cds, crit, up, call, cmd>>

ReleaseAddress(a, h) ==
    /\ Calls(a, h) /\ handle[h].lock
    /\ handle' = [handle EXCEPT ![h].lock = FALSE, ![h].sure = FALSE]
    /\ UNCHANGED <<reg, loadBuf, val, dump, pool, cds, crit, up, call, cmd, fresh>>

(* CFE_TBL_Modified: the other users hear of it. *)
Modified(a, h) ==
    LET r == handle[h].reg
        others == {k \in UsersOf(r) : handle[k].app # a}
    IN  /\ Calls(a, h) /\ handle[h].lock /\ handle[h].buf = reg[r].active
        /\ handle' = [k \in Handles |-> IF k \in others
                        THEN [handle[k] EXCEPT !.updated = TRUE] ELSE handle[k]]
        /\ fresh' = [k \in Handles |-> fresh[k] /\ k \notin others]
        /\ UpdateCriticalTblCDS(r, Active(r), reg[r].loaded)
        /\ UNCHANGED <<reg, loadBuf, val, dump, pool, up, call, cmd>>

-----------------------------------------------------------------------------
(* Commands, one at a time in the task of Table Services. *)

CmdIdle == cmd.pc = "idle"

(* CFE_TBL_LoadCmd: the headers of the file are good; it has a part of the  *)
(* table only if the table is loaded.                                       *)
LoadCmdBegin(n) ==
    /\ CmdIdle
    /\ \E r \in Find(n) :
         /\ n \notin DumpOnly /\ ~reg[r].pend /\ Serving(r)
         /\ WorkAvailable(r, FALSE) /\ TakeWork(r, FALSE)
         /\ cmd' = [pc |-> "read", r |-> r, at |-> WorkAt(r, FALSE)]
    /\ UNCHANGED <<handle, val, dump, pool, cds, crit, up, call, fresh>>

Unvalidated(at) == reg[at.tbl].kind \notin Validating

SetValidated(at, img, flag) ==
    IF at.shared
      THEN /\ loadBuf' = [loadBuf EXCEPT ![at.k].img = img, ![at.k].validated = flag]
           /\ UNCHANGED reg
      ELSE /\ reg' = [reg EXCEPT ![at.tbl].buf[at.k].img = img,
                                 ![at.tbl].buf[at.k].validated = flag]
           /\ UNCHANGED loadBuf

(* The data: all of it, or too little or too much, when the buffer keeps    *)
(* what was read and its flag.                                              *)
LoadCmdEnd ==
    /\ cmd.pc = "read"
    /\ \E img \in Files :
         SetValidated(cmd.at, img, Unvalidated(cmd.at)) \/ Put(cmd.at, img)
    /\ cmd' = IdleCmd
    /\ UNCHANGED <<handle, val, dump, pool, cds, crit, up, call, fresh>>

WorkValidated(r) == IF Double(r) THEN reg[r].buf[Inactive(r)].validated
                    ELSE loadBuf[reg[r].lip].validated

ActivateCmd(n) ==
    /\ CmdIdle
    /\ \E r \in Find(n) :
         /\ n \notin DumpOnly /\ reg[r].lip # NONE /\ WorkValidated(r)
         /\ Serving(r) /\ (Orderly => reg[r].valInactive = NONE)
         /\ reg' = [reg EXCEPT ![r].pend = TRUE]
    /\ UNCHANGED <<handle, loadBuf, val, dump, pool, cds, crit, up, call, cmd, fresh>>

(* Mutant of Aborted: a pending load stays pending. *)
AbortedPending(r) == [reg[r] EXCEPT !.lip = NONE]
Aborted(r) == [reg[r] EXCEPT !.lip = NONE, !.pend = FALSE]

AbortLoadCmd(n) ==
    /\ CmdIdle
    /\ \E r \in Find(n) :
         /\ n \notin DumpOnly /\ reg[r].lip # NONE
         /\ Serving(r) /\ (Orderly => reg[r].valInactive = NONE)
         /\ reg' = [reg EXCEPT ![r] = Aborted(r)]
         /\ loadBuf' = IF Double(r) THEN loadBuf ELSE Freed(reg[r].lip)
    /\ UNCHANGED <<handle, val, dump, pool, cds, crit, up, call, cmd, fresh>>

(* CFE_TBL_ValidateCmd; without a validation function it is done at once. *)
ValidateCmd(n, active) ==
    /\ CmdIdle
    /\ \E r \in Find(n), v \in {w \in Validations : val[w] = "FREE"} :
         /\ \A w \in Validations : w < v => val[w] # "FREE"
         /\ IF active THEN n \in UserDef => reg[r].loaded
                      ELSE Double(r) \/ reg[r].lip # NONE
         /\ Serving(r)
         /\ Orderly => IF active THEN reg[r].valActive = NONE
                       ELSE reg[r].valInactive = NONE /\ ~reg[r].pend /\ n \notin DumpOnly
         /\ val' = [val EXCEPT ![v] = IF n \in Validating THEN "PENDING" ELSE "PERFORMED"]
         /\ reg' = IF n \notin Validating THEN reg
                   ELSE IF active THEN [reg EXCEPT ![r].valActive = v]
                   ELSE [reg EXCEPT ![r].valInactive = v]
    /\ UNCHANGED <<handle, loadBuf, dump, pool, cds, crit, up, call, cmd, fresh>>

(* CFE_TBL_Validate, in the application, the inactive buffer first.  When a *)
(* single-buffered table has no working buffer any more, the function is    *)
(* given what lies before LoadBuffs.                                        *)
Validate(a, h) ==
    LET r == handle[h].reg
        at == IF Double(r) THEN [shared |-> FALSE, tbl |-> r, k |-> Inactive(r)]
              ELSE [shared |-> TRUE, tbl |-> r, k |-> reg[r].lip]
        img == IF at.shared THEN loadBuf[at.k].img ELSE reg[r].buf[at.k].img
        Done(v) == val' = [val EXCEPT ![v] = "PERFORMED"]
    IN  /\ Calls(a, h)
        /\ \/ /\ reg[r].valInactive # NONE /\ Done(reg[r].valInactive)
              /\ LET passes == at.k # NONE /\ Accepted(img)
                 IN /\ reg' = [reg EXCEPT ![r].valInactive = NONE,
                         ![r].buf = IF passes /\ ~at.shared
                           THEN [@ EXCEPT ![at.k].validated = TRUE] ELSE @]
                    /\ loadBuf' = IF passes /\ at.shared
                         THEN [loadBuf EXCEPT ![at.k].validated = TRUE] ELSE loadBuf
           \/ /\ reg[r].valInactive = NONE
              /\ reg[r].valActive # NONE /\ Done(reg[r].valActive)
              /\ reg' = [reg EXCEPT ![r].valActive = NONE]
              /\ UNCHANGED loadBuf
        /\ UNCHANGED <<handle, dump, pool, cds, crit, up, call, cmd, fresh>>

(* CFE_TBL_DumpCmd for a dump-only table: its user is to make the copy. *)
DumpCmd(n) ==
    /\ CmdIdle /\ n \in DumpOnly
    /\ \E r \in Find(n), i \in {j \in Loads : dump[j].st = "FREE"} :
         /\ \A j \in Loads : j < i => dump[j].st # "FREE"
         /\ n \in UserDef => reg[r].loaded
         /\ reg[r].dumpIndex = NONE
         /\ Serving(r) /\ (Orderly => reg[r].lip = NONE)
         /\ WorkAvailable(r, FALSE)
         /\ LET b == WorkAt(r, FALSE).k
            IN  /\ dump' = [dump EXCEPT ![i] = [st |-> "PENDING", r |-> r, b |-> b]]
                /\ loadBuf' = [loadBuf EXCEPT ![b].taken = TRUE, ![b].img = Active(r)]
                /\ reg' = [reg EXCEPT ![r].lip = b, ![r].dumpIndex = i]
    /\ UNCHANGED <<handle, val, pool, cds, crit, up, call, cmd, fresh>>

DumpToBuffer(a, h) ==
    LET r == handle[h].reg
        i == reg[r].dumpIndex
    IN  /\ Calls(a, h) /\ i # NONE /\ ~reg[r].pend
        /\ reg[r].valActive = NONE /\ reg[r].valInactive = NONE
        /\ dump' = [dump EXCEPT ![i].st = "PERFORMED"]
        /\ loadBuf' = [loadBuf EXCEPT ![dump[i].b].img = Active(r)]
        /\ reg' = [reg EXCEPT ![r].dumpIndex = NONE]
        /\ UNCHANGED <<handle, val, pool, cds, crit, up, call, cmd, fresh>>

Written == {i \in Loads : dump[i].st = "PERFORMED"}
Reported == {v \in Validations : val[v] = "PERFORMED"}

(* CFE_TBL_HousekeepingCmd: one validation is reported, dumps are written   *)
(* and give their working buffers back.                                     *)
Housekeeping ==
    LET tables == {dump[i].r : i \in Written}
        buffers == {reg[r].lip : r \in tables}
    IN  /\ CmdIdle /\ (Written # {} \/ Reported # {})
        /\ val' = IF Reported = {} THEN val ELSE [val EXCEPT ![Min(Reported)] = "FREE"]
        /\ dump' = [i \in Loads |-> IF i \in Written THEN FreeDump ELSE dump[i]]
        /\ reg' = [r \in Tables |-> IF r \in tables THEN [reg[r] EXCEPT !.lip = NONE]
                                    ELSE reg[r]]
        /\ loadBuf' = [b \in Loads |->
              IF b \in buffers THEN Freed(b)[b] ELSE loadBuf[b]]
        /\ UNCHANGED <<handle, pool, cds, crit, up, call, cmd, fresh>>

(* A processor reset: what is in the CDS stays. *)
ProcessorReset ==
    /\ Resets
    /\ reg' = Start.reg /\ handle' = Start.handle /\ loadBuf' = Start.loadBuf
    /\ val' = Start.val /\ dump' = Start.dump /\ pool' = POOL
    /\ call' = Start.call /\ cmd' = IdleCmd /\ fresh' = Start.fresh /\ up' = Apps
    /\ UNCHANGED <<cds, crit>>

-----------------------------------------------------------------------------
(* One turn of the loop in CFE_TBL_Manage. *)
Manage(a, h) ==
    LET r == handle[h].reg
    IN  \/ Update(a, h)
        \/ ~reg[r].pend /\ Validate(a, h)
        \/ DumpToBuffer(a, h)

Access(a, h) == \/ UnregisterBegin(a, h) \/ Update(a, h)
                \/ LoadBegin(a, h) \/ LoadUserDef(a, h)
                \/ GetAddress(a, h) \/ ReleaseAddress(a, h)
                \/ Modified(a, h) \/ Validate(a, h) \/ DumpToBuffer(a, h)

Application(a) ==
    \/ \E n \in Names : Register(a, n) \/ RegisterNoRoom(a, n) \/ Share(a, n)
    \/ \E h \in Handles : Access(a, h)
    \/ UnregisterEnd(a) \/ LoadFill(a) \/ LoadFailed(a) \/ LoadEnd(a)
    \/ CleanUpBegin(a) \/ CleanUpDisown(a) \/ CleanUpUnlink(a) \/ StartApp(a)

Command ==
    \/ \E n \in Names : \/ LoadCmdBegin(n) \/ ActivateCmd(n) \/ AbortLoadCmd(n)
                        \/ ValidateCmd(n, TRUE) \/ ValidateCmd(n, FALSE) \/ DumpCmd(n)
    \/ LoadCmdEnd \/ Housekeeping

Next == (\E a \in Apps : Application(a)) \/ Command \/ ProcessorReset

Spec == Init /\ [][Next]_vars

(* Calls and commands end, housekeeping goes on, and an application manages *)
(* its tables again and again, some time between release and GetAddress.    *)
FairSpec ==
    /\ Spec
    /\ \A a \in Apps :
         /\ \A h \in Handles : /\ SF_vars(Manage(a, h))
                               /\ WF_vars(ReleaseAddress(a, h))
         /\ WF_vars(LoadFill(a) \/ LoadFailed(a) \/ LoadEnd(a) \/ UnregisterEnd(a))
         /\ WF_vars(CleanUpDisown(a) \/ CleanUpUnlink(a))
    /\ WF_vars(LoadCmdEnd) /\ WF_vars(Housekeeping)
=============================================================================
