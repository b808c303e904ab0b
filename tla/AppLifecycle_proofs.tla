------------------------- MODULE AppLifecycle_proofs -------------------------
(***************************************************************************)
(* Proofs about applications and their tasks, for any number of            *)
(* applications, tasks and commands and any interleaving of the command    *)
(* task, the background task and the tasks of applications.                *)
(***************************************************************************)
EXTENDS AppLifecycleProps, FiniteSetTheorems, WellFoundedInduction, TLAPS

Reqs == {"RUN"} \union Requests \union ExitStatus
AppRecord == [id : AppSerials \union {FREE, RESERVED}, name : Names \union {NoName},
              state : UNDEFINED..STOPPED, req : Reqs, timer : 0..KillTime,
              main : TaskSerials \union {FREE}]
TaskRecord == [id : TaskSerials \union {FREE, RESERVED}, app : AppSerials \union {FREE}]
ThreadRecord ==
    [id : TaskSerials \union {FREE},
     st : {"none", "poll", "run", "halt", "create", "record", "leaving"},
     app : AppSerials \union {FREE}, by : TaskSerials \union {FREE}]
CreateRecord ==
    [pc : {"idle", "load", "main", "record", "publish", "fail"},
     id : AppSerials \union {FREE}, name : Names \union {NoName},
     t : TaskSerials \union {FREE}]
JobRecord ==
    [pc : {"idle", "next", "begin", "tasks", "free", "restart"},
     queue : SUBSET AppSerials, id : AppSerials \union {FREE}, req : Reqs,
     name : Names \union {NoName},
     tasks : SUBSET TaskSerials, cleaned : SUBSET TaskSerials]

Running(k) == os[k].st # "none"
CleanUp == {"tasks", "free"}

Typed ==
    /\ app \in [Slots -> AppRecord]
    /\ task \in [TaskSlots -> TaskRecord]
    /\ glob \in [lastApp : 0..CmdMax * MAX_APPS,
                 lastTask : 0..(CmdMax + ChildMax) * MAX_TASKS,
                 apps : Int, tasks : Int]
    /\ os \in [TaskSlots -> ThreadRecord]
    /\ loaded \subseteq Names \union {NoName}
    /\ scan \in [pending : BOOLEAN, timer : 0..SCAN_RATE, command : BOOLEAN]
    /\ job \in JobRecord
    /\ create \in [Actors -> CreateRecord]
    /\ ask \in AppSerials \union {FREE, RESERVED}
    /\ sent \in [cmds : Nat, children : Nat]
    /\ asked \in [Slots -> {"none"} \union Requests]
    /\ waited \in [Slots -> Nat]

(* A task ID leads to the slot of the task and of its record, and a record  *)
(* is RESERVED only by a clean-up that frees it again.                      *)
Placed ==
    /\ \A k \in TaskSlots :
         /\ Running(k) => /\ os[k].id \in TaskSerials /\ TaskSlot(os[k].id) = k
                          /\ os[k].app \in AppSerials
         /\ task[k].id \in TaskSerials =>
              TaskSlot(task[k].id) = k /\ task[k].app \in AppSerials
         /\ task[k].id = RESERVED =>
              job.pc \in CleanUp /\ \E t \in job.tasks : TaskSlot(t) = k
    /\ \A a \in Actors :
         /\ create[a].pc # "idle" => create[a].id \in AppSerials
         /\ create[a].pc \in {"record", "publish"} => create[a].t \in TaskSerials
    /\ job.pc \in {"begin"} \union CleanUp => job.id \in AppSerials

-----------------------------------------------------------------------------
(* Serials and slots. *)

LEMMA LeastNumber ==
  ASSUME NEW S, S \subseteq Nat, S # {}
  PROVE  \E k \in S : \A j \in S : k <= j
<1>1. PICK k \in S : \A j \in S : ~ (<<j, k>> \in OpToRel(<, Nat))
  BY NatLessThanWellFounded, WFMin
<1>2. \A j \in S : ~ (j < k)
  BY <1>1 DEF OpToRel
<1> QED BY <1>2

(* Below the limit CFE_ResourceId_FindNext returns a serial above the last  *)
(* one whose slot is not in use.                                            *)
LEMMA FindNextFresh ==
  ASSUME NEW start \in Nat, NEW size \in Nat \ {0}, NEW limit \in Nat,
         start + size < limit, NEW used,
         NEW id, id = FindNext(start, size, limit, used, FREE), id # FREE
  PROVE  id \in Nat /\ id > start /\ ToIndex(id, size) \notin used
<1> DEFINE open == {k \in 1..size :
                      ToIndex(Candidate(start, k, size, limit), size) \notin used}
           k == CHOOSE k \in open : \A j \in open : k <= j
<1>1. open # {} /\ id = Candidate(start, k, size, limit)
  BY DEF FindNext
<1>2. open \subseteq Nat
  OBVIOUS
<1>3. k \in open
  BY <1>1, <1>2, LeastNumber
<1>4. k \in 1..size /\ ToIndex(Candidate(start, k, size, limit), size) \notin used
  BY <1>3
<1> HIDE DEF k, open
<1>5. start + k < limit
  BY <1>4
<1>6. id = start + k
  BY <1>1, <1>5 DEF Candidate
<1> QED BY <1>1, <1>4, <1>6

LEMMA Bounds ==
  /\ MAX_APPS \in Nat \ {0} /\ MAX_TASKS \in Nat \ {0} /\ NoLimit \in Nat
  /\ CmdMax * MAX_APPS \in Nat /\ CmdMax * MAX_APPS + MAX_APPS < NoLimit
  /\ (CmdMax + ChildMax) * MAX_TASKS \in Nat
  /\ (CmdMax + ChildMax) * MAX_TASKS + MAX_TASKS < NoLimit
<1>1. \A x, y \in Nat : x * y \in Nat /\ (x + 1) * y = x * y + y
  OBVIOUS
<1>2. /\ MAX_APPS \in Nat \ {0} /\ MAX_TASKS \in Nat \ {0}
      /\ CmdMax \in Nat /\ CmdMax + ChildMax \in Nat
  BY BoundsAssumption
<1>3. /\ CmdMax * MAX_APPS \in Nat /\ (CmdMax + ChildMax) * MAX_TASKS \in Nat
      /\ NoLimit = (CmdMax * MAX_APPS + MAX_APPS)
                     + ((CmdMax + ChildMax) * MAX_TASKS + MAX_TASKS)
  BY <1>1, <1>2 DEF NoLimit
<1> QED BY <1>2, <1>3

LEMMA SlotTyped ==
  /\ \A id \in AppSerials : SlotOf(id) \in Slots /\ id \in Nat
  /\ \A t \in TaskSerials : TaskSlot(t) \in TaskSlots /\ t \in Nat
  BY Bounds DEF AppSerials, TaskSerials, SlotOf, TaskSlot, ToIndex, Slots, TaskSlots

LEMMA Symbols ==
  FREE \notin AppSerials \union TaskSerials /\ RESERVED \notin AppSerials \union TaskSerials
  /\ FREE # RESERVED
  BY Bounds, BoundsAssumption DEF AppSerials, TaskSerials

LEMMA FreshApp ==
  ASSUME Typed, FreeAppSlot \in AppSerials
  PROVE  FreeAppSlot > glob.lastApp /\ app[SlotOf(FreeAppSlot)].id = FREE
<1>1. glob.lastApp \in Nat /\ glob.lastApp + MAX_APPS < NoLimit
  BY Bounds DEF Typed
<1>2. FreeAppSlot # FREE
  BY Symbols
<1>3. FreeAppSlot > glob.lastApp /\ SlotOf(FreeAppSlot) \notin {s \in Slots : Used(s)}
  BY <1>1, <1>2, Bounds, FindNextFresh DEF FreeAppSlot, SlotOf
<1> QED BY <1>3, SlotTyped DEF Used

LEMMA FreshTask ==
  ASSUME Typed, NewTask \in TaskSerials
  PROVE  NewTask > glob.lastTask /\ os[TaskSlot(NewTask)].st = "none"
<1>1. glob.lastTask \in Nat /\ glob.lastTask + MAX_TASKS < NoLimit
  BY Bounds DEF Typed
<1>2. NewTask # FREE
  BY Symbols
<1>3. /\ NewTask > glob.lastTask
      /\ TaskSlot(NewTask) \notin {k \in TaskSlots : os[k].st # "none"}
  BY <1>1, <1>2, Bounds, FindNextFresh DEF NewTask, TaskSlot
<1> QED BY <1>3, SlotTyped

-----------------------------------------------------------------------------
(* Type correctness. *)

LEMMA Times == KillTime \in Nat /\ SCAN_RATE \in Nat
  BY BoundsAssumption DEF KillTime

LEMMA InitTyped == Init => Typed /\ Placed
<1> SUFFICES ASSUME Init PROVE Typed /\ Placed
  OBVIOUS
<1>1. /\ EmptyApp \in AppRecord /\ EmptyTask \in TaskRecord /\ NoThread \in ThreadRecord
      /\ NoJob \in JobRecord /\ Idle \in CreateRecord
  BY Times DEF EmptyApp, AppRecord, EmptyTask, TaskRecord, NoThread, ThreadRecord,
               NoJob, JobRecord, Idle, CreateRecord, Reqs, UNDEFINED, STOPPED
<1>2. Typed
  BY <1>1, Times, Bounds DEF Init, Typed
<1>3. Placed
  BY Symbols DEF Init, Placed, Running, Used, EmptyApp, EmptyTask, NoThread, NoJob,
                 Idle, CleanUp
<1> QED BY <1>2, <1>3

LEMMA ReserveTyped ==
  ASSUME Typed, Placed, NEW a \in Actors, NEW n \in Names \union {NoName},
         AppCreateReserve(a, n, FreeAppSlot)
  PROVE  /\ app' \in [Slots -> AppRecord]
         /\ glob' \in [lastApp : 0..CmdMax * MAX_APPS,
                       lastTask : 0..(CmdMax + ChildMax) * MAX_TASKS,
                       apps : Int, tasks : Int]
         /\ create' \in [Actors -> CreateRecord]
         /\ asked' \in [Slots -> {"none"} \union Requests]
         /\ waited' \in [Slots -> Nat]
<1> DEFINE id == FreeAppSlot
<1>1. id \in AppSerials /\ id \in 0..CmdMax * MAX_APPS
  BY DEF AppCreateReserve, AppSerials
<1> HIDE DEF id
<1>2. [EmptyApp EXCEPT !.id = RESERVED, !.name = n] \in AppRecord
  <2>1. EmptyApp \in AppRecord
    BY Times DEF EmptyApp, AppRecord, Reqs, UNDEFINED, STOPPED
  <2> QED BY <2>1 DEF AppRecord
<1>3. [pc |-> "load", id |-> id, name |-> n, t |-> FREE] \in CreateRecord
  BY <1>1 DEF CreateRecord
<1>4. /\ app' = [app EXCEPT ![SlotOf(id)] = [EmptyApp EXCEPT !.id = RESERVED, !.name = n]]
      /\ glob' = [glob EXCEPT !.lastApp = id]
      /\ create' = [create EXCEPT ![a] = [pc |-> "load", id |-> id, name |-> n, t |-> FREE]]
      /\ asked' = [asked EXCEPT ![SlotOf(id)] = "none"]
      /\ waited' = [waited EXCEPT ![SlotOf(id)] = 0]
  BY DEF AppCreateReserve, id
<1>5. app' \in [Slots -> AppRecord]
  BY <1>2, <1>4 DEF Typed
<1>6. create' \in [Actors -> CreateRecord]
  BY <1>3, <1>4 DEF Typed
<1> QED BY <1>1, <1>4, <1>5, <1>6 DEF Typed

LEMMA ReservePlaced ==
  ASSUME Typed, Placed, NEW a \in Actors, NEW n \in Names \union {NoName},
         AppCreateReserve(a, n, FreeAppSlot), UNCHANGED <<task, os>>,
         \/ UNCHANGED job
         \/ job.pc = "restart" /\ job'.pc \in {"idle", "next"}
  PROVE  Placed'
<1> DEFINE id == FreeAppSlot
<1>1. id \in AppSerials /\ SlotOf(id) \in Slots
  BY SlotTyped DEF AppCreateReserve
<1> HIDE DEF id
<1>2. /\ app' = [app EXCEPT ![SlotOf(id)] = [EmptyApp EXCEPT !.id = RESERVED, !.name = n]]
      /\ create' = [create EXCEPT ![a] = [pc |-> "load", id |-> id, name |-> n, t |-> FREE]]
  BY DEF AppCreateReserve, id
<1>4. \A b \in Actors :
         /\ create'[b].pc # "idle" => create'[b].id \in AppSerials
         /\ create'[b].pc \in {"record", "publish"} => create'[b].t \in TaskSerials
  BY <1>1, <1>2 DEF Typed, Placed
<1>5. job'.pc \in {"begin"} \union CleanUp => job'.id \in AppSerials
  BY DEF Placed, CleanUp
<1>6. \A k \in TaskSlots :
        task[k].id = RESERVED =>
              job'.pc \in CleanUp /\ \E t \in job'.tasks : TaskSlot(t) = k
  BY DEF Placed, CleanUp
<1> QED BY <1>4, <1>5, <1>6 DEF Placed, Running

LEMMA AppFields ==
  ASSUME NEW r \in AppRecord
  PROVE  /\ \A i \in AppSerials \union {FREE, RESERVED} : [r EXCEPT !.id = i] \in AppRecord
         /\ \A t \in TaskSerials : [r EXCEPT !.main = t] \in AppRecord
         /\ \A st \in UNDEFINED..STOPPED : [r EXCEPT !.state = st] \in AppRecord
         /\ \A q \in Reqs : [r EXCEPT !.req = q] \in AppRecord
  BY DEF AppRecord

LEMMA CreationTyped ==
  ASSUME Typed, Placed, NEW a \in Actors, Creation(a)
  PROVE  Typed' /\ Placed'
<1>0. create[a] \in CreateRecord
  BY DEF Typed
<1>1. CASE LoadModule(a)
  <2>1. \E pc \in {"main", "fail"} : create' = [create EXCEPT ![a].pc = pc]
    BY <1>1 DEF LoadModule, Goto
  <2>2. create' \in [Actors -> CreateRecord] /\ loaded' \subseteq Names \union {NoName}
    <3>1. create' \in [Actors -> CreateRecord]
      BY <1>0, <2>1 DEF Typed, CreateRecord
    <3>2. create[a].name \in Names \union {NoName}
      BY <1>0 DEF CreateRecord
    <3> QED BY <1>1, <3>1, <3>2 DEF LoadModule, Typed
  <2>3. Typed'
    BY <1>1, <2>2 DEF Typed, LoadModule
  <2>4. Placed'
    BY <1>0, <1>1, <2>1 DEF Typed, Placed, LoadModule, CreateRecord, Used, Running
  <2> QED BY <2>3, <2>4
<1>2. CASE CreateMainTask(a)
  <2>0. create[a].id \in AppSerials /\ create[a].pc = "main"
    BY <1>2 DEF CreateMainTask, Placed
  <2>1. CASE /\ NewTask \in TaskSerials
             /\ os' = [os EXCEPT ![TaskSlot(NewTask)] =
                            NewThread(NewTask, create[a].id, FREE)]
             /\ glob' = [glob EXCEPT !.lastTask = NewTask]
             /\ create' = [create EXCEPT ![a].pc = "record", ![a].t = NewTask]
    <3> DEFINE t == NewTask
    <3>1. t \in TaskSerials /\ TaskSlot(t) \in TaskSlots
                /\ t \in 0..(CmdMax + ChildMax) * MAX_TASKS
      BY <2>1, SlotTyped DEF TaskSerials
    <3> HIDE DEF t
    <3>2. /\ os' = [os EXCEPT ![TaskSlot(t)] = NewThread(t, create[a].id, FREE)]
          /\ glob' = [glob EXCEPT !.lastTask = t]
          /\ create' = [create EXCEPT ![a].pc = "record", ![a].t = t]
      BY <2>1 DEF t
    <3>3. NewThread(t, create[a].id, FREE) \in ThreadRecord
      BY <2>0, <3>1 DEF NewThread, ThreadRecord
    <3>4. os' \in [TaskSlots -> ThreadRecord]
      BY <3>2, <3>3 DEF Typed
    <3>5. create' \in [Actors -> CreateRecord]
      BY <1>0, <3>1, <3>2 DEF Typed, CreateRecord
    <3>6. Typed'
      BY <1>2, <3>1, <3>2, <3>4, <3>5 DEF Typed, CreateMainTask
    <3>7. Placed'
      BY <1>0, <1>2, <2>0, <3>1, <3>2 DEF Typed, Placed, CreateMainTask, CreateRecord,
           Used, Running, NewThread
    <3> QED BY <3>6, <3>7
  <2>2. CASE Goto(a, "fail") /\ UNCHANGED <<os, glob>>
    <3>1. create' \in [Actors -> CreateRecord]
      BY <1>0, <2>2 DEF Typed, CreateRecord, Goto
    <3>2. Typed'
      BY <1>2, <2>2, <3>1 DEF Typed, CreateMainTask
    <3>3. Placed'
      BY <1>0, <1>2, <2>0, <2>2 DEF Typed, Placed, CreateMainTask, CreateRecord,
           Used, Running, Goto
    <3> QED BY <3>2, <3>3
  <2> QED BY <1>2, <2>1, <2>2 DEF CreateMainTask
<1>3. CASE RecordMainTask(a)
  <2>1. /\ create[a].id \in AppSerials /\ create[a].pc = "record"
        /\ create[a].t \in TaskSerials
    BY <1>3 DEF RecordMainTask, Placed
  <2>2. /\ SlotOf(create[a].id) \in Slots /\ TaskSlot(create[a].t) \in TaskSlots
    BY <2>1, SlotTyped
  <2>3. task' \in [TaskSlots -> TaskRecord]
    BY <1>3, <2>1 DEF Typed, RecordMainTask, RecordTask, TaskRecord
  <2>4. app' \in [Slots -> AppRecord]
    BY <1>3, <2>1, <2>2, AppFields DEF Typed, RecordMainTask
  <2>5. create' \in [Actors -> CreateRecord]
    BY <1>0, <1>3 DEF Typed, RecordMainTask, Goto, CreateRecord
  <2>6. Typed'
    BY <1>3, <2>3, <2>4, <2>5 DEF Typed, RecordMainTask
  <2>8. \A k \in TaskSlots :
         /\ task'[k].id \in TaskSerials =>
              TaskSlot(task'[k].id) = k /\ task'[k].app \in AppSerials
         /\ task'[k].id = RESERVED =>
              job.pc \in CleanUp /\ \E t \in job.tasks : TaskSlot(t) = k
    BY <1>3, <2>1, <2>2, Symbols DEF RecordMainTask, RecordTask, Typed, Placed
  <2>9. \A b \in Actors :
         /\ create'[b].pc # "idle" => create'[b].id \in AppSerials
         /\ create'[b].pc \in {"record", "publish"} => create'[b].t \in TaskSerials
    BY <1>3, <2>1 DEF RecordMainTask, Goto, Typed, Placed, CreateRecord
  <2> QED BY <1>3, <2>6, <2>8, <2>9 DEF Placed, RecordMainTask, Running
<1>4. CASE AppCreatePublish(a)
  <2>1. create[a].id \in AppSerials
    BY <1>4 DEF AppCreatePublish, Placed
  <2>2. app' \in [Slots -> AppRecord]
    BY <1>4, <2>1, SlotTyped, AppFields DEF Typed, AppCreatePublish
  <2>3. Idle \in CreateRecord
    BY DEF Idle, CreateRecord
  <2>4. create' \in [Actors -> CreateRecord]
    BY <1>4, <2>3 DEF Typed, AppCreatePublish
  <2>5. scan' \in [pending : BOOLEAN, timer : 0..SCAN_RATE, command : BOOLEAN]
    BY <1>4 DEF AppCreatePublish, Counted, Typed
  <2>6. Typed'
    BY <1>4, <2>2, <2>4, <2>5 DEF Typed, AppCreatePublish
  <2>8. \A b \in Actors :
         /\ create'[b].pc # "idle" => create'[b].id \in AppSerials
         /\ create'[b].pc \in {"record", "publish"} => create'[b].t \in TaskSerials
    BY <1>4 DEF AppCreatePublish, Idle, Typed, Placed
  <2> QED BY <1>4, <2>6, <2>8 DEF Placed, AppCreatePublish, Running
<1>5. CASE AppCreateFail(a)
  <2>1. create[a].id \in AppSerials
    BY <1>5 DEF AppCreateFail, Placed
  <2>2. app' \in [Slots -> AppRecord]
    BY <1>5, <2>1, SlotTyped, AppFields DEF Typed, AppCreateFail
  <2>3. Idle \in CreateRecord
    BY DEF Idle, CreateRecord
  <2>4. create' \in [Actors -> CreateRecord]
    BY <1>5, <2>3 DEF Typed, AppCreateFail
  <2>5. Typed'
    BY <1>5, <2>2, <2>4 DEF Typed, AppCreateFail
  <2>7. \A b \in Actors :
         /\ create'[b].pc # "idle" => create'[b].id \in AppSerials
         /\ create'[b].pc \in {"record", "publish"} => create'[b].t \in TaskSerials
    BY <1>5 DEF AppCreateFail, Idle, Typed, Placed
  <2> QED BY <1>5, <2>5, <2>7 DEF Placed, AppCreateFail, Running
<1> QED BY <1>1, <1>2, <1>3, <1>4, <1>5 DEF Creation

LEMMA CommandTyped ==
  ASSUME Typed, Placed, Command
  PROVE  Typed' /\ Placed'
<1>1. ASSUME NEW n \in Names, StartAppCmd(n) PROVE Typed' /\ Placed'
  <2>1. sent' \in [cmds : Nat, children : Nat]
    BY <1>1 DEF StartAppCmd, SendCmd, Typed
  <2>2. AppCreateReserve("cmd", n, FreeAppSlot) /\ "cmd" \in Actors
    BY <1>1 DEF StartAppCmd, Actors
  <2>3. Typed'
    BY <1>1, <2>1, <2>2, ReserveTyped DEF StartAppCmd, Typed
  <2>4. Placed'
    BY <1>1, <2>2, ReservePlaced DEF StartAppCmd
  <2> QED BY <2>3, <2>4
<1>2. ASSUME NEW n \in Names, GetAppIDByName(n) PROVE Typed' /\ Placed'
  <2>1. sent' \in [cmds : Nat, children : Nat]
    BY <1>2 DEF GetAppIDByName, SendCmd, Typed
  <2>2. ask' \in AppSerials \union {FREE, RESERVED}
    BY <1>2 DEF GetAppIDByName, Locate, Typed, AppRecord
  <2>3. Typed'
    BY <1>2, <2>1, <2>2 DEF GetAppIDByName, Typed
  <2>4. Placed'
    BY <1>2 DEF GetAppIDByName, Placed, Running
  <2> QED BY <2>3, <2>4
<1>3. ASSUME NEW r \in Requests, ControlApp(r) PROVE Typed' /\ Placed'
  <2>0. r \in Reqs
    BY DEF Reqs
  <2>1. app' \in [Slots -> AppRecord]
    BY <1>3, <2>0, AppFields DEF ControlApp, Typed
  <2>2. /\ asked' \in [Slots -> {"none"} \union Requests]
        /\ scan' \in [pending : BOOLEAN, timer : 0..SCAN_RATE, command : BOOLEAN]
    BY <1>3 DEF ControlApp, Typed
  <2>3. Typed'
    BY <1>3, <2>1, <2>2 DEF ControlApp, Typed
  <2>4. Placed'
    BY <1>3 DEF ControlApp, Placed, Running
  <2> QED BY <2>3, <2>4
<1>4. ASSUME NEW r \in Requests, ControlAppRefused(r) PROVE Typed' /\ Placed'
  BY <1>4 DEF ControlAppRefused, Typed, Placed, Running
<1> QED BY <1>1, <1>2, <1>3, <1>4 DEF Command

LEMMA ScanTyped ==
  ASSUME Typed, Placed, NEW e \in Delays, SkipScan(e) \/ RunAppTableScan(e),
         job.pc = "idle" => \A s \in Slots : Leaving(s) => app[s].id \in AppSerials
  PROVE  Typed' /\ Placed'
<1>0. e \in Nat
  BY BoundsAssumption
<1>1. waited' \in [Slots -> Nat]
  BY <1>0 DEF SkipScan, RunAppTableScan, Waited, Typed
<1>2. CASE SkipScan(e)
  <2>1. scan.timer \in 0..SCAN_RATE /\ e \in Nat /\ ~(scan.timer <= e)
    BY <1>0, <1>2 DEF SkipScan, ScanDue, Typed
  <2>2. scan' \in [pending : BOOLEAN, timer : 0..SCAN_RATE, command : BOOLEAN]
    BY <1>2, <2>1, Times DEF SkipScan, Typed
  <2>3. Typed' /\ Placed'
    BY <1>1, <1>2, <2>2 DEF SkipScan, Typed, Placed, Running
  <2> QED BY <2>3
<1>3. CASE RunAppTableScan(e)
  <2>1. \A s \in Slots : Scanned(s, e) \in AppRecord
    <3> TAKE s \in Slots
    <3>1. app[s] \in AppRecord /\ app[s].timer \in 0..KillTime /\ KillTime \in Nat
      BY Times DEF Typed, AppRecord
    <3>2. CASE Leaving(s)
      <4>1. (IF TimedOut(s, e) THEN 0 ELSE app[s].timer - e) \in 0..KillTime
        BY <1>0, <3>1, <3>2 DEF TimedOut
      <4>2. Scanned(s, e) = [app[s] EXCEPT !.timer = IF TimedOut(s, e) THEN 0 ELSE @ - e]
        BY <3>2 DEF Scanned
      <4> QED BY <3>1, <4>1, <4>2 DEF AppRecord
    <3>3. CASE ~Leaving(s) /\ Requested(s)
      <4>1. Scanned(s, e) = [app[s] EXCEPT !.state = WAITING, !.timer = KillTime]
        BY <3>3 DEF Scanned, KillTime
      <4>2. WAITING \in UNDEFINED..STOPPED /\ KillTime \in 0..KillTime
        BY <3>1 DEF WAITING, UNDEFINED, STOPPED
      <4> QED BY <3>1, <4>1, <4>2 DEF AppRecord
    <3>4. CASE ~Leaving(s) /\ ~Requested(s)
      BY <3>1, <3>4 DEF Scanned
    <3> QED BY <3>2, <3>3, <3>4
  <2>2. app' \in [Slots -> AppRecord]
    BY <1>3, <2>1 DEF RunAppTableScan
  <2>3. scan' \in [pending : BOOLEAN, timer : 0..SCAN_RATE, command : BOOLEAN]
    BY <1>3, Times DEF RunAppTableScan
  <2> DEFINE out == {app[s].id : s \in {r \in Slots : TimedOut(r, e)}}
  <2>4. job' = [job EXCEPT !.pc = IF out = {} THEN "idle" ELSE "next", !.queue = out]
    BY <1>3 DEF RunAppTableScan
  <2>5. out \subseteq AppSerials
    BY <1>3 DEF RunAppTableScan, BackgroundIdle, TimedOut
  <2> HIDE DEF out
  <2>6. job' \in JobRecord /\ job'.pc \in {"idle", "next"}
    BY <2>4, <2>5 DEF Typed, JobRecord
  <2>7. Typed'
    BY <1>1, <1>3, <2>2, <2>3, <2>6 DEF RunAppTableScan, Typed
  <2>8. Placed'
    <3>1. job.pc = "idle"
      BY <1>3 DEF RunAppTableScan, BackgroundIdle
    <3> QED BY <1>3, <2>6, <3>1 DEF RunAppTableScan, Placed, CleanUp, Running
  <2> QED BY <2>7, <2>8
<1> QED BY <1>2, <1>3

LEMMA CleanUpTyped ==
  ASSUME Typed, Placed,
         \/ ProcessControlRequest \/ CleanUpBegin
         \/ \E t \in job.tasks : CleanupTaskResources(t)
         \/ UnloadModule \/ CleanUpEnd \/ RestartApp
  PROVE  Typed' /\ Placed'
<1>0. job \in JobRecord
  BY DEF Typed
<1>1. CASE ProcessControlRequest
  <2>1. PICK i \in job.queue :
          job' = [job EXCEPT !.pc = "begin", !.queue = @ \ {i}, !.id = i,
                       !.req = app[SlotOf(i)].req, !.name = app[SlotOf(i)].name]
    BY <1>1 DEF ProcessControlRequest
  <2>2. i \in AppSerials /\ SlotOf(i) \in Slots
    BY <1>0, <2>1, SlotTyped DEF JobRecord
  <2>3. app[SlotOf(i)].req \in Reqs /\ app[SlotOf(i)].name \in Names \union {NoName}
    BY <2>2 DEF Typed, AppRecord
  <2>4. job' \in JobRecord /\ job'.pc = "begin" /\ job'.id = i
    BY <1>0, <2>1, <2>2, <2>3 DEF JobRecord
  <2>5. Typed'
    BY <1>1, <2>4 DEF ProcessControlRequest, Typed
  <2>6. Placed'
    BY <1>1, <2>2, <2>4 DEF ProcessControlRequest, Placed, CleanUp, Running
  <2> QED BY <2>5, <2>6
<1>2. CASE CleanUpBegin
  <2> DEFINE list == TaskList(job.id)
             ids == {task[k].id : k \in list}
  <2>1. job.pc = "begin" /\ job.id \in AppSerials /\ SlotOf(job.id) \in Slots
    BY <1>2, SlotTyped DEF CleanUpBegin, Placed
  <2>2. \A k \in list : k \in TaskSlots /\ task[k].id \in TaskSerials /\ TaskSlot(task[k].id) = k
    BY <2>1 DEF TaskList, Typed, TaskRecord, Placed, CleanUp
  <2>3. Cardinality(list) \in Nat
    <3>1. IsFiniteSet(TaskSlots)
      BY Bounds, FS_Interval DEF TaskSlots
    <3> QED BY <3>1, <2>2, FS_Subset, FS_CardinalityType
  <2>4. /\ task' = [k \in TaskSlots |->
                         IF k \in list THEN [task[k] EXCEPT !.id = RESERVED]
                         ELSE task[k]]
        /\ glob' = [glob EXCEPT !.apps = @ - 1, !.tasks = @ - Cardinality(list)]
        /\ job' = [job EXCEPT !.pc = "tasks", !.tasks = ids]
        /\ app' = [app EXCEPT ![SlotOf(job.id)].id = RESERVED]
    BY <1>2 DEF CleanUpBegin
  <2>5. ids \subseteq TaskSerials
    BY <2>2
  <2>6. \A k \in list : \E t \in ids : TaskSlot(t) = k
    BY <2>2
  <2> HIDE DEF list, ids
  <2>7. job' \in JobRecord /\ job'.pc = "tasks" /\ job'.id = job.id /\ job'.tasks = ids
    BY <1>0, <2>4, <2>5 DEF JobRecord
  <2>8. app' \in [Slots -> AppRecord]
    BY <2>1, <2>4, AppFields DEF Typed
  <2>9. task' \in [TaskSlots -> TaskRecord]
    <3>1. \A k \in TaskSlots : [task[k] EXCEPT !.id = RESERVED] \in TaskRecord
      BY DEF Typed, TaskRecord
    <3> QED BY <2>4, <3>1 DEF Typed
  <2>10. Typed'
    <3>1. glob' \in [lastApp : 0..CmdMax * MAX_APPS,
                      lastTask : 0..(CmdMax + ChildMax) * MAX_TASKS,
                      apps : Int, tasks : Int]
      <4> DEFINE n == Cardinality(list)
      <4>1. n \in Nat /\ glob' = [glob EXCEPT !.apps = @ - 1, !.tasks = @ - n]
        BY <2>3, <2>4
      <4> HIDE DEF n
      <4> DEFINE g == [glob EXCEPT !.apps = @ - 1]
      <4>2. /\ g \in [lastApp : 0..CmdMax * MAX_APPS,
                      lastTask : 0..(CmdMax + ChildMax) * MAX_TASKS,
                      apps : Int, tasks : Int]
            /\ g.tasks = glob.tasks
        BY DEF Typed
      <4>3. glob' = [g EXCEPT !.tasks = @ - n]
        BY <4>1, <4>2
      <4> HIDE DEF g
      <4> QED BY <4>1, <4>2, <4>3
    <3> QED BY <1>2, <2>7, <2>8, <2>9, <3>1 DEF CleanUpBegin, Typed
  <2>11. \A k \in TaskSlots :
         /\ task'[k].id \in TaskSerials =>
              TaskSlot(task'[k].id) = k /\ task'[k].app \in AppSerials
         /\ task'[k].id = RESERVED => \E t \in ids : TaskSlot(t) = k
    <3> TAKE k \in TaskSlots
    <3>1. CASE k \in list
      BY <2>4, <2>6, <3>1, Symbols DEF Typed, TaskRecord
    <3>2. CASE k \notin list
      BY <2>1, <2>4, <3>2 DEF Placed, CleanUp
    <3> QED BY <3>1, <3>2
  <2>12. Placed'
    BY <1>2, <2>1, <2>7, <2>11 DEF CleanUpBegin, Placed, CleanUp, Running
  <2> QED BY <2>10, <2>12
<1>3. ASSUME NEW t \in job.tasks, CleanupTaskResources(t) PROVE Typed' /\ Placed'
  <2>1. t \in TaskSerials
    BY <1>0 DEF JobRecord
  <2>2. job' \in JobRecord /\ job'.pc = job.pc /\ job'.id = job.id /\ job'.tasks = job.tasks
    BY <1>0, <1>3, <2>1 DEF CleanupTaskResources, JobRecord
  <2>3. NoThread \in ThreadRecord /\ NoThread.st = "none"
    BY DEF NoThread, ThreadRecord
  <2>4. os' \in [TaskSlots -> ThreadRecord]
    BY <1>3, <2>3 DEF CleanupTaskResources, Typed
  <2>5. Typed'
    BY <1>3, <2>2, <2>4 DEF CleanupTaskResources, Typed
  <2>6. \A k \in TaskSlots : os'[k].st # "none" => os'[k] = os[k]
    BY <1>3, <2>3 DEF CleanupTaskResources
  <2>7. Placed'
    BY <1>3, <2>2, <2>6 DEF CleanupTaskResources, Placed, Running
  <2> QED BY <2>5, <2>7
<1>4. CASE UnloadModule
  <2>1. job' \in JobRecord /\ job'.pc = "free" /\ job.pc = "tasks" /\ job'.id = job.id
         /\ job'.tasks = job.tasks
    BY <1>0, <1>4 DEF UnloadModule, JobRecord
  <2>2. Typed' /\ Placed'
    BY <1>4, <2>1 DEF UnloadModule, Unloaded, Typed, Placed, CleanUp, Running
  <2> QED BY <2>2
<1>5. CASE CleanUpEnd
  <2>0. job.id \in AppSerials /\ SlotOf(job.id) \in Slots
    BY <1>5, SlotTyped DEF CleanUpEnd, Placed, CleanUp
  <2>1. NoJob \in JobRecord
    BY DEF NoJob, JobRecord, Reqs
  <2>2. job' \in JobRecord /\ job'.pc \in {"idle", "next", "restart"}
    BY <1>0, <1>5, <2>1 DEF CleanUpEnd, JobDone, NoJob, JobRecord
  <2>3. app' \in [Slots -> AppRecord]
    BY <1>5, <2>0, AppFields DEF CleanUpEnd, Typed
  <2>4. task' \in [TaskSlots -> TaskRecord]
    BY <1>5 DEF CleanUpEnd, Typed, TaskRecord
  <2>5. Typed'
    BY <1>5, <2>2, <2>3, <2>4 DEF CleanUpEnd, Typed
  <2>6. \A k \in TaskSlots :
         /\ task'[k].id \in TaskSerials =>
              TaskSlot(task'[k].id) = k /\ task'[k].app \in AppSerials
         /\ task'[k].id # RESERVED
    <3> TAKE k \in TaskSlots
    <3>1. CASE (\E t \in job.tasks : TaskSlot(t) = k) /\ Freed(k)
      BY <1>5, <3>1, Symbols DEF CleanUpEnd, Typed, TaskRecord
    <3>2. CASE ~((\E t \in job.tasks : TaskSlot(t) = k) /\ Freed(k))
      BY <1>5, <3>2 DEF CleanUpEnd, Placed, Freed
    <3> QED BY <3>1, <3>2
  <2>7. Placed'
    BY <1>5, <2>2, <2>6 DEF CleanUpEnd, Placed, CleanUp, Running
  <2> QED BY <2>5, <2>7
<1>6. CASE RestartApp
  <2>1. NoJob \in JobRecord
    BY DEF NoJob, JobRecord, Reqs
  <2>2. job' \in JobRecord /\ job'.pc \in {"idle", "next"} /\ job.pc = "restart"
    BY <1>0, <1>6, <2>1 DEF RestartApp, JobDone, NoJob, JobRecord
  <2>3. job.name \in Names \union {NoName} /\ "bg" \in Actors
    BY <1>0 DEF JobRecord, Actors
  <2>4. CASE AppCreateReserve("bg", job.name, FreeAppSlot)
    <3>1. Typed'
      BY <1>6, <2>2, <2>3, <2>4, ReserveTyped DEF RestartApp, Typed
    <3>2. Placed'
      BY <1>6, <2>2, <2>3, <2>4, ReservePlaced DEF RestartApp
    <3> QED BY <3>1, <3>2
  <2>5. CASE UNCHANGED <<app, glob, create, asked, waited>>
    BY <1>6, <2>2, <2>5 DEF RestartApp, Typed, Placed, CleanUp, Running
  <2> QED BY <1>6, <2>4, <2>5 DEF RestartApp
<1> QED BY <1>1, <1>2, <1>3, <1>4, <1>5, <1>6

LEMMA ThreadSlot ==
  ASSUME Typed, Placed, NEW t \in Threads
  PROVE  t \in TaskSerials /\ TaskSlot(t) \in TaskSlots /\ Running(TaskSlot(t))
         /\ os[TaskSlot(t)].id = t /\ os[TaskSlot(t)].app \in AppSerials
  BY SlotTyped DEF Threads, Placed, Running

LEMMA OwnApp ==
  ASSUME Typed, Placed, NEW t \in Threads, HasApp(t)
  PROVE  /\ MyApp(t) \in AppSerials /\ SlotOf(MyApp(t)) \in Slots
         /\ task[TaskSlot(t)].id = t /\ app[SlotOf(MyApp(t))].id = MyApp(t)
<1>1. t \in TaskSerials /\ TaskSlot(t) \in TaskSlots
  BY ThreadSlot
<1>2. MyApp(t) \in AppSerials
  BY <1>1 DEF HasApp, HasTask, MyApp, Placed
<1> QED BY <1>2, SlotTyped DEF HasApp, HasTask, IsMatch

LEMMA BecomeTyped ==
  ASSUME Typed, Placed, NEW t \in Threads,
         NEW st \in {"run", "halt", "create", "record", "leaving"}, Become(t, st)
  PROVE  /\ os' \in [TaskSlots -> ThreadRecord]
         /\ \A k \in TaskSlots : Running(k)' => /\ os'[k].id = os[k].id
              /\ os'[k].app = os[k].app /\ os'[k].by = os[k].by /\ Running(k)
<1>1. /\ TaskSlot(t) \in TaskSlots /\ Running(TaskSlot(t))
      /\ os' = [os EXCEPT ![TaskSlot(t)].st = st]
  BY ThreadSlot DEF Become
<1>2. \A r \in ThreadRecord : [r EXCEPT !.st = st] \in ThreadRecord
  BY DEF ThreadRecord
<1>3. os' \in [TaskSlots -> ThreadRecord]
  BY <1>1, <1>2 DEF Typed
<1> QED BY <1>1, <1>3 DEF Typed, Running

LEMMA CallTyped ==
  ASSUME Typed, Placed, NEW t \in Threads, Call(t)
  PROVE  Typed' /\ Placed'
<1>0. t \in TaskSerials /\ TaskSlot(t) \in TaskSlots
  BY ThreadSlot
<1>1. ASSUME NEW st \in {EARLY_INIT, LATE_INIT, RUNNING}, ReportState(t, st)
      PROVE  Typed' /\ Placed'
  <2>1. SlotOf(MyApp(t)) \in Slots
    BY <1>1, OwnApp DEF ReportState
  <2>2. Raised(SlotOf(MyApp(t)), st) \in UNDEFINED..STOPPED
    BY <2>1 DEF Raised, Typed, AppRecord, EARLY_INIT, LATE_INIT, RUNNING, UNDEFINED, STOPPED
  <2>3. app' \in [Slots -> AppRecord]
    BY <1>1, <2>1, <2>2, AppFields DEF ReportState, Typed
  <2> QED BY <1>1, <2>3 DEF ReportState, Typed, Placed, Running
<1>2. ASSUME NEW status \in ExitStatus, ExitApp(t, status)
      PROVE  Typed' /\ Placed'
  <2> DEFINE s == SlotOf(MyApp(t))
  <2>1. s \in Slots
    BY <1>2, OwnApp DEF ExitApp
  <2>2. ExitRequest(s, status) \in Reqs /\ STOPPED \in UNDEFINED..STOPPED
    BY <2>1 DEF ExitRequest, Typed, AppRecord, Reqs, UNDEFINED, STOPPED
  <2>3. app' = [app EXCEPT ![s] =
                  [[@ EXCEPT !.req = ExitRequest(s, status)] EXCEPT !.state = STOPPED]]
    BY <1>2, <2>1 DEF ExitApp, Typed
  <2> HIDE DEF s
  <2>4. app' \in [Slots -> AppRecord]
    <3>1. app[s] \in AppRecord
      BY <2>1 DEF Typed
    <3>2. [app[s] EXCEPT !.req = ExitRequest(s, status)] \in AppRecord
      BY <2>2, <3>1, AppFields
    <3>3. [[app[s] EXCEPT !.req = ExitRequest(s, status)] EXCEPT !.state = STOPPED] \in AppRecord
      BY <2>2, <3>2, AppFields
    <3> QED BY <2>1, <2>3, <3>3 DEF Typed
  <2>5. Become(t, "halt")
    BY <1>2 DEF ExitApp
  <2> QED BY <1>2, <2>4, <2>5, BecomeTyped DEF ExitApp, Typed, Placed, Running
<1>3. CASE CreateChildBegin(t)
  <2>1. Become(t, "create")
    BY <1>3 DEF CreateChildBegin
  <2>2. sent' \in [cmds : Nat, children : Nat]
    BY <1>3 DEF CreateChildBegin, Typed
  <2> QED BY <1>3, <2>1, <2>2, BecomeTyped DEF CreateChildBegin, Typed, Placed, Running
<1>4. ASSUME NEW k \in TaskSlots, ClearTask(k)
      PROVE  /\ task' \in [TaskSlots -> TaskRecord]
             /\ \A j \in TaskSlots : /\ task'[j].app = task[j].app
                                     /\ task'[j].id = FREE \/ task'[j].id = task[j].id
  <2>1. \A r \in TaskRecord : [r EXCEPT !.id = FREE] \in TaskRecord
    BY DEF TaskRecord
  <2>2. task' \in [TaskSlots -> TaskRecord]
    BY <1>4, <2>1 DEF ClearTask, Typed
  <2>3. \A j \in TaskSlots : /\ task'[j].app = task[j].app
                             /\ task'[j].id = FREE \/ task'[j].id = task[j].id
    BY <1>4 DEF ClearTask, Typed, TaskRecord
  <2> QED BY <2>2, <2>3
<1>5. ASSUME NEW c \in Threads, DeleteChildTask(t, c)
      PROVE  Typed' /\ Placed'
  <2>1. TaskSlot(c) \in TaskSlots /\ ClearTask(TaskSlot(c))
    BY <1>5, ThreadSlot DEF DeleteChildTask
  <2>2. NoThread \in ThreadRecord /\ NoThread.st = "none"
    BY DEF NoThread, ThreadRecord
  <2>3. os' \in [TaskSlots -> ThreadRecord]
    BY <1>5, <2>2 DEF DeleteChildTask, Typed
  <2>4. \A k \in TaskSlots : os'[k].st # "none" => os'[k] = os[k]
    BY <1>5, <2>2 DEF DeleteChildTask, Typed
  <2>5. Typed'
    BY <1>4, <1>5, <2>1, <2>3 DEF DeleteChildTask, Typed
  <2>6. Placed'
    BY <1>4, <1>5, <2>1, <2>4, Symbols DEF DeleteChildTask, Placed, Running
  <2> QED BY <2>5, <2>6
<1>6. CASE ExitChildTask(t)
  <2>1. ClearTask(TaskSlot(t)) /\ Become(t, "leaving")
    BY <1>6 DEF ExitChildTask
  <2>2. Typed'
    BY <1>0, <1>4, <1>6, <2>1, BecomeTyped DEF ExitChildTask, Typed
  <2>3. Placed'
    BY <1>0, <1>4, <1>6, <2>1, BecomeTyped, Symbols DEF ExitChildTask, Placed
  <2> QED BY <2>2, <2>3
<1> QED BY <1>1, <1>2, <1>3, <1>5, <1>6 DEF Call

LEMMA ThreadStepTyped ==
  ASSUME Typed, Placed, NEW t \in Threads, ThreadStep(t)
  PROVE  Typed' /\ Placed'
<1>0. t \in TaskSerials /\ TaskSlot(t) \in TaskSlots /\ os[TaskSlot(t)].app \in AppSerials
  BY ThreadSlot
<1>1. CASE Poll(t)
  <2>1. Become(t, "run")
    BY <1>1 DEF Poll
  <2> QED BY <1>1, <2>1, BecomeTyped DEF Poll, Typed, Placed, Running
<1>2. CASE CreateChildTask(t)
  <2>1. CASE /\ NewTask \in TaskSerials
             /\ os' = [os EXCEPT ![TaskSlot(t)].st = "record",
                      ![TaskSlot(NewTask)] = NewThread(NewTask, os[TaskSlot(t)].app, t)]
             /\ glob' = [glob EXCEPT !.lastTask = NewTask]
    <3> DEFINE c == NewTask
    <3>1. c \in TaskSerials /\ TaskSlot(c) \in TaskSlots
                /\ c \in 0..(CmdMax + ChildMax) * MAX_TASKS
                /\ os[TaskSlot(c)].st = "none"
      BY <2>1, SlotTyped, FreshTask DEF TaskSerials
    <3>2. /\ os' = [os EXCEPT ![TaskSlot(t)].st = "record",
                      ![TaskSlot(c)] = NewThread(c, os[TaskSlot(t)].app, t)]
          /\ glob' = [glob EXCEPT !.lastTask = c]
      BY <2>1
    <3> HIDE DEF c
    <3>3. NewThread(c, os[TaskSlot(t)].app, t) \in ThreadRecord
      BY <1>0, <3>1 DEF NewThread, ThreadRecord
    <3>4. \A r \in ThreadRecord : [r EXCEPT !.st = "record"] \in ThreadRecord
      BY DEF ThreadRecord
    <3> DEFINE o == [os EXCEPT ![TaskSlot(t)].st = "record"]
               new == NewThread(c, os[TaskSlot(t)].app, t)
    <3>40. o \in [TaskSlots -> ThreadRecord] /\ os' = [o EXCEPT ![TaskSlot(c)] = new]
      BY <1>0, <3>2, <3>4 DEF Typed
    <3>41. \A k \in TaskSlots :
              /\ o[k].id = os[k].id /\ o[k].app = os[k].app
              /\ os[k].st = "none" => o[k].st = "none"
      BY <1>0, ThreadSlot DEF Running, Typed
    <3>42. new \in ThreadRecord /\ new.id = c /\ new.app = os[TaskSlot(t)].app
      BY <3>3 DEF NewThread
    <3> HIDE DEF o, new
    <3>5. os' \in [TaskSlots -> ThreadRecord]
      BY <3>40, <3>42
    <3>6. Typed'
      BY <1>2, <3>1, <3>2, <3>5 DEF CreateChildTask, Typed
    <3>7. \A k \in TaskSlots : os'[k].st # "none" =>
             \/ k = TaskSlot(c) /\ os'[k].id = c /\ os'[k].app \in AppSerials
             \/ os[k].st # "none" /\ os'[k].id = os[k].id /\ os'[k].app = os[k].app
      <4> TAKE k \in TaskSlots
      <4>1. CASE k = TaskSlot(c)
        BY <1>0, <3>1, <3>40, <3>42, <4>1
      <4>2. CASE k # TaskSlot(c)
        <5>1. os'[k] = o[k]
          BY <3>40, <4>2
        <5> QED BY <3>41, <5>1
      <4> QED BY <4>1, <4>2
    <3>8. Placed'
      BY <1>2, <3>1, <3>7 DEF CreateChildTask, Placed, Running
    <3> QED BY <3>6, <3>8
  <2>2. CASE Become(t, "run") /\ UNCHANGED glob
    BY <1>2, <2>2, BecomeTyped DEF CreateChildTask, Typed, Placed, Running
  <2> QED BY <1>2, <2>1, <2>2 DEF CreateChildTask
<1>3. ASSUME NEW c \in Threads, CreateChildRecord(t, c)
      PROVE  Typed' /\ Placed'
  <2>1. c \in TaskSerials /\ TaskSlot(c) \in TaskSlots
    BY ThreadSlot
  <2>2. task' = [task EXCEPT ![TaskSlot(c)] = [id |-> c, app |-> os[TaskSlot(t)].app]]
        /\ Become(t, "run")
    BY <1>3 DEF CreateChildRecord, RecordTask
  <2>3. [id |-> c, app |-> os[TaskSlot(t)].app] \in TaskRecord
    BY <1>0, <2>1 DEF TaskRecord
  <2>4. task' \in [TaskSlots -> TaskRecord]
    BY <2>2, <2>3 DEF Typed
  <2>5. Typed'
    BY <1>3, <2>2, <2>4, BecomeTyped DEF CreateChildRecord, Typed
  <2>6. \A k \in TaskSlots :
         /\ task'[k].id \in TaskSerials =>
              TaskSlot(task'[k].id) = k /\ task'[k].app \in AppSerials
         /\ task'[k].id = RESERVED =>
              job.pc \in CleanUp /\ \E u \in job.tasks : TaskSlot(u) = k
    BY <1>0, <2>1, <2>2, Symbols DEF Typed, Placed
  <2>7. Placed'
    BY <1>3, <2>2, <2>6, BecomeTyped DEF CreateChildRecord, Placed, Running
  <2> QED BY <2>5, <2>7
<1>4. CASE OS_TaskExit(t)
  <2>1. NoThread \in ThreadRecord /\ NoThread.st = "none"
    BY DEF NoThread, ThreadRecord
  <2>2. os' \in [TaskSlots -> ThreadRecord]
    BY <1>4, <2>1 DEF OS_TaskExit, Typed
  <2>3. \A k \in TaskSlots : os'[k].st # "none" => os'[k] = os[k]
    BY <1>4, <2>1 DEF OS_TaskExit, Typed
  <2> QED BY <1>4, <2>2, <2>3 DEF OS_TaskExit, Typed, Placed, Running
<1> QED BY <1>1, <1>2, <1>3, <1>4 DEF ThreadStep

-----------------------------------------------------------------------------
(* The records of applications: who owns one, and what is asked of it. *)

Busy(a) == create[a].pc # "idle"
CreateSlot(a) == SlotOf(create[a].id)
JobSlot == SlotOf(job.id)
OnJob == job.pc \in {"begin", "tasks", "free"}

(* A published ID leads to its record, and was given out.                   *)
Lead == \A s \in Slots : Live(s) => SlotOf(app[s].id) = s /\ app[s].id <= glob.lastApp

(* An application that is being created owns a record that nobody asks      *)
(* anything of.                                                             *)
Starting == \A a \in Actors : Busy(a) =>
    LET s == CreateSlot(a)
    IN  /\ create[a].id <= glob.lastApp
        /\ app[s].id = RESERVED /\ app[s].name = create[a].name
        /\ app[s].state = UNDEFINED /\ app[s].req = "RUN" /\ asked[s] = "none"
        /\ \A b \in Actors : Busy(b) /\ CreateSlot(b) = s => a = b
        /\ a = "bg" => job.pc \in {"idle", "next"}

(* The clean-up owns its record from the snapshot to its end; those that    *)
(* wait for it still match their IDs.                                       *)
Ending ==
    /\ OnJob =>
         /\ job.id <= glob.lastApp
         /\ app[JobSlot].id = IF job.pc = "begin" THEN job.id ELSE RESERVED
         /\ app[JobSlot].state > RUNNING
         /\ app[JobSlot].req = job.req /\ app[JobSlot].name = job.name
    /\ \A i \in job.queue : IsMatch(i) /\ app[SlotOf(i)].state > RUNNING
    /\ OnJob => job.id \notin job.queue
    /\ job.pc = "idle" => job.queue = {}

ReservedFor == \A s \in Slots : app[s].id = RESERVED =>
    \/ \E a \in Actors : Busy(a) /\ CreateSlot(a) = s
    \/ job.pc \in CleanUp /\ JobSlot = s

Named == /\ \A s \in Slots : Used(s) => app[s].name \in Names
         /\ job.pc = "restart" => job.name \in Names
         /\ loaded \subseteq Names

(* What is taken down exited, or was asked to go. *)
Wanted == \A s \in Slots : Live(s) /\ app[s].state > RUNNING => app[s].req # "RUN"

Owned == Lead /\ Starting /\ Ending /\ ReservedFor /\ Named /\ Wanted /\ RequestHonoured
AppInv == Typed /\ Placed /\ Owned

(* Where the IDs that are at work lead. *)
LEMMA Places ==
  ASSUME AppInv
  PROVE  /\ \A a \in Actors : Busy(a) => create[a].id \in AppSerials /\ CreateSlot(a) \in Slots
         /\ OnJob => job.id \in AppSerials /\ JobSlot \in Slots
         /\ \A i \in job.queue : i \in AppSerials /\ SlotOf(i) \in Slots
         /\ \A s \in Slots : Live(s) <=> app[s].id \in AppSerials
         /\ \A i \in AppSerials : i \in Nat /\ i # FREE /\ i # RESERVED
         /\ FREE \notin Nat /\ RESERVED \notin Nat /\ FREE # RESERVED
<1>1. /\ \A a \in Actors : Busy(a) => create[a].id \in AppSerials /\ CreateSlot(a) \in Slots
      /\ OnJob => job.id \in AppSerials /\ JobSlot \in Slots
  BY SlotTyped DEF AppInv, Placed, CreateSlot, JobSlot, Busy, OnJob, CleanUp
<1>2. \A i \in job.queue : i \in AppSerials /\ SlotOf(i) \in Slots
  BY SlotTyped DEF AppInv, Typed, JobRecord
<1>3. \A s \in Slots : Live(s) <=> app[s].id \in AppSerials
  BY SlotTyped, BoundsAssumption DEF AppInv, Typed, AppRecord, Live
<1> QED BY <1>1, <1>2, <1>3, SlotTyped, BoundsAssumption

(* Steps that leave alone what the records of applications say.             *)
Undisturbed ==
    /\ \A s \in Slots : /\ app'[s].id = app[s].id /\ app'[s].name = app[s].name
                        /\ app'[s].state = app[s].state /\ app'[s].req = app[s].req
    /\ asked' = asked /\ glob'.lastApp = glob.lastApp /\ loaded' \subseteq Names
    /\ \A a \in Actors : /\ create'[a].pc = "idle" <=> create[a].pc = "idle"
                         /\ create'[a].id = create[a].id /\ create'[a].name = create[a].name
    /\ job'.queue = job.queue /\ job'.id = job.id
    /\ job'.req = job.req /\ job'.name = job.name
    /\ job'.pc = job.pc \/ (job.pc = "tasks" /\ job'.pc = "free")

LEMMA QuietOwned ==
  ASSUME AppInv, Undisturbed
  PROVE  Owned'
<1> USE DEF Undisturbed
<1>1. Lead' /\ Wanted' /\ Named'
  BY DEF AppInv, Owned, Lead, Wanted, Named, Live, Used
<1>2. Starting'
  BY Places DEF AppInv, Owned, Starting, Busy, CreateSlot
<1>3. Ending'
  BY Places DEF AppInv, Owned, Ending, OnJob, JobSlot, IsMatch
<1>4. ReservedFor'
  BY DEF AppInv, Owned, ReservedFor, Busy, CreateSlot, JobSlot, CleanUp
<1>5. RequestHonoured'
  BY Places DEF AppInv, Owned, RequestHonoured, Live, OnJob, JobSlot
<1> QED BY <1>1, <1>2, <1>3, <1>4, <1>5 DEF Owned

LEMMA ReserveOwned ==
  ASSUME AppInv, NEW a \in Actors, NEW n \in Names,
         AppCreateReserve(a, n, FreeAppSlot), ~Busy(a), loaded' = loaded,
         \/ a = "cmd" /\ job' = job
         \/ /\ job.pc = "restart" /\ job'.pc \in {"idle", "next"}
            /\ job'.queue = job.queue /\ (job'.pc = "idle" => job'.queue = {})
  PROVE  Owned'
<1> DEFINE id == FreeAppSlot
           s0 == SlotOf(id)
<1>1. /\ id \in AppSerials /\ id > glob.lastApp /\ app[s0].id = FREE /\ s0 \in Slots
      /\ glob.lastApp \in Nat /\ id \in Nat
  BY FreshApp, SlotTyped, Bounds DEF AppCreateReserve, AppInv, Typed
<1> HIDE DEF id
<1>2. /\ app' = [app EXCEPT ![s0] = [EmptyApp EXCEPT !.id = RESERVED, !.name = n]]
      /\ glob' = [glob EXCEPT !.lastApp = id]
      /\ create' = [create EXCEPT ![a] = [pc |-> "load", id |-> id, name |-> n, t |-> FREE]]
      /\ asked' = [asked EXCEPT ![s0] = "none"]
  BY DEF AppCreateReserve, id
<1>3. /\ app'[s0].id = RESERVED /\ app'[s0].name = n
      /\ app'[s0].state = UNDEFINED /\ app'[s0].req = "RUN" /\ asked'[s0] = "none"
  BY <1>1, <1>2 DEF AppInv, Typed, EmptyApp
<1>4. \A s \in Slots : s # s0 => app'[s] = app[s] /\ asked'[s] = asked[s]
  BY <1>2 DEF AppInv, Typed
<1>5. /\ create'[a].pc = "load" /\ create'[a].id = id /\ create'[a].name = n
      /\ \A b \in Actors : b # a => create'[b] = create[b]
      /\ glob'.lastApp = id
  BY <1>2 DEF AppInv, Typed
<1> HIDE DEF s0
<1>6. Lead'
  BY <1>1, <1>3, <1>4, <1>5, Places DEF AppInv, Owned, Lead, Live
<1>7. Starting'
  <2> SUFFICES ASSUME NEW b \in Actors, Busy(b)'
               PROVE  /\ create'[b].id <= glob'.lastApp
                      /\ app'[CreateSlot(b)'].id = RESERVED
                      /\ app'[CreateSlot(b)'].name = create'[b].name
                      /\ app'[CreateSlot(b)'].state = UNDEFINED
                      /\ app'[CreateSlot(b)'].req = "RUN" /\ asked'[CreateSlot(b)'] = "none"
                      /\ \A c \in Actors : Busy(c)' /\ CreateSlot(c)' = CreateSlot(b)' => b = c
                      /\ b = "bg" => job'.pc \in {"idle", "next"}
    BY DEF Starting
  <2>1. CreateSlot(a)' = s0 /\ \A c \in Actors : c # a => CreateSlot(c)' = CreateSlot(c)
    BY <1>5 DEF CreateSlot, s0
  <2>2. \A c \in Actors : Busy(c) /\ c # a => /\ CreateSlot(c) # s0 /\ CreateSlot(c) \in Slots
                                              /\ create[c].id \in Nat
    BY <1>1, Places DEF AppInv, Owned, Starting
  <2>3. CASE b = a
    BY <1>1, <1>3, <1>5, <2>1, <2>2, <2>3, Places DEF Busy, Actors
  <2>4. CASE b # a
    <3>1. Busy(b) /\ create'[b] = create[b]
      BY <1>5, <2>4 DEF Busy
    <3>2. \A c \in Actors : Busy(c)' /\ CreateSlot(c)' = CreateSlot(b)' => b = c
      BY <1>5, <2>1, <2>2, <2>4, <3>1 DEF AppInv, Owned, Starting, Busy
    <3>3. b = "bg" => job'.pc \in {"idle", "next"}
      BY <2>4, <3>1 DEF AppInv, Owned, Starting, Actors
    <3>4. create[b].id <= id /\ create[b].id <= glob.lastApp
      BY <1>1, <2>2, <2>4, <3>1 DEF AppInv, Owned, Starting
    <3> QED BY <1>4, <1>5, <2>1, <2>2, <2>4, <3>1, <3>2, <3>3, <3>4
          DEF AppInv, Owned, Starting
  <2> QED BY <2>3, <2>4
<1>8. Ending'
  <2>1. \A i \in job.queue : SlotOf(i) # s0
    BY <1>1, Places DEF AppInv, Owned, Ending, IsMatch
  <2>2. CASE a = "cmd" /\ job' = job
    <3>1. OnJob => JobSlot # s0 /\ job.id \in Nat /\ JobSlot \in Slots
      BY <1>1, Places DEF AppInv, Owned, Ending
    <3>2. OnJob => job.id <= id
      BY <1>1, <3>1 DEF AppInv, Owned, Ending
    <3> QED BY <1>4, <1>5, <2>1, <2>2, <3>1, <3>2, Places
          DEF AppInv, Owned, Ending, OnJob, JobSlot, IsMatch
  <2>3. CASE ~(a = "cmd" /\ job' = job)
    BY <1>4, <2>1, <2>3, Places DEF AppInv, Owned, Ending, OnJob, IsMatch
  <2> QED BY <2>2, <2>3
<1>9. ReservedFor'
  <2> SUFFICES ASSUME NEW s \in Slots, app'[s].id = RESERVED
               PROVE  \/ \E b \in Actors : Busy(b)' /\ CreateSlot(b)' = s
                      \/ job'.pc \in CleanUp /\ JobSlot' = s
    BY DEF ReservedFor
  <2>1. CASE s = s0
    BY <1>5, <2>1 DEF Busy, CreateSlot, s0
  <2>2. CASE s # s0
    <3>1. app[s].id = RESERVED
      BY <1>4, <2>2
    <3>2. CASE \E b \in Actors : Busy(b) /\ CreateSlot(b) = s
      BY <1>5, <3>2 DEF Busy, CreateSlot
    <3>3. CASE job.pc \in CleanUp /\ JobSlot = s
      BY <3>3 DEF CleanUp, JobSlot
    <3> QED BY <3>1, <3>2, <3>3 DEF AppInv, Owned, ReservedFor
  <2> QED BY <2>1, <2>2
<1>10. Named'
  BY <1>3, <1>4 DEF AppInv, Owned, Named, Used
<1>11. Wanted'
  BY <1>3, <1>4, Places DEF AppInv, Owned, Wanted, Live
<1>12. RequestHonoured'
  <2>1. OnJob => JobSlot # s0 /\ JobSlot \in Slots
    BY <1>1, Places DEF AppInv, Owned, Ending
  <2>2. \A s \in Slots : Live(s)' /\ asked'[s] # "none" => app'[s].req = asked'[s]
    BY <1>3, <1>4, Places DEF AppInv, Owned, RequestHonoured, Live
  <2>3. OnJob' /\ asked'[JobSlot'] # "none" => job'.req = asked'[JobSlot']
    BY <1>4, <2>1 DEF AppInv, Owned, RequestHonoured, OnJob, JobSlot
  <2> QED BY <2>2, <2>3 DEF RequestHonoured, OnJob, JobSlot
<1> QED BY <1>6, <1>7, <1>8, <1>9, <1>10, <1>11, <1>12 DEF Owned

LEMMA CreatedOwned ==
  ASSUME AppInv, NEW a \in Actors, AppCreatePublish(a) \/ AppCreateFail(a)
  PROVE  Owned'
<1> DEFINE s0 == CreateSlot(a)
<1>1. /\ Busy(a) /\ create[a].id \in AppSerials /\ s0 \in Slots
      /\ create[a].id <= glob.lastApp
      /\ app[s0].id = RESERVED /\ app[s0].name \in Names
      /\ app[s0].state = UNDEFINED /\ app[s0].req = "RUN" /\ asked[s0] = "none"
      /\ \A b \in Actors : Busy(b) /\ CreateSlot(b) = s0 => a = b
  BY Places DEF AppCreatePublish, AppCreateFail, AppInv, Owned, Starting, Busy, Named, Used
<1>2. /\ \A s \in Slots : s # s0 => app'[s] = app[s]
      /\ app'[s0].id \in {create[a].id, FREE} /\ app'[s0].name = app[s0].name
      /\ app'[s0].state = app[s0].state /\ app'[s0].req = app[s0].req
      /\ asked' = asked /\ job' = job /\ glob'.lastApp = glob.lastApp /\ loaded' = loaded
      /\ create'[a].pc = "idle" /\ \A b \in Actors : b # a => create'[b] = create[b]
  BY <1>1 DEF AppCreatePublish, AppCreateFail, AppInv, Typed, AppRecord, CreateSlot, Idle
<1>3. SlotOf(create[a].id) = s0
  BY DEF CreateSlot
<1>4. \A b \in Actors : Busy(b)' => b # a /\ Busy(b) /\ CreateSlot(b)' = CreateSlot(b)
                                    /\ CreateSlot(b) # s0 /\ CreateSlot(b) \in Slots
  BY <1>1, <1>2, Places DEF Busy, CreateSlot
<1>5. OnJob => JobSlot # s0 /\ JobSlot \in Slots
  BY <1>1, Places DEF AppInv, Owned, Ending, UNDEFINED, RUNNING
<1>6. \A i \in job.queue : SlotOf(i) # s0 /\ SlotOf(i) \in Slots
  BY <1>1, Places DEF AppInv, Owned, Ending, IsMatch
<1> HIDE DEF s0
<1>7. Lead'
  BY <1>1, <1>2, <1>3, Places DEF AppInv, Owned, Lead, Live
<1>8. Starting'
  <2> SUFFICES ASSUME NEW b \in Actors, Busy(b)'
               PROVE  /\ create'[b].id <= glob'.lastApp
                      /\ app'[CreateSlot(b)'].id = RESERVED
                      /\ app'[CreateSlot(b)'].name = create'[b].name
                      /\ app'[CreateSlot(b)'].state = UNDEFINED
                      /\ app'[CreateSlot(b)'].req = "RUN" /\ asked'[CreateSlot(b)'] = "none"
                      /\ \A c \in Actors : Busy(c)' /\ CreateSlot(c)' = CreateSlot(b)' => b = c
                      /\ b = "bg" => job'.pc \in {"idle", "next"}
    BY DEF Starting
  <2> QED BY <1>2, <1>4 DEF AppInv, Owned, Starting
<1>9. Ending'
  BY <1>2, <1>5, <1>6 DEF AppInv, Owned, Ending, OnJob, JobSlot, IsMatch
<1>10. ReservedFor'
  <2> SUFFICES ASSUME NEW s \in Slots, app'[s].id = RESERVED
               PROVE  \/ \E b \in Actors : Busy(b)' /\ CreateSlot(b)' = s
                      \/ job'.pc \in CleanUp /\ JobSlot' = s
    BY DEF ReservedFor
  <2>1. s # s0 /\ app[s].id = RESERVED
    BY <1>1, <1>2, Places
  <2>2. CASE \E b \in Actors : Busy(b) /\ CreateSlot(b) = s
    BY <1>2, <2>1, <2>2 DEF Busy, CreateSlot, s0
  <2>3. CASE job.pc \in CleanUp /\ JobSlot = s
    BY <1>2, <2>3 DEF CleanUp, JobSlot
  <2> QED BY <2>1, <2>2, <2>3 DEF AppInv, Owned, ReservedFor
<1>11. Named'
  BY <1>1, <1>2 DEF AppInv, Owned, Named, Used
<1>12. Wanted'
  BY <1>1, <1>2, Places DEF AppInv, Owned, Wanted, Live, UNDEFINED, RUNNING
<1>13. RequestHonoured'
  <2>1. \A s \in Slots : Live(s)' /\ asked'[s] # "none" => app'[s].req = asked'[s]
    BY <1>1, <1>2, Places DEF AppInv, Owned, RequestHonoured, Live
  <2> QED BY <1>2, <2>1 DEF AppInv, Owned, RequestHonoured
<1> QED BY <1>7, <1>8, <1>9, <1>10, <1>11, <1>12, <1>13 DEF Owned

(* Steps that change only the state and the request of one record that is   *)
(* not waiting for a clean-up to begin, or that its own task exits.         *)
LEMMA RecordOwned ==
  ASSUME AppInv, NEW s0 \in Slots,
         \A s \in Slots : /\ app'[s].id = app[s].id /\ app'[s].name = app[s].name
                          /\ s # s0 => app'[s].state = app[s].state /\ app'[s].req = app[s].req,
         app[s0].id # RESERVED,
         app[s0].state > RUNNING => app'[s0].state > RUNNING /\ app'[s0].req = app[s0].req,
         Live(s0) /\ app'[s0].state > RUNNING => app'[s0].req # "RUN",
         \A s \in Slots : s # s0 => asked'[s] = asked[s],
         Live(s0) /\ asked'[s0] # "none" => app'[s0].req = asked'[s0],
         OnJob /\ JobSlot = s0 => asked'[s0] = asked[s0],
         glob' = glob, create' = create, job' = job, loaded' = loaded
  PROVE  Owned'
<1>1. Lead' /\ Wanted' /\ Named'
  BY Places DEF AppInv, Owned, Lead, Wanted, Named, Live, Used
<1>2. Starting'
  <2>1. \A a \in Actors : Busy(a) => CreateSlot(a) # s0 /\ CreateSlot(a) \in Slots
    BY Places DEF AppInv, Owned, Starting
  <2> QED BY <2>1 DEF AppInv, Owned, Starting, Busy, CreateSlot
<1>3. Ending'
  BY Places DEF AppInv, Owned, Ending, OnJob, JobSlot, IsMatch
<1>4. ReservedFor'
  BY DEF AppInv, Owned, ReservedFor, Busy, CreateSlot, JobSlot
<1>5. RequestHonoured'
  <2>1. \A s \in Slots : Live(s)' /\ asked'[s] # "none" => app'[s].req = asked'[s]
    BY DEF AppInv, Owned, RequestHonoured, Live
  <2>2. OnJob => asked'[JobSlot] = asked[JobSlot]
    BY Places
  <2> QED BY <2>1, <2>2 DEF AppInv, Owned, RequestHonoured, OnJob, JobSlot
<1> QED BY <1>1, <1>2, <1>3, <1>4, <1>5 DEF Owned

LEMMA ControlOwned ==
  ASSUME AppInv, NEW r \in Requests, ControlApp(r)
  PROVE  Owned'
<1> DEFINE s0 == SlotOf(ask)
<1>1. /\ ask \in AppSerials /\ s0 \in Slots /\ app[s0].state = RUNNING
      /\ app' = [app EXCEPT ![s0].req = r] /\ asked' = [asked EXCEPT ![s0] = r]
      /\ glob' = glob /\ create' = create /\ job' = job /\ loaded' = loaded
  BY SlotTyped, BoundsAssumption DEF ControlApp, Accepts, AppInv, Typed
<1> HIDE DEF s0
<1>2. app[s0].id # RESERVED
  <2>1. \A a \in Actors : Busy(a) => CreateSlot(a) # s0
    BY <1>1 DEF AppInv, Owned, Starting, UNDEFINED, RUNNING
  <2>2. job.pc \in CleanUp => JobSlot # s0
    BY <1>1 DEF AppInv, Owned, Ending, OnJob, CleanUp, RUNNING
  <2> QED BY <1>1, <2>1, <2>2 DEF AppInv, Owned, ReservedFor
<1>3. ~(OnJob /\ JobSlot = s0)
  BY <1>1 DEF AppInv, Owned, Ending, RUNNING
<1>4. /\ \A s \in Slots : /\ app'[s].id = app[s].id /\ app'[s].name = app[s].name
                          /\ app'[s].state = app[s].state
                          /\ s # s0 => app'[s].req = app[s].req /\ asked'[s] = asked[s]
      /\ app'[s0].req = r /\ asked'[s0] = r
  BY <1>1 DEF AppInv, Typed, AppRecord
<1>5. ~(app[s0].state > RUNNING)
  BY <1>1 DEF RUNNING
<1> QED BY <1>1, <1>2, <1>3, <1>4, <1>5, RecordOwned

LEMMA ReportOwned ==
  ASSUME AppInv, NEW t \in Threads, NEW st \in {EARLY_INIT, LATE_INIT, RUNNING},
         ReportState(t, st)
  PROVE  Owned'
<1> DEFINE s0 == SlotOf(MyApp(t))
<1>1. s0 \in Slots /\ MyApp(t) \in AppSerials /\ app[s0].id = MyApp(t)
  BY OwnApp DEF ReportState, AppInv
<1>2. /\ app' = [app EXCEPT ![s0].state = Raised(s0, st)]
      /\ asked' = asked /\ glob' = glob /\ create' = create /\ job' = job /\ loaded' = loaded
  BY DEF ReportState
<1> HIDE DEF s0
<1>3. /\ \A s \in Slots : /\ app'[s].id = app[s].id /\ app'[s].name = app[s].name
                          /\ app'[s].req = app[s].req
                          /\ s # s0 => app'[s].state = app[s].state
      /\ app'[s0].state = Raised(s0, st)
  BY <1>1, <1>2 DEF AppInv, Typed, AppRecord
<1>4. (app'[s0].state > RUNNING) <=> (app[s0].state > RUNNING)
  BY <1>1, <1>3 DEF Raised, AppInv, Typed, AppRecord, EARLY_INIT, LATE_INIT, RUNNING,
     UNDEFINED, STOPPED
<1> QED BY <1>1, <1>2, <1>3, <1>4, Places, RecordOwned DEF AppInv, Owned, Wanted, RequestHonoured

LEMMA ExitOwned ==
  ASSUME AppInv, NEW t \in Threads, NEW status \in ExitStatus, ExitApp(t, status)
  PROVE  Owned'
<1> DEFINE s0 == SlotOf(MyApp(t))
<1>1. s0 \in Slots /\ MyApp(t) \in AppSerials /\ app[s0].id = MyApp(t)
  BY OwnApp DEF ExitApp, AppInv
<1>2. /\ app' = [app EXCEPT ![s0].req = ExitRequest(s0, status), ![s0].state = STOPPED]
      /\ asked' = asked /\ glob' = glob /\ create' = create /\ job' = job /\ loaded' = loaded
  BY DEF ExitApp
<1> HIDE DEF s0
<1>3. /\ \A s \in Slots : /\ app'[s].id = app[s].id /\ app'[s].name = app[s].name
                          /\ s # s0 => app'[s].state = app[s].state /\ app'[s].req = app[s].req
      /\ app'[s0].req = ExitRequest(s0, status)
      /\ app'[s0].state = STOPPED
  BY <1>1, <1>2 DEF AppInv, Typed, AppRecord
<1>4. /\ ExitRequest(s0, status) # "RUN"
      /\ app[s0].req # "RUN" => ExitRequest(s0, status) = app[s0].req
      /\ STOPPED > RUNNING
  BY DEF ExitRequest, ExitStatus, STOPPED, RUNNING
<1>5. Live(s0) /\ (app[s0].state > RUNNING => app[s0].req # "RUN")
      /\ (asked[s0] # "none" => app[s0].req = asked[s0])
      /\ app[s0].id # RESERVED /\ asked[s0] \in {"none"} \union Requests
  BY <1>1, Places DEF AppInv, Typed, Owned, Wanted, RequestHonoured, Live
<1>6. asked[s0] # "none" => app[s0].req # "RUN"
  BY <1>5 DEF Requests
<1> QED BY <1>1, <1>2, <1>3, <1>4, <1>5, <1>6, RecordOwned

(* The scan takes an application down only if somebody wants it, and puts   *)
(* only records with a published ID on the list.                            *)
LEMMA LeavingLive ==
  ASSUME AppInv, job.pc = "idle", NEW s \in Slots, Leaving(s)
  PROVE  app[s].id \in AppSerials /\ Live(s)
<1>1. app[s].id # RESERVED
  <2>1. \A a \in Actors : Busy(a) => CreateSlot(a) # s
    BY DEF AppInv, Owned, Starting, Leaving, UNDEFINED, RUNNING
  <2> QED BY <2>1 DEF AppInv, Owned, ReservedFor, CleanUp
<1> QED BY <1>1, Places DEF AppInv, Typed, AppRecord, Leaving, Used

LEMMA ScanOwned ==
  ASSUME AppInv, NEW e \in Delays, RunAppTableScan(e)
  PROVE  Owned'
<1> DEFINE out == {app[s].id : s \in {r \in Slots : TimedOut(r, e)}}
<1>0. job.pc = "idle" /\ job.queue = {} /\ create["bg"].pc = "idle"
  BY DEF RunAppTableScan, BackgroundIdle, AppInv, Owned, Ending
<1>1. /\ job' = [job EXCEPT !.pc = IF out = {} THEN "idle" ELSE "next", !.queue = out]
      /\ asked' = asked /\ glob' = glob /\ create' = create /\ loaded' = loaded
      /\ \A s \in Slots : app'[s] = Scanned(s, e)
  BY DEF RunAppTableScan
<1>2. \A i \in out : \E s \in Slots : Leaving(s) /\ app[s].id = i
  BY DEF TimedOut
<1> HIDE DEF out
<1>3. /\ job'.pc \in {"idle", "next"} /\ job'.queue = out /\ (job'.pc = "idle" => out = {})
  BY <1>1 DEF AppInv, Typed, JobRecord
<1>4. \A s \in Slots : /\ app'[s].id = app[s].id /\ app'[s].name = app[s].name
                       /\ app'[s].req = app[s].req
                       /\ app'[s].state # app[s].state =>
                            Used(s) /\ app[s].state = RUNNING /\ app[s].req # "RUN"
                              /\ app'[s].state = WAITING
  <2> TAKE s \in Slots
  <2>1. app[s] \in AppRecord /\ app'[s] = Scanned(s, e)
    BY <1>1 DEF AppInv, Typed
  <2>2. CASE Leaving(s)
    <3>1. app'[s] = [app[s] EXCEPT !.timer = IF TimedOut(s, e) THEN 0 ELSE @ - e]
      BY <2>1, <2>2 DEF Scanned
    <3> QED BY <2>1, <3>1 DEF AppRecord
  <2>3. CASE ~Leaving(s) /\ Requested(s)
    <3>1. app'[s] = [app[s] EXCEPT !.state = WAITING, !.timer = KillTime]
      BY <2>1, <2>3 DEF Scanned, KillTime
    <3> QED BY <2>1, <2>3, <3>1 DEF AppRecord, Requested
  <2>4. CASE ~Leaving(s) /\ ~Requested(s)
    BY <2>1, <2>4 DEF Scanned
  <2> QED BY <2>2, <2>3, <2>4
<1>5. WAITING > RUNNING /\ RUNNING # UNDEFINED
  BY DEF WAITING, RUNNING, UNDEFINED
<1>6. Lead' /\ Named'
  BY <1>0, <1>1, <1>3, <1>4 DEF AppInv, Owned, Lead, Named, Live, Used
<1>7. Wanted'
  BY <1>4 DEF AppInv, Owned, Wanted, Live
<1>8. Starting'
  <2>1. \A a \in Actors : Busy(a) => app'[CreateSlot(a)].state = UNDEFINED
    BY <1>4, <1>5, Places DEF AppInv, Owned, Starting
  <2> QED BY <1>1, <1>3, <1>4, <2>1, Places DEF AppInv, Owned, Starting, Busy, CreateSlot
<1>9. Ending'
  <2>1. \A i \in out : IsMatch(i)' /\ app'[SlotOf(i)].state > RUNNING
    <3> TAKE i \in out
    <3>1. PICK s \in Slots : Leaving(s) /\ app[s].id = i
      BY <1>2
    <3>2. SlotOf(i) = s
      BY <1>0, <3>1, LeavingLive DEF AppInv, Owned, Lead
    <3> QED BY <1>4, <1>5, <3>1, <3>2 DEF IsMatch, Leaving
  <2> QED BY <1>3, <2>1 DEF Ending, OnJob
<1>10. ReservedFor'
  BY <1>0, <1>1, <1>4 DEF AppInv, Owned, ReservedFor, Busy, CreateSlot, CleanUp
<1>11. RequestHonoured'
  BY <1>1, <1>3, <1>4 DEF AppInv, Owned, RequestHonoured, Live
<1> QED BY <1>6, <1>7, <1>8, <1>9, <1>10, <1>11 DEF Owned

LEMMA SnapshotOwned ==
  ASSUME AppInv, ProcessControlRequest
  PROVE  Owned'
<1>1. PICK i \in job.queue :
          job' = [job EXCEPT !.pc = "begin", !.queue = @ \ {i}, !.id = i,
                       !.req = app[SlotOf(i)].req, !.name = app[SlotOf(i)].name]
  BY DEF ProcessControlRequest
<1>2. /\ i \in AppSerials /\ SlotOf(i) \in Slots /\ IsMatch(i) /\ app[SlotOf(i)].state > RUNNING
      /\ i <= glob.lastApp
  BY <1>1, Places DEF AppInv, Owned, Ending, Lead, IsMatch
<1>3. /\ job'.pc = "begin" /\ job'.queue = job.queue \ {i} /\ job'.id = i
      /\ job'.req = app[SlotOf(i)].req /\ job'.name = app[SlotOf(i)].name
  BY <1>1 DEF AppInv, Typed, JobRecord
<1>4. /\ app' = app /\ asked' = asked /\ glob' = glob /\ create' = create /\ loaded' = loaded
      /\ job.pc = "next" /\ create["bg"].pc = "idle"
  BY DEF ProcessControlRequest
<1>5. Lead' /\ Named' /\ Wanted'
  BY <1>3, <1>4 DEF AppInv, Owned, Lead, Named, Wanted, Live, Used
<1>6. Starting'
  BY <1>4 DEF AppInv, Owned, Starting, Busy, CreateSlot
<1>7. Ending'
  BY <1>2, <1>3, <1>4 DEF AppInv, Owned, Ending, OnJob, JobSlot, IsMatch
<1>8. ReservedFor'
  BY <1>4 DEF AppInv, Owned, ReservedFor, Busy, CreateSlot, CleanUp
<1>9. RequestHonoured'
  <2>1. app[SlotOf(i)].id \in AppSerials /\ Live(SlotOf(i))
    BY <1>2, Places DEF IsMatch
  <2> QED BY <1>2, <1>3, <1>4, <2>1 DEF AppInv, Owned, RequestHonoured, Live
<1> QED BY <1>5, <1>6, <1>7, <1>8, <1>9 DEF Owned

LEMMA BeginOwned ==
  ASSUME AppInv, CleanUpBegin
  PROVE  Owned'
<1>1. /\ OnJob /\ job.pc = "begin" /\ JobSlot \in Slots /\ job.id \in AppSerials
      /\ app[JobSlot].id = job.id /\ Used(JobSlot)
  BY Places DEF CleanUpBegin, OnJob, AppInv, Owned, Ending, Used
<1>2. /\ app' = [app EXCEPT ![JobSlot].id = RESERVED]
      /\ job' = [job EXCEPT !.pc = "tasks", !.tasks = {task[k].id : k \in TaskList(job.id)}]
      /\ asked' = asked /\ create' = create /\ loaded' = loaded
  BY DEF CleanUpBegin, JobSlot
<1>3. glob'.lastApp = glob.lastApp
  BY DEF CleanUpBegin, AppInv, Typed
<1>4. /\ job'.pc = "tasks" /\ job'.queue = job.queue /\ job'.id = job.id
      /\ job'.req = job.req /\ job'.name = job.name
  BY <1>2 DEF AppInv, Typed, JobRecord
<1>5. /\ \A s \in Slots : /\ app'[s].name = app[s].name /\ app'[s].state = app[s].state
                          /\ app'[s].req = app[s].req
                          /\ s # JobSlot => app'[s].id = app[s].id
      /\ app'[JobSlot].id = RESERVED
  BY <1>1, <1>2 DEF AppInv, Typed, AppRecord
<1>6. \A a \in Actors : Busy(a) => CreateSlot(a) # JobSlot /\ CreateSlot(a) \in Slots
  BY <1>1, Places DEF AppInv, Owned, Starting
<1>7. \A i \in job.queue : SlotOf(i) # JobSlot /\ SlotOf(i) \in Slots
  BY <1>1, Places DEF AppInv, Owned, Ending, IsMatch
<1>8. JobSlot' = JobSlot
  BY <1>4 DEF JobSlot
<1>9. Lead' /\ Named' /\ Wanted'
  BY <1>1, <1>2, <1>3, <1>4, <1>5, Places DEF AppInv, Owned, Lead, Named, Wanted, Live, Used
<1>10. Starting'
  <2>1. create["bg"].pc = "idle"
    BY <1>1 DEF AppInv, Owned, Starting, Busy, Actors
  <2> QED BY <1>2, <1>3, <1>5, <1>6, <2>1 DEF AppInv, Owned, Starting, Busy, CreateSlot
<1>11. Ending'
  BY <1>1, <1>3, <1>4, <1>5, <1>7, <1>8 DEF AppInv, Owned, Ending, OnJob, IsMatch
<1>12. ReservedFor'
  <2> SUFFICES ASSUME NEW s \in Slots, app'[s].id = RESERVED
               PROVE  \/ \E b \in Actors : Busy(b)' /\ CreateSlot(b)' = s
                      \/ job'.pc \in CleanUp /\ JobSlot' = s
    BY DEF ReservedFor
  <2>1. CASE s = JobSlot
    BY <1>4, <1>8, <2>1 DEF CleanUp
  <2>2. CASE s # JobSlot
    BY <1>1, <1>2, <1>5, <2>2 DEF AppInv, Owned, ReservedFor, Busy, CreateSlot, CleanUp
  <2> QED BY <2>1, <2>2
<1>13. RequestHonoured'
  <2>1. \A s \in Slots : Live(s)' /\ asked'[s] # "none" => app'[s].req = asked'[s]
    BY <1>2, <1>5, Places DEF AppInv, Owned, RequestHonoured, Live
  <2> QED BY <1>1, <1>2, <1>4, <1>8, <2>1 DEF AppInv, Owned, RequestHonoured, JobSlot
<1> QED BY <1>9, <1>10, <1>11, <1>12, <1>13 DEF Owned

LEMMA EndOwned ==
  ASSUME AppInv, CleanUpEnd
  PROVE  Owned'
<1>1. /\ OnJob /\ job.pc = "free" /\ JobSlot \in Slots /\ job.id \in AppSerials
      /\ app[JobSlot].id = RESERVED /\ app[JobSlot].state > RUNNING
      /\ app[JobSlot].name = job.name /\ app[JobSlot].name \in Names
  BY Places DEF CleanUpEnd, OnJob, AppInv, Owned, Ending, Named, Used
<1>2. /\ app' = [app EXCEPT ![JobSlot].id = FREE]
      /\ job' = IF Restarts THEN [job EXCEPT !.pc = "restart"] ELSE JobDone
      /\ asked' = asked /\ create' = create /\ loaded' = loaded /\ glob' = glob
  BY DEF CleanUpEnd, JobSlot
<1>3. /\ job'.pc \in {"restart", "idle", "next"} /\ job'.queue = job.queue
      /\ job'.pc = "restart" => job'.name = job.name
      /\ job'.pc = "idle" => job'.queue = {}
  BY <1>2 DEF AppInv, Typed, JobRecord, JobDone, NoJob
<1>4. /\ \A s \in Slots : /\ app'[s].name = app[s].name /\ app'[s].state = app[s].state
                          /\ app'[s].req = app[s].req
                          /\ s # JobSlot => app'[s].id = app[s].id
      /\ app'[JobSlot].id = FREE
  BY <1>1, <1>2 DEF AppInv, Typed, AppRecord
<1>5. /\ create["bg"].pc = "idle"
      /\ \A a \in Actors : Busy(a) => CreateSlot(a) # JobSlot /\ CreateSlot(a) \in Slots
  BY <1>1, Places DEF AppInv, Owned, Starting, Busy, Actors, UNDEFINED, RUNNING
<1>6. \A i \in job.queue : SlotOf(i) # JobSlot /\ SlotOf(i) \in Slots
  BY <1>1, Places DEF AppInv, Owned, Ending, IsMatch
<1>7. Lead' /\ Named' /\ Wanted'
  BY <1>1, <1>2, <1>3, <1>4, Places DEF AppInv, Owned, Lead, Named, Wanted, Live, Used
<1>8. Starting'
  BY <1>2, <1>4, <1>5 DEF AppInv, Owned, Starting, Busy, CreateSlot
<1>9. Ending'
  BY <1>3, <1>4, <1>6 DEF AppInv, Owned, Ending, OnJob, IsMatch
<1>10. ReservedFor'
  BY <1>2, <1>4, Places DEF AppInv, Owned, ReservedFor, Busy, CreateSlot, CleanUp
<1>11. RequestHonoured'
  BY <1>2, <1>3, <1>4, Places DEF AppInv, Owned, RequestHonoured, Live
<1> QED BY <1>7, <1>8, <1>9, <1>10, <1>11 DEF Owned

-----------------------------------------------------------------------------
LEMMA InitOwned == Init => Owned
<1> SUFFICES ASSUME Init PROVE Owned
  OBVIOUS
<1>1. /\ \A s \in Slots : app[s].id = FREE
      /\ \A a \in Actors : create[a].pc = "idle"
      /\ job.pc = "idle" /\ job.queue = {} /\ loaded = {}
  BY DEF Init, EmptyApp, Idle, NoJob
<1> QED BY <1>1, BoundsAssumption DEF Owned, Lead, Starting, Ending, ReservedFor, Named,
        Wanted, RequestHonoured, Live, Used, Busy, OnJob, CleanUp

LEMMA CreationUndisturbed ==
  ASSUME AppInv, NEW a \in Actors,
         LoadModule(a) \/ CreateMainTask(a) \/ RecordMainTask(a)
  PROVE  Undisturbed
<1>0. create[a] \in CreateRecord /\ loaded \subseteq Names /\ glob.lastApp \in Nat
  BY Bounds DEF AppInv, Typed, Owned, Named
<1>1. CASE LoadModule(a)
  <2>1. create[a].name \in Names
    BY <1>1, Places DEF LoadModule, AppInv, Owned, Starting, Named, Busy, Used
  <2>2. loaded' \subseteq Names
    BY <1>0, <1>1, <2>1 DEF LoadModule
  <2>3. \A b \in Actors : /\ create'[b].pc = "idle" <=> create[b].pc = "idle"
                          /\ create'[b].id = create[b].id /\ create'[b].name = create[b].name
    BY <1>0, <1>1 DEF LoadModule, Goto, AppInv, Typed, CreateRecord
  <2>4. app' = app /\ asked' = asked /\ glob' = glob /\ job' = job
    BY <1>1 DEF LoadModule
  <2> QED BY <2>2, <2>3, <2>4 DEF Undisturbed
<1>2. CASE CreateMainTask(a)
  <2>1. \A b \in Actors : /\ create'[b].pc = "idle" <=> create[b].pc = "idle"
                          /\ create'[b].id = create[b].id /\ create'[b].name = create[b].name
    <3>1. \/ create' = [create EXCEPT ![a].pc = "record", ![a].t = NewTask]
          \/ create' = [create EXCEPT ![a].pc = "fail"]
      BY <1>2 DEF CreateMainTask, Goto
    <3>2. create[a].pc = "main"
      BY <1>2 DEF CreateMainTask
    <3>3. \E r : /\ r.pc \in {"record", "fail"} /\ r.id = create[a].id
                 /\ r.name = create[a].name /\ create' = [create EXCEPT ![a] = r]
      <4>1. CASE create' = [create EXCEPT ![a].pc = "record", ![a].t = NewTask]
        <5> DEFINE r == [create[a] EXCEPT !.pc = "record", !.t = NewTask]
        <5>1. create' = [create EXCEPT ![a] = r]
          BY <4>1 DEF AppInv, Typed
        <5>2. r.pc = "record" /\ r.id = create[a].id /\ r.name = create[a].name
          BY <1>0 DEF CreateRecord
        <5> QED BY <5>1, <5>2
      <4>2. CASE create' = [create EXCEPT ![a].pc = "fail"]
        <5> DEFINE r == [create[a] EXCEPT !.pc = "fail"]
        <5>1. create' = [create EXCEPT ![a] = r]
          BY <4>2
        <5>2. r.pc = "fail" /\ r.id = create[a].id /\ r.name = create[a].name
          BY <1>0 DEF CreateRecord
        <5> QED BY <5>1, <5>2
      <4> QED BY <3>1, <4>1, <4>2
    <3> QED BY <3>2, <3>3 DEF AppInv, Typed
  <2>2. glob'.lastApp = glob.lastApp
    BY <1>2 DEF CreateMainTask, AppInv, Typed
  <2> QED BY <1>0, <1>2, <2>1, <2>2 DEF CreateMainTask, Undisturbed
<1>3. CASE RecordMainTask(a)
  <2>1. \A b \in Actors : /\ create'[b].pc = "idle" <=> create[b].pc = "idle"
                          /\ create'[b].id = create[b].id /\ create'[b].name = create[b].name
    BY <1>0, <1>3 DEF RecordMainTask, Goto, AppInv, Typed, CreateRecord
  <2>2. glob'.lastApp = glob.lastApp
    BY <1>3 DEF RecordMainTask, AppInv, Typed
  <2>3. \A s \in Slots : /\ app'[s].id = app[s].id /\ app'[s].name = app[s].name
                         /\ app'[s].state = app[s].state /\ app'[s].req = app[s].req
    BY <1>3 DEF RecordMainTask, AppInv, Typed, AppRecord
  <2>4. asked' = asked /\ loaded' = loaded /\ job' = job
    BY <1>3 DEF RecordMainTask
  <2> QED BY <1>0, <2>1, <2>2, <2>3, <2>4 DEF Undisturbed
<1> QED BY <1>1, <1>2, <1>3

LEMMA CreationOwned ==
  ASSUME AppInv, NEW a \in Actors, Creation(a)
  PROVE  Owned'
  BY CreationUndisturbed, QuietOwned, CreatedOwned DEF Creation

LEMMA SameUndisturbed ==
  ASSUME AppInv, UNCHANGED <<app, asked, create, job, loaded>>, glob'.lastApp = glob.lastApp
  PROVE  Undisturbed
  BY DEF AppInv, Owned, Named, Undisturbed

LEMMA SameOwned ==
  ASSUME AppInv, UNCHANGED <<app, asked, create, job, loaded>>, glob'.lastApp = glob.lastApp
  PROVE  Owned'
  BY SameUndisturbed, QuietOwned

(* Within a clean-up, the steps between its two locked sections. *)
LEMMA CleanUpUndisturbed ==
  ASSUME AppInv, (\E t \in job.tasks : CleanupTaskResources(t)) \/ UnloadModule
  PROVE  Undisturbed
<1>0. job \in JobRecord /\ loaded \subseteq Names
  BY DEF AppInv, Typed, Owned, Named
<1>1. ASSUME NEW t \in job.tasks, CleanupTaskResources(t) PROVE Undisturbed
  <2>1. job'.pc = job.pc /\ job'.queue = job.queue /\ job'.id = job.id
        /\ job'.req = job.req /\ job'.name = job.name
    BY <1>0, <1>1 DEF CleanupTaskResources, JobRecord
  <2> QED BY <1>0, <1>1, <2>1 DEF CleanupTaskResources, Undisturbed
<1>2. CASE UnloadModule
  <2>1. job'.pc = "free" /\ job.pc = "tasks" /\ job'.queue = job.queue /\ job'.id = job.id
        /\ job'.req = job.req /\ job'.name = job.name
    BY <1>0, <1>2 DEF UnloadModule, JobRecord
  <2> QED BY <1>0, <1>2, <2>1 DEF Undisturbed, UnloadModule, Unloaded
<1> QED BY <1>1, <1>2

LEMMA CommandOwned ==
  ASSUME AppInv, Command
  PROVE  Owned'
<1>1. ASSUME NEW n \in Names, StartAppCmd(n) PROVE Owned'
  BY <1>1, ReserveOwned DEF StartAppCmd, CmdIdle, Busy, Actors
<1>2. ASSUME NEW n \in Names, GetAppIDByName(n) PROVE Owned'
  BY <1>2, SameOwned DEF GetAppIDByName
<1>3. ASSUME NEW r \in Requests, ControlApp(r) PROVE Owned'
  BY <1>3, ControlOwned
<1>4. ASSUME NEW r \in Requests, ControlAppRefused(r) PROVE Owned'
  BY <1>4, SameOwned DEF ControlAppRefused
<1> QED BY <1>1, <1>2, <1>3, <1>4 DEF Command

LEMMA BackgroundOwned ==
  ASSUME AppInv, Background
  PROVE  Owned'
<1>0. job \in JobRecord /\ loaded \subseteq Names
  BY DEF AppInv, Typed, Owned, Named
<1>1. ASSUME NEW e \in Delays, SkipScan(e) PROVE Owned'
  BY <1>1, SameOwned DEF SkipScan
<1>2. CASE (\E t \in job.tasks : CleanupTaskResources(t)) \/ UnloadModule
  BY <1>2, CleanUpUndisturbed, QuietOwned
<1>4. CASE RestartApp
  <2>1. /\ job.pc = "restart" /\ job'.pc \in {"idle", "next"} /\ job'.queue = job.queue
        /\ job'.pc = "idle" => job'.queue = {}
    BY <1>0, <1>4 DEF RestartApp, JobDone, NoJob, JobRecord
  <2>2. CASE AppCreateReserve("bg", job.name, FreeAppSlot)
    <3>1. job.name \in Names /\ ~Busy("bg") /\ "bg" \in Actors
      BY <2>1 DEF AppInv, Owned, Starting, Named, Actors
    <3> QED BY <1>4, <2>1, <2>2, <3>1, ReserveOwned DEF RestartApp
  <2>3. CASE UNCHANGED <<app, glob, create, asked, waited>>
    <3>1. Lead' /\ Named' /\ Wanted'
      BY <1>4, <2>1, <2>3 DEF RestartApp, AppInv, Owned, Lead, Named, Wanted, Live, Used
    <3>2. Starting'
      BY <2>1, <2>3 DEF AppInv, Owned, Starting, Busy, CreateSlot
    <3>3. Ending'
      BY <2>1, <2>3 DEF AppInv, Owned, Ending, OnJob, IsMatch
    <3>4. ReservedFor'
      BY <2>1, <2>3 DEF AppInv, Owned, ReservedFor, Busy, CreateSlot, CleanUp
    <3>5. RequestHonoured'
      BY <2>1, <2>3 DEF AppInv, Owned, RequestHonoured, Live
    <3> QED BY <3>1, <3>2, <3>3, <3>4, <3>5 DEF Owned
  <2> QED BY <1>4, <2>2, <2>3 DEF RestartApp
<1> QED BY <1>1, <1>2, <1>4, ScanOwned, SnapshotOwned, BeginOwned, EndOwned DEF Background

LEMMA ThreadOwned ==
  ASSUME AppInv, NEW t \in Threads, ThreadStep(t) \/ Call(t)
  PROVE  Owned'
<1>1. \/ \E st \in {EARLY_INIT, LATE_INIT, RUNNING} : ReportState(t, st)
      \/ \E status \in ExitStatus : ExitApp(t, status)
      \/ UNCHANGED <<app, asked, create, job, loaded>> /\ glob'.lastApp = glob.lastApp
  BY DEF ThreadStep, Call, Poll, CreateChildTask, CreateChildRecord, OS_TaskExit,
         CreateChildBegin, DeleteChildTask, ExitChildTask, AppInv, Typed
<1> QED BY <1>1, ReportOwned, ExitOwned, SameOwned

LEMMA NextInv ==
  ASSUME AppInv, [Next]_vars
  PROVE  AppInv'
<1>1. Typed /\ Placed /\ Owned
  BY DEF AppInv
<1>2. ASSUME NEW a \in Actors, Creation(a) PROVE AppInv'
  BY <1>1, <1>2, CreationTyped, CreationOwned DEF AppInv
<1>3. CASE Command
  BY <1>1, <1>3, CommandTyped, CommandOwned DEF AppInv
<1>4. CASE Background
  <2>1. job.pc = "idle" => \A s \in Slots : Leaving(s) => app[s].id \in AppSerials
    BY LeavingLive
  <2> QED BY <1>1, <1>4, <2>1, ScanTyped, CleanUpTyped, BackgroundOwned DEF AppInv, Background
<1>5. ASSUME NEW t \in Threads, ThreadStep(t) \/ Call(t) PROVE AppInv'
  BY <1>1, <1>5, ThreadStepTyped, CallTyped, ThreadOwned DEF AppInv
<1>6. CASE UNCHANGED vars
  <2>1. Typed' /\ Placed'
    BY <1>1, <1>6 DEF vars, Typed, Placed, Running
  <2>2. Owned'
    BY <1>6, SameOwned DEF vars
  <2> QED BY <2>1, <2>2 DEF AppInv
<1> QED BY <1>2, <1>3, <1>4, <1>5, <1>6 DEF Next

LEMMA AlwaysInv == Spec => []AppInv
<1>1. Init => AppInv
  BY InitTyped, InitOwned DEF AppInv
<1> QED BY <1>1, NextInv, PTL DEF Spec

-----------------------------------------------------------------------------
(* The background task acts on the request that was accepted last for an    *)
(* application, also when the application exits by itself before that.      *)
THEOREM RequestsHonoured == Spec => []RequestHonoured
<1>1. AppInv => RequestHonoured
  BY DEF AppInv, Owned
<1> QED BY <1>1, AlwaysInv, PTL

-----------------------------------------------------------------------------
(* What a step does to the life of an application. *)

Phase == [i \in AppSerials |-> LifeOf(i)]
Name == [i \in AppSerials |-> NameOf(i)]
WantedIds == {app[s].id : s \in {r \in Slots : Live(r) /\ app[r].req # "RUN"}}

(* Steps that keep every ID, name and request, lower no state, and neither  *)
(* begin nor end a creation or a clean-up.                                  *)
Uneventful ==
    /\ \A s \in Slots :
         /\ app'[s].id = app[s].id /\ app'[s].name = app[s].name
         /\ app'[s].state >= app[s].state
         /\ Live(s) => app'[s].req = app[s].req
    /\ glob'.lastApp = glob.lastApp
    /\ \A a \in Actors : /\ create'[a].pc = "idle" <=> create[a].pc = "idle"
                         /\ create'[a].id = create[a].id
    /\ job'.pc \in CleanUp <=> job.pc \in CleanUp
    /\ job.pc \in CleanUp => job'.id = job.id

LEMMA UneventfulLife ==
  ASSUME Uneventful
  PROVE  /\ Phase' = Phase /\ Name' = Name /\ WantedIds' = WantedIds
         /\ glob'.lastApp = glob.lastApp
<1>1. \A i \in AppSerials : SlotOf(i) \in Slots
  BY SlotTyped
<1>2. \A i \in AppSerials : /\ IsMatch(i)' <=> IsMatch(i)
                            /\ Creating(i)' <=> Creating(i)
                            /\ CleaningUp(i)' <=> CleaningUp(i)
  BY <1>1 DEF Uneventful, IsMatch, Creating, CleaningUp, CleanUp
<1>3. \A i \in AppSerials : LifeOf(i)' = LifeOf(i)
  BY <1>2 DEF LifeOf
<1>4. \A i \in AppSerials : NameOf(i)' = NameOf(i)
  BY <1>1, <1>3 DEF NameOf, Uneventful
<1>5. \A s \in Slots : app'[s].id = app[s].id /\ (Live(s) => app'[s].req = app[s].req)
  BY DEF Uneventful
<1>6. WantedIds' = WantedIds
  BY <1>5 DEF WantedIds, Live
<1> QED BY <1>3, <1>4, <1>6 DEF Phase, Name, Uneventful

(* An ID that is published is alive; one that is being created or cleaned   *)
(* up is not published.                                                     *)
LEMMA Lives ==
  ASSUME AppInv, NEW i \in AppSerials
  PROVE  /\ IsMatch(i) => LifeOf(i) = "alive" /\ ~Creating(i) /\ ~CleaningUp(i)
         /\ Creating(i) => LifeOf(i) = "starting" /\ ~CleaningUp(i)
         /\ CleaningUp(i) => LifeOf(i) = "leaving"
         /\ LifeOf(i) # "none" => Used(SlotOf(i)) /\ i <= glob.lastApp
         /\ LifeOf(i) # "none" => NameOf(i) = app[SlotOf(i)].name
         /\ LifeOf(i) = "none" => NameOf(i) = NoName
<1>1. SlotOf(i) \in Slots /\ i \in Nat /\ i # RESERVED /\ i # FREE /\ RESERVED # FREE
  BY SlotTyped, Places
<1>2. Creating(i) => app[SlotOf(i)].id = RESERVED /\ app[SlotOf(i)].state = UNDEFINED
                      /\ i <= glob.lastApp
  BY DEF AppInv, Owned, Starting, Creating, Busy, CreateSlot
<1>3. CleaningUp(i) => app[SlotOf(i)].id = RESERVED /\ app[SlotOf(i)].state > RUNNING
                      /\ i <= glob.lastApp
  BY DEF AppInv, Owned, Ending, CleaningUp, OnJob, JobSlot
<1>4. IsMatch(i) => app[SlotOf(i)].id = i /\ i <= glob.lastApp
  BY <1>1 DEF IsMatch, AppInv, Owned, Lead, Live
<1>5. ~(Creating(i) /\ CleaningUp(i))
  BY <1>2, <1>3 DEF UNDEFINED, RUNNING
<1> QED BY <1>1, <1>2, <1>3, <1>4, <1>5 DEF LifeOf, NameOf, Used

LEMMA PhaseChange ==
  ASSUME NEW i \in AppSerials, NEW v, NEW w,
         LifeOf(i)' = v, \A j \in AppSerials : j # i => LifeOf(j)' = LifeOf(j),
         NameOf(i)' = w, \A j \in AppSerials : j # i => NameOf(j)' = NameOf(j)
  PROVE  Phase' = [Phase EXCEPT ![i] = v] /\ Name' = [Name EXCEPT ![i] = w]
  BY DEF Phase, Name

LEMMA ReserveLife ==
  ASSUME AppInv, NEW a \in Actors, NEW n \in Names, NEW id, id = FreeAppSlot,
         AppCreateReserve(a, n, id), ~Busy(a),
         job' = job \/ (job.pc \notin CleanUp /\ job'.pc \notin CleanUp)
  PROVE  Promise!Start(id, n) /\ id \in AppSerials
<1> DEFINE s0 == SlotOf(id)
<1>1. /\ id \in AppSerials /\ id > glob.lastApp /\ app[s0].id = FREE /\ s0 \in Slots
      /\ glob.lastApp \in Nat /\ id \in Nat /\ Locate(n) = {}
  BY FreshApp, SlotTyped, Bounds DEF AppCreateReserve, AppInv, Typed
<1>2. /\ app' = [app EXCEPT ![s0] = [EmptyApp EXCEPT !.id = RESERVED, !.name = n]]
      /\ glob' = [glob EXCEPT !.lastApp = id]
      /\ create' = [create EXCEPT ![a] = [pc |-> "load", id |-> id, name |-> n, t |-> FREE]]
  BY DEF AppCreateReserve
<1>3. /\ app'[s0].id = RESERVED /\ app'[s0].name = n
      /\ \A s \in Slots : s # s0 => app'[s] = app[s]
      /\ create'[a].pc = "load" /\ create'[a].id = id
      /\ \A b \in Actors : b # a => create'[b] = create[b]
      /\ glob'.lastApp = id
  BY <1>1, <1>2 DEF AppInv, Typed, EmptyApp
<1>4. \A i \in AppSerials : SlotOf(i) \in Slots /\ i # RESERVED /\ i # FREE /\ i \in Nat
  BY Places, SlotTyped
<1>5. LifeOf(id) = "none"
  BY <1>1, Lives
<1>6. ASSUME NEW j \in AppSerials, j # id
      PROVE  LifeOf(j)' = LifeOf(j) /\ NameOf(j)' = NameOf(j)
  <2>1. IsMatch(j)' <=> IsMatch(j)
    BY <1>1, <1>3, <1>4 DEF IsMatch
  <2>2. Creating(j)' <=> Creating(j)
    BY <1>3, <1>6 DEF Creating, Busy
  <2>3. CleaningUp(j)' <=> CleaningUp(j)
    BY DEF CleaningUp, CleanUp
  <2>4. LifeOf(j)' = LifeOf(j)
    BY <2>1, <2>2, <2>3 DEF LifeOf
  <2>5. SlotOf(j) = s0 => LifeOf(j) = "none"
    BY <1>1, Lives DEF Used
  <2>6. SlotOf(j) # s0 => app'[SlotOf(j)].name = app[SlotOf(j)].name
    BY <1>3, <1>4
  <2> QED BY <2>4, <2>5, <2>6 DEF NameOf
<1>7. LifeOf(id)' = "starting" /\ NameOf(id)' = n
  <2>1. Creating(id)'
    BY <1>3 DEF Creating
  <2>2. ~IsMatch(id)'
    BY <1>1, <1>3, <1>4 DEF IsMatch
  <2> QED BY <1>3, <2>1, <2>2 DEF LifeOf, NameOf
<1>8. Phase' = [Phase EXCEPT ![id] = "starting"] /\ Name' = [Name EXCEPT ![id] = n]
  BY <1>1, <1>6, <1>7, PhaseChange
<1>9. WantedIds' = WantedIds
  <2>1. \A s \in Slots : /\ Live(s)' <=> Live(s)
                         /\ Live(s) => app'[s].id = app[s].id /\ app'[s].req = app[s].req
    BY <1>1, <1>3, Places DEF Live
  <2> QED BY <2>1 DEF WantedIds
<1>10. \A j \in AppSerials : LifeOf(j) # "none" => NameOf(j) # n
  <2> SUFFICES ASSUME NEW j \in AppSerials, LifeOf(j) # "none", app[SlotOf(j)].name = n
               PROVE  FALSE
    BY Lives
  <2>1. SlotOf(j) \in Slots /\ Used(SlotOf(j))
    BY <1>4, Lives
  <2> QED BY <1>1, <2>1 DEF Locate
<1>11. Promise!Start(id, n)
  <2>1. \A j \in Promise!Present : Name[j] # n
    BY <1>10 DEF Promise!Present, Name
  <2> QED BY <1>1, <1>3, <1>5, <1>8, <1>9, <2>1 DEF Promise!Start, Phase, Name, WantedIds
<1> QED BY <1>1, <1>11

LEMMA CreatedLife ==
  ASSUME AppInv, NEW a \in Actors, NEW id, id = create[a].id
  PROVE  /\ AppCreatePublish(a) => id \in AppSerials /\ Promise!Started(id)
         /\ AppCreateFail(a) => id \in AppSerials /\ Promise!Gone(id)
<1> SUFFICES ASSUME AppCreatePublish(a) \/ AppCreateFail(a)
             PROVE  /\ id \in AppSerials
                    /\ AppCreatePublish(a) => Promise!Started(id)
                    /\ AppCreateFail(a) => Promise!Gone(id)
  OBVIOUS
<1> DEFINE s0 == SlotOf(id)
<1>1. /\ Busy(a) /\ id \in AppSerials /\ s0 \in Slots /\ CreateSlot(a) = s0
      /\ app[s0].id = RESERVED /\ app[s0].req = "RUN"
      /\ \A b \in Actors : Busy(b) /\ CreateSlot(b) = s0 => a = b
  BY Places DEF AppCreatePublish, AppCreateFail, AppInv, Owned, Starting, Busy, CreateSlot
<1>2. /\ \A s \in Slots : s # s0 => app'[s] = app[s]
      /\ AppCreatePublish(a) => app'[s0].id = id
      /\ AppCreateFail(a) => app'[s0].id = FREE
      /\ app'[s0].name = app[s0].name /\ app'[s0].req = app[s0].req
      /\ job' = job /\ glob'.lastApp = glob.lastApp
      /\ create'[a].pc = "idle" /\ \A b \in Actors : b # a => create'[b] = create[b]
  BY <1>1 DEF AppCreatePublish, AppCreateFail, AppInv, Typed, AppRecord, Idle
<1>3. \A i \in AppSerials : SlotOf(i) \in Slots /\ i # RESERVED /\ i # FREE /\ i \in Nat
  BY Places, SlotTyped
<1>4. Creating(id) /\ LifeOf(id) = "starting"
  BY <1>1, Lives DEF Creating, Busy
<1>5. ~Creating(id)'
  BY <1>1, <1>2 DEF Creating, Busy, CreateSlot
<1>6. ~CleaningUp(id)'
  BY <1>1, <1>2, <1>4, Lives DEF CleaningUp
<1>7. ASSUME NEW j \in AppSerials, j # id
      PROVE  LifeOf(j)' = LifeOf(j) /\ NameOf(j)' = NameOf(j)
  <2>1. IsMatch(j)' <=> IsMatch(j)
    BY <1>1, <1>2, <1>3, <1>7 DEF IsMatch
  <2>2. Creating(j)' <=> Creating(j)
    BY <1>1, <1>2, <1>7 DEF Creating
  <2>3. CleaningUp(j)' <=> CleaningUp(j)
    BY <1>2 DEF CleaningUp
  <2>4. LifeOf(j)' = LifeOf(j)
    BY <2>1, <2>2, <2>3 DEF LifeOf
  <2>5. app'[SlotOf(j)].name = app[SlotOf(j)].name
    BY <1>2, <1>3
  <2> QED BY <2>4, <2>5 DEF NameOf
<1>8. CASE AppCreatePublish(a)
  <2>1. IsMatch(id)'
    BY <1>2, <1>8 DEF IsMatch
  <2>2. LifeOf(id)' = "alive" /\ NameOf(id)' = NameOf(id)
    BY <1>2, <1>4, <2>1 DEF LifeOf, NameOf
  <2>3. Phase' = [Phase EXCEPT ![id] = "alive"] /\ Name' = Name
    BY <1>1, <1>7, <2>2 DEF Phase, Name
  <2>4. WantedIds' = WantedIds
    <3>1. \A s \in Slots : /\ s # s0 => (Live(s)' <=> Live(s)) /\ app'[s].id = app[s].id
                                        /\ app'[s].req = app[s].req
                           /\ s = s0 => ~Live(s) /\ app'[s].req = "RUN"
      BY <1>1, <1>2, Places DEF Live
    <3> QED BY <3>1 DEF WantedIds
  <2>5. Promise!Started(id)
    BY <1>1, <1>2, <1>4, <2>3, <2>4 DEF Promise!Started, Phase, Name, WantedIds
  <2> QED BY <1>1, <1>8, <2>5 DEF AppCreatePublish, AppCreateFail
<1>9. CASE AppCreateFail(a)
  <2>1. ~IsMatch(id)'
    BY <1>1, <1>2, <1>3, <1>9 DEF IsMatch
  <2>2. LifeOf(id)' = "none" /\ NameOf(id)' = NoName
    BY <1>5, <1>6, <2>1 DEF LifeOf, NameOf
  <2>3. Phase' = [Phase EXCEPT ![id] = "none"] /\ Name' = [Name EXCEPT ![id] = NoName]
    BY <1>1, <1>7, <2>2, PhaseChange
  <2>4. WantedIds' = WantedIds
    <3>1. \A s \in Slots : /\ s # s0 => (Live(s)' <=> Live(s)) /\ app'[s].id = app[s].id
                                        /\ app'[s].req = app[s].req
                           /\ s = s0 => ~Live(s) /\ app'[s].req = "RUN"
      BY <1>1, <1>2, Places DEF Live
    <3> QED BY <3>1 DEF WantedIds
  <2>5. Promise!Gone(id)
    BY <1>1, <1>2, <1>4, <2>3, <2>4 DEF Promise!Gone, Phase, Name, WantedIds
  <2> QED BY <1>1, <1>9, <2>5 DEF AppCreatePublish, AppCreateFail
<1> QED BY <1>8, <1>9

(* A request that is accepted, or an exit, makes the application wanted,    *)
(* and changes nothing else of its life.                                    *)
LEMMA WantLife ==
  ASSUME AppInv, NEW s0 \in Slots, NEW id, id = app[s0].id, Live(s0),
         \A s \in Slots : /\ app'[s].id = app[s].id /\ app'[s].name = app[s].name
                          /\ s # s0 => app'[s].req = app[s].req,
         app'[s0].req # "RUN",
         glob' = glob, create' = create, job' = job
  PROVE  id \in AppSerials /\ Promise!Want(id)
<1>1. id \in AppSerials /\ SlotOf(id) = s0 /\ IsMatch(id)
  BY Places DEF AppInv, Owned, Lead, IsMatch
<1>2. \A i \in AppSerials : SlotOf(i) \in Slots
  BY SlotTyped
<1>3. \A i \in AppSerials : LifeOf(i)' = LifeOf(i)
  BY <1>2 DEF LifeOf, IsMatch, Creating, CleaningUp
<1>4. \A i \in AppSerials : NameOf(i)' = NameOf(i)
  BY <1>2, <1>3 DEF NameOf
<1>5. Phase' = Phase /\ Name' = Name
  BY <1>3, <1>4 DEF Phase, Name
<1>6. LifeOf(id) = "alive"
  BY <1>1, Lives
<1>7. WantedIds' = WantedIds \union {id}
  <2>1. \A s \in Slots : Live(s)' <=> Live(s)
    BY DEF Live
  <2>2. \A s \in Slots : Live(s) /\ app[s].id = id => s = s0
    BY <1>1 DEF AppInv, Owned, Lead
  <2>3. \A x : x \in WantedIds' => x \in WantedIds \union {id}
    BY <2>1 DEF WantedIds
  <2>4. \A x : x \in WantedIds \union {id} => x \in WantedIds'
    BY <2>1 DEF WantedIds
  <2> QED BY <2>3, <2>4
<1> QED BY <1>1, <1>5, <1>6, <1>7 DEF Promise!Want, Phase, Name, WantedIds

LEMMA BeginLife ==
  ASSUME AppInv, CleanUpBegin, NEW id, id = job.id
  PROVE  id \in AppSerials /\ Promise!Leave(id)
<1> DEFINE s0 == SlotOf(id)
<1>1. /\ OnJob /\ job.pc = "begin" /\ s0 \in Slots /\ id \in AppSerials
      /\ app[s0].id = id /\ app[s0].state > RUNNING /\ Live(s0) /\ app[s0].req # "RUN"
  BY Places DEF CleanUpBegin, OnJob, AppInv, Owned, Ending, Wanted, Live, JobSlot
<1>2. /\ app' = [app EXCEPT ![s0].id = RESERVED] /\ create' = create
      /\ job' = [job EXCEPT !.pc = "tasks", !.tasks = {task[k].id : k \in TaskList(job.id)}]
  BY DEF CleanUpBegin
<1>3. glob'.lastApp = glob.lastApp /\ job'.pc = "tasks" /\ job'.id = id
  BY <1>2 DEF CleanUpBegin, AppInv, Typed, JobRecord
<1>4. /\ \A s \in Slots : /\ app'[s].name = app[s].name /\ app'[s].req = app[s].req
                          /\ s # s0 => app'[s].id = app[s].id
      /\ app'[s0].id = RESERVED
  BY <1>1, <1>2 DEF AppInv, Typed, AppRecord
<1>5. \A i \in AppSerials : SlotOf(i) \in Slots /\ i # RESERVED /\ i # FREE /\ i \in Nat
  BY Places, SlotTyped
<1>6. IsMatch(id) /\ LifeOf(id) = "alive" /\ ~Creating(id)
  BY <1>1, Lives DEF IsMatch
<1>7. ASSUME NEW j \in AppSerials, j # id
      PROVE  LifeOf(j)' = LifeOf(j) /\ NameOf(j)' = NameOf(j)
  <2>1. IsMatch(j)' <=> IsMatch(j)
    BY <1>1, <1>4, <1>5, <1>7 DEF IsMatch
  <2>2. (Creating(j)' <=> Creating(j)) /\ (CleaningUp(j)' <=> CleaningUp(j))
    BY <1>1, <1>2, <1>3, <1>7 DEF Creating, CleaningUp
  <2>3. LifeOf(j)' = LifeOf(j)
    BY <2>1, <2>2 DEF LifeOf
  <2> QED BY <1>4, <1>5, <2>3 DEF NameOf
<1>8. LifeOf(id)' = "leaving" /\ NameOf(id)' = NameOf(id)
  <2>1. ~IsMatch(id)' /\ CleaningUp(id)' /\ ~Creating(id)'
    BY <1>2, <1>3, <1>4, <1>5, <1>6, <1>1 DEF IsMatch, CleaningUp, Creating
  <2> QED BY <1>1, <1>4, <1>6, <2>1 DEF LifeOf, NameOf
<1>9. Phase' = [Phase EXCEPT ![id] = "leaving"] /\ Name' = Name
  BY <1>1, <1>7, <1>8 DEF Phase, Name
<1>10. WantedIds' = WantedIds \ {id} /\ id \in WantedIds
  <2>1. \A s \in Slots : Live(s)' <=> Live(s) /\ s # s0
    BY <1>1, <1>4, Places DEF Live
  <2>2. \A s \in Slots : Live(s) /\ app[s].id = id => s = s0
    BY DEF AppInv, Owned, Lead
  <2>3. \A x : x \in WantedIds' => x \in WantedIds \ {id}
    BY <1>4, <2>1, <2>2 DEF WantedIds
  <2>4. \A x : x \in WantedIds \ {id} => x \in WantedIds'
    BY <1>1, <1>4, <2>1 DEF WantedIds
  <2>5. id \in WantedIds
    BY <1>1 DEF WantedIds
  <2> QED BY <2>3, <2>4, <2>5
<1> QED BY <1>1, <1>3, <1>6, <1>9, <1>10 DEF Promise!Leave, Phase, Name, WantedIds

LEMMA EndLife ==
  ASSUME AppInv, CleanUpEnd, NEW id, id = job.id
  PROVE  id \in AppSerials /\ Promise!Gone(id)
<1> DEFINE s0 == SlotOf(id)
<1>1. /\ OnJob /\ job.pc = "free" /\ s0 \in Slots /\ id \in AppSerials
      /\ app[s0].id = RESERVED /\ app[s0].state > RUNNING
  BY Places DEF CleanUpEnd, OnJob, AppInv, Owned, Ending, JobSlot
<1>2. /\ app' = [app EXCEPT ![s0].id = FREE] /\ create' = create /\ glob' = glob
      /\ job' = IF Restarts THEN [job EXCEPT !.pc = "restart"] ELSE JobDone
  BY DEF CleanUpEnd
<1>3. job'.pc \in {"restart", "idle", "next"}
  BY <1>2 DEF AppInv, Typed, JobRecord, JobDone, NoJob
<1>4. /\ \A s \in Slots : /\ app'[s].name = app[s].name /\ app'[s].req = app[s].req
                          /\ s # s0 => app'[s].id = app[s].id
      /\ app'[s0].id = FREE
  BY <1>1, <1>2 DEF AppInv, Typed, AppRecord
<1>5. \A i \in AppSerials : SlotOf(i) \in Slots /\ i # RESERVED /\ i # FREE /\ i \in Nat
  BY Places, SlotTyped
<1>6. CleaningUp(id) /\ LifeOf(id) = "leaving" /\ ~Creating(id)
  BY <1>1, Lives DEF CleaningUp
<1>7. ASSUME NEW j \in AppSerials, j # id
      PROVE  LifeOf(j)' = LifeOf(j) /\ NameOf(j)' = NameOf(j)
  <2>1. IsMatch(j)' <=> IsMatch(j)
    BY <1>1, <1>4, <1>5, <1>7 DEF IsMatch
  <2>2. (Creating(j)' <=> Creating(j)) /\ (CleaningUp(j)' <=> CleaningUp(j))
    BY <1>2, <1>3, <1>7 DEF Creating, CleaningUp
  <2>3. LifeOf(j)' = LifeOf(j)
    BY <2>1, <2>2 DEF LifeOf
  <2> QED BY <1>4, <1>5, <2>3 DEF NameOf
<1>8. LifeOf(id)' = "none" /\ NameOf(id)' = NoName
  <2>1. ~IsMatch(id)' /\ ~CleaningUp(id)' /\ ~Creating(id)'
    BY <1>1, <1>2, <1>3, <1>4, <1>5, <1>6 DEF IsMatch, CleaningUp, Creating
  <2> QED BY <2>1 DEF LifeOf, NameOf
<1>9. Phase' = [Phase EXCEPT ![id] = "none"] /\ Name' = [Name EXCEPT ![id] = NoName]
  BY <1>1, <1>7, <1>8, PhaseChange
<1>10. WantedIds' = WantedIds
  <2>1. \A s \in Slots : (Live(s)' <=> Live(s)) /\ (Live(s) => s # s0)
    BY <1>1, <1>4, Places DEF Live
  <2> QED BY <1>4, <2>1 DEF WantedIds
<1> QED BY <1>1, <1>2, <1>6, <1>9, <1>10 DEF Promise!Gone, Phase, Name, WantedIds

-----------------------------------------------------------------------------
(* Every step is one of the abstract specification, or none of its events. *)

Advances == \A s \in Slots :
    Live(s) /\ app'[s].id = app[s].id => app'[s].state >= app[s].state

LEMMA States ==
  ASSUME Typed, NEW s \in Slots
  PROVE  app[s].state \in Nat
  BY DEF Typed, AppRecord, UNDEFINED, STOPPED

LEMMA UndisturbedLife ==
  ASSUME AppInv, Undisturbed
  PROVE  Uneventful
<1>1. \A s \in Slots : app[s].state \in Nat
  BY States DEF AppInv
<1> QED BY <1>1 DEF Undisturbed, Uneventful, CleanUp

LEMMA CreationLife ==
  ASSUME AppInv, NEW a \in Actors, Creation(a)
  PROVE  Uneventful \/ (Advances /\ Promise!Next)
<1>1. CASE LoadModule(a) \/ CreateMainTask(a) \/ RecordMainTask(a)
  BY <1>1, CreationUndisturbed, UndisturbedLife
<1>2. CASE AppCreatePublish(a) \/ AppCreateFail(a)
  <2>1. Promise!Next
    BY <1>2, CreatedLife DEF Promise!Next
  <2>2. /\ Busy(a) /\ CreateSlot(a) \in Slots /\ app[CreateSlot(a)].id = RESERVED
        /\ \A s \in Slots : s # CreateSlot(a) => app'[s] = app[s]
    BY <1>2, Places DEF AppCreatePublish, AppCreateFail, Busy, CreateSlot, AppInv, Owned,
       Starting, Typed
  <2>3. Advances
    BY <2>2, States, Places DEF Advances, Live, AppInv
  <2> QED BY <2>1, <2>3
<1> QED BY <1>1, <1>2 DEF Creation

LEMMA ReserveAdvances ==
  ASSUME AppInv, NEW a \in Actors, NEW n \in Names, AppCreateReserve(a, n, FreeAppSlot)
  PROVE  Advances
<1>1. PICK s0 \in Slots : app[s0].id = FREE /\ \A s \in Slots : s # s0 => app'[s] = app[s]
  BY FreshApp, SlotTyped DEF AppCreateReserve, AppInv, Typed
<1> QED BY <1>1, States, Places DEF Advances, Live, AppInv

LEMMA ControlLife ==
  ASSUME AppInv, NEW r \in Requests, ControlApp(r)
  PROVE  Uneventful \/ (Advances /\ Promise!Next)
<1> DEFINE s0 == SlotOf(ask)
<1>1. /\ ask \in AppSerials /\ s0 \in Slots
      /\ app' = [app EXCEPT ![s0].req = r]
      /\ glob' = glob /\ create' = create /\ job' = job
  BY SlotTyped, BoundsAssumption DEF ControlApp, AppInv, Typed
<1> HIDE DEF s0
<1>2. /\ \A s \in Slots : /\ app'[s].id = app[s].id /\ app'[s].name = app[s].name
                          /\ app'[s].state = app[s].state
                          /\ s # s0 => app'[s].req = app[s].req
      /\ app'[s0].req = r /\ r # "RUN"
  BY <1>1 DEF AppInv, Typed, AppRecord, Requests
<1>3. \A s \in Slots : app'[s].state >= app[s].state
  BY <1>2, States DEF AppInv
<1>4. CASE Live(s0)
  <2>1. Promise!Next
    BY <1>1, <1>2, <1>4, WantLife DEF Promise!Next
  <2> QED BY <1>3, <2>1 DEF Advances
<1>5. CASE ~Live(s0)
  BY <1>1, <1>2, <1>3, <1>5 DEF Uneventful
<1> QED BY <1>4, <1>5

LEMMA ExitLife ==
  ASSUME AppInv, NEW t \in Threads, NEW status \in ExitStatus, ExitApp(t, status)
  PROVE  Advances /\ Promise!Next
<1> DEFINE s0 == SlotOf(MyApp(t))
<1>1. s0 \in Slots /\ MyApp(t) \in AppSerials /\ app[s0].id = MyApp(t)
  BY OwnApp DEF ExitApp, AppInv
<1>2. /\ app' = [app EXCEPT ![s0].req = ExitRequest(s0, status), ![s0].state = STOPPED]
      /\ glob' = glob /\ create' = create /\ job' = job
  BY DEF ExitApp
<1> HIDE DEF s0
<1>3. /\ \A s \in Slots : /\ app'[s].id = app[s].id /\ app'[s].name = app[s].name
                          /\ s # s0 => app'[s].state = app[s].state /\ app'[s].req = app[s].req
      /\ app'[s0].req = ExitRequest(s0, status)
      /\ app'[s0].state = STOPPED
  BY <1>1, <1>2 DEF AppInv, Typed, AppRecord
<1>4. ExitRequest(s0, status) # "RUN"
  BY DEF ExitRequest, ExitStatus
<1>5. Live(s0)
  BY <1>1, Places DEF Live
<1>6. Advances
  BY <1>1, <1>3, States DEF Advances, AppInv, Typed, AppRecord, UNDEFINED, STOPPED
<1>7. Promise!Next
  BY <1>1, <1>2, <1>3, <1>4, <1>5, WantLife DEF Promise!Next
<1> QED BY <1>6, <1>7

LEMMA ReportLife ==
  ASSUME AppInv, NEW t \in Threads, NEW st \in {EARLY_INIT, LATE_INIT, RUNNING},
         ReportState(t, st)
  PROVE  Uneventful
<1> DEFINE s0 == SlotOf(MyApp(t))
<1>1. s0 \in Slots
  BY OwnApp DEF ReportState, AppInv
<1>2. /\ app' = [app EXCEPT ![s0].state = Raised(s0, st)]
      /\ glob' = glob /\ create' = create /\ job' = job
  BY DEF ReportState
<1> HIDE DEF s0
<1>3. /\ \A s \in Slots : /\ app'[s].id = app[s].id /\ app'[s].name = app[s].name
                          /\ app'[s].req = app[s].req
                          /\ s # s0 => app'[s].state = app[s].state
      /\ app'[s0].state = Raised(s0, st)
  BY <1>1, <1>2 DEF AppInv, Typed, AppRecord
<1>4. \A s \in Slots : app'[s].state >= app[s].state
  <2>1. Raised(s0, st) >= app[s0].state
    BY <1>1, States DEF Raised, AppInv, EARLY_INIT, LATE_INIT, RUNNING
  <2> QED BY <1>3, <2>1, States DEF AppInv
<1> QED BY <1>2, <1>3, <1>4 DEF Uneventful

LEMMA ScanLife ==
  ASSUME AppInv, NEW e \in Delays, RunAppTableScan(e)
  PROVE  Uneventful
<1>1. /\ app' = [s \in Slots |-> Scanned(s, e)]
      /\ job.pc = "idle" /\ job'.pc \in {"idle", "next"}
      /\ glob' = glob /\ create' = create
  BY DEF RunAppTableScan, BackgroundIdle, AppInv, Typed, JobRecord
<1>2. ASSUME NEW s \in Slots
      PROVE  /\ app'[s].id = app[s].id /\ app'[s].name = app[s].name
             /\ app'[s].req = app[s].req /\ app'[s].state >= app[s].state
  <2>1. app[s] \in AppRecord /\ app[s].state \in Nat /\ app'[s] = Scanned(s, e)
    BY <1>1, States DEF AppInv, Typed
  <2>2. CASE Leaving(s)
    BY <2>1, <2>2 DEF Scanned, AppRecord
  <2>3. CASE ~Leaving(s) /\ Requested(s)
    BY <2>1, <2>3 DEF Scanned, Requested, AppRecord, RUNNING, WAITING
  <2>4. CASE ~Leaving(s) /\ ~Requested(s)
    BY <2>1, <2>4 DEF Scanned
  <2> QED BY <2>2, <2>3, <2>4
<1> QED BY <1>1, <1>2 DEF Uneventful, CleanUp

LEMMA BackgroundLife ==
  ASSUME AppInv, Background
  PROVE  Uneventful \/ (Advances /\ Promise!Next)
<1>0. job \in JobRecord
  BY DEF AppInv, Typed
<1>1. ASSUME NEW e \in Delays, SkipScan(e) PROVE Uneventful
  BY <1>1, SameUndisturbed, UndisturbedLife DEF SkipScan
<1>2. CASE (\E t \in job.tasks : CleanupTaskResources(t)) \/ UnloadModule
  BY <1>2, CleanUpUndisturbed, UndisturbedLife
<1>3. CASE ProcessControlRequest
  <2>1. job.pc = "next" /\ job'.pc = "begin"
    BY <1>0, <1>3 DEF ProcessControlRequest, JobRecord
  <2>2. \A s \in Slots : app[s].state >= app[s].state
    BY States DEF AppInv
  <2> QED BY <1>3, <2>1, <2>2 DEF ProcessControlRequest, Uneventful, CleanUp
<1>4. CASE CleanUpBegin \/ CleanUpEnd
  <2>1. Promise!Next
    BY <1>4, BeginLife, EndLife DEF Promise!Next
  <2>2. \A s \in Slots : app'[s].state = app[s].state
    BY <1>4 DEF CleanUpBegin, CleanUpEnd, AppInv, Typed, AppRecord
  <2> QED BY <2>1, <2>2, States DEF Advances, AppInv
<1>5. CASE RestartApp
  <2>1. job.pc = "restart" /\ job'.pc \in {"idle", "next"}
    BY <1>5 DEF RestartApp, JobDone, NoJob
  <2>2. CASE AppCreateReserve("bg", job.name, FreeAppSlot)
    <3>1. job.name \in Names /\ ~Busy("bg") /\ "bg" \in Actors
      BY <2>1 DEF AppInv, Owned, Starting, Named, Actors
    <3>2. job.pc \notin CleanUp /\ job'.pc \notin CleanUp
      BY <2>1 DEF CleanUp
    <3>3. Promise!Next
      BY <2>2, <3>1, <3>2, ReserveLife DEF Promise!Next
    <3> QED BY <2>2, <3>1, <3>3, ReserveAdvances
  <2>3. CASE UNCHANGED <<app, glob, create, asked, waited>>
    <3>1. \A s \in Slots : app[s].state >= app[s].state
      BY States DEF AppInv
    <3> QED BY <2>1, <2>3, <3>1 DEF Uneventful, CleanUp
  <2> QED BY <1>5, <2>2, <2>3 DEF RestartApp
<1> QED BY <1>1, <1>2, <1>3, <1>4, <1>5, ScanLife DEF Background

LEMMA CommandLife ==
  ASSUME AppInv, Command
  PROVE  Uneventful \/ (Advances /\ Promise!Next)
<1>1. ASSUME NEW n \in Names, StartAppCmd(n) PROVE Advances /\ Promise!Next
  <2>1. AppCreateReserve("cmd", n, FreeAppSlot) /\ ~Busy("cmd") /\ "cmd" \in Actors /\ job' = job
    BY <1>1 DEF StartAppCmd, CmdIdle, Busy, Actors
  <2>2. Promise!Next
    BY <2>1, ReserveLife DEF Promise!Next
  <2> QED BY <2>1, <2>2, ReserveAdvances
<1>2. ASSUME NEW n \in Names, GetAppIDByName(n) PROVE Uneventful
  BY <1>2, SameUndisturbed, UndisturbedLife DEF GetAppIDByName
<1>3. ASSUME NEW r \in Requests, ControlAppRefused(r) PROVE Uneventful
  BY <1>3, SameUndisturbed, UndisturbedLife DEF ControlAppRefused
<1> QED BY <1>1, <1>2, <1>3, ControlLife DEF Command

LEMMA ThreadLife ==
  ASSUME AppInv, NEW t \in Threads, ThreadStep(t) \/ Call(t)
  PROVE  Uneventful \/ (Advances /\ Promise!Next)
<1>1. \/ \E st \in {EARLY_INIT, LATE_INIT, RUNNING} : ReportState(t, st)
      \/ \E status \in ExitStatus : ExitApp(t, status)
      \/ UNCHANGED <<app, asked, create, job, loaded>> /\ glob'.lastApp = glob.lastApp
  BY DEF ThreadStep, Call, Poll, CreateChildTask, CreateChildRecord, OS_TaskExit,
         CreateChildBegin, DeleteChildTask, ExitChildTask, AppInv, Typed
<1> QED BY <1>1, ReportLife, ExitLife, SameUndisturbed, UndisturbedLife

LEMMA LifeStep ==
  ASSUME AppInv, [Next]_vars
  PROVE  Uneventful \/ (Advances /\ Promise!Next)
<1>1. CASE UNCHANGED vars
  BY <1>1, SameUndisturbed, UndisturbedLife DEF vars
<1> QED BY <1>1, CreationLife, CommandLife, BackgroundLife, ThreadLife DEF Next

(* Executive Services keep the promise of AppLife: an ID is used once, one  *)
(* application of a name exists at most, and a running application is taken *)
(* down only after it exited or somebody asked for it.                      *)
THEOREM KeepsPromise == Spec => ImplementsLife
<1>1. Init => Promise!Init
  <2> SUFFICES ASSUME Init PROVE Promise!Init
    OBVIOUS
  <2>1. \A i \in AppSerials : SlotOf(i) \in Slots /\ i # FREE
    BY SlotTyped, Symbols
  <2>2. \A i \in AppSerials : ~IsMatch(i) /\ ~Creating(i) /\ ~CleaningUp(i)
    BY <2>1 DEF Init, IsMatch, Creating, CleaningUp, EmptyApp, Idle, NoJob
  <2>3. \A i \in AppSerials : LifeOf(i) = "none" /\ NameOf(i) = NoName
    BY <2>2 DEF LifeOf, NameOf
  <2>4. \A s \in Slots : ~Live(s)
    BY BoundsAssumption DEF Init, Live, EmptyApp
  <2> QED BY <2>3, <2>4 DEF Promise!Init, Init
<1>2. AppInv /\ [Next]_vars => [Promise!Next]_Promise!vars
  BY LifeStep, UneventfulLife DEF Promise!vars, Phase, Name, WantedIds
<1> QED BY <1>1, <1>2, AlwaysInv, PTL DEF Spec, ImplementsLife, Promise!Spec

(* While an application keeps its ID its state only advances: none that is  *)
(* to be taken down is revived by what its own tasks report.                *)
THEOREM OnlyAdvances == Spec => NeverRevived
<1>1. AppInv /\ [Next]_vars =>
        [\A s \in Slots : Live(s) /\ app'[s].id = app[s].id
                            => app'[s].state >= app[s].state]_vars
  BY LifeStep DEF Uneventful, Advances
<1> QED BY <1>1, AlwaysInv, PTL DEF Spec, NeverRevived
-----------------------------------------------------------------------------
(* The tasks of applications.  A clean-up is assumed to begin when no main  *)
(* task is between the check and the record of CreateChildTask.             *)

MainOf(i) == app[SlotOf(i)].main
Recorded(m, i) == m \in TaskSerials /\ HasTask(m) /\ MyApp(m) = i

(* Task IDs were given out, and an OSAL slot that is not in use is empty.   *)
Given == \A k \in TaskSlots :
    /\ Running(k) => os[k].id <= glob.lastTask
    /\ ~Running(k) => os[k] = NoThread
    /\ os[k].by \in TaskSerials => os[k].by <= glob.lastTask

(* A published record tells of the task in its own slot.                    *)
Matched == \A k \in TaskSlots :
    Published(k) => task[k].id = os[k].id /\ task[k].app = os[k].app

(* A task belongs to the application of the task that created it.           *)
Families == \A j, k \in TaskSlots :
    Running(j) /\ Running(k) /\ os[k].by = os[j].id => os[k].app = os[j].app

(* An application has the record of its main task; before it is published,  *)
(* its main task has started and waits for its record.                      *)
Mains == \A s \in Slots : Live(s) => Recorded(app[s].main, app[s].id)
Born == \A a \in Actors :
    /\ create[a].pc = "publish" =>
         Recorded(create[a].t, create[a].id) /\ MainOf(create[a].id) = create[a].t
    /\ create[a].pc = "record" =>
         LET k == TaskSlot(create[a].t)
         IN  /\ os[k].id = create[a].t /\ os[k].st = "poll"
             /\ os[k].app = create[a].id /\ ~HasTask(create[a].t)

(* No task without an application, and every task but the main task was     *)
(* created by the main task.                                                *)
Kin == \A k \in TaskSlots : Running(k) =>
    LET i == os[k].app
    IN  /\ IsMatch(i) \/ Creating(i) \/ CleaningUp(i)
        /\ IsMatch(i) \/ CleaningUp(i) => os[k].id = MainOf(i) \/ os[k].by = MainOf(i)
        /\ \A a \in Actors : Busy(a) /\ create[a].id = i =>
             create[a].pc \in {"record", "publish"} /\ os[k].id = create[a].t

(* Who creates a child is the main task of an application that is there;    *)
(* who leaves has given up its record.                                      *)
Quiet == \A k \in TaskSlots :
    /\ os[k].st \in {"create", "record"} =>
         IsMatch(os[k].app) /\ os[k].id = MainOf(os[k].app)
    /\ os[k].st = "leaving" => ~Published(k)

(* The list of a clean-up: it holds the main task, nobody else's task, and  *)
(* once the main task is dealt with no task of the application is left.     *)
Listed ==
    /\ job.pc \in CleanUp =>
         /\ \A k \in TaskSlots : task[k].app = job.id => ~Published(k)
         /\ \A k \in TaskSlots :
              Running(k) /\ (os[k].id \in job.tasks \/ os[k].by \in job.tasks)
                => os[k].app = job.id
         /\ \A t \in job.tasks : t <= glob.lastTask
         /\ MainOf(job.id) \in job.tasks
         /\ MainOf(job.id) \in job.cleaned =>
              \A k \in TaskSlots : Running(k) => os[k].app # job.id
         /\ job.pc = "free" => job.cleaned = job.tasks
    /\ job.pc \notin CleanUp \union {"restart"} => job.tasks = {} /\ job.cleaned = {}

TaskInv ==
    Given /\ Matched /\ Families /\ Mains /\ Born /\ Kin /\ Quiet /\ Listed /\ CountsExact

-----------------------------------------------------------------------------
(* What the parts of the invariant rest on. *)

(* The records of applications keep their IDs and main tasks.               *)
SameApps == \A s \in Slots : app'[s].id = app[s].id /\ app'[s].main = app[s].main

(* The same OSAL tasks exist; one may have gone on to another state.        *)
SameThreads == \A k \in TaskSlots :
    /\ os'[k].id = os[k].id /\ os'[k].app = os[k].app /\ os'[k].by = os[k].by
    /\ Running(k)' <=> Running(k)
    /\ ~Running(k) => os'[k] = os[k]

(* The same creations and the same clean-up are under way. *)
SameCreates == \A a \in Actors :
    /\ create'[a].id = create[a].id
    /\ create'[a].pc = "idle" <=> create[a].pc = "idle"
    /\ create[a].pc \in {"record", "publish"} \/ create'[a].pc \in {"record", "publish"} =>
         create'[a] = create[a]
SameJob ==
    \/ job' = job
    \/ /\ job.pc \notin CleanUp /\ job'.pc \notin CleanUp
       /\ job'.pc = "restart" \/ (job'.tasks = {} /\ job'.cleaned = {})

LEMMA SlotsFinite ==
  ASSUME NEW S, S \subseteq Slots \/ S \subseteq TaskSlots
  PROVE  IsFiniteSet(S) /\ Cardinality(S) \in Nat
<1>1. IsFiniteSet(Slots)
  BY Bounds, FS_Interval DEF Slots
<1>2. IsFiniteSet(TaskSlots)
  BY Bounds, FS_Interval DEF TaskSlots
<1> QED BY <1>1, <1>2, FS_Subset, FS_CardinalityType

LEMMA Identified ==
  ASSUME AppInv, TaskInv
  PROVE  /\ \A k \in TaskSlots : Running(k) =>
              /\ os[k].id \in TaskSerials /\ TaskSlot(os[k].id) = k
              /\ os[k].app \in AppSerials
         /\ \A k \in TaskSlots : os[k].id \in TaskSerials => Running(k)
         /\ \A k \in TaskSlots : Published(k) <=> task[k].id \in TaskSerials
         /\ \A k \in TaskSlots : Published(k) => TaskSlot(task[k].id) = k /\ Running(k)
         /\ \A t \in TaskSerials : TaskSlot(t) \in TaskSlots /\ t \in Nat
         /\ \A i \in AppSerials : SlotOf(i) \in Slots
         /\ FREE \notin Nat /\ RESERVED \notin Nat /\ FREE # RESERVED
<1>1. \A k \in TaskSlots : os[k].id \in TaskSerials => Running(k)
  BY Symbols DEF TaskInv, Given, NoThread
<1>2. \A k \in TaskSlots : Published(k) <=> task[k].id \in TaskSerials
  BY SlotTyped, BoundsAssumption DEF AppInv, Typed, TaskRecord, Published
<1>3. \A k \in TaskSlots : Published(k) => TaskSlot(task[k].id) = k /\ Running(k)
  BY <1>1, <1>2 DEF AppInv, Placed, TaskInv, Matched
<1> QED BY <1>1, <1>2, <1>3, SlotTyped, BoundsAssumption DEF AppInv, Placed

(* The three ways to be there exclude each other. *)
LEMMA OneLife ==
  ASSUME AppInv
  PROVE  /\ \A i \in AppSerials : IsMatch(i) => ~Creating(i) /\ ~CleaningUp(i)
         /\ \A i \in AppSerials : Creating(i) => ~CleaningUp(i)
         /\ \A a \in Actors : Busy(a) => Creating(create[a].id)
         /\ job.pc \in CleanUp => CleaningUp(job.id) /\ OnJob
         /\ \A a, b \in Actors : Busy(a) /\ Busy(b) /\ create[a].id = create[b].id => a = b
         /\ \A a \in Actors : Busy(a) /\ job.pc \in CleanUp => CreateSlot(a) # JobSlot
         /\ \A a \in Actors : Busy(a) => ~Live(CreateSlot(a))
<1>1. \A i \in AppSerials : /\ IsMatch(i) => ~Creating(i) /\ ~CleaningUp(i)
                            /\ Creating(i) => ~CleaningUp(i)
  BY Lives
<1>2. \A a \in Actors : Busy(a) => Creating(create[a].id)
  BY DEF Busy, Creating
<1>3. job.pc \in CleanUp => CleaningUp(job.id) /\ OnJob
  BY DEF CleaningUp, CleanUp, OnJob
<1>4. \A a, b \in Actors : Busy(a) /\ Busy(b) /\ create[a].id = create[b].id => a = b
  BY DEF AppInv, Owned, Starting, CreateSlot
<1>5. \A a \in Actors : Busy(a) => /\ app[CreateSlot(a)].state = UNDEFINED
                                   /\ app[CreateSlot(a)].id = RESERVED
  BY DEF AppInv, Owned, Starting
<1>6. OnJob => app[JobSlot].state > RUNNING
  BY DEF AppInv, Owned, Ending
<1> QED BY <1>1, <1>2, <1>3, <1>4, <1>5, <1>6, BoundsAssumption DEF UNDEFINED, RUNNING, Live

(* The counts, when one record more or less is published. *)
LEMMA SameCounts ==
  ASSUME CountsExact, \A s \in Slots : Live(s)' <=> Live(s),
         \A k \in TaskSlots : Published(k)' <=> Published(k),
         glob'.apps = glob.apps, glob'.tasks = glob.tasks
  PROVE  CountsExact'
<1>1. {s \in Slots : Live(s)}' = {s \in Slots : Live(s)}
  OBVIOUS
<1>2. {k \in TaskSlots : Published(k)}' = {k \in TaskSlots : Published(k)}
  OBVIOUS
<1> QED BY <1>1, <1>2 DEF CountsExact

LEMMA TaskCounted ==
  ASSUME CountsExact, \A s \in Slots : Live(s)' <=> Live(s), NEW k0 \in TaskSlots,
         \A k \in TaskSlots : k # k0 => (Published(k)' <=> Published(k)),
         glob'.apps = glob.apps,
         \/ ~Published(k0) /\ Published(k0)' /\ glob'.tasks = glob.tasks + 1
         \/ Published(k0) /\ ~Published(k0)' /\ glob'.tasks = glob.tasks - 1
  PROVE  CountsExact'
<1> DEFINE P == {k \in TaskSlots : Published(k)}
           Q == {k \in TaskSlots : Published(k)'}
<1>1. {s \in Slots : Live(s)}' = {s \in Slots : Live(s)}
  OBVIOUS
<1>2. IsFiniteSet(P) /\ Cardinality(P) \in Nat /\ glob.tasks = Cardinality(P)
  BY SlotsFinite DEF CountsExact
<1>3. CASE ~Published(k0) /\ Published(k0)' /\ glob'.tasks = glob.tasks + 1
  <2>1. Q = P \union {k0} /\ k0 \notin P
    BY <1>3
  <2>2. Cardinality(Q) = Cardinality(P) + 1
    BY <1>2, <2>1, FS_AddElement
  <2> QED BY <1>1, <1>2, <1>3, <2>2 DEF CountsExact
<1>4. CASE Published(k0) /\ ~Published(k0)' /\ glob'.tasks = glob.tasks - 1
  <2>1. Q = P \ {k0} /\ k0 \in P
    BY <1>4
  <2>2. Cardinality(Q) = Cardinality(P) - 1
    BY <1>2, <2>1, FS_RemoveElement
  <2> QED BY <1>1, <1>2, <1>4, <2>2 DEF CountsExact
<1> QED BY <1>3, <1>4

(* Steps that only move on: a task to another state, a creation or the      *)
(* background task to another place.                                        *)
LEMMA QuietTasks ==
  ASSUME AppInv, TaskInv, SameApps, SameThreads, SameCreates, SameJob,
         task' = task, glob' = glob,
         \A k \in TaskSlots :
           /\ os'[k].st \in {"create", "record"} /\ os'[k].st # os[k].st =>
                IsMatch(os[k].app) /\ os[k].id = MainOf(os[k].app)
           /\ os'[k].st = "leaving" => os[k].st = "leaving"
           /\ os[k].st = "poll" => os'[k].st = "poll" \/ HasTask(os[k].id)
  PROVE  TaskInv'
<1> USE DEF SameApps, SameThreads, TaskInv
<1>0. /\ \A i \in AppSerials : SlotOf(i) \in Slots
      /\ \A t \in TaskSerials : TaskSlot(t) \in TaskSlots
  BY SlotTyped
<1>1. Given'
  BY DEF Given
<1>2. Matched' /\ Families'
  BY DEF Matched, Families, Published
<1>3. Mains'
  BY DEF Mains, Recorded, HasTask, MyApp, Live
<1>4. Born'
  <2>1. \A a \in Actors : create'[a].pc = "publish" =>
         create[a].pc = "publish" /\ create'[a].t = create[a].t /\ create'[a].id = create[a].id
           /\ create[a].id \in AppSerials
    BY Places DEF SameCreates, Busy
  <2>2. \A a \in Actors : create'[a].pc = "record" =>
         create[a].pc = "record" /\ create'[a].t = create[a].t /\ create'[a].id = create[a].id
           /\ create[a].t \in TaskSerials
    BY DEF SameCreates, AppInv, Placed
  <2> QED BY <1>0, <2>1, <2>2 DEF Born, Recorded, HasTask, MyApp, MainOf
<1>5. Kin' /\ Quiet'
  <2>1. ASSUME NEW k \in TaskSlots, Running(k)
        PROVE  LET i == os[k].app
               IN  /\ IsMatch(i)' <=> IsMatch(i)
                   /\ Creating(i)' <=> Creating(i)
                   /\ CleaningUp(i)' <=> CleaningUp(i)
                   /\ MainOf(i)' = MainOf(i)
    <3>1. os[k].app \in AppSerials
      BY <2>1, Identified
    <3>2. IsMatch(os[k].app)' <=> IsMatch(os[k].app)
      BY <1>0, <3>1 DEF IsMatch
    <3>3. Creating(os[k].app)' <=> Creating(os[k].app)
      BY DEF Creating, SameCreates
    <3>4. CleaningUp(os[k].app)' <=> CleaningUp(os[k].app)
      BY DEF CleaningUp, CleanUp, SameJob
    <3> QED BY <1>0, <3>1, <3>2, <3>3, <3>4 DEF MainOf
  <2>2. Kin'
    BY <2>1 DEF Kin, Busy, SameCreates
  <2>3. \A k \in TaskSlots : os[k].st \in {"create", "record"} => Running(k)
    BY DEF Running
  <2>4. \A k \in TaskSlots : os'[k].st \in {"create", "record"} => Running(k)
    BY DEF Running
  <2>5. Quiet'
    BY <2>1, <2>3, <2>4 DEF Quiet, Published
  <2> QED BY <2>2, <2>5
<1>6. Listed'
  <2>1. CASE job' = job
    <3>1. job.pc \in CleanUp => JobSlot \in Slots /\ job.id \in AppSerials
      BY Places, OneLife
    <3> QED BY <2>1, <3>1 DEF Listed, Published, MainOf, JobSlot
  <2>2. CASE job' # job
    BY <2>2 DEF Listed, SameJob
  <2> QED BY <2>1, <2>2
<1>7. CountsExact'
  BY SameCounts DEF Live, Published
<1> QED BY <1>1, <1>2, <1>3, <1>4, <1>5, <1>6, <1>7

(* A new ID is given to a creation: the record it takes was nobody's.       *)
LEMMA ReserveTasks ==
  ASSUME AppInv, TaskInv, NEW a \in Actors, NEW n \in Names,
         AppCreateReserve(a, n, FreeAppSlot), ~Busy(a), task' = task, os' = os, SameJob
  PROVE  TaskInv'
<1> DEFINE id == FreeAppSlot
           s0 == SlotOf(id)
<1>1. id \in AppSerials /\ id > glob.lastApp /\ app[s0].id = FREE /\ s0 \in Slots
  BY FreshApp, SlotTyped DEF AppCreateReserve, AppInv
<1>2. /\ app' = [app EXCEPT ![s0] = [EmptyApp EXCEPT !.id = RESERVED, !.name = n]]
      /\ glob' = [glob EXCEPT !.lastApp = id]
      /\ create' = [create EXCEPT ![a] = [pc |-> "load", id |-> id, name |-> n, t |-> FREE]]
  BY DEF AppCreateReserve
<1> HIDE DEF id, s0
<1>3. /\ app'[s0].id = RESERVED /\ \A s \in Slots : s # s0 => app'[s] = app[s]
      /\ create'[a].pc = "load" /\ create'[a].id = id
      /\ \A b \in Actors : b # a => create'[b] = create[b]
      /\ glob'.lastTask = glob.lastTask /\ glob'.apps = glob.apps /\ glob'.tasks = glob.tasks
  BY <1>1, <1>2 DEF AppInv, Typed, EmptyApp
<1>4. /\ \A i \in AppSerials : LifeOf(i) # "none" => i # id /\ SlotOf(i) # s0
      /\ \A i \in AppSerials : i \in Nat
  <2>1. glob.lastApp \in Nat
    BY Bounds DEF AppInv, Typed
  <2> QED BY <1>1, <2>1, Lives, SlotTyped DEF Used
<1>5. ASSUME NEW k \in TaskSlots, Running(k)
      PROVE  LET i == os[k].app
             IN  /\ i # id /\ MainOf(i)' = MainOf(i)
                 /\ IsMatch(i)' <=> IsMatch(i)
                 /\ Creating(i)' <=> Creating(i)
                 /\ CleaningUp(i)' <=> CleaningUp(i)
  <2> DEFINE i == os[k].app
  <2>1. i \in AppSerials /\ SlotOf(i) \in Slots
    BY <1>5, Identified
  <2>2. i # id /\ SlotOf(i) # s0
    <3>1. IsMatch(i) \/ Creating(i) \/ CleaningUp(i)
      BY <1>5 DEF TaskInv, Kin
    <3>2. LifeOf(i) # "none"
      BY <3>1 DEF LifeOf
    <3> QED BY <1>4, <2>1, <3>2
  <2>3. Creating(i)' <=> Creating(i)
    BY <1>3, <2>2 DEF Creating, Busy
  <2>4. CleaningUp(i)' <=> CleaningUp(i)
    BY DEF CleaningUp, CleanUp, SameJob
  <2> QED BY <1>3, <2>1, <2>2, <2>3, <2>4 DEF MainOf, IsMatch
<1>6. Given' /\ Matched' /\ Families'
  BY <1>3 DEF TaskInv, Given, Matched, Families, Published, Running
<1>7. Mains'
  <2>1. \A s \in Slots : Live(s)' => Live(s) /\ app'[s] = app[s]
    BY <1>3, BoundsAssumption DEF Live
  <2> QED BY <2>1 DEF TaskInv, Mains, Recorded, HasTask, MyApp
<1>8. Born'
  <2>1. \A b \in Actors : create'[b].pc \in {"record", "publish"} =>
           /\ create'[b] = create[b] /\ Busy(b) /\ create[b].id \in AppSerials
           /\ SlotOf(create[b].id) # s0 /\ SlotOf(create[b].id) \in Slots
    BY <1>1, <1>3, Places DEF Busy, AppInv, Owned, Starting, CreateSlot
  <2> QED BY <1>3, <2>1 DEF TaskInv, Born, Recorded, HasTask, MyApp, MainOf
<1>9. Kin'
  BY <1>3, <1>5 DEF TaskInv, Kin, Busy, Running
<1>10. Quiet'
  <2>1. \A k \in TaskSlots : os[k].st \in {"create", "record"} => Running(k)
    BY DEF Running
  <2> QED BY <1>5, <2>1 DEF TaskInv, Quiet, Published
<1>11. Listed'
  <2>1. CASE job' = job
    <3>1. job.pc \in CleanUp => MainOf(job.id)' = MainOf(job.id)
      <4> SUFFICES ASSUME job.pc \in CleanUp PROVE MainOf(job.id)' = MainOf(job.id)
        OBVIOUS
      <4>1. CleaningUp(job.id) /\ job.id \in AppSerials /\ SlotOf(job.id) \in Slots
        BY OneLife, Places, SlotTyped
      <4>2. SlotOf(job.id) # s0
        BY <1>4, <4>1, Lives
      <4> QED BY <1>3, <2>1, <4>1, <4>2 DEF MainOf
    <3> QED BY <1>3, <2>1, <3>1 DEF TaskInv, Listed, Published, Running
  <2>2. CASE job' # job
    BY <2>2 DEF TaskInv, Listed, SameJob
  <2> QED BY <2>1, <2>2
<1>12. CountsExact'
  <2>1. \A s \in Slots : Live(s)' <=> Live(s)
    BY <1>1, <1>3, BoundsAssumption DEF Live
  <2> QED BY <1>3, <2>1, SameCounts DEF TaskInv, Published
<1> QED BY <1>6, <1>7, <1>8, <1>9, <1>10, <1>11, <1>12 DEF TaskInv

(* The creation is over: the application is there ... *)
LEMMA PublishTasks ==
  ASSUME AppInv, TaskInv, NEW a \in Actors, AppCreatePublish(a), NEW id, id = create[a].id
  PROVE  TaskInv'
<1> DEFINE s0 == SlotOf(id)
<1>1. /\ Busy(a) /\ id \in AppSerials /\ s0 \in Slots /\ s0 = CreateSlot(a)
      /\ app[s0].id = RESERVED /\ create[a].pc = "publish"
  BY Places DEF AppCreatePublish, AppInv, Owned, Starting, Busy, CreateSlot
<1>2. /\ app' = [app EXCEPT ![s0].id = id]
      /\ glob' = [glob EXCEPT !.apps = @ + 1]
      /\ create' = [create EXCEPT ![a] = Idle]
      /\ task' = task /\ os' = os /\ job' = job
  BY DEF AppCreatePublish
<1>3. /\ app'[s0].id = id /\ app'[s0].main = app[s0].main
      /\ \A s \in Slots : s # s0 => app'[s] = app[s]
      /\ create'[a].pc = "idle" /\ \A b \in Actors : b # a => create'[b] = create[b]
      /\ glob'.lastTask = glob.lastTask /\ glob'.apps = glob.apps + 1
      /\ glob'.tasks = glob.tasks
  BY <1>1, <1>2 DEF AppInv, Typed, AppRecord, Idle
<1>4. \A s \in Slots : app'[s].main = app[s].main
  BY <1>3
<1>5. Recorded(create[a].t, id) /\ app[s0].main = create[a].t
  BY <1>1 DEF TaskInv, Born, MainOf
<1>6. /\ \A i \in AppSerials : SlotOf(i) \in Slots /\ i \in Nat
      /\ Creating(id) /\ ~CleaningUp(id) /\ \A b \in Actors : Busy(b) /\ create[b].id = id => b = a
      /\ FREE \notin Nat /\ RESERVED \notin Nat
  BY <1>1, OneLife, Places, SlotTyped
<1>7. ASSUME NEW k \in TaskSlots, Running(k), NEW i, i = os[k].app, i # id
      PROVE  /\ IsMatch(i)' <=> IsMatch(i)
             /\ Creating(i)' <=> Creating(i)
             /\ CleaningUp(i)' <=> CleaningUp(i)
  <2>1. i \in AppSerials /\ SlotOf(i) \in Slots
    BY <1>7, Identified
  <2>2. IsMatch(i)' <=> IsMatch(i)
    BY <1>1, <1>3, <1>6, <1>7, <2>1 DEF IsMatch
  <2>3. Creating(i)' <=> Creating(i)
    BY <1>2, <1>3, <1>7 DEF Creating
  <2> QED BY <1>2, <2>2, <2>3 DEF CleaningUp
<1>8. Given' /\ Matched' /\ Families'
  BY <1>2, <1>3 DEF TaskInv, Given, Matched, Families, Published, Running
<1>9. Mains'
  <2>1. \A s \in Slots : s # s0 => (Live(s)' <=> Live(s)) /\ app'[s] = app[s]
    BY <1>3 DEF Live
  <2>2. \A s \in Slots : Live(s)' => Recorded(app'[s].main, app'[s].id)
    BY <1>1, <1>3, <1>5, <2>1 DEF TaskInv, Mains
  <2> QED BY <1>2, <2>2 DEF Mains, Recorded, HasTask, MyApp
<1>10. Born'
  <2>1. \A b \in Actors : create'[b].pc \in {"record", "publish"} =>
           /\ create'[b] = create[b] /\ SlotOf(create[b].id) \in Slots
    BY <1>3, Places DEF Busy, CreateSlot
  <2> QED BY <1>2, <1>4, <2>1 DEF TaskInv, Born, Recorded, HasTask, MyApp, MainOf
<1>11. Kin'
  <2> SUFFICES ASSUME NEW k \in TaskSlots, Running(k), NEW i, i = os[k].app
               PROVE  /\ IsMatch(i)' \/ Creating(i)' \/ CleaningUp(i)'
                      /\ IsMatch(i)' \/ CleaningUp(i)'
                           => os[k].id = MainOf(i)' \/ os[k].by = MainOf(i)'
                      /\ \A b \in Actors : Busy(b)' /\ create'[b].id = i =>
                           create'[b].pc \in {"record", "publish"} /\ os[k].id = create'[b].t
    BY <1>2 DEF Kin, Running
  <2>0. SlotOf(i) \in Slots
    BY Identified
  <2>1. CASE i = id
    <3>1. IsMatch(id)'
      BY <1>3 DEF IsMatch
    <3>2. os[k].id = create[a].t
      BY <1>1, <2>1 DEF TaskInv, Kin
    <3>3. MainOf(id)' = create[a].t
      BY <1>3, <1>5 DEF MainOf
    <3>4. \A b \in Actors : ~(Busy(b)' /\ create'[b].id = id)
      BY <1>3, <1>6 DEF Busy
    <3> QED BY <2>1, <3>1, <3>2, <3>3, <3>4
  <2>2. CASE i # id
    <3>1. MainOf(i)' = MainOf(i)
      BY <1>4, <2>0 DEF MainOf
    <3> QED BY <1>3, <1>7, <2>2, <3>1 DEF TaskInv, Kin, Busy
  <2> QED BY <2>1, <2>2
<1>12. Quiet'
  <2>1. ASSUME NEW k \in TaskSlots, os[k].st \in {"create", "record"}, NEW i, i = os[k].app
        PROVE  IsMatch(i)' /\ os[k].id = MainOf(i)'
    <3>1. Running(k) /\ IsMatch(i) /\ os[k].id = MainOf(i)
      BY <2>1 DEF Running, TaskInv, Quiet
    <3>2. SlotOf(i) \in Slots /\ i \in AppSerials
      BY <2>1, <3>1, Identified
    <3>3. i # id
      BY <1>1, <1>6, <3>1, <3>2, OneLife
    <3> QED BY <1>4, <1>7, <2>1, <3>1, <3>2, <3>3 DEF MainOf
  <2> QED BY <1>2, <2>1 DEF TaskInv, Quiet, Published
<1>13. Listed'
  <2>1. job.pc \in CleanUp => MainOf(job.id)' = MainOf(job.id)
    BY <1>2, <1>4, Places, OneLife DEF MainOf, JobSlot
  <2> QED BY <1>2, <1>3, <2>1 DEF TaskInv, Listed, Published, Running
<1>14. CountsExact'
  <2> DEFINE P == {s \in Slots : Live(s)}
             Q == {s \in Slots : Live(s)'}
  <2>1. Q = P \union {s0} /\ s0 \notin P
    BY <1>1, <1>3, <1>6 DEF Live
  <2>2. IsFiniteSet(P) /\ Cardinality(P) \in Nat
    BY SlotsFinite
  <2>3. Cardinality(Q) = Cardinality(P) + 1
    BY <2>1, <2>2, FS_AddElement
  <2>4. {k \in TaskSlots : Published(k)}' = {k \in TaskSlots : Published(k)}
    BY <1>2 DEF Published
  <2> QED BY <1>3, <2>3, <2>4 DEF TaskInv, CountsExact
<1> QED BY <1>8, <1>9, <1>10, <1>11, <1>12, <1>13, <1>14 DEF TaskInv

(* ... or it is not, and no task of it is. *)
LEMMA FailTasks ==
  ASSUME AppInv, TaskInv, NEW a \in Actors, AppCreateFail(a), NEW id, id = create[a].id
  PROVE  TaskInv'
<1> DEFINE s0 == SlotOf(id)
<1>1. /\ Busy(a) /\ id \in AppSerials /\ s0 \in Slots /\ s0 = CreateSlot(a)
      /\ app[s0].id = RESERVED /\ create[a].pc = "fail"
  BY Places DEF AppCreateFail, AppInv, Owned, Starting, Busy, CreateSlot
<1>2. /\ app' = [app EXCEPT ![s0].id = FREE]
      /\ create' = [create EXCEPT ![a] = Idle]
      /\ task' = task /\ os' = os /\ job' = job /\ glob' = glob
  BY DEF AppCreateFail
<1>3. /\ app'[s0].id = FREE /\ app'[s0].main = app[s0].main
      /\ \A s \in Slots : s # s0 => app'[s] = app[s]
      /\ create'[a].pc = "idle" /\ \A b \in Actors : b # a => create'[b] = create[b]
  BY <1>1, <1>2 DEF AppInv, Typed, AppRecord, Idle
<1>4. \A s \in Slots : /\ app'[s].main = app[s].main
                       /\ Live(s)' <=> Live(s)
                       /\ Live(s) => app'[s] = app[s]
  BY <1>1, <1>3, BoundsAssumption DEF Live
<1>7. ASSUME NEW k \in TaskSlots, Running(k), NEW i, i = os[k].app
      PROVE  /\ i # id /\ MainOf(i)' = MainOf(i)
             /\ IsMatch(i)' <=> IsMatch(i)
             /\ Creating(i)' <=> Creating(i)
             /\ CleaningUp(i)' <=> CleaningUp(i)
  <2>1. i \in AppSerials /\ SlotOf(i) \in Slots /\ i # FREE /\ i # RESERVED
    BY <1>7, Identified, SlotTyped
  <2>2. i # id
    BY <1>1, <1>7 DEF TaskInv, Kin
  <2>3. IsMatch(i)' <=> IsMatch(i)
    BY <1>1, <1>3, <2>1 DEF IsMatch
  <2>4. Creating(i)' <=> Creating(i)
    BY <1>3, <2>2 DEF Creating
  <2> QED BY <1>2, <1>4, <2>1, <2>2, <2>3, <2>4 DEF CleaningUp, MainOf
<1>8. Given' /\ Matched' /\ Families'
  BY <1>2 DEF TaskInv, Given, Matched, Families, Published, Running
<1>9. Mains'
  BY <1>2, <1>4 DEF TaskInv, Mains, Recorded, HasTask, MyApp
<1>10. Born'
  <2>1. \A b \in Actors : create'[b].pc \in {"record", "publish"} =>
           /\ create'[b] = create[b] /\ SlotOf(create[b].id) \in Slots
    BY <1>3, Places DEF Busy, CreateSlot
  <2> QED BY <1>2, <1>4, <2>1 DEF TaskInv, Born, Recorded, HasTask, MyApp, MainOf
<1>11. Kin'
  BY <1>2, <1>3, <1>7 DEF TaskInv, Kin, Busy, Running
<1>12. Quiet'
  <2>1. \A k \in TaskSlots : os[k].st \in {"create", "record"} => Running(k)
    BY DEF Running
  <2> QED BY <1>2, <1>7, <2>1 DEF TaskInv, Quiet, Published
<1>13. Listed'
  <2>1. job.pc \in CleanUp => MainOf(job.id)' = MainOf(job.id)
    BY <1>2, <1>4, Places, OneLife DEF MainOf, JobSlot
  <2> QED BY <1>2, <2>1 DEF TaskInv, Listed, Published, Running
<1>14. CountsExact'
  BY <1>2, <1>4, SameCounts DEF TaskInv, Published
<1> QED BY <1>8, <1>9, <1>10, <1>11, <1>12, <1>13, <1>14 DEF TaskInv

(* What a new OSAL task leaves as it was, whoever created it.               *)
LEMMA SpawnTasks ==
  ASSUME AppInv, TaskInv, NEW t, t = NewTask, t \in TaskSerials,
         NEW i \in AppSerials, NEW by \in TaskSerials \union {FREE},
         by \in TaskSerials => os[TaskSlot(by)].id = by /\ os[TaskSlot(by)].app = i,
         ~CleaningUp(i), app' = app, task' = task, job' = job,
         glob' = [glob EXCEPT !.lastTask = t],
         os'[TaskSlot(t)] = NewThread(t, i, by),
         \A k \in TaskSlots : k # TaskSlot(t) =>
           /\ os'[k].id = os[k].id /\ os'[k].app = os[k].app /\ os'[k].by = os[k].by
           /\ Running(k)' <=> Running(k)
           /\ ~Running(k) => os'[k] = os[k]
  PROVE  /\ Given' /\ Matched' /\ Families' /\ Mains' /\ Listed' /\ CountsExact'
         /\ ~Running(TaskSlot(t)) /\ TaskSlot(t) \in TaskSlots
         /\ ~Published(TaskSlot(t)) /\ os[TaskSlot(t)] = NoThread
<1> DEFINE k0 == TaskSlot(t)
<1>1. t > glob.lastTask /\ ~Running(k0) /\ k0 \in TaskSlots /\ glob.lastTask \in Nat
  BY FreshTask, SlotTyped, Bounds DEF AppInv, Typed, Running
<1>2. os[k0] = NoThread /\ ~Published(k0)
  BY <1>1, Identified DEF TaskInv, Given
<1>3. /\ os'[k0].id = t /\ os'[k0].app = i /\ os'[k0].by = by /\ Running(k0)'
      /\ glob'.lastTask = t /\ glob'.apps = glob.apps /\ glob'.tasks = glob.tasks
  BY DEF NewThread, Running, AppInv, Typed
<1>4. /\ \A k \in TaskSlots : os[k].by \in TaskSerials => os[k].by <= glob.lastTask
      /\ \A k \in TaskSlots : Running(k) => os[k].id <= glob.lastTask /\ os[k].id \in TaskSerials
      /\ by \in TaskSerials => by <= glob.lastTask /\ Running(TaskSlot(by))
                                 /\ TaskSlot(by) \in TaskSlots
      /\ \A u \in TaskSerials : u \in Nat
  BY Identified DEF TaskInv, Given
<1>5. /\ FREE \notin TaskSerials /\ t \in Nat
      /\ \A k \in TaskSlots : os[k].by \in TaskSerials \union {FREE}
  BY Symbols, SlotTyped DEF AppInv, Typed, ThreadRecord
<1> HIDE DEF k0
<1>h. \A k \in TaskSlots : k # k0 =>
           /\ os'[k].id = os[k].id /\ os'[k].app = os[k].app /\ os'[k].by = os[k].by
           /\ Running(k)' <=> Running(k)
           /\ ~Running(k) => os'[k] = os[k]
  BY DEF k0
<1>6. Given'
  <2> SUFFICES ASSUME NEW k \in TaskSlots
               PROVE  /\ Running(k)' => os'[k].id <= t
                      /\ ~Running(k)' => os'[k] = NoThread
                      /\ os'[k].by \in TaskSerials => os'[k].by <= t
    BY <1>3 DEF Given
  <2>1. CASE k = k0
    BY <1>1, <1>3, <1>4, <1>5, <2>1
  <2>2. CASE k # k0
    <3>1. ~Running(k) => os[k] = NoThread
      BY DEF TaskInv, Given
    <3> QED BY <1>h, <1>1, <1>4, <1>5, <2>2, <3>1
  <2> QED BY <2>1, <2>2
<1>7. Matched'
  <2>1. \A k \in TaskSlots : Published(k) => k # k0
    BY <1>2
  <2> QED BY <1>h, <2>1 DEF TaskInv, Matched, Published
<1>8. Families'
  <2> SUFFICES ASSUME NEW j \in TaskSlots, NEW k \in TaskSlots, Running(j)', Running(k)',
                      os'[k].by = os'[j].id
               PROVE  os'[k].app = os'[j].app
    BY DEF Families
  <2>1. CASE j = k0
    <3>1. k = k0 => os'[k].by = by
      BY <1>3
    <3>2. os'[k].by = t
      BY <1>3, <2>1
    <3>3. os'[k].by <= glob.lastTask
      BY <1>h, <1>4, <1>5, <3>1, <3>2
    <3> QED BY <1>1, <1>5, <3>2, <3>3
  <2>2. CASE j # k0 /\ k = k0
    <3>1. Running(j) /\ os[j].id = by /\ by \in TaskSerials
      BY <1>h, <1>3, <1>4, <2>2
    <3>2. j = TaskSlot(by)
      BY <3>1, Identified
    <3> QED BY <1>h, <1>3, <2>2, <3>1, <3>2
  <2>3. CASE j # k0 /\ k # k0
    BY <1>h, <2>3 DEF TaskInv, Families
  <2> QED BY <2>1, <2>2, <2>3
<1>9. Mains'
  BY DEF TaskInv, Mains, Recorded, HasTask, MyApp, Live
<1>10. Listed'
  <2>1. CASE job.pc \in CleanUp
    <3>0. job.tasks \subseteq TaskSerials /\ CleaningUp(job.id)
      BY <2>1, OneLife DEF AppInv, Typed, JobRecord
    <3>1. /\ \A k \in TaskSlots : task[k].app = job.id => ~Published(k)
          /\ \A k \in TaskSlots :
              Running(k) /\ (os[k].id \in job.tasks \/ os[k].by \in job.tasks)
                => os[k].app = job.id
          /\ \A u \in job.tasks : u <= glob.lastTask
          /\ MainOf(job.id) \in job.tasks
          /\ MainOf(job.id) \in job.cleaned =>
              \A k \in TaskSlots : Running(k) => os[k].app # job.id
          /\ job.pc = "free" => job.cleaned = job.tasks
      BY <2>1 DEF TaskInv, Listed
    <3>2. t \notin job.tasks /\ i # job.id
      BY <1>1, <1>5, <3>0, <3>1
    <3>3. by \in job.tasks => i = job.id
      BY <1>4, <3>0, <3>1
    <3>4. \A k \in TaskSlots :
              Running(k)' /\ (os'[k].id \in job.tasks \/ os'[k].by \in job.tasks)
                => os'[k].app = job.id
      BY <1>h, <1>3, <3>1, <3>2, <3>3
    <3>5. MainOf(job.id) \in job.cleaned =>
              \A k \in TaskSlots : Running(k)' => os'[k].app # job.id
      BY <1>h, <1>3, <3>1, <3>2
    <3>6. \A u \in job.tasks : u <= t
      BY <1>1, <1>4, <1>5, <3>0, <3>1
    <3>7. job.pc \notin CleanUp \union {"restart"} => FALSE
      BY <2>1
    <3> QED BY <1>3, <3>1, <3>4, <3>5, <3>6, <3>7 DEF Listed, Published, MainOf
  <2>2. CASE job.pc \notin CleanUp
    BY <2>2 DEF TaskInv, Listed
  <2> QED BY <2>1, <2>2
<1>11. CountsExact'
  BY <1>3, SameCounts DEF TaskInv, Published, Live
<1> QED BY <1>1, <1>2, <1>6, <1>7, <1>8, <1>9, <1>10, <1>11 DEF k0

(* The main task of an application starts. *)
LEMMA MainSpawnTasks ==
  ASSUME AppInv, TaskInv, NEW a \in Actors, create[a].pc = "main",
         NEW t, t = NewTask, t \in TaskSerials, NEW i, i = create[a].id,
         os' = [os EXCEPT ![TaskSlot(t)] = NewThread(t, i, FREE)],
         glob' = [glob EXCEPT !.lastTask = t],
         create' = [create EXCEPT ![a].pc = "record", ![a].t = t],
         app' = app, task' = task, job' = job
  PROVE  TaskInv'
<1> DEFINE k0 == TaskSlot(t)
<1>1. /\ Busy(a) /\ i \in AppSerials /\ Creating(i) /\ ~CleaningUp(i) /\ ~IsMatch(i)
      /\ \A b \in Actors : Busy(b) /\ create[b].id = i => b = a
  BY OneLife, Places DEF Busy
<1>2. /\ create'[a].pc = "record" /\ create'[a].t = t /\ create'[a].id = i
      /\ \A b \in Actors : b # a => create'[b] = create[b]
  <2>1. create[a] \in CreateRecord
    BY DEF AppInv, Typed
  <2> DEFINE r == [create[a] EXCEPT !.pc = "record", !.t = t]
  <2>2. create' = [create EXCEPT ![a] = r]
    BY DEF AppInv, Typed
  <2>3. r.pc = "record" /\ r.t = t /\ r.id = i
    BY <2>1 DEF CreateRecord
  <2> HIDE DEF r
  <2> QED BY <2>2, <2>3 DEF AppInv, Typed
<1>3. k0 \in TaskSlots
  BY SlotTyped
<1>4. os'[k0] = NewThread(t, i, FREE) /\ \A k \in TaskSlots : k # k0 => os'[k] = os[k]
  BY <1>3 DEF AppInv, Typed
<1>5. /\ Given' /\ Matched' /\ Families' /\ Mains' /\ Listed' /\ CountsExact'
      /\ ~Running(k0) /\ ~Published(k0) /\ os[k0] = NoThread
  <2>1. FREE \in TaskSerials \union {FREE} /\ FREE \notin TaskSerials
    BY Symbols
  <2> QED BY <1>1, <1>4, <2>1, SpawnTasks DEF Running
<1>6. os'[k0].id = t /\ os'[k0].st = "poll" /\ os'[k0].app = i
  BY <1>4 DEF NewThread
<1>7. \A k \in TaskSlots : Running(k) => os[k].app # i /\ k # k0
  BY <1>1, <1>5 DEF TaskInv, Kin
<1>8. Born'
  <2>1. ASSUME NEW b \in Actors, create'[b].pc = "record"
        PROVE  LET k == TaskSlot(create'[b].t)
               IN  /\ os'[k].id = create'[b].t /\ os'[k].st = "poll"
                   /\ os'[k].app = create'[b].id /\ task[k].id # create'[b].t
    <3>1. CASE b = a
      BY <1>2, <1>3, <1>5, <1>6, <3>1, SlotTyped DEF Published
    <3>2. CASE b # a
      <4>1. create'[b] = create[b] /\ create[b].pc = "record"
        BY <1>2, <2>1, <3>2
      <4>2. create[b].t \in TaskSerials /\ TaskSlot(create[b].t) \in TaskSlots
        BY <4>1, SlotTyped DEF AppInv, Placed
      <4>3. Running(TaskSlot(create[b].t))
        BY <4>1, <4>2, Identified DEF TaskInv, Born
      <4> QED BY <1>4, <1>7, <4>1, <4>2, <4>3 DEF TaskInv, Born, HasTask
    <3> QED BY <3>1, <3>2
  <2>2. ASSUME NEW b \in Actors, create'[b].pc = "publish"
        PROVE  Recorded(create[b].t, create[b].id)' /\ MainOf(create[b].id)' = create'[b].t
    <3>1. create'[b] = create[b] /\ create[b].pc = "publish"
      BY <1>2, <2>2
    <3>2. Recorded(create[b].t, create[b].id) /\ MainOf(create[b].id) = create[b].t
      BY <3>1 DEF TaskInv, Born
    <3> QED BY <3>1, <3>2 DEF Recorded, HasTask, MyApp, MainOf
  <2> QED BY <2>1, <2>2 DEF Born, HasTask
<1>9. Kin'
  <2> SUFFICES ASSUME NEW k \in TaskSlots, Running(k)', NEW n, n = os'[k].app
               PROVE  /\ IsMatch(n)' \/ Creating(n)' \/ CleaningUp(n)'
                      /\ IsMatch(n)' \/ CleaningUp(n)'
                           => os'[k].id = MainOf(n)' \/ os'[k].by = MainOf(n)'
                      /\ \A b \in Actors : Busy(b)' /\ create'[b].id = n =>
                           create'[b].pc \in {"record", "publish"} /\ os'[k].id = create'[b].t
    BY DEF Kin
  <2>0. \A b \in Actors : (Busy(b)' <=> Busy(b)) /\ create'[b].id = create[b].id
    BY <1>1, <1>2 DEF Busy
  <2>1. /\ IsMatch(n)' <=> IsMatch(n)
        /\ CleaningUp(n)' <=> CleaningUp(n)
        /\ Creating(n)' <=> Creating(n)
        /\ MainOf(n)' = MainOf(n)
    BY <2>0 DEF IsMatch, CleaningUp, Creating, Busy, MainOf
  <2>2. CASE k = k0
    BY <1>1, <1>2, <1>6, <2>0, <2>1, <2>2
  <2>3. CASE k # k0
    <3>1. os'[k] = os[k] /\ Running(k) /\ n # i
      BY <1>4, <1>7, <2>3 DEF Running
    <3>2. \A b \in Actors : Busy(b) /\ create[b].id = n => create'[b] = create[b]
      BY <1>2, <3>1
    <3>3. /\ IsMatch(n) \/ Creating(n) \/ CleaningUp(n)
          /\ IsMatch(n) \/ CleaningUp(n) => os[k].id = MainOf(n) \/ os[k].by = MainOf(n)
          /\ \A b \in Actors : Busy(b) /\ create[b].id = n =>
               create[b].pc \in {"record", "publish"} /\ os[k].id = create[b].t
      BY <3>1 DEF TaskInv, Kin
    <3> QED BY <2>0, <2>1, <3>1, <3>2, <3>3
  <2> QED BY <2>2, <2>3
<1>10. Quiet'
  <2>1. \A k \in TaskSlots : k # k0 => os'[k] = os[k]
    BY <1>4
  <2>2. os'[k0].st = "poll"
    BY <1>6
  <2> QED BY <2>1, <2>2 DEF TaskInv, Quiet, Published, IsMatch, MainOf
<1> QED BY <1>5, <1>8, <1>9, <1>10 DEF TaskInv

(* What the record of a new task leaves as it was. *)
LEMMA EnterTasks ==
  ASSUME AppInv, TaskInv, SameThreads, NEW c \in TaskSerials, NEW i \in AppSerials,
         os[TaskSlot(c)].id = c, os[TaskSlot(c)].app = i, ~HasTask(c), ~CleaningUp(i),
         task' = [task EXCEPT ![TaskSlot(c)] = [id |-> c, app |-> i]],
         job' = job, glob' = [glob EXCEPT !.tasks = @ + 1],
         \A s \in Slots : app'[s].id = app[s].id,
         \A s \in Slots : Live(s) \/ (job.pc \in CleanUp /\ JobSlot = s)
                            => app'[s].main = app[s].main
  PROVE  /\ Given' /\ Matched' /\ Families' /\ Mains' /\ Listed' /\ CountsExact'
         /\ \A m \in TaskSerials : m # c => (HasTask(m)' <=> HasTask(m))
         /\ \A m \in TaskSerials : HasTask(m) => m # c /\ MyApp(m)' = MyApp(m)
         /\ TaskSlot(c) \in TaskSlots /\ HasTask(c)' /\ MyApp(c)' = i
<1> DEFINE k0 == TaskSlot(c)
<1>1. k0 \in TaskSlots /\ Running(k0) /\ c \in Nat
  BY Identified
<1>2. /\ task'[k0].id = c /\ task'[k0].app = i
      /\ \A k \in TaskSlots : k # k0 => task'[k] = task[k]
      /\ glob'.lastTask = glob.lastTask /\ glob'.apps = glob.apps
      /\ glob'.tasks = glob.tasks + 1
  BY <1>1 DEF AppInv, Typed
<1>3. ~Published(k0) /\ Published(k0)'
  BY <1>1, <1>2 DEF TaskInv, Matched, HasTask, Published
<1>4. \A k \in TaskSlots : k # k0 => (Published(k)' <=> Published(k))
  BY <1>2 DEF Published
<1>5. \A m \in TaskSerials : HasTask(m) => TaskSlot(m) # k0 /\ TaskSlot(m) \in TaskSlots
  BY <1>3, SlotTyped DEF HasTask, Published
<1>6. \A m \in TaskSerials : m # c => (HasTask(m)' <=> HasTask(m))
  BY <1>2, <1>5, SlotTyped DEF HasTask
<1>7. \A m \in TaskSerials : HasTask(m) => m # c /\ MyApp(m)' = MyApp(m)
  BY <1>2, <1>5 DEF MyApp
<1> HIDE DEF k0
<1>8. Given' /\ Matched' /\ Families'
  <2>1. Matched'
    <3>1. os[k0].id = c /\ os[k0].app = i
      BY DEF k0
    <3> QED BY <1>2, <1>4, <3>1 DEF TaskInv, Matched, SameThreads, Published
  <2> QED BY <1>2, <2>1 DEF TaskInv, Given, Families, SameThreads
<1>9. Mains'
  <2> SUFFICES ASSUME NEW s \in Slots, Live(s) PROVE Recorded(app[s].main, app[s].id)'
    BY DEF Mains, Live
  <2>1. Recorded(app[s].main, app[s].id) /\ app'[s].main = app[s].main /\ app'[s].id = app[s].id
    BY DEF TaskInv, Mains
  <2> QED BY <1>6, <1>7, <2>1 DEF Recorded, HasTask, MyApp
<1>10. Listed'
  <2>1. job.pc \in CleanUp => /\ JobSlot \in Slots /\ CleaningUp(job.id)
                              /\ app'[JobSlot].main = app[JobSlot].main
    BY Places, OneLife
  <2>2. job.pc \in CleanUp => i # job.id
    BY <2>1
  <2> QED BY <1>2, <1>4, <2>1, <2>2 DEF TaskInv, Listed, SameThreads, MainOf, JobSlot
<1>11. CountsExact'
  <2>1. \A s \in Slots : Live(s)' <=> Live(s)
    BY DEF Live
  <2> QED BY <1>1, <1>2, <1>3, <1>4, <2>1, TaskCounted DEF TaskInv, k0
<1>12. HasTask(c)' /\ MyApp(c)' = i
  BY <1>2 DEF HasTask, MyApp, k0
<1> QED BY <1>1, <1>6, <1>7, <1>8, <1>9, <1>10, <1>11, <1>12 DEF k0

LEMMA RecordMainTasks ==
  ASSUME AppInv, TaskInv, NEW a \in Actors, RecordMainTask(a),
         NEW t, t = create[a].t, NEW i, i = create[a].id
  PROVE  TaskInv'
<1> DEFINE s0 == SlotOf(i)
           k0 == TaskSlot(t)
<1>1. /\ Busy(a) /\ create[a].pc = "record" /\ i \in AppSerials /\ t \in TaskSerials
      /\ s0 \in Slots /\ k0 \in TaskSlots /\ app[s0].id = RESERVED
      /\ Creating(i) /\ ~CleaningUp(i) /\ ~IsMatch(i)
      /\ \A b \in Actors : Busy(b) /\ create[b].id = i => b = a
      /\ job.pc \in CleanUp => JobSlot # s0
      /\ \A b \in Actors : Busy(b) /\ CreateSlot(b) = s0 => b = a
  BY OneLife, Places, SlotTyped DEF RecordMainTask, AppInv, Placed, Owned, Starting, Busy, CreateSlot
<1>2. os[k0].id = t /\ os[k0].st = "poll" /\ os[k0].app = i /\ ~HasTask(t)
  BY <1>1 DEF TaskInv, Born
<1>3. /\ task' = [task EXCEPT ![k0] = [id |-> t, app |-> i]]
      /\ app' = [app EXCEPT ![s0].main = t]
      /\ glob' = [glob EXCEPT !.tasks = @ + 1]
      /\ create' = [create EXCEPT ![a].pc = "publish"]
      /\ os' = os /\ job' = job
  BY DEF RecordMainTask, RecordTask, Goto
<1>4. /\ app'[s0].main = t /\ app'[s0].id = RESERVED
      /\ \A s \in Slots : s # s0 => app'[s] = app[s]
      /\ create'[a].pc = "publish" /\ create'[a].t = t /\ create'[a].id = i
      /\ \A b \in Actors : b # a => create'[b] = create[b]
  BY <1>1, <1>3 DEF AppInv, Typed, AppRecord, CreateRecord
<1>5. /\ \A s \in Slots : app'[s].id = app[s].id
      /\ \A s \in Slots : Live(s) \/ (job.pc \in CleanUp /\ JobSlot = s)
                            => app'[s].main = app[s].main
  BY <1>1, <1>4, BoundsAssumption DEF Live
<1>6. /\ Given' /\ Matched' /\ Families' /\ Mains' /\ Listed' /\ CountsExact'
      /\ \A m \in TaskSerials : m # t => (HasTask(m)' <=> HasTask(m))
      /\ \A m \in TaskSerials : HasTask(m) => m # t /\ MyApp(m)' = MyApp(m)
      /\ HasTask(t)' /\ MyApp(t)' = i
  <2>1. SameThreads
    BY <1>3 DEF SameThreads, Running
  <2> QED BY <1>1, <1>2, <1>3, <1>5, <2>1, EnterTasks
<1> HIDE DEF s0, k0
<1>7. Born'
  <2>1. ASSUME NEW b \in Actors, b # a, create[b].pc = "publish"
        PROVE  Recorded(create[b].t, create[b].id)' /\ MainOf(create[b].id)' = create[b].t
    <3>1. /\ create'[b] = create[b] /\ Recorded(create[b].t, create[b].id)
          /\ MainOf(create[b].id) = create[b].t /\ CreateSlot(b) # s0 /\ CreateSlot(b) \in Slots
      BY <1>1, <1>4, <2>1, Places DEF TaskInv, Born, Busy
    <3>2. Recorded(create[b].t, create[b].id)'
      BY <1>6, <3>1 DEF Recorded, HasTask, MyApp
    <3> QED BY <1>4, <3>1, <3>2 DEF MainOf, CreateSlot
  <2>2. ASSUME NEW b \in Actors, b # a, create[b].pc = "record"
        PROVE  /\ create'[b] = create[b] /\ create[b].t # t /\ create[b].t \in TaskSerials
               /\ ~HasTask(create[b].t)'
    <3>1. create'[b] = create[b] /\ create[b].t \in TaskSerials /\ create[b].id # i
      BY <1>1, <1>4, <2>2 DEF AppInv, Placed, Busy
    <3>2. create[b].t # t
      BY <1>2, <2>2, <3>1 DEF TaskInv, Born, k0
    <3>3. ~HasTask(create[b].t)
      BY <2>2 DEF TaskInv, Born
    <3> QED BY <1>6, <3>1, <3>2, <3>3 DEF HasTask
  <2>3. Recorded(create[a].t, create[a].id)' /\ MainOf(create[a].id)' = t
    <3>1. Recorded(t, i)' /\ MainOf(i)' = t
      BY <1>1, <1>4, <1>6 DEF Recorded, HasTask, MyApp, MainOf, s0
    <3> QED BY <1>4, <3>1 DEF Recorded, HasTask, MyApp, MainOf
  <2>4. ASSUME NEW b \in Actors, create'[b].pc = "publish"
        PROVE  Recorded(create[b].t, create[b].id)' /\ MainOf(create[b].id)' = create'[b].t
    <3>1. CASE b = a
      BY <1>4, <2>3, <3>1
    <3>2. CASE b # a
      <4>1. create'[b] = create[b]
        BY <1>4, <3>2
      <4> QED BY <2>1, <2>4, <3>2, <4>1
    <3> QED BY <3>1, <3>2
  <2>5. ASSUME NEW b \in Actors, create'[b].pc = "record"
        PROVE  /\ b # a /\ create'[b] = create[b] /\ ~HasTask(create[b].t)'
    BY <1>4, <2>2, <2>5
  <2> QED BY <1>3, <2>4, <2>5 DEF TaskInv, Born
<1>8. ASSUME NEW k \in TaskSlots, Running(k), NEW n, n = os[k].app
      PROVE  /\ IsMatch(n)' <=> IsMatch(n)
             /\ Creating(n)' <=> Creating(n)
             /\ CleaningUp(n)' <=> CleaningUp(n)
             /\ IsMatch(n) \/ CleaningUp(n) => MainOf(n)' = MainOf(n)
  <2>1. n \in AppSerials /\ SlotOf(n) \in Slots /\ n \in Nat
    BY <1>8, Identified, SlotTyped
  <2>2. IsMatch(n)' <=> IsMatch(n)
    BY <1>5, <2>1 DEF IsMatch
  <2>3. Creating(n)' <=> Creating(n)
    BY <1>1, <1>4 DEF Creating, Busy
  <2>4. CleaningUp(n)' <=> CleaningUp(n)
    BY <1>3 DEF CleaningUp
  <2>5. IsMatch(n) => Live(SlotOf(n))
    BY <2>1 DEF IsMatch, Live
  <2>6. CleaningUp(n) => job.pc \in CleanUp /\ JobSlot = SlotOf(n)
    BY DEF CleaningUp, CleanUp, JobSlot
  <2> QED BY <1>5, <2>1, <2>2, <2>3, <2>4, <2>5, <2>6 DEF MainOf
<1>9. Kin'
  <2>1. \A b \in Actors : /\ Busy(b)' <=> Busy(b)
                          /\ create'[b].id = create[b].id /\ create'[b].t = create[b].t
                          /\ create[b].pc \in {"record", "publish"}
                               => create'[b].pc \in {"record", "publish"}
    BY <1>1, <1>4 DEF Busy
  <2> QED BY <1>3, <1>8, <2>1 DEF TaskInv, Kin, Running
<1>10. Quiet'
  <2>1. \A k \in TaskSlots : os[k].st \in {"create", "record"} => Running(k)
    BY DEF Running
  <2>2. \A k \in TaskSlots : os[k].st = "leaving" => ~Published(k)'
    BY <1>1, <1>2, <1>3 DEF TaskInv, Quiet, Published, AppInv, Typed, k0
  <2> QED BY <1>3, <1>8, <2>1, <2>2 DEF TaskInv, Quiet
<1> QED BY <1>6, <1>7, <1>9, <1>10 DEF TaskInv

(* The clean-up begins: its list is all there is of the application.        *)
LEMMA BeginTasks ==
  ASSUME AppInv, TaskInv, QuietCleanup, CleanUpBegin, NEW id, id = job.id
  PROVE  TaskInv'
<1> DEFINE s0 == SlotOf(id)
           list == TaskList(id)
           ids == {task[k].id : k \in list}
<1>1. /\ id \in AppSerials /\ s0 \in Slots /\ app[s0].id = id /\ Live(s0) /\ IsMatch(id)
      /\ job.pc = "begin" /\ ~Creating(id) /\ job.tasks = {} /\ job.cleaned = {}
      /\ \A k \in TaskSlots : os[k].app = id => os[k].st \notin {"create", "record"}
  BY OneLife, Places DEF CleanUpBegin, OnJob, AppInv, Owned, Ending, Live, JobSlot, IsMatch,
     TaskInv, Listed, CleanUp
<1>2. /\ task' = [k \in TaskSlots |-> IF k \in list THEN [task[k] EXCEPT !.id = RESERVED]
                                      ELSE task[k]]
      /\ glob' = [glob EXCEPT !.apps = @ - 1, !.tasks = @ - Cardinality(list)]
      /\ job' = [job EXCEPT !.pc = "tasks", !.tasks = ids]
      /\ app' = [app EXCEPT ![s0].id = RESERVED]
      /\ os' = os /\ create' = create
  BY DEF CleanUpBegin
<1>3. \A k \in list : /\ k \in TaskSlots /\ task[k].id \in TaskSerials /\ task[k].app = id
                      /\ Published(k)
  BY <1>1, Identified DEF TaskList, AppInv, Typed, TaskRecord, Placed, CleanUp
<1>4. \A k \in TaskSlots : Published(k) /\ task[k].app = id => k \in list
  BY BoundsAssumption DEF TaskList, Published
<1>5. /\ \A k \in TaskSlots : /\ k \in list => task'[k].id = RESERVED
                              /\ k \notin list => task'[k] = task[k]
                              /\ task'[k].app = task[k].app
      /\ app'[s0].id = RESERVED /\ \A s \in Slots : s # s0 => app'[s] = app[s]
      /\ \A s \in Slots : app'[s].main = app[s].main
      /\ job'.pc = "tasks" /\ job'.tasks = ids /\ job'.id = id /\ job'.cleaned = {}
  BY <1>1, <1>2 DEF AppInv, Typed, TaskRecord, AppRecord, JobRecord
<1>6. /\ glob'.lastTask = glob.lastTask /\ glob'.apps = glob.apps - 1
      /\ glob'.tasks = glob.tasks - Cardinality(list)
  <2> DEFINE n == Cardinality(list)
  <2>1. glob' = [glob EXCEPT !.apps = @ - 1, !.tasks = @ - n]
    BY <1>2
  <2> HIDE DEF n
  <2> QED BY <2>1 DEF AppInv, Typed, n
<1> HIDE DEF list, ids
<1>7. \A k \in TaskSlots : Published(k)' <=> Published(k) /\ k \notin list
  BY <1>5, BoundsAssumption DEF Published
<1>8. \A m \in TaskSerials : HasTask(m) /\ MyApp(m) # id => HasTask(m)' /\ MyApp(m)' = MyApp(m)
  BY <1>3, <1>5, SlotTyped DEF HasTask, MyApp
<1>9. ASSUME NEW k \in TaskSlots, Running(k), NEW i, i = os[k].app
      PROVE  /\ IsMatch(i)' <=> IsMatch(i) /\ i # id
             /\ Creating(i)' <=> Creating(i)
             /\ CleaningUp(i)' <=> i = id
             /\ ~CleaningUp(i)
             /\ MainOf(i)' = MainOf(i)
  <2>1. i \in AppSerials /\ SlotOf(i) \in Slots /\ i # FREE /\ i # RESERVED
    BY <1>9, Identified, Places
  <2>2. IsMatch(i)' <=> IsMatch(i) /\ i # id
    BY <1>1, <1>5, <2>1 DEF IsMatch
  <2>3. (CleaningUp(i)' <=> i = id) /\ ~CleaningUp(i)
    BY <1>1, <1>5 DEF CleaningUp
  <2>4. Creating(i)' <=> Creating(i)
    BY <1>2 DEF Creating
  <2> QED BY <1>5, <2>1, <2>2, <2>3, <2>4 DEF MainOf
<1>10. Given' /\ Matched' /\ Families'
  <2>1. Matched'
    BY <1>2, <1>5, <1>7 DEF TaskInv, Matched
  <2> QED BY <1>2, <1>6, <2>1 DEF TaskInv, Given, Families, Running
<1>11. Mains'
  <2> SUFFICES ASSUME NEW s \in Slots, Live(s)' PROVE Recorded(app[s].main, app[s].id)'
    BY DEF Mains
  <2>1. s # s0 /\ app'[s] = app[s] /\ Live(s)
    BY <1>5, BoundsAssumption DEF Live
  <2>2. Recorded(app[s].main, app[s].id) /\ app[s].id # id
    BY <1>1, <2>1 DEF TaskInv, Mains, AppInv, Owned, Lead
  <2> QED BY <1>8, <2>1, <2>2 DEF Recorded, HasTask, MyApp
<1>12. Born'
  <2>1. ASSUME NEW a \in Actors, create[a].pc = "publish"
        PROVE  Recorded(create[a].t, create[a].id)' /\ MainOf(create[a].id)' = create[a].t
    <3>1. /\ Recorded(create[a].t, create[a].id) /\ MainOf(create[a].id) = create[a].t
          /\ create[a].id # id /\ SlotOf(create[a].id) \in Slots
      BY <1>1, <2>1, OneLife, Places DEF TaskInv, Born, Busy, CreateSlot
    <3>2. Recorded(create[a].t, create[a].id)'
      BY <1>2, <1>8, <3>1 DEF Recorded, HasTask, MyApp
    <3> QED BY <1>2, <1>5, <3>1, <3>2 DEF MainOf
  <2>2. ASSUME NEW a \in Actors, create[a].pc = "record"
        PROVE  ~HasTask(create[a].t)'
    <3>1. create[a].t \in TaskSerials /\ ~HasTask(create[a].t)
      BY <2>2 DEF TaskInv, Born, AppInv, Placed
    <3>2. task'[TaskSlot(create[a].t)].id # create[a].t
      BY <1>5, <3>1, SlotTyped, Symbols DEF HasTask
    <3> QED BY <1>2, <3>2 DEF HasTask
  <2>3. \A a \in Actors : create[a].pc = "record" => task'[TaskSlot(create[a].t)].id # create[a].t
    BY <1>2, <2>2 DEF HasTask
  <2> QED BY <1>2, <2>1, <2>3 DEF TaskInv, Born, HasTask
<1>13. Kin'
  <2>1. \A a \in Actors : Busy(a)' <=> Busy(a)
    BY <1>2 DEF Busy
  <2> SUFFICES ASSUME NEW k \in TaskSlots, Running(k), NEW i, i = os[k].app
               PROVE  /\ IsMatch(i)' \/ Creating(i)' \/ CleaningUp(i)'
                      /\ IsMatch(i)' \/ CleaningUp(i)'
                           => os[k].id = MainOf(i)' \/ os[k].by = MainOf(i)'
                      /\ \A b \in Actors : Busy(b)' /\ create'[b].id = i =>
                           create'[b].pc \in {"record", "publish"} /\ os[k].id = create'[b].t
    BY <1>2 DEF Kin, Running
  <2>2. /\ IsMatch(i) \/ Creating(i) \/ CleaningUp(i)
        /\ IsMatch(i) \/ CleaningUp(i) => os[k].id = MainOf(i) \/ os[k].by = MainOf(i)
        /\ \A b \in Actors : Busy(b) /\ create[b].id = i =>
             create[b].pc \in {"record", "publish"} /\ os[k].id = create[b].t
    BY DEF TaskInv, Kin
  <2> QED BY <1>1, <1>2, <1>9, <2>1, <2>2
<1>14. Quiet'
  <2>1. ASSUME NEW k \in TaskSlots, os[k].st \in {"create", "record"}, NEW i, i = os[k].app
        PROVE  IsMatch(i)' /\ os[k].id = MainOf(i)'
    BY <1>1, <1>9, <2>1 DEF TaskInv, Quiet, Running
  <2>2. \A k \in TaskSlots : os[k].st = "leaving" => ~Published(k)'
    BY <1>7 DEF TaskInv, Quiet
  <2> QED BY <1>2, <2>1, <2>2 DEF Quiet
<1>15. Listed'
  <2>1. \A k \in TaskSlots : task'[k].app = id => ~Published(k)'
    BY <1>4, <1>5, <1>7
  <2>2. \A k \in list : task[k].id = os[k].id /\ os[k].app = id /\ Running(k) /\ TaskSlot(task[k].id) = k
    BY <1>3, Identified DEF TaskInv, Matched
  <2>3. ASSUME NEW k \in TaskSlots, Running(k), os[k].id \in ids \/ os[k].by \in ids
        PROVE  os[k].app = id
    <3>1. CASE os[k].id \in ids
      <4>1. PICK j \in list : os[k].id = task[j].id
        BY <3>1 DEF ids
      <4>2. j = k
        BY <2>2, <2>3, <4>1, Identified
      <4> QED BY <2>2, <4>2
    <3>2. CASE os[k].by \in ids
      <4>1. PICK j \in list : os[k].by = task[j].id
        BY <3>2 DEF ids
      <4>2. os[k].app = os[j].app
        BY <1>3, <2>2, <2>3, <4>1 DEF TaskInv, Families
      <4> QED BY <2>2, <4>1, <4>2
    <3> QED BY <2>3, <3>1, <3>2
  <2>4. \A t \in ids : t <= glob.lastTask
    BY <1>3, <2>2 DEF ids, TaskInv, Given
  <2>5. MainOf(id) \in ids
    <3>1. Recorded(app[s0].main, id)
      BY <1>1 DEF TaskInv, Mains
    <3>2. TaskSlot(app[s0].main) \in list /\ task[TaskSlot(app[s0].main)].id = app[s0].main
      BY <1>4, <3>1, SlotTyped DEF Recorded, HasTask, MyApp, Published
    <3> QED BY <3>2 DEF ids, MainOf
  <2>6. MainOf(id)' = MainOf(id)
    BY <1>1, <1>5 DEF MainOf
  <2>7. MainOf(job.id)' = MainOf(id)'
    BY <1>5 DEF MainOf
  <2> QED BY <1>2, <1>5, <1>6, <2>1, <2>3, <2>4, <2>5, <2>6, <2>7 DEF Listed, CleanUp, Running
<1>16. CountsExact'
  <2> DEFINE P == {k \in TaskSlots : Published(k)}
             L == {s \in Slots : Live(s)}
  <2>1. {k \in TaskSlots : Published(k)'} = P \ list /\ P \cap list = list
    BY <1>3, <1>7
  <2>2. {s \in Slots : Live(s)'} = L \ {s0} /\ s0 \in L
    BY <1>1, <1>5, BoundsAssumption DEF Live
  <2>3. IsFiniteSet(P) /\ IsFiniteSet(L) /\ Cardinality(P) \in Nat /\ Cardinality(L) \in Nat
    BY SlotsFinite
  <2>4. Cardinality(P \ list) = Cardinality(P) - Cardinality(list)
    BY <2>1, <2>3, FS_Difference
  <2>5. Cardinality(L \ {s0}) = Cardinality(L) - 1
    BY <2>2, <2>3, FS_RemoveElement
  <2>6. glob.apps = Cardinality(L) /\ glob.tasks = Cardinality(P)
    BY DEF TaskInv, CountsExact
  <2> HIDE DEF P, L
  <2> QED BY <1>6, <2>1, <2>2, <2>4, <2>5, <2>6 DEF CountsExact
<1> QED BY <1>10, <1>11, <1>12, <1>13, <1>14, <1>15, <1>16 DEF TaskInv

(* A task of the application, and what it created, is taken down.           *)
LEMMA KillTasks ==
  ASSUME AppInv, TaskInv, NEW t \in job.tasks, CleanupTaskResources(t)
  PROVE  TaskInv'
<1>1. /\ job.pc = "tasks" /\ job.pc \in CleanUp /\ CleaningUp(job.id) /\ job.id \in AppSerials
      /\ \A k \in TaskSlots : task[k].app = job.id => ~Published(k)
      /\ \A k \in TaskSlots :
              Running(k) /\ (os[k].id \in job.tasks \/ os[k].by \in job.tasks)
                => os[k].app = job.id
  BY OneLife, Places DEF CleanupTaskResources, CleanUp, TaskInv, Listed
<1>2. /\ app' = app /\ task' = task /\ glob' = glob /\ create' = create
      /\ \A k \in TaskSlots : os'[k] = IF k \in Doomed(t) THEN NoThread ELSE os[k]
      /\ job'.pc = "tasks" /\ job'.id = job.id /\ job'.tasks = job.tasks
      /\ job'.cleaned = job.cleaned \union {t}
  BY <1>1 DEF CleanupTaskResources, AppInv, Typed, JobRecord
<1>3. /\ NoThread.st = "none" /\ NoThread.id = FREE /\ NoThread.by = FREE
      /\ FREE \notin TaskSerials
      /\ \A k \in TaskSlots : Running(k)' => Running(k) /\ os'[k] = os[k] /\ k \notin Doomed(t)
  BY <1>2, Symbols DEF NoThread, Running
<1>4. \A k \in TaskSlots : Running(k) /\ k \in Doomed(t) => os[k].app = job.id
  BY <1>1 DEF Doomed
<1>5. \A k \in TaskSlots : Running(k) /\ os[k].app # job.id => os'[k] = os[k]
  BY <1>2, <1>4
<1>6. \A k \in TaskSlots : ~Running(k) => os'[k] = os[k]
  BY <1>2 DEF TaskInv, Given
<1>7. Given' /\ Families'
  BY <1>2, <1>3 DEF TaskInv, Given, Families, Running
<1>8. Matched'
  <2>1. \A k \in TaskSlots : Published(k) => os'[k] = os[k]
    BY <1>1, <1>5, Identified DEF TaskInv, Matched
  <2> QED BY <1>2, <2>1 DEF TaskInv, Matched, Published
<1>9. Mains' /\ CountsExact'
  BY <1>2 DEF TaskInv, Mains, Recorded, HasTask, MyApp, Live, CountsExact, Published
<1>10. Born'
  <2>1. ASSUME NEW a \in Actors, create[a].pc = "record"
        PROVE  os'[TaskSlot(create[a].t)] = os[TaskSlot(create[a].t)]
    <3>1. create[a].t \in TaskSerials /\ os[TaskSlot(create[a].t)].id = create[a].t
            /\ os[TaskSlot(create[a].t)].app = create[a].id /\ create[a].id # job.id
      BY <1>1, <2>1, OneLife, Places DEF AppInv, Placed, TaskInv, Born, Busy
    <3> QED BY <1>5, <3>1, Identified
  <2> QED BY <1>2, <2>1 DEF TaskInv, Born, Recorded, HasTask, MyApp, MainOf
<1>11. Kin'
  <2> SUFFICES ASSUME NEW k \in TaskSlots, Running(k), os'[k] = os[k], NEW i, i = os[k].app
               PROVE  /\ IsMatch(i)' \/ Creating(i)' \/ CleaningUp(i)'
                      /\ IsMatch(i)' \/ CleaningUp(i)'
                           => os[k].id = MainOf(i)' \/ os[k].by = MainOf(i)'
                      /\ \A b \in Actors : Busy(b)' /\ create'[b].id = i =>
                           create'[b].pc \in {"record", "publish"} /\ os[k].id = create'[b].t
    BY <1>3 DEF Kin
  <2>2. /\ IsMatch(i) \/ Creating(i) \/ CleaningUp(i)
        /\ IsMatch(i) \/ CleaningUp(i) => os[k].id = MainOf(i) \/ os[k].by = MainOf(i)
        /\ \A b \in Actors : Busy(b) /\ create[b].id = i =>
             create[b].pc \in {"record", "publish"} /\ os[k].id = create[b].t
    BY DEF TaskInv, Kin
  <2> QED BY <1>1, <1>2, <2>2 DEF IsMatch, Creating, CleaningUp, MainOf, Busy
<1>12. Quiet'
  <2>1. \A k \in TaskSlots : os'[k].st # "none" => os'[k] = os[k]
    BY <1>3 DEF Running
  <2> QED BY <1>2, <2>1 DEF TaskInv, Quiet, Published, IsMatch, MainOf
<1>13. Listed'
  <2>1. MainOf(job.id)' = MainOf(job.id)
    BY <1>2 DEF MainOf
  <2>2. ASSUME MainOf(job.id) \in job.cleaned \union {t}, NEW k \in TaskSlots, Running(k)'
        PROVE  os'[k].app # job.id
    <3>1. Running(k) /\ os'[k] = os[k] /\ k \notin Doomed(t)
      BY <1>3, <2>2
    <3>2. CASE MainOf(job.id) \in job.cleaned
      BY <1>1, <3>1, <3>2 DEF TaskInv, Listed
    <3>3. CASE MainOf(job.id) = t
      <4> SUFFICES ASSUME os[k].app = job.id PROVE FALSE
        BY <3>1
      <4>1. os[k].id = t \/ os[k].by = t
        BY <1>1, <3>1, <3>3 DEF TaskInv, Kin
      <4> QED BY <3>1, <4>1 DEF Doomed
    <3> QED BY <2>2, <3>2, <3>3
  <2>3. \A k \in TaskSlots :
              Running(k)' /\ (os'[k].id \in job.tasks \/ os'[k].by \in job.tasks)
                => os'[k].app = job.id
    BY <1>1, <1>3
  <2> QED BY <1>1, <1>2, <2>1, <2>2, <2>3 DEF TaskInv, Listed, Published
<1> QED BY <1>7, <1>8, <1>9, <1>10, <1>11, <1>12, <1>13 DEF TaskInv

LEMMA UnloadTasks ==
  ASSUME AppInv, TaskInv, UnloadModule
  PROVE  TaskInv'
<1>1. /\ job.pc = "tasks" /\ job.cleaned = job.tasks /\ job.pc \in CleanUp
      /\ app' = app /\ task' = task /\ glob' = glob /\ create' = create /\ os' = os
      /\ job'.pc = "free" /\ job'.id = job.id /\ job'.tasks = job.tasks
      /\ job'.cleaned = job.cleaned
  BY DEF UnloadModule, AppInv, Typed, JobRecord, CleanUp
<1>2. \A i : CleaningUp(i)' <=> CleaningUp(i)
  BY <1>1 DEF CleaningUp
<1>3. Given' /\ Matched' /\ Families' /\ Mains' /\ Born' /\ CountsExact'
  BY <1>1 DEF TaskInv, Given, Matched, Families, Mains, Born, CountsExact, Running,
     Published, Recorded, HasTask, MyApp, MainOf, Live
<1>4. Kin' /\ Quiet'
  <2>1. Kin'
    BY <1>1, <1>2 DEF TaskInv, Kin, Running, IsMatch, Creating, MainOf, Busy
  <2> QED BY <1>1, <2>1 DEF TaskInv, Quiet, Published, IsMatch, MainOf
<1>5. Listed'
  BY <1>1 DEF TaskInv, Listed, Published, MainOf, Running, CleanUp
<1> QED BY <1>3, <1>4, <1>5 DEF TaskInv

(* The clean-up ends: no task of the application is left. *)
LEMMA EndTasks ==
  ASSUME AppInv, TaskInv, CleanUpEnd, NEW id, id = job.id
  PROVE  TaskInv'
<1> DEFINE s0 == SlotOf(id)
<1>1. /\ id \in AppSerials /\ s0 \in Slots /\ app[s0].id = RESERVED /\ job.pc = "free"
      /\ job.pc \in CleanUp /\ CleaningUp(id) /\ s0 = JobSlot
  BY OneLife, Places DEF CleanUpEnd, OnJob, CleanUp, AppInv, Owned, Ending, JobSlot
<1>2. /\ app' = [app EXCEPT ![s0].id = FREE]
      /\ job' = IF Restarts THEN [job EXCEPT !.pc = "restart"] ELSE JobDone
      /\ os' = os /\ create' = create /\ glob' = glob
      /\ \A k \in TaskSlots :
           /\ task'[k].app = task[k].app
           /\ task'[k] = task[k] \/ (task[k].id = RESERVED /\ task'[k].id = FREE)
  BY DEF CleanUpEnd, Freed, AppInv, Typed, TaskRecord
<1>3. /\ app'[s0].id = FREE /\ \A s \in Slots : s # s0 => app'[s] = app[s]
      /\ \A s \in Slots : app'[s].main = app[s].main
      /\ \A s \in Slots : (Live(s)' <=> Live(s)) /\ (Live(s) => app'[s] = app[s])
  BY <1>1, <1>2, BoundsAssumption DEF AppInv, Typed, AppRecord, Live
<1>4. /\ job'.pc \notin CleanUp
      /\ job'.pc # "restart" => job'.tasks = {} /\ job'.cleaned = {}
  BY <1>2 DEF JobDone, NoJob, CleanUp, AppInv, Typed, JobRecord
<1>5. \A k \in TaskSlots : Running(k) => os[k].app # id
  <2>1. MainOf(job.id) \in job.tasks /\ job.cleaned = job.tasks
    BY <1>1 DEF TaskInv, Listed
  <2> QED BY <1>1, <2>1 DEF TaskInv, Listed
<1>6. \A k \in TaskSlots : /\ Published(k)' <=> Published(k)
                           /\ Published(k) => task'[k] = task[k]
  BY <1>2, BoundsAssumption DEF Published
<1>7. \A m \in TaskSerials : /\ HasTask(m)' <=> HasTask(m)
                             /\ MyApp(m)' = MyApp(m)
  BY <1>2, SlotTyped, Symbols DEF HasTask, MyApp
<1>8. ASSUME NEW k \in TaskSlots, Running(k), NEW i, i = os[k].app
      PROVE  /\ IsMatch(i)' <=> IsMatch(i)
             /\ Creating(i)' <=> Creating(i)
             /\ ~CleaningUp(i)' /\ ~CleaningUp(i)
             /\ MainOf(i)' = MainOf(i)
  <2>1. i \in AppSerials /\ SlotOf(i) \in Slots /\ i # FREE /\ i # RESERVED /\ i # id
    BY <1>5, <1>8, Identified, Places
  <2>2. IsMatch(i)' <=> IsMatch(i)
    BY <1>1, <1>3, <2>1 DEF IsMatch
  <2>3. ~CleaningUp(i)' /\ ~CleaningUp(i)
    BY <1>4, <2>1 DEF CleaningUp, CleanUp
  <2>4. Creating(i)' <=> Creating(i)
    BY <1>2 DEF Creating
  <2> QED BY <1>3, <2>1, <2>2, <2>3, <2>4 DEF MainOf
<1>9. Given' /\ Matched' /\ Families'
  <2>1. Matched'
    BY <1>2, <1>6 DEF TaskInv, Matched
  <2> QED BY <1>2, <2>1 DEF TaskInv, Given, Families, Running
<1>10. Mains'
  BY <1>3, <1>7 DEF TaskInv, Mains, Recorded, HasTask, MyApp
<1>11. Born'
  <2>1. ASSUME NEW a \in Actors, create[a].pc = "publish"
        PROVE  Recorded(create[a].t, create[a].id)' /\ MainOf(create[a].id)' = create[a].t
    <3>1. /\ Recorded(create[a].t, create[a].id) /\ MainOf(create[a].id) = create[a].t
          /\ SlotOf(create[a].id) \in Slots
      BY <2>1, Places DEF TaskInv, Born, Busy, CreateSlot
    <3>2. Recorded(create[a].t, create[a].id)'
      BY <1>2, <1>7, <3>1 DEF Recorded, HasTask, MyApp
    <3> QED BY <1>2, <1>3, <3>1, <3>2 DEF MainOf
  <2>2. \A a \in Actors : create[a].pc = "record" => task'[TaskSlot(create[a].t)].id # create[a].t
    BY <1>7 DEF HasTask, TaskInv, Born, AppInv, Placed
  <2> QED BY <1>2, <2>1, <2>2 DEF TaskInv, Born, HasTask
<1>12. Kin'
  <2>1. \A a \in Actors : Busy(a)' <=> Busy(a)
    BY <1>2 DEF Busy
  <2> QED BY <1>2, <1>8, <2>1 DEF TaskInv, Kin, Running
<1>13. Quiet'
  <2>1. \A k \in TaskSlots : os[k].st \in {"create", "record"} => Running(k)
    BY DEF Running
  <2> QED BY <1>2, <1>6, <1>8, <2>1 DEF TaskInv, Quiet
<1>14. Listed' /\ CountsExact'
  <2>1. Listed'
    BY <1>4 DEF Listed
  <2> QED BY <1>2, <1>3, <1>6, <2>1, SameCounts DEF TaskInv
<1> QED BY <1>9, <1>10, <1>11, <1>12, <1>13, <1>14 DEF TaskInv

(* A main task creates a child. *)
LEMMA ChildSpawnTasks ==
  ASSUME AppInv, TaskInv, NEW u \in Threads, os[TaskSlot(u)].st = "create",
         NEW t, t = NewTask, t \in TaskSerials, NEW i, i = os[TaskSlot(u)].app,
         os' = [os EXCEPT ![TaskSlot(u)].st = "record", ![TaskSlot(t)] = NewThread(t, i, u)],
         glob' = [glob EXCEPT !.lastTask = t],
         app' = app, task' = task, job' = job, create' = create
  PROVE  TaskInv'
<1> DEFINE k0 == TaskSlot(t)
           ku == TaskSlot(u)
<1>1. /\ u \in TaskSerials /\ ku \in TaskSlots /\ Running(ku) /\ os[ku].id = u /\ i \in AppSerials
      /\ k0 \in TaskSlots
  BY ThreadSlot, SlotTyped DEF AppInv
<1>2. IsMatch(i) /\ u = MainOf(i) /\ ~Creating(i) /\ ~CleaningUp(i)
  BY <1>1, OneLife DEF TaskInv, Quiet
<1>3. ~Running(k0) /\ k0 # ku
  BY <1>1, FreshTask DEF AppInv, Running
<1>4. /\ os'[k0] = NewThread(t, i, u)
      /\ \A k \in TaskSlots : k # k0 /\ k # ku => os'[k] = os[k]
      /\ os'[ku].id = u /\ os'[ku].app = i /\ os'[ku].by = os[ku].by /\ os'[ku].st = "record"
  <2> DEFINE o == [os EXCEPT ![ku].st = "record"]
  <2>1. os' = [o EXCEPT ![k0] = NewThread(t, i, u)]
    BY <1>1, <1>3 DEF AppInv, Typed
  <2>2. /\ o[ku].id = u /\ o[ku].app = i /\ o[ku].by = os[ku].by /\ o[ku].st = "record"
        /\ \A k \in TaskSlots : k # ku => o[k] = os[k]
        /\ DOMAIN o = TaskSlots /\ o = [k \in TaskSlots |-> o[k]]
    BY <1>1 DEF AppInv, Typed, ThreadRecord
  <2> HIDE DEF o
  <2> QED BY <1>1, <1>3, <2>1, <2>2
<1>5. \A k \in TaskSlots : k # k0 =>
           /\ os'[k].id = os[k].id /\ os'[k].app = os[k].app /\ os'[k].by = os[k].by
           /\ Running(k)' <=> Running(k)
           /\ ~Running(k) => os'[k] = os[k]
  BY <1>1, <1>4 DEF Running
<1>6. /\ Given' /\ Matched' /\ Families' /\ Mains' /\ Listed' /\ CountsExact'
      /\ ~Published(k0) /\ os[k0] = NoThread
  <2>1. u \in TaskSerials \union {FREE} /\ os[TaskSlot(u)].id = u /\ os[TaskSlot(u)].app = i
    BY <1>1
  <2>2. os'[TaskSlot(t)] = NewThread(t, i, u)
    BY <1>4
  <2> QED BY <1>1, <1>2, <1>5, <2>1, <2>2, SpawnTasks DEF Running
<1>7. os'[k0].id = t /\ os'[k0].st = "poll" /\ os'[k0].app = i /\ os'[k0].by = u
  BY <1>4 DEF NewThread
<1> HIDE DEF k0, ku
<1>8. Born'
  <2>1. ASSUME NEW b \in Actors, create[b].pc = "record"
        PROVE  os'[TaskSlot(create[b].t)] = os[TaskSlot(create[b].t)]
    <3>1. /\ create[b].t \in TaskSerials /\ os[TaskSlot(create[b].t)].id = create[b].t
          /\ os[TaskSlot(create[b].t)].st = "poll" /\ TaskSlot(create[b].t) \in TaskSlots
      BY <2>1, SlotTyped DEF AppInv, Placed, TaskInv, Born
    <3>2. TaskSlot(create[b].t) # ku
      BY <3>1 DEF ku
    <3>3. TaskSlot(create[b].t) # k0
      BY <1>3, <3>1 DEF Running
    <3> QED BY <1>4, <3>1, <3>2, <3>3
  <2> QED BY <2>1 DEF TaskInv, Born, Recorded, HasTask, MyApp, MainOf
<1>9. Kin'
  <2> SUFFICES ASSUME NEW k \in TaskSlots, Running(k)', NEW n, n = os'[k].app
               PROVE  /\ IsMatch(n)' \/ Creating(n)' \/ CleaningUp(n)'
                      /\ IsMatch(n)' \/ CleaningUp(n)'
                           => os'[k].id = MainOf(n)' \/ os'[k].by = MainOf(n)'
                      /\ \A b \in Actors : Busy(b)' /\ create'[b].id = n =>
                           create'[b].pc \in {"record", "publish"} /\ os'[k].id = create'[b].t
    BY DEF Kin
  <2>1. /\ IsMatch(n)' <=> IsMatch(n)
        /\ CleaningUp(n)' <=> CleaningUp(n)
        /\ Creating(n)' <=> Creating(n)
        /\ MainOf(n)' = MainOf(n)
        /\ \A b \in Actors : Busy(b)' <=> Busy(b)
    BY DEF IsMatch, CleaningUp, Creating, Busy, MainOf
  <2>2. CASE k = k0
    <3>1. n = i /\ os'[k].by = u
      BY <1>7, <2>2
    <3>2. \A b \in Actors : ~(Busy(b) /\ create[b].id = i)
      BY <1>2 DEF Creating, Busy
    <3> QED BY <1>2, <2>1, <3>1, <3>2
  <2>3. CASE k # k0
    <3>1. Running(k) /\ os[k].app = n /\ os'[k].id = os[k].id /\ os'[k].by = os[k].by
      BY <1>5, <2>3
    <3>2. /\ IsMatch(n) \/ Creating(n) \/ CleaningUp(n)
          /\ IsMatch(n) \/ CleaningUp(n) => os[k].id = MainOf(n) \/ os[k].by = MainOf(n)
          /\ \A b \in Actors : Busy(b) /\ create[b].id = n =>
               create[b].pc \in {"record", "publish"} /\ os[k].id = create[b].t
      BY <3>1 DEF TaskInv, Kin
    <3> QED BY <2>1, <3>1, <3>2
  <2> QED BY <2>2, <2>3
<1>10. Quiet'
  <2>1. ASSUME NEW k \in TaskSlots
        PROVE  /\ os'[k].st \in {"create", "record"} =>
                    IsMatch(os'[k].app) /\ os'[k].id = MainOf(os'[k].app)
               /\ os'[k].st = "leaving" => ~Published(k)
    <3>1. CASE k = k0
      BY <1>7, <3>1
    <3>2. CASE k = ku
      BY <1>2, <1>4, <3>2
    <3>3. CASE k # k0 /\ k # ku
      BY <1>4, <3>3 DEF TaskInv, Quiet
    <3> QED BY <3>1, <3>2, <3>3
  <2> QED BY <2>1 DEF Quiet, Published, IsMatch, MainOf
<1> QED BY <1>6, <1>8, <1>9, <1>10 DEF TaskInv

(* ... and enters its record. *)
LEMMA ChildRecordTasks ==
  ASSUME AppInv, TaskInv, NEW t \in Threads, NEW c \in Threads, CreateChildRecord(t, c),
         NEW i, i = os[TaskSlot(t)].app
  PROVE  TaskInv'
<1>1. /\ t \in TaskSerials /\ TaskSlot(t) \in TaskSlots /\ os[TaskSlot(t)].id = t
      /\ c \in TaskSerials /\ TaskSlot(c) \in TaskSlots /\ os[TaskSlot(c)].id = c
      /\ Running(TaskSlot(t)) /\ Running(TaskSlot(c)) /\ i \in AppSerials
  BY ThreadSlot DEF AppInv
<1>2. /\ os[TaskSlot(t)].st = "record" /\ os[TaskSlot(c)].by = t
      /\ os[TaskSlot(c)].st = "poll" /\ ~HasTask(c) /\ c # t
      /\ task' = [task EXCEPT ![TaskSlot(c)] = [id |-> c, app |-> i]]
      /\ glob' = [glob EXCEPT !.tasks = @ + 1]
      /\ os' = [os EXCEPT ![TaskSlot(t)].st = "run"]
      /\ app' = app /\ create' = create /\ job' = job
  BY <1>1 DEF CreateChildRecord, Doing, RecordTask, Become
<1>3. IsMatch(i) /\ ~Creating(i) /\ ~CleaningUp(i)
  BY <1>1, <1>2, OneLife DEF TaskInv, Quiet
<1>4. os[TaskSlot(c)].app = i
  BY <1>1, <1>2 DEF TaskInv, Families
<1>5. /\ SameThreads
      /\ \A k \in TaskSlots : os'[k].st = "run" \/ os'[k].st = os[k].st
      /\ \A k \in TaskSlots : k # TaskSlot(t) => os'[k] = os[k]
  BY <1>1, <1>2 DEF SameThreads, Running, AppInv, Typed, ThreadRecord
<1>6. /\ Given' /\ Matched' /\ Families' /\ Mains' /\ Listed' /\ CountsExact'
      /\ \A m \in TaskSerials : m # c => (HasTask(m)' <=> HasTask(m))
      /\ \A m \in TaskSerials : HasTask(m) => m # c /\ MyApp(m)' = MyApp(m)
  BY <1>1, <1>2, <1>3, <1>4, <1>5, EnterTasks
<1>7. Born'
  <2>1. ASSUME NEW b \in Actors, create[b].pc = "record"
        PROVE  /\ os'[TaskSlot(create[b].t)] = os[TaskSlot(create[b].t)]
               /\ task'[TaskSlot(create[b].t)].id # create[b].t
    <3>1. /\ create[b].t \in TaskSerials /\ TaskSlot(create[b].t) \in TaskSlots
          /\ ~HasTask(create[b].t) /\ os[TaskSlot(create[b].t)].st = "poll"
          /\ os[TaskSlot(create[b].t)].app = create[b].id /\ Creating(create[b].id)
      BY <2>1, SlotTyped, OneLife DEF TaskInv, Born, AppInv, Placed, Busy
    <3>2. create[b].t # c /\ TaskSlot(create[b].t) # TaskSlot(t)
      BY <1>2, <1>3, <1>4, <3>1
    <3> QED BY <1>5, <1>6, <3>1, <3>2 DEF HasTask
  <2>2. ASSUME NEW b \in Actors, create[b].pc = "publish"
        PROVE  Recorded(create[b].t, create[b].id)' /\ MainOf(create[b].id)' = create[b].t
    <3>1. /\ Recorded(create[b].t, create[b].id) /\ MainOf(create[b].id) = create[b].t
      BY <2>2 DEF TaskInv, Born
    <3>2. Recorded(create[b].t, create[b].id)'
      BY <1>2, <1>6, <3>1 DEF Recorded, HasTask, MyApp
    <3> QED BY <1>2, <3>1, <3>2 DEF MainOf
  <2> QED BY <1>2, <2>1, <2>2 DEF TaskInv, Born, HasTask
<1>8. Kin'
  BY <1>2, <1>5 DEF TaskInv, Kin, SameThreads, IsMatch, Creating, CleaningUp, MainOf, Busy
<1>9. Quiet'
  <2>1. ASSUME NEW k \in TaskSlots, os'[k].st = "leaving" PROVE ~Published(k)'
    <3>1. os[k].st = "leaving" /\ k # TaskSlot(c)
      BY <1>2, <1>5, <2>1
    <3> QED BY <1>2, <3>1 DEF TaskInv, Quiet, Published, AppInv, Typed
  <2>2. \A k \in TaskSlots : os'[k].st \in {"create", "record"} =>
          IsMatch(os'[k].app) /\ os'[k].id = MainOf(os'[k].app)
    BY <1>5 DEF TaskInv, Quiet, SameThreads
  <2> QED BY <1>2, <2>1, <2>2 DEF Quiet, IsMatch, MainOf
<1> QED BY <1>6, <1>7, <1>8, <1>9 DEF TaskInv

(* A child gives up its record, and its OSAL task with it or a little later. *)
LEMMA LeaveTasks ==
  ASSUME AppInv, TaskInv, NEW c \in Threads, HasTask(c),
         \A s \in Slots : Live(s) => app[s].main # c,
         \A a \in Actors : create[a].pc = "publish" => create[a].t # c,
         task' = [task EXCEPT ![TaskSlot(c)].id = FREE],
         glob' = [glob EXCEPT !.tasks = @ - 1],
         app' = app, create' = create, job' = job,
         \A k \in TaskSlots : k # TaskSlot(c) => os'[k] = os[k],
         \/ os'[TaskSlot(c)] = NoThread
         \/ os' = [os EXCEPT ![TaskSlot(c)].st = "leaving"]
  PROVE  TaskInv'
<1> DEFINE k0 == TaskSlot(c)
<1>1. c \in TaskSerials /\ k0 \in TaskSlots /\ Running(k0) /\ os[k0].id = c
  BY ThreadSlot DEF AppInv
<1>2. /\ task'[k0].id = FREE /\ \A k \in TaskSlots : k # k0 => task'[k] = task[k]
      /\ \A k \in TaskSlots : task'[k].app = task[k].app
      /\ glob'.lastTask = glob.lastTask /\ glob'.apps = glob.apps
      /\ glob'.tasks = glob.tasks - 1
  BY <1>1 DEF AppInv, Typed, TaskRecord
<1>3. /\ Published(k0) /\ ~Published(k0)'
      /\ \A k \in TaskSlots : k # k0 => (Published(k)' <=> Published(k))
  BY <1>1, <1>2, Identified DEF Published, HasTask
<1>4. /\ \A k \in TaskSlots : Running(k)' =>
           /\ Running(k) /\ os'[k].id = os[k].id /\ os'[k].app = os[k].app
           /\ os'[k].by = os[k].by
           /\ os'[k].st = os[k].st \/ (k = k0 /\ os'[k].st = "leaving")
      /\ \A k \in TaskSlots : ~Running(k)' => os'[k] = NoThread
      /\ \A k \in TaskSlots : os'[k].by = os[k].by \/ os'[k].by = FREE
      /\ \A k \in TaskSlots : k # k0 => os'[k] = os[k]
  <2>1. CASE os'[k0] = NoThread
    BY <1>1, <2>1 DEF NoThread, Running, TaskInv, Given
  <2>2. CASE os' = [os EXCEPT ![k0].st = "leaving"]
    BY <1>1, <2>2 DEF Running, TaskInv, Given, AppInv, Typed, ThreadRecord
  <2> QED BY <2>1, <2>2
<1> HIDE DEF k0
<1>5. \A m \in TaskSerials : HasTask(m) /\ m # c => HasTask(m)' /\ MyApp(m)' = MyApp(m)
  BY <1>2, SlotTyped DEF HasTask, MyApp, k0
<1>6. \A m \in TaskSerials : ~HasTask(m) => ~HasTask(m)'
  BY <1>2, SlotTyped, Symbols DEF HasTask, k0
<1>7. Given' /\ Matched' /\ Families'
  <2>1. Given'
    BY <1>2, <1>4, Symbols DEF TaskInv, Given
  <2>2. Matched'
    BY <1>2, <1>3, <1>4 DEF TaskInv, Matched
  <2> QED BY <1>4, <2>1, <2>2 DEF TaskInv, Families
<1>8. Mains'
  <2> SUFFICES ASSUME NEW s \in Slots, Live(s) PROVE Recorded(app[s].main, app[s].id)'
    BY DEF Mains, Live
  <2>1. Recorded(app[s].main, app[s].id) /\ app[s].main # c
    BY DEF TaskInv, Mains
  <2> QED BY <1>5, <2>1 DEF Recorded, HasTask, MyApp
<1>9. Born'
  <2>1. ASSUME NEW b \in Actors, create[b].pc = "record"
        PROVE  /\ os'[TaskSlot(create[b].t)] = os[TaskSlot(create[b].t)]
               /\ task'[TaskSlot(create[b].t)].id # create[b].t
    <3>1. /\ create[b].t \in TaskSerials /\ TaskSlot(create[b].t) \in TaskSlots
          /\ ~HasTask(create[b].t) /\ os[TaskSlot(create[b].t)].id = create[b].t
      BY <2>1, SlotTyped DEF TaskInv, Born, AppInv, Placed
    <3>2. TaskSlot(create[b].t) # k0
      BY <1>1, <3>1
    <3> QED BY <1>4, <1>6, <3>1, <3>2 DEF HasTask
  <2>2. ASSUME NEW b \in Actors, create[b].pc = "publish"
        PROVE  Recorded(create[b].t, create[b].id)' /\ MainOf(create[b].id)' = create[b].t
    <3>1. /\ Recorded(create[b].t, create[b].id) /\ MainOf(create[b].id) = create[b].t
          /\ create[b].t # c
      BY <2>2 DEF TaskInv, Born
    <3>2. Recorded(create[b].t, create[b].id)'
      BY <1>5, <3>1 DEF Recorded, HasTask, MyApp
    <3> QED BY <3>1, <3>2 DEF MainOf
  <2> QED BY <2>1, <2>2 DEF TaskInv, Born, HasTask
<1>10. Kin'
  BY <1>4 DEF TaskInv, Kin, IsMatch, Creating, CleaningUp, MainOf, Busy
<1>11. Quiet'
  <2>1. ASSUME NEW k \in TaskSlots, os'[k].st = "leaving" PROVE ~Published(k)'
    <3>1. CASE k = k0
      BY <1>3, <3>1
    <3>2. CASE k # k0
      BY <1>3, <1>4, <2>1, <3>2 DEF TaskInv, Quiet
    <3> QED BY <3>1, <3>2
  <2>2. ASSUME NEW k \in TaskSlots, os'[k].st \in {"create", "record"}
        PROVE  IsMatch(os'[k].app) /\ os'[k].id = MainOf(os'[k].app)
    <3>1. Running(k)'
      BY <2>2 DEF Running
    <3> QED BY <1>4, <2>2, <3>1 DEF TaskInv, Quiet
  <2> QED BY <2>1, <2>2 DEF Quiet, IsMatch, MainOf
<1>12. Listed'
  BY <1>2, <1>3, <1>4 DEF TaskInv, Listed, MainOf
<1>13. CountsExact'
  <2>1. \A s \in Slots : Live(s)' <=> Live(s)
    BY DEF Live
  <2> QED BY <1>1, <1>2, <1>3, <2>1, TaskCounted DEF TaskInv
<1> QED BY <1>7, <1>8, <1>9, <1>10, <1>11, <1>12, <1>13 DEF TaskInv

LEMMA TaskExitTasks ==
  ASSUME AppInv, TaskInv, NEW t \in Threads, OS_TaskExit(t)
  PROVE  TaskInv'
<1> DEFINE k0 == TaskSlot(t)
<1>1. t \in TaskSerials /\ k0 \in TaskSlots /\ Running(k0) /\ os[k0].id = t
  BY ThreadSlot DEF AppInv
<1>2. /\ os[k0].st = "leaving" /\ ~Published(k0)
      /\ os'[k0] = NoThread /\ \A k \in TaskSlots : k # k0 => os'[k] = os[k]
      /\ app' = app /\ task' = task /\ glob' = glob /\ create' = create /\ job' = job
  BY <1>1 DEF OS_TaskExit, Doing, TaskInv, Quiet, AppInv, Typed
<1>3. /\ \A k \in TaskSlots : Running(k)' => Running(k) /\ os'[k] = os[k]
      /\ \A k \in TaskSlots : os'[k] = os[k] \/ os'[k] = NoThread
      /\ NoThread.st = "none" /\ NoThread.by = FREE
  BY <1>2 DEF NoThread, Running
<1> HIDE DEF k0
<1>4. Given' /\ Matched' /\ Families'
  <2>1. Given'
    BY <1>2, <1>3, Symbols DEF TaskInv, Given, Running
  <2>2. Matched'
    BY <1>2 DEF TaskInv, Matched, Published
  <2> QED BY <1>3, <2>1, <2>2 DEF TaskInv, Families
<1>5. Mains' /\ CountsExact'
  BY <1>2 DEF TaskInv, Mains, Recorded, HasTask, MyApp, Live, CountsExact, Published
<1>6. Born'
  <2>1. ASSUME NEW b \in Actors, create[b].pc = "record"
        PROVE  os'[TaskSlot(create[b].t)] = os[TaskSlot(create[b].t)]
    <3>1. /\ create[b].t \in TaskSerials /\ TaskSlot(create[b].t) \in TaskSlots
          /\ os[TaskSlot(create[b].t)].st = "poll"
      BY <2>1, SlotTyped DEF TaskInv, Born, AppInv, Placed
    <3> QED BY <1>2, <3>1
  <2> QED BY <1>2, <2>1 DEF TaskInv, Born, Recorded, HasTask, MyApp, MainOf
<1>7. Kin'
  BY <1>2, <1>3 DEF TaskInv, Kin, IsMatch, Creating, CleaningUp, MainOf, Busy
<1>8. Quiet'
  <2>1. \A k \in TaskSlots : os'[k].st # "none" => os'[k] = os[k]
    BY <1>3
  <2> QED BY <1>2, <2>1 DEF TaskInv, Quiet, Published, IsMatch, MainOf
<1>9. Listed'
  BY <1>2, <1>3 DEF TaskInv, Listed, Published, MainOf
<1> QED BY <1>4, <1>5, <1>6, <1>7, <1>8, <1>9 DEF TaskInv

LEMMA CallTasks ==
  ASSUME AppInv, TaskInv, NEW t \in Threads, Doing(t, "run"), Call(t)
  PROVE  TaskInv'
<1> DEFINE k0 == TaskSlot(t)
<1>1. t \in TaskSerials /\ k0 \in TaskSlots /\ Running(k0) /\ os[k0].id = t /\ os[k0].st = "run"
  BY ThreadSlot DEF AppInv, Doing
<1>2. ASSUME NEW st \in {EARLY_INIT, LATE_INIT, RUNNING}, ReportState(t, st) PROVE TaskInv'
  <2>1. /\ SameThreads /\ SameCreates /\ SameJob /\ task' = task /\ glob' = glob /\ os' = os
    BY <1>2 DEF ReportState, SameThreads, SameCreates, SameJob, Running
  <2>2. SameApps
    BY <1>2 DEF ReportState, SameApps, AppInv, Typed, AppRecord
  <2> QED BY <2>1, <2>2, QuietTasks
<1>3. ASSUME NEW u \in {"halt", "create"}, Become(t, u),
             u = "create" => IsMatch(os[k0].app) /\ t = MainOf(os[k0].app)
      PROVE  /\ SameThreads
             /\ \A k \in TaskSlots :
                  /\ os'[k].st \in {"create", "record"} /\ os'[k].st # os[k].st =>
                       IsMatch(os[k].app) /\ os[k].id = MainOf(os[k].app)
                  /\ os'[k].st = "leaving" => os[k].st = "leaving"
                  /\ os[k].st = "poll" => os'[k].st = "poll"
  <2>1. /\ \A k \in TaskSlots : k # k0 => os'[k] = os[k]
        /\ os'[k0].id = t /\ os'[k0].app = os[k0].app /\ os'[k0].by = os[k0].by
        /\ os'[k0].st = u
    BY <1>1, <1>3 DEF Become, AppInv, Typed, ThreadRecord
  <2>2. SameThreads
    BY <1>1, <1>3, <2>1 DEF SameThreads, Running
  <2> QED BY <1>1, <1>3, <2>1, <2>2
<1>4. ASSUME NEW status \in ExitStatus, ExitApp(t, status) PROVE TaskInv'
  <2>1. /\ SameCreates /\ SameJob /\ task' = task /\ glob' = glob /\ Become(t, "halt")
    BY <1>4 DEF ExitApp, SameCreates, SameJob
  <2>2. SameApps
    BY <1>4 DEF ExitApp, SameApps, AppInv, Typed, AppRecord
  <2> QED BY <1>3, <2>1, <2>2, QuietTasks
<1>5. CASE CreateChildBegin(t)
  <2>1. /\ SameApps /\ SameCreates /\ SameJob /\ task' = task /\ glob' = glob
        /\ Become(t, "create") /\ HasApp(t) /\ IsMain(t)
    BY <1>5 DEF CreateChildBegin, SameApps, SameCreates, SameJob
  <2>2. task[k0].id = t /\ task[k0].app = os[k0].app
    BY <1>1, <2>1, Identified DEF HasApp, HasTask, TaskInv, Matched
  <2>3. IsMatch(os[k0].app) /\ t = MainOf(os[k0].app)
    BY <2>1, <2>2 DEF HasApp, IsMain, MyApp, MainOf
  <2> QED BY <1>3, <2>1, <2>3, QuietTasks
<1>6. ASSUME NEW c \in Threads, DeleteChildTask(t, c) PROVE TaskInv'
  <2>1. c \in TaskSerials /\ TaskSlot(c) \in TaskSlots
    BY ThreadSlot DEF AppInv
  <2>2. \A s \in Slots : Used(s) => app[s].main # c
    BY <1>6 DEF DeleteChildTask
  <2>3. \A s \in Slots : Live(s) => app[s].main # c
    BY <2>2, BoundsAssumption DEF Live, Used
  <2>4. \A a \in Actors : create[a].pc = "publish" => create[a].t # c
    <3>1. \A a \in Actors : create[a].pc = "publish" =>
             CreateSlot(a) \in Slots /\ Used(CreateSlot(a)) /\ app[CreateSlot(a)].main = create[a].t
      BY Places DEF AppInv, Owned, Starting, Busy, Used, TaskInv, Born, MainOf, CreateSlot
    <3> QED BY <2>2, <3>1
  <2>5. /\ HasTask(c) /\ task' = [task EXCEPT ![TaskSlot(c)].id = FREE]
        /\ glob' = [glob EXCEPT !.tasks = @ - 1]
        /\ app' = app /\ create' = create /\ job' = job
        /\ os' = [os EXCEPT ![TaskSlot(c)] = NoThread]
    BY <1>6 DEF DeleteChildTask, ClearTask
  <2>6. os'[TaskSlot(c)] = NoThread /\ \A k \in TaskSlots : k # TaskSlot(c) => os'[k] = os[k]
    BY <2>1, <2>5 DEF AppInv, Typed
  <2> QED BY <2>3, <2>4, <2>5, <2>6, LeaveTasks
<1>7. CASE ExitChildTask(t)
  <2>1. /\ HasApp(t) /\ ~IsMain(t) /\ HasTask(t) /\ IsMatch(MyApp(t))
        /\ task' = [task EXCEPT ![k0].id = FREE]
        /\ glob' = [glob EXCEPT !.tasks = @ - 1]
        /\ app' = app /\ create' = create /\ job' = job
        /\ os' = [os EXCEPT ![k0].st = "leaving"]
    BY <1>7 DEF ExitChildTask, ClearTask, Become, HasApp
  <2>2. \A s \in Slots : Live(s) => app[s].main # t
    <3> SUFFICES ASSUME NEW s \in Slots, Live(s), app[s].main = t PROVE FALSE
      OBVIOUS
    <3>1. MyApp(t) = app[s].id /\ SlotOf(app[s].id) = s
      BY DEF TaskInv, Mains, Recorded, AppInv, Owned, Lead
    <3> QED BY <2>1, <3>1 DEF IsMain
  <2>3. \A a \in Actors : create[a].pc = "publish" => create[a].t # t
    <3> SUFFICES ASSUME NEW a \in Actors, create[a].pc = "publish", create[a].t = t PROVE FALSE
      OBVIOUS
    <3>1. MyApp(t) = create[a].id /\ Creating(create[a].id) /\ create[a].id \in AppSerials
      BY OneLife, Places DEF TaskInv, Born, Recorded, Busy
    <3> QED BY <2>1, <3>1, OneLife
  <2>4. \A k \in TaskSlots : k # k0 => os'[k] = os[k]
    BY <2>1 DEF AppInv, Typed
  <2> QED BY <2>1, <2>2, <2>3, <2>4, LeaveTasks
<1> QED BY <1>2, <1>4, <1>5, <1>6, <1>7 DEF Call

LEMMA ThreadStepTasks ==
  ASSUME AppInv, TaskInv, NEW t \in Threads, ThreadStep(t)
  PROVE  TaskInv'
<1> DEFINE k0 == TaskSlot(t)
<1>1. t \in TaskSerials /\ k0 \in TaskSlots /\ Running(k0) /\ os[k0].id = t
  BY ThreadSlot DEF AppInv
<1>2. ASSUME Become(t, "run"), os[k0].st = "poll" => HasTask(t)
      PROVE  /\ SameThreads
             /\ \A k \in TaskSlots :
                  /\ os'[k].st = os[k].st \/ os'[k].st = "run"
                  /\ os[k].st = "poll" => os'[k].st = "poll" \/ HasTask(os[k].id)
  <2>1. /\ \A k \in TaskSlots : k # k0 => os'[k] = os[k]
        /\ os'[k0].id = t /\ os'[k0].app = os[k0].app /\ os'[k0].by = os[k0].by
        /\ os'[k0].st = "run"
    BY <1>1, <1>2 DEF Become, AppInv, Typed, ThreadRecord
  <2>2. SameThreads
    BY <1>1, <1>2, <2>1 DEF SameThreads, Running
  <2> QED BY <1>1, <1>2, <2>1, <2>2
<1>3. ASSUME UNCHANGED <<app, create, job>>
      PROVE  SameApps /\ SameCreates /\ SameJob
  BY <1>3 DEF SameApps, SameCreates, SameJob
<1>4. CASE Poll(t)
  <2>1. /\ Become(t, "run") /\ HasTask(t) /\ task' = task /\ glob' = glob
        /\ UNCHANGED <<app, create, job>>
    BY <1>4 DEF Poll
  <2> QED BY <1>2, <1>3, <2>1, QuietTasks
<1>5. CASE CreateChildTask(t)
  <2>1. /\ os[k0].st = "create" /\ task' = task
        /\ UNCHANGED <<app, create, job>>
    BY <1>5 DEF CreateChildTask, Doing
  <2>2. CASE /\ NewTask \in TaskSerials
             /\ os' = [os EXCEPT ![k0].st = "record",
                      ![TaskSlot(NewTask)] = NewThread(NewTask, os[k0].app, t)]
             /\ glob' = [glob EXCEPT !.lastTask = NewTask]
    BY <2>1, <2>2, ChildSpawnTasks
  <2>3. CASE Become(t, "run") /\ UNCHANGED glob
    BY <1>2, <1>3, <2>1, <2>3, QuietTasks
  <2> QED BY <1>5, <2>2, <2>3 DEF CreateChildTask
<1> QED BY <1>4, <1>5, ChildRecordTasks, TaskExitTasks DEF ThreadStep

LEMMA CreationTasks ==
  ASSUME AppInv, TaskInv, NEW a \in Actors, Creation(a)
  PROVE  TaskInv'
<1>0. create[a] \in CreateRecord
  BY DEF AppInv, Typed
<1>1. ASSUME NEW pc \in {"main", "fail"}, create' = [create EXCEPT ![a].pc = pc],
             create[a].pc \in {"load", "main"}, UNCHANGED <<app, task, os, glob, job>>
      PROVE  TaskInv'
  <2>1. SameApps /\ SameThreads /\ SameJob
    BY <1>1 DEF SameApps, SameThreads, SameJob, Running
  <2>2. SameCreates
    BY <1>0, <1>1 DEF SameCreates, AppInv, Typed, CreateRecord
  <2> QED BY <1>1, <2>1, <2>2, QuietTasks
<1>2. CASE LoadModule(a)
  BY <1>1, <1>2 DEF LoadModule, Goto
<1>3. CASE CreateMainTask(a)
  <2>1. CASE /\ NewTask \in TaskSerials
             /\ os' = [os EXCEPT ![TaskSlot(NewTask)] =
                            NewThread(NewTask, create[a].id, FREE)]
             /\ glob' = [glob EXCEPT !.lastTask = NewTask]
             /\ create' = [create EXCEPT ![a].pc = "record", ![a].t = NewTask]
    BY <1>3, <2>1, MainSpawnTasks DEF CreateMainTask
  <2>2. CASE Goto(a, "fail") /\ UNCHANGED <<os, glob>>
    BY <1>1, <1>3, <2>2 DEF CreateMainTask, Goto
  <2> QED BY <1>3, <2>1, <2>2 DEF CreateMainTask
<1> QED BY <1>2, <1>3, RecordMainTasks, PublishTasks, FailTasks DEF Creation

LEMMA StillTasks ==
  ASSUME AppInv, TaskInv, SameApps, UNCHANGED <<task, glob, os, create>>, SameJob
  PROVE  TaskInv'
<1>1. SameThreads /\ SameCreates
  BY DEF SameThreads, SameCreates, Running
<1> QED BY <1>1, QuietTasks

LEMMA CommandTasks ==
  ASSUME AppInv, TaskInv, Command
  PROVE  TaskInv'
<1>1. ASSUME NEW n \in Names, StartAppCmd(n) PROVE TaskInv'
  <2>1. /\ AppCreateReserve("cmd", n, FreeAppSlot) /\ ~Busy("cmd") /\ "cmd" \in Actors
        /\ SameJob /\ task' = task /\ os' = os
    BY <1>1 DEF StartAppCmd, CmdIdle, Busy, Actors, SameJob
  <2> QED BY <2>1, ReserveTasks
<1>2. ASSUME NEW n \in Names, GetAppIDByName(n) PROVE TaskInv'
  BY <1>2, StillTasks DEF GetAppIDByName, SameApps, SameJob
<1>3. ASSUME NEW r \in Requests, ControlApp(r) PROVE TaskInv'
  <2>1. SameApps
    BY <1>3 DEF ControlApp, SameApps, AppInv, Typed, AppRecord
  <2> QED BY <1>3, <2>1, StillTasks DEF ControlApp, SameJob
<1>4. ASSUME NEW r \in Requests, ControlAppRefused(r) PROVE TaskInv'
  BY <1>4, StillTasks DEF ControlAppRefused, SameApps, SameJob
<1> QED BY <1>1, <1>2, <1>3, <1>4 DEF Command

LEMMA BackgroundTasks ==
  ASSUME AppInv, TaskInv, QuietCleanup, Background
  PROVE  TaskInv'
<1>0. job \in JobRecord
  BY DEF AppInv, Typed
<1>1. ASSUME NEW e \in Delays, SkipScan(e) PROVE TaskInv'
  BY <1>1, StillTasks DEF SkipScan, SameApps, SameJob
<1>2. ASSUME NEW e \in Delays, RunAppTableScan(e) PROVE TaskInv'
  <2>1. \A s \in Slots : Scanned(s, e).id = app[s].id /\ Scanned(s, e).main = app[s].main
    BY DEF Scanned, AppInv, Typed, AppRecord
  <2>2. SameApps
    BY <1>2, <2>1 DEF RunAppTableScan, SameApps
  <2>3. SameJob
    <3>1. /\ job.pc = "idle" /\ job'.pc \in {"idle", "next"}
          /\ job'.tasks = job.tasks /\ job'.cleaned = job.cleaned
      BY <1>0, <1>2 DEF RunAppTableScan, BackgroundIdle, JobRecord
    <3> QED BY <3>1 DEF SameJob, CleanUp, TaskInv, Listed
  <2> QED BY <1>2, <2>2, <2>3, StillTasks DEF RunAppTableScan
<1>3. CASE ProcessControlRequest
  <2>1. /\ job.pc = "next" /\ job'.pc = "begin"
        /\ job'.tasks = job.tasks /\ job'.cleaned = job.cleaned
    BY <1>0, <1>3 DEF ProcessControlRequest, JobRecord
  <2>2. SameJob
    BY <2>1 DEF SameJob, CleanUp, TaskInv, Listed
  <2> QED BY <1>3, <2>2, StillTasks DEF ProcessControlRequest, SameApps
<1>4. CASE RestartApp
  <2>1. /\ job.pc = "restart" /\ job'.pc \in {"idle", "next"}
        /\ job'.tasks = {} /\ job'.cleaned = {}
    BY <1>4 DEF RestartApp, JobDone, NoJob
  <2>2. SameJob
    BY <2>1 DEF SameJob, CleanUp
  <2>3. CASE AppCreateReserve("bg", job.name, FreeAppSlot)
    <3>1. job.name \in Names /\ ~Busy("bg") /\ "bg" \in Actors
      BY <2>1 DEF AppInv, Owned, Starting, Named, Actors
    <3> QED BY <1>4, <2>2, <2>3, <3>1, ReserveTasks DEF RestartApp
  <2>4. CASE UNCHANGED <<app, glob, create, asked, waited>>
    BY <1>4, <2>2, <2>4, StillTasks DEF RestartApp, SameApps
  <2> QED BY <1>4, <2>3, <2>4 DEF RestartApp
<1> QED BY <1>1, <1>2, <1>3, <1>4, BeginTasks, KillTasks, UnloadTasks, EndTasks DEF Background

LEMMA NextTasks ==
  ASSUME AppInv, TaskInv, QuietCleanup, [Next]_vars
  PROVE  TaskInv'
<1>1. CASE UNCHANGED vars
  BY <1>1, StillTasks DEF vars, SameApps, SameJob
<1> QED BY <1>1, CreationTasks, CommandTasks, BackgroundTasks, ThreadStepTasks, CallTasks DEF Next

LEMMA InitTasks == Init => TaskInv
<1> SUFFICES ASSUME Init PROVE TaskInv
  OBVIOUS
<1>1. /\ \A k \in TaskSlots : ~Running(k) /\ os[k] = NoThread /\ os[k].by = FREE
      /\ \A k \in TaskSlots : ~Published(k)
      /\ \A s \in Slots : ~Live(s)
      /\ \A a \in Actors : create[a].pc = "idle"
      /\ job.pc = "idle" /\ job.tasks = {} /\ job.cleaned = {}
      /\ glob.apps = 0 /\ glob.tasks = 0
  BY BoundsAssumption DEF Init, NoThread, Running, Published, Live, EmptyTask, EmptyApp,
     Idle, NoJob
<1>2. Given /\ Matched /\ Families /\ Mains /\ Born
  BY <1>1, Symbols DEF Given, Matched, Families, Mains, Born
<1>3. Kin /\ Quiet /\ Listed
  BY <1>1 DEF Kin, Quiet, Listed, CleanUp, Running
<1>4. CountsExact
  <2>1. {s \in Slots : Live(s)} = {} /\ {k \in TaskSlots : Published(k)} = {}
    BY <1>1
  <2> QED BY <1>1, <2>1, FS_EmptySet DEF CountsExact
<1> QED BY <1>2, <1>3, <1>4 DEF TaskInv

LEMMA AlwaysTasks ==
  ASSUME QuietCleanup
  PROVE  Spec => [](AppInv /\ TaskInv)
<1>1. Init => AppInv /\ TaskInv
  BY InitTyped, InitOwned, InitTasks DEF AppInv
<1>2. AppInv /\ TaskInv /\ [Next]_vars => AppInv' /\ TaskInv'
  BY NextInv, NextTasks
<1> QED BY <1>1, <1>2, PTL DEF Spec

-----------------------------------------------------------------------------
(* When no clean-up begins while a task of the application is inside        *)
(* CreateChildTask, the counts in the telemetry are the numbers of          *)
(* published records at every release of the ES lock, and every task record *)
(* names a task that exists or is freed by the clean-up under way.          *)
THEOREM RecordsAndCounts == Spec /\ QuietCleanup => []RecordsExact
<1> SUFFICES ASSUME QuietCleanup PROVE Spec => []RecordsExact
  OBVIOUS
<1>1. ASSUME AppInv, TaskInv PROVE RecordsExact
  <2>1. TypeOK
    <3>1. glob.apps \in Nat /\ glob.tasks \in Nat
      BY <1>1, SlotsFinite DEF TaskInv, CountsExact
    <3>2. glob \in [lastApp : Nat, lastTask : Nat, apps : Nat, tasks : Nat]
      BY <1>1, <3>1, Bounds DEF AppInv, Typed
    <3>3. loaded \subseteq Names
      BY <1>1 DEF AppInv, Owned, Named
    <3>4. \A s \in Slots : app[s] \in AppRecord
      BY <1>1 DEF AppInv, Typed
    <3>5. \A k \in TaskSlots : task[k] \in TaskRecord /\ os[k] \in ThreadRecord
      BY <1>1 DEF AppInv, Typed
    <3>6. scan.timer \in 0..SCAN_RATE
      BY <1>1 DEF AppInv, Typed
    <3> QED BY <3>2, <3>3, <3>4, <3>5, <3>6, SlotTyped
            DEF TypeOK, AppRecord, TaskRecord, ThreadRecord, Reqs
  <2>2. CountsExact
    BY <1>1 DEF TaskInv
  <2>3. RecordsLive
    BY <1>1, Identified DEF RecordsLive, AppInv, Placed, TaskInv, Matched, Alive
  <2> QED BY <2>1, <2>2, <2>3 DEF RecordsExact
<1> QED BY <1>1, AlwaysTasks, PTL

-----------------------------------------------------------------------------
(* The modules OSAL has loaded. *)

LEMMA InitModules == Init => ModulesOwned
  BY DEF Init, ModulesOwned

LEMMA KeptModules ==
  ASSUME AppInv, ModulesOwned, loaded' \subseteq loaded,
         \A s \in Slots : Live(s) => Live(s)' /\ app'[s].name = app[s].name,
         \A a \in Actors : create[a].pc \in {"main", "record", "publish"} =>
             create'[a].pc \in {"main", "record", "publish"} /\ create'[a].name = create[a].name,
         job.pc = "tasks" => job'.pc = "tasks" /\ job'.name = job.name
  PROVE  ModulesOwned'
  BY DEF ModulesOwned

LEMMA NextModules ==
  ASSUME AppInv, ModulesOwned, ~CreateMayFail, [Next]_vars
  PROVE  ModulesOwned'
<1>0. job \in JobRecord /\ \A a \in Actors : create[a] \in CreateRecord
  BY DEF AppInv, Typed
<1>1. ASSUME NEW a \in Actors, LoadModule(a) PROVE ModulesOwned'
  <2>1. /\ app' = app /\ job' = job /\ create[a].pc = "load"
        /\ \A b \in Actors : b # a => create'[b] = create[b]
    BY <1>1 DEF LoadModule, Goto, AppInv, Typed
  <2>2. CASE loaded' = loaded \union {create[a].name} /\ Goto(a, "main")
    <3>1. create'[a].pc = "main" /\ create'[a].name = create[a].name
      BY <1>0, <2>2 DEF Goto, AppInv, Typed, CreateRecord
    <3>2. \A b \in Actors : create[b].pc \in {"main", "record", "publish"} => create'[b] = create[b]
      BY <2>1
    <3> QED BY <2>1, <2>2, <3>1, <3>2 DEF ModulesOwned, Live
  <2>3. CASE UNCHANGED loaded
    BY <2>1, <2>3 DEF ModulesOwned, Live
  <2> QED BY <1>1, <2>2, <2>3 DEF LoadModule
<1>2. ASSUME NEW a \in Actors, CreateMainTask(a) \/ RecordMainTask(a) PROVE ModulesOwned'
  <2>1. Undisturbed
    BY <1>2, CreationUndisturbed
  <2>2. /\ loaded' = loaded /\ job' = job
        /\ create'[a].pc \in {"record", "publish"}
        /\ \A b \in Actors : b # a => create'[b] = create[b]
    <3>1. CASE CreateMainTask(a)
      <4>1. create' = [create EXCEPT ![a].pc = "record", ![a].t = NewTask]
        BY <1>0, <3>1 DEF CreateMainTask
      <4>2. create' = [create EXCEPT ![a] = [[create[a] EXCEPT !.pc = "record"] EXCEPT !.t = NewTask]]
        BY <4>1 DEF AppInv, Typed
      <4>3. [[create[a] EXCEPT !.pc = "record"] EXCEPT !.t = NewTask].pc = "record"
        BY <1>0 DEF CreateRecord
      <4> HIDE DEF NewTask
      <4> QED BY <3>1, <4>2, <4>3 DEF CreateMainTask, AppInv, Typed
    <3>2. CASE RecordMainTask(a)
      BY <1>0, <3>2 DEF RecordMainTask, Goto, AppInv, Typed, CreateRecord
    <3> QED BY <1>2, <3>1, <3>2
  <2>3. \A s \in Slots : Live(s) => Live(s)' /\ app'[s].name = app[s].name
    BY <2>1 DEF Undisturbed, Live
  <2>4. \A b \in Actors : create'[b].name = create[b].name
    BY <2>1 DEF Undisturbed
  <2> QED BY <2>2, <2>3, <2>4, KeptModules
<1>3. ASSUME NEW a \in Actors, AppCreatePublish(a) \/ AppCreateFail(a) PROVE ModulesOwned'
  <2> DEFINE s0 == CreateSlot(a)
  <2>1. /\ Busy(a) /\ s0 \in Slots /\ app[s0].id = RESERVED /\ app[s0].name = create[a].name
        /\ create[a].id \in Nat
    BY <1>3, Places DEF AppCreatePublish, AppCreateFail, AppInv, Owned, Starting, Busy
  <2>2. /\ \A s \in Slots : s # s0 => app'[s] = app[s]
        /\ AppCreatePublish(a) => app'[s0].id = create[a].id /\ app'[s0].name = app[s0].name
        /\ \A b \in Actors : b # a => create'[b] = create[b]
        /\ loaded' = loaded /\ job' = job
    BY <1>3, <2>1 DEF AppCreatePublish, AppCreateFail, AppInv, Typed, AppRecord, CreateSlot
  <2>3. \A s \in Slots : Live(s) => s # s0
    BY <2>1, BoundsAssumption DEF Live
  <2>4. AppCreateFail(a) => create[a].pc = "fail"
    BY DEF AppCreateFail
  <2> HIDE DEF s0
  <2> QED BY <1>3, <2>1, <2>2, <2>3, <2>4 DEF ModulesOwned, Live
<1>4. ASSUME NEW a \in Actors, NEW n \in Names, AppCreateReserve(a, n, FreeAppSlot), ~Busy(a),
             loaded' = loaded, job' = job \/ job.pc = "restart"
      PROVE  ModulesOwned'
  <2>1. PICK s0 \in Slots : app[s0].id = FREE /\ \A s \in Slots : s # s0 => app'[s] = app[s]
    BY <1>4, FreshApp, SlotTyped DEF AppCreateReserve, AppInv, Typed
  <2>2. \A b \in Actors : b # a => create'[b] = create[b]
    BY <1>4 DEF AppCreateReserve, AppInv, Typed
  <2>3. \A s \in Slots : Live(s) => app'[s] = app[s]
    BY <2>1, BoundsAssumption DEF Live
  <2>4. \A s \in Slots : Live(s) => Live(s)' /\ app'[s].name = app[s].name
    BY <2>3 DEF Live
  <2> QED BY <1>4, <2>2, <2>4, KeptModules DEF Busy
<1>5. CASE Command
  <2>1. ASSUME NEW n \in Names, StartAppCmd(n) PROVE ModulesOwned'
    BY <1>4, <2>1 DEF StartAppCmd, CmdIdle, Busy, Actors
  <2>2. ASSUME NEW n \in Names, GetAppIDByName(n) PROVE ModulesOwned'
    BY <2>2, KeptModules DEF GetAppIDByName, Live
  <2>3. ASSUME NEW r \in Requests, ControlApp(r) PROVE ModulesOwned'
    <3>1. \A s \in Slots : app'[s].id = app[s].id /\ app'[s].name = app[s].name
      BY <2>3 DEF ControlApp, AppInv, Typed, AppRecord
    <3> QED BY <2>3, <3>1, KeptModules DEF ControlApp, Live
  <2>4. ASSUME NEW r \in Requests, ControlAppRefused(r) PROVE ModulesOwned'
    BY <2>4, KeptModules DEF ControlAppRefused, Live
  <2> QED BY <1>5, <2>1, <2>2, <2>3, <2>4 DEF Command
<1>6. CASE Background
  <2>1. ASSUME NEW e \in Delays, SkipScan(e) PROVE ModulesOwned'
    BY <2>1, KeptModules DEF SkipScan, Live
  <2>2. ASSUME NEW e \in Delays, RunAppTableScan(e) PROVE ModulesOwned'
    <3>1. \A s \in Slots : Scanned(s, e).id = app[s].id /\ Scanned(s, e).name = app[s].name
      BY DEF Scanned, AppInv, Typed, AppRecord
    <3>2. \A s \in Slots : app'[s].id = app[s].id /\ app'[s].name = app[s].name
      BY <2>2, <3>1 DEF RunAppTableScan
    <3>3. job.pc # "tasks"
      BY <2>2 DEF RunAppTableScan, BackgroundIdle
    <3> QED BY <2>2, <3>2, <3>3, KeptModules DEF RunAppTableScan, Live
  <2>3. CASE ProcessControlRequest
    BY <2>3, KeptModules DEF ProcessControlRequest, Live
  <2>4. CASE CleanUpBegin
    <3> DEFINE s0 == SlotOf(job.id)
    <3>1. s0 \in Slots /\ app[s0].name = job.name /\ job.pc = "begin"
      BY <2>4, Places DEF CleanUpBegin, OnJob, AppInv, Owned, Ending, JobSlot
    <3>2. /\ \A s \in Slots : s # s0 => app'[s] = app[s]
          /\ job'.pc = "tasks" /\ job'.name = job.name
          /\ loaded' = loaded /\ create' = create
      BY <1>0, <2>4, <3>1 DEF CleanUpBegin, AppInv, Typed, JobRecord
    <3> HIDE DEF s0
    <3> QED BY <3>1, <3>2 DEF ModulesOwned, Live
  <2>5. ASSUME NEW t \in job.tasks, CleanupTaskResources(t) PROVE ModulesOwned'
    <3>1. job'.pc = job.pc /\ job'.name = job.name
      BY <1>0, <2>5 DEF CleanupTaskResources, JobRecord
    <3> QED BY <2>5, <3>1, KeptModules DEF CleanupTaskResources, Live
  <2>6. CASE UnloadModule
    BY <2>6 DEF UnloadModule, Unloaded, ModulesOwned, Live
  <2>7. CASE CleanUpEnd
    <3>1. job.pc = "free" /\ JobSlot \in Slots /\ app[JobSlot].id = RESERVED
      BY <2>7, Places DEF CleanUpEnd, OnJob, AppInv, Owned, Ending
    <3>2. \A s \in Slots : s # JobSlot => app'[s] = app[s]
      BY <2>7, <3>1 DEF CleanUpEnd, JobSlot, AppInv, Typed
    <3>3. \A s \in Slots : Live(s) => app'[s] = app[s]
      BY <3>1, <3>2, BoundsAssumption DEF Live
    <3>4. \A s \in Slots : Live(s) => Live(s)' /\ app'[s].name = app[s].name
      BY <3>3 DEF Live
    <3> QED BY <2>7, <3>1, <3>4, KeptModules DEF CleanUpEnd
  <2>8. CASE RestartApp
    <3>1. job.pc = "restart" /\ job.name \in Names /\ ~Busy("bg") /\ "bg" \in Actors
      BY <2>8 DEF RestartApp, AppInv, Owned, Starting, Named, Actors
    <3>2. CASE UNCHANGED <<app, glob, create, asked, waited>>
      BY <2>8, <3>1, <3>2, KeptModules DEF RestartApp, Live
    <3> QED BY <1>4, <2>8, <3>1, <3>2 DEF RestartApp
  <2> QED BY <1>6, <2>1, <2>2, <2>3, <2>4, <2>5, <2>6, <2>7, <2>8 DEF Background
<1>7. ASSUME NEW t \in Threads, ThreadStep(t) \/ Call(t) PROVE ModulesOwned'
  <2>1. /\ \A s \in Slots : app'[s].id = app[s].id /\ app'[s].name = app[s].name
        /\ UNCHANGED <<create, job, loaded>>
    <3>1. \/ \E st \in {EARLY_INIT, LATE_INIT, RUNNING} : ReportState(t, st)
          \/ \E status \in ExitStatus : ExitApp(t, status)
          \/ UNCHANGED <<app, create, job, loaded>>
      BY <1>7 DEF ThreadStep, Call, Poll, CreateChildTask, CreateChildRecord, OS_TaskExit,
         CreateChildBegin, DeleteChildTask, ExitChildTask
    <3>2. HasApp(t) => SlotOf(MyApp(t)) \in Slots
      BY OwnApp DEF AppInv
    <3>3. ASSUME NEW st \in {EARLY_INIT, LATE_INIT, RUNNING}, ReportState(t, st)
          PROVE  UNCHANGED <<create, job, loaded>>
              /\ \A s \in Slots : app'[s].id = app[s].id /\ app'[s].name = app[s].name
      <4> DEFINE s0 == SlotOf(MyApp(t))
      <4>1. s0 \in Slots /\ app' = [app EXCEPT ![s0].state = Raised(s0, st)]
        BY <3>2, <3>3 DEF ReportState
      <4> HIDE DEF s0
      <4>2. \A s \in Slots : app'[s].id = app[s].id /\ app'[s].name = app[s].name
        BY <4>1 DEF AppInv, Typed, AppRecord
      <4> QED BY <3>3, <4>2 DEF ReportState
    <3>4. ASSUME NEW status \in ExitStatus, ExitApp(t, status)
          PROVE  UNCHANGED <<create, job, loaded>>
              /\ \A s \in Slots : app'[s].id = app[s].id /\ app'[s].name = app[s].name
      <4> DEFINE s0 == SlotOf(MyApp(t))
      <4>1. /\ s0 \in Slots
            /\ app' = [app EXCEPT ![s0].req = ExitRequest(s0, status), ![s0].state = STOPPED]
        BY <3>2, <3>4 DEF ExitApp
      <4> HIDE DEF s0
      <4>2. \A s \in Slots : app'[s].id = app[s].id /\ app'[s].name = app[s].name
        BY <4>1 DEF AppInv, Typed, AppRecord
      <4> QED BY <3>4, <4>2 DEF ExitApp
    <3> QED BY <3>1, <3>3, <3>4
  <2> QED BY <2>1, KeptModules DEF Live
<1>8. CASE UNCHANGED vars
  BY <1>8, KeptModules DEF vars, Live
<1> QED BY <1>1, <1>2, <1>3, <1>5, <1>6, <1>7, <1>8 DEF Next, Creation

(* When, besides, no main task fails to start: nothing is left of an        *)
(* application that was cleaned up.  No task is there without it, and no    *)
(* module is loaded without an application to use it.                       *)
THEOREM NothingIsLeft == Spec /\ QuietCleanup /\ ~CreateMayFail => []NothingLeft
<1> SUFFICES ASSUME QuietCleanup, ~CreateMayFail PROVE Spec => []NothingLeft
  OBVIOUS
<1>1. Spec => []ModulesOwned
  <2>1. AppInv /\ ModulesOwned /\ [Next]_vars => ModulesOwned'
    BY NextModules
  <2> QED BY <2>1, InitModules, AlwaysInv, PTL DEF Spec
<1>2. AppInv /\ TaskInv => NoStrayTask
  BY DEF TaskInv, Kin, NoStrayTask, Running
<1> QED BY <1>1, <1>2, AlwaysTasks, PTL DEF NothingLeft
=============================================================================
