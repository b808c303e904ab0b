----------------------------- MODULE AppLifecycle -----------------------------
(***************************************************************************)
(* Applications and their tasks in Executive Services: creation by the     *)
(* command task, requests to stop or restart, the scan of the application  *)
(* table by the background task, and the clean-up.  Every action is one    *)
(* section under the ES lock or one OSAL call between two of them.         *)
(* Core applications are left out: no request is accepted for them.        *)
(***************************************************************************)
EXTENDS Integers, FiniteSets, ResourceIds

CONSTANTS
    Names, NoName,     \* names of applications
    FREE, RESERVED,    \* CFE_RESOURCEID_UNDEFINED, CFE_RESOURCEID_RESERVED
    MAX_APPS,          \* CFE_PLATFORM_ES_MAX_APPLICATIONS
    MAX_TASKS,         \* OS_MAX_TASKS
    SCAN_RATE,         \* CFE_PLATFORM_ES_APP_SCAN_RATE
    KILL_TIMEOUT,      \* CFE_PLATFORM_ES_APP_KILL_TIMEOUT
    Delays,            \* times between two passes of the background task
    CmdMax, ChildMax,  \* bounds: commands sent, child tasks started
    CreateMayFail,     \* may OS_TaskCreate fail for a main task?
    PromptStart,       \* is AppCreate over before its task first polls?
    QuietCleanup       \* is nobody in CreateChildTask when a clean-up begins?

ASSUME BoundsAssumption ==
    /\ MAX_APPS \in Nat \ {0} /\ MAX_TASKS \in Nat \ {0}
    /\ SCAN_RATE \in Nat \ {0} /\ KILL_TIMEOUT \in Nat \ {0}
    /\ Delays \subseteq Nat \ {0}
    /\ CmdMax \in Nat /\ ChildMax \in Nat
    /\ FREE \notin Nat /\ RESERVED \notin Nat /\ FREE # RESERVED

VARIABLES
    app,      \* CFE_ES_Global.AppTable
    task,     \* CFE_ES_Global.TaskTable
    glob,     \* LastAppId and the last OSAL task ID; the registered counts
    os,       \* OSAL tasks: ID, what it is doing, its application and creator
    loaded,   \* names of the modules OSAL has loaded
    scan,     \* BackgroundAppScanState
    job,      \* the background task inside ProcessControlRequest
    create,   \* AppCreate of the command task and of the background task
    ask,      \* the ID a stop or restart command has looked up
    sent,     \* commands and child tasks so far
    asked,    \* the request last accepted for the application in each slot
    waited    \* time since the application in each slot left RUNNING

vars == <<app, task, glob, os, loaded, scan, job, create, ask, sent, asked, waited>>

Slots == 0..MAX_APPS - 1
TaskSlots == 0..MAX_TASKS - 1
Actors == {"cmd", "bg"}
SlotOf(id) == ToIndex(id, MAX_APPS)
TaskSlot(t) == ToIndex(t, MAX_TASKS)

(* Bounds on the serials: a command leads to one creation at most, its own  *)
(* or that of a restart, so none is ever needed that is not among these.    *)
AppSerials == 1..CmdMax * MAX_APPS
TaskSerials == 1..(CmdMax + ChildMax) * MAX_TASKS
NoLimit == (CmdMax + 1) * MAX_APPS + (CmdMax + ChildMax + 1) * MAX_TASKS

(* CFE_ES_AppState_t, in the order its comparisons rely on. *)
UNDEFINED == 0
EARLY_INIT == 1
LATE_INIT == 2
RUNNING == 3
WAITING == 4
STOPPED == 5

Requests == {"DELETE", "RESTART", "RELOAD"}
ExitStatus == {"EXIT", "ERROR"}

Used(s) == app[s].id # FREE
(* Mutant of Locate: records that are not complete are passed over. *)
LocatePublished(n) == {s \in Slots : app[s].id \in Nat /\ app[s].name = n}
Locate(n) == {s \in Slots : Used(s) /\ app[s].name = n}
IsMatch(id) == app[SlotOf(id)].id = id
Live(s) == app[s].id \in Nat
Alive(t) == os[TaskSlot(t)].id = t
Doing(t, st) == os[TaskSlot(t)].st = st
Threads == {os[k].id : k \in {j \in TaskSlots : os[j].st # "none"}}
MyApp(t) == task[TaskSlot(t)].app

(* CFE_ES_GetTaskRecordByContext and CFE_ES_GetAppRecordByContext. *)
HasTask(t) == task[TaskSlot(t)].id = t
HasApp(t) == HasTask(t) /\ IsMatch(MyApp(t))
IsMain(t) == app[SlotOf(MyApp(t))].main = t

EmptyApp == [id |-> FREE, name |-> NoName, state |-> UNDEFINED,
             req |-> "RUN", timer |-> 0, main |-> FREE]
EmptyTask == [id |-> FREE, app |-> FREE]
NoThread == [id |-> FREE, st |-> "none", app |-> FREE, by |-> FREE]
Idle == [pc |-> "idle", id |-> FREE, name |-> NoName, t |-> FREE]
NoJob == [pc |-> "idle", queue |-> {}, id |-> FREE, req |-> "RUN",
          name |-> NoName, tasks |-> {}, cleaned |-> {}]

Init ==
    /\ app = [s \in Slots |-> EmptyApp]
    /\ task = [k \in TaskSlots |-> EmptyTask]
    /\ glob = [lastApp |-> 0, lastTask |-> 0, apps |-> 0, tasks |-> 0]
    /\ os = [k \in TaskSlots |-> NoThread]
    /\ loaded = {}
    /\ scan = [pending |-> FALSE, timer |-> 0, command |-> FALSE]
    /\ job = NoJob
    /\ create = [a \in Actors |-> Idle]
    /\ ask = FREE
    /\ sent = [cmds |-> 0, children |-> 0]
    /\ asked = [s \in Slots |-> "none"]
    /\ waited = [s \in Slots |-> 0]

-----------------------------------------------------------------------------
(* Starting tasks and applications. *)

(* Mutant of ClearTask: the record is not freed. *)
ClearNoTask(k) == task' = task
ClearTask(k) == task' = [task EXCEPT ![k].id = FREE]

(* OS_TaskCreate: the ID of the new task, FREE when every slot is taken. *)
NewTask == FindNext(glob.lastTask, MAX_TASKS, NoLimit,
                    {k \in TaskSlots : os[k].st # "none"}, FREE)

NewThread(t, id, creator) == [id |-> t, st |-> "poll", app |-> id, by |-> creator]

(* The part of CFE_ES_StartAppTask under the lock.  The record may still be *)
(* in use, or reserved by a clean-up: it is overwritten.                    *)
RecordTask(t, id) ==
    task' = [task EXCEPT ![TaskSlot(t)] = [id |-> t, app |-> id]]

FreeAppSlot == FindNext(glob.lastApp, MAX_APPS, NoLimit,
                        {s \in Slots : Used(s)}, FREE)

(* CFE_ES_AppCreate up to the release of the lock; refused for a duplicate  *)
(* name or a full table.                                                    *)
AppCreateReserve(a, n, id) ==
    /\ Locate(n) = {} /\ id \in AppSerials
    /\ app' = [app EXCEPT ![SlotOf(id)] =
                  [EmptyApp EXCEPT !.id = RESERVED, !.name = n]]
    /\ glob' = [glob EXCEPT !.lastApp = id]
    /\ create' = [create EXCEPT ![a] =
                     [pc |-> "load", id |-> id, name |-> n, t |-> FREE]]
    /\ asked' = [asked EXCEPT ![SlotOf(id)] = "none"]
    /\ waited' = [waited EXCEPT ![SlotOf(id)] = 0]

AppCreateRefused(n) == Locate(n) # {} \/ FreeAppSlot = FREE

Goto(a, pc) == create' = [create EXCEPT ![a].pc = pc]

(* CFE_ES_LoadModule: fails when the file is bad or a module of that name   *)
(* is loaded; a module whose symbol is not found is unloaded again.         *)
LoadModule(a) ==
    /\ create[a].pc = "load"
    /\ \/ /\ create[a].name \notin loaded
          /\ loaded' = loaded \union {create[a].name}
          /\ Goto(a, "main")
       \/ Goto(a, "fail") /\ UNCHANGED loaded
    /\ UNCHANGED <<app, task, glob, os, scan, job, ask, sent, asked, waited>>

CreateMainTask(a) ==
    /\ create[a].pc = "main"
    /\ \/ /\ NewTask \in TaskSerials
          /\ os' = [os EXCEPT ![TaskSlot(NewTask)] =
                            NewThread(NewTask, create[a].id, FREE)]
          /\ glob' = [glob EXCEPT !.lastTask = NewTask]
          /\ create' = [create EXCEPT ![a].pc = "record", ![a].t = NewTask]
       \/ /\ CreateMayFail
          /\ Goto(a, "fail") /\ UNCHANGED <<os, glob>>
    /\ UNCHANGED <<app, task, loaded, scan, job, ask, sent, asked, waited>>

RecordMainTask(a) ==
    /\ create[a].pc = "record"
    /\ RecordTask(create[a].t, create[a].id)
    /\ app' = [app EXCEPT ![SlotOf(create[a].id)].main = create[a].t]
    /\ glob' = [glob EXCEPT !.tasks = @ + 1]
    /\ Goto(a, "publish")
    /\ UNCHANGED <<os, loaded, scan, job, ask, sent, asked, waited>>

(* A successful start command counts as a command: the scan becomes due. *)
Counted(a) == scan' = IF a = "cmd" THEN [scan EXCEPT !.command = TRUE] ELSE scan

(* The second locked section of CFE_ES_AppCreate, after success ... *)
AppCreatePublish(a) ==
    /\ create[a].pc = "publish"
    /\ app' = [app EXCEPT ![SlotOf(create[a].id)].id = create[a].id]
    /\ glob' = [glob EXCEPT !.apps = @ + 1]
    /\ create' = [create EXCEPT ![a] = Idle]
    /\ Counted(a)
    /\ UNCHANGED <<task, os, loaded, job, ask, sent, asked, waited>>

(* ... and after a failure. *)
AppCreateFail(a) ==
    /\ create[a].pc = "fail"
    /\ app' = [app EXCEPT ![SlotOf(create[a].id)].id = FREE]
    /\ create' = [create EXCEPT ![a] = Idle]
    /\ UNCHANGED <<task, glob, os, loaded, scan, job, ask, sent, asked, waited>>

-----------------------------------------------------------------------------
(* Commands, one at a time in the main task of ES. *)

CmdIdle == create["cmd"].pc = "idle" /\ ask = FREE
SendCmd == sent.cmds < CmdMax /\ sent' = [sent EXCEPT !.cmds = @ + 1]

StartAppCmd(n) ==
    /\ CmdIdle /\ SendCmd
    /\ AppCreateReserve("cmd", n, FreeAppSlot)
    /\ UNCHANGED <<task, os, loaded, scan, job, ask>>

(* CFE_ES_GetAppIDByName: the ID of any used record, RESERVED included. *)
GetAppIDByName(n) ==
    /\ CmdIdle /\ SendCmd
    /\ \E s \in Locate(n) : ask' = app[s].id
    /\ UNCHANGED <<app, task, glob, os, loaded, scan, job, create, asked, waited>>

(* CFE_ES_DeleteApp, CFE_ES_RestartApp, CFE_ES_ReloadApp: whether a request  *)
(* is accepted depends on the state of the record in the slot of the ID.    *)
Accepts(s) == app[s].state = RUNNING

ControlApp(r) ==
    /\ ask \in Nat /\ Accepts(SlotOf(ask))
    /\ app' = [app EXCEPT ![SlotOf(ask)].req = r]
    /\ asked' = [asked EXCEPT ![SlotOf(ask)] = r]
    /\ scan' = [scan EXCEPT !.command = TRUE]
    /\ ask' = FREE
    /\ UNCHANGED <<task, glob, os, loaded, job, create, sent, waited>>

(* Not an ID, not RUNNING, or no such file. *)
ControlAppRefused(r) ==
    /\ ask # FREE
    /\ ask \in Nat /\ Accepts(SlotOf(ask)) => r # "DELETE"
    /\ ask' = FREE
    /\ UNCHANGED <<app, task, glob, os, loaded, scan, job, create, sent, asked, waited>>

-----------------------------------------------------------------------------
(* The background task: CFE_ES_RunAppTableScan. *)

BackgroundIdle == job.pc = "idle" /\ create["bg"].pc = "idle"

Leaving(s) == Used(s) /\ app[s].state > RUNNING
Waited(e) == [s \in Slots |-> IF Leaving(s) THEN waited[s] + e ELSE waited[s]]
ScanDue(e) == scan.pending \/ scan.command \/ scan.timer <= e

SkipScan(e) ==
    /\ BackgroundIdle /\ ~ScanDue(e)
    /\ scan' = [scan EXCEPT !.timer = @ - e]
    /\ waited' = Waited(e)
    /\ UNCHANGED <<app, task, glob, os, loaded, job, create, ask, sent, asked>>

(* Mutant of TimedOut: one tick early. *)
TimedOutEarly(s, e) == Leaving(s) /\ app[s].timer <= e + 1
TimedOut(s, e) == Leaving(s) /\ app[s].timer <= e

(* Mutant of Requested: a restart or reload is not noticed. *)
RequestedDelete(s) == Used(s) /\ app[s].state = RUNNING /\ app[s].req = "DELETE"
Requested(s) == Used(s) /\ app[s].state = RUNNING /\ app[s].req # "RUN"

Scanned(s, e) ==
    IF Leaving(s)
      THEN [app[s] EXCEPT !.timer = IF TimedOut(s, e) THEN 0 ELSE @ - e]
    ELSE IF Requested(s)
      THEN [app[s] EXCEPT !.state = WAITING, !.timer = KILL_TIMEOUT * SCAN_RATE]
    ELSE app[s]

RunAppTableScan(e) ==
    /\ BackgroundIdle /\ ScanDue(e)
    /\ app' = [s \in Slots |-> Scanned(s, e)]
    /\ scan' = [pending |-> \E s \in Slots : Leaving(s),
                timer |-> SCAN_RATE, command |-> FALSE]
    /\ LET out == {app[s].id : s \in {r \in Slots : TimedOut(r, e)}}
       IN  job' = [job EXCEPT !.pc = IF out = {} THEN "idle" ELSE "next",
                              !.queue = out]
    /\ waited' = Waited(e)
    /\ UNCHANGED <<task, glob, os, loaded, create, ask, sent, asked>>

(* CFE_ES_ProcessControlRequest: the snapshot of the next one in the list. *)
ProcessControlRequest ==
    /\ job.pc = "next" /\ create["bg"].pc = "idle"
    /\ \E i \in job.queue :
         /\ \A j \in job.queue : SlotOf(i) <= SlotOf(j)
         /\ job' = [job EXCEPT !.pc = "begin", !.queue = @ \ {i}, !.id = i,
                       !.req = app[SlotOf(i)].req, !.name = app[SlotOf(i)].name]
    /\ UNCHANGED <<app, task, glob, os, loaded, scan, create, ask, sent, asked, waited>>

TaskList(id) == {k \in TaskSlots : task[k].id # FREE /\ task[k].app = id}

(* CFE_ES_CleanUpApp, the first locked section. *)
CleanUpBegin ==
    /\ job.pc = "begin"
    /\ QuietCleanup => \A k \in TaskSlots : os[k].app = job.id
                          => os[k].st \notin {"create", "record"}
    /\ IsMatch(job.id)
    /\ LET list == TaskList(job.id)
       IN  /\ task' = [k \in TaskSlots |->
                         IF k \in list THEN [task[k] EXCEPT !.id = RESERVED]
                         ELSE task[k]]
           /\ glob' = [glob EXCEPT !.apps = @ - 1, !.tasks = @ - Cardinality(list)]
           /\ job' = [job EXCEPT !.pc = "tasks",
                                 !.tasks = {task[k].id : k \in list}]
    /\ app' = [app EXCEPT ![SlotOf(job.id)].id = RESERVED]
    /\ UNCHANGED <<os, loaded, scan, create, ask, sent, asked, waited>>

(* Mutant of Doomed: the objects the task created are left alone. *)
DoomedAlone(t) == {k \in TaskSlots : os[k].id = t}

(* CFE_ES_CleanupTaskResources: what the task created, then the task; the    *)
(* main task comes last.  A task that is gone already is no error.          *)
Doomed(t) == {k \in TaskSlots : os[k].id = t \/ os[k].by = t}

CleanupTaskResources(t) ==
    /\ job.pc = "tasks" /\ t \in job.tasks
    /\ t = app[SlotOf(job.id)].main => job.tasks \ job.cleaned = {t}
    /\ t \notin job.cleaned
    /\ os' = [k \in TaskSlots |-> IF k \in Doomed(t) THEN NoThread ELSE os[k]]
    /\ job' = [job EXCEPT !.cleaned = @ \union {t}]
    /\ UNCHANGED <<app, task, glob, loaded, scan, create, ask, sent, asked, waited>>

Unloaded == loaded \ {job.name}

UnloadModule ==
    /\ job.pc = "tasks" /\ job.cleaned = job.tasks
    /\ loaded' = Unloaded
    /\ job' = [job EXCEPT !.pc = "free"]
    /\ UNCHANGED <<app, task, glob, os, scan, create, ask, sent, asked, waited>>

(* Mutant of Freed: whoever has the record now. *)
FreedAlways(k) == TRUE

(* The second locked section: only what is RESERVED still is freed. *)
Freed(k) == task[k].id = RESERVED

Restarts == job.req \in {"RESTART", "RELOAD"}
JobDone == IF job.queue = {} THEN NoJob ELSE [NoJob EXCEPT !.pc = "next", !.queue = job.queue]

CleanUpEnd ==
    /\ job.pc = "free"
    /\ task' = [k \in TaskSlots |->
                  IF (\E t \in job.tasks : TaskSlot(t) = k) /\ Freed(k)
                    THEN [task[k] EXCEPT !.id = FREE] ELSE task[k]]
    /\ app' = [app EXCEPT ![SlotOf(job.id)].id = FREE]
    /\ job' = IF Restarts THEN [job EXCEPT !.pc = "restart"] ELSE JobDone
    /\ UNCHANGED <<glob, os, loaded, scan, create, ask, sent, asked, waited>>

(* The application starts again under a new ID, unless its name was taken. *)
RestartApp ==
    /\ job.pc = "restart"
    /\ job' = JobDone
    /\ \/ AppCreateReserve("bg", job.name, FreeAppSlot)
       \/ /\ AppCreateRefused(job.name)
          /\ UNCHANGED <<app, glob, create, asked, waited>>
    /\ UNCHANGED <<task, os, loaded, scan, ask, sent>>

-----------------------------------------------------------------------------
(* The tasks of applications. *)

Become(t, st) == os' = [os EXCEPT ![TaskSlot(t)].st = st]

(* CFE_ES_GetTaskFunction: the loop ends when the task record is there. *)
Poll(t) ==
    /\ Alive(t) /\ Doing(t, "poll") /\ HasTask(t)
    /\ PromptStart => \A a \in Actors : create[a].t # t
    /\ Become(t, "run")
    /\ UNCHANGED <<app, task, glob, loaded, scan, job, create, ask, sent, asked, waited>>

(* Mutant of Raised: the state is set. *)
RaisedAlways(s, st) == st

(* CFE_ES_RunLoop and CFE_ES_WaitForSystemState raise the state, never lower it. *)
Raised(s, st) == IF app[s].state < st THEN st ELSE app[s].state

ReportState(t, st) ==
    /\ HasApp(t) /\ st \in {EARLY_INIT, LATE_INIT, RUNNING}
    /\ app' = [app EXCEPT ![SlotOf(MyApp(t))].state = Raised(SlotOf(MyApp(t)), st)]
    /\ UNCHANGED <<task, glob, os, loaded, scan, job, create, ask, sent, asked, waited>>

(* Mutant of ExitRequest: the status is stored in any case. *)
ExitRequestAlways(s, status) == status

(* CFE_ES_ExitApp: the task then waits to be deleted.  A pending request    *)
(* takes precedence over the exit status.                                   *)
ExitRequest(s, status) == IF app[s].req = "RUN" THEN status ELSE app[s].req

ExitApp(t, status) ==
    /\ HasApp(t)
    /\ LET s == SlotOf(MyApp(t))
       IN  app' = [app EXCEPT ![s].req = ExitRequest(s, status), ![s].state = STOPPED]
    /\ Become(t, "halt")
    /\ UNCHANGED <<task, glob, loaded, scan, job, create, ask, sent, asked, waited>>

(* CFE_ES_CreateChildTask: the check, OS_TaskCreate, the record. *)
CreateChildBegin(t) ==
    /\ HasApp(t) /\ IsMain(t)
    /\ sent.children < ChildMax /\ sent' = [sent EXCEPT !.children = @ + 1]
    /\ Become(t, "create")
    /\ UNCHANGED <<app, task, glob, loaded, scan, job, create, ask, asked, waited>>

CreateChildTask(t) ==
    /\ Alive(t) /\ Doing(t, "create")
    /\ \/ /\ NewTask \in TaskSerials
          /\ os' = [os EXCEPT ![TaskSlot(t)].st = "record",
                      ![TaskSlot(NewTask)] = NewThread(NewTask, os[TaskSlot(t)].app, t)]
          /\ glob' = [glob EXCEPT !.lastTask = NewTask]
       \/ Become(t, "run") /\ UNCHANGED glob
    /\ UNCHANGED <<app, task, loaded, scan, job, create, ask, sent, asked, waited>>

CreateChildRecord(t, c) ==
    /\ Alive(t) /\ Doing(t, "record")
    /\ Alive(c) /\ os[TaskSlot(c)].by = t /\ Doing(c, "poll") /\ ~HasTask(c)
    /\ RecordTask(c, os[TaskSlot(t)].app)
    /\ glob' = [glob EXCEPT !.tasks = @ + 1]
    /\ Become(t, "run")
    /\ UNCHANGED <<app, loaded, scan, job, create, ask, sent, asked, waited>>

(* CFE_ES_DeleteChildTask, for a task that is nobody's main task. *)
DeleteChildTask(t, c) ==
    /\ HasTask(c) /\ c # t /\ Alive(c)
    /\ \A s \in Slots : Used(s) => app[s].main # c
    /\ os' = [os EXCEPT ![TaskSlot(c)] = NoThread]
    /\ ClearTask(TaskSlot(c))
    /\ glob' = [glob EXCEPT !.tasks = @ - 1]
    /\ UNCHANGED <<app, loaded, scan, job, create, ask, sent, asked, waited>>

(* CFE_ES_ExitChildTask: the record goes first, the OSAL task follows. *)
ExitChildTask(t) ==
    /\ HasApp(t) /\ ~IsMain(t)
    /\ ClearTask(TaskSlot(t))
    /\ glob' = [glob EXCEPT !.tasks = @ - 1]
    /\ Become(t, "leaving")
    /\ UNCHANGED <<app, loaded, scan, job, create, ask, sent, asked, waited>>

OS_TaskExit(t) ==
    /\ Alive(t) /\ Doing(t, "leaving")
    /\ os' = [os EXCEPT ![TaskSlot(t)] = NoThread]
    /\ UNCHANGED <<app, task, glob, loaded, scan, job, create, ask, sent, asked, waited>>

-----------------------------------------------------------------------------
Creation(a) == \/ LoadModule(a) \/ CreateMainTask(a) \/ RecordMainTask(a)
               \/ AppCreatePublish(a) \/ AppCreateFail(a)

Command == \/ \E n \in Names : StartAppCmd(n) \/ GetAppIDByName(n)
           \/ \E r \in Requests : ControlApp(r) \/ ControlAppRefused(r)

Background == \/ \E e \in Delays : SkipScan(e) \/ RunAppTableScan(e)
              \/ ProcessControlRequest \/ CleanUpBegin
              \/ \E t \in job.tasks : CleanupTaskResources(t)
              \/ UnloadModule \/ CleanUpEnd \/ RestartApp

Call(t) == \/ \E st \in {EARLY_INIT, LATE_INIT, RUNNING} : ReportState(t, st)
           \/ \E status \in ExitStatus : ExitApp(t, status)
           \/ CreateChildBegin(t)
           \/ \E c \in Threads : DeleteChildTask(t, c)
           \/ ExitChildTask(t)

ThreadStep(t) == \/ Poll(t)
           \/ CreateChildTask(t)
           \/ \E c \in Threads : CreateChildRecord(t, c)
           \/ OS_TaskExit(t)

Next == \/ \E a \in Actors : Creation(a)
        \/ Command \/ Background
        \/ \E t \in Threads : ThreadStep(t) \/ (Doing(t, "run") /\ Call(t))

Spec == Init /\ [][Next]_vars

(* The background task runs, and the calls it makes return. *)
Fairness == WF_vars(Background) /\ WF_vars(Creation("bg"))
=============================================================================
