--------------------------- MODULE AppLifecycleProps ---------------------------
(***************************************************************************)
(* What must hold of AppLifecycle.                                         *)
(***************************************************************************)
EXTENDS AppLifecycle

Published(k) == task[k].id \in Nat
Creating(id) == \E a \in Actors : create[a].pc # "idle" /\ create[a].id = id
CleaningUp(id) == job.id = id /\ job.pc \in {"tasks", "free"}
KillTime == KILL_TIMEOUT * SCAN_RATE

(* Every variable has its type; the two counts are never negative. *)
TypeOK ==
    /\ \A s \in Slots :
         /\ app[s].id \in {FREE, RESERVED} \union Nat
         /\ app[s].name \in Names \union {NoName}
         /\ app[s].state \in UNDEFINED..STOPPED
         /\ app[s].req \in {"RUN"} \union Requests \union ExitStatus
         /\ app[s].timer \in 0..KillTime
    /\ \A k \in TaskSlots : /\ task[k].id \in {FREE, RESERVED} \union Nat
                            /\ os[k].id \in {FREE} \union Nat
    /\ glob \in [lastApp : Nat, lastTask : Nat, apps : Nat, tasks : Nat]
    /\ scan.timer \in 0..SCAN_RATE
    /\ loaded \subseteq Names

(* The counts in the telemetry are the numbers of published records, at     *)
(* every release of the ES lock: children that exit, are deleted, or go     *)
(* down with their application are each counted out exactly once.           *)
CountsExact == /\ glob.apps = Cardinality({s \in Slots : Live(s)})
               /\ glob.tasks = Cardinality({k \in TaskSlots : Published(k)})

(* A task record names a task that exists: one that is freed too late or    *)
(* twice, or lost when its slot is used again during a clean-up, does not.  *)
RecordsLive == \A k \in TaskSlots :
    /\ Published(k) => Alive(task[k].id) /\ os[k].app = task[k].app
    /\ task[k].id = RESERVED => \E t \in job.tasks : TaskSlot(t) = k

RecordsExact == TypeOK /\ CountsExact /\ RecordsLive

(* No task outlives the clean-up of its application, not even a child that  *)
(* had given up its record before the clean-up made its list.               *)
NoStrayTask == \A k \in TaskSlots : os[k].st # "none" =>
    \/ IsMatch(os[k].app) \/ Creating(os[k].app) \/ CleaningUp(os[k].app)

(* A module is loaded for an application that is there, is being started or *)
(* is being cleaned up, and for no other.                                   *)
ModulesOwned == \A n \in loaded :
    \/ \E s \in Slots : Live(s) /\ app[s].name = n
    \/ \E a \in Actors : /\ create[a].pc \in {"main", "record", "publish"}
                         /\ create[a].name = n
    \/ job.pc = "tasks" /\ job.name = n

NothingLeft == NoStrayTask /\ ModulesOwned

(* The background task acts on the request that was accepted last, also     *)
(* when the application exits on its own before the grace period is over.   *)
RequestHonoured ==
    /\ \A s \in Slots : Live(s) /\ asked[s] # "none" => app[s].req = asked[s]
    /\ job.pc \in {"begin", "tasks", "free"} /\ asked[SlotOf(job.id)] # "none"
         => job.req = asked[SlotOf(job.id)]

(* An application that does not exit gets the whole grace period, and not   *)
(* more than a scan period and one pass beyond it, although passes that     *)
(* skip the scan do not count their time against the timer.                 *)
GraceKept == \A s \in Slots : Live(s) /\ app[s].state = WAITING =>
    /\ app[s].id \in job.queue => waited[s] >= KillTime
    /\ \E e \in Delays : waited[s] < KillTime + SCAN_RATE + e

(* While an application keeps its ID its state only advances: neither       *)
(* RunLoop nor WaitForSystemState revives one that is to be taken down.     *)
NeverRevived == [][\A s \in Slots :
    Live(s) /\ app'[s].id = app[s].id => app'[s].state >= app[s].state]_vars

(* A request, or an exit, is followed by the clean-up of the application.   *)
Served(i) ==
    LET a == app[SlotOf(i)]
    IN  a.id = i /\ a.state >= RUNNING /\ a.req # "RUN"
          ~> a.id \notin {i, RESERVED}
RequestServed == \A i \in AppSerials : Served(i)

(* The application's code runs after its record is complete: what           *)
(* cfe_es_apps.h says of CFE_ES_GetTaskFunction.                            *)
RunsRegistered == \A a \in Actors : create[a].pc = "publish" =>
    ~(Alive(create[a].t) /\ Doing(create[a].t, "run"))

(* A request takes effect on the application whose ID it was given.         *)
RequestReachesApp == [][\A s \in Slots :
    app'[s].id = app[s].id /\ app'[s].req \in Requests /\ app'[s].req # app[s].req
        => app[s].id = ask]_vars

(* Executive Services keep the promise of AppLife. *)
LifeOf(i) == IF IsMatch(i) THEN "alive"
             ELSE IF Creating(i) THEN "starting"
             ELSE IF CleaningUp(i) THEN "leaving" ELSE "none"
NameOf(i) == IF LifeOf(i) = "none" THEN NoName ELSE app[SlotOf(i)].name
Promise == INSTANCE AppLife WITH
    Ids <- AppSerials,
    phase <- [i \in AppSerials |-> LifeOf(i)],
    name <- [i \in AppSerials |-> NameOf(i)],
    wanted <- {app[s].id : s \in {r \in Slots : Live(r) /\ app[r].req # "RUN"}},
    top <- glob.lastApp
ImplementsLife == Promise!Spec
=============================================================================
