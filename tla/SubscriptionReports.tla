------------------------- MODULE SubscriptionReports -------------------------
(***************************************************************************)
(* What the Software Bus tells a network bridge (SBN, external) of the     *)
(* subscriptions: a report from the task that subscribes, after the SB     *)
(* lock is released, and on command packets with all previous ones, sent   *)
(* with the lock released in the middle of the walk over the routes.       *)
(* Everything the bus sends to the bridge arrives.                         *)
(***************************************************************************)
EXTENDS Naturals, Sequences, FiniteSets

CONSTANTS
    Tasks,              \* applications, each with a pipe of its own
    Msgs,               \* message IDs
    MAX_MSG_IDS,        \* routes
    MAX_DEST_PER_PKT,   \* destinations of a route
    ENTRIES_PER_PKT     \* CFE_SB_SUB_ENTRIES_PER_PKT

ReportAssumption ==
    /\ {MAX_MSG_IDS, MAX_DEST_PER_PKT, ENTRIES_PER_PKT} \subseteq Nat \ {0}
    /\ "none" \notin Msgs

VARIABLES
    route,      \* the message IDs of the routes, in the order of the routes
    scope,      \* of each subscription: "global", "local" or "none"
    reporting,  \* SubscriptionReporting
    report,     \* the report each task still has to send
    walk,       \* CFE_SB_SendPrevSubsCmd: next and last route, PrevSubMsg
    known,      \* the message IDs the bridge was told of since it enabled reports
    informed    \* history: reporting is enabled and all previous ones were sent

vars == <<route, scope, reporting, report, walk, known, informed>>

Nothing == "none"
Resting == [pc |-> "idle", next |-> 1, end |-> 0, entries |-> {}]

Init ==
    /\ route = <<>>
    /\ scope = [m \in Msgs |-> [t \in Tasks |-> Nothing]]
    /\ reporting = FALSE
    /\ report = [t \in Tasks |-> Nothing]
    /\ walk = Resting
    /\ known = {}
    /\ informed = FALSE

Routed == {route[i] : i \in DOMAIN route}
Dests(m) == {t \in Tasks : scope[m][t] # Nothing}
Exported(m) == \E t \in Tasks : scope[m][t] = "global"

(* What holds the lock besides the subscribers: the walk, unless it sends. *)
Unlocked == walk.pc \in {"idle", "full", "partial"}

-----------------------------------------------------------------------------
(* CFE_SB_SubscribeFull.  A second subscription changes nothing, not even   *)
(* the scope, and is reported like the first.                               *)
Subscribe(t, m, s) ==
    /\ Unlocked /\ report[t] = Nothing
    /\ m \in Routed \/ Len(route) < MAX_MSG_IDS
    /\ t \in Dests(m) \/ Cardinality(Dests(m)) < MAX_DEST_PER_PKT
    /\ route' = IF m \in Routed THEN route ELSE Append(route, m)
    /\ scope' = [scope EXCEPT ![m][t] = IF @ = Nothing THEN s ELSE @]
    /\ report' = [report EXCEPT ![t] = IF s = "global" THEN m ELSE Nothing]
    /\ UNCHANGED <<reporting, walk, known, informed>>

Tell(ids) == known' = IF reporting THEN known \cup ids ELSE known

(* CFE_SB_SendSubscriptionReport, without the lock; it sends nothing while *)
(* reporting is disabled.                                                   *)
SendSubscriptionReport(t) ==
    /\ report[t] # Nothing /\ Tell({report[t]})
    /\ report' = [report EXCEPT ![t] = Nothing]
    /\ UNCHANGED <<route, scope, reporting, walk, informed>>

(* CFE_SB_UnsubscribeFull, and the deletion of the pipe: no report. *)
Unsubscribe(t, m) ==
    /\ Unlocked /\ report[t] = Nothing /\ t \in Dests(m)
    /\ scope' = [scope EXCEPT ![m][t] = Nothing]
    /\ UNCHANGED <<route, reporting, report, walk, known, informed>>

-----------------------------------------------------------------------------
(* The commands of the bridge. *)
SetSubscriptionReporting(on) ==
    /\ walk.pc = "idle" /\ reporting # on
    /\ reporting' = on /\ informed' = FALSE
    /\ known' = {}
    /\ UNCHANGED <<route, scope, report, walk>>

(* CFE_SB_SendPrevSubsCmd takes the lock; CFE_SBR_ForEachRouteId reads the *)
(* number of routes once.                                                   *)
SendPrevSubsCmd ==
    /\ walk.pc = "idle"
    /\ walk' = [pc |-> "walk", next |-> 1, end |-> Len(route), entries |-> {}]
    /\ UNCHANGED <<route, scope, reporting, report, known, informed>>

Collected(m) == walk.entries \cup (IF Exported(m) THEN {m} ELSE {})

(* Mutant of Walked: the last route is missed. *)
WalkedButOne == walk.next >= walk.end
Walked == walk.next > walk.end

(* CFE_SB_SendRouteSub: one entry for a route with a global destination. *)
SendRouteSub ==
    LET m == route[walk.next]
    IN  /\ walk.pc = "walk" /\ ~Walked
        /\ walk' = [walk EXCEPT !.next = @ + 1, !.entries = Collected(m),
                      !.pc = IF /\ Exported(m)
                                /\ Cardinality(Collected(m)) >= ENTRIES_PER_PKT
                             THEN "full" ELSE "walk"]
        /\ UNCHANGED <<route, scope, reporting, report, known, informed>>

(* A full packet goes without the lock; then the walk goes on.            *)
SendFullPacket ==
    /\ walk.pc = "full" /\ Tell(walk.entries)
    /\ walk' = [walk EXCEPT !.pc = "walk", !.entries = {}]
    /\ UNCHANGED <<route, scope, reporting, report, informed>>

WalkEnds ==
    /\ walk.pc = "walk" /\ Walked
    /\ walk' = [walk EXCEPT !.pc = "partial"]
    /\ UNCHANGED <<route, scope, reporting, report, known, informed>>

SendPartialPacket ==
    /\ walk.pc = "partial" /\ Tell(walk.entries)
    /\ walk' = Resting
    /\ informed' = reporting
    /\ UNCHANGED <<route, scope, reporting, report>>

Next ==
    \/ \E t \in Tasks, m \in Msgs :
         \/ \E s \in {"global", "local"} : Subscribe(t, m, s)
         \/ Unsubscribe(t, m)
    \/ \E t \in Tasks : SendSubscriptionReport(t)
    \/ \E on \in BOOLEAN : SetSubscriptionReporting(on)
    \/ SendPrevSubsCmd \/ SendRouteSub \/ SendFullPacket
    \/ WalkEnds \/ SendPartialPacket

Spec == Init /\ [][Next]_vars
-----------------------------------------------------------------------------
(* A bridge that has enabled the reports and then asked for the previous    *)
(* subscriptions is told of every message that some pipe of this processor  *)
(* takes from the network, however subscriptions come while the walk has    *)
(* released the lock; what it was not told yet is about to be reported.     *)
BridgeInformed ==
    informed => \A m \in Msgs : Exported(m) =>
        m \in known \/ \E t \in Tasks : report[t] = m
=============================================================================
