------------------------------- MODULE AppLife -------------------------------
(***************************************************************************)
(* What Executive Services promise about applications: an application ID   *)
(* is used once, at most one application of a name exists, and a running   *)
(* application is taken down only after it exited or somebody asked for it.*)
(***************************************************************************)
EXTENDS Naturals

CONSTANTS Ids, Names, NoName

VARIABLES phase,   \* life of each ID
          name,    \* name of the application with that ID
          wanted,  \* IDs that exited or that a request is pending for
          top      \* the last ID given out

vars == <<phase, name, wanted, top>>

Present == {i \in Ids : phase[i] # "none"}

Init == /\ phase = [i \in Ids |-> "none"]
        /\ name = [i \in Ids |-> NoName]
        /\ wanted = {}
        /\ top = 0

Start(i, n) ==
    /\ i > top /\ phase[i] = "none"
    /\ \A j \in Present : name[j] # n
    /\ phase' = [phase EXCEPT ![i] = "starting"]
    /\ name' = [name EXCEPT ![i] = n]
    /\ top' = i
    /\ UNCHANGED wanted

Started(i) == /\ phase[i] = "starting"
              /\ phase' = [phase EXCEPT ![i] = "alive"]
              /\ UNCHANGED <<name, wanted, top>>

(* An application exits, or a request for it is accepted. *)
Want(i) == /\ phase[i] = "alive"
           /\ wanted' = wanted \union {i}
           /\ UNCHANGED <<phase, name, top>>

Leave(i) == /\ phase[i] = "alive" /\ i \in wanted
            /\ phase' = [phase EXCEPT ![i] = "leaving"]
            /\ wanted' = wanted \ {i}
            /\ UNCHANGED <<name, top>>

(* The start failed, or the clean-up is complete. *)
Gone(i) == /\ phase[i] \in {"starting", "leaving"}
           /\ phase' = [phase EXCEPT ![i] = "none"]
           /\ name' = [name EXCEPT ![i] = NoName]
           /\ UNCHANGED <<wanted, top>>

Next == \E i \in Ids : \/ \E n \in Names : Start(i, n)
                       \/ Started(i) \/ Want(i) \/ Leave(i) \/ Gone(i)

Spec == Init /\ [][Next]_vars
=============================================================================
