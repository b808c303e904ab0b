----------------------------- MODULE TableImages -----------------------------
(***************************************************************************)
(* What Table Services promise to the users of a table: its image changes  *)
(* all at once, and what a user has taken stays as it was until the user   *)
(* gives it back.                                                          *)
(***************************************************************************)
CONSTANTS Tables, Users, Images, NoImage

VARIABLES current,  \* the image of each table, NoImage before the first
          held      \* what each user holds, NoImage if nothing

vars == <<current, held>>

Init == /\ current = [t \in Tables |-> NoImage]
        /\ held = [u \in Users |-> NoImage]

Publish(t, i) == current' = [current EXCEPT ![t] = i] /\ UNCHANGED held
Take(u, t) == held' = [held EXCEPT ![u] = current[t]] /\ UNCHANGED current
Drop(u) == held' = [held EXCEPT ![u] = NoImage] /\ UNCHANGED current

(* The last user of a table goes, and the table with it. *)
Discard(t, u) == /\ current' = [current EXCEPT ![t] = NoImage]
                 /\ held' = [held EXCEPT ![u] = NoImage]

(* A restart. *)
Restart == /\ current' = [t \in Tables |-> NoImage]
           /\ held' = [u \in Users |-> NoImage]

Next == \/ \E t \in Tables, i \in Images : Publish(t, i)
        \/ \E u \in Users, t \in Tables : Take(u, t) \/ Discard(t, u)
        \/ \E u \in Users : Drop(u)
        \/ Restart

Spec == Init /\ [][Next]_vars
=============================================================================
