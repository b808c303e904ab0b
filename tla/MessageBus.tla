------------------------------ MODULE MessageBus ------------------------------
(***************************************************************************)
(* What the Software Bus promises its clients: named pipes that come into  *)
(* being once, interest of pipes in messages, and first-in first-out       *)
(* delivery of a message to pipes that exist and want it, at most once per *)
(* transmission.  Nothing is said of buffers, slots, locks or limits.      *)
(***************************************************************************)
EXTENDS Naturals, Sequences

CONSTANTS Pipes, Msgs

VARIABLES
    unused,    \* pipe IDs that have never named a pipe
    exists,    \* the pipes that exist
    interest,  \* [Msgs -> SUBSET Pipes]: who wants a message
    content    \* [Pipes -> Seq(Msgs)]: what waits on a pipe

busVars == <<unused, exists, interest, content>>

BusTypeOK ==
    /\ unused \subseteq Pipes /\ exists \subseteq Pipes
    /\ interest \in [Msgs -> SUBSET Pipes]
    /\ content \in [Pipes -> Seq(Msgs)]

BusInit ==
    /\ unused \subseteq Pipes
    /\ exists = {}
    /\ interest = [m \in Msgs |-> {}]
    /\ content = [p \in Pipes |-> <<>>]

(* IDs are given up without ever naming a pipe. *)
Skip(ids) ==
    /\ ids # {} /\ ids \subseteq unused
    /\ unused' = unused \ ids
    /\ UNCHANGED <<exists, interest, content>>

(* A pipe begins empty and unsubscribed. *)
Open(p) ==
    /\ p \in unused
    /\ unused' = unused \ {p}
    /\ exists' = exists \cup {p}
    /\ UNCHANGED <<interest, content>>

(* With the pipe goes its interest; what waits on it is dropped later.      *)
Close(p) ==
    /\ p \in exists
    /\ exists' = exists \ {p}
    /\ interest' = [m \in Msgs |-> interest[m] \ {p}]
    /\ UNCHANGED <<unused, content>>

Drop(p, n) ==
    /\ p \notin exists /\ n \in 1..Len(content[p])
    /\ content' = [content EXCEPT ![p] = SubSeq(@, n + 1, Len(@))]
    /\ UNCHANGED <<unused, exists, interest>>

Want(m, p) ==
    /\ p \in exists \ interest[m]
    /\ interest' = [interest EXCEPT ![m] = @ \cup {p}]
    /\ UNCHANGED <<unused, exists, content>>

Unwant(m, p) ==
    /\ p \in interest[m]
    /\ interest' = [interest EXCEPT ![m] = @ \ {p}]
    /\ UNCHANGED <<unused, exists, content>>

(* A transmission reaches some of the pipes that want the message.          *)
Publish(m, ps) ==
    /\ ps # {} /\ ps \subseteq interest[m]
    /\ content' = [p \in Pipes |-> IF p \in ps THEN Append(content[p], m)
                                               ELSE content[p]]
    /\ UNCHANGED <<unused, exists, interest>>

Take(p) ==
    /\ content[p] # <<>>
    /\ content' = [content EXCEPT ![p] = Tail(@)]
    /\ UNCHANGED <<unused, exists, interest>>

BusNext ==
    \/ \E ids \in SUBSET Pipes : Skip(ids)
    \/ \E p \in Pipes : Open(p) \/ Close(p) \/ Take(p)
    \/ \E p \in Pipes : \E n \in 1..Len(content[p]) : Drop(p, n)
    \/ \E m \in Msgs, p \in Pipes : Want(m, p) \/ Unwant(m, p)
    \/ \E m \in Msgs, ps \in SUBSET Pipes : Publish(m, ps)

BusSpec == BusInit /\ [][BusNext]_busVars
=============================================================================
