---------------------------- MODULE MCSoftwareBus ----------------------------
(* Instances of SoftwareBus for TLC: two applications, three tasks of which *)
(* two belong to the same application, and the calls that each task makes.  *)
EXTENDS SoftwareBusProps, TLC

CONSTANTS A1, A2, T1, T2, T3

MCAppOf == [t \in Tasks |-> IF t = T3 THEN A2 ELSE A1]

(* Error counters abstracted away: a counter modulo 1 is always 0. *)
NoCounters == [c \in Counters |-> 1]

Does(first, second, third) ==
    [t \in Tasks |-> CASE t = T1 -> first [] t = T2 -> second [] t = T3 -> third]

(* T1 subscribes and receives on pipes that T2, of the same application,    *)
(* deletes; T3 sends.                                                       *)
PipeLife == Does({"CreatePipe", "Subscribe", "ReceiveBuffer"},
                 {"DeletePipe", "ReceiveBuffer"},
                 {"TransmitMsg"})

(* Subscriptions come and go, are disabled and enabled, and run into their  *)
(* limits, while messages are on the pipe.                                  *)
Routing == Does({"CreatePipe", "Subscribe", "Unsubscribe", "ReceiveBuffer"},
                {"TransmitMsg", "SetPipeOpts"},
                {"RouteCmd", "ResetCounters"})

(* A receiver that deletes its pipe, a sender that uses zero copy, and one  *)
(* of another application that does not and looks the pipe up by name.      *)
ZeroCopy == Does({"CreatePipe", "Subscribe", "ReceiveBuffer", "DeletePipe"},
                 {"Allocate", "Release", "TransmitBuffer"},
                 {"TransmitMsg", "GetPipeIdByName"})

BufferSymmetry == Permutations(Buffers)
=============================================================================
