----------------------------- MODULE MCRouteTable -----------------------------
(* Five messages, four map entries, three routes: two messages share a hash, *)
(* the probe of another starts inside theirs, and the probes wrap.           *)
EXTENDS RouteTable

CONSTANTS M1, M2, M3, M4, M5

MCHash == [m \in MsgIds |-> CASE m = M1 -> 3 [] m = M2 -> 3
                              [] m = M3 -> 0 [] m = M4 -> 1 [] m = M5 -> 2]
=============================================================================
