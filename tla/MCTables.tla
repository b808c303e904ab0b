------------------------------- MODULE MCTables -------------------------------
(* Two applications, a single- and a double-buffered table, a dump-only one. *)
EXTENDS TablesProps

MCOwnerOf == [n \in Names |-> IF n = "u" THEN "A2" ELSE "A1"]
=============================================================================
