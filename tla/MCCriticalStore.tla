---------------------------- MODULE MCCriticalStore ----------------------------
(* The name "a" is registered with either of two sizes.                      *)
EXTENDS CriticalStore

MCSizesOf == [n \in Names |-> IF n = "a" THEN {1, 2} ELSE {1}]
MCImagesOf == [n \in Names |-> {n}]
=============================================================================
