---------------------------- MODULE MCAppLifecycle ----------------------------
(* The names of applications are interchangeable. *)
EXTENDS AppLifecycleProps, TLC

NameSymmetry == Permutations(Names)
=============================================================================
