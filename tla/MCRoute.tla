------------------------------ MODULE MCRoute ------------------------------
(* Instances of Route for the model checker.  Destinations are             *)
(* interchangeable: no definition names one of them.                       *)
EXTENDS Route, TLC

Symmetry == Permutations(Dst)
=============================================================================
