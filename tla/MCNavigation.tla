---------------------------- MODULE MCNavigation ----------------------------
(* Instance of Navigation for the model checker.  The streets, and their    *)
(* directions, are interchangeable.                                         *)
EXTENDS Navigation, TLC

CONSTANTS
  s1, s2,             \* streets
  forward, backward   \* directions

StreetItems == {s1, s2}
BothDirs == {forward, backward}

Interchangeable ==
  {p @@ q : p \in Permutations(StreetItems), q \in Permutations(BothDirs)}
=============================================================================
