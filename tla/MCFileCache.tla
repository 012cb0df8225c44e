----------------------------- MODULE MCFileCache ----------------------------
(* Instance of FileCache for the model checker: five pieces of data of      *)
(* three lengths, one of them compressed, in a cache that has room for two  *)
(* of the smallest.                                                         *)
EXTENDS FileCache, TLC

CONSTANTS e1, e2, e3, e4, e5   \* the data

FileIds == {e1, e2, e3, e4, e5}
Inflated == {e4}
Lengths == (e1 :> 1) @@ (e2 :> 1) @@ (e3 :> 2) @@ (e4 :> 3) @@ (e5 :> 1)
=============================================================================
