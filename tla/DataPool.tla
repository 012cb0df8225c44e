------------------------------- MODULE DataPool -----------------------------
(***************************************************************************)
(* What a cache of data that callers hold promises (cache.c, file.c): data  *)
(* that are held stay; data that are asked for and there cost no others;    *)
(* data that have to be read cost at most one, which nobody holds.          *)
(***************************************************************************)
EXTENDS Naturals

CONSTANT Ids   \* the data there are

VARIABLES
  resident,  \* the data that are in memory
  pins       \* how often each is held

vars == <<resident, pins>>

Init == resident = {} /\ pins = [d \in Ids |-> 0]

(* d is brought in, where one that nobody holds may have been.              *)
BringIn(d) ==
  LET gone == resident \ resident'
  IN  /\ d \in resident' /\ resident' \ {d} \subseteq resident
      /\ \A x \in gone : pins[x] = 0
      /\ d \in resident => gone = {}
      /\ \A x, y \in gone : x = y

Take(d) ==
  /\ BringIn(d)
  /\ pins' = [pins EXCEPT ![d] = @ + 1]

(* d was not there and could not be read; its place is taken all the same.  *)
TakeInVain(d) ==
  /\ d \notin resident /\ BringIn(d)
  /\ UNCHANGED pins

GiveBack(d) ==
  /\ pins[d] > 0 /\ pins' = [pins EXCEPT ![d] = @ - 1]
  /\ UNCHANGED resident

Discard(d) ==
  /\ pins[d] = 1 /\ pins' = [pins EXCEPT ![d] = 0]
  /\ resident' = resident \ {d}

Clear == resident' = {} /\ pins' = [d \in Ids |-> 0]

Next ==
  \/ \E d \in Ids : Take(d) \/ TakeInVain(d) \/ GiveBack(d) \/ Discard(d)
  \/ Clear

Spec == Init /\ [][Next]_vars
=============================================================================
