------------------------------ MODULE Guidance ------------------------------
(***************************************************************************)
(* What a route promises to the driver (route.c), as the streets to follow *)
(* show it: the way to the first destinations is known all at once or not   *)
(* at all, it is lost only as a whole, and while it is known destinations  *)
(* leave the list only from its front, each with its leg.  A driver whose  *)
(* position is known gets a way, a refusal, or another plan.               *)
(***************************************************************************)
EXTENDS Naturals, Sequences

CONSTANT Dst  \* destinations

VARIABLES
  itinerary,  \* the destinations, in their order
  known,      \* to how many of them, the first ones, the way is known
  refused,    \* no way was found
  located     \* the position of the driver is on a street

vars == <<itinerary, known, refused, located>>

Init ==
  /\ itinerary = <<>>
  /\ known = 0
  /\ refused = FALSE
  /\ located = FALSE

Locate ==
  /\ located' \in BOOLEAN
  /\ UNCHANGED <<itinerary, known, refused>>

(* The driver wants to go elsewhere, or nowhere.                            *)
Plan ==
  /\ itinerary' \in Seq(Dst)
  /\ known' = 0
  /\ refused' = FALSE
  /\ UNCHANGED located

(* The way to the same destinations is looked for anew.                     *)
StartOver ==
  /\ known' = 0
  /\ refused' = FALSE
  /\ UNCHANGED <<itinerary, located>>

Answer ==
  /\ itinerary # <<>> /\ known = 0 /\ located
  /\ known' \in 1..Len(itinerary)
  /\ refused' = FALSE
  /\ UNCHANGED <<itinerary, located>>

Refuse ==
  /\ itinerary # <<>> /\ located
  /\ known' = 0
  /\ refused' = TRUE
  /\ UNCHANGED <<itinerary, located>>

(* The first destination is reached; the way to the others stays known.     *)
Reach ==
  /\ known > 0 /\ located
  /\ itinerary' = Tail(itinerary)
  /\ known' = known - 1
  /\ UNCHANGED <<refused, located>>

Next == Locate \/ Plan \/ StartOver \/ Answer \/ Refuse \/ Reach

Spec == Init /\ [][Next]_vars

(* A request is not left open.                                              *)
Open == itinerary # <<>> /\ known = 0 /\ ~refused /\ located

FairSpec == Spec /\ WF_vars(Open /\ (Answer \/ Refuse))
=============================================================================
