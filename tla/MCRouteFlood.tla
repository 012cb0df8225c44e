---------------------------- MODULE MCRouteFlood ----------------------------
(* Instances of RouteFlood for the model checker: all graphs of N segments   *)
(* on three points, in every order of the segments.  The names of points    *)
(* do not matter, so the first segment leads from 1 to 2; nor does it which  *)
(* end of a street is its start, unless a place on it is given in percent.   *)
(* Each may be open in both directions or in one, and the first also in none.*)
EXTENDS RouteFlood

CONSTANTS
  Values,     \* costs of the segments
  Percents,   \* places of the position and of the destination
  Headings,   \* headings of the position
  SameStreet  \* position and destination are on one street, or on two

SmallNets ==
  {n \in [start: [Segments -> Points], end: [Segments -> Points],
          value: [Segments -> Values], open: [Segments -> SUBSET Sides],
          pos: Segments, posAt: Percents, heading: Headings,
          dst: Segments, dstAt: Percents] :
     /\ n.start[1] = 1 /\ n.end[1] = 2
     /\ \A s \in Segments : n.start[s] # n.end[s]
     /\ \A s \in Segments \ {n.pos, n.dst} : n.start[s] < n.end[s]
     /\ \A s \in 2..N : n.open[s] # {}
     /\ SameStreet = (n.pos = n.dst)}
=============================================================================
