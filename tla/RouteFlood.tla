----------------------------- MODULE RouteFlood -----------------------------
(***************************************************************************)
(* The search for a leg of the route (route.c): route_graph_flood spreads   *)
(* costs from the street of the destination over the street segments of     *)
(* the graph, and route_path_new follows them from the street of the       *)
(* position.  A segment is driven in two ways, entered at its start or at   *)
(* its end; each way has a cost of its own (seg_start_out_cost and          *)
(* seg_end_out_cost) and remembers the segment driven next.                *)
(*                                                                         *)
(* A segment stands for a street item: items cut into several segments     *)
(* (NAVIT_AF_SEGMENTED), turn restrictions and traffic distortions are not *)
(* modelled.                                                               *)
(***************************************************************************)
EXTENDS Integers, Sequences, FiniteSets

CONSTANTS
  N,          \* number of segments, numbered as route_graph_add_segment adds them
  Points,     \* route graph points
  Nobody,     \* no segment
  Impassable, \* INT_MAX
  Nets        \* the graphs, with the streets of position and destination

Segments == 1..N

Sides == {"start", "end"}

Ways == Segments \X Sides

(***************************************************************************)
(* A graph has for each segment its two points, the cost of driving it     *)
(* (route_value_seg) and the ends at which the vehicle may enter it: both, *)
(* one or none.  The position and the destination are each on a street     *)
(* ("pos", "dst"), at a percentage of its length, and the position may     *)
(* have a heading (street_direction).                                      *)
(***************************************************************************)
Graph ==
  [start: [Segments -> Points], end: [Segments -> Points],
   value: [Segments -> 0..(Impassable - 1)], open: [Segments -> SUBSET Sides],
   pos: Segments, posAt: 0..100, heading: {-1, 0, 1},
   dst: Segments, dstAt: 0..100]

TurnAround == 4000

ASSUME FloodAssumption ==
  /\ N \in Nat \ {0}
  /\ Nobody \notin Segments
  /\ Impassable \in Nat \ {0}
  /\ Nets \subseteq Graph

VARIABLES
  net,    \* the graph and the two streets that are given
  cost,   \* seg_start_out_cost and seg_end_out_cost
  from,   \* end_from_seg and start_from_seg: the segment to drive next
  heap,   \* the ways in the heap
  cut,    \* max_cost # INT_MAX: the street of the position was reached
  phase,  \* seed, flood, start, walk, done
  next,   \* the segment route_path_new looks at
  at,     \* the point it has reached ("start" in the code)
  path,   \* the ways that make up the path
  ended,  \* dstinfo: the path was cut at the destination
  least   \* the costs of the best drives, which only properties read

vars == <<net, cost, from, heap, cut, phase, next, at, path, ended, least>>

-----------------------------------------------------------------------------
(* Where a way is entered and left, and what driving it costs.              *)
Other(side) == IF side = "start" THEN "end" ELSE "start"

PointOf(s, side) == IF side = "start" THEN net.start[s] ELSE net.end[s]

Entry(w) == PointOf(w[1], w[2])
Exit(w) == PointOf(w[1], Other(w[2]))

(* route_value_seg: INT_MAX if the vehicle may not drive in this direction. *)
Value(w) == IF w[2] \in net.open[w[1]] THEN net.value[w[1]] ELSE Impassable

(* Mutant: the operands of the difference are swapped.                      *)
ShareOfWrongSign(w, percent) ==
  (Value(w) * (IF w[2] = "start" THEN percent ELSE percent - 100)) \div 100

(* The share of a segment between one of its ends and a place on it.        *)
Share(w, percent) ==
  (Value(w) * (IF w[2] = "start" THEN percent ELSE 100 - percent)) \div 100

(* The cost to reach the destination on its own street.                     *)
Seed(w) ==
  IF w[1] = net.dst /\ Value(w) # Impassable
    THEN Share(w, net.dstAt) ELSE Impassable

(* The ways that can be driven before w: not the same street back.          *)
Before(w) ==
  {v \in Ways : v[1] # w[1] /\ Exit(v) = Entry(w) /\ Value(v) # Impassable}

-----------------------------------------------------------------------------
(* The reference: the least costs of drives to the destination of at most n *)
(* segments, and so of all drives when n is the number of ways.             *)
Offers(v, c) ==
  {c[v]} \cup {c[w] + Value(v) : w \in {x \in Ways : c[x] # Impassable /\ v \in Before(x)}}

Improved(c) == [v \in Ways |-> CHOOSE m \in Offers(v, c) : \A n \in Offers(v, c) : m <= n]

LeastIn[n \in Nat] ==
  IF n = 0 THEN [w \in Ways |-> Seed(w)]
  ELSE LET known == LeastIn[n - 1]
       IN  IF Improved(known) = known THEN known ELSE Improved(known)

Least == LeastIn[2 * N]

(* A graph just built or reset: no segment has a cost.                      *)
Init ==
  /\ net \in Nets
  /\ cost = [w \in Ways |-> Impassable]
  /\ from = [w \in Ways |-> Nobody]
  /\ heap = {}
  /\ cut = FALSE
  /\ phase = "seed"
  /\ next = Nobody
  /\ at = net.start[net.pos]
  /\ path = <<>>
  /\ ended = FALSE
  /\ least = Least

(* Mutant: the place of the destination is measured from the wrong end.     *)
SeedDestinationFromWrongEnd ==
  /\ phase = "seed"
  /\ phase' = "flood"
  /\ cost' = [w \in Ways |->
               IF Seed(w) = Impassable THEN Impassable
               ELSE Share(w, 100 - net.dstAt)]
  /\ heap' = {w \in Ways : Seed(w) # Impassable}
  /\ UNCHANGED <<net, from, cut, next, at, path, ended, least>>

(* The segments of the destination's street get the first costs.            *)
SeedDestination ==
  /\ phase = "seed"
  /\ phase' = "flood"
  /\ cost' = [w \in Ways |-> Seed(w)]
  /\ heap' = {w \in Ways : Seed(w) # Impassable}
  /\ UNCHANGED <<net, from, cut, next, at, path, ended, least>>

(* The way the loop takes next: one with the smallest key.  If both ways of *)
(* its segment are in the heap at that cost, the one entered at the end.    *)
Extracted ==
  {w \in heap :
     /\ \A v \in heap : cost[w] <= cost[v]
     /\ w[2] = "start" =>
          ~(<<w[1], "end">> \in heap /\ cost[<<w[1], "end">>] = cost[w])}

(* The list of the segments that end at the point is left as soon as the    *)
(* position's street was reached; segments added later stand before the     *)
(* others in it.                                                            *)
Reached(w, v) == v[1] = net.pos /\ v \in Before(w)

(* Mutant: only the segments that lead away from the point are looked at.   *)
RelaxedAway(w) == {v \in Before(w) : v[2] = "end"}

(* The ways that one round looks at.                                        *)
Relaxed(w) ==
  LET away == {v \in Before(w) : v[2] = "end"}
      toward == {v \in Before(w) : v[2] = "start"}
      posAway == \E v \in away : Reached(w, v)
      posToward == \E v \in toward : Reached(w, v)
  IN  away \cup
        (IF cut \/ posAway THEN {}
         ELSE {v \in toward : posToward => v[1] >= net.pos})

(* Mutant: a way that costs the same counts as better.                      *)
RelaxNotStrictly(w) ==
  LET better == {v \in Relaxed(w) : cost[w] + Value(v) <= cost[v]} IN
  /\ phase = "flood"
  /\ w \in Extracted
  /\ cost' = [v \in Ways |-> IF v \in better THEN cost[w] + Value(v) ELSE cost[v]]
  /\ from' = [v \in Ways |-> IF v \in better THEN w[1] ELSE from[v]]
  /\ heap' = (heap \ {w}) \cup better
  /\ cut' = (cut \/ \E v \in Relaxed(w) : Reached(w, v))
  /\ UNCHANGED <<net, phase, next, at, path, ended, least>>

(* One round of the loop: a way leaves the heap and the ways before it are  *)
(* improved.                                                                *)
Relax(w) ==
  LET better == {v \in Relaxed(w) : cost[w] + Value(v) < cost[v]} IN
  /\ phase = "flood"
  /\ w \in Extracted
  /\ cost' = [v \in Ways |-> IF v \in better THEN cost[w] + Value(v) ELSE cost[v]]
  /\ from' = [v \in Ways |-> IF v \in better THEN w[1] ELSE from[v]]
  /\ heap' = (heap \ {w}) \cup better
  /\ cut' = (cut \/ \E v \in Relaxed(w) : Reached(w, v))
  /\ UNCHANGED <<net, phase, next, at, path, ended, least>>

(* The heap is empty: route_path_update_done is called.                     *)
FloodEnds ==
  /\ phase = "flood"
  /\ heap = {}
  /\ phase' = "start"
  /\ UNCHANGED <<net, cost, from, heap, cut, next, at, path, ended, least>>

-----------------------------------------------------------------------------
(* The cost of leaving the position by a way of its street, with the        *)
(* penalty of a turn against the vehicle's heading.                         *)
StartCost(w, c) ==
  IF Value(w) = Impassable \/ c[w] = Impassable THEN Impassable
  ELSE c[w] - Share(w, net.posAt)
       + (IF net.heading = (IF w[2] = "start" THEN -1 ELSE 1) THEN TurnAround ELSE 0)

Forward == <<net.pos, "start">>
Backward == <<net.pos, "end">>

(* Mutant: both ways have to lead to the destination.                       *)
BlockedEitherWay ==
  StartCost(Forward, cost) = Impassable \/ StartCost(Backward, cost) = Impassable

(* Neither way of the position's street leads to the destination.           *)
Blocked ==
  StartCost(Forward, cost) = Impassable /\ StartCost(Backward, cost) = Impassable

(* Equal costs are told apart by the full costs of the street's ways.       *)
GoesForward ==
  LET f == StartCost(Forward, cost)
      b == StartCost(Backward, cost)
  IN  IF f = b THEN cost[Backward] < cost[Forward] ELSE f < b

NotFound ==
  /\ phase = "start"
  /\ Blocked
  /\ phase' = "done"
  /\ UNCHANGED <<net, cost, from, heap, cut, next, at, path, ended, least>>

(* The path begins at the end of the position's street that is entered.     *)
Start ==
  /\ phase = "start"
  /\ ~Blocked
  /\ phase' = "walk"
  /\ next' = net.pos
  /\ at' = Entry(IF GoesForward THEN Forward ELSE Backward)
  /\ UNCHANGED <<net, cost, from, heap, cut, path, ended, least>>

(* The way of the segment that is driven from the point reached.            *)
Driven == IF net.start[next] = at THEN <<next, "start">> ELSE <<next, "end">>

(* Mutant: a path never ends with a segment it came to by a successor.      *)
EndsAtItself == next = net.dst /\ from[Driven] = next

(* The path ends on the destination's street, unless that is the first one: *)
(* no segment is its own successor.                                         *)
Ends == next = net.dst /\ (from[Driven] = next \/ path # <<>>)

(* One round of the loop of route_path_new: a way is added to the path.     *)
Walk ==
  /\ phase = "walk"
  /\ next # Nobody /\ ~ended
  /\ ended' = Ends
  /\ path' = Append(path, Driven)
  /\ at' = Exit(Driven)
  /\ next' = from[Driven]
  /\ UNCHANGED <<net, cost, from, heap, cut, phase, least>>

WalkEnds ==
  /\ phase = "walk"
  /\ next = Nobody \/ ended
  /\ phase' = "done"
  /\ UNCHANGED <<net, cost, from, heap, cut, next, at, path, ended, least>>

(* The leg is computed, or was not found.                                   *)
Stopped == phase = "done" /\ UNCHANGED vars

Next ==
  \/ SeedDestination
  \/ \E w \in Ways : Relax(w)
  \/ FloodEnds
  \/ NotFound
  \/ Start
  \/ Walk
  \/ WalkEnds
  \/ Stopped

Spec == Init /\ [][Next]_vars

FairSpec == Spec /\ WF_vars(Next)

-----------------------------------------------------------------------------
Costs == 0..Impassable

(* Every variable has its type; no cost exceeds INT_MAX.                    *)
TypeOK ==
  /\ cost \in [Ways -> Costs]
  /\ from \in [Ways -> Segments \cup {Nobody}]
  /\ heap \subseteq Ways
  /\ cut \in BOOLEAN /\ ended \in BOOLEAN
  /\ phase \in {"seed", "flood", "start", "walk", "done"}
  /\ next \in Segments \cup {Nobody}
  /\ at \in Points
  /\ path \in Seq(Ways)

(* No cost is lower than that of the best drive: every cost is that of a    *)
(* drive that exists, and ways that lead nowhere keep INT_MAX.              *)
CostsAreDrives == \A w \in Ways : cost[w] >= least[w]

(* Until the position's street is reached the loop is Dijkstra's algorithm: *)
(* a way that left the heap has the cost of its best drive.                 *)
SettledUntilCut ==
  (phase = "flood" /\ ~cut) =>
    \A w \in Ways : (cost[w] # Impassable /\ w \notin heap) => cost[w] = least[w]

(* A path is found exactly if a drive to the destination exists, although   *)
(* the loop stops looking at half of the segments.                          *)
FoundIfReachable ==
  phase = "done" =>
    (path # <<>> <=> \E w \in {Forward, Backward} : StartCost(w, least) # Impassable)

(* A path starts on the position's street, drives segments that are joined  *)
(* and passable, and ends on the destination's street.                      *)
PathArrives ==
  (phase = "done" /\ path # <<>>) =>
    /\ path[1][1] = net.pos
    /\ \A i \in 1..Len(path) : Value(path[i]) # Impassable
    /\ \A i \in 1..(Len(path) - 1) : Exit(path[i]) = Entry(path[i + 1])
    /\ ended /\ path[Len(path)][1] = net.dst

(* The successors make no circle, even of streets that cost nothing: the    *)
(* loop that puts the path together never drives a way again.               *)
NoWayTwice == \A i, j \in 1..Len(path) : path[i] = path[j] => i = j

(* "This function uses Dijkstra's algorithm": the cost that route_path_new  *)
(* starts with is the least over all drives from the position.              *)
LeastCostly ==
  phase = "walk" =>
    LET start == IF path = <<>> THEN at ELSE Entry(path[1])
        w == IF start = Entry(Forward) THEN Forward ELSE Backward
    IN  \A v \in {Forward, Backward} : StartCost(w, cost) <= StartCost(v, least)

(* The search ends whatever the streets look like.                          *)
Terminates == <>(phase = "done")
=============================================================================
