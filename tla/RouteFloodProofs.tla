-------------------------- MODULE RouteFloodProofs --------------------------
(***************************************************************************)
(* Theorems about RouteFlood, for graphs of any number of segments and any *)
(* costs.                                                                  *)
(***************************************************************************)
EXTENDS RouteFlood, WellFoundedInduction, FiniteSetTheorems, TLAPS

(* Position and destination are on two streets; route_path_new does not cut *)
(* a path at the destination's place otherwise.                             *)
TwoStreets == \A n \in Nets : n.pos # n.dst

(* No segment is a loop: route_path_new tells the direction of a drive by   *)
(* the point it is entered at.                                              *)
NoLoops == \A n \in Nets : \A s \in Segments : n.start[s] # n.end[s]

(* The penalty of a turn does not reach INT_MAX with any cost.              *)
PenaltyFits ==
  \A w \in Ways : cost[w] # Impassable => cost[w] + TurnAround < Impassable

-----------------------------------------------------------------------------
(* A way with a cost can be driven, and leads somewhere unless it is on the *)
(* destination's street.                                                    *)
Leads(w) == Value(w) # Impassable /\ (w[1] = net.dst \/ from[w] # Nobody)

(* The way that is driven after v: it has a cost, and begins where v ends.  *)
Follows(v, w) == w[1] = from[v] /\ Entry(w) = Exit(v) /\ cost[w] # Impassable

CostInv ==
  /\ \A w \in Ways : cost[w] # Impassable => Leads(w)
  /\ \A w \in heap : cost[w] # Impassable

FromInv == \A v \in Ways : from[v] # Nobody => \E w \in Ways : Follows(v, w)

(* Nothing has a cost yet, and no path is put together before the flood has *)
(* ended.                                                                   *)
PhaseInv ==
  /\ phase = "seed" => from = [w \in Ways |-> Nobody]
  /\ phase \in {"seed", "flood", "start"} => path = <<>> /\ ~ended

(* The next way of the path is one with a cost.                             *)
AheadInv ==
  phase = "walk" =>
    /\ path = <<>> => next = net.pos
    /\ next = Nobody => ended
    /\ next # Nobody =>
         \E w \in Ways : w[1] = next /\ Entry(w) = at /\ cost[w] # Impassable

Joined ==
  /\ \A i \in 1..Len(path) : Value(path[i]) # Impassable
  /\ \A i \in 1..(Len(path) - 1) : Exit(path[i]) = Entry(path[i + 1])

DrivenInv ==
  /\ Joined
  /\ path # <<>> => path[1][1] = net.pos
  /\ phase = "walk" /\ path # <<>> => Exit(path[Len(path)]) = at
  /\ ended => path # <<>> /\ path[Len(path)][1] = net.dst
  /\ phase = "done" /\ path # <<>> => ended

FloodInv == TypeOK /\ net \in Nets /\ CostInv /\ FromInv /\ PhaseInv

PathInv == FloodInv /\ AheadInv /\ DrivenInv

-----------------------------------------------------------------------------
(* The share of a cost is no more than the cost.                            *)
LEMMA ShareFits ==
  ASSUME NEW v \in Nat, NEW p \in 0..100
  PROVE  (v * p) \div 100 \in 0..v
<1>1. v * p \in Nat /\ v * p <= v * 100
  <2>1. v * (100 - p) >= 0 /\ v * (100 - p) = v * 100 - v * p /\ v * p >= 0
    OBVIOUS
  <2> QED
    BY <2>1
<1> QED
  BY <1>1

(* What a graph is made of.                                                 *)
LEMMA NetType ==
  ASSUME net \in Nets
  PROVE  /\ net \in Graph
         /\ \A w \in Ways : Value(w) \in 0..Impassable
         /\ \A w \in Ways : Entry(w) \in Points /\ Exit(w) \in Points
         /\ Forward \in Ways /\ Backward \in Ways
<1>1. net \in Graph
  BY FloodAssumption
<1>2. ASSUME NEW w \in Ways
      PROVE  /\ Value(w) \in 0..Impassable
             /\ Entry(w) \in Points /\ Exit(w) \in Points
  BY <1>1, FloodAssumption DEF Value, Graph, Ways, Entry, Exit, PointOf, Other
<1>3. Forward \in Ways /\ Backward \in Ways
  BY <1>1 DEF Forward, Backward, Ways, Sides, Graph
<1> QED
  BY <1>1, <1>2, <1>3

LEMMA SeedType ==
  ASSUME net \in Nets, NEW w \in Ways
  PROVE  Seed(w) \in 0..Impassable /\ (Seed(w) # Impassable => w[1] = net.dst /\ Value(w) # Impassable)
<1>1. net.dstAt \in 0..100 /\ Value(w) \in 0..Impassable /\ Impassable \in Nat
  BY NetType, FloodAssumption DEF Graph
<1>2. Share(w, net.dstAt) \in 0..Value(w)
  <2>1. CASE w[2] = "start"
    BY <1>1, <2>1, ShareFits DEF Share
  <2>2. CASE w[2] # "start"
    <3>1. 100 - net.dstAt \in 0..100
      BY <1>1
    <3> QED
      BY <1>1, <2>2, <3>1, ShareFits DEF Share
  <2> QED
    BY <2>1, <2>2
<1> QED
  BY <1>1, <1>2 DEF Seed

LEMMA InitFlood == Init => FloodInv
<1> SUFFICES ASSUME Init
             PROVE  FloodInv
  OBVIOUS
<1> USE DEF Init
<1>1. net \in Nets /\ net \in Graph
  BY NetType
<1>2. TypeOK
  <2>1. cost \in [Ways -> Costs]
    BY FloodAssumption DEF Costs
  <2>2. at \in Points
    <3>1. net.pos \in Segments /\ net.start \in [Segments -> Points]
      BY <1>1 DEF Graph
    <3> QED
      BY <3>1
  <2>3. from \in [Ways -> Segments \cup {Nobody}] /\ next \in Segments \cup {Nobody}
    OBVIOUS
  <2>4. path \in Seq(Ways)
    OBVIOUS
  <2>5. heap \subseteq Ways /\ cut \in BOOLEAN /\ ended \in BOOLEAN /\ phase = "seed"
    OBVIOUS
  <2> QED
    BY ONLY <2>1, <2>2, <2>3, <2>4, <2>5 DEF TypeOK
<1>3. CostInv /\ FromInv /\ PhaseInv
  BY DEF CostInv, FromInv, PhaseInv
<1> QED
  BY <1>1, <1>2, <1>3 DEF FloodInv

(* The first costs are on the destination's street.                         *)
LEMMA SeedFlood == FloodInv /\ SeedDestination => FloodInv'
<1> SUFFICES ASSUME FloodInv, SeedDestination
             PROVE  FloodInv'
  OBVIOUS
<1> USE DEF FloodInv
<1>1. net' = net /\ from' = from /\ phase = "seed"
  BY DEF SeedDestination
<1>2. \A w \in Ways : cost'[w] = Seed(w) /\ cost'[w] \in Costs
  BY SeedType DEF SeedDestination, Costs
<1>3. TypeOK'
  BY <1>2, SeedType DEF TypeOK, SeedDestination, Costs
<1>4. CostInv'
  <2>1. ASSUME NEW w \in Ways, cost'[w] # Impassable
        PROVE  Leads(w)'
    BY <1>1, <1>2, <2>1, SeedType DEF Leads, Value
  <2>2. \A w \in heap' : cost'[w] # Impassable
    BY <1>2 DEF SeedDestination
  <2> QED
    BY <2>1, <2>2 DEF CostInv
<1>5. FromInv' /\ PhaseInv'
  BY <1>1 DEF SeedDestination, FromInv, PhaseInv
<1> QED
  BY <1>1, <1>3, <1>4, <1>5

(* One round gives a cost only to ways from which the extracted one can be  *)
(* driven, and takes no cost back.                                          *)
LEMMA RelaxFlood ==
  ASSUME NEW w \in Ways
  PROVE  FloodInv /\ Relax(w) => FloodInv'
<1> SUFFICES ASSUME FloodInv, Relax(w)
             PROVE  FloodInv'
  OBVIOUS
<1> USE DEF FloodInv
<1> DEFINE better == {v \in Relaxed(w) : cost[w] + Value(v) < cost[v]}
<1>1. net' = net /\ phase' = phase /\ phase = "flood" /\ path' = path /\ ended' = ended
  BY DEF Relax
<1>2. better \subseteq Before(w) /\ Before(w) \subseteq Ways
  BY DEF Relaxed, Before
<1>3. w \in heap /\ cost[w] # Impassable /\ cost[w] \in 0..Impassable
  BY DEF Relax, Extracted, CostInv, TypeOK, Costs
<1>4. \A v \in better : cost[w] + Value(v) \in 0..(Impassable - 1)
  BY <1>2, <1>3, NetType, FloodAssumption DEF TypeOK, Costs
<1>5. \A v \in Ways : /\ cost'[v] = IF v \in better THEN cost[w] + Value(v) ELSE cost[v]
                      /\ from'[v] = IF v \in better THEN w[1] ELSE from[v]
  BY DEF Relax
<1>6. heap' = (heap \ {w}) \cup better
  BY DEF Relax
<1> HIDE DEF better
<1>7. w[1] \in Segments
  BY DEF Ways
<1>8. \A v \in Ways : cost[v] # Impassable => cost'[v] # Impassable
  BY <1>4, <1>5, FloodAssumption
<1>9. TypeOK'
  <2>1. cost' \in [Ways -> Costs]
    <3>1. \A v \in Ways : cost'[v] \in Costs
      BY <1>4, <1>5, FloodAssumption DEF TypeOK, Costs
    <3>2. cost' = [v \in Ways |-> cost'[v]]
      BY DEF Relax
    <3> QED
      BY <3>1, <3>2
  <2>2. from' \in [Ways -> Segments \cup {Nobody}]
    <3>1. \A v \in Ways : from'[v] \in Segments \cup {Nobody}
      BY <1>5, <1>7 DEF TypeOK
    <3>2. from' = [v \in Ways |-> from'[v]]
      BY DEF Relax
    <3> QED
      BY <3>1, <3>2
  <2>3. heap' \subseteq Ways
    BY <1>2, <1>6 DEF TypeOK
  <2>4. cut' \in BOOLEAN
    BY DEF Relax, TypeOK
  <2> QED
    BY <1>1, <2>1, <2>2, <2>3, <2>4 DEF TypeOK, Relax
<1>10. CostInv'
  <2>1. ASSUME NEW v \in Ways, cost'[v] # Impassable
        PROVE  Leads(v)'
    <3>1. CASE v \in better
      <4>1. Value(v) # Impassable /\ Value(v)' = Value(v)
        BY <1>1, <1>2, <3>1 DEF Before, Value
      <4>2. from'[v] # Nobody
        BY <1>5, <1>7, <3>1, FloodAssumption
      <4> QED
        BY <4>1, <4>2 DEF Leads
    <3>2. CASE v \notin better
      <4>1. Leads(v) /\ from'[v] = from[v] /\ Value(v)' = Value(v)
        BY <1>1, <1>5, <2>1, <3>2 DEF CostInv, Value
      <4> QED
        BY <1>1, <4>1 DEF Leads
    <3> QED
      BY <3>1, <3>2
  <2>2. \A v \in heap' : cost'[v] # Impassable
    BY <1>2, <1>4, <1>5, <1>6, <1>8, FloodAssumption DEF CostInv, TypeOK
  <2> QED
    BY <2>1, <2>2 DEF CostInv
<1>11. FromInv'
  <2> SUFFICES ASSUME NEW v \in Ways, from'[v] # Nobody
               PROVE  \E u \in Ways : Follows(v, u)'
    BY DEF FromInv
  <2>0. \A u \in Ways : Entry(u)' = Entry(u) /\ Exit(u)' = Exit(u)
    BY <1>1 DEF Entry, Exit, PointOf
  <2>1. CASE v \in better
    <3>1. from'[v] = w[1] /\ Entry(w) = Exit(v) /\ cost'[w] # Impassable
      BY <1>2, <1>3, <1>5, <1>8, <2>1 DEF Before
    <3>2. Follows(v, w)'
      BY <3>1, <2>0 DEF Follows
    <3> QED
      BY <3>2
  <2>2. CASE v \notin better
    <3>1. PICK u \in Ways : Follows(v, u)
      BY <1>5, <2>2 DEF FromInv
    <3>2. Follows(v, u)'
      BY <1>5, <1>8, <2>0, <2>2, <3>1 DEF Follows
    <3> QED
      BY <3>2
  <2> QED
    BY <2>1, <2>2
<1>12. PhaseInv'
  BY <1>1 DEF PhaseInv
<1> QED
  BY <1>1, <1>9, <1>10, <1>11, <1>12

(* The steps that put the path together leave the costs as they are.        *)
LEMMA SameFlood ==
  ASSUME FloodInv, UNCHANGED <<net, cost, from, heap>>, phase' # "seed" \/ UNCHANGED phase
  PROVE  net' \in Nets /\ CostInv' /\ FromInv' /\ (phase' = "seed" => from' = [w \in Ways |-> Nobody])
<1> USE DEF FloodInv
<1>1. \A v \in Ways : /\ Value(v)' = Value(v) /\ Entry(v)' = Entry(v) /\ Exit(v)' = Exit(v)
  BY DEF Value, Entry, Exit, PointOf
<1>2. CostInv'
  BY <1>1 DEF CostInv, Leads, TypeOK
<1>3. FromInv'
  <2> SUFFICES ASSUME NEW v \in Ways, from[v] # Nobody
               PROVE  \E w \in Ways : Follows(v, w)'
    BY DEF FromInv
  <2>1. PICK w \in Ways : Follows(v, w)
    BY DEF FromInv
  <2>2. Follows(v, w)'
    BY <1>1, <2>1 DEF Follows
  <2> QED
    BY <2>2
<1> QED
  BY <1>2, <1>3 DEF PhaseInv

LEMMA NextFlood == FloodInv /\ [Next]_vars => FloodInv'
<1> SUFFICES ASSUME FloodInv, [Next]_vars
             PROVE  FloodInv'
  OBVIOUS
<1>1. CASE SeedDestination
  BY <1>1, SeedFlood
<1>2. ASSUME NEW w \in Ways, Relax(w)
      PROVE  FloodInv'
  BY <1>2, RelaxFlood
<1>3. CASE FloodEnds \/ NotFound
  <2>1. TypeOK' /\ PhaseInv'
    BY <1>3 DEF FloodEnds, NotFound, FloodInv, TypeOK, PhaseInv
  <2> QED
    BY <1>3, <2>1, SameFlood DEF FloodEnds, NotFound, FloodInv
<1>4. CASE Start
  <2>1. at' \in Points
    BY <1>4, NetType DEF Start, FloodInv
  <2>2. net.pos \in Segments
    BY NetType DEF Graph, FloodInv
  <2>3. TypeOK' /\ PhaseInv'
    BY <1>4, <2>1, <2>2 DEF Start, FloodInv, TypeOK, PhaseInv
  <2> QED
    BY <1>4, <2>3, SameFlood DEF Start, FloodInv
<1>5. CASE Walk
  <2>1. Driven \in Ways
    BY <1>5 DEF Walk, Driven, Ways, Sides, FloodInv, TypeOK
  <2>2. at' \in Points /\ from[Driven] \in Segments \cup {Nobody}
    BY <1>5, <2>1, NetType DEF Walk, FloodInv, TypeOK
  <2>3. Ends \in BOOLEAN
    BY DEF Ends
  <2>4. TypeOK' /\ PhaseInv'
    BY <1>5, <2>1, <2>2, <2>3 DEF Walk, FloodInv, TypeOK, PhaseInv
  <2> QED
    BY <1>5, <2>4, SameFlood DEF Walk, FloodInv
<1>6. CASE WalkEnds
  <2>1. TypeOK' /\ PhaseInv'
    BY <1>6 DEF WalkEnds, FloodInv, TypeOK, PhaseInv
  <2> QED
    BY <1>6, <2>1, SameFlood DEF WalkEnds, FloodInv
<1>7. CASE UNCHANGED vars
  <2>1. TypeOK' /\ PhaseInv'
    BY <1>7 DEF vars, FloodInv, TypeOK, PhaseInv
  <2> QED
    BY <1>7, <2>1, SameFlood DEF vars, FloodInv
<1> QED
  BY <1>1, <1>2, <1>3, <1>4, <1>5, <1>6, <1>7 DEF Next, Stopped

(* Every variable of the search keeps its type, and no cost exceeds         *)
(* INT_MAX, for every graph.                                                *)
THEOREM TypeCorrect == Spec => []TypeOK
<1>1. FloodInv => TypeOK
  BY DEF FloodInv
<1> QED
  BY <1>1, InitFlood, NextFlood, PTL DEF Spec

-----------------------------------------------------------------------------
(* The way that route_path_new starts with has a cost.                      *)
LEMMA StartHasCost ==
  ASSUME FloodInv, PenaltyFits, ~Blocked
  PROVE  cost[IF GoesForward THEN Forward ELSE Backward] # Impassable
<1> DEFINE f == StartCost(Forward, cost)
           b == StartCost(Backward, cost)
<1>1. ASSUME NEW w \in {Forward, Backward}
      PROVE  /\ StartCost(w, cost) \in Int
             /\ StartCost(w, cost) <= Impassable
             /\ cost[w] = Impassable => StartCost(w, cost) = Impassable
  <2>1. w \in Ways /\ Value(w) \in 0..Impassable /\ Impassable \in Nat
    BY NetType, FloodAssumption DEF FloodInv
  <2>2. net.posAt \in 0..100
    BY NetType DEF Graph, FloodInv
  <2>3. Share(w, net.posAt) \in 0..Value(w)
    <3>1. CASE w[2] = "start"
      BY <2>1, <2>2, <3>1, ShareFits DEF Share
    <3>2. CASE w[2] # "start"
      <4>1. 100 - net.posAt \in 0..100
        BY <2>2
      <4> QED
        BY <2>1, <3>2, <4>1, ShareFits DEF Share
    <3> QED
      BY <3>1, <3>2
  <2>4. cost[w] \in 0..Impassable
    BY <2>1 DEF FloodInv, TypeOK, Costs
  <2> QED
    BY <2>1, <2>3, <2>4 DEF StartCost, PenaltyFits, TurnAround
<1>2. f # Impassable \/ b # Impassable
  BY DEF Blocked
<1> QED
  BY <1>1, <1>2, FloodAssumption DEF GoesForward

(* The direction is read off the point, which no loop makes ambiguous.      *)
LEMMA DrivenIs ==
  ASSUME NoLoops, net \in Nets, NEW w \in Ways, w[1] = next, Entry(w) = at
  PROVE  Driven = w
<1>1. w = <<w[1], w[2]>> /\ w[1] \in Segments /\ w[2] \in {"start", "end"}
  BY DEF Ways, Sides
<1>2. net.start[next] # net.end[next]
  BY <1>1 DEF NoLoops
<1> QED
  BY <1>1, <1>2 DEF Driven, Entry, PointOf

LEMMA InitPath == Init => PathInv
<1>1. Init => AheadInv /\ DrivenInv
  BY DEF Init, AheadInv, DrivenInv, Joined
<1> QED
  BY <1>1, InitFlood DEF PathInv

(* A step that drives nothing leaves the path as it is.                     *)
LEMMA SamePath ==
  ASSUME Joined, UNCHANGED <<net, path>>
  PROVE  Joined'
BY DEF Joined, Value, Entry, Exit, PointOf

LEMMA JoinedNext ==
  ASSUME net' = net,
         \A i \in 1..Len(path') : Value(path'[i]) # Impassable,
         \A i \in 1..(Len(path') - 1) : Exit(path'[i]) = Entry(path'[i + 1])
  PROVE  Joined'
BY DEF Joined, Value, Entry, Exit, PointOf

LEMMA StartPath ==
  ASSUME PathInv, PenaltyFits, Start
  PROVE  AheadInv' /\ DrivenInv'
<1>0. PICK w \in Ways : w = IF GoesForward THEN Forward ELSE Backward
  BY NetType DEF PathInv, FloodInv
<1>1. w[1] = net.pos /\ net.pos \in Segments
  BY <1>0, NetType DEF Forward, Backward, PathInv, FloodInv, Graph
<1>2. cost[w] # Impassable
  BY <1>0, StartHasCost DEF Start, PathInv
<1>3. next' = net.pos /\ at' = Entry(w) /\ path = <<>> /\ ~ended
  BY <1>0 DEF Start, PathInv, FloodInv, PhaseInv
<1>4. UNCHANGED <<net, cost, path, ended>> /\ phase' = "walk"
  BY DEF Start
<1>5. Entry(w)' = Entry(w)
  BY <1>4 DEF Entry, PointOf
<1>6. w[1] = next' /\ Entry(w)' = at' /\ cost'[w] # Impassable
  BY <1>1, <1>2, <1>3, <1>4, <1>5
<1>7. AheadInv'
  <2>1. next' # Nobody
    BY <1>1, <1>3, FloodAssumption
  <2>2. \E v \in Ways : v[1] = next' /\ Entry(v)' = at' /\ cost'[v] # Impassable
    BY <1>6
  <2>3. next' = net'.pos
    BY <1>3, <1>4
  <2> QED
    BY <2>1, <2>2, <2>3 DEF AheadInv
<1>8. Joined'
  BY <1>4, SamePath DEF PathInv, DrivenInv
<1> QED
  BY <1>3, <1>4, <1>7, <1>8 DEF DrivenInv

LEMMA WalkPath ==
  ASSUME PathInv, NoLoops, TwoStreets, Walk
  PROVE  AheadInv' /\ DrivenInv'
<1> USE DEF PathInv, FloodInv
<1>1. phase = "walk" /\ phase' = "walk" /\ next # Nobody /\ ~ended
  BY DEF Walk
<1>2. PICK w \in Ways : w[1] = next /\ Entry(w) = at /\ cost[w] # Impassable
  BY <1>1 DEF AheadInv
<1>3. PICK d \in Ways : d = Driven /\ d = w
  BY <1>2, DrivenIs
<1>4. d \in Ways /\ d[1] = next /\ Entry(d) = at /\ cost[d] # Impassable /\ Leads(d)
  BY <1>2, <1>3 DEF CostInv
<1>5. /\ path' = Append(path, d) /\ at' = Exit(d) /\ next' = from[d]
      /\ ended' = Ends /\ UNCHANGED <<net, cost, from>>
  BY <1>3 DEF Walk
<1>6. path \in Seq(Ways) /\ path' \in Seq(Ways)
  BY <1>4, <1>5 DEF TypeOK
<1>7. /\ Len(path') = Len(path) + 1
      /\ path'[Len(path) + 1] = d
      /\ \A i \in 1..Len(path) : path'[i] = path[i]
  BY <1>4, <1>5, <1>6
<1>8. \A v \in Ways : Entry(v)' = Entry(v) /\ Exit(v)' = Exit(v) /\ Value(v)' = Value(v)
  BY <1>5 DEF Entry, Exit, PointOf, Value
<1>9. path = <<>> \/ Len(path) >= 1
  BY <1>6
<1>10. from[d] = Nobody => Ends
  <2>1. SUFFICES ASSUME from[d] = Nobody
                 PROVE  Ends
    OBVIOUS
  <2>2. next = net.dst
    BY <1>4, <2>1 DEF Leads
  <2>3. path # <<>>
    BY <1>1, <2>2 DEF AheadInv, TwoStreets
  <2> QED
    BY <2>2, <2>3 DEF Ends
<1>11. AheadInv'
  <2>1. path' # <<>>
    BY <1>6, <1>7
  <2>2. ASSUME next' # Nobody
        PROVE  \E v \in Ways : v[1] = next' /\ Entry(v)' = at' /\ cost'[v] # Impassable
    <3>1. PICK v \in Ways : Follows(d, v)
      BY <1>4, <1>5, <2>2 DEF FromInv
    <3> QED
      BY <1>5, <1>8, <3>1 DEF Follows
  <2> QED
    BY <1>5, <1>10, <2>1, <2>2 DEF AheadInv
<1>12. Joined'
  <2>1. ASSUME NEW i \in 1..Len(path')
        PROVE  Value(path'[i]) # Impassable
    <3>1. CASE i = Len(path) + 1
      BY <1>4, <1>7, <3>1 DEF Leads
    <3>2. CASE i # Len(path) + 1
      <4>1. i \in 1..Len(path) /\ path[i] \in Ways
        BY <1>6, <1>7, <2>1, <3>2
      <4> QED
        BY <1>7, <4>1 DEF DrivenInv, Joined
    <3> QED
      BY <3>1, <3>2
  <2>2. ASSUME NEW i \in 1..(Len(path') - 1)
        PROVE  Exit(path'[i]) = Entry(path'[i + 1])
    <3>0. i \in 1..Len(path) /\ path[i] \in Ways /\ path'[i] = path[i]
      BY <1>6, <1>7
    <3>1. CASE i = Len(path)
      <4>1. Exit(path[Len(path)]) = at
        BY <1>1, <1>6, <3>0 DEF DrivenInv
      <4> QED
        BY <1>4, <1>7, <3>0, <3>1, <4>1
    <3>2. CASE i # Len(path)
      <4>1. i \in 1..(Len(path) - 1) /\ i + 1 \in 1..Len(path) /\ path[i + 1] \in Ways
        BY <1>6, <3>0, <3>2
      <4> QED
        BY <1>7, <3>0, <4>1 DEF DrivenInv, Joined
    <3> QED
      BY <3>1, <3>2
  <2> QED
    BY <1>5, <2>1, <2>2, JoinedNext
<1>13. path'[1][1] = net.pos
  <2>1. CASE path = <<>>
    BY <1>1, <1>4, <1>7, <2>1 DEF AheadInv
  <2>2. CASE Len(path) >= 1
    <3>1. path'[1] = path[1] /\ path # <<>>
      BY <1>6, <1>7, <2>2
    <3> QED
      BY <3>1 DEF DrivenInv
  <2> QED
    BY <1>9, <2>1, <2>2
<1>14. Exit(path'[Len(path')]) = at'
  BY <1>5, <1>6, <1>7
<1>15. ended' => path'[Len(path')][1] = net.dst
  BY <1>4, <1>5, <1>6, <1>7 DEF Ends
<1>16. path' # <<>>
  BY <1>6, <1>7
<1> QED
  BY <1>1, <1>5, <1>11, <1>12, <1>13, <1>14, <1>15, <1>16 DEF DrivenInv, Exit, PointOf

LEMMA OtherPath ==
  ASSUME PathInv,
         \/ SeedDestination \/ (\E w \in Ways : Relax(w)) \/ FloodEnds
         \/ NotFound \/ WalkEnds
  PROVE  AheadInv' /\ DrivenInv'
<1> USE DEF PathInv, FloodInv
<1>1. UNCHANGED <<net, path, ended>> /\ phase' # "walk"
  BY DEF SeedDestination, Relax, FloodEnds, NotFound, WalkEnds
<1>2. Joined'
  BY <1>1, SamePath DEF DrivenInv
<1>3. AheadInv'
  BY <1>1 DEF AheadInv
<1>4. phase' = "done" /\ path' # <<>> => ended'
  BY DEF SeedDestination, Relax, FloodEnds, NotFound, WalkEnds, PhaseInv, AheadInv
<1> QED
  BY <1>1, <1>2, <1>3, <1>4 DEF DrivenInv

LEMMA NextPath ==
  ASSUME NoLoops, TwoStreets
  PROVE  PathInv /\ PenaltyFits /\ [Next]_vars => PathInv'
<1> SUFFICES ASSUME PathInv, PenaltyFits, [Next]_vars
             PROVE  PathInv'
  OBVIOUS
<1>1. FloodInv'
  BY NextFlood DEF PathInv
<1>2. CASE Start
  BY <1>1, <1>2, StartPath DEF PathInv
<1>3. CASE Walk
  BY <1>1, <1>3, WalkPath DEF PathInv
<1>4. CASE UNCHANGED vars
  <2>1. Joined'
    BY <1>4, SamePath DEF vars, PathInv, DrivenInv
  <2>2. AheadInv'
    BY <1>4 DEF vars, AheadInv, PathInv, Entry, PointOf
  <2>3. DrivenInv'
    BY <1>4, <2>1 DEF vars, DrivenInv, PathInv, Exit, PointOf
  <2> QED
    BY <1>1, <2>2, <2>3 DEF PathInv
<1>5. CASE SeedDestination \/ (\E w \in Ways : Relax(w)) \/ FloodEnds
           \/ NotFound \/ WalkEnds
  BY <1>1, <1>5, OtherPath DEF PathInv
<1> QED
  BY <1>2, <1>3, <1>4, <1>5 DEF Next, Stopped

(* A path starts on the position's street, drives joined and passable       *)
(* segments and ends on the destination's street, in every graph without    *)
(* loops, if position and destination are on two streets and no cost comes  *)
(* near INT_MAX.                                                            *)
THEOREM PathAlwaysArrives ==
  ASSUME NoLoops, TwoStreets
  PROVE  Spec /\ []PenaltyFits => []PathArrives
<1>1. PathInv => PathArrives
  BY DEF PathInv, DrivenInv, Joined, PathArrives
<1> QED
  BY <1>1, InitPath, NextPath, PTL DEF Spec

-----------------------------------------------------------------------------
(* A set of naturals that is not empty has a least element.                 *)
LEMMA LeastNumber ==
  ASSUME NEW S, S \subseteq Nat, S # {}
  PROVE  \E m \in S : \A y \in S : m <= y
<1> DEFINE R == {ss \in Nat \X Nat : ss[1] < ss[2]}
<1>1. IsWellFoundedOn(R, Nat)
  BY NatLessThanWellFounded, Zenon DEF OpToRel
<1> HIDE DEF R
<1>2. PICK x \in S : \A y \in S : ~ (<<y, x>> \in R)
  BY <1>1, WFMin, Zenon
<1>3. ASSUME NEW y \in S
      PROVE  x <= y
  <2>1. x \in Nat /\ y \in Nat /\ ~(<<y, x>> \in R)
    BY <1>2
  <2>2. ~(y < x)
    BY <2>1 DEF R
  <2> QED
    BY <2>1, <2>2
<1> QED
  BY <1>3

-----------------------------------------------------------------------------
(* LeastIn is defined by recursion: its first values can be put together    *)
(* one after the other, in one way only.                                    *)
Seeds == [w \in Ways |-> Seed(w)]

IsRun(g, n) == g = [k \in 0..n |-> IF k = 0 THEN Seeds ELSE Improved(g[k - 1])]

LEMMA RunValue ==
  ASSUME NEW n \in Nat, NEW g, IsRun(g, n), NEW k \in 0..n
  PROVE  g[k] = IF k = 0 THEN Seeds ELSE Improved(g[k - 1])
BY DEF IsRun

LEMMA RunExists == \A n \in Nat : \E g : IsRun(g, n)
<1> DEFINE S == {n \in Nat : ~ \E g : IsRun(g, n)}
<1> SUFFICES ASSUME S # {}
             PROVE  FALSE
  OBVIOUS
<1>1. PICK n \in S : \A y \in S : n <= y
  BY LeastNumber
<1>2. n \in Nat /\ \A y \in Nat : y < n => \E g : IsRun(g, y)
  BY <1>1
<1>3. CASE n = 0
  <2> DEFINE g == [k \in 0..0 |-> Seeds]
  <2>1. g = [k \in 0..0 |-> IF k = 0 THEN Seeds ELSE Improved(g[k - 1])]
    OBVIOUS
  <2>2. IsRun(g, n)
    BY <1>3, <2>1 DEF IsRun
  <2> QED
    BY <1>1, <2>2
<1>4. CASE n # 0
  <2>1. n - 1 \in Nat /\ n - 1 < n
    BY <1>2, <1>4
  <2>2. PICK h : IsRun(h, n - 1)
    BY <1>2, <2>1
  <2> DEFINE g == [k \in 0..n |-> IF k = n THEN Improved(h[n - 1]) ELSE h[k]]
  <2>3. ASSUME NEW k \in 0..n
        PROVE  g[k] = IF k = 0 THEN Seeds ELSE Improved(g[k - 1])
    <3>1. CASE k = n
      BY <1>2, <1>4, <2>1, <3>1
    <3>2. CASE k # n
      <4>1. k \in 0..(n - 1) /\ (k # 0 => k - 1 \in 0..n /\ k - 1 # n)
        BY <1>2, <3>2
      <4>2. h[k] = IF k = 0 THEN Seeds ELSE Improved(h[k - 1])
        BY <2>1, <2>2, <4>1, RunValue
      <4> QED
        BY <3>2, <4>1, <4>2
    <3> QED
      BY <3>1, <3>2
  <2>4. g = [k \in 0..n |-> g[k]]
    OBVIOUS
  <2> HIDE DEF g
  <2>5. IsRun(g, n)
    BY <2>3, <2>4 DEF IsRun
  <2> QED
    BY <1>1, <2>5
<1> QED
  BY <1>3, <1>4

LEMMA RunsAgree ==
  ASSUME NEW n \in Nat, NEW m \in Nat, NEW g, NEW h, IsRun(g, n), IsRun(h, m)
  PROVE  \A k \in Nat : k <= n /\ k <= m => g[k] = h[k]
<1> DEFINE S == {k \in Nat : k <= n /\ k <= m /\ g[k] # h[k]}
<1> SUFFICES ASSUME S # {}
             PROVE  FALSE
  OBVIOUS
<1>1. PICK k \in S : \A y \in S : k <= y
  BY LeastNumber
<1>2. k \in 0..n /\ k \in 0..m /\ k \in Nat
  BY <1>1
<1>3. g[k] = (IF k = 0 THEN Seeds ELSE Improved(g[k - 1]))
  BY <1>2, RunValue
<1>4. h[k] = (IF k = 0 THEN Seeds ELSE Improved(h[k - 1]))
  BY <1>2, RunValue
<1>5. k # 0 => g[k - 1] = h[k - 1]
  BY <1>1, <1>2
<1> QED
  BY <1>1, <1>3, <1>4, <1>5

LEMMA LeastInIs ==
  /\ LeastIn[0] = Seeds
  /\ \A n \in Nat : LeastIn[n + 1] = Improved(LeastIn[n])
<1> DEFINE Def(f) == [n \in Nat |-> IF n = 0 THEN Seeds ELSE Improved(f[n - 1])]
           f0 == [n \in Nat |-> (CHOOSE g : IsRun(g, n))[n]]
<1>1. \A n \in Nat : IsRun(CHOOSE g : IsRun(g, n), n)
  BY RunExists, Zenon
<1>2. ASSUME NEW n \in Nat
      PROVE  f0[n] = IF n = 0 THEN Seeds ELSE Improved(f0[n - 1])
  <2>1. PICK g : g = (CHOOSE h : IsRun(h, n)) /\ IsRun(g, n)
    BY <1>1, Zenon
  <2>2. f0[n] = g[n]
    BY <2>1
  <2>3. n # 0 => f0[n - 1] = g[n - 1]
    <3>1. SUFFICES ASSUME n # 0
                   PROVE  f0[n - 1] = g[n - 1]
      OBVIOUS
    <3>2. n - 1 \in Nat
      BY <3>1
    <3>3. PICK h : h = (CHOOSE d : IsRun(d, n - 1)) /\ IsRun(h, n - 1)
      BY <1>1, <3>2, Zenon
    <3>4. f0[n - 1] = h[n - 1]
      BY <3>2, <3>3
    <3>5. h[n - 1] = g[n - 1]
      BY <2>1, <3>2, <3>3, RunsAgree
    <3> QED
      BY <3>4, <3>5
  <2>4. g[n] = IF n = 0 THEN Seeds ELSE Improved(g[n - 1])
    BY <2>1, RunValue
  <2> HIDE DEF f0
  <2> QED
    BY <2>2, <2>3, <2>4
<1>3. f0 = [n \in Nat |-> f0[n]]
  OBVIOUS
<1> HIDE DEF f0
<1>4. f0 = Def(f0)
  BY <1>2, <1>3
<1>5. LeastIn = CHOOSE f : f = Def(f)
  <2>1. \A f : f = Def(f) <=>
               f = [n \in Nat |->
                      IF n = 0 THEN [w \in Ways |-> Seed(w)]
                      ELSE IF Improved(f[n - 1]) = f[n - 1] THEN f[n - 1]
                           ELSE Improved(f[n - 1])]
    BY DEF Seeds
  <2> QED
    BY <2>1 DEF LeastIn
<1>6. LeastIn = Def(LeastIn)
  <2> HIDE DEF Def
  <2> QED
    BY <1>4, <1>5, Zenon
<1> QED
  BY <1>6

-----------------------------------------------------------------------------
(* What one round of the reference does.                                    *)
LEMMA ImprovedIs ==
  ASSUME net \in Nets, NEW c \in [Ways -> Costs], NEW v \in Ways
  PROVE  /\ Improved(c)[v] \in Offers(v, c)
         /\ \A m \in Offers(v, c) : Improved(c)[v] <= m
         /\ Improved(c)[v] \in Costs /\ Improved(c)[v] <= c[v]
<1>1. Offers(v, c) \subseteq Nat
  <2>1. \A w \in Ways : c[w] \in Nat /\ Value(w) \in Nat
    BY NetType, FloodAssumption DEF Costs
  <2> QED
    BY <2>1 DEF Offers
<1>2. c[v] \in Offers(v, c)
  BY DEF Offers
<1>3. \E m \in Offers(v, c) : \A n \in Offers(v, c) : m <= n
  BY <1>1, <1>2, LeastNumber
<1>4. Improved(c)[v] = CHOOSE m \in Offers(v, c) : \A n \in Offers(v, c) : m <= n
  BY DEF Improved
<1>5. /\ Improved(c)[v] \in Offers(v, c)
      /\ \A m \in Offers(v, c) : Improved(c)[v] <= m
  BY <1>3, <1>4
<1> QED
  BY <1>1, <1>2, <1>5, FloodAssumption DEF Costs

LEMMA LeastInType ==
  ASSUME net \in Nets
  PROVE  \A n \in Nat : LeastIn[n] \in [Ways -> Costs]
<1> DEFINE S == {n \in Nat : LeastIn[n] \notin [Ways -> Costs]}
<1> SUFFICES ASSUME S # {}
             PROVE  FALSE
  OBVIOUS
<1>1. PICK n \in S : \A y \in S : n <= y
  BY LeastNumber
<1>2. CASE n = 0
  BY <1>1, <1>2, LeastInIs, SeedType DEF Seeds, Costs
<1>3. CASE n # 0
  <2>1. n - 1 \in Nat /\ LeastIn[n - 1] \in [Ways -> Costs]
    BY <1>1, <1>3
  <2>2. LeastIn[n] = Improved(LeastIn[n - 1])
    <3>1. n = (n - 1) + 1
      BY <1>1
    <3> QED
      BY <2>1, <3>1, LeastInIs
  <2>3. \A v \in Ways : Improved(LeastIn[n - 1])[v] \in Costs
    BY <2>1, ImprovedIs
  <2>4. Improved(LeastIn[n - 1]) \in [Ways -> Costs]
    BY <2>3 DEF Improved
  <2> QED
    BY <1>1, <2>2, <2>4
<1> QED
  BY <1>2, <1>3

(* Costs only fall, whatever is offered.                                    *)
LEMMA LeastInStep ==
  ASSUME net \in Nets, NEW n \in Nat, NEW v \in Ways
  PROVE  /\ LeastIn[n + 1][v] <= LeastIn[n][v]
         /\ LeastIn[n + 1][v] \in Offers(v, LeastIn[n])
         /\ \A w \in Ways : LeastIn[n][w] # Impassable /\ v \in Before(w) =>
              LeastIn[n + 1][v] <= LeastIn[n][w] + Value(v)
<1>1. LeastIn[n + 1] = Improved(LeastIn[n]) /\ LeastIn[n] \in [Ways -> Costs]
  BY LeastInIs, LeastInType
<1>2. ASSUME NEW w \in Ways, LeastIn[n][w] # Impassable, v \in Before(w)
      PROVE  LeastIn[n][w] + Value(v) \in Offers(v, LeastIn[n])
  BY <1>2 DEF Offers
<1> QED
  BY <1>1, <1>2, ImprovedIs

LEMMA LeastInFalls ==
  ASSUME net \in Nets, NEW v \in Ways, NEW n \in Nat
  PROVE  \A m \in Nat : n <= m => LeastIn[m][v] <= LeastIn[n][v]
<1> DEFINE S == {m \in Nat : n <= m /\ ~(LeastIn[m][v] <= LeastIn[n][v])}
<1> SUFFICES ASSUME S # {}
             PROVE  FALSE
  OBVIOUS
<1>1. PICK m \in S : \A y \in S : m <= y
  BY LeastNumber
<1>2. \A k \in Nat : LeastIn[k][v] \in Nat
  BY LeastInType, FloodAssumption DEF Costs
<1>3. m # n
  BY <1>1, <1>2
<1>4. m - 1 \in Nat /\ n <= m - 1 /\ LeastIn[m - 1][v] <= LeastIn[n][v]
  BY <1>1, <1>3
<1>5. LeastIn[m][v] <= LeastIn[m - 1][v]
  <2>1. m = (m - 1) + 1
    BY <1>1
  <2> QED
    BY <1>4, <2>1, LeastInStep
<1> QED
  BY <1>1, <1>2, <1>4, <1>5

-----------------------------------------------------------------------------
(* What the costs fall to, and after how many rounds.                       *)
Limit == [v \in Ways |-> CHOOSE m \in {LeastIn[n][v] : n \in Nat} :
                           \A n \in Nat : m <= LeastIn[n][v]]

Rank == [v \in Ways |-> CHOOSE k \in Nat :
                          /\ LeastIn[k][v] = Limit[v]
                          /\ \A j \in Nat : LeastIn[j][v] = Limit[v] => k <= j]

LEMMA LimitIs ==
  ASSUME net \in Nets, NEW v \in Ways
  PROVE  /\ \A n \in Nat : Limit[v] <= LeastIn[n][v]
         /\ \E n \in Nat : Limit[v] = LeastIn[n][v]
         /\ Limit[v] \in Costs
<1> DEFINE S == {LeastIn[n][v] : n \in Nat}
<1>1. \A n \in Nat : LeastIn[n][v] \in Costs
  BY LeastInType
<1>2. S \subseteq Nat /\ S # {}
  BY <1>1, FloodAssumption DEF Costs
<1>3. \E m \in S : \A y \in S : m <= y
  BY <1>2, LeastNumber
<1>4. \E m \in S : \A n \in Nat : m <= LeastIn[n][v]
  BY <1>3
<1>5. Limit[v] = CHOOSE m \in S : \A n \in Nat : m <= LeastIn[n][v]
  BY DEF Limit
<1> HIDE DEF S
<1>6. Limit[v] \in S /\ \A n \in Nat : Limit[v] <= LeastIn[n][v]
  BY <1>4, <1>5
<1> USE DEF S
<1> QED
  BY <1>1, <1>6

LEMMA RankIs ==
  ASSUME net \in Nets, NEW v \in Ways
  PROVE  /\ Rank[v] \in Nat
         /\ LeastIn[Rank[v]][v] = Limit[v]
         /\ \A j \in Nat : LeastIn[j][v] = Limit[v] => Rank[v] <= j
<1> DEFINE S == {k \in Nat : LeastIn[k][v] = Limit[v]}
<1>1. S \subseteq Nat /\ S # {}
  BY LimitIs
<1>2. \E m \in S : \A y \in S : m <= y
  BY <1>1, LeastNumber
<1>3. \E k \in Nat : /\ LeastIn[k][v] = Limit[v]
                     /\ \A j \in Nat : LeastIn[j][v] = Limit[v] => k <= j
  BY <1>2
<1>4. Rank[v] = CHOOSE k \in Nat :
                  /\ LeastIn[k][v] = Limit[v]
                  /\ \A j \in Nat : LeastIn[j][v] = Limit[v] => k <= j
  BY DEF Rank
<1> QED
  BY <1>3, <1>4

LEMMA LimitReached ==
  ASSUME net \in Nets, NEW v \in Ways, NEW n \in Nat, Rank[v] <= n
  PROVE  LeastIn[n][v] = Limit[v]
<1>1. LeastIn[n][v] <= Limit[v]
  BY RankIs, LeastInFalls
<1>2. Limit[v] <= LeastIn[n][v] /\ Limit[v] \in Nat /\ LeastIn[n][v] \in Nat
  BY LimitIs, LeastInType, FloodAssumption DEF Costs
<1> QED
  BY <1>1, <1>2

(* No offer is below the limit.                                             *)
LEMMA LimitClosed ==
  ASSUME net \in Nets, NEW w \in Ways, Limit[w] # Impassable, NEW v \in Before(w)
  PROVE  Limit[v] <= Limit[w] + Value(v)
<1>1. v \in Ways
  BY DEF Before
<1>2. LeastIn[Rank[w] + 1][v] <= Limit[w] + Value(v)
  BY <1>1, RankIs, LeastInStep
<1>3. Limit[v] <= LeastIn[Rank[w] + 1][v]
  BY <1>1, RankIs, LimitIs
<1>4. /\ Limit[v] \in Nat /\ LeastIn[Rank[w] + 1][v] \in Nat
      /\ Limit[w] \in Nat /\ Value(v) \in Nat
  BY <1>1, LimitIs, RankIs, LeastInType, NetType, FloodAssumption DEF Costs
<1> QED
  BY <1>2, <1>3, <1>4

(* A cost that took k rounds comes from one that took k - 1.                *)
LEMMA RankBefore ==
  ASSUME net \in Nets, NEW v \in Ways, Rank[v] # 0
  PROVE  \E w \in Ways : /\ v \in Before(w) /\ Limit[w] # Impassable
                         /\ Limit[v] = Limit[w] + Value(v)
                         /\ Rank[w] = Rank[v] - 1
<1> DEFINE k == Rank[v] - 1
<1>1. k \in Nat /\ Rank[v] = k + 1
  BY RankIs
<1>2. LeastIn[k + 1][v] = Limit[v] /\ LeastIn[k][v] # Limit[v]
  BY <1>1, RankIs
<1> HIDE DEF k
<1>3. \A n \in Nat : LeastIn[n][v] \in Nat /\ Limit[v] <= LeastIn[n][v]
  BY LeastInType, LimitIs, FloodAssumption DEF Costs
<1>4. LeastIn[k + 1][v] \in Offers(v, LeastIn[k]) \ {LeastIn[k][v]}
  BY <1>1, <1>2, LeastInStep
<1>5. PICK w \in Ways : /\ LeastIn[k][w] # Impassable /\ v \in Before(w)
                        /\ LeastIn[k + 1][v] = LeastIn[k][w] + Value(v)
  BY <1>4 DEF Offers
<1>6. /\ LeastIn[k][w] \in Nat /\ LeastIn[k][w] <= Impassable /\ Impassable \in Nat
      /\ Limit[w] \in Nat /\ Limit[w] <= LeastIn[k][w]
      /\ Value(v) \in Nat /\ Limit[v] \in Nat
  BY <1>1, LeastInType, LimitIs, NetType, FloodAssumption DEF Costs
<1>7. Limit[w] # Impassable
  BY <1>5, <1>6
<1>8. Limit[v] <= Limit[w] + Value(v)
  BY <1>5, <1>7, LimitClosed
<1>9. Limit[w] = LeastIn[k][w] /\ Limit[v] = Limit[w] + Value(v)
  BY <1>2, <1>5, <1>6, <1>8
<1>10. Rank[w] \in Nat /\ Rank[w] <= k
  BY <1>1, <1>9, RankIs
<1>11. ~(Rank[w] < k)
  <2>1. SUFFICES ASSUME Rank[w] < k
                 PROVE  FALSE
    OBVIOUS
  <2>2. LeastIn[Rank[w] + 1][v] <= Limit[w] + Value(v)
    BY <1>5, <1>7, <1>10, RankIs, LeastInStep
  <2>3. LeastIn[Rank[w] + 1][v] = Limit[v]
    BY <1>3, <1>6, <1>9, <1>10, <2>2
  <2> QED
    BY <1>1, <1>10, <2>1, <2>3, RankIs
<1> QED
  BY <1>1, <1>5, <1>7, <1>9, <1>10, <1>11

LEMMA RanksBelow ==
  ASSUME net \in Nets, NEW v \in Ways
  PROVE  \A j \in 0..Rank[v] : \E w \in Ways : Rank[w] = j
<1> DEFINE S == {i \in Nat : i <= Rank[v] /\ ~ \E w \in Ways : Rank[w] = Rank[v] - i}
<1>1. Rank[v] \in Nat
  BY RankIs
<1>2. S = {}
  <2> SUFFICES ASSUME S # {}
               PROVE  FALSE
    OBVIOUS
  <2>1. PICK i \in S : \A y \in S : i <= y
    BY LeastNumber
  <2>2. i # 0
    BY <1>1, <2>1
  <2>3. i - 1 \in Nat /\ i - 1 <= Rank[v] /\ i - 1 \notin S
    BY <1>1, <2>1, <2>2
  <2>4. PICK w \in Ways : Rank[w] = Rank[v] - (i - 1)
    BY <2>3
  <2>5. Rank[w] # 0
    BY <1>1, <2>1, <2>4
  <2>6. PICK u \in Ways : Rank[u] = Rank[w] - 1
    BY <2>5, RankBefore
  <2> QED
    BY <1>1, <2>1, <2>4, <2>6
<1>3. ASSUME NEW j \in 0..Rank[v]
      PROVE  \E w \in Ways : Rank[w] = j
  <2>1. Rank[v] - j \in Nat /\ Rank[v] - j <= Rank[v] /\ Rank[v] - (Rank[v] - j) = j
    BY <1>1
  <2> QED
    BY <1>2, <2>1
<1> QED
  BY <1>3

LEMMA WaysCount == IsFiniteSet(Ways) /\ Cardinality(Ways) = 2 * N
<1>1. IsFiniteSet(Segments) /\ Cardinality(Segments) = N
  BY FS_Interval, FloodAssumption DEF Segments
<1>2. IsFiniteSet(Sides) /\ Cardinality(Sides) = 2
  <2>1. Sides = {"start"} \cup {"end"}
    BY DEF Sides
  <2> QED
    <3>1. IsFiniteSet({"start"}) /\ Cardinality({"start"}) = 1 /\ "end" \notin {"start"}
      BY FS_Singleton
    <3>2. /\ IsFiniteSet({"start"} \cup {"end"})
          /\ Cardinality({"start"} \cup {"end"}) = 1 + 1
      BY <3>1, FS_AddElement
    <3> QED
      BY <2>1, <3>2
<1> QED
  BY <1>1, <1>2, FS_Product, FloodAssumption DEF Ways

(* No two rounds are the last for the same way.                             *)
LEMMA RankSmall ==
  ASSUME net \in Nets, NEW v \in Ways
  PROVE  Rank[v] < 2 * N
<1>1. Rank[v] \in Nat /\ N \in Nat
  BY RankIs, FloodAssumption
<1> SUFFICES ASSUME 2 * N <= Rank[v]
             PROVE  FALSE
  BY <1>1
<1> DEFINE f == [j \in 0..Rank[v] |-> CHOOSE w \in Ways : Rank[w] = j]
<1>2. \A j \in 0..Rank[v] : f[j] \in Ways /\ Rank[f[j]] = j
  BY RanksBelow
<1>3. f \in [0..Rank[v] -> Ways]
  BY <1>2
<1> HIDE DEF f
<1>4. IsFiniteSet(0..Rank[v]) /\ Cardinality(0..Rank[v]) = Rank[v] + 1
  BY <1>1, FS_Interval
<1>5. Cardinality(Ways) < Cardinality(0..Rank[v])
  BY <1>1, <1>4, WaysCount
<1>6. PICK x \in 0..Rank[v], y \in 0..Rank[v] : x # y /\ f[x] = f[y]
  BY <1>3, <1>4, <1>5, WaysCount, FS_PigeonHole
<1> QED
  BY <1>2, <1>6

LEMMA LeastIsLimit ==
  ASSUME net \in Nets
  PROVE  \A v \in Ways : Least[v] = Limit[v]
<1> SUFFICES ASSUME NEW v \in Ways
             PROVE  Least[v] = Limit[v]
  OBVIOUS
<1>1. Rank[v] \in Nat /\ N \in Nat /\ Rank[v] < 2 * N
  BY RankIs, RankSmall, FloodAssumption
<1>2. 2 * N \in Nat /\ Rank[v] <= 2 * N
  BY <1>1
<1> QED
  BY <1>2, LimitReached DEF Least

(* "best" is the best there is: no drive undercuts it, and each cost is     *)
(* that of a drive, which ends because the ranks of its ways fall.          *)
Ranked(best, rank) ==
  \A v \in Ways : best[v] # Impassable =>
    \/ best[v] = Seed(v)
    \/ \E w \in Ways : /\ v \in Before(w) /\ best[w] # Impassable
                       /\ best[v] = best[w] + Value(v)
                       /\ rank[w] < rank[v]

BestDrives(best) ==
  /\ best \in [Ways -> Costs]
  /\ \A v \in Ways : best[v] <= Seed(v)
  /\ \A w \in Ways : best[w] # Impassable =>
       \A v \in Before(w) : best[v] <= best[w] + Value(v)
  /\ \E rank \in [Ways -> Nat] : Ranked(best, rank)

(* The reference of RouteFlood is what it is said to be: after as many      *)
(* rounds as there are ways no cost falls any more.                         *)
LEMMA LeastIsBest ==
  ASSUME net \in Nets
  PROVE  BestDrives(Least)
<1>1. \A v \in Ways : Least[v] = Limit[v]
  BY LeastIsLimit
<1>2. 2 * N \in Nat
  BY FloodAssumption
<1>3. Least \in [Ways -> Costs]
  BY <1>2, LeastInType DEF Least
<1>4. ASSUME NEW v \in Ways
      PROVE  Least[v] <= Seed(v)
  <2>1. LeastIn[0][v] = Seed(v)
    BY LeastInIs DEF Seeds
  <2> QED
    BY <1>1, <2>1, LimitIs
<1>5. ASSUME NEW w \in Ways, Least[w] # Impassable, NEW v \in Before(w)
      PROVE  Least[v] <= Least[w] + Value(v)
  <2>1. v \in Ways
    BY DEF Before
  <2> QED
    BY <1>1, <1>5, <2>1, LimitClosed
<1>6. Rank \in [Ways -> Nat]
  <2>1. Rank = [v \in Ways |-> Rank[v]]
    BY DEF Rank
  <2> QED
    BY <2>1, RankIs
<1>7. Ranked(Least, Rank)
  <2> SUFFICES ASSUME NEW v \in Ways, Least[v] # Seed(v)
               PROVE  \E w \in Ways : /\ v \in Before(w) /\ Least[w] # Impassable
                                      /\ Least[v] = Least[w] + Value(v)
                                      /\ Rank[w] < Rank[v]
    BY DEF Ranked
  <2>1. Rank[v] # 0
    BY <1>1, RankIs, LeastInIs DEF Seeds
  <2>2. PICK w \in Ways : /\ v \in Before(w) /\ Limit[w] # Impassable
                          /\ Limit[v] = Limit[w] + Value(v)
                          /\ Rank[w] = Rank[v] - 1
    BY <2>1, RankBefore
  <2>3. Rank[w] < Rank[v]
    BY <2>2, RankIs
  <2> QED
    BY <1>1, <2>2, <2>3
<1> QED
  BY <1>3, <1>4, <1>5, <1>6, <1>7 DEF BestDrives

-----------------------------------------------------------------------------
(* The flood is Dijkstra's algorithm until it has reached the position.     *)
Seeded == \A w \in Ways : cost[w] <= Seed(w)

Spread ==
  \A w \in Ways : cost[w] # Impassable /\ w \notin heap =>
    \A v \in Before(w) : cost[v] <= cost[w] + Value(v)

Settled == \A w \in Ways : cost[w] # Impassable /\ w \notin heap => cost[w] = least[w]

DijkstraInv ==
  /\ phase = "seed" => ~cut
  /\ phase # "seed" /\ ~cut => Seeded /\ Spread /\ Settled

LeastInv == FloodInv /\ BestDrives(least) /\ CostsAreDrives /\ DijkstraInv

(* All ways whose best drive is cheaper than what is in the heap have its   *)
(* cost.                                                                    *)
LEMMA CheaperIsSettled ==
  ASSUME LeastInv, Seeded, Spread, NEW key \in Costs, \A v \in heap : key <= cost[v]
  PROVE  \A v \in Ways : least[v] < key => cost[v] = least[v]
<1>1. PICK rank \in [Ways -> Nat] : Ranked(least, rank)
  BY DEF LeastInv, BestDrives
<1>2. \A v \in Ways : /\ least[v] \in Nat /\ cost[v] \in Nat /\ least[v] <= cost[v]
                      /\ Value(v) \in Nat
  BY NetType, FloodAssumption DEF LeastInv, FloodInv, TypeOK, BestDrives, CostsAreDrives, Costs
<1>3. key \in Nat /\ key <= Impassable /\ Impassable \in Nat
  BY FloodAssumption DEF Costs
<1> DEFINE Bad == {v \in Ways : least[v] < key /\ cost[v] # least[v]}
           S == {rank[v] : v \in Bad}
<1> SUFFICES ASSUME Bad # {}
             PROVE  FALSE
  OBVIOUS
<1>4. \E m \in S : \A y \in S : m <= y
  <2>1. S \subseteq Nat /\ S # {}
    OBVIOUS
  <2> QED
    BY <2>1, LeastNumber
<1>5. PICK v \in Bad : \A u \in Bad : rank[v] <= rank[u]
  BY <1>4
<1>6. least[v] # Impassable
  BY <1>2, <1>3, <1>5
<1>7. CASE least[v] = Seed(v)
  <2>1. cost[v] <= least[v]
    BY <1>5, <1>7 DEF Seeded
  <2> QED
    BY <1>2, <1>5, <2>1
<1>8. CASE \E w \in Ways : /\ v \in Before(w) /\ least[w] # Impassable
                           /\ least[v] = least[w] + Value(v)
                           /\ rank[w] < rank[v]
  <2>1. PICK w \in Ways : /\ v \in Before(w) /\ least[w] # Impassable
                          /\ least[v] = least[w] + Value(v)
                          /\ rank[w] < rank[v]
    BY <1>8
  <2>2. w \notin Bad
    BY <1>1, <1>5, <2>1
  <2>3. least[w] < key
    BY <1>2, <1>3, <1>5, <2>1
  <2>4. cost[w] = least[w]
    BY <2>2, <2>3
  <2>5. w \notin heap
    BY <1>2, <1>3, <2>3, <2>4
  <2>6. cost[v] <= cost[w] + Value(v)
    BY <2>1, <2>4, <2>5 DEF Spread
  <2> QED
    BY <1>2, <1>5, <2>1, <2>4, <2>6
<1> QED
  BY <1>1, <1>5, <1>6, <1>7, <1>8 DEF Ranked

(* What leaves the heap before the position was reached is settled.         *)
LEMMA ExtractedIsSettled ==
  ASSUME LeastInv, Seeded, Spread, NEW w \in Ways, w \in Extracted
  PROVE  cost[w] = least[w]
<1>1. cost[w] \in Costs /\ \A v \in heap : cost[w] <= cost[v]
  BY DEF LeastInv, FloodInv, TypeOK, Extracted
<1>2. least[w] < cost[w] => cost[w] = least[w]
  BY <1>1, CheaperIsSettled
<1>3. least[w] \in Nat /\ cost[w] \in Nat /\ least[w] <= cost[w]
  BY FloodAssumption DEF LeastInv, FloodInv, TypeOK, BestDrives, CostsAreDrives, Costs
<1> QED
  BY <1>2, <1>3

(* A round that does not reach the position looks at all ways before.       *)
LEMMA RelaxedIsBefore ==
  ASSUME NEW w \in Ways, ~cut, \A v \in Relaxed(w) : ~Reached(w, v)
  PROVE  Relaxed(w) = Before(w)
<1> DEFINE away == {v \in Before(w) : v[2] = "end"}
           toward == {v \in Before(w) : v[2] = "start"}
           posAway == \E v \in away : Reached(w, v)
           posToward == \E v \in toward : Reached(w, v)
<1>1. Before(w) = away \cup toward
  BY DEF Before, Ways, Sides
<1>2. Relaxed(w) = away \cup (IF cut \/ posAway THEN {}
                              ELSE {v \in toward : posToward => v[1] >= net.pos})
  BY DEF Relaxed
<1>3. ~posAway
  BY <1>2
<1>4. ~posToward
  <2>1. SUFFICES ASSUME NEW v \in toward, Reached(w, v)
                 PROVE  FALSE
    OBVIOUS
  <2>2. v[1] = net.pos /\ v[1] \in Int
    <3>1. v \in Ways
      BY DEF Before
    <3> QED
      BY <2>1, <3>1, FloodAssumption DEF Reached, Ways, Segments
  <2>3. v \in Relaxed(w)
    BY <1>2, <1>3, <2>2
  <2> QED
    BY <2>1, <2>3
<1> QED
  BY <1>1, <1>2, <1>3, <1>4

(* The graph and the reference stay as they are.                            *)
LEMMA SameGraph ==
  ASSUME net' = net
  PROVE  /\ \A v \in Ways : Value(v)' = Value(v) /\ Seed(v)' = Seed(v) /\ Before(v)' = Before(v)
         /\ Forward' = Forward /\ Backward' = Backward
<1>1. \A v \in Ways : Value(v)' = Value(v) /\ Entry(v)' = Entry(v) /\ Exit(v)' = Exit(v)
  BY DEF Value, Entry, Exit, PointOf
<1>2. ASSUME NEW v \in Ways
      PROVE  Seed(v)' = Seed(v)
  BY <1>1 DEF Seed, Share, Value
<1>3. ASSUME NEW v \in Ways
      PROVE  Before(v)' = Before(v)
  BY <1>1 DEF Before
<1> QED
  BY <1>1, <1>2, <1>3 DEF Forward, Backward

LEMMA SameBest ==
  ASSUME BestDrives(least), UNCHANGED <<net, least>>
  PROVE  BestDrives(least)'
<1>1. PICK rank \in [Ways -> Nat] : Ranked(least, rank)
  BY DEF BestDrives
<1>2. \A v \in Ways : Seed(v)' = Seed(v) /\ Before(v)' = Before(v) /\ Value(v)' = Value(v)
  BY SameGraph
<1>3. ASSUME NEW v \in Ways, least'[v] # Impassable, least'[v] # Seed(v)'
      PROVE  \E w \in Ways : /\ v \in Before(w)' /\ least'[w] # Impassable
                             /\ least'[v] = least'[w] + Value(v)'
                             /\ rank[w] < rank[v]
  <2>1. least[v] # Impassable /\ least[v] # Seed(v)
    BY <1>2, <1>3
  <2>2. PICK w \in Ways : /\ v \in Before(w) /\ least[w] # Impassable
                          /\ least[v] = least[w] + Value(v)
                          /\ rank[w] < rank[v]
    BY <1>1, <2>1 DEF Ranked
  <2> QED
    BY <1>2, <2>2
<1>4. Ranked(least, rank)'
  BY <1>3 DEF Ranked
<1>5. \A w \in Ways : least'[w] # Impassable =>
        \A v \in Before(w)' : least'[v] <= least'[w] + Value(v)'
  <2> SUFFICES ASSUME NEW w \in Ways, least'[w] # Impassable, NEW v \in Before(w)'
               PROVE  least'[v] <= least'[w] + Value(v)'
    OBVIOUS
  <2>1. v \in Before(w) /\ v \in Ways
    BY <1>2 DEF Before
  <2> QED
    BY <1>2, <2>1 DEF BestDrives
<1>6. least' \in [Ways -> Costs] /\ \A v \in Ways : least'[v] <= Seed(v)'
  BY <1>2 DEF BestDrives
<1> QED
  BY <1>4, <1>5, <1>6 DEF BestDrives

LEMMA InitLeast == Init => LeastInv
<1> SUFFICES ASSUME Init
             PROVE  LeastInv
  OBVIOUS
<1>1. FloodInv /\ net \in Nets
  BY InitFlood DEF FloodInv
<1>2. BestDrives(least)
  BY <1>1, LeastIsBest DEF Init
<1>3. CostsAreDrives
  BY <1>2, FloodAssumption DEF Init, CostsAreDrives, BestDrives, Costs
<1>4. DijkstraInv
  BY DEF Init, DijkstraInv
<1> QED
  BY <1>1, <1>2, <1>3, <1>4 DEF LeastInv

LEMMA SeedLeast == LeastInv /\ SeedDestination => LeastInv'
<1> SUFFICES ASSUME LeastInv, SeedDestination
             PROVE  LeastInv'
  OBVIOUS
<1>1. FloodInv' /\ BestDrives(least)'
  BY SeedFlood, SameBest DEF LeastInv, SeedDestination
<1>2. net' = net /\ least' = least /\ phase' = "flood"
  BY DEF SeedDestination
<1>3. \A w \in Ways : /\ cost'[w] = Seed(w) /\ Seed(w)' = Seed(w)
                      /\ w \in heap' <=> Seed(w) # Impassable
                      /\ least[w] \in Nat /\ Seed(w) \in Nat /\ least[w] <= Seed(w)
  <2>1. \A w \in Ways : Seed(w) \in Nat
    BY SeedType, FloodAssumption DEF LeastInv, FloodInv
  <2> QED
    BY <1>2, <2>1, SameGraph, FloodAssumption DEF SeedDestination, LeastInv, BestDrives, Costs
<1>4. CostsAreDrives'
  BY <1>2, <1>3 DEF CostsAreDrives
<1>5. Seeded' /\ Spread' /\ Settled'
  BY <1>3 DEF Seeded, Spread, Settled
<1> QED
  BY <1>1, <1>2, <1>4, <1>5 DEF LeastInv, DijkstraInv

(* One round improves costs no further than the best drives go; the way it  *)
(* takes from the heap has its final cost, as long as nothing was left out. *)
LEMMA RelaxLeast ==
  ASSUME NEW w \in Ways
  PROVE  LeastInv /\ Relax(w) => LeastInv'
<1> SUFFICES ASSUME LeastInv, Relax(w)
             PROVE  LeastInv'
  OBVIOUS
<1> DEFINE better == {v \in Relaxed(w) : cost[w] + Value(v) < cost[v]}
<1>1. FloodInv' /\ BestDrives(least)'
  BY RelaxFlood, SameBest DEF LeastInv, Relax
<1>2. /\ net' = net /\ least' = least /\ phase' = phase /\ phase = "flood"
      /\ w \in Extracted /\ w \in heap /\ cost[w] # Impassable
  BY DEF Relax, LeastInv, FloodInv, CostInv, Extracted
<1>3. better \subseteq Relaxed(w) /\ Relaxed(w) \subseteq Before(w) /\ Before(w) \subseteq Ways
  BY DEF Relaxed, Before
<1>4. \A v \in Ways : cost'[v] = IF v \in better THEN cost[w] + Value(v) ELSE cost[v]
  BY DEF Relax
<1>5. heap' = (heap \ {w}) \cup better
  BY DEF Relax
<1>6. \A v \in Ways : /\ cost[v] \in Nat /\ cost[v] <= Impassable
                      /\ least[v] \in Nat /\ least[v] <= cost[v] /\ least[v] <= Impassable
                      /\ Value(v) \in Nat /\ Seed(v) \in Nat
  <2>1. net \in Nets /\ Impassable \in Nat
    BY FloodAssumption DEF LeastInv, FloodInv
  <2> QED
    BY <2>1, NetType, SeedType
       DEF LeastInv, FloodInv, TypeOK, BestDrives, CostsAreDrives, Costs
<1>7. Impassable \in Nat
  BY FloodAssumption
<1>8. \A v \in better : cost[w] + Value(v) < cost[v]
  OBVIOUS
<1>9. \A v \in Relaxed(w) \ better : ~(cost[w] + Value(v) < cost[v])
  OBVIOUS
<1> HIDE DEF better
<1>10. \A v \in Ways : cost'[v] <= cost[v] /\ cost'[v] \in Nat
  BY <1>3, <1>4, <1>6, <1>8
<1>11. CostsAreDrives'
  <2> SUFFICES ASSUME NEW v \in Ways
               PROVE  cost'[v] >= least[v]
    BY <1>2 DEF CostsAreDrives
  <2>1. CASE v \in better
    <3>1. least[w] # Impassable
      BY <1>2, <1>6, <1>7
    <3>2. least[v] <= least[w] + Value(v)
      BY <1>3, <2>1, <3>1 DEF LeastInv, BestDrives
    <3> QED
      BY <1>4, <1>6, <2>1, <3>2
  <2>2. CASE v \notin better
    BY <1>4, <1>6, <2>2
  <2> QED
    BY <2>1, <2>2
<1>12. ASSUME ~cut'
       PROVE  Seeded' /\ Spread' /\ Settled'
  <2>1. ~cut /\ \A v \in Relaxed(w) : ~Reached(w, v)
    BY <1>12 DEF Relax
  <2>2. Seeded /\ Spread /\ Settled
    BY <1>2, <2>1 DEF LeastInv, DijkstraInv
  <2>3. Relaxed(w) = Before(w)
    BY <2>1, RelaxedIsBefore
  <2>4. cost[w] = least[w]
    BY <1>2, <2>2, ExtractedIsSettled
  <2>5. cost'[w] = cost[w] /\ w \notin better
    BY <1>3, <1>4 DEF Before
  <2>6. Seeded'
    BY <1>2, <1>6, <1>10, <2>2, SameGraph DEF Seeded
  <2>7. \A u \in Ways : cost'[u] # Impassable /\ u \notin heap' =>
          u = w \/ (u \notin heap /\ cost'[u] = cost[u])
    BY <1>4, <1>5
  <2>8. Settled'
    BY <1>2, <2>2, <2>4, <2>5, <2>7 DEF Settled
  <2>9. Spread'
    <3> SUFFICES ASSUME NEW u \in Ways, cost'[u] # Impassable, u \notin heap',
                        NEW v \in Before(u)'
                 PROVE  cost'[v] <= cost'[u] + Value(v)'
      BY DEF Spread
    <3>1. v \in Before(u) /\ v \in Ways /\ Value(v)' = Value(v)
      <4>1. v \in Before(u)
        BY <1>2, SameGraph
      <4>2. v \in Ways
        BY <4>1 DEF Before
      <4> QED
        BY <1>2, <4>1, <4>2, SameGraph
    <3>2. CASE u = w
      <4>1. CASE v \in better
        BY <1>4, <1>6, <2>5, <3>1, <3>2, <4>1
      <4>2. CASE v \notin better
        <5>1. ~(cost[w] + Value(v) < cost[v])
          BY <1>9, <2>3, <3>1, <3>2, <4>2
        <5> QED
          BY <1>4, <1>6, <2>5, <3>1, <3>2, <4>2, <5>1
      <4> QED
        BY <4>1, <4>2
    <3>3. CASE u # w
      <4>1. u \notin heap /\ cost'[u] = cost[u]
        BY <2>7, <3>3
      <4>2. cost[v] <= cost[u] + Value(v)
        BY <2>2, <3>1, <4>1 DEF Spread
      <4> QED
        BY <1>6, <1>10, <3>1, <4>1, <4>2
    <3> QED
      BY <3>2, <3>3
  <2> QED
    BY <2>6, <2>8, <2>9
<1>13. DijkstraInv'
  BY <1>2, <1>12 DEF DijkstraInv
<1> QED
  BY <1>1, <1>11, <1>13 DEF LeastInv

(* The steps after the flood leave the costs as they are.                   *)
LEMMA SameLeast ==
  ASSUME LeastInv, FloodInv', UNCHANGED <<net, cost, heap, cut, least>>,
         phase' = "seed" <=> phase = "seed"
  PROVE  LeastInv'
<1>1. \A v \in Ways : Seed(v)' = Seed(v) /\ Before(v)' = Before(v) /\ Value(v)' = Value(v)
  BY SameGraph
<1>2. BestDrives(least)' /\ CostsAreDrives'
  BY SameBest DEF LeastInv, CostsAreDrives
<1>3. Seeded => Seeded'
  BY <1>1 DEF Seeded
<1>4. Settled => Settled'
  BY DEF Settled
<1>5. Spread => Spread'
  <2> SUFFICES ASSUME Spread, NEW w \in Ways, cost[w] # Impassable, w \notin heap,
                      NEW v \in Before(w)'
               PROVE  cost[v] <= cost[w] + Value(v)'
    BY DEF Spread
  <2>1. v \in Before(w) /\ v \in Ways
    BY <1>1 DEF Before
  <2> QED
    BY <1>1, <2>1 DEF Spread
<1> QED
  BY <1>2, <1>3, <1>4, <1>5 DEF LeastInv, DijkstraInv

LEMMA NextLeast == LeastInv /\ [Next]_vars => LeastInv'
<1> SUFFICES ASSUME LeastInv, [Next]_vars
             PROVE  LeastInv'
  OBVIOUS
<1>0. FloodInv'
  BY NextFlood DEF LeastInv
<1>1. CASE SeedDestination
  BY <1>1, SeedLeast
<1>2. ASSUME NEW w \in Ways, Relax(w)
      PROVE  LeastInv'
  BY <1>2, RelaxLeast
<1>3. CASE FloodEnds \/ NotFound \/ Start \/ Walk \/ WalkEnds
  <2>1. UNCHANGED <<net, cost, heap, cut, least>> /\ phase # "seed" /\ phase' # "seed"
    BY <1>3 DEF FloodEnds, NotFound, Start, Walk, WalkEnds
  <2> QED
    BY <1>0, <2>1, SameLeast
<1>4. CASE UNCHANGED vars
  <2>1. UNCHANGED <<net, cost, heap, cut, least>> /\ phase' = phase
    BY <1>4 DEF vars
  <2> QED
    BY <1>0, <2>1, SameLeast
<1> QED
  BY <1>1, <1>2, <1>3, <1>4 DEF Next, Stopped

(* No cost is ever lower than that of the best drive, in any graph: neither *)
(* the roads left out once the position was reached nor the order of the    *)
(* heap make a cost that no drive has.                                      *)
THEOREM CostsAlwaysDrives == Spec => []CostsAreDrives
<1>1. LeastInv => CostsAreDrives
  BY DEF LeastInv
<1> QED
  BY <1>1, InitLeast, NextLeast, PTL DEF Spec

(* Until the position's street is reached a way that left the heap has the  *)
(* cost of its best drive, in any graph: Dijkstra's algorithm.              *)
THEOREM SettledAlwaysUntilCut == Spec => []SettledUntilCut
<1>1. LeastInv => SettledUntilCut
  BY DEF LeastInv, DijkstraInv, Settled, SettledUntilCut
<1> QED
  BY <1>1, InitLeast, NextLeast, PTL DEF Spec

-----------------------------------------------------------------------------
(* The best drives, one more street and the penalty of a turn stay below    *)
(* INT_MAX.                                                                 *)
DrivesFit ==
  \A w \in Ways : least[w] # Impassable =>
    /\ least[w] + TurnAround < Impassable
    /\ \A v \in Before(w) : least[w] + Value(v) + TurnAround < Impassable

(* Once the loop looks at half of the segments only, the position's street  *)
(* has a cost.                                                              *)
CutFound ==
  cut => \E v \in {Forward, Backward} :
           Value(v) # Impassable /\ cost[v] + TurnAround < Impassable

(* A path is put together exactly if the position's street has a cost.      *)
Outcome ==
  /\ phase \in {"start", "walk", "done"} => heap = {}
  /\ phase = "walk" => ~Blocked /\ (path = <<>> => next = net.pos /\ ~ended)
  /\ phase = "done" => (path = <<>> <=> Blocked)

FoundInv == LeastInv /\ DrivesFit /\ CutFound /\ Outcome

LEMMA StartCostBelow ==
  ASSUME net \in Nets, NEW w \in {Forward, Backward}, NEW c, c[w] \in Costs
  PROVE  /\ Value(w) = Impassable \/ c[w] = Impassable => StartCost(w, c) = Impassable
         /\ Value(w) # Impassable /\ c[w] + TurnAround < Impassable =>
              StartCost(w, c) # Impassable
<1>1. w \in Ways /\ Value(w) \in 0..Impassable /\ Impassable \in Nat /\ c[w] \in Nat
  BY NetType, FloodAssumption DEF Costs
<1>2. net.posAt \in 0..100
  BY NetType DEF Graph
<1>3. Share(w, net.posAt) \in 0..Value(w)
  <2>1. CASE w[2] = "start"
    BY <1>1, <1>2, <2>1, ShareFits DEF Share
  <2>2. CASE w[2] # "start"
    <3>1. 100 - net.posAt \in 0..100
      BY <1>2
    <3> QED
      BY <1>1, <2>2, <3>1, ShareFits DEF Share
  <2> QED
    BY <2>1, <2>2
<1> QED
  BY <1>1, <1>3 DEF StartCost, TurnAround

LEMMA SameDrives ==
  ASSUME DrivesFit, UNCHANGED <<net, least>>
  PROVE  DrivesFit'
<1> SUFFICES ASSUME NEW w \in Ways, least[w] # Impassable, NEW v \in Before(w)'
             PROVE  /\ least[w] + TurnAround < Impassable
                    /\ least[w] + Value(v)' + TurnAround < Impassable
  BY DEF DrivesFit
<1>1. v \in Before(w) /\ v \in Ways
  BY SameGraph DEF Before
<1> QED
  BY <1>1, SameGraph DEF DrivesFit

LEMMA InitFound == Init /\ DrivesFit => FoundInv
<1>1. Init => CutFound /\ Outcome
  BY DEF Init, CutFound, Outcome
<1> QED
  BY <1>1, InitLeast DEF FoundInv

(* The round that reaches the position's street gives it a cost, or finds   *)
(* it with a lower one.                                                     *)
LEMMA RelaxCut ==
  ASSUME FoundInv, NEW w \in Ways, Relax(w)
  PROVE  CutFound'
<1> DEFINE better == {v \in Relaxed(w) : cost[w] + Value(v) < cost[v]}
<1>1. /\ net' = net /\ phase = "flood" /\ w \in Extracted /\ w \in heap
      /\ cost[w] # Impassable /\ cut' = (cut \/ \E v \in Relaxed(w) : Reached(w, v))
  BY DEF Relax, FoundInv, LeastInv, FloodInv, CostInv, Extracted
<1>2. Relaxed(w) \subseteq Before(w) /\ Before(w) \subseteq Ways
  BY DEF Relaxed, Before
<1>3. \A v \in Ways : cost'[v] = IF v \in better THEN cost[w] + Value(v) ELSE cost[v]
  BY DEF Relax
<1>4. \A v \in Ways : /\ cost[v] \in Nat /\ Value(v) \in Nat /\ Value(v)' = Value(v)
  <2>1. net \in Nets /\ Impassable \in Nat
    BY FloodAssumption DEF FoundInv, LeastInv, FloodInv
  <2> QED
    BY <1>1, <2>1, NetType, SameGraph DEF FoundInv, LeastInv, FloodInv, TypeOK, Costs
<1>5. \A v \in better : v \in Relaxed(w) /\ cost[w] + Value(v) < cost[v]
  OBVIOUS
<1>6. \A v \in Relaxed(w) \ better : ~(cost[w] + Value(v) < cost[v])
  OBVIOUS
<1> HIDE DEF better
<1>7. \A v \in Ways : cost'[v] <= cost[v] /\ cost'[v] \in Nat
  BY <1>3, <1>4, <1>5
<1>8. Forward \in Ways /\ Backward \in Ways /\ Forward' = Forward /\ Backward' = Backward
  BY <1>1, NetType, SameGraph DEF FoundInv, LeastInv, FloodInv
<1>9. Impassable \in Nat /\ TurnAround \in Nat
  BY FloodAssumption DEF TurnAround
<1>10. CASE cut
  <2>1. PICK v \in {Forward, Backward} :
           Value(v) # Impassable /\ cost[v] + TurnAround < Impassable
    BY <1>10 DEF FoundInv, CutFound
  <2>2. v \in Ways /\ v \in {Forward, Backward}'
    BY <1>8
  <2>3. Value(v)' # Impassable /\ cost'[v] + TurnAround < Impassable
    BY <1>4, <1>7, <1>9, <2>1, <2>2
  <2> QED
    BY <2>2, <2>3 DEF CutFound
<1>11. CASE ~cut /\ \E v \in Relaxed(w) : Reached(w, v)
  <2>1. PICK v \in Relaxed(w) : v[1] = net.pos /\ v \in Before(w)
    BY <1>11 DEF Reached
  <2>2. v \in Ways /\ v \in {Forward, Backward} /\ v \in {Forward, Backward}'
    <3>1. v \in Ways
      BY <1>2, <2>1
    <3>2. v = <<v[1], v[2]>> /\ v[2] \in {"start", "end"}
      BY <3>1 DEF Ways, Sides
    <3>3. v = Forward \/ v = Backward
      BY <2>1, <3>2 DEF Forward, Backward
    <3> QED
      BY <1>8, <3>1, <3>3
  <2>3. cost[w] = least[w]
    BY <1>1, <1>11, ExtractedIsSettled DEF FoundInv, LeastInv, DijkstraInv
  <2>4. cost[w] + Value(v) + TurnAround < Impassable
    BY <1>1, <2>1, <2>3 DEF FoundInv, DrivesFit
  <2>5. cost'[v] <= cost[w] + Value(v)
    BY <1>3, <1>4, <1>6, <2>1, <2>2
  <2>6. cost'[v] + TurnAround < Impassable
    BY <1>4, <1>7, <1>9, <2>2, <2>4, <2>5
  <2>7. Value(v)' # Impassable
    BY <1>4, <2>1, <2>2 DEF Before
  <2> QED
    BY <2>2, <2>6, <2>7 DEF CutFound
<1>12. CASE ~cut'
  BY <1>12 DEF CutFound
<1> QED
  BY <1>1, <1>10, <1>11, <1>12

(* Once the flood has ended nothing of this changes any more.               *)
LEMMA SameOutcome ==
  ASSUME UNCHANGED <<net, cost>>
  PROVE  /\ Blocked' = Blocked
         /\ UNCHANGED cut /\ CutFound => CutFound'
<1>1. Forward' = Forward /\ Backward' = Backward
  BY DEF Forward, Backward
<1>2. Value(Forward)' = Value(Forward) /\ Value(Backward)' = Value(Backward)
  BY DEF Forward, Backward, Value
<1> QED
  BY <1>1, <1>2 DEF Blocked, StartCost, Share, Value, CutFound

LEMMA NextFound == FoundInv /\ [Next]_vars => FoundInv'
<1> SUFFICES ASSUME FoundInv, [Next]_vars
             PROVE  FoundInv'
  OBVIOUS
<1> USE DEF FoundInv
<1>0. LeastInv'
  BY NextLeast
<1>1. DrivesFit'
  <2>1. UNCHANGED <<net, least>>
    BY DEF Next, vars, SeedDestination, Relax, FloodEnds, NotFound, Start, Walk, WalkEnds, Stopped
  <2> QED
    BY <2>1, SameDrives
<1>2. CASE SeedDestination
  <2>1. CutFound' /\ Outcome'
    BY <1>2 DEF SeedDestination, CutFound, Outcome, LeastInv, DijkstraInv
  <2> QED
    BY <1>0, <1>1, <2>1
<1>3. ASSUME NEW w \in Ways, Relax(w)
      PROVE  FoundInv'
  <2>1. Outcome'
    BY <1>3 DEF Relax, Outcome
  <2> QED
    BY <1>0, <1>1, <1>3, <2>1, RelaxCut
<1>4. CASE FloodEnds \/ NotFound \/ Start \/ Walk \/ WalkEnds
  <2>1. UNCHANGED <<net, cost, heap, cut>>
    BY <1>4 DEF FloodEnds, NotFound, Start, Walk, WalkEnds
  <2>2. Blocked' = Blocked /\ CutFound'
    BY <2>1, SameOutcome
  <2>3. /\ PhaseInv /\ path \in Seq(Ways) /\ net.pos \in Segments /\ Nobody \notin Segments
        /\ Outcome
    BY NetType, FloodAssumption DEF LeastInv, FloodInv, TypeOK, Graph
  <2>4. Outcome'
    <3>1. CASE FloodEnds
      BY <2>1, <3>1 DEF FloodEnds, Outcome
    <3>2. CASE NotFound
      BY <2>1, <2>2, <2>3, <3>2 DEF NotFound, Outcome, PhaseInv
    <3>3. CASE Start
      BY <2>1, <2>2, <2>3, <3>3 DEF Start, Outcome, PhaseInv
    <3>4. CASE Walk
      <4>1. Driven \in Ways
        BY <3>4 DEF Walk, Driven, Ways, Sides, LeastInv, FloodInv, TypeOK
      <4>2. path' # <<>>
        BY <2>3, <3>4, <4>1 DEF Walk
      <4> QED
        BY <2>1, <2>2, <2>3, <3>4, <4>2 DEF Walk, Outcome
    <3>5. CASE WalkEnds
      <4>1. path # <<>>
        BY <2>3, <3>5 DEF WalkEnds, Outcome
      <4> QED
        BY <2>1, <2>2, <2>3, <3>5, <4>1 DEF WalkEnds, Outcome
    <3> QED
      BY <1>4, <3>1, <3>2, <3>3, <3>4, <3>5
  <2> QED
    BY <1>0, <1>1, <2>2, <2>4
<1>5. CASE UNCHANGED vars
  <2>1. Blocked' = Blocked /\ CutFound'
    BY <1>5, SameOutcome DEF vars
  <2>2. Outcome'
    BY <1>5, <2>1 DEF vars, Outcome
  <2> QED
    BY <1>0, <1>1, <2>1, <2>2
<1> QED
  BY <1>2, <1>3, <1>4, <1>5 DEF Next, Stopped

LEMMA FoundMeans == FoundInv => FoundIfReachable
<1> SUFFICES ASSUME FoundInv, phase = "done"
             PROVE  path # <<>> <=> \E w \in {Forward, Backward} : StartCost(w, least) # Impassable
  BY DEF FoundIfReachable
<1> USE DEF FoundInv
<1>1. net \in Nets /\ Forward \in Ways /\ Backward \in Ways
  BY NetType DEF LeastInv, FloodInv
<1>2. \A w \in Ways : cost[w] \in Costs /\ least[w] \in Costs /\ least[w] <= cost[w]
  BY FloodAssumption DEF LeastInv, FloodInv, TypeOK, BestDrives, CostsAreDrives, Costs
<1>3. Impassable \in Nat /\ TurnAround \in Nat
  BY FloodAssumption DEF TurnAround
<1>4. heap = {} /\ (path = <<>> <=> Blocked) /\ phase # "seed"
  BY DEF Outcome
<1>5. ASSUME path # <<>>
      PROVE  \E w \in {Forward, Backward} : StartCost(w, least) # Impassable
  <2>1. PICK w \in {Forward, Backward} : StartCost(w, cost) # Impassable
    BY <1>4, <1>5 DEF Blocked
  <2>2. w \in Ways /\ Value(w) # Impassable /\ cost[w] # Impassable
    BY <1>1, <1>2, <2>1, StartCostBelow
  <2>3. least[w] # Impassable
    BY <1>2, <1>3, <2>2 DEF Costs
  <2>4. least[w] + TurnAround < Impassable
    BY <2>2, <2>3 DEF DrivesFit
  <2>5. StartCost(w, least) # Impassable
    BY <1>1, <1>2, <2>2, <2>4, StartCostBelow
  <2> QED
    BY <2>5
<1>6. ASSUME NEW w \in {Forward, Backward}, StartCost(w, least) # Impassable
      PROVE  path # <<>>
  <2>1. w \in Ways /\ Value(w) # Impassable /\ least[w] # Impassable
    BY <1>1, <1>2, <1>6, StartCostBelow
  <2>2. CASE cut
    <3>1. PICK v \in {Forward, Backward} :
             Value(v) # Impassable /\ cost[v] + TurnAround < Impassable
      BY <2>2 DEF CutFound
    <3>2. StartCost(v, cost) # Impassable
      BY <1>1, <1>2, <3>1, StartCostBelow
    <3> QED
      BY <1>4, <3>2 DEF Blocked
  <2>3. CASE ~cut
    <3>1. Seeded /\ Spread
      BY <1>4, <2>3 DEF LeastInv, DijkstraInv
    <3>2. Impassable \in Costs /\ least[w] < Impassable
      BY <1>2, <1>3, <2>1 DEF Costs
    <3>3. cost[w] = least[w]
      BY <1>4, <2>1, <3>1, <3>2, CheaperIsSettled
    <3>4. StartCost(w, cost) # Impassable
      BY <1>6, <3>3 DEF StartCost
    <3> QED
      BY <1>4, <3>4 DEF Blocked
  <2> QED
    BY <2>2, <2>3
<1> QED
  BY <1>5, <1>6

(* A path is found exactly if a drive from the position's street to the     *)
(* destination exists, in any graph whose best drives stay below INT_MAX:   *)
(* stopping to look at the other half of the segments loses no destination. *)
THEOREM FoundAlwaysIfReachable == Spec /\ DrivesFit => []FoundIfReachable
BY InitFound, NextFound, FoundMeans, PTL DEF Spec

-----------------------------------------------------------------------------
(* Along the successors costs do not rise, and where they stay ranks fall.  *)
Falls(r) ==
  \A v, w \in Ways : Follows(v, w) => cost[w] <= cost[v] /\ r[w] < r[v]

Descends(r) == \A i, j \in 1..Len(path) : i < j => r[path[j]] < r[path[i]]

(* The path goes on with the successor of its last way.                     *)
LastInv ==
  phase = "walk" /\ path # <<>> =>
    at = Exit(path[Len(path)]) /\ next = from[path[Len(path)]]

CircleInv ==
  /\ FloodInv /\ LastInv
  /\ \E r \in [Ways -> Nat] : Falls(r) /\ Descends(r)

LEMMA OneFollows ==
  ASSUME NoLoops, net \in Nets, NEW v \in Ways, NEW w \in Ways, NEW u \in Ways,
         w[1] = u[1], Entry(w) = Exit(v), Entry(u) = Exit(v)
  PROVE  w = u
<1>1. /\ w = <<w[1], w[2]>> /\ w[1] \in Segments /\ w[2] \in {"start", "end"}
      /\ u = <<u[1], u[2]>> /\ u[2] \in {"start", "end"}
  BY DEF Ways, Sides
<1>2. net.start[w[1]] # net.end[w[1]]
  BY <1>1 DEF NoLoops
<1>3. w[2] = u[2]
  BY <1>1, <1>2 DEF Entry, PointOf
<1> QED
  BY <1>1, <1>3

LEMMA InitCircle == Init => CircleInv
<1> SUFFICES ASSUME Init
             PROVE  CircleInv
  OBVIOUS
<1>1. FloodInv
  BY InitFlood
<1>2. LastInv
  BY DEF Init, LastInv
<1>3. \A v \in Ways : from[v] = Nobody
  BY DEF Init
<1>4. \A v, w \in Ways : ~Follows(v, w)
  BY <1>3, FloodAssumption DEF Follows, Ways
<1> DEFINE r == [w \in Ways |-> 0]
<1>5. r \in [Ways -> Nat] /\ Falls(r) /\ Descends(r)
  BY <1>4 DEF Falls, Descends, Init
<1> QED
  BY <1>1, <1>2, <1>5 DEF CircleInv

(* The ways that are improved were dearer than the one they now precede, so *)
(* all dearer ones can be ranked behind the others.                         *)
LEMMA RelaxCircle ==
  ASSUME NoLoops, CircleInv, NEW x \in Ways, Relax(x)
  PROVE  CircleInv'
<1> DEFINE better == {v \in Relaxed(x) : cost[x] + Value(v) < cost[v]}
<1>1. /\ net' = net /\ path' = path /\ phase = "flood" /\ phase' = phase
      /\ x \in heap /\ net \in Nets
      /\ \A v \in Ways : /\ cost'[v] = IF v \in better THEN cost[x] + Value(v) ELSE cost[v]
                         /\ from'[v] = IF v \in better THEN x[1] ELSE from[v]
  BY DEF Relax, Extracted, CircleInv, FloodInv
<1>2. \A v \in better : v \in Before(x) /\ v \in Ways /\ cost[x] + Value(v) < cost[v]
  BY DEF Relaxed, Before
<1> HIDE DEF better
<1>3. \A v \in Ways : cost[v] \in Nat /\ Value(v) \in Nat
  BY <1>1, NetType, FloodAssumption DEF CircleInv, FloodInv, TypeOK, Costs
<1>4. x \notin better
  BY <1>2 DEF Before
<1>5. PICK r \in [Ways -> Nat] : Falls(r) /\ Descends(r)
  BY DEF CircleInv
<1>6. FloodInv'
  BY RelaxFlood DEF CircleInv
<1>7. [v \in Ways |-> IF cost[v] > cost[x] THEN r[v] + r[x] + 1 ELSE r[v]] \in [Ways -> Nat]
  BY <1>3, <1>5
<1>8. PICK p \in [Ways -> Nat] :
        \A v \in Ways : p[v] = IF cost[v] > cost[x] THEN r[v] + r[x] + 1 ELSE r[v]
  BY <1>7
<1>9. \A v \in Ways : Entry(v)' = Entry(v) /\ Exit(v)' = Exit(v)
  BY <1>1 DEF Entry, Exit, PointOf
<1>10. ASSUME NEW v \in Ways, NEW w \in Ways, Follows(v, w)'
       PROVE  cost'[w] <= cost'[v] /\ p[w] < p[v]
  <2>1. w[1] = from'[v] /\ Entry(w) = Exit(v)
    BY <1>9, <1>10 DEF Follows
  <2>2. CASE v \in better
    <3>1. w = x
      BY <1>1, <1>2, <2>1, <2>2, OneFollows DEF Before
    <3>2. cost'[w] = cost[x] /\ cost'[v] = cost[x] + Value(v)
      BY <1>1, <1>4, <2>2, <3>1
    <3>3. cost[v] > cost[x]
      BY <1>2, <1>3, <2>2
    <3>4. r[v] \in Nat /\ r[x] \in Nat
      BY <1>5
    <3> QED
      BY <1>3, <1>8, <3>1, <3>2, <3>3, <3>4
  <2>3. CASE v \notin better
    <3>1. from'[v] = from[v] /\ cost'[v] = cost[v]
      BY <1>1, <2>3
    <3>2. from[v] # Nobody
      BY <2>1, <3>1, FloodAssumption DEF Ways
    <3>3. PICK u \in Ways : Follows(v, u)
      BY <3>2 DEF CircleInv, FloodInv, FromInv
    <3>4. u = w
      BY <1>1, <2>1, <3>1, <3>3, OneFollows DEF Follows
    <3>5. cost[w] <= cost[v] /\ r[w] < r[v]
      BY <1>5, <3>3, <3>4 DEF Falls
    <3>6. cost'[w] <= cost[w]
      BY <1>1, <1>2, <1>3
    <3>7. r[v] \in Nat /\ r[x] \in Nat /\ r[w] \in Nat
      BY <1>5
    <3>8. cost'[w] \in Nat
      BY <1>1, <1>3
    <3> QED
      BY <1>3, <1>8, <3>1, <3>5, <3>6, <3>7, <3>8
  <2> QED
    BY <2>2, <2>3
<1>11. Falls(p)'
  BY <1>10 DEF Falls
<1>12. Descends(p)'
  <2>1. path = <<>>
    BY <1>1 DEF CircleInv, FloodInv, PhaseInv
  <2> QED
    BY <1>1, <2>1 DEF Descends
<1>13. LastInv'
  BY <1>1 DEF LastInv
<1> QED
  BY <1>6, <1>8, <1>11, <1>12, <1>13 DEF CircleInv

(* The way that is driven next has a rank below all that were driven.       *)
LEMMA WalkCircle ==
  ASSUME NoLoops, CircleInv, Walk
  PROVE  CircleInv'
<1>1. /\ phase = "walk" /\ next # Nobody /\ UNCHANGED <<net, cost, from>>
      /\ path' = Append(path, Driven) /\ at' = Exit(Driven) /\ next' = from[Driven]
  BY DEF Walk
<1>2. FloodInv /\ FloodInv' /\ net \in Nets /\ path \in Seq(Ways)
  BY NextFlood DEF CircleInv, Next, FloodInv, TypeOK
<1>3. Driven \in Ways
  BY <1>1, <1>2 DEF Driven, Ways, Sides, FloodInv, TypeOK
<1> DEFINE d == Driven
           n == Len(path)
<1>4. /\ path' \in Seq(Ways) /\ n \in Nat /\ Len(path') = n + 1
      /\ path'[n + 1] = d /\ \A i \in 1..n : path'[i] = path[i] /\ path[i] \in Ways
  BY <1>1, <1>2, <1>3
<1>5. PICK r \in [Ways -> Nat] : Falls(r) /\ Descends(r)
  BY DEF CircleInv
<1>6. ASSUME n # 0
      PROVE  r[d] < r[path[n]]
  <2>1. path # <<>> /\ n \in 1..n /\ path[n] \in Ways
    BY <1>4, <1>6
  <2> DEFINE v == path[n]
  <2>2. v \in Ways /\ at = Exit(v) /\ next = from[v]
    BY <1>1, <2>1 DEF CircleInv, LastInv
  <2> HIDE DEF v
  <2>3. PICK w \in Ways : Follows(v, w)
    BY <1>1, <1>2, <2>2 DEF FloodInv, FromInv
  <2>4. w[1] = next /\ Entry(w) = at
    BY <2>2, <2>3 DEF Follows
  <2>5. d = w
    BY <1>2, <2>4, DrivenIs
  <2>6. r[w] < r[v]
    BY <1>5, <2>2, <2>3 DEF Falls
  <2> QED
    BY <2>5, <2>6 DEF v
<1> HIDE DEF d
<1>7. \A v \in Ways : r[v] \in Nat
  BY <1>5
<1>8. d \in Ways
  BY <1>3 DEF d
<1> HIDE DEF n
<1>9. ASSUME NEW i \in 1..(n + 1), NEW j \in 1..(n + 1), i < j
      PROVE  r[path'[j]] < r[path'[i]]
  <2>1. i \in 1..n
    BY <1>4, <1>9
  <2>2. CASE j = n + 1
    <3>1. n # 0 /\ n \in 1..n
      BY <1>4, <2>1
    <3>2. i = n \/ i < n
      BY <1>4, <2>1
    <3>3. i < n => r[path[n]] < r[path[i]]
      BY <1>5, <2>1, <3>1 DEF Descends, n
    <3>4. r[d] < r[path[n]] /\ r[d] \in Nat /\ r[path[n]] \in Nat /\ r[path[i]] \in Nat
      BY <1>4, <1>6, <1>7, <1>8, <2>1, <3>1
    <3>5. r[d] < r[path[i]]
      BY <3>2, <3>3, <3>4
    <3> QED
      BY <1>4, <2>1, <2>2, <3>5
  <2>3. CASE j # n + 1
    <3>1. j \in 1..n
      BY <1>4, <2>3
    <3> QED
      BY <1>4, <1>5, <1>9, <2>1, <3>1 DEF Descends, n
  <2> QED
    BY <2>2, <2>3
<1>10. Descends(r)'
  BY <1>4, <1>9 DEF Descends
<1>11. Falls(r)'
  BY <1>1, <1>5 DEF Falls, Follows, Entry, Exit, PointOf
<1>12. LastInv'
  BY <1>1, <1>4 DEF LastInv, Exit, PointOf, d, n
<1> QED
  BY <1>2, <1>5, <1>10, <1>11, <1>12 DEF CircleInv

LEMMA NextCircle ==
  ASSUME NoLoops
  PROVE  CircleInv /\ [Next]_vars => CircleInv'
<1> SUFFICES ASSUME CircleInv, [Next]_vars
             PROVE  CircleInv'
  OBVIOUS
<1>1. FloodInv /\ FloodInv'
  BY NextFlood DEF CircleInv
<1>2. PICK r \in [Ways -> Nat] : Falls(r) /\ Descends(r)
  BY DEF CircleInv
<1>3. ASSUME UNCHANGED <<net, cost, from, path>>, LastInv'
      PROVE  CircleInv'
  <2>1. Falls(r)' /\ Descends(r)'
    BY <1>2, <1>3 DEF Falls, Descends, Follows, Entry, Exit, PointOf
  <2> QED
    BY <1>1, <1>2, <1>3, <2>1 DEF CircleInv
<1>4. CASE SeedDestination
  <2>1. /\ from' = from /\ path' = path /\ path = <<>> /\ phase' = "flood"
        /\ from = [w \in Ways |-> Nobody]
    BY <1>1, <1>4 DEF SeedDestination, FloodInv, PhaseInv
  <2>2. \A v \in Ways : from'[v] = Nobody
    BY <2>1
  <2>3. \A v, w \in Ways : ~Follows(v, w)'
    BY <2>2, FloodAssumption DEF Follows, Ways
  <2>4. Falls(r)' /\ Descends(r)' /\ LastInv'
    BY <2>1, <2>3 DEF Falls, Descends, LastInv
  <2> QED
    BY <1>1, <1>2, <2>4 DEF CircleInv
<1>5. ASSUME NEW w \in Ways, Relax(w)
      PROVE  CircleInv'
  BY <1>5, RelaxCircle
<1>6. CASE Walk
  BY <1>6, WalkCircle
<1>7. CASE FloodEnds \/ NotFound \/ WalkEnds
  <2>1. UNCHANGED <<net, cost, from, path>> /\ phase' # "walk"
    BY <1>7 DEF FloodEnds, NotFound, WalkEnds
  <2> QED
    BY <1>3, <2>1 DEF LastInv
<1>8. CASE Start
  <2>1. UNCHANGED <<net, cost, from, path>> /\ path = <<>>
    BY <1>1, <1>8 DEF Start, FloodInv, PhaseInv
  <2> QED
    BY <1>3, <2>1 DEF LastInv
<1>9. CASE UNCHANGED vars
  <2>1. UNCHANGED <<net, cost, from, path>> /\ LastInv'
    BY <1>9 DEF vars, CircleInv, LastInv, Exit, PointOf
  <2> QED
    BY <1>3, <2>1
<1> QED
  BY <1>4, <1>5, <1>6, <1>7, <1>8, <1>9 DEF Next, Stopped

(* The loop of route_path_new never drives a way again, in any graph        *)
(* without loops: a successor is only remembered for a cost that is really  *)
(* lower, so streets that cost nothing make no circle.                      *)
THEOREM NeverDrivenTwice ==
  ASSUME NoLoops
  PROVE  Spec => []NoWayTwice
<1>1. CircleInv => NoWayTwice
  <2> SUFFICES ASSUME CircleInv, NEW i \in 1..Len(path), NEW j \in 1..Len(path),
                      path[i] = path[j], i # j
               PROVE  FALSE
    BY DEF NoWayTwice
  <2>1. PICK r \in [Ways -> Nat] : Descends(r)
    BY DEF CircleInv
  <2>2. path \in Seq(Ways) /\ path[i] \in Ways
    BY DEF CircleInv, FloodInv, TypeOK
  <2>3. r[path[i]] \in Nat
    BY <2>1, <2>2
  <2>4. i < j \/ j < i
    BY <2>2
  <2> QED
    BY <2>1, <2>3, <2>4 DEF Descends
<1> QED
  BY <1>1, InitCircle, NextCircle, PTL DEF Spec

(* So it ends, after no more rounds than there are ways.                    *)
THEOREM WalkAlwaysShort ==
  ASSUME NoLoops
  PROVE  Spec => [](Len(path) <= 2 * N)
<1>1. TypeOK /\ NoWayTwice => Len(path) <= 2 * N
  <2> SUFFICES ASSUME TypeOK, NoWayTwice, ~(Len(path) <= 2 * N)
               PROVE  FALSE
    OBVIOUS
  <2> DEFINE n == Len(path)
  <2>1. path \in [1..n -> Ways] /\ n \in Nat /\ 2 * N \in Nat
    <3>1. path \in Seq(Ways) /\ N \in Nat
      BY FloodAssumption DEF TypeOK
    <3>2. Len(path) \in Nat /\ path \in [1..Len(path) -> Ways]
      BY <3>1
    <3>3. 2 * N \in Nat
      BY <3>1
    <3> QED
      BY <3>2, <3>3
  <2>2. n > 2 * N
    BY <2>1
  <2>3. \A i, j \in 1..n : path[i] = path[j] => i = j
    BY DEF NoWayTwice
  <2> HIDE DEF n
  <2>4. IsFiniteSet(1..n) /\ Cardinality(1..n) = n
    BY <2>1, FS_Interval
  <2>5. Cardinality(Ways) < Cardinality(1..n)
    BY <2>1, <2>2, <2>4, WaysCount
  <2>6. PICK i \in 1..n, j \in 1..n : i # j /\ path[i] = path[j]
    BY <2>1, <2>4, <2>5, WaysCount, FS_PigeonHole
  <2> QED
    BY <2>3, <2>6
<1> QED
  BY <1>1, TypeCorrect, NeverDrivenTwice, PTL

-----------------------------------------------------------------------------
(* No street costs more than V.                                             *)
ValuesUpTo(V) == \A n \in Nets : \A s \in Segments : n.value[s] <= V

(* A cost is that of a drive, made when the ways of the drive had the costs *)
(* it adds up; none of these ways costs more since, so none is there twice. *)
DriveOf(w, S, V) ==
  w \in S /\ cost[w] <= Cardinality(S) * V /\ \A u \in S : cost[u] <= cost[w]

BoundInv(V) ==
  /\ FloodInv
  /\ \A w \in Ways : cost[w] # Impassable => \E S \in SUBSET Ways : DriveOf(w, S, V)

LEMMA ValueBound ==
  ASSUME net \in Nets, NEW V \in Nat, ValuesUpTo(V), NEW w \in Ways, Value(w) # Impassable
  PROVE  Value(w) \in 0..V
<1>1. w[1] \in Segments
  BY DEF Ways
<1>2. Value(w) = net.value[w[1]] /\ net.value[w[1]] <= V
  BY <1>1 DEF Value, ValuesUpTo
<1>3. net.value[w[1]] \in Nat
  BY <1>1, NetType, FloodAssumption DEF Graph
<1> QED
  BY <1>2, <1>3

LEMMA SeedBound ==
  ASSUME NEW V \in Nat, ValuesUpTo(V), BoundInv(V), SeedDestination
  PROVE  BoundInv(V)'
<1>1. FloodInv' /\ net \in Nets
  BY SeedFlood DEF BoundInv, FloodInv
<1> SUFFICES ASSUME NEW w \in Ways, cost'[w] # Impassable
             PROVE  \E S \in SUBSET Ways : DriveOf(w, S, V)'
  BY <1>1 DEF BoundInv
<1>2. cost'[w] = Share(w, net.dstAt) /\ Value(w) # Impassable
  BY DEF SeedDestination, Seed
<1>3. Value(w) \in 0..V /\ Value(w) \in Nat /\ net.dstAt \in 0..100
  BY <1>1, <1>2, ValueBound, NetType DEF Graph
<1>4. Share(w, net.dstAt) \in 0..Value(w)
  <2>1. CASE w[2] = "start"
    BY <1>3, <2>1, ShareFits DEF Share
  <2>2. CASE w[2] # "start"
    <3>1. 100 - net.dstAt \in 0..100
      BY <1>3
    <3> QED
      BY <1>3, <2>2, <3>1, ShareFits DEF Share
  <2> QED
    BY <2>1, <2>2
<1>5. cost'[w] <= 1 * V /\ cost'[w] \in Int
  BY <1>2, <1>3, <1>4
<1>6. Cardinality({w}) = 1
  BY FS_Singleton
<1>7. \A u \in {w} : cost'[u] <= cost'[w]
  BY <1>5
<1>8. DriveOf(w, {w}, V)'
  BY <1>5, <1>6, <1>7 DEF DriveOf
<1> QED
  BY <1>8

LEMMA RelaxBound ==
  ASSUME NEW V \in Nat, ValuesUpTo(V), BoundInv(V), NEW x \in Ways, Relax(x)
  PROVE  BoundInv(V)'
<1> DEFINE better == {v \in Relaxed(x) : cost[x] + Value(v) < cost[v]}
<1>1. /\ x \in heap /\ net \in Nets
      /\ \A v \in Ways : cost'[v] = IF v \in better THEN cost[x] + Value(v) ELSE cost[v]
  BY DEF Relax, Extracted, BoundInv, FloodInv
<1>2. \A v \in better : v \in Before(x) /\ v \in Ways /\ cost[x] + Value(v) < cost[v]
                        /\ Value(v) # Impassable
  BY DEF Relaxed, Before
<1> HIDE DEF better
<1>3. \A v \in Ways : cost[v] \in Nat /\ Value(v) \in Nat
  BY <1>1, NetType, FloodAssumption DEF BoundInv, FloodInv, TypeOK, Costs
<1>4. FloodInv'
  BY RelaxFlood DEF BoundInv
<1>5. \A v \in Ways : cost'[v] <= cost[v] /\ cost'[v] \in Nat
  BY <1>1, <1>2, <1>3
<1> SUFFICES ASSUME NEW v \in Ways, cost'[v] # Impassable
             PROVE  \E S \in SUBSET Ways : DriveOf(v, S, V)'
  BY <1>4 DEF BoundInv
<1>6. CASE v \in better
  <2>1. cost[x] # Impassable
    BY <1>1 DEF BoundInv, FloodInv, CostInv
  <2>2. PICK S \in SUBSET Ways : DriveOf(x, S, V)
    BY <2>1 DEF BoundInv
  <2>3. v \notin S
    BY <1>2, <1>3, <1>6, <2>2 DEF DriveOf
  <2>4. IsFiniteSet(S)
    BY <2>2, WaysCount, FS_Subset
  <2>5. Cardinality(S \cup {v}) = Cardinality(S) + 1 /\ Cardinality(S) \in Nat
    BY <2>3, <2>4, FS_AddElement, FS_CardinalityType
  <2>6. Value(v) \in 0..V
    BY <1>1, <1>2, <1>6, ValueBound
  <2> DEFINE k == Cardinality(S)
  <2>14. k \in Nat
    BY <2>5
  <2>8. cost[x] <= k * V
    BY <2>2 DEF DriveOf
  <2>12. Cardinality(S \cup {v}) = k + 1
    BY <2>5
  <2> HIDE DEF k
  <2>7. k * V \in Nat /\ (k + 1) * V = k * V + V
    BY <2>14
  <2>9. cost'[v] = cost[x] + Value(v)
    BY <1>1, <1>6
  <2>10. cost'[v] <= (k + 1) * V
    BY <1>3, <2>6, <2>7, <2>8, <2>9
  <2>11. \A u \in S \cup {v} : cost'[u] <= cost'[v]
    <3> SUFFICES ASSUME NEW u \in S \cup {v}
                 PROVE  cost'[u] <= cost'[v]
      OBVIOUS
    <3>1. CASE u = v
      BY <1>5, <3>1
    <3>2. CASE u \in S
      <4>1. u \in Ways /\ cost[u] <= cost[x]
        BY <2>2, <3>2 DEF DriveOf
      <4> QED
        BY <1>3, <1>5, <2>6, <2>9, <4>1
    <3> QED
      BY <3>1, <3>2
  <2>13. DriveOf(v, S \cup {v}, V)'
    BY <2>2, <2>12, <2>10, <2>11 DEF DriveOf
  <2> QED
    BY <2>2, <2>13
<1>7. CASE v \notin better
  <2>1. cost'[v] = cost[v]
    BY <1>1, <1>7
  <2>2. PICK S \in SUBSET Ways : DriveOf(v, S, V)
    BY <2>1 DEF BoundInv
  <2>3. ASSUME NEW u \in S
        PROVE  cost'[u] <= cost'[v]
    <3>1. u \in Ways /\ cost[u] <= cost[v]
      BY <2>2 DEF DriveOf
    <3> QED
      BY <1>3, <1>5, <2>1, <3>1
  <2>4. DriveOf(v, S, V)'
    BY <2>1, <2>2, <2>3 DEF DriveOf
  <2> QED
    BY <2>4
<1> QED
  BY <1>6, <1>7

LEMMA NextBound ==
  ASSUME NEW V \in Nat, ValuesUpTo(V)
  PROVE  BoundInv(V) /\ [Next]_vars => BoundInv(V)'
<1> SUFFICES ASSUME BoundInv(V), [Next]_vars
             PROVE  BoundInv(V)'
  OBVIOUS
<1>1. FloodInv'
  BY NextFlood DEF BoundInv
<1>2. ASSUME UNCHANGED cost
      PROVE  BoundInv(V)'
  BY <1>1, <1>2 DEF BoundInv, DriveOf
<1>3. CASE FloodEnds \/ NotFound \/ Start \/ Walk \/ WalkEnds \/ UNCHANGED vars
  BY <1>2, <1>3 DEF FloodEnds, NotFound, Start, Walk, WalkEnds, vars
<1> QED
  BY <1>3, SeedBound, RelaxBound DEF Next, Stopped

(* The streets are so few and short that no sum of costs reaches INT_MAX.   *)
StreetsFit ==
  \E V \in Nat : ValuesUpTo(V) /\ (2 * N + 1) * V + TurnAround < Impassable

(* The sums that route_graph_flood and route_path_new compare stay below    *)
(* INT_MAX.                                                                 *)
SumsFit ==
  \A w \in Ways : cost[w] # Impassable =>
    /\ cost[w] + TurnAround < Impassable
    /\ \A v \in Before(w) : cost[w] + Value(v) < Impassable

(* No sum of costs overflows in a graph of N segments of which none costs   *)
(* as much as the part 1/(2N + 1) of INT_MAX less the penalty of a turn: a  *)
(* segment enters a cost at most once in each direction.                    *)
THEOREM SumsNeverOverflow ==
  ASSUME StreetsFit
  PROVE  Spec => []SumsFit
<1>1. PICK V \in Nat : ValuesUpTo(V) /\ (2 * N + 1) * V + TurnAround < Impassable
  BY DEF StreetsFit
<1>2. Init => BoundInv(V)
  <2> SUFFICES ASSUME Init
               PROVE  BoundInv(V)
    OBVIOUS
  <2>1. \A w \in Ways : cost[w] = Impassable
    BY DEF Init
  <2> QED
    BY <2>1, InitFlood DEF BoundInv
<1>3. BoundInv(V) /\ [Next]_vars => BoundInv(V)'
  BY <1>1, NextBound
<1>4. BoundInv(V) => SumsFit
  <2> SUFFICES ASSUME BoundInv(V), NEW w \in Ways, cost[w] # Impassable
               PROVE  /\ cost[w] + TurnAround < Impassable
                      /\ \A v \in Before(w) : cost[w] + Value(v) < Impassable
    BY DEF SumsFit
  <2>1. PICK S \in SUBSET Ways : DriveOf(w, S, V)
    BY DEF BoundInv
  <2>2. Cardinality(S) \in Nat /\ Cardinality(S) <= 2 * N
    BY WaysCount, FS_Subset, FS_CardinalityType
  <2>3. N \in Nat /\ Impassable \in Nat
    BY FloodAssumption
  <2> DEFINE k == Cardinality(S)
             m == 2 * N
  <2>4. k \in Nat /\ m \in Nat /\ k <= m
    BY <2>2, <2>3
  <2>5. cost[w] <= k * V
    BY <2>1 DEF DriveOf
  <2>6. (m + 1) * V + TurnAround < Impassable
    BY <1>1
  <2> HIDE DEF k, m
  <2>7. k * V \in Nat /\ m * V \in Nat /\ k * V <= m * V /\ (m + 1) * V = m * V + V
    <3>1. (m - k) * V >= 0 /\ (m - k) * V = m * V - k * V
      BY <2>4
    <3> QED
      BY <2>4, <3>1
  <2>8. cost[w] \in Nat
    BY <2>3 DEF BoundInv, FloodInv, TypeOK, Costs
  <2> DEFINE a == k * V
             b == m * V
  <2> HIDE DEF a, b
  <2>9. cost[w] + V + TurnAround < Impassable
    <3>1. a \in Nat /\ b \in Nat /\ a <= b /\ cost[w] <= a /\ b + V + TurnAround < Impassable
      BY <2>5, <2>6, <2>7 DEF a, b
    <3> QED
      BY <2>3, <2>8, <3>1 DEF TurnAround
  <2>10. ASSUME NEW v \in Before(w)
         PROVE  Value(v) \in 0..V
    BY <1>1, ValueBound DEF Before, BoundInv, FloodInv
  <2> QED
    BY <2>3, <2>8, <2>9, <2>10 DEF TurnAround
<1> QED
  BY <1>2, <1>3, <1>4, PTL DEF Spec

(* In such graphs every path arrives.                                       *)
THEOREM PathAlwaysArrivesIfStreetsFit ==
  ASSUME NoLoops, TwoStreets, StreetsFit
  PROVE  Spec => []PathArrives
<1>1. SumsFit => PenaltyFits
  BY DEF SumsFit, PenaltyFits
<1> QED
  BY <1>1, SumsNeverOverflow, PathAlwaysArrives, PTL
=============================================================================
