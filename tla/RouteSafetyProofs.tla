------------------------- MODULE RouteSafetyProofs -------------------------
(***************************************************************************)
(* The safety of the route's life cycle on the road and without the        *)
(* messages of the on-line routing engine, for any number of destinations, *)
(* messages and positions.                                                 *)
(***************************************************************************)
EXTENDS RouteProofs

(* The vehicle is always matched to a street of the graph. *)
OnRoad == Fixes \subseteq {"street"}

(* The messages of the on-line routing engine are not used. *)
Offline == "no_calc" \notin Messages

(* malloc does not return the block of the graph that was just freed. *)
NoReuse == Reuse \subseteq {FALSE}

-----------------------------------------------------------------------------
(* A graph belongs to a position and to destinations; its costs, once it is *)
(* built, lead to current_dst; there is no path without a built graph.      *)
GraphInv ==
  /\ pos # "offgraph"
  /\ graph.live => pos = "street" /\ dests # <<>>
  /\ graph.building => graph.live /\ graph.busy /\ path = <<>>
  /\ (graph.live /\ ~graph.building) => graph.target = curDst
  /\ ~graph.live => path = <<>>
  /\ pc \in {"update_done", "path_update", "build_done"} => graph.live
  /\ pc = "update_done" => ~graph.building

(* The destinations are distinct objects and current_dst is one of them.    *)
DstInv ==
  /\ \A i, j \in 1..Len(dests) : dests[i] = dests[j] => i = j
  /\ dests # <<>> => curDst \in DstSet

(* The legs already linked lead from current_dst on.                        *)
Linked ==
  \E k \in 1..Len(dests) :
    /\ curDst = dests[k]
    /\ Len(path) <= Len(dests) - k
    /\ \A i \in 1..Len(path) :
         path[i] = [from |-> dests[k + i - 1], to |-> dests[k + i]]

(* The legs after the first lead from the first destination on.             *)
Following ==
  /\ curDst = dests[1]
  /\ Len(path) <= Len(dests)
  /\ \A i \in 2..Len(path) :
       path[i] = [from |-> dests[i - 1], to |-> dests[i]]

ChainInv ==
  /\ linkPath => pc = "update_done" /\ path # <<>> /\ Linked
  /\ (~linkPath /\ path # <<>>) => Following
  /\ (~linkPath /\ path # <<>> /\ pc # "update_done") =>
        path[1] = [from |-> Vehicle, to |-> dests[1]]

IInv == TypeOK /\ NoCrash /\ GraphInv /\ DstInv /\ ChainInv

-----------------------------------------------------------------------------
(* A new calculation leaves no path and either no graph or a busy one.      *)
LEMMA StartOverInv ==
  ASSUME NEW harder, NEW g, NEW s, StartOver(dests', harder, g, s),
         pos' = pos, pos # "offgraph", pos \in Matches,
         pos = "none" \/ dests' = <<>> => ~g.live /\ ~g.building,
         linkPath' = FALSE, pc' = "worker"
  PROVE  NoCrash' /\ GraphInv' /\ ChainInv'
<1>1. path' = <<>>
  BY DEF StartOver
<1>2. NoCrash' /\ ChainInv'
  BY <1>1 DEF NoCrash, ChainInv
<1>3. CASE pos = "none" \/ dests' = <<>>
  <2>1. graph' = g
    BY <1>3 DEF StartOver
  <2>2. QED
    BY <1>1, <1>2, <1>3, <2>1 DEF GraphInv
<1>4. CASE ~(pos = "none" \/ dests' = <<>>)
  <2>1. pos = "street"
    BY <1>4 DEF Matches
  <2>2. graph' = GraphBeingBuilt(harder)
    BY <1>4 DEF StartOver
  <2>3. GraphInv'
    BY <1>1, <1>4, <2>1, <2>2 DEF GraphInv, GraphBeingBuilt
  <2>4. QED
    BY <1>2, <2>3
<1>5. QED
  BY <1>3, <1>4

(* A new calculation begins at the last destination of the new list. *)
LEMMA NewCalculationInv ==
  ASSUME NEW s, NewCalculation(dests', s),
         pos' = pos, pos # "offgraph", pos \in Matches,
         linkPath' = FALSE, pc' = "worker",
         dests' \in Seq(Dst),
         \A i, j \in 1..Len(dests') : dests'[i] = dests'[j] => i = j
  PROVE  NoCrash' /\ GraphInv' /\ DstInv' /\ ChainInv'
<1>1. ~NoGraph.live /\ ~NoGraph.building
  BY DEF NoGraph
<1>2. StartOver(dests', FALSE, NoGraph, s) /\ curDst' = FinalDst(dests')
  BY DEF NewCalculation
<1>3. NoCrash' /\ GraphInv' /\ ChainInv'
  BY <1>1, <1>2, StartOverInv
<1>4. dests' # <<>> => \E i \in 1..Len(dests') : curDst' = dests'[i]
  BY <1>2, FinalDstType
<1>5. DstInv'
  BY <1>4 DEF DstInv, DstSet
<1>6. QED
  BY <1>3, <1>5

(* An update of the path begins a graph, waits for it, or uses it.          *)
LEMMA PathUpdateInv ==
  ASSUME IInv, NEW job, PathUpdate(job), pc = "worker",
         pos' = "street", dests # <<>>,
         UNCHANGED <<dests, curDst, linkPath>>
  PROVE  NoCrash' /\ GraphInv' /\ DstInv' /\ ChainInv'
<1> USE DEF IInv
<1>1. DstInv'
  BY DEF DstInv, DstSet
<1>2. ~linkPath
  BY DEF ChainInv
<1>3. CASE ~graph.live
  <2>1. path' = <<>> /\ graph' = GraphBeingBuilt(tryHarder) /\ pc' = "worker"
    BY <1>3 DEF PathUpdate
  <2>2. NoCrash' /\ ChainInv'
    BY <1>2, <2>1 DEF NoCrash, ChainInv
  <2>3. GraphInv'
    BY <2>1 DEF GraphInv, GraphBeingBuilt
  <2>4. QED
    BY <1>1, <2>2, <2>3
<1>4. CASE graph.live
  <2>1. /\ UNCHANGED <<path, graph>>
        /\ pc' \in {"worker", "reached", "update_done"}
        /\ pc' = "update_done" => ~graph.busy
    BY <1>4 DEF PathUpdate
  <2>2. NoCrash' /\ GraphInv'
    BY <1>4, <2>1 DEF NoCrash, GraphInv
  <2>3. ChainInv'
    BY <1>2, <2>1 DEF ChainInv, Following
  <2>4. QED
    BY <1>1, <2>2, <2>3
<1>5. QED
  BY <1>3, <1>4

(* The destination before current_dst is its neighbour in the list, and it  *)
(* is the vehicle exactly at the first destination.                         *)
LEMMA PreviousDestinationIs ==
  ASSUME TypeOK, DstInv, dests # <<>>
  PROVE  \E k \in 1..Len(dests) :
           /\ curDst = dests[k]
           /\ k = 1 => PreviousDestination = Vehicle
           /\ k # 1 => PreviousDestination = dests[k - 1]
<1>1. PICK k \in 1..Len(dests) : curDst = dests[k]
  BY DEF DstInv, DstSet
<1>2. \A i \in 1..Len(dests) : dests[i] = curDst => i = k
  BY <1>1 DEF DstInv
<1>3. CASE k = 1
  <2>1. ~ \E i \in 2..Len(dests) : dests[i] = curDst
    BY <1>2, <1>3 DEF TypeOK, RouteType
  <2>2. PreviousDestination = Vehicle
    BY <2>1 DEF PreviousDestination
  <2>3. QED
    BY <1>1, <1>3, <2>2
<1>4. CASE k # 1
  <2> DEFINE i == CHOOSE i \in 2..Len(dests) : dests[i] = curDst
  <2>1. k \in 2..Len(dests)
    BY <1>1, <1>4 DEF TypeOK, RouteType
  <2>2. i \in 2..Len(dests) /\ dests[i] = curDst
    BY <1>1, <2>1
  <2>3. i = k
    BY <1>2, <2>2 DEF TypeOK, RouteType
  <2>4. PreviousDestination = dests[k - 1]
    BY <1>1, <2>1, <2>3 DEF PreviousDestination
  <2>5. QED
    BY <1>1, <1>4, <2>4
<1>5. QED
  BY <1>3, <1>4

(* The leg that the worker computes fits before the legs it has linked.     *)
LEMMA LegToWaypointChain ==
  ASSUME IInv, dests # <<>>, PreviousDestination # Vehicle,
         UNCHANGED dests, curDst' = PreviousDestination,
         path' = NewPath(PreviousDestination)
  PROVE  path' # <<>> /\ Linked'
<1> USE DEF IInv
<1>1. PICK k \in 1..Len(dests) :
        /\ curDst = dests[k]
        /\ k = 1 => PreviousDestination = Vehicle
        /\ k # 1 => PreviousDestination = dests[k - 1]
  BY PreviousDestinationIs
<1> dests \in Seq(Dst) /\ path \in Seq(Legs)
  BY DEF TypeOK, RouteType
<1>2. k - 1 \in 1..Len(dests) /\ curDst' = dests[k - 1]
  BY <1>1
<1> DEFINE leg == [from |-> dests[k - 1], to |-> dests[k]]
<1>3. leg \in Legs
  BY <1>1, <1>2 DEF Legs
<1>4. CASE linkPath
  <2>1. path' = <<leg>> \o path
    BY <1>1, <1>2, <1>4 DEF NewPath
  <2>2. PICK l \in 1..Len(dests) :
          /\ curDst = dests[l]
          /\ Len(path) <= Len(dests) - l
          /\ \A i \in 1..Len(path) :
               path[i] = [from |-> dests[l + i - 1], to |-> dests[l + i]]
    BY <1>4 DEF ChainInv, Linked
  <2>3. l = k
    BY <1>1, <2>2 DEF DstInv
  <2>4. /\ path' # <<>>
        /\ Len(path') = Len(path) + 1
        /\ path'[1] = leg
        /\ \A i \in 2..Len(path') : path'[i] = path[i - 1]
    BY <1>3, <2>1
  <2>5. \A i \in 1..Len(path') :
          path'[i] = [from |-> dests[(k - 1) + i - 1], to |-> dests[(k - 1) + i]]
    <3> TAKE i \in 1..Len(path')
    <3>1. CASE i = 1
      <4>1. (k - 1) + i = k
        BY <3>1
      <4>2. (k - 1) + i - 1 = k - 1
        BY <3>1
      <4>3. QED
        BY <2>4, <3>1, <4>1, <4>2
    <3>2. CASE i # 1
      <4>1. i - 1 \in 1..Len(path) /\ i \in 2..Len(path')
        BY <2>4, <3>2
      <4>2. path'[i] = [from |-> dests[k + (i - 1) - 1], to |-> dests[k + (i - 1)]]
        BY <2>2, <2>3, <2>4, <4>1
      <4>3. k + (i - 1) = (k - 1) + i
        BY <4>1
      <4>4. QED
        BY <4>2, <4>3
    <3>3. QED
      BY <3>1, <3>2
  <2>6. Len(path') <= Len(dests) - (k - 1)
    BY <2>2, <2>3, <2>4
  <2>7. QED
    BY <1>2, <2>4, <2>5, <2>6 DEF Linked
<1>5. CASE ~linkPath
  <2>1. path = <<>>
    <3> SUFFICES ASSUME path # <<>> PROVE FALSE
      OBVIOUS
    <3>1. curDst = dests[1]
      BY <1>5 DEF ChainInv, Following
    <3>2. 1 \in 1..Len(dests) /\ dests[k] = dests[1]
      BY <1>1, <3>1
    <3>3. k = 1
      BY <3>2 DEF DstInv
    <3>4. QED
      BY <1>1, <3>3
  <2>2. path' = <<leg>>
    BY <1>1, <1>2, <1>3, <1>5, <2>1 DEF NewPath
  <2>3. path' # <<>> /\ Len(path') = 1 /\ path'[1] = leg
    BY <2>2
  <2>4. (k - 1) + 1 = k /\ (k - 1) + 1 - 1 = k - 1
    OBVIOUS
  <2>5. Len(path') <= Len(dests) - (k - 1)
    BY <2>3
  <2>6. \A i \in 1..Len(path') :
          path'[i] = [from |-> dests[(k - 1) + i - 1], to |-> dests[(k - 1) + i]]
    BY <2>3, <2>4
  <2>7. QED
    BY <1>2, <2>3, <2>5, <2>6 DEF Linked
<1>6. QED
  BY <1>4, <1>5

(* The leg from the vehicle completes or renews the chain. *)
LEMMA LegToVehicleChain ==
  ASSUME IInv, dests # <<>>, PreviousDestination = Vehicle,
         UNCHANGED <<dests, curDst>>,
         path' = NewPath(Vehicle)
  PROVE  /\ path' # <<>> /\ Following'
         /\ path'[1] = [from |-> Vehicle, to |-> dests'[1]]
<1> USE DEF IInv
<1> dests \in Seq(Dst) /\ path \in Seq(Legs)
  BY DEF TypeOK, RouteType
<1>1. PICK k \in 1..Len(dests) :
        /\ curDst = dests[k]
        /\ k # 1 => PreviousDestination = dests[k - 1]
  BY PreviousDestinationIs
<1>2. k = 1
  <2> SUFFICES ASSUME k # 1 PROVE FALSE
    OBVIOUS
  <2>1. k - 1 \in 1..Len(dests)
    BY <1>1
  <2>2. dests[k - 1] \in Dst
    BY <2>1
  <2>3. QED
    BY <1>1, <2>2, RouteAssumption
<1> DEFINE leg == [from |-> Vehicle, to |-> dests[1]]
           rest == IF linkPath \/ path = <<>> THEN path ELSE Tail(path)
<1>3. leg \in Legs
  BY <1>1, <1>2 DEF Legs
<1>4. /\ rest \in Seq(Legs)
      /\ Len(rest) + 1 <= Len(dests)
      /\ \A i \in 1..Len(rest) :
           rest[i] = [from |-> dests[i], to |-> dests[i + 1]]
  <2>1. CASE linkPath
    <3>1. PICK l \in 1..Len(dests) :
            /\ curDst = dests[l]
            /\ Len(path) <= Len(dests) - l
            /\ \A i \in 1..Len(path) :
                 path[i] = [from |-> dests[l + i - 1], to |-> dests[l + i]]
      BY <2>1 DEF ChainInv, Linked
    <3>2. l = 1
      BY <1>1, <1>2, <3>1 DEF DstInv
    <3>3. rest = path
      BY <2>1
    <3>4. \A i \in 1..Len(path) :
            path[i] = [from |-> dests[i], to |-> dests[i + 1]]
      <4> TAKE i \in 1..Len(path)
      <4>1. 1 + i - 1 = i /\ 1 + i = i + 1
        OBVIOUS
      <4>2. QED
        BY <3>1, <3>2, <4>1
    <3>5. Len(path) + 1 <= Len(dests)
      BY <3>1, <3>2
    <3>6. QED
      BY <3>3, <3>4, <3>5
  <2>2. CASE ~linkPath /\ path # <<>>
    <3>1. /\ Len(path) <= Len(dests)
          /\ \A i \in 2..Len(path) :
               path[i] = [from |-> dests[i - 1], to |-> dests[i]]
      BY <2>2 DEF ChainInv, Following
    <3>2. rest = Tail(path)
      BY <2>2
    <3>3. /\ rest \in Seq(Legs)
          /\ Len(rest) + 1 = Len(path)
          /\ \A i \in 1..Len(rest) : rest[i] = path[i + 1]
      BY <2>2, <3>2
    <3>4. \A i \in 1..Len(rest) :
            rest[i] = [from |-> dests[i], to |-> dests[i + 1]]
      <4> TAKE i \in 1..Len(rest)
      <4>1. i + 1 \in 2..Len(path) /\ (i + 1) - 1 = i
        BY <3>3
      <4>2. QED
        BY <3>1, <3>3, <4>1
    <3>5. QED
      BY <3>1, <3>3, <3>4
  <2>3. CASE ~linkPath /\ path = <<>>
    BY <1>1, <2>3
  <2>4. QED
    BY <2>1, <2>2, <2>3
<1>5. path' = <<leg>> \o rest
  BY <1>1, <1>2 DEF NewPath
<1> HIDE DEF rest
<1>6. /\ path' # <<>>
      /\ Len(path') = Len(rest) + 1
      /\ path'[1] = leg
      /\ \A i \in 2..Len(path') : path'[i] = rest[i - 1]
  BY <1>3, <1>4, <1>5
<1>7. \A i \in 2..Len(path') :
        path'[i] = [from |-> dests[i - 1], to |-> dests[i]]
  <2> TAKE i \in 2..Len(path')
  <2>1. i - 1 \in 1..Len(rest) /\ (i - 1) + 1 = i
    BY <1>4, <1>6
  <2>2. QED
    BY <1>4, <1>6, <2>1
<1>8. Following'
  BY <1>1, <1>2, <1>4, <1>6, <1>7 DEF Following
<1>9. QED
  BY <1>6, <1>8

(* Dropping the first destination with its leg keeps the rest of the chain. *)
LEMMA WaypointChain ==
  ASSUME IInv, ~linkPath, path # <<>>, Len(dests) > 1,
         dests' = Tail(dests), path' = Tail(path), curDst' = dests[2]
  PROVE  DstInv' /\ Following'
<1> USE DEF IInv
<1> dests \in Seq(Dst) /\ path \in Seq(Legs)
  BY DEF TypeOK, RouteType
<1>1. /\ Len(dests') = Len(dests) - 1
      /\ \A i \in 1..Len(dests') : dests'[i] = dests[i + 1]
  OBVIOUS
<1>2. /\ Len(path') = Len(path) - 1
      /\ \A i \in 1..Len(path') : path'[i] = path[i + 1]
  OBVIOUS
<1>3. DstInv'
  <2>1. \A i, j \in 1..Len(dests') : dests'[i] = dests'[j] => i = j
    <3> SUFFICES ASSUME NEW i \in 1..Len(dests'), NEW j \in 1..Len(dests'),
                        dests'[i] = dests'[j]
                 PROVE  i = j
      OBVIOUS
    <3>1. i + 1 \in 1..Len(dests) /\ j + 1 \in 1..Len(dests)
      BY <1>1
    <3>2. i + 1 = j + 1
      BY <1>1, <3>1 DEF DstInv
    <3>3. QED
      BY <3>2
  <2>2. 1 \in 1..Len(dests') /\ curDst' = dests'[1]
    BY <1>1
  <2>3. QED
    BY <2>1, <2>2 DEF DstInv, DstSet
<1>4. Following'
  <2>1. /\ Len(path) <= Len(dests)
        /\ \A i \in 2..Len(path) :
             path[i] = [from |-> dests[i - 1], to |-> dests[i]]
    BY DEF ChainInv, Following
  <2>2. \A i \in 2..Len(path') :
          path'[i] = [from |-> dests'[i - 1], to |-> dests'[i]]
    <3> TAKE i \in 2..Len(path')
    <3>1. /\ i + 1 \in 2..Len(path) /\ (i + 1) - 1 = i
          /\ i - 1 \in 1..Len(dests') /\ (i - 1) + 1 = i
          /\ i \in 1..Len(dests')
      BY <1>1, <1>2, <2>1
    <3>2. path'[i] = [from |-> dests[i], to |-> dests[i + 1]]
      BY <1>2, <2>1, <3>1
    <3>3. dests'[i - 1] = dests[i] /\ dests'[i] = dests[i + 1]
      BY <1>1, <3>1
    <3>4. QED
      BY <3>2, <3>3
  <2>3. curDst' = dests'[1] /\ Len(path') <= Len(dests')
    BY <1>1, <1>2, <2>1
  <2>4. QED
    BY <2>2, <2>3 DEF Following
<1>5. QED
  BY <1>3, <1>4

-----------------------------------------------------------------------------
(* The invariant holds at the start and is kept by every step.              *)
LEMMA IInvInit == Init => IInv
<1> SUFFICES ASSUME Init PROVE IInv
  OBVIOUS
<1>1. TypeOK
  BY TypeInit
<1>2. NoCrash
  BY DEF Init, NoCrash
<1>3. GraphInv
  BY DEF Init, GraphInv, NoGraph
<1>4. DstInv
  BY DEF Init, DstInv
<1>5. ChainInv
  BY DEF Init, ChainInv
<1>6. QED
  BY <1>1, <1>2, <1>3, <1>4, <1>5 DEF IInv

(* Every action keeps the invariant, one step for each action of Next. *)
LEMMA IInvStep ==
  ASSUME OnRoad, Offline, NoReuse
  PROVE  IInv /\ [Next]_vars => IInv'
<1> SUFFICES ASSUME IInv, [Next]_vars
             PROVE  NoCrash' /\ GraphInv' /\ DstInv' /\ ChainInv'
  BY TypeStep DEF IInv
<1> USE DEF IInv
<1>0. /\ pos \in Matches /\ pos # "offgraph"
      /\ dests \in Seq(Dst) /\ path \in Seq(Legs)
      /\ \A i, j \in 1..Len(dests) : dests[i] = dests[j] => i = j
  BY DEF TypeOK, RouteType, GraphInv, DstInv
<1>w. pc # "update_done" => ~linkPath
  BY DEF ChainInv
<1>k. "no_calc" \notin Messages
  BY DEF Offline
<1>1. ASSUME NEW ds \in Requests, SetDestinations(ds)
     PROVE  NoCrash' /\ GraphInv' /\ DstInv' /\ ChainInv'
  <2>1. NewCalculation(dests', "destination_set") /\ dests' = ds
    BY <1>1 DEF SetDestinations
  <2>2. pos' = pos /\ linkPath' = FALSE /\ pc' = "worker"
    BY <1>1, <1>w DEF SetDestinations, Message, TypeOK, FlagType
  <2>3. QED
    BY <1>0, <2>1, <2>2, RequestsAreLists, NewCalculationInv
<1>2. CASE ClearDestinations
  <2>1. NewCalculation(dests', "no_destination") /\ dests' = <<>>
    BY <1>2 DEF ClearDestinations
  <2>2. pos' = pos /\ linkPath' = FALSE /\ pc' = "worker"
    BY <1>2, <1>w DEF ClearDestinations, Message, TypeOK, FlagType
  <2>3. /\ dests' \in Seq(Dst)
        /\ \A i, j \in 1..Len(dests') : dests'[i] = dests'[j] => i = j
    <3>1. Len(dests') = 0 /\ 1..0 = {}
      BY <2>1
    <3>2. QED
      BY <2>1, <3>1
  <2>4. QED
    BY <1>0, <2>1, <2>2, <2>3, NewCalculationInv
<1>3. ASSUME NEW d \in Dst, NEW found \in NearestFound, AddDestination(d, found)
     PROVE  NoCrash' /\ GraphInv' /\ DstInv' /\ ChainInv'
  <2>1. PICK s : NewCalculation(dests', s)
    BY <1>3 DEF AddDestination
  <2>2. pos' = pos /\ linkPath' = FALSE /\ pc' = "worker"
    BY <1>3, <1>w DEF AddDestination, Message, TypeOK, FlagType
  <2>3. /\ dests' \in Seq(Dst)
        /\ \A i, j \in 1..Len(dests') : dests'[i] = dests'[j] => i = j
    <3>1. CASE found
      <4>1. dests' = Append(dests, d)
        BY <1>3, <3>1 DEF AddDestination
      <4>2. /\ dests' \in Seq(Dst) /\ Len(dests') = Len(dests) + 1
            /\ dests'[Len(dests) + 1] = d
            /\ \A i \in 1..Len(dests) : dests'[i] = dests[i]
        BY <1>0, <4>1
      <4>3. \A i \in 1..Len(dests) : dests[i] # d
        BY <1>3 DEF AddDestination, DstSet
      <4>4. QED
        BY <1>0, <4>2, <4>3
    <3>2. CASE ~found
      BY <1>0, <1>3, <3>2 DEF AddDestination
    <3>3. QED
      BY <3>1, <3>2
  <2>4. QED
    BY <1>0, <2>1, <2>2, <2>3, NewCalculationInv
<1>4. CASE Recalculate
  <2>1. StartOver(dests', tryHarder, graph, status)
    BY <1>4 DEF Recalculate
  <2>2. pos' = pos /\ linkPath' = FALSE /\ pc' = "worker"
    BY <1>4, <1>w DEF Recalculate, Message, TypeOK, FlagType
  <2>3. UNCHANGED <<dests, curDst>>
    BY <1>4 DEF Recalculate
  <2>4. pos = "none" \/ dests' = <<>> => ~graph.live /\ ~graph.building
    BY <2>3 DEF GraphInv
  <2>5. NoCrash' /\ GraphInv' /\ ChainInv'
    BY <1>0, <2>1, <2>2, <2>4, StartOverInv
  <2>6. DstInv'
    BY <2>3 DEF DstInv, DstSet
  <2>7. QED
    BY <2>5, <2>6
<1>5. CASE Refresh
  <2>1. CASE pos = "none"
    <3>1. /\ path' = <<>> /\ pc' = "worker"
          /\ UNCHANGED <<pos, dests, curDst, graph, linkPath>>
      BY <1>5, <2>1 DEF Refresh, Message
    <3>2. NoCrash' /\ GraphInv'
      BY <2>1, <3>1 DEF NoCrash, GraphInv
    <3>3. DstInv' /\ ChainInv'
      BY <1>5, <1>w, <3>1 DEF Refresh, Message, DstInv, DstSet, ChainInv
    <3>4. QED
      BY <3>2, <3>3
  <2>2. CASE pos # "none"
    <3>1. /\ PathUpdate("message") /\ pc = "worker" /\ dests # <<>>
          /\ UNCHANGED <<pos, dests, curDst, linkPath>>
      BY <1>5, <2>2 DEF Refresh, Message
    <3>2. pos' = "street"
      BY <1>0, <2>2, <3>1 DEF Matches
    <3>3. QED
      BY <3>1, <3>2, PathUpdateInv
  <2>3. QED
    BY <2>1, <2>2
<1>6. ASSUME NEW d \in Dst, NEW found \in NearestFound,
            SetDestinationNoCalc(d, found)
     PROVE  FALSE
  BY <1>6, <1>k DEF SetDestinationNoCalc, Message
<1>7. ASSUME NEW d \in Dst, NEW found \in NearestFound,
            AddDestinationNoCalc(d, found)
     PROVE  FALSE
  BY <1>7, <1>k DEF AddDestinationNoCalc, Message
<1>8. CASE AfterDestinationStartCalc
  BY <1>8, <1>k DEF AfterDestinationStartCalc, Message
<1>9. ASSUME NEW p \in Fixes, VehicleUpdate(p)
     PROVE  NoCrash' /\ GraphInv' /\ DstInv' /\ ChainInv'
  <2>1. p = "street" /\ pos' = "street"
    BY <1>9 DEF OnRoad, VehicleUpdate
  <2>2. pc = "worker" /\ UNCHANGED <<dests, curDst, linkPath>>
    BY <1>9 DEF VehicleUpdate
  <2>3. CASE dests = <<>>
    <3>1. path = <<>> /\ ~graph.live /\ ~graph.building
      BY <2>3 DEF GraphInv
    <3>2. path' = <<>> /\ UNCHANGED <<graph, pc>>
      BY <1>9, <2>3, <3>1 DEF VehicleUpdate
    <3>3. NoCrash' /\ GraphInv'
      BY <2>1, <2>2, <3>1, <3>2 DEF NoCrash, GraphInv
    <3>4. DstInv' /\ ChainInv'
      BY <1>w, <2>2, <3>2 DEF DstInv, DstSet, ChainInv
    <3>5. QED
      BY <3>3, <3>4
  <2>4. CASE dests # <<>>
    <3>1. PathUpdate("vehicle")
      BY <1>9, <2>1, <2>4 DEF VehicleUpdate
    <3>2. QED
      BY <2>1, <2>2, <2>4, <3>1, PathUpdateInv
  <2>5. QED
    BY <2>3, <2>4
<1>10. CASE GraphBuilt
  <2>1. /\ pc = "worker" /\ graph.building /\ graph.live /\ path = <<>>
        /\ pos = "street" /\ dests # <<>>
    BY <1>10 DEF GraphBuilt, GraphInv
  <2>2. curDst \in Dst
    BY <1>0, <2>1 DEF DstInv, DstSet
  <2>3. /\ graph' = [graph EXCEPT !.building = FALSE, !.target = curDst]
        /\ pc' = "update_done"
        /\ UNCHANGED <<pos, dests, curDst, path, linkPath>>
    BY <1>10, <2>1, <2>2 DEF GraphBuilt, CanFlood
  <2>4. graph'.live /\ ~graph'.building /\ graph'.target = curDst
    BY <2>1, <2>3 DEF TypeOK, RouteType, Graphs
  <2>5. NoCrash' /\ GraphInv'
    BY <1>0, <2>1, <2>3, <2>4 DEF NoCrash, GraphInv
  <2>6. DstInv' /\ ChainInv'
    BY <1>w, <2>1, <2>3 DEF DstInv, DstSet, ChainInv
  <2>7. QED
    BY <2>5, <2>6
<1>11. CASE UseOfDeadDestination
  <2>1. graph.live /\ dests # <<>> /\ curDst \notin Dst
    BY <1>11 DEF UseOfDeadDestination, GraphInv
  <2>2. QED
    BY <1>0, <2>1 DEF DstInv, DstSet
<1>12. CASE LegToWaypoint
  <2>1. /\ pc = "update_done" /\ PreviousDestination # Vehicle
        /\ curDst \in Dst
    BY <1>12 DEF LegToWaypoint
  <2>2. graph.live /\ pos = "street" /\ dests # <<>>
    BY <2>1 DEF GraphInv
  <2>3. ~graph.building
    BY <2>1 DEF GraphInv
  <2>4. PreviousDestination \in Dst /\ PreviousDestination \in DstSet
    <3>1. PICK k \in 1..Len(dests) :
             /\ k = 1 => PreviousDestination = Vehicle
             /\ k # 1 => PreviousDestination = dests[k - 1]
      BY <2>2, PreviousDestinationIs
    <3>2. k - 1 \in 1..Len(dests) /\ PreviousDestination = dests[k - 1]
      BY <1>0, <2>1, <3>1
    <3>3. QED
      BY <1>0, <3>2 DEF DstSet
  <2>5. /\ path' = NewPath(PreviousDestination)
        /\ curDst' = PreviousDestination
        /\ graph' = [graph EXCEPT !.target = PreviousDestination]
        /\ UNCHANGED <<pos, dests, pc>>
        /\ linkPath' = TRUE
    BY <1>12, <2>2, <2>4 DEF LegToWaypoint, CanFlood
  <2>6. path' # <<>> /\ Linked'
    BY <2>1, <2>2, <2>5, LegToWaypointChain
  <2>7. graph'.live /\ ~graph'.building /\ graph'.target = curDst'
    BY <2>2, <2>3, <2>5 DEF TypeOK, RouteType, Graphs
  <2>8. NoCrash' /\ GraphInv'
    BY <1>0, <2>1, <2>2, <2>5, <2>7 DEF NoCrash, GraphInv
  <2>9. DstInv'
    BY <1>0, <2>4, <2>5 DEF DstInv, DstSet
  <2>10. ChainInv'
    BY <2>1, <2>5, <2>6 DEF ChainInv
  <2>11. QED
    BY <2>8, <2>9, <2>10
<1>r. ReturnPoint \in {"path_update", "build_done", "worker"}
  BY ReturnPointType DEF TypeOK, ControlType
<1>13. CASE LegToVehicle
  <2>1. /\ pc = "update_done" /\ PreviousDestination = Vehicle
        /\ curDst \in Dst
    BY <1>13 DEF LegToVehicle
  <2>2. graph.live /\ pos = "street" /\ dests # <<>>
    BY <2>1 DEF GraphInv
  <2>3. ~graph.building
    BY <2>1 DEF GraphInv
  <2>4. /\ path' = NewPath(Vehicle)
        /\ linkPath' = FALSE
        /\ pc' \in {"path_update", "build_done", "worker"}
        /\ UNCHANGED <<pos, dests, curDst, graph>>
    BY <1>13, <1>r DEF LegToVehicle
  <2>5. /\ path' # <<>> /\ Following'
        /\ path'[1] = [from |-> Vehicle, to |-> dests'[1]]
    BY <2>1, <2>2, <2>4, LegToVehicleChain
  <2>6. NoCrash' /\ GraphInv'
    BY <1>0, <2>1, <2>2, <2>3, <2>4 DEF NoCrash, GraphInv
  <2>7. DstInv'
    BY <2>4 DEF DstInv, DstSet
  <2>8. ChainInv'
    BY <2>4, <2>5 DEF ChainInv
  <2>9. QED
    BY <2>6, <2>7, <2>8
<1>14. CASE TryHarder
  <2>1. graph.live /\ pos = "street" /\ dests # <<>>
    BY <1>14 DEF TryHarder, GraphInv
  <2>2. /\ path' = <<>> /\ linkPath' = FALSE
        /\ graph' = GraphBeingBuilt(TRUE)
        /\ pc' \in {"path_update", "build_done", "worker"}
        /\ UNCHANGED <<pos, dests, curDst>>
    BY <1>14, <1>r DEF TryHarder
  <2>3. NoCrash' /\ GraphInv'
    BY <2>1, <2>2 DEF NoCrash, GraphInv, GraphBeingBuilt
  <2>4. DstInv' /\ ChainInv'
    BY <2>2 DEF DstInv, DstSet, ChainInv
  <2>5. QED
    BY <2>3, <2>4
<1>15. CASE NotFound
  <2>1. graph.live
    BY <1>15 DEF NotFound, GraphInv
  <2>2. /\ path' = <<>> /\ linkPath' = FALSE
        /\ pc' \in {"path_update", "build_done", "worker"}
        /\ UNCHANGED <<pos, dests, curDst, graph>>
    BY <1>15, <1>r DEF NotFound
  <2>3. NoCrash' /\ GraphInv'
    BY <2>1, <2>2 DEF NoCrash, GraphInv
  <2>4. DstInv' /\ ChainInv'
    BY <2>2 DEF DstInv, DstSet, ChainInv
  <2>5. QED
    BY <2>3, <2>4
<1>16. CASE PathUpdateEnd
  <2>1. graph.live /\ pos = "street" /\ dests # <<>>
    BY <1>16 DEF PathUpdateEnd, GraphInv
  <2>2. /\ pc = "path_update" /\ pc' \in {"reached", "worker"}
        /\ UNCHANGED <<pos, dests, curDst, path, linkPath>>
    BY <1>16 DEF PathUpdateEnd
  <2>3. DstInv' /\ ChainInv'
    BY <1>w, <2>2 DEF DstInv, DstSet, ChainInv, Following
  <2>4. CASE path = <<>>
    <3>1. graph' = GraphBeingBuilt(tryHarder)
      BY <1>16, <2>4 DEF PathUpdateEnd
    <3>2. NoCrash' /\ GraphInv'
      BY <2>1, <2>2, <2>4, <3>1 DEF NoCrash, GraphInv, GraphBeingBuilt
    <3>3. QED
      BY <2>3, <3>2
  <2>5. CASE path # <<>>
    <3>1. graph' = graph
      BY <1>16, <2>5 DEF PathUpdateEnd
    <3>2. NoCrash' /\ GraphInv'
      BY <2>2, <3>1 DEF NoCrash, GraphInv
    <3>3. QED
      BY <2>3, <3>2
  <2>6. QED
    BY <2>4, <2>5
<1>17. CASE BuildDone
  <2>1. /\ pc = "build_done" /\ pc' = "worker"
        /\ UNCHANGED <<pos, dests, curDst, path, linkPath>>
        /\ \E b \in BOOLEAN : graph' = [graph EXCEPT !.busy = b]
    BY <1>17 DEF BuildDone
  <2>2. /\ graph'.live = graph.live /\ graph'.building = graph.building
        /\ graph'.target = graph.target
    BY <2>1 DEF TypeOK, RouteType, Graphs
  <2>5. graph.building => graph'.busy
    <3> SUFFICES ASSUME graph.building PROVE graph'.busy
      OBVIOUS
    <3>1. PICK reused \in Reuse : graph' = [graph EXCEPT !.busy = ~reused]
      BY <1>17 DEF BuildDone
    <3>2. ~reused
      BY DEF NoReuse
    <3>3. graph' = [graph EXCEPT !.busy = TRUE]
      BY <3>1, <3>2
    <3>4. QED
      BY <3>3 DEF TypeOK, RouteType, Graphs
  <2>3. NoCrash' /\ GraphInv'
    BY <2>1, <2>2, <2>5 DEF NoCrash, GraphInv
  <2>4. DstInv' /\ ChainInv'
    BY <1>w, <2>1 DEF DstInv, DstSet, ChainInv, Following
  <2>6. QED
    BY <2>3, <2>4
<1>18. CASE NothingReached
  <2>1. /\ pc = "reached" /\ pc' = "worker"
        /\ UNCHANGED <<pos, dests, curDst, path, linkPath, graph>>
    BY <1>18 DEF NothingReached, route
  <2>2. NoCrash' /\ GraphInv'
    BY <2>1 DEF NoCrash, GraphInv
  <2>3. DstInv' /\ ChainInv'
    BY <1>w, <2>1 DEF DstInv, DstSet, ChainInv, Following
  <2>4. QED
    BY <2>2, <2>3
<1>19. CASE WaypointReached
  <2>1. /\ pc = "reached" /\ path # <<>> /\ Len(dests) > 1 /\ ~linkPath
        /\ pos = "street"
    BY <1>19, <1>w DEF WaypointReached, MayReach
  <2>2. graph.live /\ ~graph.building
    BY <2>1 DEF GraphInv
  <2>3. dests[2] \in Dst
    BY <1>0, <2>1
  <2>4. /\ dests' = Tail(dests) /\ path' = Tail(path) /\ curDst' = dests[2]
        /\ graph' = [graph EXCEPT !.target = dests[2]]
        /\ pc' = "update_done"
        /\ UNCHANGED <<pos, linkPath>>
    BY <1>19, <2>1, <2>2, <2>3 DEF WaypointReached, CanFlood
  <2>5. DstInv' /\ Following'
    BY <2>1, <2>4, WaypointChain
  <2>6. graph'.live /\ ~graph'.building /\ graph'.target = curDst'
    BY <2>2, <2>4 DEF TypeOK, RouteType, Graphs
  <2>7. dests' # <<>>
    <3>1. Len(dests') = Len(dests) - 1
      BY <1>0, <2>1, <2>4
    <3>2. Len(dests') # 0
      BY <1>0, <2>1, <3>1
    <3>3. QED
      BY <3>2
  <2>8. NoCrash' /\ GraphInv'
    BY <1>0, <2>1, <2>4, <2>6, <2>7 DEF NoCrash, GraphInv
  <2>9. ChainInv'
    BY <2>1, <2>4, <2>5 DEF ChainInv
  <2>10. QED
    BY <2>5, <2>8, <2>9
<1>20. CASE DestinationReached
  <2>1. NewCalculation(dests', "no_destination") /\ dests' = <<>>
    BY <1>20 DEF DestinationReached
  <2>2. pos' = pos /\ linkPath' = FALSE /\ pc' = "worker"
    BY <1>20, <1>w DEF DestinationReached, TypeOK, FlagType
  <2>3. /\ dests' \in Seq(Dst)
        /\ \A i, j \in 1..Len(dests') : dests'[i] = dests'[j] => i = j
    <3>1. Len(dests') = 0 /\ 1..0 = {}
      BY <2>1
    <3>2. QED
      BY <2>1, <3>1
  <2>4. QED
    BY <1>0, <2>1, <2>2, <2>3, NewCalculationInv
<1>21. CASE UNCHANGED vars
  <2>1. NoCrash' /\ GraphInv'
    BY <1>21 DEF vars, NoCrash, GraphInv
  <2>2. DstInv'
    BY <1>21 DEF vars, DstInv, DstSet
  <2>3. ChainInv'
    BY <1>21 DEF vars, ChainInv, Linked, Following
  <2>4. QED
    BY <2>1, <2>2, <2>3
<1>22. QED
  BY <1>1, <1>2, <1>3, <1>4, <1>5, <1>6, <1>7, <1>8, <1>9, <1>10, <1>11, <1>12,
     <1>13, <1>14, <1>15, <1>16, <1>17, <1>18, <1>19, <1>20, <1>21
     DEF Next, UserMessage, Continue

(* The inductive invariant holds throughout every behaviour. *)
LEMMA Invariance ==
  ASSUME OnRoad, Offline, NoReuse
  PROVE  Spec => []IInv
BY IInvInit, IInvStep, PTL DEF Spec

-----------------------------------------------------------------------------
(* On the road no job of the worker dereferences a graph, a position, a     *)
(* street or a destination that is missing or was freed.                    *)
THEOREM NeverCrashes ==
  ASSUME OnRoad, Offline, NoReuse
  PROVE  Spec => []NoCrash
<1>1. IInv => NoCrash
  BY DEF IInv
<1>2. QED
  BY <1>1, Invariance, PTL

(* Between two jobs the legs are one chain from the vehicle through the     *)
(* first destinations, whatever was added, reached, recomputed or refused.  *)
THEOREM ChainAlwaysFollows ==
  ASSUME OnRoad, Offline, NoReuse
  PROVE  Spec => []ChainFollowsDestinations
<1>1. IInv => ChainFollowsDestinations
  <2> SUFFICES ASSUME IInv, pc = "worker"
               PROVE  /\ Len(path) <= Len(dests)
                      /\ \A i \in 1..Len(path) :
                           path[i] = [from |-> IF i = 1 THEN Vehicle
                                               ELSE dests[i - 1],
                                      to   |-> dests[i]]
    BY DEF ChainFollowsDestinations
  <2> dests \in Seq(Dst) /\ path \in Seq(Legs) /\ ~linkPath
    BY DEF IInv, TypeOK, RouteType, ChainInv
  <2>1. CASE path = <<>>
    BY <2>1
  <2>2. CASE path # <<>>
    <3>1. Following /\ path[1] = [from |-> Vehicle, to |-> dests[1]]
      BY <2>2 DEF IInv, ChainInv
    <3>2. QED
      BY <3>1 DEF Following
  <2>3. QED
    BY <2>1, <2>2
<1>2. QED
  BY <1>1, Invariance, PTL

(* Between two jobs a path stands on a finished graph whose costs lead to   *)
(* the first destination, so that an incremental update reads the right     *)
(* costs.                                                                   *)
THEOREM PathAlwaysHasItsGraph ==
  ASSUME OnRoad, Offline, NoReuse
  PROVE  Spec => []PathHasItsGraph
<1>1. IInv => PathHasItsGraph
  BY DEF IInv, ChainInv, Following, GraphInv, PathHasItsGraph
<1>2. QED
  BY <1>1, Invariance, PTL
=============================================================================
