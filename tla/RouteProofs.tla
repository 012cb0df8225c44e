---------------------------- MODULE RouteProofs ----------------------------
(***************************************************************************)
(* The types of the route's life cycle, for any number of destinations,    *)
(* messages and positions, and what its operators return.                  *)
(***************************************************************************)
EXTENDS Route, TLAPS, SequenceTheorems

-----------------------------------------------------------------------------
(* The lists of destinations a request can hold are duplicate-free.         *)
LEMMA RequestsAreLists ==
  ASSUME NEW ds \in Requests
  PROVE  /\ ds \in Seq(Dst)
         /\ \A i, j \in 1..Len(ds) : ds[i] = ds[j] => i = j
<1>1. PICK n \in 0..MaxDst : ds \in [1..n -> Dst]
  BY DEF Requests
<1>2. n \in Nat
  BY RouteAssumption
<1>3. ds \in Seq(Dst)
  BY <1>1, <1>2
<1>4. QED
  BY <1>3 DEF Requests

(* What the pieces of the actions return. *)
LEMMA GraphTypes ==
  /\ NoGraph \in Graphs
  /\ \A h \in BOOLEAN : GraphBeingBuilt(h) \in Graphs
BY DEF NoGraph, GraphBeingBuilt, Graphs

(* The last destination of a list is one of its members (route_get_dst). *)
LEMMA FinalDstType ==
  ASSUME NEW ds \in Seq(Dst)
  PROVE  /\ FinalDst(ds) \in Dst \cup {Null}
         /\ ds # <<>> => \E i \in 1..Len(ds) : FinalDst(ds) = ds[i]
BY DEF FinalDst

(* A leg starts at a destination or at the vehicle. *)
LEMMA PreviousDestinationType ==
  ASSUME dests \in Seq(Dst)
  PROVE  PreviousDestination \in Dst \cup {Vehicle}
<1>1. CASE \E i \in 2..Len(dests) : dests[i] = curDst
  <2>1. (CHOOSE i \in 2..Len(dests) : dests[i] = curDst) \in 2..Len(dests)
    BY <1>1
  <2>2. QED
    BY <1>1, <2>1 DEF PreviousDestination
<1>2. CASE ~ \E i \in 2..Len(dests) : dests[i] = curDst
  BY <1>2 DEF PreviousDestination
<1>3. QED
  BY <1>1, <1>2

(* The path with a new first leg is a list of legs. *)
LEMMA NewPathType ==
  ASSUME path \in Seq(Legs), curDst \in Dst, NEW from \in Dst \cup {Vehicle}
  PROVE  NewPath(from) \in Seq(Legs)
<1>1. <<[from |-> from, to |-> curDst]>> \in Seq(Legs)
  BY DEF Legs
<1>2. (IF linkPath \/ path = <<>> THEN path ELSE Tail(path)) \in Seq(Legs)
  OBVIOUS
<1>3. QED
  BY <1>1, <1>2 DEF NewPath

(* route_path_update_done returns to one of its three callers. *)
LEMMA ReturnPointType ==
  ASSUME caller \in Callers
  PROVE  ReturnPoint \in {"path_update", "build_done", "worker"}
BY DEF ReturnPoint, Callers

(* What starting over, and an update of the path, leave in the variables.   *)
LEMMA StartOverType ==
  ASSUME NEW ds, NEW harder \in BOOLEAN, NEW g \in Graphs, NEW s \in Statuses,
         StartOver(ds, harder, g, s)
  PROVE  /\ path' \in Seq(Legs)
         /\ tryHarder' \in BOOLEAN
         /\ graph' \in Graphs
         /\ status' \in Statuses
<1>1. path' \in Seq(Legs)
  BY DEF StartOver
<1>2. tryHarder' \in BOOLEAN
  BY DEF StartOver
<1>3. "building_graph" \in Statuses
  BY DEF Statuses
<1>4. CASE pos = "none" \/ ds = <<>>
  BY <1>1, <1>2, <1>4 DEF StartOver
<1>5. CASE ~(pos = "none" \/ ds = <<>>)
  <2>1. graph' \in Graphs
    BY <1>5, GraphTypes DEF StartOver
  <2>2. status' \in Statuses
    BY <1>5, <1>3 DEF StartOver
  <2>3. QED
    BY <1>1, <1>2, <2>1, <2>2
<1>6. QED
  BY <1>4, <1>5

(* What the start of a new calculation assigns has the right types. *)
LEMMA NewCalculationType ==
  ASSUME NEW ds \in Seq(Dst), NEW s \in Statuses, NewCalculation(ds, s)
  PROVE  /\ curDst' \in Dst \cup {Null, Freed}
         /\ path' \in Seq(Legs)
         /\ tryHarder' \in BOOLEAN
         /\ graph' \in Graphs
         /\ status' \in Statuses
<1>1. curDst' \in Dst \cup {Null, Freed}
  BY FinalDstType DEF NewCalculation
<1>2. NoGraph \in Graphs
  BY GraphTypes
<1>3. StartOver(ds, FALSE, NoGraph, s)
  BY DEF NewCalculation
<1>4. QED
  BY <1>1, <1>2, <1>3, StartOverType

(* What route_path_update assigns has the right types. *)
LEMMA PathUpdateType ==
  ASSUME TypeOK, NEW job \in Callers, PathUpdate(job)
  PROVE  /\ path' \in Seq(Legs)
         /\ graph' \in Graphs
         /\ status' \in Statuses
         /\ pc' \in Points
         /\ caller' \in Callers
         /\ newGraph' \in BOOLEAN
<1> USE DEF TypeOK, RouteType, ControlType, FlagType
<1>1. /\ "building_graph" \in Statuses
      /\ "worker" \in Points /\ "update_done" \in Points /\ "reached" \in Points
  BY DEF Statuses, Points
<1>2. CASE ~graph.live
  <2>0. GraphBeingBuilt(tryHarder) \in Graphs
    BY GraphTypes
  <2>1. graph' \in Graphs /\ path' \in Seq(Legs)
    <3>1. graph' = GraphBeingBuilt(tryHarder) /\ path' = <<>>
      BY <1>2 DEF PathUpdate
    <3>2. QED
      BY <2>0, <3>1
  <2>2. status' \in Statuses /\ pc' \in Points /\ caller' \in Callers
    BY <1>1, <1>2 DEF PathUpdate
  <2>3. newGraph' \in BOOLEAN
    BY <1>2 DEF PathUpdate
  <2>4. QED
    BY <2>1, <2>2, <2>3
<1>3. CASE graph.live /\ graph.busy
  <2>1. graph' \in Graphs /\ path' \in Seq(Legs)
    BY <1>3 DEF PathUpdate
  <2>2. status' \in Statuses /\ caller' \in Callers
    BY <1>3 DEF PathUpdate
  <2>3. pc' \in Points
    BY <1>1, <1>3 DEF PathUpdate
  <2>4. newGraph' \in BOOLEAN
    BY <1>3 DEF PathUpdate
  <2>5. QED
    BY <2>1, <2>2, <2>3, <2>4
<1>4. CASE graph.live /\ ~graph.busy
  <2>1. graph' \in Graphs /\ path' \in Seq(Legs)
    BY <1>4 DEF PathUpdate
  <2>2. status' \in Statuses /\ pc' \in Points /\ caller' \in Callers
    BY <1>1, <1>4 DEF PathUpdate
  <2>3. newGraph' \in BOOLEAN
    BY <1>4 DEF PathUpdate
  <2>4. QED
    BY <2>1, <2>2, <2>3
<1>5. QED
  BY <1>2, <1>3, <1>4

-----------------------------------------------------------------------------
(* The types hold at the start, and no step of the worker breaks them.      *)
LEMMA TypeInit == Init => TypeOK
<1> SUFFICES ASSUME Init PROVE TypeOK
  OBVIOUS
<1>1. RouteType
  BY GraphTypes DEF Init, RouteType, Matches
<1>2. ControlType
  BY DEF Init, ControlType, Statuses, Points, Callers
<1>3. FlagType
  BY DEF Init, FlagType
<1>4. QED
  BY <1>1, <1>2, <1>3 DEF TypeOK

(* Every action keeps the types. *)
LEMMA TypeStep == TypeOK /\ [Next]_vars => TypeOK'
<1> SUFFICES ASSUME TypeOK, [Next]_vars PROVE TypeOK'
  OBVIOUS
<1> USE RouteAssumption, GraphTypes DEF TypeOK
<1>1. ASSUME NEW ds \in Requests, SetDestinations(ds) PROVE TypeOK'
  <2>1. ds \in Seq(Dst) /\ "destination_set" \in Statuses
    BY RequestsAreLists DEF Statuses
  <2>2. NewCalculation(ds, "destination_set")
    BY <1>1 DEF SetDestinations
  <2>3. /\ curDst' \in Dst \cup {Null, Freed}
        /\ path' \in Seq(Legs)
        /\ tryHarder' \in BOOLEAN
        /\ graph' \in Graphs
        /\ status' \in Statuses
    BY <2>1, <2>2, NewCalculationType
  <2>4. dests' \in Seq(Dst)
    BY <1>1, <2>1 DEF SetDestinations, RouteType
  <2>5. RouteType'
    BY <1>1, <2>3, <2>4 DEF SetDestinations, RouteType
  <2>6. ControlType'
    BY <1>1, <2>3 DEF SetDestinations, Message, ControlType
  <2>7. FlagType'
    BY <1>1, <2>3 DEF SetDestinations, FlagType
  <2>8. QED
    BY <2>5, <2>6, <2>7
<1>2. CASE ClearDestinations
  <2>1. <<>> \in Seq(Dst) /\ "no_destination" \in Statuses
    BY DEF Statuses
  <2>2. NewCalculation(<<>>, "no_destination")
    BY <1>2 DEF ClearDestinations
  <2>3. /\ curDst' \in Dst \cup {Null, Freed}
        /\ path' \in Seq(Legs)
        /\ tryHarder' \in BOOLEAN
        /\ graph' \in Graphs
        /\ status' \in Statuses
    BY <2>1, <2>2, NewCalculationType
  <2>4. dests' \in Seq(Dst)
    BY <1>2, <2>1 DEF ClearDestinations, RouteType
  <2>5. RouteType'
    BY <1>2, <2>3, <2>4 DEF ClearDestinations, RouteType
  <2>6. ControlType'
    BY <1>2, <2>3 DEF ClearDestinations, Message, ControlType
  <2>7. FlagType'
    BY <1>2, <2>3 DEF ClearDestinations, FlagType
  <2>8. QED
    BY <2>5, <2>6, <2>7
<1>3. ASSUME NEW d \in Dst, NEW found \in NearestFound, AddDestination(d, found)
     PROVE  TypeOK'
  <2>1. dests' \in Seq(Dst)
    BY <1>3 DEF AddDestination, RouteType
  <2>2. PICK s \in Statuses : NewCalculation(dests', s)
    BY <1>3 DEF AddDestination, Statuses
  <2>3. /\ curDst' \in Dst \cup {Null, Freed}
        /\ path' \in Seq(Legs)
        /\ tryHarder' \in BOOLEAN
        /\ graph' \in Graphs
        /\ status' \in Statuses
    BY <2>1, <2>2, NewCalculationType
  <2>4. RouteType'
    BY <1>3, <2>1, <2>3 DEF AddDestination, RouteType
  <2>5. ControlType'
    BY <1>3, <2>3 DEF AddDestination, Message, ControlType
  <2>6. FlagType'
    BY <1>3, <2>3 DEF AddDestination, FlagType
  <2>7. QED
    BY <2>4, <2>5, <2>6
<1>4. CASE Recalculate
  <2>1. RouteType'
    BY <1>4 DEF Recalculate, StartOver, RouteType, FlagType
  <2>2. ControlType'
    BY <1>4 DEF Recalculate, Message, StartOver, ControlType, Statuses
  <2>3. FlagType'
    BY <1>4 DEF Recalculate, StartOver, FlagType
  <2>4. QED
    BY <2>1, <2>2, <2>3
<1>5. CASE Refresh
  <2>1. CASE pos = "none"
    <3>1. RouteType'
      BY <1>5, <2>1 DEF Refresh, RouteType
    <3>2. ControlType'
      BY <1>5, <2>1 DEF Refresh, Message, ControlType
    <3>3. FlagType'
      BY <1>5, <2>1 DEF Refresh, FlagType
    <3>4. QED
      BY <3>1, <3>2, <3>3
  <2>2. CASE pos # "none"
    <3>1. PathUpdate("message") /\ "message" \in Callers
      BY <1>5, <2>2 DEF Refresh, Callers
    <3>2. /\ path' \in Seq(Legs)
          /\ graph' \in Graphs
          /\ status' \in Statuses
          /\ pc' \in Points
          /\ caller' \in Callers
          /\ newGraph' \in BOOLEAN
      BY <3>1, PathUpdateType
    <3>3. RouteType'
      BY <1>5, <3>2 DEF Refresh, RouteType
    <3>4. ControlType'
      BY <1>5, <3>2 DEF Refresh, Message, ControlType
    <3>5. FlagType'
      BY <1>5, <3>2 DEF Refresh, FlagType
    <3>6. QED
      BY <3>3, <3>4, <3>5
  <2>3. QED
    BY <2>1, <2>2
<1>6. ASSUME NEW d \in Dst, NEW found \in NearestFound,
            SetDestinationNoCalc(d, found)
     PROVE  TypeOK'
  <2>1. RouteType'
    BY <1>6 DEF SetDestinationNoCalc, RouteType
  <2>2. ControlType'
    BY <1>6 DEF SetDestinationNoCalc, Message, ControlType
  <2>3. FlagType'
    BY <1>6 DEF SetDestinationNoCalc, FlagType
  <2>4. QED
    BY <2>1, <2>2, <2>3
<1>7. ASSUME NEW d \in Dst, NEW found \in NearestFound,
            AddDestinationNoCalc(d, found)
     PROVE  TypeOK'
  <2>1. RouteType'
    BY <1>7 DEF AddDestinationNoCalc, RouteType
  <2>2. ControlType'
    BY <1>7 DEF AddDestinationNoCalc, Message, ControlType
  <2>3. FlagType'
    BY <1>7 DEF AddDestinationNoCalc, FlagType
  <2>4. QED
    BY <2>1, <2>2, <2>3
<1>8. CASE AfterDestinationStartCalc
  <2>1. dests \in Seq(Dst) /\ {"destination_set", status} \subseteq Statuses
    BY DEF RouteType, ControlType, Statuses
  <2>2. PICK s \in {"destination_set", status} : NewCalculation(dests, s)
    BY <1>8 DEF AfterDestinationStartCalc
  <2>3. /\ curDst' \in Dst \cup {Null, Freed}
        /\ path' \in Seq(Legs)
        /\ tryHarder' \in BOOLEAN
        /\ graph' \in Graphs
        /\ status' \in Statuses
    BY <2>1, <2>2, NewCalculationType
  <2>4. RouteType'
    BY <1>8, <2>3 DEF AfterDestinationStartCalc, RouteType
  <2>5. ControlType'
    BY <1>8, <2>3 DEF AfterDestinationStartCalc, Message, ControlType
  <2>6. FlagType'
    BY <1>8, <2>3 DEF AfterDestinationStartCalc, FlagType
  <2>7. QED
    BY <2>4, <2>5, <2>6
<1>9. ASSUME NEW p \in Fixes, VehicleUpdate(p) PROVE TypeOK'
  <2>1. p \in Matches
    OBVIOUS
  <2>2. CASE p = "none" \/ dests = <<>>
    <3>1. path' \in Seq(Legs)
      BY <1>9, <2>2 DEF VehicleUpdate, RouteType
    <3>2. RouteType'
      BY <1>9, <2>1, <2>2, <3>1 DEF VehicleUpdate, RouteType
    <3>3. ControlType'
      BY <1>9, <2>2 DEF VehicleUpdate, ControlType
    <3>4. FlagType'
      BY <1>9, <2>2 DEF VehicleUpdate, FlagType
    <3>5. QED
      BY <3>2, <3>3, <3>4
  <2>3. CASE ~(p = "none" \/ dests = <<>>)
    <3>1. PathUpdate("vehicle") /\ "vehicle" \in Callers
      BY <1>9, <2>3 DEF VehicleUpdate, Callers
    <3>2. /\ path' \in Seq(Legs)
          /\ graph' \in Graphs
          /\ status' \in Statuses
          /\ pc' \in Points
          /\ caller' \in Callers
          /\ newGraph' \in BOOLEAN
      BY <3>1, PathUpdateType
    <3>3. RouteType'
      BY <1>9, <2>1, <3>2 DEF VehicleUpdate, RouteType
    <3>4. ControlType'
      BY <1>9, <3>2 DEF VehicleUpdate, ControlType
    <3>5. FlagType'
      BY <1>9, <3>2 DEF VehicleUpdate, FlagType
    <3>6. QED
      BY <3>3, <3>4, <3>5
  <2>4. QED
    BY <2>2, <2>3
<1>10. CASE GraphBuilt
  <2>1. RouteType'
    <3>1. CASE ~CanFlood(graph, curDst)
      BY <1>10, <3>1 DEF GraphBuilt, Crash, route, RouteType
    <3>2. CASE CanFlood(graph, curDst)
      <4>1. graph' = [graph EXCEPT !.building = FALSE, !.target = curDst]
        BY <1>10, <3>2 DEF GraphBuilt
      <4>2. curDst \in Dst
        BY <3>2 DEF CanFlood
      <4>3. graph' \in Graphs
        BY <4>1, <4>2 DEF RouteType, Graphs
      <4>4. QED
        BY <1>10, <3>2, <4>3 DEF GraphBuilt, RouteType
    <3>3. QED
      BY <3>1, <3>2
  <2>2. ControlType'
    BY <1>10 DEF GraphBuilt, Crash, route, ControlType, Points, Callers
  <2>3. FlagType'
    BY <1>10 DEF GraphBuilt, Crash, route, FlagType
  <2>4. QED
    BY <2>1, <2>2, <2>3
<1>11. CASE UseOfDeadDestination
  <2>1. RouteType'
    BY <1>11 DEF UseOfDeadDestination, Crash, route, RouteType
  <2>2. ControlType'
    BY <1>11 DEF UseOfDeadDestination, Crash, route, ControlType, Points
  <2>3. FlagType'
    BY <1>11 DEF UseOfDeadDestination, Crash, route, FlagType
  <2>4. QED
    BY <2>1, <2>2, <2>3
<1>12. CASE LegToWaypoint
  <2>1. PreviousDestination \in Dst
    BY <1>12, PreviousDestinationType DEF LegToWaypoint, RouteType
  <2>2. NewPath(PreviousDestination) \in Seq(Legs)
    BY <1>12, <2>1, NewPathType DEF LegToWaypoint, RouteType
  <2>3. RouteType'
    BY <1>12, <2>1, <2>2 DEF LegToWaypoint, Crash, route, RouteType, Graphs
  <2>4. ControlType'
    BY <1>12, <2>1, <2>2
       DEF LegToWaypoint, Crash, route, ControlType, Statuses, Points
  <2>5. FlagType'
    BY <1>12, <2>1, <2>2 DEF LegToWaypoint, Crash, route, FlagType
  <2>6. QED
    BY <2>3, <2>4, <2>5
<1>13. CASE LegToVehicle
  <2>1. NewPath(Vehicle) \in Seq(Legs)
    BY <1>13, NewPathType DEF LegToVehicle, RouteType
  <2>2. ReturnPoint \in Points
    BY ReturnPointType DEF ControlType, Points
  <2>3. RouteType'
    BY <1>13, <2>1, <2>2 DEF LegToVehicle, RouteType
  <2>4. ControlType'
    BY <1>13, <2>1, <2>2 DEF LegToVehicle, ControlType, Statuses, Done
  <2>5. FlagType'
    BY <1>13, <2>1, <2>2 DEF LegToVehicle, FlagType
  <2>6. QED
    BY <2>3, <2>4, <2>5
<1>14. CASE TryHarder
  <2>1. ReturnPoint \in Points
    BY ReturnPointType DEF ControlType, Points
  <2>2. RouteType'
    <3>1. graph' \in Graphs
      BY <1>14, GraphTypes DEF TryHarder
    <3>2. path' = <<>> /\ UNCHANGED <<pos, dests, curDst>>
      BY <1>14 DEF TryHarder
    <3>3. QED
      BY <3>1, <3>2 DEF RouteType
  <2>3. ControlType'
    BY <1>14, <2>1 DEF TryHarder, ControlType, Statuses
  <2>4. FlagType'
    BY <1>14, <2>1 DEF TryHarder, FlagType
  <2>5. QED
    BY <2>2, <2>3, <2>4
<1>15. CASE NotFound
  <2>1. ReturnPoint \in Points
    BY ReturnPointType DEF ControlType, Points
  <2>2. RouteType'
    BY <1>15, <2>1 DEF NotFound, RouteType
  <2>3. ControlType'
    BY <1>15, <2>1 DEF NotFound, ControlType, Statuses
  <2>4. FlagType'
    BY <1>15, <2>1 DEF NotFound, FlagType
  <2>5. QED
    BY <2>2, <2>3, <2>4
<1>16. CASE PathUpdateEnd
  <2>1. RouteType'
    BY <1>16 DEF PathUpdateEnd, RouteType, FlagType
  <2>2. ControlType'
    BY <1>16 DEF PathUpdateEnd, ControlType, Statuses, Points
  <2>3. FlagType'
    BY <1>16 DEF PathUpdateEnd, FlagType
  <2>4. QED
    BY <2>1, <2>2, <2>3
<1>17. CASE BuildDone
  <2>1. RouteType'
    <3>1. PICK b \in BOOLEAN : graph' = [graph EXCEPT !.busy = b]
      BY <1>17 DEF BuildDone
    <3>2. graph' \in Graphs
      <4>1. graph \in Graphs
        BY DEF RouteType
      <4>2. QED
        BY <3>1, <4>1 DEF Graphs
    <3>3. QED
      BY <1>17, <3>2 DEF BuildDone, RouteType
  <2>2. ControlType'
    BY <1>17 DEF BuildDone, ControlType, Points
  <2>3. FlagType'
    BY <1>17 DEF BuildDone, FlagType
  <2>4. QED
    BY <2>1, <2>2, <2>3
<1>18. CASE NothingReached
  <2>1. RouteType'
    BY <1>18 DEF NothingReached, route, RouteType
  <2>2. ControlType'
    BY <1>18 DEF NothingReached, route, ControlType, Points
  <2>3. FlagType'
    BY <1>18 DEF NothingReached, route, FlagType
  <2>4. QED
    BY <2>1, <2>2, <2>3
<1>19. CASE WaypointReached
  <2>1. dests[2] \in Dst /\ Tail(dests) \in Seq(Dst)
    BY <1>19 DEF WaypointReached, RouteType
  <2>2. Tail(path) \in Seq(Legs)
    BY <1>19 DEF WaypointReached, MayReach, RouteType
  <2>3. RouteType'
    <3>1. CASE ~CanFlood(graph, dests[2])
      BY <1>19, <3>1 DEF WaypointReached, Crash, route, RouteType
    <3>2. CASE CanFlood(graph, dests[2])
      <4>1. graph' = [graph EXCEPT !.target = dests[2]]
        BY <1>19, <3>2 DEF WaypointReached
      <4>2. graph' \in Graphs
        BY <4>1, <2>1 DEF RouteType, Graphs
      <4>3. QED
        BY <1>19, <3>2, <4>2, <2>1, <2>2 DEF WaypointReached, RouteType
    <3>3. QED
      BY <3>1, <3>2
  <2>4. ControlType'
    BY <1>19, <2>1, <2>2
       DEF WaypointReached, Crash, route, ControlType, Points, Callers
  <2>5. FlagType'
    BY <1>19, <2>1, <2>2 DEF WaypointReached, Crash, route, FlagType
  <2>6. QED
    BY <2>3, <2>4, <2>5
<1>20. CASE DestinationReached
  <2>1. <<>> \in Seq(Dst) /\ "no_destination" \in Statuses
    BY DEF Statuses
  <2>2. NewCalculation(<<>>, "no_destination")
    BY <1>20 DEF DestinationReached
  <2>3. /\ curDst' \in Dst \cup {Null, Freed}
        /\ path' \in Seq(Legs)
        /\ tryHarder' \in BOOLEAN
        /\ graph' \in Graphs
        /\ status' \in Statuses
    BY <2>1, <2>2, NewCalculationType
  <2>4. dests' \in Seq(Dst)
    BY <1>20, <2>1 DEF DestinationReached, RouteType
  <2>5. RouteType'
    BY <1>20, <2>3, <2>4 DEF DestinationReached, RouteType
  <2>6. ControlType'
    BY <1>20, <2>3 DEF DestinationReached, Points, ControlType
  <2>7. FlagType'
    BY <1>20, <2>3 DEF DestinationReached, FlagType
  <2>8. QED
    BY <2>5, <2>6, <2>7
<1>21. CASE UNCHANGED vars
  <2>1. RouteType'
    BY <1>21 DEF vars, RouteType
  <2>2. ControlType'
    BY <1>21 DEF vars, ControlType
  <2>3. FlagType'
    BY <1>21 DEF vars, FlagType
  <2>4. QED
    BY <2>1, <2>2, <2>3
<1>22. QED
  BY <1>1, <1>2, <1>3, <1>4, <1>5, <1>6, <1>7, <1>8, <1>9, <1>10, <1>11, <1>12, <1>13, <1>14, <1>15, <1>16, <1>17, <1>18, <1>19, <1>20, <1>21
     DEF Next, UserMessage, Continue

(* Every variable stays in its type, whatever the messages and positions.   *)
THEOREM TypeCorrect == Spec => []TypeOK
BY TypeInit, TypeStep, PTL DEF Spec
=============================================================================
