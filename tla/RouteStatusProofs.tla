------------------------- MODULE RouteStatusProofs -------------------------
(***************************************************************************)
(* What the status of the route tells, and the flag that guards a graph    *)
(* whose idle callback is still pending.                                   *)
(***************************************************************************)
EXTENDS RouteSafetyProofs

(* Every destination that is added has a street near it. *)
AlwaysFound == NearestFound \subseteq {TRUE}

(* Outside the computation of a leg, "done" and the path agree.             *)
StatusInv == pc # "update_done" => (status \in Done <=> path # <<>>)

-----------------------------------------------------------------------------
(* The statuses that announce something else than a path. *)
LEMMA NotDone ==
  /\ "no_destination" \notin Done /\ "destination_set" \notin Done
  /\ "not_found" \notin Done /\ "building_path" \notin Done
  /\ "building_graph" \notin Done
BY DEF Done

(* A path that is dropped is no longer announced as done. *)
LEMMA StartOverStatus ==
  ASSUME NEW ds, NEW harder, NEW g, NEW s, StartOver(ds, harder, g, s),
         pos = "none" \/ ds = <<>> => s \notin Done
  PROVE  StatusInv'
<1>1. path' = <<>> /\ status' \in {s, "building_graph"}
  BY DEF StartOver
<1>2. CASE pos = "none" \/ ds = <<>>
  BY <1>1, <1>2, NotDone DEF StatusInv
<1>3. CASE ~(pos = "none" \/ ds = <<>>)
  <2>1. status' = "building_graph"
    BY <1>3 DEF StartOver
  <2>2. QED
    BY <1>1, <2>1, NotDone DEF StatusInv
<1>4. QED
  BY <1>2, <1>3

(* route_path_update drops the path together with its status. *)
LEMMA PathUpdateStatus ==
  ASSUME StatusInv, pc = "worker", NEW job, PathUpdate(job)
  PROVE  StatusInv'
<1>1. CASE ~graph.live
  <2>1. path' = <<>> /\ status' = "building_graph"
    BY <1>1 DEF PathUpdate
  <2>2. QED
    BY <2>1, NotDone DEF StatusInv
<1>2. CASE graph.live
  <2>1. UNCHANGED <<path, status>>
    BY <1>2 DEF PathUpdate
  <2>2. QED
    BY <2>1 DEF StatusInv
<1>3. QED
  BY <1>1, <1>2

(* Every action keeps status and path in agreement. *)
LEMMA StatusStep ==
  ASSUME OnRoad, Offline, NoReuse, AlwaysFound
  PROVE  IInv /\ StatusInv /\ [Next]_vars => StatusInv'
<1> SUFFICES ASSUME IInv, StatusInv, [Next]_vars PROVE StatusInv'
  OBVIOUS
<1> dests \in Seq(Dst) /\ path \in Seq(Legs)
  BY DEF IInv, TypeOK, RouteType
<1>0. pos = "none" \/ dests = <<>> => path = <<>>
  BY DEF IInv, GraphInv
<1>1. ASSUME NEW ds \in Requests, SetDestinations(ds) PROVE StatusInv'
  BY <1>1, NotDone, StartOverStatus DEF SetDestinations, NewCalculation
<1>2. CASE ClearDestinations
  BY <1>2, NotDone, StartOverStatus DEF ClearDestinations, NewCalculation
<1>3. ASSUME NEW d \in Dst, NEW found \in NearestFound, AddDestination(d, found)
     PROVE  StatusInv'
  <2>1. found = TRUE
    BY DEF AlwaysFound
  <2>2. StartOver(dests', FALSE, NoGraph, "destination_set")
    BY <1>3, <2>1 DEF AddDestination, NewCalculation
  <2>3. QED
    BY <2>2, NotDone, StartOverStatus
<1>4. CASE Recalculate
  <2>1. pos = "none" \/ dests = <<>> => status \notin Done
    BY <1>0, <1>4 DEF StatusInv, Recalculate, Message
  <2>2. QED
    BY <1>4, <2>1, StartOverStatus DEF Recalculate
<1>5. CASE Refresh
  <2>1. CASE pos = "none"
    <3>1. path = <<>> /\ path' = <<>> /\ status' = status /\ pc = "worker"
      BY <1>0, <1>5, <2>1 DEF Refresh, Message
    <3>2. QED
      BY <3>1 DEF StatusInv
  <2>2. CASE pos # "none"
    BY <1>5, <2>2, PathUpdateStatus DEF Refresh, Message
  <2>3. QED
    BY <2>1, <2>2
<1>6. ASSUME NEW d \in Dst, NEW found \in NearestFound,
            \/ SetDestinationNoCalc(d, found)
            \/ AddDestinationNoCalc(d, found)
     PROVE  FALSE
  BY <1>6 DEF SetDestinationNoCalc, AddDestinationNoCalc, Message, Offline
<1>7. CASE AfterDestinationStartCalc
  BY <1>7 DEF AfterDestinationStartCalc, Message, Offline
<1>8. ASSUME NEW p \in Fixes, VehicleUpdate(p) PROVE StatusInv'
  <2>1. CASE p = "none" \/ dests = <<>>
    <3>1. p = "street"
      BY DEF OnRoad
    <3>2. path = <<>>
      BY <1>0, <2>1, <3>1
    <3>3. path' = <<>> /\ UNCHANGED <<status, pc>>
      BY <1>8, <2>1, <3>2 DEF VehicleUpdate
    <3>4. QED
      BY <3>2, <3>3 DEF StatusInv
  <2>2. CASE ~(p = "none" \/ dests = <<>>)
    BY <1>8, <2>2, PathUpdateStatus DEF VehicleUpdate
  <2>3. QED
    BY <2>1, <2>2
<1>9. CASE GraphBuilt
  <2>1. pc' = "update_done" \/ Crash
    BY <1>9 DEF GraphBuilt
  <2>2. pc = "worker"
    BY <1>9 DEF GraphBuilt
  <2>3. QED
    BY <2>1, <2>2 DEF Crash, route, StatusInv
<1>10. CASE UseOfDeadDestination
  <2>1. pc' = "crashed"
    BY <1>10 DEF UseOfDeadDestination, Crash
  <2>2. NoCrash'
    BY IInvStep DEF IInv
  <2>3. QED
    BY <2>1, <2>2 DEF NoCrash
<1>11. CASE LegToWaypoint
  <2>1. NoCrash'
    BY IInvStep DEF IInv
  <2>2. pc' = "update_done"
    BY <1>11, <2>1 DEF LegToWaypoint, Crash, NoCrash
  <2>3. QED
    BY <2>2 DEF StatusInv
<1>12. CASE LegToVehicle
  <2>1. status' \in Done
    BY <1>12 DEF LegToVehicle, Done
  <2>2. path' # <<>>
    BY <1>12, LegToVehicleChain
       DEF LegToVehicle, IInv, GraphInv
  <2>3. QED
    BY <2>1, <2>2 DEF StatusInv
<1>13. CASE TryHarder
  BY <1>13, NotDone DEF TryHarder, StatusInv
<1>14. CASE NotFound
  BY <1>14, NotDone DEF NotFound, StatusInv
<1>15. CASE PathUpdateEnd
  <2>1. CASE path = <<>>
    BY <1>15, <2>1, NotDone DEF PathUpdateEnd, StatusInv
  <2>2. CASE path # <<>>
    BY <1>15, <2>2 DEF PathUpdateEnd, StatusInv
  <2>3. QED
    BY <2>1, <2>2
<1>16. CASE BuildDone
  BY <1>16 DEF BuildDone, StatusInv
<1>17. CASE NothingReached
  BY <1>17 DEF NothingReached, route, StatusInv
<1>18. CASE WaypointReached
  <2>1. NoCrash'
    BY IInvStep DEF IInv
  <2>2. pc' = "update_done"
    BY <1>18, <2>1 DEF WaypointReached, Crash, NoCrash
  <2>3. QED
    BY <2>2 DEF StatusInv
<1>19. CASE DestinationReached
  BY <1>19, NotDone, StartOverStatus DEF DestinationReached, NewCalculation
<1>20. CASE UNCHANGED vars
  BY <1>20 DEF vars, StatusInv
<1>21. QED
  BY <1>1, <1>2, <1>3, <1>4, <1>5, <1>6, <1>7, <1>8, <1>9, <1>10, <1>11,
     <1>12, <1>13, <1>14, <1>15, <1>16, <1>17, <1>18, <1>19, <1>20
     DEF Next, UserMessage, Continue

(* Between two jobs the status that navigation and the user interface see   *)
(* says "done" exactly when there is a path to follow.                      *)
THEOREM StatusAlwaysTellsPath ==
  ASSUME OnRoad, Offline, NoReuse, AlwaysFound
  PROVE  Spec => []StatusTellsPath
<1>1. Init => StatusInv
  BY NotDone DEF Init, StatusInv
<1>2. IInv /\ StatusInv /\ [Next]_vars => StatusInv'
  BY StatusStep
<1>3. StatusInv => StatusTellsPath
  BY DEF StatusInv, StatusTellsPath
<1>4. QED
  BY <1>1, <1>2, <1>3, Invariance, PTL DEF Spec

-----------------------------------------------------------------------------
(* While the idle callback of a graph is pending the graph is busy, whatever *)
(* positions and messages arrive, as long as the memory of the graph that a  *)
(* second attempt freed is not handed out again.                             *)
THEOREM BusyAlwaysWhileBuilding ==
  ASSUME NoReuse
  PROVE  Spec => []BusyWhileBuilding
<1>1. Init => BusyWhileBuilding
  BY DEF Init, NoGraph, BusyWhileBuilding
<1>2. TypeOK /\ BusyWhileBuilding /\ [Next]_vars => BusyWhileBuilding'
  <2> SUFFICES ASSUME TypeOK, BusyWhileBuilding, [Next]_vars
               PROVE  BusyWhileBuilding'
    OBVIOUS
  <2>0. /\ ~NoGraph.building
        /\ \A h : GraphBeingBuilt(h).busy
    BY DEF NoGraph, GraphBeingBuilt
  <2>1. graph \in Graphs
    BY DEF TypeOK, RouteType
  <2>2. CASE graph' = graph
    BY <2>2 DEF BusyWhileBuilding
  <2>3. CASE \E h : graph' = GraphBeingBuilt(h)
    BY <2>0, <2>3 DEF BusyWhileBuilding
  <2>4. CASE graph' = NoGraph
    BY <2>0, <2>4 DEF BusyWhileBuilding
  <2>5. CASE \E t : graph' = [graph EXCEPT !.target = t]
    BY <2>1, <2>5 DEF BusyWhileBuilding, Graphs
  <2>6. CASE GraphBuilt
    <3>1. \/ graph' = graph
          \/ graph' = [graph EXCEPT !.building = FALSE, !.target = curDst]
      BY <2>6 DEF GraphBuilt, Crash, route
    <3>2. QED
      BY <2>1, <2>2, <3>1 DEF BusyWhileBuilding, Graphs
  <2>7. CASE BuildDone
    <3>1. CASE ~graph.building
      <4>1. graph' = [graph EXCEPT !.busy = FALSE]
        BY <2>7, <3>1 DEF BuildDone
      <4>2. QED
        BY <2>1, <3>1, <4>1 DEF BusyWhileBuilding, Graphs
    <3>2. CASE graph.building
      <4>1. PICK reused \in Reuse : graph' = [graph EXCEPT !.busy = ~reused]
        BY <2>7, <3>2 DEF BuildDone
      <4>2. ~reused
        BY DEF NoReuse
      <4>3. graph' = [graph EXCEPT !.busy = TRUE]
        BY <4>1, <4>2
      <4>4. QED
        BY <2>1, <4>3 DEF BusyWhileBuilding, Graphs
    <3>3. QED
      BY <3>1, <3>2
  <2> DEFINE Kept == graph' = graph
             Begun == \E h : graph' = GraphBeingBuilt(h)
             Gone == graph' = NoGraph
             Flooded == \E t : graph' = [graph EXCEPT !.target = t]
  <2>8. ASSUME NEW ds, NEW h, NEW g, NEW s, StartOver(ds, h, g, s)
       PROVE  graph' = g \/ Begun
    BY <2>8 DEF StartOver
  <2>9. ASSUME NEW ds, NEW s, NewCalculation(ds, s)
       PROVE  Gone \/ Begun
    BY <2>8, <2>9 DEF NewCalculation
  <2>10. ASSUME NEW job, PathUpdate(job)
        PROVE  Kept \/ Begun
    BY <2>10 DEF PathUpdate
  <2>11. CASE UserMessage
    <3>1. ASSUME NEW ds \in Requests, SetDestinations(ds) PROVE Gone \/ Begun
      <4>1. NewCalculation(ds, "destination_set")
        BY <3>1 DEF SetDestinations
      <4>2. QED
        BY <2>9, <4>1
    <3>2. ASSUME ClearDestinations PROVE Gone \/ Begun
      <4>1. NewCalculation(<<>>, "no_destination")
        BY <3>2 DEF ClearDestinations
      <4>2. QED
        BY <2>9, <4>1
    <3>3. ASSUME NEW d \in Dst, NEW found \in NearestFound,
                 AddDestination(d, found)
         PROVE  Gone \/ Begun
      <4>1. PICK s : NewCalculation(dests', s)
        BY <3>3 DEF AddDestination
      <4>2. QED
        BY <2>9, <4>1
    <3>4. ASSUME Recalculate PROVE Kept \/ Begun
      <4>1. StartOver(dests, tryHarder, graph, status)
        BY <3>4 DEF Recalculate
      <4>2. QED
        BY <2>8, <4>1
    <3>5. ASSUME Refresh PROVE Kept \/ Begun
      <4>1. CASE pos = "none"
        BY <3>5, <4>1 DEF Refresh
      <4>2. CASE pos # "none"
        <5>1. PathUpdate("message")
          BY <3>5, <4>2 DEF Refresh
        <5>2. QED
          BY <2>10, <5>1
      <4>3. QED
        BY <4>1, <4>2
    <3>6. ASSUME NEW d \in Dst, NEW found \in NearestFound,
                 \/ SetDestinationNoCalc(d, found)
                 \/ AddDestinationNoCalc(d, found)
         PROVE  Kept
      BY <3>6 DEF SetDestinationNoCalc, AddDestinationNoCalc
    <3>7. ASSUME AfterDestinationStartCalc PROVE Gone \/ Begun
      <4>1. PICK s \in {"destination_set", status} : NewCalculation(dests, s)
        BY <3>7 DEF AfterDestinationStartCalc
      <4>2. QED
        BY <2>9, <4>1
    <3> HIDE DEF Kept, Begun, Gone
    <3>8. Kept \/ Begun \/ Gone
      BY <2>11, <3>1, <3>2, <3>3, <3>4, <3>5, <3>6, <3>7 DEF UserMessage
    <3>9. QED
      BY <2>2, <2>3, <2>4, <3>8 DEF Kept, Begun, Gone
  <2>12. ASSUME NEW p \in Fixes, VehicleUpdate(p) PROVE Kept \/ Begun
    BY <2>10, <2>12 DEF VehicleUpdate
  <2>13. CASE UseOfDeadDestination \/ LegToVehicle \/ NotFound \/ NothingReached
    BY <2>2, <2>13 DEF UseOfDeadDestination, Crash, route, LegToVehicle,
                       NotFound, NothingReached
  <2>14. CASE LegToWaypoint \/ WaypointReached
    BY <2>2, <2>5, <2>14 DEF LegToWaypoint, WaypointReached, Crash, route
  <2>15. CASE TryHarder
    BY <2>3, <2>15 DEF TryHarder
  <2>16. CASE PathUpdateEnd
    BY <2>2, <2>3, <2>16 DEF PathUpdateEnd
  <2>17. CASE DestinationReached
    BY <2>3, <2>4, <2>9, <2>17 DEF DestinationReached
  <2>18. CASE UNCHANGED vars
    BY <2>2, <2>18 DEF vars
  <2>19. QED
    BY <2>2, <2>3, <2>6, <2>7, <2>11, <2>12, <2>13, <2>14, <2>15, <2>16,
       <2>17, <2>18 DEF Next, Continue
<1>3. QED
  BY <1>1, <1>2, TypeCorrect, PTL DEF Spec

-----------------------------------------------------------------------------
(* A leg is computed from a finished graph; a graph that is finished was    *)
(* flooded from current_dst, one that lives has the roads that try_harder   *)
(* asks for, and there is no path while one is being built.                 *)
SearchInv ==
  /\ pc = "update_done" => graph.live /\ ~graph.building
  /\ graph.live /\ tryHarder => graph.harder
  /\ graph.live /\ ~graph.building /\ curDst \in Dst => graph.target = curDst
  /\ graph.building => path = <<>>

LEMMA StartOverSearch ==
  ASSUME NEW ds, NEW harder \in BOOLEAN, NEW g, NEW s, StartOver(ds, harder, g, s),
         g.live => graph = g /\ SearchInv /\ (harder => tryHarder) /\ curDst' = curDst,
         g.building => g.live,
         pc' # "update_done"
  PROVE  SearchInv'
<1>1. path' = <<>> /\ tryHarder' = harder
  BY DEF StartOver
<1>2. CASE graph' = GraphBeingBuilt(harder)
  BY <1>1, <1>2 DEF GraphBeingBuilt, SearchInv
<1>3. CASE graph' = g
  BY <1>1, <1>3 DEF SearchInv
<1> QED
  BY <1>2, <1>3 DEF StartOver

LEMMA NewCalculationSearch ==
  ASSUME NEW ds, NEW s, NewCalculation(ds, s), pc' # "update_done"
  PROVE  SearchInv'
<1>1. ~NoGraph.live /\ ~NoGraph.building
  BY DEF NoGraph
<1>2. StartOver(ds, FALSE, NoGraph, s)
  BY DEF NewCalculation
<1> QED
  BY <1>1, <1>2, StartOverSearch

LEMMA PathUpdateSearch ==
  ASSUME TypeOK, BusyWhileBuilding, SearchInv, pc = "worker", NEW job, PathUpdate(job),
         UNCHANGED <<curDst, tryHarder>>
  PROVE  SearchInv'
<1>1. CASE ~graph.live
  <2>1. path' = <<>> /\ graph' = GraphBeingBuilt(tryHarder) /\ pc' = "worker"
    BY <1>1 DEF PathUpdate
  <2>2. graph'.live /\ graph'.building /\ graph'.harder = tryHarder
    BY <2>1 DEF GraphBeingBuilt
  <2> QED
    BY <2>1, <2>2 DEF SearchInv
<1>2. CASE graph.live /\ graph.busy
  <2>1. pc' # "update_done" /\ UNCHANGED <<path, graph>>
    BY <1>2 DEF PathUpdate
  <2> QED
    BY <2>1 DEF SearchInv
<1>3. CASE graph.live /\ ~graph.busy
  BY <1>3 DEF PathUpdate, SearchInv, BusyWhileBuilding
<1> QED
  BY <1>1, <1>2, <1>3

LEMMA MessageSearch ==
  ASSUME TypeOK, BusyWhileBuilding, SearchInv, UserMessage
  PROVE  SearchInv'
<1>0. tryHarder \in BOOLEAN /\ Freed \notin Dst
  BY RouteAssumption DEF TypeOK, FlagType
<1>1. ASSUME NEW ds \in Requests, SetDestinations(ds)
      PROVE  SearchInv'
  BY <1>1, NewCalculationSearch DEF SetDestinations, Message
<1>2. CASE ClearDestinations
  BY <1>2, NewCalculationSearch DEF ClearDestinations, Message
<1>3. ASSUME NEW d \in Dst, NEW found \in NearestFound, AddDestination(d, found)
      PROVE  SearchInv'
  BY <1>3, NewCalculationSearch DEF AddDestination, Message
<1>4. CASE Recalculate
  <2>1. StartOver(dests, tryHarder, graph, status) /\ pc' = "worker" /\ curDst' = curDst
    BY <1>4 DEF Recalculate, Message
  <2>2. path' = <<>> /\ tryHarder' = tryHarder
        /\ graph' \in {graph, GraphBeingBuilt(tryHarder)}
    BY <2>1 DEF StartOver
  <2> QED
    BY <2>1, <2>2 DEF SearchInv, GraphBeingBuilt
<1>5. CASE Refresh
  <2>1. CASE pos = "none"
    BY <1>5, <2>1 DEF Refresh, Message, SearchInv
  <2>2. CASE pos # "none"
    BY <1>5, <2>2, PathUpdateSearch DEF Refresh, Message
  <2> QED
    BY <2>1, <2>2
<1>6. ASSUME NEW d \in Dst, NEW found \in NearestFound, SetDestinationNoCalc(d, found)
      PROVE  SearchInv'
  BY <1>0, <1>6 DEF SetDestinationNoCalc, Message, SearchInv
<1>7. ASSUME NEW d \in Dst, NEW found \in NearestFound, AddDestinationNoCalc(d, found)
      PROVE  SearchInv'
  BY <1>7 DEF AddDestinationNoCalc, Message, SearchInv
<1>8. CASE AfterDestinationStartCalc
  BY <1>8, NewCalculationSearch DEF AfterDestinationStartCalc, Message
<1> QED
  BY <1>1, <1>2, <1>3, <1>4, <1>5, <1>6, <1>7, <1>8 DEF UserMessage

LEMMA SearchStep == TypeOK /\ BusyWhileBuilding /\ SearchInv /\ [Next]_vars => SearchInv'
<1> SUFFICES ASSUME TypeOK, BusyWhileBuilding, SearchInv, [Next]_vars
             PROVE  SearchInv'
  OBVIOUS
<1>0. /\ graph \in Graphs /\ ReturnPoint # "update_done"
  BY DEF TypeOK, RouteType, ControlType, Callers, ReturnPoint
<1>1. ASSUME NEW p \in Fixes, VehicleUpdate(p)
      PROVE  SearchInv'
  <2>1. CASE p = "none" \/ dests = <<>>
    <3>1. path' \in {path, <<>>} /\ UNCHANGED <<graph, pc, curDst, tryHarder>>
      BY <1>1, <2>1 DEF VehicleUpdate
    <3> QED
      BY <3>1 DEF SearchInv
  <2>2. CASE ~(p = "none" \/ dests = <<>>)
    BY <1>1, <2>2, PathUpdateSearch DEF VehicleUpdate
  <2> QED
    BY <2>1, <2>2
<1>2. ASSUME Crash
      PROVE  SearchInv'
  BY <1>2 DEF Crash, route, SearchInv
<1>3. CASE GraphBuilt
  <2>1. CASE ~CanFlood(graph, curDst)
    BY <1>2, <1>3, <2>1 DEF GraphBuilt
  <2>2. CASE CanFlood(graph, curDst)
    <3>1. graph' = [graph EXCEPT !.building = FALSE, !.target = curDst] /\ graph.live
          /\ UNCHANGED <<curDst, tryHarder, path>>
      BY <1>3, <2>2 DEF GraphBuilt, CanFlood
    <3> QED
      BY <1>0, <3>1 DEF SearchInv, Graphs
  <2> QED
    BY <2>1, <2>2
<1>4. CASE LegToWaypoint
  <2>1. CASE ~CanFlood(graph, PreviousDestination)
    BY <1>2, <1>4, <2>1 DEF LegToWaypoint
  <2>2. CASE CanFlood(graph, PreviousDestination)
    <3>1. graph' = [graph EXCEPT !.target = PreviousDestination]
          /\ curDst' = PreviousDestination /\ UNCHANGED <<tryHarder, pc>>
          /\ graph.live /\ ~graph.building
      BY <1>4, <2>2 DEF LegToWaypoint, SearchInv
    <3> QED
      BY <1>0, <3>1 DEF SearchInv, Graphs
  <2> QED
    BY <2>1, <2>2
<1>5. CASE WaypointReached
  <2>1. CASE ~CanFlood(graph, dests[2])
    BY <1>2, <1>5, <2>1 DEF WaypointReached
  <2>2. CASE CanFlood(graph, dests[2])
    <3>1. graph' = [graph EXCEPT !.target = dests[2]]
          /\ curDst' = dests[2] /\ UNCHANGED tryHarder
          /\ graph.live /\ ~graph.building
      BY <1>5, <2>2 DEF WaypointReached, CanFlood, MayReach, SearchInv
    <3> QED
      BY <1>0, <3>1 DEF SearchInv, Graphs
  <2> QED
    BY <2>1, <2>2
<1>6. CASE BuildDone
  <2>1. \E b : graph' = [graph EXCEPT !.busy = b]
    BY <1>6 DEF BuildDone
  <2>2. pc' = "worker" /\ UNCHANGED <<curDst, tryHarder, path>>
    BY <1>6 DEF BuildDone
  <2> QED
    BY <1>0, <2>1, <2>2 DEF SearchInv, Graphs
<1>7. CASE LegToVehicle
  BY <1>0, <1>7 DEF LegToVehicle, SearchInv
<1>8. CASE TryHarder
  BY <1>0, <1>8 DEF TryHarder, SearchInv, GraphBeingBuilt
<1>9. CASE NotFound
  BY <1>0, <1>9 DEF NotFound, SearchInv
<1>10. CASE PathUpdateEnd
  <2>1. pc' # "update_done" /\ UNCHANGED <<curDst, tryHarder, path>>
    BY <1>10 DEF PathUpdateEnd
  <2>2. CASE path = <<>>
    BY <1>10, <2>1, <2>2 DEF PathUpdateEnd, SearchInv, GraphBeingBuilt
  <2>3. CASE path # <<>>
    BY <1>10, <2>1, <2>3 DEF PathUpdateEnd, SearchInv
  <2> QED
    BY <2>2, <2>3
<1>11. CASE DestinationReached
  BY <1>11, NewCalculationSearch DEF DestinationReached
<1>12. CASE NothingReached
  BY <1>12 DEF NothingReached, route, SearchInv
<1>13. CASE UNCHANGED vars
  BY <1>13 DEF vars, SearchInv
<1> QED
  BY <1>1, <1>2, <1>3, <1>4, <1>5, <1>6, <1>7, <1>8, <1>9, <1>10, <1>11, <1>12, <1>13,
     MessageSearch DEF Next, Continue, UseOfDeadDestination

(* "Not found" is only announced after a finished graph with the smaller    *)
(* roads was searched from current_dst, whatever positions and messages     *)
(* arrive.                                                                  *)
THEOREM NotFoundAlwaysConclusive ==
  ASSUME NoReuse
  PROVE  Spec => NotFoundIsConclusive
<1>1. Init => SearchInv
  BY DEF Init, NoGraph, SearchInv
<1>2. SearchInv /\ [Next]_vars =>
        [(pc = "update_done" /\ pc' # "crashed" /\ status' = "not_found") =>
           graph.harder /\ ~graph.building /\ graph.target = curDst]_vars
  <2> SUFFICES ASSUME SearchInv, Next, pc = "update_done", pc' # "crashed",
                      status' = "not_found"
               PROVE  graph.harder /\ ~graph.building /\ graph.target = curDst
    OBVIOUS
  <2>1. NotFound
    <3>1. LegToWaypoint \/ LegToVehicle \/ TryHarder \/ NotFound
      BY DEF Next, UserMessage, Continue, SetDestinations, ClearDestinations,
             AddDestination, Recalculate, Refresh, SetDestinationNoCalc,
             AddDestinationNoCalc, AfterDestinationStartCalc, Message, VehicleUpdate,
             GraphBuilt, UseOfDeadDestination, Crash, PathUpdateEnd, BuildDone,
             NothingReached, WaypointReached, DestinationReached
    <3> QED
      BY <3>1 DEF LegToWaypoint, Crash, LegToVehicle, TryHarder
  <2> QED
    BY <2>1 DEF NotFound, SearchInv
<1> QED
  BY <1>1, <1>2, SearchStep, TypeCorrect, BusyAlwaysWhileBuilding, PTL
     DEF Spec, NotFoundIsConclusive

-----------------------------------------------------------------------------
(* Only a driver on a street is refused a way, and only when none is known. *)
RefusedInv == status = "not_found" => pos = "street" /\ path = <<>>

LEMMA NotRefused ==
  /\ "not_found" \notin Done /\ "not_found" # "building_path"
  /\ "not_found" # "building_graph"
BY DEF Done

(* A path that is dropped, for new destinations or the same ones.           *)
LEMMA StartOverGuidance ==
  ASSUME IInv, RefusedInv, NEW ds \in Seq(Dst), NEW harder, NEW g, NEW s,
         StartOver(ds, harder, g, s), dests' = ds, pos' = pos, linkPath' = linkPath,
         ~linkPath, s # "not_found"
  PROVE  RefusedInv' /\ Guide!Plan
<1>1. path' = <<>> /\ status' # "not_found"
  BY NotRefused DEF StartOver
<1> QED
  BY <1>1 DEF RefusedInv, Guide!Plan

(* A leg completed keeps what is known, or answers.                         *)
LEMMA LegToVehicleGuidance ==
  ASSUME IInv, RefusedInv, LegToVehicle
  PROVE  RefusedInv' /\ [Guide!Next]_(Guide!vars)
<1> path \in Seq(Legs) /\ dests \in Seq(Dst)
  BY DEF IInv, TypeOK, RouteType
<1>1. dests # <<>> /\ pos = "street"
  BY DEF LegToVehicle, IInv, GraphInv
<1>2. path' # <<>> /\ Following' /\ ~linkPath' /\ UNCHANGED <<dests, pos>>
  BY <1>1, LegToVehicleChain DEF LegToVehicle
<1>3. status' # "not_found"
  BY NotRefused DEF LegToVehicle, Done
<1>4. RefusedInv'
  BY <1>3 DEF RefusedInv
<1>5. path' \in Seq(Legs)
  BY TypeStep DEF IInv, TypeOK, RouteType, Next, Continue
<1>6. Len(path') \in 1..Len(dests)
  BY <1>2, <1>5 DEF Following
<1>7. CASE linkPath \/ path = <<>>
  <2>1. (IF linkPath THEN 0 ELSE Len(path)) = 0
    BY <1>7
  <2>2. (IF linkPath THEN 0 ELSE Len(path))' = Len(path')
    BY <1>2
  <2>3. (status = "not_found")' = FALSE
    BY <1>3
  <2>4. Guide!Answer
    BY <1>1, <1>2, <1>6, <2>1, <2>2, <2>3 DEF Guide!Answer
  <2> QED
    BY <1>4, <2>4 DEF Guide!Next
<1>8. CASE ~linkPath /\ path # <<>>
  <2>1. path' = NewPath(Vehicle) /\ Vehicle \in Dst \cup {Vehicle} /\ curDst \in Dst
    BY DEF LegToVehicle
  <2>2. path' = <<[from |-> Vehicle, to |-> curDst]>> \o Tail(path)
    BY <1>8, <2>1 DEF NewPath
  <2>3. Len(path') = Len(path)
    BY <1>8, <2>2
  <2>4. status # "not_found"
    BY <1>8 DEF RefusedInv
  <2> QED
    <3>1. (IF linkPath THEN 0 ELSE Len(path))' = (IF linkPath THEN 0 ELSE Len(path))
      BY <1>2, <1>8, <2>3
    <3>2. (status = "not_found")' = (status = "not_found")
      BY <1>3, <2>4
    <3> QED
      BY <1>2, <1>4, <3>1, <3>2 DEF Guide!vars
<1> QED
  BY <1>4, <1>7, <1>8

(* An update of the path drops what is left of an old one, or waits.        *)
LEMMA PathUpdateGuidance ==
  ASSUME IInv, RefusedInv, pc = "worker", NEW job, PathUpdate(job),
         pos' \in {pos, "street"}, UNCHANGED <<dests, linkPath>>
  PROVE  RefusedInv' /\ [Guide!Next]_(Guide!vars)
<1>0. ~linkPath
  BY DEF IInv, ChainInv
<1>1. CASE ~graph.live
  <2>1. path = <<>> /\ path' = <<>> /\ status' = "building_graph"
    BY <1>1 DEF PathUpdate, IInv, GraphInv
  <2>2. status' # "not_found"
    BY <2>1, NotRefused
  <2>3. CASE pos' = pos
    BY <1>0, <2>1, <2>2, <2>3 DEF RefusedInv, Guide!Next, Guide!StartOver
  <2>4. CASE pos # "street"
    BY <1>0, <2>1, <2>2, <2>4 DEF RefusedInv, Guide!Next, Guide!Locate
  <2> QED
    BY <2>3, <2>4
<1>2. CASE graph.live
  <2>1. UNCHANGED <<path, status>> /\ pos' = pos
    BY <1>2 DEF PathUpdate, IInv, GraphInv
  <2> QED
    BY <2>1 DEF RefusedInv, Guide!vars
<1> QED
  BY <1>1, <1>2

LEMMA MessageGuidance ==
  ASSUME Offline, AlwaysFound, IInv, RefusedInv, UserMessage, TypeOK'
  PROVE  RefusedInv' /\ [Guide!Next]_(Guide!vars)
<1>0. /\ dests \in Seq(Dst) /\ dests' \in Seq(Dst) /\ <<>> \in Seq(Dst)
      /\ pc = "worker" => ~linkPath
      /\ pos = "none" \/ dests = <<>> => path = <<>>
  BY DEF IInv, TypeOK, RouteType, ChainInv, GraphInv
<1>1. ASSUME NEW ds \in Requests, SetDestinations(ds)
      PROVE  RefusedInv' /\ Guide!Plan
  BY <1>0, <1>1, StartOverGuidance DEF SetDestinations, NewCalculation, Message
<1>2. ASSUME ClearDestinations
      PROVE  RefusedInv' /\ Guide!Plan
  BY <1>0, <1>2, StartOverGuidance DEF ClearDestinations, NewCalculation, Message
<1>3. ASSUME NEW d \in Dst, NEW found \in NearestFound, AddDestination(d, found)
      PROVE  RefusedInv' /\ Guide!Plan
  <2>1. found = TRUE
    BY DEF AlwaysFound
  <2>2. StartOver(dests', FALSE, NoGraph, "destination_set")
        /\ UNCHANGED <<pos, linkPath>> /\ pc = "worker"
    BY <1>3, <2>1 DEF AddDestination, NewCalculation, Message
  <2> QED
    BY <1>0, <2>2, StartOverGuidance
<1>4. ASSUME Recalculate
      PROVE  RefusedInv' /\ [Guide!Next]_(Guide!vars)
  <2>1. StartOver(dests, tryHarder, graph, status) /\ pc = "worker"
        /\ UNCHANGED <<pos, dests, linkPath>>
    BY <1>4 DEF Recalculate, Message
  <2>2. path' = <<>>
    BY <2>1 DEF StartOver
  <2>3. CASE pos = "none" \/ dests = <<>>
    <3>1. UNCHANGED status /\ path = <<>>
      BY <1>0, <2>1, <2>3 DEF StartOver
    <3> QED
      BY <2>1, <2>2, <3>1 DEF RefusedInv, Guide!vars
  <2>4. CASE ~(pos = "none" \/ dests = <<>>)
    <3>1. status' # "not_found"
      BY <2>1, <2>4, NotRefused DEF StartOver
    <3> QED
      BY <1>0, <2>1, <2>2, <3>1 DEF RefusedInv, Guide!Next, Guide!StartOver
  <2> QED
    BY <2>3, <2>4
<1>5. ASSUME Refresh
      PROVE  RefusedInv' /\ [Guide!Next]_(Guide!vars)
  <2>1. pc = "worker" /\ UNCHANGED <<pos, dests, linkPath>>
    BY <1>5 DEF Refresh, Message
  <2>2. CASE pos = "none"
    <3>1. path' = <<>> /\ path = <<>> /\ UNCHANGED status
      BY <1>0, <1>5, <2>2 DEF Refresh
    <3> QED
      BY <2>1, <3>1 DEF RefusedInv, Guide!vars
  <2>3. CASE pos # "none"
    BY <1>5, <2>1, <2>3, PathUpdateGuidance DEF Refresh
  <2> QED
    BY <2>2, <2>3
<1>6. ASSUME NEW d \in Dst, NEW found \in NearestFound,
             \/ SetDestinationNoCalc(d, found)
             \/ AddDestinationNoCalc(d, found)
      PROVE  FALSE
  BY <1>6 DEF SetDestinationNoCalc, AddDestinationNoCalc, Message, Offline
<1>7. ~AfterDestinationStartCalc
  BY DEF AfterDestinationStartCalc, Message, Offline
<1> QED
  BY <1>1, <1>2, <1>3, <1>4, <1>5, <1>6, <1>7 DEF UserMessage, Guide!Next

LEMMA GuidanceStep ==
  ASSUME OnRoad, Offline, NoReuse, AlwaysFound
  PROVE  IInv /\ RefusedInv /\ [Next]_vars => RefusedInv' /\ [Guide!Next]_(Guide!vars)
<1> SUFFICES ASSUME IInv, RefusedInv, [Next]_vars
             PROVE  RefusedInv' /\ [Guide!Next]_(Guide!vars)
  OBVIOUS
<1> path \in Seq(Legs) /\ dests \in Seq(Dst)
  BY DEF IInv, TypeOK, RouteType
<1>0. IInv' /\ pc' # "crashed"
  BY IInvStep DEF IInv, NoCrash
<1>1. CASE UserMessage
  BY <1>0, <1>1, MessageGuidance DEF IInv
<1>2. ASSUME NEW p \in Fixes, VehicleUpdate(p)
      PROVE  RefusedInv' /\ [Guide!Next]_(Guide!vars)
  <2>1. pos' = "street" /\ pc = "worker" /\ UNCHANGED <<dests, linkPath>>
    BY <1>2 DEF OnRoad, VehicleUpdate
  <2>2. CASE dests = <<>>
    <3>1. path = <<>> /\ path' = <<>> /\ UNCHANGED status
      BY <1>2, <2>1, <2>2 DEF VehicleUpdate, IInv, GraphInv
    <3> QED
      BY <2>1, <3>1 DEF RefusedInv, Guide!Next, Guide!Locate
  <2>3. CASE dests # <<>>
    <3>1. PathUpdate("vehicle")
      BY <1>2, <2>1, <2>3 DEF VehicleUpdate
    <3> QED
      BY <2>1, <3>1, PathUpdateGuidance
  <2> QED
    BY <2>2, <2>3
<1>3. CASE GraphBuilt \/ BuildDone \/ NothingReached \/ UNCHANGED vars
  <2>1. UNCHANGED <<dests, path, linkPath, status, pos>>
    BY <1>0, <1>3 DEF GraphBuilt, Crash, BuildDone, NothingReached, route, vars
  <2> QED
    BY <2>1 DEF RefusedInv, Guide!vars
<1>4. CASE LegToWaypoint \/ TryHarder
  <2>1. /\ linkPath' \/ path' = <<>>
        /\ status' = "building_path" /\ UNCHANGED <<dests, pos>>
    BY <1>0, <1>4 DEF LegToWaypoint, Crash, TryHarder
  <2> QED
    BY <2>1, NotRefused DEF RefusedInv, Guide!Next, Guide!StartOver
<1>5. CASE LegToVehicle
  BY <1>5, LegToVehicleGuidance
<1>6. CASE NotFound
  <2>1. dests # <<>> /\ pos = "street"
    BY <1>6 DEF NotFound, IInv, GraphInv
  <2> QED
    BY <1>6, <2>1 DEF NotFound, RefusedInv, Guide!Next, Guide!Refuse
<1>7. CASE PathUpdateEnd
  <2>0. ~linkPath
    BY <1>7 DEF PathUpdateEnd, IInv, ChainInv
  <2>1. CASE path = <<>>
    BY <1>7, <2>0, <2>1, NotRefused DEF PathUpdateEnd, RefusedInv, Guide!Next, Guide!StartOver
  <2>2. CASE path # <<>>
    BY <1>7, <2>2 DEF PathUpdateEnd, RefusedInv, Guide!vars
  <2> QED
    BY <2>1, <2>2
<1>8. CASE WaypointReached
  <2>1. ~linkPath /\ path # <<>> /\ pos = "street"
    BY <1>8 DEF WaypointReached, MayReach, IInv, ChainInv
  <2>2. /\ dests' = Tail(dests) /\ path' = Tail(path)
        /\ UNCHANGED <<pos, linkPath, status>>
    BY <1>0, <1>8 DEF WaypointReached, Crash
  <2>3. Len(path) > 0 /\ Len(path') = Len(path) - 1
    BY <2>1, <2>2
  <2> QED
    BY <2>1, <2>2, <2>3 DEF RefusedInv, Guide!Next, Guide!Reach
<1>9. CASE DestinationReached
  <2>1. /\ ~linkPath /\ dests' = <<>> /\ UNCHANGED <<pos, linkPath>>
        /\ StartOver(<<>>, FALSE, NoGraph, "no_destination")
    BY <1>9 DEF DestinationReached, NewCalculation, IInv, ChainInv
  <2>2. <<>> \in Seq(Dst)
    OBVIOUS
  <2>3. RefusedInv' /\ Guide!Plan
    BY <2>1, <2>2, StartOverGuidance
  <2> QED
    BY <2>3 DEF Guide!Next
<1>10. ~UseOfDeadDestination
  BY <1>0 DEF UseOfDeadDestination, Crash
<1> QED
  BY <1>1, <1>2, <1>3, <1>4, <1>5, <1>6, <1>7, <1>8, <1>9, <1>10 DEF Next, Continue

(* The route implements Guidance: the way to the first destinations comes   *)
(* and goes as a whole, and a destination is only dropped with its leg.     *)
THEOREM RouteImplementsGuidance ==
  ASSUME OnRoad, Offline, NoReuse, AlwaysFound
  PROVE  Spec => Guide!Spec
<1>1. Init => RefusedInv /\ Guide!Init
  BY DEF Init, RefusedInv, Guide!Init
<1>2. IInv /\ RefusedInv /\ [Next]_vars => RefusedInv' /\ [Guide!Next]_(Guide!vars)
  BY GuidanceStep
<1> QED
  BY <1>1, <1>2, Invariance, PTL DEF Spec, Guide!Spec

-----------------------------------------------------------------------------
(* A graph that is being built goes with no path and no "done"; once a job  *)
(* has computed its leg, status and path agree; and only the idle job is    *)
(* ever at work with a busy graph that is finished.                         *)
HealInv ==
  /\ graph.building => path = <<>> /\ status \notin Done
  /\ pc \in {"path_update", "build_done", "reached"} => (status \in Done <=> path # <<>>)
  /\ graph.busy /\ pc # "crashed" =>
       graph.building \/ (caller = "idle" /\ pc \in {"update_done", "build_done"})
  /\ pc = "build_done" => caller = "idle"

(* At the end of a job that is no message, status and path agree.           *)
Healed ==
  (messages' = messages /\ pc' = "worker" /\ pos' # "none" /\ dests' # <<>>) =>
    (status' \in Done <=> path' # <<>>)

LEMMA BegunGraph ==
  ASSUME NEW harder
  PROVE  LET g == GraphBeingBuilt(harder) IN g.live /\ g.busy /\ g.building
BY DEF GraphBeingBuilt

(* A calculation that begins announces so, or leaves no graph.              *)
LEMMA StartOverHeal ==
  ASSUME HealInv, NEW ds, NEW harder, NEW g, NEW s, StartOver(ds, harder, g, s),
         pc' = "worker", g.building => g = graph /\ s = status,
         g.busy => g.building
  PROVE  HealInv'
<1>1. path' = <<>>
  BY DEF StartOver
<1>2. CASE graph' = GraphBeingBuilt(harder) /\ status' = "building_graph"
  BY <1>1, <1>2, BegunGraph, NotDone DEF HealInv
<1>3. CASE graph' = g /\ status' = s
  BY <1>1, <1>3 DEF HealInv
<1> QED
  BY <1>2, <1>3 DEF StartOver

LEMMA NewCalculationHeal ==
  ASSUME HealInv, NEW ds, NEW s, NewCalculation(ds, s), pc' = "worker"
  PROVE  HealInv'
<1>1. ~NoGraph.building /\ ~NoGraph.busy
  BY DEF NoGraph
<1>2. StartOver(ds, FALSE, NoGraph, s)
  BY DEF NewCalculation
<1> QED
  BY <1>1, <1>2, StartOverHeal

LEMMA PathUpdateHeal ==
  ASSUME HealInv, pc = "worker", NEW job \in {"message", "vehicle"}, PathUpdate(job)
  PROVE  HealInv' /\ (pc' = "worker" => (status' \in Done <=> path' # <<>>))
<1>1. CASE ~graph.live
  <2>1. /\ path' = <<>> /\ graph' = GraphBeingBuilt(tryHarder)
        /\ status' = "building_graph" /\ pc' = "worker"
    BY <1>1 DEF PathUpdate
  <2> QED
    BY <2>1, BegunGraph, NotDone DEF HealInv
<1>2. CASE graph.live /\ graph.busy
  <2>1. UNCHANGED <<path, graph, status>> /\ pc' \in {"worker", "reached"}
    BY <1>2 DEF PathUpdate
  <2>2. graph.building
    BY <1>2 DEF HealInv
  <2> QED
    BY <2>1, <2>2 DEF HealInv
<1>3. CASE graph.live /\ ~graph.busy
  <2>1. UNCHANGED <<path, graph, status>> /\ pc' = "update_done"
    BY <1>3 DEF PathUpdate
  <2> QED
    BY <1>3, <2>1 DEF HealInv
<1> QED
  BY <1>1, <1>2, <1>3

LEMMA MessageHeal ==
  ASSUME HealInv, TypeOK, UserMessage
  PROVE  HealInv' /\ messages' # messages
<1>0. messages \in Nat
  BY DEF TypeOK, ControlType
<1>1. messages' = messages + 1 /\ pc = "worker"
  BY DEF UserMessage, SetDestinations, ClearDestinations, AddDestination, Recalculate,
         Refresh, SetDestinationNoCalc, AddDestinationNoCalc,
         AfterDestinationStartCalc, Message
<1>2. ASSUME NEW ds \in Requests, SetDestinations(ds)
      PROVE  HealInv'
  BY <1>1, <1>2, NewCalculationHeal DEF SetDestinations
<1>3. ASSUME ClearDestinations
      PROVE  HealInv'
  BY <1>1, <1>3, NewCalculationHeal DEF ClearDestinations
<1>4. ASSUME NEW d \in Dst, NEW found \in NearestFound, AddDestination(d, found)
      PROVE  HealInv'
  BY <1>1, <1>4, NewCalculationHeal DEF AddDestination
<1>5. ASSUME Recalculate
      PROVE  HealInv'
  <2>1. graph.busy => graph.building
    BY <1>1 DEF HealInv
  <2>2. StartOver(dests, tryHarder, graph, status) /\ pc' = "worker"
    BY <1>1, <1>5 DEF Recalculate
  <2> QED
    BY <2>1, <2>2, StartOverHeal
<1>6. ASSUME Refresh
      PROVE  HealInv'
  <2>1. CASE pos = "none"
    <3>1. path' = <<>> /\ UNCHANGED <<graph, status, pc>>
      BY <1>6, <2>1 DEF Refresh
    <3> QED
      BY <1>1, <3>1 DEF HealInv
  <2>2. CASE pos # "none"
    BY <1>1, <1>6, <2>2, PathUpdateHeal DEF Refresh
  <2> QED
    BY <2>1, <2>2
<1>7. ASSUME NEW d \in Dst, NEW found \in NearestFound,
             SetDestinationNoCalc(d, found) \/ AddDestinationNoCalc(d, found)
      PROVE  HealInv'
  <2>1. UNCHANGED <<graph, path, status, pc, caller>>
    BY <1>7 DEF SetDestinationNoCalc, AddDestinationNoCalc
  <2> QED
    BY <2>1 DEF HealInv
<1>8. ASSUME AfterDestinationStartCalc
      PROVE  HealInv'
  BY <1>1, <1>8, NewCalculationHeal DEF AfterDestinationStartCalc
<1>9. HealInv'
  BY <1>2, <1>3, <1>4, <1>5, <1>6, <1>7, <1>8 DEF UserMessage
<1> QED
  BY <1>0, <1>1, <1>9

LEMMA HealStep ==
  TypeOK /\ SearchInv /\ HealInv /\ [Next]_vars => HealInv' /\ [Healed]_vars
<1> SUFFICES ASSUME TypeOK, SearchInv, HealInv, [Next]_vars
             PROVE  HealInv' /\ (Healed \/ UNCHANGED vars)
  OBVIOUS
<1>0. /\ graph \in Graphs /\ path \in Seq(Legs) /\ caller \in Callers
      /\ ReturnPoint = CASE caller \in {"message", "vehicle"} -> "path_update"
                         [] caller = "idle" -> "build_done"
                         [] caller = "waypoint" -> "worker"
  BY DEF TypeOK, RouteType, ControlType, ReturnPoint
<1>1. CASE UserMessage
  BY <1>1, MessageHeal DEF Healed
<1>2. ASSUME NEW p \in Fixes, VehicleUpdate(p)
      PROVE  HealInv' /\ Healed
  <2>1. CASE p = "none" \/ dests = <<>>
    <3>1. /\ path' \in {path, <<>>} /\ UNCHANGED <<graph, status, pc, caller>>
          /\ pc = "worker" /\ (pos' = "none" \/ dests' = <<>>)
      BY <1>2, <2>1 DEF VehicleUpdate
    <3> QED
      BY <3>1 DEF HealInv, Healed
  <2>2. CASE ~(p = "none" \/ dests = <<>>)
    BY <1>2, <2>2, PathUpdateHeal DEF VehicleUpdate, Healed
  <2> QED
    BY <2>1, <2>2
<1>3. ASSUME Crash
      PROVE  HealInv' /\ Healed
  BY <1>3 DEF Crash, route, HealInv, Healed
<1>4. CASE GraphBuilt
  <2>1. CASE ~CanFlood(graph, curDst)
    BY <1>3, <1>4, <2>1 DEF GraphBuilt
  <2>2. CASE CanFlood(graph, curDst)
    <3>1. /\ graph' = [graph EXCEPT !.building = FALSE, !.target = curDst]
          /\ pc' = "update_done" /\ caller' = "idle"
      BY <1>4, <2>2 DEF GraphBuilt
    <3>2. ~graph'.building
      BY <1>0, <3>1 DEF Graphs
    <3> QED
      BY <3>1, <3>2 DEF HealInv, Healed
  <2> QED
    BY <2>1, <2>2
<1>5. CASE UseOfDeadDestination
  BY <1>3, <1>5 DEF UseOfDeadDestination
<1>6. CASE LegToWaypoint
  <2>1. CASE ~CanFlood(graph, PreviousDestination)
    BY <1>3, <1>6, <2>1 DEF LegToWaypoint
  <2>2. CASE CanFlood(graph, PreviousDestination)
    <3>1. /\ graph' = [graph EXCEPT !.target = PreviousDestination]
          /\ pc = "update_done" /\ UNCHANGED <<pc, caller>>
      BY <1>6, <2>2 DEF LegToWaypoint
    <3>2. graph'.building = graph.building /\ graph'.busy = graph.busy /\ ~graph.building
      BY <1>0, <3>1 DEF Graphs, SearchInv
    <3> QED
      BY <3>1, <3>2 DEF HealInv, Healed
  <2> QED
    BY <2>1, <2>2
<1>7. CASE LegToVehicle
  <2>1. /\ pc = "update_done" /\ ~graph.building /\ UNCHANGED <<graph, caller>>
        /\ pc' = ReturnPoint
    BY <1>7 DEF LegToVehicle, SearchInv
  <2>2. status' \in Done
    BY <1>7 DEF LegToVehicle, Done
  <2>3. path' # <<>>
    <3>1. path' = NewPath(Vehicle)
      BY <1>7 DEF LegToVehicle
    <3> QED
      BY <1>0, <3>1 DEF NewPath
  <2> QED
    BY <1>0, <2>1, <2>2, <2>3 DEF HealInv, Healed, Callers
<1>8. CASE TryHarder
  <2>1. /\ path' = <<>> /\ status' = "building_path" /\ graph' = GraphBeingBuilt(TRUE)
        /\ pc' = ReturnPoint /\ UNCHANGED caller
    BY <1>8 DEF TryHarder
  <2> QED
    BY <1>0, <2>1, BegunGraph, NotDone DEF HealInv, Healed, Callers
<1>9. CASE NotFound
  <2>1. /\ path' = <<>> /\ status' = "not_found" /\ UNCHANGED <<graph, caller>>
        /\ pc = "update_done" /\ pc' = ReturnPoint /\ ~graph.building
    BY <1>9 DEF NotFound, SearchInv
  <2> QED
    BY <1>0, <2>1, NotDone DEF HealInv, Healed, Callers
<1>10. CASE PathUpdateEnd
  <2>0. pc = "path_update" /\ pc' \in {"worker", "reached"} /\ UNCHANGED <<path, caller>>
    BY <1>10 DEF PathUpdateEnd
  <2>1. CASE path = <<>>
    <3>1. graph' = GraphBeingBuilt(tryHarder) /\ status' = "building_graph"
      BY <1>10, <2>1 DEF PathUpdateEnd
    <3> QED
      BY <2>0, <2>1, <3>1, BegunGraph, NotDone DEF HealInv, Healed
  <2>2. CASE path # <<>>
    BY <1>10, <2>0, <2>2 DEF PathUpdateEnd, HealInv, Healed
  <2> QED
    BY <2>1, <2>2
<1>11. CASE BuildDone
  <2>1. /\ pc = "build_done" /\ pc' = "worker" /\ UNCHANGED <<path, status, caller>>
    BY <1>11 DEF BuildDone
  <2>2. CASE ~graph.building
    <3>1. graph' = [graph EXCEPT !.busy = FALSE]
      BY <1>11, <2>2 DEF BuildDone
    <3>2. ~graph'.building /\ ~graph'.busy
      BY <1>0, <2>2, <3>1 DEF Graphs
    <3> QED
      BY <2>1, <3>2 DEF HealInv, Healed
  <2>3. CASE graph.building
    <3>1. PICK reused \in Reuse : graph' = [graph EXCEPT !.busy = ~reused]
      BY <1>11, <2>3 DEF BuildDone
    <3>2. graph'.building
      BY <1>0, <2>3, <3>1 DEF Graphs
    <3> QED
      BY <2>1, <2>3, <3>2 DEF HealInv, Healed
  <2> QED
    BY <2>2, <2>3
<1>12. CASE NothingReached
  <2>1. /\ pc = "reached" /\ pc' = "worker"
        /\ UNCHANGED <<graph, path, status, caller>>
    BY <1>12 DEF NothingReached, route
  <2> QED
    BY <2>1 DEF HealInv, Healed
<1>13. CASE WaypointReached
  <2>1. CASE ~CanFlood(graph, dests[2])
    BY <1>3, <1>13, <2>1 DEF WaypointReached
  <2>2. CASE CanFlood(graph, dests[2])
    <3>1. /\ graph' = [graph EXCEPT !.target = dests[2]] /\ path # <<>>
          /\ pc = "reached" /\ pc' = "update_done"
      BY <1>13, <2>2 DEF WaypointReached, MayReach
    <3>2. ~graph.building /\ ~graph.busy
      BY <3>1 DEF HealInv
    <3>3. ~graph'.building /\ ~graph'.busy
      BY <1>0, <3>1, <3>2 DEF Graphs
    <3> QED
      BY <3>1, <3>3 DEF HealInv, Healed
  <2> QED
    BY <2>1, <2>2
<1>14. CASE DestinationReached
  BY <1>14, NewCalculationHeal DEF DestinationReached, Healed
<1>15. CASE UNCHANGED vars
  BY <1>15 DEF vars, HealInv
<1> QED
  BY <1>1, <1>2, <1>4, <1>5, <1>6, <1>7, <1>8, <1>9, <1>10, <1>11, <1>12, <1>13, <1>14,
     <1>15 DEF Next, Continue

(* Whatever was lost or announced before, at the end of each job with a     *)
(* position and destinations the status says "done" exactly when there is a *)
(* path.                                                                    *)
THEOREM StatusAlwaysHeals ==
  ASSUME NoReuse
  PROVE  Spec => StatusHeals
<1>1. Init => SearchInv /\ HealInv
  BY DEF Init, NoGraph, SearchInv, HealInv
<1>2. TypeOK /\ SearchInv /\ HealInv /\ [Next]_vars => HealInv' /\ [Healed]_vars
  BY HealStep
<1>3. [Healed]_vars =>
        [(messages' = messages /\ pc' = "worker" /\ pos' # "none" /\ dests' # <<>>) =>
           (status' \in Done <=> path' # <<>>)]_vars
  BY DEF Healed
<1> QED
  BY <1>1, <1>2, <1>3, SearchStep, TypeCorrect, BusyAlwaysWhileBuilding, PTL
     DEF Spec, StatusHeals
=============================================================================
