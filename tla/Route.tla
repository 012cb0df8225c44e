------------------------------- MODULE Route -------------------------------
(***************************************************************************)
(* The life cycle of a route (route.c), as the navit worker thread drives  *)
(* it: destinations set by the user, vehicle positions, the graph built in *)
(* an idle callback, the path computed leg by leg from the last            *)
(* destination back to the vehicle, the second attempt with smaller roads, *)
(* and the waypoints dropped as they are reached.                          *)
(*                                                                         *)
(* All that changes the route runs on the one worker thread, so a job (a   *)
(* message, a position, an idle callback) is never preempted by another    *)
(* one; other threads that only read the route (CallbackGeoCalc) are not   *)
(* modelled.  A job that calls back                                        *)
(* into route_path_update_done is split into one action per C function,    *)
(* and "pc" names the function the worker is in.                           *)
(***************************************************************************)
EXTENDS Naturals, Sequences, FiniteSets

CONSTANTS
  Dst,           \* destination objects (struct route_info *)
  Null, Freed,   \* no object, and an object that was already freed
  Vehicle,       \* the start of the first leg: this->pos
  Fixes,         \* what a position can be matched to, a subset of Matches
  Messages,      \* the messages the user interface sends, a subset of Kinds
  NearestFound,  \* outcomes of the search for the street of a destination
  Reuse,         \* outcomes of "does malloc return the block just freed?"
  Offroad,       \* does the vehicle profile allow straight lines?
  MaxMessages,   \* bound: messages in a behaviour
  MaxDst         \* bound: destinations of one request

Matches == {"none", "offgraph", "street"}

Kinds == {"set", "add", "recalc", "refresh", "no_calc"}

ASSUME RouteAssumption ==
  /\ IsFiniteSet(Dst)
  /\ Null \notin Dst /\ Freed \notin Dst /\ Vehicle \notin Dst /\ Null # Freed
  /\ Fixes \subseteq Matches
  /\ Messages \subseteq Kinds
  /\ NearestFound \subseteq BOOLEAN /\ Reuse \subseteq BOOLEAN
  /\ Offroad \in BOOLEAN
  /\ MaxMessages \in Nat /\ MaxDst \in Nat

VARIABLES
  pos,        \* this->pos: NULL, without a street of the graph, or on one
  dests,      \* this->destinations
  curDst,     \* this->current_dst
  graph,      \* this->graph
  path,       \* this->path2 and its chain of "next": the legs, first one first
  linkPath,   \* this->link_path
  tryHarder,  \* this->try_harder
  status,     \* this->route_status
  pc,         \* the C function the worker is in
  caller,     \* the job that function is part of
  newGraph,   \* the argument new_graph of route_path_update_done
  messages    \* messages sent so far

vars == <<pos, dests, curDst, graph, path, linkPath, tryHarder, status,
          pc, caller, newGraph, messages>>

route == <<pos, dests, curDst, graph, path, linkPath, tryHarder, status>>

(***************************************************************************)
(* Types.  A graph that is "building" owns an idle event; "busy" is the    *)
(* flag the code tests; "harder" tells whether it was selected with the    *)
(* smaller roads; "target" is the destination its costs were flooded from. *)
(***************************************************************************)
NoGraph == [live |-> FALSE, busy |-> FALSE, building |-> FALSE,
            harder |-> FALSE, target |-> Null]

Graphs == [live: BOOLEAN, busy: BOOLEAN, building: BOOLEAN,
           harder: BOOLEAN, target: Dst \cup {Null}]

Legs == [from: Dst \cup {Vehicle}, to: Dst]

Done == {"path_done_new", "path_done_incremental"}

Statuses == {"no_destination", "destination_set", "not_found",
             "building_path", "building_graph"} \cup Done

Points == {"worker", "update_done", "path_update", "build_done", "reached",
           "crashed"}

Callers == {"message", "vehicle", "idle", "waypoint"}

RouteType ==
  /\ pos \in Matches
  /\ dests \in Seq(Dst)
  /\ curDst \in Dst \cup {Null, Freed}
  /\ graph \in Graphs
  /\ path \in Seq(Legs)

ControlType ==
  /\ status \in Statuses
  /\ pc \in Points
  /\ caller \in Callers
  /\ messages \in Nat

FlagType == linkPath \in BOOLEAN /\ tryHarder \in BOOLEAN /\ newGraph \in BOOLEAN

(* Every variable of the route and of the worker has its type.              *)
TypeOK == RouteType /\ ControlType /\ FlagType

-----------------------------------------------------------------------------
(* route_graph_build: the graph is busy until its idle callback is through. *)
GraphBeingBuilt(harder) ==
  [live |-> TRUE, busy |-> TRUE, building |-> TRUE, harder |-> harder,
   target |-> Null]

DstSet == {dests[i] : i \in 1..Len(dests)}

(* Mutant: the vehicle's position stands in for a missing destination.      *)
FinalDstOrVehicle(ds) == IF ds = <<>> THEN Vehicle ELSE ds[Len(ds)]

(* route_get_dst: the last destination of a list. *)
FinalDst(ds) == IF ds = <<>> THEN Null ELSE ds[Len(ds)]

(* route_previous_destination: the waypoint before current_dst, or the      *)
(* vehicle if there is none or current_dst is not in the list.              *)
PreviousDestination ==
  IF \E i \in 2..Len(dests) : dests[i] = curDst
    THEN dests[(CHOOSE i \in 2..Len(dests) : dests[i] = curDst) - 1]
    ELSE Vehicle

(* route_graph_flood reads pos->street and dst->street, and costs of the    *)
(* segments of the graph: it dies on a missing one.                         *)
CanFlood(g, d) == g.live /\ pos = "street" /\ d \in Dst

(* route_path_new draws a straight line to a near destination if the        *)
(* profile allows it.  Else it needs costs at the start of the leg: a graph *)
(* flooded from its end, and for the vehicle a street of the graph.         *)
LegPossible(from, to) ==
  \/ Offroad
  \/ graph.target = to /\ (from = Vehicle => pos = "street")

Crash ==
  /\ pc' = "crashed"
  /\ UNCHANGED <<route, caller, newGraph, messages>>

(* Where route_path_update_done returns to. *)
ReturnPoint ==
  CASE caller \in {"message", "vehicle"} -> "path_update"
    [] caller = "idle" -> "build_done"
    [] caller = "waypoint" -> "worker"

-----------------------------------------------------------------------------
(* Mutant: cancelling forgets route_path_destroy.                           *)
StartOverKeepsPath(ds, harder, g, s) ==
  /\ path' = path
  /\ tryHarder' = harder
  /\ IF pos = "none" \/ ds = <<>>
       THEN graph' = g /\ status' = s
       ELSE graph' = GraphBeingBuilt(harder) /\ status' = "building_graph"

(* Mutant: route_graph_update does not announce building_graph.             *)
StartOverSilently(ds, harder, g, s) ==
  /\ path' = <<>>
  /\ tryHarder' = harder
  /\ status' = s
  /\ graph' = IF pos = "none" \/ ds = <<>> THEN g ELSE GraphBeingBuilt(harder)

(***************************************************************************)
(* route_path_update with cancel, called with the graph "g": with a         *)
(* position and a destination the graph and the path are dropped and a new *)
(* graph is begun; without them only the path is dropped, and the status   *)
(* stays the "s" that the caller left.                                     *)
(***************************************************************************)
StartOver(ds, harder, g, s) ==
  /\ path' = <<>>
  /\ tryHarder' = harder
  /\ IF pos = "none" \/ ds = <<>>
       THEN graph' = g /\ status' = s
       ELSE graph' = GraphBeingBuilt(harder) /\ status' = "building_graph"

(* Mutant: current_dst is not set anew.                                     *)
NewCalculationOldDst(ds, s) ==
  /\ curDst' = curDst
  /\ StartOver(ds, FALSE, NoGraph, s)

(* The common end of the functions that change the destinations: the graph *)
(* is destroyed and a calculation begins at the last destination.          *)
NewCalculation(ds, s) ==
  /\ curDst' = FinalDst(ds)
  /\ StartOver(ds, FALSE, NoGraph, s)

(* route_path_update without cancel, from the job "job". *)
PathUpdate(job) ==
  /\ caller' = job
  /\ CASE ~graph.live ->
            /\ path' = <<>>
            /\ graph' = GraphBeingBuilt(tryHarder)
            /\ status' = "building_graph"
            /\ pc' = "worker"
            /\ UNCHANGED newGraph
       [] graph.live /\ graph.busy ->
            /\ pc' = IF job = "vehicle" THEN "reached" ELSE "worker"
            /\ UNCHANGED <<path, graph, status, newGraph>>
       [] graph.live /\ ~graph.busy ->
            /\ pc' = "update_done"
            /\ newGraph' = FALSE
            /\ UNCHANGED <<path, graph, status>>

(* A message of the user interface, taken by the worker between two jobs. *)
Message(kind) ==
  /\ pc = "worker"
  /\ kind \in Messages
  /\ messages < MaxMessages
  /\ messages' = messages + 1

(* Lists of at most MaxDst distinct destinations; the empty one is a request *)
(* for which no street was found.                                           *)
Requests ==
  {ds \in UNION {[1..n -> Dst] : n \in 0..MaxDst} :
     /\ \A i, j \in 1..Len(ds) : ds[i] = ds[j] => i = j
     /\ ds = <<>> => FALSE \in NearestFound}

(* route_set_destinations with the destinations whose street was found.     *)
SetDestinations(ds) ==
  /\ Message("set")
  /\ dests' = ds
  /\ NewCalculation(ds, "destination_set")
  /\ UNCHANGED <<pos, linkPath, pc, caller, newGraph>>

(* route_set_destinations without a destination: navigation is stopped.     *)
ClearDestinations ==
  /\ Message("set")
  /\ dests' = <<>>
  /\ NewCalculation(<<>>, "no_destination")
  /\ UNCHANGED <<pos, linkPath, pc, caller, newGraph>>

(* route_add_destination.  When no street is found the status that is set   *)
(* was never initialised.                                                   *)
AddDestination(d, found) ==
  /\ Message("add")
  /\ d \notin DstSet /\ Len(dests) < MaxDst
  /\ dests' = IF found THEN Append(dests, d) ELSE dests
  /\ \E s \in (IF found THEN {"destination_set"} ELSE Statuses) :
       NewCalculation(dests', s)
  /\ UNCHANGED <<pos, linkPath, pc, caller, newGraph>>

(* Message 73, the routing preferences and route_set_profile.               *)
Recalculate ==
  /\ Message("recalc")
  /\ StartOver(dests, tryHarder, graph, status)
  /\ UNCHANGED <<pos, dests, curDst, linkPath, pc, caller, newGraph>>

(* Message 72. *)
Refresh ==
  /\ Message("refresh")
  /\ dests # <<>>
  /\ IF pos = "none"
       THEN /\ path' = <<>>
            /\ UNCHANGED <<graph, status, pc, caller, newGraph>>
       ELSE PathUpdate("message")
  /\ UNCHANGED <<pos, dests, curDst, linkPath, tryHarder>>

(***************************************************************************)
(* The messages of the on-line routing engine: the first waypoint replaces *)
(* the destinations, the others are appended, a last message starts the    *)
(* calculation.  The first two touch neither the graph nor current_dst.    *)
(***************************************************************************)
SetDestinationNoCalc(d, found) ==
  /\ Message("no_calc")
  /\ dests' = IF found THEN <<d>> ELSE <<>>
  /\ curDst' = IF curDst \in DstSet THEN Freed ELSE curDst
  /\ tryHarder' = FALSE
  /\ UNCHANGED <<pos, graph, path, linkPath, status, pc, caller, newGraph>>

AddDestinationNoCalc(d, found) ==
  /\ Message("no_calc")
  /\ d \notin DstSet /\ Len(dests) < MaxDst
  /\ dests' = IF found THEN Append(dests, d) ELSE dests
  /\ tryHarder' = FALSE
  /\ UNCHANGED <<pos, curDst, graph, path, linkPath, status, pc, caller, newGraph>>

(* The type of the attribute that would set the status is uninitialised.    *)
AfterDestinationStartCalc ==
  /\ Message("no_calc")
  /\ \E s \in {"destination_set", status} : NewCalculation(dests, s)
  /\ UNCHANGED <<pos, dests, linkPath, pc, caller, newGraph>>

-----------------------------------------------------------------------------
(***************************************************************************)
(* navit_vehicle_update: a fix is matched to a street and the route is     *)
(* updated, then the worker looks whether a destination was reached.       *)
(* Without a match route_set_position leaves no position and the route as  *)
(* it was.  Without destinations route_set_position drops the path, and    *)
(* route_set_position_from_tracking leaves it.                             *)
(***************************************************************************)
VehicleUpdate(p) ==
  /\ pc = "worker"
  /\ pos' = p
  /\ IF p = "none" \/ dests = <<>>
       THEN /\ path' \in IF p = "none" THEN {path} ELSE {path, <<>>}
            /\ UNCHANGED <<graph, status, pc, caller, newGraph>>
       ELSE PathUpdate("vehicle")
  /\ UNCHANGED <<dests, curDst, linkPath, tryHarder, messages>>

(* The last idle callback of a graph that is being built: costs are flooded *)
(* from current_dst, which calls route_path_update_done(1).                 *)
GraphBuilt ==
  /\ pc = "worker"
  /\ graph.building
  /\ IF ~CanFlood(graph, curDst)
       THEN Crash
       ELSE /\ graph' = [graph EXCEPT !.building = FALSE, !.target = curDst]
            /\ pc' = "update_done"
            /\ caller' = "idle"
            /\ newGraph' = TRUE
            /\ UNCHANGED <<pos, dests, curDst, path, linkPath, tryHarder,
                           status, messages>>

(* Mutant: rg is taken for the current graph in any case.                   *)
BuildDoneOnAnyGraph ==
  /\ pc = "build_done"
  /\ pc' = "worker"
  /\ graph' = [graph EXCEPT !.busy = FALSE]
  /\ UNCHANGED <<pos, dests, curDst, path, linkPath, tryHarder, status,
                 caller, newGraph, messages>>

(* The end of route_graph_build_done: rg->busy = 0.  When the callback has  *)
(* replaced the graph, rg is freed memory; it may be the new graph.         *)
BuildDone ==
  /\ pc = "build_done"
  /\ pc' = "worker"
  /\ IF ~graph.building
       THEN graph' = [graph EXCEPT !.busy = FALSE]
       ELSE \E reused \in Reuse :
              graph' = [graph EXCEPT !.busy = ~reused]
  /\ UNCHANGED <<pos, dests, curDst, path, linkPath, tryHarder, status,
                 caller, newGraph, messages>>

-----------------------------------------------------------------------------
(***************************************************************************)
(* route_path_update_done computes the leg that ends at current_dst.       *)
(***************************************************************************)
UseOfDeadDestination ==
  /\ pc = "update_done"
  /\ curDst \notin Dst
  /\ Crash

(* Mutant: the leg that is replaced stays in the chain.                     *)
NewPathKeepsOldLeg(from) ==
  <<[from |-> from, to |-> curDst]>> \o path

(* Mutant: the legs after the old first leg are not linked to the new one.  *)
NewPathLosesRest(from) ==
  <<[from |-> from, to |-> curDst]>> \o
    (IF linkPath \/ path = <<>> THEN path ELSE <<>>)

(* The new leg precedes the legs already linked, or replaces the old first  *)
(* leg of the path.                                                         *)
NewPath(from) ==
  <<[from |-> from, to |-> curDst]>> \o
    (IF linkPath \/ path = <<>> THEN path ELSE Tail(path))

(* The leg starts at a waypoint: go back to it and compute the leg before.  *)
LegToWaypoint ==
  LET prev == PreviousDestination IN
  /\ pc = "update_done"
  /\ curDst \in Dst
  /\ prev # Vehicle
  /\ LegPossible(prev, curDst)
  /\ IF ~CanFlood(graph, prev)
       THEN Crash
       ELSE /\ path' = NewPath(prev)
            /\ linkPath' = TRUE
            /\ curDst' = prev
            /\ graph' = [graph EXCEPT !.target = prev]
            /\ status' = "building_path"
            /\ newGraph' = TRUE
            /\ UNCHANGED <<pos, dests, tryHarder, pc, caller, messages>>

(* The leg starts at the vehicle: the path is complete.                     *)
LegToVehicle ==
  /\ pc = "update_done"
  /\ curDst \in Dst
  /\ PreviousDestination = Vehicle
  /\ LegPossible(Vehicle, curDst)
  /\ path' = NewPath(Vehicle)
  /\ linkPath' = FALSE
  /\ \/ status' = "path_done_new"
     \/ ~newGraph /\ status' = "path_done_incremental"
  /\ pc' = ReturnPoint
  /\ UNCHANGED <<pos, dests, curDst, graph, tryHarder, caller, newGraph,
                 messages>>

(* Mutant: try_harder is set after the graph was selected without it.       *)
TryHarderSameRoads ==
  /\ pc = "update_done"
  /\ curDst \in Dst
  /\ ~tryHarder
  /\ tryHarder' = TRUE
  /\ graph' = GraphBeingBuilt(FALSE)
  /\ path' = <<>>
  /\ linkPath' = FALSE
  /\ status' = "building_path"
  /\ pc' = ReturnPoint
  /\ UNCHANGED <<pos, dests, curDst, caller, newGraph, messages>>

(* No path to current_dst the first time: a new graph with smaller roads.   *)
(* The nested route_path_update sets building_graph, the caller then writes *)
(* the building_path it set on entry.                                       *)
TryHarder ==
  /\ pc = "update_done"
  /\ curDst \in Dst
  /\ ~tryHarder
  /\ tryHarder' = TRUE
  /\ graph' = GraphBeingBuilt(TRUE)
  /\ path' = <<>>
  /\ linkPath' = FALSE
  /\ status' = "building_path"
  /\ pc' = ReturnPoint
  /\ UNCHANGED <<pos, dests, curDst, caller, newGraph, messages>>

(* Mutant: the failure is not announced.                                    *)
NotFoundUnannounced ==
  /\ pc = "update_done"
  /\ curDst \in Dst
  /\ tryHarder
  /\ path' = <<>>
  /\ linkPath' = FALSE
  /\ status' = "building_path"
  /\ pc' = ReturnPoint
  /\ UNCHANGED <<pos, dests, curDst, graph, tryHarder, caller, newGraph,
                 messages>>

(* No path with the smaller roads either.                                   *)
NotFound ==
  /\ pc = "update_done"
  /\ curDst \in Dst
  /\ tryHarder
  /\ path' = <<>>
  /\ linkPath' = FALSE
  /\ status' = "not_found"
  /\ pc' = ReturnPoint
  /\ UNCHANGED <<pos, dests, curDst, graph, tryHarder, caller, newGraph,
                 messages>>

(* The rest of route_path_update: without a path the graph is built anew.   *)
PathUpdateEnd ==
  /\ pc = "path_update"
  /\ IF path = <<>>
       THEN graph' = GraphBeingBuilt(tryHarder) /\ status' = "building_graph"
       ELSE UNCHANGED <<graph, status>>
  /\ pc' = IF caller = "vehicle" THEN "reached" ELSE "worker"
  /\ UNCHANGED <<pos, dests, curDst, path, linkPath, tryHarder, caller,
                 newGraph, messages>>

-----------------------------------------------------------------------------
(* route_destination_reached can answer 1 or 2 only from such a state.      *)
MayReach == pos = "street" /\ dests # <<>> /\ path # <<>>

NothingReached ==
  /\ pc = "reached"
  /\ pc' = "worker"
  /\ UNCHANGED <<route, caller, newGraph, messages>>

(* route_remove_waypoint: drop the first destination and its leg, flood     *)
(* from the next one and recompute the leg to it.                           *)
WaypointReached ==
  /\ pc = "reached"
  /\ MayReach
  /\ Len(dests) > 1
  /\ IF ~CanFlood(graph, dests[2])
       THEN Crash
       ELSE /\ dests' = Tail(dests)
            /\ path' = Tail(path)
            /\ curDst' = dests[2]
            /\ graph' = [graph EXCEPT !.target = dests[2]]
            /\ pc' = "update_done"
            /\ caller' = "waypoint"
            /\ newGraph' = TRUE
            /\ UNCHANGED <<pos, linkPath, tryHarder, status, messages>>

(* navit_set_destination(NULL): the final destination is reached.           *)
DestinationReached ==
  /\ pc = "reached"
  /\ MayReach
  /\ Len(dests) = 1
  /\ dests' = <<>>
  /\ NewCalculation(<<>>, "no_destination")
  /\ pc' = "worker"
  /\ UNCHANGED <<pos, linkPath, caller, newGraph, messages>>

-----------------------------------------------------------------------------
Init ==
  /\ pos = "none"
  /\ dests = <<>>
  /\ curDst = Null
  /\ graph = NoGraph
  /\ path = <<>>
  /\ linkPath = FALSE
  /\ tryHarder = FALSE
  /\ status = "no_destination"
  /\ pc = "worker"
  /\ caller = "message"
  /\ newGraph = FALSE
  /\ messages = 0

UserMessage ==
  \/ \E ds \in Requests : SetDestinations(ds)
  \/ ClearDestinations
  \/ \E d \in Dst, found \in NearestFound : AddDestination(d, found)
  \/ Recalculate
  \/ Refresh
  \/ \E d \in Dst, found \in NearestFound : SetDestinationNoCalc(d, found)
  \/ \E d \in Dst, found \in NearestFound : AddDestinationNoCalc(d, found)
  \/ AfterDestinationStartCalc

(* The steps of a job that has begun. *)
Continue ==
  \/ UseOfDeadDestination
  \/ LegToWaypoint
  \/ LegToVehicle
  \/ TryHarder
  \/ NotFound
  \/ PathUpdateEnd
  \/ BuildDone
  \/ NothingReached
  \/ WaypointReached
  \/ DestinationReached

Next ==
  \/ UserMessage
  \/ \E p \in Fixes : VehicleUpdate(p)
  \/ GraphBuilt
  \/ Continue

(* The worker finishes the job it has begun, and its loop comes to the idle *)
(* timer of the graph again and again, which supposes that positions come   *)
(* no faster than they are handled (see Served of Worker).                  *)
Fairness == WF_vars(Continue) /\ SF_vars(GraphBuilt)

Spec == Init /\ [][Next]_vars

FairSpec == Spec /\ Fairness

-----------------------------------------------------------------------------
(***************************************************************************)
(* Properties.                                                             *)
(***************************************************************************)

(* No job dereferences a missing graph, position, street or destination.    *)
NoCrash == pc # "crashed"

(* Between two jobs the legs form one chain from the vehicle through the    *)
(* first destinations, in their order, without a hole or a stale leg.       *)
ChainFollowsDestinations ==
  pc = "worker" =>
    /\ Len(path) <= Len(dests)
    /\ \A i \in 1..Len(path) :
         path[i] = [from |-> IF i = 1 THEN Vehicle ELSE dests[i - 1],
                    to   |-> dests[i]]

(* Between two jobs a path exists only with a finished graph whose costs    *)
(* lead to the first destination: an incremental update reads those.        *)
PathHasItsGraph ==
  (pc = "worker" /\ path # <<>>) =>
    /\ graph.live /\ ~graph.building
    /\ curDst = dests[1] /\ graph.target = curDst

(* Between two jobs the status that navigation and the user interface see   *)
(* says "done" exactly when there is a path to follow.                      *)
StatusTellsPath ==
  pc = "worker" => (status \in Done <=> path # <<>>)

(* "busy" is documented as "The graph is being built": no graph whose idle  *)
(* callback is still pending may look finished.                             *)
BusyWhileBuilding == graph.building => graph.busy

(* route_path_update_done only announces "not found" after it searched a    *)
(* finished graph with the smaller roads, flooded from current_dst.         *)
NotFoundIsConclusive ==
  [][(pc = "update_done" /\ pc' # "crashed" /\ status' = "not_found") =>
       graph.harder /\ ~graph.building /\ graph.target = curDst]_vars

(* However position and destinations were lost and regained: at the end of  *)
(* each job but a message, with a position and destinations, the status     *)
(* says "done" exactly when there is a path.                                *)
StatusHeals ==
  [][(messages' = messages /\ pc' = "worker" /\ pos' # "none" /\ dests' # <<>>) =>
       (status' \in Done <=> path' # <<>>)]_vars

(* Message 73 "calcs everything totally new": after it, too, a finished     *)
(* path leads to the last destination.                                      *)
FullItinerary ==
  (pc = "worker" /\ status \in Done) => path[Len(path)].to = FinalDst(dests)

(* "The route graph has to be destroyed if the route's destination is       *)
(* changed somewhere": costs flooded from a destination do not outlive a    *)
(* message that changes the destinations.                                   *)
GraphGoesWithDestinations ==
  [][(dests' # dests /\ messages' # messages) => graph'.target = Null]_vars

(* A request with a known position is answered: with a path, with "not      *)
(* found", or it is withdrawn.                                              *)
Answered ==
  (dests # <<>> /\ pos = "street") ~>
    (status \in Done \cup {"not_found"} \/ dests = <<>>)

(* What the driver is shown: nothing while the legs are still linked.       *)
Guide == INSTANCE Guidance WITH
  itinerary <- dests,
  known <- IF linkPath THEN 0 ELSE Len(path),
  refused <- status = "not_found",
  located <- pos = "street"

(* The way to the first destinations comes and goes as a whole, a           *)
(* destination is only dropped together with its leg, and no request stays  *)
(* open.                                                                    *)
GuidancePromise == Guide!FairSpec
=============================================================================
