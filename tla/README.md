# RetroNavi / ZANavi: a verification project

RetroNavi is a turn-by-turn navigation program for Android: a C core (`src/navit/*.c`) that
reads the map, matches positions to streets, computes routes and draws, under a Java
application (`src/navit/android`) that feeds it positions and requests. This directory holds
TLA+ models of the parts that decide *whether the driver is led to the destination*, the TLC
runs that check them on small instances and the theorems TLAPS proves about them for every
instance.

## 1. Inventory

| Component | State it keeps | Operations | Talks to | What makes it correct |
|---|---|---|---|---|
| **Route life cycle** (`route.c`) | position, destinations, `current_dst`, the graph and its `busy` flag, the legs (`path2`, linked by `next`), `link_path`, `try_harder`, the status | set / add destinations, recalculate, refresh, position update, the idle builder, one leg after another, the retry with smaller roads, waypoint reached | called by the worker (messages, positions, timers); sets the status that navigation and the user interface read | the legs form one chain through the destinations; the path belongs to the graph it is updated with; the status tells whether there is a path; every request is answered; nothing dead is dereferenced |
| **Route search** (`route.c`) | two costs and two successors for each segment, a heap | `route_graph_flood`, `route_path_new` | called by the life cycle for each leg | costs are those of drives; a path is found whenever there is one; it is joined, passable and ends at the destination |
| **Worker thread** (`Navit.java`, `NavitTimeout.java`, `graphics_android.c`) | eight queues, the interrupt status, the timers | producers offer and interrupt, one loop empties the queues in a fixed order | everything that changes the route runs on it | no wake-up and no newest position is lost; each queue is served; a one-shot timer is called once for each start, and nothing is left of a removed timer |
| **Map download** (`RetroNaviMapDownloadService.java`) | `running`, `cancelRequested`, the temporary file, the installed maps | start, cancel, download, replace | started by the user interface and the updater | what is installed is whole; an old map goes only when the new one has arrived; the notification tells the truth; every update ends, also after a crash |
| **Cache** (`cache.c`, `file.c`) | the four ARC lists, use counts, sizes, the hash table | read, give back, flush, with reads that fail | map driver | data in use stay; the books of the cache agree; the number of entries is bounded |
| **Turn instructions** (`navigation.c`) | the list of entries and commands, the hash of its items, what was last spoken | navigation_update for each status of the route, announcements | the route's status callbacks, speech | the list is ahead of the car; no command outlives it; what counts as announced was spoken |
| **Callbacks** (`callback.c`) | lists of callbacks | add, remove, call | everything | removal during a call is safe |
| Tracking (`track.c`), navit core (`navit.c`), vehicles, map drivers, graphics, layout, OSD, search, configuration, speech, user interface, the downloader of catalogue maps, the service that updates the application | | | | mostly geometry, drawing, parsing or pure input/output; see section 7 |

### What is hard

* **Callbacks that re-enter.** The end of a graph's construction floods it, which calls
  `route_path_update_done`, which may flood again for the leg before, or destroy the graph it
  was called from and begin another one.
* **Threads that give work to one thread.** Producers offer and interrupt without a lock
  around the two; the worker looks at two of eight queues before it sleeps; timers post while a
  job removes them.
* **State that survives between jobs.** A job never runs beside another one (there is a
  single worker thread), but each relies on what the last ones left: `current_dst`,
  the costs in the graph, the first leg of the chain, the flag `busy`.
* **Time between two jobs.** A graph is built in an idle callback while positions and
  messages keep arriving. What they find may be half a change: the messages of the on-line
  routing engine change the destinations one by one.
* **A process that may be killed.** The map service works on files that outlive it, with flags
  that do not, under a notification that does.
* **Objects that are shared by reference.** Entries of the cache are held by several readers,
  commands point into a list of entries that is emptied from its front.
* **A search that cuts corners.** The flood stops looking at half of the segments once it
  has reached the position, and the first segments have no successor.

`PROJECT.json` lists each of these hazards at its line, with the properties that
would catch it going wrong.

## 2. Modules

| Module | What it is |
|---|---|
| `Route.tla` | the life cycle of a route, one action per C function that changes it |
| `MCRoute.tla`, `Route*.cfg` | its instances for TLC |
| `RouteProofs.tla` | type correctness, proved |
| `RouteSafetyProofs.tla` | the inductive invariant and the safety theorems |
| `Guidance.tla` | what a route promises to the driver: the abstract specification of `Route` |
| `RouteStatusProofs.tla` | the theorems on the status and on `busy`, and that `Route` implements `Guidance` |
| `Worker.tla` | the worker's loop, the producers and the timers' threads |
| `MCWorker.tla`, `Worker.cfg` | its instance for TLC |
| `WorkerProofs.tla` | type correctness and the safety theorems, proved |
| `RouteFlood.tla` | the search for one leg |
| `MCRouteFlood.tla`, `RouteFlood*.cfg` | all small graphs, for TLC |
| `RouteFloodProofs.tla` | type correctness, arrival, optimality until the cut, completeness and termination bounds of the search, proved |
| `Navigation.tla` | the list of turn instructions and what is spoken of it |
| `MCNavigation.tla`, `Navigation.cfg` | its instance for TLC |
| `NavigationProofs.tla` | its invariant and theorems |
| `MapStore.tla` | the installed maps while they are updated: the abstract specification of the service |
| `MapDownload.tla` | the service, its dialog, its notification, and kills |
| `MCMapDownload.tla`, `MapDownload.cfg` | its instance for TLC |
| `MapDownloadProofs.tla` | its theorems, and that it implements `MapStore` |
| `DataPool.tla` | data that are held by readers: the abstract specification of the cache |
| `FileCache.tla` | the cache and the functions that read through it |
| `MCFileCache.tla`, `FileCache.cfg` | its instance for TLC |
| `FileCacheProofs.tla` | its theorems, and that it implements `DataPool` |

`Worker` is where the atomicity of `Route` comes from: each of its `Serve`, `HandleFix` and
`Timeout` steps is one job of `Route` (a message, a position, the idle callback).
`Route` uses the search through two operators: `CanFlood` (what `route_graph_flood`
dereferences) and `LegPossible` (when `route_path_new` may return a path).
`FoundIfReachable` and `PathArrives` of `RouteFlood` are what `Route` takes for granted when
when it treats a leg as an edge from one destination to the next.
`Navigation` is driven by the status that `Route` sets: each `Announce...` of the route is a
`Status...` step of it. `MapDownload` and `FileCache` share no state with the others: an installed map
is read only when the program is started again, and the cache is used inside single jobs.

`Route`, `MapDownload` and `FileCache` each have an abstract specification of what they promise
(`Guidance`, `MapStore`, `DataPool`), which they are shown to implement by `INSTANCE ... WITH`.

### Route.tla and the code

* `path` is the chain of legs (`struct route_path`, linked by `next`), the first one first. A leg
  is only its two ends. `graph` has four facts of `struct route_graph`: whether it exists, its
  flag `busy`, whether its idle event is pending (`building`), whether it was selected with
  small roads (`harder`), and the destination its costs were last flooded from (`target`).
* `pc` names the C function the worker is in; "worker" means that it is between two jobs.
  `caller` is the job, `newGraph` the argument of `route_path_update_done`.
* Messages: `SetDestinations`, `ClearDestinations` (`route_set_destinations`),
  `AddDestination`, `Recalculate` (message 73, `route_set_profile` and the routing preferences),
  `Refresh` (message 72), and the three messages of the on-line engine.
  `VehicleUpdate` is `navit_vehicle_update` with either of the two functions that set the
  position; `NothingReached`, `WaypointReached` and `DestinationReached` are the switch at its end.
* `GraphBuilt` is the last call of `route_graph_build_idle`, `BuildDone` what
  `route_graph_build_done` does after its callback. In between, `LegToWaypoint`, `LegToVehicle`,
  `TryHarder` and `NotFound` are the branches of `route_path_update_done`.
* `Freed` stands for a pointer to freed memory. `Reuse` is the set of answers to the question
  whether malloc returns the block just freed, which the code depends on in `BuildDone`.
* The drawing of the map is synchronous, so `in_use` is never more than one when
  `route_path_update_done` begins and its first return (route.c:887-891) is never taken.
  Every caller passes `async` = 1; the synchronous branch is left out.
* `Guide` maps the route to `Guidance`. The way is known to as many destinations as `path` has legs, and
  to none while legs are still being linked (`linkPath`): then the chain is not what the driver is shown.
  A waypoint that is reached is `Reach`, with its leg; new destinations are `Plan`, a calculation
  of the same ones from the start is `StartOver`.

### Worker.tla and the code

* `waiting` counts the jobs of the six plain queues (`Kinds`), `fixes` the positions of `queue6`;
  `posts` is `queue4`. Jobs have no content; of the positions only the newest is followed (`newest`).
* `stage` is the loop of `run()` the worker is in, `step` whether that loop looks at its queue, at the
  positions in between (`LookForFix`), or polls. `LoopTop` is the test before the sleep, `Wake` the end
  of the sleep by an interrupt or after two seconds.
* A job is one step: it polls, runs, and may make and remove any timers (`ChangeTimers`). What producers
  and timers do meanwhile can as well be done before or after it.
* `VehicleCallback3` is split where its callers can meet: `NewFix`, `Trim` (the size is read), `Drop`
  (the oldest is polled), `OfferFix`, `Interrupt`. All other producers are `Offer` and `Interrupt`.
* A timer's thread sleeps, reads `running`, posts, and interrupts the worker. A timer that ended and has
  no post left stands for a new one, repeating or not.

### RouteFlood.tla and the code

A segment is driven in two *ways*: `<<s, "start">>` enters it at its start, and its cost is
`seg_start_out_cost`, its successor `end_from_seg`; `<<s, "end">>` is the other direction.
`Relax` is one round of the loop of `route_graph_flood`, with the order of the point's lists
(segments added later stand first) because the early end of the second loop depends on it.
`Start` chooses the direction at the position, `Walk` is one round of the loop that puts the
path together. `least` is a reference: the least costs over all drives, computed by its
definition and read by properties only.

### Navigation.tla and the code

* `path` is what the route map shows, a sequence of streets with their directions and of waypoints. An
  entry of the list (`navigation_itm`) is its position on the path: the list goes from `from` to `End`, the
  entry that has no street. `cmds` are the commands by their entries; `Final` is the command that is always
  made last, and may be the second one on the last entry. `hash` is the table of items.
* `StatusNone`, `StatusNew`, `StatusIncremental` and `StatusTurned` are the cases of `navigation_update`. Afterwards
  `DestroyFirst` is one round of the loop of `navigation_destroy_itms_cmds`, which ends in `Flushed`,
  `BuildNew`, `Found`, `BuildRest` or `BuildTurned`; `SayTurnAround` and `Announce` are `navigation_call_callbacks`.
* The route announces `path_done_incremental` when each street of the new first leg was on the old one
  (`route_path_add_item_from_graph`); only the first street of the path gets its direction anew. Costs are those
  of the same graph, so that the path follows the old one from the first street on that it shares in direction
  with it. Hence the new path is what is left of the old one from its `k`-th street on (`StatusIncremental`), or one
  street that was on it and is now driven the other way, followed by that (`StatusTurned`): the driver turned round
  and is led back to the old path, as where it went round a block. Past a waypoint no update is incremental,
  because reaching it floods a new graph. `back` is the street driven back on, until
  the list is made for the changed path (`BuildTurned`), with whatever maneuver now follows that street.
* `Heard` is what that function decides from `level_last`, `item_last` and the level of the next command. The
  levels, whether a street is left behind (`near`), and whether the next level lasts (`steady`) come from
  distances and times, and are chosen freely. Where maneuvers are (`turns`) is chosen freely with the path.
* An incremental update needs a list (`from # 0`): the route is called incremental when the new leg keeps
  segments of the old one (`updated`, route.c:973), so that a path was announced before it; or it is the
  straight line, which has no streets.
* `told` is history: the command that was last spoken, its street and at what level. `told.cmd` is 0 when that command
  is not on the list any more because the driver turned round; on a new path nothing has been told.

### MapDownload.tla and the code

* `pc` is the stage of `onHandleIntent`; `Exception` leads from each of the stages that may throw to `Failed`,
  the `catch` block, and `Finally` is the `finally` block. The service is an `IntentService`: requests wait in
  `queue` and are served one after the other by its thread.
* The dialog (`RetroNaviMapUpdater`) and the broadcast of the notification's button run on the main thread;
  they read `running` and set `cancelRequested` between any two steps of the service.
* Contents of files are numbers of chunks. `announced` says whether the server told a length: `HttpURLConnection`
  throws when a connection ends before it, and otherwise `read` returns -1 as at the end.
* `Kill` may come at any time. Files and the notification stay; static fields, requests and the receiver
  do not. The service is not restarted with its intent (`setIntentRedelivery` is not called).
* `happened` is history: a download that was `"cut"`, a failure that was `"silent"` because a cancel had been
  asked for, a `"kill"`.
* `Store` maps the service to `MapStore`: fetching, replacing, or idle.

### FileCache.tla and the code

* `cache` is a record with the fields of `struct cache`. `t1`, `b1`, `t2` and `b2` are sequences with the most
  recently used entry first; `size` is kept by the operations, as in the code, and compared with the entries'
  lengths by `Books`.
* `Lookup` is `cache_lookup` followed by `cache_insert_new` where it found no data; `Replace`, `Forget` and `Move`
  are `cache_replace`, `cache_remove_lru` and `cache_move`. `Lru` is the least recently used entry that has no
  user: `cache_remove_lru_helper` moves the used ones it passes to the front.
* `Read`, `Free` and `FlushData` are what the map driver calls in `file.c`; `ReadFails` and `InflateFails` are
  their ways to fail. That the caller of `FlushData` is the only holder is an assumption about the map driver
  (`binfile.c` drops what it has read and copied): `cache_flush_data` checks nothing. `wrecked` ends the behaviour: the code has freed the middle of an entry (section 5).
* `held` is what the callers hold. A caller may hold anything, up to `MaxHeld`.

## 3. Runs

| Run | Question | Answer |
|---|---|---|
| `Route` | on streets of the graph, with set, add, recalculate and refresh: is everything consistent between any two jobs, and is every request answered? | yes: `TypeOK`, `NoCrash`, `ChainFollowsDestinations`, `PathHasItsGraph`, `StatusTellsPath`, `Answered`; and it implements `Guidance` (`GuidancePromise`) |
| `RouteHostile` | whatever positions are matched to and with all messages: does a graph under construction look busy, is "not found" conclusive, and does the status recover after a position or a street was lost? | yes, without memory reuse: `BusyWhileBuilding`, `NotFoundIsConclusive`, `StatusHeals`. The run also reaches the crashes of section 5, so `NoCrash` is not among its properties |
| `RouteBusy` | and with memory reuse? | no (finding) |
| `RouteRecalc` | does a recalculation cover all destinations? | no (finding) |
| `RouteOnline` | does a graph go with the destinations it was made for? | no (finding) |
| `Worker` | is any wake-up, or the newest position, lost? do the queues stay bounded and get served? | no and yes: `NoSleepWithWork`, `NewestFixReaches`, `FixesBounded`, `OneShotOnce`, `Served`, `RemovedEnds` |
| `RouteFlood` | position and destination on two streets, all graphs: is the search sound, complete and finite? | yes: `CostsAreDrives`, `SettledUntilCut`, `FoundIfReachable`, `PathArrives`, `NoWayTwice`, `Terminates` |
| `RouteFloodLeast` | is the path the cheapest one? | no (finding) |
| `RouteFloodSame` | does a path arrive when both are on one street? | no (finding) |
| `Navigation` | is the list always that of the streets ahead, and was each command spoken that counts as announced? | yes: `TypeOK`, `NoDanglingCommand`, `CommandsAhead`, `SaidAsBelieved`, with the exceptions they name |
| `MapDownload` | downloads that are queued, cancelled, broken and killed anywhere: what becomes of the maps and of the notification? | maps are whole or untouched, and every update ends: `TypeOK`, `DoneMeansInstalled`, `InstalledWhole`, `NoStaleProgress`, `OldMapsOutliveDownload`; it implements `MapStore` (`StorePromise`) |
| `FileCache` | data that are held, evicted, found as ghosts and not readable: is what is held safe, and do the books agree? | yes: `TypeOK`, `HeldStays`, `Books`, `EntriesBounded`; it implements `DataPool` (`PoolPromise`) |

**Bounds.** `Route`: three destinations, so that there are a first leg, one in the middle
and a last one, and a leg can be dropped while two remain; `MaxMessages` = 4, enough to set, add,
recalculate and set again while a graph is being built. Positions are not bounded.
`RouteHostile` has three messages: those of the on-line engine are three.
`Offroad` = TRUE in all of them, which lets every leg succeed or fail; the straight line is only
drawn between near points, which is abstracted.
`StatusHeals` says what `StatusTellsPath` cannot when streets may be missing: the status may be wrong after a
street was not found or the position was lost, and is right again after the next job that has both.
`Worker`: two producers, so that one can poll between another's look and poll; a timer with two posts,
so that one waits when the other is called and the limit of callbacks (1 instead of 10) is reached;
positions are dropped when more than one waits instead of five; jobs of one queue before the timers and
one behind them. The theorems cover the real numbers.
`RouteFlood`: three segments on three points, in every order and direction, each open both ways or one way
in either direction, and the first one also in none (`route_value_seg` gives INT_MAX for the closed ends).
A street on which no place is given starts at its lower point, since its ends can be renamed. The
costs are 0 and 10, the shares of the destination's street 2 and 8. With three segments there are a
direct way and a detour, parallel streets, and a circle of cost zero. The same properties were
found to hold on all graphs of four segments with one cost, of streets open both ways or from their start.
`Navigation`: all paths of up to three streets and waypoints on two streets in both directions, so that a
street comes twice in one or in both directions, and the driver turns round on a street that the path leaves again
by another one; a path is replaced any number of times. Levels are 0 and 1
instead of 0 to 3: they are compared with each other and with -2, 4 and 99 only. The two streets are symmetric.
`MapDownload`: two map files, of which one is the one that is installed; a map of two chunks, so that there
is a part of it; two requests that wait, so that one is queued while another runs and a third waits.
`FileCache`: a cache of size four and headers of one, and five data of three lengths, from one that
fits twice to one that alone is as large as the cache; two of them are held at a time.
Every list is filled, and hits in both lists of ghosts happen.

## 4. Fairness

`Route` is weakly fair to `Continue`, the steps of a job that was begun (a C function runs to its
end), and strongly fair to `GraphBuilt`. The worker polls the queue of timers in each round of its
loop and takes up to ten of them, so the idle timer of a graph is served again and again as long as
positions come no faster than they are handled (they come once a second); it is strong fairness because a
position's job disables it while it runs. `Worker` shows the part of this that is not a matter of time:
`Served` and `RemovedEnds` are claims for producers that come to rest while timers go on forever. It is weakly fair to the
worker, to each timer's thread, and to a producer that has begun to give a position or has still to
interrupt. There is no fairness for new messages or positions. `RouteFlood` is a sequential
algorithm and weakly fair to `Next`. `MapDownload` is weakly fair to the service's thread: what may block it
is the network, and both timeouts of the connection are set to 60 seconds. There is none for the user or for
kills. `Guidance` and `MapStore` have fairness of their own, which follows from that of `Route` and `MapDownload`.
`Navigation` and `FileCache` claim nothing that needs fairness.

## 5. What the checks found

Five disagreements between the code and what it says of itself, each shown by a run:

1. `rg->busy = 0` is written after the callback that may have freed `rg` (route.c:5108).
2. A recalculation leaves `current_dst` at the first waypoint: the legs behind it are lost
   although the comment promises a totally new calculation. The retry with smaller roads
   does the same when it happens after the chain was complete.
3. The functions without calculation leave the graph of the old destinations, and the first of
   them frees the object `current_dst` points to.
4. The flood is not Dijkstra's algorithm after the position was reached; the path may cost more
   than the best one. `SettledUntilCut` says how far the claim is true.
5. On one street the path is not cut at the destination.

Observations that contradict no document, and are written into the properties as exceptions:

* The cache evicts at most one entry for each insertion, however long the new one is, so its bytes may exceed
  `cache_size_file` many times. What is bounded is the number of entries (`EntriesBounded`), and only as long
  as something can be evicted: a T1 whose entries are all in use gives up nothing, and T2 grows (`crowded`).
* When data cannot be inflated, `file_data_read_compressed` passes the data of a cache entry to `g_free`, which
  is the middle of the entry (`wrecked`). An entry whose data could not be read stays and is found.
* A path that takes a street twice in one direction has one place in the hash table for both. The list then
  jumps to the later pass, and is made anew at the next update (`Repeats`).
* Two commands in a row on one street look like one: the second may count as announced (`DistinctItems`).
* A bicycle may have two commands on the last entry; only one is freed with it, so `cmd_first` is left behind
  after a flush (`NoDanglingCommand` excludes bicycles).
* A download from a server that tells no length is installed although the connection broke (`"cut"`). A failure
  after a cancel leaves the notification of a running download (`"silent"`), as does a kill.
* Between the deletion of the old maps and the renaming of the new one there is no map under its name; the
  complete download is on the card then (`OldMapsOutliveDownload`), but nothing looks for it after a crash.

With positions outside the graph (`Fixes` with "offgraph") or the on-line messages, the model
reaches the NULL and dead pointers that `NoCrash` speaks of; the assumptions of `NeverCrashes`
name exactly what keeps the code away from them.

## 6. Proofs

The theorems about `Route` hold for every set of destinations and every number of messages and
waypoints, those about `Worker` for any producers, timers and limits,
those about `RouteFlood` for every graph, those about `MapDownload` for any files and size of the map, those
about `Navigation` for any streets, length of the path and levels, and those about `FileCache` for any data of any
lengths and a cache of any size.

| Theorem | Says | Assumes |
|---|---|---|
| `TypeCorrect` | `Spec => []TypeOK` | nothing but `RouteAssumption` |
| `NeverCrashes` | `Spec => []NoCrash` | `OnRoad`, `Offline`, `NoReuse` |
| `ChainAlwaysFollows` | `Spec => []ChainFollowsDestinations` | the same |
| `PathAlwaysHasItsGraph` | `Spec => []PathHasItsGraph` | the same |
| `StatusAlwaysTellsPath` | `Spec => []StatusTellsPath` | the same and `AlwaysFound` |
| `BusyAlwaysWhileBuilding` | `Spec => []BusyWhileBuilding` | `NoReuse` |
| `NotFoundAlwaysConclusive` | `Spec => NotFoundIsConclusive` | `NoReuse` |
| `StatusAlwaysHeals` | `Spec => StatusHeals` | `NoReuse` |
| `RouteImplementsGuidance` | `Spec => Guide!Spec` | `OnRoad`, `Offline`, `NoReuse`, `AlwaysFound` |
| `WorkerProofs!TypeCorrect` | `Spec => []TypeOK` | nothing but `WorkerAssumption` |
| `NeverSleepsWithWork` | `Spec => []NoSleepWithWork` | the same |
| `NewestFixNeverLost` | `Spec => []NewestFixReaches` | the same |
| `FixesAlwaysBounded` | `Spec => []FixesBounded` | the same |
| `OneShotsCalledOnce` | `Spec => []OneShotOnce` | the same |
| `RouteFloodProofs!TypeCorrect` | `Spec => []TypeOK` | nothing but `RouteFloodAssumption` |
| `PathAlwaysArrives` | `Spec /\ []PenaltyFits => []PathArrives` | `NoLoops`, `TwoStreets` |
| `CostsAlwaysDrives` | `Spec => []CostsAreDrives` | nothing but `RouteFloodAssumption` |
| `SettledAlwaysUntilCut` | `Spec => []SettledUntilCut` | the same |
| `FoundAlwaysIfReachable` | `Spec /\ DrivesFit => []FoundIfReachable` | the same |
| `NeverDrivenTwice` | `Spec => []NoWayTwice` | `NoLoops` |
| `WalkAlwaysShort` | `Spec => [](Len(path) <= 2 * N)` | `NoLoops` |
| `SumsNeverOverflow` | `Spec => []SumsFit` | `StreetsFit` |
| `PathAlwaysArrivesIfStreetsFit` | `Spec => []PathArrives` | `NoLoops`, `TwoStreets`, `StreetsFit` |
| `NavigationProofs!TypeCorrect` | `Spec => []TypeOK` | nothing but `NavigationAssumption` |
| `CommandsAlwaysAhead` | `Spec => []CommandsAhead` | the same |
| `NeverDangling` | `Spec => []NoDanglingCommand` | the same |
| `SaidAlwaysAsBelieved` | `Spec => []SaidAsBelieved` | the same |
| `MapDownloadProofs!TypeCorrect` | `Spec => []TypeOK` | nothing but `MapDownloadAssumption` |
| `DoneAlwaysInstalled` | `Spec => []DoneMeansInstalled` | the same |
| `InstalledAlwaysWhole` | `Spec => []InstalledWhole` | the same |
| `ProgressNeverStale` | `Spec => []NoStaleProgress` | the same |
| `OldMapsAlwaysOutlive` | `Spec => OldMapsOutliveDownload` | the same |
| `ServiceImplementsStore` | `Spec => Store!Spec` | the same |
| `FileCacheProofs!TypeCorrect` | `Spec => []TypeOK` | nothing but `FileCacheAssumption` |
| `HeldAlwaysStays` | `Spec => []HeldStays` | the same |
| `BooksAlwaysAgree` | `Spec => []Books` | the same |
| `EntriesAlwaysBounded` | `Spec => []EntriesBounded` | the same |
| `CacheImplementsPool` | `Spec => PoolPromise` | the same |

`OnRoad`: positions are matched to streets of the graph. `Offline`: no message of the on-line
engine. `NoReuse`: malloc does not return the block just freed. `AlwaysFound`: there is
a street near every destination. `NoLoops`: no segment ends where it starts. `TwoStreets`: position and
destination are on two streets. `PenaltyFits`: no cost comes so near to INT_MAX that adding the cost of a turn
would exceed it, which in C overflows. `DrivesFit`: the same, said of the graph alone: the best drive from each
segment, one more street and a turn stay below INT_MAX. All graphs of the run fulfil it. `StreetsFit`: the same,
said of the streets: 2N + 1 times the dearest of them and a turn stay below INT_MAX; it implies `PenaltyFits`, and the
run's graphs fulfil it, too. The runs that find violations show that the theorems need them.

**The argument.** None of the properties is inductive: they speak of the states between two
jobs, and a job goes through others. `IInv` adds what holds inside a job. `GraphInv` ties `pc` to
the graph (a leg is only computed with a live graph that is not being built and whose costs lead to
`current_dst`). `DstInv` keeps the destinations distinct and `current_dst` among them.
`ChainInv` is the heart: while legs are being linked the chain runs from `current_dst` to some
later destination without a hole (`Linked`); otherwise it starts at the first
destination (`Following`), with the one exception of the moment when a waypoint was dropped and
the first leg still starts there. The lemmas `LegToWaypointChain`, `LegToVehicleChain` and
`WaypointChain` show that the three steps that change the chain keep it so. `IInvStep`
has one step for each action. `StatusInv` and the invariant of
`BusyAlwaysWhileBuilding` follow on top of it.

For the worker, `NoSleepWithWork` speaks of the sleep only. `WakeInv` says why it holds: as long as no
interrupt is under way, a job that waits is in a queue the worker still has to come to before it can
sleep (`Ahead`), and timers, of which a round may leave some, keep it from sleeping. `FixesBounded` rests
on the sum of the positions that wait and the producers that have read a size and not offered yet.
`OneShotOnce` needs `OneShotInv`: a one-shot that still runs is asleep, because it stops running before it posts. That a
removed repeating timer is not called is the guard of `Timeout` itself, and no property.

`NotFoundIsConclusive` needs `SearchInv`: a leg is computed from a finished graph, a finished graph was flooded from
`current_dst`, a graph has the small roads if `try_harder` is set, and there is no path while one is being built.
`StatusHeals` needs `HealInv`: a graph under construction goes with no path and no "done", and once a job has computed
its leg, status and path agree. For the refinement `RefusedInv` adds that "not found" comes with a street and no path.

`PathArrives` is about the end of the search; `FloodInv` says why. `CostInv`: a way that has a cost may be driven, and
is on the destination's street or has a successor. `FromInv`: a successor has a cost, and may be entered where the way
before it ends. `PhaseInv`: there is no path before the flood is over. While the path is put together, `AheadInv` says that
the next way has a cost and begins where the path is, and `DrivenInv` that the path so far is joined and passable.

That the walk ends needs more than falling costs, for streets may cost nothing. `CircleInv` gives each way a rank: along
the successors costs do not rise and ranks fall. When the search spreads from a way, the ways it improves were dearer than
that way, and so all that are dearer can be ranked behind it. So no way comes twice (`NoWayTwice`), which bounds the rounds
of the loop by the number of ways. A flood that also takes a cost that is only equal closes circles (`RelaxNotStrictly`).
`BoundInv` says that each cost was made by a drive that has no way twice, and so is at most as many times the dearest
street as there are ways; the sums that `route_graph_flood` and `route_path_new` compare (`SumsFit`) therefore
stay below INT_MAX.

`ListInv` of `Navigation` says what holds between the rounds of the loop: entries in the hash table are positions
of the list and the last ones of their items (`HashInv`), the commands are those of the list until only its last entry is
left (`CmdsInv`), and the list begins with the car's street or a later pass of it (`FrontInv`), because an entry that is
found has the same direction and cannot lie behind (`LookUpStep`). `VoiceInv` ties
`level_last` and `item_last` to what was spoken: after a turn a command that is still ahead keeps its street at
its new position (`VoiceInvTurned`), and all others are only remembered by their street. That is why
`SaidAsBelieved` has an exception: nothing resets the two variables on such a path, and a new maneuver onto the street
of a command that was spoken before the turn is taken for announced and stays unsaid at that level.

`IInv` of `MapDownload` says that the temporary file is there while it is filled, closed
and put in the place of the old maps, and complete from its closing on (`OnCard`), that the notification `done` comes
with an installed map (`DoneInv`), and that all ways out of a download but two change its notification (`ProgressInv`).

The other theorems on the search compare it with `Least`, the costs of the best drives, which is a recursive function:
in each of as many rounds as there are ways the cost of each way is improved by one more street, unless nothing
improves. `LeastIsBest` proves that this is the least cost there is: no street undercuts it (`BestDrives`), and each
cost is that of a drive, whose ways have falling ranks (`Ranked`; the rank of a way is the last round that improved it).
A way of rank n needs one of rank n - 1, so ranks above the number of ways would need more ways than there are
(`RankSmall`). The provers cannot use the library's induction; each of these facts is proved by looking at the least
counterexample instead (`LeastNumber`). `LeastInv` then says that costs are never below the best ones, and
`DijkstraInv` that until the cut what left the heap is settled and was spread to the streets before it;
`CheaperIsSettled` is the usual argument, again with the way of least rank that is not settled. `FoundInv` adds why the cut
loses nothing: it is made when the position's street has a cost in a direction that may be driven (`CutFound`), and without
it all that is reachable was settled.

For `FileCache` the invariant is `CacheInv`. Its heart is `Well(c, X)`: the books of the cache agree, but for the entries
of `X`, which are in the hash table and for this moment in no list. The cache is not well between two of its
list operations, and `X` says by how much: `cache_remove_from_list` and `cache_remove_lru` add an entry to it (`Taken`),
`cache_insert_mru` and `cache_remove` take it out again (`Inserted`, `Removed`), and its length may only change in
between (`Resized`). Each function of `cache.c` has a lemma that composes these (`Moved`, `Forgot`, `Replaced`, `RoomMade`,
`Entered`, `Found`, `GhostFound`, `LookedUp`, `GivenBack`, `Flushed`), which also says which data left. That data in use
stay follows from `Used`: only resident data have users, and `LruUnused`. The sizes are compared with the number of bytes
of the entries, a set that has one element for each byte (`Weight`); so a sum over a list needs no recursion.
`EntriesBounded` needs that a read either replaces an entry, or found room (`FewFit` counts what fits), or had nothing
to evict (`crowded`).

**Only model-checked:** liveness, which is out of the prover's reach: `Answered`, `Served`, `RemovedEnds`, `Terminates`, and the
fairness in `GuidancePromise` and `StorePromise`, whose safety parts are proved. Every other property of the passing runs
is a theorem, some of them under the assumptions named above.

## 7. Not modelled

* **Worker:** its start (`StartMain`; only the time of the first sleep keeps jobs from running before it), `stop_me`
  (nothing calls it), the flag that draws the map only after the last of several motions, time, and the threads that
  call `CallbackGeoCalc` past the worker and read the route while it changes (a data race).
* **Route:** the geometry of a leg and the reuse of the old path's segments, traffic distortions, the demo mode and a
  map set without maps (the graph's construction then ends before `route->graph` is assigned).
* **Search:** turn restrictions, the through-traffic penalty, streets cut into several segments, and the arithmetic of
  `route_value_seg`. Segments that are loops are in neither the runs nor the theorem on paths
  (`NoLoops`): the code takes one that is driven backwards for one driven forward.
* **Turn instructions:** a driver who skips a street and turns round on the one behind it between two positions, and is
  then led back over both (the update is incremental, and all streets but the first keep the direction they
  had); where a maneuver is needed and how far it is (choices of the environment), the wording, the map
  of commands that others read, and the delay of announcements, which the shipped configuration does not set.
* **Map service:** progress in percent, messages, the closing of streams. The downloader of catalogue maps runs only
  from the introduction that appears while there is no map; the service that updates the application has the structure
  of the map service but replaces nothing.
* **Cache:** `cache_flush` (nothing calls it), statistics and dumps, reading before `file_cache_init`, files that are not
  plain, and other threads that read through it without a lock.
* **Callbacks:** no callback of the components modelled here changes the list it is called from, and `callback.c` has no
  other state.
* Tracking, drawing, search, configuration, speech and the user interface are computations on data or pure input and
  output and have no protocol of their own; `maptool` is a batch program that is not part of the running system.

## 8. What a continuation would take up

1. Readers of the route on other threads (`CallbackGeoCalc`), beside the jobs of `Worker`.
2. The search with turn restrictions and with streets cut into segments.
3. The arithmetic of `route_value_seg`, to say which maps fulfil `StreetsFit`.
