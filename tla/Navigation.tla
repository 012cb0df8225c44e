----------------------------- MODULE Navigation -----------------------------
(***************************************************************************)
(* The list of turn instructions that goes with the route, and what is     *)
(* spoken of it (navigation.c).  The route announces its status from the   *)
(* worker thread; navigation_update drops what lies behind the car from    *)
(* the list, or makes it anew, and navigation_call_callbacks decides       *)
(* whether the next command is spoken.  A loop round of                    *)
(* navigation_destroy_itms_cmds is a step; "pc" tells what comes after it. *)
(* Where a maneuver is needed and how far the next one is (geometry) are   *)
(* choices of the environment.                                             *)
(*                                                                         *)
(* Left out: a driver who skips a street and turns round on the one after  *)
(* it between two positions.  If he is then led back over both, the update *)
(* is incremental, and all streets but the first keep their old direction. *)
(***************************************************************************)
EXTENDS Integers, Sequences, FiniteSets, FiniteSetsExt

CONSTANTS
  Items,    \* items of the map: streets
  NoItem,   \* the item of a waypoint or of the end of the list: zero
  Dirs,     \* the directions of a street: 1 and -1
  WayDir,   \* the direction of a waypoint: 99
  MaxLevel, \* the level of the farthest announcement: 3
  MaxLen    \* bound of the model: streets and waypoints on a path

ASSUME NavigationAssumption ==
  /\ IsFiniteSet(Items) /\ NoItem \notin Items
  /\ WayDir \notin Dirs
  /\ MaxLevel \in 0..3 /\ MaxLen \in Nat

VARIABLES
  path,        \* what the route map shows: streets and waypoints up to the end
  turns,       \* where on it maneuver_required2 finds a maneuver
  bicycle,     \* global_vehicle_profile is 1 or 2
  at,          \* the first street of the route map: where the car is
  back,        \* the way driven before that one by who turned round, or none
  from,        \* this_->first; the list goes from there to the end (0: empty)
  cmds,        \* the list this_->cmd_first
  hash,        \* this_->hash: the position of an item in the list (0: none)
  turnAround,  \* this_->turn_around is at its limit
  levelLast,   \* this_->level_last
  itemLast,    \* this_->item_last
  spoke,       \* global_spoke_last_position_update
  driven,      \* global_driven_away_from_route
  pc,          \* what navigation_update is doing
  upto,        \* the entry that is destroyed up to (0: all)
  told         \* history: the command last spoken (0: none of this list),
               \* its item and at what level it was spoken

route == <<path, turns, bicycle, at, back>>
listVars == <<from, cmds, hash>>
voice == <<levelLast, itemLast, spoke, driven, told>>
vars == <<route, listVars, turnAround, voice, pc, upto>>

Via == [item |-> NoItem, dir |-> WayDir]

Streets == [item: Items, dir: Dirs]

(* A waypoint lies between two streets.                                     *)
Paths ==
  {p \in UNION {[1..n -> Streets \cup {Via}] : n \in 1..MaxLen} :
     p[1] # Via /\ p[Len(p)] # Via}

(* The entry after the last street, of which the final command is, and that *)
(* command: it comes behind another one that may be there.                  *)
End == Len(path) + 1
Final == Len(path) + 2

IsStreet(i) == i \in 1..Len(path) /\ path[i] # Via

Position(c) == IF c = Final THEN End ELSE c

ItemOf(c) == IF Position(c) = End THEN NoItem ELSE path[Position(c)].item

(* make_maneuvers for a list that begins with i.                            *)
Commands(i) == {c \in turns : c > i} \cup {Final}

(* cmd_first *)
Next1 == Min(cmds)

NothingSaid == [cmd |-> 0, item |-> NoItem, level |-> 99]

Init ==
  /\ path = <<>> /\ turns = {} /\ bicycle = FALSE /\ at = 0 /\ back = {}
  /\ from = 0 /\ cmds = {} /\ hash = [i \in Items |-> 0]
  /\ turnAround = FALSE /\ levelLast = -2 /\ itemLast = NoItem
  /\ spoke = 0 /\ driven = FALSE
  /\ pc = "rest" /\ upto = 0
  /\ told = NothingSaid

-----------------------------------------------------------------------------
(* no_destination or not_found: navigation_flush.  So does a path that has  *)
(* no street (yet, or any more).                                            *)
StatusNone ==
  /\ pc = "rest"
  /\ pc' = "none" /\ upto' = 0
  /\ UNCHANGED <<route, listVars, turnAround, voice>>

(* Mutant: nobody remembers that the path is new.                           *)
StatusNewUnnoticed ==
  /\ pc = "rest"
  /\ pc' = "new" /\ upto' = 0
  /\ UNCHANGED <<route, listVars, turnAround, voice>>

(* path_done_new: navigation_flush, and a list of the new path.             *)
StatusNew ==
  /\ pc = "rest"
  /\ pc' = "new" /\ upto' = 0 /\ driven' = TRUE
  /\ UNCHANGED <<route, listVars, turnAround,
                 levelLast, itemLast, spoke, told>>

(* Mutant: the direction is not compared.                                   *)
EntryAnyDirection(w) == hash[w.item]

(* The entry of the list with the item of the way w, if it is driven in the *)
(* same direction.                                                          *)
EntryOf(w) ==
  LET e == hash[w.item] IN IF e # 0 /\ path[e].dir = w.dir THEN e ELSE 0

(* navigation_update looks for the first street of the path in the list.    *)
LookUp(w) ==
  /\ turnAround' \in BOOLEAN
  /\ upto' = EntryOf(w)
  /\ pc' = IF EntryOf(w) = 0 THEN "lost" ELSE "found"
  /\ UNCHANGED <<path, turns, bicycle, listVars, voice>>

(* path_done_incremental: the streets of the path were on the last one.     *)
(* From the k-th street on it is that one, up to a waypoint at least; the   *)
(* driver is there,                                                         *)
StatusIncremental(k) ==
  /\ pc = "rest" /\ from # 0
  /\ k >= at /\ \A j \in at..k : IsStreet(j)
  /\ at' = k /\ back' = {}
  /\ LookUp(path[k])

(* or drives back to it over a street that was on the last path, in the     *)
(* other direction (only the first street gets a new one), or still does.   *)
Passed(k) == {path[j] : j \in at..(k - 1)} \cup back

StatusTurned(w, k) ==
  /\ pc = "rest" /\ from # 0
  /\ k >= at /\ \A j \in at..k : IsStreet(j)
  /\ \/ w \in back /\ k = at
     \/ w \notin Passed(k) /\ \E v \in Passed(k) : v.item = w.item
  /\ at' = k /\ back' = {w}
  /\ LookUp(w)

(* Mutant: the end of the list is not noticed.                              *)
DestroyFirstPastEnd ==
  /\ pc \in {"none", "new", "found", "lost"}
  /\ from # 0 /\ from # upto
  /\ hash' = IF IsStreet(from) THEN [hash EXCEPT ![path[from].item] = 0] ELSE hash
  /\ cmds' = IF cmds # {} /\ Position(Next1) = from + 1 THEN cmds \ {Next1} ELSE cmds
  /\ from' = from + 1
  /\ UNCHANGED <<route, turnAround, voice, pc, upto>>

(* Mutant: the command on the last entry is not freed.                      *)
DestroyFirstSparesFinal ==
  /\ pc \in {"none", "new", "found", "lost"}
  /\ from # 0 /\ from # upto
  /\ hash' = IF IsStreet(from) THEN [hash EXCEPT ![path[from].item] = 0] ELSE hash
  /\ cmds' = IF from = End THEN cmds ELSE cmds \ {from + 1}
  /\ from' = IF from = End THEN 0 ELSE from + 1
  /\ UNCHANGED <<route, turnAround, voice, pc, upto>>

(* A round of navigation_destroy_itms_cmds: the first entry goes, whatever  *)
(* the hash table knows of its item, and a command on the entry behind it.  *)
DestroyFirst ==
  /\ pc \in {"none", "new", "found", "lost"}
  /\ from # 0 /\ from # upto
  /\ hash' = IF IsStreet(from) THEN [hash EXCEPT ![path[from].item] = 0] ELSE hash
  /\ cmds' = IF from # End /\ cmds # {} /\ Position(Next1) = from + 1
               THEN cmds \ {Next1} ELSE cmds
  /\ from' = IF from = End THEN 0 ELSE from + 1
  /\ UNCHANGED <<route, turnAround, voice, pc, upto>>

Flushed ==
  /\ pc = "none" /\ from = 0
  /\ pc' = "rest"
  /\ UNCHANGED <<route, listVars, turnAround, voice, upto>>

-----------------------------------------------------------------------------
(* navigation_itm_new for the path p from its i-th entry on: an item that   *)
(* comes twice replaces the first in the hash table.                        *)
HashFrom(p, i) ==
  [x \in Items |->
     IF \E j \in i..Len(p) : p[j].item = x
       THEN CHOOSE j \in i..Len(p) :
              p[j].item = x /\ \A k \in (j + 1)..Len(p) : p[k].item # x
       ELSE 0]

(* Every entry but the first may need a maneuver; the one at the end only   *)
(* for bicycles.                                                            *)
BuildNew(p, t, b) ==
  /\ pc = "new" /\ from = 0
  /\ path' = p /\ turns' = t /\ bicycle' = b
  /\ at' = 1 /\ back' = {} /\ from' = 1
  /\ turnAround' \in BOOLEAN
  /\ hash' = HashFrom(p, 1)
  /\ cmds' = Commands(1)'
  /\ told' = NothingSaid
  /\ pc' = "speak"
  /\ UNCHANGED <<levelLast, itemLast, spoke, driven, upto>>

(* The list of a path that is not new, but was not found.                   *)
BuildRest ==
  /\ pc = "lost" /\ from = 0 /\ back = {}
  /\ from' = at
  /\ hash' = HashFrom(path, at)
  /\ cmds' = Commands(at)
  /\ pc' = "speak"
  /\ UNCHANGED <<route, turnAround, voice, upto>>

(* The same after a turn: the way w comes first, and may be followed by a   *)
(* new maneuver.  Nobody resets what is known of the last command spoken,   *)
(* which may have been on a street that lies no longer ahead.               *)
BuildTurned(w, t) ==
  /\ pc = "lost" /\ from = 0 /\ w \in back
  /\ path' = <<w>> \o SubSeq(path, at, Len(path))
  /\ turns' = t \cup {c - at + 2 : c \in {c \in turns : c > at}}
  /\ at' = 1 /\ back' = {} /\ from' = 1
  /\ hash' = HashFrom(path', 1)
  /\ cmds' = Commands(1)'
  /\ told' = [told EXCEPT !.cmd = IF @ > at THEN @ - at + 2 ELSE 0]
  /\ pc' = "speak"
  /\ UNCHANGED <<bicycle, turnAround, levelLast, itemLast, spoke, driven, upto>>

Found ==
  /\ pc = "found" /\ from = upto
  /\ pc' = "speak"
  /\ UNCHANGED <<route, listVars, turnAround, voice, upto>>

-----------------------------------------------------------------------------
(* navigation_call_callbacks: "turn around" is said instead of a command.   *)
SayTurnAround ==
  /\ pc = "speak" /\ turnAround
  /\ pc' = "rest"
  /\ IF cmds = {}
       THEN spoke' = 0 /\ UNCHANGED <<levelLast, driven>>
       ELSE spoke' = 1 /\ levelLast' = 4 /\ driven' = FALSE
  /\ UNCHANGED <<route, listVars, turnAround, itemLast, told, upto>>

(* What becomes of level_last, and whether the command is spoken: it has    *)
(* come nearer, for some time in a car, or it is another street's.          *)
Heard(level, cur, near, steady) ==
  LET nearer == level < levelLast
      lowered == nearer /\ IF bicycle THEN ~(cur > 0 /\ spoke > 0) ELSE steady
      newItem == ItemOf(Next1) # itemLast
      now == IF bicycle /\ nearer THEN cur ELSE level
      speaks == (lowered \/ newItem) /\ (~near \/ bicycle)
  IN  [level |-> IF speaks THEN now
                 ELSE IF driven \/ newItem \/ (near /\ lowered) THEN 99
                 ELSE levelLast,
       now |-> now, speaks |-> speaks]

Min2(a, b) == IF a <= b THEN a ELSE b

(* navigation_call_callbacks for the next command: "level" and "cur" are    *)
(* its level with and without the street before it, "near" that the car is  *)
(* still beside the last one, "steady" that the level will last.            *)
Announce(level, cur, near, steady) ==
  /\ pc = "speak" /\ ~turnAround
  /\ pc' = "rest"
  /\ IF cmds = {}
       THEN spoke' = 0 /\ UNCHANGED <<levelLast, itemLast, driven, told>>
       ELSE LET h == Heard(level, cur, near, steady) IN
            /\ levelLast' = h.level
            /\ itemLast' = ItemOf(Next1)
            /\ driven' = FALSE
            /\ spoke' = IF h.speaks THEN 1 ELSE 0
            /\ told' = IF ~h.speaks THEN told
                       ELSE [cmd |-> Next1, item |-> ItemOf(Next1),
                             level |-> IF told.cmd = Next1 THEN Min2(told.level, h.now)
                                       ELSE h.now]
  /\ UNCHANGED <<route, listVars, turnAround, upto>>

Next ==
  \/ StatusNone \/ StatusNew
  \/ \E k \in 1..MaxLen :
       StatusIncremental(k) \/ \E w \in Streets : StatusTurned(w, k)
  \/ DestroyFirst \/ Flushed \/ Found \/ BuildRest
  \/ \E w \in Streets, t \in SUBSET {2} : BuildTurned(w, t)
  \/ \E p \in Paths, b \in BOOLEAN :
       \E t \in SUBSET (2..(Len(p) + IF b THEN 1 ELSE 0)) : BuildNew(p, t, b)
  \/ SayTurnAround
  \/ \E level \in 0..MaxLevel : \E cur \in 0..level : \E near, steady \in BOOLEAN :
       Announce(level, cur, near, steady)

Spec == Init /\ [][Next]_vars

-----------------------------------------------------------------------------
(* Every variable has its type.                                             *)
TypeOK ==
  /\ path \in Seq(Streets \cup {Via}) /\ turns \subseteq 2..End
  /\ bicycle \in BOOLEAN /\ at \in 0..Len(path) /\ back \subseteq Streets
  /\ from \in 0..End /\ cmds \subseteq 2..Final
  /\ hash \in [Items -> 0..Len(path)]
  /\ turnAround \in BOOLEAN /\ driven \in BOOLEAN
  /\ levelLast \in -2..99 /\ itemLast \in Items \cup {NoItem}
  /\ spoke \in {0, 1} /\ upto \in 0..End
  /\ pc \in {"rest", "none", "new", "found", "lost", "speak"}
  /\ told \in [cmd: 0..Final, item: Items \cup {NoItem}, level: 0..99]

(* A command belongs to an entry of the list: when the list was emptied no  *)
(* command is left that points into it.  A bicycle may have two commands on *)
(* the last entry, of which only one is freed.                              *)
NoDanglingCommand == pc = "rest" /\ from = 0 /\ ~bicycle => cmds = {}

(* A street is taken twice in the same direction.                           *)
Repeats ==
  \/ \E i, j \in 1..Len(path) : i # j /\ path[i] = path[j] /\ IsStreet(i)
  \/ \E i \in at..Len(path) : path[i] \in back

(* Between two updates the list is never behind the car, its commands are   *)
(* those of the streets in it, and unless the path takes a street twice in  *)
(* the same direction it begins with the street the car is on, also when    *)
(* the driver has turned round.                                             *)
CommandsAhead ==
  pc = "rest" /\ from # 0 =>
    /\ from >= at
    /\ cmds = Commands(from)
    /\ ~Repeats => from = at /\ back = {}

(* No two commands are on the same street, or on none.                      *)
DistinctItems ==
  \A c, d \in turns \cup {Final} : ItemOf(c) = ItemOf(d) => c = d

(* When the code believes that the next command was announced at a level, a *)
(* command on its street was spoken at this level or nearer; it was this    *)
(* command and not one before it, unless it was spoken before the driver    *)
(* turned round (told.cmd = 0): a new maneuver onto the street of a command *)
(* that was spoken then is taken for announced.                             *)
SaidAsBelieved ==
  pc = "rest" /\ from # 0 /\ levelLast < 4 =>
    /\ told.item = ItemOf(Next1) /\ told.level <= levelLast
    /\ DistinctItems => told.cmd \in {Next1, 0}
=============================================================================
