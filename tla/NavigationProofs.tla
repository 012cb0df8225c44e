-------------------------- MODULE NavigationProofs --------------------------
(***************************************************************************)
(* Theorems about Navigation, for any streets, paths and announcement      *)
(* levels.                                                                 *)
(***************************************************************************)
EXTENDS Navigation, SequenceTheorems, WellFoundedInduction, TLAPS

(* Only a bicycle may have a maneuver on the last entry.                    *)
TurnsInv == turns \subseteq 2..(IF bicycle THEN End ELSE Len(path))

(* What navigation_update has found out and not yet used.                   *)
UpdateInv ==
  /\ pc \in {"none", "new", "lost"} => upto = 0
  /\ pc = "new" => driven
  /\ pc \in {"lost", "found"} => IsStreet(at)
  /\ pc = "found" =>
       /\ from # 0 /\ from <= upto /\ at <= upto /\ IsStreet(upto)
       /\ back = {} => path[upto] = path[at]
       /\ back # {} => path[upto] \in back

(* The hash table knows the last entry in the list of an item, or none.     *)
HashInv ==
  \A x \in Items : hash[x] # 0 =>
    /\ from # 0 /\ from <= hash[x]
    /\ path[hash[x]].item = x
    /\ \A j \in (hash[x] + 1)..Len(path) : path[j].item # x

(* The commands are those of the list, until only its last entry is left:   *)
(* then one of them is already gone.                                        *)
CmdsInv ==
  /\ from \in 1..Len(path) => cmds = Commands(from)
  /\ from = End => cmds = IF End \in turns THEN {Final} ELSE {}
  /\ from = 0 => cmds \subseteq {Final} /\ (~bicycle => cmds = {})

(* A list that was brought up to date begins with a street of the path.     *)
FrontInv ==
  pc \in {"rest", "speak"} /\ from # 0 =>
    /\ from \in 1..Len(path) /\ from >= at
    /\ ~Repeats => from = at /\ back = {}

ListInv == TypeOK /\ TurnsInv /\ UpdateInv /\ HashInv /\ CmdsInv /\ FrontInv

-----------------------------------------------------------------------------
(* A set of naturals that is not empty has a least element.                 *)
LEMMA LeastExists ==
  ASSUME NEW S, S \subseteq Nat, S # {}
  PROVE  Min(S) \in S /\ \A y \in S : Min(S) <= y
<1> DEFINE R == {ss \in Nat \X Nat : ss[1] < ss[2]}
<1>1. IsWellFoundedOn(R, Nat)
  BY NatLessThanWellFounded, Zenon DEF OpToRel
<1> HIDE DEF R
<1>2. PICK x \in S : \A y \in S : ~ (<<y, x>> \in R)
  BY <1>1, WFMin, Zenon
<1>3. ASSUME NEW y \in S
      PROVE  x <= y
  <2>1. x \in Nat /\ y \in Nat /\ ~(<<y, x>> \in R)
    BY <1>2
  <2>2. ~(y < x)
    BY <2>1 DEF R
  <2> QED
    BY <2>1, <2>2
<1> QED
  BY <1>3 DEF Min

(* The least command. *)
LEMMA Next1Least ==
  ASSUME TypeOK, cmds # {}
  PROVE  Next1 \in cmds /\ \A c \in cmds : Next1 <= c
<1>1. cmds \subseteq Nat
  BY DEF TypeOK, Final
<1> QED
  BY <1>1, LeastExists DEF Next1

(* Streets have items, and only they. *)
LEMMA StreetsHaveItems ==
  ASSUME TypeOK, NEW i \in 1..Len(path)
  PROVE  /\ path[i].item \in Items \cup {NoItem}
         /\ IsStreet(i) <=> path[i].item \in Items
<1>1. path[i] \in Streets \cup {Via}
  BY DEF TypeOK
<1>2. path[i] = Via => path[i].item = NoItem
  BY DEF Via
<1>3. path[i] # Via => path[i] \in Streets /\ path[i].item \in Items
  BY <1>1 DEF Streets
<1> QED
  BY <1>2, <1>3, NavigationAssumption DEF IsStreet

LEMMA InitListInv == Init => ListInv
<1> SUFFICES ASSUME Init
             PROVE  ListInv
  OBVIOUS
<1>1. path = <<>> /\ Len(path) = 0 /\ path \in Seq(Streets \cup {Via})
  BY DEF Init
<1>2. TypeOK
  <2>1. turns \subseteq 2..End /\ at \in 0..Len(path) /\ from \in 0..End /\ cmds \subseteq 2..Final
    BY <1>1 DEF Init, End, Final
  <2>2. hash \in [Items -> 0..Len(path)]
    BY <1>1 DEF Init
  <2>3. told \in [cmd: 0..Final, item: Items \cup {NoItem}, level: 0..99]
    BY <1>1 DEF Init, NothingSaid, Final
  <2>4. levelLast \in -2..99
    BY DEF Init
  <2>5. upto \in 0..End /\ spoke \in {0, 1} /\ itemLast \in Items \cup {NoItem}
    BY <1>1 DEF Init, End
  <2> QED
    BY <1>1, <2>1, <2>2, <2>3, <2>4, <2>5 DEF Init, TypeOK
<1> QED
  BY <1>1, <1>2 DEF Init, ListInv, TurnsInv, UpdateInv, HashInv, CmdsInv, FrontInv, End

-----------------------------------------------------------------------------
(* One lemma for each action that changes the list or what was looked up.   *)
LEMMA StatusStep ==
  ASSUME ListInv, StatusNone \/ StatusNew \/ Flushed
  PROVE  ListInv'
<1>1. UNCHANGED <<path, turns, bicycle, at, back, from, cmds, hash, turnAround, levelLast,
                  itemLast, spoke, told>>
  BY DEF StatusNone, StatusNew, Flushed, route, listVars, voice
<1>2. TypeOK'
  <2>1. End' = End /\ Final' = Final
    BY <1>1 DEF End, Final
  <2>2. 0 \in 0..End
    BY DEF ListInv, TypeOK, End
  <2>3. upto' \in {0, upto} /\ driven' \in {TRUE, driven} /\ pc' \in {"none", "new", "rest"}
    BY DEF StatusNone, StatusNew, Flushed, voice
  <2> QED
    BY <1>1, <2>1, <2>2, <2>3 DEF ListInv, TypeOK
<1>3. TurnsInv' /\ HashInv' /\ CmdsInv'
  BY <1>1 DEF ListInv, TurnsInv, HashInv, CmdsInv, End, Final, Commands
<1>4. UpdateInv' /\ FrontInv'
  BY DEF ListInv, UpdateInv, FrontInv, StatusNone, StatusNew, Flushed, route, listVars, voice
<1> QED
  BY <1>2, <1>3, <1>4 DEF ListInv

(* An entry that was looked up has the way that was looked for.             *)
LEMMA EntryFound ==
  ASSUME ListInv, NEW w \in Streets, EntryOf(w) # 0
  PROVE  /\ EntryOf(w) \in 1..Len(path) /\ from <= EntryOf(w)
         /\ IsStreet(EntryOf(w)) /\ path[EntryOf(w)] = w
         /\ \A j \in (EntryOf(w) + 1)..Len(path) : path[j].item # w.item
<1> DEFINE e == hash[w.item]
<1>1. EntryOf(w) = e /\ e # 0 /\ path[e].dir = w.dir
  BY DEF EntryOf
<1>2. w.item \in Items /\ e \in 0..Len(path)
  BY DEF Streets, ListInv, TypeOK
<1>3. /\ from <= e /\ path[e].item = w.item
      /\ \A j \in (e + 1)..Len(path) : path[j].item # w.item
  BY <1>1, <1>2 DEF ListInv, HashInv
<1>4. e \in 1..Len(path) /\ IsStreet(e)
  BY <1>1, <1>2, <1>3, StreetsHaveItems DEF ListInv
<1>5. path[e] \in Streets
  BY <1>4 DEF IsStreet, ListInv, TypeOK
<1>6. path[e] = w
  BY <1>1, <1>3, <1>5 DEF Streets
<1> QED
  BY <1>1, <1>3, <1>4, <1>6

(* Looking up the first street of the path: an entry that is found does not *)
(* lie behind the car.                                                      *)
LEMMA LookUpStep ==
  ASSUME ListInv, from # 0, NEW k \in 1..Len(path), IsStreet(k), at' = k,
         NEW w \in Streets, LookUp(w), back' \subseteq {w},
         back' = {} => w = path[k],
         EntryOf(w) # 0 => k <= EntryOf(w)
  PROVE  ListInv'
<1>1. UNCHANGED <<path, turns, bicycle, from, cmds, hash, levelLast, itemLast, spoke, driven,
                  told>> /\ turnAround' \in BOOLEAN
  BY DEF LookUp, listVars, voice
<1>2. upto' = EntryOf(w) /\ pc' = (IF EntryOf(w) = 0 THEN "lost" ELSE "found")
  BY DEF LookUp
<1>3. Len(path) \in Nat /\ End' = End /\ Final' = Final
  BY <1>1 DEF ListInv, TypeOK, End, Final
<1>4. TypeOK'
  <2>1. upto' \in 0..End
    BY <1>2, <1>3, EntryFound DEF End
  <2>2. at' \in 0..Len(path)
    BY <1>3
  <2> QED
    BY <1>1, <1>2, <1>3, <2>1, <2>2 DEF ListInv, TypeOK
<1>5. UpdateInv'
  <2>1. IsStreet(at)'
    BY <1>1 DEF IsStreet
  <2>2. ASSUME EntryOf(w) # 0
        PROVE  /\ from <= EntryOf(w) /\ IsStreet(EntryOf(w)) /\ path[EntryOf(w)] = w
               /\ back' = {} => w = path[k]
               /\ back' # {} => w \in back'
    BY <2>2, EntryFound
  <2> QED
    BY <1>1, <1>2, <2>1, <2>2 DEF UpdateInv, IsStreet
<1>6. TurnsInv' /\ HashInv' /\ CmdsInv'
  BY <1>1 DEF ListInv, TurnsInv, HashInv, CmdsInv, End, Final, Commands
<1>7. FrontInv'
  BY <1>2 DEF FrontInv
<1> QED
  BY <1>4, <1>5, <1>6, <1>7 DEF ListInv

LEMMA IncrementalStep ==
  ASSUME ListInv, NEW k \in 1..MaxLen, StatusIncremental(k)
  PROVE  ListInv'
<1>1. /\ from # 0 /\ k >= at /\ IsStreet(k) /\ at' = k /\ back' = {}
      /\ LookUp(path[k])
  BY DEF StatusIncremental, ListInv, TypeOK
<1>2. k \in 1..Len(path) /\ path[k] \in Streets
  BY <1>1 DEF IsStreet, ListInv, TypeOK
<1>3. ASSUME EntryOf(path[k]) # 0
      PROVE  k <= EntryOf(path[k])
  <2>1. EntryOf(path[k]) \in 1..Len(path) /\ k \notin (EntryOf(path[k]) + 1)..Len(path)
    BY <1>2, <1>3, EntryFound
  <2> QED
    BY <1>2, <2>1
<1> QED
  BY <1>1, <1>2, <1>3, LookUpStep

LEMMA TurnedStep ==
  ASSUME ListInv, NEW k \in 1..MaxLen, NEW w \in Streets, StatusTurned(w, k)
  PROVE  ListInv'
<1>1. /\ pc = "rest" /\ from # 0 /\ k >= at /\ IsStreet(k) /\ at' = k /\ back' = {w}
      /\ LookUp(w) /\ (k = at \/ w \notin Passed(k))
  BY DEF StatusTurned, ListInv, TypeOK
<1>2. k \in 1..Len(path) /\ at \in 0..Len(path) /\ from \in 1..Len(path) /\ from >= at
  BY <1>1 DEF IsStreet, ListInv, TypeOK, FrontInv
<1>3. ASSUME EntryOf(w) # 0
      PROVE  k <= EntryOf(w)
  <2>1. EntryOf(w) \in 1..Len(path) /\ from <= EntryOf(w) /\ path[EntryOf(w)] = w
    BY <1>3, EntryFound
  <2>2. EntryOf(w) \in at..(k - 1) => w \in Passed(k)
    BY <2>1 DEF Passed
  <2> QED
    BY <1>1, <1>2, <2>1, <2>2
<1> QED
  BY <1>1, <1>2, <1>3, LookUpStep

(* What the pop of a command leaves is what belongs to the shorter list.    *)
LEMMA DestroyCommands ==
  ASSUME ListInv, DestroyFirst
  PROVE  CmdsInv'
<1>1. UNCHANGED <<path, turns, bicycle>> /\ End' = End /\ Final' = Final
  BY DEF DestroyFirst, route, End, Final
<1>2. Len(path) \in Nat /\ from \in 1..End /\ turns \subseteq 2..End /\ cmds \subseteq 2..Final
  BY DEF ListInv, TypeOK, DestroyFirst, End
<1>3. cmds' = IF from # End /\ cmds # {} /\ Position(Next1) = from + 1
                THEN cmds \ {Next1} ELSE cmds
  BY DEF DestroyFirst
<1>4. from' = IF from = End THEN 0 ELSE from + 1
  BY DEF DestroyFirst
<1>5. CASE from < Len(path)
  <2>1. cmds = Commands(from) /\ cmds # {}
    BY <1>2, <1>5 DEF ListInv, CmdsInv, Commands
  <2>2. Next1 \in cmds /\ \A c \in cmds : Next1 <= c
    BY <2>1, Next1Least DEF ListInv
  <2>3. Position(Next1) = from + 1 <=> Next1 = from + 1
    BY <1>2, <1>5, <2>2 DEF Position, End, Final
  <2>4. from + 1 \in turns <=> Next1 = from + 1
    <3>1. Next1 \in turns \/ Next1 = Final
      BY <2>1, <2>2 DEF Commands
    <3>2. Next1 > from /\ Final # from + 1
      BY <1>2, <1>5, <2>1, <2>2 DEF Commands, Final, End
    <3>3. ASSUME from + 1 \in turns
          PROVE  Next1 <= from + 1
      BY <3>3, <1>2, <2>1, <2>2 DEF Commands
    <3>4. Next1 \in Nat
      BY <1>2, <2>2 DEF Final
    <3> QED
      BY <1>2, <3>1, <3>2, <3>3, <3>4
  <2>5. cmds' = {c \in turns : c > from + 1} \cup {Final}
    <3>1. \A c \in turns : c \in Nat
      BY <1>2 DEF End
    <3>2. cmds = {c \in turns : c > from} \cup {Final} /\ Final # from + 1
      BY <1>2, <1>5, <2>1 DEF Commands, Final
    <3>3. cmds' = cmds \ {from + 1}
      BY <1>3, <2>1, <2>2, <2>3, <2>4, <1>2, <1>5, <3>2 DEF End, Commands
    <3>4. \A c \in turns : c > from + 1 <=> c > from /\ c # from + 1
      BY <1>2, <3>1
    <3> QED
      BY <3>2, <3>3, <3>4
  <2>7. from' = from + 1 /\ from' # End /\ from' # 0
    BY <1>2, <1>4, <1>5 DEF End
  <2>8. cmds' = {c \in turns : c > from'} \cup {Final}
    BY <2>5, <2>7
  <2> QED
    BY <1>1, <2>7, <2>8 DEF CmdsInv, Commands
<1>6. CASE from = Len(path)
  <2>1. cmds = (turns \cap {End}) \cup {Final}
    <3>1. from \in 1..Len(path)
      BY <1>2, <1>6
    <3>2. cmds = {c \in turns : c > from} \cup {Final}
      BY <3>1 DEF ListInv, CmdsInv, Commands
    <3>3. \A c \in turns : c > from <=> c = End
      BY <1>2, <1>6 DEF End
    <3> QED
      BY <3>2, <3>3
  <2>2. Next1 \in cmds /\ \A c \in cmds : Next1 <= c
    BY <2>1, Next1Least DEF ListInv
  <2>3. Position(Next1) = from + 1 /\ from # End
    BY <1>2, <1>6, <2>1, <2>2 DEF Position, End
  <2>4. cmds' = cmds \ {Next1}
    BY <1>3, <2>1, <2>3
  <2>5. Next1 = IF End \in turns THEN End ELSE Final
    BY <1>2, <2>1, <2>2 DEF End, Final
  <2>6. cmds' = IF End \in turns THEN {Final} ELSE {}
    BY <1>2, <2>1, <2>4, <2>5 DEF End, Final
  <2>7. from' = End /\ from' \notin 1..Len(path) /\ from' # 0
    BY <1>2, <1>4, <1>6, <2>3 DEF End
  <2> QED
    BY <1>1, <2>6, <2>7 DEF CmdsInv
<1>7. CASE from = End
  <2>1. cmds' = cmds /\ cmds = IF End \in turns THEN {Final} ELSE {}
    BY <1>3, <1>7 DEF ListInv, CmdsInv
  <2>2. ~bicycle => End \notin turns
    BY <1>2 DEF ListInv, TurnsInv, End
  <2>3. from' = 0 /\ from' # End' /\ from' \notin 1..Len(path)'
    BY <1>1, <1>2, <1>4, <1>7 DEF End
  <2> QED
    BY <1>1, <2>1, <2>2, <2>3 DEF CmdsInv
<1> QED
  BY <1>2, <1>5, <1>6, <1>7 DEF End

LEMMA DestroyStep ==
  ASSUME ListInv, DestroyFirst
  PROVE  ListInv'
<1>1. UNCHANGED <<path, turns, bicycle, at, back, turnAround, levelLast, itemLast, spoke, driven,
                  told, pc, upto>>
      /\ End' = End /\ Final' = Final
  BY DEF DestroyFirst, route, End, Final, voice
<1>2. Len(path) \in Nat /\ from \in 1..End /\ from # upto
  BY DEF ListInv, TypeOK, DestroyFirst, End
<1>3. from' = IF from = End THEN 0 ELSE from + 1
  BY DEF DestroyFirst
<1>4. hash' = IF IsStreet(from) THEN [hash EXCEPT ![path[from].item] = 0] ELSE hash
  BY DEF DestroyFirst
<1>5. hash \in [Items -> 0..Len(path)]
  BY DEF ListInv, TypeOK
<1>6. TypeOK'
  <2>1. hash' \in [Items -> 0..Len(path)]
    <3>1. 0 \in 0..Len(path)
      BY <1>2
    <3> QED
      BY <3>1, <1>4, <1>5
  <2>2. cmds' \subseteq 2..Final
    BY DEF ListInv, TypeOK, DestroyFirst
  <2>3. from' \in 0..End
    BY <1>2, <1>3 DEF End
  <2> QED
    BY <1>1, <2>1, <2>2, <2>3 DEF ListInv, TypeOK
<1>7. HashInv'
  <2> SUFFICES ASSUME NEW x \in Items, hash'[x] # 0
               PROVE  /\ from' # 0 /\ from' <= hash'[x]
                      /\ path[hash'[x]].item = x
                      /\ \A j \in (hash'[x] + 1)..Len(path) : path[j].item # x
    BY <1>1 DEF HashInv
  <2>1. hash'[x] = hash[x]
    BY <1>4, <1>5
  <2>2. hash[x] \in 1..Len(path) /\ from <= hash[x] /\ path[hash[x]].item = x
        /\ \A j \in (hash[x] + 1)..Len(path) : path[j].item # x
    BY <2>1, <1>5 DEF ListInv, HashInv
  <2>3. hash[x] # from
    <3> SUFFICES ASSUME hash[x] = from
                 PROVE  FALSE
      OBVIOUS
    <3>1. IsStreet(from) /\ path[from].item = x
      BY <2>2, StreetsHaveItems DEF ListInv
    <3> QED
      BY <1>4, <1>5, <3>1
  <2> QED
    BY <1>2, <1>3, <2>1, <2>2, <2>3 DEF End
<1>8. UpdateInv'
  <2>1. ASSUME pc = "found"
        PROVE  from' # 0 /\ from' <= upto
    <3>1. from <= upto /\ upto \in 1..Len(path)
      BY <2>1 DEF ListInv, UpdateInv, IsStreet
    <3> QED
      BY <3>1, <1>2, <1>3 DEF End
  <2> QED
    BY <1>1, <2>1 DEF ListInv, UpdateInv, IsStreet
<1>9. TurnsInv' /\ FrontInv'
  BY <1>1 DEF ListInv, TurnsInv, FrontInv, DestroyFirst
<1> QED
  BY <1>6, <1>7, <1>8, <1>9, DestroyCommands DEF ListInv

-----------------------------------------------------------------------------
(* A set of numbers with an upper bound has a greatest element.             *)
LEMMA GreatestExists ==
  ASSUME NEW n \in Nat, NEW S, S \subseteq 0..n, S # {}
  PROVE  \E m \in S : \A y \in S : y <= m
<1> DEFINE T == {n - y : y \in S}
<1>1. T \subseteq Nat /\ T # {}
  <2>1. \A y \in S : n - y \in Nat
    OBVIOUS
  <2>2. PICK y \in S : TRUE
    OBVIOUS
  <2>3. n - y \in T
    BY <2>2
  <2> QED
    BY <2>1, <2>3
<1> HIDE DEF T
<1>2. Min(T) \in T /\ \A y \in T : Min(T) <= y
  BY <1>1, LeastExists
<1>3. PICK m \in S : Min(T) = n - m
  BY <1>2 DEF T
<1>4. ASSUME NEW y \in S
      PROVE  y <= m
  <2>1. n - y \in T /\ n - m <= n - y
    BY <1>2, <1>3 DEF T
  <2>2. y \in 0..n /\ m \in 0..n
    OBVIOUS
  <2> QED
    BY <2>1, <2>2
<1> QED
  BY <1>4

(* A new hash table finds the last entry of an item.                        *)
LEMMA HashFromFindsLast ==
  ASSUME NEW p, Len(p) \in Nat, NEW i \in Nat, NEW x \in Items,
         HashFrom(p, i)[x] # 0
  PROVE  /\ HashFrom(p, i)[x] \in i..Len(p)
         /\ p[HashFrom(p, i)[x]].item = x
         /\ \A k \in (HashFrom(p, i)[x] + 1)..Len(p) : p[k].item # x
<1> DEFINE S == {k \in i..Len(p) : p[k].item = x}
           Last(k) == p[k].item = x /\ \A l \in (k + 1)..Len(p) : p[l].item # x
<1>1. HashFrom(p, i)[x] = IF \E k \in i..Len(p) : p[k].item = x
                           THEN CHOOSE k \in i..Len(p) : Last(k) ELSE 0
  BY DEF HashFrom
<1>2. S # {} /\ S \subseteq 0..Len(p)
  BY <1>1
<1>3. PICK m \in S : \A y \in S : y <= m
  BY <1>2, GreatestExists
<1>4. m \in i..Len(p) /\ p[m].item = x
  BY <1>3
<1>5. ASSUME NEW l \in (m + 1)..Len(p)
      PROVE  p[l].item # x
  <2>1. l \in i..Len(p) /\ ~(l <= m)
    BY <1>4
  <2> QED
    BY <1>3, <2>1
<1>6. \E k \in i..Len(p) : Last(k)
  BY <1>4, <1>5
<1>7. HashFrom(p, i)[x] = CHOOSE k \in i..Len(p) : Last(k)
  BY <1>1, <1>4
<1>8. HashFrom(p, i)[x] \in i..Len(p) /\ Last(HashFrom(p, i)[x])
  BY <1>6, <1>7
<1> QED
  BY <1>8

LEMMA HashFromType ==
  ASSUME NEW p, Len(p) \in Nat, NEW i \in Nat
  PROVE  HashFrom(p, i) \in [Items -> 0..Len(p)]
<1>1. ASSUME NEW x \in Items
      PROVE  HashFrom(p, i)[x] \in 0..Len(p)
  <2>1. CASE HashFrom(p, i)[x] = 0
    BY <2>1
  <2>2. CASE HashFrom(p, i)[x] # 0
    BY <2>2, HashFromFindsLast
  <2> QED
    BY <2>1, <2>2
<1> QED
  BY <1>1 DEF HashFrom

LEMMA FoundStep ==
  ASSUME ListInv, Found
  PROVE  ListInv'
<1>1. UNCHANGED <<path, turns, bicycle, at, back, from, cmds, hash, turnAround, levelLast,
                  itemLast, spoke, driven, told, upto>> /\ pc' = "speak"
      /\ End' = End /\ Final' = Final
  BY DEF Found, route, listVars, voice, End, Final
<1>2. TypeOK' /\ TurnsInv' /\ UpdateInv' /\ HashInv' /\ CmdsInv'
  BY <1>1 DEF ListInv, TypeOK, TurnsInv, UpdateInv, HashInv, CmdsInv, Commands
<1>3. from = upto /\ at <= from /\ from \in 1..Len(path) /\ at \in 1..Len(path)
      /\ IsStreet(from) /\ (back = {} => path[from] = path[at])
      /\ (back # {} => path[from] \in back)
  BY DEF Found, ListInv, UpdateInv, IsStreet
<1>4. ~Repeats => from = at /\ back = {}
  <2>1. CASE back = {}
    BY <1>3, <2>1 DEF Repeats
  <2>2. CASE back # {}
    <3>1. from \in at..Len(path) /\ path[from] \in back
      BY <1>3, <2>2
    <3> QED
      BY <3>1 DEF Repeats
  <2> QED
    BY <2>1, <2>2
<1>5. FrontInv'
  BY <1>1, <1>3, <1>4 DEF FrontInv, Repeats, IsStreet
<1> QED
  BY <1>2, <1>5 DEF ListInv

LEMMA BuildRestStep ==
  ASSUME ListInv, BuildRest
  PROVE  ListInv'
<1>1. UNCHANGED <<path, turns, bicycle, at, back, turnAround, levelLast, itemLast, spoke, driven,
                  told, upto>>
      /\ pc' = "speak" /\ from' = at /\ cmds' = Commands(at) /\ hash' = HashFrom(path, at)
      /\ End' = End /\ Final' = Final
  BY DEF BuildRest, route, voice, End, Final
<1>2. Len(path) \in Nat /\ at \in 1..Len(path) /\ turns \subseteq 2..End /\ back = {}
  BY DEF BuildRest, ListInv, TypeOK, UpdateInv, IsStreet
<1>3. TypeOK'
  <2>1. hash' \in [Items -> 0..Len(path)]
    BY <1>1, <1>2, HashFromType
  <2>2. cmds' \subseteq 2..Final
    <3>1. Final \in 2..Final /\ 2..End \subseteq 2..Final
      BY <1>2 DEF Final, End
    <3>2. Commands(at) \subseteq turns \cup {Final}
      BY DEF Commands
    <3> QED
      BY <1>1, <1>2, <3>1, <3>2
  <2>3. from' \in 0..End
    BY <1>1, <1>2 DEF End
  <2> QED
    BY <1>1, <2>1, <2>2, <2>3 DEF ListInv, TypeOK
<1>4. HashInv'
  <2> SUFFICES ASSUME NEW x \in Items, hash'[x] # 0
               PROVE  /\ at # 0 /\ at <= hash'[x]
                      /\ path[hash'[x]].item = x
                      /\ \A j \in (hash'[x] + 1)..Len(path) : path[j].item # x
    BY <1>1 DEF HashInv
  <2> QED
    BY <1>1, <1>2, HashFromFindsLast
<1>5. CmdsInv'
  BY <1>1, <1>2 DEF CmdsInv, Commands, End
<1>6. TurnsInv' /\ UpdateInv' /\ FrontInv'
  BY <1>1, <1>2 DEF ListInv, TurnsInv, UpdateInv, FrontInv
<1> QED
  BY <1>3, <1>4, <1>5, <1>6 DEF ListInv

LEMMA BuildNewStep ==
  ASSUME ListInv, NEW p \in Paths, NEW b \in BOOLEAN,
         NEW t \in SUBSET (2..(Len(p) + IF b THEN 1 ELSE 0)), BuildNew(p, t, b)
  PROVE  ListInv'
<1>1. UNCHANGED <<levelLast, itemLast, spoke, driven, upto>> /\ path' = p /\ turns' = t
      /\ bicycle' = b /\ at' = 1 /\ from' = 1 /\ turnAround' \in BOOLEAN
      /\ hash' = HashFrom(p, 1) /\ told' = NothingSaid /\ back' = {}
      /\ pc' = "speak"
      /\ cmds' = {c \in t : c > 1} \cup {Len(p) + 2}
      /\ End' = Len(p) + 1 /\ Final' = Len(p) + 2
  BY DEF BuildNew, Commands, End, Final
<1>2. Len(p) \in Nat \ {0} /\ p \in Seq(Streets \cup {Via})
  <2>1. PICK n \in 1..MaxLen : p \in [1..n -> Streets \cup {Via}]
    BY DEF Paths
  <2> QED
    BY <2>1, NavigationAssumption
<1>3. upto = 0
  BY DEF ListInv, UpdateInv, BuildNew
<1>4. t \subseteq 2..(Len(p) + 1) /\ (~b => t \subseteq 2..Len(p))
  BY <1>2
<1>5. TypeOK'
  <2>1. hash' \in [Items -> 0..Len(p)]
    BY <1>1, <1>2, HashFromType
  <2>2. cmds' \subseteq 2..(Len(p) + 2)
    <3>1. Len(p) + 2 \in 2..(Len(p) + 2) /\ 2..(Len(p) + 1) \subseteq 2..(Len(p) + 2)
      BY <1>2
    <3>2. cmds' \subseteq t \cup {Len(p) + 2}
      BY <1>1
    <3> QED
      BY <1>4, <3>1, <3>2
  <2>3. told' \in [cmd: 0..(Len(p) + 2), item: Items \cup {NoItem}, level: 0..99]
    BY <1>1, <1>2 DEF NothingSaid
  <2>4. from' \in 0..(Len(p) + 1) /\ at' \in 0..Len(p) /\ upto' \in 0..(Len(p) + 1)
    BY <1>1, <1>2, <1>3
  <2> QED
    BY <1>1, <1>2, <1>4, <2>1, <2>2, <2>3, <2>4 DEF ListInv, TypeOK
<1>6. HashInv'
  <2> SUFFICES ASSUME NEW x \in Items, hash'[x] # 0
               PROVE  /\ 1 <= hash'[x]
                      /\ p[hash'[x]].item = x
                      /\ \A j \in (hash'[x] + 1)..Len(p) : p[j].item # x
    BY <1>1 DEF HashInv
  <2> QED
    BY <1>1, <1>2, HashFromFindsLast
<1>7. CmdsInv'
  BY <1>1, <1>2 DEF CmdsInv, Commands
<1>8. TurnsInv' /\ UpdateInv' /\ FrontInv'
  BY <1>1, <1>2, <1>3, <1>4 DEF TurnsInv, UpdateInv, FrontInv
<1> QED
  BY <1>5, <1>6, <1>7, <1>8 DEF ListInv

(* The path after a turn: the way w, and what it leads to.                  *)
LEMMA TurnedPath ==
  ASSUME ListInv, NEW w \in Streets, NEW t \in SUBSET {2}, BuildTurned(w, t)
  PROVE  /\ at \in 1..Len(path) /\ Len(path') = Len(path) - at + 2
         /\ path' \in Seq(Streets \cup {Via})
<1>1. at \in 1..Len(path) /\ path \in Seq(Streets \cup {Via}) /\ Len(path) \in Nat
  BY DEF BuildTurned, ListInv, UpdateInv, IsStreet, TypeOK
<1>2. /\ SubSeq(path, at, Len(path)) \in Seq(Streets \cup {Via})
      /\ Len(SubSeq(path, at, Len(path))) = Len(path) - at + 1
  BY <1>1, SubSeqProperties
<1>3. <<w>> \in Seq(Streets \cup {Via}) /\ Len(<<w>>) = 1
  OBVIOUS
<1>4. path' = <<w>> \o SubSeq(path, at, Len(path))
  BY DEF BuildTurned
<1>5. /\ path' \in Seq(Streets \cup {Via})
      /\ Len(path') = 1 + Len(SubSeq(path, at, Len(path)))
  BY <1>2, <1>3, <1>4, ConcatProperties
<1> QED
  BY <1>1, <1>2, <1>5

LEMMA BuildTurnedStep ==
  ASSUME ListInv, NEW w \in Streets, NEW t \in SUBSET {2}, BuildTurned(w, t)
  PROVE  ListInv'
<1>1. UNCHANGED <<bicycle, turnAround, levelLast, itemLast, spoke, driven, upto>>
      /\ turns' = t \cup {c - at + 2 : c \in {c \in turns : c > at}}
      /\ at' = 1 /\ back' = {} /\ from' = 1 /\ hash' = HashFrom(path', 1) /\ pc' = "speak"
      /\ told' = [told EXCEPT !.cmd = IF @ > at THEN @ - at + 2 ELSE 0]
      /\ upto = 0
  BY DEF BuildTurned, ListInv, UpdateInv
<1>2. /\ Len(path) \in Nat /\ at \in 1..Len(path) /\ Len(path') = Len(path) - at + 2
      /\ path' \in Seq(Streets \cup {Via})
  BY TurnedPath DEF ListInv, TypeOK
<1>3. End' = Len(path') + 1 /\ Final' = Len(path') + 2 /\ End = Len(path) + 1
      /\ Final = Len(path) + 2
  BY DEF End, Final
<1>4. Len(path') \in Nat /\ Len(path') >= 2 /\ Len(path') <= Len(path) + 1
  BY <1>2
<1>5. turns' \subseteq 2..(IF bicycle THEN End' ELSE Len(path'))
  <2>1. ASSUME NEW c \in turns, c > at
        PROVE  c - at + 2 \in 2..(IF bicycle THEN End' ELSE Len(path'))
    <3>1. c \in 2..(IF bicycle THEN End ELSE Len(path))
      BY <2>1 DEF ListInv, TurnsInv
    <3> QED
      BY <1>2, <1>3, <2>1, <3>1
  <2>2. 2 \in 2..(IF bicycle THEN End' ELSE Len(path'))
    BY <1>3, <1>4
  <2> QED
    BY <1>1, <2>1, <2>2
<1>6. turns' \subseteq 2..End'
  BY <1>3, <1>4, <1>5
<1>7. cmds' = {c \in turns' : c > 1} \cup {Final'}
  BY DEF BuildTurned, Commands
<1>8. TypeOK'
  <2>1. hash' \in [Items -> 0..Len(path')]
    BY <1>1, <1>4, HashFromType
  <2>2. cmds' \subseteq 2..Final'
    <3>1. Final' \in 2..Final' /\ 2..End' \subseteq 2..Final'
      BY <1>3, <1>4
    <3>2. cmds' \subseteq turns' \cup {Final'}
      BY <1>7
    <3> QED
      BY <1>6, <3>1, <3>2
  <2>3. told' \in [cmd: 0..Final', item: Items \cup {NoItem}, level: 0..99]
    <3>1. told \in [cmd: 0..Final, item: Items \cup {NoItem}, level: 0..99]
      BY DEF ListInv, TypeOK
    <3>2. (IF told.cmd > at THEN told.cmd - at + 2 ELSE 0) \in 0..Final'
      BY <1>2, <1>3, <3>1
    <3> QED
      BY <1>1, <3>1, <3>2
  <2>4. from' \in 0..End' /\ at' \in 0..Len(path') /\ upto' \in 0..End'
    BY <1>1, <1>3, <1>4
  <2> QED
    BY <1>1, <1>2, <1>6, <2>1, <2>2, <2>3, <2>4 DEF ListInv, TypeOK
<1>9. HashInv'
  <2> SUFFICES ASSUME NEW x \in Items, hash'[x] # 0
               PROVE  /\ 1 <= hash'[x]
                      /\ path'[hash'[x]].item = x
                      /\ \A j \in (hash'[x] + 1)..Len(path') : path'[j].item # x
    BY <1>1 DEF HashInv
  <2> QED
    BY <1>1, <1>4, HashFromFindsLast
<1>10. CmdsInv'
  BY <1>1, <1>3, <1>4, <1>7 DEF CmdsInv, Commands
<1>11. TurnsInv' /\ UpdateInv' /\ FrontInv'
  BY <1>1, <1>4, <1>5 DEF TurnsInv, UpdateInv, FrontInv
<1> QED
  BY <1>8, <1>9, <1>10, <1>11 DEF ListInv

(* What is spoken concerns the list in nothing.                             *)
LEMMA SpeakStep ==
  ASSUME ListInv,
         \/ SayTurnAround
         \/ \E level \in 0..MaxLevel : \E cur \in 0..level : \E near, steady \in BOOLEAN :
              Announce(level, cur, near, steady)
  PROVE  ListInv'
<1>1. UNCHANGED <<path, turns, bicycle, at, back, from, cmds, hash, turnAround, upto>>
      /\ pc = "speak" /\ pc' = "rest"
  BY DEF SayTurnAround, Announce, route, listVars
<1>2. End' = End /\ Final' = Final
  BY <1>1 DEF End, Final
<1>3. TypeOK'
  <2>1. CASE SayTurnAround
    <3>1. levelLast' \in {4, levelLast} /\ spoke' \in {0, 1} /\ driven' \in BOOLEAN
          /\ UNCHANGED <<itemLast, told>>
      BY <2>1 DEF SayTurnAround, ListInv, TypeOK
    <3>2. levelLast' \in -2..99
      BY <3>1 DEF ListInv, TypeOK
    <3> QED
      BY <1>1, <1>2, <3>1, <3>2 DEF ListInv, TypeOK
  <2>2. ASSUME NEW level \in 0..MaxLevel, NEW cur \in 0..level,
               NEW near \in BOOLEAN, NEW steady \in BOOLEAN,
               Announce(level, cur, near, steady)
        PROVE  TypeOK'
    <3> DEFINE h == Heard(level, cur, near, steady)
    <3>1. level \in 0..99 /\ cur \in 0..99
      BY NavigationAssumption
    <3>2. h.level \in -2..99 /\ h.now \in 0..99 /\ h.speaks \in BOOLEAN
      <4>1. h.now \in {cur, level}
        BY DEF Heard
      <4>2. h.level \in {h.now, 99, levelLast}
        BY DEF Heard
      <4>3. h.speaks \in BOOLEAN
        BY DEF Heard
      <4>4. levelLast \in -2..99
        BY DEF ListInv, TypeOK
      <4>5. h.now \in 0..99
        BY <3>1, <4>1
      <4> HIDE DEF h
      <4> QED
        BY <4>2, <4>3, <4>4, <4>5
    <3> HIDE DEF h
    <3>3. CASE cmds = {}
      BY <1>1, <1>2, <2>2, <3>3 DEF ListInv, TypeOK, Announce
    <3>4. CASE cmds # {}
      <4>1. Next1 \in 2..Final
        BY <3>4, Next1Least DEF ListInv, TypeOK
      <4>2. ItemOf(Next1) \in Items \cup {NoItem}
        <5>1. CASE Position(Next1) = End
          BY <5>1 DEF ItemOf
        <5>2. CASE Position(Next1) # End
          <6>1. Next1 \in 1..Len(path) /\ Position(Next1) = Next1
            BY <4>1, <5>2 DEF Position, End, Final, ListInv, TypeOK
          <6> QED
            BY <5>2, <6>1, StreetsHaveItems DEF ItemOf, ListInv
        <5> QED
          BY <5>1, <5>2
      <4>3. told' \in [cmd: 0..Final, item: Items \cup {NoItem}, level: 0..99]
        <5>1. told.level \in 0..99 /\ told \in [cmd: 0..Final, item: Items \cup {NoItem}, level: 0..99]
          BY DEF ListInv, TypeOK
        <5>2. Min2(told.level, h.now) \in 0..99
          BY <3>2, <5>1 DEF Min2
        <5>3. Next1 \in 0..Final
          BY <4>1
        <5>4. told' = IF ~h.speaks THEN told
                      ELSE [cmd |-> Next1, item |-> ItemOf(Next1),
                            level |-> IF told.cmd = Next1 THEN Min2(told.level, h.now)
                                      ELSE h.now]
          BY <2>2, <3>4 DEF Announce, h
        <5> QED
          BY <3>2, <4>2, <5>1, <5>2, <5>3, <5>4
      <4>4. levelLast' = h.level /\ itemLast' = ItemOf(Next1) /\ driven' = FALSE
            /\ spoke' \in {0, 1}
        BY <2>2, <3>4 DEF Announce, h
      <4> QED
        BY <1>1, <1>2, <3>2, <4>2, <4>3, <4>4 DEF ListInv, TypeOK
    <3> QED
      BY <3>3, <3>4
  <2> QED
    BY <2>1, <2>2
<1>4. TurnsInv' /\ UpdateInv' /\ HashInv' /\ CmdsInv'
  <2>1. TurnsInv'
    BY <1>1, <1>2 DEF ListInv, TurnsInv
  <2>2. UpdateInv'
    BY <1>1 DEF UpdateInv
  <2>3. HashInv'
    BY <1>1 DEF ListInv, HashInv
  <2>4. CmdsInv'
    BY <1>1, <1>2 DEF ListInv, CmdsInv, Commands
  <2> QED
    BY <2>1, <2>2, <2>3, <2>4
<1>5. FrontInv'
  BY <1>1 DEF ListInv, FrontInv, Repeats, IsStreet
<1> QED
  BY <1>3, <1>4, <1>5 DEF ListInv

LEMMA ListInvStep == ListInv /\ [Next]_vars => ListInv'
<1> SUFFICES ASSUME ListInv, [Next]_vars
             PROVE  ListInv'
  OBVIOUS
<1>1. CASE UNCHANGED vars
  <2>1. TypeOK'
    <3>1. /\ UNCHANGED <<path, turns, bicycle, at, back, from, cmds, hash, turnAround,
                         levelLast, itemLast, spoke, driven, told, pc, upto>>
          /\ End' = End /\ Final' = Final
      BY <1>1 DEF vars, route, listVars, voice, End, Final
    <3> QED
      BY <3>1 DEF ListInv, TypeOK
  <2>2. TurnsInv'
    BY <1>1 DEF ListInv, TurnsInv, vars, route, End
  <2>3. UpdateInv'
    BY <1>1 DEF ListInv, UpdateInv, vars, route, listVars, voice, IsStreet
  <2>4. HashInv'
    BY <1>1 DEF ListInv, HashInv, vars, route, listVars
  <2>5. CmdsInv' /\ FrontInv'
    BY <1>1 DEF ListInv, CmdsInv, FrontInv, vars, route, listVars, End, Final, Commands,
                Repeats, IsStreet
  <2> QED
    BY <2>1, <2>2, <2>3, <2>4, <2>5 DEF ListInv
<1>2. CASE Next
  BY <1>2, StatusStep, IncrementalStep, DestroyStep, FoundStep, BuildRestStep,
     BuildNewStep, TurnedStep, BuildTurnedStep, SpeakStep DEF Next
<1> QED
  BY <1>1, <1>2

-----------------------------------------------------------------------------
(* Every variable always has its type. *)
THEOREM TypeCorrect == Spec => []TypeOK
<1>1. ListInv => TypeOK
  BY DEF ListInv
<1> QED
  BY <1>1, InitListInv, ListInvStep, PTL DEF Spec

(* The instructions are always those for what is ahead, and begin at the    *)
(* car unless a street is taken twice.                                      *)
THEOREM CommandsAlwaysAhead == Spec => []CommandsAhead
<1>1. ListInv => CommandsAhead
  BY DEF ListInv, CmdsInv, FrontInv, CommandsAhead
<1> QED
  BY <1>1, InitListInv, ListInvStep, PTL DEF Spec

(* A car is never left with a command of a list that was emptied.           *)
THEOREM NeverDangling == Spec => []NoDanglingCommand
<1>1. ListInv => NoDanglingCommand
  BY DEF ListInv, CmdsInv, NoDanglingCommand
<1> QED
  BY <1>1, InitListInv, ListInvStep, PTL DEF Spec

-----------------------------------------------------------------------------
(* What was said is about the item the code remembers; on a new path the    *)
(* code knows that it has said nothing.                                     *)
Remembered ==
  /\ told.item = itemLast /\ told.level <= levelLast
  /\ told.cmd # 0 => told.cmd \in turns \cup {Final} /\ ItemOf(told.cmd) = told.item

VoiceInv ==
  /\ pc = "speak" => from # 0
  /\ pc = "rest" /\ from # 0 =>
       ~driven /\ (levelLast < 4 => itemLast = ItemOf(Next1))
  /\ path # <<>> /\ ~driven /\ levelLast < 4 => Remembered

LEMMA VoiceInvAnnounce ==
  ASSUME ListInv, VoiceInv,
         NEW level \in 0..MaxLevel, NEW cur \in 0..level,
         NEW near \in BOOLEAN, NEW steady \in BOOLEAN,
         Announce(level, cur, near, steady)
  PROVE  VoiceInv'
<1> DEFINE h == Heard(level, cur, near, steady)
<1>1. UNCHANGED <<path, turns, from, cmds>> /\ pc = "speak" /\ pc' = "rest"
  BY DEF Announce, route, listVars
<1>2. Next1' = Next1 /\ Final' = Final /\ (\A c : ItemOf(c)' = ItemOf(c))
  BY <1>1 DEF Next1, Final, End, ItemOf, Position
<1>3. from \in 1..Len(path) /\ cmds = Commands(from)
  BY <1>1 DEF VoiceInv, ListInv, FrontInv, CmdsInv
<1>4. Next1 \in turns \cup {Final}
  BY <1>3, Next1Least DEF Commands, ListInv
<1>5. cmds # {}
  BY <1>3 DEF Commands
<1>6. /\ levelLast' = h.level /\ itemLast' = ItemOf(Next1) /\ driven' = FALSE
      /\ told' = IF ~h.speaks THEN told
                 ELSE [cmd |-> Next1, item |-> ItemOf(Next1),
                       level |-> IF told.cmd = Next1 THEN Min2(told.level, h.now) ELSE h.now]
  BY <1>5 DEF Announce
<1>7. h.now \in Nat /\ told.level \in Nat /\ levelLast \in Int
  <2>1. h.now \in {level, cur}
    BY DEF Heard
  <2>2. level \in Nat /\ cur \in Nat
    BY NavigationAssumption
  <2>3. told.level \in 0..99
    BY DEF ListInv, TypeOK
  <2>4. levelLast \in -2..99
    BY DEF ListInv, TypeOK
  <2> HIDE DEF h
  <2> QED
    BY <2>1, <2>2, <2>3, <2>4
<1>8. CASE h.speaks
  <2>1. h.level = h.now
    BY <1>8 DEF Heard
  <2> HIDE DEF h
  <2>2. told'.cmd = Next1 /\ told'.item = ItemOf(Next1) /\ told'.level <= levelLast'
    BY <1>6, <1>7, <1>8, <2>1 DEF Min2
  <2>3. Remembered'
    BY <1>1, <1>2, <1>4, <1>6, <2>2 DEF Remembered
  <2> QED
    BY <1>1, <1>2, <1>6, <2>3 DEF VoiceInv
<1>9. CASE ~h.speaks
  <2>1. h.level = 99 \/ (h.level = levelLast /\ ~driven /\ ItemOf(Next1) = itemLast)
    BY <1>9 DEF Heard
  <2> HIDE DEF h
  <2>2. told' = told
    BY <1>6, <1>9
  <2>3. CASE h.level = 99
    BY <1>1, <1>2, <1>6, <2>3 DEF VoiceInv
  <2>4. CASE h.level = levelLast /\ ~driven /\ ItemOf(Next1) = itemLast
    <3>1. Remembered => Remembered'
      BY <1>1, <1>2, <1>6, <2>2, <2>4 DEF Remembered
    <3> QED
      BY <1>1, <1>2, <1>6, <2>4, <3>1 DEF VoiceInv
  <2> QED
    BY <2>1, <2>3, <2>4
<1> QED
  BY <1>8, <1>9

(* A command that is still ahead after a turn keeps its street; the others  *)
(* are forgotten.                                                           *)
LEMMA VoiceInvTurned ==
  ASSUME ListInv, VoiceInv, NEW w \in Streets, NEW t \in SUBSET {2}, BuildTurned(w, t)
  PROVE  VoiceInv'
<1>1. /\ UNCHANGED <<levelLast, itemLast, driven>> /\ pc' = "speak" /\ from' = 1
      /\ turns' = t \cup {c - at + 2 : c \in {c \in turns : c > at}}
      /\ told' = [told EXCEPT !.cmd = IF @ > at THEN @ - at + 2 ELSE 0]
      /\ path' = <<w>> \o SubSeq(path, at, Len(path))
  BY DEF BuildTurned
<1>2. /\ at \in 1..Len(path) /\ Len(path) \in Nat /\ Len(path') = Len(path) - at + 2
      /\ path \in Seq(Streets \cup {Via}) /\ turns \subseteq 2..End
      /\ told \in [cmd: 0..Final, item: Items \cup {NoItem}, level: 0..99]
  BY TurnedPath DEF ListInv, TypeOK
<1>3. /\ End' = Len(path') + 1 /\ Final' = Len(path') + 2 /\ End = Len(path) + 1
      /\ Final = Len(path) + 2
  BY DEF End, Final
<1>4. ASSUME NEW j \in (at + 1)..Len(path)
      PROVE  path'[j - at + 2] = path[j]
  <2>1. /\ SubSeq(path, at, Len(path)) \in Seq(Streets \cup {Via})
        /\ Len(SubSeq(path, at, Len(path))) = Len(path) - at + 1
        /\ \A i \in 1..(Len(path) - at + 1) : SubSeq(path, at, Len(path))[i] = path[at + i - 1]
    BY <1>2, SubSeqProperties
  <2>2. <<w>> \in Seq(Streets \cup {Via}) /\ Len(<<w>>) = 1
    OBVIOUS
  <2>3. j - at + 2 \in 2..(Len(path) - at + 2) /\ j - at + 1 \in 1..(Len(path) - at + 1)
        /\ (j - at + 2) - 1 = j - at + 1 /\ at + (j - at + 1) - 1 = j
    BY <1>2
  <2>4. path'[j - at + 2] = SubSeq(path, at, Len(path))[j - at + 1]
    <3> DEFINE rest == SubSeq(path, at, Len(path))
               i == j - at + 2
    <3>1. /\ path' = <<w>> \o rest /\ rest \in Seq(Streets \cup {Via})
          /\ Len(<<w>>) = 1 /\ i \in (Len(<<w>>) + 1)..(Len(<<w>>) + Len(rest))
          /\ i - 1 = j - at + 1
      BY <1>1, <1>2, <2>1, <2>2, <2>3
    <3> HIDE DEF rest, i
    <3>2. (<<w>> \o rest)[i] = rest[i - Len(<<w>>)]
      BY <2>2, <3>1, ConcatProperties
    <3>3. path'[i] = rest[j - at + 1]
      BY <3>1, <3>2
    <3> QED
      BY <3>3 DEF i, rest
  <2> QED
    BY <2>1, <2>3, <2>4
<1>5. ASSUME NEW c \in (turns \cup {Final}), c > at, NEW n, n = c - at + 2
      PROVE  n \in turns' \cup {Final'} /\ ItemOf(n)' = ItemOf(c)
  <2>1. c \in (at + 1)..Final
    BY <1>2, <1>3, <1>5
  <2>2. CASE c \in (at + 1)..Len(path)
    <3>1. c \in turns /\ c # End /\ c # Final /\ n # End' /\ n # Final'
      BY <1>2, <1>3, <1>5, <2>2
    <3>2. ItemOf(n)' = path'[n].item /\ ItemOf(c) = path[c].item
      BY <3>1 DEF ItemOf, Position
    <3> QED
      BY <1>1, <1>4, <1>5, <2>2, <3>1, <3>2
  <2>3. CASE c = End
    <3>1. c \in turns /\ n = End' /\ End # Final /\ End' # Final'
      BY <1>2, <1>3, <1>5, <2>3
    <3>2. ItemOf(n)' = NoItem /\ ItemOf(c) = NoItem
      BY <2>3, <3>1 DEF ItemOf, Position
    <3> QED
      BY <1>1, <1>5, <3>1, <3>2
  <2>4. CASE c = Final
    <3>1. n = Final'
      BY <1>2, <1>3, <1>5, <2>4
    <3>2. ItemOf(n)' = NoItem /\ ItemOf(c) = NoItem
      BY <2>4, <3>1 DEF ItemOf, Position
    <3> QED
      BY <3>1, <3>2
  <2> QED
    BY <1>2, <1>3, <2>1, <2>2, <2>3, <2>4
<1>6. Remembered => Remembered'
  <2> SUFFICES ASSUME Remembered
               PROVE  Remembered'
    OBVIOUS
  <2>1. told'.item = itemLast' /\ told'.level <= levelLast' /\ told'.item = told.item
    BY <1>1, <1>2 DEF Remembered
  <2>2. told'.cmd = IF told.cmd > at THEN told.cmd - at + 2 ELSE 0
    BY <1>1, <1>2
  <2>3. ASSUME NEW n, n = told'.cmd, n # 0
        PROVE  n \in turns' \cup {Final'} /\ ItemOf(n)' = told'.item
    <3>1. told.cmd > at /\ told.cmd # 0 /\ n = told.cmd - at + 2
      BY <1>2, <2>2, <2>3
    <3>2. told.cmd \in turns \cup {Final} /\ ItemOf(told.cmd) = told.item
      BY <3>1 DEF Remembered
    <3> QED
      BY <1>5, <2>1, <3>1, <3>2
  <2>4. told'.cmd # 0 => ItemOf(told.cmd)' = told'.item
    BY <2>3 DEF ItemOf, Position
  <2> QED
    BY <2>1, <2>3, <2>4 DEF Remembered
<1>7. path # <<>>
  BY <1>2
<1> QED
  BY <1>1, <1>6, <1>7 DEF VoiceInv

LEMMA VoiceInvStep == ListInv /\ VoiceInv /\ [Next]_vars => VoiceInv'
<1> SUFFICES ASSUME ListInv, VoiceInv, [Next]_vars
             PROVE  VoiceInv'
  OBVIOUS
<1> USE DEF voice, route, listVars
<1>0. ASSUME UNCHANGED <<path, turns, itemLast, levelLast, told>>
      PROVE  Final' = Final /\ Remembered' = Remembered /\ (\A c : ItemOf(c)' = ItemOf(c))
  BY <1>0 DEF Final, End, Remembered, ItemOf, Position
<1>1. CASE StatusNone \/ StatusNew \/ Flushed
  BY <1>0, <1>1 DEF StatusNone, StatusNew, Flushed, VoiceInv
<1>2. ASSUME NEW k \in 1..MaxLen,
             StatusIncremental(k) \/ \E w \in Streets : StatusTurned(w, k)
      PROVE  VoiceInv'
  <2>1. UNCHANGED <<path, turns, from, voice>> /\ pc' \in {"lost", "found"}
    BY <1>2 DEF StatusIncremental, StatusTurned, LookUp
  <2> QED
    BY <1>0, <2>1 DEF VoiceInv
<1>3. CASE DestroyFirst
  BY <1>0, <1>3 DEF DestroyFirst, VoiceInv
<1>4. CASE Found
  <2>1. from # 0
    BY <1>4 DEF Found, ListInv, UpdateInv
  <2> QED
    BY <1>0, <1>4, <2>1 DEF Found, VoiceInv
<1>5. CASE BuildRest
  <2>1. at # 0
    BY <1>5 DEF BuildRest, ListInv, UpdateInv, IsStreet
  <2> QED
    BY <1>0, <1>5, <2>1 DEF BuildRest, VoiceInv
<1>6. ASSUME NEW p \in Paths, NEW b \in BOOLEAN,
             NEW t \in SUBSET (2..(Len(p) + IF b THEN 1 ELSE 0)), BuildNew(p, t, b)
      PROVE  VoiceInv'
  BY <1>6 DEF BuildNew, VoiceInv, ListInv, UpdateInv
<1>7. CASE SayTurnAround
  <2>1. cmds # {}
    BY <1>7 DEF SayTurnAround, VoiceInv, ListInv, FrontInv, CmdsInv, Commands
  <2>2. levelLast' = 4 /\ driven' = FALSE /\ pc' = "rest"
    BY <1>7, <2>1 DEF SayTurnAround
  <2> QED
    BY <2>2 DEF VoiceInv
<1>8. CASE UNCHANGED vars
  BY <1>0, <1>8 DEF vars, VoiceInv, Next1
<1>9. ASSUME NEW w \in Streets, NEW t \in SUBSET {2}, BuildTurned(w, t)
      PROVE  VoiceInv'
  BY <1>9, VoiceInvTurned
<1> QED
  BY <1>1, <1>2, <1>3, <1>4, <1>5, <1>6, <1>7, <1>8, <1>9, VoiceInvAnnounce DEF Next

(* Whenever the code believes that the next command was announced, the one  *)
(* that was spoken last is on the same street, and it is this command, or   *)
(* was spoken before the driver turned round, if no two commands are on the *)
(* same street.                                                             *)
THEOREM SaidAlwaysAsBelieved == Spec => []SaidAsBelieved
<1>1. Init => VoiceInv
  BY DEF Init, VoiceInv
<1>2. ListInv /\ VoiceInv => SaidAsBelieved
  <2> SUFFICES ASSUME ListInv, VoiceInv, pc = "rest", from # 0, levelLast < 4
               PROVE  /\ told.item = ItemOf(Next1) /\ told.level <= levelLast
                      /\ DistinctItems => told.cmd \in {Next1, 0}
    BY DEF SaidAsBelieved
  <2>1. from \in 1..Len(path) /\ cmds = Commands(from)
    BY DEF ListInv, FrontInv, CmdsInv
  <2>2. Next1 \in turns \cup {Final}
    BY <2>1, Next1Least DEF Commands, ListInv
  <2>3. path # <<>>
    BY <2>1
  <2>4. Remembered /\ itemLast = ItemOf(Next1)
    BY <2>3 DEF VoiceInv
  <2> QED
    BY <2>2, <2>4 DEF DistinctItems, Remembered
<1> QED
  BY <1>1, <1>2, InitListInv, ListInvStep, VoiceInvStep, PTL DEF Spec

=============================================================================
