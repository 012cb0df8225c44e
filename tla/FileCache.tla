------------------------------ MODULE FileCache -----------------------------
(***************************************************************************)
(* The cache of file contents (cache.c), an adaptive replacement cache      *)
(* whose entries are counted by their users, and the functions that read    *)
(* through it (file.c).  T1 and T2 hold data that were asked for once and   *)
(* more than once; B1 and B2 hold ghosts: the headers of what was evicted   *)
(* from them.  The model begins when the cache has been made               *)
(* (file_cache_init) and has one thread, the worker.                        *)
(***************************************************************************)
EXTENDS Integers, Sequences, FiniteSets, FiniteSetsExt

CONSTANTS
  Ids,         \* struct file_cache_id: file, offset, length
  Compressed,  \* those that are inflated (file_data_read_compressed)
  Bytes,       \* the length of the data of each
  Header,      \* entry_size: the length of an entry without data
  Size,        \* cache_size_file
  MaxHeld      \* bound of the model: the data a caller holds at a time

ASSUME FileCacheAssumption ==
  /\ IsFiniteSet(Ids) /\ Ids # {}
  /\ Compressed \subseteq Ids
  /\ Bytes \in [Ids -> Nat \ {0}]
  /\ Header \in Nat \ {0}
  /\ Size \in Nat \ {0}
  /\ MaxHeld \in Nat

VARIABLES
  cache,    \* struct cache, and the entries in it
  held,     \* how often the callers hold each of the data
  wrecked,  \* the heap was damaged
  crowded   \* history: something was read though all that could go was in use

vars == <<cache, held, wrecked, crowded>>

Lists == {"t1", "b1", "t2", "b2"}
Ghosts == [t1 |-> "b1", t2 |-> "b2"]

(* Lists have their most recently used entry first.                         *)
Empty ==
  [list |-> [l \in Lists |-> <<>>], size |-> [l \in Lists |-> 0],
   where |-> [e \in Ids |-> "none"], hash |-> {},
   bytes |-> [e \in Ids |-> 0], usage |-> [e \in Ids |-> 0],
   target |-> 0, insert |-> "none"]

Init == cache = Empty /\ held = [e \in Ids |-> 0] /\ wrecked = FALSE /\ crowded = FALSE

-----------------------------------------------------------------------------
Bigger(a, b) == IF a >= b THEN a ELSE b
Smaller(a, b) == IF a <= b THEN a ELSE b

InsertMru(c, l, e) ==
  [c EXCEPT !.list[l] = <<e>> \o @, !.size[l] = @ + c.bytes[e], !.where[e] = l]

RemoveFromList(c, l, e) ==
  LET s == c.list[l]
      i == CHOOSE i \in DOMAIN s : s[i] = e
  IN  [c EXCEPT !.list[l] = SubSeq(s, 1, i - 1) \o SubSeq(s, i + 1, Len(s)),
                !.size[l] = @ - c.bytes[e]]

(* The entry is freed.                                                      *)
Remove(c, e) ==
  [c EXCEPT !.hash = @ \ {e}, !.where[e] = "none", !.bytes[e] = 0, !.usage[e] = 0]

(* Mutant: the use counts are not asked.                                    *)
UnusedOrNot(c, l) == DOMAIN c.list[l]

Unused(c, l) == {i \in DOMAIN c.list[l] : c.usage[c.list[l][i]] = 0}

(* The least recently used entry that nobody uses; the used ones behind it  *)
(* have become the most recently used.                                      *)
Lru(c, l) == c.list[l][Max(Unused(c, l))]

RemoveLru(c, l) ==
  LET i == Max(Unused(c, l))
      s == c.list[l]
  IN  [c EXCEPT !.list[l] = SubSeq(s, i + 1, Len(s)) \o SubSeq(s, 1, i - 1),
                !.size[l] = @ - c.bytes[s[i]]]

Forget(c, l) ==
  IF Unused(c, l) = {} THEN c ELSE Remove(RemoveLru(c, l), Lru(c, l))

(* Mutant: the data go before the list has subtracted them.                 *)
MoveTrimmed(c, l) ==
  IF Unused(c, l) = {} THEN c
  ELSE LET e == Lru(c, l)
       IN  InsertMru(RemoveLru([c EXCEPT !.bytes[e] = Header], l), Ghosts[l], e)

(* An evicted entry becomes a ghost.                                        *)
Move(c, l) ==
  IF Unused(c, l) = {} THEN c
  ELSE LET e == Lru(c, l)
       IN  InsertMru([RemoveLru(c, l) EXCEPT !.bytes[e] = Header], Ghosts[l], e)

(* Mutant: both lists give up an entry.                                     *)
ReplaceBoth(c) == Move(Move(c, "t1"), "t2")

Replace(c) ==
  LET first == IF c.size["t1"] >= Bigger(1, c.target) THEN "t1" ELSE "t2"
      second == IF first = "t1" THEN "t2" ELSE "t1"
  IN  IF Unused(c, first) # {} THEN Move(c, first) ELSE Move(c, second)

-----------------------------------------------------------------------------
(* Mutant: who finds data there is not counted.                             *)
HitUncounted(c, e) == InsertMru(RemoveFromList(c, c.where[e], e), "t2", e)

(* cache_lookup: data, a ghost, or nothing.                                 *)
Hit(c, e) ==
  InsertMru(RemoveFromList([c EXCEPT !.usage[e] = @ + 1], c.where[e], e), "t2", e)

(* Mutant: the target is not kept above zero.                               *)
NewTargetBelowZero(c, e) ==
  IF c.where[e] = "b1"
    THEN Smaller(c.target + Bigger(c.size["b2"] \div c.size["b1"], 1), Size)
    ELSE c.target - Bigger(c.size["b1"] \div c.size["b2"], 1)

(* What T1 should have grows with hits in B1 and shrinks with hits in B2.   *)
NewTarget(c, e) ==
  IF c.where[e] = "b1"
    THEN Smaller(c.target + Bigger(c.size["b2"] \div c.size["b1"], 1), Size)
    ELSE Bigger(c.target - Bigger(c.size["b1"] \div c.size["b2"], 1), 0)

GhostHit(c, e) ==
  [Remove(Replace(RemoveFromList([c EXCEPT !.target = NewTarget(c, e)], c.where[e], e)), e)
     EXCEPT !.insert = "t2"]

Miss(c) == [c EXCEPT !.insert = "t1"]

InData(c, e) == e \in c.hash /\ c.where[e] \in {"t1", "t2"}

(* cache_insert_new, after cache_lookup found no data.                      *)
Total(c) == c.size["t1"] + c.size["t2"] + c.size["b1"] + c.size["b2"]

(* Mutant: nothing is evicted from a T1 that fills the cache.               *)
MakeRoomElsewhere(c) ==
  IF c.insert # "t1" THEN c
  ELSE IF c.size["t1"] + c.size["b1"] >= Size
    THEN IF c.size["t1"] < Size THEN Replace(Forget(c, "b1")) ELSE c
  ELSE IF Total(c) >= 2 * Size THEN Replace(Forget(c, "b2"))
  ELSE IF Total(c) >= Size THEN Replace(c)
  ELSE c

MakeRoom(c) ==
  IF c.insert # "t1" THEN c
  ELSE IF c.size["t1"] + c.size["b1"] >= Size
    THEN IF c.size["t1"] < Size THEN Replace(Forget(c, "b1")) ELSE Forget(c, "t1")
  ELSE IF Total(c) >= 2 * Size THEN Replace(Forget(c, "b2"))
  ELSE IF Total(c) >= Size THEN Replace(c)
  ELSE c

NewEntry(c, e) ==
  InsertMru([MakeRoom(c) EXCEPT !.bytes[e] = Header + Bytes[e], !.usage[e] = 1,
                                !.hash = @ \cup {e}],
            c.insert, e)

Lookup(c, e) ==
  IF InData(c, e) THEN Hit(c, e)
  ELSE NewEntry(IF e \in c.hash THEN GhostHit(c, e) ELSE Miss(c), e)

(* cache_entry_destroy: the entry stays, with one user less.                *)
EntryDestroy(c, e) == [c EXCEPT !.usage[e] = @ - 1]

-----------------------------------------------------------------------------
(* The cache is full, and nothing can go: a T1 that fills it gives up only  *)
(* its own entries.                                                         *)
AllInUse(c) ==
  /\ Total(c) >= Size
  /\ Unused(c, "t1") = {}
  /\ c.size["t1"] >= Size \/ Unused(c, "t2") = {}

(* file_data_read and its kin: the data are there, or read.                 *)
Read(e) ==
  /\ ~wrecked
  /\ Cardinality({h \in Ids \X (1..MaxHeld) : h[2] <= held[h[1]]}) < MaxHeld
  /\ cache' = Lookup(cache, e)
  /\ held' = [held EXCEPT ![e] = @ + 1]
  /\ crowded' = (crowded \/ (~InData(cache, e) /\ AllInUse(cache)))
  /\ UNCHANGED wrecked

(* A read that fails leaves its entry to be found, with nothing read.       *)
ReadFails(e) ==
  /\ ~wrecked /\ e \notin Compressed /\ ~InData(cache, e)
  /\ cache' = EntryDestroy(Lookup(cache, e), e)
  /\ UNCHANGED <<held, wrecked>>
  /\ crowded' = (crowded \/ AllInUse(cache))

(* If the data cannot be inflated, the middle of an entry is passed to free.*)
InflateFails(e) ==
  /\ ~wrecked /\ e \in Compressed /\ ~InData(cache, e)
  /\ cache' = Lookup(cache, e)
  /\ wrecked' = TRUE
  /\ UNCHANGED held
  /\ crowded' = (crowded \/ AllInUse(cache))

(* file_data_free *)
Free(e) ==
  /\ ~wrecked /\ held[e] > 0
  /\ cache' = EntryDestroy(cache, e)
  /\ held' = [held EXCEPT ![e] = @ - 1]
  /\ UNCHANGED <<wrecked, crowded>>

(* file_data_remove: the entry goes at once, whoever holds it.  The cache   *)
(* checks nothing; that the caller is the only holder is an assumption      *)
(* about the map driver, which drops what it has read and copied when it    *)
(* downloads a tile.                                                        *)
FlushData(e) ==
  /\ ~wrecked /\ held[e] = 1
  /\ cache' = Remove(RemoveFromList(cache, cache.where[e], e), e)
  /\ held' = [held EXCEPT ![e] = 0]
  /\ UNCHANGED <<wrecked, crowded>>

(* The program is started again.                                            *)
Restart ==
  /\ cache' = Empty /\ held' = [e \in Ids |-> 0] /\ wrecked' = FALSE /\ crowded' = FALSE

Next ==
  \/ \E e \in Ids : Read(e) \/ ReadFails(e) \/ InflateFails(e) \/ Free(e) \/ FlushData(e)
  \/ Restart

Spec == Init /\ [][Next]_vars

-----------------------------------------------------------------------------
Members(l) == Range(cache.list[l])

Resident == Members("t1") \cup Members("t2")

(* The bytes of entries, one by one.                                        *)
BytesOf(S) == UNION {{e} \X (1..cache.bytes[e]) : e \in S}

Caches ==
  [list : [Lists -> Seq(Ids)], size : [Lists -> Nat],
   where : [Ids -> Lists \cup {"none"}], hash : SUBSET Ids,
   bytes : [Ids -> Nat], usage : [Ids -> Nat],
   target : 0..Size, insert : {"none", "t1", "t2"}]

(* Every variable has its type.                                             *)
TypeOK ==
  /\ cache \in Caches
  /\ held \in [Ids -> 0..MaxHeld] /\ wrecked \in BOOLEAN /\ crowded \in BOOLEAN

(* Data that a caller holds are in the cache with all their bytes, whatever *)
(* was looked up, evicted or failed since, and are counted as often as they *)
(* are held.                                                                *)
HeldStays ==
  ~wrecked =>
    \A e \in Ids :
      /\ cache.usage[e] = held[e]
      /\ held[e] > 0 => e \in Resident /\ cache.bytes[e] = Header + Bytes[e]

(* The lists, the hash table, the entries and the sizes, which are kept up  *)
(* separately, tell the same: each entry is once in the list it names, only *)
(* ghosts are without data, and the sizes are those of the members.         *)
Books ==
  /\ cache.hash = UNION {Members(l) : l \in Lists}
  /\ \A l \in Lists :
       /\ IsInjective(cache.list[l])
       /\ \A e \in Members(l) :
            /\ cache.where[e] = l
            /\ cache.bytes[e] = IF l \in {"t1", "t2"} THEN Header + Bytes[e] ELSE Header
       /\ cache.size[l] = Cardinality(BytesOf(Members(l)))

(* The cache may hold more bytes than it was made for, but not more entries *)
(* than of the smallest ones go in, unless all that could go was in use.    *)
EntriesBounded ==
  LET smallest == Header + Min({Bytes[e] : e \in Ids})
  IN  ~crowded => Cardinality(Resident) <= 1 + (Size - 1) \div smallest

(* The cache does what DataPool promises.                                   *)
Pool == INSTANCE DataPool WITH resident <- Resident, pins <- held

(* What callers hold stays, what is found costs nothing, and what is read   *)
(* costs at most one entry that nobody holds.                               *)
PoolPromise == Pool!Spec
=============================================================================
