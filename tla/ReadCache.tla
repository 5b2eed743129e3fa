------------------------------- MODULE ReadCache -------------------------------
(***************************************************************************)
(* The container cache of a session (util/readCache.cc over the LRU list   *)
(* of include/lruCache.h): the LRU list maps the name of a container to a  *)
(* slot of a fixed pool.  Slots are handed out in order until the list is  *)
(* full; from then on a new container takes the slot of the one that the   *)
(* list is about to drop.  The operators are those of one cache, rc.       *)
(***************************************************************************)
EXTENDS Sequences, Integers

CONSTANTS
  CacheSize     \* cacheSize_, Configure::GetContainerCacheSize

ASSUME CacheAssumption == CacheSize \in Nat \ {0}

Slot == 1 .. CacheSize

(* order: the LRU list, most recently used first; slot: its values;        *)
(* pool: containerPool_; currentIndex: how many slots were handed out.     *)
EmptyCache ==
  [order |-> <<>>, slot |-> <<>>, pool |-> <<>>, currentIndex |-> 0]

CachedNames(rc) == {rc.order[i] : i \in DOMAIN rc.order}
Exist(rc, name) == name \in CachedNames(rc)

(* The list's entry for each name, the pool's content of each slot: what   *)
(* is not in use is not in the function's domain.                          *)
CacheOK(rc) ==
  /\ rc.order \in Seq(CachedNames(rc))
  /\ \A i, j \in DOMAIN rc.order : rc.order[i] = rc.order[j] => i = j
  /\ Len(rc.order) = rc.currentIndex
  /\ rc.currentIndex \in 0 .. CacheSize
  /\ DOMAIN rc.slot = CachedNames(rc)
  /\ \A m \in CachedNames(rc) : rc.slot[m] \in 1 .. rc.currentIndex
  /\ \A m, n \in CachedNames(rc) : rc.slot[m] = rc.slot[n] => m = n
  /\ DOMAIN rc.pool = 1 .. rc.currentIndex

PushFront(s, n) == [i \in 1 .. Len(s) + 1 |-> IF i = 1 THEN n ELSE s[i - 1]]
DropBack(s) == [i \in 1 .. Len(s) - 1 |-> s[i]]
Position(s, n) == CHOOSE i \in DOMAIN s : s[i] = n
MoveToFront(s, n) ==
  [i \in DOMAIN s |-> IF i = 1 THEN n
                      ELSE IF i <= Position(s, n) THEN s[i - 1] ELSE s[i]]

Put(f, key, value) ==
  [k \in DOMAIN f \cup {key} |-> IF k = key THEN value ELSE f[k]]
Drop(f, key) == [k \in DOMAIN f \ {key} |-> f[k]]

(* Insert, for a name that is not in the list.  pruneValue only looks up   *)
(* the slot of the last entry; the insert into the list drops that entry.  *)
(* Faulty variant: the slot that is overwritten is not the dropped one's.  *)
InsertIntoNewestSlot(rc, name, data) ==
  IF Len(rc.order) + 1 > CacheSize
    THEN LET last == rc.order[Len(rc.order)]
             first == rc.order[1]
         IN [rc EXCEPT !.order = DropBack(PushFront(@, name)),
                       !.slot = Drop(Put(@, name, rc.slot[last]), last),
                       !.pool = Put(@, rc.slot[first], data)]
    ELSE [order |-> PushFront(rc.order, name),
          slot |-> Put(rc.slot, name, rc.currentIndex + 1),
          pool |-> Put(rc.pool, rc.currentIndex + 1, data),
          currentIndex |-> rc.currentIndex + 1]

Insert(rc, name, data) ==
  IF Len(rc.order) + 1 > CacheSize
    THEN LET last == rc.order[Len(rc.order)] IN
         [rc EXCEPT !.order = DropBack(PushFront(@, name)),
                    !.slot = Drop(Put(@, name, rc.slot[last]), last),
                    !.pool = Put(@, rc.slot[last], data)]
    ELSE [order |-> PushFront(rc.order, name),
          slot |-> Put(rc.slot, name, rc.currentIndex + 1),
          pool |-> Put(rc.pool, rc.currentIndex + 1, data),
          currentIndex |-> rc.currentIndex + 1]

(* Read: the content of a cached container, which becomes the newest.      *)
CachedData(rc, name) == rc.pool[rc.slot[name]]
Touch(rc, name) == [rc EXCEPT !.order = MoveToFront(@, name)]
=============================================================================
