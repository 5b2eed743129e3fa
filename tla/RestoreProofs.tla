---------------------------- MODULE RestoreProofs ----------------------------
(***************************************************************************)
(* Uploads and downloads, for any number of clients, files and versions of *)
(* them, any contents of the chunks, batches of any length, containers and *)
(* caches of any size.                                                     *)
(*                                                                         *)
(* A download is followed chunk by chunk: at any time the chunks of the    *)
(* file are, in this order, received, on the wire, in the decoder's buffer,*)
(* in the queue, in the reader's hand, or still in the recipe, and what    *)
(* stands for each of them leads to it (RestoreInv).  For this every real  *)
(* address must lead to the bytes that its kind promises, whoever writes   *)
(* meanwhile, and what is safe when a download begins must stay so.        *)
(*                                                                         *)
(* Uploads that are in progress one at a time leave nothing behind that is *)
(* not in a completely written file (SerialInv).                           *)
(***************************************************************************)
EXTENDS Restore, SequenceTheorems, TLAPS

USE ContainerAssumption, CacheAssumption, RestoreAssumption

-----------------------------------------------------------------------------
(* The LRU list and the pool of slots.                                     *)

(* The fields of a cache.                                                  *)
CacheRecord(rc) ==
  rc = [order |-> rc.order, slot |-> rc.slot, pool |-> rc.pool,
        currentIndex |-> rc.currentIndex]

(* A function on 1 .. n is a sequence of length n.                         *)
LEMMA FunLen ==
  ASSUME NEW s, NEW n \in Nat, DOMAIN s = 1 .. n, s = [i \in DOMAIN s |-> s[i]]
  PROVE  Len(s) = n /\ s \in Seq({s[i] : i \in 1 .. n})
OBVIOUS

(* The parts of a good cache: as many names, each once, as slots in use.   *)
LEMMA ListFacts ==
  ASSUME NEW rc, CacheOK(rc)
  PROVE  /\ DOMAIN rc.order = 1 .. rc.currentIndex /\ rc.currentIndex \in 0 .. CacheSize
         /\ rc.order = [i \in 1 .. rc.currentIndex |-> rc.order[i]]
         /\ Len(rc.order) = rc.currentIndex
         /\ CachedNames(rc) = {rc.order[i] : i \in 1 .. rc.currentIndex}
<1>1. rc.order \in Seq(CachedNames(rc)) /\ Len(rc.order) = rc.currentIndex
  BY DEF CacheOK
<1>2. DOMAIN rc.order = 1 .. rc.currentIndex
  BY <1>1
<1>3. rc.order = [i \in 1 .. rc.currentIndex |-> rc.order[i]]
  BY <1>1, <1>2
<1>4. QED
  BY <1>1, <1>2, <1>3 DEF CacheOK, CachedNames

(* A cache is as CacheOK says if its parts fit together.                   *)
Fit(rc, n, names) ==
  /\ n \in 0 .. CacheSize /\ rc.currentIndex = n
  /\ DOMAIN rc.order = 1 .. n /\ rc.order = [i \in DOMAIN rc.order |-> rc.order[i]]
  /\ \A i, j \in 1 .. n : rc.order[i] = rc.order[j] => i = j
  /\ \A i \in 1 .. n : rc.order[i] \in names
  /\ \A m \in names : \E i \in 1 .. n : rc.order[i] = m
  /\ DOMAIN rc.slot = names
  /\ \A m \in names : rc.slot[m] \in 1 .. n
  /\ \A m, k \in names : rc.slot[m] = rc.slot[k] => m = k
  /\ DOMAIN rc.pool = 1 .. n

LEMMA FitsTogether ==
  ASSUME NEW rc, NEW n, NEW names, Fit(rc, n, names)
  PROVE  CacheOK(rc) /\ CachedNames(rc) = names
<1>1. Len(rc.order) = n /\ rc.order \in Seq({rc.order[i] : i \in 1 .. n}) /\ n \in Nat
  <2>1. /\ n \in Nat /\ DOMAIN rc.order = 1 .. n
        /\ rc.order = [i \in DOMAIN rc.order |-> rc.order[i]]
    BY DEF Fit
  <2>2. QED
    BY <2>1, FunLen
<1>2. {rc.order[i] : i \in 1 .. n} = names
  BY DEF Fit
<1>3. CachedNames(rc) = names
  BY <1>2 DEF CachedNames, Fit
<1>4. QED
  BY <1>1, <1>2, <1>3 DEF CacheOK, Fit

(* A hit moves a name to the front and changes nothing that is cached.     *)
LEMMA TouchFacts ==
  ASSUME NEW rc, CacheOK(rc), CacheRecord(rc), NEW name, Exist(rc, name)
  PROVE  LET t == Touch(rc, name) IN
         /\ CacheOK(t) /\ CacheRecord(t) /\ CachedNames(t) = CachedNames(rc)
         /\ \A id \in CachedNames(t) : CachedData(t, id) = CachedData(rc, id)
<1> DEFINE n == rc.currentIndex
           s == rc.order
           t == Touch(rc, name)
           p == Position(s, name)
<1>1. /\ DOMAIN s = 1 .. n /\ n \in 0 .. CacheSize
      /\ CachedNames(rc) = {s[i] : i \in 1 .. n}
      /\ \A i, j \in 1 .. n : s[i] = s[j] => i = j
  BY ListFacts DEF CacheOK
<1>2. p \in 1 .. n /\ s[p] = name
  BY <1>1 DEF Exist, Position
<1>3. /\ t.order = MoveToFront(s, name) /\ t.slot = rc.slot /\ t.pool = rc.pool
      /\ t.currentIndex = n /\ CacheRecord(t)
  BY DEF Touch, CacheRecord
<1>4. /\ DOMAIN t.order = 1 .. n /\ t.order = [i \in DOMAIN t.order |-> t.order[i]]
      /\ \A i \in 1 .. n : t.order[i] = IF i = 1 THEN name
                                        ELSE IF i <= p THEN s[i - 1] ELSE s[i]
  BY <1>1, <1>3 DEF MoveToFront
<1> HIDE DEF t, s, p, n
<1> DEFINE From(i) == IF i = 1 THEN p ELSE IF i <= p THEN i - 1 ELSE i
<1>5. \A i \in 1 .. n : From(i) \in 1 .. n /\ t.order[i] = s[From(i)]
  BY <1>1, <1>2, <1>4
<1>6. \A i, j \in 1 .. n : From(i) = From(j) => i = j
  BY <1>1, <1>2
<1>7. \A k \in 1 .. n : \E i \in 1 .. n : From(i) = k
  <2>1. ASSUME NEW k \in 1 .. n
        PROVE  \E i \in 1 .. n : From(i) = k
    <3>1. CASE k = p
      <4>1. 1 \in 1 .. n /\ From(1) = k
        BY <1>1, <1>2, <3>1
      <4>2. QED
        BY <4>1
    <3>2. CASE k < p
      <4>1. k + 1 \in 1 .. n /\ From(k + 1) = k
        BY <1>1, <1>2, <2>1, <3>2
      <4>2. QED
        BY <4>1
    <3>3. CASE k > p
      <4>1. From(k) = k
        BY <1>1, <1>2, <2>1, <3>3
      <4>2. QED
        BY <2>1, <4>1
    <3>4. QED
      BY <1>1, <1>2, <2>1, <3>1, <3>2, <3>3
  <2>2. QED
    BY <2>1
<1> HIDE DEF From
<1>8. \A i, j \in 1 .. n : t.order[i] = t.order[j] => i = j
  BY <1>1, <1>5, <1>6
<1>9. /\ \A i \in 1 .. n : t.order[i] \in CachedNames(rc)
      /\ \A m \in CachedNames(rc) : \E i \in 1 .. n : t.order[i] = m
  <2>1. ASSUME NEW i \in 1 .. n
        PROVE  t.order[i] \in CachedNames(rc)
    BY <1>1, <1>5
  <2>2. ASSUME NEW m \in CachedNames(rc)
        PROVE  \E i \in 1 .. n : t.order[i] = m
    <3>1. PICK k \in 1 .. n : s[k] = m
      BY <1>1
    <3>2. PICK i \in 1 .. n : From(i) = k
      BY <1>7
    <3>3. QED
      BY <1>5, <3>1, <3>2
  <2>3. QED
    BY <2>1, <2>2
<1>10. CacheOK(t) /\ CachedNames(t) = CachedNames(rc)
  <2>1. /\ DOMAIN rc.slot = CachedNames(rc) /\ DOMAIN rc.pool = 1 .. n
        /\ \A m \in CachedNames(rc) : rc.slot[m] \in 1 .. n
        /\ \A m, k \in CachedNames(rc) : rc.slot[m] = rc.slot[k] => m = k
    BY DEF CacheOK, n
  <2>2. /\ n \in 0 .. CacheSize /\ t.currentIndex = n
        /\ DOMAIN t.slot = CachedNames(rc) /\ DOMAIN t.pool = 1 .. n
        /\ \A m \in CachedNames(rc) : t.slot[m] \in 1 .. n
        /\ \A m, k \in CachedNames(rc) : t.slot[m] = t.slot[k] => m = k
    BY <1>1, <1>3, <2>1
  <2>3. QED
    <3>1. Fit(t, n, CachedNames(rc))
      BY <1>4, <1>8, <1>9, <2>2 DEF Fit
    <3>2. QED
      BY <3>1, FitsTogether
<1>11. QED
  BY <1>3, <1>10 DEF CachedData, t

(* A miss caches the content, in a new slot or in that of the name that    *)
(* goes.                                                                   *)
LEMMA InsertFacts ==
  ASSUME NEW rc, CacheOK(rc), CacheRecord(rc), NEW name, ~ Exist(rc, name), NEW data
  PROVE  LET t == Insert(rc, name, data) IN
         /\ CacheOK(t) /\ CacheRecord(t) /\ CachedNames(t) \subseteq CachedNames(rc) \cup {name}
         /\ \A id \in CachedNames(t) :
              CachedData(t, id) = IF id = name THEN data ELSE CachedData(rc, id)
<1> DEFINE n == rc.currentIndex
           s == rc.order
           t == Insert(rc, name, data)
           names == CachedNames(rc)
<1>1. /\ DOMAIN s = 1 .. n /\ n \in 0 .. CacheSize /\ Len(s) = n
      /\ names = {s[i] : i \in 1 .. n}
      /\ \A i, j \in 1 .. n : s[i] = s[j] => i = j
  BY ListFacts DEF CacheOK
<1>2. /\ DOMAIN rc.slot = names /\ DOMAIN rc.pool = 1 .. n
      /\ \A m \in names : rc.slot[m] \in 1 .. n
      /\ \A m, k \in names : rc.slot[m] = rc.slot[k] => m = k
      /\ name \notin names
  BY DEF CacheOK, Exist
<1>3. /\ DOMAIN PushFront(s, name) = 1 .. n + 1
      /\ PushFront(s, name) = [i \in DOMAIN PushFront(s, name) |-> PushFront(s, name)[i]]
      /\ PushFront(s, name)[1] = name
      /\ \A i \in 2 .. n + 1 : PushFront(s, name)[i] = s[i - 1]
      /\ Len(PushFront(s, name)) = n + 1
  <2> DEFINE f == PushFront(s, name)
  <2>1. /\ DOMAIN f = 1 .. n + 1 /\ f = [i \in DOMAIN f |-> f[i]]
        /\ f[1] = name /\ \A i \in 2 .. n + 1 : f[i] = s[i - 1]
    BY <1>1 DEF PushFront
  <2> HIDE DEF f
  <2>2. Len(f) = n + 1
    BY <1>1, <2>1, FunLen
  <2>3. QED
    BY <2>1, <2>2 DEF f
<1>4. CASE Len(s) + 1 > CacheSize
  <2> DEFINE last == s[n]
             dropped == DropBack(PushFront(s, name))
             put == Put(rc.slot, name, rc.slot[last])
  <2>1. n = CacheSize /\ n \in 1 .. n /\ last \in names /\ last # name
    BY <1>1, <1>2, <1>4
  <2>2. /\ t.order = dropped /\ t.slot = Drop(put, last)
        /\ t.pool = Put(rc.pool, rc.slot[last], data) /\ t.currentIndex = n
        /\ CacheRecord(t)
    BY <1>1, <1>4 DEF Insert, CacheRecord
  <2>3. /\ DOMAIN dropped = 1 .. n /\ dropped = [i \in DOMAIN dropped |-> dropped[i]]
        /\ dropped[1] = name /\ \A i \in 2 .. n : dropped[i] = s[i - 1]
    BY <1>1, <1>3, <2>1 DEF DropBack
  <2> HIDE DEF last, dropped, put, t, s, n, names
  <2>4. \A i \in 2 .. n : i - 1 \in 1 .. n /\ i - 1 # n
    BY <1>1
  <2>5. \A i \in 1 .. n : i = 1 \/ i \in 2 .. n
    BY <1>1
  <2>6. \A i \in 2 .. n : dropped[i] \in names \ {last}
    BY <1>1, <2>1, <2>3, <2>4 DEF last
  <2>7. \A i, j \in 1 .. n : dropped[i] = dropped[j] => i = j
    <3>1. ASSUME NEW i \in 2 .. n, NEW j \in 2 .. n, dropped[i] = dropped[j]
          PROVE  i = j
      <4>1. i - 1 = j - 1
        BY <1>1, <2>3, <2>4, <3>1
      <4>2. QED
        BY <4>1
    <3>2. QED
      BY <1>2, <2>3, <2>5, <2>6, <3>1
  <2>8. /\ \A i \in 1 .. n : dropped[i] \in (names \cup {name}) \ {last}
        /\ \A m \in (names \cup {name}) \ {last} : \E i \in 1 .. n : dropped[i] = m
    <3>1. ASSUME NEW m \in names \ {last}
          PROVE  \E i \in 1 .. n : dropped[i] = m
      <4>1. PICK k \in 1 .. n : s[k] = m
        BY <1>1, <3>1
      <4>2. k # n
        BY <3>1, <4>1 DEF last
      <4>3. k + 1 \in 2 .. n /\ (k + 1) - 1 = k /\ k + 1 \in 1 .. n
        BY <1>1, <4>1, <4>2
      <4>4. QED
        BY <2>3, <4>1, <4>3
    <3>2. QED
      BY <2>1, <2>3, <2>5, <2>6, <3>1
  <2>9. /\ DOMAIN t.slot = (names \cup {name}) \ {last}
        /\ t.slot[name] = rc.slot[last] /\ \A m \in names \ {last} : t.slot[m] = rc.slot[m]
        /\ DOMAIN t.pool = 1 .. n
        /\ t.pool[rc.slot[last]] = data
        /\ \A j \in (1 .. n) \ {rc.slot[last]} : t.pool[j] = rc.pool[j]
    <3>1. /\ DOMAIN put = names \cup {name} /\ put[name] = rc.slot[last]
          /\ \A m \in names : put[m] = rc.slot[m]
      BY <1>2 DEF put, Put
    <3>2. /\ DOMAIN t.slot = (names \cup {name}) \ {last}
          /\ t.slot[name] = rc.slot[last] /\ \A m \in names \ {last} : t.slot[m] = rc.slot[m]
      BY <2>1, <2>2, <3>1 DEF Drop
    <3>3. rc.slot[last] \in 1 .. n
      BY <1>2, <2>1
    <3>4. /\ DOMAIN t.pool = 1 .. n /\ t.pool[rc.slot[last]] = data
          /\ \A j \in (1 .. n) \ {rc.slot[last]} : t.pool[j] = rc.pool[j]
      BY <1>2, <2>2, <3>3 DEF Put
    <3>5. QED
      BY <3>2, <3>4
  <2>10. /\ \A m \in (names \cup {name}) \ {last} : t.slot[m] \in 1 .. n
         /\ \A m, k \in (names \cup {name}) \ {last} : t.slot[m] = t.slot[k] => m = k
    BY <1>2, <2>1, <2>9
  <2>11. n \in 0 .. CacheSize
    BY <1>1
  <2>12. CacheOK(t) /\ CachedNames(t) = (names \cup {name}) \ {last}
    <3>1. /\ t.order = dropped /\ t.currentIndex = n /\ DOMAIN t.pool = 1 .. n
          /\ DOMAIN t.slot = (names \cup {name}) \ {last}
      BY <2>2, <2>9
    <3>2. /\ DOMAIN t.order = 1 .. n /\ t.order = [i \in DOMAIN t.order |-> t.order[i]]
          /\ \A i, j \in 1 .. n : t.order[i] = t.order[j] => i = j
          /\ \A i \in 1 .. n : t.order[i] \in (names \cup {name}) \ {last}
          /\ \A m \in (names \cup {name}) \ {last} : \E i \in 1 .. n : t.order[i] = m
      BY <2>3, <2>7, <2>8, <3>1
    <3>3. QED
      <4>1. Fit(t, n, (names \cup {name}) \ {last})
        BY <2>10, <2>11, <3>1, <3>2 DEF Fit
      <4>2. QED
        BY <4>1, FitsTogether
  <2>13. \A id \in CachedNames(t) :
           CachedData(t, id) = IF id = name THEN data ELSE CachedData(rc, id)
    BY <1>2, <2>1, <2>9, <2>12 DEF CachedData
  <2>14. QED
    BY <2>2, <2>12, <2>13 DEF t, names
<1>5. CASE ~ (Len(s) + 1 > CacheSize)
  <2>1. /\ t.order = PushFront(s, name) /\ t.slot = Put(rc.slot, name, n + 1)
        /\ t.pool = Put(rc.pool, n + 1, data) /\ t.currentIndex = n + 1
        /\ CacheRecord(t)
    BY <1>1, <1>5 DEF Insert, CacheRecord
  <2>2. n + 1 \in 0 .. CacheSize
    BY <1>1, <1>5
  <2> HIDE DEF t, s, n, names
  <2>3. /\ \A i \in 2 .. n + 1 : i - 1 \in 1 .. n
        /\ \A i \in 1 .. n + 1 : i = 1 \/ i \in 2 .. n + 1
        /\ \A i \in 1 .. n : i + 1 \in 2 .. n + 1 /\ (i + 1) - 1 = i /\ i + 1 \in 1 .. n + 1
        /\ n + 1 \notin 1 .. n /\ 1 .. n + 1 = (1 .. n) \cup {n + 1} /\ 1 \in 1 .. n + 1
    BY <1>1
  <2>4. \A i, j \in 1 .. n + 1 : t.order[i] = t.order[j] => i = j
    <3>1. ASSUME NEW i \in 2 .. n + 1, NEW j \in 2 .. n + 1, t.order[i] = t.order[j]
          PROVE  i = j
      <4>1. i - 1 = j - 1
        BY <1>1, <1>3, <2>1, <2>3, <3>1
      <4>2. QED
        BY <4>1
    <3>2. \A i \in 2 .. n + 1 : t.order[i] \in names
      BY <1>1, <1>3, <2>1, <2>3
    <3>3. QED
      BY <1>2, <1>3, <2>1, <2>3, <3>1, <3>2
  <2>5. /\ \A i \in 1 .. n + 1 : t.order[i] \in names \cup {name}
        /\ \A m \in names \cup {name} : \E i \in 1 .. n + 1 : t.order[i] = m
    <3>1. ASSUME NEW m \in names
          PROVE  \E i \in 1 .. n + 1 : t.order[i] = m
      <4>1. PICK k \in 1 .. n : s[k] = m
        BY <1>1, <3>1
      <4>2. t.order[k + 1] = m
        BY <1>3, <2>1, <2>3, <4>1
      <4>3. QED
        BY <2>3, <4>2
    <3>2. \A i \in 2 .. n + 1 : t.order[i] \in names
      BY <1>1, <1>3, <2>1, <2>3
    <3>3. t.order[1] = name
      BY <1>3, <2>1
    <3>4. ASSUME NEW i \in 1 .. n + 1
          PROVE  t.order[i] \in names \cup {name}
      BY <2>3, <3>2, <3>3
    <3>5. QED
      BY <2>3, <3>1, <3>3, <3>4
  <2>6. /\ DOMAIN t.slot = names \cup {name} /\ t.slot[name] = n + 1
        /\ \A m \in names : t.slot[m] = rc.slot[m]
        /\ DOMAIN t.pool = 1 .. n + 1 /\ t.pool[n + 1] = data
        /\ \A j \in 1 .. n : t.pool[j] = rc.pool[j]
    <3>1. /\ DOMAIN t.slot = names \cup {name} /\ t.slot[name] = n + 1
          /\ \A m \in names : t.slot[m] = rc.slot[m]
      BY <1>2, <2>1 DEF Put
    <3>2. /\ DOMAIN t.pool = 1 .. n + 1 /\ t.pool[n + 1] = data
          /\ \A j \in (1 .. n) \ {n + 1} : t.pool[j] = rc.pool[j]
      BY <1>2, <2>1, <2>3 DEF Put
    <3>3. QED
      BY <2>3, <3>1, <3>2
  <2>7. /\ \A m \in names \cup {name} : t.slot[m] \in 1 .. n + 1
        /\ \A m, k \in names \cup {name} : t.slot[m] = t.slot[k] => m = k
    BY <1>2, <2>3, <2>6
  <2>8. CacheOK(t) /\ CachedNames(t) = names \cup {name}
    <3>1. Fit(t, n + 1, names \cup {name})
      BY <1>3, <2>1, <2>2, <2>4, <2>5, <2>6, <2>7 DEF Fit
    <3>2. QED
      BY <3>1, FitsTogether
  <2>9. \A id \in CachedNames(t) :
          CachedData(t, id) = IF id = name THEN data ELSE CachedData(rc, id)
    BY <1>2, <2>3, <2>6, <2>8 DEF CachedData
  <2>10. QED
    BY <2>1, <2>8, <2>9 DEF t, names
<1>6. QED
  BY <1>4, <1>5

-----------------------------------------------------------------------------
(* The parts of the invariant.  They are operators of values, so that what *)
(* a step does to them can be said of any values.                          *)

(* What a cache may hold of the container id: the beginning of its file.   *)
Knows(sv, cu, op, id, data) ==
  /\ id \in ContainerId /\ data \in Seq(Bytes)
  /\ \/ id[2] <= Len(sv[id[1]]) /\ BeginsWith(sv[id[1]][id[2]], data)
     \/ id[2] = Len(sv[id[1]]) + 1 /\ op[id[1]] /\ BeginsWith(cu[id[1]], data)

GoodCache(sv, cu, op, rc) ==
  /\ CacheOK(rc) /\ CacheRecord(rc)
  /\ \A id \in CachedNames(rc) : Knows(sv, cu, op, id, CachedData(rc, id))

(* The item that was stored at an address.                                 *)
HasItem(sv, cu, a, item) ==
  LET id == a.container_id IN
  /\ id \in ContainerId
  /\ \/ /\ id[2] <= Len(sv[id[1]]) /\ a.offset \in DOMAIN sv[id[1]][id[2]]
        /\ sv[id[1]][id[2]][a.offset] = item
     \/ /\ id[2] = Len(sv[id[1]]) + 1 /\ a.offset \in DOMAIN cu[id[1]]
        /\ cu[id[1]][a.offset] = item

(* The delta of a chunk: reads are the ways its base was read.             *)
Reads == {"whole", "torn", "nothing"}
DeltaBytes(c, b, stat, read) ==
  IF stat = "COMP_DELTA" THEN Delta(Comp(c), Comp(b), read)
                         ELSE Delta(Uncomp(c), Uncomp(b), "whole")

(* Of which bases a chunk can be a delta.                                  *)
MayBeDelta(ad, c, b, stat) ==
  /\ b \in Chunk
  /\ \/ stat = "COMP_DELTA" /\ ad[b].stat = "COMP_BASE"
     \/ stat = "CACHE_DELTA" /\ KeyOf[b] = KeyOf[c] /\ ad[b].stat # "none"

(* A real address leads to what its kind promises; reads as above.         *)
AddressRight(sv, cu, ad, reads, c) ==
  LET a == ad[c] IN
  /\ a \in Addr
  /\ a.stat = "none" => a = NoAddr
  /\ a.stat = "COMP_BASE" => HasItem(sv, cu, a, Comp(c))
  /\ a.stat \in {"COMP_DELTA", "CACHE_DELTA"} =>
       /\ MayBeDelta(ad, c, a.base_fp, a.stat)
       /\ \E r \in reads : HasItem(sv, cu, a, DeltaBytes(c, a.base_fp, a.stat, r))

PendingRight(ad, reads, p) ==
  \/ p = NoPending
  \/ /\ p = [chunk |-> p.chunk, bytes |-> p.bytes, stat |-> p.stat, base |-> p.base]
     /\ p.chunk \in Chunk /\ ad[p.chunk].stat = "virtual"
     /\ \/ /\ p.stat = "COMP_BASE" /\ p.base = NoBase
           /\ p.bytes = <<Comp(p.chunk)>>
        \/ /\ MayBeDelta(ad, p.chunk, p.base, p.stat)
           /\ \E r \in reads :
                LET delta == DeltaBytes(p.chunk, p.base, p.stat, r) IN
                p.bytes = <<delta>> \/ p.bytes = <<Comp(p.chunk), delta>>

(* A container that is completely written, of which the cache, if it has it*)
(* at all, has all.                                                        *)
Whole(sv, rc, id) ==
  /\ id[2] <= Len(sv[id[1]])
  /\ Exist(rc, id) => CachedData(rc, id) = sv[id[1]][id[2]]
Held(sv, rc, a) ==
  IsReal(a) /\ a.container_id \in ContainerId /\ Whole(sv, rc, a.container_id)
ContentAt(sv, a) == At(sv[a.container_id[1]][a.container_id[2]], a.offset)
HeldAt(sv, rc, ad, c) == Held(sv, rc, ad[c])
BytesAt(sv, ad, c) == ContentAt(sv, ad[c])

(* Safe, for a session with the cache rc.                                  *)
HeldBase(sv, rc, ad, c) == HeldAt(sv, rc, ad, c) /\ ad[c].stat = "COMP_BASE"
HeldComp(sv, rc, ad, c) ==
  \/ HeldBase(sv, rc, ad, c)
  \/ /\ HeldAt(sv, rc, ad, c) /\ ad[c].stat = "COMP_DELTA"
     /\ \/ BytesAt(sv, ad, c).read = "nothing"
        \/ BytesAt(sv, ad, c).read = "whole" /\ HeldBase(sv, rc, ad, ad[c].base_fp)
StaysSafe(sv, rc, ad, ca, c) ==
  \/ HeldComp(sv, rc, ad, c)
  \/ /\ HeldAt(sv, rc, ad, c) /\ ad[c].stat = "CACHE_DELTA"
     /\ ad[c].base_fp \in ca \/ HeldComp(sv, rc, ad, ad[c].base_fp)

(* What leads the client to the chunk c, in the queue of the reader and in *)
(* a message.                                                              *)
RestoreBytes(delta, base, c) ==
  \E b \in Chunk : /\ base = Comp(b) /\ KeyOf[b] = KeyOf[c]
                   /\ delta = Delta(Uncomp(c), Uncomp(b), "whole")
RawRight(raw, c) ==
  \/ raw.stat = "COMP_BASE" /\ raw.input = Comp(c)
  \/ /\ raw.stat = "COMP_DELTA" /\ raw.base_type = "COMP_BASE"
     /\ DeltaDecode(raw.base, raw.input) = Comp(c)
  \/ /\ raw.stat = "CACHE_DELTA" /\ raw.base_type = "UNCOMP_BASE"
     /\ DeltaDecode(raw.base, raw.input) = Uncomp(c)
  \/ /\ raw.stat = "CACHE_DELTA" /\ raw.base_type = "COMP_BASE"
     /\ RestoreBytes(raw.input, raw.base, c)
MsgRight(msg, c) ==
  \/ msg.type = "COMP_NORMAL" /\ msg.data = Comp(c)
  \/ msg.type = "UNCOMP_NORMAL" /\ msg.data = Uncomp(c)
  \/ msg.type = "CACHE_RESTORE" /\ RestoreBytes(msg.data, msg.base, c)

(* The chunk that the reader has in hand.                                  *)
HandRight(sv, ad, ca, db, r) ==
  LET c == Head(r.batch)
      b == ad[c].base_fp
  IN
  /\ r.raw.stat = ad[c].stat /\ r.raw.stat \in {"COMP_DELTA", "CACHE_DELTA"}
  /\ c \notin db => r.raw.input = BytesAt(sv, ad, c)
  /\ r.at = "base" => r.want = b
  /\ r.at = "base_base" =>
       /\ ad[c].stat = "CACHE_DELTA" /\ b \notin ca
       /\ ad[b].stat = "COMP_DELTA" /\ r.want = ad[b].base_fp
       /\ c \notin db => r.delta = BytesAt(sv, ad, b)

Busy == {"read", "fetch", "base", "base_base"}
Reader == [at : Busy \cup {"off", "end"}, next : Nat, batch : Seq(Chunk),
           is_end : BOOLEAN, raw : RawChunk, delta : Stored, want : Chunk \cup {NoBase}]
Decoder == [at : {"off", "pop", "send", "tail", "final", "wait", "end"},
            send_buf : Seq(Message)]
Retriever == [at : {"off", "recv", "closing", "done", "dead"}, n_key : Nat,
              keys : Seq(Key), out : Seq(Chunk \cup {NoBase})]

(* The server's side of a download of the file f, db in doubt: which chunks*)
(* of f are where.                                                         *)
Pushed(r) == r.next - Len(r.batch)
Popped(r, q) == Pushed(r) - Len(q)
Sent(r, q, d) == Popped(r, q) - Len(d.send_buf)
ReaderRight(r, f) ==
  /\ r.next <= Len(f) /\ Len(r.batch) <= r.next
  /\ \A i \in 1 .. Len(r.batch) : r.batch[i] = f[Pushed(r) + i]
  /\ r.is_end => r.next = Len(f)
  /\ r.at # "off"
  /\ r.at \in {"read", "end"} <=> r.batch = <<>>
  /\ r.at = "end" => r.next = Len(f)
  /\ r.at \in {"base", "base_base"} => r.want \in Chunk
DecoderRight(r, q, d, f, db) ==
  /\ Len(q) + Len(d.send_buf) <= Pushed(r)
  /\ \A i \in 1 .. Len(q) : f[Popped(r, q) + i] \in db \/ RawRight(q[i], f[Popped(r, q) + i])
  /\ \A i \in 1 .. Len(d.send_buf) :
       LET c == f[Sent(r, q, d) + i] IN c \in db \/ MsgRight(d.send_buf[i], c)
  /\ d.at # "off"
  /\ d.at \in {"tail", "final", "wait", "end"} => r.at = "end" /\ q = <<>>
  /\ d.at \in {"send", "tail"} => d.send_buf # <<>>
  /\ d.at \in {"final", "wait", "end"} => d.send_buf = <<>>

(* The wire: batch k brings the chunks of f after the first st[k].         *)
WireRight(w, st, at, n, sent, f, db) ==
  /\ st[1] = n /\ st[Len(w) + 1] = sent
  /\ \A k \in 1 .. Len(w) :
       /\ st[k + 1] = st[k] + Len(w[k])
       /\ w[k] = FinalMsg <=> k = Len(w) /\ at = "wait"
       /\ \A j \in 1 .. Len(w[k]) :
            f[st[k] + j] \in db \/ MsgRight(w[k][j], f[st[k] + j])
  /\ at = "wait" => w # <<>>
WireOK(w, at, n, sent, f, db) ==
  \E st \in [1 .. Len(w) + 1 -> 0 .. Len(f)] : WireRight(w, st, at, n, sent, f, db)

KeysRight(kr, t) ==
  /\ t.n_key = Len(t.out) /\ t.n_key + Len(t.keys) <= Len(kr)
  /\ \A i \in 1 .. Len(t.keys) : t.keys[i] = kr[t.n_key + i]
OutRight(t, f, db) ==
  /\ Len(t.out) <= Len(f)
  /\ \A i \in 1 .. Len(t.out) : t.out[i] = f[i] \/ f[i] \in db

(* Both sides of a download of f, ses being what the server's session does.*)
ServerRight(sv, ad, rc, ca, f, db, r, q, d) ==
  /\ ReaderRight(r, f) /\ DecoderRight(r, q, d, f, db)
  /\ r.at \in {"base", "base_base"} => HandRight(sv, ad, ca, db, r)
  /\ \A i \in 1 .. Len(f) : f[i] \in db \/ StaysSafe(sv, rc, ad, ca, f[i])
ServerIdle(r, q, d) == r.at \in {"off", "end"} /\ d.at \in {"off", "end"} /\ q = <<>>
Reading == {"recv", "closing", "done"}
ClientRight(ses, f, kr, db, w, sent, at, t, wr) ==
  /\ t.at = "recv" =>
       /\ ses = "download" /\ at # "end"
       /\ WireOK(w, at, Len(t.out), sent, f, db)
  /\ t.at \in {"closing", "done"} =>
       Len(t.out) = Len(f) /\ w = <<>> /\ at \in {"wait", "end"}
  /\ t.at = "done" => at = "end"
  /\ t.at \in Reading =>
       KeysRight(kr, t) /\ OutRight(t, f, db) /\ ses \in {"off", "download"}
  /\ wr # "off" => t.at \in Reading
  /\ wr = "end" => t.at = "done"

Known(f, ad) == \A i \in 1 .. Len(f) : ad[f[i]].stat # "none"
KeysOf(f, kr) == Len(kr) = Len(f) /\ \A i \in 1 .. Len(f) : kr[i] = KeyOf[f[i]]

(* What a step may do to the store and to the fp index: items are added to *)
(* a container or it is completely written, a real address stays.          *)
StoreGrows(sv, cu, op, sv2, cu2, op2) ==
  \A cl \in Client :
    \/ /\ sv2[cl] = sv[cl] /\ (op[cl] => op2[cl])
       /\ cu2[cl] = cu[cl] \/ \E x \in Bytes : cu2[cl] = Append(cu[cl], x)
    \/ sv2[cl] = Append(sv[cl], cu[cl])
Kept(sv, sv2) ==
  \A id \in ContainerId : id[2] <= Len(sv[id[1]]) =>
    id[2] <= Len(sv2[id[1]]) /\ sv2[id[1]][id[2]] = sv[id[1]][id[2]]
AddressesStay(ad, ad2) ==
  \A c \in Chunk : /\ IsReal(ad[c]) => ad2[c] = ad[c]
                   /\ ad[c].stat # "none" => ad2[c].stat # "none"

-----------------------------------------------------------------------------
(* The invariant.                                                          *)
Doing == {"off", "upload", "tail", "download"}

TypeInv ==
  /\ ContainerTypeOK(Bytes)
  /\ addr \in [Chunk -> Addr]
  /\ cached \in [Client -> SUBSET Chunk]
  /\ versions \in [Client -> Seq(Seq(Chunk))]
  /\ recipe \in [Client -> Seq(Chunk)] /\ key_recipe \in [Client -> Seq(Key)]
  /\ session \in [Client -> Doing] /\ n_upload \in [Client -> Nat]
  /\ pending = [cl \in Client |-> pending[cl]]
  /\ container_cache = [cl \in Client |-> container_cache[cl]]
  /\ reader \in [Client -> Reader] /\ mq \in [Client -> Seq(RawChunk)]
  /\ decoder \in [Client -> Decoder]
  /\ wire \in [Client -> Seq(Seq(Message))]
  /\ retriever \in [Client -> Retriever]
  /\ writer \in [Client -> {"off", "run", "end"}]
  /\ doubtful \in [Client -> SUBSET Chunk]
  /\ server \in {"up", "exit"} /\ overlapped \in BOOLEAN
  /\ n_download \in 0 .. MaxDownload /\ n_death \in 0 .. MaxDeath

StoredInv == \A c \in Chunk : AddressRight(saved, cur, addr, Reads, c)
PendingInv ==
  /\ \A cl \in Client :
       /\ PendingRight(addr, Reads, pending[cl])
       /\ pending[cl] # NoPending => session[cl] = "upload"
  /\ \A cl, d \in Client :
       pending[cl].chunk = pending[d].chunk => cl = d \/ pending[cl] = NoPending
CacheInv == \A cl \in Client : GoodCache(saved, cur, opened, container_cache[cl])

FileRight(cl) ==
  /\ n_upload[cl] <= Len(versions[cl])
  /\ session[cl] # "off" \/ retriever[cl].at \in Reading => n_upload[cl] > 0
  /\ n_upload[cl] = 0 => recipe[cl] = <<>>
  /\ n_upload[cl] > 0 =>
       /\ Len(recipe[cl]) <= Len(FileOf(cl))
       /\ \A i \in 1 .. Len(recipe[cl]) : recipe[cl][i] = FileOf(cl)[i]
       /\ session[cl] # "upload" => Len(recipe[cl]) = Len(FileOf(cl))
  /\ KeysOf(recipe[cl], key_recipe[cl])
  /\ Known(recipe[cl], addr)
  /\ \A c \in cached[cl] : addr[c].stat # "none"
FileInv == \A cl \in Client : FileRight(cl)

(* The server's side.                                                      *)
AtServer(cl) ==
  IF session[cl] = "download"
  THEN ServerRight(saved, addr, container_cache[cl], cached[cl], recipe[cl],
                   doubtful[cl], reader[cl], mq[cl], decoder[cl])
  ELSE ServerIdle(reader[cl], mq[cl], decoder[cl])

(* The client's side.                                                      *)
AtClient(cl) ==
  ClientRight(session[cl], recipe[cl], key_recipe[cl], doubtful[cl], wire[cl],
              Sent(reader[cl], mq[cl], decoder[cl]), decoder[cl].at,
              retriever[cl], writer[cl])
DownloadInv == \A cl \in Client : AtServer(cl) /\ AtClient(cl)

CauseInv ==
  /\ server = "exit" => n_death > 0 \/ \E cl \in Client : doubtful[cl] # {}
  /\ \A cl \in Client : retriever[cl].at = "dead" =>
       n_death > 0 \/ server = "exit" \/ doubtful[cl] # {}

RestoreInv ==
  /\ TypeInv /\ StoredInv /\ PendingInv /\ CacheInv /\ FileInv /\ DownloadInv /\ CauseInv

(* As long as no two uploads were in progress at once.                     *)
NotTorn == {"whole", "nothing"}
InFileAt(sv, a) == IsReal(a) /\ a.container_id[2] <= Len(sv[a.container_id[1]])
Settled(sv, ad, c) ==
  LET b == ad[c].base_fp IN
  /\ InFileAt(sv, ad[c])
  /\ ad[c].stat # "COMP_BASE" =>
       /\ InFileAt(sv, ad[b])
       /\ ad[b].stat = "COMP_DELTA" => InFileAt(sv, ad[ad[b].base_fp])
SavingRight(cl) ==
  /\ cur[cl] # <<>> => Uploading(cl)
  /\ opened[cl] => \/ session[cl] = "upload" /\ pending[cl] # NoPending /\ ~HasRoom(cl)
                   \/ session[cl] = "tail" /\ cur[cl] # <<>>
CacheWhole(sv, rc) == \A id \in CachedNames(rc) : Whole(sv, rc, id)
FileSettled(sv, ad, f) == \A i \in 1 .. Len(f) : Settled(sv, ad, f[i])
AllMultiLevel(ad, db) ==
  \A c \in db : ad[c].stat = "CACHE_DELTA" /\ ad[ad[c].base_fp].stat = "CACHE_DELTA"

OneUpload == \A cl, d \in Client : Uploading(cl) /\ Uploading(d) => cl = d
WholeStored == \A c \in Chunk : AddressRight(saved, cur, addr, NotTorn, c)
Promised ==
  \A c \in Chunk : addr[c].stat = "virtual" => \E cl \in Client : pending[cl].chunk = c
SerialAt(cl) ==
  /\ SavingRight(cl)
  /\ PendingRight(addr, NotTorn, pending[cl])
  /\ session[cl] = "upload" => CacheWhole(saved, container_cache[cl])
  /\ ~Uploading(cl) => FileSettled(saved, addr, recipe[cl])
  /\ AllMultiLevel(addr, doubtful[cl])
Serial == OneUpload /\ WholeStored /\ Promised /\ \A cl \in Client : SerialAt(cl)
SerialInv == ~overlapped => Serial

-----------------------------------------------------------------------------
(* What is stored stays stored.                                            *)

(* What Append gives.                                                      *)
LEMMA AppendFacts ==
  ASSUME NEW S, NEW s \in Seq(S), NEW x \in S
  PROVE  /\ Append(s, x) \in Seq(S) /\ Len(Append(s, x)) = Len(s) + 1
         /\ \A i \in 1 .. Len(s) : Append(s, x)[i] = s[i]
         /\ Append(s, x)[Len(s) + 1] = x
OBVIOUS

(* A container id names a client and a number.                             *)
LEMMA IdParts ==
  ASSUME NEW id \in ContainerId
  PROVE  id[1] \in Client /\ id[2] \in Nat \ {0}
BY DEF ContainerId

(* A step of the store keeps the files that are completely written.        *)
LEMMA GrowthKeeps ==
  ASSUME NEW sv \in [Client -> Seq(Seq(Bytes))], NEW cu \in [Client -> Seq(Bytes)], NEW op,
         NEW sv2, NEW cu2, NEW op2, StoreGrows(sv, cu, op, sv2, cu2, op2)
  PROVE  Kept(sv, sv2)
<1>1. ASSUME NEW id \in ContainerId, id[2] <= Len(sv[id[1]])
      PROVE  id[2] <= Len(sv2[id[1]]) /\ sv2[id[1]][id[2]] = sv[id[1]][id[2]]
  <2>1. PICK cl \in Client, k \in Nat \ {0} : id[1] = cl /\ id[2] = k
    BY IdParts
  <2>2. k <= Len(sv[cl]) /\ sv[cl] \in Seq(Seq(Bytes)) /\ cu[cl] \in Seq(Bytes)
    BY <1>1, <2>1
  <2>3. sv2[cl] = sv[cl] \/ sv2[cl] = Append(sv[cl], cu[cl])
    BY DEF StoreGrows
  <2>4. k <= Len(sv2[cl]) /\ sv2[cl][k] = sv[cl][k]
    <3>1. CASE sv2[cl] = Append(sv[cl], cu[cl])
      BY <2>2, <3>1, AppendFacts
    <3>2. QED
      BY <2>2, <2>3, <3>1
  <2>5. QED
    BY <2>1, <2>4
<1>2. QED
  BY <1>1 DEF Kept

(* An item that is stored stays where it is.                               *)
LEMMA ItemStays ==
  ASSUME NEW sv \in [Client -> Seq(Seq(Bytes))], NEW cu \in [Client -> Seq(Bytes)], NEW op,
         NEW sv2, NEW cu2, NEW op2, StoreGrows(sv, cu, op, sv2, cu2, op2),
         NEW a, NEW x, HasItem(sv, cu, a, x)
  PROVE  HasItem(sv2, cu2, a, x)
<1>1. PICK id \in ContainerId : id = a.container_id
  BY DEF HasItem
<1>2. PICK cl \in Client, k \in Nat \ {0} : id[1] = cl /\ id[2] = k
  BY IdParts
<1>3. PICK o : o = a.offset
  OBVIOUS
<1>4. sv[cl] \in Seq(Seq(Bytes)) /\ cu[cl] \in Seq(Bytes)
  OBVIOUS
<1>5. CASE k <= Len(sv[cl]) /\ o \in DOMAIN sv[cl][k] /\ sv[cl][k][o] = x
  <2>1. id[2] <= Len(sv2[id[1]]) /\ sv2[id[1]][id[2]] = sv[id[1]][id[2]]
    BY <1>2, <1>5, GrowthKeeps DEF Kept
  <2>2. QED
    BY <1>1, <1>2, <1>3, <1>5, <2>1 DEF HasItem
<1>6. CASE k = Len(sv[cl]) + 1 /\ o \in DOMAIN cu[cl] /\ cu[cl][o] = x
  <2>1. CASE sv2[cl] = Append(sv[cl], cu[cl])
    <3>1. k <= Len(sv2[cl]) /\ sv2[cl][k] = cu[cl]
      BY <1>4, <1>6, <2>1
    <3>2. QED
      BY <1>1, <1>2, <1>3, <1>6, <3>1 DEF HasItem
  <2>2. CASE sv2[cl] = sv[cl] /\ cu2[cl] = cu[cl]
    BY <1>1, <1>2, <1>3, <1>6, <2>2 DEF HasItem
  <2>3. ASSUME sv2[cl] = sv[cl], NEW y \in Bytes, cu2[cl] = Append(cu[cl], y)
        PROVE  HasItem(sv2, cu2, a, x)
    <3>1. o \in DOMAIN cu2[cl] /\ cu2[cl][o] = x
      BY <1>4, <1>6, <2>3
    <3>2. QED
      BY <1>1, <1>2, <1>3, <1>6, <2>3, <3>1 DEF HasItem
  <2>4. QED
    BY <2>1, <2>2, <2>3 DEF StoreGrows
<1>7. QED
  BY <1>1, <1>2, <1>3, <1>5, <1>6 DEF HasItem

(* The beginning of a file is its beginning when it has grown.             *)
LEMMA BeginningStays ==
  ASSUME NEW s \in Seq(Bytes), NEW x, NEW t \in Seq(Bytes), BeginsWith(s, t)
  PROVE  BeginsWith(Append(s, x), t)
BY DEF BeginsWith

(* What is known of a container is still known after a step of the store.  *)
LEMMA KnowledgeStays ==
  ASSUME NEW sv \in [Client -> Seq(Seq(Bytes))], NEW cu \in [Client -> Seq(Bytes)], NEW op,
         NEW sv2, NEW cu2, NEW op2, StoreGrows(sv, cu, op, sv2, cu2, op2),
         NEW id, NEW data, Knows(sv, cu, op, id, data)
  PROVE  Knows(sv2, cu2, op2, id, data)
<1>1. id \in ContainerId /\ data \in Seq(Bytes)
  BY DEF Knows
<1>2. PICK cl \in Client, k \in Nat \ {0} : id[1] = cl /\ id[2] = k
  BY <1>1, IdParts
<1>3. sv[cl] \in Seq(Seq(Bytes)) /\ cu[cl] \in Seq(Bytes)
  OBVIOUS
<1>4. CASE k <= Len(sv[cl]) /\ BeginsWith(sv[cl][k], data)
  <2>1. id[2] <= Len(sv2[id[1]]) /\ sv2[id[1]][id[2]] = sv[id[1]][id[2]]
    BY <1>1, <1>2, <1>4, GrowthKeeps DEF Kept
  <2>2. QED
    BY <1>1, <1>2, <1>4, <2>1 DEF Knows
<1>5. CASE k = Len(sv[cl]) + 1 /\ op[cl] /\ BeginsWith(cu[cl], data)
  <2>1. CASE sv2[cl] = Append(sv[cl], cu[cl])
    <3>1. k <= Len(sv2[cl]) /\ sv2[cl][k] = cu[cl]
      BY <1>3, <1>5, <2>1
    <3>2. QED
      BY <1>1, <1>2, <1>5, <3>1 DEF Knows
  <2>2. CASE sv2[cl] = sv[cl] /\ op2[cl] /\ cu2[cl] = cu[cl]
    BY <1>1, <1>2, <1>5, <2>2 DEF Knows
  <2>3. ASSUME sv2[cl] = sv[cl], op2[cl], NEW y \in Bytes, cu2[cl] = Append(cu[cl], y)
        PROVE  Knows(sv2, cu2, op2, id, data)
    <3>1. BeginsWith(cu2[cl], data)
      BY <1>1, <1>3, <1>5, <2>3, BeginningStays
    <3>2. QED
      BY <1>1, <1>2, <1>5, <2>3, <3>1 DEF Knows
  <2>4. QED
    BY <1>5, <2>1, <2>2, <2>3 DEF StoreGrows
<1>6. QED
  BY <1>2, <1>4, <1>5 DEF Knows

(* So a cache stays as good as it was.                                     *)
LEMMA CacheStays ==
  ASSUME NEW sv \in [Client -> Seq(Seq(Bytes))], NEW cu \in [Client -> Seq(Bytes)], NEW op,
         NEW sv2, NEW cu2, NEW op2, StoreGrows(sv, cu, op, sv2, cu2, op2),
         NEW rc, GoodCache(sv, cu, op, rc)
  PROVE  GoodCache(sv2, cu2, op2, rc)
<1>1. \A id \in CachedNames(rc) : Knows(sv2, cu2, op2, id, CachedData(rc, id))
  BY KnowledgeStays DEF GoodCache
<1>2. QED
  BY <1>1 DEF GoodCache

(* What a session holds, it still holds afterwards.                        *)
StillHeld(sv, rc, sv2, rc2) ==
  \A id \in ContainerId : Whole(sv, rc, id) =>
    Whole(sv2, rc2, id) /\ sv2[id[1]][id[2]] = sv[id[1]][id[2]]

(* A completely written container is held after a step of the store.       *)
LEMMA KeptIsHeld ==
  ASSUME NEW sv, NEW sv2, Kept(sv, sv2), NEW rc
  PROVE  StillHeld(sv, rc, sv2, rc)
BY DEF Kept, StillHeld, Whole

BasesKnown(ad) ==
  \A c \in Chunk : ad[c].stat \in {"COMP_DELTA", "CACHE_DELTA"} => ad[c].base_fp \in Chunk

(* A chunk that is held keeps its address and its bytes.                   *)
LEMMA ChunkStaysHeld ==
  ASSUME NEW sv, NEW rc, NEW sv2, NEW rc2, StillHeld(sv, rc, sv2, rc2),
         NEW ad, NEW ad2, AddressesStay(ad, ad2), NEW c \in Chunk, HeldAt(sv, rc, ad, c)
  PROVE  /\ HeldAt(sv2, rc2, ad2, c) /\ ad2[c] = ad[c]
         /\ BytesAt(sv2, ad2, c) = BytesAt(sv, ad, c)
<1>1. ad2[c] = ad[c]
  BY DEF Held, HeldAt, AddressesStay
<1>2. PICK id \in ContainerId : id = ad[c].container_id /\ Whole(sv, rc, id)
  BY DEF Held, HeldAt
<1>3. Whole(sv2, rc2, id) /\ sv2[id[1]][id[2]] = sv[id[1]][id[2]]
  BY <1>2 DEF StillHeld
<1>4. QED
  BY <1>1, <1>2, <1>3 DEF Held, HeldAt, ContentAt, BytesAt

(* The same of a chunk with its base,                                      *)
LEMMA CompStaysHeld ==
  ASSUME NEW sv, NEW rc, NEW sv2, NEW rc2, StillHeld(sv, rc, sv2, rc2),
         NEW ad, NEW ad2, AddressesStay(ad, ad2), BasesKnown(ad),
         NEW c \in Chunk, HeldComp(sv, rc, ad, c)
  PROVE  HeldComp(sv2, rc2, ad2, c)
<1>1. /\ HeldAt(sv, rc, ad, c)
      /\ HeldAt(sv2, rc2, ad2, c) /\ ad2[c] = ad[c]
      /\ BytesAt(sv2, ad2, c) = BytesAt(sv, ad, c)
  BY ChunkStaysHeld DEF HeldComp, HeldBase
<1>2. CASE ad[c].stat = "COMP_BASE"
  BY <1>1, <1>2 DEF HeldComp, HeldBase
<1>3. CASE ad[c].stat = "COMP_DELTA"
  <2>1. PICK b \in Chunk : b = ad[c].base_fp
    BY <1>3 DEF BasesKnown
  <2>2. HeldBase(sv, rc, ad, b) => HeldBase(sv2, rc2, ad2, b)
    BY ChunkStaysHeld DEF HeldBase
  <2>3. QED
    BY <1>1, <1>3, <2>1, <2>2 DEF HeldComp, HeldBase
<1>4. QED
  BY <1>2, <1>3 DEF HeldComp, HeldBase

(* and of a chunk that is safe.                                            *)
LEMMA SafeStays ==
  ASSUME NEW sv, NEW rc, NEW sv2, NEW rc2, StillHeld(sv, rc, sv2, rc2),
         NEW ad, NEW ad2, AddressesStay(ad, ad2), BasesKnown(ad),
         NEW ca, NEW c \in Chunk, StaysSafe(sv, rc, ad, ca, c)
  PROVE  StaysSafe(sv2, rc2, ad2, ca, c)
<1>1. CASE HeldComp(sv, rc, ad, c)
  BY <1>1, CompStaysHeld DEF StaysSafe
<1>2. CASE /\ HeldAt(sv, rc, ad, c) /\ ad[c].stat = "CACHE_DELTA"
           /\ ad[c].base_fp \in ca \/ HeldComp(sv, rc, ad, ad[c].base_fp)
  <2>1. PICK b \in Chunk : b = ad[c].base_fp
    BY <1>2 DEF BasesKnown
  <2>2. HeldComp(sv, rc, ad, b) => HeldComp(sv2, rc2, ad2, b)
    BY CompStaysHeld
  <2>3. HeldAt(sv2, rc2, ad2, c) /\ ad2[c] = ad[c]
    BY <1>2, ChunkStaysHeld
  <2>4. QED
    BY <1>2, <2>1, <2>2, <2>3 DEF StaysSafe
<1>3. QED
  BY <1>1, <1>2 DEF StaysSafe

-----------------------------------------------------------------------------
(* Bytes                                                                   *)

(* What is bytes, and that none of it is junk.                             *)
LEMMA BytesFacts ==
  /\ \A c \in Chunk : Comp(c) \in Plain /\ Uncomp(c) \in Plain
  /\ Plain \subseteq Bytes /\ Bytes \subseteq Stored /\ Junk \in Stored
  /\ \A t, b \in Plain, r \in Reads : Delta(t, b, r) \in Bytes
  /\ \A c : Comp(c) # Junk /\ Uncomp(c) # Junk
<1>1. /\ \A c \in Chunk : Comp(c) \in Plain /\ Uncomp(c) \in Plain
      /\ Plain \subseteq Bytes /\ Bytes \subseteq Stored /\ Junk \in Stored
  BY DEF Plain, Bytes, Stored
<1>2. ASSUME NEW t \in Plain, NEW b \in Plain, NEW r \in Reads
      PROVE  Delta(t, b, r) \in Bytes
  BY DEF Bytes, Reads
<1>3. ASSUME NEW c
      PROVE  Comp(c) # Junk /\ Uncomp(c) # Junk
  <2>1. Comp(c).form = "comp" /\ Uncomp(c).form = "uncomp" /\ Junk.form = "junk"
    BY DEF Comp, Uncomp, Junk
  <2>2. QED
    BY <2>1
<1>4. QED
  BY <1>1, <1>2, <1>3

(* A delta is bytes.                                                       *)
LEMMA DeltaTyped ==
  ASSUME NEW c \in Chunk, NEW b \in Chunk, NEW stat, NEW r \in Reads
  PROVE  DeltaBytes(c, b, stat, r) \in Bytes
BY BytesFacts DEF DeltaBytes, Reads

(* What is decoded is bytes, or junk.                                      *)
LEMMA DecodeTyped ==
  ASSUME NEW base, NEW delta \in Stored
  PROVE  DeltaDecode(base, delta) \in Stored
<1>1. CASE delta \in Plain \/ delta = Junk
  <2>1. delta.form # "delta"
    BY <1>1 DEF Plain, Junk, Comp, Uncomp
  <2>2. QED
    BY <2>1, BytesFacts DEF DeltaDecode
<1>2. ASSUME NEW t \in Plain, NEW b \in Plain, NEW r \in Reads, delta = Delta(t, b, r)
      PROVE  DeltaDecode(base, delta) \in Stored
  <2>1. delta.target = t
    BY <1>2 DEF Delta
  <2>2. QED
    BY <2>1, BytesFacts DEF DeltaDecode
<1>3. QED
  BY <1>1, <1>2 DEF Stored, Bytes, Reads

(* A delta of the whole base decodes with the base, one of nothing with    *)
(* any.                                                                    *)
LEMMA DecodeFacts ==
  ASSUME NEW t, NEW b, NEW r \in Reads, NEW base,
         r = "nothing" \/ (r = "whole" /\ base = b)
  PROVE  DeltaDecode(base, Delta(t, b, r)) = t
BY DEF DeltaDecode, Delta, Reads

LEMMA ReadOfDelta ==
  ASSUME NEW t, NEW b, NEW r
  PROVE  Delta(t, b, r).read = r
BY DEF Delta

(* What DecodeChunk makes of a raw chunk is a message.                     *)
LEMMA DecodedTyped ==
  ASSUME NEW raw \in RawChunk
  PROVE  Decoded(raw) \in Message
<1>1. raw.input \in Stored /\ raw.base \in Stored
  BY DEF RawChunk
<1>2. DeltaDecode(raw.base, raw.input) \in Stored /\ Junk \in Stored
  BY <1>1, DecodeTyped, BytesFacts
<1> HIDE DEF Junk
<1>3. QED
  BY <1>1, <1>2 DEF Decoded, Msg, Message

(* A raw chunk that leads to a chunk becomes a message that leads to it.   *)
LEMMA DecodedRight ==
  ASSUME NEW raw, NEW c, RawRight(raw, c)
  PROVE  MsgRight(Decoded(raw), c) /\ ~ MayExit(raw)
<1> DEFINE x == DeltaDecode(raw.base, raw.input)
<1> HIDE DEF x
<1>1. CASE raw.stat = "COMP_BASE" /\ raw.input = Comp(c)
  <2>1. Decoded(raw) = Msg("COMP_NORMAL", Comp(c), Junk)
    BY <1>1 DEF Decoded
  <2>2. QED
    BY <1>1, <2>1, BytesFacts DEF MsgRight, MayExit, Msg
<1>2. CASE raw.stat = "COMP_DELTA" /\ raw.base_type = "COMP_BASE" /\ x = Comp(c)
  <2>1. Decoded(raw) = Msg("COMP_NORMAL", Comp(c), Junk)
    BY <1>2 DEF Decoded, x
  <2>2. QED
    BY <1>2, <2>1, BytesFacts DEF MsgRight, MayExit, Msg
<1>3. CASE raw.stat = "CACHE_DELTA" /\ raw.base_type = "UNCOMP_BASE" /\ x = Uncomp(c)
  <2>1. Decoded(raw) = Msg("UNCOMP_NORMAL", Uncomp(c), Junk)
    BY <1>3 DEF Decoded, x
  <2>2. QED
    BY <1>3, <2>1, BytesFacts DEF MsgRight, MayExit, Msg
<1>4. CASE /\ raw.stat = "CACHE_DELTA" /\ raw.base_type = "COMP_BASE"
           /\ RestoreBytes(raw.input, raw.base, c)
  <2>1. Decoded(raw) = Msg("CACHE_RESTORE", raw.input, raw.base)
    BY <1>4 DEF Decoded
  <2>2. QED
    BY <1>4, <2>1 DEF MsgRight, MayExit, Msg
<1>5. QED
  BY <1>1, <1>2, <1>3, <1>4 DEF RawRight, x

(* From such a message the client gets the chunk, with its key.            *)
LEMMA RestoredRight ==
  ASSUME NEW msg, NEW c \in Chunk, MsgRight(msg, c)
  PROVE  Restored(msg, KeyOf[c]) = c
<1>1. CASE msg.type = "COMP_NORMAL" /\ msg.data = Comp(c)
  <2>1. ProcComp(msg.data, KeyOf[c]) = c
    BY <1>1 DEF ProcComp, Comp
  <2>2. QED
    BY <1>1, <2>1 DEF Restored
<1>2. CASE msg.type = "UNCOMP_NORMAL" /\ msg.data = Uncomp(c)
  <2>1. ProcUncomp(msg.data, KeyOf[c]) = c
    BY <1>2 DEF ProcUncomp, Uncomp
  <2>2. QED
    BY <1>2, <2>1 DEF Restored
<1>3. ASSUME msg.type = "CACHE_RESTORE", NEW b \in Chunk, msg.base = Comp(b),
             KeyOf[b] = KeyOf[c], msg.data = Delta(Uncomp(c), Uncomp(b), "whole")
      PROVE  Restored(msg, KeyOf[c]) = c
  <2>1. ProcComp(msg.base, KeyOf[c]) = b /\ msg.base.chunk = b
    BY <1>3 DEF ProcComp, Comp
  <2>2. ProcRestoreBase(msg.base, KeyOf[c]) = Uncomp(b)
    BY <2>1 DEF ProcRestoreBase
  <2>3. DeltaDecode(Uncomp(b), msg.data) = Uncomp(c)
    BY <1>3, DecodeFacts DEF Reads
  <2>4. ProcUncomp(Uncomp(c), KeyOf[c]) = c
    BY DEF ProcUncomp, Uncomp
  <2>5. QED
    BY <1>3, <2>2, <2>3, <2>4 DEF Restored
<1>4. QED
  BY <1>1, <1>2, <1>3 DEF MsgRight, RestoreBytes

(* What the client decrypts is a chunk or nothing.                         *)
LEMMA ProcTyped ==
  ASSUME NEW x \in Stored, NEW key
  PROVE  ProcComp(x, key) \in Chunk \cup {NoBase} /\ ProcUncomp(x, key) \in Chunk \cup {NoBase}
<1>1. CASE x \in Plain
  BY <1>1 DEF Plain, Comp, Uncomp, ProcComp, ProcUncomp
<1>2. CASE x \notin Plain
  <2>1. x.form \notin {"comp", "uncomp"}
    BY <1>2 DEF Stored, Bytes, Junk, Delta
  <2>2. QED
    BY <2>1 DEF ProcComp, ProcUncomp
<1>3. QED
  BY <1>1, <1>2

(* What the client restores is a chunk or nothing.                         *)
LEMMA RestoredTyped ==
  ASSUME NEW msg \in Message, NEW key
  PROVE  Restored(msg, key) \in Chunk \cup {NoBase}
<1> DEFINE x == DeltaDecode(ProcRestoreBase(msg.base, key), msg.data)
<1>1. msg.data \in Stored /\ msg.type \in {"COMP_NORMAL", "UNCOMP_NORMAL", "CACHE_RESTORE", "MULTI_LEVEL"}
  BY DEF Message
<1>2. x \in Stored
  BY <1>1, DecodeTyped
<1> HIDE DEF x
<1>3. /\ ProcComp(msg.data, key) \in Chunk \cup {NoBase}
      /\ ProcUncomp(msg.data, key) \in Chunk \cup {NoBase}
      /\ ProcUncomp(x, key) \in Chunk \cup {NoBase}
  BY <1>1, <1>2, ProcTyped
<1>4. QED
  BY <1>1, <1>3 DEF Restored, x

-----------------------------------------------------------------------------
(* Addresses                                                               *)

(* What can be the base of a chunk can be it after a step.                 *)
LEMMA DeltaStaysDelta ==
  ASSUME NEW ad, NEW ad2, AddressesStay(ad, ad2), NEW c, NEW b, NEW stat,
         MayBeDelta(ad, c, b, stat)
  PROVE  MayBeDelta(ad2, c, b, stat)
<1>1. b \in Chunk
  BY DEF MayBeDelta
<1>2. ad[b].stat = "COMP_BASE" => IsReal(ad[b])
  BY DEF IsReal
<1>3. QED
  BY <1>1, <1>2 DEF MayBeDelta, AddressesStay

(* An address stays right in a step of the store.                          *)
LEMMA AddressStays ==
  ASSUME NEW sv \in [Client -> Seq(Seq(Bytes))], NEW cu \in [Client -> Seq(Bytes)], NEW op,
         NEW sv2, NEW cu2, NEW op2, StoreGrows(sv, cu, op, sv2, cu2, op2),
         NEW ad, NEW ad2, AddressesStay(ad, ad2), NEW reads,
         NEW c \in Chunk, AddressRight(sv, cu, ad, reads, c), ad2[c] = ad[c]
  PROVE  AddressRight(sv2, cu2, ad2, reads, c)
<1>1. \A x : HasItem(sv, cu, ad[c], x) => HasItem(sv2, cu2, ad[c], x)
  BY ItemStays
<1>2. MayBeDelta(ad, c, ad[c].base_fp, ad[c].stat) => MayBeDelta(ad2, c, ad[c].base_fp, ad[c].stat)
  BY DeltaStaysDelta
<1>3. QED
  BY <1>1, <1>2 DEF AddressRight

(* What is yet to be written stays right.                                  *)
LEMMA PendingStays ==
  ASSUME NEW ad, NEW ad2, AddressesStay(ad, ad2), NEW reads, NEW p,
         PendingRight(ad, reads, p), p = NoPending \/ ad2[p.chunk].stat = "virtual"
  PROVE  PendingRight(ad2, reads, p)
<1>1. MayBeDelta(ad, p.chunk, p.base, p.stat) => MayBeDelta(ad2, p.chunk, p.base, p.stat)
  BY DeltaStaysDelta
<1>2. QED
  BY <1>1 DEF PendingRight

(* The bases that addresses name are known.                                *)
LEMMA RightBases ==
  ASSUME NEW sv, NEW cu, NEW ad, NEW reads,
         \A c \in Chunk : AddressRight(sv, cu, ad, reads, c)
  PROVE  BasesKnown(ad)
BY DEF BasesKnown, AddressRight, MayBeDelta

(* The item at an address is what is read where the container is held.     *)
LEMMA ItemIsContent ==
  ASSUME NEW sv \in [Client -> Seq(Seq(Bytes))], NEW cu, NEW rc, NEW a, NEW x,
         HasItem(sv, cu, a, x), Held(sv, rc, a)
  PROVE  ContentAt(sv, a) = x
<1>1. PICK id \in ContainerId : id = a.container_id
  BY DEF HasItem
<1>2. PICK cl \in Client, k \in Nat \ {0} : id[1] = cl /\ id[2] = k
  BY IdParts
<1>3. k <= Len(sv[cl]) /\ Len(sv[cl]) \in Nat
  BY <1>1, <1>2 DEF Held, Whole
<1>4. a.offset \in DOMAIN sv[cl][k] /\ sv[cl][k][a.offset] = x
  BY <1>1, <1>2, <1>3 DEF HasItem
<1>5. QED
  BY <1>1, <1>2, <1>4 DEF ContentAt, At

(* What a session reads where it holds the container.                      *)
LEMMA HeldBaseBytes ==
  ASSUME NEW sv \in [Client -> Seq(Seq(Bytes))], NEW cu, NEW rc, NEW ad, NEW reads,
         NEW c \in Chunk, AddressRight(sv, cu, ad, reads, c), HeldBase(sv, rc, ad, c)
  PROVE  BytesAt(sv, ad, c) = Comp(c)
BY ItemIsContent DEF AddressRight, HeldBase, HeldAt, BytesAt

(* The same for a delta of a compressed chunk,                             *)
LEMMA HeldDeltaBytes ==
  ASSUME NEW sv \in [Client -> Seq(Seq(Bytes))], NEW cu, NEW rc, NEW ad, NEW reads,
         NEW c \in Chunk, AddressRight(sv, cu, ad, reads, c), HeldAt(sv, rc, ad, c),
         ad[c].stat = "COMP_DELTA"
  PROVE  \E b \in Chunk, r \in reads :
           /\ ad[c].base_fp = b /\ ad[b].stat = "COMP_BASE"
           /\ BytesAt(sv, ad, c) = Delta(Comp(c), Comp(b), r)
<1>1. PICK r \in reads : HasItem(sv, cu, ad[c], DeltaBytes(c, ad[c].base_fp, ad[c].stat, r))
  BY DEF AddressRight
<1>2. BytesAt(sv, ad, c) = Delta(Comp(c), Comp(ad[c].base_fp), r)
  BY <1>1, ItemIsContent DEF DeltaBytes, HeldAt, BytesAt
<1>3. ad[c].base_fp \in Chunk /\ ad[ad[c].base_fp].stat = "COMP_BASE"
  BY DEF AddressRight, MayBeDelta
<1>4. QED
  BY <1>2, <1>3

(* and for a delta of a cached chunk.                                      *)
LEMMA HeldCacheDeltaBytes ==
  ASSUME NEW sv \in [Client -> Seq(Seq(Bytes))], NEW cu, NEW rc, NEW ad, NEW reads,
         NEW c \in Chunk, AddressRight(sv, cu, ad, reads, c), HeldAt(sv, rc, ad, c),
         ad[c].stat = "CACHE_DELTA"
  PROVE  \E b \in Chunk :
           /\ ad[c].base_fp = b /\ KeyOf[b] = KeyOf[c]
           /\ BytesAt(sv, ad, c) = Delta(Uncomp(c), Uncomp(b), "whole")
<1>1. PICK r \in reads : HasItem(sv, cu, ad[c], DeltaBytes(c, ad[c].base_fp, ad[c].stat, r))
  BY DEF AddressRight
<1>2. BytesAt(sv, ad, c) = Delta(Uncomp(c), Uncomp(ad[c].base_fp), "whole")
  BY <1>1, ItemIsContent DEF DeltaBytes, HeldAt, BytesAt
<1>3. ad[c].base_fp \in Chunk /\ KeyOf[ad[c].base_fp] = KeyOf[c]
  BY DEF AddressRight, MayBeDelta
<1>4. QED
  BY <1>2, <1>3

(* A safe delta of a compressed chunk decodes with what is read of its     *)
(* base.                                                                   *)
ReadAs(sv, rc, ad, c, base) == HeldAt(sv, rc, ad, c) => base = BytesAt(sv, ad, c)
SafeDelta(sv, cu, rc, ad, c, b, base) ==
  /\ AddressRight(sv, cu, ad, Reads, c) /\ AddressRight(sv, cu, ad, Reads, b)
  /\ HeldComp(sv, rc, ad, c) /\ ad[c].stat = "COMP_DELTA" /\ ad[c].base_fp = b
  /\ ReadAs(sv, rc, ad, b, base)

LEMMA SafeDeltaDecodes ==
  ASSUME NEW sv \in [Client -> Seq(Seq(Bytes))], NEW cu, NEW rc, NEW ad,
         NEW c \in Chunk, NEW b \in Chunk, NEW base, SafeDelta(sv, cu, rc, ad, c, b, base)
  PROVE  DeltaDecode(base, BytesAt(sv, ad, c)) = Comp(c)
<1>0. /\ AddressRight(sv, cu, ad, Reads, c) /\ AddressRight(sv, cu, ad, Reads, b)
      /\ HeldComp(sv, rc, ad, c) /\ ad[c].stat = "COMP_DELTA" /\ ad[c].base_fp = b
      /\ HeldAt(sv, rc, ad, b) => base = BytesAt(sv, ad, b)
  BY DEF SafeDelta, ReadAs
<1>1. HeldAt(sv, rc, ad, c)
  BY <1>0 DEF HeldComp, HeldBase
<1>2. PICK r \in Reads : BytesAt(sv, ad, c) = Delta(Comp(c), Comp(b), r)
  BY <1>0, <1>1, HeldDeltaBytes
<1>3. r = "nothing" \/ (r = "whole" /\ HeldBase(sv, rc, ad, b))
  BY <1>0, <1>2, ReadOfDelta DEF HeldComp, HeldBase
<1>4. r = "whole" => base = Comp(b)
  BY <1>0, <1>2, <1>3, HeldBaseBytes DEF HeldBase
<1>5. QED
  BY <1>2, <1>3, <1>4, DecodeFacts

-----------------------------------------------------------------------------
(* ReadChunk                                                               *)

(* A sequence that was cut short is a beginning.                           *)
LEMMA BeginsWithPrefix ==
  ASSUME NEW s \in Seq(Bytes), NEW k \in 0 .. Len(s)
  PROVE  SubSeq(s, 1, k) \in Seq(Bytes) /\ BeginsWith(s, SubSeq(s, 1, k)) /\ BeginsWith(s, s)
BY DEF BeginsWith

(* What a reader finds in a file is what a cache may hold of it.           *)
LEMMA FileIsKnown ==
  ASSUME ContainerTypeOK(Bytes), NEW id \in ContainerId, NEW content \in FileBytes(id)
  PROVE  /\ Knows(saved, cur, opened, id, content)
         /\ id[2] <= Len(saved[id[1]]) => content = saved[id[1]][id[2]]
<1>1. PICK cl \in Client, k \in Nat \ {0} : id[1] = cl /\ id[2] = k
  BY IdParts
<1>2. saved[cl] \in Seq(Seq(Bytes)) /\ cur[cl] \in Seq(Bytes)
  BY DEF ContainerTypeOK
<1>3. CASE k <= Len(saved[cl])
  <2>1. saved[cl][k] \in Seq(Bytes)
    BY <1>2, <1>3
  <2>2. content = saved[cl][k]
    BY <1>1, <1>3 DEF FileBytes, IsSaved
  <2>3. BeginsWith(content, content)
    BY <2>1, <2>2 DEF BeginsWith
  <2>4. QED
    BY <1>1, <1>3, <2>1, <2>2, <2>3 DEF Knows
<1>4. CASE ~ (k <= Len(saved[cl]))
  <2>1. IsOpened(id) /\ \E n \in 0 .. Len(cur[cl]) : content = SubSeq(cur[cl], 1, n)
    BY <1>1, <1>4 DEF FileBytes, IsSaved
  <2>2. k = Len(saved[cl]) + 1 /\ opened[cl]
    BY <1>1, <2>1 DEF IsOpened, CurId
  <2>3. content \in Seq(Bytes) /\ BeginsWith(cur[cl], content)
    BY <1>2, <2>1, BeginsWithPrefix
  <2>4. QED
    BY <1>1, <1>4, <2>2, <2>3 DEF Knows
<1>5. QED
  BY <1>3, <1>4

(* What is read is bytes, or junk.                                         *)
LEMMA AtTyped ==
  ASSUME NEW s \in Seq(Bytes), NEW offset
  PROVE  At(s, offset) \in Stored
BY DEF At, Stored

(* ReadChunk leaves a good cache, and reads what is at the address if the  *)
(* container is held.                                                      *)
LEMMA ReadsRight ==
  ASSUME ContainerTypeOK(Bytes), NEW cl \in Client, NEW rc, rc = container_cache[cl],
         GoodCache(saved, cur, opened, rc),
         NEW a, IsReal(a) => a.container_id \in ContainerId, NEW r \in ReadChunk(cl, a)
  PROVE  /\ GoodCache(saved, cur, opened, r.cache) /\ r.bytes \in Stored
         /\ StillHeld(saved, rc, saved, r.cache)
         /\ Held(saved, rc, a) => r.bytes = ContentAt(saved, a)
<1> DEFINE id == a.container_id
<1> HIDE DEF id
<1>1. CASE r.cache = rc /\ r.bytes = Junk /\ ~ Held(saved, rc, a)
  BY <1>1, BytesFacts DEF StillHeld
<1>2. CASE IsReal(a) /\ Exist(rc, id) /\ r = Found(At(CachedData(rc, id), a.offset), Touch(rc, id))
  <2>1. PICK t : t = Touch(rc, id)
    OBVIOUS
  <2>2. r.cache = t /\ r.bytes = At(CachedData(rc, id), a.offset)
    BY <1>2, <2>1 DEF Found
  <2>3. /\ CacheOK(t) /\ CacheRecord(t) /\ CachedNames(t) = CachedNames(rc)
        /\ \A m \in CachedNames(t) : CachedData(t, m) = CachedData(rc, m)
    BY <1>2, <2>1, TouchFacts DEF GoodCache
  <2>4. GoodCache(saved, cur, opened, t)
    BY <2>3 DEF GoodCache
  <2>5. StillHeld(saved, rc, saved, t)
    BY <2>3 DEF StillHeld, Whole, Exist
  <2>6. CachedData(rc, id) \in Seq(Bytes)
    BY <1>2 DEF GoodCache, Knows, Exist
  <2>7. Held(saved, rc, a) => r.bytes = ContentAt(saved, a)
    BY <1>2, <2>2 DEF Held, Whole, ContentAt, id
  <2>8. QED
    BY <2>2, <2>4, <2>5, <2>6, <2>7, AtTyped
<1>3. ASSUME IsReal(a), ~ Exist(rc, id), NEW content \in FileBytes(id),
             r = Found(At(content, a.offset), Insert(rc, id, content))
      PROVE  /\ GoodCache(saved, cur, opened, r.cache) /\ r.bytes \in Stored
             /\ StillHeld(saved, rc, saved, r.cache)
             /\ Held(saved, rc, a) => r.bytes = ContentAt(saved, a)
  <2>1. PICK t : t = Insert(rc, id, content)
    OBVIOUS
  <2>2. r.cache = t /\ r.bytes = At(content, a.offset)
    BY <1>3, <2>1 DEF Found
  <2>3. /\ CacheOK(t) /\ CacheRecord(t) /\ CachedNames(t) \subseteq CachedNames(rc) \cup {id}
        /\ \A m \in CachedNames(t) :
             CachedData(t, m) = IF m = id THEN content ELSE CachedData(rc, m)
    BY <1>3, <2>1, InsertFacts DEF GoodCache
  <2>4. id \in ContainerId
    BY <1>3 DEF id
  <2>5. /\ Knows(saved, cur, opened, id, content)
        /\ id[2] <= Len(saved[id[1]]) => content = saved[id[1]][id[2]]
    BY <1>3, <2>4, FileIsKnown
  <2>6. GoodCache(saved, cur, opened, t)
    BY <2>3, <2>5 DEF GoodCache
  <2>7. StillHeld(saved, rc, saved, t)
    <3>1. ASSUME NEW m \in ContainerId, Whole(saved, rc, m)
          PROVE  Whole(saved, t, m)
      <4>1. CASE m = id
        BY <2>3, <2>5, <3>1, <4>1 DEF Whole, Exist
      <4>2. CASE m # id
        BY <2>3, <3>1, <4>2 DEF Whole, Exist
      <4>3. QED
        BY <4>1, <4>2
    <3>2. QED
      BY <3>1 DEF StillHeld
  <2>8. content \in Seq(Bytes)
    BY <2>5 DEF Knows
  <2>9. Held(saved, rc, a) => r.bytes = ContentAt(saved, a)
    BY <2>2, <2>5 DEF Held, Whole, ContentAt, id
  <2>10. QED
    BY <2>2, <2>6, <2>7, <2>8, <2>9, AtTyped
<1>4. CASE /\ IsReal(a) /\ id = CurId(cl)
           /\ r = Found(At(cur[cl], a.offset), rc)
  <2>1. cur[cl] \in Seq(Bytes) /\ saved[cl] \in Seq(Seq(Bytes))
    BY DEF ContainerTypeOK
  <2>2. r.cache = rc /\ r.bytes = At(cur[cl], a.offset)
    BY <1>4 DEF Found
  <2>3. ~ Held(saved, rc, a)
    BY <1>4, <2>1 DEF Held, Whole, id, CurId
  <2>4. QED
    BY <2>1, <2>2, <2>3, AtTyped DEF StillHeld
<1>5. CASE ~ IsReal(a)
  BY <1>1, <1>5 DEF ReadChunk, Held
<1>6. CASE IsReal(a) /\ FileBytes(id) = {} /\ r.cache = rc /\ r.bytes = Junk
  <2>1. ~ Held(saved, rc, a)
    BY <1>6 DEF Held, Whole, id, FileBytes, IsSaved
  <2>2. QED
    BY <1>1, <1>6, <2>1
<1>7. QED
  BY <1>2, <1>3, <1>4, <1>5, <1>6 DEF ReadChunk, id

-----------------------------------------------------------------------------
(* The steps of a download, on the values that they change.                *)

(* The fields of a reader.                                                 *)
LEMMA ReaderTypes ==
  ASSUME NEW r \in Reader
  PROVE  /\ r.at \in Busy \cup {"off", "end"} /\ r.next \in Nat /\ r.batch \in Seq(Chunk)
         /\ r.is_end \in BOOLEAN /\ r.raw \in RawChunk /\ r.delta \in Stored
         /\ r.want \in Chunk \cup {NoBase} /\ Len(r.batch) \in Nat
BY DEF Reader

(* What ReadRecipe and PushRaw make of the reader.                         *)
WithRecipe(r, f, n, last) ==
  [r EXCEPT !.at = IF n = 0 THEN "end" ELSE "fetch", !.next = r.next + n,
            !.batch = SubSeq(f, r.next + 1, r.next + n), !.is_end = last]
WithoutHead(r) ==
  [r EXCEPT !.at = IF Tail(r.batch) # <<>> THEN "fetch"
                   ELSE IF r.is_end THEN "end" ELSE "read",
            !.batch = Tail(r.batch), !.raw = Raw, !.delta = Junk, !.want = NoBase]

(* ReadRecipe takes the next fps of the recipe.                            *)
LEMMA RecipeStep ==
  ASSUME NEW f \in Seq(Chunk), NEW r \in Reader, ReaderRight(r, f), r.at = "read",
         NEW n \in Nat, r.next + n <= Len(f), n = 0 => r.next = Len(f),
         NEW last \in BOOLEAN, last => r.next + n = Len(f),
         NEW r2, r2 = WithRecipe(r, f, n, last)
  PROVE  /\ r2 \in Reader /\ ReaderRight(r2, f) /\ Pushed(r2) = Pushed(r)
         /\ r2.at \in {"fetch", "end"}
<1>1. /\ r.next \in Nat /\ r.next <= Len(f) /\ r.batch = <<>> /\ Len(f) \in Nat
      /\ r.raw \in RawChunk /\ r.delta \in Stored /\ r.want \in Chunk \cup {NoBase}
  BY ReaderTypes DEF ReaderRight
<1>2. PICK m \in Nat : m = r.next /\ m + n <= Len(f)
  BY <1>1
<1>3. PICK b : b = SubSeq(f, r.next + 1, r.next + n)
  OBVIOUS
<1>4. /\ b \in Seq(Chunk) /\ Len(b) = n
      /\ \A i \in 1 .. n : b[i] = f[r.next + i]
  <2>1. b = SubSeq(f, m + 1, m + n)
    BY <1>2, <1>3
  <2>2. /\ b \in Seq(Chunk) /\ Len(b) = n
        /\ \A i \in 1 .. n : b[i] = f[m + i]
    <3>1. PICK s \in Seq(Chunk) : s = f
      OBVIOUS
    <3>2. \A i \in m + 1 .. m + n : s[i] \in Chunk
      BY <1>2, <3>1
    <3>3. /\ SubSeq(s, m + 1, m + n) \in Seq(Chunk)
          /\ Len(SubSeq(s, m + 1, m + n)) =
               IF m + 1 <= m + n THEN (m + n) - (m + 1) + 1 ELSE 0
          /\ \A i \in 1 .. (m + n) - (m + 1) + 1 :
               SubSeq(s, m + 1, m + n)[i] = s[(m + 1) + i - 1]
      BY <3>2, SubSeqProperties
    <3>4. QED
      BY <2>1, <3>1, <3>3
  <2>3. QED
    BY <1>2, <2>2
<1>5. PICK at : at = IF n = 0 THEN "end" ELSE "fetch"
  OBVIOUS
<1>6. r2 = [at |-> at, next |-> r.next + n, batch |-> b, is_end |-> last,
            raw |-> r.raw, delta |-> r.delta, want |-> r.want]
  BY <1>3, <1>5 DEF Reader, WithRecipe
<1>7. r2 \in Reader
  BY <1>1, <1>2, <1>4, <1>5, <1>6 DEF Reader, Busy
<1>8. Pushed(r2) = r.next /\ Pushed(r) = r.next
  BY <1>1, <1>2, <1>4, <1>6 DEF Pushed
<1>9. ReaderRight(r2, f)
  <2>1. r2.next <= Len(f) /\ Len(r2.batch) <= r2.next
    BY <1>1, <1>2, <1>4, <1>6
  <2>2. \A i \in 1 .. Len(r2.batch) : r2.batch[i] = f[Pushed(r2) + i]
    BY <1>4, <1>6, <1>8
  <2>3. r2.at \in {"read", "end"} <=> r2.batch = <<>>
    BY <1>2, <1>4, <1>5, <1>6
  <2>4. (r2.is_end => r2.next = Len(f)) /\ r2.at # "off" /\ (r2.at = "end" => r2.next = Len(f))
    BY <1>1, <1>2, <1>5, <1>6
  <2>5. QED
    BY <1>5, <1>6, <2>1, <2>2, <2>3, <2>4 DEF ReaderRight
<1>10. QED
  BY <1>5, <1>6, <1>7, <1>8, <1>9

(* A decoder that waits for the reader is right whatever the reader does.  *)
LEMMA DecoderWaits ==
  ASSUME NEW f, NEW db, NEW r, NEW q, NEW d, DecoderRight(r, q, d, f, db),
         NEW r2, Pushed(r2) = Pushed(r), r.at # "end"
  PROVE  DecoderRight(r2, q, d, f, db) /\ Sent(r2, q, d) = Sent(r, q, d)
BY DEF DecoderRight, Popped, Sent

(* The rest of a sequence.                                                 *)
LEMMA TailFacts ==
  ASSUME NEW S, NEW s \in Seq(S), s # <<>>
  PROVE  /\ Head(s) = s[1] /\ Head(s) \in S /\ Tail(s) \in Seq(S)
         /\ Len(s) \in Nat \ {0} /\ Len(Tail(s)) = Len(s) - 1
         /\ \A i \in 1 .. Len(s) - 1 : Tail(s)[i] = s[i + 1]
         /\ Tail(s) = <<>> <=> Len(s) = 1
<1>1. Len(s) \in Nat \ {0} /\ s[1] \in S /\ Head(s) = s[1]
  OBVIOUS
<1>2. PICK t : t = Tail(s)
  OBVIOUS
<1>3. t \in Seq(S) /\ Len(t) = Len(s) - 1
  BY <1>1, <1>2
<1>4. \A i \in 1 .. Len(s) - 1 : t[i] = s[i + 1]
  BY <1>1, <1>2
<1>5. t = <<>> <=> Len(t) = 0
  BY <1>3
<1>6. QED
  BY <1>1, <1>2, <1>3, <1>4, <1>5

Pushes(f, db, r, q, d, raw, r2, q2) ==
  /\ ReaderRight(r, f) /\ r.at \in {"fetch", "base", "base_base"}
  /\ DecoderRight(r, q, d, f, db)
  /\ Head(r.batch) \in db \/ RawRight(raw, Head(r.batch))
  /\ r2 = WithoutHead(r) /\ q2 = Append(q, raw)

(* PushRaw moves the chunk in hand into the queue.                         *)
LEMMA PushStep ==
  ASSUME NEW f \in Seq(Chunk), NEW db, NEW r \in Reader, NEW q \in Seq(RawChunk),
         NEW d \in Decoder, NEW raw \in RawChunk, NEW r2, NEW q2,
         Pushes(f, db, r, q, d, raw, r2, q2)
  PROVE  /\ r2 \in Reader /\ ReaderRight(r2, f) /\ DecoderRight(r2, q2, d, f, db)
         /\ Sent(r2, q2, d) = Sent(r, q, d) /\ r2.at \in {"read", "fetch", "end"}
<1>0. /\ ReaderRight(r, f) /\ r.at \in {"fetch", "base", "base_base"}
      /\ DecoderRight(r, q, d, f, db)
      /\ Head(r.batch) \in db \/ RawRight(raw, Head(r.batch))
      /\ r2 = WithoutHead(r) /\ q2 = Append(q, raw)
  BY DEF Pushes
<1>1. /\ r.next \in Nat /\ r.next <= Len(f) /\ Len(f) \in Nat /\ r.is_end \in BOOLEAN
      /\ r.batch \in Seq(Chunk) /\ r.batch # <<>> /\ Len(r.batch) <= r.next
      /\ r.is_end => r.next = Len(f)
  BY <1>0, ReaderTypes DEF ReaderRight
<1>2. PICK b : b = Tail(r.batch)
  OBVIOUS
<1>3. PICK n \in Nat \ {0} : n = Len(r.batch)
  BY <1>1
<1>4. /\ b \in Seq(Chunk) /\ Len(b) = n - 1 /\ Head(r.batch) = r.batch[1]
      /\ \A i \in 1 .. n - 1 : b[i] = r.batch[i + 1]
      /\ b = <<>> <=> n = 1
  BY <1>1, <1>2, <1>3, TailFacts
<1>5. PICK at : at = IF b # <<>> THEN "fetch" ELSE IF r.is_end THEN "end" ELSE "read"
  OBVIOUS
<1>6. r2 = [at |-> at, next |-> r.next, batch |-> b, is_end |-> r.is_end,
            raw |-> Raw, delta |-> Junk, want |-> NoBase]
  BY <1>0, <1>2, <1>5 DEF Reader, WithoutHead
<1>7. Raw \in RawChunk /\ Junk \in Stored
  BY BytesFacts DEF Raw, RawChunk, Type
<1>8. r2 \in Reader
  BY <1>1, <1>4, <1>5, <1>6, <1>7 DEF Reader, Busy
<1>9. PICK p \in Nat : p = Pushed(r) /\ p = r.next - n /\ p + n <= Len(f)
  BY <1>1, <1>3 DEF Pushed
<1>10. Pushed(r2) = p + 1
  BY <1>1, <1>4, <1>6, <1>9 DEF Pushed
<1>11. \A i \in 1 .. n : r.batch[i] = f[p + i]
  BY <1>0, <1>3, <1>9 DEF ReaderRight
<1>12. ReaderRight(r2, f)
  <2>1. r2.next <= Len(f) /\ Len(r2.batch) <= r2.next
    BY <1>1, <1>3, <1>4, <1>6
  <2>2. \A i \in 1 .. Len(r2.batch) : r2.batch[i] = f[Pushed(r2) + i]
    <3>1. ASSUME NEW i \in 1 .. n - 1
          PROVE  b[i] = f[p + 1 + i]
      <4>1. b[i] = r.batch[i + 1] /\ i + 1 \in 1 .. n
        BY <1>4
      <4>2. b[i] = f[p + (i + 1)]
        BY <1>11, <4>1
      <4>3. QED
        BY <4>2
    <3>2. QED
      BY <1>4, <1>6, <1>10, <3>1
  <2>3. r2.at \in {"read", "end"} <=> r2.batch = <<>>
    BY <1>5, <1>6
  <2>4. (r2.is_end => r2.next = Len(f)) /\ r2.at # "off" /\ (r2.at = "end" => r2.next = Len(f))
    BY <1>1, <1>5, <1>6
  <2>5. QED
    BY <1>5, <1>6, <2>1, <2>2, <2>3, <2>4 DEF ReaderRight
<1>13. /\ Len(q) \in Nat /\ Len(q2) = Len(q) + 1 /\ q2[Len(q) + 1] = raw
       /\ \A i \in 1 .. Len(q) : q2[i] = q[i]
       /\ d.send_buf \in Seq(Message) /\ Len(d.send_buf) \in Nat
  BY <1>0, AppendFacts DEF Decoder
<1>14. /\ Popped(r2, q2) = Popped(r, q) /\ Popped(r, q) = p - Len(q)
       /\ Sent(r2, q2, d) = Sent(r, q, d)
  <2>1. Popped(r, q) = p - Len(q)
    BY <1>9 DEF Popped
  <2>2. Popped(r2, q2) = p - Len(q)
    BY <1>10, <1>13 DEF Popped
  <2>3. QED
    BY <2>1, <2>2 DEF Sent
<1>15. \A i \in 1 .. Len(q2) :
         f[Popped(r2, q2) + i] \in db \/ RawRight(q2[i], f[Popped(r2, q2) + i])
  <2>1. ASSUME NEW i \in 1 .. Len(q)
        PROVE  f[Popped(r2, q2) + i] \in db \/ RawRight(q2[i], f[Popped(r2, q2) + i])
    BY <1>0, <1>13, <1>14 DEF DecoderRight
  <2>2. PICK k : k = Len(q) + 1
    OBVIOUS
  <2>3. Popped(r2, q2) + k = p + 1
    BY <1>9, <1>13, <1>14, <2>2
  <2>4. f[p + 1] = Head(r.batch)
    BY <1>4, <1>11
  <2>5. f[Popped(r2, q2) + k] \in db \/ RawRight(q2[k], f[Popped(r2, q2) + k])
    BY <1>0, <1>13, <2>2, <2>3, <2>4
  <2>6. \A i \in 1 .. Len(q2) : i \in 1 .. Len(q) \/ i = k
    BY <1>13, <2>2
  <2>7. QED
    BY <2>1, <2>5, <2>6
<1>16. DecoderRight(r2, q2, d, f, db)
  <2>1. Len(q2) + Len(d.send_buf) <= Pushed(r2)
    <3>1. Len(q) + Len(d.send_buf) <= p
      BY <1>0, <1>9 DEF DecoderRight
    <3>2. QED
      <4>1. PICK k \in Nat, m \in Nat : k = Len(q) /\ m = Len(d.send_buf)
        BY <1>13
      <4>2. k + m <= p /\ Len(q2) = k + 1 /\ Pushed(r2) = p + 1
        BY <1>10, <1>13, <3>1, <4>1
      <4>3. (k + 1) + m <= p + 1
        BY <4>2
      <4>4. QED
        BY <4>1, <4>2, <4>3
  <2>2. d.at \notin {"tail", "final", "wait", "end"}
    BY <1>0 DEF DecoderRight
  <2>3. QED
    BY <1>0, <1>14, <1>15, <2>1, <2>2 DEF DecoderRight
<1>17. QED
  BY <1>5, <1>6, <1>8, <1>12, <1>14, <1>16

(* DecodeChunk, and what it sends: batches.                                *)
Decodes(f, db, r, q, d, at, d2, q2) ==
  /\ Pushed(r) \in Nat /\ Pushed(r) <= Len(f) /\ at \in {"pop", "send"}
  /\ DecoderRight(r, q, d, f, db) /\ d.at = "pop" /\ q # <<>>
  /\ d2 = [at |-> at, send_buf |-> Append(d.send_buf, Decoded(Head(q)))] /\ q2 = Tail(q)

(* DecodeChunk moves a chunk from the queue into the buffer.               *)
LEMMA DecodeStep ==
  ASSUME NEW f \in Seq(Chunk), NEW db, NEW r \in Reader, NEW q \in Seq(RawChunk),
         NEW d \in Decoder, NEW at, NEW d2, NEW q2,
         Decodes(f, db, r, q, d, at, d2, q2)
  PROVE  /\ d2 \in Decoder /\ q2 \in Seq(RawChunk)
         /\ DecoderRight(r, q2, d2, f, db) /\ Sent(r, q2, d2) = Sent(r, q, d)
<1>0. /\ Pushed(r) \in Nat /\ Pushed(r) <= Len(f) /\ DecoderRight(r, q, d, f, db)
      /\ d.at = "pop" /\ q # <<>> /\ q2 = Tail(q) /\ at \in {"pop", "send"}
      /\ d2 = [at |-> at, send_buf |-> Append(d.send_buf, Decoded(Head(q)))]
  BY DEF Decodes
<1>a. PICK buf : buf = Append(d.send_buf, Decoded(Head(q)))
  OBVIOUS
<1>1. /\ Head(q) = q[1] /\ Head(q) \in RawChunk /\ q2 \in Seq(RawChunk)
      /\ Len(q) \in Nat \ {0} /\ Len(q2) = Len(q) - 1
      /\ \A i \in 1 .. Len(q) - 1 : q2[i] = q[i + 1]
  BY <1>0, TailFacts
<1>2. PICK msg \in Message : msg = Decoded(Head(q))
  BY <1>1, DecodedTyped
<1>3. /\ d.send_buf \in Seq(Message) /\ Len(d.send_buf) \in Nat
      /\ buf = Append(d.send_buf, msg)
  BY <1>a, <1>2 DEF Decoder
<1>4. /\ buf \in Seq(Message) /\ Len(buf) = Len(d.send_buf) + 1
      /\ \A i \in 1 .. Len(d.send_buf) : buf[i] = d.send_buf[i]
      /\ buf[Len(d.send_buf) + 1] = msg
  BY <1>3, AppendFacts
<1>5. d2.at = at /\ d2.send_buf = buf /\ d2 \in Decoder
  BY <1>0, <1>a, <1>4 DEF Decoder
<1>6. PICK p \in Nat, k \in Nat, m \in Nat : p = Pushed(r) /\ k = Len(q) - 1 /\ m = Len(d.send_buf)
  <2>1. Len(q) - 1 \in Nat
    BY <1>1
  <2>2. QED
    BY <1>0, <1>3, <2>1
<1>7. (k + 1) + m <= p
  BY <1>0, <1>1, <1>6 DEF DecoderRight
<1>8. /\ Popped(r, q) = p - (k + 1) /\ Popped(r, q2) = p - k
      /\ Sent(r, q, d) = p - (k + 1) - m /\ Sent(r, q2, d2) = p - (k + 1) - m
  <2>1. Popped(r, q) = p - (k + 1) /\ Popped(r, q2) = p - k
    BY <1>1, <1>6 DEF Popped
  <2>2. Len(d2.send_buf) = m + 1
    BY <1>4, <1>5, <1>6
  <2>3. QED
    BY <1>6, <2>1, <2>2 DEF Sent
<1>9. PICK s \in Nat : s = p - (k + 1) - m /\ s + m = p - (k + 1) /\ s + m + 1 = p - k
  BY <1>7
<1>10. \A i \in 1 .. k : f[(p - k) + i] \in db \/ RawRight(q2[i], f[(p - k) + i])
  <2>1. ASSUME NEW i \in 1 .. k
        PROVE  f[(p - k) + i] \in db \/ RawRight(q2[i], f[(p - k) + i])
    <3>1. i + 1 \in 1 .. Len(q) /\ q2[i] = q[i + 1]
      BY <1>1, <1>6
    <3>2. f[Popped(r, q) + (i + 1)] \in db \/ RawRight(q[i + 1], f[Popped(r, q) + (i + 1)])
      BY <1>0, <3>1 DEF DecoderRight
    <3>3. Popped(r, q) + (i + 1) = (p - k) + i
      BY <1>8
    <3>4. QED
      BY <3>1, <3>2, <3>3
  <2>2. QED
    BY <2>1
<1>11. \A i \in 1 .. m + 1 : f[s + i] \in db \/ MsgRight(buf[i], f[s + i])
  <2>1. ASSUME NEW i \in 1 .. m
        PROVE  f[s + i] \in db \/ MsgRight(buf[i], f[s + i])
    <3>1. f[Sent(r, q, d) + i] \in db \/ MsgRight(d.send_buf[i], f[Sent(r, q, d) + i])
      BY <1>0, <1>6 DEF DecoderRight
    <3>2. QED
      BY <1>4, <1>6, <1>8, <1>9, <3>1
  <2>2. f[s + (m + 1)] \in db \/ MsgRight(buf[m + 1], f[s + (m + 1)])
    <3>1. 1 \in 1 .. Len(q)
      BY <1>1
    <3>2. f[Popped(r, q) + 1] \in db \/ RawRight(q[1], f[Popped(r, q) + 1])
      BY <1>0, <3>1 DEF DecoderRight
    <3>3. Popped(r, q) + 1 = s + (m + 1)
      BY <1>8, <1>9
    <3>4. buf[m + 1] = Decoded(q[1])
      BY <1>1, <1>2, <1>4, <1>6
    <3>5. PICK c, raw : c = f[s + (m + 1)] /\ raw = q[1]
      OBVIOUS
    <3>6. c \in db \/ RawRight(raw, c)
      BY <3>2, <3>3, <3>5
    <3>7. c \in db \/ MsgRight(Decoded(raw), c)
      BY <3>6, DecodedRight
    <3>8. QED
      BY <3>4, <3>5, <3>7
  <2>3. \A i \in 1 .. m + 1 : i \in 1 .. m \/ i = m + 1
    OBVIOUS
  <2>4. QED
    BY <2>1, <2>2, <2>3
<1>12. DecoderRight(r, q2, d2, f, db)
  <2>1. Len(q2) = k /\ Len(buf) = m + 1 /\ k + (m + 1) <= Pushed(r)
    BY <1>1, <1>4, <1>6, <1>7
  <2>2. buf # <<>>
    BY <1>4
  <2>3. Sent(r, q2, d2) = s /\ Popped(r, q2) = p - k
    BY <1>8, <1>9
  <2>4. QED
    BY <1>0, <1>5, <1>10, <1>11, <2>1, <2>2, <2>3 DEF DecoderRight
<1>13. QED
  BY <1>1, <1>5, <1>8, <1>12

(* _done.                                                                  *)
LEMMA AllDecodedStep ==
  ASSUME NEW f, NEW db, NEW r, NEW q, NEW d \in Decoder, DecoderRight(r, q, d, f, db),
         d.at = "pop", r.at = "end", q = <<>>,
         NEW d2, d2 = [d EXCEPT !.at = IF d.send_buf = <<>> THEN "final" ELSE "tail"]
  PROVE  /\ d2 \in Decoder /\ DecoderRight(r, q, d2, f, db)
         /\ Sent(r, q, d2) = Sent(r, q, d) /\ d2.at \in {"tail", "final"}
<1>1. PICK at : at = IF d.send_buf = <<>> THEN "final" ELSE "tail"
  OBVIOUS
<1>2. d2 = [at |-> at, send_buf |-> d.send_buf]
  BY <1>1 DEF Decoder
<1>3. d2.at = at /\ d2.send_buf = d.send_buf /\ d2 \in Decoder
  BY <1>1, <1>2 DEF Decoder
<1>4. Sent(r, q, d2) = Sent(r, q, d)
  BY <1>3 DEF Sent
<1>5. QED
  BY <1>1, <1>3, <1>4 DEF DecoderRight

(* SendChunks, SendEnd.                                                    *)
Empties(f, db, r, q, d, d2) ==
  /\ DecoderRight(r, q, d, f, db) /\ d.at \in {"send", "tail"} /\ Pushed(r) \in Nat
  /\ d2 = [at |-> IF d.at = "send" THEN "pop" ELSE "final", send_buf |-> <<>>]

LEMMA SendStep ==
  ASSUME NEW f, NEW db, NEW r \in Reader, NEW q \in Seq(RawChunk), NEW d \in Decoder,
         NEW d2, Empties(f, db, r, q, d, d2)
  PROVE  /\ d2 \in Decoder /\ DecoderRight(r, q, d2, f, db)
         /\ Sent(r, q, d2) = Sent(r, q, d) + Len(d.send_buf)
         /\ d2.at \in {"pop", "final"}
<1>0. /\ DecoderRight(r, q, d, f, db) /\ d.at \in {"send", "tail"} /\ Pushed(r) \in Nat
      /\ d2 = [at |-> IF d.at = "send" THEN "pop" ELSE "final", send_buf |-> <<>>]
  BY DEF Empties
<1>1. PICK at : at = IF d.at = "send" THEN "pop" ELSE "final"
  OBVIOUS
<1>2. d2.at = at /\ d2.send_buf = <<>> /\ d2 \in Decoder
  BY <1>0, <1>1 DEF Decoder
<1>3. Len(d.send_buf) \in Nat /\ Len(q) \in Nat
  BY DEF Decoder
<1>4. Popped(r, q) \in Int
  BY <1>0, <1>3 DEF Popped
<1>5. Sent(r, q, d2) = Popped(r, q) /\ Sent(r, q, d) = Popped(r, q) - Len(d.send_buf)
  BY <1>2, <1>3, <1>4 DEF Sent
<1>6. Sent(r, q, d2) = Sent(r, q, d) + Len(d.send_buf)
  BY <1>3, <1>4, <1>5
<1>7. Len(q) + Len(d2.send_buf) <= Pushed(r)
  <2>1. Len(q) + Len(d.send_buf) <= Pushed(r)
    BY <1>0 DEF DecoderRight
  <2>2. QED
    BY <1>0, <1>2, <1>3, <2>1
<1>8. \A i \in 1 .. Len(d2.send_buf) : FALSE
  BY <1>2
<1>9. QED
  BY <1>0, <1>1, <1>2, <1>6, <1>7, <1>8 DEF DecoderRight

(* SendEnd, and the end of the connection, send no chunk.                  *)
LEMMA EndStep ==
  ASSUME NEW f, NEW db, NEW r, NEW q, NEW d \in Decoder, DecoderRight(r, q, d, f, db),
         d.at \in {"final", "wait"}, NEW at \in {"wait", "end"},
         NEW d2, d2 = [d EXCEPT !.at = at]
  PROVE  /\ d2 \in Decoder /\ DecoderRight(r, q, d2, f, db)
         /\ Sent(r, q, d2) = Sent(r, q, d) /\ d2.at = at
<1>1. d2 = [at |-> at, send_buf |-> d.send_buf]
  BY DEF Decoder
<1>2. d2.at = at /\ d2.send_buf = d.send_buf /\ d2 \in Decoder
  BY <1>1 DEF Decoder
<1>3. Sent(r, q, d2) = Sent(r, q, d)
  BY <1>2 DEF Sent
<1>4. QED
  BY <1>2, <1>3 DEF DecoderRight

-----------------------------------------------------------------------------
(* The wire                                                                *)

(* A sequence that is not empty has a length.                              *)
LEMMA LongerThanNone ==
  ASSUME NEW S, NEW s \in Seq(S)
  PROVE  /\ Len(s) # 0 => s # <<>>
         /\ s # <<>> => \E m \in Nat : Len(s) = m + 1
<1>1. Len(s) # 0 => s # <<>>
  OBVIOUS
<1>2. ASSUME s # <<>>
      PROVE  \E m \in Nat : Len(s) = m + 1
  <2>1. PICK n \in Nat : n = Len(s)
    OBVIOUS
  <2>2. n # 0
    BY <1>2, <2>1
  <2>3. n - 1 \in Nat /\ n = (n - 1) + 1
    BY <2>2
  <2>4. QED
    BY <2>1, <2>3
<1>3. QED
  BY <1>1, <1>2

(* An item more is not nothing.                                            *)
LEMMA NotNone ==
  ASSUME NEW s, Len(s) # 0
  PROVE  s # <<>>
<1>1. Len(<<>>) = 0
  OBVIOUS
<1>2. QED
  BY <1>1

(* A new connection.                                                       *)
LEMMA WireStart ==
  ASSUME NEW f \in Seq(Chunk), NEW at, at # "wait", NEW db
  PROVE  WireOK(<<>>, at, 0, 0, f, db)
<1>1. PICK st : st = [k \in 1 .. 1 |-> 0]
  OBVIOUS
<1>2. Len(<<>>) = 0 /\ Len(f) \in Nat
  OBVIOUS
<1>3. st \in [1 .. Len(<<>>) + 1 -> 0 .. Len(f)] /\ st[1] = 0
  BY <1>1, <1>2
<1>4. WireRight(<<>>, st, at, 0, 0, f, db)
  BY <1>2, <1>3 DEF WireRight
<1>5. QED
  BY <1>3, <1>4 DEF WireOK

(* A wire on which nothing is sent.                                        *)
LEMMA WireWaits ==
  ASSUME NEW w, NEW at, NEW at2, at = "wait" <=> at2 = "wait", NEW n, NEW sent,
         NEW f, NEW db, WireOK(w, at, n, sent, f, db)
  PROVE  WireOK(w, at2, n, sent, f, db)
BY DEF WireOK, WireRight

(* A batch more on the wire.                                               *)
LEMMA WireAppend ==
  ASSUME NEW w \in Seq(Seq(Message)), NEW at, at # "wait", NEW n, NEW sent,
         NEW f \in Seq(Chunk), NEW db, WireOK(w, at, n, sent, f, db),
         NEW b \in Seq(Message), NEW at2, b = FinalMsg <=> at2 = "wait",
         sent + Len(b) <= Len(f),
         \A j \in 1 .. Len(b) : f[sent + j] \in db \/ MsgRight(b[j], f[sent + j]),
         NEW w2, w2 = Append(w, b), NEW sent2, sent2 = sent + Len(b)
  PROVE  WireOK(w2, at2, n, sent2, f, db)
<1>1. PICK st \in [1 .. Len(w) + 1 -> 0 .. Len(f)] : WireRight(w, st, at, n, sent, f, db)
  BY DEF WireOK
<1>2. PICK m \in Nat : m = Len(w)
  OBVIOUS
<1>3. /\ w2 \in Seq(Seq(Message)) /\ Len(w2) = m + 1 /\ w2[m + 1] = b
      /\ \A k \in 1 .. m : w2[k] = w[k]
  BY <1>2, AppendFacts
<1>4. /\ \A k \in 1 .. m + 1 : st[k] \in 0 .. Len(f)
      /\ st[1] = n /\ st[m + 1] = sent
      /\ \A k \in 1 .. m : st[k + 1] = st[k] + Len(w[k])
  BY <1>1, <1>2 DEF WireRight
<1>5. sent \in Nat /\ Len(b) \in Nat /\ sent2 \in 0 .. Len(f) /\ Len(f) \in Nat
  <2>1. m + 1 \in 1 .. m + 1
    BY <1>2
  <2>2. sent \in 0 .. Len(f)
    BY <1>4, <2>1
  <2>3. QED
    BY <2>2
<1>6. PICK t : t = [k \in 1 .. Len(w2) + 1 |-> IF k = m + 2 THEN sent2 ELSE st[k]]
  OBVIOUS
<1>7. /\ t \in [1 .. Len(w2) + 1 -> 0 .. Len(f)]
      /\ \A k \in 1 .. m + 1 : t[k] = st[k]
      /\ t[m + 2] = sent2
  <2>1. \A k \in 1 .. Len(w2) + 1 : k = m + 2 \/ k \in 1 .. m + 1
    BY <1>2, <1>3
  <2>2. (\A k \in 1 .. m + 1 : k \in 1 .. Len(w2) + 1 /\ k # m + 2) /\ m + 2 \in 1 .. Len(w2) + 1
    BY <1>2, <1>3
  <2>3. QED
    BY <1>4, <1>5, <1>6, <2>1, <2>2
<1>8. t[1] = n /\ t[Len(w2) + 1] = sent2
  BY <1>2, <1>3, <1>4, <1>7
<1>9. \A k \in 1 .. m : w[k] # FinalMsg
  BY <1>1, <1>2 DEF WireRight
<1>10. ASSUME NEW k \in 1 .. m + 1
       PROVE  /\ t[k + 1] = t[k] + Len(w2[k])
              /\ w2[k] = FinalMsg <=> k = Len(w2) /\ at2 = "wait"
              /\ \A j \in 1 .. Len(w2[k]) :
                   f[t[k] + j] \in db \/ MsgRight(w2[k][j], f[t[k] + j])
  <2>1. CASE k \in 1 .. m
    <3>1. t[k + 1] = st[k + 1] /\ t[k] = st[k] /\ w2[k] = w[k] /\ k # Len(w2)
      BY <1>2, <1>3, <1>7, <2>1
    <3>2. \A j \in 1 .. Len(w[k]) : f[st[k] + j] \in db \/ MsgRight(w[k][j], f[st[k] + j])
      BY <1>1, <1>2, <2>1 DEF WireRight
    <3>3. QED
      BY <1>4, <1>9, <2>1, <3>1, <3>2
  <2>2. CASE k = m + 1
    <3>1. t[k] = sent /\ t[k + 1] = sent2 /\ w2[k] = b /\ k = Len(w2)
      BY <1>2, <1>3, <1>4, <1>7, <2>2
    <3>2. QED
      BY <3>1
  <2>3. QED
    BY <1>2, <2>1, <2>2
<1>11. w2 # <<>>
  <2>1. Len(w2) # 0
    BY <1>2, <1>3
  <2>2. QED
    BY <2>1, NotNone
<1>12. WireRight(w2, t, at2, n, sent2, f, db)
  BY <1>3, <1>8, <1>10, <1>11 DEF WireRight
<1>13. QED
  BY <1>7, <1>12 DEF WireOK

(* The end that the server sends is the last that the client receives.     *)
LEMMA WireFinal ==
  ASSUME NEW w \in Seq(Seq(Message)), w # <<>>, NEW at, NEW n, NEW sent,
         NEW f \in Seq(Chunk), NEW db, WireOK(w, at, n, sent, f, db), Head(w) = FinalMsg
  PROVE  at = "wait" /\ Tail(w) = <<>> /\ n = sent
<1>1. PICK st \in [1 .. Len(w) + 1 -> 0 .. Len(f)] : WireRight(w, st, at, n, sent, f, db)
  BY DEF WireOK
<1>2. Len(w) \in Nat \ {0} /\ w[1] = FinalMsg /\ (Tail(w) = <<>> <=> Len(w) = 1)
  BY TailFacts
<1>3. 1 = Len(w) /\ at = "wait" /\ st[1 + 1] = st[1] + Len(w[1])
  BY <1>1, <1>2 DEF WireRight
<1>4. Len(w[1]) = 0 /\ st[1] = n /\ st[1 + 1] = sent /\ st[1] \in 0 .. Len(f)
  <2>1. Len(w[1]) = 0
    BY <1>2 DEF FinalMsg
  <2>2. st[1] = n /\ st[Len(w) + 1] = sent
    BY <1>1 DEF WireRight
  <2>3. st[1] \in 0 .. Len(f)
    <3>1. 1 \in 1 .. Len(w) + 1
      BY <1>2
    <3>2. QED
      BY <3>1
  <2>4. QED
    BY <1>3, <2>1, <2>2, <2>3
<1>5. QED
  BY <1>2, <1>3, <1>4

Takes(f, db, w, at, n, sent, b, w2) ==
  /\ w # <<>> /\ WireOK(w, at, n, sent, f, db)
  /\ b = Head(w) /\ b # FinalMsg
  /\ w2 = IF Len(b) = 1 THEN Tail(w) ELSE <<Tail(b)>> \o Tail(w)

(* The client takes one chunk off the wire.                                *)
LEMMA WireTake ==
  ASSUME NEW f \in Seq(Chunk), NEW db, NEW w \in Seq(Seq(Message)), NEW at, NEW n \in Nat,
         NEW sent, NEW b, NEW w2, Takes(f, db, w, at, n, sent, b, w2)
  PROVE  /\ b \in Seq(Message) /\ Head(b) \in Message /\ n + 1 <= Len(f)
         /\ f[n + 1] \in db \/ MsgRight(Head(b), f[n + 1])
         /\ w2 \in Seq(Seq(Message)) /\ WireOK(w2, at, n + 1, sent, f, db)
<1>0. /\ w # <<>> /\ WireOK(w, at, n, sent, f, db)
      /\ b = Head(w) /\ b # FinalMsg
      /\ w2 = IF Len(b) = 1 THEN Tail(w) ELSE <<Tail(b)>> \o Tail(w)
  BY DEF Takes
<1>1. PICK st \in [1 .. Len(w) + 1 -> 0 .. Len(f)] : WireRight(w, st, at, n, sent, f, db)
  BY <1>0 DEF WireOK
<1>2. PICK m \in Nat : m + 1 = Len(w)
  BY <1>0, LongerThanNone
<1>3. PICK v : v = Tail(w)
  OBVIOUS
<1>4. /\ b = w[1] /\ b \in Seq(Message)
      /\ v \in Seq(Seq(Message)) /\ Len(v) = m
      /\ \A k \in 1 .. m : v[k] = w[k + 1]
  BY <1>0, <1>2, <1>3, TailFacts
<1>5. PICK c \in Nat : c + 1 = Len(b)
  BY <1>0, <1>4, LongerThanNone DEF FinalMsg
<1>6. PICK u : u = Tail(b)
  OBVIOUS
<1>7. /\ Head(b) = b[1] /\ Head(b) \in Message
      /\ u \in Seq(Message) /\ Len(u) = c /\ \A j \in 1 .. c : u[j] = b[j + 1]
  BY <1>0, <1>4, <1>5, <1>6, TailFacts DEF FinalMsg
<1>8. /\ \A k \in 1 .. m + 2 : st[k] \in 0 .. Len(f)
      /\ st[1] = n /\ st[m + 2] = sent /\ st[2] = n + (c + 1)
      /\ \A k \in 1 .. m + 1 : st[k + 1] = st[k] + Len(w[k])
      /\ \A k \in 1 .. m + 1 : w[k] = FinalMsg <=> k = m + 1 /\ at = "wait"
      /\ \A k \in 1 .. m + 1 : \A j \in 1 .. Len(w[k]) :
           f[st[k] + j] \in db \/ MsgRight(w[k][j], f[st[k] + j])
  <2>1. 1 \in 1 .. m + 1 /\ Len(w) + 1 = m + 2 /\ 1 + 1 = 2
    BY <1>2
  <2>2. \A k \in 1 .. m + 2 : st[k] \in 0 .. Len(f)
    BY <2>1
  <2>3. st[1] = n /\ st[m + 2] = sent
    BY <1>1, <2>1 DEF WireRight
  <2>4. /\ \A k \in 1 .. m + 1 : st[k + 1] = st[k] + Len(w[k])
        /\ \A k \in 1 .. m + 1 : w[k] = FinalMsg <=> k = m + 1 /\ at = "wait"
        /\ \A k \in 1 .. m + 1 : \A j \in 1 .. Len(w[k]) :
             f[st[k] + j] \in db \/ MsgRight(w[k][j], f[st[k] + j])
    BY <1>1, <1>2 DEF WireRight
  <2>5. st[1 + 1] = st[1] + Len(w[1])
    BY <2>1, <2>4
  <2>6. st[2] = n + (c + 1)
    BY <1>4, <1>5, <2>1, <2>3, <2>5
  <2>7. QED
    BY <2>2, <2>3, <2>4, <2>6
<1>9. n + (c + 1) <= Len(f) /\ Len(f) \in Nat
  <2>1. 2 \in 1 .. m + 2
    BY <1>2
  <2>2. QED
    BY <1>8, <2>1
<1>10. n + 1 <= Len(f)
  BY <1>9
<1>11. \A j \in 1 .. c + 1 : f[n + j] \in db \/ MsgRight(b[j], f[n + j])
  <2>1. 1 \in 1 .. m + 1
    OBVIOUS
  <2>2. QED
    BY <1>4, <1>5, <1>8, <2>1
<1>12. f[n + 1] \in db \/ MsgRight(Head(b), f[n + 1])
  <2>1. 1 \in 1 .. c + 1
    OBVIOUS
  <2>2. QED
    BY <1>7, <1>11, <2>1
<1>13. at = "wait" => m \in Nat \ {0}
  <2>1. ASSUME at = "wait", m = 0
        PROVE  FALSE
    <3>1. 1 \in 1 .. m + 1 /\ 1 = m + 1
      BY <2>1
    <3>2. QED
      BY <1>0, <1>4, <1>8, <2>1, <3>1
  <2>2. QED
    BY <2>1
<1>14. CASE c = 0
  <2>1. w2 = v /\ Len(w2) = m
    BY <1>0, <1>3, <1>4, <1>5, <1>14
  <2>2. PICK t : t = [k \in 1 .. m + 1 |-> st[k + 1]]
    OBVIOUS
  <2>3. \A k \in 1 .. m + 1 : k + 1 \in 1 .. m + 2 /\ t[k] = st[k + 1]
    BY <2>2
  <2>4. t \in [1 .. Len(w2) + 1 -> 0 .. Len(f)]
    BY <1>8, <2>1, <2>2, <2>3
  <2>5. t[1] = n + 1 /\ t[m + 1] = sent
    <3>1. 1 \in 1 .. m + 1 /\ m + 1 \in 1 .. m + 1 /\ (m + 1) + 1 = m + 2 /\ 1 + 1 = 2
      OBVIOUS
    <3>2. t[1] = st[1 + 1] /\ t[m + 1] = st[(m + 1) + 1]
      BY <2>3, <3>1
    <3>3. st[2] = n + 1
      BY <1>8, <1>14
    <3>4. QED
      BY <1>8, <3>1, <3>2, <3>3
  <2>6. ASSUME NEW k \in 1 .. m
        PROVE  /\ t[k + 1] = t[k] + Len(w2[k])
               /\ w2[k] = FinalMsg <=> k = m /\ at = "wait"
               /\ \A j \in 1 .. Len(w2[k]) :
                    f[t[k] + j] \in db \/ MsgRight(w2[k][j], f[t[k] + j])
    <3>1. k \in 1 .. m + 1 /\ k + 1 \in 1 .. m + 1 /\ (k = m <=> k + 1 = m + 1)
      OBVIOUS
    <3>2. t[k] = st[k + 1] /\ t[k + 1] = st[(k + 1) + 1] /\ w2[k] = w[k + 1]
      BY <1>4, <2>1, <2>3, <3>1
    <3>3. QED
      BY <1>8, <3>1, <3>2
  <2>7. at = "wait" => w2 # <<>>
    BY <1>4, <1>13, <2>1
  <2>8. WireRight(w2, t, at, n + 1, sent, f, db)
    BY <2>1, <2>5, <2>6, <2>7 DEF WireRight
  <2>9. QED
    BY <1>4, <1>7, <1>10, <1>12, <2>1, <2>4, <2>8 DEF WireOK
<1>15. CASE c # 0
  <2>1. w2 = <<u>> \o v
    BY <1>0, <1>3, <1>5, <1>6, <1>15
  <2>2. /\ w2 \in Seq(Seq(Message)) /\ Len(w2) = m + 1 /\ w2[1] = u
        /\ \A k \in 2 .. m + 1 : w2[k] = v[k - 1]
    <3>1. PICK one \in Seq(Seq(Message)) : one = <<u>> /\ Len(one) = 1 /\ one[1] = u
      <4>1. <<u>> \in Seq(Seq(Message))
        BY <1>7
      <4>2. Len(<<u>>) = 1 /\ <<u>>[1] = u
        OBVIOUS
      <4>3. QED
        BY <4>1, <4>2
    <3>2. w2 = one \o v
      BY <2>1, <3>1
    <3>3. QED
      <4>1. one \o v \in Seq(Seq(Message)) /\ Len(one \o v) = 1 + m
        BY <1>4, <3>1
      <4>2. (one \o v)[1] = u
        BY <1>4, <3>1
      <4>3. \A k \in 2 .. m + 1 : (one \o v)[k] = v[k - 1]
        BY <1>4, <3>1
      <4>4. PICK x : x = one \o v
        OBVIOUS
      <4>5. /\ x \in Seq(Seq(Message)) /\ Len(x) = m + 1 /\ x[1] = u
            /\ \A k \in 2 .. m + 1 : x[k] = v[k - 1]
        <5>1. x \in Seq(Seq(Message)) /\ Len(x) = 1 + m
          BY <4>1, <4>4
        <5>2. x[1] = u
          BY <4>2, <4>4
        <5>3. \A k \in 2 .. m + 1 : x[k] = v[k - 1]
          BY <4>3, <4>4
        <5>4. QED
          BY <5>1, <5>2, <5>3
      <4>6. w2 = x
        BY <3>2, <4>4
      <4>7. QED
        BY <4>5, <4>6
  <2>3. \A k \in 2 .. m + 1 : w2[k] = w[k]
    <3>1. ASSUME NEW k \in 2 .. m + 1
          PROVE  w2[k] = w[k]
      <4>1. k - 1 \in 1 .. m /\ (k - 1) + 1 = k
        OBVIOUS
      <4>2. QED
        BY <1>4, <2>2, <4>1
    <3>2. QED
      BY <3>1
  <2>4. PICK t : t = [k \in 1 .. m + 2 |-> IF k = 1 THEN n + 1 ELSE st[k]]
    OBVIOUS
  <2>5. \A k \in 2 .. m + 2 : t[k] = st[k]
    BY <2>4
  <2>6. t[1] = n + 1 /\ t[m + 2] = sent
    BY <1>8, <2>4
  <2>7. t \in [1 .. Len(w2) + 1 -> 0 .. Len(f)]
    BY <1>8, <1>10, <2>2, <2>4
  <2>8. ASSUME NEW k \in 1 .. m + 1
        PROVE  /\ t[k + 1] = t[k] + Len(w2[k])
               /\ w2[k] = FinalMsg <=> k = m + 1 /\ at = "wait"
               /\ \A j \in 1 .. Len(w2[k]) :
                    f[t[k] + j] \in db \/ MsgRight(w2[k][j], f[t[k] + j])
    <3>1. CASE k = 1
      <4>1. t[1] = n + 1 /\ t[1 + 1] = n + (c + 1) /\ w2[1] = u /\ 2 \in 2 .. m + 2
        <5>1. 2 \in 2 .. m + 2 /\ 1 + 1 = 2
          OBVIOUS
        <5>2. t[2] = st[2]
          BY <2>5, <5>1
        <5>3. QED
          BY <1>8, <2>2, <2>6, <5>1, <5>2
      <4>2. t[1 + 1] = t[1] + Len(u)
        BY <1>7, <4>1
      <4>3. u # FinalMsg
        BY <1>7, <1>15 DEF FinalMsg
      <4>4. m + 1 # 1 \/ at # "wait"
        BY <1>13
      <4>5. ASSUME NEW j \in 1 .. c
            PROVE  f[(n + 1) + j] \in db \/ MsgRight(u[j], f[(n + 1) + j])
        <5>1. j + 1 \in 1 .. c + 1 /\ n + (j + 1) = (n + 1) + j /\ u[j] = b[j + 1]
          <6>1. j + 1 \in 1 .. c + 1 /\ n + (j + 1) = (n + 1) + j
            OBVIOUS
          <6>2. u[j] = b[j + 1]
            BY <1>7
          <6>3. QED
            BY <6>1, <6>2
        <5>2. f[n + (j + 1)] \in db \/ MsgRight(b[j + 1], f[n + (j + 1)])
          BY <1>11, <5>1
        <5>3. QED
          BY <5>1, <5>2
      <4>6. QED
        BY <1>7, <3>1, <4>1, <4>2, <4>3, <4>4, <4>5
    <3>2. CASE k \in 2 .. m + 1
      <4>1. k + 1 \in 2 .. m + 2 /\ k \in 2 .. m + 2
        BY <3>2
      <4>2. t[k] = st[k] /\ t[k + 1] = st[k + 1] /\ w2[k] = w[k]
        BY <2>3, <2>5, <3>2, <4>1
      <4>3. QED
        BY <1>8, <4>2
    <3>3. k = 1 \/ k \in 2 .. m + 1
      OBVIOUS
    <3>4. QED
      BY <3>1, <3>2, <3>3
  <2>9. w2 # <<>>
    <3>1. Len(w2) # 0
      BY <2>2
    <3>2. QED
      BY <3>1, NotNone
  <2>10. WireRight(w2, t, at, n + 1, sent, f, db)
    <3>1. Len(w2) + 1 = m + 2
      BY <2>2
    <3>2. QED
      BY <2>2, <2>6, <2>8, <2>9, <3>1 DEF WireRight
  <2>11. QED
    BY <1>4, <1>7, <1>10, <1>12, <2>2, <2>7, <2>10 DEF WireOK
<1>16. QED
  BY <1>14, <1>15

-----------------------------------------------------------------------------
(* The client's side                                                       *)

KeyBatch(kr, t) ==
  IF t.keys # <<>> THEN t.keys
  ELSE Prefix(SubSeq(kr, t.n_key + 1, Len(kr)), RecipeBatch)

(* A part of a sequence.                                                   *)
LEMMA PartOf ==
  ASSUME NEW S, NEW s \in Seq(S), NEW m \in Nat, NEW n \in m .. Len(s), NEW a, a = m + 1,
         NEW b, b = SubSeq(s, a, n)
  PROVE  b \in Seq(S) /\ Len(b) = n - m /\ \A i \in 1 .. n - m : b[i] = s[m + i]
<1>1. a \in Int /\ n \in Int /\ Len(s) \in Nat
  OBVIOUS
<1>2. \A i \in a .. n : s[i] \in S
  BY <1>1
<1>3. /\ SubSeq(s, a, n) \in Seq(S) /\ Len(SubSeq(s, a, n)) = IF a <= n THEN n - a + 1 ELSE 0
      /\ \A i \in 1 .. n - a + 1 : SubSeq(s, a, n)[i] = s[a + i - 1]
  BY <1>1, <1>2, SubSeqProperties
<1>4. /\ b \in Seq(S) /\ Len(b) = IF a <= n THEN n - a + 1 ELSE 0
      /\ \A i \in 1 .. n - a + 1 : b[i] = s[a + i - 1]
  BY <1>3
<1>5. n - a + 1 = n - m /\ (IF a <= n THEN n - a + 1 ELSE 0) = n - m
  BY <1>1
<1>6. \A i \in 1 .. n - m : b[i] = s[m + i]
  BY <1>1, <1>4, <1>5
<1>7. QED
  BY <1>4, <1>5, <1>6

(* FetchKeyRecipe: the next key is that of the next chunk.                 *)
LEMMA NextKeys ==
  ASSUME NEW kr \in Seq(Key), NEW t \in Retriever, KeysRight(kr, t),
         t.n_key + 1 <= Len(kr), NEW ks, ks = KeyBatch(kr, t)
  PROVE  /\ ks \in Seq(Key) /\ ks # <<>> /\ t.n_key + Len(ks) <= Len(kr)
         /\ \A i \in 1 .. Len(ks) : ks[i] = kr[t.n_key + i]
<1>1. PICK n \in Nat : n = t.n_key
  BY DEF Retriever
<1>2. t.keys \in Seq(Key) /\ Len(kr) \in Nat /\ n + 1 <= Len(kr)
  BY <1>1 DEF Retriever
<1>3. CASE t.keys # <<>>
  BY <1>2, <1>3 DEF KeyBatch, KeysRight
<1>4. CASE t.keys = <<>>
  <2>0. PICK l \in n .. Len(kr) : l = Len(kr)
    BY <1>2
  <2>1. PICK a, s : a = n + 1 /\ l = Len(kr) /\ s = SubSeq(kr, a, l)
    BY <2>0
  <2>2. /\ s \in Seq(Key) /\ Len(s) = l - n /\ \A i \in 1 .. l - n : s[i] = kr[n + i]
    BY <2>1, PartOf
  <2>3. PICK m : m = IF RecipeBatch < Len(s) THEN RecipeBatch ELSE Len(s)
    OBVIOUS
  <2>4. m \in 1 .. l - n /\ m \in 0 .. Len(s)
    BY <1>2, <2>1, <2>2, <2>3
  <2>5. ks = SubSeq(s, 1, m)
    BY <1>1, <1>4, <2>1, <2>3 DEF KeyBatch, Prefix
  <2>6. PICK z \in Nat, o \in Nat : z = 0 /\ o = z + 1 /\ o = 1
    OBVIOUS
  <2>7. ks = SubSeq(s, o, m) /\ m \in z .. Len(s)
    BY <2>4, <2>5, <2>6
  <2>8. ks \in Seq(Key) /\ Len(ks) = m - z /\ \A i \in 1 .. m - z : ks[i] = s[z + i]
    BY <2>2, <2>6, <2>7, PartOf
  <2>9. Len(ks) = m /\ \A i \in 1 .. m : ks[i] = s[i] /\ i \in 1 .. l - n
    BY <2>4, <2>6, <2>8
  <2>10. ks # <<>>
    BY <2>4, <2>9, NotNone
  <2>11. n + Len(ks) <= Len(kr)
    BY <2>1, <2>4, <2>9
  <2>12. \A i \in 1 .. Len(ks) : ks[i] = kr[n + i]
    BY <2>2, <2>9
  <2>13. QED
    BY <1>1, <2>8, <2>10, <2>11, <2>12
<1>5. QED
  BY <1>3, <1>4

(* A chunk is received.                                                    *)
Receives(f, kr, db, n, t, msg, ks, chunk, t2) ==
  /\ KeysOf(f, kr) /\ KeysRight(kr, t) /\ OutRight(t, f, db)
  /\ n = Len(t.out) /\ n + 1 <= Len(f)
  /\ f[n + 1] \in db \/ MsgRight(msg, f[n + 1])
  /\ ks = KeyBatch(kr, t) /\ chunk = Restored(msg, Head(ks))
  /\ t2 = [at |-> "recv", n_key |-> t.n_key + 1, keys |-> Tail(ks),
           out |-> Append(t.out, chunk)]

(* The client restores the chunk that is next in the file, or one in       *)
(* doubt.                                                                  *)
LEMMA ReceiveStep ==
  ASSUME NEW f \in Seq(Chunk), NEW kr \in Seq(Key), NEW db, NEW n \in Nat, NEW t \in Retriever,
         NEW msg \in Message, NEW ks, NEW chunk, NEW t2,
         Receives(f, kr, db, n, t, msg, ks, chunk, t2)
  PROVE  /\ t2 \in Retriever /\ KeysRight(kr, t2) /\ OutRight(t2, f, db)
         /\ Len(t2.out) = n + 1 /\ t2.at = "recv"
         /\ chunk = NoBase => f[n + 1] \in db
<1>0. /\ KeysOf(f, kr) /\ KeysRight(kr, t) /\ OutRight(t, f, db)
      /\ n = Len(t.out) /\ n + 1 <= Len(f)
      /\ f[n + 1] \in db \/ MsgRight(msg, f[n + 1])
      /\ ks = KeyBatch(kr, t) /\ chunk = Restored(msg, Head(ks))
      /\ t2 = [at |-> "recv", n_key |-> t.n_key + 1, keys |-> Tail(ks),
               out |-> Append(t.out, chunk)]
  BY DEF Receives
<1>1. n = t.n_key /\ n = Len(t.out)
  BY <1>0 DEF Retriever, KeysRight
<1>2. /\ t.out \in Seq(Chunk \cup {NoBase}) /\ Len(f) \in Nat /\ Len(kr) = Len(f)
      /\ n + 1 <= Len(f)
  BY <1>0 DEF Retriever, KeysOf
<1>3. /\ ks \in Seq(Key) /\ ks # <<>> /\ n + Len(ks) <= Len(kr)
      /\ \A i \in 1 .. Len(ks) : ks[i] = kr[n + i]
  <2>1. t.n_key + 1 <= Len(kr)
    BY <1>1, <1>2
  <2>2. /\ ks \in Seq(Key) /\ ks # <<>> /\ t.n_key + Len(ks) <= Len(kr)
        /\ \A i \in 1 .. Len(ks) : ks[i] = kr[t.n_key + i]
    BY <1>0, <2>1, NextKeys
  <2>3. QED
    BY <1>1, <2>2
<1>4. PICK m \in Nat : Len(ks) = m + 1
  BY <1>3, LongerThanNone
<1>5. PICK v : v = Tail(ks)
  OBVIOUS
<1>6. Head(ks) = ks[1] /\ v \in Seq(Key) /\ Len(v) = m /\ \A i \in 1 .. m : v[i] = ks[i + 1]
  BY <1>3, <1>4, <1>5, TailFacts
<1>7. PICK c \in Chunk : c = f[n + 1]
  BY <1>2
<1>8. Head(ks) = KeyOf[c]
  <2>1. n + 1 \in 1 .. Len(f) /\ 1 \in 1 .. Len(ks)
    BY <1>2, <1>4
  <2>2. ks[1] = kr[n + 1] /\ kr[n + 1] = KeyOf[f[n + 1]]
    BY <1>0, <1>3, <2>1 DEF KeysOf
  <2>3. QED
    BY <1>6, <1>7, <2>2
<1>9. chunk \in Chunk \cup {NoBase} /\ (c \in db \/ chunk = c)
  <2>1. chunk \in Chunk \cup {NoBase}
    BY <1>0, RestoredTyped
  <2>2. c \in db \/ MsgRight(msg, c)
    BY <1>0, <1>7
  <2>3. c \in db \/ Restored(msg, KeyOf[c]) = c
    BY <2>2, RestoredRight
  <2>4. QED
    BY <1>0, <1>8, <2>1, <2>3
<1>10. PICK out : out = Append(t.out, chunk)
  OBVIOUS
<1>11. /\ out \in Seq(Chunk \cup {NoBase}) /\ Len(out) = n + 1
       /\ \A i \in 1 .. n : out[i] = t.out[i]
       /\ out[n + 1] = chunk
  BY <1>1, <1>2, <1>9, <1>10, AppendFacts
<1>12. t2.at = "recv" /\ t2.n_key = n + 1 /\ t2.keys = v /\ t2.out = out
  BY <1>0, <1>1, <1>5, <1>10
<1>13. t2 \in Retriever
  <2>1. t2 = [at |-> "recv", n_key |-> n + 1, keys |-> v, out |-> out]
    BY <1>0, <1>1, <1>5, <1>10
  <2>2. n + 1 \in Nat /\ "recv" \in {"off", "recv", "closing", "done", "dead"}
    OBVIOUS
  <2>3. PICK k \in Nat : k = n + 1
    BY <2>2
  <2>4. PICK at \in {"off", "recv", "closing", "done", "dead"} : at = "recv"
    OBVIOUS
  <2>5. [at |-> at, n_key |-> k, keys |-> v, out |-> out] \in Retriever
    BY <1>6, <1>11 DEF Retriever
  <2>6. QED
    BY <2>1, <2>3, <2>4, <2>5
<1>14. KeysRight(kr, t2)
  <2>1. (n + 1) + m <= Len(kr)
    BY <1>3, <1>4
  <2>2. ASSUME NEW i \in 1 .. m
        PROVE  v[i] = kr[(n + 1) + i]
    <3>1. i + 1 \in 1 .. Len(ks) /\ n + (i + 1) = (n + 1) + i
      BY <1>4
    <3>2. v[i] = ks[i + 1] /\ ks[i + 1] = kr[n + (i + 1)]
      BY <1>3, <1>6, <3>1
    <3>3. QED
      BY <3>1, <3>2
  <2>3. t2.n_key = Len(t2.out) /\ t2.n_key + Len(t2.keys) <= Len(kr)
    BY <1>6, <1>11, <1>12, <2>1
  <2>4. \A i \in 1 .. Len(t2.keys) : t2.keys[i] = kr[t2.n_key + i]
    BY <1>6, <1>12, <2>2
  <2>5. QED
    BY <2>3, <2>4 DEF KeysRight
<1>15. OutRight(t2, f, db)
  <2>1. ASSUME NEW i \in 1 .. n + 1
        PROVE  out[i] = f[i] \/ f[i] \in db
    <3>1. CASE i \in 1 .. n
      BY <1>0, <1>11, <3>1 DEF OutRight
    <3>2. CASE i = n + 1
      BY <1>7, <1>9, <1>11, <3>2
    <3>3. i \in 1 .. n \/ i = n + 1
      OBVIOUS
    <3>4. QED
      BY <3>1, <3>2, <3>3
  <2>2. QED
    BY <1>2, <1>11, <1>12, <2>1 DEF OutRight
<1>16. chunk = NoBase => c \in db
  BY <1>9
<1>17. QED
  BY <1>1, <1>7, <1>11, <1>12, <1>13, <1>14, <1>15, <1>16

(* The chunk in hand is one of the file.                                   *)
LEMMA HandInFile ==
  ASSUME NEW f \in Seq(Chunk), NEW r \in Reader, ReaderRight(r, f),
         r.at \in {"fetch", "base", "base_base"}
  PROVE  /\ r.batch # <<>> /\ Head(r.batch) \in Chunk
         /\ \E i \in 1 .. Len(f) : f[i] = Head(r.batch)
<1>1. /\ r.next \in Nat /\ r.next <= Len(f) /\ Len(f) \in Nat
      /\ r.batch \in Seq(Chunk) /\ r.batch # <<>> /\ Len(r.batch) <= r.next
  BY ReaderTypes DEF ReaderRight
<1>2. Head(r.batch) = r.batch[1] /\ Head(r.batch) \in Chunk
  BY <1>1, TailFacts
<1>3. PICK m \in Nat, n \in Nat : n + 1 = Len(r.batch) /\ m = r.next
  BY <1>1, LongerThanNone
<1>4. Pushed(r) = m - (n + 1) /\ m <= Len(f) /\ n + 1 <= m
  BY <1>1, <1>3 DEF Pushed
<1>5. 1 \in 1 .. Len(r.batch) /\ Pushed(r) + 1 \in 1 .. Len(f)
  BY <1>1, <1>3, <1>4
<1>6. r.batch[1] = f[Pushed(r) + 1]
  BY <1>5 DEF ReaderRight
<1>7. QED
  BY <1>1, <1>2, <1>5, <1>6

-----------------------------------------------------------------------------
(* A session that takes no part in a step.                                 *)

(* The chunk in hand stays what it is while others write.                  *)
LEMMA HandStays ==
  ASSUME NEW sv, NEW rc, NEW sv2, NEW rc2, StillHeld(sv, rc, sv2, rc2),
         NEW ad, NEW ad2, AddressesStay(ad, ad2), BasesKnown(ad), NEW ca, NEW db,
         NEW r, HandRight(sv, ad, ca, db, r), NEW c \in Chunk, c = Head(r.batch),
         c \in db \/ StaysSafe(sv, rc, ad, ca, c)
  PROVE  HandRight(sv2, ad2, ca, db, r)
<1>1. /\ r.raw.stat = ad[c].stat /\ r.raw.stat \in {"COMP_DELTA", "CACHE_DELTA"}
      /\ ad[c].base_fp \in Chunk
  BY DEF HandRight, BasesKnown
<1>2. PICK b \in Chunk : b = ad[c].base_fp
  BY <1>1
<1>3. ad2[c] = ad[c]
  BY <1>1 DEF AddressesStay, IsReal
<1>4. c \notin db => /\ HeldAt(sv, rc, ad, c)
                     /\ r.raw.input = BytesAt(sv, ad, c)
                     /\ b \in ca \/ ad[c].stat = "COMP_DELTA" \/ HeldComp(sv, rc, ad, b)
  BY <1>1, <1>2 DEF HandRight, StaysSafe, HeldComp, HeldBase
<1>5. c \notin db => r.raw.input = BytesAt(sv2, ad2, c)
  BY <1>4, ChunkStaysHeld
<1>6. r.at = "base" => r.want = b
  BY <1>2 DEF HandRight
<1>7. r.at = "base_base" =>
        /\ ad[c].stat = "CACHE_DELTA" /\ b \notin ca
        /\ ad2[b] = ad[b] /\ ad[b].stat = "COMP_DELTA" /\ r.want = ad[b].base_fp
        /\ c \notin db => r.delta = BytesAt(sv2, ad2, b)
  <2> SUFFICES ASSUME r.at = "base_base"
               PROVE  /\ ad[c].stat = "CACHE_DELTA" /\ b \notin ca
                      /\ ad2[b] = ad[b] /\ ad[b].stat = "COMP_DELTA"
                      /\ r.want = ad[b].base_fp
                      /\ c \notin db => r.delta = BytesAt(sv2, ad2, b)
    OBVIOUS
  <2>1. /\ ad[c].stat = "CACHE_DELTA" /\ b \notin ca
        /\ ad[b].stat = "COMP_DELTA" /\ r.want = ad[b].base_fp
        /\ c \notin db => r.delta = BytesAt(sv, ad, b)
    BY <1>2 DEF HandRight
  <2>2. ad2[b] = ad[b]
    BY <2>1 DEF AddressesStay, IsReal
  <2>3. c \notin db => HeldAt(sv, rc, ad, b)
    BY <1>4, <2>1 DEF HeldComp, HeldBase
  <2>4. c \notin db => r.delta = BytesAt(sv2, ad2, b)
    BY <2>1, <2>3, ChunkStaysHeld
  <2>5. QED
    BY <2>1, <2>2, <2>4
<1>8. QED
  BY <1>1, <1>2, <1>3, <1>5, <1>6, <1>7 DEF HandRight

(* So does all of the server's side of a download.                         *)
LEMMA ServerStays ==
  ASSUME NEW sv, NEW rc, NEW sv2, NEW rc2, StillHeld(sv, rc, sv2, rc2),
         NEW ad, NEW ad2, AddressesStay(ad, ad2), BasesKnown(ad), NEW ca, NEW db,
         NEW f \in Seq(Chunk), NEW r \in Reader, NEW q, NEW d,
         ServerRight(sv, ad, rc, ca, f, db, r, q, d)
  PROVE  ServerRight(sv2, ad2, rc2, ca, f, db, r, q, d)
<1>1. ASSUME NEW i \in 1 .. Len(f)
      PROVE  f[i] \in db \/ StaysSafe(sv2, rc2, ad2, ca, f[i])
  <2>1. PICK c \in Chunk : c = f[i]
    OBVIOUS
  <2>2. c \in db \/ StaysSafe(sv, rc, ad, ca, c)
    BY <2>1 DEF ServerRight
  <2>3. c \in db \/ StaysSafe(sv2, rc2, ad2, ca, c)
    BY <2>2, SafeStays
  <2>4. QED
    BY <2>1, <2>3
<1>2. ASSUME r.at \in {"base", "base_base"}
      PROVE  HandRight(sv2, ad2, ca, db, r)
  <2>1. PICK c \in Chunk : /\ c = Head(r.batch)
                           /\ c \in db \/ StaysSafe(sv, rc, ad, ca, c)
    BY <1>2, HandInFile DEF ServerRight
  <2>2. HandRight(sv, ad, ca, db, r)
    BY <1>2 DEF ServerRight
  <2>3. QED
    BY <2>1, <2>2, HandStays
<1>3. QED
  BY <1>1, <1>2 DEF ServerRight

OthersSame(cl) ==
  \A d \in Client \ {cl} :
    /\ versions'[d] = versions[d] /\ n_upload'[d] = n_upload[d]
    /\ recipe'[d] = recipe[d] /\ key_recipe'[d] = key_recipe[d]
    /\ cached'[d] = cached[d] /\ container_cache'[d] = container_cache[d]
    /\ session'[d] = session[d] /\ doubtful'[d] = doubtful[d]
    /\ reader'[d] = reader[d] /\ mq'[d] = mq[d] /\ decoder'[d] = decoder[d]
    /\ wire'[d] = wire[d] /\ retriever'[d] = retriever[d] /\ writer'[d] = writer[d]

(* The types of one session.                                               *)
LEMMA TypesOf ==
  ASSUME TypeInv, NEW cl \in Client
  PROVE  /\ saved[cl] \in Seq(Seq(Bytes)) /\ cur[cl] \in Seq(Bytes) /\ opened[cl] \in BOOLEAN
         /\ Len(cur[cl]) <= ContainerSize
         /\ cached[cl] \subseteq Chunk /\ versions[cl] \in Seq(Seq(Chunk))
         /\ recipe[cl] \in Seq(Chunk) /\ key_recipe[cl] \in Seq(Key)
         /\ session[cl] \in Doing /\ n_upload[cl] \in Nat
         /\ reader[cl] \in Reader /\ mq[cl] \in Seq(RawChunk) /\ decoder[cl] \in Decoder
         /\ wire[cl] \in Seq(Seq(Message)) /\ retriever[cl] \in Retriever
         /\ writer[cl] \in {"off", "run", "end"} /\ doubtful[cl] \subseteq Chunk
BY DEF TypeInv, ContainerTypeOK

(* The types of the store.                                                 *)
LEMMA StoreTypes ==
  ASSUME TypeInv
  PROVE  /\ saved \in [Client -> Seq(Seq(Bytes))] /\ cur \in [Client -> Seq(Bytes)]
         /\ opened \in [Client -> BOOLEAN]
BY DEF TypeInv, ContainerTypeOK

(* What is known stays known.                                              *)
LEMMA KnownStays ==
  ASSUME NEW f \in Seq(Chunk), NEW ad, NEW ad2, AddressesStay(ad, ad2), Known(f, ad)
  PROVE  Known(f, ad2)
BY DEF Known, AddressesStay

(* A step of one session leaves those of the others right.                 *)
LEMMA OthersStay ==
  ASSUME RestoreInv, NEW cl \in Client, OthersSame(cl),
         StoreGrows(saved, cur, opened, saved', cur', opened'),
         AddressesStay(addr, addr'), NEW d \in Client \ {cl}
  PROVE  /\ FileRight(d)' /\ AtServer(d)' /\ AtClient(d)'
         /\ GoodCache(saved', cur', opened', container_cache'[d])
<1>1. TypeInv /\ StoredInv /\ FileRight(d) /\ AtServer(d) /\ AtClient(d)
  BY DEF RestoreInv, FileInv, DownloadInv
<1>2. /\ saved \in [Client -> Seq(Seq(Bytes))] /\ cur \in [Client -> Seq(Bytes)]
      /\ recipe[d] \in Seq(Chunk) /\ cached[d] \subseteq Chunk /\ reader[d] \in Reader
  BY <1>1, StoreTypes, TypesOf
<1>3. GoodCache(saved', cur', opened', container_cache'[d])
  <2>1. GoodCache(saved, cur, opened, container_cache[d])
    BY DEF RestoreInv, CacheInv
  <2>2. GoodCache(saved', cur', opened', container_cache[d])
    BY <1>2, <2>1, CacheStays
  <2>3. QED
    BY <2>2 DEF OthersSame
<1>4. FileRight(d)'
  <2>1. Known(recipe[d], addr) /\ \A c \in cached[d] : addr[c].stat # "none"
    BY <1>1 DEF FileRight
  <2>2. Known(recipe[d], addr') /\ \A c \in cached[d] : addr'[c].stat # "none"
    <3>1. Known(recipe[d], addr')
      BY <1>2, <2>1, KnownStays
    <3>2. QED
      BY <1>2, <2>1, <3>1 DEF AddressesStay
  <2>3. QED
    BY <1>1, <2>2 DEF FileRight, FileOf, OthersSame
<1>5. AtServer(d)'
  <2>1. CASE session[d] = "download"
    <3>1. StillHeld(saved, container_cache[d], saved', container_cache[d])
      BY <1>2, GrowthKeeps, KeptIsHeld
    <3>2. BasesKnown(addr)
      BY <1>1, RightBases DEF StoredInv
    <3>0. PICK f \in Seq(Chunk), r \in Reader : f = recipe[d] /\ r = reader[d]
      BY <1>2
    <3>3. PICK rc, ca, db, q, de :
            /\ rc = container_cache[d] /\ ca = cached[d]
            /\ db = doubtful[d] /\ q = mq[d] /\ de = decoder[d]
      OBVIOUS
    <3>4. ServerRight(saved, addr, rc, ca, f, db, r, q, de)
      BY <1>1, <2>1, <3>0, <3>3 DEF AtServer
    <3>5. ServerRight(saved', addr', rc, ca, f, db, r, q, de)
      BY <3>1, <3>2, <3>3, <3>4, ServerStays
    <3>6. QED
      BY <2>1, <3>0, <3>3, <3>5 DEF AtServer, OthersSame
  <2>2. CASE session[d] # "download"
    BY <1>1, <2>2 DEF AtServer, OthersSame
  <2>3. QED
    BY <2>1, <2>2
<1>6. AtClient(d)'
  BY <1>1 DEF AtClient, OthersSame
<1>7. QED
  BY <1>3, <1>4, <1>5, <1>6

(* So only what a step does to its own session has to be shown.            *)
LEMMA Composed ==
  ASSUME RestoreInv, NEW cl \in Client, OthersSame(cl),
         StoreGrows(saved, cur, opened, saved', cur', opened'),
         AddressesStay(addr, addr'),
         TypeInv', StoredInv', PendingInv', CauseInv',
         FileRight(cl)', AtServer(cl)', AtClient(cl)',
         GoodCache(saved', cur', opened', container_cache'[cl])
  PROVE  RestoreInv'
<1>1. ASSUME NEW d \in Client
      PROVE  /\ FileRight(d)' /\ AtServer(d)' /\ AtClient(d)'
             /\ GoodCache(saved', cur', opened', container_cache'[d])
  <2>1. CASE d = cl
    BY <2>1
  <2>2. CASE d # cl
    BY <2>2, OthersStay
  <2>3. QED
    BY <2>1, <2>2
<1>2. FileInv' /\ DownloadInv' /\ CacheInv'
  BY <1>1 DEF FileInv, DownloadInv, CacheInv
<1>3. QED
  BY <1>2 DEF RestoreInv

(* Nothing is written.                                                     *)
LEMMA StoreSame ==
  ASSUME UNCHANGED containerVars, UNCHANGED addr
  PROVE  /\ StoreGrows(saved, cur, opened, saved', cur', opened')
         /\ AddressesStay(addr, addr')
BY DEF StoreGrows, AddressesStay, containerVars

-----------------------------------------------------------------------------
(* A step of the server's side of a download.                              *)

(* An update to the same value.                                            *)
LEMMA NoUpdate ==
  ASSUME TypeInv, NEW cl \in Client
  PROVE  /\ reader = [reader EXCEPT ![cl] = reader[cl]] /\ mq = [mq EXCEPT ![cl] = mq[cl]]
         /\ decoder = [decoder EXCEPT ![cl] = decoder[cl]]
         /\ wire = [wire EXCEPT ![cl] = wire[cl]]
         /\ retriever = [retriever EXCEPT ![cl] = retriever[cl]]
         /\ writer = [writer EXCEPT ![cl] = writer[cl]]
         /\ container_cache = [container_cache EXCEPT ![cl] = container_cache[cl]]
         /\ addr = [c \in Chunk |-> addr[c]]
BY DEF TypeInv

(* A step that changes nothing but the server's side of one download.      *)
LEMMA ServerStepRight ==
  ASSUME RestoreInv, NEW cl \in Client, session[cl] = "download",
         UNCHANGED <<containerVars, indexVars, fileVars, session, uploadVars,
                     clientDownVars, server, countVars, historyVars>>,
         NEW r2 \in Reader, reader' = [reader EXCEPT ![cl] = r2],
         NEW q2 \in Seq(RawChunk), mq' = [mq EXCEPT ![cl] = q2],
         NEW d2 \in Decoder, decoder' = [decoder EXCEPT ![cl] = d2],
         NEW w2 \in Seq(Seq(Message)), wire' = [wire EXCEPT ![cl] = w2],
         NEW rc2, container_cache' = [container_cache EXCEPT ![cl] = rc2],
         GoodCache(saved, cur, opened, rc2),
         ServerRight(saved, addr, rc2, cached[cl], recipe[cl], doubtful[cl], r2, q2, d2),
         ClientRight("download", recipe[cl], key_recipe[cl], doubtful[cl], w2,
                     Sent(r2, q2, d2), d2.at, retriever[cl], writer[cl])
  PROVE  RestoreInv'
<1>1. /\ TypeInv /\ StoredInv /\ PendingInv /\ CauseInv /\ FileRight(cl)
  BY DEF RestoreInv, FileInv
<1>2. TypeInv'
  <2>1. /\ reader' \in [Client -> Reader] /\ mq' \in [Client -> Seq(RawChunk)]
        /\ decoder' \in [Client -> Decoder] /\ wire' \in [Client -> Seq(Seq(Message))]
        /\ container_cache' = [d \in Client |-> container_cache'[d]]
    BY <1>1 DEF TypeInv
  <2>2. ContainerTypeOK(Bytes)'
    BY <1>1 DEF TypeInv, ContainerTypeOK, containerVars
  <2>3. QED
    BY <1>1, <2>1, <2>2 DEF TypeInv, indexVars, fileVars, uploadVars, clientDownVars,
                            countVars, historyVars
<1>3. OthersSame(cl)
  BY <1>1 DEF OthersSame, TypeInv, indexVars, fileVars, uploadVars, clientDownVars, historyVars
<1>4. /\ reader'[cl] = r2 /\ mq'[cl] = q2 /\ decoder'[cl] = d2 /\ wire'[cl] = w2
      /\ container_cache'[cl] = rc2
  BY <1>1 DEF TypeInv
<1>5. StoredInv' /\ PendingInv' /\ CauseInv' /\ FileRight(cl)'
  BY <1>1 DEF StoredInv, PendingInv, CauseInv, FileRight, FileOf, containerVars, indexVars,
              fileVars, uploadVars, clientDownVars, countVars, historyVars
<1>6. AtServer(cl)'
  BY <1>4 DEF AtServer, containerVars, indexVars, fileVars, historyVars
<1>7. AtClient(cl)'
  BY <1>4 DEF AtClient, fileVars, clientDownVars, historyVars
<1>8. GoodCache(saved', cur', opened', container_cache'[cl])
  BY <1>4 DEF containerVars
<1>9. /\ StoreGrows(saved, cur, opened, saved', cur', opened')
      /\ AddressesStay(addr, addr')
  BY StoreSame DEF indexVars
<1>10. QED
  BY <1>2, <1>3, <1>5, <1>6, <1>7, <1>8, <1>9, Composed

(* A step of its reader.                                                   *)
LEMMA ReaderStepRight ==
  ASSUME RestoreInv, NEW cl \in Client, session[cl] = "download", ReaderOnly,
         NEW r2 \in Reader, reader' = [reader EXCEPT ![cl] = r2],
         NEW q2 \in Seq(RawChunk), mq' = [mq EXCEPT ![cl] = q2],
         NEW rc2, container_cache' = [container_cache EXCEPT ![cl] = rc2],
         GoodCache(saved, cur, opened, rc2),
         StillHeld(saved, container_cache[cl], saved, rc2),
         ReaderRight(r2, recipe[cl]),
         DecoderRight(r2, q2, decoder[cl], recipe[cl], doubtful[cl]),
         Sent(r2, q2, decoder[cl]) = Sent(reader[cl], mq[cl], decoder[cl]),
         r2.at \in {"base", "base_base"} =>
           HandRight(saved, addr, cached[cl], doubtful[cl], r2)
  PROVE  RestoreInv'
<1>1. /\ TypeInv /\ StoredInv /\ AtServer(cl) /\ AtClient(cl)
  BY DEF RestoreInv, DownloadInv
<1>2. /\ decoder[cl] \in Decoder /\ wire[cl] \in Seq(Seq(Message))
      /\ recipe[cl] \in Seq(Chunk)
  BY <1>1, TypesOf
<1>3. \A i \in 1 .. Len(recipe[cl]) :
        \/ recipe[cl][i] \in doubtful[cl]
        \/ StaysSafe(saved, rc2, addr, cached[cl], recipe[cl][i])
  <2>1. BasesKnown(addr) /\ AddressesStay(addr, addr)
    BY <1>1, RightBases DEF StoredInv, AddressesStay
  <2>2. ASSUME NEW i \in 1 .. Len(recipe[cl])
        PROVE  \/ recipe[cl][i] \in doubtful[cl]
               \/ StaysSafe(saved, rc2, addr, cached[cl], recipe[cl][i])
    <3>1. PICK c \in Chunk : c = recipe[cl][i]
      BY <1>2
    <3>2. \/ c \in doubtful[cl]
          \/ StaysSafe(saved, container_cache[cl], addr, cached[cl], c)
      BY <1>1, <3>1 DEF AtServer, ServerRight
    <3>3. \/ c \in doubtful[cl]
          \/ StaysSafe(saved, rc2, addr, cached[cl], c)
      BY <2>1, <3>2, SafeStays
    <3>4. QED
      BY <3>1, <3>3
  <2>3. QED
    BY <2>2
<1>4. ServerRight(saved, addr, rc2, cached[cl], recipe[cl], doubtful[cl], r2, q2, decoder[cl])
  BY <1>3 DEF ServerRight
<1>5. ClientRight("download", recipe[cl], key_recipe[cl], doubtful[cl], wire[cl],
                  Sent(r2, q2, decoder[cl]), decoder[cl].at, retriever[cl], writer[cl])
  BY <1>1 DEF AtClient
<1>6. /\ decoder' = [decoder EXCEPT ![cl] = decoder[cl]]
      /\ wire' = [wire EXCEPT ![cl] = wire[cl]]
  BY <1>1, NoUpdate DEF ReaderOnly
<1>7. UNCHANGED <<containerVars, indexVars, fileVars, session, uploadVars,
                  clientDownVars, server, countVars, historyVars>>
  BY DEF ReaderOnly
<1>8. QED
  BY <1>2, <1>4, <1>5, <1>6, <1>7, ServerStepRight

(* A thread stops the server only with a chunk in doubt or a client gone.  *)
LEMMA ExitRight ==
  ASSUME RestoreInv, Exit, NEW cl \in Client,
         doubtful[cl] # {} \/ retriever[cl].at = "dead"
  PROVE  RestoreInv'
<1> USE DEF containerVars, indexVars, fileVars, uploadVars, serverDownVars, clientDownVars,
            countVars, historyVars
<1>1. /\ UNCHANGED <<containerVars, indexVars, fileVars, session, uploadVars,
                     container_cache, serverDownVars, wire, clientDownVars, countVars,
                     historyVars>>
      /\ server' = "exit"
  BY DEF Exit
<1>2. TypeInv'
  BY <1>1 DEF RestoreInv, TypeInv, ContainerTypeOK
<1>3. StoredInv' /\ PendingInv' /\ CacheInv'
  BY <1>1 DEF RestoreInv, StoredInv, PendingInv, CacheInv
<1>4. FileInv' /\ DownloadInv'
  BY <1>1 DEF RestoreInv, FileInv, FileRight, FileOf, DownloadInv, AtServer, AtClient
<1>5. CauseInv'
  BY <1>1 DEF RestoreInv, CauseInv
<1>6. QED
  BY <1>2, <1>3, <1>4, <1>5 DEF RestoreInv

(* A reader that is at work works for a download.                          *)
LEMMA InDownloadFacts ==
  ASSUME RestoreInv, NEW cl \in Client,
         reader[cl].at \notin {"off", "end"} \/ decoder[cl].at \notin {"off", "end"}
  PROVE  /\ session[cl] = "download"
         /\ ServerRight(saved, addr, container_cache[cl], cached[cl], recipe[cl],
                        doubtful[cl], reader[cl], mq[cl], decoder[cl])
         /\ ClientRight("download", recipe[cl], key_recipe[cl], doubtful[cl], wire[cl],
                        Sent(reader[cl], mq[cl], decoder[cl]), decoder[cl].at,
                        retriever[cl], writer[cl])
BY DEF RestoreInv, DownloadInv, AtServer, AtClient, ServerIdle

(* Each action of DataReaderThd keeps the invariant.                       *)
LEMMA ReadRecipeRight ==
  ASSUME RestoreInv, NEW cl \in Client, ReadRecipe(cl)
  PROVE  RestoreInv'
<1>1. /\ TypeInv /\ reader[cl].at = "read" /\ session[cl] = "download"
      /\ ReaderRight(reader[cl], recipe[cl])
      /\ DecoderRight(reader[cl], mq[cl], decoder[cl], recipe[cl], doubtful[cl])
  BY InDownloadFacts DEF RestoreInv, ReadRecipe, ServerRight
<1>2. /\ reader[cl] \in Reader /\ recipe[cl] \in Seq(Chunk) /\ mq[cl] \in Seq(RawChunk)
  BY <1>1, TypesOf
<1>3. PICK m \in Nat, k \in Nat : m = reader[cl].next /\ k = Len(recipe[cl]) /\ m <= k
  BY <1>1, <1>2, ReaderTypes DEF ReaderRight
<1>4. PICK n \in Nat : n = IF k - m < RecipeBatch THEN k - m ELSE RecipeBatch
  BY <1>3
<1>5. PICK last \in BOOLEAN : last <=> (n < RecipeBatch)
  <2>1. CASE n < RecipeBatch
    BY <2>1
  <2>2. CASE ~(n < RecipeBatch)
    BY <2>2
  <2>3. QED
    BY <2>1, <2>2
<1>6. m + n <= k /\ (n = 0 => m = k) /\ (n < RecipeBatch => m + n = k)
  BY <1>3, <1>4
<1>7. PICK r2 : r2 = WithRecipe(reader[cl], recipe[cl], n, last)
  OBVIOUS
<1>8. reader' = [reader EXCEPT ![cl] = r2] /\ UNCHANGED <<mq, container_cache>> /\ ReaderOnly
  <2>1. PICK k2 : k2 = (IF Len(recipe[cl]) - reader[cl].next < RecipeBatch
                        THEN Len(recipe[cl]) - reader[cl].next ELSE RecipeBatch)
    OBVIOUS
  <2>2. PICK e : e = (k2 < RecipeBatch)
    OBVIOUS
  <2>3. /\ reader' = [reader EXCEPT ![cl] = WithRecipe(reader[cl], recipe[cl], k2, e)]
        /\ UNCHANGED <<mq, container_cache>> /\ ReaderOnly
    BY <2>1, <2>2 DEF ReadRecipe, WithRecipe
  <2>4. n = k2
    BY <1>3, <1>4, <2>1
  <2>5. e = last
    <3>1. CASE k2 < RecipeBatch
      <4>1. (k2 < RecipeBatch) = TRUE
        BY <3>1
      <4>2. e = TRUE /\ last = TRUE
        BY <1>5, <2>2, <2>4, <3>1, <4>1
      <4>3. QED
        BY <4>2
    <3>2. CASE ~(k2 < RecipeBatch)
      <4>1. (k2 < RecipeBatch) = FALSE
        BY <3>2
      <4>2. e = FALSE /\ last = FALSE
        BY <1>5, <2>2, <2>4, <3>2, <4>1
      <4>3. QED
        BY <4>2
    <3>3. QED
      BY <3>1, <3>2
  <2>6. QED
    BY <1>7, <2>3, <2>4, <2>5
<1>9. /\ r2 \in Reader /\ ReaderRight(r2, recipe[cl]) /\ Pushed(r2) = Pushed(reader[cl])
      /\ r2.at \in {"fetch", "end"}
  <2>1. /\ reader[cl].next + n <= Len(recipe[cl])
        /\ n = 0 => reader[cl].next = Len(recipe[cl])
        /\ n < RecipeBatch => reader[cl].next + n = Len(recipe[cl])
    BY <1>3, <1>6
  <2>2. (last => reader[cl].next + n = Len(recipe[cl]))
    BY <1>5, <2>1
  <2>3. PICK f \in Seq(Chunk), r \in Reader : f = recipe[cl] /\ r = reader[cl]
    BY <1>2
  <2>4. /\ ReaderRight(r, f) /\ r.at = "read" /\ r.next + n <= Len(f)
        /\ n = 0 => r.next = Len(f)
        /\ last => r.next + n = Len(f)
        /\ r2 = WithRecipe(r, f, n, last)
    BY <1>1, <1>7, <2>1, <2>2, <2>3
  <2>5. /\ r2 \in Reader /\ ReaderRight(r2, f) /\ Pushed(r2) = Pushed(r)
        /\ r2.at \in {"fetch", "end"}
    BY <2>2, <2>4, RecipeStep
  <2>6. QED
    BY <2>3, <2>5
<1>10. /\ DecoderRight(r2, mq[cl], decoder[cl], recipe[cl], doubtful[cl])
       /\ Sent(r2, mq[cl], decoder[cl]) = Sent(reader[cl], mq[cl], decoder[cl])
  BY <1>1, <1>9, DecoderWaits
<1>11. /\ mq' = [mq EXCEPT ![cl] = mq[cl]]
       /\ container_cache' = [container_cache EXCEPT ![cl] = container_cache[cl]]
  BY <1>1, <1>8, NoUpdate
<1>12. /\ GoodCache(saved, cur, opened, container_cache[cl])
       /\ StillHeld(saved, container_cache[cl], saved, container_cache[cl])
  BY DEF RestoreInv, CacheInv, StillHeld
<1>13. QED
  BY <1>1, <1>2, <1>8, <1>9, <1>10, <1>11, <1>12, ReaderStepRight

(* A raw chunk that leads to the chunk in hand, or any if it is in doubt.  *)
LEMMA PushRight ==
  ASSUME RestoreInv, NEW cl \in Client, reader[cl].at \in {"fetch", "base", "base_base"},
         NEW raw \in RawChunk, PushRaw(cl, raw), ReaderOnly,
         Head(reader[cl].batch) \in doubtful[cl] \/ RawRight(raw, Head(reader[cl].batch)),
         NEW rc2, container_cache' = [container_cache EXCEPT ![cl] = rc2],
         GoodCache(saved, cur, opened, rc2),
         StillHeld(saved, container_cache[cl], saved, rc2)
  PROVE  RestoreInv'
<1>1. /\ TypeInv /\ session[cl] = "download"
      /\ ReaderRight(reader[cl], recipe[cl])
      /\ DecoderRight(reader[cl], mq[cl], decoder[cl], recipe[cl], doubtful[cl])
  BY InDownloadFacts DEF RestoreInv, ServerRight
<1>2. /\ reader[cl] \in Reader /\ recipe[cl] \in Seq(Chunk) /\ mq[cl] \in Seq(RawChunk)
      /\ decoder[cl] \in Decoder
  BY <1>1, TypesOf
<1>3. PICK r2 : r2 = WithoutHead(reader[cl])
  OBVIOUS
<1>4. PICK q2 \in Seq(RawChunk) : q2 = Append(mq[cl], raw)
  BY <1>2, AppendFacts
<1>5. reader' = [reader EXCEPT ![cl] = r2] /\ mq' = [mq EXCEPT ![cl] = q2]
  BY <1>3, <1>4 DEF PushRaw, WithoutHead
<1>6. /\ r2 \in Reader /\ ReaderRight(r2, recipe[cl])
      /\ DecoderRight(r2, q2, decoder[cl], recipe[cl], doubtful[cl])
      /\ Sent(r2, q2, decoder[cl]) = Sent(reader[cl], mq[cl], decoder[cl])
      /\ r2.at \in {"read", "fetch", "end"}
  <2>1. PICK f \in Seq(Chunk), r \in Reader, q \in Seq(RawChunk), d \in Decoder :
          f = recipe[cl] /\ r = reader[cl] /\ q = mq[cl] /\ d = decoder[cl]
    BY <1>2
  <2>2. PICK db : db = doubtful[cl]
    OBVIOUS
  <2>3. Pushes(f, db, r, q, d, raw, r2, q2)
    BY <1>1, <1>3, <1>4, <2>1, <2>2 DEF Pushes
  <2>4. /\ r2 \in Reader /\ ReaderRight(r2, f) /\ DecoderRight(r2, q2, d, f, db)
        /\ Sent(r2, q2, d) = Sent(r, q, d) /\ r2.at \in {"read", "fetch", "end"}
    BY <2>3, PushStep
  <2>5. QED
    BY <2>1, <2>2, <2>4
<1>7. QED
  BY <1>1, <1>5, <1>6, ReaderStepRight

(* What ReadChunk reads at an address that is held.                        *)
LEMMA ReadFacts ==
  ASSUME RestoreInv, NEW cl \in Client, NEW c \in Chunk, NEW r \in ReadChunk(cl, addr[c])
  PROVE  /\ GoodCache(saved, cur, opened, r.cache) /\ r.bytes \in Stored
         /\ StillHeld(saved, container_cache[cl], saved, r.cache)
         /\ HeldAt(saved, container_cache[cl], addr, c) => r.bytes = BytesAt(saved, addr, c)
<1>1. /\ ContainerTypeOK(Bytes) /\ GoodCache(saved, cur, opened, container_cache[cl])
      /\ AddressRight(saved, cur, addr, Reads, c)
  BY DEF RestoreInv, TypeInv, CacheInv, StoredInv
<1>2. IsReal(addr[c]) => addr[c].container_id \in ContainerId
  BY <1>1 DEF AddressRight, HasItem, IsReal, Addr
<1>3. PICK rc, a : rc = container_cache[cl] /\ a = addr[c]
  OBVIOUS
<1>4. /\ GoodCache(saved, cur, opened, r.cache) /\ r.bytes \in Stored
      /\ StillHeld(saved, rc, saved, r.cache)
      /\ Held(saved, rc, a) => r.bytes = ContentAt(saved, a)
  BY <1>1, <1>2, <1>3, ReadsRight
<1>5. QED
  BY <1>3, <1>4 DEF HeldAt, BytesAt

(* The chunk in hand, and what is known of its address.                    *)
LEMMA InHand ==
  ASSUME RestoreInv, NEW cl \in Client, reader[cl].at \in {"fetch", "base", "base_base"}
  PROVE  /\ session[cl] = "download" /\ TypeInv /\ reader[cl] \in Reader
         /\ \A d \in Chunk : AddressRight(saved, cur, addr, Reads, d)
         /\ ReaderRight(reader[cl], recipe[cl])
         /\ DecoderRight(reader[cl], mq[cl], decoder[cl], recipe[cl], doubtful[cl])
         /\ reader[cl].at # "fetch" =>
              HandRight(saved, addr, cached[cl], doubtful[cl], reader[cl])
         /\ Head(reader[cl].batch) \in Chunk
         /\ \/ Head(reader[cl].batch) \in doubtful[cl]
            \/ StaysSafe(saved, container_cache[cl], addr, cached[cl], Head(reader[cl].batch))
<1>1. /\ session[cl] = "download" /\ TypeInv /\ reader[cl] \in Reader
      /\ \A d \in Chunk : AddressRight(saved, cur, addr, Reads, d)
      /\ ServerRight(saved, addr, container_cache[cl], cached[cl], recipe[cl],
                     doubtful[cl], reader[cl], mq[cl], decoder[cl])
      /\ recipe[cl] \in Seq(Chunk)
  BY InDownloadFacts, TypesOf DEF RestoreInv, StoredInv
<1>2. ReaderRight(reader[cl], recipe[cl])
  BY <1>1 DEF ServerRight
<1>3. PICK f \in Seq(Chunk), r \in Reader : f = recipe[cl] /\ r = reader[cl]
  BY <1>1
<1>4. /\ Head(r.batch) \in Chunk /\ \E i \in 1 .. Len(f) : f[i] = Head(r.batch)
  BY <1>2, <1>3, HandInFile
<1>5. \/ Head(r.batch) \in doubtful[cl]
      \/ StaysSafe(saved, container_cache[cl], addr, cached[cl], Head(r.batch))
  BY <1>1, <1>3, <1>4 DEF ServerRight
<1>6. QED
  BY <1>1, <1>2, <1>3, <1>4, <1>5 DEF ServerRight

(* The reader takes a delta in hand, or goes on to the base of its base.   *)
LEMMA TakeRight ==
  ASSUME RestoreInv, NEW cl \in Client, reader[cl].at \in {"fetch", "base"},
         ReaderOnly, UNCHANGED mq,
         NEW r2 \in Reader, reader' = [reader EXCEPT ![cl] = r2],
         r2.at \in {"base", "base_base"}, r2.want \in Chunk,
         r2.next = reader[cl].next, r2.batch = reader[cl].batch,
         r2.is_end = reader[cl].is_end,
         HandRight(saved, addr, cached[cl], doubtful[cl], r2),
         NEW rc2, container_cache' = [container_cache EXCEPT ![cl] = rc2],
         GoodCache(saved, cur, opened, rc2),
         StillHeld(saved, container_cache[cl], saved, rc2)
  PROVE  RestoreInv'
<1>1. /\ session[cl] = "download" /\ TypeInv
      /\ ReaderRight(reader[cl], recipe[cl])
      /\ DecoderRight(reader[cl], mq[cl], decoder[cl], recipe[cl], doubtful[cl])
  BY InHand
<1>2. Pushed(r2) = Pushed(reader[cl])
  BY DEF Pushed
<1>3. ReaderRight(r2, recipe[cl])
  BY <1>1, <1>2 DEF ReaderRight
<1>4. /\ DecoderRight(r2, mq[cl], decoder[cl], recipe[cl], doubtful[cl])
      /\ Sent(r2, mq[cl], decoder[cl]) = Sent(reader[cl], mq[cl], decoder[cl])
  BY <1>1, <1>2, DecoderWaits
<1>5. mq[cl] \in Seq(RawChunk) /\ mq' = [mq EXCEPT ![cl] = mq[cl]]
  BY <1>1, TypesOf, NoUpdate
<1>6. QED
  BY <1>1, <1>3, <1>4, <1>5, ReaderStepRight

(* What each kind of real address promises.                                *)
LEMMA AddressKinds ==
  ASSUME NEW sv, NEW cu, NEW ad, NEW reads, NEW c \in Chunk,
         AddressRight(sv, cu, ad, reads, c)
  PROVE  /\ ad[c].stat \in {"none", "virtual", "COMP_BASE", "COMP_DELTA", "CACHE_DELTA"}
         /\ ad[c].stat \in Type
         /\ ad[c].stat \in {"COMP_DELTA", "CACHE_DELTA"} =>
              MayBeDelta(ad, c, ad[c].base_fp, ad[c].stat) /\ ad[c].base_fp \in Chunk
BY DEF AddressRight, Addr, MayBeDelta, Type

(* A safe chunk has a real address.                                        *)
LEMMA SafeIsReal ==
  ASSUME NEW sv, NEW rc, NEW ad, NEW ca, NEW c, StaysSafe(sv, rc, ad, ca, c)
  PROVE  HeldAt(sv, rc, ad, c) /\ ad[c].stat \in {"COMP_BASE", "COMP_DELTA", "CACHE_DELTA"}
BY DEF StaysSafe, HeldComp, HeldBase

(* A base goes into the queue as it is, a delta into the hand.             *)
LEMMA FetchChunkRight ==
  ASSUME RestoreInv, NEW cl \in Client, FetchChunk(cl)
  PROVE  RestoreInv'
<1>1. reader[cl].at = "fetch"
  BY DEF FetchChunk
<1>2. /\ session[cl] = "download" /\ TypeInv /\ reader[cl] \in Reader
      /\ \A d \in Chunk : AddressRight(saved, cur, addr, Reads, d)
      /\ Head(reader[cl].batch) \in Chunk
      /\ \/ Head(reader[cl].batch) \in doubtful[cl]
         \/ StaysSafe(saved, container_cache[cl], addr, cached[cl], Head(reader[cl].batch))
  BY <1>1, InHand
<1>3. PICK c \in Chunk : c = Head(reader[cl].batch)
  BY <1>2
<1>4. /\ AddressRight(saved, cur, addr, Reads, c)
      /\ c \in doubtful[cl] \/ StaysSafe(saved, container_cache[cl], addr, cached[cl], c)
  BY <1>2, <1>3
<1>5. /\ GoodCache(saved, cur, opened, container_cache[cl])
      /\ StillHeld(saved, container_cache[cl], saved, container_cache[cl])
      /\ container_cache = [container_cache EXCEPT ![cl] = container_cache[cl]]
      /\ saved \in [Client -> Seq(Seq(Bytes))]
  BY <1>2, NoUpdate, StoreTypes DEF RestoreInv, CacheInv, StillHeld
<1>6. ASSUME addr[c].stat = "COMP_BASE", NEW r \in ReadChunk(cl, addr[c]),
             KeepCache(cl, r.cache), ReaderOnly,
             PushRaw(cl, [Raw EXCEPT !.stat = "COMP_BASE", !.input = r.bytes])
      PROVE  RestoreInv'
  <2>1. /\ GoodCache(saved, cur, opened, r.cache) /\ r.bytes \in Stored
        /\ StillHeld(saved, container_cache[cl], saved, r.cache)
        /\ HeldAt(saved, container_cache[cl], addr, c) => r.bytes = BytesAt(saved, addr, c)
    BY ReadFacts
  <2>2. PICK raw : raw = [Raw EXCEPT !.stat = "COMP_BASE", !.input = r.bytes]
    OBVIOUS
  <2>3. raw \in RawChunk /\ raw.stat = "COMP_BASE" /\ raw.input = r.bytes
    BY <2>1, <2>2, BytesFacts DEF Raw, RawChunk, Type
  <2>4. c \in doubtful[cl] \/ r.bytes = Comp(c)
    <3>1. ASSUME StaysSafe(saved, container_cache[cl], addr, cached[cl], c)
          PROVE  r.bytes = Comp(c)
      <4>1. HeldBase(saved, container_cache[cl], addr, c)
        BY <1>6, <3>1, SafeIsReal DEF HeldBase
      <4>2. BytesAt(saved, addr, c) = Comp(c)
        <5>1. PICK rc : rc = container_cache[cl]
          OBVIOUS
        <5>2. HeldBase(saved, rc, addr, c)
          BY <4>1, <5>1
        <5>3. QED
          <6>1. saved \in [Client -> Seq(Seq(Bytes))] /\ AddressRight(saved, cur, addr, Reads, c)
            BY <1>4, <1>5
          <6>2. QED
            BY <5>2, <6>1, HeldBaseBytes
      <4>3. QED
        BY <2>1, <4>1, <4>2 DEF HeldBase
    <3>2. QED
      BY <1>4, <3>1
  <2>5. c \in doubtful[cl] \/ RawRight(raw, c)
    BY <2>3, <2>4 DEF RawRight
  <2>6. container_cache' = [container_cache EXCEPT ![cl] = r.cache]
    BY <1>6 DEF KeepCache
  <2>7. /\ PushRaw(cl, raw)
        /\ Head(reader[cl].batch) \in doubtful[cl] \/ RawRight(raw, Head(reader[cl].batch))
    <3>1. PushRaw(cl, raw)
      BY <1>6, <2>2
    <3>2. QED
      BY <1>3, <2>5, <3>1
  <2>8. QED
    BY <1>1, <1>6, <2>1, <2>3, <2>6, <2>7, PushRight
<1>7. ASSUME addr[c].stat \in {"COMP_DELTA", "CACHE_DELTA"},
             NEW r \in ReadChunk(cl, addr[c]), KeepCache(cl, r.cache), ReaderOnly,
             reader' = [reader EXCEPT ![cl] =
               [@ EXCEPT !.at = "base", !.want = addr[c].base_fp,
                         !.raw = [Raw EXCEPT !.stat = addr[c].stat, !.input = r.bytes]]],
             UNCHANGED mq
      PROVE  RestoreInv'
  <2>1. /\ GoodCache(saved, cur, opened, r.cache) /\ r.bytes \in Stored
        /\ StillHeld(saved, container_cache[cl], saved, r.cache)
        /\ HeldAt(saved, container_cache[cl], addr, c) => r.bytes = BytesAt(saved, addr, c)
    BY ReadFacts
  <2>2. PICK raw : raw = [Raw EXCEPT !.stat = addr[c].stat, !.input = r.bytes]
    OBVIOUS
  <2>3. raw \in RawChunk /\ raw.stat = addr[c].stat /\ raw.input = r.bytes
    BY <1>7, <2>1, <2>2, BytesFacts DEF Raw, RawChunk, Type
  <2>4. PICK r2 : r2 = [reader[cl] EXCEPT !.at = "base", !.want = addr[c].base_fp,
                                          !.raw = raw]
    OBVIOUS
  <2>5. addr[c].base_fp \in Chunk
    BY <1>4, <1>7, AddressKinds
  <2>6. /\ r2 \in Reader /\ r2.at = "base" /\ r2.want = addr[c].base_fp /\ r2.raw = raw
        /\ r2.next = reader[cl].next /\ r2.batch = reader[cl].batch
        /\ r2.is_end = reader[cl].is_end
    BY <1>2, <2>3, <2>4, <2>5 DEF Reader, Busy
  <2>7. c \in doubtful[cl] \/ r.bytes = BytesAt(saved, addr, c)
    BY <1>4, <2>1, SafeIsReal
  <2>8. HandRight(saved, addr, cached[cl], doubtful[cl], r2)
    BY <1>3, <1>7, <2>3, <2>6, <2>7 DEF HandRight
  <2>9. reader' = [reader EXCEPT ![cl] = r2]
    BY <1>7, <2>2, <2>4
  <2>10. container_cache' = [container_cache EXCEPT ![cl] = r.cache]
    BY <1>7 DEF KeepCache
  <2>11. QED
    BY <1>1, <1>7, <2>1, <2>5, <2>6, <2>8, <2>9, <2>10, TakeRight
<1>8. ASSUME addr[c].stat = "virtual", PushRaw(cl, [Raw EXCEPT !.stat = "COMP_BASE"]),
             UNCHANGED container_cache, ReaderOnly
      PROVE  RestoreInv'
  <2>1. c \in doubtful[cl]
    BY <1>4, <1>8, SafeIsReal
  <2>2. PICK raw : raw = [Raw EXCEPT !.stat = "COMP_BASE"]
    OBVIOUS
  <2>3. raw \in RawChunk
    BY <2>2, BytesFacts DEF Raw, RawChunk, Type
  <2>4. PushRaw(cl, raw) /\ Head(reader[cl].batch) \in doubtful[cl]
    BY <1>3, <1>8, <2>1, <2>2
  <2>5. container_cache' = [container_cache EXCEPT ![cl] = container_cache[cl]]
    BY <1>5, <1>8
  <2>6. QED
    BY <1>1, <1>5, <1>8, <2>3, <2>4, <2>5, PushRight
<1>9. ASSUME ~IsReal(addr[c]), Exit
      PROVE  RestoreInv'
  <2>1. c \in doubtful[cl]
    BY <1>4, <1>9, SafeIsReal DEF IsReal
  <2>2. QED
    BY <1>9, <2>1, ExitRight
<1>10. QED
  BY <1>3, <1>6, <1>7, <1>8, <1>9 DEF FetchChunk

(* The facts about the cache of a session that its own steps need.         *)
LEMMA CacheFacts ==
  ASSUME RestoreInv, NEW cl \in Client
  PROVE  /\ GoodCache(saved, cur, opened, container_cache[cl])
         /\ StillHeld(saved, container_cache[cl], saved, container_cache[cl])
         /\ container_cache = [container_cache EXCEPT ![cl] = container_cache[cl]]
BY NoUpdate DEF RestoreInv, CacheInv, StillHeld

(* The base that is added to a raw chunk.                                  *)
LEMMA WithBaseFacts ==
  ASSUME NEW raw \in RawChunk, NEW type \in Type, NEW bytes \in Stored,
         NEW raw2, raw2 = WithBase(raw, type, bytes)
  PROVE  /\ raw2 \in RawChunk /\ raw2.stat = raw.stat /\ raw2.input = raw.input
         /\ raw2.base_type = type /\ raw2.base = bytes
BY DEF WithBase, RawChunk

(* The base of a delta of a compressed chunk.                              *)
LEMMA ProcNormalDeltaRight ==
  ASSUME RestoreInv, NEW cl \in Client, ProcNormalDelta(cl)
  PROVE  RestoreInv'
<1>1. reader[cl].at = "base" /\ reader[cl].raw.stat = "COMP_DELTA" /\ ReaderOnly
  BY DEF ProcNormalDelta
<1>2. /\ TypeInv /\ reader[cl] \in Reader
      /\ \A d \in Chunk : AddressRight(saved, cur, addr, Reads, d)
      /\ HandRight(saved, addr, cached[cl], doubtful[cl], reader[cl])
      /\ Head(reader[cl].batch) \in Chunk
      /\ \/ Head(reader[cl].batch) \in doubtful[cl]
         \/ StaysSafe(saved, container_cache[cl], addr, cached[cl], Head(reader[cl].batch))
  BY <1>1, InHand
<1>0. PICK rc : rc = container_cache[cl]
  OBVIOUS
<1>3. PICK c \in Chunk : c = Head(reader[cl].batch)
  BY <1>2
<1>4. PICK b \in Chunk : b = reader[cl].want /\ b = addr[c].base_fp
  BY <1>1, <1>2, <1>3, AddressKinds DEF HandRight
<1>5. PICK r \in ReadChunk(cl, addr[b]) :
        /\ KeepCache(cl, r.cache)
        /\ PushRaw(cl, WithBase(reader[cl].raw, addr[b].stat, r.bytes))
  BY <1>4 DEF ProcNormalDelta
<1>6. /\ GoodCache(saved, cur, opened, r.cache) /\ r.bytes \in Stored
      /\ StillHeld(saved, rc, saved, r.cache)
      /\ HeldAt(saved, rc, addr, b) => r.bytes = BytesAt(saved, addr, b)
  BY <1>0, ReadFacts
<1>7. /\ addr[c].stat = "COMP_DELTA" /\ addr[b].stat = "COMP_BASE"
      /\ c \notin doubtful[cl] => reader[cl].raw.input = BytesAt(saved, addr, c)
  <2>1. /\ addr[c].stat = "COMP_DELTA"
        /\ c \notin doubtful[cl] => reader[cl].raw.input = BytesAt(saved, addr, c)
    BY <1>1, <1>2, <1>3 DEF HandRight
  <2>2. AddressRight(saved, cur, addr, Reads, c)
    BY <1>2
  <2>3. MayBeDelta(addr, c, addr[c].base_fp, addr[c].stat)
    BY <2>1, <2>2, AddressKinds
  <2>4. QED
    BY <1>4, <2>1, <2>3 DEF MayBeDelta
<1>8. PICK raw : raw = WithBase(reader[cl].raw, addr[b].stat, r.bytes)
  OBVIOUS
<1>9. /\ raw \in RawChunk /\ raw.stat = "COMP_DELTA" /\ raw.input = reader[cl].raw.input
      /\ raw.base_type = "COMP_BASE" /\ raw.base = r.bytes
  <2>1. reader[cl].raw \in RawChunk /\ "COMP_BASE" \in Type
    BY <1>2, ReaderTypes DEF Type
  <2>2. QED
    BY <1>1, <1>6, <1>7, <1>8, <2>1, WithBaseFacts
<1>10. c \in doubtful[cl] \/ RawRight(raw, c)
  <2>1. ASSUME StaysSafe(saved, rc, addr, cached[cl], c), c \notin doubtful[cl]
        PROVE  DeltaDecode(r.bytes, BytesAt(saved, addr, c)) = Comp(c)
    <3>1. HeldComp(saved, rc, addr, c)
      BY <1>7, <2>1 DEF StaysSafe
    <3>2. saved \in [Client -> Seq(Seq(Bytes))]
      BY <1>2, StoreTypes
    <3>3. AddressRight(saved, cur, addr, Reads, c) /\ AddressRight(saved, cur, addr, Reads, b)
      BY <1>2
    <3>4. addr[c].stat = "COMP_DELTA" /\ addr[c].base_fp = b
      BY <1>4, <1>7
    <3>5. PICK x : x = r.bytes
      OBVIOUS
    <3>6. SafeDelta(saved, cur, rc, addr, c, b, x)
      BY <1>6, <3>1, <3>3, <3>4, <3>5 DEF SafeDelta, ReadAs
    <3>7. DeltaDecode(x, BytesAt(saved, addr, c)) = Comp(c)
      BY <3>2, <3>6, SafeDeltaDecodes
    <3>8. QED
      BY <3>5, <3>7
  <2>2. c \in doubtful[cl] \/ DeltaDecode(raw.base, raw.input) = Comp(c)
    BY <1>0, <1>2, <1>3, <1>7, <1>9, <2>1
  <2>3. QED
    BY <1>9, <2>2 DEF RawRight
<1>11. /\ PushRaw(cl, raw) /\ container_cache' = [container_cache EXCEPT ![cl] = r.cache]
  BY <1>5, <1>8 DEF KeepCache
<1>12. Head(reader[cl].batch) \in doubtful[cl] \/ RawRight(raw, Head(reader[cl].batch))
  BY <1>3, <1>10
<1>13. StillHeld(saved, container_cache[cl], saved, r.cache)
  BY <1>0, <1>6
<1>14. QED
  BY <1>1, <1>6, <1>9, <1>11, <1>12, <1>13, PushRight

(* The base of the base.                                                   *)
LEMMA DecodeBaseRight ==
  ASSUME RestoreInv, NEW cl \in Client, DecodeBase(cl)
  PROVE  RestoreInv'
<1>1. reader[cl].at = "base_base"
  BY DEF DecodeBase
<1>2. /\ TypeInv /\ reader[cl] \in Reader
      /\ \A d \in Chunk : AddressRight(saved, cur, addr, Reads, d)
      /\ HandRight(saved, addr, cached[cl], doubtful[cl], reader[cl])
      /\ Head(reader[cl].batch) \in Chunk
      /\ \/ Head(reader[cl].batch) \in doubtful[cl]
         \/ StaysSafe(saved, container_cache[cl], addr, cached[cl], Head(reader[cl].batch))
  BY <1>1, InHand
<1>0. PICK rc : rc = container_cache[cl]
  OBVIOUS
<1>3. PICK c \in Chunk : c = Head(reader[cl].batch)
  BY <1>2
<1>4. PICK b \in Chunk : b = addr[c].base_fp
  BY <1>1, <1>2, <1>3, AddressKinds DEF HandRight
<1>5. /\ addr[c].stat = "CACHE_DELTA" /\ reader[cl].raw.stat = "CACHE_DELTA"
      /\ b \notin cached[cl] /\ addr[b].stat = "COMP_DELTA"
      /\ reader[cl].want = addr[b].base_fp
      /\ c \notin doubtful[cl] => /\ reader[cl].raw.input = BytesAt(saved, addr, c)
                                  /\ reader[cl].delta = BytesAt(saved, addr, b)
  BY <1>1, <1>2, <1>3, <1>4 DEF HandRight
<1>6. PICK a \in Chunk : a = reader[cl].want /\ a = addr[b].base_fp
  BY <1>2, <1>5, AddressKinds
<1>a. PICK r \in ReadChunk(cl, addr[a]) :
        LET base == DeltaDecode(r.bytes, reader[cl].delta) IN
        \/ /\ KeepCache(cl, r.cache)
           /\ PushRaw(cl, WithBase(reader[cl].raw, "COMP_BASE", base))
           /\ ReaderOnly
        \/ base = Junk /\ Exit
  BY <1>6 DEF DecodeBase
<1>7. PICK base :
        /\ base = DeltaDecode(r.bytes, reader[cl].delta)
        /\ \/ /\ KeepCache(cl, r.cache)
              /\ PushRaw(cl, WithBase(reader[cl].raw, "COMP_BASE", base))
              /\ ReaderOnly
           \/ base = Junk /\ Exit
  BY <1>a
<1>8. /\ GoodCache(saved, cur, opened, r.cache) /\ r.bytes \in Stored
      /\ StillHeld(saved, rc, saved, r.cache)
      /\ HeldAt(saved, rc, addr, a) => r.bytes = BytesAt(saved, addr, a)
  BY <1>0, ReadFacts
<1>9. saved \in [Client -> Seq(Seq(Bytes))]
  BY <1>2, StoreTypes
<1>10. ASSUME c \notin doubtful[cl]
       PROVE  /\ base = Comp(b) /\ KeyOf[b] = KeyOf[c]
              /\ reader[cl].raw.input = Delta(Uncomp(c), Uncomp(b), "whole")
  <2>1. StaysSafe(saved, rc, addr, cached[cl], c)
    BY <1>0, <1>2, <1>3, <1>10
  <2>2. HeldAt(saved, rc, addr, c) /\ HeldComp(saved, rc, addr, b)
    BY <1>4, <1>5, <2>1 DEF StaysSafe, HeldComp, HeldBase
  <2>3. AddressRight(saved, cur, addr, Reads, c) /\ AddressRight(saved, cur, addr, Reads, b)
    BY <1>2
  <2>4. /\ KeyOf[b] = KeyOf[c]
        /\ BytesAt(saved, addr, c) = Delta(Uncomp(c), Uncomp(b), "whole")
    <3>1. PICK d \in Chunk : /\ addr[c].base_fp = d /\ KeyOf[d] = KeyOf[c]
                             /\ BytesAt(saved, addr, c) = Delta(Uncomp(c), Uncomp(d), "whole")
      <4>1. addr[c].stat = "CACHE_DELTA" /\ HeldAt(saved, rc, addr, c)
        BY <1>5, <2>2
      <4>2. QED
        BY <1>9, <2>3, <4>1, HeldCacheDeltaBytes
    <3>2. QED
      BY <1>4, <3>1
  <2>5. DeltaDecode(r.bytes, BytesAt(saved, addr, b)) = Comp(b)
    <3>1. AddressRight(saved, cur, addr, Reads, b) /\ AddressRight(saved, cur, addr, Reads, a)
      BY <1>2
    <3>2. addr[b].stat = "COMP_DELTA" /\ addr[b].base_fp = a
      BY <1>5, <1>6
    <3>3. PICK x : x = r.bytes
      OBVIOUS
    <3>4. SafeDelta(saved, cur, rc, addr, b, a, x)
      BY <1>8, <3>1, <2>2, <3>2, <3>3 DEF SafeDelta, ReadAs
    <3>6. DeltaDecode(x, BytesAt(saved, addr, b)) = Comp(b)
      BY <1>9, <3>4, SafeDeltaDecodes, SMTT(60)
    <3>7. QED
      BY <3>3, <3>6
  <2>6. QED
    BY <1>5, <1>7, <1>10, <2>4, <2>5
<1>11. CASE base = Junk /\ Exit
  <2>1. c \in doubtful[cl]
    BY <1>10, <1>11, BytesFacts
  <2>2. QED
    BY <1>11, <2>1, ExitRight
<1>12. CASE /\ KeepCache(cl, r.cache)
            /\ PushRaw(cl, WithBase(reader[cl].raw, "COMP_BASE", base))
            /\ ReaderOnly
  <2>1. PICK raw : raw = WithBase(reader[cl].raw, "COMP_BASE", base)
    OBVIOUS
  <2>2. /\ raw \in RawChunk /\ raw.stat = "CACHE_DELTA" /\ raw.input = reader[cl].raw.input
        /\ raw.base_type = "COMP_BASE" /\ raw.base = base
    <3>1. /\ reader[cl].raw \in RawChunk /\ reader[cl].delta \in Stored
          /\ "COMP_BASE" \in Type
      BY <1>2, ReaderTypes DEF Type
    <3>2. base \in Stored
      BY <1>7, <3>1, DecodeTyped
    <3>3. QED
      BY <1>5, <2>1, <3>1, <3>2, WithBaseFacts
  <2>3. c \in doubtful[cl] \/ RawRight(raw, c)
    BY <1>10, <2>2 DEF RawRight, RestoreBytes
  <2>4. PushRaw(cl, raw) /\ container_cache' = [container_cache EXCEPT ![cl] = r.cache]
    BY <1>12, <2>1 DEF KeepCache
  <2>5. Head(reader[cl].batch) \in doubtful[cl] \/ RawRight(raw, Head(reader[cl].batch))
    BY <1>3, <2>3
  <2>6. StillHeld(saved, container_cache[cl], saved, r.cache)
    BY <1>0, <1>8
  <2>7. QED
    BY <1>1, <1>8, <1>12, <2>2, <2>4, <2>5, <2>6, PushRight
<1>13. QED
  BY <1>7, <1>11, <1>12

(* The base of a delta of a cached chunk: cached, or stored as such, or a  *)
(* delta.                                                                  *)
LEMMA ProcCacheDeltaRight ==
  ASSUME RestoreInv, NEW cl \in Client, ProcCacheDelta(cl)
  PROVE  RestoreInv'
<1>1. reader[cl].at = "base" /\ reader[cl].raw.stat = "CACHE_DELTA"
  BY DEF ProcCacheDelta
<1>2. /\ TypeInv /\ reader[cl] \in Reader
      /\ \A d \in Chunk : AddressRight(saved, cur, addr, Reads, d)
      /\ HandRight(saved, addr, cached[cl], doubtful[cl], reader[cl])
      /\ Head(reader[cl].batch) \in Chunk
      /\ \/ Head(reader[cl].batch) \in doubtful[cl]
         \/ StaysSafe(saved, container_cache[cl], addr, cached[cl], Head(reader[cl].batch))
  BY <1>1, InHand
<1>3. PICK rc : rc = container_cache[cl]
  OBVIOUS
<1>4. PICK c \in Chunk : c = Head(reader[cl].batch)
  BY <1>2
<1>5. PICK b \in Chunk : b = reader[cl].want /\ b = addr[c].base_fp
  BY <1>1, <1>2, <1>4, AddressKinds DEF HandRight
<1>6. /\ addr[c].stat = "CACHE_DELTA" /\ reader[cl].raw \in RawChunk
      /\ c \notin doubtful[cl] => reader[cl].raw.input = BytesAt(saved, addr, c)
  BY <1>1, <1>2, <1>4, ReaderTypes DEF HandRight
<1>7. saved \in [Client -> Seq(Seq(Bytes))]
  BY <1>2, StoreTypes
<1>8. ASSUME c \notin doubtful[cl]
      PROVE  /\ HeldAt(saved, rc, addr, c) /\ KeyOf[b] = KeyOf[c]
             /\ b \in cached[cl] \/ HeldComp(saved, rc, addr, b)
             /\ reader[cl].raw.input = Delta(Uncomp(c), Uncomp(b), "whole")
  <2>1. StaysSafe(saved, rc, addr, cached[cl], c)
    BY <1>2, <1>3, <1>4, <1>8
  <2>2. /\ HeldAt(saved, rc, addr, c)
        /\ b \in cached[cl] \/ HeldComp(saved, rc, addr, b)
    BY <1>5, <1>6, <2>1 DEF StaysSafe, HeldComp, HeldBase
  <2>3. AddressRight(saved, cur, addr, Reads, c)
    BY <1>2
  <2>4. PICK d \in Chunk : /\ addr[c].base_fp = d /\ KeyOf[d] = KeyOf[c]
                           /\ BytesAt(saved, addr, c) = Delta(Uncomp(c), Uncomp(d), "whole")
    <3>1. addr[c].stat = "CACHE_DELTA" /\ HeldAt(saved, rc, addr, c)
      BY <1>6, <2>2
    <3>2. QED
      BY <1>7, <2>3, <3>1, HeldCacheDeltaBytes
  <2>5. QED
    BY <1>5, <1>6, <1>8, <2>2, <2>4
<1>9. /\ "UNCOMP_BASE" \in Type /\ "COMP_BASE" \in Type /\ "MULTI_LEVEL" \in Type
      /\ Uncomp(b) \in Stored /\ Junk \in Stored
  BY BytesFacts DEF Type
<1>10. ASSUME b \in cached[cl], UNCHANGED container_cache, ReaderOnly,
              PushRaw(cl, WithBase(reader[cl].raw, "UNCOMP_BASE", Uncomp(b)))
       PROVE  RestoreInv'
  <2>1. PICK raw : raw = WithBase(reader[cl].raw, "UNCOMP_BASE", Uncomp(b))
    OBVIOUS
  <2>2. /\ raw \in RawChunk /\ raw.stat = "CACHE_DELTA" /\ raw.input = reader[cl].raw.input
        /\ raw.base_type = "UNCOMP_BASE" /\ raw.base = Uncomp(b)
    BY <1>1, <1>6, <1>9, <2>1 DEF WithBase, RawChunk
  <2>3. c \in doubtful[cl] \/ RawRight(raw, c)
    <3>1. DeltaDecode(Uncomp(b), Delta(Uncomp(c), Uncomp(b), "whole")) = Uncomp(c)
      BY DecodeFacts DEF Reads
    <3>2. QED
      BY <1>8, <2>2, <3>1 DEF RawRight
  <2>4. PushRaw(cl, raw)
    BY <1>10, <2>1
  <2>5. Head(reader[cl].batch) \in doubtful[cl] \/ RawRight(raw, Head(reader[cl].batch))
    BY <1>4, <2>3
  <2>6. container_cache' = [container_cache EXCEPT ![cl] = container_cache[cl]]
    BY <1>10, CacheFacts
  <2>7. QED
    BY <1>1, <1>10, <2>2, <2>4, <2>5, <2>6, CacheFacts, PushRight
<1>11. ASSUME b \notin cached[cl], addr[b].stat = "COMP_BASE", ReaderOnly,
              NEW r \in ReadChunk(cl, addr[b]), KeepCache(cl, r.cache),
              PushRaw(cl, WithBase(reader[cl].raw, "COMP_BASE", r.bytes))
       PROVE  RestoreInv'
  <2>1. /\ GoodCache(saved, cur, opened, r.cache) /\ r.bytes \in Stored
        /\ StillHeld(saved, rc, saved, r.cache)
        /\ HeldAt(saved, rc, addr, b) => r.bytes = BytesAt(saved, addr, b)
    BY <1>3, ReadFacts
  <2>2. PICK raw : raw = WithBase(reader[cl].raw, "COMP_BASE", r.bytes)
    OBVIOUS
  <2>3. /\ raw \in RawChunk /\ raw.stat = "CACHE_DELTA" /\ raw.input = reader[cl].raw.input
        /\ raw.base_type = "COMP_BASE" /\ raw.base = r.bytes
    BY <1>1, <1>6, <1>9, <2>1, <2>2 DEF WithBase, RawChunk
  <2>4. ASSUME c \notin doubtful[cl]
        PROVE  r.bytes = Comp(b)
    <3>1. HeldBase(saved, rc, addr, b)
      BY <1>8, <1>11, <2>4 DEF HeldComp, HeldBase
    <3>2. AddressRight(saved, cur, addr, Reads, b)
      BY <1>2
    <3>3. BytesAt(saved, addr, b) = Comp(b)
      BY <1>7, <3>1, <3>2, HeldBaseBytes
    <3>4. QED
      BY <2>1, <3>1, <3>3 DEF HeldBase
  <2>5. c \in doubtful[cl] \/ RawRight(raw, c)
    BY <1>8, <2>3, <2>4 DEF RawRight, RestoreBytes
  <2>6. PushRaw(cl, raw) /\ container_cache' = [container_cache EXCEPT ![cl] = r.cache]
    BY <1>11, <2>2 DEF KeepCache
  <2>7. Head(reader[cl].batch) \in doubtful[cl] \/ RawRight(raw, Head(reader[cl].batch))
    BY <1>4, <2>5
  <2>8. StillHeld(saved, container_cache[cl], saved, r.cache)
    BY <1>3, <2>1
  <2>9. QED
    BY <1>1, <1>11, <2>1, <2>3, <2>6, <2>7, <2>8, PushRight
<1>12. ASSUME b \notin cached[cl], addr[b].stat = "COMP_DELTA", ReaderOnly,
              NEW r \in ReadChunk(cl, addr[b]), KeepCache(cl, r.cache), UNCHANGED mq,
              reader' = [reader EXCEPT ![cl] =
                [@ EXCEPT !.at = "base_base", !.delta = r.bytes, !.want = addr[b].base_fp]]
       PROVE  RestoreInv'
  <2>1. /\ GoodCache(saved, cur, opened, r.cache) /\ r.bytes \in Stored
        /\ StillHeld(saved, rc, saved, r.cache)
        /\ HeldAt(saved, rc, addr, b) => r.bytes = BytesAt(saved, addr, b)
    BY <1>3, ReadFacts
  <2>2. PICK r2 : r2 = [reader[cl] EXCEPT !.at = "base_base", !.delta = r.bytes,
                                          !.want = addr[b].base_fp]
    OBVIOUS
  <2>3. addr[b].base_fp \in Chunk
    BY <1>2, <1>12, AddressKinds
  <2>4. /\ r2 \in Reader /\ r2.at = "base_base" /\ r2.want = addr[b].base_fp
        /\ r2.delta = r.bytes /\ r2.raw = reader[cl].raw
        /\ r2.next = reader[cl].next /\ r2.batch = reader[cl].batch
        /\ r2.is_end = reader[cl].is_end
    BY <1>2, <2>1, <2>2, <2>3 DEF Reader, Busy
  <2>5. c \notin doubtful[cl] => r.bytes = BytesAt(saved, addr, b)
    BY <1>8, <1>12, <2>1 DEF HeldComp, HeldBase
  <2>6. HandRight(saved, addr, cached[cl], doubtful[cl], r2)
    BY <1>1, <1>4, <1>5, <1>6, <1>12, <2>4, <2>5 DEF HandRight
  <2>7. /\ reader' = [reader EXCEPT ![cl] = r2]
        /\ container_cache' = [container_cache EXCEPT ![cl] = r.cache]
    BY <1>12, <2>2 DEF KeepCache
  <2>8. StillHeld(saved, container_cache[cl], saved, r.cache)
    BY <1>3, <2>1
  <2>9. QED
    BY <1>1, <1>12, <2>1, <2>3, <2>4, <2>6, <2>7, <2>8, TakeRight
<1>13. ASSUME b \notin cached[cl], addr[b].stat \notin {"COMP_BASE", "COMP_DELTA"}
       PROVE  c \in doubtful[cl]
  BY <1>8, <1>13 DEF HeldComp, HeldBase
<1>14. ASSUME b \notin cached[cl], addr[b].stat \in {"CACHE_DELTA", "virtual"},
              UNCHANGED container_cache, ReaderOnly, NEW type \in {"MULTI_LEVEL", "COMP_BASE"},
              PushRaw(cl, WithBase(reader[cl].raw, type, Junk))
       PROVE  RestoreInv'
  <2>1. c \in doubtful[cl]
    BY <1>13, <1>14
  <2>2. PICK raw : raw = WithBase(reader[cl].raw, type, Junk)
    OBVIOUS
  <2>3. raw \in RawChunk
    BY <1>6, <1>9, <2>2, WithBaseFacts
  <2>4. PushRaw(cl, raw) /\ Head(reader[cl].batch) \in doubtful[cl]
    BY <1>4, <1>14, <2>1, <2>2
  <2>5. container_cache' = [container_cache EXCEPT ![cl] = container_cache[cl]]
    BY <1>14, CacheFacts
  <2>6. QED
    BY <1>1, <1>14, <2>3, <2>4, <2>5, CacheFacts, PushRight
<1>15. ASSUME b \notin cached[cl], ~IsReal(addr[b]), Exit
       PROVE  RestoreInv'
  BY <1>13, <1>15, ExitRight DEF IsReal
<1>16. QED
  BY <1>5, <1>10, <1>11, <1>12, <1>14, <1>15 DEF ProcCacheDelta

(* DataDecoderThd                                                          *)

(* A step of the decoder.                                                  *)
LEMMA DecoderStepRight ==
  ASSUME RestoreInv, NEW cl \in Client, session[cl] = "download", DecoderOnly,
         NEW q2 \in Seq(RawChunk), mq' = [mq EXCEPT ![cl] = q2],
         NEW d2 \in Decoder, decoder' = [decoder EXCEPT ![cl] = d2],
         NEW w2 \in Seq(Seq(Message)), wire' = [wire EXCEPT ![cl] = w2],
         DecoderRight(reader[cl], q2, d2, recipe[cl], doubtful[cl]),
         ClientRight("download", recipe[cl], key_recipe[cl], doubtful[cl], w2,
                     Sent(reader[cl], q2, d2), d2.at, retriever[cl], writer[cl])
  PROVE  RestoreInv'
<1>1. TypeInv /\ AtServer(cl) /\ reader[cl] \in Reader
  BY TypesOf DEF RestoreInv, DownloadInv
<1>2. ServerRight(saved, addr, container_cache[cl], cached[cl], recipe[cl], doubtful[cl],
                  reader[cl], q2, d2)
  BY <1>1 DEF AtServer, ServerRight
<1>3. /\ reader' = [reader EXCEPT ![cl] = reader[cl]]
      /\ container_cache' = [container_cache EXCEPT ![cl] = container_cache[cl]]
      /\ GoodCache(saved, cur, opened, container_cache[cl])
  BY <1>1, NoUpdate, CacheFacts DEF DecoderOnly
<1>4. UNCHANGED <<containerVars, indexVars, fileVars, session, uploadVars,
                  clientDownVars, server, countVars, historyVars>>
  BY DEF DecoderOnly
<1>5. QED
  BY <1>1, <1>2, <1>3, <1>4, ServerStepRight

(* A client does not notice what its decoder does before the end is sent.  *)
LEMMA ClientWaits ==
  ASSUME NEW ses, NEW f, NEW kr, NEW db, NEW w, NEW sent, NEW at, NEW t, NEW wr,
         ClientRight(ses, f, kr, db, w, sent, at, t, wr), at \notin {"wait", "end"},
         NEW at2, at2 \notin {"wait", "end"}
  PROVE  ClientRight(ses, f, kr, db, w, sent, at2, t, wr)
<1>1. WireOK(w, at, Len(t.out), sent, f, db) => WireOK(w, at2, Len(t.out), sent, f, db)
  BY WireWaits
<1>2. QED
  BY <1>1 DEF ClientRight

(* Of a client that does not receive nothing has to be shown.              *)
LEMMA NoClient ==
  ASSUME NEW ses, NEW f, NEW kr, NEW db, NEW w, NEW sent, NEW at, NEW t, NEW wr,
         ClientRight(ses, f, kr, db, w, sent, at, t, wr), t.at \notin Reading,
         NEW w2, NEW sent2, NEW at2
  PROVE  ClientRight(ses, f, kr, db, w2, sent2, at2, t, wr)
BY DEF ClientRight, Reading

(* What a decoder that is at work has sent, and what it has to send.       *)
LEMMA AtDecoder ==
  ASSUME RestoreInv, NEW cl \in Client, decoder[cl].at \notin {"off", "end"}
  PROVE  /\ session[cl] = "download" /\ TypeInv
         /\ DecoderRight(reader[cl], mq[cl], decoder[cl], recipe[cl], doubtful[cl])
         /\ ClientRight("download", recipe[cl], key_recipe[cl], doubtful[cl], wire[cl],
                        Sent(reader[cl], mq[cl], decoder[cl]), decoder[cl].at,
                        retriever[cl], writer[cl])
         /\ reader[cl] \in Reader /\ mq[cl] \in Seq(RawChunk) /\ decoder[cl] \in Decoder
         /\ recipe[cl] \in Seq(Chunk) /\ wire[cl] \in Seq(Seq(Message))
         /\ Pushed(reader[cl]) \in Nat /\ Pushed(reader[cl]) <= Len(recipe[cl])
<1>1. /\ session[cl] = "download" /\ TypeInv
      /\ ReaderRight(reader[cl], recipe[cl])
      /\ DecoderRight(reader[cl], mq[cl], decoder[cl], recipe[cl], doubtful[cl])
      /\ ClientRight("download", recipe[cl], key_recipe[cl], doubtful[cl], wire[cl],
                     Sent(reader[cl], mq[cl], decoder[cl]), decoder[cl].at,
                     retriever[cl], writer[cl])
  BY InDownloadFacts DEF RestoreInv, ServerRight
<1>2. /\ reader[cl] \in Reader /\ mq[cl] \in Seq(RawChunk) /\ decoder[cl] \in Decoder
      /\ recipe[cl] \in Seq(Chunk) /\ wire[cl] \in Seq(Seq(Message))
  BY <1>1, TypesOf
<1>3. PICK m \in Nat, n \in Nat : m = reader[cl].next /\ n = Len(reader[cl].batch)
  BY <1>2, ReaderTypes
<1>4. m <= Len(recipe[cl]) /\ n <= m /\ Pushed(reader[cl]) = m - n /\ Len(recipe[cl]) \in Nat
  BY <1>1, <1>2, <1>3 DEF ReaderRight, Pushed
<1>5. QED
  BY <1>1, <1>2, <1>4

(* Each action of DataDecoderThd keeps the invariant.                      *)
LEMMA DecodeChunkRight ==
  ASSUME RestoreInv, NEW cl \in Client, DecodeChunk(cl)
  PROVE  RestoreInv'
<1>1. decoder[cl].at = "pop" /\ mq[cl] # <<>>
  BY DEF DecodeChunk
<1>2. PICK f \in Seq(Chunk), r \in Reader, q \in Seq(RawChunk), d \in Decoder :
        f = recipe[cl] /\ r = reader[cl] /\ q = mq[cl] /\ d = decoder[cl]
  BY <1>1, AtDecoder
<1>3. PICK db : db = doubtful[cl]
  OBVIOUS
<1>4. /\ session[cl] = "download" /\ TypeInv
      /\ DecoderRight(r, q, d, f, db)
      /\ ClientRight("download", recipe[cl], key_recipe[cl], doubtful[cl], wire[cl],
                     Sent(r, q, d), decoder[cl].at, retriever[cl], writer[cl])
      /\ wire[cl] \in Seq(Seq(Message))
      /\ Pushed(r) \in Nat /\ Pushed(r) <= Len(f)
  BY <1>1, <1>2, <1>3, AtDecoder
<1>5. CASE MayExit(Head(mq[cl])) /\ Exit
  <2>1. 1 \in 1 .. Len(q) /\ Head(q) = q[1]
    BY <1>1, <1>2
  <2>2. PICK c, raw : c = f[Popped(r, q) + 1] /\ raw = q[1]
    OBVIOUS
  <2>3. c \in db \/ RawRight(raw, c)
    BY <1>4, <2>1, <2>2 DEF DecoderRight
  <2>4. c \in db
    BY <1>2, <1>5, <2>1, <2>2, <2>3, DecodedRight
  <2>5. QED
    BY <1>3, <1>5, <2>4, ExitRight
<1>6. ASSUME NEW at \in {"pop", "send"}, NEW buf, DecoderOnly, UNCHANGED wire,
             buf = Append(d.send_buf, Decoded(Head(q))),
             mq' = [mq EXCEPT ![cl] = Tail(@)],
             decoder' = [decoder EXCEPT ![cl] = [at |-> at, send_buf |-> buf]]
      PROVE  RestoreInv'
  <2>1. PICK d2 : d2 = [at |-> at, send_buf |-> buf]
    OBVIOUS
  <2>2. PICK q2 : q2 = Tail(q)
    OBVIOUS
  <2>3. Decodes(f, db, r, q, d, at, d2, q2)
    BY <1>1, <1>2, <1>4, <1>6, <2>1, <2>2 DEF Decodes
  <2>4. /\ d2 \in Decoder /\ q2 \in Seq(RawChunk)
        /\ DecoderRight(r, q2, d2, f, db) /\ Sent(r, q2, d2) = Sent(r, q, d)
    BY <2>3, DecodeStep
  <2>5. ClientRight("download", recipe[cl], key_recipe[cl], doubtful[cl], wire[cl],
                    Sent(r, q2, d2), at, retriever[cl], writer[cl])
    BY <1>1, <1>4, <1>6, <2>4, ClientWaits
  <2>6. d2.at = at
    BY <2>1
  <2>7. /\ mq' = [mq EXCEPT ![cl] = q2] /\ decoder' = [decoder EXCEPT ![cl] = d2]
        /\ wire' = [wire EXCEPT ![cl] = wire[cl]]
    BY <1>2, <1>4, <1>6, <2>1, <2>2, NoUpdate
  <2>8. /\ DecoderRight(reader[cl], q2, d2, recipe[cl], doubtful[cl])
        /\ ClientRight("download", recipe[cl], key_recipe[cl], doubtful[cl], wire[cl],
                       Sent(reader[cl], q2, d2), d2.at, retriever[cl], writer[cl])
    BY <1>2, <1>3, <2>4, <2>5, <2>6
  <2>9. QED
    BY <1>4, <1>6, <2>4, <2>7, <2>8, DecoderStepRight
<1>7. QED
  <2>1. PICK buf : buf = Append(d.send_buf, Decoded(Head(q)))
    OBVIOUS
  <2>2. PICK at \in {"pop", "send"} : at = IF Len(buf) % ChunkBatch = 0 THEN "send" ELSE "pop"
    OBVIOUS
  <2>3. \/ /\ DecoderOnly /\ UNCHANGED wire /\ mq' = [mq EXCEPT ![cl] = Tail(@)]
           /\ decoder' = [decoder EXCEPT ![cl] = [at |-> at, send_buf |-> buf]]
        \/ MayExit(Head(mq[cl])) /\ Exit
    BY <1>2, <2>1, <2>2 DEF DecodeChunk
  <2>4. QED
    BY <1>5, <1>6, <2>1, <2>3

(* _done, and nothing in the queue.                                        *)
LEMMA AllDecodedRight ==
  ASSUME RestoreInv, NEW cl \in Client, AllDecoded(cl)
  PROVE  RestoreInv'
<1>1. /\ decoder[cl].at = "pop" /\ reader[cl].at = "end" /\ mq[cl] = <<>>
      /\ UNCHANGED <<mq, wire>> /\ DecoderOnly
  BY DEF AllDecoded
<1>2. PICK r, q, db : r = reader[cl] /\ q = mq[cl] /\ db = doubtful[cl]
  OBVIOUS
<1>3. /\ session[cl] = "download" /\ TypeInv /\ decoder[cl] \in Decoder
      /\ DecoderRight(r, q, decoder[cl], recipe[cl], db)
      /\ ClientRight("download", recipe[cl], key_recipe[cl], db, wire[cl],
                     Sent(r, q, decoder[cl]), decoder[cl].at, retriever[cl], writer[cl])
      /\ mq[cl] \in Seq(RawChunk) /\ wire[cl] \in Seq(Seq(Message))
  BY <1>1, <1>2, AtDecoder
<1>4. PICK d \in Decoder : d = decoder[cl]
  BY <1>3
<1>5. PICK d2 : d2 = [d EXCEPT !.at = IF d.send_buf = <<>> THEN "final" ELSE "tail"]
  OBVIOUS
<1>6. /\ d2 \in Decoder /\ DecoderRight(r, q, d2, recipe[cl], db)
      /\ Sent(r, q, d2) = Sent(r, q, d) /\ d2.at \in {"tail", "final"}
  BY <1>1, <1>2, <1>3, <1>4, <1>5, AllDecodedStep
<1>7. ClientRight("download", recipe[cl], key_recipe[cl], db, wire[cl],
                  Sent(r, q, d2), d2.at, retriever[cl], writer[cl])
  BY <1>1, <1>3, <1>4, <1>6, ClientWaits
<1>8. /\ decoder' = [decoder EXCEPT ![cl] = d2] /\ mq' = [mq EXCEPT ![cl] = mq[cl]]
      /\ wire' = [wire EXCEPT ![cl] = wire[cl]]
  BY <1>1, <1>3, <1>4, <1>5, NoUpdate DEF AllDecoded, TypeInv
<1>9. /\ DecoderRight(reader[cl], mq[cl], d2, recipe[cl], doubtful[cl])
      /\ ClientRight("download", recipe[cl], key_recipe[cl], doubtful[cl], wire[cl],
                     Sent(reader[cl], mq[cl], d2), d2.at, retriever[cl], writer[cl])
  BY <1>2, <1>6, <1>7
<1>10. QED
  BY <1>1, <1>3, <1>6, <1>8, <1>9, DecoderStepRight

(* What was sent is not more than the file has, and is right.              *)
LEMMA BufferIsRight ==
  ASSUME NEW f \in Seq(Chunk), NEW db, NEW r, NEW q \in Seq(RawChunk), NEW d \in Decoder,
         DecoderRight(r, q, d, f, db), Pushed(r) \in Nat, Pushed(r) <= Len(f)
  PROVE  /\ Sent(r, q, d) + Len(d.send_buf) <= Len(f)
         /\ \A j \in 1 .. Len(d.send_buf) :
              f[Sent(r, q, d) + j] \in db \/ MsgRight(d.send_buf[j], f[Sent(r, q, d) + j])
<1>1. PICK p \in Nat, k \in Nat, m \in Nat :
        p = Pushed(r) /\ k = Len(q) /\ m = Len(d.send_buf)
  BY DEF Decoder
<1>2. Sent(r, q, d) = p - k - m
  BY <1>1 DEF Sent, Popped
<1>3. p <= Len(f) /\ Len(f) \in Nat
  BY <1>1
<1>4. Sent(r, q, d) + Len(d.send_buf) <= Len(f)
  BY <1>1, <1>2, <1>3
<1>5. QED
  BY <1>4 DEF DecoderRight

(* The client gets a batch, which is the final one iff the decoder waits.  *)
Delivers(f, kr, db, w, sent, at, t, wr, b, at2, w2, sent2) ==
  /\ ClientRight("download", f, kr, db, w, sent, at, t, wr) /\ at \notin {"wait", "end"}
  /\ sent + Len(b) <= Len(f) /\ sent2 = sent + Len(b)
  /\ \A j \in 1 .. Len(b) : f[sent + j] \in db \/ MsgRight(b[j], f[sent + j])
  /\ at2 # "end" /\ (b = FinalMsg <=> at2 = "wait")
  /\ w2 = IF t.at = "dead" THEN w ELSE Append(w, b)

(* What the client is sent goes to the end of the wire.                    *)
LEMMA DeliverRight ==
  ASSUME NEW f \in Seq(Chunk), NEW kr, NEW db, NEW w \in Seq(Seq(Message)), NEW sent, NEW at,
         NEW t, NEW wr, NEW b \in Seq(Message), NEW at2, NEW w2, NEW sent2,
         Delivers(f, kr, db, w, sent, at, t, wr, b, at2, w2, sent2)
  PROVE  /\ w2 \in Seq(Seq(Message))
         /\ ClientRight("download", f, kr, db, w2, sent2, at2, t, wr)
<1>0. /\ ClientRight("download", f, kr, db, w, sent, at, t, wr) /\ at \notin {"wait", "end"}
      /\ sent + Len(b) <= Len(f) /\ sent2 = sent + Len(b)
      /\ \A j \in 1 .. Len(b) : f[sent + j] \in db \/ MsgRight(b[j], f[sent + j])
      /\ at2 # "end" /\ (b = FinalMsg <=> at2 = "wait")
      /\ w2 = IF t.at = "dead" THEN w ELSE Append(w, b)
  BY DEF Delivers
<1>1. w2 \in Seq(Seq(Message))
  BY <1>0, AppendFacts
<1>2. CASE t.at \notin Reading
  BY <1>0, <1>1, <1>2, NoClient
<1>3. CASE t.at \in Reading
  <2>1. t.at = "recv"
    BY <1>0, <1>3 DEF ClientRight, Reading
  <2>2. w2 = Append(w, b)
    BY <1>0, <2>1
  <2>3. WireOK(w, at, Len(t.out), sent, f, db)
    BY <1>0, <2>1 DEF ClientRight
  <2>4. WireOK(w2, at2, Len(t.out), sent2, f, db)
    BY <1>0, <2>2, <2>3, WireAppend
  <2>5. QED
    BY <1>0, <1>1, <2>1, <2>4 DEF ClientRight, Reading
<1>4. QED
  BY <1>2, <1>3

(* A batch is sent, or the server exits for want of the client.            *)
LEMMA SendChunksRight ==
  ASSUME RestoreInv, NEW cl \in Client, SendChunks(cl)
  PROVE  RestoreInv'
<1>1. decoder[cl].at \in {"send", "tail"}
  BY DEF SendChunks
<1>2. CASE retriever[cl].at = "dead" /\ Exit
  BY <1>2, ExitRight
<1>3. ASSUME Deliver(cl, decoder[cl].send_buf), UNCHANGED mq, DecoderOnly,
             decoder' = [decoder EXCEPT ![cl] =
               [at |-> IF decoder[cl].at = "send" THEN "pop" ELSE "final", send_buf |-> <<>>]]
      PROVE  RestoreInv'
  <2>1. PICK f \in Seq(Chunk), r \in Reader, q \in Seq(RawChunk), d \in Decoder,
             w \in Seq(Seq(Message)) :
          /\ f = recipe[cl] /\ r = reader[cl] /\ q = mq[cl] /\ d = decoder[cl] /\ w = wire[cl]
    BY <1>1, AtDecoder
  <2>2. PICK db, kr, t, wr :
          /\ db = doubtful[cl] /\ kr = key_recipe[cl] /\ t = retriever[cl] /\ wr = writer[cl]
    OBVIOUS
  <2>3. /\ session[cl] = "download" /\ TypeInv /\ DecoderRight(r, q, d, f, db)
        /\ ClientRight("download", f, kr, db, w, Sent(r, q, d), d.at, t, wr)
        /\ Pushed(r) \in Nat /\ Pushed(r) <= Len(f)
    BY <1>1, <2>1, <2>2, AtDecoder
  <2>4. PICK d2 : d2 = [at |-> IF d.at = "send" THEN "pop" ELSE "final", send_buf |-> <<>>]
    OBVIOUS
  <2>5. Empties(f, db, r, q, d, d2)
    BY <1>1, <2>1, <2>3, <2>4 DEF Empties
  <2>6. /\ d2 \in Decoder /\ DecoderRight(r, q, d2, f, db)
        /\ Sent(r, q, d2) = Sent(r, q, d) + Len(d.send_buf)
        /\ d2.at \in {"pop", "final"}
    BY <2>5, SendStep
  <2>7. PICK b \in Seq(Message) : b = d.send_buf /\ b # FinalMsg
    BY <1>1, <2>1, <2>3 DEF Decoder, DecoderRight, FinalMsg
  <2>8. PICK w2 : w2 = IF t.at = "dead" THEN w ELSE Append(w, b)
    OBVIOUS
  <2>9. PICK sent, sent2 : sent = Sent(r, q, d) /\ sent2 = Sent(r, q, d2)
    OBVIOUS
  <2>10. /\ sent + Len(b) <= Len(f)
         /\ \A j \in 1 .. Len(b) : f[sent + j] \in db \/ MsgRight(b[j], f[sent + j])
    BY <2>3, <2>7, <2>9, BufferIsRight
  <2>11. Delivers(f, kr, db, w, sent, d.at, t, wr, b, d2.at, w2, sent2)
    BY <1>1, <2>1, <2>3, <2>6, <2>7, <2>8, <2>9, <2>10 DEF Delivers
  <2>12. /\ w2 \in Seq(Seq(Message))
         /\ ClientRight("download", f, kr, db, w2, sent2, d2.at, t, wr)
    BY <2>11, DeliverRight
  <2>13. /\ decoder' = [decoder EXCEPT ![cl] = d2] /\ mq' = [mq EXCEPT ![cl] = mq[cl]]
         /\ wire' = [wire EXCEPT ![cl] = w2]
    BY <1>3, <2>1, <2>2, <2>3, <2>4, <2>7, <2>8, NoUpdate DEF Deliver
  <2>14. /\ DecoderRight(reader[cl], mq[cl], d2, recipe[cl], doubtful[cl])
         /\ ClientRight("download", recipe[cl], key_recipe[cl], doubtful[cl], w2,
                        Sent(reader[cl], mq[cl], d2), d2.at, retriever[cl], writer[cl])
         /\ mq[cl] \in Seq(RawChunk)
    BY <2>1, <2>2, <2>6, <2>9, <2>12
  <2>15. QED
    BY <1>3, <2>3, <2>6, <2>12, <2>13, <2>14, DecoderStepRight
<1>4. QED
  BY <1>2, <1>3 DEF SendChunks

(* The end is sent.                                                        *)
LEMMA SendEndRight ==
  ASSUME RestoreInv, NEW cl \in Client, SendEnd(cl)
  PROVE  RestoreInv'
<1>1. decoder[cl].at = "final"
  BY DEF SendEnd
<1>2. CASE retriever[cl].at = "dead" /\ Exit
  BY <1>2, ExitRight
<1>3. ASSUME Deliver(cl, FinalMsg), UNCHANGED mq, DecoderOnly,
             decoder' = [decoder EXCEPT ![cl].at = "wait"]
      PROVE  RestoreInv'
  <2>1. PICK f \in Seq(Chunk), r \in Reader, q \in Seq(RawChunk), d \in Decoder,
             w \in Seq(Seq(Message)) :
          /\ f = recipe[cl] /\ r = reader[cl] /\ q = mq[cl] /\ d = decoder[cl] /\ w = wire[cl]
    BY <1>1, AtDecoder
  <2>2. PICK db, kr, t, wr :
          /\ db = doubtful[cl] /\ kr = key_recipe[cl] /\ t = retriever[cl] /\ wr = writer[cl]
    OBVIOUS
  <2>3. /\ session[cl] = "download" /\ TypeInv /\ DecoderRight(r, q, d, f, db)
        /\ ClientRight("download", f, kr, db, w, Sent(r, q, d), d.at, t, wr)
        /\ Pushed(r) \in Nat /\ Pushed(r) <= Len(f)
    BY <1>1, <2>1, <2>2, AtDecoder
  <2>4. PICK d2, at2 : d2 = [d EXCEPT !.at = at2] /\ at2 = "wait"
    OBVIOUS
  <2>6. /\ d2 \in Decoder /\ DecoderRight(r, q, d2, f, db)
        /\ Sent(r, q, d2) = Sent(r, q, d) /\ d2.at = "wait"
    BY <1>1, <2>1, <2>3, <2>4, EndStep
  <2>7. PICK b \in Seq(Message) : b = FinalMsg /\ Len(b) = 0
    <3>1. <<>> \in Seq(Message) /\ Len(<<>>) = 0
      OBVIOUS
    <3>2. QED
      BY <3>1 DEF FinalMsg
  <2>8. PICK w2 : w2 = IF t.at = "dead" THEN w ELSE Append(w, b)
    OBVIOUS
  <2>9. PICK sent, sent2 : sent = Sent(r, q, d) /\ sent2 = Sent(r, q, d2)
    OBVIOUS
  <2>10. /\ sent + Len(b) <= Len(f) /\ sent2 = sent + Len(b)
         /\ \A j \in 1 .. Len(b) : f[sent + j] \in db \/ MsgRight(b[j], f[sent + j])
    <3>1. PICK m \in Nat : m = Len(d.send_buf)
      BY DEF Decoder
    <3>2. sent + m <= Len(f) /\ sent \in Int /\ Len(f) \in Nat
      <4>1. Len(q) \in Nat
        OBVIOUS
      <4>2. sent \in Int
        BY <2>3, <2>9, <3>1, <4>1 DEF Sent, Popped
      <4>3. Sent(r, q, d) + Len(d.send_buf) <= Len(f)
        BY <2>3, BufferIsRight
      <4>4. QED
        BY <2>9, <3>1, <4>2, <4>3
    <3>3. sent <= Len(f) /\ sent + Len(b) = sent
      BY <2>7, <3>1, <3>2
    <3>4. QED
      BY <2>6, <2>7, <2>9, <3>3
  <2>11. Delivers(f, kr, db, w, sent, d.at, t, wr, b, d2.at, w2, sent2)
    BY <1>1, <2>1, <2>3, <2>6, <2>7, <2>8, <2>9, <2>10 DEF Delivers
  <2>12. /\ w2 \in Seq(Seq(Message))
         /\ ClientRight("download", f, kr, db, w2, sent2, d2.at, t, wr)
    BY <2>11, DeliverRight
  <2>13. /\ decoder' = [decoder EXCEPT ![cl] = d2] /\ mq' = [mq EXCEPT ![cl] = mq[cl]]
         /\ wire' = [wire EXCEPT ![cl] = w2]
    BY <1>3, <2>1, <2>2, <2>3, <2>4, <2>7, <2>8, NoUpdate DEF Deliver, TypeInv
  <2>14. /\ DecoderRight(reader[cl], mq[cl], d2, recipe[cl], doubtful[cl])
         /\ ClientRight("download", recipe[cl], key_recipe[cl], doubtful[cl], w2,
                        Sent(reader[cl], mq[cl], d2), d2.at, retriever[cl], writer[cl])
         /\ mq[cl] \in Seq(RawChunk)
    BY <2>1, <2>2, <2>6, <2>9, <2>12
  <2>15. QED
    BY <1>3, <2>3, <2>6, <2>12, <2>13, <2>14, DecoderStepRight
<1>4. QED
  BY <1>2, <1>3 DEF SendEnd

(* The client is gone.                                                     *)
LEMMA ClientClosedRight ==
  ASSUME RestoreInv, NEW cl \in Client, ClientClosed(cl)
  PROVE  RestoreInv'
<1>1. /\ decoder[cl].at = "wait" /\ retriever[cl].at \in {"closing", "dead"}
      /\ decoder' = [decoder EXCEPT ![cl].at = "end"]
      /\ UNCHANGED <<mq, wire>> /\ DecoderOnly
  BY DEF ClientClosed
<1>2. PICK r, q, db, t : r = reader[cl] /\ q = mq[cl] /\ db = doubtful[cl] /\ t = retriever[cl]
  OBVIOUS
<1>3. /\ session[cl] = "download" /\ TypeInv /\ decoder[cl] \in Decoder
      /\ DecoderRight(r, q, decoder[cl], recipe[cl], db)
      /\ ClientRight("download", recipe[cl], key_recipe[cl], db, wire[cl],
                     Sent(r, q, decoder[cl]), decoder[cl].at, t, writer[cl])
      /\ mq[cl] \in Seq(RawChunk) /\ wire[cl] \in Seq(Seq(Message))
  BY <1>1, <1>2, AtDecoder
<1>4. PICK d \in Decoder : d = decoder[cl]
  BY <1>3
<1>5. PICK d2, at2 : d2 = [d EXCEPT !.at = at2] /\ at2 = "end"
  OBVIOUS
<1>6. /\ d2 \in Decoder /\ DecoderRight(r, q, d2, recipe[cl], db)
      /\ Sent(r, q, d2) = Sent(r, q, d) /\ d2.at = "end"
  BY <1>1, <1>3, <1>4, <1>5, EndStep
<1>7. ClientRight("download", recipe[cl], key_recipe[cl], db, wire[cl],
                  Sent(r, q, d2), d2.at, t, writer[cl])
  BY <1>1, <1>2, <1>3, <1>6 DEF ClientRight
<1>8. /\ decoder' = [decoder EXCEPT ![cl] = d2] /\ mq' = [mq EXCEPT ![cl] = mq[cl]]
      /\ wire' = [wire EXCEPT ![cl] = wire[cl]]
  BY <1>1, <1>3, <1>4, <1>5, NoUpdate DEF TypeInv
<1>9. /\ DecoderRight(reader[cl], mq[cl], d2, recipe[cl], doubtful[cl])
      /\ ClientRight("download", recipe[cl], key_recipe[cl], doubtful[cl], wire[cl],
                     Sent(reader[cl], mq[cl], d2), d2.at, retriever[cl], writer[cl])
  BY <1>2, <1>6, <1>7
<1>10. QED
  BY <1>1, <1>3, <1>6, <1>8, <1>9, DecoderStepRight

(* The session is over.                                                    *)
LEMMA DownloadEndRight ==
  ASSUME RestoreInv, NEW cl \in Client, DownloadEnd(cl)
  PROVE  RestoreInv'
<1>1. /\ session[cl] = "download" /\ reader[cl].at = "end" /\ decoder[cl].at = "end"
      /\ session' = [session EXCEPT ![cl] = "off"]
      /\ UNCHANGED <<containerVars, indexVars, fileVars, uploadVars, container_cache,
                     serverDownVars, wire, clientDownVars, server, countVars, historyVars>>
  BY DEF DownloadEnd
<1>2. /\ TypeInv /\ StoredInv /\ PendingInv /\ CacheInv /\ FileRight(cl) /\ CauseInv
      /\ AtServer(cl) /\ AtClient(cl)
  BY DEF RestoreInv, FileInv, DownloadInv
<1>3. session'[cl] = "off"
  BY <1>1, <1>2 DEF TypeInv
<1>4. TypeInv'
  <2>1. session' \in [Client -> Doing]
    BY <1>1, <1>2 DEF TypeInv, Doing
  <2>2. ContainerTypeOK(Bytes)'
    BY <1>1, <1>2 DEF TypeInv, ContainerTypeOK, containerVars
  <2>3. QED
    BY <1>1, <1>2, <2>1, <2>2 DEF TypeInv, indexVars, fileVars, uploadVars, serverDownVars,
                                  clientDownVars, countVars, historyVars
<1>5. OthersSame(cl)
  BY <1>1, <1>2 DEF OthersSame, TypeInv, indexVars, fileVars, uploadVars, serverDownVars,
                    clientDownVars, historyVars
<1>6. StoredInv' /\ CauseInv'
  BY <1>1, <1>2 DEF StoredInv, CauseInv, containerVars, indexVars, clientDownVars,
                    countVars, historyVars
<1>7. PendingInv'
  BY <1>1, <1>2 DEF PendingInv, TypeInv, indexVars, uploadVars
<1>8. FileRight(cl)'
  BY <1>1, <1>2, <1>3 DEF FileRight, FileOf, indexVars, fileVars, uploadVars, clientDownVars
<1>9. AtServer(cl)'
  BY <1>1, <1>2, <1>3 DEF AtServer, ServerRight, DecoderRight, ServerIdle, serverDownVars
<1>10. AtClient(cl)'
  BY <1>1, <1>2, <1>3 DEF AtClient, ClientRight, Reading, fileVars, serverDownVars,
                          clientDownVars, historyVars
<1>11. GoodCache(saved', cur', opened', container_cache'[cl])
  BY <1>1, <1>2 DEF CacheInv, containerVars
<1>12. /\ StoreGrows(saved, cur, opened, saved', cur', opened')
       /\ AddressesStay(addr, addr')
  BY <1>1, StoreSame DEF indexVars
<1>13. QED
  BY <1>4, <1>5, <1>6, <1>7, <1>8, <1>9, <1>10, <1>11, <1>12, Composed

-----------------------------------------------------------------------------
(* The client                                                              *)

(* A step that changes nothing but the client's side of one download.      *)
LEMMA ClientStepRight ==
  ASSUME RestoreInv, NEW cl \in Client, ClientOnly,
         NEW t2 \in Retriever, retriever' = [retriever EXCEPT ![cl] = t2],
         NEW wr2 \in {"off", "run", "end"}, writer' = [writer EXCEPT ![cl] = wr2],
         NEW w2 \in Seq(Seq(Message)), wire' = [wire EXCEPT ![cl] = w2],
         n_death' \in 0 .. MaxDeath, n_death <= n_death',
         ClientRight(session[cl], recipe[cl], key_recipe[cl], doubtful[cl], w2,
                     Sent(reader[cl], mq[cl], decoder[cl]), decoder[cl].at, t2, wr2),
         t2.at \in Reading => retriever[cl].at \in Reading,
         t2.at = "dead" => n_death' > 0 \/ server = "exit" \/ doubtful[cl] # {}
  PROVE  RestoreInv'
<1>1. UNCHANGED <<containerVars, indexVars, fileVars, session, uploadVars, container_cache,
                  serverDownVars, server, n_download, historyVars>>
  BY DEF ClientOnly
<1>2. /\ TypeInv /\ StoredInv /\ PendingInv /\ CacheInv /\ FileRight(cl) /\ CauseInv
      /\ AtServer(cl)
  BY DEF RestoreInv, FileInv, DownloadInv
<1>3. /\ retriever'[cl] = t2 /\ writer'[cl] = wr2 /\ wire'[cl] = w2
      /\ \A d \in Client \ {cl} : /\ retriever'[d] = retriever[d]
                                  /\ writer'[d] = writer[d] /\ wire'[d] = wire[d]
  BY <1>2 DEF TypeInv
<1>4. TypeInv'
  <2>1. /\ retriever' \in [Client -> Retriever] /\ wire' \in [Client -> Seq(Seq(Message))]
        /\ writer' \in [Client -> {"off", "run", "end"}]
    BY <1>2 DEF TypeInv
  <2>2. ContainerTypeOK(Bytes)'
    BY <1>1, <1>2 DEF TypeInv, ContainerTypeOK, containerVars
  <2>3. QED
    BY <1>1, <1>2, <2>1, <2>2 DEF TypeInv, indexVars, fileVars, uploadVars, serverDownVars,
                                  historyVars
<1>5. OthersSame(cl)
  BY <1>1, <1>3 DEF OthersSame, indexVars, fileVars, uploadVars, serverDownVars, historyVars
<1>6. StoredInv' /\ PendingInv'
  BY <1>1, <1>2 DEF StoredInv, PendingInv, containerVars, indexVars, uploadVars
<1>7. CauseInv'
  <2>1. n_death \in Nat /\ n_death' \in Nat /\ (n_death > 0 => n_death' > 0)
    BY <1>2, RestoreAssumption DEF TypeInv
  <2>2. UNCHANGED <<server, doubtful>>
    BY <1>1 DEF historyVars
  <2>3. server' = "exit" => n_death' > 0 \/ \E d \in Client : doubtful'[d] # {}
    BY <1>2, <2>1, <2>2 DEF CauseInv
  <2>4. ASSUME NEW d \in Client, retriever'[d].at = "dead"
        PROVE  n_death' > 0 \/ server' = "exit" \/ doubtful'[d] # {}
    BY <1>2, <1>3, <2>1, <2>2, <2>4 DEF CauseInv
  <2>5. QED
    BY <2>3, <2>4 DEF CauseInv
<1>8. FileRight(cl)'
  BY <1>1, <1>2, <1>3 DEF FileRight, FileOf, indexVars, fileVars, uploadVars
<1>9. AtServer(cl)'
  BY <1>1, <1>2 DEF AtServer, containerVars, indexVars, fileVars, serverDownVars, historyVars
<1>10. AtClient(cl)'
  BY <1>1, <1>3 DEF AtClient, fileVars, serverDownVars, historyVars
<1>11. GoodCache(saved', cur', opened', container_cache'[cl])
  BY <1>1, <1>2 DEF CacheInv, containerVars
<1>12. /\ StoreGrows(saved, cur, opened, saved', cur', opened')
       /\ AddressesStay(addr, addr')
  BY <1>1, StoreSame DEF indexVars
<1>13. QED
  BY <1>4, <1>5, <1>6, <1>7, <1>8, <1>9, <1>10, <1>11, <1>12, Composed

(* What a client knows of its download.                                    *)
LEMMA AtClientFacts ==
  ASSUME RestoreInv, NEW cl \in Client
  PROVE  /\ TypeInv /\ n_death \in 0 .. MaxDeath /\ n_death <= n_death
         /\ retriever[cl] \in Retriever /\ wire[cl] \in Seq(Seq(Message))
         /\ writer[cl] \in {"off", "run", "end"}
         /\ recipe[cl] \in Seq(Chunk) /\ key_recipe[cl] \in Seq(Key)
         /\ KeysOf(recipe[cl], key_recipe[cl])
         /\ ClientRight(session[cl], recipe[cl], key_recipe[cl], doubtful[cl], wire[cl],
                        Sent(reader[cl], mq[cl], decoder[cl]), decoder[cl].at,
                        retriever[cl], writer[cl])
<1>1. TypeInv /\ FileRight(cl) /\ AtClient(cl)
  BY DEF RestoreInv, FileInv, DownloadInv
<1>2. n_death \in 0 .. MaxDeath /\ n_death <= n_death
  BY <1>1, RestoreAssumption DEF TypeInv
<1>3. QED
  BY <1>1, <1>2, TypesOf DEF FileRight, AtClient

(* A client that dies leaves nothing to be shown of it.                    *)
LEMMA DiesRight ==
  ASSUME RestoreInv, NEW cl \in Client, ClientOnly, Dies(cl),
         n_death' \in 0 .. MaxDeath, n_death <= n_death',
         n_death' > 0 \/ server = "exit" \/ doubtful[cl] # {}
  PROVE  RestoreInv'
<1>1. PICK t \in Retriever : t = retriever[cl]
  BY AtClientFacts
<1>2. PICK at \in {"dead"} : at = "dead"
  OBVIOUS
<1>3. PICK t2 : t2 = [t EXCEPT !.at = at]
  OBVIOUS
<1>4. t2 \in Retriever /\ t2.at = "dead"
  BY <1>2, <1>3 DEF Retriever
<1>5. ClientRight(session[cl], recipe[cl], key_recipe[cl], doubtful[cl], <<>>,
                  Sent(reader[cl], mq[cl], decoder[cl]), decoder[cl].at, t2, "off")
  BY <1>4 DEF ClientRight, Reading
<1>6. /\ retriever' = [retriever EXCEPT ![cl] = t2]
      /\ writer' = [writer EXCEPT ![cl] = "off"] /\ wire' = [wire EXCEPT ![cl] = <<>>]
  BY <1>1, <1>2, <1>3, AtClientFacts DEF Dies, TypeInv
<1>7. t2.at \notin Reading /\ <<>> \in Seq(Seq(Message))
  BY <1>4 DEF Reading
<1>8. QED
  BY <1>4, <1>5, <1>6, <1>7, ClientStepRight

(* Each action of the client keeps the invariant.                          *)
LEMMA ClientDiesRight ==
  ASSUME RestoreInv, NEW cl \in Client, ClientDies(cl)
  PROVE  RestoreInv'
<1>1. n_death \in 0 .. MaxDeath /\ n_death < MaxDeath /\ n_death' = n_death + 1
  BY AtClientFacts DEF ClientDies
<1>2. n_death' \in 0 .. MaxDeath /\ n_death <= n_death' /\ n_death' > 0
  BY <1>1, RestoreAssumption
<1>3. QED
  BY <1>2, DiesRight DEF ClientDies

(* The client loses its server.                                            *)
LEMMA ServerGoneRight ==
  ASSUME RestoreInv, NEW cl \in Client, ServerGone(cl)
  PROVE  RestoreInv'
<1>1. n_death' \in 0 .. MaxDeath /\ n_death <= n_death'
  BY AtClientFacts DEF ServerGone
<1>2. QED
  BY <1>1, DiesRight DEF ServerGone

(* The file is written.                                                    *)
LEMMA WriterEndRight ==
  ASSUME RestoreInv, NEW cl \in Client, WriterEnd(cl)
  PROVE  RestoreInv'
<1>1. /\ retriever[cl].at = "done" /\ writer' = [writer EXCEPT ![cl] = "end"]
      /\ UNCHANGED <<retriever, wire, n_death>> /\ ClientOnly
  BY DEF WriterEnd
<1>2. ClientRight(session[cl], recipe[cl], key_recipe[cl], doubtful[cl], wire[cl],
                  Sent(reader[cl], mq[cl], decoder[cl]), decoder[cl].at,
                  retriever[cl], "end")
  BY <1>1, AtClientFacts DEF ClientRight, Reading
<1>3. /\ retriever' = [retriever EXCEPT ![cl] = retriever[cl]]
      /\ wire' = [wire EXCEPT ![cl] = wire[cl]]
      /\ n_death' \in 0 .. MaxDeath /\ n_death <= n_death'
  BY <1>1, AtClientFacts, NoUpdate
<1>4. QED
  BY <1>1, <1>2, <1>3, AtClientFacts, ClientStepRight

(* The connection is closed.                                               *)
LEMMA FinishRight ==
  ASSUME RestoreInv, NEW cl \in Client, Finish(cl)
  PROVE  RestoreInv'
<1>1. /\ retriever[cl].at = "closing" /\ decoder[cl].at = "end"
      /\ retriever' = [retriever EXCEPT ![cl].at = "done"]
      /\ UNCHANGED <<writer, wire, n_death>> /\ ClientOnly
  BY DEF Finish
<1>2. PICK t \in Retriever : t = retriever[cl]
  BY AtClientFacts
<1>3. PICK t2 : t2 = [t EXCEPT !.at = "done"]
  OBVIOUS
<1>4. t2 \in Retriever /\ t2.at = "done" /\ t2.n_key = t.n_key /\ t2.keys = t.keys /\ t2.out = t.out
  BY <1>3 DEF Retriever
<1>5. ClientRight(session[cl], recipe[cl], key_recipe[cl], doubtful[cl], wire[cl],
                  Sent(reader[cl], mq[cl], decoder[cl]), decoder[cl].at, t, writer[cl])
  BY <1>2, AtClientFacts
<1>6. ClientRight(session[cl], recipe[cl], key_recipe[cl], doubtful[cl], wire[cl],
                  Sent(reader[cl], mq[cl], decoder[cl]), decoder[cl].at, t2, writer[cl])
  BY <1>1, <1>2, <1>4, <1>5 DEF ClientRight, Reading, KeysRight, OutRight
<1>7. /\ retriever' = [retriever EXCEPT ![cl] = t2]
      /\ writer' = [writer EXCEPT ![cl] = writer[cl]]
      /\ wire' = [wire EXCEPT ![cl] = wire[cl]]
      /\ n_death' \in 0 .. MaxDeath /\ n_death <= n_death'
  BY <1>1, <1>2, <1>3, AtClientFacts, NoUpdate DEF TypeInv
<1>8. t2.at # "dead" /\ retriever[cl].at \in Reading
  BY <1>1, <1>4 DEF Reading
<1>9. wire[cl] \in Seq(Seq(Message)) /\ writer[cl] \in {"off", "run", "end"}
  BY AtClientFacts
<1>10. QED
  BY <1>1, <1>4, <1>6, <1>7, <1>8, <1>9, ClientStepRight

(* The end was received: nothing is left on the way.                       *)
LEMMA RecvFinalRight ==
  ASSUME RestoreInv, NEW cl \in Client, RecvFinal(cl)
  PROVE  RestoreInv'
<1>1. /\ retriever[cl].at = "recv" /\ wire[cl] # <<>> /\ Head(wire[cl]) = FinalMsg
      /\ retriever' = [retriever EXCEPT ![cl].at = "closing"]
      /\ wire' = [wire EXCEPT ![cl] = Tail(@)]
      /\ UNCHANGED <<writer, n_death>> /\ ClientOnly
  BY DEF RecvFinal, Receiving
<1>2. PICK t \in Retriever, f \in Seq(Chunk), w \in Seq(Seq(Message)) :
        t = retriever[cl] /\ f = recipe[cl] /\ w = wire[cl]
  BY AtClientFacts
<1>3. PICK r, q, d, db : r = reader[cl] /\ q = mq[cl] /\ d = decoder[cl] /\ db = doubtful[cl]
  OBVIOUS
<1>4. /\ ClientRight(session[cl], f, key_recipe[cl], db, w, Sent(r, q, d), d.at, t, writer[cl])
      /\ wire[cl] \in Seq(Seq(Message)) /\ writer[cl] \in {"off", "run", "end"}
  BY <1>2, <1>3, AtClientFacts
<1>5. /\ session[cl] = "download" /\ WireOK(w, d.at, Len(t.out), Sent(r, q, d), f, db)
      /\ writer[cl] # "end"
  BY <1>1, <1>2, <1>4 DEF ClientRight
<1>6. d.at = "wait" /\ Tail(w) = <<>> /\ Len(t.out) = Sent(r, q, d)
  BY <1>1, <1>2, <1>5, WireFinal
<1>7. Sent(r, q, d) = Len(f)
  <2>1. ReaderRight(r, f) /\ DecoderRight(r, q, d, f, db)
    BY <1>2, <1>3, <1>5 DEF RestoreInv, DownloadInv, AtServer, ServerRight
  <2>2. r.at = "end" /\ q = <<>> /\ d.send_buf = <<>>
    BY <1>6, <2>1 DEF DecoderRight
  <2>3. r.next = Len(f) /\ r.batch = <<>>
    BY <2>1, <2>2 DEF ReaderRight
  <2>4. PICK n \in Nat : n = Len(f)
    BY <1>2
  <2>5. Len(<<>>) = 0
    OBVIOUS
  <2>6. QED
    BY <2>2, <2>3, <2>4, <2>5 DEF Sent, Popped, Pushed
<1>8. PICK t2 : t2 = [t EXCEPT !.at = "closing"]
  OBVIOUS
<1>9. /\ t2 \in Retriever /\ t2.at = "closing" /\ t2.n_key = t.n_key /\ t2.keys = t.keys
      /\ t2.out = t.out
  BY <1>8 DEF Retriever
<1>10. ClientRight(session[cl], f, key_recipe[cl], db, <<>>, Sent(r, q, d), d.at, t2, writer[cl])
  BY <1>1, <1>2, <1>4, <1>5, <1>6, <1>7, <1>9 DEF ClientRight, Reading, KeysRight, OutRight
<1>11. /\ retriever' = [retriever EXCEPT ![cl] = t2]
       /\ writer' = [writer EXCEPT ![cl] = writer[cl]]
       /\ wire' = [wire EXCEPT ![cl] = <<>>]
       /\ n_death' \in 0 .. MaxDeath /\ n_death <= n_death'
  BY <1>1, <1>2, <1>6, <1>8, AtClientFacts, NoUpdate DEF TypeInv
<1>12. t2.at # "dead" /\ retriever[cl].at \in Reading /\ <<>> \in Seq(Seq(Message))
  BY <1>1, <1>9 DEF Reading
<1>13. ClientRight(session[cl], recipe[cl], key_recipe[cl], doubtful[cl], <<>>,
                   Sent(reader[cl], mq[cl], decoder[cl]), decoder[cl].at, t2, writer[cl])
  BY <1>2, <1>3, <1>10
<1>14. QED
  BY <1>1, <1>4, <1>9, <1>11, <1>12, <1>13, ClientStepRight

(* A chunk was received.                                                   *)
LEMMA RecvChunkRight ==
  ASSUME RestoreInv, NEW cl \in Client, RecvChunk(cl)
  PROVE  RestoreInv'
<1>1. /\ retriever[cl].at = "recv" /\ wire[cl] # <<>> /\ Head(wire[cl]) # FinalMsg
      /\ UNCHANGED n_death /\ ClientOnly
  BY DEF RecvChunk, Receiving
<1>2. PICK t \in Retriever, f \in Seq(Chunk), w \in Seq(Seq(Message)), kr \in Seq(Key) :
        t = retriever[cl] /\ f = recipe[cl] /\ w = wire[cl] /\ kr = key_recipe[cl]
  BY AtClientFacts
<1>3. PICK sent, at, db : /\ sent = Sent(reader[cl], mq[cl], decoder[cl])
                          /\ at = decoder[cl].at /\ db = doubtful[cl]
  OBVIOUS
<1>4. /\ ClientRight(session[cl], f, kr, db, w, sent, at, t, writer[cl])
      /\ KeysOf(f, kr) /\ writer[cl] \in {"off", "run", "end"}
      /\ n_death \in 0 .. MaxDeath /\ n_death <= n_death
  BY <1>2, <1>3, AtClientFacts
<1>5. /\ session[cl] = "download" /\ at # "end" /\ WireOK(w, at, Len(t.out), sent, f, db)
      /\ KeysRight(kr, t) /\ OutRight(t, f, db) /\ writer[cl] # "end"
  BY <1>1, <1>2, <1>4 DEF ClientRight, Reading
<1>6. PICK n \in Nat : n = Len(t.out)
  BY DEF Retriever
<1>7. PICK b, w2 : b = Head(w) /\ w2 = IF Len(b) = 1 THEN Tail(w) ELSE <<Tail(b)>> \o Tail(w)
  OBVIOUS
<1>8. Takes(f, db, w, at, n, sent, b, w2)
  BY <1>1, <1>2, <1>5, <1>6, <1>7 DEF Takes
<1>9. /\ Head(b) \in Message /\ n + 1 <= Len(f)
      /\ f[n + 1] \in db \/ MsgRight(Head(b), f[n + 1])
      /\ w2 \in Seq(Seq(Message)) /\ WireOK(w2, at, n + 1, sent, f, db)
  BY <1>8, WireTake
<1>10. PICK msg \in Message : msg = Head(b)
  BY <1>9
<1>11. PICK ks, chunk : ks = KeyBatch(kr, t) /\ chunk = Restored(msg, Head(ks))
  OBVIOUS
<1>12. PICK t2 : t2 = [at |-> "recv", n_key |-> t.n_key + 1, keys |-> Tail(ks),
                       out |-> Append(t.out, chunk)]
  OBVIOUS
<1>13. Receives(f, kr, db, n, t, msg, ks, chunk, t2)
  BY <1>4, <1>5, <1>6, <1>9, <1>10, <1>11, <1>12 DEF Receives
<1>14. /\ t2 \in Retriever /\ KeysRight(kr, t2) /\ OutRight(t2, f, db)
       /\ Len(t2.out) = n + 1 /\ t2.at = "recv"
       /\ chunk = NoBase => f[n + 1] \in db
  BY <1>13, ReceiveStep
<1>15. Keys(cl) = ks
  BY <1>2, <1>11 DEF Keys, KeyBatch
<1>16. CASE /\ retriever' = [retriever EXCEPT ![cl] = t2]
            /\ wire' = [wire EXCEPT ![cl] = w2]
            /\ UNCHANGED writer
  <2>1. ClientRight(session[cl], f, kr, db, w2, sent, at, t2, writer[cl])
    BY <1>5, <1>9, <1>14 DEF ClientRight, Reading
  <2>2. ClientRight(session[cl], recipe[cl], key_recipe[cl], doubtful[cl], w2,
                    Sent(reader[cl], mq[cl], decoder[cl]), decoder[cl].at, t2, writer[cl])
    BY <1>2, <1>3, <2>1
  <2>3. /\ writer' = [writer EXCEPT ![cl] = writer[cl]]
        /\ n_death' \in 0 .. MaxDeath /\ n_death <= n_death'
    BY <1>1, <1>4, <1>16, AtClientFacts, NoUpdate
  <2>4. t2.at # "dead" /\ retriever[cl].at \in Reading
    BY <1>1, <1>14 DEF Reading
  <2>5. QED
    BY <1>1, <1>4, <1>9, <1>14, <1>16, <2>2, <2>3, <2>4, ClientStepRight
<1>17. CASE chunk = NoBase /\ Dies(cl)
  <2>1. doubtful[cl] # {}
    BY <1>3, <1>14, <1>17
  <2>2. QED
    BY <1>1, <1>4, <1>17, <2>1, DiesRight
<1>18. QED
  BY <1>2, <1>7, <1>10, <1>11, <1>12, <1>15, <1>16, <1>17 DEF RecvChunk

-----------------------------------------------------------------------------
(* The beginning of a download.                                            *)

(* A new cache is good.                                                    *)
LEMMA NoCache ==
  /\ CachedNames(EmptyCache) = {}
  /\ \A sv, cu, op : GoodCache(sv, cu, op, EmptyCache)
<1>1. /\ EmptyCache.order = <<>> /\ EmptyCache.slot = <<>> /\ EmptyCache.pool = <<>>
      /\ EmptyCache.currentIndex = 0 /\ CacheRecord(EmptyCache)
  BY DEF EmptyCache, CacheRecord
<1>2. DOMAIN <<>> = {} /\ Len(<<>>) = 0 /\ <<>> \in Seq({}) /\ 1 .. 0 = {}
  OBVIOUS
<1>3. CachedNames(EmptyCache) = {}
  BY <1>1, <1>2 DEF CachedNames
<1>4. CacheOK(EmptyCache)
  BY <1>1, <1>2, <1>3 DEF CacheOK
<1>5. QED
  BY <1>1, <1>3, <1>4 DEF GoodCache

(* What is in completely written files a new cache leaves to be read.      *)
LEMMA InFileIsHeld ==
  ASSUME RestoreInv, NEW c \in Chunk, InFile(c)
  PROVE  HeldAt(saved, EmptyCache, addr, c) /\ Content(c) = BytesAt(saved, addr, c)
<1>1. AddressRight(saved, cur, addr, Reads, c)
  BY DEF RestoreInv, StoredInv
<1>2. IsReal(addr[c]) /\ IsSaved(addr[c].container_id)
  BY DEF InFile
<1>3. addr[c].container_id \in ContainerId
  BY <1>1, <1>2 DEF AddressRight, HasItem, IsReal, Addr
<1>4. ~Exist(EmptyCache, addr[c].container_id)
  BY NoCache DEF Exist
<1>5. QED
  BY <1>2, <1>3, <1>4 DEF HeldAt, Held, Whole, IsSaved, Content, BytesAt, ContentAt

(* The same of a chunk with its base.                                      *)
LEMMA CompInFileIsHeld ==
  ASSUME RestoreInv, NEW c \in Chunk, CompInFile(c)
  PROVE  HeldComp(saved, EmptyCache, addr, c)
<1>1. InFile(c)
  BY DEF CompInFile, BaseInFile
<1>2. HeldAt(saved, EmptyCache, addr, c) /\ Content(c) = BytesAt(saved, addr, c)
  BY <1>1, InFileIsHeld
<1>3. BasesKnown(addr)
  BY RightBases DEF RestoreInv, StoredInv
<1>4. ASSUME addr[c].stat = "COMP_DELTA", BaseInFile(addr[c].base_fp)
      PROVE  HeldBase(saved, EmptyCache, addr, addr[c].base_fp)
  <2>1. PICK b \in Chunk : b = addr[c].base_fp
    BY <1>3, <1>4 DEF BasesKnown
  <2>2. InFile(b) /\ addr[b].stat = "COMP_BASE"
    BY <1>4, <2>1 DEF BaseInFile
  <2>3. HeldBase(saved, EmptyCache, addr, b)
    BY <2>2, InFileIsHeld DEF HeldBase
  <2>4. QED
    BY <2>1, <2>3
<1>5. QED
  BY <1>2, <1>4 DEF CompInFile, HeldComp, HeldBase, BaseInFile

(* So what is safe when a download begins is safe for its session.         *)
LEMMA SafeStaysSafe ==
  ASSUME RestoreInv, NEW cl \in Client, NEW c \in Chunk, Safe(cl, c)
  PROVE  StaysSafe(saved, EmptyCache, addr, cached[cl], c)
<1>1. CASE CompInFile(c)
  BY <1>1, CompInFileIsHeld DEF StaysSafe
<1>2. CASE /\ InFile(c) /\ addr[c].stat = "CACHE_DELTA"
           /\ addr[c].base_fp \in cached[cl] \/ CompInFile(addr[c].base_fp)
  <2>1. HeldAt(saved, EmptyCache, addr, c)
    BY <1>2, InFileIsHeld
  <2>2. PICK b \in Chunk : b = addr[c].base_fp
    BY <1>2, RightBases DEF RestoreInv, StoredInv, BasesKnown
  <2>3. CompInFile(b) => HeldComp(saved, EmptyCache, addr, b)
    BY CompInFileIsHeld
  <2>4. QED
    BY <1>2, <2>1, <2>2, <2>3 DEF StaysSafe
<1>3. QED
  BY <1>1, <1>2 DEF Safe

NewReader == [IdleReader EXCEPT !.at = "read"]
NewDecoder == [IdleDecoder EXCEPT !.at = "pop"]
NewRetriever == [IdleRetriever EXCEPT !.at = "recv"]

(* The threads of a download that begins.                                  *)
LEMMA NewThreads ==
  ASSUME NEW f \in Seq(Chunk), NEW kr \in Seq(Key), NEW db
  PROVE  /\ NewReader \in Reader /\ NewDecoder \in Decoder
         /\ NewRetriever \in Retriever /\ IdleRetriever \in Retriever
         /\ NewReader.at = "read" /\ NewRetriever.at = "recv" /\ IdleRetriever.at = "off"
         /\ ReaderRight(NewReader, f) /\ DecoderRight(NewReader, <<>>, NewDecoder, f, db)
         /\ ClientRight("download", f, kr, db, <<>>, Sent(NewReader, <<>>, NewDecoder),
                        NewDecoder.at, NewRetriever, "run")
<1>1. PICK zero \in Nat : zero = 0
  OBVIOUS
<1>2. PICK no \in BOOLEAN : no = FALSE
  OBVIOUS
<1>3. /\ <<>> \in Seq(Chunk) /\ <<>> \in Seq(Message) /\ <<>> \in Seq(Key)
      /\ <<>> \in Seq(Chunk \cup {NoBase}) /\ Len(<<>>) = zero /\ Len(f) \in Nat
      /\ Len(kr) \in Nat
  BY <1>1
<1>4. /\ NewReader = [at |-> "read", next |-> zero, batch |-> <<>>, is_end |-> no,
                      raw |-> Raw, delta |-> Junk, want |-> NoBase]
      /\ NewDecoder = [at |-> "pop", send_buf |-> <<>>]
      /\ NewRetriever = [at |-> "recv", n_key |-> zero, keys |-> <<>>, out |-> <<>>]
      /\ IdleRetriever = [at |-> "off", n_key |-> zero, keys |-> <<>>, out |-> <<>>]
  <2>1. NewReader = [at |-> "read", next |-> 0, batch |-> <<>>, is_end |-> no,
                     raw |-> Raw, delta |-> Junk, want |-> NoBase]
    <3>1. IdleReader = [at |-> "off", next |-> 0, batch |-> <<>>, is_end |-> no,
                        raw |-> Raw, delta |-> Junk, want |-> NoBase]
      BY <1>2 DEF IdleReader
    <3>2. QED
      BY <3>1 DEF NewReader
  <2>2. NewDecoder = [at |-> "pop", send_buf |-> <<>>]
    BY DEF NewDecoder, IdleDecoder
  <2>3. NewRetriever = [at |-> "recv", n_key |-> 0, keys |-> <<>>, out |-> <<>>]
    BY DEF NewRetriever, IdleRetriever
  <2>4. IdleRetriever = [at |-> "off", n_key |-> 0, keys |-> <<>>, out |-> <<>>]
    BY DEF IdleRetriever
  <2>5. QED
    BY <1>1, <1>2, <2>1, <2>2, <2>3, <2>4
<1>5. Raw \in RawChunk /\ Junk \in Stored
  BY DEF Raw, RawChunk, Type, Stored
<1>6. NewReader \in Reader /\ NewDecoder \in Decoder
  BY <1>3, <1>4, <1>5 DEF Reader, Decoder, Busy
<1>7. NewRetriever \in Retriever /\ IdleRetriever \in Retriever
  BY <1>3, <1>4 DEF Retriever
<1>8. Pushed(NewReader) = 0 /\ Sent(NewReader, <<>>, NewDecoder) = 0
  BY <1>1, <1>3, <1>4 DEF Sent, Popped, Pushed
<1>9. ReaderRight(NewReader, f)
  BY <1>1, <1>2, <1>3, <1>4 DEF ReaderRight
<1>10. DecoderRight(NewReader, <<>>, NewDecoder, f, db)
  BY <1>1, <1>3, <1>4, <1>8 DEF DecoderRight
<1>11. /\ KeysRight(kr, NewRetriever) /\ OutRight(NewRetriever, f, db)
       /\ Len(NewRetriever.out) = 0
  BY <1>1, <1>3, <1>4 DEF KeysRight, OutRight
<1>12. WireOK(<<>>, "pop", 0, 0, f, db)
  BY WireStart
<1>13. ClientRight("download", f, kr, db, <<>>, Sent(NewReader, <<>>, NewDecoder),
                   NewDecoder.at, NewRetriever, "run")
  BY <1>4, <1>8, <1>11, <1>12 DEF ClientRight, Reading
<1>14. QED
  BY <1>4, <1>6, <1>7, <1>9, <1>10, <1>13

(* All chunks of the file are in the recipe, those not safe in doubt.      *)
LEMMA DownloadStartRight ==
  ASSUME RestoreInv, server = "up", NEW cl \in Client, DownloadStart(cl)
  PROVE  RestoreInv'
<1>1. /\ session[cl] = "off" /\ n_upload[cl] > 0 /\ n_download < MaxDownload
      /\ session' = [session EXCEPT ![cl] = "download"]
      /\ n_download' = n_download + 1
      /\ container_cache' = [container_cache EXCEPT ![cl] = EmptyCache]
      /\ reader' = [reader EXCEPT ![cl] = NewReader]
      /\ decoder' = [decoder EXCEPT ![cl] = NewDecoder]
      /\ retriever' = [retriever EXCEPT ![cl] = NewRetriever]
      /\ writer' = [writer EXCEPT ![cl] = "run"]
      /\ wire' = [wire EXCEPT ![cl] = <<>>]
      /\ UNCHANGED <<containerVars, indexVars, fileVars, uploadVars, mq, server, n_death,
                     overlapped>>
  BY DEF DownloadStart, NewReader, NewDecoder, NewRetriever
<1>2. PICK db : db = {c \in {recipe[cl][i] : i \in DOMAIN recipe[cl]} : ~Safe(cl, c)}
  OBVIOUS
<1>3. doubtful' = [doubtful EXCEPT ![cl] = db]
  BY <1>2 DEF DownloadStart
<1>4. /\ TypeInv /\ StoredInv /\ PendingInv /\ CacheInv /\ FileRight(cl) /\ CauseInv
      /\ AtServer(cl)
  BY DEF RestoreInv, FileInv, DownloadInv
<1>5. recipe[cl] \in Seq(Chunk) /\ key_recipe[cl] \in Seq(Key)
  BY <1>4, TypesOf
<1>6. db \subseteq Chunk
  BY <1>2, <1>5
<1>7. mq[cl] = <<>>
  BY <1>1, <1>4 DEF AtServer, ServerIdle
<1>8. /\ session'[cl] = "download" /\ container_cache'[cl] = EmptyCache
      /\ reader'[cl] = NewReader /\ decoder'[cl] = NewDecoder
      /\ retriever'[cl] = NewRetriever /\ writer'[cl] = "run" /\ wire'[cl] = <<>>
      /\ doubtful'[cl] = db
  BY <1>1, <1>3, <1>4 DEF TypeInv
<1>9. OthersSame(cl)
  BY <1>1, <1>3, <1>4 DEF OthersSame, TypeInv, indexVars, fileVars, uploadVars
<1>10. /\ NewReader \in Reader /\ NewDecoder \in Decoder /\ NewRetriever \in Retriever
       /\ NewReader.at = "read" /\ NewRetriever.at = "recv"
       /\ ReaderRight(NewReader, recipe[cl])
       /\ DecoderRight(NewReader, <<>>, NewDecoder, recipe[cl], db)
       /\ ClientRight("download", recipe[cl], key_recipe[cl], db, <<>>,
                      Sent(NewReader, <<>>, NewDecoder), NewDecoder.at, NewRetriever, "run")
  BY <1>5, NewThreads
<1>11. TypeInv'
  <2>1. /\ session' \in [Client -> Doing] /\ reader' \in [Client -> Reader]
        /\ decoder' \in [Client -> Decoder] /\ retriever' \in [Client -> Retriever]
        /\ writer' \in [Client -> {"off", "run", "end"}]
    BY <1>1, <1>4, <1>10 DEF TypeInv, Doing
  <2>2. wire' \in [Client -> Seq(Seq(Message))]
    BY <1>1, <1>4 DEF TypeInv
  <2>3. doubtful' \in [Client -> SUBSET Chunk]
    BY <1>3, <1>4, <1>6 DEF TypeInv
  <2>4. container_cache' = [d \in Client |-> container_cache'[d]]
    BY <1>1, <1>4 DEF TypeInv
  <2>5. n_download' \in 0 .. MaxDownload
    BY <1>1, <1>4, RestoreAssumption DEF TypeInv
  <2>6. ContainerTypeOK(Bytes)'
    BY <1>1, <1>4 DEF TypeInv, ContainerTypeOK, containerVars
  <2>7. QED
    BY <1>1, <1>4, <2>1, <2>2, <2>3, <2>4, <2>5, <2>6
       DEF TypeInv, indexVars, fileVars, uploadVars
<1>12. StoredInv' /\ PendingInv'
  BY <1>1, <1>4 DEF StoredInv, PendingInv, TypeInv, containerVars, indexVars, uploadVars
<1>13. CauseInv'
  <2>1. server' # "exit" /\ n_death' = n_death /\ retriever'[cl].at # "dead"
    BY <1>1, <1>8, <1>10
  <2>2. ASSUME NEW d \in Client \ {cl}, retriever'[d].at = "dead"
        PROVE  n_death' > 0 \/ server' = "exit" \/ doubtful'[d] # {}
    BY <1>1, <1>4, <1>9, <2>2 DEF CauseInv, OthersSame
  <2>3. QED
    BY <2>1, <2>2 DEF CauseInv
<1>14. FileRight(cl)'
  BY <1>1, <1>4, <1>8 DEF FileRight, FileOf, indexVars, fileVars, uploadVars
<1>15. AtServer(cl)'
  <2>1. ASSUME NEW i \in 1 .. Len(recipe[cl])
        PROVE  \/ recipe[cl][i] \in db
               \/ StaysSafe(saved, EmptyCache, addr, cached[cl], recipe[cl][i])
    <3>1. PICK c \in Chunk : c = recipe[cl][i]
      BY <1>5
    <3>2. c \in db \/ Safe(cl, c)
      BY <1>2, <1>5, <3>1
    <3>3. c \in db \/ StaysSafe(saved, EmptyCache, addr, cached[cl], c)
      BY <3>2, SafeStaysSafe
    <3>4. QED
      BY <3>1, <3>3
  <2>2. ServerRight(saved, addr, EmptyCache, cached[cl], recipe[cl], db, NewReader, <<>>,
                    NewDecoder)
    BY <1>10, <2>1 DEF ServerRight
  <2>3. QED
    BY <1>1, <1>7, <1>8, <2>2 DEF AtServer, containerVars, indexVars, fileVars
<1>16. AtClient(cl)'
  BY <1>1, <1>7, <1>8, <1>10 DEF AtClient, fileVars
<1>17. GoodCache(saved', cur', opened', container_cache'[cl])
  BY <1>8, NoCache
<1>18. /\ StoreGrows(saved, cur, opened, saved', cur', opened')
       /\ AddressesStay(addr, addr')
  BY <1>1, StoreSame DEF indexVars
<1>19. QED
  BY <1>9, <1>11, <1>12, <1>13, <1>14, <1>15, <1>16, <1>17, <1>18, Composed

-----------------------------------------------------------------------------
(* Uploads                                                                 *)

(* A new version of the file: nothing of it is in the recipe.              *)
LEMMA UploadStartRight ==
  ASSUME RestoreInv, NEW cl \in Client, UploadStart(cl)
  PROVE  RestoreInv'
<1>1. /\ session[cl] = "off" /\ n_upload[cl] < Len(versions[cl])
      /\ session' = [session EXCEPT ![cl] = "upload"]
      /\ n_upload' = [n_upload EXCEPT ![cl] = @ + 1]
      /\ recipe' = [recipe EXCEPT ![cl] = <<>>]
      /\ key_recipe' = [key_recipe EXCEPT ![cl] = <<>>]
      /\ container_cache' = [container_cache EXCEPT ![cl] = EmptyCache]
      /\ retriever' = [retriever EXCEPT ![cl] = IdleRetriever]
      /\ writer' = [writer EXCEPT ![cl] = "off"]
      /\ overlapped' \in BOOLEAN
      /\ UNCHANGED <<containerVars, indexVars, versions, pending, serverDownVars, wire,
                     server, countVars, doubtful>>
  BY DEF UploadStart
<1>2. /\ TypeInv /\ StoredInv /\ PendingInv /\ CacheInv /\ FileRight(cl) /\ CauseInv
      /\ AtServer(cl)
  BY DEF RestoreInv, FileInv, DownloadInv
<1>3. IdleRetriever \in Retriever /\ IdleRetriever.at = "off"
  BY NewThreads DEF IdleRetriever, Retriever
<1>4. /\ session'[cl] = "upload" /\ n_upload'[cl] = n_upload[cl] + 1
      /\ recipe'[cl] = <<>> /\ key_recipe'[cl] = <<>> /\ container_cache'[cl] = EmptyCache
      /\ retriever'[cl] = IdleRetriever /\ writer'[cl] = "off"
  BY <1>1, <1>2 DEF TypeInv
<1>5. OthersSame(cl)
  BY <1>1, <1>2 DEF OthersSame, TypeInv, indexVars, serverDownVars
<1>6. TypeInv'
  <2>1. /\ session' \in [Client -> Doing] /\ n_upload' \in [Client -> Nat]
        /\ retriever' \in [Client -> Retriever]
        /\ writer' \in [Client -> {"off", "run", "end"}]
    <3>1. /\ session \in [Client -> Doing] /\ n_upload \in [Client -> Nat]
          /\ retriever \in [Client -> Retriever]
          /\ writer \in [Client -> {"off", "run", "end"}]
      BY <1>2 DEF TypeInv
    <3>2. session' \in [Client -> Doing] /\ writer' \in [Client -> {"off", "run", "end"}]
      BY <1>1, <3>1 DEF Doing
    <3>3. n_upload' \in [Client -> Nat]
      BY <1>1, <3>1
    <3>4. retriever' \in [Client -> Retriever]
      BY <1>1, <1>3, <3>1
    <3>5. QED
      BY <3>2, <3>3, <3>4
  <2>2. recipe' \in [Client -> Seq(Chunk)] /\ key_recipe' \in [Client -> Seq(Key)]
    BY <1>1, <1>2 DEF TypeInv
  <2>3. container_cache' = [d \in Client |-> container_cache'[d]]
    <3>1. container_cache = [d \in Client |-> container_cache[d]]
      BY <1>2 DEF TypeInv
    <3>2. PICK f, e : f = container_cache /\ e = EmptyCache
      OBVIOUS
    <3>3. f = [d \in Client |-> f[d]] /\ container_cache' = [f EXCEPT ![cl] = e]
      BY <1>1, <3>1, <3>2
    <3>4. container_cache' = [d \in Client |-> IF d = cl THEN e ELSE f[d]]
      BY <3>3
    <3>5. QED
      BY <3>4
  <2>4. ContainerTypeOK(Bytes)'
    BY <1>1, <1>2 DEF TypeInv, ContainerTypeOK, containerVars
  <2>5. QED
    BY <1>1, <1>2, <2>1, <2>2, <2>3, <2>4 DEF TypeInv, indexVars, serverDownVars, countVars
<1>7. StoredInv' /\ PendingInv'
  BY <1>1, <1>2 DEF StoredInv, PendingInv, TypeInv, containerVars, indexVars
<1>8. CauseInv'
  <2>1. /\ UNCHANGED <<n_death, server, doubtful>> /\ retriever'[cl].at # "dead"
    BY <1>1, <1>3, <1>4 DEF countVars
  <2>2. \A d \in Client \ {cl} : retriever'[d] = retriever[d]
    BY <1>5 DEF OthersSame
  <2>3. QED
    BY <1>2, <2>1, <2>2 DEF CauseInv
<1>9. FileRight(cl)'
  <2>1. PICK n \in Nat, k \in Nat : n = n_upload[cl] /\ k = Len(versions[cl])
    <3>1. versions[cl] \in Seq(Seq(Chunk)) /\ n_upload[cl] \in Nat
      BY <1>2, TypesOf
    <3>2. QED
      BY <3>1
  <2>2. n + 1 <= k /\ n + 1 > 0 /\ n + 1 # 0
    BY <1>1, <2>1
  <2>3. versions'[cl] = versions[cl] /\ addr' = addr /\ cached' = cached
    BY <1>1 DEF indexVars
  <2>4. versions[cl] \in Seq(Seq(Chunk)) /\ n + 1 \in 1 .. Len(versions[cl])
    BY <1>2, <2>1, <2>2, TypesOf
  <2>5. versions[cl][n + 1] \in Seq(Chunk)
    BY <2>4
  <2>6. FileOf(cl)' = versions[cl][n + 1]
    BY <1>4, <2>1, <2>3 DEF FileOf
  <2>7. Len(FileOf(cl)') \in Nat /\ Len(<<>>) = 0
    BY <2>5, <2>6
  <2>8. KeysOf(<<>>, <<>>) /\ Known(<<>>, addr')
    BY DEF KeysOf, Known
  <2>9. QED
    BY <1>2, <1>4, <2>1, <2>2, <2>3, <2>7, <2>8 DEF FileRight
<1>10. AtServer(cl)'
  BY <1>1, <1>2, <1>4 DEF AtServer, serverDownVars
<1>11. AtClient(cl)'
  BY <1>3, <1>4 DEF AtClient, ClientRight, Reading
<1>12. GoodCache(saved', cur', opened', container_cache'[cl])
  BY <1>4, NoCache
<1>13. /\ StoreGrows(saved, cur, opened, saved', cur', opened')
       /\ AddressesStay(addr, addr')
  BY <1>1, StoreSame DEF indexVars
<1>14. QED
  BY <1>5, <1>6, <1>7, <1>8, <1>9, <1>10, <1>11, <1>12, <1>13, Composed

(* A step of an upload in progress.                                        *)
LEMMA UploadStepRight ==
  ASSUME RestoreInv, NEW cl \in Client, Uploading(cl),
         UNCHANGED <<versions, n_upload, serverDownVars, wire, clientDownVars, server,
                     countVars, historyVars>>,
         NEW ses2 \in {"off", "upload", "tail"}, session' = [session EXCEPT ![cl] = ses2],
         NEW ca2 \in SUBSET Chunk, cached' = [cached EXCEPT ![cl] = ca2],
         NEW f2 \in Seq(Chunk), recipe' = [recipe EXCEPT ![cl] = f2],
         NEW kr2 \in Seq(Key), key_recipe' = [key_recipe EXCEPT ![cl] = kr2],
         NEW p2, pending' = [pending EXCEPT ![cl] = p2],
         NEW rc2, container_cache' = [container_cache EXCEPT ![cl] = rc2],
         GoodCache(saved', cur', opened', rc2),
         ContainerTypeOK(Bytes)', addr' \in [Chunk -> Addr],
         StoreGrows(saved, cur, opened, saved', cur', opened'),
         AddressesStay(addr, addr'),
         StoredInv', PendingInv', FileRight(cl)'
  PROVE  RestoreInv'
<1>1. TypeInv /\ CauseInv /\ AtServer(cl) /\ AtClient(cl)
  BY DEF RestoreInv, DownloadInv
<1>2. session[cl] \in {"upload", "tail"} /\ session'[cl] = ses2 /\ container_cache'[cl] = rc2
  BY <1>1 DEF Uploading, TypeInv
<1>3. TypeInv'
  <2>1. /\ session' \in [Client -> Doing] /\ cached' \in [Client -> SUBSET Chunk]
        /\ recipe' \in [Client -> Seq(Chunk)] /\ key_recipe' \in [Client -> Seq(Key)]
    BY <1>1 DEF TypeInv, Doing
  <2>2. /\ pending' = [d \in Client |-> pending'[d]]
        /\ container_cache' = [d \in Client |-> container_cache'[d]]
    BY <1>1 DEF TypeInv
  <2>3. QED
    BY <1>1, <2>1, <2>2 DEF TypeInv, serverDownVars, clientDownVars, countVars, historyVars
<1>4. OthersSame(cl)
  BY <1>1 DEF OthersSame, TypeInv, serverDownVars, clientDownVars, historyVars
<1>5. CauseInv'
  BY <1>1 DEF CauseInv, clientDownVars, countVars, historyVars
<1>6. AtServer(cl)'
  BY <1>1, <1>2 DEF AtServer, serverDownVars
<1>7. retriever[cl].at \notin Reading /\ writer[cl] = "off"
  BY <1>1, <1>2 DEF AtClient, ClientRight
<1>8. AtClient(cl)'
  BY <1>7 DEF AtClient, ClientRight, Reading, clientDownVars
<1>9. QED
  BY <1>2, <1>3, <1>4, <1>5, <1>6, <1>8, Composed

(* The client sends a chunk of its file.                                   *)
LEMMA SendFacts ==
  ASSUME RestoreInv, NEW cl \in Client, NEW c \in Chunk, Sends(cl, c),
         UNCHANGED <<session, n_upload, retriever>>, AddressesStay(addr, addr'),
         addr'[c].stat # "none", cached'[cl] \subseteq cached[cl] \cup {c}
  PROVE  /\ Uploading(cl) /\ session[cl] = "upload" /\ pending[cl] = NoPending
         /\ \E f2 \in Seq(Chunk) : recipe' = [recipe EXCEPT ![cl] = f2]
         /\ \E kr2 \in Seq(Key) : key_recipe' = [key_recipe EXCEPT ![cl] = kr2]
         /\ UNCHANGED versions /\ FileRight(cl)'
<1>1. /\ session[cl] = "upload" /\ pending[cl] = NoPending
      /\ Len(recipe[cl]) < Len(FileOf(cl)) /\ c = FileOf(cl)[Len(recipe[cl]) + 1]
      /\ recipe' = [recipe EXCEPT ![cl] = Append(@, c)]
      /\ key_recipe' = [key_recipe EXCEPT ![cl] = Append(@, KeyOf[c])]
      /\ UNCHANGED versions
  BY DEF Sends
<1>2. TypeInv /\ FileRight(cl)
  BY DEF RestoreInv, FileInv
<1>3. PICK f \in Seq(Chunk), kr \in Seq(Key) : f = recipe[cl] /\ kr = key_recipe[cl]
  BY <1>2, TypesOf
<1>4. PICK k \in Key : k = KeyOf[c]
  BY RestoreAssumption
<1>5. PICK f2, kr2 : f2 = Append(f, c) /\ kr2 = Append(kr, k)
  OBVIOUS
<1>6. PICK n \in Nat : n = Len(f)
  OBVIOUS
<1>7. /\ f2 \in Seq(Chunk) /\ Len(f2) = n + 1
      /\ \A i \in 1 .. n : f2[i] = f[i]
      /\ f2[n + 1] = c
  BY <1>5, <1>6, AppendFacts
<1>8. KeysOf(f, kr) /\ Known(f, addr)
  BY <1>2, <1>3 DEF FileRight
<1>9. Len(kr) = n
  BY <1>6, <1>8 DEF KeysOf
<1>10. /\ kr2 \in Seq(Key) /\ Len(kr2) = n + 1
       /\ \A i \in 1 .. n : kr2[i] = kr[i]
       /\ kr2[n + 1] = k
  BY <1>5, <1>9, AppendFacts
<1>11. /\ recipe' = [recipe EXCEPT ![cl] = f2] /\ key_recipe' = [key_recipe EXCEPT ![cl] = kr2]
       /\ recipe'[cl] = f2 /\ key_recipe'[cl] = kr2
  BY <1>1, <1>2, <1>3, <1>4, <1>5 DEF TypeInv
<1>12. \A i \in 1 .. n + 1 : i \in 1 .. n \/ i = n + 1
  OBVIOUS
<1>13. KeysOf(f2, kr2)
  <2>1. \A i \in 1 .. n : kr[i] = KeyOf[f[i]]
    BY <1>6, <1>8 DEF KeysOf
  <2>2. \A i \in 1 .. n + 1 : kr2[i] = KeyOf[f2[i]]
    BY <1>4, <1>7, <1>10, <1>12, <2>1
  <2>3. QED
    BY <1>7, <1>10, <2>2 DEF KeysOf
<1>14. Known(f2, addr')
  <2>1. Known(f, addr')
    BY <1>8, KnownStays
  <2>2. \A i \in 1 .. n : addr'[f[i]].stat # "none"
    BY <1>6, <2>1 DEF Known
  <2>3. \A i \in 1 .. n + 1 : addr'[f2[i]].stat # "none"
    BY <1>7, <1>12, <2>2
  <2>4. QED
    BY <1>7, <2>3 DEF Known
<1>15. FileRight(cl)'
  <2>1. PICK g : g = FileOf(cl)
    OBVIOUS
  <2>2. FileOf(cl)' = g
    BY <1>1, <2>1 DEF FileOf
  <2>3. /\ n_upload[cl] > 0 /\ n_upload[cl] \in Nat /\ n_upload[cl] <= Len(versions[cl])
        /\ versions[cl] \in Seq(Seq(Chunk))
    BY <1>1, <1>2, TypesOf DEF FileRight
  <2>4. g \in Seq(Chunk)
    BY <2>1, <2>3 DEF FileOf
  <2>5. Len(f2) <= Len(g) /\ \A i \in 1 .. n + 1 : f2[i] = g[i]
    <3>1. n + 1 <= Len(g)
      BY <1>1, <1>3, <1>6, <2>1, <2>4
    <3>2. \A i \in 1 .. n : f[i] = g[i]
      BY <1>2, <1>3, <1>6, <2>1, <2>3 DEF FileRight
    <3>3. c = g[n + 1]
      BY <1>1, <1>3, <1>6, <2>1
    <3>4. QED
      BY <1>7, <1>12, <3>1, <3>2, <3>3
  <2>6. \A b \in cached'[cl] : addr'[b].stat # "none"
    BY <1>2, TypesOf DEF FileRight, AddressesStay
  <2>7. n_upload[cl] # 0
    BY <2>3
  <2>8. QED
    BY <1>1, <1>7, <1>11, <1>13, <1>14, <2>2, <2>3, <2>5, <2>6, <2>7 DEF FileRight
<1>16. QED
  BY <1>1, <1>7, <1>10, <1>11, <1>15 DEF Uploading

(* DetectDuplicate inserts an address that nobody has filled in yet.       *)
LEMMA AnnounceFacts ==
  ASSUME RestoreInv, NEW c \in Chunk, addr[c] = NoAddr, Announce(c)
  PROVE  /\ AddressesStay(addr, addr') /\ addr' \in [Chunk -> Addr]
         /\ addr'[c].stat = "virtual" /\ ~IsReal(addr'[c])
         /\ \A b \in Chunk \ {c} : addr'[b] = addr[b]
<1>1. addr' = [addr EXCEPT ![c] = Virtual] /\ addr \in [Chunk -> Addr]
  BY DEF Announce, RestoreInv, TypeInv
<1>2. addr'[c] = Virtual /\ \A b \in Chunk \ {c} : addr'[b] = addr[b]
  BY <1>1
<1>3. /\ Virtual \in Addr /\ Virtual.stat = "virtual" /\ ~IsReal(Virtual)
      /\ addr[c].stat = "none" /\ ~IsReal(addr[c])
  BY DEF Virtual, NoAddr, Addr, IsReal
<1>4. addr' \in [Chunk -> Addr]
  BY <1>1, <1>3
<1>5. AddressesStay(addr, addr')
  BY <1>2, <1>3 DEF AddressesStay
<1>6. QED
  BY <1>2, <1>3, <1>4, <1>5


(* An announced address leads nowhere, and nothing needs it to.            *)
LEMMA AnnounceRight ==
  ASSUME RestoreInv, NEW cl \in Client, NEW c \in Chunk, addr[c] = NoAddr, Announce(c),
         session[cl] = "upload", UNCHANGED <<containerVars, session>>,
         NEW p2, pending' = [pending EXCEPT ![cl] = p2], p2.chunk = c,
         PendingRight(addr', Reads, p2)
  PROVE  StoredInv' /\ PendingInv'
<1>1. /\ AddressesStay(addr, addr') /\ addr' \in [Chunk -> Addr]
      /\ addr'[c].stat = "virtual" /\ ~IsReal(addr'[c])
      /\ \A b \in Chunk \ {c} : addr'[b] = addr[b]
  BY AnnounceFacts
<1>2. TypeInv /\ StoredInv /\ PendingInv
  BY DEF RestoreInv
<1>3. StoreGrows(saved, cur, opened, saved, cur, opened)
  BY DEF StoreGrows
<1>4. ASSUME NEW b \in Chunk
      PROVE  AddressRight(saved', cur', addr', Reads, b)
  <2>1. CASE b = c
    <3>1. addr'[c] \in Addr
      BY <1>1
    <3>2. QED
      BY <1>1, <2>1, <3>1 DEF AddressRight
  <2>2. CASE b # c
    <3>1. addr'[b] = addr[b] /\ AddressRight(saved, cur, addr, Reads, b)
      BY <1>1, <1>2, <2>2 DEF StoredInv
    <3>2. AddressRight(saved, cur, addr', Reads, b)
      BY <1>1, <1>2, <1>3, <3>1, StoreTypes, AddressStays
    <3>3. QED
      BY <3>2 DEF containerVars
  <2>3. QED
    BY <2>1, <2>2
<1>5. /\ pending'[cl] = p2
      /\ \A d \in Client \ {cl} : pending'[d] = pending[d]
  BY <1>2 DEF TypeInv
<1>6. ASSUME NEW d \in Client
      PROVE  pending[d].chunk # c
  <2>1. PICK p : p = pending[d]
    OBVIOUS
  <2>2. PendingRight(addr, Reads, p)
    BY <1>2, <2>1 DEF PendingInv
  <2>3. CASE p = NoPending
    BY <2>1, <2>3, RestoreAssumption DEF NoPending
  <2>4. CASE p # NoPending
    <3>1. addr[p.chunk].stat = "virtual"
      BY <2>2, <2>4 DEF PendingRight
    <3>2. addr[c].stat = "none"
      BY DEF NoAddr
    <3>3. QED
      BY <2>1, <3>1, <3>2
  <2>5. QED
    BY <2>3, <2>4
<1>7. ASSUME NEW d \in Client
      PROVE  PendingRight(addr', Reads, pending'[d])
  <2>1. CASE d = cl
    BY <1>5, <2>1
  <2>2. CASE d # cl
    <3>1. PICK p : p = pending[d]
      OBVIOUS
    <3>2. PendingRight(addr, Reads, p) /\ p.chunk # c
      BY <1>2, <1>6, <3>1 DEF PendingInv
    <3>3. p = NoPending \/ addr'[p.chunk].stat = "virtual"
      BY <1>1, <3>2 DEF PendingRight
    <3>4. PendingRight(addr', Reads, p)
      BY <1>1, <3>2, <3>3, PendingStays
    <3>5. QED
      BY <1>5, <2>2, <3>1, <3>4
  <2>3. QED
    BY <2>1, <2>2
<1>8. PendingInv'
  <2>1. ASSUME NEW d \in Client, pending'[d] # NoPending
        PROVE  session'[d] = "upload"
    BY <1>2, <1>5, <2>1 DEF PendingInv
  <2>2. ASSUME NEW d \in Client, NEW e \in Client, pending'[d].chunk = pending'[e].chunk
        PROVE  d = e \/ pending'[d] = NoPending
    <3>1. CASE d = cl \/ e = cl
      BY <1>5, <1>6, <2>2, <3>1
    <3>2. CASE d # cl /\ e # cl
      BY <1>2, <1>5, <2>2, <3>2 DEF PendingInv
    <3>3. QED
      BY <3>1, <3>2
  <2>3. QED
    BY <1>7, <2>1, <2>2 DEF PendingInv
<1>9. QED
  BY <1>4, <1>8 DEF StoredInv

(* A step that sends a chunk and perhaps leaves something to be written.   *)
LEMMA SendStepRight ==
  ASSUME RestoreInv, NEW cl \in Client, NEW c \in Chunk, Sends(cl, c),
         UNCHANGED <<containerVars, session, n_upload, serverDownVars, wire,
                     clientDownVars, server, countVars, historyVars>>,
         NEW ca2, ca2 \subseteq cached[cl] \cup {c}, cached' = [cached EXCEPT ![cl] = ca2],
         NEW p2, pending' = [pending EXCEPT ![cl] = p2],
         NEW rc2, container_cache' = [container_cache EXCEPT ![cl] = rc2],
         GoodCache(saved, cur, opened, rc2),
         \/ addr[c] # NoAddr /\ UNCHANGED addr /\ p2 = pending[cl]
         \/ /\ addr[c] = NoAddr /\ Announce(c)
            /\ p2.chunk = c /\ PendingRight(addr', Reads, p2)
  PROVE  RestoreInv'
<1>1. TypeInv /\ StoredInv /\ PendingInv
  BY DEF RestoreInv
<1>2. ca2 \in SUBSET Chunk /\ cached'[cl] = ca2
  BY <1>1, TypesOf DEF TypeInv
<1>3. /\ AddressesStay(addr, addr') /\ addr' \in [Chunk -> Addr] /\ addr'[c].stat # "none"
      /\ StoredInv' /\ PendingInv'
  <2>1. CASE addr[c] # NoAddr /\ UNCHANGED addr /\ p2 = pending[cl]
    <3>1. pending' = pending
      BY <1>1, <2>1 DEF TypeInv
    <3>2. addr[c].stat # "none"
      BY <1>1, <2>1 DEF StoredInv, AddressRight
    <3>3. AddressesStay(addr, addr') /\ addr' \in [Chunk -> Addr]
      BY <1>1, <2>1 DEF AddressesStay, TypeInv
    <3>4. StoredInv' /\ PendingInv'
      BY <1>1, <2>1, <3>1 DEF StoredInv, PendingInv, containerVars
    <3>5. QED
      BY <2>1, <3>2, <3>3, <3>4
  <2>2. CASE /\ addr[c] = NoAddr /\ Announce(c)
             /\ p2.chunk = c /\ PendingRight(addr', Reads, p2)
    <3>1. session[cl] = "upload"
      BY DEF Sends
    <3>2. StoredInv' /\ PendingInv'
      BY <2>2, <3>1, AnnounceRight
    <3>3. QED
      BY <2>2, <3>2, AnnounceFacts
  <2>3. QED
    BY <2>1, <2>2
<1>4. /\ Uploading(cl) /\ session[cl] = "upload"
      /\ \E f2 \in Seq(Chunk) : recipe' = [recipe EXCEPT ![cl] = f2]
      /\ \E kr2 \in Seq(Key) : key_recipe' = [key_recipe EXCEPT ![cl] = kr2]
      /\ UNCHANGED versions /\ FileRight(cl)'
  BY <1>2, <1>3, SendFacts DEF clientDownVars
<1>5. PICK f2 \in Seq(Chunk) : recipe' = [recipe EXCEPT ![cl] = f2]
  BY <1>4
<1>6. PICK kr2 \in Seq(Key) : key_recipe' = [key_recipe EXCEPT ![cl] = kr2]
  BY <1>4
<1>7. session' = [session EXCEPT ![cl] = "upload"]
  BY <1>1, <1>4 DEF TypeInv
<1>8. /\ ContainerTypeOK(Bytes)' /\ GoodCache(saved', cur', opened', rc2)
      /\ StoreGrows(saved, cur, opened, saved', cur', opened')
  BY <1>1 DEF TypeInv, ContainerTypeOK, StoreGrows, containerVars
<1>9. QED
  BY <1>2, <1>3, <1>4, <1>5, <1>6, <1>7, <1>8, UploadStepRight

(* Each action of an upload keeps the invariant.                           *)
LEMMA UploadBaseRight ==
  ASSUME RestoreInv, NEW cl \in Client, NEW c \in Chunk, UploadBase(cl, c)
  PROVE  RestoreInv'
<1>1. /\ Sends(cl, c) /\ cached' = [cached EXCEPT ![cl] = @ \cup {c}]
      /\ UNCHANGED <<containerVars, session, n_upload, container_cache, serverDownVars,
                     wire, clientDownVars, server, countVars, historyVars>>
  BY DEF UploadBase
<1>2. TypeInv
  BY DEF RestoreInv
<1>3. PICK ca2 : ca2 = cached[cl] \cup {c}
  OBVIOUS
<1>4. PICK rc2 : rc2 = container_cache[cl]
  OBVIOUS
<1>5. /\ cached' = [cached EXCEPT ![cl] = ca2]
      /\ container_cache' = [container_cache EXCEPT ![cl] = rc2]
      /\ GoodCache(saved, cur, opened, rc2)
  BY <1>1, <1>2, <1>3, <1>4, CacheFacts DEF TypeInv
<1>6. CASE addr[c] # NoAddr /\ UNCHANGED <<addr, pending>>
  <2>1. pending' = [pending EXCEPT ![cl] = pending[cl]]
    BY <1>2, <1>6 DEF TypeInv
  <2>2. QED
    BY <1>1, <1>3, <1>5, <1>6, <2>1, SendStepRight
<1>7. CASE /\ addr[c] = NoAddr /\ Announce(c)
           /\ ToWrite(cl, c, <<Comp(c)>>, "COMP_BASE", NoBase)
  <2>1. PICK p2 : p2 = [chunk |-> c, bytes |-> <<Comp(c)>>, stat |-> "COMP_BASE",
                        base |-> NoBase]
    OBVIOUS
  <2>2. pending' = [pending EXCEPT ![cl] = p2]
    BY <1>7, <2>1 DEF ToWrite
  <2>3. addr'[c].stat = "virtual"
    BY <1>7, AnnounceFacts
  <2>4. p2.chunk = c /\ PendingRight(addr', Reads, p2)
    BY <2>1, <2>3 DEF PendingRight
  <2>5. QED
    BY <1>1, <1>3, <1>5, <1>7, <2>2, <2>4, SendStepRight
<1>8. QED
  BY <1>6, <1>7 DEF UploadBase

(* A delta that is yet to be written.                                      *)
LEMMA DeltaPending ==
  ASSUME NEW ad, NEW ad2, AddressesStay(ad, ad2), NEW c \in Chunk, ad2[c].stat = "virtual",
         NEW b, NEW stat, MayBeDelta(ad, c, b, stat),
         NEW reads, NEW read \in reads, NEW delta, delta = DeltaBytes(c, b, stat, read),
         NEW bytes, bytes = <<delta>> \/ bytes = <<Comp(c), delta>>,
         NEW p2, p2 = [chunk |-> c, bytes |-> bytes, stat |-> stat, base |-> b]
  PROVE  p2.chunk = c /\ PendingRight(ad2, reads, p2)
<1>1. MayBeDelta(ad2, c, b, stat)
  BY DeltaStaysDelta
<1>2. p2.chunk = c /\ p2.bytes = bytes /\ p2.stat = stat /\ p2.base = b
  OBVIOUS
<1>3. \E r \in reads : LET d == DeltaBytes(c, b, stat, r) IN
                       bytes = <<d>> \/ bytes = <<Comp(c), d>>
  OBVIOUS
<1>4. QED
  BY <1>1, <1>2, <1>3 DEF PendingRight

(* A delta of a stored base.                                               *)
LEMMA UploadSimilarRight ==
  ASSUME RestoreInv, NEW cl \in Client, NEW c \in Chunk, NEW b \in Chunk,
         UploadSimilar(cl, c, b)
  PROVE  RestoreInv'
<1>1. /\ Sends(cl, c) /\ cached' = [cached EXCEPT ![cl] = @ \cup {c}]
      /\ addr[c] = NoAddr /\ addr[b].stat = "COMP_BASE" /\ Announce(c)
      /\ UNCHANGED <<containerVars, session, n_upload, serverDownVars, wire,
                     clientDownVars, server, countVars, historyVars>>
  BY DEF UploadSimilar
<1>2. TypeInv
  BY DEF RestoreInv
<1>3. PICK r \in ReadChunk(cl, addr[b]) :
        /\ container_cache' = [container_cache EXCEPT ![cl] = r.cache]
        /\ LET read == IF ~r.found THEN "nothing"
                       ELSE IF r.bytes = Comp(b) THEN "whole" ELSE "torn"
               delta == Delta(Comp(c), Comp(b), read)
           IN ToWrite(cl, c, IF r.found THEN <<delta>> ELSE <<Comp(c), delta>>,
                      "COMP_DELTA", b)
  BY DEF UploadSimilar
<1>4. PICK read \in Reads : read = IF ~r.found THEN "nothing"
                                   ELSE IF r.bytes = Comp(b) THEN "whole" ELSE "torn"
  BY DEF Reads
<1>5. PICK delta : delta = Delta(Comp(c), Comp(b), read)
  OBVIOUS
<1>6. PICK bytes : bytes = IF r.found THEN <<delta>> ELSE <<Comp(c), delta>>
  OBVIOUS
<1>7. PICK stat : stat = "COMP_DELTA"
  OBVIOUS
<1>8. PICK p2 : p2 = [chunk |-> c, bytes |-> bytes, stat |-> stat, base |-> b]
  OBVIOUS
<1>9. pending' = [pending EXCEPT ![cl] = p2]
  BY <1>3, <1>4, <1>5, <1>6, <1>7, <1>8 DEF ToWrite
<1>10. PICK ca2, rc2 : ca2 = cached[cl] \cup {c} /\ rc2 = r.cache
  OBVIOUS
<1>11. /\ cached' = [cached EXCEPT ![cl] = ca2]
       /\ container_cache' = [container_cache EXCEPT ![cl] = rc2]
       /\ GoodCache(saved, cur, opened, rc2)
  BY <1>1, <1>2, <1>3, <1>10, ReadFacts DEF TypeInv
<1>12. delta = DeltaBytes(c, b, stat, read) /\ MayBeDelta(addr, c, b, stat)
  BY <1>1, <1>5, <1>7 DEF DeltaBytes, MayBeDelta
<1>13. AddressesStay(addr, addr') /\ addr'[c].stat = "virtual"
  BY <1>1, AnnounceFacts
<1>14. p2.chunk = c /\ PendingRight(addr', Reads, p2)
  BY <1>6, <1>8, <1>12, <1>13, DeltaPending
<1>15. QED
  BY <1>1, <1>9, <1>10, <1>11, <1>14, SendStepRight

(* A delta of a cached base.                                               *)
LEMMA UploadUncompressedRight ==
  ASSUME RestoreInv, NEW cl \in Client, NEW c \in Chunk, UploadUncompressed(cl, c)
  PROVE  RestoreInv'
<1>1. /\ Sends(cl, c)
      /\ UNCHANGED <<containerVars, cached, session, n_upload, container_cache,
                     serverDownVars, wire, clientDownVars, server, countVars, historyVars>>
  BY DEF UploadUncompressed
<1>2. TypeInv /\ FileRight(cl)
  BY DEF RestoreInv, FileInv
<1>3. PICK ca2, rc2 : ca2 = cached[cl] /\ rc2 = container_cache[cl]
  OBVIOUS
<1>4. /\ cached' = [cached EXCEPT ![cl] = ca2] /\ ca2 \subseteq cached[cl] \cup {c}
      /\ container_cache' = [container_cache EXCEPT ![cl] = rc2]
      /\ GoodCache(saved, cur, opened, rc2)
  BY <1>1, <1>2, <1>3, CacheFacts DEF TypeInv
<1>5. CASE addr[c] # NoAddr /\ UNCHANGED <<addr, pending>>
  <2>1. pending' = [pending EXCEPT ![cl] = pending[cl]]
    BY <1>2, <1>5 DEF TypeInv
  <2>2. QED
    BY <1>1, <1>4, <1>5, <2>1, SendStepRight
<1>6. ASSUME addr[c] = NoAddr, Announce(c), NEW b \in CachedBases(cl, c),
             ToWrite(cl, c, <<Delta(Uncomp(c), Uncomp(b), "whole")>>, "CACHE_DELTA", b)
      PROVE  RestoreInv'
  <2>1. b \in cached[cl] /\ b \in Chunk /\ KeyOf[b] = KeyOf[c] /\ addr[b].stat # "none"
    BY <1>2, TypesOf DEF CachedBases, FileRight
  <2>2. PICK stat, delta : stat = "CACHE_DELTA" /\ delta = Delta(Uncomp(c), Uncomp(b), "whole")
    OBVIOUS
  <2>3. PICK bytes : bytes = <<delta>>
    OBVIOUS
  <2>4. PICK p2 : p2 = [chunk |-> c, bytes |-> bytes, stat |-> stat, base |-> b]
    OBVIOUS
  <2>5. pending' = [pending EXCEPT ![cl] = p2]
    BY <1>6, <2>2, <2>3, <2>4 DEF ToWrite
  <2>6. PICK read \in Reads : delta = DeltaBytes(c, b, stat, read)
    BY <2>2 DEF DeltaBytes, Reads
  <2>7. MayBeDelta(addr, c, b, stat)
    BY <2>1, <2>2 DEF MayBeDelta
  <2>8. AddressesStay(addr, addr') /\ addr'[c].stat = "virtual"
    BY <1>6, AnnounceFacts
  <2>9. p2.chunk = c /\ PendingRight(addr', Reads, p2)
    BY <2>3, <2>4, <2>6, <2>7, <2>8, DeltaPending
  <2>10. QED
    BY <1>1, <1>4, <1>6, <2>5, <2>9, SendStepRight
<1>7. QED
  BY <1>5, <1>6 DEF UploadUncompressed

(* All was sent.                                                           *)
LEMMA UploadTailRight ==
  ASSUME RestoreInv, NEW cl \in Client, UploadTail(cl)
  PROVE  RestoreInv'
<1>1. /\ session[cl] = "upload" /\ pending[cl] = NoPending
      /\ Len(recipe[cl]) = Len(FileOf(cl))
      /\ session' = [session EXCEPT ![cl] = "tail"]
      /\ UNCHANGED <<containerVars, addr, fileVars, uploadVars, container_cache,
                     serverDownVars, wire, clientDownVars, server, countVars, historyVars>>
  BY DEF UploadTail
<1>2. PICK S \in SUBSET cached[cl] : cached' = [cached EXCEPT ![cl] = S]
  BY DEF UploadTail
<1>3. TypeInv /\ StoredInv /\ PendingInv /\ FileRight(cl)
  BY DEF RestoreInv, FileInv
<1>4. S \in SUBSET Chunk /\ recipe[cl] \in Seq(Chunk) /\ key_recipe[cl] \in Seq(Key)
  BY <1>3, TypesOf
<1>5. session'[cl] = "tail" /\ cached'[cl] = S
  BY <1>1, <1>2, <1>3 DEF TypeInv
<1>6. /\ recipe' = [recipe EXCEPT ![cl] = recipe[cl]]
      /\ key_recipe' = [key_recipe EXCEPT ![cl] = key_recipe[cl]]
      /\ pending' = [pending EXCEPT ![cl] = pending[cl]]
      /\ container_cache' = [container_cache EXCEPT ![cl] = container_cache[cl]]
      /\ addr' \in [Chunk -> Addr]
  BY <1>1, <1>3 DEF TypeInv, fileVars, uploadVars
<1>7. /\ ContainerTypeOK(Bytes)' /\ GoodCache(saved', cur', opened', container_cache[cl])
      /\ StoreGrows(saved, cur, opened, saved', cur', opened')
      /\ AddressesStay(addr, addr')
  BY <1>1, <1>3, CacheFacts
     DEF TypeInv, ContainerTypeOK, StoreGrows, AddressesStay, containerVars
<1>8. StoredInv' /\ PendingInv'
  BY <1>1, <1>3 DEF StoredInv, PendingInv, TypeInv, containerVars, uploadVars
<1>9. FileRight(cl)'
  BY <1>1, <1>2, <1>3, <1>5 DEF FileRight, FileOf, fileVars, uploadVars, clientDownVars
<1>10. /\ Uploading(cl)
       /\ UNCHANGED <<versions, n_upload, serverDownVars, wire, clientDownVars, server,
                      countVars, historyVars>>
  BY <1>1 DEF Uploading, fileVars, uploadVars
<1>11. QED
  BY <1>1, <1>2, <1>4, <1>6, <1>7, <1>8, <1>9, <1>10, UploadStepRight

(* All is saved.                                                           *)
LEMMA UploadEndRight ==
  ASSUME RestoreInv, NEW cl \in Client, UploadEnd(cl)
  PROVE  RestoreInv'
<1>1. /\ session[cl] = "tail"
      /\ session' = [session EXCEPT ![cl] = "off"]
      /\ UNCHANGED <<containerVars, indexVars, fileVars, uploadVars, container_cache,
                     serverDownVars, wire, clientDownVars, server, countVars, historyVars>>
  BY DEF UploadEnd
<1>3. TypeInv /\ StoredInv /\ PendingInv /\ FileRight(cl)
  BY DEF RestoreInv, FileInv
<1>4. /\ cached[cl] \in SUBSET Chunk /\ recipe[cl] \in Seq(Chunk)
      /\ key_recipe[cl] \in Seq(Key)
  BY <1>3, TypesOf
<1>5. session'[cl] = "off"
  BY <1>1, <1>3 DEF TypeInv
<1>6. /\ recipe' = [recipe EXCEPT ![cl] = recipe[cl]]
      /\ key_recipe' = [key_recipe EXCEPT ![cl] = key_recipe[cl]]
      /\ pending' = [pending EXCEPT ![cl] = pending[cl]]
      /\ cached' = [cached EXCEPT ![cl] = cached[cl]]
      /\ container_cache' = [container_cache EXCEPT ![cl] = container_cache[cl]]
      /\ addr' \in [Chunk -> Addr]
  BY <1>1, <1>3 DEF TypeInv, indexVars, fileVars, uploadVars
<1>7. /\ ContainerTypeOK(Bytes)' /\ GoodCache(saved', cur', opened', container_cache[cl])
      /\ StoreGrows(saved, cur, opened, saved', cur', opened')
      /\ AddressesStay(addr, addr')
  BY <1>1, <1>3, CacheFacts
     DEF TypeInv, ContainerTypeOK, StoreGrows, AddressesStay, containerVars, indexVars
<1>8. StoredInv' /\ PendingInv'
  BY <1>1, <1>3 DEF StoredInv, PendingInv, TypeInv, containerVars, indexVars, uploadVars
<1>9. FileRight(cl)'
  BY <1>1, <1>3, <1>5 DEF FileRight, FileOf, indexVars, fileVars, uploadVars, clientDownVars
<1>10. /\ Uploading(cl)
       /\ UNCHANGED <<versions, n_upload, serverDownVars, wire, clientDownVars, server,
                      countVars, historyVars>>
  BY <1>1 DEF Uploading, fileVars, uploadVars
<1>11. QED
  BY <1>1, <1>4, <1>6, <1>7, <1>8, <1>9, <1>10, UploadStepRight

(* What the writer writes next, and what is left to be written then.       *)
Item(ad, reads, p, x) ==
  \/ p.stat = "COMP_BASE" /\ p.base = NoBase /\ x = Comp(p.chunk)
  \/ /\ MayBeDelta(ad, p.chunk, p.base, p.stat)
     /\ \E r \in reads : x = DeltaBytes(p.chunk, p.base, p.stat, r)

LEMMA NextItem ==
  ASSUME NEW ad, NEW reads \in SUBSET Reads, NEW p, PendingRight(ad, reads, p),
         p # NoPending
  PROVE  /\ p.chunk \in Chunk /\ ad[p.chunk].stat = "virtual"
         /\ \E x \in Bytes :
              \/ p.bytes = <<x>> /\ Item(ad, reads, p, x)
              \/ \E y \in Bytes : /\ p.bytes = <<x, y>>
                                  /\ PendingRight(ad, reads, [p EXCEPT !.bytes = <<y>>])
<1>1. /\ p = [chunk |-> p.chunk, bytes |-> p.bytes, stat |-> p.stat, base |-> p.base]
      /\ p.chunk \in Chunk /\ ad[p.chunk].stat = "virtual"
  BY DEF PendingRight
<1>2. CASE p.stat = "COMP_BASE" /\ p.base = NoBase /\ p.bytes = <<Comp(p.chunk)>>
  <2>1. Comp(p.chunk) \in Bytes
    BY <1>1, BytesFacts
  <2>2. Item(ad, reads, p, Comp(p.chunk))
    BY <1>2 DEF Item
  <2>3. QED
    BY <1>1, <1>2, <2>1, <2>2
<1>3. ASSUME MayBeDelta(ad, p.chunk, p.base, p.stat), NEW r \in reads, NEW y,
             y = DeltaBytes(p.chunk, p.base, p.stat, r),
             p.bytes = <<y>> \/ p.bytes = <<Comp(p.chunk), y>>
      PROVE  \E x \in Bytes :
               \/ p.bytes = <<x>> /\ Item(ad, reads, p, x)
               \/ \E z \in Bytes : /\ p.bytes = <<x, z>>
                                   /\ PendingRight(ad, reads, [p EXCEPT !.bytes = <<z>>])
  <2>1. Comp(p.chunk) \in Bytes /\ y \in Bytes
    BY <1>1, <1>3, BytesFacts, DeltaTyped DEF MayBeDelta
  <2>2. CASE p.bytes = <<y>>
    <3>1. Item(ad, reads, p, y)
      BY <1>3 DEF Item
    <3>2. QED
      BY <2>1, <2>2, <3>1
  <2>3. CASE p.bytes = <<Comp(p.chunk), y>>
    <3>1. PICK q : q = [p EXCEPT !.bytes = <<y>>]
      OBVIOUS
    <3>2. /\ q.chunk = p.chunk /\ q.bytes = <<y>> /\ q.stat = p.stat /\ q.base = p.base
          /\ q = [chunk |-> q.chunk, bytes |-> q.bytes, stat |-> q.stat, base |-> q.base]
      BY <1>1, <3>1
    <3>3. PendingRight(ad, reads, q)
      BY <1>1, <1>3, <3>2 DEF PendingRight
    <3>4. QED
      BY <2>1, <2>3, <3>1, <3>3
  <2>4. QED
    BY <1>3, <2>2, <2>3
<1>4. QED
  BY <1>1, <1>2, <1>3 DEF PendingRight

(* What is left to be written after one of two items.                      *)
LEMMA PendingMoves ==
  ASSUME TypeInv, PendingInv, NEW cl \in Client, pending[cl] # NoPending,
         UNCHANGED session, NEW p2, pending' = [pending EXCEPT ![cl] = p2],
         p2 = NoPending \/ p2.chunk = pending[cl].chunk, PendingRight(addr', Reads, p2),
         AddressesStay(addr, addr'),
         \A c \in Chunk \ {pending[cl].chunk} : addr'[c] = addr[c]
  PROVE  PendingInv'
<1>1. /\ pending'[cl] = p2
      /\ \A d \in Client \ {cl} : pending'[d] = pending[d]
  BY DEF TypeInv
<1>2. ASSUME NEW d \in Client \ {cl}
      PROVE  /\ PendingRight(addr', Reads, pending'[d])
             /\ pending[d] # NoPending => /\ pending[d].chunk # pending[cl].chunk
                                          /\ pending[d].chunk # NoBase
  <2>1. PICK p : p = pending[d]
    OBVIOUS
  <2>2. PendingRight(addr, Reads, p)
    BY <2>1 DEF PendingInv
  <2>3. p # NoPending => p.chunk # pending[cl].chunk /\ p.chunk \in Chunk
                         /\ addr[p.chunk].stat = "virtual"
    BY <2>1, <2>2 DEF PendingInv, PendingRight
  <2>4. p # NoPending => addr'[p.chunk].stat = "virtual"
    BY <2>3
  <2>5. PendingRight(addr', Reads, p)
    BY <2>2, <2>4, PendingStays
  <2>6. QED
    BY <1>1, <2>1, <2>3, <2>5, RestoreAssumption
<1>3. ASSUME NEW d \in Client
      PROVE  PendingRight(addr', Reads, pending'[d])
  BY <1>1, <1>2
<1>4. ASSUME NEW d \in Client, pending'[d] # NoPending
      PROVE  session'[d] = "upload"
  BY <1>1, <1>4 DEF PendingInv
<1>5. ASSUME NEW d \in Client, NEW e \in Client, pending'[d].chunk = pending'[e].chunk
      PROVE  d = e \/ pending'[d] = NoPending
  <2>0. NoPending.chunk = NoBase /\ pending[cl].chunk # NoBase
    BY RestoreAssumption DEF PendingInv, PendingRight, NoPending
  <2>1. CASE d = cl /\ e # cl
    BY <1>1, <1>2, <1>5, <2>0, <2>1
  <2>2. CASE d # cl /\ e = cl
    BY <1>1, <1>2, <1>5, <2>0, <2>2
  <2>3. CASE d # cl /\ e # cl
    BY <1>1, <1>5, <2>3 DEF PendingInv
  <2>4. QED
    BY <2>1, <2>2, <2>3
<1>6. QED
  BY <1>3, <1>4, <1>5 DEF PendingInv

(* An item goes into the container in memory.                              *)
LEMMA AddedItem ==
  ASSUME TypeInv, NEW cl \in Client, NEW x \in Bytes, AddItem(cl, x)
  PROVE  /\ ContainerTypeOK(Bytes)'
         /\ StoreGrows(saved, cur, opened, saved', cur', opened')
         /\ NextOffset(cl) \in Nat /\ CurId(cl) \in ContainerId
         /\ \A a : a.container_id = CurId(cl) /\ a.offset = NextOffset(cl) =>
              HasItem(saved', cur', a, x)
<1>1. /\ cur' = [cur EXCEPT ![cl] = Append(@, x)] /\ saved' = saved /\ opened' = opened
      /\ Len(cur[cl]) < ContainerSize
  BY DEF AddItem, HasRoom
<1>2. /\ cur \in [Client -> Seq(Bytes)] /\ saved \in [Client -> Seq(Seq(Bytes))]
      /\ opened \in [Client -> BOOLEAN]
      /\ \A d \in Client : Len(cur[d]) <= ContainerSize
  BY DEF TypeInv, ContainerTypeOK
<1>3. PICK s \in Seq(Bytes), n \in Nat, k \in Nat :
        s = cur[cl] /\ n = Len(s) /\ k = Len(saved[cl])
  BY <1>2
<1>4. PICK s2 : s2 = Append(s, x)
  OBVIOUS
<1>5. s2 \in Seq(Bytes) /\ Len(s2) = n + 1 /\ s2[n + 1] = x
  BY <1>3, <1>4, AppendFacts
<1>6. /\ cur' = [cur EXCEPT ![cl] = s2] /\ cur'[cl] = s2
      /\ \A d \in Client \ {cl} : cur'[d] = cur[d]
  BY <1>1, <1>2, <1>3, <1>4
<1>7. ContainerTypeOK(Bytes)'
  <2>1. cur' \in [Client -> Seq(Bytes)]
    BY <1>2, <1>5, <1>6
  <2>2. Len(s2) <= ContainerSize
    BY <1>1, <1>3, <1>5
  <2>3. \A d \in Client : Len(cur'[d]) <= ContainerSize
    BY <1>2, <1>6, <2>2
  <2>4. QED
    BY <1>1, <1>2, <2>1, <2>3 DEF ContainerTypeOK
<1>8. StoreGrows(saved, cur, opened, saved', cur', opened')
  BY <1>1, <1>3, <1>4, <1>6 DEF StoreGrows
<1>9. NextOffset(cl) = n + 1 /\ CurId(cl) = <<cl, k + 1>> /\ CurId(cl) \in ContainerId
  BY <1>3 DEF NextOffset, CurId, ContainerId
<1>10. ASSUME NEW a, a.container_id = CurId(cl), a.offset = NextOffset(cl)
       PROVE  HasItem(saved', cur', a, x)
  <2>1. PICK id, o : /\ id \in ContainerId /\ id = <<cl, k + 1>>
                       /\ a.container_id = id
                       /\ o = n + 1 /\ a.offset = o
    BY <1>9, <1>10
  <2>2. id[1] = cl /\ id[2] = k + 1 /\ k = Len(saved'[cl]) /\ cur'[cl] = s2
    BY <1>1, <1>3, <1>6, <2>1
  <2>3. o \in DOMAIN s2 /\ s2[o] = x
    BY <1>5, <2>1
  <2>4. QED
    BY <2>1, <2>2, <2>3 DEF HasItem
<1>11. QED
  BY <1>7, <1>8, <1>9, <1>10

(* An address that the writer does not touch.                              *)
LEMMA SameAddressRight ==
  ASSUME TypeInv, StoreGrows(saved, cur, opened, saved', cur', opened'),
         AddressesStay(addr, addr'), NEW c \in Chunk, addr'[c] = addr[c],
         NEW reads, AddressRight(saved, cur, addr, reads, c)
  PROVE  AddressRight(saved', cur', addr', reads, c)
<1>1. saved \in [Client -> Seq(Seq(Bytes))] /\ cur \in [Client -> Seq(Bytes)]
  BY StoreTypes
<1>2. QED
  BY <1>1, AddressStays

(* The fp index after the last write of a chunk.                           *)
LEMMA WrittenRight ==
  ASSUME TypeInv, NEW reads, \A c \in Chunk : AddressRight(saved, cur, addr, reads, c),
         NEW p, p.chunk \in Chunk, addr[p.chunk].stat = "virtual",
         NEW x \in Bytes, Item(addr, reads, p, x),
         StoreGrows(saved, cur, opened, saved', cur', opened'),
         NEW id \in ContainerId, NEW offset \in Nat,
         NEW a, a = [stat |-> p.stat, container_id |-> id, offset |-> offset,
                     base_fp |-> p.base],
         HasItem(saved', cur', a, x), addr' = [addr EXCEPT ![p.chunk] = a]
  PROVE  /\ addr' \in [Chunk -> Addr] /\ AddressesStay(addr, addr')
         /\ \A c \in Chunk : AddressRight(saved', cur', addr', reads, c)
         /\ \A c \in Chunk \ {p.chunk} : addr'[c] = addr[c]
<1>1. addr \in [Chunk -> Addr]
  BY DEF TypeInv
<1>2. addr'[p.chunk] = a /\ \A c \in Chunk \ {p.chunk} : addr'[c] = addr[c]
  BY <1>1
<1>3. /\ a.stat = p.stat /\ a.base_fp = p.base /\ a.container_id = id /\ a.offset = offset
      /\ p.stat \in {"COMP_BASE", "COMP_DELTA", "CACHE_DELTA"}
      /\ p.base \in Chunk \cup {NoBase}
  BY DEF Item, MayBeDelta
<1>4. a \in Addr
  BY <1>3 DEF Addr
<1>5. addr' \in [Chunk -> Addr]
  BY <1>1, <1>4
<1>6. AddressesStay(addr, addr')
  <2>1. ~ IsReal(addr[p.chunk]) /\ a.stat # "none"
    BY <1>3 DEF IsReal
  <2>2. QED
    BY <1>2, <2>1 DEF AddressesStay
<1>7. AddressRight(saved', cur', addr', reads, p.chunk)
  <2>1. CASE p.stat = "COMP_BASE" /\ x = Comp(p.chunk)
    BY <1>2, <1>3, <1>4, <2>1 DEF AddressRight
  <2>2. ASSUME MayBeDelta(addr, p.chunk, p.base, p.stat), NEW r \in reads,
               x = DeltaBytes(p.chunk, p.base, p.stat, r)
        PROVE  AddressRight(saved', cur', addr', reads, p.chunk)
    <3>1. MayBeDelta(addr', p.chunk, p.base, p.stat)
      BY <1>6, <2>2, DeltaStaysDelta
    <3>2. p.stat \in {"COMP_DELTA", "CACHE_DELTA"}
      BY <2>2 DEF MayBeDelta
    <3>3. \E q \in reads : HasItem(saved', cur', a, DeltaBytes(p.chunk, p.base, p.stat, q))
      BY <2>2
    <3>4. QED
      BY <1>2, <1>3, <1>4, <3>1, <3>2, <3>3 DEF AddressRight
  <2>3. QED
    BY <2>1, <2>2 DEF Item, MayBeDelta
<1>8. ASSUME NEW c \in Chunk \ {p.chunk}
      PROVE  AddressRight(saved', cur', addr', reads, c)
  BY <1>2, <1>6, SameAddressRight
<1>9. QED
  BY <1>2, <1>5, <1>6, <1>7, <1>8

(* A step of the writer: it changes containers, addresses and what is      *)
(* pending, and nothing else.                                              *)
LEMMA WriterStepRight ==
  ASSUME RestoreInv, NEW cl \in Client, Uploading(cl),
         UNCHANGED <<cached, fileVars, session, n_upload, container_cache,
                     serverDownVars, wire, clientDownVars, server, countVars,
                     historyVars>>,
         NEW p2, pending' = [pending EXCEPT ![cl] = p2],
         ContainerTypeOK(Bytes)', addr' \in [Chunk -> Addr],
         StoreGrows(saved, cur, opened, saved', cur', opened'),
         AddressesStay(addr, addr'), StoredInv', PendingInv'
  PROVE  RestoreInv'
<1>1. TypeInv /\ FileRight(cl)
  BY DEF RestoreInv, FileInv
<1>2. /\ cached[cl] \in SUBSET Chunk /\ recipe[cl] \in Seq(Chunk)
      /\ key_recipe[cl] \in Seq(Key) /\ session[cl] \in {"off", "upload", "tail"}
  BY <1>1, TypesOf DEF Uploading
<1>3. /\ session' = [session EXCEPT ![cl] = session[cl]]
      /\ cached' = [cached EXCEPT ![cl] = cached[cl]]
      /\ recipe' = [recipe EXCEPT ![cl] = recipe[cl]]
      /\ key_recipe' = [key_recipe EXCEPT ![cl] = key_recipe[cl]]
      /\ container_cache' = [container_cache EXCEPT ![cl] = container_cache[cl]]
      /\ UNCHANGED versions
  BY <1>1 DEF TypeInv, fileVars
<1>4. GoodCache(saved', cur', opened', container_cache[cl])
  BY <1>1, CacheFacts, StoreTypes, CacheStays
<1>5. FileRight(cl)'
  <2>1. Known(recipe[cl], addr')
    BY <1>1, <1>2, KnownStays DEF FileRight
  <2>2. \A c \in cached[cl] : addr'[c].stat # "none"
    BY <1>1, <1>2 DEF FileRight, AddressesStay
  <2>3. /\ UNCHANGED <<versions, n_upload, session, recipe, key_recipe, cached, retriever>>
        /\ FileOf(cl)' = FileOf(cl)
    BY DEF FileOf, fileVars, clientDownVars
  <2>4. QED
    BY <1>1, <2>1, <2>2, <2>3 DEF FileRight
<1>6. QED
  BY <1>2, <1>3, <1>4, <1>5, UploadStepRight

(* An item is written, and with the last one its address.                  *)
LEMMA WriteRight ==
  ASSUME RestoreInv, NEW cl \in Client, Write(cl)
  PROVE  RestoreInv'
<1>1. /\ pending[cl] # NoPending /\ AddItem(cl, Head(pending[cl].bytes))
      /\ UNCHANGED <<cached, fileVars, session, n_upload, container_cache,
                     serverDownVars, wire, clientDownVars, server, countVars,
                     historyVars>>
  BY DEF Write
<1>2. TypeInv /\ StoredInv /\ PendingInv
  BY DEF RestoreInv
<1>3. PICK p : p = pending[cl]
  OBVIOUS
<1>4. PendingRight(addr, Reads, p) /\ p # NoPending /\ session[cl] = "upload"
  BY <1>1, <1>2, <1>3 DEF PendingInv
<1>5. Uploading(cl) /\ UNCHANGED session
  BY <1>1, <1>4 DEF Uploading
<1>6. p.chunk \in Chunk /\ addr[p.chunk].stat = "virtual"
  BY <1>4, NextItem
<1>7. PICK x \in Bytes :
        \/ p.bytes = <<x>> /\ Item(addr, Reads, p, x)
        \/ \E y \in Bytes : /\ p.bytes = <<x, y>>
                            /\ PendingRight(addr, Reads, [p EXCEPT !.bytes = <<y>>])
  BY <1>4, NextItem
<1>8. Head(p.bytes) = x
  <2>1. CASE p.bytes = <<x>>
    BY <2>1
  <2>2. ASSUME NEW y, p.bytes = <<x, y>>
        PROVE  Head(p.bytes) = x
    BY <2>2
  <2>3. QED
    BY <1>7, <2>1, <2>2
<1>9. /\ ContainerTypeOK(Bytes)'
      /\ StoreGrows(saved, cur, opened, saved', cur', opened')
      /\ NextOffset(cl) \in Nat /\ CurId(cl) \in ContainerId
      /\ \A a : a.container_id = CurId(cl) /\ a.offset = NextOffset(cl) =>
           HasItem(saved', cur', a, x)
  BY <1>1, <1>2, <1>3, <1>8, AddedItem
<1>10. ASSUME NEW y, p.bytes = <<x, y>>,
              PendingRight(addr, Reads, [p EXCEPT !.bytes = <<y>>])
       PROVE  RestoreInv'
  <2>1. PICK p2 : p2 = [p EXCEPT !.bytes = <<y>>]
    OBVIOUS
  <2>2. Len(p.bytes) > 1 /\ Len(p.bytes) # 1 /\ Tail(p.bytes) = <<y>>
    BY <1>10
  <2>3. pending' = [pending EXCEPT ![cl].bytes = Tail(@)] /\ UNCHANGED addr
    BY <1>3, <2>2 DEF Write
  <2>4. pending' = [pending EXCEPT ![cl] = p2]
    BY <1>2, <1>3, <2>1, <2>2, <2>3 DEF TypeInv
  <2>5. AddressesStay(addr, addr') /\ addr' \in [Chunk -> Addr]
    BY <1>2, <2>3 DEF AddressesStay, TypeInv
  <2>6. StoredInv'
    <3>1. ASSUME NEW c \in Chunk
          PROVE  AddressRight(saved', cur', addr', Reads, c)
      <4>1. AddressRight(saved, cur, addr, Reads, c) /\ addr'[c] = addr[c]
        BY <1>2, <2>3 DEF StoredInv
      <4>2. QED
        BY <1>2, <1>9, <2>5, <4>1, SameAddressRight
    <3>2. QED
      BY <3>1 DEF StoredInv
  <2>7. p2.chunk = p.chunk
    BY <1>4, <2>1 DEF PendingRight
  <2>8. PendingRight(addr', Reads, p2)
    BY <1>10, <2>1, <2>3
  <2>9. PendingInv'
    BY <1>1, <1>2, <1>3, <1>5, <2>3, <2>4, <2>5, <2>7, <2>8, PendingMoves
  <2>10. QED
    BY <1>1, <1>5, <1>9, <2>4, <2>5, <2>6, <2>9, WriterStepRight
<1>11. ASSUME p.bytes = <<x>>, Item(addr, Reads, p, x)
       PROVE  RestoreInv'
  <2>1. Len(p.bytes) = 1 /\ ~ (Len(p.bytes) > 1)
    BY <1>11
  <2>2. PICK id \in ContainerId, offset \in Nat : id = CurId(cl) /\ offset = NextOffset(cl)
    BY <1>9
  <2>3. PICK a : a = [stat |-> p.stat, container_id |-> id, offset |-> offset,
                      base_fp |-> p.base]
    OBVIOUS
  <2>4. addr' = [addr EXCEPT ![p.chunk] = a] /\ pending' = [pending EXCEPT ![cl] = NoPending]
    BY <1>3, <2>1, <2>2, <2>3 DEF Write
  <2>5. HasItem(saved', cur', a, x)
    BY <1>9, <2>2, <2>3
  <2>6. /\ addr' \in [Chunk -> Addr] /\ AddressesStay(addr, addr')
        /\ \A c \in Chunk : AddressRight(saved', cur', addr', Reads, c)
        /\ \A c \in Chunk \ {p.chunk} : addr'[c] = addr[c]
    <3>1. \A c \in Chunk : AddressRight(saved, cur, addr, Reads, c)
      BY <1>2 DEF StoredInv
    <3>2. QED
      BY <1>2, <1>6, <1>9, <1>11, <2>3, <2>4, <2>5, <3>1, WrittenRight
  <2>7. PendingRight(addr', Reads, NoPending)
    BY DEF PendingRight
  <2>8. PendingInv'
    BY <1>1, <1>2, <1>3, <1>5, <2>4, <2>6, <2>7, PendingMoves
  <2>9. QED
    <3>1. StoredInv'
      BY <2>6 DEF StoredInv
    <3>2. QED
      BY <1>1, <1>5, <1>9, <2>4, <2>6, <2>8, <3>1, WriterStepRight
<1>12. QED
  BY <1>7, <1>10, <1>11

(* A container file is created, and written.                               *)
LEMMA SaveContainerRight ==
  ASSUME RestoreInv, NEW cl \in Client, SaveContainer(cl)
  PROVE  RestoreInv'
<1>1. /\ MustSave(cl)
      /\ OpenFile(cl) \/ CloseFile(cl)
      /\ UNCHANGED <<indexVars, fileVars, session, uploadVars, container_cache,
                     serverDownVars, wire, clientDownVars, server, countVars, historyVars>>
  BY DEF SaveContainer
<1>2. TypeInv /\ StoredInv /\ PendingInv
  BY DEF RestoreInv
<1>3. Uploading(cl)
  BY <1>1, <1>2 DEF MustSave, PendingInv, Uploading
<1>4. /\ cur \in [Client -> Seq(Bytes)] /\ saved \in [Client -> Seq(Seq(Bytes))]
      /\ opened \in [Client -> BOOLEAN]
      /\ \A d \in Client : Len(cur[d]) <= ContainerSize
  BY <1>2 DEF TypeInv, ContainerTypeOK
<1>5. /\ ContainerTypeOK(Bytes)'
      /\ StoreGrows(saved, cur, opened, saved', cur', opened')
  <2>1. CASE OpenFile(cl)
    BY <1>4, <2>1 DEF OpenFile, ContainerTypeOK, StoreGrows
  <2>2. CASE CloseFile(cl)
    <3>1. /\ saved' = [saved EXCEPT ![cl] = Append(@, cur[cl])]
          /\ cur' = [cur EXCEPT ![cl] = <<>>]
          /\ opened' = [opened EXCEPT ![cl] = FALSE]
      BY <2>2 DEF CloseFile
    <3>2. /\ saved' \in [Client -> Seq(Seq(Bytes))] /\ cur' \in [Client -> Seq(Bytes)]
          /\ opened' \in [Client -> BOOLEAN]
      BY <1>4, <3>1
    <3>3. \A d \in Client : Len(cur'[d]) <= ContainerSize
      BY <1>4, <3>1
    <3>4. StoreGrows(saved, cur, opened, saved', cur', opened')
      BY <1>4, <3>1 DEF StoreGrows
    <3>5. QED
      BY <3>2, <3>3, <3>4 DEF ContainerTypeOK
  <2>3. QED
    BY <1>1, <2>1, <2>2
<1>6. UNCHANGED <<addr, cached, pending, n_upload>>
  BY <1>1 DEF indexVars, uploadVars
<1>7. /\ AddressesStay(addr, addr') /\ addr' \in [Chunk -> Addr]
      /\ pending' = [pending EXCEPT ![cl] = pending[cl]]
  BY <1>2, <1>6 DEF AddressesStay, TypeInv
<1>8. StoredInv'
  <2>1. ASSUME NEW c \in Chunk
        PROVE  AddressRight(saved', cur', addr', Reads, c)
    <3>1. AddressRight(saved, cur, addr, Reads, c) /\ addr'[c] = addr[c]
      BY <1>2, <1>6 DEF StoredInv
    <3>2. QED
      BY <1>2, <1>5, <1>7, <3>1, SameAddressRight
  <2>2. QED
    BY <2>1 DEF StoredInv
<1>9. PendingInv'
  BY <1>1, <1>2, <1>6 DEF PendingInv
<1>10. QED
  BY <1>1, <1>3, <1>5, <1>6, <1>7, <1>8, <1>9, WriterStepRight

-----------------------------------------------------------------------------
(* The theorems                                                            *)

(* The invariant holds at the beginning,                                   *)
LEMMA InitRight == Init => RestoreInv
<1> SUFFICES ASSUME Init
             PROVE  RestoreInv
  OBVIOUS
<1> USE DEF Init
<1>1. PICK zero \in Nat, no \in BOOLEAN : zero = 0 /\ no = FALSE
  OBVIOUS
<1>2. /\ IdleReader = [at |-> "off", next |-> zero, batch |-> <<>>, is_end |-> no,
                       raw |-> Raw, delta |-> Junk, want |-> NoBase]
      /\ IdleDecoder = [at |-> "off", send_buf |-> <<>>]
      /\ IdleRetriever = [at |-> "off", n_key |-> zero, keys |-> <<>>, out |-> <<>>]
  BY <1>1 DEF IdleReader, IdleDecoder, IdleRetriever
<1>3. Raw \in RawChunk /\ Junk \in Stored
  BY DEF Raw, RawChunk, Type, Stored
<1>4. /\ <<>> \in Seq(Chunk) /\ <<>> \in Seq(Message) /\ <<>> \in Seq(Key)
      /\ <<>> \in Seq(Chunk \cup {NoBase}) /\ <<>> \in Seq(RawChunk)
      /\ <<>> \in Seq(Seq(Message)) /\ <<>> \in Seq(Bytes) /\ <<>> \in Seq(Seq(Bytes))
      /\ Len(<<>>) = 0
  OBVIOUS
<1>5. IdleReader \in Reader /\ IdleDecoder \in Decoder /\ IdleRetriever \in Retriever
  BY <1>2, <1>3, <1>4 DEF Reader, Decoder, Retriever, Busy
<1>6. NoAddr \in Addr /\ NoAddr.stat = "none"
  BY DEF NoAddr, Addr
<1>7. versions \in [Client -> Seq(Seq(Chunk))]
  BY RestoreAssumption
<1>8. ContainerTypeOK(Bytes)
  BY <1>4, ContainerAssumption DEF ContainerInit, ContainerTypeOK
<1>9. TypeInv
  <2>1. /\ addr \in [Chunk -> Addr] /\ cached \in [Client -> SUBSET Chunk]
        /\ recipe \in [Client -> Seq(Chunk)] /\ key_recipe \in [Client -> Seq(Key)]
        /\ session \in [Client -> Doing] /\ n_upload \in [Client -> Nat]
    BY <1>4, <1>6 DEF Doing
  <2>2. /\ reader \in [Client -> Reader] /\ mq \in [Client -> Seq(RawChunk)]
        /\ decoder \in [Client -> Decoder] /\ wire \in [Client -> Seq(Seq(Message))]
        /\ retriever \in [Client -> Retriever]
    BY <1>4, <1>5
  <2>3. /\ pending = [cl \in Client |-> pending[cl]]
        /\ container_cache = [cl \in Client |-> container_cache[cl]]
        /\ writer \in [Client -> {"off", "run", "end"}]
        /\ doubtful \in [Client -> SUBSET Chunk]
    OBVIOUS
  <2>4. n_download \in 0 .. MaxDownload /\ n_death \in 0 .. MaxDeath
    BY RestoreAssumption
  <2>5. QED
    BY <1>7, <1>8, <2>1, <2>2, <2>3, <2>4 DEF TypeInv
<1>10. StoredInv
  BY <1>6 DEF StoredInv, AddressRight
<1>11. PendingInv
  BY DEF PendingInv, PendingRight
<1>12. CacheInv
  BY NoCache DEF CacheInv
<1>13. FileInv
  <2>1. ASSUME NEW cl \in Client
        PROVE  FileRight(cl)
    <3>1. /\ session[cl] = "off" /\ n_upload[cl] = 0 /\ recipe[cl] = <<>>
          /\ key_recipe[cl] = <<>> /\ cached[cl] = {} /\ retriever[cl].at = "off"
      BY <1>2
    <3>2. 0 <= Len(versions[cl])
      BY <1>7
    <3>3. KeysOf(<<>>, <<>>) /\ Known(<<>>, addr)
      BY DEF KeysOf, Known
    <3>4. QED
      BY <3>1, <3>2, <3>3 DEF FileRight, Reading
  <2>2. QED
    BY <2>1 DEF FileInv
<1>14. DownloadInv
  <2>1. ASSUME NEW cl \in Client
        PROVE  AtServer(cl) /\ AtClient(cl)
    <3>1. /\ session[cl] = "off" /\ reader[cl] = IdleReader /\ mq[cl] = <<>>
          /\ decoder[cl] = IdleDecoder /\ retriever[cl].at = "off" /\ writer[cl] = "off"
      BY <1>2
    <3>2. AtServer(cl)
      BY <1>2, <3>1 DEF AtServer, ServerIdle
    <3>3. AtClient(cl)
      BY <3>1 DEF AtClient, ClientRight, Reading
    <3>4. QED
      BY <3>2, <3>3
  <2>2. QED
    BY <2>1 DEF DownloadInv
<1>15. CauseInv
  BY <1>2 DEF CauseInv
<1>16. QED
  BY <1>9, <1>10, <1>11, <1>12, <1>13, <1>14, <1>15 DEF RestoreInv

(* and if nothing happens,                                                 *)
LEMMA NoStepRight ==
  ASSUME RestoreInv, UNCHANGED vars
  PROVE  RestoreInv'
<1> USE DEF vars, containerVars, indexVars, fileVars, uploadVars, serverDownVars,
            clientDownVars, countVars, historyVars
<1>1. /\ TypeInv /\ StoredInv /\ PendingInv /\ CacheInv /\ FileInv /\ DownloadInv /\ CauseInv
  BY DEF RestoreInv
<1>2. TypeInv'
  BY <1>1 DEF TypeInv, ContainerTypeOK
<1>3. StoredInv' /\ PendingInv' /\ CacheInv'
  BY <1>1 DEF StoredInv, PendingInv, CacheInv
<1>4. FileInv'
  BY <1>1 DEF FileInv, FileRight, FileOf
<1>5. DownloadInv' /\ CauseInv'
  BY <1>1 DEF DownloadInv, AtServer, AtClient, CauseInv
<1>6. QED
  BY <1>2, <1>3, <1>4, <1>5 DEF RestoreInv

(* and every step keeps it.                                                *)
LEMMA NextRight == RestoreInv /\ [Next]_vars => RestoreInv'
<1> SUFFICES ASSUME RestoreInv, [Next]_vars
             PROVE  RestoreInv'
  OBVIOUS
<1>1. ASSUME NEW cl \in Client, server = "up", Upload(cl)
      PROVE  RestoreInv'
  BY <1>1, UploadStartRight, WriteRight, SaveContainerRight, UploadTailRight,
     UploadEndRight, UploadBaseRight, UploadUncompressedRight, UploadSimilarRight
     DEF Upload
<1>2. ASSUME NEW cl \in Client, server = "up", DownloadStart(cl)
      PROVE  RestoreInv'
  BY <1>2, DownloadStartRight
<1>3. ASSUME NEW cl \in Client, ServerDownload(cl)
      PROVE  RestoreInv'
  BY <1>3, ReadRecipeRight, FetchChunkRight, ProcNormalDeltaRight, ProcCacheDeltaRight,
     DecodeBaseRight, DecodeChunkRight, AllDecodedRight, SendChunksRight, SendEndRight,
     ClientClosedRight, DownloadEndRight
     DEF ServerDownload
<1>4. ASSUME NEW cl \in Client, ClientDownload(cl)
      PROVE  RestoreInv'
  BY <1>4, RecvChunkRight, RecvFinalRight, FinishRight, WriterEndRight, ServerGoneRight
     DEF ClientDownload
<1>5. ASSUME NEW cl \in Client, ClientDies(cl)
      PROVE  RestoreInv'
  BY <1>5, ClientDiesRight
<1>6. CASE UNCHANGED vars
  BY <1>6, NoStepRight
<1>7. QED
  BY <1>1, <1>2, <1>3, <1>4, <1>5, <1>6 DEF Next, ServerStep

(* RestoreInv always holds (Restore, all threads of uploads and downloads).*)
THEOREM RestoreInvariant == Spec => []RestoreInv
<1>1. QED
  BY InitRight, NextRight, PTL DEF Spec

(* The shape of the state (ClientVar and the variables of the threads) is  *)
(* that of TypeOK; no container outgrows MAX_CONTAINER_SIZE (WriteChunk,   *)
(* SaveContainer).                                                         *)
THEOREM RestoreTypes == Spec => []TypeOK
<1>1. RestoreInv => TypeOK
  <2> SUFFICES ASSUME RestoreInv
               PROVE  TypeOK
    OBVIOUS
  <2>1. TypeInv /\ PendingInv /\ FileInv
    BY DEF RestoreInv
  <2>2. ASSUME NEW cl \in Client
        PROVE  pending[cl].chunk \in Chunk \cup {NoBase} /\ pending[cl].bytes \in Seq(Bytes)
    <3>1. PICK p : p = pending[cl]
      OBVIOUS
    <3>2. PendingRight(addr, Reads, p)
      BY <2>1, <3>1 DEF PendingInv
    <3>3. CASE p = NoPending
      BY <3>1, <3>3 DEF NoPending
    <3>4. CASE p # NoPending
      <4>1. /\ p.chunk \in Chunk
            /\ \E x \in Bytes :
                 \/ p.bytes = <<x>>
                 \/ \E y \in Bytes : /\ p.bytes = <<x, y>>
                                     /\ PendingRight(addr, Reads, [p EXCEPT !.bytes = <<y>>])
        BY <3>2, <3>4, NextItem
      <4>2. \E x \in Bytes : p.bytes = <<x>> \/ \E y \in Bytes : p.bytes = <<x, y>>
        BY <4>1
      <4>3. \A x, y \in Bytes : <<x>> \in Seq(Bytes) /\ <<x, y>> \in Seq(Bytes)
        OBVIOUS
      <4>4. QED
        BY <3>1, <4>1, <4>2, <4>3
    <3>5. QED
      BY <3>3, <3>4
  <2>3. ASSUME NEW cl \in Client
        PROVE  n_upload[cl] \in 0 .. Len(versions[cl])
    BY <2>1, TypesOf DEF FileInv, FileRight
  <2>4. ASSUME NEW cl \in Client
        PROVE  /\ reader[cl].at \in {"off", "read", "fetch", "base", "base_base", "end"}
               /\ reader[cl].batch \in Seq(Chunk) /\ reader[cl].raw \in RawChunk
    BY <2>1, TypesOf DEF Reader, Busy
  <2>5. ASSUME NEW cl \in Client
        PROVE  /\ decoder[cl].at \in {"off", "pop", "send", "tail", "final", "wait", "end"}
               /\ decoder[cl].send_buf \in Seq(Message)
    BY <2>1, TypesOf DEF Decoder
  <2>6. ASSUME NEW cl \in Client
        PROVE  /\ retriever[cl].at \in {"off", "recv", "closing", "done", "dead"}
               /\ retriever[cl].keys \in Seq(Key)
               /\ retriever[cl].out \in Seq(Chunk \cup {NoBase})
    BY <2>1, TypesOf DEF Retriever
  <2>7. ASSUME NEW cl \in Client
        PROVE  /\ versions[cl] \in Seq(Seq(Chunk)) /\ recipe[cl] \in Seq(Chunk)
               /\ key_recipe[cl] \in Seq(Key)
               /\ session[cl] \in {"off", "upload", "tail", "download"}
               /\ mq[cl] \in Seq(RawChunk) /\ wire[cl] \in Seq(Seq(Message))
               /\ writer[cl] \in {"off", "run", "end"} /\ doubtful[cl] \subseteq Chunk
    BY <2>1, TypesOf DEF Doing
  <2>8. /\ ContainerTypeOK(Bytes) /\ addr \in [Chunk -> Addr]
        /\ cached \in [Client -> SUBSET Chunk]
        /\ server \in {"up", "exit"} /\ n_download \in 0 .. MaxDownload
        /\ n_death \in 0 .. MaxDeath /\ overlapped \in BOOLEAN
    BY <2>1 DEF TypeInv
  <2>9. QED
    BY <2>2, <2>3, <2>4, <2>5, <2>6, <2>7, <2>8 DEF TypeOK
<1>2. QED
  BY <1>1, RestoreInvariant, PTL

(* What a session has in its container cache is what was read from the     *)
(* file of that name, all of it or its beginning (ReadCache, ReadChunk).   *)
THEOREM CachesAreFaithful == Spec => []CachesFaithful
<1>1. RestoreInv => CachesFaithful
  <2> SUFFICES ASSUME RestoreInv, NEW cl \in Client
               PROVE  CacheFaithful(cl)
    BY DEF CachesFaithful
  <2>1. PICK rc : rc = container_cache[cl]
    OBVIOUS
  <2>2. GoodCache(saved, cur, opened, rc)
    BY <2>1 DEF RestoreInv, CacheInv
  <2>3. ASSUME NEW id \in CachedNames(rc), NEW data, data = CachedData(rc, id)
        PROVE  BeginsWith(ContainerFile(id), data)
    <3>1. Knows(saved, cur, opened, id, data)
      BY <2>2, <2>3 DEF GoodCache
    <3>2. PICK d \in Client, k \in Nat : id[1] = d /\ id[2] = k
      BY <3>1, IdParts DEF Knows
    <3>3. Len(saved[d]) \in Nat
      BY TypesOf DEF RestoreInv
    <3>4. CASE k <= Len(saved[d]) /\ BeginsWith(saved[d][k], data)
      BY <3>2, <3>4 DEF ContainerFile, IsSaved
    <3>5. CASE k = Len(saved[d]) + 1 /\ BeginsWith(cur[d], data)
      BY <3>2, <3>3, <3>5 DEF ContainerFile, IsSaved
    <3>6. QED
      BY <3>1, <3>2, <3>4, <3>5 DEF Knows
  <2>4. QED
    BY <2>1, <2>2, <2>3 DEF CacheFaithful, GoodCache
<1>2. QED
  BY <1>1, RestoreInvariant, PTL

(* A file that DownloadWriterThd has written to its end is, chunk for      *)
(* chunk, the file that was uploaded, but for the chunks that were in      *)
(* doubt when the download began (DataReaderThd, DataDecoderThd,           *)
(* DataRetrieverThd).                                                      *)
THEOREM RestoredFileIsUploaded == Spec => []RestoredIsUploaded
<1>1. RestoreInv => RestoredIsUploaded
  <2> SUFFICES ASSUME RestoreInv, NEW cl \in Client, writer[cl] = "end"
               PROVE  /\ Len(retriever[cl].out) = Len(FileOf(cl))
                      /\ \A i \in DOMAIN retriever[cl].out :
                           retriever[cl].out[i] # FileOf(cl)[i] => FileOf(cl)[i] \in doubtful[cl]
    BY DEF RestoredIsUploaded
  <2>1. PICK t \in Retriever, f \in Seq(Chunk) : t = retriever[cl] /\ f = recipe[cl]
    BY TypesOf DEF RestoreInv
  <2>2. AtClient(cl) /\ FileRight(cl)
    BY DEF RestoreInv, DownloadInv, FileInv
  <2>3. /\ t.at = "done" /\ Len(t.out) = Len(f) /\ OutRight(t, f, doubtful[cl])
        /\ session[cl] \in {"off", "download"}
    BY <2>1, <2>2 DEF AtClient, ClientRight, Reading
  <2>4. /\ Len(f) = Len(FileOf(cl)) /\ \A i \in 1 .. Len(f) : f[i] = FileOf(cl)[i]
    BY <2>1, <2>2, <2>3, TypesOf DEF FileRight, Reading, RestoreInv
  <2>5. t.out \in Seq(Chunk \cup {NoBase})
    BY DEF Retriever
  <2>6. DOMAIN t.out = 1 .. Len(f)
    BY <2>3, <2>5
  <2>7. \A i \in 1 .. Len(f) : t.out[i] = f[i] \/ f[i] \in doubtful[cl]
    BY <2>3 DEF OutRight
  <2>8. QED
    BY <2>1, <2>3, <2>4, <2>6, <2>7
<1>2. QED
  BY <1>1, RestoreInvariant, PTL

(* No thread of a download calls exit() unless a chunk was in doubt or a   *)
(* client died (FetchChunk, ProcNormalDelta, ProcCacheDelta, DecodeChunk,  *)
(* SendChunks).                                                            *)
THEOREM ExitsOnlyInDoubt == Spec => []ExitOnlyInDoubt
<1>1. RestoreInv => ExitOnlyInDoubt
  BY DEF RestoreInv, CauseInv, ExitOnlyInDoubt
<1>2. QED
  BY <1>1, RestoreInvariant, PTL

-----------------------------------------------------------------------------
(* As long as no two uploads were in progress at once                      *)

(* What is in a completely written file stays there.                       *)
LEMMA InFileStays ==
  ASSUME NEW sv, NEW sv2, Kept(sv, sv2), NEW a, InFileAt(sv, a), a.container_id \in ContainerId
  PROVE  InFileAt(sv2, a)
<1>1. PICK id \in ContainerId : id = a.container_id
  OBVIOUS
<1>2. id[2] <= Len(sv[id[1]])
  BY <1>1 DEF InFileAt
<1>3. id[2] <= Len(sv2[id[1]])
  BY <1>2 DEF Kept
<1>4. QED
  BY <1>1, <1>3 DEF InFileAt

(* Where the bytes of a chunk are, and of which chunk it is a delta.       *)
LEMMA RealAddress ==
  ASSUME RestoreInv, NEW c \in Chunk, IsReal(addr[c])
  PROVE  /\ addr[c].stat \in {"COMP_BASE", "COMP_DELTA", "CACHE_DELTA"}
         /\ addr[c].container_id \in ContainerId
         /\ \E x : HasItem(saved, cur, addr[c], x)
         /\ addr[c].stat # "COMP_BASE" =>
              MayBeDelta(addr, c, addr[c].base_fp, addr[c].stat)
<1>1. AddressRight(saved, cur, addr, Reads, c)
  BY DEF RestoreInv, StoredInv
<1>2. addr[c].stat \in {"COMP_BASE", "COMP_DELTA", "CACHE_DELTA"}
  BY <1>1 DEF AddressRight, IsReal, Addr
<1>3. \E x : HasItem(saved, cur, addr[c], x)
  BY <1>1, <1>2 DEF AddressRight
<1>4. addr[c].container_id \in ContainerId
  BY <1>3 DEF HasItem
<1>5. QED
  BY <1>1, <1>2, <1>3, <1>4 DEF AddressRight

(* So does what a chunk needs,                                             *)
LEMMA SettledStays ==
  ASSUME RestoreInv, NEW sv2, Kept(saved, sv2), NEW ad2, AddressesStay(addr, ad2),
         NEW c \in Chunk, Settled(saved, addr, c)
  PROVE  Settled(sv2, ad2, c)
<1>1. ASSUME NEW b \in Chunk, InFileAt(saved, addr[b])
      PROVE  ad2[b] = addr[b] /\ InFileAt(sv2, addr[b])
  <2>1. IsReal(addr[b])
    BY <1>1 DEF InFileAt
  <2>2. addr[b].container_id \in ContainerId /\ ad2[b] = addr[b]
    BY <2>1, RealAddress DEF AddressesStay
  <2>3. QED
    BY <1>1, <2>2, InFileStays
<1>2. /\ InFileAt(saved, addr[c])
      /\ ad2[c] = addr[c] /\ InFileAt(sv2, addr[c])
  BY <1>1 DEF Settled
<1>3. CASE addr[c].stat = "COMP_BASE"
  BY <1>2, <1>3 DEF Settled
<1>4. CASE addr[c].stat # "COMP_BASE"
  <2>1. PICK b \in Chunk : b = addr[c].base_fp
    BY <1>2, <1>4, RealAddress DEF InFileAt, MayBeDelta
  <2>2. InFileAt(saved, addr[b]) /\ ad2[b] = addr[b] /\ InFileAt(sv2, addr[b])
    BY <1>1, <1>4, <2>1 DEF Settled
  <2>3. CASE addr[b].stat = "COMP_DELTA"
    <3>1. PICK e \in Chunk : e = addr[b].base_fp
      BY <2>2, <2>3, RealAddress DEF InFileAt, MayBeDelta
    <3>2. InFileAt(saved, addr[e])
      BY <1>4, <2>1, <2>3, <3>1 DEF Settled
    <3>3. ad2[e] = addr[e] /\ InFileAt(sv2, addr[e])
      BY <1>1, <3>2
    <3>4. QED
      BY <1>2, <2>1, <2>2, <3>1, <3>3 DEF Settled
  <2>4. CASE addr[b].stat # "COMP_DELTA"
    BY <1>2, <2>1, <2>2, <2>4 DEF Settled
  <2>5. QED
    BY <2>3, <2>4
<1>5. QED
  BY <1>3, <1>4

(* and what a file needs.                                                  *)
LEMMA FileStaysSettled ==
  ASSUME RestoreInv, NEW sv2, Kept(saved, sv2), NEW ad2, AddressesStay(addr, ad2),
         NEW f \in Seq(Chunk), FileSettled(saved, addr, f)
  PROVE  FileSettled(sv2, ad2, f)
<1>1. ASSUME NEW i \in 1 .. Len(f)
      PROVE  Settled(sv2, ad2, f[i])
  <2>1. PICK c \in Chunk : c = f[i]
    OBVIOUS
  <2>2. Settled(saved, addr, c)
    BY <2>1 DEF FileSettled
  <2>3. Settled(sv2, ad2, c)
    BY <2>2, SettledStays
  <2>4. QED
    BY <2>1, <2>3
<1>2. QED
  BY <1>1 DEF FileSettled

(* A delta of a delta of a cached chunk stays one.                         *)
LEMMA MultiLevelStays ==
  ASSUME RestoreInv, NEW ad2, AddressesStay(addr, ad2), NEW db \in SUBSET Chunk,
         AllMultiLevel(addr, db)
  PROVE  AllMultiLevel(ad2, db)
<1>1. ASSUME NEW c \in db
      PROVE  ad2[c].stat = "CACHE_DELTA" /\ ad2[ad2[c].base_fp].stat = "CACHE_DELTA"
  <2>1. addr[c].stat = "CACHE_DELTA" /\ addr[addr[c].base_fp].stat = "CACHE_DELTA"
    BY DEF AllMultiLevel
  <2>2. IsReal(addr[c]) /\ c \in Chunk
    BY <2>1 DEF IsReal
  <2>3. PICK b \in Chunk : b = addr[c].base_fp
    BY <2>1, <2>2, RealAddress DEF MayBeDelta
  <2>4. IsReal(addr[b])
    BY <2>1, <2>3 DEF IsReal
  <2>5. ad2[c] = addr[c] /\ ad2[b] = addr[b]
    BY <2>2, <2>4 DEF AddressesStay
  <2>6. QED
    BY <2>1, <2>3, <2>5
<1>2. QED
  BY <1>1 DEF AllMultiLevel

(* A chunk in completely written files that was encoded against the whole  *)
(* of its base, or against nothing, is safe, unless it is a delta of a     *)
(* delta of a cached chunk.                                                *)
LEMMA CompIsInFile ==
  ASSUME RestoreInv, WholeStored, NEW c \in Chunk, InFile(c),
         \/ addr[c].stat = "COMP_BASE"
         \/ addr[c].stat = "COMP_DELTA" /\ InFile(addr[c].base_fp)
  PROVE  CompInFile(c)
<1>1. CASE addr[c].stat = "COMP_BASE"
  BY <1>1 DEF CompInFile, BaseInFile
<1>2. CASE addr[c].stat = "COMP_DELTA" /\ InFile(addr[c].base_fp)
  <2>1. AddressRight(saved, cur, addr, NotTorn, c)
    BY DEF WholeStored
  <2>2. HeldAt(saved, EmptyCache, addr, c) /\ Content(c) = BytesAt(saved, addr, c)
    BY InFileIsHeld
  <2>3. saved \in [Client -> Seq(Seq(Bytes))]
    BY StoreTypes DEF RestoreInv
  <2>4. PICK b \in Chunk, r \in NotTorn :
          /\ addr[c].base_fp = b /\ addr[b].stat = "COMP_BASE"
          /\ BytesAt(saved, addr, c) = Delta(Comp(c), Comp(b), r)
    BY <1>2, <2>1, <2>2, <2>3, HeldDeltaBytes
  <2>5. Content(c).read = r
    BY <2>2, <2>4, ReadOfDelta
  <2>6. QED
    BY <1>2, <2>4, <2>5 DEF CompInFile, BaseInFile, NotTorn
<1>3. QED
  BY <1>1, <1>2

(* So what a settled chunk is in doubt for is just this.                   *)
LEMMA SettledIsSafe ==
  ASSUME RestoreInv, WholeStored, NEW cl \in Client, NEW c \in Chunk,
         Settled(saved, addr, c), ~Safe(cl, c)
  PROVE  addr[c].stat = "CACHE_DELTA" /\ addr[addr[c].base_fp].stat = "CACHE_DELTA"
<1>1. \A b \in Chunk : InFileAt(saved, addr[b]) <=> InFile(b)
  BY DEF InFile, InFileAt, IsSaved
<1>2. InFile(c) /\ IsReal(addr[c]) /\ InFileAt(saved, addr[c])
  BY <1>1 DEF Settled, InFileAt
<1>3. addr[c].stat # "COMP_BASE"
  BY <1>2, CompIsInFile DEF Safe
<1>4. PICK b \in Chunk : b = addr[c].base_fp
  BY <1>2, <1>3, RealAddress DEF MayBeDelta
<1>5. InFile(b) /\ IsReal(addr[b])
  BY <1>1, <1>3, <1>4 DEF Settled, InFileAt
<1>6. addr[c].stat = "CACHE_DELTA"
  <2>1. addr[c].stat # "COMP_DELTA"
    BY <1>2, <1>4, <1>5, CompIsInFile DEF Safe
  <2>2. QED
    BY <1>2, <1>3, <2>1, RealAddress
<1>7. ~ CompInFile(b)
  BY <1>2, <1>4, <1>6 DEF Safe
<1>8. addr[b].stat # "COMP_BASE"
  BY <1>5, <1>7, CompIsInFile
<1>9. addr[b].stat # "COMP_DELTA"
  <2>1. SUFFICES ASSUME addr[b].stat = "COMP_DELTA"
                 PROVE  FALSE
    OBVIOUS
  <2>2. PICK e \in Chunk : e = addr[b].base_fp
    BY <1>5, <2>1, RealAddress DEF MayBeDelta
  <2>3. InFile(e)
    BY <1>1, <1>3, <1>4, <2>1, <2>2 DEF Settled
  <2>4. QED
    BY <1>5, <1>7, <2>1, <2>2, <2>3, CompIsInFile
<1>10. QED
  BY <1>4, <1>5, <1>6, <1>8, <1>9, RealAddress

(* A step that has nothing to do with an upload.                           *)
LEMMA QuietStep ==
  ASSUME RestoreInv, SerialInv, NEW cl \in Client,
         UNCHANGED <<containerVars, addr, recipe, pending, historyVars>>,
         \/ session' = session
         \/ session[cl] = "download" /\ session' = [session EXCEPT ![cl] = "off"],
         \/ container_cache' = container_cache
         \/ /\ session[cl] = "download"
            /\ \E rc : container_cache' = [container_cache EXCEPT ![cl] = rc]
  PROVE  SerialInv'
<1> SUFFICES ASSUME ~overlapped
             PROVE  Serial'
  BY DEF SerialInv, historyVars
<1>1. TypeInv /\ OneUpload /\ WholeStored /\ Promised /\ \A d \in Client : SerialAt(d)
  BY DEF SerialInv, Serial, RestoreInv
<1>2. ASSUME NEW d \in Client
      PROVE  /\ session'[d] = "upload" <=> session[d] = "upload"
             /\ session'[d] = "tail" <=> session[d] = "tail"
             /\ session[d] = "upload" => container_cache'[d] = container_cache[d]
             /\ Uploading(d)' <=> Uploading(d)
  <2>1. /\ session'[d] = "upload" <=> session[d] = "upload"
        /\ session'[d] = "tail" <=> session[d] = "tail"
    BY <1>1 DEF TypeInv
  <2>2. session[d] = "upload" => container_cache'[d] = container_cache[d]
    BY <1>1 DEF TypeInv
  <2>3. QED
    BY <2>1, <2>2 DEF Uploading
<1>3. OneUpload'
  BY <1>1, <1>2 DEF OneUpload
<1>4. WholeStored' /\ Promised'
  BY <1>1 DEF WholeStored, Promised, containerVars
<1>5. ASSUME NEW d \in Client
      PROVE  SerialAt(d)'
  <2>1. SerialAt(d)
    BY <1>1
  <2>2. SavingRight(d)'
    BY <1>2, <2>1 DEF SerialAt, SavingRight, HasRoom, containerVars
  <2>3. session'[d] = "upload" => CacheWhole(saved', container_cache'[d])
    BY <1>2, <2>1 DEF SerialAt, containerVars
  <2>4. ~Uploading(d)' => FileSettled(saved', addr', recipe'[d])
    BY <1>2, <2>1 DEF SerialAt, containerVars
  <2>5. PendingRight(addr', NotTorn, pending'[d]) /\ AllMultiLevel(addr', doubtful'[d])
    BY <2>1 DEF SerialAt, historyVars
  <2>6. QED
    BY <2>2, <2>3, <2>4, <2>5 DEF SerialAt
<1>6. QED
  BY <1>3, <1>4, <1>5 DEF Serial

(* A step of a reader is one.                                              *)
LEMMA ReaderIsQuiet ==
  ASSUME RestoreInv, SerialInv, NEW cl \in Client,
         reader[cl].at \in {"read", "fetch", "base", "base_base"},
         ReaderOnly \/ Exit,
         \/ container_cache' = container_cache
         \/ \E rc : container_cache' = [container_cache EXCEPT ![cl] = rc]
  PROVE  SerialInv'
<1>1. session[cl] = "download"
  BY InDownloadFacts
<1>2. /\ UNCHANGED <<containerVars, addr, recipe, pending, historyVars>>
      /\ session' = session
  BY DEF ReaderOnly, Exit, indexVars, fileVars, uploadVars
<1>3. QED
  BY <1>1, <1>2, QuietStep

(* So are the steps of the server's side of a download,                    *)
LEMMA ServerDownloadSerial ==
  ASSUME RestoreInv, SerialInv, NEW cl \in Client, ServerDownload(cl)
  PROVE  SerialInv'
<1>1. CASE ReadRecipe(cl)
  BY <1>1, ReaderIsQuiet DEF ReadRecipe
<1>2. CASE FetchChunk(cl)
  <2>1. /\ reader[cl].at = "fetch" /\ (ReaderOnly \/ Exit)
        /\ \/ container_cache' = container_cache
           \/ \E rc : container_cache' = [container_cache EXCEPT ![cl] = rc]
    BY <1>2 DEF FetchChunk, KeepCache, Exit
  <2>2. QED
    BY <2>1, ReaderIsQuiet
<1>3. CASE ProcNormalDelta(cl)
  <2>1. /\ reader[cl].at = "base" /\ (ReaderOnly \/ Exit)
        /\ \/ container_cache' = container_cache
           \/ \E rc : container_cache' = [container_cache EXCEPT ![cl] = rc]
    BY <1>3 DEF ProcNormalDelta, KeepCache, Exit
  <2>2. QED
    BY <2>1, ReaderIsQuiet
<1>4. CASE ProcCacheDelta(cl)
  <2>1. /\ reader[cl].at = "base" /\ (ReaderOnly \/ Exit)
        /\ \/ container_cache' = container_cache
           \/ \E rc : container_cache' = [container_cache EXCEPT ![cl] = rc]
    BY <1>4 DEF ProcCacheDelta, KeepCache, Exit
  <2>2. QED
    BY <2>1, ReaderIsQuiet
<1>5. CASE DecodeBase(cl)
  <2>1. /\ reader[cl].at = "base_base" /\ (ReaderOnly \/ Exit)
        /\ \/ container_cache' = container_cache
           \/ \E rc : container_cache' = [container_cache EXCEPT ![cl] = rc]
    BY <1>5 DEF DecodeBase, KeepCache, Exit
  <2>2. QED
    BY <2>1, ReaderIsQuiet
<1>6. CASE DecoderOnly \/ Exit
  <2>1. /\ UNCHANGED <<containerVars, addr, recipe, pending, historyVars>>
        /\ session' = session /\ container_cache' = container_cache
    BY <1>6 DEF DecoderOnly, Exit, indexVars, fileVars, uploadVars
  <2>2. QED
    BY <2>1, QuietStep
<1>7. CASE DownloadEnd(cl)
  <2>1. /\ UNCHANGED <<containerVars, addr, recipe, pending, historyVars>>
        /\ session[cl] = "download" /\ session' = [session EXCEPT ![cl] = "off"]
        /\ container_cache' = container_cache
    BY <1>7 DEF DownloadEnd, indexVars, fileVars, uploadVars
  <2>2. QED
    BY <2>1, QuietStep
<1>8. QED
  BY <1>1, <1>2, <1>3, <1>4, <1>5, <1>6, <1>7
     DEF ServerDownload, DecodeChunk, AllDecoded, SendChunks, SendEnd, ClientClosed

(* and of the client's.                                                    *)
LEMMA ClientSerial ==
  ASSUME RestoreInv, SerialInv, NEW cl \in Client, ClientDownload(cl) \/ ClientDies(cl)
  PROVE  SerialInv'
<1>1. ClientOnly
  BY DEF ClientDownload, RecvChunk, RecvFinal, Finish, WriterEnd, ServerGone, ClientDies
<1>2. /\ UNCHANGED <<containerVars, addr, recipe, pending, historyVars>>
      /\ session' = session /\ container_cache' = container_cache
  BY <1>1 DEF ClientOnly, indexVars, fileVars, uploadVars
<1>3. QED
  BY <1>2, QuietStep

(* A download begins: of its file only such deltas are in doubt.           *)
LEMMA DownloadStartSerial ==
  ASSUME RestoreInv, SerialInv, NEW cl \in Client, DownloadStart(cl)
  PROVE  SerialInv'
<1> SUFFICES ASSUME ~overlapped
             PROVE  Serial'
  BY DEF SerialInv, DownloadStart
<1>1. /\ session[cl] = "off" /\ session' = [session EXCEPT ![cl] = "download"]
      /\ container_cache' = [container_cache EXCEPT ![cl] = EmptyCache]
      /\ doubtful' = [doubtful EXCEPT ![cl] =
                        {c \in {recipe[cl][i] : i \in DOMAIN recipe[cl]} : ~Safe(cl, c)}]
      /\ UNCHANGED <<containerVars, addr, recipe, pending>>
  BY DEF DownloadStart, indexVars, fileVars, uploadVars
<1>2. TypeInv /\ OneUpload /\ WholeStored /\ Promised /\ \A d \in Client : SerialAt(d)
  BY DEF SerialInv, Serial, RestoreInv
<1>3. /\ ~Uploading(cl) /\ session'[cl] = "download"
      /\ \A d \in Client \ {cl} :
           /\ session'[d] = session[d] /\ container_cache'[d] = container_cache[d]
           /\ doubtful'[d] = doubtful[d]
  BY <1>1, <1>2 DEF TypeInv, Uploading
<1>4. \A d \in Client : Uploading(d)' <=> Uploading(d)
  BY <1>3 DEF Uploading
<1>5. OneUpload' /\ WholeStored' /\ Promised'
  BY <1>1, <1>2, <1>4 DEF OneUpload, WholeStored, Promised, containerVars
<1>6. AllMultiLevel(addr', doubtful'[cl])
  <2>1. doubtful'[cl] = {c \in {recipe[cl][i] : i \in DOMAIN recipe[cl]} : ~Safe(cl, c)}
    BY <1>1, <1>2 DEF TypeInv
  <2>2. ASSUME NEW c \in doubtful'[cl]
        PROVE  addr[c].stat = "CACHE_DELTA" /\ addr[addr[c].base_fp].stat = "CACHE_DELTA"
    <3>1. PICK f \in Seq(Chunk) : f = recipe[cl]
      BY <1>2, TypesOf
    <3>2. FileSettled(saved, addr, f) /\ DOMAIN f = 1 .. Len(f)
      BY <1>2, <1>3, <3>1 DEF SerialAt
    <3>3. PICK i \in 1 .. Len(f) : c = f[i] /\ ~Safe(cl, c)
      BY <2>1, <2>2, <3>1, <3>2
    <3>4. c \in Chunk /\ Settled(saved, addr, c)
      BY <3>2, <3>3 DEF FileSettled
    <3>5. QED
      BY <1>2, <3>3, <3>4, SettledIsSafe
  <2>3. QED
    BY <1>1, <2>2 DEF AllMultiLevel
<1>7. ASSUME NEW d \in Client
      PROVE  SerialAt(d)'
  <2>1. SerialAt(d)
    BY <1>2
  <2>2. SavingRight(d)'
    BY <1>1, <1>3, <1>4, <2>1 DEF SerialAt, SavingRight, HasRoom, containerVars, Uploading
  <2>3. session'[d] = "upload" => CacheWhole(saved', container_cache'[d])
    BY <1>1, <1>3, <2>1 DEF SerialAt, containerVars
  <2>4. ~Uploading(d)' => FileSettled(saved', addr', recipe'[d])
    BY <1>1, <1>4, <2>1 DEF SerialAt, containerVars
  <2>5. PendingRight(addr', NotTorn, pending'[d]) /\ AllMultiLevel(addr', doubtful'[d])
    BY <1>1, <1>3, <1>6, <2>1 DEF SerialAt
  <2>6. QED
    BY <2>2, <2>3, <2>4, <2>5 DEF SerialAt
<1>8. QED
  BY <1>5, <1>7 DEF Serial

(* The only upload begins.                                                 *)
LEMMA UploadStartSerial ==
  ASSUME RestoreInv, SerialInv, NEW cl \in Client, UploadStart(cl)
  PROVE  SerialInv'
<1> SUFFICES ASSUME ~overlapped'
             PROVE  Serial'
  BY DEF SerialInv
<1>1. /\ session[cl] = "off" /\ session' = [session EXCEPT ![cl] = "upload"]
      /\ container_cache' = [container_cache EXCEPT ![cl] = EmptyCache]
      /\ recipe' = [recipe EXCEPT ![cl] = <<>>]
      /\ overlapped' = (overlapped \/ \E d \in Client : Uploading(d))
      /\ UNCHANGED <<containerVars, addr, pending, doubtful>>
  BY DEF UploadStart, indexVars
<1>2. ~overlapped /\ \A d \in Client : ~Uploading(d)
  BY <1>1
<1>3. TypeInv /\ WholeStored /\ Promised /\ \A d \in Client : SerialAt(d)
  BY <1>2 DEF SerialInv, Serial, RestoreInv
<1>4. /\ session'[cl] = "upload" /\ container_cache'[cl] = EmptyCache
      /\ \A d \in Client \ {cl} :
           /\ session'[d] = session[d] /\ container_cache'[d] = container_cache[d]
           /\ recipe'[d] = recipe[d]
  BY <1>1, <1>3 DEF TypeInv
<1>5. Uploading(cl)' /\ \A d \in Client \ {cl} : ~Uploading(d)'
  BY <1>2, <1>4 DEF Uploading
<1>6. OneUpload' /\ WholeStored' /\ Promised'
  BY <1>1, <1>3, <1>5 DEF OneUpload, WholeStored, Promised, containerVars
<1>7. ASSUME NEW d \in Client
      PROVE  SerialAt(d)'
  <2>1. SerialAt(d) /\ cur[d] = <<>> /\ ~opened[d]
    BY <1>2, <1>3 DEF SerialAt, SavingRight, Uploading
  <2>2. SavingRight(d)'
    BY <1>1, <2>1 DEF SavingRight, containerVars
  <2>3. session'[d] = "upload" => CacheWhole(saved', container_cache'[d])
    <3>1. session'[d] = "upload" => d = cl
      BY <1>5 DEF Uploading
    <3>2. CacheWhole(saved', EmptyCache)
      BY NoCache DEF CacheWhole
    <3>3. QED
      BY <1>4, <3>1, <3>2
  <2>4. ~Uploading(d)' => FileSettled(saved', addr', recipe'[d])
    BY <1>1, <1>2, <1>4, <1>5, <2>1 DEF SerialAt, containerVars
  <2>5. PendingRight(addr', NotTorn, pending'[d]) /\ AllMultiLevel(addr', doubtful'[d])
    BY <1>1, <2>1 DEF SerialAt
  <2>6. QED
    BY <2>2, <2>3, <2>4, <2>5 DEF SerialAt
<1>8. QED
  BY <1>6, <1>7 DEF Serial

(* A step of the upload in progress, of which nothing is known but that    *)
(* it keeps what is stored.                                                *)
LEMMA SerialStep ==
  ASSUME RestoreInv, Serial, NEW cl \in Client, Uploading(cl), OthersSame(cl),
         StoreGrows(saved, cur, opened, saved', cur', opened'),
         \A d \in Client \ {cl} : /\ cur'[d] = cur[d] /\ opened'[d] = opened[d]
                                  /\ pending'[d] = pending[d],
         AddressesStay(addr, addr'), doubtful' = doubtful,
         WholeStored', Promised', SavingRight(cl)',
         PendingRight(addr', NotTorn, pending'[cl]),
         session'[cl] = "upload" => CacheWhole(saved', container_cache'[cl]),
         ~Uploading(cl)' => FileSettled(saved', addr', recipe'[cl])
  PROVE  Serial'
<1>1. TypeInv /\ PendingInv /\ OneUpload /\ WholeStored /\ \A d \in Client : SerialAt(d)
  BY DEF Serial, RestoreInv
<1>2. ASSUME NEW d \in Client \ {cl}
      PROVE  ~Uploading(d) /\ ~Uploading(d)' /\ session'[d] # "upload"
  <2>1. ~Uploading(d)
    BY <1>1 DEF OneUpload
  <2>2. session'[d] = session[d]
    BY DEF OthersSame
  <2>3. QED
    BY <2>1, <2>2 DEF Uploading
<1>3. OneUpload'
  BY <1>2 DEF OneUpload
<1>4. Kept(saved, saved')
  BY <1>1, GrowthKeeps, StoreTypes
<1>5. ASSUME NEW d \in Client
      PROVE  AllMultiLevel(addr', doubtful'[d])
  <2>1. doubtful[d] \in SUBSET Chunk /\ AllMultiLevel(addr, doubtful[d])
    BY <1>1, TypesOf DEF SerialAt
  <2>2. PICK db \in SUBSET Chunk : db = doubtful[d]
    BY <2>1
  <2>3. AllMultiLevel(addr', db)
    BY <2>1, <2>2, MultiLevelStays
  <2>4. QED
    BY <2>2, <2>3
<1>6. ASSUME NEW d \in Client \ {cl}
      PROVE  SerialAt(d)'
  <2>1. SerialAt(d)
    BY <1>1
  <2>2. SavingRight(d)'
    BY <1>2, <2>1 DEF SerialAt, SavingRight, Uploading
  <2>3. PendingRight(addr', NotTorn, pending'[d])
    <3>1. pending[d] = NoPending
      BY <1>1, <1>2 DEF PendingInv, Uploading
    <3>2. QED
      BY <3>1 DEF PendingRight
  <2>4. FileSettled(saved', addr', recipe'[d])
    <3>1. PICK f \in Seq(Chunk) : f = recipe[d]
      BY <1>1, TypesOf
    <3>2. FileSettled(saved, addr, f)
      BY <1>2, <2>1, <3>1 DEF SerialAt
    <3>3. FileSettled(saved', addr', f)
      BY <1>4, <3>2, FileStaysSettled
    <3>4. recipe'[d] = f
      BY <3>1 DEF OthersSame
    <3>5. QED
      BY <3>3, <3>4
  <2>5. QED
    BY <1>2, <1>5, <2>2, <2>3, <2>4 DEF SerialAt
<1>7. SerialAt(cl)'
  BY <1>5 DEF SerialAt
<1>8. QED
  BY <1>3, <1>6, <1>7 DEF Serial

(* Nothing is saved while the uploader has nothing to write.               *)
LEMMA NothingOpen ==
  ASSUME RestoreInv, Serial, NEW cl \in Client, session[cl] = "upload",
         pending[cl] = NoPending \/ HasRoom(cl), NEW d \in Client
  PROVE  ~opened[d]
<1>1. OneUpload /\ SavingRight(d)
  BY DEF Serial, SerialAt
<1>2. CASE d = cl
  BY <1>1, <1>2 DEF SavingRight
<1>3. CASE d # cl
  <2>1. ~Uploading(d)
    BY <1>1, <1>3 DEF OneUpload, Uploading
  <2>2. QED
    BY <1>1, <2>1 DEF SavingRight, Uploading
<1>4. QED
  BY <1>2, <1>3

(* A base that is held is read as it was written.                          *)
LEMMA HeldIsComp ==
  ASSUME RestoreInv, NEW rc, NEW b \in Chunk, addr[b].stat = "COMP_BASE",
         HeldAt(saved, rc, addr, b)
  PROVE  BytesAt(saved, addr, b) = Comp(b)
<1>1. HeldBase(saved, rc, addr, b)
  BY DEF HeldBase
<1>2. AddressRight(saved, cur, addr, Reads, b) /\ saved \in [Client -> Seq(Seq(Bytes))]
  BY StoreTypes DEF RestoreInv, StoredInv
<1>3. QED
  BY <1>1, <1>2, HeldBaseBytes

(* ReadChunk of the base of a similar chunk: all of it is there.           *)
LEMMA BaseIsRead ==
  ASSUME RestoreInv, Serial, NEW cl \in Client, session[cl] = "upload",
         pending[cl] = NoPending, NEW b \in Chunk, addr[b].stat = "COMP_BASE",
         NEW r \in ReadChunk(cl, addr[b])
  PROVE  CacheWhole(saved, r.cache) /\ (r.found => r.bytes = Comp(b))
<1>1. PICK a, rc, id : a = addr[b] /\ rc = container_cache[cl] /\ id = a.container_id
  OBVIOUS
<1>2. IsReal(a) /\ AddressRight(saved, cur, addr, Reads, b)
  BY <1>1 DEF IsReal, RestoreInv, StoredInv
<1>3. id \in ContainerId /\ HasItem(saved, cur, a, Comp(b))
  BY <1>1, <1>2 DEF AddressRight, HasItem
<1>4. /\ CacheWhole(saved, rc) /\ GoodCache(saved, cur, opened, rc)
      /\ TypeInv /\ saved \in [Client -> Seq(Seq(Bytes))]
  BY <1>1, CacheFacts, StoreTypes DEF Serial, SerialAt, RestoreInv
<1>5. PICK d \in Client, k \in Nat \ {0} : id[1] = d /\ id[2] = k
  BY <1>3, IdParts
<1>6. Held(saved, rc, a) => r.bytes = Comp(b)
  <2>1. HeldAt(saved, rc, addr, b) => r.bytes = BytesAt(saved, addr, b)
    BY <1>1, ReadFacts
  <2>2. HeldAt(saved, rc, addr, b) => BytesAt(saved, addr, b) = Comp(b)
    BY HeldIsComp
  <2>3. QED
    BY <1>1, <2>1, <2>2 DEF HeldAt
<1>7. CASE Exist(rc, id)
  <2>1. r.cache = Touch(rc, id)
    BY <1>1, <1>2, <1>7 DEF ReadChunk, Found
  <2>2. PICK t : t = Touch(rc, id)
    OBVIOUS
  <2>3. /\ CachedNames(t) = CachedNames(rc)
        /\ \A m \in CachedNames(t) : CachedData(t, m) = CachedData(rc, m)
    BY <1>4, <1>7, <2>2, TouchFacts DEF GoodCache
  <2>4. CacheWhole(saved, t)
    BY <1>4, <2>3 DEF CacheWhole, Whole, Exist
  <2>5. Held(saved, rc, a)
    BY <1>1, <1>2, <1>3, <1>4, <1>7 DEF Held, CacheWhole, Exist
  <2>6. QED
    BY <1>6, <2>1, <2>2, <2>4, <2>5
<1>8. CASE ~Exist(rc, id) /\ FileBytes(id) # {}
  <2>1. ~IsOpened(id)
    BY <1>5, NothingOpen DEF IsOpened
  <2>2. k <= Len(saved[d]) /\ FileBytes(id) = {saved[d][k]}
    BY <1>5, <1>8, <2>1 DEF FileBytes, IsSaved
  <2>3. PICK content, t : content = saved[d][k] /\ t = Insert(rc, id, content)
    OBVIOUS
  <2>4. r.cache = t
    BY <1>1, <1>2, <1>8, <2>2, <2>3 DEF ReadChunk, Found
  <2>5. /\ CachedNames(t) \subseteq CachedNames(rc) \cup {id}
        /\ \A m \in CachedNames(t) :
             CachedData(t, m) = IF m = id THEN content ELSE CachedData(rc, m)
    BY <1>4, <1>8, <2>3, InsertFacts DEF GoodCache
  <2>6. CacheWhole(saved, t)
    <3>1. ASSUME NEW m \in CachedNames(t)
          PROVE  Whole(saved, t, m)
      <4>1. CASE m = id
        BY <1>5, <2>2, <2>3, <2>5, <4>1 DEF Whole
      <4>2. CASE m # id
        BY <1>4, <2>5, <4>2 DEF CacheWhole, Whole, Exist
      <4>3. QED
        BY <4>1, <4>2
    <3>2. QED
      BY <3>1 DEF CacheWhole
  <2>7. Held(saved, rc, a)
    BY <1>1, <1>2, <1>3, <1>5, <1>8, <2>2 DEF Held, Whole
  <2>8. QED
    BY <1>6, <2>4, <2>6, <2>7
<1>9. CASE /\ ~Exist(rc, id) /\ FileBytes(id) = {}
           /\ r = Found(At(cur[cl], a.offset), rc) /\ id = CurId(cl)
  <2>1. r.cache = rc /\ r.bytes = At(cur[cl], a.offset)
    BY <1>9 DEF Found
  <2>2. id[1] = cl /\ id[2] = Len(saved[cl]) + 1 /\ Len(saved[cl]) \in Nat
    BY <1>4, <1>9 DEF CurId
  <2>3. a.offset \in DOMAIN cur[cl] /\ cur[cl][a.offset] = Comp(b)
    BY <1>1, <1>3, <2>2 DEF HasItem
  <2>4. QED
    BY <1>4, <2>1, <2>3 DEF At
<1>10. CASE r.cache = rc /\ r.found = FALSE
  BY <1>4, <1>10
<1>11. \/ Exist(rc, id)
       \/ ~Exist(rc, id) /\ FileBytes(id) # {}
       \/ /\ ~Exist(rc, id) /\ FileBytes(id) = {}
          /\ r = Found(At(cur[cl], a.offset), rc) /\ id = CurId(cl)
       \/ r.cache = rc /\ r.found = FALSE
  BY <1>1, <1>2 DEF ReadChunk
<1>12. QED
  BY <1>7, <1>8, <1>9, <1>10, <1>11

(* The client sends the next chunk of its file.                            *)
LEMMA SendSerial ==
  ASSUME RestoreInv, Serial, NEW cl \in Client, NEW c \in Chunk, Sends(cl, c),
         OthersSame(cl), UNCHANGED <<containerVars, session, doubtful>>,
         CacheWhole(saved, container_cache'[cl]),
         NEW p2, pending' = [pending EXCEPT ![cl] = p2],
         \/ UNCHANGED addr /\ p2 = pending[cl]
         \/ /\ addr[c] = NoAddr /\ Announce(c)
            /\ p2.chunk = c /\ PendingRight(addr', NotTorn, p2)
  PROVE  Serial'
<1>1. TypeInv /\ OneUpload /\ WholeStored /\ Promised /\ \A d \in Client : SerialAt(d)
  BY DEF Serial, RestoreInv
<1>2. session[cl] = "upload" /\ pending[cl] = NoPending /\ Uploading(cl)
  BY DEF Sends, Uploading
<1>3. /\ pending'[cl] = p2 /\ \A d \in Client \ {cl} : pending'[d] = pending[d]
  BY <1>1 DEF TypeInv
<1>4. StoreGrows(saved, cur, opened, saved', cur', opened')
  BY DEF StoreGrows, containerVars
<1>5. SavingRight(cl)'
  <2>1. ~opened[cl]
    BY <1>2, NothingOpen
  <2>2. QED
    BY <1>2, <2>1 DEF SavingRight, Uploading, containerVars
<1>6. session'[cl] = "upload" /\ Uploading(cl)'
  BY <1>2 DEF Uploading
<1>7. CASE UNCHANGED addr /\ p2 = pending[cl]
  <2>1. AddressesStay(addr, addr') /\ pending' = pending
    BY <1>1, <1>7 DEF AddressesStay, TypeInv
  <2>2. WholeStored' /\ Promised'
    BY <1>1, <1>7, <2>1 DEF WholeStored, Promised, containerVars
  <2>3. PendingRight(addr', NotTorn, pending'[cl])
    BY <1>1, <1>7, <2>1 DEF SerialAt
  <2>4. QED
    BY <1>2, <1>3, <1>4, <1>5, <1>6, <2>1, <2>2, <2>3, SerialStep DEF containerVars
<1>8. CASE /\ addr[c] = NoAddr /\ Announce(c)
           /\ p2.chunk = c /\ PendingRight(addr', NotTorn, p2)
  <2>1. /\ AddressesStay(addr, addr') /\ addr' \in [Chunk -> Addr]
        /\ addr'[c].stat = "virtual" /\ ~IsReal(addr'[c])
        /\ \A b \in Chunk \ {c} : addr'[b] = addr[b]
    BY <1>8, AnnounceFacts
  <2>2. ASSUME NEW b \in Chunk
        PROVE  AddressRight(saved', cur', addr', NotTorn, b)
    <3>1. CASE b = c
      <4>1. addr'[c] \in Addr
        BY <2>1
      <4>2. QED
        BY <2>1, <3>1, <4>1 DEF AddressRight
    <3>2. CASE b # c
      <4>1. AddressRight(saved, cur, addr, NotTorn, b) /\ addr'[b] = addr[b]
        BY <1>1, <2>1, <3>2 DEF WholeStored
      <4>2. QED
        BY <1>1, <1>4, <2>1, <4>1, SameAddressRight
    <3>3. QED
      BY <3>1, <3>2
  <2>3. WholeStored'
    BY <2>2 DEF WholeStored
  <2>4. Promised'
    <3>1. ASSUME NEW b \in Chunk, addr'[b].stat = "virtual"
          PROVE  \E d \in Client : pending'[d].chunk = b
      <4>1. CASE b = c
        BY <1>3, <1>8, <4>1
      <4>2. CASE b # c
        <5>1. PICK d \in Client : pending[d].chunk = b
          BY <1>1, <2>1, <3>1, <4>2 DEF Promised
        <5>2. d # cl
          BY <1>2, <5>1, RestoreAssumption DEF NoPending
        <5>3. QED
          BY <1>3, <5>1, <5>2
      <4>3. QED
        BY <4>1, <4>2
    <3>2. QED
      BY <3>1 DEF Promised
  <2>5. PendingRight(addr', NotTorn, pending'[cl])
    BY <1>3, <1>8
  <2>6. QED
    BY <1>2, <1>3, <1>4, <1>5, <1>6, <2>1, <2>3, <2>4, <2>5, SerialStep DEF containerVars
<1>9. QED
  BY <1>7, <1>8

(* Sending a chunk changes nothing of another session.                     *)
LEMMA SendOthers ==
  ASSUME RestoreInv, NEW cl \in Client, NEW c \in Chunk, Sends(cl, c),
         UNCHANGED <<session, n_upload, serverDownVars, wire, clientDownVars, historyVars>>,
         NEW ca2, cached' = [cached EXCEPT ![cl] = ca2],
         NEW rc2, container_cache' = [container_cache EXCEPT ![cl] = rc2]
  PROVE  OthersSame(cl) /\ container_cache'[cl] = rc2
<1>1. /\ recipe' = [recipe EXCEPT ![cl] = Append(@, c)]
      /\ key_recipe' = [key_recipe EXCEPT ![cl] = Append(@, KeyOf[c])]
      /\ UNCHANGED versions
  BY DEF Sends
<1>2. TypeInv
  BY DEF RestoreInv
<1>3. QED
  BY <1>1, <1>2 DEF OthersSame, TypeInv, serverDownVars, clientDownVars, historyVars

(* Each step of the only upload keeps what is said of it.                  *)
LEMMA UploadBaseSerial ==
  ASSUME RestoreInv, Serial, NEW cl \in Client, NEW c \in Chunk, UploadBase(cl, c)
  PROVE  Serial'
<1>1. /\ Sends(cl, c) /\ cached' = [cached EXCEPT ![cl] = @ \cup {c}]
      /\ UNCHANGED <<containerVars, session, n_upload, container_cache, serverDownVars,
                     wire, clientDownVars, server, countVars, historyVars>>
  BY DEF UploadBase
<1>2. TypeInv /\ SerialAt(cl) /\ session[cl] = "upload" /\ pending[cl] = NoPending
  BY <1>1 DEF RestoreInv, Serial, Sends
<1>3. OthersSame(cl) /\ CacheWhole(saved, container_cache'[cl]) /\ UNCHANGED doubtful
  <2>1. PICK ca2, rc2 : ca2 = cached[cl] \cup {c} /\ rc2 = container_cache[cl]
    OBVIOUS
  <2>2. /\ cached' = [cached EXCEPT ![cl] = ca2]
        /\ container_cache' = [container_cache EXCEPT ![cl] = rc2]
    BY <1>1, <1>2, <2>1 DEF TypeInv
  <2>3. OthersSame(cl) /\ container_cache'[cl] = rc2
    BY <1>1, <2>2, SendOthers
  <2>4. QED
    BY <1>1, <1>2, <2>1, <2>3 DEF SerialAt, historyVars
<1>4. CASE addr[c] # NoAddr /\ UNCHANGED <<addr, pending>>
  <2>1. pending' = [pending EXCEPT ![cl] = pending[cl]]
    BY <1>2, <1>4 DEF TypeInv
  <2>2. QED
    BY <1>1, <1>3, <1>4, <2>1, SendSerial
<1>5. CASE /\ addr[c] = NoAddr /\ Announce(c)
           /\ ToWrite(cl, c, <<Comp(c)>>, "COMP_BASE", NoBase)
  <2>1. PICK p2 : p2 = [chunk |-> c, bytes |-> <<Comp(c)>>, stat |-> "COMP_BASE",
                        base |-> NoBase]
    OBVIOUS
  <2>2. pending' = [pending EXCEPT ![cl] = p2]
    BY <1>5, <2>1 DEF ToWrite
  <2>3. addr'[c].stat = "virtual"
    BY <1>5, AnnounceFacts
  <2>4. p2.chunk = c /\ PendingRight(addr', NotTorn, p2)
    BY <2>1, <2>3 DEF PendingRight
  <2>5. QED
    BY <1>1, <1>3, <1>5, <2>2, <2>4, SendSerial
<1>6. QED
  BY <1>4, <1>5 DEF UploadBase

(* A delta of a cached base, which is encoded on the client's bytes.       *)
LEMMA UploadUncompressedSerial ==
  ASSUME RestoreInv, Serial, NEW cl \in Client, NEW c \in Chunk, UploadUncompressed(cl, c)
  PROVE  Serial'
<1>1. /\ Sends(cl, c)
      /\ UNCHANGED <<containerVars, cached, session, n_upload, container_cache,
                     serverDownVars, wire, clientDownVars, server, countVars, historyVars>>
  BY DEF UploadUncompressed
<1>2. /\ TypeInv /\ FileRight(cl) /\ SerialAt(cl) /\ session[cl] = "upload"
      /\ pending[cl] = NoPending
  BY <1>1 DEF RestoreInv, FileInv, Serial, Sends
<1>3. OthersSame(cl) /\ CacheWhole(saved, container_cache'[cl]) /\ UNCHANGED doubtful
  <2>1. PICK ca2, rc2 : ca2 = cached[cl] /\ rc2 = container_cache[cl]
    OBVIOUS
  <2>2. /\ cached' = [cached EXCEPT ![cl] = ca2]
        /\ container_cache' = [container_cache EXCEPT ![cl] = rc2]
    BY <1>1, <1>2, <2>1 DEF TypeInv
  <2>3. OthersSame(cl) /\ container_cache'[cl] = rc2
    BY <1>1, <2>2, SendOthers
  <2>4. QED
    BY <1>1, <1>2, <2>1, <2>3 DEF SerialAt, historyVars
<1>4. CASE addr[c] # NoAddr /\ UNCHANGED <<addr, pending>>
  <2>1. pending' = [pending EXCEPT ![cl] = pending[cl]]
    BY <1>2, <1>4 DEF TypeInv
  <2>2. QED
    BY <1>1, <1>3, <1>4, <2>1, SendSerial
<1>5. ASSUME addr[c] = NoAddr, Announce(c), NEW b \in CachedBases(cl, c),
             ToWrite(cl, c, <<Delta(Uncomp(c), Uncomp(b), "whole")>>, "CACHE_DELTA", b)
      PROVE  Serial'
  <2>1. b \in cached[cl] /\ b \in Chunk /\ KeyOf[b] = KeyOf[c] /\ addr[b].stat # "none"
    BY <1>2, TypesOf DEF CachedBases, FileRight
  <2>2. PICK stat, delta : stat = "CACHE_DELTA" /\ delta = Delta(Uncomp(c), Uncomp(b), "whole")
    OBVIOUS
  <2>3. PICK bytes : bytes = <<delta>>
    OBVIOUS
  <2>4. PICK p2 : p2 = [chunk |-> c, bytes |-> bytes, stat |-> stat, base |-> b]
    OBVIOUS
  <2>5. pending' = [pending EXCEPT ![cl] = p2]
    BY <1>5, <2>2, <2>3, <2>4 DEF ToWrite
  <2>6. PICK read \in NotTorn : delta = DeltaBytes(c, b, stat, read)
    BY <2>2 DEF DeltaBytes, NotTorn
  <2>7. MayBeDelta(addr, c, b, stat)
    BY <2>1, <2>2 DEF MayBeDelta
  <2>8. AddressesStay(addr, addr') /\ addr'[c].stat = "virtual"
    BY <1>5, AnnounceFacts
  <2>9. p2.chunk = c /\ PendingRight(addr', NotTorn, p2)
    BY <2>3, <2>4, <2>6, <2>7, <2>8, DeltaPending
  <2>10. QED
    BY <1>1, <1>3, <1>5, <2>5, <2>9, SendSerial
<1>6. QED
  BY <1>4, <1>5 DEF UploadUncompressed

(* A delta of a stored base, of which all was read, or nothing.            *)
LEMMA UploadSimilarSerial ==
  ASSUME RestoreInv, Serial, NEW cl \in Client, NEW c \in Chunk, NEW b \in Chunk,
         UploadSimilar(cl, c, b)
  PROVE  Serial'
<1>1. /\ Sends(cl, c) /\ cached' = [cached EXCEPT ![cl] = @ \cup {c}]
      /\ addr[c] = NoAddr /\ addr[b].stat = "COMP_BASE" /\ Announce(c)
      /\ UNCHANGED <<containerVars, session, n_upload, serverDownVars, wire,
                     clientDownVars, server, countVars, historyVars>>
  BY DEF UploadSimilar
<1>2. session[cl] = "upload" /\ pending[cl] = NoPending
  BY <1>1 DEF Sends
<1>3. PICK r \in ReadChunk(cl, addr[b]) :
        /\ container_cache' = [container_cache EXCEPT ![cl] = r.cache]
        /\ LET read == IF ~r.found THEN "nothing"
                       ELSE IF r.bytes = Comp(b) THEN "whole" ELSE "torn"
               delta == Delta(Comp(c), Comp(b), read)
           IN ToWrite(cl, c, IF r.found THEN <<delta>> ELSE <<Comp(c), delta>>,
                      "COMP_DELTA", b)
  BY DEF UploadSimilar
<1>4. CacheWhole(saved, r.cache) /\ (r.found => r.bytes = Comp(b))
  BY <1>1, <1>2, BaseIsRead
<1>5. PICK read \in NotTorn : read = IF ~r.found THEN "nothing"
                                     ELSE IF r.bytes = Comp(b) THEN "whole" ELSE "torn"
  BY <1>4 DEF NotTorn
<1>6. PICK delta, bytes, stat :
        /\ delta = Delta(Comp(c), Comp(b), read) /\ stat = "COMP_DELTA"
        /\ bytes = IF r.found THEN <<delta>> ELSE <<Comp(c), delta>>
  OBVIOUS
<1>7. PICK p2 : p2 = [chunk |-> c, bytes |-> bytes, stat |-> stat, base |-> b]
  OBVIOUS
<1>8. pending' = [pending EXCEPT ![cl] = p2]
  BY <1>3, <1>5, <1>6, <1>7 DEF ToWrite
<1>9. OthersSame(cl) /\ CacheWhole(saved, container_cache'[cl])
  <2>1. PICK ca2, rc2 : ca2 = cached[cl] \cup {c} /\ rc2 = r.cache
    OBVIOUS
  <2>2. /\ cached' = [cached EXCEPT ![cl] = ca2]
        /\ container_cache' = [container_cache EXCEPT ![cl] = rc2]
    BY <1>1, <1>3, <2>1
  <2>3. OthersSame(cl) /\ container_cache'[cl] = rc2
    BY <1>1, <2>2, SendOthers
  <2>4. QED
    BY <1>4, <2>1, <2>3
<1>10. delta = DeltaBytes(c, b, stat, read) /\ MayBeDelta(addr, c, b, stat)
  BY <1>1, <1>6 DEF DeltaBytes, MayBeDelta
<1>11. AddressesStay(addr, addr') /\ addr'[c].stat = "virtual"
  BY <1>1, AnnounceFacts
<1>12. p2.chunk = c /\ PendingRight(addr', NotTorn, p2)
  BY <1>6, <1>7, <1>10, <1>11, DeltaPending
<1>13. UNCHANGED doubtful
  BY <1>1 DEF historyVars
<1>14. QED
  BY <1>1, <1>8, <1>9, <1>12, <1>13, SendSerial

(* An item is written, and with the last one its address.                  *)
LEMMA WriteSerial ==
  ASSUME RestoreInv, Serial, NEW cl \in Client, Write(cl)
  PROVE  Serial'
<1>1. /\ pending[cl] # NoPending /\ AddItem(cl, Head(pending[cl].bytes))
      /\ UNCHANGED <<cached, fileVars, session, n_upload, container_cache,
                     serverDownVars, wire, clientDownVars, server, countVars,
                     historyVars>>
  BY DEF Write
<1>2. TypeInv /\ PendingInv /\ WholeStored /\ Promised /\ SerialAt(cl)
  BY DEF RestoreInv, Serial
<1>3. PICK p : p = pending[cl]
  OBVIOUS
<1>4. PendingRight(addr, NotTorn, p) /\ p # NoPending /\ session[cl] = "upload"
  BY <1>1, <1>2, <1>3 DEF PendingInv, SerialAt
<1>5. NotTorn \in SUBSET Reads
  BY DEF NotTorn, Reads
<1>6. p.chunk \in Chunk /\ addr[p.chunk].stat = "virtual"
  BY <1>4, <1>5, NextItem
<1>7. PICK x \in Bytes :
        \/ p.bytes = <<x>> /\ Item(addr, NotTorn, p, x)
        \/ \E y \in Bytes : /\ p.bytes = <<x, y>>
                            /\ PendingRight(addr, NotTorn, [p EXCEPT !.bytes = <<y>>])
  BY <1>4, <1>5, NextItem
<1>8. Head(p.bytes) = x
  <2>1. CASE p.bytes = <<x>>
    BY <2>1
  <2>2. ASSUME NEW y, p.bytes = <<x, y>>
        PROVE  Head(p.bytes) = x
    BY <2>2
  <2>3. QED
    BY <1>7, <2>1, <2>2
<1>9. /\ StoreGrows(saved, cur, opened, saved', cur', opened')
      /\ NextOffset(cl) \in Nat /\ CurId(cl) \in ContainerId
      /\ \A a : a.container_id = CurId(cl) /\ a.offset = NextOffset(cl) =>
           HasItem(saved', cur', a, x)
  BY <1>1, <1>2, <1>3, <1>8, AddedItem
<1>10. /\ HasRoom(cl) /\ saved' = saved /\ opened' = opened
       /\ \A d \in Client \ {cl} : cur'[d] = cur[d]
  BY <1>1, StoreTypes, <1>2 DEF AddItem
<1>11. Uploading(cl) /\ Uploading(cl)' /\ session'[cl] = "upload" /\ doubtful' = doubtful
  BY <1>1, <1>4 DEF Uploading, historyVars
<1>12. OthersSame(cl)
  BY <1>1 DEF OthersSame, fileVars, serverDownVars, clientDownVars, historyVars
<1>13. SavingRight(cl)'
  <2>1. ~opened[cl]
    BY <1>4, <1>10, NothingOpen
  <2>2. QED
    BY <1>10, <1>11, <2>1 DEF SavingRight
<1>14. CacheWhole(saved', container_cache'[cl])
  BY <1>1, <1>2, <1>4, <1>10 DEF SerialAt
<1>15. ASSUME NEW p2, pending' = [pending EXCEPT ![cl] = p2],
              AddressesStay(addr, addr'),
              \A c \in Chunk : AddressRight(saved', cur', addr', NotTorn, c),
              PendingRight(addr', NotTorn, p2),
              \A c \in Chunk \ {p.chunk} : addr'[c] = addr[c],
              addr'[p.chunk].stat # "virtual" \/ p2.chunk = p.chunk
       PROVE  Serial'
  <2>1. /\ pending'[cl] = p2 /\ \A d \in Client \ {cl} : pending'[d] = pending[d]
    BY <1>2, <1>15 DEF TypeInv
  <2>2. WholeStored'
    BY <1>15 DEF WholeStored
  <2>3. Promised'
    <3>1. ASSUME NEW c \in Chunk, addr'[c].stat = "virtual"
          PROVE  \E d \in Client : pending'[d].chunk = c
      <4>1. CASE c = p.chunk
        BY <1>15, <2>1, <3>1, <4>1
      <4>2. CASE c # p.chunk
        <5>1. addr[c].stat = "virtual"
          BY <1>15, <3>1, <4>2
        <5>2. PICK d \in Client : pending[d].chunk = c
          BY <1>2, <5>1 DEF Promised
        <5>3. d # cl
          BY <1>3, <4>2, <5>2
        <5>4. QED
          BY <2>1, <5>2, <5>3
      <4>3. QED
        BY <4>1, <4>2
    <3>2. QED
      BY <3>1 DEF Promised
  <2>4. PendingRight(addr', NotTorn, pending'[cl])
    BY <1>15, <2>1
  <2>5. QED
    BY <1>9, <1>10, <1>11, <1>12, <1>13, <1>14, <1>15, <2>1, <2>2, <2>3, <2>4, SerialStep
<1>16. ASSUME NEW y, p.bytes = <<x, y>>,
              PendingRight(addr, NotTorn, [p EXCEPT !.bytes = <<y>>])
       PROVE  Serial'
  <2>1. PICK p2 : p2 = [p EXCEPT !.bytes = <<y>>]
    OBVIOUS
  <2>2. Len(p.bytes) > 1 /\ Len(p.bytes) # 1 /\ Tail(p.bytes) = <<y>>
    BY <1>16
  <2>3. pending' = [pending EXCEPT ![cl].bytes = Tail(@)] /\ UNCHANGED addr
    BY <1>3, <2>2 DEF Write
  <2>4. pending' = [pending EXCEPT ![cl] = p2]
    BY <1>2, <1>3, <2>1, <2>2, <2>3 DEF TypeInv
  <2>5. AddressesStay(addr, addr') /\ \A c \in Chunk \ {p.chunk} : addr'[c] = addr[c]
    BY <2>3 DEF AddressesStay
  <2>6. ASSUME NEW c \in Chunk
        PROVE  AddressRight(saved', cur', addr', NotTorn, c)
    <3>1. AddressRight(saved, cur, addr, NotTorn, c) /\ addr'[c] = addr[c]
      BY <1>2, <2>3 DEF WholeStored
    <3>2. QED
      BY <1>2, <1>9, <2>5, <3>1, SameAddressRight
  <2>7. p2.chunk = p.chunk
    BY <1>4, <2>1 DEF PendingRight
  <2>8. PendingRight(addr', NotTorn, p2)
    BY <1>16, <2>1, <2>3
  <2>9. QED
    BY <1>15, <2>4, <2>5, <2>6, <2>7, <2>8
<1>17. ASSUME p.bytes = <<x>>, Item(addr, NotTorn, p, x)
       PROVE  Serial'
  <2>1. Len(p.bytes) = 1 /\ ~ (Len(p.bytes) > 1)
    BY <1>17
  <2>2. PICK id \in ContainerId, offset \in Nat : id = CurId(cl) /\ offset = NextOffset(cl)
    BY <1>9
  <2>3. PICK a : a = [stat |-> p.stat, container_id |-> id, offset |-> offset,
                      base_fp |-> p.base]
    OBVIOUS
  <2>4. addr' = [addr EXCEPT ![p.chunk] = a] /\ pending' = [pending EXCEPT ![cl] = NoPending]
    BY <1>3, <2>1, <2>2, <2>3 DEF Write
  <2>5. HasItem(saved', cur', a, x)
    BY <1>9, <2>2, <2>3
  <2>6. /\ AddressesStay(addr, addr')
        /\ \A c \in Chunk : AddressRight(saved', cur', addr', NotTorn, c)
        /\ \A c \in Chunk \ {p.chunk} : addr'[c] = addr[c]
    <3>1. \A c \in Chunk : AddressRight(saved, cur, addr, NotTorn, c)
      BY <1>2 DEF WholeStored
    <3>2. QED
      BY <1>2, <1>6, <1>9, <1>17, <2>3, <2>4, <2>5, <3>1, WrittenRight
  <2>7. PendingRight(addr', NotTorn, NoPending)
    BY DEF PendingRight
  <2>8. addr'[p.chunk].stat # "virtual"
    <3>1. addr'[p.chunk] = a
      BY <1>2, <1>6, <2>4 DEF TypeInv
    <3>2. a.stat = p.stat
      BY <2>3
    <3>3. QED
      BY <1>17, <3>1, <3>2 DEF Item, MayBeDelta
  <2>9. QED
    BY <1>15, <2>4, <2>6, <2>7, <2>8
<1>18. QED
  BY <1>7, <1>16, <1>17

(* A container file is created, and written.                               *)
LEMMA SaveContainerSerial ==
  ASSUME RestoreInv, Serial, NEW cl \in Client, SaveContainer(cl)
  PROVE  Serial'
<1>1. /\ MustSave(cl)
      /\ OpenFile(cl) \/ CloseFile(cl)
      /\ UNCHANGED <<indexVars, fileVars, session, uploadVars, container_cache,
                     serverDownVars, wire, clientDownVars, server, countVars, historyVars>>
  BY DEF SaveContainer
<1>2. TypeInv /\ PendingInv /\ WholeStored /\ Promised /\ SerialAt(cl)
  BY DEF RestoreInv, Serial
<1>3. \/ session[cl] = "upload" /\ pending[cl] # NoPending /\ ~HasRoom(cl)
      \/ session[cl] = "tail" /\ cur[cl] # <<>>
  BY <1>1, <1>2 DEF MustSave, PendingInv
<1>4. Uploading(cl) /\ Uploading(cl)' /\ session' = session /\ doubtful' = doubtful
  BY <1>1, <1>3 DEF Uploading, historyVars
<1>5. UNCHANGED <<addr, cached, pending, n_upload, container_cache>>
  BY <1>1 DEF indexVars, uploadVars
<1>6. saved \in [Client -> Seq(Seq(Bytes))] /\ cur \in [Client -> Seq(Bytes)]
      /\ opened \in [Client -> BOOLEAN]
  BY <1>2, StoreTypes
<1>7. StoreGrows(saved, cur, opened, saved', cur', opened')
  BY <1>1, <1>6 DEF OpenFile, CloseFile, StoreGrows
<1>8. \A d \in Client \ {cl} : cur'[d] = cur[d] /\ opened'[d] = opened[d]
  BY <1>1, <1>6 DEF OpenFile, CloseFile
<1>9. OthersSame(cl)
  BY <1>1 DEF OthersSame, indexVars, fileVars, uploadVars, serverDownVars, clientDownVars,
              historyVars
<1>10. AddressesStay(addr, addr')
  BY <1>5 DEF AddressesStay
<1>11. WholeStored'
  <2>1. ASSUME NEW c \in Chunk
        PROVE  AddressRight(saved', cur', addr', NotTorn, c)
    <3>1. AddressRight(saved, cur, addr, NotTorn, c) /\ addr'[c] = addr[c]
      BY <1>2, <1>5 DEF WholeStored
    <3>2. QED
      BY <1>2, <1>7, <1>10, <3>1, SameAddressRight
  <2>2. QED
    BY <2>1 DEF WholeStored
<1>12. Promised' /\ PendingRight(addr', NotTorn, pending'[cl])
  BY <1>2, <1>5 DEF Promised, SerialAt
<1>13. SavingRight(cl)'
  <2>1. CASE OpenFile(cl)
    BY <1>3, <1>4, <1>5, <2>1 DEF SavingRight, OpenFile, HasRoom
  <2>2. CASE CloseFile(cl)
    <3>1. cur'[cl] = <<>> /\ opened'[cl] = FALSE
      BY <1>6, <2>2 DEF CloseFile
    <3>2. QED
      BY <3>1 DEF SavingRight
  <2>3. QED
    BY <1>1, <2>1, <2>2
<1>14. session'[cl] = "upload" => CacheWhole(saved', container_cache'[cl])
  <2>1. SUFFICES ASSUME session[cl] = "upload"
                 PROVE  CacheWhole(saved', container_cache[cl])
    BY <1>4, <1>5
  <2>2. PICK rc : rc = container_cache[cl]
    OBVIOUS
  <2>3. CacheWhole(saved, rc) /\ GoodCache(saved, cur, opened, rc)
    BY <1>2, <2>1, <2>2, CacheFacts DEF SerialAt
  <2>4. StillHeld(saved, rc, saved', rc)
    BY <1>6, <1>7, GrowthKeeps, KeptIsHeld
  <2>5. \A id \in CachedNames(rc) : id \in ContainerId
    BY <2>3 DEF GoodCache, Knows
  <2>6. CacheWhole(saved', rc)
    BY <2>3, <2>4, <2>5 DEF CacheWhole, StillHeld
  <2>7. QED
    BY <2>2, <2>6
<1>15. \A d \in Client \ {cl} : pending'[d] = pending[d]
  BY <1>5
<1>16. QED
  BY <1>4, <1>7, <1>8, <1>9, <1>10, <1>11, <1>12, <1>13, <1>14, <1>15, SerialStep

(* All was sent.                                                           *)
LEMMA UploadTailSerial ==
  ASSUME RestoreInv, Serial, NEW cl \in Client, UploadTail(cl)
  PROVE  Serial'
<1>1. /\ session[cl] = "upload" /\ pending[cl] = NoPending
      /\ session' = [session EXCEPT ![cl] = "tail"]
      /\ \E S \in SUBSET cached[cl] : cached' = [cached EXCEPT ![cl] = S]
      /\ UNCHANGED <<containerVars, addr, fileVars, uploadVars, container_cache,
                     serverDownVars, wire, clientDownVars, server, countVars, historyVars>>
  BY DEF UploadTail
<1>2. TypeInv /\ WholeStored /\ Promised /\ SerialAt(cl)
  BY DEF RestoreInv, Serial
<1>3. /\ session'[cl] = "tail"
      /\ \A d \in Client \ {cl} : session'[d] = session[d] /\ cached'[d] = cached[d]
  BY <1>1, <1>2 DEF TypeInv
<1>4. OthersSame(cl)
  BY <1>1, <1>3 DEF OthersSame, fileVars, uploadVars, serverDownVars, clientDownVars,
                    historyVars
<1>5. UNCHANGED <<saved, cur, opened, addr, pending, doubtful>>
  BY <1>1 DEF containerVars, uploadVars, historyVars
<1>6. /\ StoreGrows(saved, cur, opened, saved', cur', opened')
      /\ AddressesStay(addr, addr')
      /\ \A d \in Client \ {cl} : /\ cur'[d] = cur[d] /\ opened'[d] = opened[d]
                                  /\ pending'[d] = pending[d]
  BY <1>5 DEF StoreGrows, AddressesStay
<1>7. WholeStored' /\ Promised' /\ PendingRight(addr', NotTorn, pending'[cl])
  BY <1>2, <1>5 DEF WholeStored, Promised, SerialAt
<1>8. SavingRight(cl)'
  <2>1. ~opened[cl]
    BY <1>1, NothingOpen
  <2>2. QED
    BY <1>3, <1>5, <2>1 DEF SavingRight, Uploading
<1>9. Uploading(cl) /\ Uploading(cl)' /\ session'[cl] # "upload"
  BY <1>1, <1>3 DEF Uploading
<1>10. QED
  BY <1>4, <1>5, <1>6, <1>7, <1>8, <1>9, SerialStep

(* At the end of a session all that is stored is in completely written     *)
(* files.                                                                  *)
LEMMA AllInFile ==
  ASSUME RestoreInv, Serial, NEW cl \in Client, session[cl] = "tail", cur[cl] = <<>>,
         NEW c \in Chunk, addr[c].stat # "none"
  PROVE  InFileAt(saved, addr[c])
<1>1. TypeInv /\ PendingInv /\ OneUpload /\ Promised /\ \A d \in Client : SavingRight(d)
  BY DEF RestoreInv, Serial, SerialAt
<1>2. ASSUME NEW d \in Client
      PROVE  cur[d] = <<>> /\ session[d] # "upload"
  <2>1. CASE d = cl
    BY <2>1
  <2>2. CASE d # cl
    <3>1. ~Uploading(d)
      BY <1>1, <2>2 DEF OneUpload, Uploading
    <3>2. QED
      BY <1>1, <3>1 DEF SavingRight, Uploading
  <2>3. QED
    BY <2>1, <2>2
<1>3. addr[c].stat # "virtual"
  <2>1. SUFFICES ASSUME addr[c].stat = "virtual"
                 PROVE  FALSE
    OBVIOUS
  <2>2. PICK d \in Client : pending[d].chunk = c
    BY <1>1, <2>1 DEF Promised
  <2>3. pending[d] = NoPending
    BY <1>1, <1>2 DEF PendingInv
  <2>4. QED
    BY <2>2, <2>3, RestoreAssumption DEF NoPending
<1>4. IsReal(addr[c])
  BY <1>3 DEF IsReal
<1>5. PICK a, id, x : /\ a = addr[c] /\ id = a.container_id
                      /\ id \in ContainerId /\ HasItem(saved, cur, a, x)
  BY <1>4, RealAddress
<1>6. PICK d \in Client : id[1] = d
  BY <1>5, IdParts
<1>7. DOMAIN cur[d] = {}
  BY <1>2
<1>8. id[2] <= Len(saved[d])
  BY <1>5, <1>6, <1>7 DEF HasItem
<1>9. QED
  BY <1>4, <1>5, <1>6, <1>8 DEF InFileAt

(* So when the upload ends all that its file needs is in such files.       *)
LEMMA UploadEndSerial ==
  ASSUME RestoreInv, Serial, NEW cl \in Client, UploadEnd(cl)
  PROVE  Serial'
<1>1. /\ session[cl] = "tail" /\ cur[cl] = <<>>
      /\ session' = [session EXCEPT ![cl] = "off"]
      /\ UNCHANGED <<containerVars, indexVars, fileVars, uploadVars, container_cache,
                     serverDownVars, wire, clientDownVars, server, countVars, historyVars>>
  BY DEF UploadEnd, MustSave
<1>2. TypeInv /\ WholeStored /\ Promised /\ SerialAt(cl) /\ FileRight(cl)
  BY DEF RestoreInv, Serial, FileInv
<1>3. /\ session'[cl] = "off" /\ \A d \in Client \ {cl} : session'[d] = session[d]
  BY <1>1, <1>2 DEF TypeInv
<1>4. OthersSame(cl)
  BY <1>1, <1>3 DEF OthersSame, indexVars, fileVars, uploadVars, serverDownVars,
                    clientDownVars, historyVars
<1>5. UNCHANGED <<saved, cur, opened, addr, pending, recipe, doubtful>>
  BY <1>1 DEF containerVars, indexVars, fileVars, uploadVars, historyVars
<1>6. /\ StoreGrows(saved, cur, opened, saved', cur', opened')
      /\ AddressesStay(addr, addr')
      /\ \A d \in Client \ {cl} : /\ cur'[d] = cur[d] /\ opened'[d] = opened[d]
                                  /\ pending'[d] = pending[d]
  BY <1>5 DEF StoreGrows, AddressesStay
<1>7. WholeStored' /\ Promised' /\ PendingRight(addr', NotTorn, pending'[cl])
  BY <1>2, <1>5 DEF WholeStored, Promised, SerialAt
<1>8. SavingRight(cl)'
  BY <1>1, <1>2, <1>5 DEF SerialAt, SavingRight
<1>9. FileSettled(saved', addr', recipe'[cl])
  <2>1. PICK f \in Seq(Chunk) : f = recipe[cl]
    BY <1>2, TypesOf
  <2>2. ASSUME NEW c \in Chunk, addr[c].stat # "none"
        PROVE  /\ IsReal(addr[c]) /\ InFileAt(saved, addr[c])
    BY <1>1, <2>2, AllInFile DEF InFileAt
  <2>3. ASSUME NEW c \in Chunk, addr[c].stat # "none"
        PROVE  Settled(saved, addr, c)
    <3>1. IsReal(addr[c]) /\ InFileAt(saved, addr[c])
      BY <2>2, <2>3
    <3>2. CASE addr[c].stat = "COMP_BASE"
      BY <3>1, <3>2 DEF Settled
    <3>3. CASE addr[c].stat # "COMP_BASE"
      <4>1. PICK b \in Chunk : b = addr[c].base_fp /\ addr[b].stat # "none"
        BY <3>1, <3>3, RealAddress DEF MayBeDelta
      <4>2. IsReal(addr[b]) /\ InFileAt(saved, addr[b])
        BY <2>2, <4>1
      <4>3. ASSUME addr[b].stat = "COMP_DELTA"
            PROVE  InFileAt(saved, addr[addr[b].base_fp])
        <5>1. PICK e \in Chunk : e = addr[b].base_fp /\ addr[e].stat # "none"
          BY <4>2, <4>3, RealAddress DEF MayBeDelta
        <5>2. QED
          BY <2>2, <5>1
      <4>4. QED
        BY <3>1, <4>1, <4>2, <4>3 DEF Settled
    <3>4. QED
      BY <3>2, <3>3
  <2>4. ASSUME NEW i \in 1 .. Len(f)
        PROVE  Settled(saved, addr, f[i])
    <3>1. PICK c \in Chunk : c = f[i]
      OBVIOUS
    <3>2. addr[c].stat # "none"
      BY <1>2, <2>1, <3>1 DEF FileRight, Known
    <3>3. Settled(saved, addr, c)
      BY <2>3, <3>2
    <3>4. QED
      BY <3>1, <3>3
  <2>5. FileSettled(saved, addr, f)
    BY <2>4 DEF FileSettled
  <2>6. QED
    BY <1>5, <2>1, <2>5
<1>10. Uploading(cl) /\ session'[cl] # "upload"
  BY <1>1, <1>3 DEF Uploading
<1>11. QED
  BY <1>4, <1>5, <1>6, <1>7, <1>8, <1>9, <1>10, SerialStep

(* Every step of an upload.                                                *)
LEMMA UploadSerial ==
  ASSUME RestoreInv, SerialInv, NEW cl \in Client, Upload(cl)
  PROVE  SerialInv'
<1>1. CASE UploadStart(cl)
  BY <1>1, UploadStartSerial
<1>2. CASE \/ Write(cl) \/ SaveContainer(cl) \/ UploadTail(cl) \/ UploadEnd(cl)
           \/ \E c \in Chunk : \/ UploadBase(cl, c) \/ UploadUncompressed(cl, c)
                               \/ \E b \in Chunk : UploadSimilar(cl, c, b)
  <2>1. overlapped' = overlapped
    BY <1>2 DEF Write, SaveContainer, UploadTail, UploadEnd, UploadBase,
                UploadUncompressed, UploadSimilar, historyVars
  <2>2. SUFFICES ASSUME Serial
                 PROVE  Serial'
    BY <2>1 DEF SerialInv
  <2>3. QED
    BY <1>2, <2>2, WriteSerial, SaveContainerSerial, UploadTailSerial, UploadEndSerial,
       UploadBaseSerial, UploadUncompressedSerial, UploadSimilarSerial
<1>3. QED
  BY <1>1, <1>2 DEF Upload

(* The second invariant holds at the beginning,                            *)
LEMMA InitSerial == Init => SerialInv
<1> SUFFICES ASSUME Init
             PROVE  Serial
  BY DEF SerialInv
<1> USE DEF Init
<1>1. PICK no \in BOOLEAN : no = FALSE
  OBVIOUS
<1>2. \A cl \in Client : /\ session[cl] = "off" /\ cur[cl] = <<>> /\ opened[cl] = no
                         /\ pending[cl] = NoPending /\ recipe[cl] = <<>>
                         /\ doubtful[cl] = {}
  BY <1>1 DEF ContainerInit
<1>3. OneUpload
  BY <1>2 DEF OneUpload, Uploading
<1>4. \A c \in Chunk : addr[c] = NoAddr
  OBVIOUS
<1>5. NoAddr \in Addr /\ NoAddr.stat = "none"
  BY DEF NoAddr, Addr
<1>6. WholeStored /\ Promised
  BY <1>4, <1>5 DEF WholeStored, Promised, AddressRight
<1>7. ASSUME NEW cl \in Client
      PROVE  SerialAt(cl)
  <2>1. SavingRight(cl) /\ session[cl] # "upload"
    BY <1>1, <1>2 DEF SavingRight
  <2>2. PendingRight(addr, NotTorn, pending[cl])
    BY <1>2 DEF PendingRight
  <2>3. FileSettled(saved, addr, <<>>) /\ AllMultiLevel(addr, {})
    BY DEF FileSettled, AllMultiLevel
  <2>4. QED
    BY <1>2, <2>1, <2>2, <2>3 DEF SerialAt
<1>8. QED
  BY <1>3, <1>6, <1>7 DEF Serial

(* and if nothing happens,                                                 *)
LEMMA NoStepSerial ==
  ASSUME SerialInv, UNCHANGED vars
  PROVE  SerialInv'
<1> SUFFICES ASSUME Serial
             PROVE  Serial'
  BY DEF SerialInv, vars, historyVars
<1>1. UNCHANGED <<saved, cur, opened, addr, pending, recipe, session, container_cache,
                  doubtful>>
  BY DEF vars, containerVars, indexVars, fileVars, uploadVars, historyVars
<1>2. OneUpload' /\ WholeStored' /\ Promised'
  BY <1>1 DEF Serial, OneUpload, WholeStored, Promised, Uploading
<1>3. ASSUME NEW cl \in Client
      PROVE  SerialAt(cl)'
  BY <1>1 DEF Serial, SerialAt, SavingRight, HasRoom, Uploading
<1>4. QED
  BY <1>2, <1>3 DEF Serial

(* and every step keeps it.                                                *)
LEMMA NextSerial == RestoreInv /\ SerialInv /\ [Next]_vars => SerialInv'
<1> SUFFICES ASSUME RestoreInv, SerialInv, [Next]_vars
             PROVE  SerialInv'
  OBVIOUS
<1>1. ASSUME NEW cl \in Client, ServerStep(cl) \/ ClientDownload(cl) \/ ClientDies(cl)
      PROVE  SerialInv'
  BY <1>1, UploadSerial, DownloadStartSerial, ServerDownloadSerial, ClientSerial
     DEF ServerStep
<1>2. CASE UNCHANGED vars
  BY <1>2, NoStepSerial
<1>3. QED
  BY <1>1, <1>2 DEF Next

(* SerialInv always holds: of uploads one at a time, what is written, what *)
(* is yet to be written and what is saved (DataWriterThd, SaveContainer).  *)
THEOREM SerialInvariant == Spec => []SerialInv
<1>1. QED
  BY InitSerial, NextSerial, RestoreInvariant, PTL DEF Spec

(* As long as no two uploads were in progress at once, the only chunks in  *)
(* doubt are the deltas of a delta of a cached chunk (SaveContainer at a   *)
(* full container and at the end of the session, ProcSimilarChunk).        *)
THEOREM SerialUploadsLeaveNoDoubt == Spec => []NoDoubtAfterSerialUploads
<1>1. SerialInv => NoDoubtAfterSerialUploads
  BY DEF SerialInv, Serial, SerialAt, AllMultiLevel, NoDoubtAfterSerialUploads, MultiLevel
<1>2. QED
  BY <1>1, SerialInvariant, PTL
=============================================================================
