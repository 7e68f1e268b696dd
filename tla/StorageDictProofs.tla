------------------------- MODULE StorageDictProofs -------------------------
(***************************************************************************)
(* Theorems about CacheTable and the StorageDict on top of it, for any     *)
(* keys, any size of the cache, with and without timestamps and lazy       *)
(* writes, and any number of failed queries.                               *)
(***************************************************************************)
EXTENDS StorageDict, FiniteSetTheorems, SequenceTheorems, TLAPS

USE CacheTableAssumption

-----------------------------------------------------------------------------
(* The inductive invariant. *)

\* Lazy writes are those of array tables, and only such tables have dirty blocks.
DirtyKeys(d) == {k \in Keys : d[k] # 0}
Dirty == DirtyKeys(dirty)

LazyInv ==
  /\ IsFiniteSet(Dirty)
  /\ lazy => LazyWrites
  /\ ~lazy => Dirty = {}
  /\ call.pc = "delete" => ~LazyWrites

\* The index of the cache is a map: no key is in the list twice.  What is cached is a row.
CacheKeys ==
  /\ \A i, j \in DOMAIN cache : cache[i].key = cache[j].key => i = j
  /\ \A i \in DOMAIN cache : cache[i].val # 0

\* The write times given out bound those in use; a delete that waits has the newest.
Queued == {queue[i] : i \in DOMAIN queue}

Times ==
  /\ \A k \in Keys : rows[k].stamp <= time
  /\ \A r \in sent : r.stamp <= time
  /\ Timestamped => \A r \in Queued : r.stamp <= time
  /\ Timestamped /\ call.pc = "delete" =>
       /\ \A k \in Keys : rows[k].stamp < time
       /\ \A r \in sent \cup Queued : r.stamp < time

\* Whatever has the highest write time among W and the row itself is a value that a
\* reader may find.
NewestOK(k, W) ==
  /\ \A r \in W :
       /\ r.key = k /\ rows[k].stamp <= r.stamp
       /\ \A s \in W : s.key = k => s.stamp <= r.stamp
       => r.val \in expected[k]
  /\ (\A s \in W : s.key = k => s.stamp <= rows[k].stamp) => rows[k].val \in expected[k]

\* Without timestamps the last queued write of a key gets the highest write time.
LastOK(k) ==
  \A i \in DOMAIN queue :
    queue[i].key = k /\ (\A j \in DOMAIN queue : i < j => queue[j].key # k)
      => queue[i].val \in expected[k]

\* What Cassandra will hold of a key once everything is applied.
Settles(k) ==
  IF dirty[k] # 0 THEN dirty[k] \in expected[k]
  ELSE IF Timestamped THEN NewestOK(k, sent \cup Queued)
  ELSE /\ LastOK(k)
       /\ (\A r \in Queued : r.key # k) => NewestOK(k, sent)

StoredInv == \A k \in Keys : Settles(k)

CacheInv == \A i \in DOMAIN cache : cache[i].val \in expected[cache[i].key]

TableInv == TypeOK /\ LazyInv /\ CacheKeys /\ Times /\ StoredInv /\ CacheInv

\* What the dict adds: its memory and the outcomes that the properties speak of.
MemInv ==
  /\ mem \in [Keys -> Nat]
  /\ CacheSize > 0 => mem = [k \in Keys |-> 0]
  /\ LazyWrites => mem = [k \in Keys |-> 0] /\ asked = NoKey /\ answer = NoAnswer
  /\ asked \in Keys \cup {NoKey}
  /\ asked # NoKey => call = [pc |-> "get", key |-> asked]
  /\ answer \in [key : Keys, found : BOOLEAN] \cup {NoAnswer}
  /\ \A k \in Keys : mem[k] # 0 /\ expected[k] # {0} => mem[k] \in expected[k]

\* No outcome is kept over a delete.
GotInv == GetItemSound /\ (call.pc = "delete" => got = NoResult)

OutcomeInv == GotInv /\ ContainsSound /\ (call.pc = "delete" => answer = NoAnswer)

DictInv == TableInv /\ MemInv /\ OutcomeInv

-----------------------------------------------------------------------------
(* The cache. *)

\* A sequence without its p-th element.
LEMMA RemoveElement ==
  ASSUME NEW S, NEW s \in Seq(S), NEW p \in 1..Len(s)
  PROVE  LET c == SubSeq(s, 1, p - 1) \o SubSeq(s, p + 1, Len(s))
         IN  /\ c \in Seq(S) /\ Len(c) = Len(s) - 1
             /\ \A i \in 1..(Len(s) - 1) : c[i] = IF i < p THEN s[i] ELSE s[i + 1]
<1> DEFINE a == SubSeq(s, 1, p - 1)
           b == SubSeq(s, p + 1, Len(s))
<1>0. Len(s) \in Nat /\ \A i \in 1..Len(s) : s[i] \in S
  OBVIOUS
<1>1. a \in Seq(S) /\ Len(a) = p - 1 /\ \A i \in 1..(p - 1) : a[i] = s[i]
  <2>1. 1 \in Int /\ p - 1 \in Int /\ \A i \in 1..(p - 1) : s[i] \in S
    BY <1>0
  <2>2. /\ a \in Seq(S) /\ Len(a) = IF 1 <= p - 1 THEN (p - 1) - 1 + 1 ELSE 0
        /\ \A i \in 1..((p - 1) - 1 + 1) : a[i] = s[1 + i - 1]
    BY <2>1, SubSeqProperties
  <2> HIDE DEF a
  <2> QED
    BY <1>0, <2>2
<1>2. b \in Seq(S) /\ Len(b) = Len(s) - p /\ \A i \in 1..(Len(s) - p) : b[i] = s[p + i]
  <2>1. p + 1 \in Int /\ Len(s) \in Int /\ \A i \in (p + 1)..Len(s) : s[i] \in S
    BY <1>0
  <2>2. /\ b \in Seq(S) /\ Len(b) = IF p + 1 <= Len(s) THEN Len(s) - (p + 1) + 1 ELSE 0
        /\ \A i \in 1..(Len(s) - (p + 1) + 1) : b[i] = s[(p + 1) + i - 1]
    BY <2>1, SubSeqProperties
  <2> HIDE DEF b
  <2> QED
    BY <1>0, <2>2
<1> HIDE DEF a, b
<1> DEFINE c == a \o b
<1>3. c = a \o b
  OBVIOUS
<1> HIDE DEF c
<1>4. /\ c \in Seq(S) /\ Len(c) = Len(a) + Len(b)
      /\ \A i \in 1..(Len(a) + Len(b)) : c[i] = IF i <= Len(a) THEN a[i] ELSE b[i - Len(a)]
  BY <1>1, <1>2, <1>3, ConcatProperties
<1>5. Len(c) = Len(s) - 1
  BY <1>0, <1>1, <1>2, <1>4
<1>6. ASSUME NEW i \in 1..(Len(s) - 1) PROVE c[i] = IF i < p THEN s[i] ELSE s[i + 1]
  <2>1. c[i] = IF i <= Len(a) THEN a[i] ELSE b[i - Len(a)]
    BY <1>0, <1>1, <1>2, <1>4
  <2>2. CASE i < p
    BY <1>1, <2>1, <2>2
  <2>3. CASE ~(i < p)
    <3>1. i - (p - 1) \in 1..(Len(s) - p) /\ p + (i - (p - 1)) = i + 1
      BY <1>0, <2>3
    <3>2. c[i] = b[i - (p - 1)]
      BY <1>1, <2>1, <2>3
    <3> QED
      BY <1>2, <2>3, <3>1, <3>2
  <2> QED
    BY <2>2, <2>3
<1>7. c \in Seq(S) /\ Len(c) = Len(s) - 1 /\ \A i \in 1..(Len(s) - 1) : c[i] = IF i < p THEN s[i] ELSE s[i + 1]
  BY <1>4, <1>5, <1>6
<1> QED
  BY <1>7, Zenon DEF a, b, c

\* A sequence with an element before it.
LEMMA PutInFront ==
  ASSUME NEW S, NEW s \in Seq(S), NEW e \in S, NEW c, c = <<e>> \o s
  PROVE  /\ c \in Seq(S) /\ Len(c) = Len(s) + 1 /\ Len(s) \in Nat /\ c[1] = e
         /\ \A i \in 2..(Len(s) + 1) : c[i] = s[i - 1]
<1> DEFINE a == <<e>>
<1>1. a \in Seq(S) /\ Len(a) = 1 /\ a[1] = e
  OBVIOUS
<1> HIDE DEF a
<1>2. /\ c \in Seq(S) /\ Len(c) = Len(a) + Len(s) /\ Len(s) \in Nat
      /\ \A i \in 1..(Len(a) + Len(s)) : c[i] = IF i <= Len(a) THEN a[i] ELSE s[i - Len(a)]
  BY <1>1 DEF a
<1> QED
  BY <1>1, <1>2

\* A list that was made from the cache by touching key k: its entries for k have a value
\* of V, the others are the cache's.
Refreshed(c, k, V) ==
  /\ c \in Seq(Entry)
  /\ \A i, j \in DOMAIN c : c[i].key = c[j].key => i = j
  /\ \A i \in DOMAIN c : c[i].val # 0
  /\ \A i \in DOMAIN c : IF c[i].key = k THEN c[i].val \in V
                                         ELSE \E j \in DOMAIN cache : c[i] = cache[j]

\* Where the entry of a cached key is.
LEMMA PlaceOf ==
  ASSUME NEW k, Cached(k)
  PROVE  Place(k) \in DOMAIN cache /\ cache[Place(k)].key = k
BY DEF Cached, Place

\* KVCache::remove leaves no entry of the key.
LEMMA WithoutRefreshed ==
  ASSUME TypeOK, CacheKeys, NEW k \in Keys
  PROVE  /\ Refreshed(Without(k), k, {})
         /\ Len(Without(k)) \in Nat
         /\ Len(Without(k)) = IF Cached(k) THEN Len(cache) - 1 ELSE Len(cache)
<1>1. cache \in Seq(Entry) /\ Len(cache) \in Nat /\ DOMAIN cache = 1..Len(cache)
  BY DEF TypeOK
<1>2. CASE ~Cached(k)
  BY <1>1, <1>2 DEF Without, Cached, Refreshed, CacheKeys
<1>3. CASE Cached(k)
  <2> DEFINE c == Without(k)
             p == Place(k)
  <2>1. p \in 1..Len(cache) /\ cache[p].key = k
    BY <1>1, <1>3, PlaceOf
  <2>2. c = SubSeq(cache, 1, p - 1) \o SubSeq(cache, p + 1, Len(cache))
    BY <1>3 DEF Without
  <2> HIDE DEF c, p
  <2>3. /\ c \in Seq(Entry) /\ Len(c) = Len(cache) - 1
        /\ \A i \in 1..(Len(cache) - 1) : c[i] = IF i < p THEN cache[i] ELSE cache[i + 1]
    <3>1. LET d == SubSeq(cache, 1, p - 1) \o SubSeq(cache, p + 1, Len(cache))
          IN  /\ d \in Seq(Entry) /\ Len(d) = Len(cache) - 1
              /\ \A i \in 1..(Len(cache) - 1) : d[i] = IF i < p THEN cache[i] ELSE cache[i + 1]
      BY <1>1, <2>1, RemoveElement
    <3> QED
      BY <2>2, <3>1, Zenon
  <2>4. DOMAIN c = 1..(Len(cache) - 1)
    BY <2>3
  <2>5. ASSUME NEW i \in 1..(Len(cache) - 1)
        PROVE  \E j \in 1..Len(cache) : j # p /\ c[i] = cache[j] /\ (i < p => j = i) /\ (~(i < p) => j = i + 1)
    <3>1. CASE i < p
      BY <1>1, <2>1, <2>3, <3>1
    <3>2. CASE ~(i < p)
      <4>1. i + 1 \in 1..Len(cache) /\ i + 1 # p /\ c[i] = cache[i + 1]
        BY <1>1, <2>1, <2>3, <3>2
      <4> QED
        BY <3>2, <4>1
    <3> QED
      BY <3>1, <3>2
  <2>6. \A i \in DOMAIN c : c[i].key # k /\ c[i].val # 0 /\ \E j \in DOMAIN cache : c[i] = cache[j]
    BY <1>1, <2>1, <2>4, <2>5 DEF CacheKeys
  <2>7. ASSUME NEW i \in DOMAIN c, NEW j \in DOMAIN c, c[i].key = c[j].key PROVE i = j
    <3>1. PICK x \in 1..Len(cache) : c[i] = cache[x] /\ (i < p => x = i) /\ (~(i < p) => x = i + 1) /\ x # p
      BY <2>4, <2>5
    <3>2. PICK y \in 1..Len(cache) : c[j] = cache[y] /\ (j < p => y = j) /\ (~(j < p) => y = j + 1) /\ y # p
      BY <2>4, <2>5
    <3>3. x = y
      BY <1>1, <2>7, <3>1, <3>2 DEF CacheKeys
    <3> QED
      BY <2>1, <2>4, <3>1, <3>2, <3>3
  <2>8. Refreshed(c, k, {}) /\ Len(c) \in Nat /\ Len(c) = Len(cache) - 1
    BY <1>1, <2>1, <2>3, <2>6, <2>7 DEF Refreshed
  <2> QED
    BY <1>3, <2>8 DEF c
<1> QED
  BY <1>2, <1>3

\* An entry of k in front of a list without k.
InFront(k, v, s) == <<[key |-> k, val |-> v]>> \o s
LEMMA FrontRefreshed ==
  ASSUME NEW k \in Keys, NEW v \in Nat \ {0}, NEW s, Refreshed(s, k, {}), NEW c,
         c = InFront(k, v, s)
  PROVE  Refreshed(c, k, {v}) /\ Len(c) = Len(s) + 1 /\ Len(s) \in Nat
<1> DEFINE e == [key |-> k, val |-> v]
<1>1. s \in Seq(Entry) /\ e \in Entry /\ e.key = k /\ e.val = v
  BY DEF Refreshed, Entry
<1> HIDE DEF e
<1>2. /\ c \in Seq(Entry) /\ Len(c) = Len(s) + 1 /\ Len(s) \in Nat /\ c[1] = e
      /\ \A i \in 2..(Len(s) + 1) : c[i] = s[i - 1]
  BY <1>1, PutInFront DEF e, InFront
<1>3. DOMAIN c = 1..(Len(s) + 1) /\ DOMAIN s = 1..Len(s)
  BY <1>1, <1>2
<1>4. ASSUME NEW i \in 2..(Len(s) + 1)
      PROVE  /\ i - 1 \in DOMAIN s /\ c[i] = s[i - 1] /\ c[i].key # k /\ c[i].val # 0
             /\ \E j \in DOMAIN cache : c[i] = cache[j]
  <2>1. i - 1 \in DOMAIN s /\ c[i] = s[i - 1]
    BY <1>2, <1>3
  <2> QED
    BY <2>1 DEF Refreshed
<1>5. \A i \in DOMAIN c : i = 1 \/ i \in 2..(Len(s) + 1)
  BY <1>2, <1>3
<1>6. ASSUME NEW i \in DOMAIN c, NEW j \in DOMAIN c, c[i].key = c[j].key PROVE i = j
  <2>1. CASE i = 1 \/ j = 1
    BY <1>1, <1>2, <1>4, <1>5, <1>6, <2>1
  <2>2. CASE i \in 2..(Len(s) + 1) /\ j \in 2..(Len(s) + 1)
    <3>1. i - 1 = j - 1
      BY <1>4, <1>6, <2>2 DEF Refreshed
    <3> QED
      BY <1>2, <2>2, <3>1
  <2> QED
    BY <1>5, <2>1, <2>2
<1>7. \A i \in DOMAIN c : c[i].val # 0
  BY <1>1, <1>2, <1>4, <1>5
<1>8. \A i \in DOMAIN c : IF c[i].key = k THEN c[i].val \in {v}
                                          ELSE \E j \in DOMAIN cache : c[i] = cache[j]
  BY <1>1, <1>2, <1>4, <1>5
<1> QED
  BY <1>2, <1>6, <1>7, <1>8 DEF Refreshed

\* The configuration of the table.
LEMMA ConfigType ==
  ASSUME TypeOK PROVE CacheSize \in Nat /\ Timestamped \in BOOLEAN /\ LazyWrites \in BOOLEAN
BY DEF TypeOK, Config, CacheSize, Timestamped, LazyWrites, CacheTableAssumption

\* Dropping the last element of a list without k.
LEMMA DropLastRefreshed ==
  ASSUME TypeOK, CacheKeys, NEW k \in Keys, ~Cached(k), Len(cache) > 0, NEW c,
         c = SubSeq(cache, 1, Len(cache) - 1)
  PROVE  Refreshed(c, k, {}) /\ Len(c) = Len(cache) - 1
<1>1. cache \in Seq(Entry) /\ Len(cache) \in Nat /\ DOMAIN cache = 1..Len(cache)
  BY DEF TypeOK
<1>2. 1 \in Int /\ Len(cache) - 1 \in Int /\ \A i \in 1..(Len(cache) - 1) : cache[i] \in Entry
  BY <1>1
<1>3. /\ c \in Seq(Entry) /\ Len(c) = IF 1 <= Len(cache) - 1 THEN (Len(cache) - 1) - 1 + 1 ELSE 0
      /\ \A i \in 1..((Len(cache) - 1) - 1 + 1) : c[i] = cache[1 + i - 1]
  BY <1>2, SubSeqProperties
<1>4. Len(c) = Len(cache) - 1 /\ \A i \in 1..(Len(cache) - 1) : c[i] = cache[i]
  BY <1>1, <1>3
<1>5. DOMAIN c = 1..(Len(cache) - 1)
  BY <1>3, <1>4
<1>6. \A i \in DOMAIN c : i \in DOMAIN cache /\ c[i] = cache[i]
  BY <1>1, <1>4, <1>5
<1>7. \A i \in DOMAIN c : c[i].key # k
  BY <1>6 DEF Cached
<1>8. \A i, j \in DOMAIN c : c[i].key = c[j].key => i = j
  BY <1>6 DEF CacheKeys
<1>9. \A i \in DOMAIN c : c[i].val # 0
  BY <1>6 DEF CacheKeys
<1> QED
  BY <1>3, <1>4, <1>6, <1>7, <1>8, <1>9 DEF Refreshed

\* KVCache::add has room for the new entry and leaves the others as they were.
LEMMA AddRefreshed ==
  ASSUME TypeOK, CacheKeys, NEW k \in Keys, NEW v \in Nat \ {0}, CacheSize # 0
  PROVE  Refreshed(Add(k, v), k, {v}) /\ Len(Add(k, v)) <= CacheSize
<1>1. CacheSize \in Nat /\ Len(cache) \in Nat /\ Len(cache) <= CacheSize
  BY ConfigType DEF TypeOK
<1>2. CASE Cached(k) \/ Len(cache) < CacheSize
  <2>1. Add(k, v) = InFront(k, v, Without(k))
    BY <1>2 DEF Add, InFront
  <2>2. /\ Refreshed(Without(k), k, {}) /\ Len(Without(k)) \in Nat
        /\ Len(Without(k)) = IF Cached(k) THEN Len(cache) - 1 ELSE Len(cache)
    BY WithoutRefreshed
  <2>3. Refreshed(Add(k, v), k, {v}) /\ Len(Add(k, v)) = Len(Without(k)) + 1
    <3>1. PICK w : w = Without(k)
      OBVIOUS
    <3>2. Refreshed(w, k, {}) /\ Add(k, v) = InFront(k, v, w)
      BY <2>1, <2>2, <3>1, Zenon
    <3>3. Refreshed(Add(k, v), k, {v}) /\ Len(Add(k, v)) = Len(w) + 1
      BY <3>2, FrontRefreshed
    <3> QED
      BY <3>1, <3>3, Zenon
  <2> QED
    BY <1>1, <1>2, <2>2, <2>3
<1>3. CASE ~(Cached(k) \/ Len(cache) < CacheSize)
  <2>1. Add(k, v) = InFront(k, v, SubSeq(cache, 1, Len(cache) - 1))
    BY <1>3 DEF Add, InFront
  <2>2. Len(cache) > 0 /\ ~Cached(k)
    BY <1>1, <1>3
  <2>3. PICK c : c = SubSeq(cache, 1, Len(cache) - 1)
    OBVIOUS
  <2>4. Refreshed(c, k, {}) /\ Len(c) = Len(cache) - 1
    BY <2>2, <2>3, DropLastRefreshed
  <2>5. Refreshed(Add(k, v), k, {v}) /\ Len(Add(k, v)) = Len(c) + 1
    <3>1. Add(k, v) = InFront(k, v, c) /\ Refreshed(c, k, {})
      BY <2>1, <2>3, <2>4, Zenon
    <3> QED
      BY <3>1, FrontRefreshed
  <2> QED
    BY <1>1, <1>3, <2>4, <2>5
<1> QED
  BY <1>2, <1>3

\* The cached value is a row's, and a hit moves it to the front.
LEMMA HitRefreshed ==
  ASSUME TypeOK, CacheKeys, NEW k \in Keys, Cached(k)
  PROVE  /\ CachedValue(k) \in Nat \ {0}
         /\ \E i \in DOMAIN cache : cache[i].key = k /\ cache[i].val = CachedValue(k)
         /\ \E c : /\ c = <<[key |-> k, val |-> CachedValue(k)]>> \o Without(k)
                   /\ Refreshed(c, k, {CachedValue(k)}) /\ Len(c) = Len(cache)
<1>1. cache \in Seq(Entry) /\ Len(cache) \in Nat /\ DOMAIN cache = 1..Len(cache)
  BY DEF TypeOK
<1>2. Place(k) \in DOMAIN cache /\ cache[Place(k)].key = k
  BY PlaceOf
<1>3. cache[Place(k)] \in Entry /\ cache[Place(k)].val # 0
  BY <1>1, <1>2 DEF CacheKeys
<1>4. CachedValue(k) \in Nat \ {0}
  BY <1>3 DEF CachedValue, Entry
<1>5. \E i \in DOMAIN cache : cache[i].key = k /\ cache[i].val = CachedValue(k)
  BY <1>2 DEF CachedValue
<1>6. Refreshed(Without(k), k, {}) /\ Len(Without(k)) = Len(cache) - 1
  BY WithoutRefreshed
<1>7. PICK w, v : w = Without(k) /\ v = CachedValue(k)
  OBVIOUS
<1>8. v \in Nat \ {0} /\ Refreshed(w, k, {}) /\ Len(w) = Len(cache) - 1
  BY <1>4, <1>6, <1>7, Zenon
<1>9. PICK c : c = InFront(k, v, w)
  OBVIOUS
<1>10. Refreshed(c, k, {v}) /\ Len(c) = Len(w) + 1
  BY <1>8, <1>9, FrontRefreshed
<1>11. Len(c) = Len(cache)
  BY <1>1, <1>8, <1>10
<1>12. c = <<[key |-> k, val |-> CachedValue(k)]>> \o Without(k) /\ Refreshed(c, k, {CachedValue(k)})
  BY <1>7, <1>9, <1>10, Zenon DEF InFront
<1> QED
  BY <1>4, <1>5, <1>11, <1>12, Zenon

\* What the cache becomes when key k is touched and its entries are values that a reader
\* may find.
LEMMA CacheStep ==
  ASSUME TypeOK, CacheInv, NEW k \in Keys, NEW V,
         Refreshed(cache', k, V), V \subseteq expected'[k],
         \A j \in Keys : j # k => expected'[j] = expected[j]
  PROVE  CacheKeys' /\ CacheInv'
<1>1. CacheKeys'
  BY DEF CacheKeys, Refreshed
<1>2. ASSUME NEW i \in DOMAIN cache' PROVE cache'[i].val \in expected'[cache'[i].key]
  <2>1. CASE cache'[i].key = k
    BY <2>1 DEF Refreshed
  <2>2. CASE cache'[i].key # k
    <3>1. PICK j \in DOMAIN cache : cache'[i] = cache[j]
      BY <2>2 DEF Refreshed
    <3>2. cache[j] \in Entry
      BY <3>1 DEF TypeOK
    <3>3. cache[j].key \in Keys /\ cache[j].val \in expected[cache[j].key]
      BY <3>1, <3>2 DEF CacheInv, Entry
    <3> QED
      BY <2>2, <3>1, <3>3
  <2> QED
    BY <2>1, <2>2
<1> QED
  BY <1>1, <1>2 DEF CacheInv

-----------------------------------------------------------------------------
(* Requests that are queued. *)

Req == [key : Keys, val : Nat, stamp : Nat]

\* The step queues n requests, with the next n write times, and leaves the table alone.
Appended(n) ==
  /\ n \in Nat /\ time' = time + n
  /\ sent' = sent /\ rows' = rows /\ config' = config
  /\ queue' \in Seq(Req) /\ Len(queue') = Len(queue) + n
  /\ \A i \in 1..Len(queue) : queue'[i] = queue[i]
  /\ \A i \in 1..n : queue'[Len(queue) + i].stamp = time + i

\* Key k is among the requests queued, and the last one for it has an expected value.
Renewed(k, n) ==
  /\ \E i \in 1..n : queue'[Len(queue) + i].key = k
  /\ \A i \in 1..n : /\ queue'[Len(queue) + i].key = k
                     /\ \A j \in 1..n : i < j => queue'[Len(queue) + j].key # k
                     => queue'[Len(queue) + i].val \in expected'[k]

\* The types that the lemmas below rest on.
LEMMA PipeTypes ==
  ASSUME TypeOK
  PROVE  /\ Len(queue) \in Nat /\ DOMAIN queue = 1..Len(queue) /\ time \in Nat
         /\ \A i \in DOMAIN queue : queue[i] \in Req
         /\ \A r \in sent \cup Queued : r \in Req /\ r.key \in Keys /\ r.val \in Nat /\ r.stamp \in Nat
         /\ \A k \in Keys : rows[k].stamp \in Nat /\ rows[k].val \in Nat
<1>1. /\ Len(queue) \in Nat /\ DOMAIN queue = 1..Len(queue) /\ time \in Nat
      /\ \A i \in DOMAIN queue : queue[i] \in Req
  <2>1. queue \in Seq(Req) /\ time \in Nat
    BY DEF TypeOK, Req
  <2> QED
    BY <2>1
<1>2. \A r \in sent \cup Queued : r \in Req
  <2>1. sent \subseteq Req
    BY DEF TypeOK, Req
  <2> QED
    BY <1>1, <2>1, Zenon DEF Queued
<1>3. \A r \in Req : r.key \in Keys /\ r.val \in Nat /\ r.stamp \in Nat
  BY DEF Req
<1>4. \A k \in Keys : rows[k].stamp \in Nat /\ rows[k].val \in Nat
  BY DEF TypeOK
<1> QED
  BY <1>1, <1>2, <1>3, <1>4

\* The places of the longer queue are the old ones and n new ones.
LEMMA AppendedPlaces ==
  ASSUME TypeOK, NEW n, Appended(n)
  PROVE  /\ DOMAIN queue' = 1..(Len(queue) + n)
         /\ \A x \in DOMAIN queue' : \/ x \in DOMAIN queue /\ queue'[x] = queue[x]
                                     \/ \E i \in 1..n : x = Len(queue) + i
         /\ \A x \in DOMAIN queue : x \in DOMAIN queue' /\ queue'[x] = queue[x]
         /\ \A i \in 1..n : Len(queue) + i \in DOMAIN queue'
<1>1. Len(queue) \in Nat /\ DOMAIN queue = 1..Len(queue) /\ n \in Nat
  BY PipeTypes DEF Appended
<1>2. DOMAIN queue' = 1..(Len(queue) + n)
  BY DEF Appended
<1>3. ASSUME NEW x \in DOMAIN queue'
      PROVE  \/ x \in DOMAIN queue /\ queue'[x] = queue[x]
             \/ \E i \in 1..n : x = Len(queue) + i
  <2>1. CASE x <= Len(queue)
    BY <1>1, <1>2, <2>1 DEF Appended
  <2>2. CASE ~(x <= Len(queue))
    <3>1. x - Len(queue) \in 1..n /\ x = Len(queue) + (x - Len(queue))
      BY <1>1, <1>2, <2>2
    <3> QED
      BY <3>1
  <2> QED
    BY <2>1, <2>2
<1>4. \A x \in DOMAIN queue : x \in DOMAIN queue' /\ queue'[x] = queue[x]
  BY <1>1, <1>2 DEF Appended
<1>5. \A i \in 1..n : Len(queue) + i \in DOMAIN queue'
  BY <1>1, <1>2
<1> QED
  BY <1>2, <1>3, <1>4, <1>5

\* The requests of the longer queue are the old ones and the new ones, which are later.
LEMMA AppendedRequests ==
  ASSUME TypeOK, NEW n, Appended(n)
  PROVE  /\ \A r \in Queued' : r \in Queued \/ \E i \in 1..n : r = queue'[Len(queue) + i]
         /\ Queued \subseteq Queued'
         /\ \A i \in 1..n : queue'[Len(queue) + i] \in Queued'
<1>1. \A r \in Queued' : r \in Queued \/ \E i \in 1..n : r = queue'[Len(queue) + i]
  BY AppendedPlaces DEF Queued
<1>2. Queued \subseteq Queued'
  BY AppendedPlaces DEF Queued
<1>3. \A i \in 1..n : queue'[Len(queue) + i] \in Queued'
  BY AppendedPlaces DEF Queued
<1> QED
  BY <1>1, <1>2, <1>3

\* Queueing requests for some keys: each key that is not dirty either has a new request
\* with its value or is as it was.
LEMMA AppendSettles ==
  ASSUME TypeOK, Times, NEW n, Appended(n), NEW k \in Keys, Settles(k), dirty' \in [Keys -> Nat],
         \/ dirty'[k] # 0 /\ dirty'[k] \in expected'[k]
         \/ dirty'[k] = 0 /\ Renewed(k, n)
         \/ /\ dirty'[k] = 0 /\ dirty[k] = 0 /\ expected'[k] = expected[k]
            /\ \A i \in 1..n : queue'[Len(queue) + i].key # k
  PROVE  Settles(k)'
<1>1. /\ n \in Nat /\ time \in Nat /\ Len(queue) \in Nat
      /\ \A i \in 1..n : queue'[Len(queue) + i].stamp = time + i
      /\ sent' = sent /\ rows' = rows /\ Timestamped' = Timestamped
      /\ \A r \in sent \cup Queued : r.stamp \in Nat
      /\ rows[k].stamp \in Nat
  BY PipeTypes DEF Appended, Timestamped
<1>2. CASE dirty'[k] # 0 /\ dirty'[k] \in expected'[k]
  BY <1>2 DEF Settles
<1>3. CASE dirty'[k] = 0 /\ Renewed(k, n)
  <2>1. PICK x \in 1..n : queue'[Len(queue) + x].key = k
    BY <1>3 DEF Renewed
  <2>2. ASSUME Timestamped PROVE NewestOK(k, sent \cup Queued)'
    <3>1. /\ rows[k].stamp <= time
          /\ \A r \in sent \cup Queued : r.stamp <= time
      BY <2>2 DEF Times
    <3>2. ASSUME NEW r \in sent \cup Queued', r.key = k,
                 \A s \in sent \cup Queued' : s.key = k => s.stamp <= r.stamp
          PROVE  r.val \in expected'[k]
      <4>1. ~(r \in sent \cup Queued)
        <5>1. time + x <= r.stamp
          BY <1>1, <2>1, <3>2, AppendedRequests
        <5> QED
          BY <1>1, <3>1, <5>1
      <4>2. PICK i \in 1..n : r = queue'[Len(queue) + i]
        BY <3>2, <4>1, AppendedRequests
      <4>3. ASSUME NEW j \in 1..n, i < j PROVE queue'[Len(queue) + j].key # k
        <5>1. r.stamp = time + i /\ queue'[Len(queue) + j].stamp = time + j
          BY <1>1, <4>2
        <5>2. queue'[Len(queue) + j] \in Queued'
          BY AppendedRequests
        <5> QED
          BY <1>1, <3>2, <4>3, <5>1, <5>2
      <4> QED
        BY <1>3, <3>2, <4>2, <4>3 DEF Renewed
    <3>3. ~(\A s \in sent \cup Queued' : s.key = k => s.stamp <= rows[k].stamp)
      <4>1. queue'[Len(queue) + x] \in Queued' /\ queue'[Len(queue) + x].stamp = time + x
        BY <1>1, AppendedRequests
      <4> QED
        BY <1>1, <2>1, <3>1, <4>1
    <3> QED
      BY <1>1, <3>2, <3>3 DEF NewestOK
  <2>3. LastOK(k)'
    <3>1. ASSUME NEW i \in DOMAIN queue', queue'[i].key = k,
                 \A j \in DOMAIN queue' : i < j => queue'[j].key # k
          PROVE  queue'[i].val \in expected'[k]
      <4>1. Len(queue) + x \in DOMAIN queue' /\ DOMAIN queue = 1..Len(queue)
        BY AppendedPlaces, PipeTypes
      <4>2. ~(i \in DOMAIN queue)
        BY <1>1, <2>1, <3>1, <4>1
      <4>3. PICK y \in 1..n : i = Len(queue) + y
        BY <4>2, AppendedPlaces
      <4>4. ASSUME NEW j \in 1..n, y < j PROVE queue'[Len(queue) + j].key # k
        <5>1. Len(queue) + j \in DOMAIN queue' /\ i < Len(queue) + j
          BY <1>1, <4>3, <4>4, AppendedPlaces
        <5> QED
          BY <3>1, <5>1
      <4> QED
        BY <1>3, <3>1, <4>3, <4>4 DEF Renewed
    <3> QED
      BY <3>1 DEF LastOK
  <2>4. ~(\A r \in Queued' : r.key # k)
    BY <2>1, AppendedRequests
  <2> QED
    BY <1>1, <1>3, <2>2, <2>3, <2>4 DEF Settles
<1>4. CASE /\ dirty'[k] = 0 /\ dirty[k] = 0 /\ expected'[k] = expected[k]
           /\ \A i \in 1..n : queue'[Len(queue) + i].key # k
  <2>1. \A r \in Queued' : r.key = k => r \in Queued
    BY <1>4, AppendedRequests
  <2>2. Queued \subseteq Queued'
    BY AppendedRequests
  <2>3. ASSUME NewestOK(k, sent \cup Queued) PROVE NewestOK(k, sent \cup Queued)'
    BY <1>1, <1>4, <2>1, <2>2, <2>3 DEF NewestOK
  <2>4. ASSUME NewestOK(k, sent) PROVE NewestOK(k, sent)'
    BY <1>1, <1>4, <2>4 DEF NewestOK
  <2>5. ASSUME LastOK(k) PROVE LastOK(k)'
    <3>1. ASSUME NEW i \in DOMAIN queue', queue'[i].key = k,
                 \A j \in DOMAIN queue' : i < j => queue'[j].key # k
          PROVE  queue'[i].val \in expected'[k]
      <4>1. i \in DOMAIN queue /\ queue'[i] = queue[i]
        BY <1>4, <3>1, AppendedPlaces
      <4>2. \A j \in DOMAIN queue : i < j => queue[j].key # k
        BY <3>1, AppendedPlaces
      <4> QED
        BY <1>4, <2>5, <3>1, <4>1, <4>2 DEF LastOK
    <3> QED
      BY <3>1 DEF LastOK
  <2>6. (\A r \in Queued' : r.key # k) => (\A r \in Queued : r.key # k)
    BY <2>2
  <2> QED
    BY <1>1, <1>4, <2>3, <2>4, <2>5, <2>6 DEF Settles
<1> QED
  BY <1>2, <1>3, <1>4

\* What is queued is bounded by the new time.
LEMMA AppendTimes ==
  ASSUME TypeOK, Times, NEW n, Appended(n), call'.pc # "delete"
  PROVE  Times'
<1>1. /\ n \in Nat /\ time \in Nat /\ time' = time + n
      /\ \A i \in 1..n : queue'[Len(queue) + i].stamp = time + i
      /\ sent' = sent /\ rows' = rows /\ Timestamped' = Timestamped
      /\ \A r \in sent \cup Queued : r.stamp \in Nat
      /\ \A k \in Keys : rows[k].stamp \in Nat
  BY PipeTypes DEF Appended, Timestamped
<1>2. (\A k \in Keys : rows[k].stamp <= time)' /\ (\A r \in sent : r.stamp <= time)'
  BY <1>1 DEF Times
<1>3. ASSUME Timestamped, NEW r \in Queued' PROVE r.stamp <= time'
  <2>1. CASE r \in Queued
    BY <1>1, <1>3, <2>1 DEF Times
  <2>2. CASE \E i \in 1..n : r = queue'[Len(queue) + i]
    BY <1>1, <2>2
  <2> QED
    BY <2>1, <2>2, AppendedRequests
<1> QED
  BY <1>1, <1>2, <1>3 DEF Times

LEMMA AppendNothing ==
  ASSUME TypeOK, UNCHANGED <<queue, time, sent, rows, config>>
  PROVE  Appended(0)
<1>1. queue \in Seq(Req) /\ time \in Nat
  BY DEF TypeOK, Req
<1> QED
  BY <1>1 DEF Appended

\* A sequence of requests with the next write times, put at the end of the queue.
LEMMA AppendRequests ==
  ASSUME TypeOK, NEW n \in Nat, NEW s \in Seq(Req), Len(s) = n,
         \A i \in 1..n : s[i].stamp = time + i,
         queue' = queue \o s, time' = time + n, UNCHANGED <<sent, rows, config>>
  PROVE  Appended(n) /\ \A i \in 1..n : queue'[Len(queue) + i] = s[i]
<1>1. queue \in Seq(Req) /\ Len(queue) \in Nat
  BY DEF TypeOK, Req
<1>2. /\ queue' \in Seq(Req) /\ Len(queue') = Len(queue) + n
      /\ \A i \in 1..(Len(queue) + n) : queue'[i] = IF i <= Len(queue) THEN queue[i] ELSE s[i - Len(queue)]
  BY <1>1, ConcatProperties
<1>3. \A i \in 1..Len(queue) : queue'[i] = queue[i]
  BY <1>1, <1>2
<1>4. ASSUME NEW i \in 1..n PROVE queue'[Len(queue) + i] = s[i]
  <2>1. Len(queue) + i \in 1..(Len(queue) + n) /\ ~(Len(queue) + i <= Len(queue)) /\ (Len(queue) + i) - Len(queue) = i
    BY <1>1
  <2> QED
    BY <1>2, <2>1
<1> QED
  BY <1>2, <1>3, <1>4 DEF Appended

\* The order in which the dirty blocks are visited is a list of all of them.
LEMMA OrderOf ==
  ASSUME NEW d \in [Keys -> Nat], IsFiniteSet(DirtyKeys(d)), NEW f \in Orders(d)
  PROVE  /\ Len(f) \in Nat /\ DOMAIN f = 1..Len(f)
         /\ \A i \in 1..Len(f) : f[i] \in Keys /\ d[f[i]] # 0
         /\ \A k \in Keys : d[k] # 0 => \E i \in 1..Len(f) : f[i] = k
<1> DEFINE D == {k \in Keys : d[k] # 0}
           m == Cardinality(D)
<1>1. m \in Nat
  BY FS_CardinalityType DEF DirtyKeys
<1>2. f \in [1..m -> D] /\ \A k \in D : \E i \in 1..m : f[i] = k
  BY DEF Orders
<1> HIDE DEF m
<1>3. Len(f) = m
  BY <1>1, <1>2
<1> QED
  BY <1>1, <1>2, <1>3

\* The requests of the dirty blocks, in that order.
Blocks(d, f, t) == [i \in DOMAIN f |-> Request(f[i], d[f[i]], t + i)]

\* One request for each dirty block, with its value and the next write time.
BlocksOf(s, n, d, t) ==
  /\ n \in Nat /\ s \in Seq(Req) /\ Len(s) = n
  /\ \A i \in 1..n : /\ s[i].stamp = t + i /\ s[i].key \in Keys
                     /\ s[i].val = d[s[i].key] /\ d[s[i].key] # 0
  /\ \A k \in Keys : d[k] # 0 => \E i \in 1..n : s[i].key = k

LEMMA BlockRequests ==
  ASSUME NEW d \in [Keys -> Nat], IsFiniteSet(DirtyKeys(d)), NEW f \in Orders(d),
         NEW t \in Nat, NEW s, s = Blocks(d, f, t)
  PROVE  BlocksOf(s, Len(f), d, t)
<1>1. /\ Len(f) \in Nat /\ DOMAIN f = 1..Len(f)
      /\ \A i \in 1..Len(f) : f[i] \in Keys /\ d[f[i]] # 0
      /\ \A k \in Keys : d[k] # 0 => \E i \in 1..Len(f) : f[i] = k
  BY OrderOf
<1>2. PICK n \in Nat : n = Len(f)
  BY <1>1
<1>3. \A i \in 1..n : Request(f[i], d[f[i]], t + i) \in Req
  BY <1>1, <1>2 DEF Request, Req
<1>4. s \in [1..n -> Req]
  BY <1>1, <1>2, <1>3 DEF Blocks
<1>5. \A i \in 1..n : s[i].key = f[i] /\ s[i].val = d[f[i]] /\ s[i].stamp = t + i
  BY <1>1, <1>2 DEF Blocks, Request
<1>6. s \in Seq(Req) /\ Len(s) = n
  BY <1>4
<1>7. \A i \in 1..n : /\ s[i].stamp = t + i /\ s[i].key \in Keys
                      /\ s[i].val = d[s[i].key] /\ d[s[i].key] # 0
  BY <1>1, <1>2, <1>5
<1>8. ASSUME NEW k \in Keys, d[k] # 0 PROVE \E i \in 1..n : s[i].key = k
  <2>1. PICK i \in 1..n : f[i] = k
    BY <1>1, <1>2, <1>8
  <2> QED
    BY <1>5, <2>1
<1>9. BlocksOf(s, n, d, t)
  BY <1>6, <1>7, <1>8 DEF BlocksOf
<1> QED
  BY <1>2, <1>9

\* Writer::flush_dirty_blocks: the blocks of d, all of them values that a reader may find,
\* end up in the queue; without lazy writes nothing happens.
LEMMA FlushSettles ==
  ASSUME TypeOK, Times, StoredInv, NEW d \in [Keys -> Nat], IsFiniteSet(DirtyKeys(d)),
         flush_dirty_blocks(d), UNCHANGED <<sent, rows, config>>,
         \A k \in Keys : d[k] # 0 => d[k] \in expected'[k],
         \A k \in Keys : d[k] = 0 => dirty[k] = 0 /\ expected'[k] = expected[k]
  PROVE  /\ \E n : Appended(n)
         /\ StoredInv'
         /\ dirty' \in [Keys -> Nat]
         /\ dirty' = IF lazy THEN Clean ELSE d
<1>1. CASE ~lazy
  <2>1. dirty' = d /\ Appended(0)
    BY <1>1, AppendNothing DEF flush_dirty_blocks
  <2>2. ASSUME NEW k \in Keys PROVE Settles(k)'
    <3>1. CASE d[k] # 0
      BY <2>1, <3>1 DEF Settles
    <3>2. CASE d[k] = 0
      <4>1. /\ dirty' \in [Keys -> Nat] /\ Settles(k)
            /\ dirty'[k] = 0 /\ dirty[k] = 0 /\ expected'[k] = expected[k]
            /\ \A i \in 1..0 : queue'[Len(queue) + i].key # k
        BY <2>1, <3>2 DEF StoredInv
      <4> QED
        BY <2>1, <4>1, AppendSettles
    <3> QED
      BY <3>1, <3>2
  <2> QED
    BY <1>1, <2>1, <2>2 DEF StoredInv
<1>2. CASE lazy
  <2>1. PICK f \in Orders(d) :
         /\ time' = time + Len(f)
         /\ queue' = queue \o [i \in DOMAIN f |-> Request(f[i], d[f[i]], time + i)]
         /\ dirty' = Clean
    BY <1>2, Zenon DEF flush_dirty_blocks
  <2>2. PICK t \in Nat : t = time
    BY DEF TypeOK
  <2>3. PICK s : s = Blocks(d, f, t)
    OBVIOUS
  <2>4. PICK n : n = Len(f)
    OBVIOUS
  <2>5. /\ n \in Nat /\ s \in Seq(Req) /\ Len(s) = n
        /\ \A i \in 1..n : s[i].stamp = t + i /\ s[i].key \in Keys /\ s[i].val = d[s[i].key] /\ d[s[i].key] # 0
        /\ \A k \in Keys : d[k] # 0 => \E i \in 1..n : s[i].key = k
    <3>1. BlocksOf(s, n, d, t)
      BY <2>3, <2>4, BlockRequests, Zenon
    <3> QED
      BY <3>1 DEF BlocksOf
  <2>6. queue' = queue \o s /\ time' = time + n /\ \A i \in 1..n : s[i].stamp = time + i
    <3>1. queue' = queue \o s /\ time' = time + n
      BY <2>1, <2>2, <2>3, <2>4, Zenon DEF Blocks
    <3> QED
      BY <2>2, <2>5, <3>1
  <2>7. Appended(n) /\ \A i \in 1..n : queue'[Len(queue) + i] = s[i]
    BY <2>5, <2>6, AppendRequests
  <2>8. dirty' \in [Keys -> Nat] /\ \A k \in Keys : dirty'[k] = 0
    BY <2>1 DEF Clean
  <2>9. ASSUME NEW k \in Keys PROVE Settles(k)'
    <3>1. CASE d[k] # 0
      <4>1. Renewed(k, n)
        <5>1. \E i \in 1..n : queue'[Len(queue) + i].key = k
          <6>1. PICK i \in 1..n : s[i].key = k
            BY <2>5, <3>1
          <6>2. queue'[Len(queue) + i] = s[i]
            BY <2>7
          <6> QED
            BY <6>1, <6>2
        <5>2. ASSUME NEW i \in 1..n, queue'[Len(queue) + i].key = k
              PROVE  queue'[Len(queue) + i].val \in expected'[k]
          <6>1. queue'[Len(queue) + i] = s[i] /\ s[i].val = d[s[i].key]
            BY <2>5, <2>7
          <6> QED
            BY <3>1, <5>2, <6>1
        <5> QED
          BY <5>1, <5>2 DEF Renewed
      <4>2. Settles(k)
        BY DEF StoredInv
      <4> QED
        BY <2>7, <2>8, <4>1, <4>2, AppendSettles
    <3>2. CASE d[k] = 0
      <4>1. Settles(k) /\ dirty'[k] = 0 /\ dirty[k] = 0 /\ expected'[k] = expected[k]
        BY <2>8, <3>2 DEF StoredInv
      <4>2. ASSUME NEW i \in 1..n PROVE queue'[Len(queue) + i].key # k
        <5>1. queue'[Len(queue) + i] = s[i] /\ d[s[i].key] # 0
          BY <2>5, <2>7
        <5> QED
          BY <3>2, <5>1
      <4> QED
        BY <2>7, <2>8, <4>1, <4>2, AppendSettles
    <3> QED
      BY <3>1, <3>2
  <2> QED
    BY <1>2, <2>1, <2>7, <2>8, <2>9 DEF StoredInv
<1> QED
  BY <1>1, <1>2

\* Writer::queue_async_query appends one request.
LEMMA QueueSettles ==
  ASSUME TypeOK, Times, StoredInv, NEW k \in Keys, NEW v \in Nat,
         \A j \in Keys : dirty[j] = 0, UNCHANGED <<dirty, sent, rows, config>>,
         queue_async_query(k, v), expected' = [expected EXCEPT ![k] = {v}]
  PROVE  Appended(1) /\ StoredInv'
<1>1. queue \in Seq(Req) /\ Len(queue) \in Nat /\ time \in Nat
  BY DEF TypeOK, Req
<1>2. PICK r : r = Request(k, v, time + 1)
  OBVIOUS
<1>3. r \in Req /\ r.key = k /\ r.val = v /\ r.stamp = time + 1
  BY <1>1, <1>2 DEF Request, Req
<1>4. queue' = Append(queue, r) /\ time' = time + 1
  BY <1>2 DEF queue_async_query
<1>5. /\ queue' \in Seq(Req) /\ Len(queue') = Len(queue) + 1
      /\ \A i \in 1..Len(queue) : queue'[i] = queue[i]
      /\ queue'[Len(queue) + 1] = r
  <2>1. /\ Append(queue, r) \in Seq(Req) /\ Len(Append(queue, r)) = Len(queue) + 1
        /\ \A i \in 1..Len(queue) : Append(queue, r)[i] = queue[i]
        /\ Append(queue, r)[Len(queue) + 1] = r
    BY <1>1, <1>3, AppendProperties
  <2> QED
    BY <1>4, <2>1, Zenon
<1>6. Appended(1)
  BY <1>3, <1>4, <1>5 DEF Appended
<1>7. expected \in [Keys -> SUBSET Nat] /\ dirty' \in [Keys -> Nat] /\ \A j \in Keys : dirty'[j] = 0
  BY DEF TypeOK
<1>8. ASSUME NEW j \in Keys PROVE Settles(j)'
  <2>1. Settles(j)
    BY DEF StoredInv
  <2>2. CASE j = k
    <3>1. Renewed(k, 1)
      BY <1>3, <1>5, <1>7 DEF Renewed
    <3> QED
      BY <1>6, <1>7, <2>1, <2>2, <3>1, AppendSettles
  <2>3. CASE j # k
    <3>1. expected'[j] = expected[j] /\ \A i \in 1..1 : queue'[Len(queue) + i].key # j
      BY <1>3, <1>5, <1>7, <2>3
    <3> QED
      BY <1>6, <1>7, <2>1, <3>1, AppendSettles
  <2> QED
    BY <2>2, <2>3
<1> QED
  BY <1>6, <1>8 DEF StoredInv

\* Writer::write_to_cassandra: the value is dirty or queued.
LEMMA WriteSettles ==
  ASSUME TypeOK, LazyInv, Times, StoredInv, NEW k \in Keys, NEW v \in Nat \ {0},
         UNCHANGED <<sent, rows, config>>,
         write_to_cassandra(k, v), expected' = [expected EXCEPT ![k] = {v}]
  PROVE  /\ \E n : Appended(n)
         /\ StoredInv'
         /\ dirty' \in [Keys -> Nat]
         /\ IsFiniteSet(Dirty')
         /\ ~lazy => Dirty' = {}
<1>1. expected \in [Keys -> SUBSET Nat] /\ dirty \in [Keys -> Nat]
  BY DEF TypeOK
<1>2. CASE lazy
  <2> DEFINE e == [dirty EXCEPT ![k] = v]
  <2>1. PICK d \in [Keys -> Nat] : d = e
    BY <1>1
  <2>2. d[k] = v /\ \A j \in Keys : j # k => d[j] = dirty[j]
    BY <1>1, <2>1
  <2>3. \/ flush_dirty_blocks(d)
        \/ dirty' = d /\ UNCHANGED <<queue, time>>
    BY <1>2, <2>1 DEF write_to_cassandra
  <2> HIDE DEF e
  <2>4. \A j \in Keys : d[j] # 0 => d[j] \in expected'[j]
    BY <1>1, <2>2 DEF StoredInv, Settles
  <2>5. \A j \in Keys : d[j] = 0 => dirty[j] = 0 /\ expected'[j] = expected[j]
    BY <1>1, <2>2
  <2>6. IsFiniteSet(DirtyKeys(d))
    <3>1. IsFiniteSet(Dirty \cup {k})
      BY FS_AddElement DEF LazyInv
    <3>2. DirtyKeys(d) \subseteq Dirty \cup {k}
      BY <2>2 DEF Dirty, DirtyKeys
    <3> QED
      BY <3>1, <3>2, FS_Subset
  <2>7. CASE flush_dirty_blocks(d)
    <3>1. /\ \E n : Appended(n)
          /\ StoredInv'
          /\ dirty' \in [Keys -> Nat]
          /\ dirty' = IF lazy THEN Clean ELSE d
      BY <2>4, <2>5, <2>6, <2>7, FlushSettles
    <3>2. Dirty' = {}
      BY <1>2, <3>1 DEF Dirty, DirtyKeys, Clean
    <3> QED
      BY <3>1, <3>2, FS_EmptySet
  <2>8. CASE dirty' = d /\ UNCHANGED <<queue, time>>
    <3>1. Appended(0)
      BY <2>8, AppendNothing
    <3>2. ASSUME NEW j \in Keys PROVE Settles(j)'
      <4>1. CASE d[j] # 0
        BY <2>4, <2>8, <4>1 DEF Settles
      <4>2. CASE d[j] = 0
        <5>1. /\ Settles(j) /\ dirty'[j] = 0 /\ dirty[j] = 0 /\ expected'[j] = expected[j]
              /\ \A i \in 1..0 : queue'[Len(queue) + i].key # j
          BY <2>5, <2>8, <4>2 DEF StoredInv
        <5> QED
          BY <2>8, <3>1, <5>1, AppendSettles
      <4> QED
        BY <4>1, <4>2
    <3>3. IsFiniteSet(Dirty')
      BY <2>6, <2>8 DEF Dirty
    <3> QED
      BY <1>2, <2>8, <3>1, <3>2, <3>3 DEF StoredInv
  <2> QED
    BY <2>3, <2>7, <2>8
<1>3. CASE ~lazy
  <2>1. queue_async_query(k, v) /\ UNCHANGED dirty
    BY <1>3 DEF write_to_cassandra
  <2>2. \A j \in Keys : dirty[j] = 0
    BY <1>3 DEF LazyInv, Dirty, DirtyKeys
  <2>3. Appended(1) /\ StoredInv'
    BY <2>1, <2>2, QueueSettles
  <2>4. Dirty' = Dirty
    BY <2>1 DEF Dirty
  <2> QED
    BY <1>1, <1>3, <2>1, <2>3, <2>4 DEF LazyInv
<1> QED
  BY <1>2, <1>3

\* The dirty blocks d are queued and then one more request, the last for its key.
LEMMA ColumnLast ==
  ASSUME TypeOK, Times, StoredInv, NEW k \in Keys, NEW b, NEW n, NEW d, NEW t, NEW m \in Nat,
         BlocksOf(b, n, d, t), d = dirty, m = n + 1, Appended(m),
         \A i \in 1..n : queue'[Len(queue) + i] = b[i],
         queue'[Len(queue) + m].key = k, queue'[Len(queue) + m].val \in expected'[k],
         \A j \in Keys : j # k => expected'[j] = expected[j],
         dirty' \in [Keys -> Nat], \A j \in Keys : dirty'[j] = 0
  PROVE  StoredInv'
<1>1. n \in Nat /\ \A i \in 1..m : i \in 1..n \/ i = m
  BY DEF BlocksOf
<1>2. ASSUME NEW j \in Keys PROVE Settles(j)'
  <2>1. Settles(j)
    BY DEF StoredInv
  <2>2. CASE j = k
    <3>1. Renewed(k, m)
      <4>1. m \in 1..m
        BY <1>1
      <4>2. ASSUME NEW i \in 1..m,
                   \A x \in 1..m : i < x => queue'[Len(queue) + x].key # k
            PROVE  i = m
        <5>1. i # m => i < m
          BY <1>1
        <5> QED
          BY <4>1, <4>2, <5>1
      <4>3. \E i \in 1..m : queue'[Len(queue) + i].key = k
        BY <4>1
      <4> QED
        BY <4>2, <4>3 DEF Renewed
    <3> QED
      BY <2>1, <2>2, <3>1, AppendSettles
  <2>3. CASE j # k /\ dirty[j] # 0
    <3>1. expected'[j] = expected[j] /\ dirty[j] \in expected[j]
      BY <2>1, <2>3 DEF Settles
    <3>2. PICK x \in 1..n : b[x].key = j
      BY <2>3 DEF BlocksOf
    <3>3. x \in 1..m /\ queue'[Len(queue) + x].key = j
      BY <1>1, <3>2
    <3>4. ASSUME NEW i \in 1..m, queue'[Len(queue) + i].key = j
          PROVE  queue'[Len(queue) + i].val \in expected'[j]
      <4>1. i \in 1..n
        BY <1>1, <2>3, <3>4
      <4>2. queue'[Len(queue) + i] = b[i] /\ b[i].val = d[b[i].key]
        BY <4>1 DEF BlocksOf
      <4> QED
        BY <3>1, <3>4, <4>2
    <3>5. Renewed(j, m)
      BY <3>3, <3>4 DEF Renewed
    <3> QED
      BY <2>1, <3>5, AppendSettles
  <2>4. CASE j # k /\ dirty[j] = 0
    <3>1. ASSUME NEW i \in 1..m PROVE queue'[Len(queue) + i].key # j
      <4>1. CASE i = m
        BY <2>4, <4>1
      <4>2. CASE i \in 1..n
        <5>1. queue'[Len(queue) + i] = b[i] /\ d[b[i].key] # 0
          BY <4>2 DEF BlocksOf
        <5> QED
          BY <2>4, <5>1
      <4> QED
        BY <1>1, <4>1, <4>2
    <3> QED
      BY <2>1, <2>4, <3>1, AppendSettles
  <2> QED
    BY <2>2, <2>3, <2>4
<1> QED
  BY <1>2 DEF StoredInv

\* Writer::write_to_cassandra of a single column queues the dirty blocks and then its own
\* value, which is the last for its key.
LEMMA ColumnSettles ==
  ASSUME TypeOK, LazyInv, Times, StoredInv, NEW k \in Keys, NEW v \in Nat, NEW f \in Orders(dirty),
         UNCHANGED <<sent, rows, config>>, dirty' = Clean,
         time' = time + Len(f) + 1,
         queue' = queue \o (Blocks(dirty, f, time) \o <<Request(k, v, time + Len(f) + 1)>>),
         expected' = [expected EXCEPT ![k] = {v}]
  PROVE  (\E n : Appended(n)) /\ StoredInv'
<1>1. /\ queue \in Seq(Req) /\ Len(queue) \in Nat /\ dirty \in [Keys -> Nat]
      /\ expected \in [Keys -> SUBSET Nat] /\ IsFiniteSet(DirtyKeys(dirty))
  BY DEF TypeOK, Req, LazyInv, Dirty
<1>2. PICK t \in Nat, d \in [Keys -> Nat] : t = time /\ d = dirty
  BY <1>1 DEF TypeOK
<1>3. PICK b, n : b = Blocks(d, f, t) /\ n = Len(f)
  OBVIOUS
<1>4. PICK r : r = Request(k, v, t + n + 1)
  OBVIOUS
<1>5. BlocksOf(b, n, d, t)
  <2>1. IsFiniteSet(DirtyKeys(d)) /\ f \in Orders(d)
    BY <1>1, <1>2, Zenon
  <2> QED
    BY <1>3, <2>1, BlockRequests, Zenon
<1>6. n \in Nat /\ b \in Seq(Req) /\ Len(b) = n
  BY <1>5 DEF BlocksOf
<1>7. r \in Req /\ r.key = k /\ r.val = v /\ r.stamp = t + (n + 1)
  BY <1>4, <1>6 DEF Request, Req
<1>8. PICK s : s = Append(b, r)
  OBVIOUS
<1>9. /\ s \in Seq(Req) /\ Len(s) = n + 1
      /\ \A i \in 1..n : s[i] = b[i]
      /\ s[n + 1] = r
  <2>1. /\ Append(b, r) \in Seq(Req) /\ Len(Append(b, r)) = Len(b) + 1
        /\ \A i \in 1..Len(b) : Append(b, r)[i] = b[i]
        /\ Append(b, r)[Len(b) + 1] = r
    BY <1>6, <1>7, AppendProperties
  <2> QED
    BY <1>6, <1>8, <2>1, Zenon
<1>10. queue' = queue \o s
  <2>1. s = b \o <<r>>
    BY <1>6, <1>7, <1>8, AppendIsConcat, Zenon
  <2>2. queue' = queue \o (b \o <<r>>)
    BY <1>2, <1>3, <1>4, Zenon
  <2> QED
    BY <2>1, <2>2, Zenon
<1>11. /\ n + 1 \in Nat /\ time' = time + (n + 1)
       /\ \A i \in 1..(n + 1) : s[i].stamp = time + i
  <2>1. \A i \in 1..n : s[i].stamp = t + i
    BY <1>5, <1>9 DEF BlocksOf
  <2>2. time' = time + n + 1
    BY <1>3, Zenon
  <2>3. \A i \in 1..(n + 1) : i \in 1..n \/ i = n + 1
    BY <1>6
  <2>4. \A i \in 1..(n + 1) : s[i].stamp = t + i
    BY <1>7, <1>9, <2>1, <2>3
  <2>5. \A i \in 1..(n + 1) : s[i].stamp = time + i
    BY <1>2, <2>4, Zenon
  <2>6. n + 1 \in Nat /\ t + n + 1 = t + (n + 1)
    BY <1>6
  <2>7. time' = time + (n + 1)
    BY <1>2, <2>2, <2>6, Zenon
  <2> QED
    BY <2>5, <2>6, <2>7, Zenon
<1>12. Appended(n + 1) /\ \A i \in 1..(n + 1) : queue'[Len(queue) + i] = s[i]
  <2>1. PICK m \in Nat : m = n + 1
    BY <1>11
  <2>2. Appended(m) /\ \A i \in 1..m : queue'[Len(queue) + i] = s[i]
    BY <1>9, <1>10, <1>11, <2>1, AppendRequests
  <2> QED
    BY <2>1, <2>2
<1>13. /\ \A i \in 1..n : queue'[Len(queue) + i] = b[i]
       /\ queue'[Len(queue) + (n + 1)].key = k /\ queue'[Len(queue) + (n + 1)].val = v
  <2>1. n + 1 \in 1..(n + 1) /\ \A i \in 1..n : i \in 1..(n + 1)
    BY <1>6
  <2> QED
    BY <1>7, <1>9, <1>12, <2>1, Zenon
<1>14. /\ dirty' \in [Keys -> Nat] /\ \A j \in Keys : dirty'[j] = 0
       /\ v \in expected'[k] /\ \A j \in Keys : j # k => expected'[j] = expected[j]
  BY <1>1 DEF Clean
<1>15. StoredInv'
  <2>1. PICK m \in Nat : m = n + 1
    BY <1>11
  <2>2. Appended(m) /\ queue'[Len(queue) + m].key = k /\ queue'[Len(queue) + m].val \in expected'[k]
    BY <1>12, <1>13, <1>14, <2>1, Zenon
  <2> QED
    BY <1>2, <1>5, <1>13, <1>14, <2>1, <2>2, ColumnLast
<1> QED
  BY <1>12, <1>15

-----------------------------------------------------------------------------
(* The asynchronous write path. *)

\* Request r leaves the set of those to apply, and the row takes its value if it is newer.
LEMMA NewestApply ==
  ASSUME TypeOK, NEW k \in Keys, NEW W1 \in SUBSET Req, NEW W2 \in SUBSET Req, NEW r \in W1,
         NewestOK(k, W1), W2 \subseteq W1, W1 \subseteq W2 \cup {r}, expected' = expected,
         rows' = [rows EXCEPT ![r.key] = IF r.stamp > @.stamp
                                         THEN [val |-> r.val, stamp |-> r.stamp] ELSE @]
  PROVE  NewestOK(k, W2)'
<1>1. /\ \A x \in Req : x.key \in Keys /\ x.stamp \in Nat
      /\ rows[k].stamp \in Nat /\ rows \in [Keys -> [val : Nat, stamp : Nat]]
      /\ \A x \in W1 : x \in Req
      /\ \A x \in W2 : x \in Req
  BY DEF TypeOK, Req
<1>2. CASE r.key # k
  <2>1. rows'[k] = rows[k]
    BY <1>1, <1>2
  <2> QED
    BY <1>2, <2>1 DEF NewestOK
<1>3. CASE r.key = k /\ r.stamp > rows[k].stamp
  <2>1. rows'[k].val = r.val /\ rows'[k].stamp = r.stamp
    BY <1>1, <1>3
  <2>2. ASSUME NEW x \in W2, x.key = k, r.stamp <= x.stamp, \A s \in W2 : s.key = k => s.stamp <= x.stamp
        PROVE  x.val \in expected[k]
    <3>1. x \in W1 /\ x \in Req /\ r \in Req
      BY <1>1
    <3>2. rows[k].stamp <= x.stamp
      BY <1>1, <1>3, <2>2, <3>1
    <3>3. \A s \in W1 : s.key = k => s.stamp <= x.stamp
      BY <2>2
    <3> QED
      BY <2>2, <3>1, <3>2, <3>3 DEF NewestOK
  <2>3. ASSUME \A s \in W2 : s.key = k => s.stamp <= r.stamp PROVE r.val \in expected[k]
    <3>1. rows[k].stamp <= r.stamp /\ r.stamp <= r.stamp
      BY <1>1, <1>3
    <3>2. \A s \in W1 : s.key = k => s.stamp <= r.stamp
      BY <2>3, <3>1
    <3> QED
      BY <1>3, <3>1, <3>2 DEF NewestOK
  <2> QED
    BY <2>1, <2>2, <2>3 DEF NewestOK
<1>4. CASE r.key = k /\ ~(r.stamp > rows[k].stamp)
  <2>1. rows'[k] = rows[k]
    BY <1>1, <1>4
  <2>2. ASSUME NEW x \in W2, x.key = k, rows[k].stamp <= x.stamp, \A s \in W2 : s.key = k => s.stamp <= x.stamp
        PROVE  x.val \in expected[k]
    <3>1. x \in W1 /\ x \in Req /\ r \in Req
      BY <1>1
    <3>2. r.stamp <= x.stamp
      BY <1>1, <1>4, <2>2, <3>1
    <3>3. \A s \in W1 : s.key = k => s.stamp <= x.stamp
      BY <2>2, <3>2
    <3> QED
      BY <2>2, <3>1, <3>3 DEF NewestOK
  <2>3. ASSUME \A s \in W2 : s.key = k => s.stamp <= rows[k].stamp PROVE rows[k].val \in expected[k]
    <3>1. r.stamp <= rows[k].stamp
      BY <1>1, <1>4
    <3>2. \A s \in W1 : s.key = k => s.stamp <= rows[k].stamp
      BY <2>3, <3>1
    <3> QED
      BY <3>2 DEF NewestOK
  <2> QED
    BY <2>1, <2>2, <2>3 DEF NewestOK
<1> QED
  BY <1>2, <1>3, <1>4

\* Cassandra applies a request.
LEMMA ApplySettles ==
  ASSUME TypeOK, Times, StoredInv, NEW r \in sent, apply(r), config' = config
  PROVE  StoredInv' /\ Times'
<1>1. /\ sent' = sent \ {r} /\ UNCHANGED <<queue, time, call, expected, dirty>>
      /\ Queued' = Queued /\ Timestamped' = Timestamped
      /\ rows' = [rows EXCEPT ![r.key] = IF r.stamp > @.stamp
                                         THEN [val |-> r.val, stamp |-> r.stamp] ELSE @]
  BY DEF apply, writerVars, Queued, Timestamped
<1>2. sent \subseteq Req /\ Queued \subseteq Req
  BY PipeTypes
<1>3. ASSUME NEW k \in Keys PROVE Settles(k)'
  <2>1. PICK W1 \in SUBSET Req, W2 \in SUBSET Req : W1 = sent /\ W2 = sent'
    BY <1>1, <1>2
  <2>2. PICK V1 \in SUBSET Req, V2 \in SUBSET Req : V1 = sent \cup Queued /\ V2 = (sent \cup Queued)'
    BY <1>1, <1>2
  <2>3. r \in W1 /\ W2 \subseteq W1 /\ W1 \subseteq W2 \cup {r}
    BY <1>1, <2>1
  <2>4. r \in V1 /\ V2 \subseteq V1 /\ V1 \subseteq V2 \cup {r}
    BY <1>1, <2>2
  <2>5. NewestOK(k, W1) => NewestOK(k, W2)'
    BY <1>1, <2>3, NewestApply
  <2>6. NewestOK(k, V1) => NewestOK(k, V2)'
    BY <1>1, <2>4, NewestApply
  <2>7. NewestOK(k, sent) => NewestOK(k, sent)'
    BY <2>1, <2>5 DEF NewestOK
  <2>8. NewestOK(k, sent \cup Queued) => NewestOK(k, sent \cup Queued)'
    BY <2>2, <2>6 DEF NewestOK
  <2>9. LastOK(k) => LastOK(k)'
    BY <1>1 DEF LastOK
  <2>10. Settles(k)
    BY DEF StoredInv
  <2> QED
    BY <1>1, <2>7, <2>8, <2>9, <2>10 DEF Settles
<1>4. r \in Req /\ r.key \in Keys /\ r.stamp \in Nat /\ r.stamp <= time
  BY PipeTypes DEF Times
<1>5. ASSUME NEW k \in Keys PROVE rows'[k].stamp = rows[k].stamp \/ rows'[k].stamp = r.stamp
  BY <1>1, <1>4 DEF TypeOK
<1>6. Timestamped /\ call.pc = "delete" => \A k \in Keys : rows'[k].stamp < time
  BY <1>5 DEF Times
<1>7. \A k \in Keys : rows'[k].stamp <= time
  BY <1>4, <1>5 DEF Times
<1>8. sent' \subseteq sent
  BY <1>1
<1>9. Times'
  BY <1>1, <1>6, <1>7, <1>8 DEF Times
<1> QED
  BY <1>3, <1>9 DEF StoredInv

\* The rest of the queue.
LEMMA TailPlaces ==
  ASSUME TypeOK, queue # <<>>, queue' = Tail(queue)
  PROVE  /\ queue' \in Seq(Req) /\ Head(queue) = queue[1] /\ 1 \in DOMAIN queue
         /\ \A i \in DOMAIN queue' : i \in Int /\ i + 1 \in DOMAIN queue /\ queue'[i] = queue[i + 1]
         /\ \A i \in DOMAIN queue : i \in Int /\ (i = 1 \/ (i - 1 \in DOMAIN queue' /\ queue'[i - 1] = queue[i]))
<1>1. queue \in Seq(Req) /\ Len(queue) \in Nat /\ DOMAIN queue = 1..Len(queue)
  BY DEF TypeOK, Req
<1>2. Len(queue) # 0
  BY <1>1, EmptySeq
<1>3. Head(queue) = queue[1] /\ 1 \in DOMAIN queue
  BY <1>1, <1>2
<1>4. /\ queue' \in Seq(Req) /\ Len(queue') = Len(queue) - 1
      /\ \A i \in 1..(Len(queue) - 1) : queue'[i] = queue[i + 1]
  BY <1>1, <1>2, HeadTailProperties
<1>5. DOMAIN queue' = 1..(Len(queue) - 1)
  BY <1>4
<1>6. \A i \in DOMAIN queue' : i \in Int /\ i + 1 \in DOMAIN queue /\ queue'[i] = queue[i + 1]
  BY <1>1, <1>4, <1>5
<1>7. ASSUME NEW i \in DOMAIN queue, i # 1
      PROVE  i - 1 \in DOMAIN queue' /\ queue'[i - 1] = queue[i]
  <2>1. i - 1 \in 1..(Len(queue) - 1) /\ (i - 1) + 1 = i
    BY <1>1, <1>7
  <2> QED
    BY <1>4, <1>5, <2>1
<1> QED
  BY <1>1, <1>3, <1>4, <1>6, <1>7

\* The next request goes to the driver.
LEMMA ExecuteSettles ==
  ASSUME TypeOK, Times, StoredInv, execute, config' = config
  PROVE  /\ StoredInv' /\ Times'
         /\ queue' \in Seq(Req) /\ sent' \subseteq Req /\ time' \in Nat
<1>1. PICK r : r = Head(queue)
  OBVIOUS
<1>2. /\ queue # <<>> /\ queue' = Tail(queue) /\ UNCHANGED <<rows, call, expected, dirty>>
      /\ Timestamped' = Timestamped
      /\ Timestamped => sent' = sent \cup {r} /\ time' = time
      /\ ~Timestamped => sent' = sent \cup {[r EXCEPT !.stamp = time + 1]} /\ time' = time + 1
  BY <1>1 DEF execute, writerVars, Timestamped
<1>3. /\ queue' \in Seq(Req) /\ r = queue[1] /\ 1 \in DOMAIN queue
      /\ \A i \in DOMAIN queue' : i \in Int /\ i + 1 \in DOMAIN queue /\ queue'[i] = queue[i + 1]
      /\ \A i \in DOMAIN queue : i \in Int /\ (i = 1 \/ (i - 1 \in DOMAIN queue' /\ queue'[i - 1] = queue[i]))
  BY <1>1, <1>2, TailPlaces
<1>4. /\ time \in Nat /\ r \in Req /\ sent \subseteq Req /\ r \in Queued
      /\ \A x \in Req : x.key \in Keys /\ x.val \in Nat /\ x.stamp \in Nat
      /\ \A k \in Keys : rows[k].stamp \in Nat
      /\ DOMAIN queue = 1..Len(queue) /\ Len(queue) \in Nat
  BY <1>3, PipeTypes DEF Queued, Req
<1>5. Queued' \subseteq Queued /\ Queued \subseteq Queued' \cup {r}
  BY <1>3 DEF Queued
<1>6. CASE Timestamped
  <2>1. (sent \cup Queued)' = sent \cup Queued /\ sent' \subseteq sent \cup Queued /\ time' = time
    BY <1>2, <1>4, <1>5, <1>6
  <2>2. ASSUME NEW k \in Keys PROVE Settles(k)'
    <3>1. Settles(k)
      BY DEF StoredInv
    <3>2. NewestOK(k, sent \cup Queued) => NewestOK(k, sent \cup Queued)'
      BY <1>2, <2>1 DEF NewestOK
    <3> QED
      BY <1>2, <1>6, <3>1, <3>2 DEF Settles
  <2>3. Times'
    <3>1. \A x \in sent \cup Queued : x.stamp <= time
      BY <1>6 DEF Times
    <3>2. (\A x \in sent : x.stamp <= time)' /\ (\A x \in Queued : x.stamp <= time)'
      BY <1>5, <2>1, <3>1
    <3> QED
      BY <1>2, <1>5, <1>6, <2>1, <3>2 DEF Times
  <2>4. sent' \subseteq Req
    BY <1>2, <1>4, <1>6
  <2> QED
    BY <1>3, <1>4, <2>1, <2>2, <2>3, <2>4 DEF StoredInv
<1>7. CASE ~Timestamped
  <2>1. PICK q : q = [r EXCEPT !.stamp = time + 1]
    OBVIOUS
  <2>2. q \in Req /\ q.key = r.key /\ q.val = r.val /\ q.stamp = time + 1
    BY <1>4, <2>1 DEF Req
  <2>3. sent' = sent \cup {q} /\ time' = time + 1
    BY <1>2, <1>7, <2>1
  <2>4. ASSUME NEW k \in Keys, LastOK(k) PROVE LastOK(k)'
    <3>1. ASSUME NEW i \in DOMAIN queue', queue'[i].key = k,
                 \A j \in DOMAIN queue' : i < j => queue'[j].key # k
          PROVE  queue'[i].val \in expected'[k]
      <4>1. i \in Int /\ i + 1 \in DOMAIN queue /\ queue'[i] = queue[i + 1]
        BY <1>3
      <4>2. ASSUME NEW j \in DOMAIN queue, i + 1 < j PROVE queue[j].key # k
        <5>1. j \in Int /\ j # 1 /\ i < j - 1
          BY <1>4, <4>1, <4>2
        <5>2. j - 1 \in DOMAIN queue' /\ queue'[j - 1] = queue[j]
          BY <1>3, <5>1
        <5> QED
          BY <3>1, <5>1, <5>2
      <4> QED
        BY <1>2, <2>4, <3>1, <4>1, <4>2 DEF LastOK
    <3> QED
      BY <3>1 DEF LastOK
  <2>5. ASSUME NEW k \in Keys, Settles(k), dirty[k] = 0, \A x \in Queued' : x.key # k
        PROVE  NewestOK(k, sent)'
    <3>1. LastOK(k) /\ ((\A x \in Queued : x.key # k) => NewestOK(k, sent))
      BY <1>7, <2>5 DEF Settles
    <3>2. CASE r.key # k
      <4>1. NewestOK(k, sent)
        BY <1>5, <2>5, <3>1, <3>2
      <4>2. q.key # k
        BY <2>2, <3>2
      <4> QED
        BY <1>2, <2>3, <4>1, <4>2 DEF NewestOK
    <3>3. CASE r.key = k
      <4>1. ASSUME NEW j \in DOMAIN queue, 1 < j PROVE queue[j].key # k
        <5>1. j - 1 \in DOMAIN queue' /\ queue'[j - 1] = queue[j]
          BY <1>3, <4>1
        <5> QED
          BY <2>5, <5>1 DEF Queued
      <4>2. r.val \in expected[k]
        BY <1>3, <3>1, <3>3, <4>1 DEF LastOK
      <4>3. rows[k].stamp < q.stamp /\ \A x \in sent : x.stamp < q.stamp
        BY <1>4, <2>2 DEF Times
      <4>4. q.key = k /\ q.val \in expected[k] /\ q \in sent' /\ \A x \in sent' : x \in sent \/ x = q
        BY <2>2, <2>3, <3>3, <4>2
      <4>5. ASSUME NEW x \in sent', \A s \in sent' : s.key = k => s.stamp <= x.stamp
            PROVE  x.val \in expected[k]
        <5>1. q.stamp <= x.stamp
          BY <4>4, <4>5
        <5>2. ~(x \in sent)
          BY <1>4, <2>2, <4>3, <5>1
        <5> QED
          BY <4>4, <5>2
      <4>6. ~(\A s \in sent' : s.key = k => s.stamp <= rows[k].stamp)
        BY <1>4, <2>2, <4>3, <4>4
      <4> QED
        BY <1>2, <4>5, <4>6 DEF NewestOK
    <3> QED
      BY <3>2, <3>3
  <2>6. ASSUME NEW k \in Keys PROVE Settles(k)'
    <3>1. Settles(k)
      BY DEF StoredInv
    <3> QED
      BY <1>2, <1>7, <2>4, <2>5, <3>1 DEF Settles
  <2>7. Times'
    BY <1>2, <1>4, <1>7, <2>2, <2>3 DEF Times
  <2>8. sent' \subseteq Req /\ time' \in Nat
    BY <1>4, <2>2, <2>3
  <2> QED
    BY <1>3, <2>6, <2>7, <2>8 DEF StoredInv
<1> QED
  BY <1>6, <1>7

-----------------------------------------------------------------------------
(* Deletes. *)

\* The key of a read or a delete.
LEMMA CallKey ==
  ASSUME TypeOK, call.pc \in {"get", "delete"}
  PROVE  call.key \in Keys /\ call = [pc |-> call.pc, key |-> call.key]
<1>1. call \in [pc : {"get", "delete"}, key : Keys]
  BY DEF TypeOK, Calls
<1> QED
  BY <1>1

\* A delete that is applied is newer than all there is of its key.
LEMMA DeleteSettles ==
  ASSUME TypeOK, LazyInv, Times, StoredInv, call.pc = "delete", NEW k \in Keys,
         Timestamped \/ is_write_completed, time' = DeleteTime, call'.pc # "delete",
         UNCHANGED <<config, dirty, queue, sent>>,
         rows' = [rows EXCEPT ![k] = IF DeleteTime >= @.stamp
                                     THEN [val |-> 0, stamp |-> DeleteTime] ELSE @],
         0 \in expected'[k], \A j \in Keys : j # k => expected'[j] = expected[j]
  PROVE  StoredInv' /\ Times' /\ rows' \in [Keys -> [val : Nat, stamp : Nat]] /\ time' \in Nat
<1>1. /\ time \in Nat /\ rows \in [Keys -> [val : Nat, stamp : Nat]] /\ dirty \in [Keys -> Nat]
      /\ \A x \in sent \cup Queued : x.stamp \in Nat
      /\ \A j \in Keys : rows[j].stamp \in Nat
      /\ Queued' = Queued /\ Timestamped' = Timestamped
  BY PipeTypes DEF TypeOK, Queued, Timestamped
<1>2. \A j \in Keys : dirty[j] = 0 /\ dirty'[j] = 0
  BY DEF LazyInv, Dirty, DirtyKeys
<1>3. PICK t \in Nat : t = DeleteTime
  BY <1>1 DEF DeleteTime
<1>4. time <= t /\ \A j \in Keys : rows[j].stamp <= t
  BY <1>1, <1>3 DEF DeleteTime, Times
<1>5. /\ rows'[k].val = 0 /\ rows'[k].stamp = t
      /\ \A j \in Keys : j # k => rows'[j] = rows[j]
  BY <1>1, <1>3, <1>4
<1>6. rows' \in [Keys -> [val : Nat, stamp : Nat]] /\ time' = t
  BY <1>1, <1>3
<1>7. ASSUME ~Timestamped PROVE sent = {} /\ queue = <<>> /\ Queued = {}
  BY <1>7 DEF is_write_completed, Queued
<1>8. ASSUME NEW j \in Keys, j # k PROVE Settles(j)'
  <2>1. NewestOK(j, sent \cup Queued) => NewestOK(j, sent \cup Queued)'
    BY <1>1, <1>5, <1>8 DEF NewestOK
  <2>2. NewestOK(j, sent) => NewestOK(j, sent)'
    BY <1>1, <1>5, <1>8 DEF NewestOK
  <2>3. LastOK(j) => LastOK(j)'
    BY <1>8 DEF LastOK
  <2>4. Settles(j)
    BY DEF StoredInv
  <2> QED
    BY <1>1, <1>2, <2>1, <2>2, <2>3, <2>4 DEF Settles
<1>9. Settles(k)'
  <2>1. CASE Timestamped
    <3>1. \A x \in sent \cup Queued : x.stamp < t
      BY <1>1, <1>3, <2>1 DEF Times, DeleteTime
    <3>2. NewestOK(k, sent \cup Queued)'
      BY <1>1, <1>5, <3>1 DEF NewestOK
    <3> QED
      BY <1>1, <1>2, <2>1, <3>2 DEF Settles
  <2>2. CASE ~Timestamped
    <3>1. NewestOK(k, sent)'
      BY <1>5, <1>7, <2>2 DEF NewestOK
    <3>2. LastOK(k)'
      BY <1>7, <2>2 DEF LastOK
    <3> QED
      BY <1>1, <1>2, <2>2, <3>1, <3>2 DEF Settles
  <2> QED
    BY <2>1, <2>2
<1>10. ASSUME NEW j \in Keys PROVE rows'[j].stamp <= t
  BY <1>4, <1>5
<1>11. \A x \in sent : x.stamp <= t
  BY <1>1, <1>4 DEF Times
<1>12. Timestamped => \A x \in Queued : x.stamp <= t
  BY <1>1, <1>4 DEF Times
<1>13. Times'
  BY <1>1, <1>6, <1>10, <1>11, <1>12 DEF Times
<1> QED
  BY <1>6, <1>8, <1>9, <1>13 DEF StoredInv

\* A delete that never was: a reader may still find what was there.
LEMMA DeleteLost ==
  ASSUME TypeOK, Times, StoredInv, time' = DeleteTime, call'.pc # "delete",
         UNCHANGED <<config, dirty, queue, sent, rows>>,
         \A j \in Keys : expected[j] \subseteq expected'[j]
  PROVE  StoredInv' /\ Times' /\ time' \in Nat
<1>1. /\ time \in Nat /\ time' \in Nat /\ time <= time'
      /\ \A x \in sent \cup Queued : x.stamp \in Nat
      /\ \A j \in Keys : rows[j].stamp \in Nat
      /\ Queued' = Queued /\ Timestamped' = Timestamped
  BY PipeTypes DEF Queued, Timestamped, DeleteTime
<1>2. ASSUME NEW j \in Keys PROVE Settles(j)'
  <2>1. NewestOK(j, sent \cup Queued) => NewestOK(j, sent \cup Queued)'
    BY <1>1 DEF NewestOK
  <2>2. NewestOK(j, sent) => NewestOK(j, sent)'
    BY <1>1 DEF NewestOK
  <2>3. LastOK(j) => LastOK(j)'
    BY DEF LastOK
  <2>4. Settles(j)
    BY DEF StoredInv
  <2> QED
    BY <1>1, <2>1, <2>2, <2>3, <2>4 DEF Settles
<1>3. Times'
  BY <1>1 DEF Times
<1> QED
  BY <1>1, <1>2, <1>3 DEF StoredInv

-----------------------------------------------------------------------------
(* The steps of the table. *)

\* Once nothing is dirty, queued or in flight, Cassandra holds what was last written.
LEMMA Settled ==
  ASSUME StoredInv, is_write_completed, NEW k \in Keys
  PROVE  rows[k].val \in expected[k]
<1>1. dirty[k] = 0 /\ sent = {} /\ Queued = {}
  BY DEF is_write_completed, Clean, Queued
<1>2. Settles(k)
  BY DEF StoredInv
<1> QED
  BY <1>1, <1>2 DEF Settles, NewestOK

\* KVCache::add of a value that a reader may find.
LEMMA AddStep ==
  ASSUME TypeOK, CacheKeys, CacheInv, NEW k \in Keys, NEW v \in Nat \ {0}, cache' = Add(k, v),
         config' = config, v \in expected'[k], \A j \in Keys : j # k => expected'[j] = expected[j]
  PROVE  cache' \in Seq(Entry) /\ Len(cache') <= CacheSize' /\ CacheKeys' /\ CacheInv'
<1>1. CASE CacheSize = 0
  <2>1. cache' = cache
    BY <1>1 DEF Add
  <2>2. cache \in Seq(Entry) /\ Len(cache) \in Nat /\ DOMAIN cache = 1..Len(cache) /\ Len(cache) <= 0
    BY <1>1 DEF TypeOK
  <2>3. DOMAIN cache' = {}
    BY <2>1, <2>2
  <2>4. CacheSize' = CacheSize
    BY DEF CacheSize
  <2> QED
    BY <1>1, <2>1, <2>2, <2>3, <2>4 DEF CacheKeys, CacheInv
<1>2. CASE CacheSize # 0
  <2>1. Refreshed(cache', k, {v}) /\ Len(cache') <= CacheSize
    BY <1>2, AddRefreshed
  <2>2. CacheKeys' /\ CacheInv'
    BY <2>1, CacheStep
  <2>3. CacheSize' = CacheSize
    BY DEF CacheSize
  <2> QED
    BY <2>1, <2>2, <2>3 DEF Refreshed
<1> QED
  BY <1>1, <1>2

\* A step that leaves the pipeline alone.
LEMMA PipeUnchanged ==
  ASSUME TypeOK, Times, StoredInv, UNCHANGED <<queue, sent, rows, time, dirty, expected, config>>
  PROVE  StoredInv' /\ (call'.pc # "delete" => Times')
<1>1. Appended(0)
  BY AppendNothing
<1>2. ASSUME NEW k \in Keys PROVE Settles(k)'
  <2>1. Settles(k) /\ dirty' \in [Keys -> Nat] /\ \A i \in 1..0 : queue'[Len(queue) + i].key # k
    BY DEF StoredInv, TypeOK
  <2>2. CASE dirty[k] = 0
    BY <1>1, <2>1, <2>2, AppendSettles
  <2>3. CASE dirty[k] # 0
    BY <2>1, <2>3 DEF Settles
  <2> QED
    BY <2>2, <2>3
<1>3. call'.pc # "delete" => Times'
  BY <1>1, AppendTimes
<1> QED
  BY <1>2, <1>3 DEF StoredInv

LEMMA CacheUnchanged ==
  ASSUME CacheKeys, CacheInv, cache' = cache, \A j \in Keys : expected[j] \subseteq expected'[j], TypeOK
  PROVE  CacheKeys' /\ CacheInv'
<1>1. \A i \in DOMAIN cache : cache[i].key \in Keys
  <2>1. cache \in Seq(Entry)
    BY DEF TypeOK
  <2>2. \A i \in DOMAIN cache : cache[i] \in Entry
    BY <2>1
  <2> QED
    BY <2>2 DEF Entry
<1> QED
  BY <1>1 DEF CacheKeys, CacheInv

LEMMA PutStep ==
  ASSUME TableInv, NEW k \in Keys, put_crow(k), config' = config
  PROVE  TableInv'
<1>1. /\ TypeOK /\ LazyInv /\ CacheKeys /\ Times /\ StoredInv /\ CacheInv
  BY DEF TableInv
<1>2. PICK v \in Nat \ {0} : v = ops + 1
  BY <1>1 DEF TypeOK
<1>3. /\ write_to_cassandra(k, v) /\ cache' = Add(k, v) /\ expected' = [expected EXCEPT ![k] = {v}]
      /\ ops' = v /\ got' = NoResult /\ call = NoCall /\ UNCHANGED <<lazy, max_calls, sent, rows, call, fails>>
  BY <1>2 DEF put_crow, idle
<1>4. expected' \in [Keys -> SUBSET Nat] /\ v \in expected'[k] /\ \A j \in Keys : j # k => expected'[j] = expected[j]
  BY <1>1, <1>3 DEF TypeOK
<1>5. PICK n : Appended(n)
  BY <1>1, <1>3, WriteSettles
<1>6. StoredInv' /\ dirty' \in [Keys -> Nat] /\ IsFiniteSet(Dirty') /\ (~lazy => Dirty' = {})
  BY <1>1, <1>3, WriteSettles
<1>7. call'.pc # "delete"
  BY <1>3 DEF NoCall
<1>8. Times'
  BY <1>1, <1>5, <1>7, AppendTimes
<1>9. cache' \in Seq(Entry) /\ Len(cache') <= CacheSize' /\ CacheKeys' /\ CacheInv'
  BY <1>1, <1>3, <1>4, AddStep
<1>10. LazyInv'
  BY <1>1, <1>3, <1>6, <1>7 DEF LazyInv, LazyWrites
<1>11. queue' \in Seq(Req) /\ time' \in Nat
  BY <1>1, <1>5 DEF Appended, TypeOK
<1>12. TypeOK'
  BY <1>1, <1>3, <1>4, <1>6, <1>9, <1>11 DEF TypeOK, Req
<1> QED
  BY <1>6, <1>8, <1>9, <1>10, <1>12 DEF TableInv

LEMMA ColumnStep ==
  ASSUME TableInv, NEW k \in Keys, write_column(k), config' = config
  PROVE  TableInv'
<1>1. /\ TypeOK /\ LazyInv /\ CacheKeys /\ Times /\ StoredInv /\ CacheInv
  BY DEF TableInv
<1>2. PICK v \in Nat : v = ops + 1
  BY <1>1 DEF TypeOK
<1>3. /\ expected' = [expected EXCEPT ![k] = {v}] /\ CacheSize = 0 /\ dirty' = Clean /\ lazy' = FALSE
      /\ ops' = v /\ got' = NoResult /\ call = NoCall /\ UNCHANGED <<cache, max_calls, sent, rows, call, fails>>
  BY <1>2 DEF write_column, idle
<1>4. PICK f \in Orders(dirty) :
         /\ time' = time + Len(f) + 1
         /\ queue' = queue \o (Blocks(dirty, f, time) \o <<Request(k, v, time + Len(f) + 1)>>)
  BY <1>2, Zenon DEF write_column, Blocks
<1>5. (\E n : Appended(n)) /\ StoredInv'
  <2>1. UNCHANGED <<sent, rows, config>>
    BY <1>3
  <2> QED
    BY <1>1, <1>3, <1>4, <2>1, ColumnSettles, Zenon
<1>6. PICK n : Appended(n)
  BY <1>5
<1>7. call'.pc # "delete"
  BY <1>3 DEF NoCall
<1>8. Times'
  BY <1>1, <1>6, <1>7, AppendTimes
<1>9. cache \in Seq(Entry) /\ DOMAIN cache = {}
  <2>1. cache \in Seq(Entry) /\ Len(cache) \in Nat /\ DOMAIN cache = 1..Len(cache) /\ Len(cache) <= 0
    BY <1>1, <1>3 DEF TypeOK
  <2> QED
    BY <2>1
<1>10. CacheKeys' /\ CacheInv'
  BY <1>3, <1>9 DEF CacheKeys, CacheInv
<1>11. dirty' \in [Keys -> Nat] /\ Dirty' = {}
  BY <1>3 DEF Clean, Dirty, DirtyKeys
<1>12. LazyInv'
  BY <1>3, <1>7, <1>11, FS_EmptySet DEF LazyInv
<1>13. queue' \in Seq(Req) /\ time' \in Nat
  BY <1>1, <1>6 DEF Appended, TypeOK
<1>14. expected' \in [Keys -> SUBSET Nat]
  BY <1>1, <1>3 DEF TypeOK
<1>15. TypeOK'
  BY <1>1, <1>3, <1>11, <1>13, <1>14 DEF TypeOK, Req, CacheSize
<1> QED
  BY <1>5, <1>8, <1>10, <1>12, <1>15 DEF TableInv

LEMMA HitStep ==
  ASSUME TableInv, NEW k \in Keys, get_crow_hit(k), config' = config
  PROVE  TableInv' /\ got'.key = k /\ got'.val \in expected[k] /\ got'.val # 0
<1>1. /\ TypeOK /\ LazyInv /\ CacheKeys /\ Times /\ StoredInv /\ CacheInv
  BY DEF TableInv
<1>2. /\ Cached(k) /\ got' = [key |-> k, val |-> CachedValue(k)] /\ call = NoCall
      /\ cache' = <<[key |-> k, val |-> CachedValue(k)]>> \o Without(k)
      /\ UNCHANGED <<dirty, lazy, max_calls, queue, sent, rows, time, ops, call, expected, fails>>
  BY DEF get_crow_hit, writerVars, pipe, idle
<1>3. /\ CachedValue(k) \in Nat \ {0}
      /\ \E i \in DOMAIN cache : cache[i].key = k /\ cache[i].val = CachedValue(k)
      /\ \E c : /\ c = <<[key |-> k, val |-> CachedValue(k)]>> \o Without(k)
                /\ Refreshed(c, k, {CachedValue(k)}) /\ Len(c) = Len(cache)
  BY <1>1, <1>2, HitRefreshed
<1>4. Refreshed(cache', k, {CachedValue(k)}) /\ Len(cache') = Len(cache)
  BY <1>2, <1>3, Zenon
<1>5. CachedValue(k) \in expected[k]
  BY <1>1, <1>3 DEF CacheInv
<1>6. CacheKeys' /\ CacheInv'
  BY <1>1, <1>2, <1>4, <1>5, CacheStep
<1>7. call'.pc # "delete"
  BY <1>2 DEF NoCall
<1>8. StoredInv' /\ Times'
  BY <1>1, <1>2, <1>7, PipeUnchanged
<1>9. LazyInv'
  BY <1>1, <1>2 DEF LazyInv, LazyWrites, Dirty
<1>10. got' \in Entry /\ got'.key = k /\ got'.val = CachedValue(k)
  BY <1>2, <1>3 DEF Entry
<1>11. cache' \in Seq(Entry) /\ Len(cache') <= CacheSize'
  BY <1>1, <1>4 DEF Refreshed, TypeOK, CacheSize
<1>12. TypeOK'
  BY <1>1, <1>2, <1>10, <1>11 DEF TypeOK
<1> QED
  BY <1>3, <1>5, <1>6, <1>8, <1>9, <1>10, <1>12 DEF TableInv

\* A read or a flush starts by queueing the dirty blocks.
LEMMA FlushStep ==
  ASSUME TableInv, flush_dirty_blocks(dirty), config' = config, call' \in Calls, call'.pc # "delete",
         UNCHANGED <<cache, lazy, max_calls, sent, rows, ops, got, expected, fails>>
  PROVE  TableInv'
<1>1. /\ TypeOK /\ LazyInv /\ CacheKeys /\ Times /\ StoredInv /\ CacheInv
  BY DEF TableInv
<1>2. dirty \in [Keys -> Nat] /\ IsFiniteSet(DirtyKeys(dirty)) /\ expected \in [Keys -> SUBSET Nat]
  BY <1>1 DEF TypeOK, LazyInv, Dirty
<1>3. /\ \A k \in Keys : dirty[k] # 0 => dirty[k] \in expected'[k]
      /\ \A k \in Keys : dirty[k] = 0 => dirty[k] = 0 /\ expected'[k] = expected[k]
  BY <1>1 DEF StoredInv, Settles
<1>4. /\ \E n : Appended(n)
      /\ StoredInv'
      /\ dirty' \in [Keys -> Nat]
      /\ dirty' = IF lazy THEN Clean ELSE dirty
  <2>1. PICK d \in [Keys -> Nat] : d = dirty
    BY <1>2
  <2>2. flush_dirty_blocks(d)
    BY <2>1
  <2>3. IsFiniteSet(DirtyKeys(d)) /\ (\A k \in Keys : d[k] # 0 => d[k] \in expected'[k])
        /\ (\A k \in Keys : d[k] = 0 => dirty[k] = 0 /\ expected'[k] = expected[k])
    BY <1>2, <1>3, <2>1
  <2>4. /\ \E n : Appended(n)
        /\ StoredInv'
        /\ dirty' \in [Keys -> Nat]
        /\ dirty' = IF lazy THEN Clean ELSE d
    BY <1>1, <2>2, <2>3, FlushSettles
  <2> QED
    BY <2>1, <2>4
<1>5. PICK n : Appended(n)
  BY <1>4
<1>6. Times'
  BY <1>1, <1>5, AppendTimes
<1>7. CacheKeys' /\ CacheInv'
  BY <1>1, CacheUnchanged
<1>8. LazyInv'
  <2>1. Dirty' = {} \/ Dirty' = Dirty
    BY <1>4 DEF Dirty, DirtyKeys, Clean
  <2>2. IsFiniteSet(Dirty') /\ (~lazy' => Dirty' = {})
    BY <1>1, <2>1, FS_EmptySet DEF LazyInv
  <2> QED
    BY <1>1, <2>2 DEF LazyInv, LazyWrites
<1>9. queue' \in Seq(Req) /\ time' \in Nat
  BY <1>1, <1>5 DEF Appended, TypeOK
<1>10. TypeOK'
  BY <1>1, <1>4, <1>9 DEF TypeOK, Req, CacheSize
<1> QED
  BY <1>4, <1>6, <1>7, <1>8, <1>10 DEF TableInv

LEMMA RetrieveStep ==
  ASSUME TableInv, retrieve_from_cassandra, config' = config
  PROVE  TableInv' /\ call.key \in Keys /\ got'.key = call.key /\ got'.val \in expected[call.key]
<1>1. /\ TypeOK /\ LazyInv /\ CacheKeys /\ Times /\ StoredInv /\ CacheInv
  BY DEF TableInv
<1>2. PICK k \in Keys : k = call.key
  BY <1>1, CallKey DEF retrieve_from_cassandra
<1>3. /\ is_write_completed /\ got' = [key |-> k, val |-> rows[k].val]
      /\ cache' = IF rows[k].val = 0 THEN cache ELSE Add(k, rows[k].val)
      /\ call' = NoCall
      /\ UNCHANGED <<dirty, lazy, max_calls, queue, sent, rows, time, ops, expected, fails>>
  BY <1>2 DEF retrieve_from_cassandra, writerVars, pipe
<1>4. PICK v \in Nat : v = rows[k].val
  BY <1>1 DEF TypeOK
<1>5. v \in expected[k]
  BY <1>1, <1>3, <1>4, Settled
<1>6. cache' \in Seq(Entry) /\ Len(cache') <= CacheSize' /\ CacheKeys' /\ CacheInv'
  <2>1. CASE v = 0
    <3>1. cache' = cache
      BY <1>3, <1>4, <2>1
    <3>2. CacheKeys' /\ CacheInv'
      BY <1>1, <1>3, <3>1, CacheUnchanged
    <3> QED
      BY <1>1, <3>1, <3>2 DEF TypeOK, CacheSize
  <2>2. CASE v # 0
    <3>1. cache' = Add(k, v) /\ v \in Nat \ {0}
      BY <1>3, <1>4, <2>2
    <3> QED
      BY <1>1, <1>3, <1>5, <3>1, AddStep
  <2> QED
    BY <2>1, <2>2
<1>7. call'.pc # "delete" /\ call' \in Calls
  BY <1>3 DEF NoCall, Calls
<1>8. StoredInv' /\ Times'
  BY <1>1, <1>3, <1>7, PipeUnchanged
<1>9. LazyInv'
  BY <1>1, <1>3, <1>7 DEF LazyInv, LazyWrites, Dirty
<1>10. got' \in Entry /\ got'.key = k /\ got'.val = v
  BY <1>3, <1>4 DEF Entry
<1>11. TypeOK'
  BY <1>1, <1>3, <1>6, <1>7, <1>10 DEF TypeOK
<1> QED
  BY <1>2, <1>5, <1>6, <1>8, <1>9, <1>10, <1>11 DEF TableInv

\* The steps that leave the cache and the pipeline alone.
LEMMA QuietStep ==
  ASSUME TableInv, UNCHANGED <<config, cache, dirty, lazy, max_calls, queue, sent, rows, time, ops, expected>>,
         call' \in Calls, call'.pc # "delete", got' \in Entry \cup {NoResult}, fails' \in Nat
  PROVE  TableInv'
<1>1. /\ TypeOK /\ LazyInv /\ CacheKeys /\ Times /\ StoredInv /\ CacheInv
  BY DEF TableInv
<1>2. StoredInv' /\ Times'
  BY <1>1, PipeUnchanged
<1>3. CacheKeys' /\ CacheInv'
  BY <1>1, CacheUnchanged
<1>4. LazyInv'
  BY <1>1 DEF LazyInv, LazyWrites, Dirty
<1>5. TypeOK'
  BY <1>1 DEF TypeOK, CacheSize
<1> QED
  BY <1>2, <1>3, <1>4, <1>5 DEF TableInv

LEMMA DeleteStartStep ==
  ASSUME TableInv, NEW k \in Keys, delete_crow(k), config' = config
  PROVE  TableInv'
<1>1. /\ TypeOK /\ LazyInv /\ CacheKeys /\ Times /\ StoredInv /\ CacheInv
  BY DEF TableInv
<1>2. /\ ~LazyWrites /\ call' = [pc |-> "delete", key |-> k] /\ got' = NoResult /\ ops' = ops + 1
      /\ time' = IF Timestamped THEN time + 1 ELSE time
      /\ UNCHANGED <<cache, dirty, lazy, max_calls, queue, sent, rows, expected, fails>>
  BY DEF delete_crow, writerVars
<1>3. /\ time \in Nat /\ Queued' = Queued /\ Timestamped' = Timestamped
      /\ \A x \in sent \cup Queued : x.stamp \in Nat
      /\ \A j \in Keys : rows[j].stamp \in Nat
  BY <1>1, <1>2, PipeTypes DEF Queued, Timestamped
<1>4. Times'
  <2>1. CASE Timestamped
    BY <1>1, <1>2, <1>3, <2>1 DEF Times
  <2>2. CASE ~Timestamped
    BY <1>1, <1>2, <1>3, <2>2 DEF Times
  <2> QED
    BY <2>1, <2>2
<1>5. ASSUME NEW j \in Keys PROVE Settles(j)'
  <2>1. Settles(j)
    BY <1>1 DEF StoredInv
  <2>2. NewestOK(j, sent \cup Queued) => NewestOK(j, sent \cup Queued)'
    BY <1>2, <1>3 DEF NewestOK
  <2>3. NewestOK(j, sent) => NewestOK(j, sent)'
    BY <1>2, <1>3 DEF NewestOK
  <2>4. LastOK(j) => LastOK(j)'
    BY <1>2 DEF LastOK
  <2> QED
    BY <1>2, <1>3, <2>1, <2>2, <2>3, <2>4 DEF Settles
<1>6. CacheKeys' /\ CacheInv'
  BY <1>1, <1>2, CacheUnchanged
<1>7. LazyInv'
  BY <1>1, <1>2 DEF LazyInv, LazyWrites, Dirty
<1>8. time' \in Nat /\ call' \in Calls
  BY <1>2, <1>3 DEF Calls
<1>9. TypeOK'
  BY <1>1, <1>2, <1>8 DEF TypeOK, CacheSize
<1> QED
  BY <1>4, <1>5, <1>6, <1>7, <1>9 DEF TableInv, StoredInv

LEMMA DeleteOkStep ==
  ASSUME TableInv, delete_ok, config' = config
  PROVE  TableInv'
<1>1. /\ TypeOK /\ LazyInv /\ CacheKeys /\ Times /\ StoredInv /\ CacheInv
  BY DEF TableInv
<1>2. PICK k \in Keys : k = call.key
  BY <1>1, CallKey DEF delete_ok
<1>3. /\ call.pc = "delete" /\ (Timestamped \/ is_write_completed) /\ time' = DeleteTime
      /\ rows' = [rows EXCEPT ![k] = IF DeleteTime >= @.stamp
                                     THEN [val |-> 0, stamp |-> DeleteTime] ELSE @]
      /\ cache' = Without(k) /\ expected' = [expected EXCEPT ![k] = {0}] /\ call' = NoCall
      /\ UNCHANGED <<dirty, lazy, max_calls, queue, sent, ops, got, fails>>
  BY <1>2 DEF delete_ok, writerVars
<1>4. /\ expected' \in [Keys -> SUBSET Nat] /\ 0 \in expected'[k]
      /\ \A j \in Keys : j # k => expected'[j] = expected[j]
  BY <1>1, <1>3 DEF TypeOK
<1>5. call'.pc # "delete" /\ call' \in Calls
  BY <1>3 DEF NoCall, Calls
<1>6. StoredInv' /\ Times' /\ rows' \in [Keys -> [val : Nat, stamp : Nat]] /\ time' \in Nat
  BY <1>1, <1>3, <1>4, <1>5, DeleteSettles
<1>7. /\ Refreshed(cache', k, {})
      /\ Len(cache') = IF Cached(k) THEN Len(cache) - 1 ELSE Len(cache)
  BY <1>1, <1>3, WithoutRefreshed
<1>8. CacheKeys' /\ CacheInv'
  BY <1>1, <1>4, <1>7, CacheStep
<1>9. cache' \in Seq(Entry) /\ Len(cache') <= CacheSize'
  <2>1. Len(cache) \in Nat /\ Len(cache) <= CacheSize /\ CacheSize \in Nat /\ CacheSize' = CacheSize
    BY <1>1, ConfigType DEF TypeOK, CacheSize
  <2> QED
    BY <1>7, <2>1 DEF Refreshed
<1>10. LazyInv'
  BY <1>1, <1>3, <1>5 DEF LazyInv, LazyWrites, Dirty
<1>11. TypeOK'
  BY <1>1, <1>3, <1>4, <1>5, <1>6, <1>9 DEF TypeOK
<1> QED
  BY <1>6, <1>8, <1>10, <1>11 DEF TableInv

LEMMA DeleteFailsStep ==
  ASSUME TableInv, delete_fails, config' = config
  PROVE  TableInv'
<1>1. /\ TypeOK /\ LazyInv /\ CacheKeys /\ Times /\ StoredInv /\ CacheInv
  BY DEF TableInv
<1>2. PICK k \in Keys : k = call.key
  BY <1>1, CallKey DEF delete_fails
<1>3. /\ call.pc = "delete" /\ (Timestamped \/ is_write_completed) /\ time' = DeleteTime
      /\ \/ rows' = rows
         \/ rows' = [rows EXCEPT ![k] = IF DeleteTime >= @.stamp
                                        THEN [val |-> 0, stamp |-> DeleteTime] ELSE @]
      /\ expected' = [expected EXCEPT ![k] = @ \cup {0}] /\ call' = NoCall /\ fails' = fails + 1
      /\ UNCHANGED <<cache, dirty, lazy, max_calls, queue, sent, ops, got>>
  BY <1>2 DEF delete_fails, writerVars
<1>4. /\ expected' \in [Keys -> SUBSET Nat] /\ 0 \in expected'[k]
      /\ \A j \in Keys : j # k => expected'[j] = expected[j]
      /\ \A j \in Keys : expected[j] \subseteq expected'[j]
  BY <1>1, <1>3 DEF TypeOK
<1>5. call'.pc # "delete" /\ call' \in Calls
  BY <1>3 DEF NoCall, Calls
<1>6. StoredInv' /\ Times' /\ rows' \in [Keys -> [val : Nat, stamp : Nat]] /\ time' \in Nat
  <2>1. CASE rows' = rows
    <3>1. StoredInv' /\ Times' /\ time' \in Nat
      BY <1>1, <1>3, <1>4, <1>5, <2>1, DeleteLost
    <3> QED
      BY <1>1, <2>1, <3>1 DEF TypeOK
  <2>2. CASE rows' = [rows EXCEPT ![k] = IF DeleteTime >= @.stamp
                                         THEN [val |-> 0, stamp |-> DeleteTime] ELSE @]
    BY <1>1, <1>3, <1>4, <1>5, <2>2, DeleteSettles
  <2> QED
    BY <1>3, <2>1, <2>2
<1>7. CacheKeys' /\ CacheInv'
  BY <1>1, <1>3, <1>4, CacheUnchanged
<1>8. LazyInv'
  BY <1>1, <1>3, <1>5 DEF LazyInv, LazyWrites, Dirty
<1>9. TypeOK'
  BY <1>1, <1>3, <1>4, <1>5, <1>6 DEF TypeOK, CacheSize
<1> QED
  BY <1>6, <1>7, <1>8, <1>9 DEF TableInv

LEMMA BackgroundStep ==
  ASSUME TableInv, execute \/ \E r \in sent : apply(r), config' = config
  PROVE  TableInv' /\ UNCHANGED <<cache, call, got, expected>>
<1>1. /\ TypeOK /\ LazyInv /\ CacheKeys /\ Times /\ StoredInv /\ CacheInv
  BY DEF TableInv
<1>2. UNCHANGED <<cache, dirty, lazy, max_calls, ops, call, got, expected, fails>>
  BY DEF execute, apply, writerVars
<1>3. CacheKeys' /\ CacheInv' /\ LazyInv'
  BY <1>1, <1>2, CacheUnchanged DEF LazyInv, LazyWrites, Dirty
<1>4. CASE execute
  <2>1. /\ StoredInv' /\ Times'
        /\ queue' \in Seq(Req) /\ sent' \subseteq Req /\ time' \in Nat
    BY <1>1, <1>4, ExecuteSettles
  <2>2. rows' = rows
    BY <1>4 DEF execute
  <2>3. TypeOK'
    BY <1>1, <1>2, <2>1, <2>2 DEF TypeOK, Req, CacheSize
  <2> QED
    BY <1>2, <1>3, <2>1, <2>3 DEF TableInv
<1>5. ASSUME NEW r \in sent, apply(r) PROVE TableInv'
  <2>1. StoredInv' /\ Times'
    BY <1>1, <1>5, ApplySettles
  <2>2. /\ queue' = queue /\ time' = time /\ sent' \subseteq sent
        /\ rows' = [rows EXCEPT ![r.key] = IF r.stamp > @.stamp
                                           THEN [val |-> r.val, stamp |-> r.stamp] ELSE @]
    BY <1>5 DEF apply
  <2>3. r.key \in Keys /\ r.val \in Nat /\ r.stamp \in Nat
    BY <1>1, PipeTypes
  <2>4. rows' \in [Keys -> [val : Nat, stamp : Nat]]
    BY <1>1, <2>2, <2>3 DEF TypeOK
  <2>5. TypeOK'
    BY <1>1, <1>2, <2>2, <2>4 DEF TypeOK, CacheSize
  <2> QED
    BY <1>3, <2>1, <2>5 DEF TableInv
<1> QED
  BY <1>2, <1>4, <1>5

\* Nothing that GetItemSound speaks of changes.
LEMMA GotUnchanged ==
  ASSUME GotInv, UNCHANGED <<config, got, expected>>, call'.pc = "delete" => got = NoResult
  PROVE  GotInv'
BY DEF GotInv, GetItemSound, CacheSize, LazyWrites

\* What the table's steps preserve.
LEMMA NextStep ==
  ASSUME TableInv, GotInv, Next
  PROVE  TableInv' /\ GotInv'
<1>0. config' = config /\ TypeOK
  BY DEF Next, TableInv
<1>1. ASSUME NEW k \in Keys, put_crow(k) PROVE TableInv' /\ GotInv'
  <2>1. got' = NoResult
    BY <1>1 DEF put_crow
  <2> QED
    BY <1>0, <1>1, <2>1, PutStep DEF GotInv, GetItemSound
<1>2. ASSUME NEW k \in Keys, write_column(k) PROVE TableInv' /\ GotInv'
  <2>1. got' = NoResult
    BY <1>2 DEF write_column
  <2> QED
    BY <1>0, <1>2, <2>1, ColumnStep DEF GotInv, GetItemSound
<1>3. ASSUME NEW k \in Keys, get_crow_hit(k) PROVE TableInv' /\ GotInv'
  <2>1. TableInv' /\ got'.key = k /\ got'.val \in expected[k]
    BY <1>0, <1>3, HitStep
  <2>2. call' = NoCall /\ expected' = expected
    BY <1>3 DEF get_crow_hit, idle
  <2>3. call'.pc # "delete"
    BY <2>2 DEF NoCall
  <2> QED
    BY <2>1, <2>2, <2>3 DEF GotInv, GetItemSound
<1>4. ASSUME NEW k \in Keys, get_crow_miss(k) PROVE TableInv' /\ GotInv'
  <2>1. /\ flush_dirty_blocks(dirty) /\ call' = [pc |-> "get", key |-> k]
        /\ UNCHANGED <<cache, lazy, max_calls, sent, rows, ops, got, expected, fails>>
    BY <1>4 DEF get_crow_miss
  <2>2. call' \in Calls /\ call'.pc # "delete"
    BY <2>1 DEF Calls
  <2>3. TableInv'
    BY <1>0, <2>1, <2>2, FlushStep
  <2> QED
    BY <1>0, <2>1, <2>2, <2>3, GotUnchanged
<1>5. ASSUME NEW k \in Keys, delete_crow(k) PROVE TableInv' /\ GotInv'
  <2>1. got' = NoResult
    BY <1>5 DEF delete_crow
  <2> QED
    BY <1>0, <1>5, <2>1, DeleteStartStep DEF GotInv, GetItemSound
<1>6. CASE retrieve_from_cassandra
  <2>1. TableInv' /\ got'.key = call.key /\ got'.val \in expected[call.key]
    BY <1>0, <1>6, RetrieveStep
  <2>2. call' = NoCall /\ expected' = expected
    BY <1>6 DEF retrieve_from_cassandra
  <2>3. call'.pc # "delete"
    BY <2>2 DEF NoCall
  <2> QED
    BY <2>1, <2>2, <2>3 DEF GotInv, GetItemSound
<1>7. CASE retrieve_fails \/ flushed
  <2>1. /\ UNCHANGED <<cache, dirty, lazy, max_calls, queue, sent, rows, time, ops, got, expected>>
        /\ call' = NoCall /\ (fails' = fails \/ fails' = fails + 1)
    BY <1>7 DEF retrieve_fails, flushed, writerVars, pipe
  <2>2. call' \in Calls /\ call'.pc # "delete" /\ got' \in Entry \cup {NoResult} /\ fails' \in Nat
    BY <1>0, <2>1 DEF Calls, NoCall, TypeOK
  <2>3. TableInv'
    BY <1>0, <2>1, <2>2, QuietStep
  <2> QED
    BY <1>0, <2>1, <2>2, <2>3, GotUnchanged
<1>8. CASE delete_ok \/ delete_fails
  <2>1. TableInv'
    BY <1>0, <1>8, DeleteOkStep, DeleteFailsStep
  <2>2. got' = got /\ call.pc = "delete"
    BY <1>8 DEF delete_ok, delete_fails
  <2> QED
    BY <2>1, <2>2 DEF GotInv, GetItemSound
<1>9. CASE flush_elements
  <2>1. /\ flush_dirty_blocks(dirty) /\ call' = [pc |-> "flush"]
        /\ UNCHANGED <<cache, lazy, max_calls, sent, rows, ops, got, expected, fails>>
    BY <1>9 DEF flush_elements
  <2>2. call' \in Calls /\ call'.pc # "delete"
    BY <2>1 DEF Calls
  <2>3. TableInv'
    BY <1>0, <2>1, <2>2, FlushStep
  <2> QED
    BY <1>0, <2>1, <2>2, <2>3, GotUnchanged
<1>10. CASE execute \/ \E r \in sent : apply(r)
  <2>1. TableInv' /\ UNCHANGED <<cache, call, got, expected>>
    BY <1>0, <1>10, BackgroundStep
  <2>2. call'.pc = "delete" => got = NoResult
    BY <2>1 DEF GotInv
  <2> QED
    BY <1>0, <2>1, <2>2, GotUnchanged
<1> QED
  BY <1>1, <1>2, <1>3, <1>4, <1>5, <1>6, <1>7, <1>8, <1>9, <1>10 DEF Next

-----------------------------------------------------------------------------
(* The steps of the dict. *)

\* The call in progress decides whether 'in' waits for an answer.
LEMMA NotAsked ==
  ASSUME MemInv, call.pc # "get"
  PROVE  asked = NoKey
BY DEF MemInv

\* Nothing that the memory holds or is compared with changes.
LEMMA MemUnchanged ==
  ASSUME MemInv, ~LazyWrites, UNCHANGED <<config, mem, expected>>,
         asked' = NoKey \/ (asked' \in Keys /\ call' = [pc |-> "get", key |-> asked']),
         answer' \in [key : Keys, found : BOOLEAN] \cup {NoAnswer}
  PROVE  MemInv'
BY DEF MemInv, CacheSize, LazyWrites

LEMMA AnswerUnchanged ==
  ASSUME ContainsSound, UNCHANGED <<answer, expected>> PROVE ContainsSound'
BY DEF ContainsSound

\* A table of numpy blocks is used without the dict.
LEMMA ArrayStep ==
  ASSUME DictInv, array_table
  PROVE  DictInv'
<1>1. TableInv /\ MemInv /\ GotInv /\ LazyWrites /\ Next /\ config' = config /\ UNCHANGED <<mem, asked, answer>>
  BY DEF DictInv, OutcomeInv, array_table, Next, dictVars
<1>2. TableInv' /\ GotInv'
  BY <1>1, NextStep
<1>3. mem = [k \in Keys |-> 0] /\ asked = NoKey /\ answer = NoAnswer
  BY <1>1 DEF MemInv
<1>4. \A k \in Keys : mem'[k] = 0
  BY <1>1, <1>3
<1>5. MemInv'
  BY <1>1, <1>3, <1>4 DEF MemInv, CacheSize, LazyWrites
<1>6. ContainsSound'
  BY <1>1, <1>3 DEF ContainsSound
<1> QED
  BY <1>1, <1>2, <1>3, <1>5, <1>6 DEF DictInv, OutcomeInv

\* d[k] = v
LEMMA SetItemStep ==
  ASSUME DictInv, ~LazyWrites, NEW k \in Keys, setitem(k), config' = config
  PROVE  DictInv'
<1>1. /\ TableInv /\ MemInv /\ GotInv /\ TypeOK
      /\ put_crow(k) /\ answer' = NoAnswer /\ asked' = asked
      /\ mem' = IF CacheSize = 0 THEN [mem EXCEPT ![k] = ops'] ELSE mem
  BY DEF DictInv, OutcomeInv, TableInv, setitem
<1>2. Next
  BY <1>1 DEF Next
<1>3. TableInv' /\ GotInv'
  BY <1>1, <1>2, NextStep
<1>4. /\ ops' \in Nat /\ expected' = [expected EXCEPT ![k] = {ops'}] /\ call' = NoCall /\ call = NoCall
      /\ expected \in [Keys -> SUBSET Nat] /\ mem \in [Keys -> Nat] /\ CacheSize \in Nat
  <2>1. ops' = ops + 1 /\ expected' = [expected EXCEPT ![k] = {ops + 1}] /\ call' = call /\ call = NoCall
    BY <1>1 DEF put_crow, idle
  <2>2. ops \in Nat /\ expected \in [Keys -> SUBSET Nat] /\ mem \in [Keys -> Nat] /\ CacheSize \in Nat
    BY <1>1, ConfigType DEF TypeOK, MemInv
  <2> QED
    BY <2>1, <2>2
<1>5. call.pc # "get" /\ call'.pc # "delete"
  BY <1>4 DEF NoCall
<1>6. asked = NoKey
  BY <1>1, <1>5, NotAsked
<1>7. CASE CacheSize = 0
  <2>1. mem' = [mem EXCEPT ![k] = ops']
    BY <1>1, <1>7
  <2>2. mem' \in [Keys -> Nat] /\ \A j \in Keys : mem'[j] # 0 /\ expected'[j] # {0} => mem'[j] \in expected'[j]
    BY <1>1, <1>4, <2>1 DEF MemInv
  <2>3. MemInv'
    BY <1>1, <1>6, <1>7, <2>2 DEF MemInv, CacheSize, LazyWrites
  <2> QED
    BY <1>1, <1>3, <1>5, <2>3 DEF DictInv, OutcomeInv, ContainsSound
<1>8. CASE CacheSize > 0
  <2>1. mem' = mem /\ mem = [j \in Keys |-> 0]
    BY <1>1, <1>8 DEF MemInv
  <2>2. \A j \in Keys : mem'[j] = 0
    BY <2>1
  <2>3. MemInv'
    BY <1>1, <1>6, <2>1, <2>2 DEF MemInv, CacheSize, LazyWrites
  <2> QED
    BY <1>1, <1>3, <1>5, <2>3 DEF DictInv, OutcomeInv, ContainsSound
<1> QED
  BY <1>4, <1>7, <1>8

\* d[k] from the Python memory.
LEMMA MemoryStep ==
  ASSUME DictInv, ~LazyWrites, NEW k \in Keys, getitem_memory(k), config' = config
  PROVE  DictInv'
<1>1. /\ TableInv /\ MemInv /\ GotInv /\ TypeOK /\ ContainsSound
      /\ call = NoCall /\ CacheSize = 0 /\ mem[k] # 0 /\ got' = [key |-> k, val |-> mem[k]]
      /\ UNCHANGED <<cache, dirty, lazy, max_calls, queue, sent, rows, time, ops, call, expected, fails, mem, asked, answer>>
  BY DEF DictInv, OutcomeInv, TableInv, getitem_memory, writerVars, pipe, dictVars, idle
<1>2. mem[k] \in Nat /\ (expected[k] # {0} => mem[k] \in expected[k])
  BY <1>1 DEF MemInv
<1>3. call.pc # "get" /\ call'.pc # "delete" /\ call' \in Calls
  BY <1>1 DEF NoCall, Calls
<1>4. got' \in Entry \cup {NoResult} /\ fails' \in Nat /\ got'.key = k /\ got'.val = mem[k]
  BY <1>1, <1>2 DEF Entry, TypeOK
<1>5. TableInv'
  BY <1>1, <1>3, <1>4, QuietStep
<1>6. GotInv'
  BY <1>1, <1>2, <1>3, <1>4 DEF GotInv, GetItemSound, CacheSize, LazyWrites
<1>7. MemInv'
  BY <1>1 DEF MemInv, CacheSize, LazyWrites
<1>8. ContainsSound'
  BY <1>1, AnswerUnchanged
<1> QED
  BY <1>3, <1>5, <1>6, <1>7, <1>8 DEF DictInv, OutcomeInv

\* A row that was found.
LEMMA FoundExpected ==
  ASSUME NEW k, NEW v, v \in expected[k], v # 0 PROVE expected[k] # {0}
OBVIOUS

\* d[k] and k in d, from the C++ cache.
LEMMA HitAnswer ==
  ASSUME DictInv, ~LazyWrites, NEW k \in Keys, get_crow_hit(k), config' = config, UNCHANGED <<mem, asked>>,
         answer' = answer \/ answer' = [key |-> k, found |-> TRUE]
  PROVE  DictInv'
<1>1. TableInv /\ MemInv /\ GotInv /\ ContainsSound
  BY DEF DictInv, OutcomeInv
<1>2. Next
  BY DEF Next
<1>3. TableInv' /\ GotInv'
  BY <1>1, <1>2, NextStep
<1>4. got'.val \in expected[k] /\ got'.val # 0
  BY <1>1, HitStep
<1>5. call = NoCall /\ call' = NoCall /\ expected' = expected
  BY DEF get_crow_hit, idle
<1>6. call.pc # "get" /\ call'.pc # "delete"
  BY <1>5 DEF NoCall
<1>7. asked' = NoKey
  BY <1>1, <1>6, NotAsked
<1>8. answer' \in [key : Keys, found : BOOLEAN] \cup {NoAnswer}
  <2>1. CASE answer' = answer
    BY <1>1, <2>1 DEF MemInv
  <2>2. CASE answer' = [key |-> k, found |-> TRUE]
    BY <2>2
  <2> QED
    BY <2>1, <2>2
<1>9. MemInv'
  BY <1>1, <1>5, <1>7, <1>8, MemUnchanged
<1>10. expected[k] # {0}
  BY <1>4, FoundExpected
<1>11. ContainsSound'
  <2>1. CASE answer' = answer
    BY <1>1, <1>5, <2>1, AnswerUnchanged
  <2>2. CASE answer' = [key |-> k, found |-> TRUE]
    BY <1>5, <1>10, <2>2 DEF ContainsSound
  <2> QED
    BY <2>1, <2>2
<1> QED
  BY <1>3, <1>6, <1>9, <1>11 DEF DictInv, OutcomeInv

\* d[k] and k in d start a read.
LEMMA MissStep ==
  ASSUME DictInv, ~LazyWrites, NEW k \in Keys, get_crow_miss(k), config' = config, UNCHANGED <<mem, answer>>,
         asked' = asked \/ asked' = k
  PROVE  DictInv'
<1>1. TableInv /\ MemInv /\ GotInv /\ ContainsSound
  BY DEF DictInv, OutcomeInv
<1>2. Next
  BY DEF Next
<1>3. TableInv' /\ GotInv'
  BY <1>1, <1>2, NextStep
<1>4. call = NoCall /\ call' = [pc |-> "get", key |-> k] /\ expected' = expected
  BY DEF get_crow_miss, idle
<1>5. call.pc # "get" /\ call'.pc # "delete"
  BY <1>4 DEF NoCall
<1>6. asked = NoKey
  BY <1>1, <1>5, NotAsked
<1>7. asked' = NoKey \/ (asked' \in Keys /\ call' = [pc |-> "get", key |-> asked'])
  BY <1>4, <1>6
<1>8. MemInv'
  <2>1. answer' \in [key : Keys, found : BOOLEAN] \cup {NoAnswer}
    BY <1>1 DEF MemInv
  <2> QED
    BY <1>1, <1>4, <1>7, <2>1, MemUnchanged
<1>9. ContainsSound'
  BY <1>1, <1>4, AnswerUnchanged
<1> QED
  BY <1>3, <1>5, <1>8, <1>9 DEF DictInv, OutcomeInv

\* del d[k] starts.
LEMMA DelItemStep ==
  ASSUME DictInv, ~LazyWrites, NEW k \in Keys, delitem(k), config' = config
  PROVE  DictInv'
<1>1. /\ TableInv /\ MemInv /\ GotInv
      /\ delete_crow(k) /\ answer' = NoAnswer /\ mem' = mem /\ asked' = asked
  BY DEF DictInv, OutcomeInv, delitem
<1>2. Next
  BY <1>1 DEF Next
<1>3. TableInv' /\ GotInv'
  BY <1>1, <1>2, NextStep
<1>4. call = NoCall /\ expected' = expected
  BY <1>1 DEF delete_crow, idle
<1>5. asked' = NoKey
  BY <1>1, <1>4, NotAsked DEF NoCall
<1>6. MemInv'
  BY <1>1, <1>4, <1>5, MemUnchanged
<1> QED
  BY <1>1, <1>3, <1>6 DEF DictInv, OutcomeInv, ContainsSound

\* A read ends.
LEMMA GetRowStep ==
  ASSUME DictInv, ~LazyWrites, get_row_returns \/ get_row_raises, config' = config
  PROVE  DictInv'
<1>1. /\ TableInv /\ TypeOK /\ MemInv /\ GotInv /\ ContainsSound
      /\ mem' = mem /\ asked' = NoKey
      /\ retrieve_from_cassandra \/ retrieve_fails
  BY DEF DictInv, OutcomeInv, TableInv, get_row_returns, get_row_raises
<1>2. Next
  BY <1>1 DEF Next
<1>3. TableInv' /\ GotInv'
  BY <1>1, <1>2, NextStep
<1>4. call.pc = "get" /\ call' = NoCall /\ expected' = expected
  BY <1>1 DEF retrieve_from_cassandra, retrieve_fails
<1>5. call'.pc # "delete"
  BY <1>4 DEF NoCall
<1>6. /\ \/ answer' = answer
         \/ asked \in Keys /\ call.key = asked /\ \E b \in BOOLEAN : answer' = [key |-> asked, found |-> b]
                           /\ (b => retrieve_from_cassandra /\ got'.val # 0)
  <2>1. CASE asked = NoKey
    BY <2>1 DEF get_row_returns, get_row_raises
  <2>2. CASE asked # NoKey
    <3>1. asked \in Keys /\ call.key = asked
      BY <1>1, <2>2 DEF MemInv
    <3>2. CASE get_row_returns
      <4>1. retrieve_from_cassandra /\ answer' = [key |-> asked, found |-> got'.val # 0]
        BY <2>2, <3>2 DEF get_row_returns
      <4>2. PICK b \in BOOLEAN : b = (got'.val # 0)
        OBVIOUS
      <4> QED
        BY <3>1, <4>1, <4>2, Zenon
    <3>3. CASE get_row_raises
      <4>1. answer' = [key |-> asked, found |-> FALSE]
        BY <2>2, <3>3 DEF get_row_raises
      <4> QED
        BY <3>1, <4>1, Zenon
    <3> QED
      BY <3>2, <3>3
  <2> QED
    BY <2>1, <2>2
<1>7. answer' \in [key : Keys, found : BOOLEAN] \cup {NoAnswer}
  <2>1. CASE answer' = answer
    BY <1>1, <2>1 DEF MemInv
  <2>2. ASSUME asked \in Keys, NEW b \in BOOLEAN, answer' = [key |-> asked, found |-> b]
        PROVE  answer' \in [key : Keys, found : BOOLEAN] \cup {NoAnswer}
    BY <2>2
  <2> QED
    BY <1>6, <2>1, <2>2
<1>8. MemInv'
  BY <1>1, <1>4, <1>7, MemUnchanged
<1>9. ContainsSound'
  <2>1. CASE answer' = answer
    BY <1>1, <1>4, <2>1, AnswerUnchanged
  <2>2. ASSUME call.key = asked, NEW b \in BOOLEAN, answer' = [key |-> asked, found |-> b],
               b => retrieve_from_cassandra /\ got'.val # 0
        PROVE  ContainsSound'
    <3>1. answer'.found = b /\ answer'.key = asked
      BY <2>2
    <3>2. CASE b = FALSE
      BY <3>1, <3>2 DEF ContainsSound
    <3>3. CASE b = TRUE
      <4>1. got'.val \in expected[asked] /\ got'.val # 0
        BY <1>1, <2>2, <3>3, RetrieveStep
      <4>2. expected[asked] # {0}
        BY <4>1, FoundExpected
      <4> QED
        BY <1>4, <3>1, <4>2 DEF ContainsSound
    <3> QED
      BY <3>2, <3>3
  <2> QED
    BY <1>6, <2>1, <2>2
<1> QED
  BY <1>3, <1>5, <1>8, <1>9 DEF DictInv, OutcomeInv

\* sync(), the end of del d[k], and the asynchronous write path.
LEMMA OtherStep ==
  ASSUME DictInv, ~LazyWrites, sync \/ delete_row \/ background, config' = config
  PROVE  DictInv'
<1>1. /\ TableInv /\ TypeOK /\ MemInv /\ GotInv /\ ContainsSound
      /\ call.pc = "delete" => answer = NoAnswer
      /\ UNCHANGED <<mem, asked, answer>>
  BY DEF DictInv, OutcomeInv, TableInv, sync, delete_row, background, dictVars
<1>2. Next
  BY DEF Next, sync, delete_row, background
<1>3. TableInv' /\ GotInv'
  BY <1>1, <1>2, NextStep
<1>4. answer' \in [key : Keys, found : BOOLEAN] \cup {NoAnswer}
  BY <1>1 DEF MemInv
<1>5. CASE sync
  <2>1. /\ call.pc \in {"none", "flush"} /\ expected' = expected
        /\ call'.pc \in {"none", "flush"}
    BY <1>5 DEF sync, flush_elements, flushed, idle, NoCall
  <2>2. asked' = NoKey
    BY <1>1, <2>1, NotAsked
  <2>3. MemInv'
    BY <1>1, <1>4, <2>1, <2>2, MemUnchanged
  <2> QED
    BY <1>1, <1>3, <2>1, <2>3, AnswerUnchanged DEF DictInv, OutcomeInv
<1>6. CASE delete_row
  <2>1. call.pc = "delete" /\ call' = NoCall /\ (delete_ok \/ delete_fails)
    BY <1>6 DEF delete_row, delete_ok, delete_fails
  <2>2. asked' = NoKey /\ answer' = NoAnswer
    BY <1>1, <2>1, NotAsked
  <2>3. /\ expected \in [Keys -> SUBSET Nat]
        /\ \/ expected' = [expected EXCEPT ![call.key] = {0}]
           \/ expected' = [expected EXCEPT ![call.key] = @ \cup {0}]
    BY <1>1, <2>1 DEF TypeOK, delete_ok, delete_fails
  <2>4. \A k \in Keys : expected'[k] = {0} \/ expected'[k] = expected[k] \/ expected'[k] = expected[k] \cup {0}
    BY <2>3
  <2>5. ASSUME NEW k \in Keys, mem[k] # 0, expected'[k] # {0} PROVE mem[k] \in expected'[k]
    <3>1. expected'[k] = expected[k] \/ expected'[k] = expected[k] \cup {0}
      BY <2>4, <2>5
    <3>2. expected[k] # {0}
      BY <2>5, <3>1
    <3>3. mem[k] \in expected[k]
      BY <1>1, <2>5, <3>2 DEF MemInv
    <3> QED
      BY <3>1, <3>3
  <2>6. MemInv'
    BY <1>1, <2>2, <2>5 DEF MemInv, CacheSize, LazyWrites
  <2> QED
    BY <1>3, <2>2, <2>6 DEF DictInv, OutcomeInv, ContainsSound
<1>7. CASE background
  <2>1. UNCHANGED <<call, expected>>
    BY <1>7 DEF background, execute, apply
  <2>2. asked' = NoKey \/ (asked' \in Keys /\ call' = [pc |-> "get", key |-> asked'])
    BY <1>1, <2>1 DEF MemInv
  <2>3. MemInv'
    BY <1>1, <1>4, <2>1, <2>2, MemUnchanged
  <2> QED
    BY <1>1, <1>3, <2>1, <2>3, AnswerUnchanged DEF DictInv, OutcomeInv
<1> QED
  BY <1>5, <1>6, <1>7

\* Every step of the dict and of its table.
LEMMA DictStep ==
  ASSUME DictInv, DictNext
  PROVE  DictInv'
<1>1. CASE array_table
  BY <1>1, ArrayStep
<1>2. CASE dict_table
  <2>1. config' = config /\ ~LazyWrites
    BY <1>2 DEF dict_table
  <2>2. ASSUME NEW k \in Keys, setitem(k) PROVE DictInv'
    BY <2>1, <2>2, SetItemStep
  <2>3. ASSUME NEW k \in Keys, getitem_memory(k) PROVE DictInv'
    BY <2>1, <2>3, MemoryStep
  <2>4. ASSUME NEW k \in Keys, getitem(k) PROVE DictInv'
    BY <2>1, <2>4, HitAnswer, MissStep DEF getitem, dictVars
  <2>5. ASSUME NEW k \in Keys, delitem(k) PROVE DictInv'
    BY <2>1, <2>5, DelItemStep
  <2>6. ASSUME NEW k \in Keys, contains_hit(k) PROVE DictInv'
    BY <2>1, <2>6, HitAnswer DEF contains_hit
  <2>7. ASSUME NEW k \in Keys, contains_miss(k) PROVE DictInv'
    BY <2>1, <2>7, MissStep DEF contains_miss
  <2>8. CASE get_row_returns \/ get_row_raises
    BY <2>1, <2>8, GetRowStep
  <2>9. CASE sync \/ delete_row \/ background
    BY <2>1, <2>9, OtherStep
  <2> QED
    BY <1>2, <2>2, <2>3, <2>4, <2>5, <2>6, <2>7, <2>8, <2>9 DEF dict_table
<1> QED
  BY <1>1, <1>2 DEF DictNext

\* Nothing changes.
LEMMA DictStutter ==
  ASSUME DictInv, UNCHANGED allVars
  PROVE  DictInv'
<1>1. UNCHANGED <<config, cache, dirty, lazy, max_calls, queue, sent, rows, time, ops, call,
                  got, expected, fails, mem, asked, answer>>
  BY DEF allVars, vars, dictVars
<1>2. TypeOK' /\ LazyInv' /\ CacheKeys' /\ CacheInv'
  BY <1>1 DEF DictInv, TableInv, TypeOK, LazyInv, CacheKeys, CacheInv, Dirty, LazyWrites, CacheSize
<1>3. Times'
  BY <1>1 DEF DictInv, TableInv, Times, Queued, Timestamped
<1>4. StoredInv'
  BY <1>1, PipeUnchanged DEF DictInv, TableInv
<1>5. MemInv'
  BY <1>1 DEF DictInv, MemInv, CacheSize, LazyWrites
<1>6. OutcomeInv'
  BY <1>1 DEF DictInv, OutcomeInv, GotInv, GetItemSound, ContainsSound, CacheSize, LazyWrites
<1> QED
  BY <1>2, <1>3, <1>4, <1>5, <1>6 DEF DictInv, TableInv

LEMMA DictStart ==
  ASSUME DictInit
  PROVE  DictInv
<1>1. /\ config \in Configs /\ cache = <<>> /\ dirty = [k \in Keys |-> 0] /\ lazy = LazyWrites
      /\ max_calls \in DirtyLimits /\ queue = <<>> /\ sent = {} /\ time = 0 /\ ops = 0 /\ fails = 0
      /\ rows = [k \in Keys |-> [val |-> 0, stamp |-> 0]] /\ call = NoCall /\ got = NoResult
      /\ expected = [k \in Keys |-> {0}] /\ mem = [k \in Keys |-> 0] /\ asked = NoKey /\ answer = NoAnswer
  BY DEF DictInit, Init
<1>2. CacheSize \in Nat /\ LazyWrites \in BOOLEAN
  BY <1>1 DEF CacheSize, LazyWrites, CacheTableAssumption, Config
<1>3. TypeOK
  <2>1. call \in Calls /\ got \in Entry \cup {NoResult}
    BY <1>1 DEF Calls, NoCall
  <2>2. cache \in Seq(Entry) /\ Len(cache) = 0 /\ queue \in Seq([key : Keys, val : Nat, stamp : Nat])
    BY <1>1
  <2>3. Len(cache) <= CacheSize
    BY <1>2, <2>2
  <2>4. expected \in [Keys -> SUBSET Nat] /\ dirty \in [Keys -> Nat] /\ rows \in [Keys -> [val : Nat, stamp : Nat]]
    BY <1>1
  <2> QED
    BY <1>1, <1>2, <2>1, <2>2, <2>3, <2>4 DEF TypeOK
<1>4. LazyInv
  <2>1. Dirty = {} /\ call.pc # "delete"
    BY <1>1 DEF Dirty, DirtyKeys, NoCall
  <2> QED
    BY <1>1, <2>1, FS_EmptySet DEF LazyInv
<1>5. DOMAIN cache = {} /\ DOMAIN queue = {} /\ Queued = {}
  BY <1>1 DEF Queued
<1>6. CacheKeys /\ CacheInv
  BY <1>5 DEF CacheKeys, CacheInv
<1>7. \A k \in Keys : rows[k].stamp = 0 /\ rows[k].val = 0 /\ expected[k] = {0} /\ dirty[k] = 0 /\ mem[k] = 0
  BY <1>1
<1>8. call.pc # "delete"
  BY <1>1 DEF NoCall
<1>9. Times
  BY <1>1, <1>5, <1>7, <1>8 DEF Times
<1>10. ASSUME NEW k \in Keys PROVE Settles(k)
  <2>1. NewestOK(k, sent) /\ NewestOK(k, sent \cup Queued) /\ LastOK(k)
    BY <1>1, <1>5, <1>7 DEF NewestOK, LastOK
  <2> QED
    BY <1>7, <2>1 DEF Settles
<1>11. MemInv
  BY <1>1, <1>7 DEF MemInv
<1>12. OutcomeInv
  BY <1>1, <1>8 DEF OutcomeInv, GotInv, GetItemSound, ContainsSound
<1> QED
  BY <1>3, <1>4, <1>6, <1>9, <1>10, <1>11, <1>12 DEF DictInv, TableInv, StoredInv

-----------------------------------------------------------------------------
(* The theorems. *)

LEMMA DictInvariance == DictSpec => []DictInv
<1>1. DictInit => DictInv
  BY DictStart
<1>2. DictInv /\ [DictNext]_allVars => DictInv'
  BY DictStep, DictStutter
<1> QED
  BY <1>1, <1>2, PTL DEF DictSpec

\* The types of the table and of the dict, the cache within its size among them.
THEOREM DictTypeTheorem == DictSpec => []DictTypeOK
<1>1. DictInv => DictTypeOK
  BY DEF DictInv, TableInv, MemInv, DictTypeOK
<1> QED
  BY <1>1, DictInvariance, PTL

\* The KVCache never holds a value older than the client's last write.
THEOREM CoherenceTheorem == DictSpec => []CacheCoherent
<1>1. DictInv => CacheCoherent
  BY DEF DictInv, TableInv, CacheInv, CacheCoherent
<1> QED
  BY <1>1, DictInvariance, PTL

\* Once nothing is dirty, queued or in flight, Cassandra holds what was last written,
\* whatever the order in which the Writer's blocks, queries and deletes were applied.
THEOREM StoredTheorem == DictSpec => []StoredWhenFlushed
<1>1. DictInv => StoredWhenFlushed
  BY Settled DEF DictInv, TableInv, StoredWhenFlushed
<1> QED
  BY <1>1, DictInvariance, PTL

\* get_crow and d[k] return the value last set.
THEOREM GetItemTheorem == DictSpec => []GetItemSound
<1>1. DictInv => GetItemSound
  BY DEF DictInv, OutcomeInv, GotInv
<1> QED
  BY <1>1, DictInvariance, PTL

\* k in d is True only for a key that is there.
THEOREM ContainsTheorem == DictSpec => []ContainsSound
<1>1. DictInv => ContainsSound
  BY DEF DictInv, OutcomeInv
<1> QED
  BY <1>1, DictInvariance, PTL

=============================================================================
