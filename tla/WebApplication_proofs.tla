------------------------ MODULE WebApplication_proofs ------------------------
(***************************************************************************)
(* The web application proved, part by part: the limiter and the memos of  *)
(* a process, the page in front of it, the start of its containers and the *)
(* gate of a release, each by an inductive invariant of its own; a step of *)
(* the application is one of a part, and leaves the others alone.          *)
(***************************************************************************)
EXTENDS WebApplication, FiniteSetTheorems, TLAPS


-----------------------------------------------------------------------------
(* The limiter                                                             *)

\* The hits H noted for a key k: those of its live window, which began with
\* the first of them, are no more than its bucket has counted; of the others
\* the first has been forgotten.
HitsWell(bs, k, H) ==
  /\ IsFiniteSet(H) /\ H \subseteq Nat \X Nat
  /\ \A h \in H : h[1] <= now /\ now < h[1] + WindowLength
  /\ Live(bs, k) =>
       /\ bs.of[k].resetAt <= now + WindowLength
       /\ \E h \in H : h[1] + WindowLength = bs.of[k].resetAt
       /\ Cardinality({h \in H : h[1] + WindowLength >= bs.of[k].resetAt}) <= bs.of[k].count
       /\ Cardinality({h \in H : h[1] + WindowLength < bs.of[k].resetAt}) < Limit
  /\ ~Live(bs, k) => Cardinality(H) < Limit /\ \A h \in H : h[1] < now

\* The map is within its cap, and the order of insertion is one.
MapWell(bs) ==
  /\ Keys(bs) \subseteq Key /\ bs.of \in [Keys(bs) -> Bucket]
  /\ IsFiniteSet(Keys(bs)) /\ Cardinality(Keys(bs)) <= MaxKeys
  /\ \A k, l \in Keys(bs) : k = l \/ <<k, l>> \in bs.before \/ <<l, k>> \in bs.before
  /\ \A k \in Keys(bs) : <<k, k>> \notin bs.before
  /\ \A k, l, m \in Keys(bs) :
       <<k, l>> \in bs.before /\ <<l, m>> \in bs.before => <<k, m>> \in bs.before

LimiterInv ==
  /\ now \in Nat /\ MapWell(buckets)
  /\ admitted \in [Key -> SUBSET (Nat \X Nat)]
  /\ \A k \in Key : HitsWell(buckets, k, admitted[k])
  /\ ~wasteful
  /\ told \in [Key -> Nat]
  /\ \A k \in Key : told[k] # 0 /\ Live(buckets, k) => buckets.of[k].resetAt <= told[k]

\* Fewer than n of the keys are younger than each of the newest, and no two of
\* them have as many younger ones: so they are at most n.
LEMMA NewestAreFew ==
  ASSUME NEW bs, MapWell(bs), NEW K \in SUBSET Keys(bs), NEW n \in Nat
  PROVE  IsFiniteSet(Newest(bs, K, n)) /\ Cardinality(Newest(bs, K, n)) <= n
<1> DEFINE Younger(k) == {l \in K : <<k, l>> \in bs.before}
           N == Newest(bs, K, n)
           rank == [k \in N |-> Cardinality(Younger(k))]
<1>1. IsFiniteSet(K)
  BY FS_Subset DEF MapWell
<1>2. \A k \in K : IsFiniteSet(Younger(k)) /\ Cardinality(Younger(k)) \in Nat
  BY <1>1, FS_Subset, FS_CardinalityType
<1>3. N = {k \in K : Cardinality(Younger(k)) < n}
  BY DEF Newest
<1>4. \A k \in N : k \in K /\ rank[k] \in 0 .. (n - 1)
  <2>1. SUFFICES ASSUME NEW k \in N PROVE k \in K /\ rank[k] \in 0 .. (n - 1)
    OBVIOUS
  <2>2. k \in K /\ Cardinality(Younger(k)) < n
    BY <1>3
  <2>3. rank[k] = Cardinality(Younger(k))
    OBVIOUS
  <2> HIDE DEF Younger, rank, N
  <2>4. Cardinality(Younger(k)) \in Nat
    BY <1>2, <2>2
  <2> QED
    BY <2>2, <2>3, <2>4
<1>5. ASSUME NEW k \in K, NEW l \in K, <<k, l>> \in bs.before
      PROVE  Cardinality(Younger(l)) < Cardinality(Younger(k))
  <2>1. Younger(l) \subseteq Younger(k)
    BY <1>5 DEF MapWell
  <2>2. l \in Younger(k) /\ l \notin Younger(l)
    BY <1>5 DEF MapWell
  <2> HIDE DEF Younger
  <2>3. Cardinality(Younger(l)) <= Cardinality(Younger(k)) /\ Cardinality(Younger(l)) # Cardinality(Younger(k))
    BY <1>2, <1>5, <2>1, <2>2, FS_Subset
  <2> QED
    BY <1>2, <2>3
<1>6. ASSUME NEW k \in N, NEW l \in N, rank[k] = rank[l]
      PROVE  k = l
  <2>1. k \in K /\ l \in K /\ Cardinality(Younger(k)) = Cardinality(Younger(l))
    BY <1>3, <1>6
  <2>2. k = l \/ <<k, l>> \in bs.before \/ <<l, k>> \in bs.before
    BY <2>1 DEF MapWell
  <2> HIDE DEF Younger
  <2>3. Cardinality(Younger(k)) \in Nat
    BY <1>2, <2>1
  <2> QED
    BY <1>5, <2>1, <2>2, <2>3
<1>7. rank \in Injection(N, 0 .. (n - 1))
  <2>1. rank \in [N -> 0 .. (n - 1)]
    BY <1>4
  <2> HIDE DEF rank, N
  <2> QED
    BY <1>6, <2>1 DEF Injection, IsInjective
<1>8. IsFiniteSet(0 .. (n - 1)) /\ Cardinality(0 .. (n - 1)) = n
  BY FS_Interval
<1> HIDE DEF rank, N
<1>9. IsFiniteSet(N) /\ Cardinality(N) <= n
  BY <1>7, <1>8, FS_Injection
<1> QED
  BY <1>9 DEF N

\* An eviction leaves room, and only of what is live if it takes what is.
LEMMA EvictIs ==
  ASSUME NEW bs, MapWell(bs)
  PROVE  /\ Evict(bs) \subseteq Keys(bs) /\ IsFiniteSet(Evict(bs)) /\ Cardinality(Evict(bs)) < MaxKeys
         /\ Evict(bs) = Keys(bs) \/ \A k \in Evict(bs) : Live(bs, k)
<1>1. MaxKeys \in Nat /\ MaxKeys - 1 \in Nat /\ MaxKeys - 1 < MaxKeys
  BY WebProcessAssumption
<1>2. IsFiniteSet(Keys(bs)) /\ Cardinality(Keys(bs)) \in Nat
  BY FS_CardinalityType DEF MapWell
<1>3. CASE Cardinality(Keys(bs)) < MaxKeys
  BY <1>2, <1>3 DEF Evict
<1>4. CASE ~(Cardinality(Keys(bs)) < MaxKeys)
  <2>1. PICK L : L = {k \in Keys(bs) : Live(bs, k)}
    OBVIOUS
  <2>2. Evict(bs) = Newest(bs, L, MaxKeys - 1)
    BY <1>4, <2>1 DEF Evict
  <2>3. L \in SUBSET Keys(bs)
    BY <2>1
  <2>4. IsFiniteSet(Evict(bs)) /\ Cardinality(Evict(bs)) <= MaxKeys - 1
    BY <1>1, <2>2, <2>3, NewestAreFew
  <2>5. Evict(bs) \subseteq L
    BY <2>2 DEF Newest
  <2>6. Cardinality(Evict(bs)) \in Nat
    BY <2>4, FS_CardinalityType
  <2> QED
    BY <1>1, <2>1, <2>4, <2>5, <2>6
<1> QED
  BY <1>3, <1>4

LEMMA BucketIs ==
  ASSUME NEW b \in Bucket
  PROVE  b.count \in 1 .. Limit /\ b.resetAt \in Nat
BY DEF Bucket

LEMMA FreshIs ==
  ASSUME now \in Nat
  PROVE  /\ Fresh \in Bucket /\ Fresh.count = 1 /\ Fresh.resetAt = now + WindowLength
         /\ now < now + WindowLength
BY WebProcessAssumption DEF Fresh, Bucket

\* What a hit makes of the map: the key has a bucket, a live one counts on and
\* another begins; the others stay, or are evicted to make room.
LEMMA HitShape ==
  ASSUME now \in Nat, NEW bs, MapWell(bs), NEW key \in Key, ~Blocked(bs, key),
         NEW after, after = Hit(bs, key)
  PROVE  /\ MapWell(after) /\ key \in Keys(after)
         /\ \A k \in Keys(after) \ {key} : k \in Keys(bs) /\ after.of[k] = bs.of[k]
         /\ Live(bs, key) => /\ after.of[key].resetAt = bs.of[key].resetAt
                             /\ after.of[key].count = bs.of[key].count + 1
         /\ ~Live(bs, key) => after.of[key] = Fresh
         /\ Lost(bs, after) = {} \/ \A k \in Keys(after) : Live(after, k)
<1>1. /\ Keys(bs) \subseteq Key /\ bs.of \in [Keys(bs) -> Bucket] /\ DOMAIN bs.of = Keys(bs)
      /\ IsFiniteSet(Keys(bs))
  BY DEF MapWell, Keys
<1>2. Fresh \in Bucket /\ Fresh.resetAt > now
  BY FreshIs DEF Fresh
<1>3. ASSUME NEW b \in Bucket, key \in Keys(bs), after = Replace(bs, key, b)
      PROVE  /\ MapWell(after) /\ Keys(after) = Keys(bs) /\ after.of[key] = b
             /\ \A k \in Keys(after) \ {key} : k \in Keys(bs) /\ after.of[k] = bs.of[k]
             /\ Lost(bs, after) = {}
  <2>1. after.of = [bs.of EXCEPT ![key] = b] /\ after.before = bs.before
    BY <1>3 DEF Replace
  <2>2. Keys(after) = Keys(bs) /\ after.of \in [Keys(after) -> Bucket]
    BY <1>1, <1>3, <2>1 DEF Keys
  <2>3. after.of[key] = b /\ \A k \in Keys(after) \ {key} : k \in Keys(bs) /\ after.of[k] = bs.of[k]
    BY <1>1, <1>3, <2>1, <2>2
  <2>4. MapWell(after)
    BY <2>1, <2>2 DEF MapWell
  <2>5. Lost(bs, after) = {}
    BY <2>2 DEF Lost, Live
  <2> QED
    BY <2>2, <2>3, <2>4, <2>5
<1>4. CASE Live(bs, key)
  <2>1. PICK b : b = [count |-> bs.of[key].count + 1, resetAt |-> bs.of[key].resetAt]
    OBVIOUS
  <2>2. key \in Keys(bs) /\ bs.of[key] \in Bucket /\ ~(bs.of[key].count >= Limit)
    BY <1>1, <1>4 DEF Live, Blocked
  <2>3. bs.of[key].count \in 1 .. Limit /\ bs.of[key].resetAt \in Nat /\ Limit \in Nat
    BY <2>2, BucketIs, WebProcessAssumption
  <2>4. bs.of[key].count + 1 \in 1 .. Limit
    BY <2>2, <2>3
  <2>5. b \in Bucket /\ b.resetAt = bs.of[key].resetAt /\ b.count = bs.of[key].count + 1
    BY <2>1, <2>3, <2>4 DEF Bucket
  <2>6. after = Replace(bs, key, b)
    BY <1>4, <2>1 DEF Hit
  <2> QED
    BY <1>3, <1>4, <2>2, <2>5, <2>6
<1>5. CASE ~Live(bs, key) /\ key \in Keys(bs)
  <2>1. after = Replace(bs, key, Fresh)
    BY <1>5 DEF Hit
  <2> QED
    BY <1>2, <1>3, <1>5, <2>1
<1>6. CASE key \notin Keys(bs)
  <2>1. PICK kept : kept = Evict(bs)
    OBVIOUS
  <2>2. /\ kept \subseteq Keys(bs) /\ IsFiniteSet(kept) /\ Cardinality(kept) < MaxKeys
        /\ kept = Keys(bs) \/ \A k \in kept : Live(bs, k)
    BY <2>1, EvictIs
  <2>3. after = Insert(bs, kept, key) /\ ~Live(bs, key)
    BY <1>6, <2>1 DEF Hit, Live
  <2>4. /\ after.of = [k \in kept \cup {key} |-> IF k = key THEN Fresh ELSE bs.of[k]]
        /\ after.before = (bs.before \cap (kept \X kept)) \cup (kept \X {key})
    BY <2>3 DEF Insert
  <2>5. Keys(after) = kept \cup {key} /\ key \notin kept
    BY <1>6, <2>2, <2>4 DEF Keys
  <2>6. after.of[key] = Fresh /\ \A k \in Keys(after) \ {key} : k \in Keys(bs) /\ after.of[k] = bs.of[k]
    BY <2>2, <2>4, <2>5
  <2>7. after.of \in [Keys(after) -> Bucket] /\ Keys(after) \subseteq Key
    BY <1>1, <1>2, <2>2, <2>4, <2>5
  <2>8. IsFiniteSet(Keys(after)) /\ Cardinality(Keys(after)) <= MaxKeys
    <3>1. IsFiniteSet(Keys(after)) /\ Cardinality(Keys(after)) = Cardinality(kept) + 1
      BY <2>2, <2>5, FS_AddElement
    <3>2. Cardinality(kept) \in Nat /\ MaxKeys \in Nat
      BY <2>2, FS_CardinalityType, WebProcessAssumption
    <3> QED
      BY <2>2, <3>1, <3>2
  <2>9. /\ \A k, l \in kept : <<k, l>> \in after.before <=> <<k, l>> \in bs.before
        /\ \A k \in kept : <<k, key>> \in after.before /\ <<key, k>> \notin after.before
        /\ <<key, key>> \notin after.before
    BY <2>4, <2>5
  <2>10. \A k, l \in Keys(after) : k = l \/ <<k, l>> \in after.before \/ <<l, k>> \in after.before
    BY <2>2, <2>5, <2>9 DEF MapWell
  <2>11. \A k \in Keys(after) : <<k, k>> \notin after.before
    BY <2>2, <2>5, <2>9 DEF MapWell
  <2>12. \A k, l, m \in Keys(after) :
           <<k, l>> \in after.before /\ <<l, m>> \in after.before => <<k, m>> \in after.before
    <3>1. SUFFICES ASSUME NEW k \in Keys(after), NEW l \in Keys(after), NEW m \in Keys(after),
                          <<k, l>> \in after.before, <<l, m>> \in after.before
                   PROVE  <<k, m>> \in after.before
      OBVIOUS
    <3>2. k # key /\ l # key
      BY <2>5, <2>9, <3>1
    <3>3. k \in kept /\ l \in kept
      BY <2>5, <3>2
    <3>4. CASE m = key
      BY <2>9, <3>3, <3>4
    <3>5. CASE m \in kept
      <4>1. <<k, l>> \in bs.before /\ <<l, m>> \in bs.before
        BY <2>9, <3>1, <3>3, <3>5
      <4>2. <<k, m>> \in bs.before
        BY <2>2, <3>3, <3>5, <4>1 DEF MapWell
      <4> QED
        BY <2>9, <3>3, <3>5, <4>2
    <3> QED
      BY <2>5, <3>4, <3>5
  <2>13. MapWell(after)
    BY <2>7, <2>8, <2>10, <2>11, <2>12 DEF MapWell
  <2>14. Lost(bs, after) = {} \/ \A k \in Keys(after) : Live(after, k)
    <3>1. CASE kept = Keys(bs)
      BY <2>5, <3>1 DEF Lost, Live
    <3>2. CASE \A k \in kept : Live(bs, k)
      BY <1>2, <2>5, <2>6, <3>2 DEF Live
    <3> QED
      BY <2>2, <3>1, <3>2
  <2> QED
    BY <2>3, <2>5, <2>6, <2>13, <2>14
<1> QED
  BY <1>4, <1>5, <1>6

\* A hit that is admitted keeps what is known of every key's hits.
LEMMA NotesWell ==
  ASSUME now \in Nat, NEW bs, MapWell(bs), NEW key \in Key, ~Blocked(bs, key),
         NEW after, after = Hit(bs, key), NEW hits \in [Key -> SUBSET (Nat \X Nat)],
         \A k \in Key : HitsWell(bs, k, hits[k]),
         NEW noted, noted = Notes(hits, bs, after, key)
  PROVE  /\ noted \in [Key -> SUBSET (Nat \X Nat)]
         /\ \A k \in Key : HitsWell(after, k, noted[k])
<1>1. /\ MapWell(after) /\ key \in Keys(after)
      /\ \A k \in Keys(after) \ {key} : k \in Keys(bs) /\ after.of[k] = bs.of[k]
      /\ Live(bs, key) => /\ after.of[key].resetAt = bs.of[key].resetAt
                          /\ after.of[key].count = bs.of[key].count + 1
      /\ ~Live(bs, key) => after.of[key] = Fresh
  BY HitShape
<1>2. PICK n : n = Cardinality({h \in hits[key] : h[1] = now}) + 1
  OBVIOUS
<1>3. \A k \in Key \ {key} : noted[k] = IF k \in Lost(bs, after) THEN {} ELSE hits[k]
  BY DEF Notes
<1>4. noted[key] = hits[key] \cup {<<now, n>>}
  BY <1>1, <1>2 DEF Notes, Lost
<1>5. n \in Nat
  <2>1. IsFiniteSet(hits[key])
    BY DEF HitsWell
  <2>2. {h \in hits[key] : h[1] = now} \in SUBSET hits[key]
    OBVIOUS
  <2>3. IsFiniteSet({h \in hits[key] : h[1] = now})
    BY <2>1, <2>2, FS_Subset
  <2>4. Cardinality({h \in hits[key] : h[1] = now}) \in Nat
    BY <2>3, FS_CardinalityType
  <2> QED
    BY <1>2, <2>4
<1>6. noted \in [Key -> SUBSET (Nat \X Nat)]
  <2>1. \A k \in Key : noted[k] \subseteq Nat \X Nat
    BY <1>3, <1>4, <1>5
  <2>2. noted = [k \in Key |-> noted[k]]
    BY DEF Notes
  <2> QED
    BY <2>1, <2>2
<1>7. ASSUME NEW k \in Key \ {key} PROVE HitsWell(after, k, noted[k])
  <2>1. CASE k \in Lost(bs, after)
    <3>1. noted[k] = {} /\ ~Live(after, k)
      BY <1>3, <2>1 DEF Lost, Live
    <3>2. IsFiniteSet({}) /\ Cardinality({}) < Limit
      BY FS_EmptySet, WebProcessAssumption
    <3> QED
      BY <3>1, <3>2 DEF HitsWell
  <2>2. CASE k \notin Lost(bs, after)
    <3>1. noted[k] = hits[k] /\ (Live(after, k) <=> Live(bs, k)) /\ (Live(after, k) => after.of[k] = bs.of[k])
      BY <1>1, <1>3, <2>2 DEF Lost, Live
    <3> QED
      BY <3>1 DEF HitsWell
  <2> QED
    BY <2>1, <2>2
<1>8. HitsWell(after, key, noted[key])
  <2>1. PICK H, x : H = hits[key] /\ x = <<now, n>>
    OBVIOUS
  <2>2. HitsWell(bs, key, H) /\ noted[key] = H \cup {x} /\ x[1] = now /\ x \in Nat \X Nat
    BY <1>4, <1>5, <2>1
  <2>3. IsFiniteSet(H) /\ H \subseteq Nat \X Nat /\ \A h \in H : h[1] \in Nat /\ h[1] <= now /\ now < h[1] + WindowLength
    BY <2>2 DEF HitsWell
  <2>4. WindowLength \in Nat /\ now < now + WindowLength /\ Limit \in Nat /\ 1 <= Limit
    BY WebProcessAssumption
  <2>5. IsFiniteSet(H \cup {x})
    BY <2>3, FS_AddElement
  <2>6. \A h \in H \cup {x} : h[1] <= now /\ now < h[1] + WindowLength
    BY <2>2, <2>3, <2>4
  <2>7. CASE Live(bs, key)
    <3>1. PICK r, c : r = bs.of[key].resetAt /\ c = bs.of[key].count
      OBVIOUS
    <3>2. after.of[key].resetAt = r /\ after.of[key].count = c + 1 /\ r > now /\ Live(after, key)
      BY <1>1, <2>7, <3>1 DEF Live
    <3>3. /\ r <= now + WindowLength /\ \E h \in H : h[1] + WindowLength = r
          /\ Cardinality({h \in H : h[1] + WindowLength >= r}) <= c
          /\ Cardinality({h \in H : h[1] + WindowLength < r}) < Limit
      BY <2>2, <2>7, <3>1 DEF HitsWell
    <3>4. r \in Nat /\ c \in Nat
      <4>1. bs.of[key] \in Bucket
        BY <2>7 DEF MapWell, Live
      <4> QED
        BY <2>4, <3>1, <4>1, BucketIs
    <3>5. PICK A, B : A = {h \in H : h[1] + WindowLength >= r} /\ B = {h \in H : h[1] + WindowLength < r}
      OBVIOUS
    <3>6. {h \in H \cup {x} : h[1] + WindowLength < r} = B
      BY <2>2, <2>4, <3>3, <3>4, <3>5
    <3>7. {h \in H \cup {x} : h[1] + WindowLength >= r} = A \cup {x}
      BY <2>2, <2>4, <3>3, <3>4, <3>5
    <3>8. Cardinality(A \cup {x}) <= c + 1
      <4>1. IsFiniteSet(A)
        BY <2>3, <3>5, FS_Subset
      <4>2. Cardinality(A) \in Nat /\ Cardinality(A \cup {x}) = IF x \in A THEN Cardinality(A) ELSE Cardinality(A) + 1
        BY <4>1, FS_CardinalityType, FS_AddElement
      <4>3. Cardinality(A) <= c
        BY <3>3, <3>5
      <4> QED
        BY <3>4, <4>2, <4>3
    <3>9. /\ Cardinality({h \in H \cup {x} : h[1] + WindowLength < r}) < Limit
          /\ Cardinality({h \in H \cup {x} : h[1] + WindowLength >= r}) <= c + 1
      BY <3>3, <3>5, <3>6, <3>7, <3>8
    <3>10. \E h \in H \cup {x} : h[1] + WindowLength = r
      BY <3>3
    <3>11. H \cup {x} \subseteq Nat \X Nat
      BY <2>2, <2>3
    <3> QED
      BY <2>2, <2>5, <2>6, <3>2, <3>3, <3>9, <3>10, <3>11 DEF HitsWell
  <2>8. CASE ~Live(bs, key)
    <3>1. PICK r : r = now + WindowLength
      OBVIOUS
    <3>2. /\ after.of[key].resetAt = r /\ after.of[key].count = 1 /\ r > now /\ Live(after, key)
          /\ r \in Nat
      BY <1>1, <2>4, <2>8, <3>1, FreshIs DEF Live
    <3>3. Cardinality(H) < Limit /\ \A h \in H : h[1] < now
      BY <2>2, <2>8 DEF HitsWell
    <3>4. PICK A, B : /\ A = {h \in H \cup {x} : h[1] + WindowLength >= r}
                      /\ B = {h \in H \cup {x} : h[1] + WindowLength < r}
      OBVIOUS
    <3>5. B = H
      BY <2>2, <2>3, <2>4, <3>1, <3>3, <3>4
    <3>6. A = {x}
      BY <2>2, <2>3, <2>4, <3>1, <3>3, <3>4
    <3>7. /\ Cardinality({h \in H \cup {x} : h[1] + WindowLength < r}) < Limit
          /\ Cardinality({h \in H \cup {x} : h[1] + WindowLength >= r}) <= 1
      <4>1. Cardinality(B) < Limit /\ Cardinality(A) = 1
        BY <3>3, <3>5, <3>6, FS_Singleton
      <4> QED
        BY <3>4, <4>1
    <3>8. x[1] + WindowLength = r
      BY <2>2, <3>1
    <3>9. \E h \in H \cup {x} : h[1] + WindowLength = r
      BY <3>8
    <3>10. H \cup {x} \subseteq Nat \X Nat /\ r <= now + WindowLength
      BY <2>2, <2>3, <2>4, <3>1
    <3> QED
      BY <2>2, <2>5, <2>6, <3>2, <3>7, <3>9, <3>10 DEF HitsWell
  <2> QED
    BY <2>7, <2>8
<1> QED
  BY <1>6, <1>7, <1>8

\* `\div` rounds down: so many seconds are enough.
LEMMA SecondsCover ==
  ASSUME NEW left \in Nat
  PROVE  /\ (left + Second - 1) \div Second \in Nat
         /\ left <= Second * ((left + Second - 1) \div Second)
<1>1. PICK s, x : s = Second /\ x = left + Second - 1
  OBVIOUS
<1>2. s \in Nat /\ s >= 1 /\ x \in Nat
  BY <1>1, WebProcessAssumption
<1>3. x \div s \in Nat
  BY <1>2
<1>4. x < s * (x \div s) + s
  BY <1>2
<1>5. s * (x \div s) \in Nat
  BY <1>2, <1>3
<1> QED
  BY <1>1, <1>2, <1>3, <1>4, <1>5

LEMMA RetryIsLate ==
  ASSUME now \in Nat, NEW bs, MapWell(bs), NEW key \in Key, Live(bs, key)
  PROVE  RetryAt(bs, key) \in Nat /\ bs.of[key].resetAt <= RetryAt(bs, key)
<1>1. bs.of[key] \in Bucket
  BY DEF MapWell, Live
<1>2. PICK left : left = bs.of[key].resetAt - now
  OBVIOUS
<1>3. left \in Nat /\ bs.of[key].resetAt = now + left
  BY <1>1, <1>2, BucketIs DEF Live
<1>4. PICK q, s : q = (left + Second - 1) \div Second /\ s = Second
  OBVIOUS
<1>5. q \in Nat /\ left <= s * q /\ s \in Nat
  BY <1>3, <1>4, SecondsCover, WebProcessAssumption
<1>6. PICK m : m = IF q < 1 THEN 1 ELSE q
  OBVIOUS
<1>7. m \in Nat /\ (m = q \/ q = 0)
  BY <1>5, <1>6
<1>8. left <= s * m /\ s * m \in Nat
  <2>1. CASE m = q
    BY <1>5, <1>7, <2>1
  <2>2. CASE q = 0
    <3>1. s * q = 0
      BY <1>5, <2>2
    <3>2. left = 0 /\ s * m \in Nat
      BY <1>3, <1>5, <1>7, <3>1
    <3> QED
      BY <3>2
  <2> QED
    BY <1>7, <2>1, <2>2
<1>9. RetryAt(bs, key) = now + s * m
  BY <1>2, <1>4, <1>6 DEF RetryAt
<1> QED
  BY <1>3, <1>8, <1>9

\* What is told stays late enough: a key that is not admitted keeps its bucket
\* or loses it.
ToldWell(bs, to) ==
  /\ to \in [Key -> Nat]
  /\ \A k \in Key : to[k] # 0 /\ Live(bs, k) => bs.of[k].resetAt <= to[k]

LEMMA ToldStays ==
  ASSUME now \in Nat, NEW bs, MapWell(bs), NEW key \in Key, ~Blocked(bs, key),
         NEW after, after = Hit(bs, key), NEW to, ToldWell(bs, to)
  PROVE  ToldWell(after, [to EXCEPT ![key] = 0]) /\ ~Wastes(bs, after)
<1>1. /\ \A k \in Keys(after) \ {key} : k \in Keys(bs) /\ after.of[k] = bs.of[k]
      /\ Lost(bs, after) = {} \/ \A k \in Keys(after) : Live(after, k)
  BY HitShape
<1>2. PICK t : t = [to EXCEPT ![key] = 0]
  OBVIOUS
<1>3. t \in [Key -> Nat] /\ t[key] = 0 /\ \A k \in Key \ {key} : t[k] = to[k]
  BY <1>2 DEF ToldWell
<1>4. ASSUME NEW k \in Key, t[k] # 0, Live(after, k) PROVE after.of[k].resetAt <= t[k]
  <2>1. k # key
    BY <1>3, <1>4
  <2>2. Live(bs, k) /\ after.of[k] = bs.of[k] /\ t[k] = to[k]
    BY <1>1, <1>3, <1>4, <2>1 DEF Live
  <2> QED
    BY <1>4, <2>2 DEF ToldWell
<1>5. ~Wastes(bs, after)
  BY <1>1 DEF Wastes
<1> QED
  BY <1>2, <1>3, <1>4, <1>5 DEF ToldWell

\* A hit that is turned away is told when to come back.
LEMMA ToldAnew ==
  ASSUME now \in Nat, NEW bs, MapWell(bs), NEW key \in Key, Blocked(bs, key), NEW to, ToldWell(bs, to)
  PROVE  ToldWell(bs, [to EXCEPT ![key] = RetryAt(bs, key)])
<1>1. PICK t, r : r = RetryAt(bs, key) /\ t = [to EXCEPT ![key] = r]
  OBVIOUS
<1>2. r \in Nat /\ bs.of[key].resetAt <= r
  BY <1>1, RetryIsLate DEF Blocked
<1>3. t \in [Key -> Nat] /\ t[key] = r /\ \A k \in Key \ {key} : t[k] = to[k]
  BY <1>1, <1>2 DEF ToldWell
<1>4. ASSUME NEW k \in Key, t[k] # 0, Live(bs, k) PROVE bs.of[k].resetAt <= t[k]
  BY <1>2, <1>3, <1>4 DEF ToldWell
<1> QED
  BY <1>1, <1>3, <1>4 DEF ToldWell

\* The invariant of the limiter, of a map, hits and what is told
LimiterWell(bs, hits, to) ==
  /\ MapWell(bs) /\ ToldWell(bs, to)
  /\ hits \in [Key -> SUBSET (Nat \X Nat)] /\ \A k \in Key : HitsWell(bs, k, hits[k])

LEMMA LimiterInvIs ==
  LimiterInv <=> now \in Nat /\ LimiterWell(buckets, admitted, told) /\ ~wasteful
BY DEF LimiterInv, LimiterWell, ToldWell

LEMMA HitKeepsWell ==
  ASSUME now \in Nat, NEW bs, NEW hits, NEW to, LimiterWell(bs, hits, to),
         NEW key \in Key, ~Blocked(bs, key), NEW after, after = Hit(bs, key)
  PROVE  /\ LimiterWell(after, Notes(hits, bs, after, key), [to EXCEPT ![key] = 0])
         /\ ~Wastes(bs, after)
<1>1. MapWell(bs) /\ ToldWell(bs, to) /\ hits \in [Key -> SUBSET (Nat \X Nat)]
      /\ \A k \in Key : HitsWell(bs, k, hits[k])
  BY DEF LimiterWell
<1>2. MapWell(after)
  BY <1>1, HitShape
<1>3. PICK noted : noted = Notes(hits, bs, after, key)
  OBVIOUS
<1>4. noted \in [Key -> SUBSET (Nat \X Nat)] /\ \A k \in Key : HitsWell(after, k, noted[k])
  BY <1>1, <1>3, NotesWell
<1>5. PICK t : t = [to EXCEPT ![key] = 0]
  OBVIOUS
<1>6. ToldWell(after, t) /\ ~Wastes(bs, after)
  BY <1>1, <1>5, ToldStays
<1>7. LimiterWell(after, noted, t)
  BY <1>2, <1>4, <1>6 DEF LimiterWell
<1> QED
  BY <1>3, <1>5, <1>6, <1>7

\* Where the clock stands, what was well is so for the next state.
LEMMA WellThen ==
  ASSUME NEW bs, NEW hits, NEW to, LimiterWell(bs, hits, to), UNCHANGED now
  PROVE  LimiterWell(bs, hits, to)'
BY DEF LimiterWell, ToldWell, HitsWell, MapWell, Live, Keys

LEMMA SubmitKeeps ==
  ASSUME LimiterInv, NEW ip \in Ip, NEW email \in Email, Submit(ip, email)
  PROVE  LimiterInv'
<1>1. PICK bs, hits, to : bs = buckets /\ hits = admitted /\ to = told
  OBVIOUS
<1>2. now \in Nat /\ LimiterWell(bs, hits, to) /\ ~wasteful /\ now' = now
  BY <1>1, LimiterInvIs DEF Submit
<1>3. ip \in Key /\ email \in Key
  BY DEF Key
<1>4. MapWell(bs) /\ ToldWell(bs, to)
  BY <1>2 DEF LimiterWell
<1>5. ASSUME NEW b, NEW h, NEW t, LimiterWell(b, h, t), buckets' = b, admitted' = h, told' = t, ~wasteful'
      PROVE  LimiterInv'
  <2>1. LimiterWell(b, h, t)'
    BY <1>2, <1>5, WellThen
  <2>2. MapWell(b)' /\ ToldWell(b, t)' /\ \A k \in Key : HitsWell(b, k, h[k])'
    BY <2>1 DEF LimiterWell
  <2>3. MapWell(buckets)'
    BY <1>5, <2>2 DEF MapWell, Keys
  <2>4. /\ told' \in [Key -> Nat]
        /\ (\A k \in Key : told[k] # 0 /\ Live(buckets, k) => buckets.of[k].resetAt <= told[k])'
    BY <1>5, <2>2 DEF ToldWell, Live, Keys
  <2>5. ASSUME NEW k \in Key PROVE HitsWell(buckets, k, admitted[k])'
    <3>1. HitsWell(b, k, h[k])' /\ admitted'[k] = h[k]
      BY <1>5, <2>2
    <3> QED
      BY <1>5, <3>1 DEF HitsWell, Live, Keys
  <2>6. admitted' \in [Key -> SUBSET (Nat \X Nat)]
    BY <1>5 DEF LimiterWell
  <2> QED
    BY <1>2, <1>5, <2>3, <2>4, <2>5, <2>6 DEF LimiterInv
<1>6. CASE TurnClientAway(ip)
  <2>1. PICK t : t = [to EXCEPT ![ip] = RetryAt(bs, ip)]
    OBVIOUS
  <2>2. Blocked(bs, ip) /\ told' = t /\ buckets' = bs /\ admitted' = hits /\ ~wasteful'
    BY <1>1, <1>2, <1>6, <2>1 DEF TurnClientAway
  <2>3. ToldWell(bs, t)
    BY <1>2, <1>3, <1>4, <2>1, <2>2, ToldAnew
  <2>4. LimiterWell(bs, hits, t)
    BY <1>2, <2>3 DEF LimiterWell
  <2> QED
    BY <1>5, <2>2, <2>4
<1>7. CASE TurnEmailAway(ip, email) \/ Admit(ip, email)
  <2>1. ~Blocked(bs, ip)
    BY <1>1, <1>7 DEF TurnEmailAway, Admit
  <2>2. PICK one : one = Hit(bs, ip)
    OBVIOUS
  <2>3. PICK h1, t1 : h1 = Notes(hits, bs, one, ip) /\ t1 = [to EXCEPT ![ip] = 0]
    OBVIOUS
  <2>4. LimiterWell(one, h1, t1) /\ ~Wastes(bs, one)
    BY <1>2, <1>3, <2>1, <2>2, <2>3, HitKeepsWell
  <2>5. MapWell(one) /\ ToldWell(one, t1)
    BY <2>4 DEF LimiterWell
  <2>6. CASE TurnEmailAway(ip, email)
    <3>1. PICK t : t = [t1 EXCEPT ![email] = RetryAt(one, email)]
      OBVIOUS
    <3>2. /\ Blocked(one, email) /\ buckets' = one /\ admitted' = h1 /\ told' = t
          /\ wasteful' = (wasteful \/ Wastes(bs, one))
      BY <1>1, <2>2, <2>3, <2>6, <3>1 DEF TurnEmailAway
    <3>3. ToldWell(one, t)
      BY <1>2, <1>3, <2>5, <3>1, <3>2, ToldAnew
    <3>4. LimiterWell(one, h1, t) /\ ~wasteful'
      BY <1>2, <2>4, <3>2, <3>3 DEF LimiterWell
    <3> QED
      BY <1>5, <3>2, <3>4
  <2>7. CASE Admit(ip, email)
    <3>1. PICK two : two = Hit(one, email)
      OBVIOUS
    <3>2. PICK h2, t2 : h2 = Notes(h1, one, two, email) /\ t2 = [t1 EXCEPT ![email] = 0]
      OBVIOUS
    <3>3. /\ ~Blocked(one, email) /\ buckets' = two /\ admitted' = h2 /\ told' = t2
          /\ wasteful' = (wasteful \/ Wastes(bs, one) \/ Wastes(one, two))
      BY <1>1, <2>2, <2>3, <2>7, <3>1, <3>2 DEF Admit
    <3>4. LimiterWell(two, h2, t2) /\ ~Wastes(one, two)
      BY <1>2, <1>3, <2>4, <3>1, <3>2, <3>3, HitKeepsWell
    <3>5. ~wasteful'
      BY <1>2, <2>4, <3>3, <3>4
    <3> QED
      BY <1>5, <3>3, <3>4, <3>5
  <2> QED
    BY <1>7, <2>6, <2>7
<1> QED
  BY <1>6, <1>7 DEF Submit

\* When its time is over a window has lost its first hit, and the hits before it.
LEMMA TickKeeps ==
  ASSUME LimiterInv, Tick
  PROVE  LimiterInv'
<1>1. PICK bs, t : bs = buckets /\ t = now + 1
  OBVIOUS
<1>2. /\ now \in Nat /\ t \in Nat /\ now' = t /\ UNCHANGED <<buckets, wasteful, told>>
      /\ WindowLength \in Nat /\ Limit \in Nat
  BY <1>1, WebProcessAssumption DEF Tick, LimiterInv
<1>3. /\ admitted \in [Key -> SUBSET (Nat \X Nat)]
      /\ admitted' = [k \in Key |-> {h \in admitted[k] : h[1] + WindowLength > t}]
  BY <1>2 DEF LimiterInv, Tick
<1>4. ASSUME NEW k \in Key PROVE HitsWell(buckets, k, admitted[k])'
  <2>1. PICK H, G : H = admitted[k] /\ G = {h \in H : h[1] + WindowLength > t}
    OBVIOUS
  <2>2. HitsWell(bs, k, H) /\ admitted'[k] = G
    BY <1>1, <1>3, <2>1 DEF LimiterInv
  <2>3. /\ IsFiniteSet(H) /\ H \subseteq Nat \X Nat
        /\ \A h \in H : h[1] \in Nat /\ h[1] <= now /\ now < h[1] + WindowLength
    BY <2>2 DEF HitsWell
  <2>4. G \in SUBSET H /\ IsFiniteSet(G) /\ Cardinality(G) <= Cardinality(H)
    <3>1. G \in SUBSET H
      BY <2>1
    <3> QED
      BY <2>3, <3>1, FS_Subset
  <2>5. Cardinality(G) \in Nat /\ Cardinality(H) \in Nat
    BY <2>3, <2>4, FS_CardinalityType
  <2>6. /\ G \subseteq Nat \X Nat /\ \A h \in G : h[1] < t /\ t < h[1] + WindowLength
    BY <1>1, <1>2, <2>1, <2>3, <2>4
  <2>7. MapWell(bs)
    BY <1>1 DEF LimiterInv
  <2>8. CASE ~Live(bs, k)
    <3>1. ~(k \in Keys(bs) /\ bs.of[k].resetAt > t)
      <4>1. k \in Keys(bs) => bs.of[k].resetAt \in Nat
        BY <2>7, BucketIs DEF MapWell
      <4> QED
        BY <1>1, <1>2, <2>8, <4>1 DEF Live
    <3>2. ~Live(buckets, k)'
      BY <1>1, <1>2, <3>1 DEF Live, Keys
    <3>3. Cardinality(G) < Limit
      BY <1>2, <2>2, <2>4, <2>5, <2>8 DEF HitsWell
    <3>4. \A h \in G : h[1] <= t
      BY <1>2, <2>3, <2>4, <2>6
    <3> QED
      BY <1>2, <2>2, <2>4, <2>6, <3>2, <3>3, <3>4 DEF HitsWell
  <2>9. CASE Live(bs, k)
    <3>1. PICK r, c : r = bs.of[k].resetAt /\ c = bs.of[k].count
      OBVIOUS
    <3>2. PICK A, B : A = {h \in H : h[1] + WindowLength >= r} /\ B = {h \in H : h[1] + WindowLength < r}
      OBVIOUS
    <3>3. r \in Nat /\ c \in 1 .. Limit /\ r > now /\ k \in Keys(bs)
      <4>1. bs.of[k] \in Bucket /\ r > now /\ k \in Keys(bs)
        BY <2>7, <2>9, <3>1 DEF MapWell, Live
      <4> QED
        BY <3>1, <4>1, BucketIs
    <3>4. /\ r <= now + WindowLength /\ \E h \in H : h[1] + WindowLength = r
          /\ Cardinality(A) <= c /\ Cardinality(B) < Limit
      BY <2>2, <2>9, <3>1, <3>2 DEF HitsWell
    <3>5. A \in SUBSET H /\ B \in SUBSET H
      BY <3>2
    <3>6. IsFiniteSet(A) /\ IsFiniteSet(B) /\ Cardinality(A) \in Nat /\ Cardinality(B) \in Nat
      BY <2>3, <3>5, FS_Subset, FS_CardinalityType
    <3>7. CASE r > t
      <4>1. PICK C, D : C = {h \in G : h[1] + WindowLength >= r} /\ D = {h \in G : h[1] + WindowLength < r}
        OBVIOUS
      <4>2. C \in SUBSET A /\ D \in SUBSET B
        BY <2>4, <3>2, <4>1
      <4>3. Cardinality(C) <= Cardinality(A) /\ Cardinality(D) <= Cardinality(B)
        BY <3>6, <4>2, FS_Subset
      <4>4. IsFiniteSet(C) /\ IsFiniteSet(D)
        BY <3>6, <4>2, FS_Subset
      <4>5. Cardinality(C) \in Nat /\ Cardinality(D) \in Nat
        BY <4>4, FS_CardinalityType
      <4>6. Cardinality(C) <= c /\ Cardinality(D) < Limit
        BY <1>2, <3>3, <3>4, <3>6, <4>3, <4>5
      <4>7. \E h \in G : h[1] + WindowLength = r
        BY <2>1, <3>4, <3>7
      <4>8. r <= t + WindowLength
        BY <1>1, <1>2, <3>3, <3>4
      <4>9. \A h \in G : h[1] <= t /\ t < h[1] + WindowLength
        BY <1>2, <2>3, <2>4, <2>6
      <4>10. Live(buckets, k)' /\ buckets'.of[k].resetAt = r /\ buckets'.of[k].count = c
        BY <1>1, <1>2, <3>1, <3>3, <3>7 DEF Live, Keys
      <4>11. /\ Cardinality({h \in G : h[1] + WindowLength >= r}) <= c
             /\ Cardinality({h \in G : h[1] + WindowLength < r}) < Limit
        BY <4>1, <4>6
      <4> QED
        BY <1>2, <2>2, <2>4, <2>6, <4>7, <4>8, <4>9, <4>10, <4>11 DEF HitsWell
    <3>8. CASE ~(r > t)
      <4>1. r = t
        BY <1>1, <1>2, <3>3, <3>8
      <4>2. PICK first \in H : first[1] + WindowLength = r
        BY <3>4
      <4>3. first \in A /\ first \notin G
        BY <2>1, <3>2, <3>3, <4>1, <4>2
      <4>4. G \in SUBSET A
        <5>1. ASSUME NEW h \in G PROVE h \in A
          <6>1. h \in H /\ h[1] + WindowLength > t /\ h[1] \in Nat
            BY <2>1, <2>3, <5>1
          <6> QED
            BY <1>2, <3>2, <3>3, <4>1, <6>1
        <5> QED
          BY <5>1
      <4>5. Cardinality(G) <= Cardinality(A) /\ Cardinality(G) # Cardinality(A)
        BY <3>6, <4>3, <4>4, FS_Subset
      <4>6. Cardinality(G) < Limit
        BY <1>2, <2>5, <3>3, <3>4, <3>6, <4>5
      <4>7. ~Live(buckets, k)'
        BY <1>1, <1>2, <3>1, <3>8 DEF Live, Keys
      <4>8. \A h \in G : h[1] <= t
        BY <1>2, <2>3, <2>4, <2>6
      <4> QED
        BY <1>2, <2>2, <2>4, <2>6, <4>6, <4>7, <4>8 DEF HitsWell
    <3> QED
      BY <3>7, <3>8
  <2> QED
    BY <2>8, <2>9
<1>5. MapWell(buckets)'
  BY <1>2 DEF LimiterInv, MapWell, Keys
<1>6. admitted' \in [Key -> SUBSET (Nat \X Nat)]
  BY <1>3
<1>7. ASSUME NEW k \in Key, told'[k] # 0, Live(buckets, k)' PROVE buckets'.of[k].resetAt <= told'[k]
  <2>1. Live(buckets, k)
    <3>1. k \in Keys(buckets) /\ buckets.of[k].resetAt > t
      BY <1>2, <1>7 DEF Live, Keys
    <3>2. buckets.of[k] \in Bucket
      BY <3>1 DEF LimiterInv, MapWell
    <3>3. buckets.of[k].resetAt \in Nat
      BY <3>2, BucketIs
    <3> QED
      BY <1>1, <1>2, <3>1, <3>3 DEF Live
  <2> QED
    BY <1>2, <1>7, <2>1 DEF LimiterInv
<1> QED
  BY <1>2, <1>4, <1>5, <1>6, <1>7 DEF LimiterInv

LEMMA LimiterInitially ==
  Init => LimiterInv
<1> SUFFICES ASSUME Init PROVE LimiterInv
  OBVIOUS
<1>1. now = 0 /\ Keys(buckets) = {} /\ buckets.of \in [Keys(buckets) -> Bucket]
  BY DEF Init, Keys
<1>2. IsFiniteSet({}) /\ Cardinality({}) = 0 /\ Limit >= 1 /\ Limit \in Nat /\ MaxKeys \in Nat
  BY FS_EmptySet, WebProcessAssumption
<1>3. MapWell(buckets)
  BY <1>1, <1>2 DEF MapWell
<1>4. ASSUME NEW k \in Key PROVE HitsWell(buckets, k, admitted[k])
  <2>1. admitted[k] = {} /\ ~Live(buckets, k)
    BY <1>1 DEF Init, Live
  <2> QED
    BY <1>2, <2>1 DEF HitsWell
<1>5. admitted \in [Key -> SUBSET (Nat \X Nat)] /\ told \in [Key -> Nat] /\ ~wasteful /\ \A k \in Key : told[k] = 0
  BY DEF Init
<1> QED
  BY <1>1, <1>3, <1>4, <1>5 DEF LimiterInv

LEMMA LimiterStepsKeep ==
  ASSUME LimiterInv, [Next]_vars
  PROVE  LimiterInv'
<1>1. ASSUME NEW ip \in Ip, NEW email \in Email, Submit(ip, email) PROVE LimiterInv'
  BY <1>1, SubmitKeeps
<1>2. CASE Tick
  BY <1>2, TickKeeps
<1>3. CASE UNCHANGED limiter
  <2>1. UNCHANGED <<now, buckets, admitted, wasteful, told>>
    BY <1>3 DEF limiter
  <2>2. MapWell(buckets)'
    BY <2>1 DEF LimiterInv, MapWell, Keys
  <2>3. ASSUME NEW k \in Key PROVE HitsWell(buckets, k, admitted[k])'
    <3>1. HitsWell(buckets, k, admitted[k])
      BY DEF LimiterInv
    <3> QED
      BY <2>1, <3>1 DEF HitsWell, Live, Keys
  <2>4. \A k \in Key : (told[k] # 0 /\ Live(buckets, k) => buckets.of[k].resetAt <= told[k])'
    BY <2>1 DEF LimiterInv, Live, Keys
  <2> QED
    BY <2>1, <2>2, <2>3, <2>4 DEF LimiterInv
<1>4. ASSUME NEW c \in Call, Ask(c) \/ Adopt(c) \/ Get(c) \/ Throw(c) PROVE LimiterInv'
  BY <1>3, <1>4 DEF Ask, Adopt, Get, Throw
<1>5. ASSUME NEW p \in Promise, Settle(p) PROVE LimiterInv'
  BY <1>3, <1>5 DEF Settle
<1>6. ASSUME NEW v \in Explicit \cup {None}, Set(v) PROVE LimiterInv'
  BY <1>3, <1>6 DEF Set
<1>7. CASE UNCHANGED vars
  BY <1>3, <1>7 DEF vars
<1> QED
  BY <1>1, <1>2, <1>4, <1>5, <1>6, <1>7 DEF Next

LEMMA TheLimiterIsSound ==
  LimiterInv => LimiterIsSound
<1> SUFFICES ASSUME LimiterInv PROVE LimiterIsSound
  OBVIOUS
<1>1. MapWell(buckets) /\ ~wasteful /\ Limit \in Nat /\ Limit >= 1 /\ now \in Nat
  BY WebProcessAssumption DEF LimiterInv
<1>2. ASSUME NEW k \in Key PROVE Cardinality(admitted[k]) < 2 * Limit
  <2>1. PICK H : H = admitted[k]
    OBVIOUS
  <2>2. HitsWell(buckets, k, H) /\ IsFiniteSet(H) /\ Cardinality(H) \in Nat
    BY <2>1, FS_CardinalityType DEF LimiterInv, HitsWell
  <2>3. CASE ~Live(buckets, k)
    BY <1>1, <2>1, <2>2, <2>3 DEF HitsWell
  <2>4. CASE Live(buckets, k)
    <3>1. PICK r, c : r = buckets.of[k].resetAt /\ c = buckets.of[k].count
      OBVIOUS
    <3>2. r \in Nat /\ c \in 1 .. Limit
      <4>1. buckets.of[k] \in Bucket
        BY <1>1, <2>4 DEF MapWell, Live
      <4> QED
        BY <3>1, <4>1, BucketIs
    <3>3. PICK A, B : A = {h \in H : h[1] + WindowLength >= r} /\ B = {h \in H : h[1] + WindowLength < r}
      OBVIOUS
    <3>4. Cardinality(A) <= c /\ Cardinality(B) < Limit
      BY <2>2, <2>4, <3>1, <3>3 DEF HitsWell
    <3>5. A \in SUBSET H /\ B \in SUBSET H
      BY <3>3
    <3>6. IsFiniteSet(A) /\ IsFiniteSet(B)
      BY <2>2, <3>5, FS_Subset
    <3>7. Cardinality(A) \in Nat /\ Cardinality(B) \in Nat /\ Cardinality(A \cap B) \in Nat
          /\ Cardinality(A \cup B) = Cardinality(A) + Cardinality(B) - Cardinality(A \cap B)
      <4>1. IsFiniteSet(A \cap B)
        BY <3>6, FS_Intersection
      <4> QED
        BY <3>6, <4>1, FS_CardinalityType, FS_Union
    <3>8. H = A \cup B
      <4>1. \A h \in H : h[1] + WindowLength \in Nat
        BY <2>2, WebProcessAssumption DEF HitsWell
      <4> QED
        BY <3>2, <3>3, <4>1
    <3> QED
      BY <1>1, <2>1, <3>2, <3>4, <3>7, <3>8
  <2> QED
    BY <2>3, <2>4
<1>3. Cardinality(Keys(buckets)) <= MaxKeys
  BY <1>1 DEF MapWell
<1>4. ASSUME NEW k \in Key, Blocked(buckets, k), told[k] # 0 PROVE now < told[k]
  <2>1. Live(buckets, k) /\ buckets.of[k].resetAt > now
    BY <1>4 DEF Blocked, Live
  <2>2. buckets.of[k].resetAt <= told[k] /\ told[k] \in Nat
    BY <1>4, <2>1 DEF LimiterInv
  <2>3. buckets.of[k].resetAt \in Nat
    <3>1. buckets.of[k] \in Bucket
      BY <1>1, <2>1 DEF MapWell, Live
    <3> QED
      BY <3>1, BucketIs
  <2> QED
    BY <1>1, <2>1, <2>2, <2>3
<1> QED
  BY <1>1, <1>2, <1>3, <1>4 DEF LimiterIsSound
-----------------------------------------------------------------------------
(* The memos of a process                                                  *)

\* What is remembered was begun since the provider was last set, and who waits
\* waits for a promise.
MemoInv ==
  /\ memo # None => memo \in since
  /\ memo \in Promise \cup {None} /\ provider \in Explicit \cup {Env, None}
  /\ call \in [Call -> CallState]
  /\ \A c \in Call : call[c].pc = "await" => call[c].on \in Promise

\* One request goes on, to be idle no more.
LEMMA OneRequestGoesOn ==
  ASSUME MemoInv, NEW c \in Call, NEW v \in CallState, v.pc = "await" => v.on \in Promise,
         call' = [call EXCEPT ![c] = v]
  PROVE  /\ call' \in [Call -> CallState]
         /\ \A d \in Call : call'[d].pc = "await" => call'[d].on \in Promise
BY DEF MemoInv

\* What a request is after it was answered.
LEMMA ReturnIs ==
  ASSUME NEW c \in Call, NEW value \in Explicit \cup {Env, None}, Return(c, value)
  PROVE  \E v \in CallState :
           /\ call' = [call EXCEPT ![c] = v] /\ v.pc \in {"returned", "threw"} /\ v.got = value
           /\ value # None => v.pc = "returned"
<1>1. PICK v : v = [Idle EXCEPT !.pc = IF value = None THEN "threw" ELSE "returned",
                                 !.got = value]
  OBVIOUS
<1>2. /\ v \in CallState /\ v.pc \in {"returned", "threw"} /\ v.got = value
      /\ value # None => v.pc = "returned"
  BY <1>1 DEF Idle, CallState
<1>3. call' = [call EXCEPT ![c] = v]
  BY <1>1 DEF Return
<1> QED
  BY <1>2, <1>3

\* Likewise who begins to wait.
LEMMA WaitIs ==
  ASSUME NEW p \in Promise
  PROVE  LET v == [Idle EXCEPT !.pc = "await", !.on = p] IN
         v \in CallState /\ v.pc = "await" /\ v.on = p
BY DEF Idle, CallState

LEMMA MemoStepsKeep ==
  ASSUME MemoInv, [Next]_vars
  PROVE  MemoInv'
<1>1. CASE UNCHANGED <<memo, since, provider, call>>
  BY <1>1 DEF MemoInv
<1>2. ASSUME NEW c \in Call, Ask(c) PROVE MemoInv'
  <2>1. CASE use = "billing" /\ provider # None
    <3>1. PICK v : v = [Idle EXCEPT !.pc = "returned", !.got = provider]
      OBVIOUS
    <3>2. v \in CallState /\ v.pc = "returned"
      BY <3>1 DEF MemoInv, Idle, CallState
    <3>3. call' = [call EXCEPT ![c] = v] /\ UNCHANGED <<memo, since, provider>>
      BY <1>2, <2>1, <3>1 DEF Ask
    <3> QED
      BY <3>2, <3>3, OneRequestGoesOn DEF MemoInv
  <2>2. CASE Awaits(c) /\ UNCHANGED provider
    <3>1. PICK p \in Promise :
            /\ call' = [call EXCEPT ![c] = [Idle EXCEPT !.pc = "await", !.on = p]]
            /\ memo' = p /\ p \in since'
      BY <2>2 DEF Awaits, CanPromise, NewPromise, MemoInv
    <3>2. PICK v : v = [Idle EXCEPT !.pc = "await", !.on = p]
      OBVIOUS
    <3>3. v \in CallState /\ v.on \in Promise /\ call' = [call EXCEPT ![c] = v]
      BY <3>1, <3>2, WaitIs
    <3>4. /\ call' \in [Call -> CallState]
          /\ \A d \in Call : call'[d].pc = "await" => call'[d].on \in Promise
      BY <3>3, OneRequestGoesOn
    <3> QED
      BY <2>2, <3>1, <3>4 DEF MemoInv
  <2> QED
    BY <1>2, <2>1, <2>2 DEF Ask
<1>3. ASSUME NEW c \in Call, Adopt(c) \/ Get(c) \/ Throw(c) PROVE MemoInv'
  <2>1. PICK value \in Explicit \cup {Env, None} :
          Return(c, value) /\ provider' \in {provider, value} /\ UNCHANGED <<memo, since>>
    BY <1>3 DEF Adopt, Get, Throw, MemoInv
  <2>2. PICK v \in CallState : call' = [call EXCEPT ![c] = v] /\ v.pc \in {"returned", "threw"}
    BY <2>1, ReturnIs
  <2>3. /\ call' \in [Call -> CallState]
        /\ \A d \in Call : call'[d].pc = "await" => call'[d].on \in Promise
    BY <2>2, OneRequestGoesOn
  <2> QED
    BY <2>1, <2>3 DEF MemoInv
<1>4. ASSUME NEW p \in Promise, Settle(p) PROVE MemoInv'
  BY <1>4 DEF Settle, MemoInv
<1>5. ASSUME NEW v \in Explicit \cup {None}, Set(v) PROVE MemoInv'
  BY <1>5 DEF Set, MemoInv
<1>6. ASSUME NEW ip \in Ip, NEW email \in Email, Submit(ip, email) PROVE MemoInv'
  BY <1>1, <1>6 DEF Submit, memos
<1>7. CASE Tick
  BY <1>1, <1>7 DEF Tick, memos
<1>8. CASE UNCHANGED vars
  BY <1>1, <1>8 DEF vars, memos
<1> QED
  BY <1>2, <1>3, <1>4, <1>5, <1>6, <1>7, <1>8 DEF Next

\* The provider changes when it is set; or a request adopts the environment's,
\* of the remembered promise.
LEMMA NothingStale ==
  ASSUME MemoInv, [Next]_vars, provider' # provider
  PROVE  AdoptsCurrent \/ \E value \in Explicit \cup {None} : Set(value)
<1>1. ASSUME NEW c \in Call, Ask(c) \/ Get(c) \/ Throw(c) PROVE UNCHANGED provider
  BY <1>1 DEF Ask, Get, Throw
<1>2. ASSUME NEW c \in Call, Adopt(c) PROVE AdoptsCurrent
  <2>1. /\ provider = None /\ memo = call[c].on /\ Return(c, provider')
        /\ provider' = Env /\ promise[call[c].on] = "created"
        /\ call[c].pc = "await" /\ since' = since
    BY <1>2 DEF Adopt
  <2>2. provider' # None
    BY <2>1
  <2>3. call[c].on \in Promise /\ call[c].on # None
    BY <2>1, WebProcessAssumption DEF MemoInv
  <2>4. PICK v \in CallState :
          call' = [call EXCEPT ![c] = v] /\ v.got = Env /\ v.pc = "returned"
    BY <2>1, <2>2, ReturnIs
  <2>5. call'[c] = v
    BY <2>4 DEF MemoInv
  <2> QED
    BY <2>1, <2>3, <2>4, <2>5 DEF AdoptsCurrent, MemoInv
<1>3. ASSUME NEW p \in Promise, Settle(p) PROVE UNCHANGED provider
  BY <1>3 DEF Settle
<1>4. ASSUME NEW ip \in Ip, NEW email \in Email, Submit(ip, email) PROVE UNCHANGED provider
  BY <1>4 DEF Submit, memos
<1>5. CASE Tick
  BY <1>5 DEF Tick, memos
<1>6. CASE UNCHANGED vars
  BY <1>6 DEF vars, memos
<1> QED
  BY <1>1, <1>2, <1>3, <1>4, <1>5, <1>6 DEF Next
-----------------------------------------------------------------------------
(* The page                                                                *)

\* A request q in the place f: what is known of one under way.  Of the panel's
\* own only the active one is not aborted, and a creation has the id that is
\* kept; an operation of the agent is settled, and there once it was served;
\* and it lives as long as the page it was sent from.
SoundFetch(f, q) ==
  /\ q \in FetchState
  /\ q.pc = "idle" => q = NoFetch
  /\ q.pc # "idle" => q.kind # None /\ q.asked # None
  /\ q.kind \in Panel \cup {"switch"} => q.pc \in {"sent", "served", "failed"}
  /\ q.kind \in {"create", "submit"} => q.id \in ids
  /\ q.kind = "switch" => q.to # None
  /\ q.kind \in Panel => (f = panel.active <=> ~q.aborted)
  /\ q.kind = "create" /\ ~q.aborted => q.id = panel.creating
  /\ q.kind = "submit" => q.id \in settled
  /\ q.kind = "submit" /\ ~q.aborted => page.mounted /\ q.life = page.life
  /\ q.pc \in {"shown", "acknowledged"} \/ (q.pc = "served" /\ q.kind = "submit") =>
       \E t \in Tenant : [id |-> q.id, tenant |-> t] \in server.operations

\* The panel waits for a request that is there, and the only id that is not
\* settled is the one it keeps.
SoundPanel ==
  /\ panel.busy <=> panel.active # None
  /\ panel.active # None => fetch[panel.active].kind \in Panel
  /\ ~page.mounted => panel = NewPanel
  /\ \A o \in panel.list : o.asked = page.tenant
  /\ panel.creating # None => panel.creating \in ids
  /\ settled \subseteq ids
  /\ \A i \in ids \ settled : i = panel.creating
  /\ \A o \in server.operations : o.id \in ids
  /\ page.life <= upsets /\ (~page.mounted => page.life < upsets)

PageInv == PageTypeOK /\ (\A f \in Fetch : SoundFetch(f, fetch[f])) /\ SoundPanel

\* What is only ever added to
Grows == ids \subseteq ids' /\ settled \subseteq settled' /\ server.operations \subseteq server'.operations

LEMMA PageTypes ==
  ASSUME PageTypeOK
  PROVE  /\ page.tenant \in Tenant /\ page.mounted \in BOOLEAN /\ page.life \in 0 .. Upsets
         /\ server.tenant \in Tenant /\ server.operations \subseteq Operation
         /\ panel.active \in Fetch \cup {None} /\ panel.busy \in BOOLEAN
         /\ panel.creating \in RequestId \cup {None}
         /\ panel.list \subseteq [id : RequestId, asked : Tenant]
         /\ upsets \in Nat /\ page.life \in Nat
BY BrowserPageAssumption DEF PageTypeOK

LEMMA KindsDiffer ==
  /\ None \notin {"refresh", "create", "submit", "switch"} /\ None \notin Fetch
  /\ None \notin RequestId /\ None \notin Tenant
BY BrowserPageAssumption DEF Panel, Tool

\* What a request in a place is, by its fields
LEMMA FetchFields ==
  ASSUME PageInv, NEW f \in Fetch
  PROVE  /\ fetch[f] \in FetchState /\ SoundFetch(f, fetch[f])
         /\ fetch[f].aborted \in BOOLEAN /\ fetch[f].kind \in Panel \cup Tool \cup {None}
         /\ fetch[f].pc = "idle" => fetch[f] = NoFetch /\ fetch[f].kind = None
         /\ fetch[f].pc # "idle" => fetch[f].kind \in Panel \cup Tool /\ fetch[f].asked \in Tenant
         /\ fetch[f].kind = None => fetch[f].pc = "idle"
<1> DEFINE q == fetch[f]
<1>1. q \in FetchState /\ SoundFetch(f, q)
  BY DEF PageInv, PageTypeOK
<1> HIDE DEF q
<1>2. /\ q.aborted \in BOOLEAN /\ q.kind \in Panel \cup Tool \cup {None}
      /\ q.asked \in Tenant \cup {None}
  BY <1>1 DEF FetchState
<1>3. q.pc = "idle" => q = NoFetch
  BY <1>1 DEF SoundFetch
<1>4. NoFetch.kind = None
  BY DEF NoFetch
<1>5. q.pc # "idle" => q.kind # None /\ q.asked # None
  BY <1>1 DEF SoundFetch
<1>6. q.pc # "idle" => q.kind \in Panel \cup Tool /\ q.asked \in Tenant
  BY <1>2, <1>5
<1>7. q.pc = "idle" => q.kind = None
  BY <1>3, <1>4
<1> QED
  BY <1>1, <1>2, <1>3, <1>5, <1>6, <1>7 DEF q

LEMMA NoFetchIsSound ==
  ASSUME NEW f
  PROVE  SoundFetch(f, NoFetch) /\ SoundFetch(f, NoFetch)'
<1>1. NoFetch \in FetchState
  BY BrowserPageAssumption DEF NoFetch, FetchState
<1> QED
  BY <1>1, KindsDiffer DEF SoundFetch, NoFetch, Panel


\* A request that stays as it is stays sound.
LEMMA StaysSound ==
  ASSUME PageInv, NEW f \in Fetch, Grows, NEW q, q = fetch[f],
         q.kind \in Panel => (f = panel.active <=> f = panel'.active),
         q.kind = "create" /\ ~q.aborted => panel'.creating = panel.creating,
         q.kind = "submit" /\ ~q.aborted => page'.mounted = page.mounted /\ page'.life = page.life
  PROVE  SoundFetch(f, q)'
<1>1. SoundFetch(f, q)
  BY DEF PageInv
<1>2. (q \in FetchState)'
  BY <1>1 DEF SoundFetch
<1>3. (q.kind \in {"create", "submit"} => q.id \in ids)' /\ (q.kind = "submit" => q.id \in settled)'
  BY <1>1 DEF SoundFetch, Grows
<1>4. (q.pc \in {"shown", "acknowledged"} \/ (q.pc = "served" /\ q.kind = "submit") =>
         \E t \in Tenant : [id |-> q.id, tenant |-> t] \in server.operations)'
  BY <1>1 DEF SoundFetch, Grows
<1>5. q.kind = "create" => q.kind \in Panel
  BY DEF Panel
<1> QED
  BY <1>1, <1>2, <1>3, <1>4, <1>5 DEF SoundFetch

\* One that is aborted: it is gone, or marked.
LEMMA AbortedIsSound ==
  ASSUME PageInv, NEW f \in Fetch, Grows, NEW q, q = Aborted(f), fetch[f].pc # "idle",
         fetch[f].kind \in Panel => f # panel'.active
  PROVE  SoundFetch(f, q)'
<1>1. CASE q = NoFetch
  BY <1>1, NoFetchIsSound
<1>2. CASE q = [fetch[f] EXCEPT !.aborted = TRUE]
  <2> DEFINE o == fetch[f]
  <2>1. SoundFetch(f, o) /\ o \in FetchState
    BY FetchFields
  <2>2. /\ q \in FetchState /\ q.pc = o.pc /\ q.kind = o.kind /\ q.asked = o.asked
        /\ q.id = o.id /\ q.to = o.to /\ q.life = o.life /\ q.aborted = TRUE
    BY <1>2, <2>1 DEF FetchState
  <2> HIDE DEF o
  <2>3. o.pc # "idle"
    BY DEF o
  <2>4. (q.kind \in {"create", "submit"} => q.id \in ids)' /\ (q.kind = "submit" => q.id \in settled)'
    BY <2>1, <2>2 DEF SoundFetch, Grows
  <2>5. (q.pc \in {"shown", "acknowledged"} \/ (q.pc = "served" /\ q.kind = "submit") =>
           \E t \in Tenant : [id |-> q.id, tenant |-> t] \in server.operations)'
    BY <2>1, <2>2 DEF SoundFetch, Grows
  <2>6. (q.kind \in Panel => (f = panel.active <=> ~q.aborted))'
    BY <2>2 DEF o
  <2>7. (q \in FetchState)'
    BY <2>2
  <2> QED
    BY <2>1, <2>2, <2>3, <2>4, <2>5, <2>6, <2>7 DEF SoundFetch
<1> QED
  BY <1>1, <1>2 DEF Aborted

\* One that is sent
LEMMA SentIsSound ==
  ASSUME NEW f \in Fetch, NEW q \in FetchState, q.pc = "sent", q.kind \in Panel \cup Tool,
         q.asked \in Tenant, ~q.aborted, q.kind = "switch" => q.to # None,
         q.kind \in {"create", "submit"} => q.id \in ids',
         q.kind \in Panel => f = panel'.active,
         q.kind = "create" => q.id = panel'.creating,
         q.kind = "submit" => q.id \in settled' /\ page'.mounted /\ q.life = page'.life
  PROVE  SoundFetch(f, q)'
BY BrowserPageAssumption DEF SoundFetch

\* One request changes: the others rely on what is only added to, and on the
\* panel's and the page's not moving under them.
LEMMA OneFetch ==
  ASSUME PageInv, NEW f \in Fetch, NEW q \in FetchState, fetch' = [fetch EXCEPT ![f] = q]
  PROVE  /\ fetch' \in [Fetch -> FetchState] /\ fetch'[f] = q
         /\ \A g \in Fetch \ {f} : fetch'[g] = fetch[g]
BY DEF PageInv, PageTypeOK

LEMMA FreePlace ==
  ASSUME IdleFetches # {}
  PROVE  NewFetch \in Fetch /\ fetch[NewFetch].pc = "idle"
BY DEF IdleFetches, NewFetch

LEMMA FreshOne ==
  ASSUME FreshIds # {}
  PROVE  NewId \in RequestId \ ids
BY DEF FreshIds, NewId

LEMMA AbortedIs ==
  ASSUME PageInv, NEW f \in Fetch
  PROVE  Aborted(f) \in FetchState
<1> DEFINE o == fetch[f]
<1>1. o \in FetchState
  BY FetchFields
<1>2. [o EXCEPT !.aborted = TRUE] \in FetchState
  BY <1>1 DEF FetchState
<1>3. NoFetch \in FetchState
  BY NoFetchIsSound, BrowserPageAssumption DEF SoundFetch
<1> QED
  BY <1>2, <1>3 DEF Aborted

\* One request changes, and nothing that the others rely on
LEMMA OneChanges ==
  ASSUME PageInv, Grows, NEW f \in Fetch, NEW q \in FetchState,
         fetch' = [fetch EXCEPT ![f] = q], SoundFetch(f, q)',
         \A g \in Fetch \ {f} : fetch[g].kind \in Panel => (g = panel.active <=> g = panel'.active),
         \A g \in Fetch \ {f} : fetch[g].kind = "create" /\ ~fetch[g].aborted =>
                                  panel'.creating = panel.creating,
         \A g \in Fetch \ {f} : fetch[g].kind = "submit" /\ ~fetch[g].aborted =>
                                  page'.mounted = page.mounted /\ page'.life = page.life
  PROVE  fetch' \in [Fetch -> FetchState] /\ (\A g \in Fetch : SoundFetch(g, fetch[g]))'
<1>1. /\ fetch' \in [Fetch -> FetchState] /\ fetch'[f] = q
      /\ \A g \in Fetch \ {f} : fetch'[g] = fetch[g]
  BY OneFetch
<1>2. ASSUME NEW g \in Fetch
      PROVE  SoundFetch(g, fetch[g])'
  <2>1. CASE g = f
    BY <1>1, <2>1
  <2>2. CASE g # f
    <3> DEFINE r == fetch[g]
    <3>1. SoundFetch(g, r)'
      <4>1. r.kind \in Panel => (g = panel.active <=> g = panel'.active)
        BY <2>2
      <4>2. r.kind = "create" /\ ~r.aborted => panel'.creating = panel.creating
        BY <2>2
      <4>3. r.kind = "submit" /\ ~r.aborted => page'.mounted = page.mounted /\ page'.life = page.life
        BY <2>2
      <4>4. ASSUME NEW s, s = fetch[g] PROVE SoundFetch(g, s)'
        BY <4>1, <4>2, <4>3, <4>4, StaysSound
      <4> QED
        BY <4>4
    <3>2. fetch'[g] = r
      BY <1>1, <2>2
    <3> QED
      BY <3>1, <3>2
  <2> QED
    BY <2>1, <2>2
<1> QED
  BY <1>1, <1>2

\* The panel's own requests, but for the active one, are aborted.
LEMMA OthersAborted ==
  ASSUME PageInv, NEW g \in Fetch, fetch[g].kind \in Panel, g # panel.active
  PROVE  fetch[g].aborted
BY FetchFields DEF SoundFetch

\* What is under way is aborted, and a new request becomes the active one.
LEMMA NewActive ==
  ASSUME PageInv, Grows, IdleFetches # {}, NEW q \in FetchState, NEW n, n = NewFetch,
         fetch' = [AbortActive EXCEPT ![n] = q], SoundFetch(n, q)',
         panel'.active = n, page'.mounted = page.mounted, page'.life = page.life
  PROVE  fetch' \in [Fetch -> FetchState] /\ (\A g \in Fetch : SoundFetch(g, fetch[g]))'
<1> DEFINE a == panel.active
<1>0. n \in Fetch /\ fetch[n].pc = "idle" /\ fetch[n].kind = None
  BY FreePlace, FetchFields
<1>1. a # None => a \in Fetch /\ fetch[a].kind \in Panel /\ fetch[a].pc # "idle"
  <2>1. a # None => a \in Fetch /\ fetch[a].kind \in Panel
    BY PageTypes DEF PageInv, SoundPanel
  <2> QED
    BY <2>1, FetchFields, KindsDiffer DEF Panel
<1>2. fetch \in [Fetch -> FetchState]
  BY DEF PageInv, PageTypeOK
<1>3. /\ fetch' \in [Fetch -> FetchState] /\ fetch'[n] = q
      /\ \A g \in Fetch \ {n} : fetch'[g] = IF g = a THEN Aborted(g) ELSE fetch[g]
  <2>1. CASE a = None
    <3>1. fetch' = [fetch EXCEPT ![n] = q] /\ \A g \in Fetch : g # a
      BY <2>1, KindsDiffer DEF AbortActive
    <3> QED
      BY <1>0, <1>2, <3>1
  <2>2. CASE a # None
    <3>1. fetch' = [[fetch EXCEPT ![a] = Aborted(a)] EXCEPT ![n] = q]
      BY <2>2 DEF AbortActive
    <3>2. Aborted(a) \in FetchState
      BY <1>1, <2>2, AbortedIs
    <3> HIDE DEF a
    <3> QED
      BY <1>0, <1>1, <1>2, <2>2, <3>1, <3>2
  <2> QED
    BY <2>1, <2>2
<1>4. ASSUME NEW g \in Fetch
      PROVE  SoundFetch(g, fetch[g])'
  <2>1. CASE g = n
    BY <1>3, <2>1
  <2>2. CASE g # n /\ g = a
    <3>1. fetch[g].pc # "idle" /\ g # panel'.active
      BY <1>1, <2>2, KindsDiffer
    <3>2. ASSUME NEW s, s = Aborted(g) PROVE SoundFetch(g, s)'
      BY <3>1, <3>2, AbortedIsSound
    <3>3. fetch'[g] = Aborted(g)
      BY <1>3, <2>2
    <3> QED
      BY <3>2, <3>3
  <2>3. CASE g # n /\ g # a
    <3>1. fetch[g].kind \in Panel => (g = panel.active <=> g = panel'.active)
      BY <2>3
    <3>2. fetch[g].kind = "create" => fetch[g].aborted
      BY <2>3, OthersAborted DEF Panel
    <3>3. ASSUME NEW s, s = fetch[g] PROVE SoundFetch(g, s)'
      BY <3>1, <3>2, <3>3, StaysSound
    <3>4. fetch'[g] = fetch[g]
      BY <1>3, <2>3
    <3> QED
      BY <3>3, <3>4
  <2> QED
    BY <2>1, <2>2, <2>3
<1> QED
  BY <1>3, <1>4

-----------------------------------------------------------------------------
(* The panel                                                               *)

\* The panel's state, for the type of it
PanelTypes(p) ==
  /\ p \in [active : Fetch \cup {None}, busy : BOOLEAN, creating : RequestId \cup {None},
            list : SUBSET [id : RequestId, asked : Tenant]]

\* A command of the panel sends a request that is sound; nothing else of the
\* panel changes but the id it keeps.
LEMMA CommandSends ==
  ASSUME PageInv, NEW kind \in Panel, NEW id \in RequestId \cup {None}, Command(kind, id),
         kind = "create" => id # None, id # None => id \in ids',
         id # None => id = panel.creating \/ panel.creating = None,
         ids \subseteq ids', UNCHANGED <<page, server, settled>>
  PROVE  /\ fetch' \in [Fetch -> FetchState] /\ (\A g \in Fetch : SoundFetch(g, fetch[g]))'
         /\ PanelTypes(panel') /\ panel'.active \in Fetch /\ panel'.busy
         /\ panel'.list = panel.list /\ panel'.creating = (IF id = None THEN panel.creating ELSE id)
         /\ fetch'[panel'.active].kind \in Panel
<1>1. PanelTypes(panel) /\ IdleFetches # {}
  BY DEF PageInv, PageTypeOK, PanelTypes, Command
<1>12. PICK n : n = NewFetch
  OBVIOUS
<1>15. PICK t, l : t = page.tenant /\ l = page.life
  OBVIOUS
<1>3. PICK q : q = Sent(kind, id, None, t, l)
  OBVIOUS
<1>2. n \in Fetch
  BY <1>1, <1>12, FreePlace
<1>4. t \in Tenant /\ l \in 0 .. Upsets
  BY <1>15, PageTypes DEF PageInv
<1>5. fetch' = [AbortActive EXCEPT ![n] = q]
  BY <1>3, <1>12, <1>15 DEF Command
<1>6. panel' = [panel EXCEPT !.active = n, !.busy = TRUE,
                             !.creating = IF id = None THEN panel.creating ELSE id]
  BY <1>1, <1>12 DEF Command, PanelTypes
<1>7. /\ q \in FetchState /\ q.pc = "sent" /\ q.kind = kind /\ q.asked = t /\ q.id = id
      /\ q.to = None /\ q.life = l /\ ~q.aborted
  <2>1. kind \in Panel \cup Tool /\ None \in Tenant \cup {None}
    OBVIOUS
  <2> QED
    BY <1>3, <1>4, <2>1 DEF Sent, FetchState
<1>8. /\ PanelTypes(panel') /\ panel'.active = n /\ panel'.busy /\ panel'.list = panel.list
      /\ panel'.creating = (IF id = None THEN panel.creating ELSE id)
  BY <1>1, <1>2, <1>6 DEF PanelTypes
<1>9. kind # "switch" /\ kind # "submit" /\ (kind \in {"create", "submit"} => kind = "create")
  BY DEF Panel
<1>10. SoundFetch(n, q)'
  <2>1. q.kind \in {"create", "submit"} => q.id \in ids'
    BY <1>7, <1>9
  <2>2. q.kind = "create" => q.id = panel'.creating
    BY <1>7, <1>8
  <2>3. q.kind \in Panel \cup Tool /\ q.asked \in Tenant /\ q.kind # "switch" /\ q.kind # "submit"
    BY <1>4, <1>7, <1>9
  <2> QED
    BY <1>2, <1>7, <1>8, <2>1, <2>2, <2>3, SentIsSound
<1>11. Grows /\ page'.mounted = page.mounted /\ page'.life = page.life
  BY DEF Grows
<1>13. fetch' \in [Fetch -> FetchState] /\ (\A g \in Fetch : SoundFetch(g, fetch[g]))'
  BY <1>1, <1>5, <1>7, <1>8, <1>10, <1>11, <1>12, NewActive
<1>14. fetch'[n] = q
  <2>1. DOMAIN AbortActive = Fetch
    BY DEF AbortActive, PageInv, PageTypeOK
  <2> QED
    BY <1>2, <1>5, <1>13, <2>1
<1> QED
  BY <1>2, <1>7, <1>8, <1>13, <1>14

\* The panel asks for the list.
LEMMA RefreshKeeps ==
  ASSUME PageInv, Refresh
  PROVE  PageInv'
<1>1. "refresh" \in Panel /\ "refresh" # "create"
  BY DEF Panel
<1>2. Command("refresh", None) /\ UNCHANGED <<page, server, ids, settled, upsets>> /\ page.mounted
  BY DEF Refresh
<1>3. /\ fetch' \in [Fetch -> FetchState] /\ (\A g \in Fetch : SoundFetch(g, fetch[g]))'
      /\ PanelTypes(panel') /\ panel'.active \in Fetch /\ panel'.busy
      /\ panel'.list = panel.list /\ panel'.creating = panel.creating
      /\ fetch'[panel'.active].kind \in Panel
  BY <1>1, <1>2, CommandSends
<1>4. PageTypeOK'
  BY <1>2, <1>3 DEF PageInv, PageTypeOK, PanelTypes
<1>5. SoundPanel'
  BY <1>2, <1>3, KindsDiffer DEF PageInv, SoundPanel
<1> QED
  BY <1>3, <1>4, <1>5 DEF PageInv

\* It asks for an operation, with the id it keeps or a new one.
LEMMA CreateKeeps ==
  ASSUME PageInv, Create
  PROVE  PageInv'
<1>1. "create" \in Panel
  BY DEF Panel
<1>2. UNCHANGED <<page, server, settled, upsets>> /\ page.mounted
  BY DEF Create
<1>3. PICK id \in RequestId :
        /\ Command("create", id) /\ ids' = ids \cup {id}
        /\ (id = panel.creating /\ id \in ids) \/ panel.creating = None
  <2>1. CASE panel.creating # None /\ Command("create", panel.creating) /\ UNCHANGED ids
    <3>1. panel.creating \in RequestId /\ panel.creating \in ids
      BY <2>1, PageTypes DEF PageInv, SoundPanel
    <3> QED
      BY <2>1, <3>1
  <2>2. CASE /\ panel.creating = None /\ FreshIds # {}
             /\ Command("create", NewId) /\ ids' = ids \cup {NewId}
    BY <2>2, FreshOne
  <2> QED
    BY <2>1, <2>2 DEF Create
<1>4. id # None
  BY KindsDiffer
<1>5. /\ fetch' \in [Fetch -> FetchState] /\ (\A g \in Fetch : SoundFetch(g, fetch[g]))'
      /\ PanelTypes(panel') /\ panel'.active \in Fetch /\ panel'.busy
      /\ panel'.list = panel.list /\ panel'.creating = id
      /\ fetch'[panel'.active].kind \in Panel
  BY <1>1, <1>2, <1>3, <1>4, CommandSends
<1>6. PageTypeOK'
  BY <1>2, <1>3, <1>5 DEF PageInv, PageTypeOK, PanelTypes
<1>7. SoundPanel'
  <2>1. \A i \in ids' \ settled' : i = id
    <3>1. None \notin ids /\ \A i \in ids \ settled : i = panel.creating
      BY KindsDiffer DEF PageInv, PageTypeOK, SoundPanel
    <3> QED
      BY <1>2, <1>3, <3>1
  <2>2. settled' \subseteq ids' /\ \A o \in server'.operations : o.id \in ids'
    BY <1>2, <1>3 DEF PageInv, SoundPanel
  <2> QED
    BY <1>2, <1>3, <1>5, <2>1, <2>2, KindsDiffer DEF PageInv, SoundPanel
<1> QED
  BY <1>5, <1>6, <1>7 DEF PageInv

-----------------------------------------------------------------------------
(* Steps of one request that leave the page and the panel alone             *)

LEMMA OneMoves ==
  ASSUME PageInv, Grows, NEW f \in Fetch, NEW q \in FetchState,
         fetch' = [fetch EXCEPT ![f] = q], SoundFetch(f, q)', UNCHANGED <<page, panel>>,
         f = panel.active => q.kind \in Panel,
         server' \in [tenant : Tenant, operations : SUBSET Operation],
         \A o \in server'.operations : o.id \in ids',
         ids' \subseteq RequestId, settled' \subseteq ids', ids' \ settled' \subseteq ids \ settled,
         upsets' \in 0 .. Upsets, upsets <= upsets'
  PROVE  PageInv'
<1>1. fetch' \in [Fetch -> FetchState] /\ (\A g \in Fetch : SoundFetch(g, fetch[g]))'
  BY OneChanges
<1>2. PageTypeOK'
  BY <1>1 DEF PageInv, PageTypeOK
<1>3. SoundPanel'
  <2>1. panel.active # None => fetch'[panel.active].kind \in Panel
    BY OneFetch, PageTypes DEF PageInv, SoundPanel
  <2>2. /\ panel'.creating # None => panel'.creating \in ids'
        /\ \A i \in ids' \ settled' : i = panel'.creating
    BY DEF PageInv, SoundPanel, Grows
  <2>3. page.life <= upsets' /\ (~page.mounted => page.life < upsets')
    BY PageTypes DEF PageInv, SoundPanel
  <2> QED
    BY <2>1, <2>2, <2>3 DEF PageInv, SoundPanel
<1> QED
  BY <1>1, <1>2, <1>3 DEF PageInv

\* A request that gets on is sound.
LEMMA MovedIsSound ==
  ASSUME PageInv, Grows, NEW f \in Fetch, NEW o, o = fetch[f], NEW q \in FetchState,
         q.kind = o.kind, q.asked = o.asked, q.id = o.id, q.to = o.to, q.life = o.life,
         q.aborted = o.aborted, o.pc # "idle", q.pc # "idle",
         q.kind \in Panel \cup {"switch"} => q.pc \in {"sent", "served", "failed"},
         q.pc \in {"shown", "acknowledged"} \/ (q.pc = "served" /\ q.kind = "submit") =>
           \E t \in Tenant : [id |-> q.id, tenant |-> t] \in server'.operations,
         page'.mounted = page.mounted, page'.life = page.life,
         panel'.active = panel.active, panel'.creating = panel.creating
  PROVE  SoundFetch(f, q)'
<1>1. SoundFetch(f, o)
  BY FetchFields
<1>2. (q.kind \in {"create", "submit"} => q.id \in ids)' /\ (q.kind = "submit" => q.id \in settled)'
  BY <1>1 DEF SoundFetch, Grows
<1>3. /\ q.kind # None /\ q.asked # None /\ (q.kind = "switch" => q.to # None)
      /\ (q.kind \in Panel => (f = panel.active <=> ~q.aborted))'
      /\ (q.kind = "create" /\ ~q.aborted => q.id = panel.creating)'
      /\ (q.kind = "submit" /\ ~q.aborted => page.mounted /\ q.life = page.life)'
  BY <1>1 DEF SoundFetch
<1> QED
  BY <1>2, <1>3 DEF SoundFetch

\* What the other variables are where a step leaves them alone
LEMMA Quietly ==
  ASSUME PageInv, UNCHANGED <<server, ids, settled>>
  PROVE  /\ Grows
         /\ server' \in [tenant : Tenant, operations : SUBSET Operation]
         /\ \A o \in server'.operations : o.id \in ids'
         /\ ids' \subseteq RequestId /\ settled' \subseteq ids' /\ ids' \ settled' \subseteq ids \ settled
BY DEF Grows, PageInv, PageTypeOK, SoundPanel

LEMMA UpsetIs ==
  ASSUME PageInv, Upset \/ UNCHANGED upsets
  PROVE  upsets' \in 0 .. Upsets /\ upsets <= upsets'
BY BrowserPageAssumption DEF PageInv, PageTypeOK, Upset

\* A request that the panel does not wait for is over.
LEMMA EndsKeeps ==
  ASSUME PageInv, NEW f \in Fetch, f # panel.active, Ends(f), UNCHANGED <<page, panel, server, ids, settled>>,
         Upset \/ UNCHANGED upsets
  PROVE  PageInv'
<1>1. NoFetch \in FetchState /\ SoundFetch(f, NoFetch)'
  BY NoFetchIsSound DEF SoundFetch
<1>2. fetch' = [fetch EXCEPT ![f] = NoFetch]
  BY DEF Ends
<1> QED
  BY <1>1, <1>2, OneMoves, Quietly, UpsetIs

LEMMA ActiveIsOfPanel ==
  ASSUME PageInv, panel.active # None
  PROVE  /\ panel.active \in Fetch /\ fetch[panel.active].kind \in Panel
         /\ fetch[panel.active].pc \in {"sent", "served", "failed"}
<1>1. panel.active \in Fetch /\ fetch[panel.active].kind \in Panel
  BY PageTypes DEF PageInv, SoundPanel
<1> QED
  BY <1>1, FetchFields DEF SoundFetch

LEMMA SwitchedKeeps ==
  ASSUME PageInv, NEW f \in Fetch, Switched(f)
  PROVE  PageInv'
<1>1. f # panel.active
  BY ActiveIsOfPanel, KindsDiffer DEF Switched, Panel
<1> QED
  BY <1>1, EndsKeeps DEF Switched

LEMMA HeardKeeps ==
  ASSUME PageInv, NEW f \in Fetch, Heard(f)
  PROVE  PageInv'
<1>1. f # panel.active
  BY ActiveIsOfPanel, KindsDiffer DEF Heard
<1> QED
  BY <1>1, EndsKeeps DEF Heard

\* A request of the agent changes to q: only its stage is another.
LEMMA ToolMoves ==
  ASSUME PageInv, NEW f \in Fetch, NEW o, o = fetch[f], o.pc \in {"shown", "acknowledged"},
         NEW p \in {"acknowledged", "answered"}, fetch' = [fetch EXCEPT ![f] = [o EXCEPT !.pc = p]],
         UNCHANGED <<page, server, panel, ids, settled, upsets>>
  PROVE  PageInv'
<1>1. o \in FetchState /\ SoundFetch(f, o)
  BY FetchFields
<1>2. PICK q : q = [o EXCEPT !.pc = p]
  OBVIOUS
<1>3. /\ q \in FetchState /\ q.pc = p /\ q.kind = o.kind /\ q.asked = o.asked /\ q.id = o.id
      /\ q.to = o.to /\ q.life = o.life /\ q.aborted = o.aborted
  BY <1>1, <1>2 DEF FetchState
<1>4. o.kind \notin Panel \cup {"switch"}
  BY <1>1 DEF SoundFetch
<1>5. \E t \in Tenant : [id |-> o.id, tenant |-> t] \in server.operations
  BY <1>1 DEF SoundFetch
<1>6. \E t \in Tenant : [id |-> q.id, tenant |-> t] \in server'.operations
  BY <1>3, <1>5
<1>7. SoundFetch(f, q)'
  BY <1>3, <1>4, <1>6, MovedIsSound, Quietly
<1>8. f # panel.active
  BY <1>4, ActiveIsOfPanel, KindsDiffer
<1> QED
  BY <1>2, <1>3, <1>7, <1>8, OneMoves, Quietly, UpsetIs

LEMMA AcknowledgeKeeps ==
  ASSUME PageInv, NEW f \in Fetch, Acknowledge(f)
  PROVE  PageInv'
<1>1. f # panel.active
  BY ActiveIsOfPanel, KindsDiffer DEF Acknowledge
<1>2. CASE Ends(f)
  BY <1>1, <1>2, EndsKeeps DEF Acknowledge
<1>3. CASE fetch' = [fetch EXCEPT ![f].pc = "acknowledged"]
  <2>1. PICK o : o = fetch[f]
    OBVIOUS
  <2>2. fetch' = [fetch EXCEPT ![f] = [o EXCEPT !.pc = "acknowledged"]]
    BY <1>3, <2>1
  <2>3. o.pc \in {"shown", "acknowledged"} /\ UNCHANGED <<page, server, panel, ids, settled, upsets>>
    BY <2>1 DEF Acknowledge
  <2> QED
    BY <2>1, <2>2, <2>3, ToolMoves
<1> QED
  BY <1>2, <1>3 DEF Acknowledge

LEMMA AnswerKeeps ==
  ASSUME PageInv, NEW f \in Fetch, Answer(f)
  PROVE  PageInv'
<1>1. f # panel.active
  BY ActiveIsOfPanel, KindsDiffer DEF Answer, Panel
<1>2. CASE Ends(f)
  BY <1>1, <1>2, EndsKeeps DEF Answer
<1>3. CASE fetch[f].pc # "failed" /\ fetch' = [fetch EXCEPT ![f] = [fetch[f] EXCEPT !.pc = "answered"]]
  <2>1. PICK o : o = fetch[f]
    OBVIOUS
  <2>2. fetch' = [fetch EXCEPT ![f] = [o EXCEPT !.pc = "answered"]]
    BY <1>3, <2>1
  <2>3. o.pc \in {"shown", "acknowledged"} /\ UNCHANGED <<page, server, panel, ids, settled, upsets>>
    BY <1>3, <2>1 DEF Answer
  <2> QED
    BY <2>1, <2>2, <2>3, ToolMoves
<1> QED
  BY <1>2, <1>3 DEF Answer, Ends

-----------------------------------------------------------------------------
(* The server, and the tools                                               *)

\* What the server does for a request: operations are only added, of ids that
\* are known, and one that is made is there.
LEMMA ActAdds ==
  ASSUME PageInv, NEW f \in Fetch, Act(f), UNCHANGED <<page, panel, ids, settled>>
  PROVE  /\ Grows
         /\ server' \in [tenant : Tenant, operations : SUBSET Operation]
         /\ \A o \in server'.operations : o.id \in ids'
         /\ fetch[f].kind \in {"create", "submit"} =>
              \E t \in Tenant : [id |-> fetch[f].id, tenant |-> t] \in server'.operations
<1> DEFINE o == fetch[f]
<1>1. o \in FetchState /\ SoundFetch(f, o) /\ o.pc = "sent"
  BY FetchFields DEF Act
<1>2. server \in [tenant : Tenant, operations : SUBSET Operation] /\ \A p \in server.operations : p.id \in ids
  BY DEF PageInv, PageTypeOK, SoundPanel
<1>3. ids \subseteq RequestId
  BY DEF PageInv, PageTypeOK
<1>4. /\ o.kind = "switch" => server' = [server EXCEPT !.tenant = o.to]
      /\ o.kind \in {"create", "submit"} =>
           server' = [server EXCEPT !.operations = server.operations \cup {Created(o.id)}]
      /\ o.kind \notin {"switch", "create", "submit"} => server' = server
  BY DEF Act
<1> HIDE DEF o
<1>5. CASE o.kind = "switch"
  <2>1. o.to \in Tenant
    BY <1>1, <1>5 DEF SoundFetch, FetchState
  <2>2. server'.tenant = o.to /\ server'.operations = server.operations
    BY <1>2, <1>4, <1>5
  <2> QED
    BY <1>2, <1>4, <1>5, <2>1, <2>2 DEF Grows, o
<1>6. CASE o.kind \in {"create", "submit"}
  <2>1. o.id \in ids /\ o.id \in RequestId
    BY <1>1, <1>3, <1>6 DEF SoundFetch
  <2>2. PICK c : c = Created(o.id)
    OBVIOUS
  <2>3. c = [id |-> o.id, tenant |-> server.tenant] /\ c \in Operation /\ c.id \in ids
    BY <1>2, <2>1, <2>2 DEF Created, Operation
  <2>4. /\ server' = [server EXCEPT !.operations = server.operations \cup {c}]
        /\ server'.operations = server.operations \cup {c}
    BY <1>2, <1>4, <1>6, <2>2
  <2>5. server' \in [tenant : Tenant, operations : SUBSET Operation]
    BY <1>2, <2>3, <2>4
  <2>6. \E t \in Tenant : [id |-> o.id, tenant |-> t] \in server'.operations
    BY <1>2, <2>3, <2>4
  <2> QED
    BY <1>2, <2>3, <2>4, <2>5, <2>6 DEF Grows, o
<1>7. CASE o.kind \notin {"switch", "create", "submit"}
  BY <1>2, <1>4, <1>7 DEF Grows, o
<1> QED
  BY <1>5, <1>6, <1>7

\* An aborted request that the server was at
LEMMA AbortedEnds ==
  ASSUME PageInv, NEW f \in Fetch, fetch[f].aborted, fetch' = [fetch EXCEPT ![f] = NoFetch],
         Grows, server' \in [tenant : Tenant, operations : SUBSET Operation],
         \A o \in server'.operations : o.id \in ids',
         UNCHANGED <<page, panel, ids, settled>>, Upset \/ UNCHANGED upsets
  PROVE  PageInv'
<1>1. f # panel.active
  BY ActiveIsOfPanel, FetchFields, KindsDiffer DEF SoundFetch
<1>2. NoFetch \in FetchState /\ SoundFetch(f, NoFetch)'
  BY NoFetchIsSound DEF SoundFetch
<1>3. ids' \subseteq RequestId /\ settled' \subseteq ids' /\ ids' \ settled' \subseteq ids \ settled
  BY DEF PageInv, PageTypeOK, SoundPanel
<1>4. upsets' \in 0 .. Upsets /\ upsets <= upsets'
  BY UpsetIs
<1> QED
  BY <1>1, <1>2, <1>3, <1>4, OneMoves

\* One that gets on as q
LEMMA ServedMoves ==
  ASSUME PageInv, NEW f \in Fetch, NEW o, o = fetch[f], o.pc = "sent",
         NEW p \in {"served", "failed"}, NEW b \in SUBSET RequestId,
         NEW q, q = [o EXCEPT !.pc = p, !.body = b], fetch' = [fetch EXCEPT ![f] = q],
         Grows, server' \in [tenant : Tenant, operations : SUBSET Operation],
         \A r \in server'.operations : r.id \in ids',
         p = "served" /\ o.kind = "submit" =>
           \E t \in Tenant : [id |-> o.id, tenant |-> t] \in server'.operations,
         UNCHANGED <<page, panel, ids, settled>>, Upset \/ UNCHANGED upsets
  PROVE  PageInv'
<1>1. o \in FetchState /\ SoundFetch(f, o)
  BY FetchFields
<1>2. /\ q \in FetchState /\ q.pc = p /\ q.kind = o.kind /\ q.asked = o.asked /\ q.id = o.id
      /\ q.to = o.to /\ q.life = o.life /\ q.aborted = o.aborted
  BY <1>1 DEF FetchState
<1>3. q.pc \in {"shown", "acknowledged"} \/ (q.pc = "served" /\ q.kind = "submit") =>
        \E t \in Tenant : [id |-> q.id, tenant |-> t] \in server'.operations
  BY <1>2
<1>4. SoundFetch(f, q)'
  <2>1. o.pc # "idle" /\ q.pc # "idle" /\ q.pc \in {"sent", "served", "failed"}
    BY <1>2
  <2>2. /\ page'.mounted = page.mounted /\ page'.life = page.life
        /\ panel'.active = panel.active /\ panel'.creating = panel.creating
    OBVIOUS
  <2> QED
    BY <1>2, <1>3, <2>1, <2>2, MovedIsSound
<1>5. f = panel.active => q.kind \in Panel
  BY <1>2, ActiveIsOfPanel, KindsDiffer
<1>6. ids' \subseteq RequestId /\ settled' \subseteq ids' /\ ids' \ settled' \subseteq ids \ settled
  BY DEF PageInv, PageTypeOK, SoundPanel
<1>7. upsets' \in 0 .. Upsets /\ upsets <= upsets'
  BY UpsetIs
<1> QED
  BY <1>2, <1>4, <1>5, <1>6, <1>7, OneMoves

\* The server answers.
LEMMA ServeKeeps ==
  ASSUME PageInv, NEW f \in Fetch, Serve(f)
  PROVE  PageInv'
<1>1. Act(f) /\ UNCHANGED <<page, panel, ids, settled, upsets>> /\ fetch[f].pc = "sent"
  BY DEF Serve, Act
<1>2. /\ Grows /\ server' \in [tenant : Tenant, operations : SUBSET Operation]
      /\ \A o \in server'.operations : o.id \in ids'
      /\ fetch[f].kind \in {"create", "submit"} =>
           \E t \in Tenant : [id |-> fetch[f].id, tenant |-> t] \in server'.operations
  BY <1>1, ActAdds
<1>3. CASE fetch[f].aborted
  <2>1. fetch' = [fetch EXCEPT ![f] = NoFetch]
    BY <1>3 DEF Serve
  <2> QED
    BY <1>1, <1>2, <1>3, <2>1, AbortedEnds
<1>4. CASE ~fetch[f].aborted
  <2>1. PICK o : o = fetch[f]
    OBVIOUS
  <2>2. o \in FetchState /\ SoundFetch(f, o)
    BY <2>1, FetchFields
  <2>3. PICK b : b = CASE o.kind = "refresh" ->
                            {r.id : r \in {p \in server.operations : p.tenant = server.tenant}}
                       [] o.kind \in {"create", "submit"} -> {o.id}
                       [] OTHER -> {}
    OBVIOUS
  <2>4. b \in SUBSET RequestId
    <3>1. server.operations \subseteq Operation /\ ids \subseteq RequestId
      BY PageTypes DEF PageInv, PageTypeOK
    <3>2. \A r \in server.operations : r.id \in RequestId
      BY <3>1 DEF Operation
    <3>3. o.kind \in {"create", "submit"} => o.id \in RequestId
      BY <2>2, <3>1 DEF SoundFetch
    <3>4. CASE o.kind = "refresh"
      BY <2>3, <3>2, <3>4
    <3>5. CASE o.kind \in {"create", "submit"}
      BY <2>3, <3>3, <3>5
    <3>6. CASE o.kind \notin {"refresh", "create", "submit"}
      BY <2>3, <3>6
    <3> QED
      BY <3>4, <3>5, <3>6
  <2>5. fetch' = [fetch EXCEPT ![f].pc = "served", ![f].body = b]
    BY <1>4, <2>1, <2>3 DEF Serve
  <2>6. fetch \in [Fetch -> FetchState]
    BY DEF PageInv, PageTypeOK
  <2>7. PICK q : q = [o EXCEPT !.pc = "served", !.body = b]
    OBVIOUS
  <2>8. fetch' = [fetch EXCEPT ![f] = q]
    BY <2>1, <2>2, <2>5, <2>6, <2>7
  <2>9. o.pc = "sent" /\ (o.kind = "submit" =>
                            \E t \in Tenant : [id |-> o.id, tenant |-> t] \in server'.operations)
    BY <1>1, <1>2, <2>1
  <2> QED
    BY <1>1, <1>2, <2>1, <2>4, <2>7, <2>8, <2>9, ServedMoves
<1> QED
  BY <1>3, <1>4

\* A request fails, done or not.
LEMMA FailKeeps ==
  ASSUME PageInv, NEW f \in Fetch, Fail(f)
  PROVE  PageInv'
<1>1. Upset /\ fetch[f].pc = "sent" /\ UNCHANGED <<page, panel, ids, settled>>
  BY DEF Fail
<1>2. /\ Grows /\ server' \in [tenant : Tenant, operations : SUBSET Operation]
      /\ \A o \in server'.operations : o.id \in ids'
  <2>1. CASE Act(f)
    BY <1>1, <2>1, ActAdds
  <2>2. CASE UNCHANGED server
    BY <1>1, <2>2, Quietly
  <2> QED
    BY <2>1, <2>2 DEF Fail
<1>3. CASE fetch[f].aborted
  <2>1. fetch' = [fetch EXCEPT ![f] = NoFetch]
    BY <1>3 DEF Fail
  <2> QED
    BY <1>1, <1>2, <1>3, <2>1, AbortedEnds
<1>4. CASE ~fetch[f].aborted
  <2>1. PICK o : o = fetch[f]
    OBVIOUS
  <2>2. o \in FetchState
    BY <2>1, FetchFields
  <2>3. PICK b : b = o.body
    OBVIOUS
  <2>4. b \in SUBSET RequestId
    BY <2>2, <2>3 DEF FetchState
  <2>5. fetch' = [fetch EXCEPT ![f].pc = "failed"]
    BY <1>4 DEF Fail
  <2>6. PICK q : q = [o EXCEPT !.pc = "failed", !.body = b]
    OBVIOUS
  <2>7. q = [o EXCEPT !.pc = "failed"]
    BY <2>2, <2>3, <2>6 DEF FetchState
  <2>8. fetch' = [fetch EXCEPT ![f] = q]
    BY <2>1, <2>5, <2>7
  <2>9. o.pc = "sent"
    BY <1>1, <2>1
  <2> QED
    BY <1>1, <1>2, <2>1, <2>4, <2>6, <2>8, <2>9, ServedMoves
<1> QED
  BY <1>3, <1>4

\* The agent aborts its call.
LEMMA CallerAbortsKeeps ==
  ASSUME PageInv, NEW f \in Fetch, CallerAborts(f)
  PROVE  PageInv'
<1>1. /\ Upset /\ fetch[f].kind = "submit" /\ fetch' = [fetch EXCEPT ![f] = Aborted(f)]
      /\ UNCHANGED <<page, server, panel, ids, settled>>
  BY DEF CallerAborts
<1>2. fetch[f].kind \notin Panel /\ fetch[f].pc # "idle"
  BY <1>1, FetchFields, KindsDiffer DEF Panel
<1>3. PICK q : q = Aborted(f)
  OBVIOUS
<1>4. q \in FetchState /\ SoundFetch(f, q)'
  BY <1>1, <1>2, <1>3, AbortedIs, AbortedIsSound, Quietly
<1>5. f # panel.active
  BY <1>2, ActiveIsOfPanel, KindsDiffer
<1> QED
  BY <1>1, <1>3, <1>4, <1>5, OneMoves, Quietly, UpsetIs

\* A tool asks for an operation, or for a switch of the tenant.
LEMMA ToolCallKeeps ==
  ASSUME PageInv, NEW kind \in Tool, NEW id \in RequestId \cup {None}, NEW to \in Tenant \cup {None},
         ToolCall(kind, id, to), kind = "switch" => to # None,
         kind = "submit" => page.mounted /\ id \in ids' /\ id \in settled',
         ids \subseteq ids', settled \subseteq settled', ids' \subseteq RequestId,
         settled' \subseteq ids', ids' \ settled' \subseteq ids \ settled, Upset \/ UNCHANGED upsets
  PROVE  PageInv'
<1>1. PICK f : f = NewFetch
  OBVIOUS
<1>2. PICK t, l : t = page.tenant /\ l = page.life
  OBVIOUS
<1>3. PICK q : q = Sent(kind, id, to, t, l)
  OBVIOUS
<1>4. f \in Fetch /\ fetch[f].kind = None /\ UNCHANGED <<page, server, panel>>
  BY <1>1, FreePlace, FetchFields DEF ToolCall
<1>5. fetch' = [fetch EXCEPT ![f] = q]
  BY <1>1, <1>2, <1>3 DEF ToolCall
<1>6. t \in Tenant /\ l \in 0 .. Upsets
  BY <1>2, PageTypes DEF PageInv
<1>7. /\ q \in FetchState /\ q.pc = "sent" /\ q.kind = kind /\ q.asked = t /\ q.id = id
      /\ q.to = to /\ q.life = l /\ ~q.aborted
  <2>1. kind \in Panel \cup Tool
    OBVIOUS
  <2> QED
    BY <1>3, <1>6, <2>1 DEF Sent, FetchState
<1>8. kind \notin Panel /\ kind # "create"
  BY DEF Panel, Tool
<1>9. SoundFetch(f, q)'
  <2>1. q.kind = "submit" => q.id \in settled' /\ page'.mounted /\ q.life = page'.life
    BY <1>2, <1>4, <1>7
  <2>2. q.kind \in {"create", "submit"} => q.id \in ids'
    BY <1>7, <1>8
  <2>3. /\ q.kind \in Panel \cup Tool /\ q.asked \in Tenant /\ (q.kind = "switch" => q.to # None)
        /\ q.kind \notin Panel /\ q.kind # "create"
    BY <1>6, <1>7, <1>8
  <2> QED
    BY <1>4, <1>7, <2>1, <2>2, <2>3, SentIsSound
<1>10. f # panel.active
  BY <1>4, ActiveIsOfPanel, KindsDiffer DEF Panel
<1>11. /\ Grows /\ server' \in [tenant : Tenant, operations : SUBSET Operation]
       /\ \A o \in server'.operations : o.id \in ids'
  BY <1>4 DEF Grows, PageInv, PageTypeOK, SoundPanel
<1>12. upsets' \in 0 .. Upsets /\ upsets <= upsets'
  BY UpsetIs
<1> QED
  BY <1>4, <1>5, <1>7, <1>9, <1>10, <1>11, <1>12, OneMoves

LEMMA SubmitToolKeeps ==
  ASSUME PageInv, SubmitTool
  PROVE  PageInv'
<1>1. PICK id : id = NewId
  OBVIOUS
<1>2. id \in RequestId \ ids
  BY <1>1, FreshOne DEF SubmitTool
<1>3. /\ page.mounted /\ ToolCall("submit", id, None)
      /\ ids' = ids \cup {id} /\ settled' = settled \cup {id} /\ UNCHANGED upsets
  BY <1>1 DEF SubmitTool
<1>4. /\ ids' \subseteq RequestId /\ settled' \subseteq ids' /\ ids' \ settled' \subseteq ids \ settled
  BY <1>2, <1>3 DEF PageInv, PageTypeOK, SoundPanel
<1>5. "submit" \in Tool /\ "submit" # "switch"
  BY DEF Tool
<1> QED
  BY <1>2, <1>3, <1>4, <1>5, ToolCallKeeps

LEMMA SwitchKeeps ==
  ASSUME PageInv, Switch
  PROVE  PageInv'
<1>1. PICK t \in Tenant : Upset /\ ToolCall("switch", None, t)
  BY DEF Switch
<1>2. UNCHANGED <<ids, settled>> /\ t # None
  BY KindsDiffer DEF Switch
<1>3. ids' \subseteq RequestId /\ settled' \subseteq ids'
  BY <1>2 DEF PageInv, PageTypeOK, SoundPanel
<1>4. "switch" \in Tool /\ "switch" # "submit"
  BY DEF Tool
<1>5. ids' \ settled' \subseteq ids \ settled /\ ids \subseteq ids' /\ settled \subseteq settled'
  BY <1>2
<1> QED
  BY <1>1, <1>2, <1>3, <1>4, <1>5, ToolCallKeeps

\* What is listed was asked for in the tenant the request was sent for.
LEMMA ListedIs ==
  ASSUME PageInv, NEW f \in Fetch, fetch[f].pc # "idle"
  PROVE  /\ Listed(f) \subseteq [id : RequestId, asked : Tenant]
         /\ ~Dropped(f) => \A o \in Listed(f) : o.asked = page.tenant
<1>1. fetch[f].asked \in Tenant /\ fetch[f].body \subseteq RequestId
  BY FetchFields DEF FetchState
<1>2. \A o \in Listed(f) : o \in [id : RequestId, asked : Tenant] /\ o.asked = fetch[f].asked
  BY <1>1 DEF Listed
<1> QED
  BY <1>2 DEF Dropped

\* The panel shows more of its tenant, a request is moved to q.
LEMMA ShowKeeps ==
  ASSUME PageInv, NEW f \in Fetch, Show(f)
  PROVE  PageInv'
<1>1. /\ fetch[f].pc = "served" /\ fetch[f].kind = "submit"
      /\ UNCHANGED <<page, server, ids, settled, upsets>>
  BY DEF Show
<1>2. f # panel.active
  BY <1>1, ActiveIsOfPanel, KindsDiffer DEF Panel
<1>3. CASE Ends(f) /\ UNCHANGED panel
  BY <1>1, <1>2, <1>3, EndsKeeps
<1>4. CASE /\ ~Dropped(f) /\ panel' = [panel EXCEPT !.list = @ \cup Listed(f)]
           /\ fetch' = [fetch EXCEPT ![f].pc = "shown"]
  <2>1. PICK o, q : o = fetch[f] /\ q = [o EXCEPT !.pc = "shown"]
    OBVIOUS
  <2>2. o \in FetchState /\ SoundFetch(f, o)
    BY <2>1, FetchFields
  <2>3. fetch' = [fetch EXCEPT ![f] = q]
    BY <1>4, <2>1
  <2>4. /\ q \in FetchState /\ q.pc = "shown" /\ q.kind = o.kind /\ q.asked = o.asked /\ q.id = o.id
        /\ q.to = o.to /\ q.life = o.life /\ q.aborted = o.aborted
    BY <2>1, <2>2 DEF FetchState
  <2>5. o.kind = "submit" /\ o.pc = "served" /\ o.kind \notin Panel \cup {"switch"}
    BY <1>1, <2>1 DEF Panel
  <2>6. PanelTypes(panel)
    BY DEF PageInv, PageTypeOK, PanelTypes
  <2>7. /\ PanelTypes(panel') /\ panel'.active = panel.active /\ panel'.busy = panel.busy
        /\ panel'.creating = panel.creating /\ panel'.list = panel.list \cup Listed(f)
    BY <1>1, <1>4, <2>6, ListedIs DEF PanelTypes
  <2>8. \E t \in Tenant : [id |-> q.id, tenant |-> t] \in server'.operations
    BY <1>1, <2>2, <2>4, <2>5 DEF SoundFetch
  <2>9. SoundFetch(f, q)'
    <3>1. o.pc # "idle" /\ q.pc # "idle" /\ q.kind \notin Panel \cup {"switch"}
      BY <2>4, <2>5
    <3>2. page'.mounted = page.mounted /\ page'.life = page.life
      BY <1>1
    <3> QED
      BY <1>1, <2>1, <2>4, <2>7, <2>8, <3>1, <3>2, MovedIsSound, Quietly
  <2>10. fetch' \in [Fetch -> FetchState] /\ (\A g \in Fetch : SoundFetch(g, fetch[g]))'
    <3>1. page'.mounted = page.mounted /\ page'.life = page.life /\ Grows
      BY <1>1 DEF Grows
    <3> QED
      BY <2>3, <2>4, <2>7, <2>9, <3>1, OneChanges
  <2>11. PageTypeOK'
    BY <1>1, <2>7, <2>10 DEF PageInv, PageTypeOK, PanelTypes
  <2>12. SoundPanel'
    <3>1. page.mounted
      <4>1. ~o.aborted
        BY <1>4, <2>1 DEF Dropped
      <4> QED
        BY <2>2, <2>5, <4>1 DEF SoundFetch
    <3>2. \A r \in panel'.list : r.asked = page'.tenant
      BY <1>1, <1>4, <2>7, ListedIs DEF PageInv, SoundPanel
    <3>3. panel.active # None => fetch'[panel.active].kind \in Panel
      BY <1>2, <2>3, ActiveIsOfPanel
    <3> QED
      BY <1>1, <2>7, <3>1, <3>2, <3>3 DEF PageInv, SoundPanel
  <2> QED
    BY <2>10, <2>11, <2>12 DEF PageInv
<1> QED
  BY <1>3, <1>4 DEF Show

-----------------------------------------------------------------------------
(* The response to the panel                                               *)

\* The response that is shown is that of the active command.
Shows(f) == fetch[f].pc = "served" /\ ~Dropped(f)

LEMMA ApplyChanges ==
  ASSUME PageInv, NEW f \in Fetch, Apply(f)
  PROVE  /\ PanelTypes(panel')
         /\ panel'.active = (IF panel.active = f THEN None ELSE panel.active)
         /\ panel'.busy = (IF panel.active = f THEN FALSE ELSE panel.busy)
         /\ panel'.creating = IF Shows(f) /\ fetch[f].kind = "create" THEN None ELSE panel.creating
         /\ \A o \in panel'.list : o \in panel.list \/ (Shows(f) /\ o \in Listed(f))
<1>1. PICK p : p = CASE Shows(f) /\ fetch[f].kind = "refresh" -> [panel EXCEPT !.list = Listed(f)]
                     [] Shows(f) /\ fetch[f].kind = "create" ->
                          [panel EXCEPT !.list = @ \cup Listed(f), !.creating = None]
                     [] OTHER -> panel
  OBVIOUS
<1>2. panel' = FinallyOf(f, p)
  BY <1>1 DEF Apply, Shows
<1>3. PanelTypes(panel) /\ Listed(f) \subseteq [id : RequestId, asked : Tenant]
  BY ListedIs DEF PageInv, PageTypeOK, PanelTypes, Apply
<1>4. /\ PanelTypes(p) /\ p.active = panel.active /\ p.busy = panel.busy
      /\ p.creating = IF Shows(f) /\ fetch[f].kind = "create" THEN None ELSE panel.creating
      /\ \A o \in p.list : o \in panel.list \/ (Shows(f) /\ o \in Listed(f))
  <2>1. CASE Shows(f) /\ fetch[f].kind = "refresh"
    <3>1. p = [panel EXCEPT !.list = Listed(f)]
      BY <1>1, <2>1
    <3> QED
      BY <1>3, <2>1, <3>1 DEF PanelTypes
  <2>2. CASE Shows(f) /\ fetch[f].kind = "create"
    <3>1. p = [panel EXCEPT !.list = panel.list \cup Listed(f), !.creating = None]
      BY <1>1, <2>2
    <3> QED
      BY <1>3, <2>2, <3>1 DEF PanelTypes
  <2>3. CASE ~(Shows(f) /\ fetch[f].kind \in {"refresh", "create"})
    <3>1. p = panel
      BY <1>1, <2>3
    <3> QED
      BY <1>3, <2>3, <3>1
  <2> QED
    BY <2>1, <2>2, <2>3
<1>5. CASE panel.active = f
  <2>1. panel' = [p EXCEPT !.active = None, !.busy = FALSE]
    BY <1>2, <1>5 DEF FinallyOf
  <2> QED
    BY <1>4, <1>5, <2>1 DEF PanelTypes
<1>6. CASE panel.active # f
  <2>1. panel' = p
    BY <1>2, <1>6 DEF FinallyOf
  <2> QED
    BY <1>4, <1>6, <2>1
<1> QED
  BY <1>5, <1>6

LEMMA ApplyKeeps ==
  ASSUME PageInv, NEW f \in Fetch, Apply(f)
  PROVE  PageInv'
<1>1. /\ PanelTypes(panel')
      /\ panel'.active = (IF panel.active = f THEN None ELSE panel.active)
      /\ panel'.busy = (IF panel.active = f THEN FALSE ELSE panel.busy)
      /\ panel'.creating = IF Shows(f) /\ fetch[f].kind = "create" THEN None ELSE panel.creating
      /\ \A o \in panel'.list : o \in panel.list \/ (Shows(f) /\ o \in Listed(f))
  BY ApplyChanges
<1>2. /\ fetch[f].pc \in {"served", "failed"} /\ fetch[f].kind \in Panel
      /\ fetch' = [fetch EXCEPT ![f] = NoFetch] /\ UNCHANGED <<page, server, ids, upsets>>
      /\ settled' = IF Shows(f) /\ fetch[f].kind = "create" THEN settled \cup {fetch[f].id} ELSE settled
  BY DEF Apply, Ends, Shows
<1>3. NoFetch \in FetchState /\ SoundFetch(f, NoFetch)'
  BY NoFetchIsSound DEF SoundFetch
<1>4. Shows(f) => f = panel.active
  BY <1>2, FetchFields DEF Shows, Dropped, SoundFetch
<1>5. Shows(f) /\ fetch[f].kind = "create" => fetch[f].id = panel.creating /\ fetch[f].id \in ids
  BY FetchFields DEF Shows, Dropped, SoundFetch
<1>6. fetch' \in [Fetch -> FetchState] /\ (\A g \in Fetch : SoundFetch(g, fetch[g]))'
  <2>1. Grows /\ page'.mounted = page.mounted /\ page'.life = page.life
    BY <1>2 DEF Grows
  <2>2. \A g \in Fetch \ {f} : fetch[g].kind \in Panel => (g = panel.active <=> g = panel'.active)
    BY <1>1, KindsDiffer
  <2>3. \A g \in Fetch \ {f} : fetch[g].kind = "create" /\ ~fetch[g].aborted =>
                                 panel'.creating = panel.creating
    BY <1>1, <1>4, OthersAborted DEF Panel
  <2> QED
    BY <1>2, <1>3, <2>1, <2>2, <2>3, OneChanges
<1>7. settled' \subseteq ids' /\ \A i \in ids' \ settled' : i = panel'.creating
  <2>1. settled \subseteq ids /\ \A i \in ids \ settled : i = panel.creating
    BY DEF PageInv, SoundPanel
  <2> QED
    BY <1>1, <1>2, <1>5, <2>1
<1>8. PageTypeOK'
  <2>1. settled' \subseteq RequestId
    BY <1>2, <1>7 DEF PageInv, PageTypeOK
  <2> QED
    BY <1>1, <1>2, <1>6, <2>1 DEF PageInv, PageTypeOK, PanelTypes
<1>9. SoundPanel'
  <2>1. panel'.busy <=> panel'.active # None
    BY <1>1 DEF PageInv, SoundPanel
  <2>2. panel'.active # None => fetch'[panel'.active].kind \in Panel
    BY <1>1, <1>2, ActiveIsOfPanel
  <2>3. ~page.mounted => panel' = NewPanel
    <3>1. SUFFICES ASSUME ~page.mounted PROVE panel' = NewPanel
      OBVIOUS
    <3>2. panel = NewPanel /\ panel.active = None
      BY <3>1 DEF PageInv, SoundPanel, NewPanel
    <3>3. ~Shows(f)
      BY <1>4, <3>2, KindsDiffer
    <3>4. panel' = FinallyOf(f, panel)
      BY <3>3 DEF Apply, Shows
    <3> QED
      BY <3>2, <3>4, KindsDiffer DEF FinallyOf
  <2>4. \A o \in panel'.list : o.asked = page'.tenant
    <3>1. fetch[f].pc # "idle"
      BY <1>2
    <3>2. \A o \in panel.list : o.asked = page.tenant
      BY DEF PageInv, SoundPanel
    <3>3. Shows(f) => \A o \in Listed(f) : o.asked = page.tenant
      BY <3>1, ListedIs DEF Shows
    <3> QED
      BY <1>1, <1>2, <3>2, <3>3
  <2>5. panel'.creating # None => panel'.creating \in ids'
    BY <1>1, <1>2 DEF PageInv, SoundPanel
  <2>6. /\ \A o \in server'.operations : o.id \in ids'
        /\ page'.life <= upsets' /\ (~page'.mounted => page'.life < upsets')
    BY <1>2 DEF PageInv, SoundPanel
  <2>7. ~page'.mounted => panel' = NewPanel
    BY <1>2, <2>3
  <2> QED
    BY <1>7, <2>1, <2>2, <2>4, <2>5, <2>6, <2>7 DEF SoundPanel
<1> QED
  BY <1>6, <1>8, <1>9 DEF PageInv

-----------------------------------------------------------------------------
(* The page                                                                *)

LEMMA ReloadKeeps ==
  ASSUME PageInv, Reload
  PROVE  PageInv'
<1>1. PICK n, t, l : n = NewFetch /\ t = server.tenant /\ l = page.life
  OBVIOUS
<1>2. PICK q : q = Sent("refresh", None, None, t, l)
  OBVIOUS
<1>3. /\ page.mounted /\ IdleFetches # {} /\ page' = [page EXCEPT !.tenant = t]
      /\ fetch' = [AbortActive EXCEPT ![n] = q]
      /\ panel' = [panel EXCEPT !.list = {}, !.active = n, !.busy = TRUE]
      /\ UNCHANGED <<server, ids, settled, upsets>>
  BY <1>1, <1>2 DEF Reload
<1>4. n \in Fetch /\ t \in Tenant /\ l \in 0 .. Upsets
  BY <1>1, <1>3, FreePlace, PageTypes DEF PageInv
<1>5. /\ q \in FetchState /\ q.pc = "sent" /\ q.kind = "refresh" /\ q.asked = t /\ q.id = None
      /\ q.to = None /\ q.life = l /\ ~q.aborted
  BY <1>2, <1>4 DEF Sent, FetchState, Panel
<1>6. PanelTypes(panel) /\ page \in [tenant : Tenant, mounted : BOOLEAN, life : 0 .. Upsets]
  BY DEF PageInv, PageTypeOK, PanelTypes
<1>7. /\ PanelTypes(panel') /\ panel'.active = n /\ panel'.busy /\ panel'.list = {}
      /\ panel'.creating = panel.creating
  BY <1>3, <1>4, <1>6 DEF PanelTypes
<1>8. /\ page' \in [tenant : Tenant, mounted : BOOLEAN, life : 0 .. Upsets]
      /\ page'.mounted = page.mounted /\ page'.life = page.life
  BY <1>3, <1>4, <1>6
<1>9. SoundFetch(n, q)'
  <2>1. q.kind \in Panel \cup Tool /\ q.kind \notin {"switch", "create", "submit"}
    BY <1>5 DEF Panel
  <2> QED
    BY <1>4, <1>5, <1>7, <2>1, SentIsSound
<1>10. Grows
  BY <1>3 DEF Grows
<1>11. fetch' \in [Fetch -> FetchState] /\ (\A g \in Fetch : SoundFetch(g, fetch[g]))'
  BY <1>1, <1>3, <1>5, <1>7, <1>8, <1>9, <1>10, NewActive
<1>12. fetch'[n] = q
  <2>1. DOMAIN AbortActive = Fetch
    BY DEF AbortActive, PageInv, PageTypeOK
  <2> QED
    BY <1>3, <1>4, <2>1
<1>13. PageTypeOK'
  BY <1>3, <1>7, <1>8, <1>11 DEF PageInv, PageTypeOK, PanelTypes
<1>14. SoundPanel'
  <2>1. fetch'[panel'.active].kind \in Panel /\ panel'.active # None
    BY <1>4, <1>5, <1>7, <1>12, KindsDiffer DEF Panel
  <2> QED
    BY <1>3, <1>7, <1>8, <2>1 DEF PageInv, SoundPanel
<1> QED
  BY <1>11, <1>13, <1>14 DEF PageInv

\* The page is left: what it has under way is aborted.
LEMMA LeaveKeeps ==
  ASSUME PageInv, Leave
  PROVE  PageInv'
<1>1. /\ Upset /\ page.mounted /\ page' = [page EXCEPT !.mounted = FALSE]
      /\ fetch' = [f \in Fetch |-> IF fetch[f].kind \in {"refresh", "create", "submit"}
                                   THEN Aborted(f) ELSE fetch[f]]
      /\ panel' = NewPanel /\ settled' = settled \cup ({panel.creating} \ {None})
      /\ UNCHANGED <<server, ids>>
  BY DEF Leave
<1>2. page \in [tenant : Tenant, mounted : BOOLEAN, life : 0 .. Upsets]
  BY DEF PageInv, PageTypeOK
<1>3. /\ page' \in [tenant : Tenant, mounted : BOOLEAN, life : 0 .. Upsets]
      /\ ~page'.mounted /\ page'.life = page.life
  BY <1>1, <1>2
<1>4. PanelTypes(panel') /\ panel'.active = None /\ ~panel'.busy /\ panel'.creating = None /\ panel'.list = {}
  BY <1>1 DEF NewPanel, PanelTypes
<1>5. Grows
  BY <1>1 DEF Grows
<1>6. ASSUME NEW f \in Fetch
      PROVE  fetch'[f] \in FetchState /\ SoundFetch(f, fetch[f])'
  <2>1. CASE fetch[f].kind \in {"refresh", "create", "submit"}
    <3>1. PICK q : q = Aborted(f)
      OBVIOUS
    <3>2. fetch'[f] = q
      BY <1>1, <2>1, <3>1
    <3>3. fetch[f].pc # "idle"
      BY <2>1, FetchFields, KindsDiffer
    <3>4. f # panel'.active
      BY <1>4, KindsDiffer
    <3>5. q \in FetchState /\ SoundFetch(f, q)'
      BY <1>5, <3>1, <3>3, <3>4, AbortedIs, AbortedIsSound
    <3> QED
      BY <3>2, <3>5
  <2>2. CASE fetch[f].kind \notin {"refresh", "create", "submit"}
    <3>1. PICK q : q = fetch[f]
      OBVIOUS
    <3>2. fetch'[f] = q
      BY <1>1, <2>2, <3>1
    <3>3. q.kind \notin Panel /\ q.kind # "create" /\ q.kind # "submit"
      BY <2>2, <3>1 DEF Panel
    <3>4. q \in FetchState /\ SoundFetch(f, q)'
      BY <1>5, <3>1, <3>3, StaysSound, FetchFields
    <3> QED
      BY <3>2, <3>4
  <2> QED
    BY <2>1, <2>2
<1>7. settled' \subseteq ids /\ ids \subseteq settled' /\ ids \subseteq RequestId
  <2>1. /\ settled \subseteq ids /\ (\A i \in ids \ settled : i = panel.creating)
        /\ (panel.creating # None => panel.creating \in ids) /\ ids \subseteq RequestId
    BY DEF PageInv, PageTypeOK, SoundPanel
  <2>2. None \notin ids
    BY <2>1, KindsDiffer
  <2> QED
    BY <1>1, <2>1, <2>2
<1>8. upsets' \in 0 .. Upsets /\ upsets' = upsets + 1 /\ upsets \in Nat
  BY <1>1, UpsetIs, PageTypes DEF PageInv, Upset
<1>9. PageTypeOK'
  <2>1. fetch' \in [Fetch -> FetchState]
    BY <1>1, <1>6
  <2> QED
    BY <1>1, <1>3, <1>4, <1>7, <1>8, <2>1 DEF PageInv, PageTypeOK, PanelTypes
<1>10. SoundPanel'
  <2>1. page'.life <= upsets' /\ page'.life < upsets'
    BY <1>3, <1>8, PageTypes DEF PageInv, SoundPanel
  <2> QED
    BY <1>1, <1>3, <1>4, <1>7, <2>1 DEF PageInv, SoundPanel
<1> QED
  BY <1>6, <1>9, <1>10 DEF PageInv

LEMMA MountKeeps ==
  ASSUME PageInv, Mount
  PROVE  PageInv'
<1>1. PICK n, t, l : n = NewFetch /\ t = server.tenant /\ l = page.life + 1
  OBVIOUS
<1>2. PICK q : q = Sent("refresh", None, None, t, l)
  OBVIOUS
<1>3. /\ ~page.mounted /\ IdleFetches # {}
      /\ page' = [tenant |-> t, mounted |-> TRUE, life |-> l]
      /\ fetch' = [fetch EXCEPT ![n] = q]
      /\ panel' = [NewPanel EXCEPT !.active = n, !.busy = TRUE]
      /\ UNCHANGED <<server, ids, settled, upsets>>
  BY <1>1, <1>2 DEF Mount
<1>4. n \in Fetch /\ fetch[n].kind = None
  BY <1>1, <1>3, FreePlace, FetchFields
<1>5. t \in Tenant /\ l \in 0 .. Upsets /\ l <= upsets
  <2>1. page.life < upsets /\ upsets \in 0 .. Upsets
    BY <1>3 DEF PageInv, PageTypeOK, SoundPanel
  <2> QED
    BY <1>1, <2>1, PageTypes, BrowserPageAssumption DEF PageInv
<1>6. /\ q \in FetchState /\ q.pc = "sent" /\ q.kind = "refresh" /\ q.asked = t /\ q.id = None
      /\ q.to = None /\ q.life = l /\ ~q.aborted
  BY <1>2, <1>5 DEF Sent, FetchState, Panel
<1>7. panel.active = None /\ panel.creating = None
  BY <1>3 DEF PageInv, SoundPanel, NewPanel
<1>8. /\ PanelTypes(panel') /\ panel'.active = n /\ panel'.busy /\ panel'.list = {}
      /\ panel'.creating = None
  BY <1>3, <1>4 DEF NewPanel, PanelTypes
<1>9. SoundFetch(n, q)'
  <2>1. q.kind \in Panel \cup Tool /\ q.kind \notin {"switch", "create", "submit"}
    BY <1>6 DEF Panel
  <2> QED
    BY <1>4, <1>5, <1>6, <1>8, <2>1, SentIsSound
<1>10. fetch' \in [Fetch -> FetchState] /\ (\A g \in Fetch : SoundFetch(g, fetch[g]))'
  <2>1. Grows
    BY <1>3 DEF Grows
  <2>2. ASSUME NEW g \in Fetch \ {n}, fetch[g].kind \in Panel
        PROVE  (g = panel.active <=> g = panel'.active) /\ panel'.creating = panel.creating
    BY <1>7, <1>8, KindsDiffer
  <2>3. \A g \in Fetch : ~(fetch[g].kind = "submit" /\ ~fetch[g].aborted)
    BY <1>3, FetchFields DEF SoundFetch
  <2>4. \A g \in Fetch \ {n} : fetch[g].kind = "create" /\ ~fetch[g].aborted =>
                                 panel'.creating = panel.creating
    BY <1>7, <1>8
  <2> QED
    BY <1>3, <1>4, <1>6, <1>9, <2>1, <2>2, <2>3, <2>4, OneChanges
<1>11. fetch'[n] = q
  BY <1>3, <1>4 DEF PageInv, PageTypeOK
<1>12. page' \in [tenant : Tenant, mounted : BOOLEAN, life : 0 .. Upsets] /\ page'.mounted /\ page'.life = l
  BY <1>3, <1>5
<1>13. PageTypeOK'
  BY <1>3, <1>8, <1>10, <1>12 DEF PageInv, PageTypeOK, PanelTypes
<1>14. SoundPanel'
  <2>1. fetch'[panel'.active].kind \in Panel /\ panel'.active # None
    BY <1>4, <1>6, <1>8, <1>11, KindsDiffer DEF Panel
  <2>2. \A i \in ids' \ settled' : i = panel'.creating
    BY <1>3, <1>7, <1>8 DEF PageInv, SoundPanel
  <2> QED
    BY <1>3, <1>5, <1>8, <1>12, <2>1, <2>2 DEF PageInv, SoundPanel
<1> QED
  BY <1>10, <1>13, <1>14 DEF PageInv

-----------------------------------------------------------------------------
(* Together                                                                *)

LEMMA PageInitially ==
  ASSUME PageInit
  PROVE  PageInv
<1>1. PICK t \in Tenant :
        page = [tenant |-> t, mounted |-> TRUE, life |-> 0] /\ server = [tenant |-> t, operations |-> {}]
  BY BrowserPageAssumption DEF PageInit
<1>2. /\ panel = NewPanel /\ fetch = [f \in Fetch |-> NoFetch]
      /\ ids = {} /\ settled = {} /\ upsets = 0
  BY DEF PageInit
<1>3. NoFetch \in FetchState /\ \A f \in Fetch : SoundFetch(f, NoFetch)
  <2>1. \A f : SoundFetch(f, NoFetch)
    BY NoFetchIsSound
  <2>2. 0 \in 0 .. Upsets
    BY BrowserPageAssumption
  <2> QED
    BY <2>1, <2>2 DEF NoFetch, FetchState
<1>4. /\ NewPanel \in [active : Fetch \cup {None}, busy : BOOLEAN, creating : RequestId \cup {None},
                       list : SUBSET [id : RequestId, asked : Tenant]]
      /\ ~NewPanel.busy /\ NewPanel.active = None /\ NewPanel.creating = None /\ NewPanel.list = {}
  BY DEF NewPanel
<1>5. 0 \in 0 .. Upsets
  BY BrowserPageAssumption
<1>6. PageTypeOK
  <2>1. page \in [tenant : Tenant, mounted : BOOLEAN, life : 0 .. Upsets]
    BY <1>1, <1>5
  <2>2. server \in [tenant : Tenant, operations : SUBSET Operation]
    BY <1>1
  <2>3. fetch \in [Fetch -> FetchState]
    BY <1>2, <1>3
  <2> QED
    BY <1>2, <1>4, <1>5, <2>1, <2>2, <2>3 DEF PageTypeOK
<1>7. SoundPanel
  BY <1>1, <1>2, <1>4 DEF SoundPanel
<1> QED
  BY <1>2, <1>3, <1>6, <1>7 DEF PageInv

LEMMA PageStepsKeep ==
  ASSUME PageInv, [PageNext]_pageVars
  PROVE  PageInv'
<1>1. CASE UNCHANGED pageVars
  BY <1>1 DEF pageVars, PageInv, PageTypeOK, SoundPanel, SoundFetch
<1>2. CASE PageStep
  <2>1. ASSUME NEW f \in Fetch, Apply(f) \/ Serve(f) \/ Fail(f) \/ CallerAborts(f)
        PROVE  PageInv'
    BY <2>1, ApplyKeeps, ServeKeeps, FailKeeps, CallerAbortsKeeps
  <2>2. ASSUME NEW f \in Fetch,
               Show(f) \/ Acknowledge(f) \/ Answer(f) \/ Switched(f) \/ Heard(f)
        PROVE  PageInv'
    BY <2>2, ShowKeeps, AcknowledgeKeeps, AnswerKeeps, SwitchedKeeps, HeardKeeps
  <2>3. CASE Refresh \/ Create \/ SubmitTool \/ Switch
    BY <2>3, RefreshKeeps, CreateKeeps, SubmitToolKeeps, SwitchKeeps
  <2>4. CASE Reload \/ Leave \/ Mount
    BY <2>4, ReloadKeeps, LeaveKeeps, MountKeeps
  <2> QED
    BY <1>2, <2>1, <2>2, <2>3, <2>4 DEF PageStep
<1> QED
  BY <1>1, <1>2 DEF PageNext

\* Of the operations of a tenant that the panel has not shown there is only
\* that of the id it keeps.
LEMMA ThePanelIsSound ==
  ASSUME PageInv
  PROVE  PanelIsSound
<1>1. PanelIsCurrent
  <2>1. \A f \in Fetch : fetch[f].kind \in Panel => (f = panel.active <=> ~fetch[f].aborted)
    BY DEF PageInv, SoundFetch
  <2> QED
    BY <2>1 DEF PanelIsCurrent, PageInv, SoundPanel
<1>2. ASSUME NEW t \in Tenant
      PROVE  Cardinality({o \in server.operations : o.tenant = t /\ o.id \notin settled}) <= 1
  <2> DEFINE S == {o \in server.operations : o.tenant = t /\ o.id \notin settled}
             c == [id |-> panel.creating, tenant |-> t]
  <2>1. ASSUME NEW o \in S PROVE o = c
    <3>1. o \in Operation /\ o.tenant = t /\ o.id \notin settled
      BY PageTypes DEF PageInv
    <3>2. o.id \in ids
      BY DEF PageInv, SoundPanel
    <3>3. o.id = panel.creating
      BY <3>1, <3>2 DEF PageInv, SoundPanel
    <3> QED
      BY <3>1, <3>3 DEF Operation
  <2>2. IsFiniteSet({c}) /\ Cardinality({c}) = 1
    BY FS_Singleton
  <2>3. S \subseteq {c}
    BY <2>1
  <2> HIDE DEF S, c
  <2>4. Cardinality(S) <= 1
    BY <2>2, <2>3, FS_Subset
  <2> QED
    BY <2>4 DEF S
<1> QED
  BY <1>1, <1>2 DEF PanelIsSound, NoDoubleCreation

-----------------------------------------------------------------------------
(* What the tools answer                                                   *)

\* A call that is acknowledged, or answered, for the page as it is
TellsTheTruth(f) ==
  LET was == fetch[f] is == fetch'[f] IN
  /\ was.pc # "acknowledged" /\ is.pc = "acknowledged" =>
       /\ page.mounted /\ was.life = page.life /\ was.asked = page.tenant
       /\ \E t \in Tenant : [id |-> was.id, tenant |-> t] \in server.operations
  /\ was.pc # "answered" /\ is.pc = "answered" =>
       ~was.aborted /\ was.life = page.life

\* Steps that neither acknowledge nor answer
Silent == \A f \in Fetch : \/ fetch'[f].pc = fetch[f].pc
                           \/ fetch'[f].pc \notin {"acknowledged", "answered"}

LEMMA SilentIsTrue ==
  ASSUME Silent, NEW f \in Fetch
  PROVE  TellsTheTruth(f)
BY DEF Silent, TellsTheTruth

LEMMA AbortedIsSilent ==
  ASSUME PageInv, NEW f \in Fetch
  PROVE  Aborted(f).pc \in {fetch[f].pc, "idle"}
BY FetchFields DEF Aborted, NoFetch, FetchState

\* One request changes to one that is not acknowledged nor answered.
LEMMA OneIsSilent ==
  ASSUME PageInv, NEW f \in Fetch, NEW q, fetch' = [fetch EXCEPT ![f] = q],
         q.pc = fetch[f].pc \/ q.pc \notin {"acknowledged", "answered"}
  PROVE  Silent
BY DEF PageInv, PageTypeOK, Silent

LEMMA NewActiveIsSilent ==
  ASSUME PageInv, IdleFetches # {}, NEW q, q.pc = "sent", NEW n, n = NewFetch,
         fetch' = [AbortActive EXCEPT ![n] = q]
  PROVE  Silent
<1>1. n \in Fetch /\ fetch \in [Fetch -> FetchState]
  BY FreePlace DEF PageInv, PageTypeOK
<1>2. ASSUME NEW g \in Fetch
      PROVE  AbortActive[g] \in {fetch[g], Aborted(g)} /\ DOMAIN AbortActive = Fetch
  BY <1>1 DEF AbortActive
<1>3. ASSUME NEW g \in Fetch
      PROVE  AbortActive[g].pc \in {fetch[g].pc, "idle"}
  BY <1>2, AbortedIsSilent
<1>4. ASSUME NEW g \in Fetch
      PROVE  fetch'[g] = IF g = n THEN q ELSE AbortActive[g]
  BY <1>1, <1>2
<1> QED
  BY <1>3, <1>4 DEF Silent

LEMMA PageIsSilent ==
  ASSUME PageInv, Refresh \/ Create \/ SubmitTool \/ Switch \/ Reload \/ Leave \/ Mount
  PROVE  Silent
<1>1. ASSUME NEW kind, NEW id, Command(kind, id)
      PROVE  Silent
  <2>1. PICK n, q : n = NewFetch /\ q = Sent(kind, id, None, page.tenant, page.life)
    OBVIOUS
  <2>2. q.pc = "sent"
    BY <2>1 DEF Sent
  <2> QED
    BY <1>1, <2>1, <2>2, NewActiveIsSilent DEF Command
<1>2. ASSUME NEW kind, NEW id, NEW to, ToolCall(kind, id, to)
      PROVE  Silent
  <2>1. PICK n, q : n = NewFetch /\ q = Sent(kind, id, to, page.tenant, page.life)
    OBVIOUS
  <2>2. q.pc = "sent" /\ n \in Fetch
    BY <1>2, <2>1, FreePlace DEF Sent, ToolCall
  <2> QED
    BY <1>2, <2>1, <2>2, OneIsSilent DEF ToolCall
<1>3. CASE Refresh \/ Create
  BY <1>1, <1>3 DEF Refresh, Create
<1>4. CASE SubmitTool \/ Switch
  BY <1>2, <1>4 DEF SubmitTool, Switch
<1>5. CASE Reload
  <2>1. PICK n, q : n = NewFetch /\ q = Sent("refresh", None, None, server.tenant, page.life)
    OBVIOUS
  <2>2. q.pc = "sent"
    BY <2>1 DEF Sent
  <2> QED
    BY <1>5, <2>1, <2>2, NewActiveIsSilent DEF Reload
<1>6. CASE Leave
  <2>1. ASSUME NEW f \in Fetch PROVE fetch'[f] \in {Aborted(f), fetch[f]}
    BY <1>6 DEF Leave
  <2> QED
    BY <2>1, AbortedIsSilent DEF Silent
<1>7. CASE Mount
  <2>1. PICK n, q : n = NewFetch /\ q = Sent("refresh", None, None, server.tenant, page.life + 1)
    OBVIOUS
  <2>2. q.pc = "sent" /\ n \in Fetch
    BY <1>7, <2>1, FreePlace DEF Sent, Mount
  <2> QED
    BY <1>7, <2>1, <2>2, OneIsSilent DEF Mount
<1> QED
  BY <1>3, <1>4, <1>5, <1>6, <1>7

LEMMA RequestIsSilent ==
  ASSUME PageInv, NEW f \in Fetch,
         Apply(f) \/ Serve(f) \/ Fail(f) \/ CallerAborts(f) \/ Show(f) \/ Switched(f) \/ Heard(f)
  PROVE  Silent
<1>1. fetch \in [Fetch -> FetchState] /\ fetch[f] \in FetchState
  BY DEF PageInv, PageTypeOK
<1>2. CASE fetch' = [fetch EXCEPT ![f] = NoFetch]
  <2>1. NoFetch.pc = "idle"
    BY DEF NoFetch
  <2> QED
    BY <1>2, <2>1, OneIsSilent
<1>3. CASE fetch' = [fetch EXCEPT ![f] = Aborted(f)]
  BY <1>3, AbortedIsSilent, OneIsSilent
<1>4. ASSUME NEW p \in {"served", "failed", "shown"}, NEW b, NEW q,
             q = [fetch[f] EXCEPT !.pc = p, !.body = b] \/ q = [fetch[f] EXCEPT !.pc = p],
             fetch' = [fetch EXCEPT ![f] = q]
      PROVE  Silent
  <2>1. q.pc = p
    BY <1>1, <1>4 DEF FetchState
  <2> QED
    BY <1>4, <2>1, OneIsSilent
<1>5. CASE Apply(f) \/ Switched(f) \/ Heard(f)
  BY <1>2, <1>5 DEF Apply, Switched, Heard, Ends
<1>6. CASE CallerAborts(f)
  BY <1>3, <1>6 DEF CallerAborts
<1>7. CASE Serve(f) /\ ~fetch[f].aborted
  <2>1. PICK b : fetch' = [fetch EXCEPT ![f].pc = "served", ![f].body = b]
    BY <1>7 DEF Serve
  <2>2. PICK q : q = [fetch[f] EXCEPT !.pc = "served", !.body = b]
    OBVIOUS
  <2>3. fetch' = [fetch EXCEPT ![f] = q]
    BY <1>1, <2>1, <2>2
  <2> QED
    BY <1>4, <2>2, <2>3
<1>8. CASE Fail(f) /\ ~fetch[f].aborted
  <2>1. PICK q : q = [fetch[f] EXCEPT !.pc = "failed"]
    OBVIOUS
  <2>2. fetch' = [fetch EXCEPT ![f] = q]
    BY <1>8, <2>1 DEF Fail
  <2> QED
    BY <1>4, <2>1, <2>2
<1>9. CASE (Serve(f) \/ Fail(f)) /\ fetch[f].aborted
  BY <1>2, <1>9 DEF Serve, Fail
<1>10. CASE Show(f)
  <2>1. CASE Ends(f)
    BY <1>2, <2>1 DEF Ends
  <2>2. CASE fetch' = [fetch EXCEPT ![f].pc = "shown"]
    <3>1. PICK q : q = [fetch[f] EXCEPT !.pc = "shown"]
      OBVIOUS
    <3>2. fetch' = [fetch EXCEPT ![f] = q]
      BY <2>2, <3>1
    <3> QED
      BY <1>4, <3>1, <3>2
  <2> QED
    BY <1>10, <2>1, <2>2 DEF Show
<1> QED
  BY <1>5, <1>6, <1>7, <1>8, <1>9, <1>10

LEMMA ToolsTellTheTruth ==
  ASSUME PageInv, [PageNext]_pageVars, NEW f \in Fetch
  PROVE  TellsTheTruth(f)
<1>1. CASE UNCHANGED pageVars
  <2>1. Silent
    BY <1>1 DEF pageVars, Silent
  <2> QED
    BY <2>1, SilentIsTrue
<1>2. ASSUME NEW g \in Fetch, Acknowledge(g) \/ Answer(g)
      PROVE  TellsTheTruth(f)
  <2>1. fetch \in [Fetch -> FetchState] /\ NoFetch.pc = "idle"
    BY DEF PageInv, PageTypeOK, NoFetch
  <2>2. g # f => fetch'[f] = fetch[f]
    BY <1>2, <2>1 DEF Acknowledge, Answer, Ends
  <2>3. CASE g # f
    BY <2>2, <2>3 DEF TellsTheTruth
  <2>4. CASE g = f /\ Acknowledge(f)
    <3> DEFINE o == fetch[f]
    <3>1. o.pc = "shown" /\ SoundFetch(f, o)
      BY <2>4, FetchFields DEF Acknowledge
    <3>2. o.kind = "submit" /\ \E t \in Tenant : [id |-> o.id, tenant |-> t] \in server.operations
      <4>1. o.kind \in Panel \cup Tool /\ o.kind \notin Panel \cup {"switch"}
        BY <3>1, FetchFields DEF SoundFetch
      <4> QED
        BY <3>1, <4>1 DEF SoundFetch, Tool
    <3>3. CASE Ends(f)
      <4>1. fetch'[f].pc = "idle"
        BY <2>1, <3>3 DEF Ends
      <4> QED
        BY <4>1 DEF TellsTheTruth
    <3>4. CASE ~Dropped(f) /\ fetch' = [fetch EXCEPT ![f].pc = "acknowledged"]
      <4>1. fetch'[f].pc = "acknowledged"
        BY <2>1, <3>4 DEF FetchState
      <4>2. ~o.aborted /\ page.tenant = o.asked
        BY <3>4 DEF Dropped
      <4>3. page.mounted /\ o.life = page.life
        BY <3>1, <3>2, <4>2 DEF SoundFetch
      <4> QED
        BY <3>2, <4>1, <4>2, <4>3 DEF TellsTheTruth
    <3> QED
      BY <2>4, <3>3, <3>4 DEF Acknowledge
  <2>5. CASE g = f /\ Answer(f)
    <3> DEFINE o == fetch[f]
    <3>1. CASE o.pc = "failed" \/ o.aborted
      <4>1. fetch'[f].pc = "idle"
        BY <2>1, <2>5, <3>1 DEF Answer
      <4> QED
        BY <4>1 DEF TellsTheTruth
    <3>2. CASE o.pc = "acknowledged" /\ ~o.aborted
      <4>1. fetch' = [fetch EXCEPT ![f] = [o EXCEPT !.pc = "answered"]]
        BY <2>5, <3>2 DEF Answer
      <4>2. fetch'[f].pc = "answered"
        BY <2>1, <4>1 DEF FetchState
      <4>3. SoundFetch(f, o) /\ o.kind \in Panel \cup Tool
        BY <3>2, FetchFields
      <4>4. o.kind = "submit"
        BY <3>2, <4>3 DEF SoundFetch, Tool
      <4>5. o.life = page.life
        BY <3>2, <4>3, <4>4 DEF SoundFetch
      <4> QED
        BY <3>2, <4>2, <4>5 DEF TellsTheTruth
    <3> QED
      BY <2>5, <3>1, <3>2 DEF Answer
  <2> QED
    BY <1>2, <2>3, <2>4, <2>5
<1>3. CASE Silent
  BY <1>3, SilentIsTrue
<1>4. CASE PageStep
  BY <1>2, <1>3, <1>4, PageIsSilent, RequestIsSilent DEF PageStep
<1> QED
  BY <1>1, <1>4 DEF PageNext
-----------------------------------------------------------------------------
(* The release gate                                                        *)

\* A run has come to the k-th stage, or through all of them.
Reached(r, k) ==
  \/ stage[r].pc = "run" /\ stage[r].at >= k
  \/ stage[r].pc \in {"diagnose", "remove", "passed"} /\ ~stage[r].failure

\* A web container that has answered was the run's own, and does not start
\* again: after the second one the seed stays.
TestsItsOwn(r) ==
  /\ Reached(r, 8) => version[r]["web"] = r /\ thing[r]["web"] # "started"
  /\ Reached(r, 9) => data[r] # "empty"
  /\ Reached(r, 16) => version[r]["restart"] = r /\ thing[r]["restart"] # "started"
  /\ Reached(r, 18) => data[r] = stage[r].seed

\* A network is there as long as a container of the run needs it.
NetworkStays(r) ==
  /\ stage[r].pc = "run" /\ stage[r].at > 3 => thing[r]["network"] = "up"
  /\ \A n \in Service : IsRunning(r, n) => thing[r]["network"] = "up"

\* Without an error, what should be gone by now and is not was missed.
Gone(r) == {Removals[i] : i \in 1 .. (stage[r].at - 1)}
Removes(r) ==
  /\ stage[r].pc = "remove" => stage[r].at <= Len(Removals)
  /\ stage[r].pc = "remove" /\ ~stage[r].failure =>
       Cardinality(Left(r) \cap Gone(r)) <= stage[r].missed
  /\ stage[r].pc = "passed" => ~stage[r].failure /\ Cardinality(Left(r)) <= stage[r].missed
  /\ stage[r].missed <= mishaps

GoesWell(r) == TestsItsOwn(r) /\ NetworkStays(r) /\ Removes(r)
LeavesOthers == \A t \in gate.taken : thing[t[1]][t[2]] = "foreign"
GateInv == GateTypeOK /\ (\A r \in Gate : GoesWell(r)) /\ LeavesOthers

\* The stages by their numbers
LEMMA StagesAre ==
  /\ Len(Stages) = 19
  /\ Stages[1] = "buildWeb" /\ Stages[2] = "buildWorker" /\ Stages[3] = "createNetwork"
  /\ Stages[4] = "startPostgres" /\ Stages[5] = "awaitPostgres" /\ Stages[6] = "startWeb"
  /\ Stages[7] = "awaitWeb" /\ Stages[8] = "readTables" /\ Stages[9] = "readSeed"
  /\ Stages[10] = "startOidc" /\ Stages[11] = "awaitOidc" /\ Stages[12] = "startWorker"
  /\ Stages[13] = "materialize" /\ Stages[14] = "startRestart" /\ Stages[15] = "awaitRestart"
  /\ Stages[16] = "probe" /\ Stages[17] = "compareSeed" /\ Stages[18] = "session"
  /\ Stages[19] = "suite"
BY DEF Stages

\* Where a run is when it is at a stage
LEMMA StageOf ==
  ASSUME NEW k \in 1 .. Len(Stages)
  PROVE  /\ Stages[k] \in {"buildWeb", "buildWorker"} => k < 3
         /\ Stages[k] = "createNetwork" => k = 3
         /\ Stages[k] = "startPostgres" => k = 4
         /\ Stages[k] = "awaitPostgres" => k = 5
         /\ Stages[k] = "startWeb" => k = 6
         /\ Stages[k] = "awaitWeb" => k = 7
         /\ Stages[k] = "readTables" => k = 8
         /\ Stages[k] = "readSeed" => k = 9
         /\ Stages[k] = "startOidc" => k = 10
         /\ Stages[k] = "awaitOidc" => k = 11
         /\ Stages[k] = "startWorker" => k = 12
         /\ Stages[k] = "materialize" => k = 13
         /\ Stages[k] = "startRestart" => k = 14
         /\ Stages[k] = "awaitRestart" => k = 15
         /\ Stages[k] = "probe" => k = 16
         /\ Stages[k] = "compareSeed" => k = 17
         /\ Stages[k] \in {"session", "suite"} => k \in 18 .. 19
BY StagesAre

\* What belongs to a run keeps its type.
LEMMA RunTypes ==
  ASSUME GateTypeOK, NEW r \in Gate
  PROVE  /\ stage[r] \in StageState /\ stage[r].at \in 1 .. 19
         /\ stage[r].failure \in BOOLEAN /\ stage[r].missed \in Nat
         /\ \A n \in Thing : thing[r][n] \in {"absent", "foreign", "created", "started", "up", "exited"}
         /\ mishaps \in Nat /\ gate.mishaps \in Nat
<1>1. gate.mishaps \in Nat
  BY ProductionRunAssumption DEF GateTypeOK, GateSetup
<1> QED
  BY <1>1, StagesAre DEF GateTypeOK, StageState

\* A step of a run leaves the others alone.
StepOf(r) ==
  /\ gate' = gate /\ mishaps \in Nat /\ mishaps' \in mishaps .. gate.mishaps
  /\ \A x \in Gate \ {r} : /\ stage'[x] = stage[x] /\ thing'[x] = thing[x]
                           /\ version'[x] = version[x] /\ data'[x] = data[x]
  /\ \A n \in Thing : thing[r][n] = "foreign" => thing'[r][n] = "foreign"

LEMMA GateStepKeeps ==
  ASSUME GateInv, NEW r \in Gate, StepOf(r), GateTypeOK', GoesWell(r)'
  PROVE  GateInv'
<1>1. ASSUME NEW x \in Gate, x # r PROVE GoesWell(x)'
  <2>1. /\ stage'[x] = stage[x] /\ thing'[x] = thing[x] /\ version'[x] = version[x]
        /\ data'[x] = data[x] /\ mishaps <= mishaps' /\ GoesWell(x)
    BY <1>1 DEF StepOf, GateInv
  <2>2. TestsItsOwn(x)'
    BY <2>1 DEF GoesWell, TestsItsOwn, Reached
  <2>3. NetworkStays(x)'
    BY <2>1 DEF GoesWell, NetworkStays, IsRunning
  <2>4. Left(x)' = Left(x) /\ Gone(x)' = Gone(x)
    BY <2>1 DEF Left, Gone
  <2>5. stage[x].missed \in Nat /\ mishaps \in Nat /\ mishaps' \in Nat
    BY RunTypes DEF GateInv, StepOf
  <2>6. Removes(x)'
    BY <2>1, <2>4, <2>5 DEF GoesWell, Removes
  <2> QED
    BY <2>2, <2>3, <2>6 DEF GoesWell
<1>2. LeavesOthers'
  <2> SUFFICES ASSUME NEW t \in gate.taken PROVE thing'[t[1]][t[2]] = "foreign"
    BY DEF LeavesOthers, StepOf
  <2>1. t \in Gate \X Thing
    BY ProductionRunAssumption DEF GateInv, GateTypeOK, GateSetup
  <2>2. thing[t[1]][t[2]] = "foreign"
    BY DEF GateInv, LeavesOthers
  <2> QED
    BY <2>1, <2>2 DEF StepOf
<1> QED
  BY <1>1, <1>2 DEF GateInv

\* The next stage, if what the run has shown is so
LEMMA ProceedsStep ==
  ASSUME GateInv, NEW r \in Gate, stage[r].pc = "run", Proceeds(r), StepOf(r),
         stage[r].at >= 7 => version'[r]["web"] = r /\ thing'[r]["web"] # "started",
         stage[r].at >= 8 => data'[r] # "empty",
         stage[r].at >= 15 => version'[r]["restart"] = r /\ thing'[r]["restart"] # "started",
         stage[r].at >= 17 => data'[r] = stage[r].seed,
         stage[r].at >= 3 => thing'[r]["network"] = "up",
         \A n \in Service : IsRunning(r, n)' => thing'[r]["network"] = "up"
  PROVE  GoesWell(r)' /\ stage' \in [Gate -> StageState]
<1>1. stage[r] \in StageState /\ stage[r].at \in 1 .. 19 /\ Len(Stages) = 19
  BY RunTypes, StagesAre DEF GateInv
<1>2. stage[r].missed <= mishaps /\ stage[r].missed \in Nat /\ mishaps' >= mishaps
  <2>1. stage[r].missed \in Nat /\ mishaps \in Nat /\ gate.mishaps \in Nat
    BY RunTypes DEF GateInv
  <2>2. stage[r].missed <= mishaps /\ mishaps' \in mishaps .. gate.mishaps
    BY DEF GateInv, GoesWell, Removes, StepOf
  <2> QED
    BY <2>1, <2>2
<1>3. stage'[r] = IF stage[r].at < 19 THEN [stage[r] EXCEPT !.at = stage[r].at + 1]
                  ELSE [stage[r] EXCEPT !.pc = "diagnose"]
  <2>1. stage \in [Gate -> StageState]
    BY DEF GateInv, GateTypeOK
  <2> DEFINE t == IF stage[r].at < Len(Stages) THEN [stage[r] EXCEPT !.at = stage[r].at + 1]
                  ELSE [stage[r] EXCEPT !.pc = "diagnose"]
  <2>2. stage' = [stage EXCEPT ![r] = t]
    BY DEF Proceeds
  <2>3. stage'[r] = t
    BY <2>1, <2>2
  <2> QED
    BY <1>1, <2>3
<1>4. stage'[r] \in StageState
  BY <1>1, <1>3 DEF StageState
<1>5. stage' \in [Gate -> StageState]
  BY <1>4 DEF Proceeds, GateInv, GateTypeOK
<1>6. /\ stage'[r].pc \in {"run", "diagnose"}
      /\ stage'[r].pc = "run" => stage'[r].at = stage[r].at + 1
      /\ stage'[r].pc = "diagnose" => stage[r].at = 19
      /\ stage'[r].seed = stage[r].seed /\ stage'[r].missed = stage[r].missed
  BY <1>1, <1>3 DEF StageState
<1>7. TestsItsOwn(r)'
  BY <1>1, <1>6 DEF TestsItsOwn, Reached
<1>8. NetworkStays(r)'
  BY <1>1, <1>6 DEF NetworkStays
<1>9. Removes(r)'
  BY <1>1, <1>2, <1>6 DEF Removes, StepOf
<1> QED
  BY <1>5, <1>7, <1>8, <1>9 DEF GoesWell

\* The end of the stages with an error
LEMMA ThrowsStep ==
  ASSUME GateInv, NEW r \in Gate, Throws(r), StepOf(r),
         \A n \in Service : IsRunning(r, n)' => thing'[r]["network"] = "up"
  PROVE  GoesWell(r)' /\ stage' \in [Gate -> StageState]
<1>1. stage[r] \in StageState
  BY RunTypes DEF GateInv
<1>2. stage[r].missed <= mishaps /\ stage[r].missed \in Nat /\ mishaps' >= mishaps
  <2>1. stage[r].missed \in Nat /\ mishaps \in Nat /\ gate.mishaps \in Nat
    BY RunTypes DEF GateInv
  <2>2. stage[r].missed <= mishaps /\ mishaps' \in mishaps .. gate.mishaps
    BY DEF GateInv, GoesWell, Removes, StepOf
  <2> QED
    BY <2>1, <2>2
<1>3. stage'[r] = [stage[r] EXCEPT !.pc = "diagnose", !.failure = TRUE]
  BY <1>1 DEF Throws, GateInv, GateTypeOK
<1>4. stage'[r] \in StageState
  BY <1>1, <1>3 DEF StageState
<1>5. stage' \in [Gate -> StageState]
  BY <1>4 DEF Throws, GateInv, GateTypeOK
<1>6. stage'[r].pc = "diagnose" /\ stage'[r].failure /\ stage'[r].missed = stage[r].missed
  BY <1>1, <1>3 DEF StageState
<1>7. Removes(r)'
  BY <1>2, <1>6, RunTypes DEF Removes, StepOf, GateInv
<1> QED
  BY <1>5, <1>6, <1>7 DEF GoesWell, TestsItsOwn, Reached, NetworkStays

\* Nothing has happened on the host, nor to the run's own containers.
LEMMA HostStays ==
  ASSUME GateInv, NEW r \in Gate, UNCHANGED <<gate, thing, version, data>>,
         Mishap \/ UNCHANGED mishaps,
         Throws(r) \/ Proceeds(r)
  PROVE  StepOf(r) /\ \A n \in Service : IsRunning(r, n)' => thing'[r]["network"] = "up"
<1>1. mishaps \in Nat /\ gate.mishaps \in Nat /\ mishaps <= gate.mishaps
  BY RunTypes DEF GateInv, GateTypeOK
<1>2. \A x \in Gate \ {r} : stage'[x] = stage[x]
  BY DEF Throws, Proceeds, GateInv, GateTypeOK
<1>3. mishaps' \in mishaps .. gate.mishaps
  BY <1>1 DEF Mishap
<1> QED
  BY <1>1, <1>2, <1>3 DEF StepOf, GateInv, GoesWell, NetworkStays, IsRunning

\* A stage that looks at the host and changes nothing there: it throws, or it
\* goes on, at the first tests with what they have found.
LEMMA LooksStep ==
  ASSUME GateInv, NEW r \in Gate, stage[r].pc = "run", UNCHANGED <<gate, thing, version, data>>,
         tagged' \in [Gate -> Gate \cup {"none"}], Mishap \/ UNCHANGED mishaps,
         \/ Throws(r)
         \/ /\ Proceeds(r)
            /\ stage[r].at # 3
            /\ stage[r].at = 7 => IsUp(r, "web") /\ version[r]["web"] = r
            /\ stage[r].at = 8 => data[r] # "empty"
            /\ stage[r].at = 15 => IsUp(r, "restart") /\ version[r]["restart"] = r
            /\ stage[r].at = 17 => data[r] = stage[r].seed
  PROVE  GateInv'
<1>1. StepOf(r) /\ \A n \in Service : IsRunning(r, n)' => thing'[r]["network"] = "up"
  BY HostStays
<1>2. GoesWell(r)' /\ stage' \in [Gate -> StageState]
  <2>1. CASE Throws(r)
    BY <1>1, <2>1, ThrowsStep
  <2>2. ASSUME Proceeds(r), stage[r].at # 3,
               stage[r].at = 7 => IsUp(r, "web") /\ version[r]["web"] = r,
               stage[r].at = 8 => data[r] # "empty",
               stage[r].at = 15 => IsUp(r, "restart") /\ version[r]["restart"] = r,
               stage[r].at = 17 => data[r] = stage[r].seed
        PROVE  GoesWell(r)' /\ stage' \in [Gate -> StageState]
    <3>1. stage[r].at \in 1 .. 19
      BY RunTypes DEF GateInv
    <3>2. GoesWell(r)
      BY DEF GateInv
    <3>3. stage[r].at >= 7 => version'[r]["web"] = r /\ thing'[r]["web"] # "started"
      BY <2>2, <3>1, <3>2 DEF GoesWell, TestsItsOwn, Reached, IsUp
    <3>7. stage[r].at >= 8 => data'[r] # "empty"
      BY <2>2, <3>1, <3>2 DEF GoesWell, TestsItsOwn, Reached
    <3>4. stage[r].at >= 15 => version'[r]["restart"] = r /\ thing'[r]["restart"] # "started"
      BY <2>2, <3>1, <3>2 DEF GoesWell, TestsItsOwn, Reached, IsUp
    <3>5. stage[r].at >= 17 => data'[r] = stage[r].seed
      BY <2>2, <3>1, <3>2 DEF GoesWell, TestsItsOwn, Reached
    <3>6. stage[r].at >= 3 => thing'[r]["network"] = "up"
      BY <2>2, <3>1, <3>2 DEF GoesWell, NetworkStays
    <3> QED
      BY <1>1, <2>2, <3>3, <3>4, <3>5, <3>6, <3>7, ProceedsStep
  <2> QED
    BY <2>1, <2>2
<1>3. GateTypeOK'
  BY <1>1, <1>2, RunTypes DEF GateInv, GateTypeOK, StepOf, StageState
<1> QED
  BY <1>1, <1>2, <1>3, GateStepKeeps

Condition == {"absent", "foreign", "created", "started", "up", "exited"}

\* One thing of a run changes, which is nobody else's.
ChangesTo(r, n, c) == thing' = [thing EXCEPT ![r][n] = c]
LEMMA ThingChanges ==
  ASSUME GateTypeOK, NEW r \in Gate, NEW n \in Thing, NEW c \in Condition,
         thing[r][n] # "foreign", ChangesTo(r, n, c)
  PROVE  /\ thing' \in [Gate -> [Thing -> Condition]] /\ thing'[r][n] = c
         /\ \A m \in Thing \ {n} : thing'[r][m] = thing[r][m]
         /\ \A x \in Gate \ {r} : thing'[x] = thing[x]
         /\ \A m \in Thing : thing[r][m] = "foreign" => thing'[r][m] = "foreign"
<1>1. thing \in [Gate -> [Thing -> Condition]]
  BY DEF GateTypeOK, Condition
<1> QED
  BY <1>1 DEF ChangesTo

\* docker run, whatever container it is
LEMMA RunsStep ==
  ASSUME GateInv, NEW r \in Gate, NEW n \in Service, stage[r].pc = "run", Runs(r, n),
         stage[r].at \in {4, 6, 10, 12, 14}, n = "web" => stage[r].at = 6, UNCHANGED <<gate, tagged>>,
         version' \in [Gate -> [{"web", "restart"} -> Gate \cup {"none"}]],
         data' \in [Gate -> {"none", "empty", "seeded", "drifted"}],
         \A x \in Gate \ {r} : version'[x] = version[x] /\ data'[x] = data[x],
         stage[r].at # 6 => version'[r]["web"] = version[r]["web"],
         stage[r].at # 4 => data'[r] = data[r]
  PROVE  GateInv'
<1>1. stage[r] \in StageState /\ GoesWell(r) /\ GateTypeOK
  BY RunTypes DEF GateInv
<1>2. thing[r]["network"] = "up" /\ n \in Thing /\ n # "network" /\ "network" \in Thing
  BY <1>1 DEF GoesWell, NetworkStays, Thing, Service
<1>3. mishaps \in Nat /\ mishaps' \in mishaps .. gate.mishaps
  <2>1. mishaps \in 0 .. gate.mishaps /\ gate.mishaps \in Nat
    BY <1>1, RunTypes DEF GateTypeOK
  <2> QED
    BY <2>1 DEF Runs, Mishap
<1>4. \/ thing' = thing /\ Throws(r)
      \/ thing[r][n] = "absent" /\ thing' = [thing EXCEPT ![r][n] = "started"] /\ Proceeds(r)
      \/ thing[r][n] = "absent" /\ thing' = [thing EXCEPT ![r][n] = "created"] /\ Throws(r)
  BY DEF Runs
<1>5. /\ thing' \in [Gate -> [Thing -> Condition]]
      /\ \A m \in Thing \ {n} : thing'[r][m] = thing[r][m]
      /\ \A x \in Gate \ {r} : thing'[x] = thing[x]
      /\ \A m \in Thing : thing[r][m] = "foreign" => thing'[r][m] = "foreign"
  <2>1. CASE thing' = thing
    BY <1>1, <2>1 DEF GateTypeOK, Condition
  <2>2. CASE thing[r][n] = "absent" /\ thing' = [thing EXCEPT ![r][n] = "started"]
    <3>1. "started" \in Condition /\ thing[r][n] # "foreign"
      BY <2>2 DEF Condition
    <3>2. ChangesTo(r, n, "started")
      BY <2>2 DEF ChangesTo
    <3> QED
      BY <1>1, <1>2, <3>1, <3>2, ThingChanges
  <2>3. CASE thing[r][n] = "absent" /\ thing' = [thing EXCEPT ![r][n] = "created"]
    <3>1. "created" \in Condition /\ thing[r][n] # "foreign"
      BY <2>3 DEF Condition
    <3>2. ChangesTo(r, n, "created")
      BY <2>3 DEF ChangesTo
    <3> QED
      BY <1>1, <1>2, <3>1, <3>2, ThingChanges
  <2> QED
    BY <1>4, <2>1, <2>2, <2>3
<1>6. \A x \in Gate \ {r} : stage'[x] = stage[x]
  BY <1>1, <1>4 DEF Throws, Proceeds, GateTypeOK
<1>7. StepOf(r)
  BY <1>3, <1>5, <1>6 DEF StepOf
<1>8. thing'[r]["network"] = "up"
  BY <1>2, <1>5
<1>9. GoesWell(r)' /\ stage' \in [Gate -> StageState]
  <2>1. CASE Throws(r)
    BY <1>7, <1>8, <2>1, ThrowsStep
  <2>2. CASE Proceeds(r)
    <3>1. stage[r].at >= 7 => version'[r]["web"] = r /\ thing'[r]["web"] # "started"
      <4> SUFFICES ASSUME stage[r].at >= 7
                   PROVE  version'[r]["web"] = r /\ thing'[r]["web"] # "started"
        OBVIOUS
      <4>1. n # "web" /\ "web" \in Thing /\ version'[r]["web"] = version[r]["web"]
        BY DEF Thing, Service
      <4>2. thing'[r]["web"] = thing[r]["web"]
        BY <1>5, <4>1
      <4>3. stage[r].at >= 8
        OBVIOUS
      <4>4. Reached(r, 8)
        BY <4>3 DEF Reached
      <4> QED
        BY <1>1, <4>1, <4>2, <4>4 DEF GoesWell, TestsItsOwn
    <3>2. stage[r].at >= 8 => data'[r] # "empty"
      BY <1>1 DEF GoesWell, TestsItsOwn, Reached
    <3> QED
      BY <1>7, <1>8, <2>2, <3>1, <3>2, ProceedsStep
  <2> QED
    BY <1>4, <2>1, <2>2
<1>10. GateTypeOK'
  <2>1. mishaps' \in 0 .. gate.mishaps
    BY <1>3
  <2> QED
    BY <1>1, <1>5, <1>9, <2>1 DEF GateTypeOK, StageState, Condition
<1> QED
  BY <1>7, <1>9, <1>10, GateStepKeeps

\* A run that is at a stage runs, and where
LEMMA AtStage ==
  ASSUME GateInv, NEW r \in Gate, NEW name, At(r, name)
  PROVE  stage[r].pc = "run" /\ stage[r].at \in 1 .. Len(Stages) /\ Stages[stage[r].at] = name
BY RunTypes, StagesAre DEF At, GateInv

LEMMA BuildImagesStep ==
  ASSUME GateInv, NEW r \in Gate, BuildImages(r)
  PROVE  GateInv'
<1>1. stage[r].pc = "run" /\ stage[r].at \in 1 .. Len(Stages) /\ stage[r].at < 3
  BY AtStage, StageOf DEF BuildImages
<1>2. tagged \in [Gate -> Gate \cup {"none"}]
  BY DEF GateInv, GateTypeOK
<1>3. tagged' \in [Gate -> Gate \cup {"none"}]
  BY <1>2 DEF BuildImages
<1> QED
  BY <1>1, <1>3, LooksStep, StagesAre DEF BuildImages

LEMMA CreateNetworkStep ==
  ASSUME GateInv, NEW r \in Gate, CreateNetwork(r)
  PROVE  GateInv'
<1>1. stage[r].pc = "run" /\ stage[r].at = 3
  BY AtStage, StageOf DEF CreateNetwork
<1>2. tagged' \in [Gate -> Gate \cup {"none"}]
  BY DEF CreateNetwork, GateInv, GateTypeOK
<1>3. CASE thing[r]["network"] # "absent"
  BY <1>1, <1>2, <1>3, LooksStep DEF CreateNetwork
<1>4. CASE thing[r]["network"] = "absent"
  <2>1. ChangesTo(r, "network", "up") /\ Proceeds(r) /\ UNCHANGED <<gate, version, data, mishaps>>
    BY <1>4 DEF CreateNetwork, ChangesTo
  <2>2. "network" \in Thing /\ "up" \in Condition /\ Service \subseteq Thing
    BY DEF Thing, Condition
  <2>3. GateTypeOK /\ thing[r]["network"] # "foreign"
    BY <1>4 DEF GateInv
  <2>4. /\ thing' \in [Gate -> [Thing -> Condition]] /\ thing'[r]["network"] = "up"
        /\ \A x \in Gate \ {r} : thing'[x] = thing[x]
        /\ \A m \in Thing : thing[r][m] = "foreign" => thing'[r][m] = "foreign"
    BY <2>1, <2>2, <2>3, ThingChanges
  <2>5. mishaps \in Nat /\ gate.mishaps \in Nat /\ mishaps \in 0 .. gate.mishaps
    BY <2>3, RunTypes DEF GateTypeOK
  <2>6. \A x \in Gate \ {r} : stage'[x] = stage[x]
    BY <2>1, <2>3 DEF Proceeds, GateTypeOK
  <2>7. StepOf(r)
    BY <2>1, <2>4, <2>5, <2>6 DEF StepOf
  <2>8. GoesWell(r)' /\ stage' \in [Gate -> StageState]
    BY <1>1, <2>1, <2>4, <2>7, ProceedsStep
  <2>9. GateTypeOK'
    BY <1>2, <2>1, <2>3, <2>4, <2>8 DEF GateTypeOK, StageState, Condition
  <2> QED
    BY <2>7, <2>8, <2>9, GateStepKeeps
<1> QED
  BY <1>3, <1>4

LEMMA StartsStep ==
  ASSUME GateInv, NEW r \in Gate,
         StartPostgres(r) \/ StartWeb(r) \/ StartOidcReadinessServer(r) \/ StartReportWorker(r)
  PROVE  GateInv'
<1>1. /\ version \in [Gate -> [{"web", "restart"} -> Gate \cup {"none"}]]
      /\ data \in [Gate -> {"none", "empty", "seeded", "drifted"}]
      /\ tagged \in [Gate -> Gate \cup {"none"}]
  BY DEF GateInv, GateTypeOK
<1>2. \A n \in {"postgres", "web", "restart", "oidc", "worker"} : n \in Service
  BY DEF Service
<1>3. CASE StartPostgres(r)
  <2>1. stage[r].pc = "run" /\ stage[r].at = 4 /\ Runs(r, "postgres")
    BY <1>3, AtStage, StageOf DEF StartPostgres
  <2>2. data' \in [Gate -> {"none", "empty", "seeded", "drifted"}] /\ \A x \in Gate \ {r} : data'[x] = data[x]
    BY <1>1, <1>3 DEF StartPostgres
  <2> QED
    BY <1>1, <1>2, <1>3, <2>1, <2>2, RunsStep DEF StartPostgres
<1>4. CASE StartOidcReadinessServer(r)
  <2>1. stage[r].pc = "run" /\ stage[r].at = 10 /\ Runs(r, "oidc")
    BY <1>4, AtStage, StageOf DEF StartOidcReadinessServer
  <2> QED
    BY <1>1, <1>2, <1>4, <2>1, RunsStep DEF StartOidcReadinessServer
<1>5. CASE StartReportWorker(r)
  <2>1. stage[r].pc = "run" /\ stage[r].at = 12 /\ Runs(r, "worker")
    BY <1>5, AtStage, StageOf DEF StartReportWorker
  <2> QED
    BY <1>1, <1>2, <1>5, <2>1, RunsStep DEF StartReportWorker
<1>6. ASSUME NEW n \in {"web", "restart"}, RunWeb(r, n)
      PROVE  /\ version' \in [Gate -> [{"web", "restart"} -> Gate \cup {"none"}]]
             /\ \A x \in Gate \ {r} : version'[x] = version[x]
             /\ n = "restart" => version'[r]["web"] = version[r]["web"]
  BY <1>1, <1>6 DEF RunWeb
<1>7. CASE At(r, "startWeb") /\ RunWeb(r, "web")
  <2>1. stage[r].pc = "run" /\ stage[r].at = 6 /\ Runs(r, "web")
    BY <1>7, AtStage, StageOf DEF RunWeb
  <2> QED
    BY <1>1, <1>2, <1>6, <1>7, <2>1, RunsStep DEF RunWeb
<1>8. CASE At(r, "startRestart") /\ RunWeb(r, "restart")
  <2>1. stage[r].pc = "run" /\ stage[r].at = 14 /\ Runs(r, "restart")
    BY <1>8, AtStage, StageOf DEF RunWeb
  <2> QED
    BY <1>1, <1>2, <1>6, <1>8, <2>1, RunsStep DEF RunWeb
<1> QED
  BY <1>3, <1>4, <1>5, <1>7, <1>8 DEF StartWeb

LEMMA AwaitsStep ==
  ASSUME GateInv, NEW r \in Gate, AwaitPostgres(r) \/ AwaitWeb(r) \/ AwaitOidc(r)
  PROVE  GateInv'
<1>1. tagged \in [Gate -> Gate \cup {"none"}]
  BY DEF GateInv, GateTypeOK
<1>2. ASSUME NEW name \in {"awaitPostgres", "awaitOidc"}, NEW n, Await(r, name, n)
      PROVE  GateInv'
  <2>1. stage[r].pc = "run" /\ stage[r].at \in {5, 11}
    BY <1>2, AtStage, StageOf DEF Await
  <2> QED
    BY <1>1, <1>2, <2>1, LooksStep DEF Await
<1>3. ASSUME IsUp(r, "web") => version[r]["web"] = r, Await(r, "awaitWeb", "web")
      PROVE  GateInv'
  <2>1. stage[r].pc = "run" /\ stage[r].at = 7
    BY <1>3, AtStage, StageOf DEF Await
  <2> QED
    BY <1>1, <1>3, <2>1, LooksStep DEF Await
<1>4. ASSUME IsUp(r, "restart") => version[r]["restart"] = r, Await(r, "awaitRestart", "restart")
      PROVE  GateInv'
  <2>1. stage[r].pc = "run" /\ stage[r].at = 15
    BY <1>4, AtStage, StageOf DEF Await
  <2> QED
    BY <1>1, <1>4, <2>1, LooksStep DEF Await
<1>5. ASSUME NEW name, At(r, name), Throws(r),
             UNCHANGED <<gate, tagged, thing, version, data, mishaps>>
      PROVE  GateInv'
  BY <1>1, <1>5, AtStage, LooksStep
<1>6. CASE AwaitWeb(r)
  <2>1. PICK n \in {"web", "restart"} :
          LET name == IF n = "web" THEN "awaitWeb" ELSE "awaitRestart" IN
            \/ (IsUp(r, n) => version[r][n] = r) /\ Await(r, name, n)
            \/ /\ At(r, name) /\ Throws(r)
               /\ UNCHANGED <<gate, tagged, thing, version, data, mishaps>>
    BY <1>6 DEF AwaitWeb
  <2>2. CASE n = "web"
    BY <1>3, <1>5, <2>1, <2>2
  <2>3. CASE n = "restart"
    BY <1>4, <1>5, <2>1, <2>3
  <2> QED
    BY <2>2, <2>3
<1> QED
  BY <1>2, <1>6 DEF AwaitPostgres, AwaitOidc

LEMMA LooksOnly ==
  ASSUME GateInv, NEW r \in Gate,
         \/ ReadDatabaseTables(r) \/ MaterializeReport(r) \/ ProbeCriticalRoutes(r)
         \/ CompareSeed(r) \/ SessionAndSuite(r) \/ CommandFails(r)
  PROVE  GateInv'
<1>1. tagged \in [Gate -> Gate \cup {"none"}]
  BY DEF GateInv, GateTypeOK
<1>2. CASE ReadDatabaseTables(r)
  <2>1. stage[r].pc = "run" /\ stage[r].at = 8
    BY <1>2, AtStage, StageOf DEF ReadDatabaseTables
  <2> QED
    BY <1>1, <1>2, <2>1, LooksStep DEF ReadDatabaseTables
<1>3. CASE MaterializeReport(r)
  <2>1. stage[r].pc = "run" /\ stage[r].at = 13
    BY <1>3, AtStage, StageOf DEF MaterializeReport
  <2>2. /\ Throws(r) \/ Proceeds(r)
        /\ Mishap \/ UNCHANGED mishaps
        /\ UNCHANGED <<gate, tagged, thing, version, data>>
    BY <1>3 DEF MaterializeReport
  <2> QED
    BY <1>1, <2>1, <2>2, LooksStep
<1>4. CASE ProbeCriticalRoutes(r)
  <2>1. stage[r].pc = "run" /\ stage[r].at = 16
    BY <1>4, AtStage, StageOf DEF ProbeCriticalRoutes
  <2> QED
    BY <1>1, <1>4, <2>1, LooksStep DEF ProbeCriticalRoutes
<1>5. CASE CompareSeed(r)
  <2>1. stage[r].pc = "run" /\ stage[r].at = 17
    BY <1>5, AtStage, StageOf DEF CompareSeed
  <2>2. Throws(r) \/ (Proceeds(r) /\ data[r] = stage[r].seed)
    BY <1>5 DEF CompareSeed
  <2>3. UNCHANGED <<gate, tagged, thing, version, data, mishaps>>
    BY <1>5 DEF CompareSeed
  <2> QED
    BY <1>1, <2>1, <2>2, <2>3, LooksStep
<1>6. CASE SessionAndSuite(r)
  <2>1. stage[r].pc = "run" /\ stage[r].at \in 18 .. 19
    BY <1>6, AtStage, StageOf DEF SessionAndSuite
  <2> QED
    BY <1>1, <1>6, <2>1, LooksStep DEF SessionAndSuite
<1>7. CASE CommandFails(r)
  BY <1>1, <1>7, LooksStep DEF CommandFails
<1> QED
  BY <1>2, <1>3, <1>4, <1>5, <1>6, <1>7

LEMMA ReadSeedStep ==
  ASSUME GateInv, NEW r \in Gate, ReadSeedSnapshot(r)
  PROVE  GateInv'
<1>1. stage[r].pc = "run" /\ stage[r].at = 9 /\ tagged \in [Gate -> Gate \cup {"none"}]
  BY AtStage, StageOf DEF ReadSeedSnapshot, GateInv, GateTypeOK
<1>2. CASE Throws(r)
  BY <1>1, <1>2, LooksStep DEF ReadSeedSnapshot
<1>3. CASE stage' = [stage EXCEPT ![r].at = @ + 1, ![r].seed = data[r]]
  <2> DEFINE s == [stage[r] EXCEPT !.at = 10, !.seed = data[r]]
  <2>1. stage[r] \in StageState /\ GoesWell(r) /\ GateTypeOK
    BY RunTypes DEF GateInv
  <2>2. UNCHANGED <<gate, tagged, thing, version, data, mishaps>>
    BY <1>3 DEF ReadSeedSnapshot
  <2>3. stage \in [Gate -> StageState] /\ data[r] \in {"none", "seeded", "drifted"}
    <3>1. Reached(r, 9)
      BY <1>1 DEF Reached
    <3> QED
      BY <2>1, <3>1 DEF GateTypeOK, GoesWell, TestsItsOwn
  <2>4. stage'[r] = s /\ \A x \in Gate \ {r} : stage'[x] = stage[x]
    BY <1>1, <1>3, <2>1, <2>3 DEF StageState
  <2>5. s \in StageState
    <3>1. 10 \in 1 .. Len(Stages)
      BY StagesAre
    <3> QED
      BY <2>1, <2>3, <3>1 DEF StageState
  <2>6. stage' \in [Gate -> StageState]
    BY <1>3, <2>3, <2>4, <2>5
  <2>7. /\ s.pc = "run" /\ s.at = 10 /\ s.missed = stage[r].missed
    BY <1>1, <2>1 DEF StageState
  <2>8. mishaps \in 0 .. gate.mishaps /\ mishaps \in Nat /\ gate.mishaps \in Nat
    BY <2>1, RunTypes DEF GateTypeOK
  <2>9. StepOf(r)
    BY <2>2, <2>4, <2>8 DEF StepOf
  <2> HIDE DEF s
  <2>10. TestsItsOwn(r)'
    BY <1>1, <2>1, <2>2, <2>4, <2>7 DEF GoesWell, TestsItsOwn, Reached
  <2>11. NetworkStays(r)'
    BY <1>1, <2>1, <2>2, <2>4, <2>7 DEF GoesWell, NetworkStays, IsRunning
  <2>12. Removes(r)'
    BY <2>1, <2>2, <2>4, <2>7 DEF GoesWell, Removes
  <2>13. GateTypeOK'
    BY <2>1, <2>2, <2>6 DEF GateTypeOK, StageState
  <2> QED
    BY <2>9, <2>10, <2>11, <2>12, <2>13, GateStepKeeps DEF GoesWell
<1> QED
  BY <1>2, <1>3 DEF ReadSeedSnapshot

\* The removals by their numbers; all things of a run are among them.
LEMMA RemovalsAre ==
  /\ Len(Removals) = 6 /\ Len(Removals) <= Len(Stages)
  /\ \A i \in 1 .. 6 : Removals[i] \in Thing
  /\ \A i \in 1 .. 5 : Removals[i] # "network"
  /\ Thing = {Removals[i] : i \in 1 .. 6}
<1>1. /\ Len(Removals) = 6 /\ Removals[1] = "worker" /\ Removals[2] = "oidc"
      /\ Removals[3] = "restart" /\ Removals[4] = "web" /\ Removals[5] = "postgres"
      /\ Removals[6] = "network"
  BY DEF Removals
<1>2. Thing = {Removals[i] : i \in 1 .. 6}
  BY <1>1 DEF Thing, Service
<1> QED
  BY <1>1, <1>2, StagesAre

LEMMA ThingsAreFinite == IsFiniteSet(Thing)
<1> DEFINE f == [i \in 1 .. 6 |-> Removals[i]]
<1>1. f \in Surjection(1 .. 6, Thing)
  BY RemovalsAre DEF Surjection
<1>2. IsFiniteSet(1 .. 6)
  <2>1. 1 \in Int /\ 6 \in Int
    OBVIOUS
  <2> QED
    BY <2>1, FS_Interval
<1> QED
  BY <1>1, <1>2, FS_Surjection

LEMMA DiagnosticsStep ==
  ASSUME GateInv, NEW r \in Gate, CaptureDiagnostics(r)
  PROVE  GateInv'
<1>1. stage[r] \in StageState /\ GoesWell(r) /\ GateTypeOK /\ stage \in [Gate -> StageState]
  BY RunTypes DEF GateInv, GateTypeOK
<1>2. stage[r].pc = "diagnose" /\ UNCHANGED <<gate, tagged, thing, version, data>>
  BY DEF CaptureDiagnostics
<1>3. PICK fails \in BOOLEAN :
        /\ Mishap \/ UNCHANGED mishaps
        /\ stage' = [stage EXCEPT ![r].pc = "remove", ![r].at = 1, ![r].failure = @ \/ fails]
  BY DEF CaptureDiagnostics
<1>4. /\ stage'[r] \in StageState /\ \A x \in Gate \ {r} : stage'[x] = stage[x]
      /\ stage'[r].pc = "remove" /\ stage'[r].at = 1 /\ stage'[r].missed = stage[r].missed
      /\ stage'[r].seed = stage[r].seed /\ (stage[r].failure => stage'[r].failure)
  <2> DEFINE s == [stage[r] EXCEPT !.pc = "remove", !.at = 1, !.failure = (stage[r].failure \/ fails)]
  <2>1. stage'[r] = s /\ \A x \in Gate \ {r} : stage'[x] = stage[x]
    BY <1>1, <1>3 DEF StageState
  <2>2. 1 \in 1 .. Len(Stages)
    BY StagesAre
  <2>3. s \in StageState
    BY <1>1, <2>2 DEF StageState
  <2> QED
    BY <1>1, <2>1, <2>3 DEF StageState
<1>5. stage' \in [Gate -> StageState]
  BY <1>1, <1>3, <1>4
<1>6. mishaps \in 0 .. gate.mishaps /\ mishaps \in Nat /\ gate.mishaps \in Nat
  BY <1>1, RunTypes DEF GateTypeOK
<1>7. mishaps' \in mishaps .. gate.mishaps /\ mishaps' \in 0 .. gate.mishaps
  BY <1>3, <1>6 DEF Mishap
<1>8. StepOf(r)
  BY <1>2, <1>4, <1>6, <1>7 DEF StepOf
<1>9. GateTypeOK'
  BY <1>1, <1>2, <1>5, <1>7 DEF GateTypeOK, StageState
<1>10. TestsItsOwn(r)' /\ NetworkStays(r)'
  BY <1>1, <1>2, <1>4 DEF GoesWell, TestsItsOwn, NetworkStays, Reached, IsRunning
<1>11. Removes(r)'
  <2>1. stage[r].missed \in Nat /\ stage[r].missed <= mishaps
    BY <1>1, RunTypes DEF GoesWell, Removes
  <2>2. (Left(r) \cap Gone(r))' = {}
    BY <1>4 DEF Gone
  <2>3. Cardinality({}) = 0 /\ 1 <= Len(Removals)
    BY FS_EmptySet, RemovalsAre
  <2>4. stage'[r].missed <= mishaps'
    BY <1>4, <1>6, <1>7, <2>1
  <2>5. Cardinality((Left(r) \cap Gone(r))') <= stage'[r].missed
    <3>1. Cardinality((Left(r) \cap Gone(r))') = 0
      BY <2>2, <2>3
    <3> QED
      BY <1>4, <2>1, <3>1
  <2> QED
    BY <1>4, <2>3, <2>4, <2>5 DEF Removes
<1> QED
  BY <1>8, <1>9, <1>10, <1>11, GateStepKeeps DEF GoesWell

\* A removal that has ended: what is gone, what was missed, and the next one
LEMMA RemovedStep ==
  ASSUME GateInv, NEW r \in Gate, stage[r].pc = "remove",
         NEW failed \in BOOLEAN, NEW missed \in 0 .. 1, Removed(r, failed, missed),
         UNCHANGED <<gate, tagged, version, data>>, mishaps' \in mishaps + missed .. gate.mishaps,
         NEW n \in Thing, n = Removals[stage[r].at],
         thing' = thing \/ (n \in Left(r) /\ ChangesTo(r, n, "absent")),
         \/ failed \/ n \notin Left(r)' \/ missed = 1,
         \A m \in Service : IsRunning(r, m)' => thing'[r]["network"] = "up"
  PROVE  GateInv'
<1>1. /\ stage[r] \in StageState /\ GoesWell(r) /\ GateTypeOK /\ stage \in [Gate -> StageState]
      /\ stage[r].missed \in Nat /\ stage[r].at \in 1 .. 6 /\ mishaps \in Nat /\ gate.mishaps \in Nat
      /\ stage[r].missed <= mishaps /\ stage[r].failure \in BOOLEAN
  <2>1. GoesWell(r) /\ GateTypeOK /\ stage \in [Gate -> StageState]
    BY DEF GateInv, GateTypeOK
  <2>2. stage[r].at <= 6 /\ stage[r].missed <= mishaps
    BY <2>1, RemovalsAre DEF GoesWell, Removes
  <2>3. /\ stage[r] \in StageState /\ stage[r].at \in 1 .. 19
        /\ stage[r].failure \in BOOLEAN /\ stage[r].missed \in Nat
        /\ mishaps \in Nat /\ gate.mishaps \in Nat
    BY <2>1, RunTypes
  <2> QED
    BY <2>1, <2>2, <2>3
<1> DEFINE s == [stage[r] EXCEPT !.failure = (stage[r].failure \/ failed),
                                 !.missed = stage[r].missed + missed]
<1> DEFINE t == IF s.at < 6 THEN [s EXCEPT !.at = s.at + 1]
                ELSE [s EXCEPT !.pc = IF s.failure THEN "failed" ELSE "passed"]
<1>2. stage' = [stage EXCEPT ![r] = t]
  BY RemovalsAre DEF Removed
<1>3. /\ s \in StageState /\ s.at = stage[r].at /\ s.pc = "remove" /\ s.seed = stage[r].seed
      /\ s.failure = (stage[r].failure \/ failed) /\ s.missed = stage[r].missed + missed
  <2>1. stage[r].missed + missed \in 0 .. gate.mishaps
    BY <1>1
  <2>2. (stage[r].failure \/ failed) \in BOOLEAN
    OBVIOUS
  <2> QED
    BY <1>1, <2>1, <2>2 DEF StageState
<1> HIDE DEF s
<1>4. /\ t \in StageState /\ t.seed = stage[r].seed /\ t.failure = s.failure /\ t.missed = s.missed
      /\ stage[r].at < 6 => t.pc = "remove" /\ t.at = stage[r].at + 1
      /\ stage[r].at = 6 => t.pc = IF s.failure THEN "failed" ELSE "passed"
  <2>1. 6 \in 1 .. Len(Stages) /\ 1 .. 6 \subseteq 1 .. Len(Stages)
    BY StagesAre
  <2>2. CASE s.at < 6
    <3>1. s.at + 1 \in 1 .. Len(Stages)
      BY <1>1, <1>3, <2>1, <2>2
    <3>2. t = [s EXCEPT !.at = s.at + 1]
      BY <2>2
    <3> HIDE DEF t
    <3>3. t \in StageState
      BY <1>3, <3>1, <3>2 DEF StageState
    <3>4. t.seed = s.seed /\ t.failure = s.failure /\ t.missed = s.missed /\ t.pc = s.pc /\ t.at = s.at + 1
      BY <1>3, <3>2 DEF StageState
    <3> QED
      BY <1>1, <1>3, <2>2, <3>3, <3>4
  <2>3. CASE s.at = 6
    <3>1. t = [s EXCEPT !.pc = IF s.failure THEN "failed" ELSE "passed"]
      BY <2>3
    <3> HIDE DEF t
    <3>2. t \in StageState
      BY <1>3, <3>1 DEF StageState
    <3>3. /\ t.seed = s.seed /\ t.failure = s.failure /\ t.missed = s.missed
          /\ t.pc = IF s.failure THEN "failed" ELSE "passed"
      BY <1>3, <3>1 DEF StageState
    <3> QED
      BY <1>1, <1>3, <2>3, <3>2, <3>3
  <2> QED
    BY <1>1, <1>3, <2>2, <2>3
<1> HIDE DEF t
<1>5. stage'[r] = t /\ stage' \in [Gate -> StageState] /\ \A x \in Gate \ {r} : stage'[x] = stage[x]
  BY <1>1, <1>2, <1>4
<1>6. /\ thing' \in [Gate -> [Thing -> Condition]]
      /\ \A m \in Thing \ {n} : thing'[r][m] = thing[r][m]
      /\ \A x \in Gate \ {r} : thing'[x] = thing[x]
      /\ \A m \in Thing : thing[r][m] = "foreign" => thing'[r][m] = "foreign"
      /\ Left(r)' \subseteq Left(r)
  <2>1. CASE thing' = thing
    BY <1>1, <2>1 DEF GateTypeOK, Condition, Left
  <2>2. CASE n \in Left(r) /\ ChangesTo(r, n, "absent")
    <3>1. "absent" \in Condition /\ thing[r][n] # "foreign"
      BY <2>2 DEF Condition, Left
    <3>2. ChangesTo(r, n, "absent")
      BY <2>2
    <3>3. /\ thing' \in [Gate -> [Thing -> Condition]] /\ thing'[r][n] = "absent"
          /\ \A m \in Thing \ {n} : thing'[r][m] = thing[r][m]
          /\ \A x \in Gate \ {r} : thing'[x] = thing[x]
          /\ \A m \in Thing : thing[r][m] = "foreign" => thing'[r][m] = "foreign"
      BY <1>1, <3>1, <3>2, ThingChanges
    <3>4. Left(r)' \subseteq Left(r)
      BY <3>3 DEF Left
    <3> QED
      BY <3>3, <3>4
  <2> QED
    BY <2>1, <2>2
<1>7. mishaps' \in Nat /\ mishaps' \in mishaps .. gate.mishaps /\ s.missed <= mishaps' /\ s.missed \in Nat
  BY <1>1, <1>3
<1>8. StepOf(r)
  BY <1>1, <1>5, <1>6, <1>7 DEF StepOf
<1>9. GateTypeOK'
  <2>1. mishaps' \in 0 .. gate.mishaps
    BY <1>7
  <2> QED
    BY <1>1, <1>5, <1>6, <2>1 DEF GateTypeOK, StageState, Condition
<1>10. TestsItsOwn(r)'
  <2>1. t.pc # "run" /\ (t.pc \in {"diagnose", "remove", "passed"} /\ ~t.failure => ~stage[r].failure)
    BY <1>1, <1>3, <1>4
  <2>2. \A k \in {8, 9, 16, 18} : Reached(r, k)' => Reached(r, k)
    BY <1>5, <2>1 DEF Reached
  <2>3. \A m \in {"web", "restart"} : thing'[r][m] = "started" => thing[r][m] = "started"
    <3>1. "web" \in Thing /\ "restart" \in Thing
      BY DEF Thing, Service
    <3>2. ASSUME thing' # thing PROVE thing'[r][n] = "absent"
      <4>1. ChangesTo(r, n, "absent")
        BY <3>2
      <4> QED
        BY <1>1, <4>1 DEF ChangesTo, GateTypeOK
    <3> QED
      BY <1>6, <3>1, <3>2
  <2> QED
    BY <1>1, <1>4, <1>5, <2>2, <2>3 DEF GoesWell, TestsItsOwn
<1>11. NetworkStays(r)'
  BY <1>1, <1>3, <1>4, <1>5 DEF NetworkStays
<1>12. Removes(r)'
  <2>1. ASSUME ~t.failure
        PROVE  Cardinality(Left(r)' \cap (Gone(r) \cup {n})) <= t.missed
    <3>1. ~stage[r].failure /\ ~failed
      BY <1>1, <1>3, <1>4, <2>1
    <3>2. Cardinality(Left(r) \cap Gone(r)) <= stage[r].missed
      BY <1>1, <3>1 DEF GoesWell, Removes
    <3>3. /\ IsFiniteSet(Left(r) \cap Gone(r)) /\ Left(r) \subseteq Thing
      BY ThingsAreFinite, FS_Subset DEF Left
    <3>4. CASE n \notin Left(r)'
      <4>1. Left(r)' \cap (Gone(r) \cup {n}) \in SUBSET (Left(r) \cap Gone(r))
        BY <1>6, <3>4
      <4>2. Cardinality(Left(r)' \cap (Gone(r) \cup {n})) <= Cardinality(Left(r) \cap Gone(r))
        BY <3>3, <4>1, FS_Subset
      <4>3. /\ Cardinality(Left(r)' \cap (Gone(r) \cup {n})) \in Nat
            /\ Cardinality(Left(r) \cap Gone(r)) \in Nat
        BY <3>3, <4>1, FS_Subset, FS_CardinalityType
      <4> QED
        BY <1>1, <1>3, <1>4, <3>2, <4>2, <4>3
    <3>5. CASE missed = 1
      <4>1. Left(r)' \cap (Gone(r) \cup {n}) \in SUBSET ((Left(r) \cap Gone(r)) \cup {n})
        BY <1>6
      <4>2. /\ IsFiniteSet((Left(r) \cap Gone(r)) \cup {n})
            /\ Cardinality((Left(r) \cap Gone(r)) \cup {n}) <= Cardinality(Left(r) \cap Gone(r)) + 1
            /\ Cardinality(Left(r) \cap Gone(r)) \in Nat
        <5> DEFINE X == Left(r) \cap Gone(r)
        <5>1. IsFiniteSet(X) /\ Cardinality(X) \in Nat
          BY <3>3, FS_CardinalityType
        <5> HIDE DEF X
        <5>2. /\ IsFiniteSet(X \cup {n})
              /\ Cardinality(X \cup {n}) = IF n \in X THEN Cardinality(X) ELSE Cardinality(X) + 1
          BY <5>1, FS_AddElement
        <5>3. IsFiniteSet(X \cup {n}) /\ Cardinality(X \cup {n}) <= Cardinality(X) + 1
          BY <5>1, <5>2
        <5> QED
          BY <5>1, <5>3 DEF X
      <4>3. /\ Cardinality(Left(r)' \cap (Gone(r) \cup {n}))
                 <= Cardinality((Left(r) \cap Gone(r)) \cup {n})
            /\ Cardinality(Left(r)' \cap (Gone(r) \cup {n})) \in Nat
            /\ Cardinality((Left(r) \cap Gone(r)) \cup {n}) \in Nat
        BY <4>1, <4>2, FS_Subset, FS_CardinalityType
      <4> QED
        BY <1>1, <1>3, <1>4, <3>2, <3>5, <4>2, <4>3
    <3> QED
      BY <3>1, <3>4, <3>5
  <2>2. CASE stage[r].at < 6
    <3>1. t.pc = "remove" /\ t.at = stage[r].at + 1 /\ t.at <= Len(Removals)
      BY <1>1, <1>4, <2>2, RemovalsAre
    <3>2. Gone(r)' = Gone(r) \cup {n}
      BY <1>1, <1>5, <3>1 DEF Gone
    <3> QED
      BY <1>4, <1>5, <1>7, <2>1, <3>1, <3>2 DEF Removes
  <2>3. CASE stage[r].at = 6
    <3>1. t.pc = (IF t.failure THEN "failed" ELSE "passed")
      BY <1>4, <2>3
    <3>2. Left(r)' \cap (Gone(r) \cup {n}) = Left(r)'
      <4>1. Gone(r) \cup {n} = Thing
        BY <2>3, RemovalsAre DEF Gone
      <4> QED
        BY <4>1 DEF Left
    <3> QED
      BY <1>4, <1>5, <1>7, <2>1, <3>1, <3>2 DEF Removes
  <2> QED
    BY <1>1, <2>2, <2>3
<1> QED
  BY <1>8, <1>9, <1>10, <1>11, <1>12, GateStepKeeps DEF GoesWell

LEMMA RemoveOwnedStep ==
  ASSUME GateInv, NEW r \in Gate, RemoveOwned(r)
  PROVE  GateInv'
<1> DEFINE n == Removals[stage[r].at]
<1>1. stage[r].pc = "remove" /\ UNCHANGED <<gate, tagged, version, data>>
  BY DEF RemoveOwned
<1>2. /\ GoesWell(r) /\ GateTypeOK /\ stage[r].at \in 1 .. 6
      /\ mishaps \in Nat /\ gate.mishaps \in Nat /\ mishaps <= gate.mishaps
  <2>1. GoesWell(r) /\ GateTypeOK
    BY DEF GateInv
  <2>2. stage[r].at <= 6
    BY <1>1, <2>1, RemovalsAre DEF GoesWell, Removes
  <2>3. stage[r].at \in 1 .. 19 /\ mishaps \in Nat /\ gate.mishaps \in Nat
    BY <2>1, RunTypes
  <2>4. mishaps <= gate.mishaps
    BY <2>1, <2>3 DEF GateTypeOK
  <2> QED
    BY <2>1, <2>2, <2>3, <2>4
<1>3. n \in Thing /\ Service \subseteq Thing
  BY <1>2, RemovalsAre DEF Thing
<1>4. \A m \in Service : IsRunning(r, m) => thing[r]["network"] = "up"
  BY <1>2 DEF GoesWell, NetworkStays
<1>5. CASE thing' = thing
  <2>1. \A m \in Service : IsRunning(r, m)' => thing'[r]["network"] = "up"
    BY <1>4, <1>5 DEF IsRunning
  <2>2. \/ /\ thing[r][n] = "absent" /\ Removed(r, FALSE, 0) /\ UNCHANGED mishaps
        \/ Mishap /\ Removed(r, FALSE, 1)
        \/ /\ thing[r][n] = "foreign" /\ UNCHANGED mishaps
           /\ \E labelled \in BOOLEAN : Removed(r, labelled, 0)
        \/ (UNCHANGED mishaps \/ Mishap) /\ Removed(r, TRUE, 0)
        \/ /\ Removed(r, FALSE, 0) /\ UNCHANGED mishaps /\ ChangesTo(r, n, "absent")
    BY DEF RemoveOwned, ChangesTo
  <2>3. CASE thing[r][n] \in {"absent", "foreign"} /\ UNCHANGED mishaps
                 /\ \E labelled \in BOOLEAN : Removed(r, labelled, 0)
    <3>1. PICK labelled \in BOOLEAN : Removed(r, labelled, 0)
      BY <2>3
    <3>2. n \notin Left(r)' /\ mishaps' \in mishaps + 0 .. gate.mishaps
      BY <1>2, <1>5, <2>3 DEF Left
    <3>3. 0 \in 0 .. 1
      OBVIOUS
    <3> HIDE DEF n
    <3> QED
      BY <1>1, <1>3, <1>5, <2>1, <3>1, <3>2, <3>3, RemovedStep DEF n
  <2>4. CASE Mishap /\ Removed(r, FALSE, 1)
    <3>1. mishaps' \in mishaps + 1 .. gate.mishaps /\ 1 \in 0 .. 1
      BY <1>2, <2>4 DEF Mishap
    <3> QED
      BY <1>1, <1>3, <1>5, <2>1, <2>4, <3>1, RemovedStep
  <2>5. CASE (UNCHANGED mishaps \/ Mishap) /\ Removed(r, TRUE, 0)
    <3>1. mishaps' \in mishaps + 0 .. gate.mishaps /\ 0 \in 0 .. 1
      BY <1>2, <2>5 DEF Mishap
    <3> QED
      BY <1>1, <1>3, <1>5, <2>1, <2>5, <3>1, RemovedStep
  <2>6. CASE Removed(r, FALSE, 0) /\ UNCHANGED mishaps /\ ChangesTo(r, n, "absent")
    <3>1. thing[r][n] = "absent"
      BY <1>2, <1>3, <1>5, <2>6 DEF ChangesTo, GateTypeOK
    <3> QED
      BY <2>3, <2>6, <3>1
  <2> QED
    BY <2>2, <2>3, <2>4, <2>5, <2>6
<1>6. CASE /\ thing[r][n] \notin {"absent", "foreign"}
           /\ ~(n = "network" /\ \E x \in Service : IsRunning(r, x))
           /\ ChangesTo(r, n, "absent")
           /\ Removed(r, FALSE, 0) /\ UNCHANGED mishaps
  <2>1. n \in Left(r) /\ mishaps' \in mishaps + 0 .. gate.mishaps /\ 0 \in 0 .. 1
    BY <1>2, <1>3, <1>6 DEF Left
  <2>2. "absent" \in Condition /\ thing[r][n] # "foreign" /\ ChangesTo(r, n, "absent")
    BY <1>6 DEF Condition
  <2>3. thing'[r][n] = "absent" /\ \A m \in Thing \ {n} : thing'[r][m] = thing[r][m]
    BY <1>2, <1>3, <2>2, ThingChanges
  <2>4. n \notin Left(r)'
    BY <2>3 DEF Left
  <2>5. \A m \in Service : IsRunning(r, m)' => thing'[r]["network"] = "up"
    <3>1. "network" \in Thing
      BY DEF Thing
    <3>2. ASSUME NEW m \in Service, IsRunning(r, m)' PROVE thing'[r]["network"] = "up"
      <4>1. m # n /\ IsRunning(r, m)
        BY <1>3, <2>3, <3>2 DEF IsRunning
      <4>2. n # "network"
        BY <1>6, <4>1
      <4> QED
        BY <1>4, <2>3, <3>1, <4>1, <4>2
    <3> QED
      BY <3>2
  <2> HIDE DEF n
  <2> QED
    BY <1>1, <1>3, <1>6, <2>1, <2>4, <2>5, RemovedStep DEF n
<1> QED
  BY <1>5, <1>6 DEF RemoveOwned, ChangesTo

LEMMA InterruptedStep ==
  ASSUME GateInv, NEW r \in Gate, IsInterrupted(r)
  PROVE  GateInv'
<1>1. stage[r] \in StageState /\ GoesWell(r) /\ GateTypeOK /\ stage \in [Gate -> StageState]
  BY RunTypes DEF GateInv, GateTypeOK
<1>2. Mishap /\ stage' = [stage EXCEPT ![r].pc = "killed"] /\ UNCHANGED <<gate, tagged, thing, version, data>>
  BY DEF IsInterrupted
<1>3. /\ stage' \in [Gate -> StageState] /\ \A x \in Gate \ {r} : stage'[x] = stage[x]
      /\ stage'[r].pc = "killed" /\ stage'[r].missed = stage[r].missed
  <2> DEFINE s == [stage[r] EXCEPT !.pc = "killed"]
  <2>1. stage' = [stage EXCEPT ![r] = s]
    BY <1>2
  <2>2. s \in StageState /\ s.pc = "killed" /\ s.missed = stage[r].missed
    BY <1>1 DEF StageState
  <2> HIDE DEF s
  <2> QED
    BY <1>1, <2>1, <2>2
<1>4. mishaps \in 0 .. gate.mishaps /\ mishaps \in Nat /\ gate.mishaps \in Nat /\ stage[r].missed \in Nat
  BY <1>1, RunTypes DEF GateTypeOK
<1>5. mishaps' \in mishaps .. gate.mishaps /\ mishaps' \in 0 .. gate.mishaps
  BY <1>2, <1>4 DEF Mishap
<1>6. StepOf(r)
  BY <1>2, <1>3, <1>4, <1>5 DEF StepOf
<1>7. GateTypeOK'
  BY <1>1, <1>2, <1>3, <1>5 DEF GateTypeOK, StageState
<1>8. TestsItsOwn(r)' /\ NetworkStays(r)'
  BY <1>1, <1>2, <1>3 DEF GoesWell, TestsItsOwn, NetworkStays, Reached, IsRunning
<1>9. Removes(r)'
  BY <1>1, <1>3, <1>4, <1>5 DEF GoesWell, Removes
<1> QED
  BY <1>6, <1>7, <1>8, <1>9, GateStepKeeps DEF GoesWell

\* A container of a run comes up or exits, whatever the run is about.
LEMMA HostStep ==
  ASSUME GateInv, NEW r \in Gate, NEW n \in Service, ComesUp(r, n) \/ Exits(r, n)
  PROVE  GateInv'
<1>1. /\ GoesWell(r) /\ GateTypeOK /\ stage[r].missed \in Nat
      /\ mishaps \in Nat /\ gate.mishaps \in Nat /\ mishaps \in 0 .. gate.mishaps
  BY RunTypes DEF GateInv, GateTypeOK
<1>2. n \in Thing /\ n # "network" /\ "network" \in Thing /\ {"web", "restart"} \subseteq Service
  BY DEF Thing, Service
<1>3. UNCHANGED <<gate, tagged, version, stage>> /\ IsRunning(r, n)
  BY DEF ComesUp, Exits, IsRunning
<1>4. PICK c \in {"up", "exited"} : ChangesTo(r, n, c)
  BY DEF ComesUp, Exits, ChangesTo
<1>5. c \in Condition /\ thing[r][n] # "foreign"
  BY <1>3, <1>4 DEF Condition, IsRunning
<1>6. /\ thing' \in [Gate -> [Thing -> Condition]] /\ thing'[r][n] = c
      /\ \A m \in Thing \ {n} : thing'[r][m] = thing[r][m]
      /\ \A x \in Gate \ {r} : thing'[x] = thing[x]
      /\ \A m \in Thing : thing[r][m] = "foreign" => thing'[r][m] = "foreign"
  BY <1>1, <1>2, <1>4, <1>5, ThingChanges
<1>7. mishaps' \in mishaps .. gate.mishaps /\ mishaps' \in 0 .. gate.mishaps
  BY <1>1 DEF ComesUp, Exits, Mishap
<1>8. data' \in [Gate -> {"none", "empty", "seeded", "drifted"}] /\ \A x \in Gate \ {r} : data'[x] = data[x]
  BY <1>1 DEF ComesUp, Exits, GateTypeOK
<1>9. /\ data'[r] = "empty" => data[r] = "empty"
      /\ data'[r] # data[r] => n \in {"web", "restart"} /\ thing[r][n] = "started"
  BY <1>1 DEF ComesUp, Exits, GateTypeOK
<1>10. StepOf(r)
  BY <1>1, <1>3, <1>6, <1>7, <1>8 DEF StepOf
<1>11. GateTypeOK'
  BY <1>1, <1>3, <1>6, <1>7, <1>8 DEF GateTypeOK, StageState, Condition
<1>12. TestsItsOwn(r)'
  <2>1. \A m \in {"web", "restart"} : thing'[r][m] = "started" => thing[r][m] = "started"
    BY <1>2, <1>4, <1>6 DEF Thing
  <2>2. \A k \in {8, 9, 16, 18} : Reached(r, k)' <=> Reached(r, k)
    BY <1>3 DEF Reached
  <2>3. stage[r].at \in 1 .. 19
    BY <1>1, RunTypes
  <2>4. Reached(r, 18) => Reached(r, 16) /\ Reached(r, 8)
    BY <2>3 DEF Reached
  <2> QED
    BY <1>1, <1>3, <1>9, <2>1, <2>2, <2>4 DEF GoesWell, TestsItsOwn
<1>13. NetworkStays(r)'
  <2>1. thing'[r]["network"] = thing[r]["network"]
    BY <1>2, <1>6
  <2>2. thing[r]["network"] = "up"
    BY <1>1, <1>3 DEF GoesWell, NetworkStays
  <2> QED
    BY <2>1, <2>2 DEF NetworkStays
<1>14. Removes(r)'
  <2>1. Left(r)' = Left(r)
    BY <1>2, <1>3, <1>4, <1>6 DEF Left, IsRunning
  <2>2. Gone(r)' = Gone(r)
    BY <1>3 DEF Gone
  <2> QED
    BY <1>1, <1>3, <1>7, <2>1, <2>2 DEF GoesWell, Removes
<1> QED
  BY <1>10, <1>11, <1>12, <1>13, <1>14, GateStepKeeps DEF GoesWell

LEMMA GateInitially == GateInit => GateInv
<1> SUFFICES ASSUME GateInit PROVE GateInv
  OBVIOUS
<1>1. gate \in GateSetup /\ gate.mishaps \in Nat
  BY ProductionRunAssumption DEF GateInit, GateSetup
<1>2. NewStage \in StageState
  BY <1>1, StagesAre DEF NewStage, StageState
<1>3. GateTypeOK
  BY <1>1, <1>2 DEF GateInit, GateTypeOK
<1>4. ASSUME NEW r \in Gate PROVE GoesWell(r)
  <2>1. stage[r].pc = "run" /\ stage[r].at = 1 /\ stage[r].missed = 0 /\ mishaps = 0
    BY DEF GateInit, NewStage
  <2>2. \A n \in Thing : thing[r][n] \in {"foreign", "absent"}
    BY DEF GateInit
  <2>3. Service \subseteq Thing
    BY DEF Thing
  <2> QED
    BY <2>1, <2>2, <2>3 DEF GoesWell, TestsItsOwn, NetworkStays, Removes, Reached, IsRunning
<1>5. LeavesOthers
  BY <1>1 DEF GateInit, LeavesOthers, GateSetup
<1> QED
  BY <1>3, <1>4, <1>5 DEF GateInv

LEMMA GateStepsKeep == GateInv /\ [GateNext]_gateVars => GateInv'
<1> SUFFICES ASSUME GateInv, [GateNext]_gateVars PROVE GateInv'
  OBVIOUS
<1>1. CASE UNCHANGED gateVars
  <2>1. GateTypeOK'
    BY <1>1 DEF GateInv, GateTypeOK, StageState, gateVars
  <2>2. ASSUME NEW r \in Gate PROVE GoesWell(r)'
    <3>1. GoesWell(r) /\ UNCHANGED <<gate, thing, version, data, stage, mishaps>>
      BY <1>1 DEF GateInv, gateVars
    <3>2. Left(r)' = Left(r) /\ Gone(r)' = Gone(r)
      BY <3>1 DEF Left, Gone
    <3> QED
      BY <3>1, <3>2 DEF GoesWell, TestsItsOwn, NetworkStays, Removes, Reached, IsRunning
  <2>3. LeavesOthers'
    BY <1>1 DEF GateInv, LeavesOthers, gateVars
  <2> QED
    BY <2>1, <2>2, <2>3 DEF GateInv
<1>2. ASSUME NEW r \in gate.up, GateStep(r) PROVE GateInv'
  <2>1. r \in Gate
    BY ProductionRunAssumption DEF GateInv, GateTypeOK, GateSetup
  <2> QED
    BY <1>2, <2>1, BuildImagesStep, CreateNetworkStep, StartsStep, AwaitsStep, LooksOnly,
       ReadSeedStep, DiagnosticsStep, RemoveOwnedStep, InterruptedStep, HostStep DEF GateStep
<1> QED
  BY <1>1, <1>2 DEF GateNext

LEMMA GateTellsTheTruth == GateInv => PassMeansTested
<1> SUFFICES ASSUME GateInv PROVE PassMeansTested
  OBVIOUS
<1>1. ASSUME NEW r \in Gate, stage[r].pc = "passed"
      PROVE  /\ \A n \in {"web", "restart"} : version[r][n] = r
             /\ data[r] = stage[r].seed
             /\ Cardinality(Left(r)) <= stage[r].missed
             /\ \A n \in Service : IsRunning(r, n) => "network" \in Left(r)
  <2>1. GoesWell(r)
    BY DEF GateInv
  <2>2. Reached(r, 8) /\ Reached(r, 16) /\ Reached(r, 18)
    BY <1>1, <2>1 DEF GoesWell, Removes, Reached
  <2>3. \A n \in Service : IsRunning(r, n) => "network" \in Left(r)
    BY <2>1 DEF GoesWell, NetworkStays, Left, Thing
  <2> QED
    BY <1>1, <2>1, <2>2, <2>3 DEF GoesWell, TestsItsOwn, Removes
<1> QED
  BY <1>1 DEF PassMeansTested, GateInv, LeavesOthers
-----------------------------------------------------------------------------
(* The start of the containers                                             *)

Migrated == {"keys", "seed", "serving", "tables", "unaudit", "clean", "insert", "verify",
             "backfill", "delete", "rest"}
Cleaning == {"clean", "insert", "verify", "backfill", "delete"}
Ended == {"down", "passed", "failed", "killed"}

\* A script p in the state s: what it has seeded is there, and the person it
\* is about to bind exists and belongs to no tenant.
SeedsWell(p, s) ==
  /\ s.pc \in Migrated => schema = "complete"
  /\ s.pc = "seed" =>
       \A i \in DOMAIN SeedSteps : i < s.at /\ SeedSteps[i] \in Row => row[SeedSteps[i]] # "absent"
  /\ s.pc = "seed" /\ s.at \in {6, 7} => s.person \in persons \ {"scoped", "nobody"}
  /\ s.pc = "seed" /\ s.at = 5 => s.person \in (persons \ {"scoped"}) \cup {"nobody"}
  /\ s.pc = "seed" /\ s.at > 7 => owns["demo"] # "nobody"
  /\ s.pc \in Migrated \ {"keys", "seed"} =>
       owns["demo"] # "nobody" /\ \A r \in Row : row[r] # "absent"
  /\ p \in Container => s.pc \in {"down", "inspect", "migrate", "keys", "seed", "serving"}
  /\ p \in Check => s.pc # "serving"

\* The demo's user, once it is there, is one whom authorisation accepts, and
\* nobody else has its address.
OwnerInv == owns["demo"] # "nobody" => OwnerIsSound /\ owns["visitor"] = "nobody"

\* The fixtures a check has been through
Before(g) == {f \in Fixture : (g = "oidc" /\ f = "reconciled") \/ (g = "collision" /\ f # "collision")}

\* What a cleanup that has come to its at-th deletion has deleted
Deleted(f, at) ==
  IF f = "reconciled" THEN (IF at >= 2 THEN {"reservation"} ELSE {})
                             \cup (IF at >= 3 THEN {"user", "bound"} ELSE {})
  ELSE (IF at >= 2 THEN {"user", "bound"} ELSE {}) \cup (IF at >= 3 THEN {"reservation"} ELSE {})

\* A check in the state s: what it has cleaned is clean, and what it made is there.
CleansWell(s) ==
  /\ s.pc \in Cleaning => \A f \in Before(s.fixture) : fixture[f] = {}
  /\ s.pc = "rest" => \A f \in Fixture : fixture[f] = {}
  /\ s.pc \in (Cleaning \ {"delete"}) \cup {"tables", "unaudit"} => ~s.broken
  /\ s.pc \in {"insert", "verify", "backfill"} => s.at = 1
  /\ s.pc \in {"clean", "delete"} =>
       s.at \in 1 .. 3 /\ Deleted(s.fixture, s.at) \cap fixture[s.fixture] = {}
  /\ s.pc = "delete" /\ ~s.broken /\ s.fixture = "oidc" =>
       IF s.at = 1 THEN "bound" \in fixture["oidc"] ELSE s.known
  /\ s.pc = "insert" => fixture[s.fixture] \subseteq (IF s.fixture = "oidc" THEN {"person"} ELSE {})
  /\ s.pc = "verify" => CASE s.fixture = "oidc" -> {"user", "bound"} \subseteq fixture["oidc"]
                          [] s.fixture = "collision" -> "user" \notin fixture["collision"]
                          [] OTHER -> TRUE
  /\ s.pc = "backfill" => s.fixture = "reconciled"

OneCheck == \A j, k \in Check : script[j].pc \notin Ended /\ script[k].pc \notin Ended => j = k

\* A setup in which nothing but the scripts changes the database, and no
\* container and check migrate at once
Quiet ==
  /\ ~setup.open /\ ~setup.legacy /\ setup.persons = {} /\ setup.schema \in {"empty", "complete"}
  /\ setup.schema = "empty" => setup.up \cap Container = {}

QuietDatabase ==
  /\ persons \subseteq {"demo"} /\ owns["visitor"] = "nobody" /\ ~legacy
  /\ \A r \in Row : row[r] \in {"absent", "seeded"}
  /\ schema \in {"empty", "complete"} /\ (setup.schema = "complete" => schema = "complete")

\* There, a script p in the state s sees the schema as it is, and a check has
\* an error only if it was hit.
Fairly(p, s) ==
  /\ s.pc # "down" => p \in setup.up
  /\ s.pc = "migrate" => (s.fresh <=> schema = "empty")
  /\ p \in Check => (s.broken \/ s.pc = "failed" => s.hit)

StartInv ==
  /\ StartTypeOK /\ OwnerInv /\ OneCheck
  /\ \A p \in Script : SeedsWell(p, script[p])
  /\ \A k \in Check : CleansWell(script[k])
  /\ Quiet => QuietDatabase /\ \A p \in Script : Fairly(p, script[p])

LEMMA StepsAre ==
  /\ Len(SeedSteps) = 16 /\ DOMAIN SeedSteps = 1 .. 16
  /\ SeedSteps[1] = "tenant" /\ SeedSteps[2] = "roles" /\ SeedSteps[3] = "personType"
  /\ SeedSteps[4] = "findPerson" /\ SeedSteps[5] = "makePerson" /\ SeedSteps[6] = "checkOwner"
  /\ SeedSteps[7] = "bindOwner" /\ SeedSteps[8] = "membership" /\ SeedSteps[9] = "plans"
  /\ SeedSteps[10] = "subscription" /\ SeedSteps[11] = "settings" /\ SeedSteps[12] = "usage"
  /\ SeedSteps[13] = "aiUsage" /\ SeedSteps[14] = "prompts" /\ SeedSteps[15] = "languages"
  /\ SeedSteps[16] = "request"
BY DEF SeedSteps

\* Every row has its place in the seed.
LEMMA RowsAre ==
  /\ \A r \in Row : \E i \in 1 .. 16 : r = SeedSteps[i]
  /\ \A i \in 1 .. 16 : SeedSteps[i] \in Row <=> i \notin 4 .. 7
  /\ Row \subseteq {"tenant", "roles", "personType", "membership", "plans", "subscription",
                    "settings", "usage", "aiUsage", "prompts", "languages", "request"}
<1>1. \A r \in Row : \E i \in 1 .. 16 : r = SeedSteps[i]
  BY StepsAre DEF Row
<1>2. \A i \in 1 .. 16 : SeedSteps[i] \in OwnerSteps <=> i \in 4 .. 7
  <2>1. ASSUME NEW i \in 1 .. 16
        PROVE  \/ i = 1 \/ i = 2 \/ i = 3 \/ i \in 4 .. 7 \/ i = 8 \/ i = 9 \/ i = 10 \/ i = 11
               \/ i = 12 \/ i = 13 \/ i = 14 \/ i = 15 \/ i = 16
    OBVIOUS
  <2>2. ASSUME NEW i \in 4 .. 7 PROVE i = 4 \/ i = 5 \/ i = 6 \/ i = 7
    OBVIOUS
  <2>3. \A i \in 4 .. 7 : SeedSteps[i] \in OwnerSteps
    BY <2>2, StepsAre DEF OwnerSteps
  <2>4. \A i \in 1 .. 16 : i \notin 4 .. 7 => SeedSteps[i] \notin OwnerSteps
    BY <2>1, StepsAre DEF OwnerSteps
  <2> QED
    BY <2>3, <2>4
<1>3. \A i \in 1 .. 16 : SeedSteps[i] \in Row <=> SeedSteps[i] \notin OwnerSteps
  BY StepsAre DEF Row
<1>4. \A i \in 1 .. 16 : i \notin 4 .. 7 =>
        SeedSteps[i] \in {"tenant", "roles", "personType", "membership", "plans", "subscription",
                          "settings", "usage", "aiUsage", "prompts", "languages", "request"}
  <2>1. ASSUME NEW i \in 1 .. 16
        PROVE  \/ i = 1 \/ i = 2 \/ i = 3 \/ i \in 4 .. 7 \/ i = 8 \/ i = 9 \/ i = 10 \/ i = 11
               \/ i = 12 \/ i = 13 \/ i = 14 \/ i = 15 \/ i = 16
    OBVIOUS
  <2> QED
    BY <2>1, StepsAre
<1> QED
  BY <1>1, <1>2, <1>3, <1>4

LEMMA StateFields ==
  ASSUME NEW s \in ScriptState
  PROVE  /\ s.pc \in {"down", "inspect", "migrate", "keys", "seed", "serving", "tables", "unaudit",
                      "clean", "insert", "verify", "backfill", "delete", "rest", "passed", "failed",
                      "killed"}
         /\ s.fresh \in BOOLEAN /\ s.at \in 1 .. 16 /\ s.person \in Person \cup {"nobody"}
         /\ s.fixture \in Fixture /\ s.known \in BOOLEAN /\ s.broken \in BOOLEAN /\ s.hit \in BOOLEAN
BY StepsAre DEF ScriptState

LEMMA NotRunningIs ==
  NotRunning \in ScriptState /\ NotRunning.pc = "down" /\ NotRunning.broken = FALSE
<1>1. 1 \in 1 .. Len(SeedSteps)
  BY StepsAre
<1> QED
  BY <1>1 DEF NotRunning, ScriptState, Fixture

\* A process that is new, or has come to its end
LEMMA NewStateIs ==
  ASSUME NEW pc \in {"down", "serving", "tables", "passed", "failed", "killed"}, NEW hit \in BOOLEAN,
         NEW q, q = [NotRunning EXCEPT !.pc = pc, !.hit = hit]
  PROVE  q \in ScriptState /\ q.pc = pc /\ q.hit = hit /\ ~q.broken
BY NotRunningIs DEF ScriptState

LEMMA FreshStateIs ==
  ASSUME NEW pc \in {"serving", "tables"}, NEW q, q = [NotRunning EXCEPT !.pc = pc]
  PROVE  q \in ScriptState /\ q.pc = pc /\ ~q.broken
BY NotRunningIs DEF ScriptState

\* The types of all but the scripts
DataTypeOK ==
  /\ setup \in Setups
  /\ schema \in {"empty", "foreign", "partial", "complete"}
  /\ row \in [Row -> {"absent", "seeded", "edited", "removed"}]
  /\ persons \subseteq Person
  /\ owns \in [{"demo", "visitor"} -> Person \cup {"nobody"}]
  /\ legacy \in BOOLEAN /\ audit \in BOOLEAN
  /\ fixture \in [Fixture -> SUBSET {"user", "bound", "person", "reservation"}]
  /\ troubles \in 0 .. setup.troubles

\* What a step never takes back
Monotone ==
  /\ UNCHANGED setup
  /\ persons \subseteq persons' /\ (schema = "complete" => schema' = "complete")
  /\ \A r \in Row : row[r] # "absent" => row'[r] # "absent"
  /\ owns["demo"] # "nobody" => owns'["demo"] # "nobody"

LEMMA SeedsOn ==
  ASSUME NEW p, NEW s, SeedsWell(p, s), Monotone
  PROVE  SeedsWell(p, s)'
BY DEF SeedsWell, Monotone

LEMMA EndedIsWell ==
  ASSUME NEW p \in Script, NEW s, s.pc \in Ended, p \in Container => s.pc = "down"
  PROVE  SeedsWell(p, s) /\ SeedsWell(p, s)' /\ CleansWell(s) /\ CleansWell(s)'
<1>1. s.pc \notin Migrated /\ s.pc # "seed" /\ s.pc # "serving"
  BY DEF Ended, Migrated
<1>2. /\ s.pc \notin Cleaning /\ s.pc \notin (Cleaning \ {"delete"}) \cup {"tables", "unaudit"}
      /\ s.pc # "rest" /\ s.pc \notin {"insert", "verify", "backfill", "clean", "delete"}
  BY DEF Ended, Cleaning
<1>3. SeedsWell(p, s) /\ SeedsWell(p, s)'
  BY <1>1 DEF SeedsWell
<1>4. CleansWell(s) /\ CleansWell(s)'
  BY <1>2 DEF CleansWell
<1> QED
  BY <1>3, <1>4

\* A process goes on: what the others rely on is only added to.
LEMMA ScriptGoes ==
  ASSUME StartInv, NEW p \in Script, NEW q \in ScriptState, script' = [script EXCEPT ![p] = q],
         DataTypeOK', Monotone, OwnerInv', SeedsWell(p, q)',
         p \in Check => CleansWell(q)' /\ (q.pc \notin Ended /\ script[p].pc \in Ended => NoCheckRuns),
         UNCHANGED fixture \/ (p \in Check /\ script[p].pc \notin Ended),
         Quiet => QuietDatabase' /\ Fairly(p, q)',
         UNCHANGED schema \/ (Quiet => \A o \in Script \ {p} : script[o].pc # "migrate")
  PROVE  StartInv'
<1>1. script \in [Script -> ScriptState]
  BY DEF StartInv, StartTypeOK
<1>2. /\ script' \in [Script -> ScriptState] /\ script'[p] = q
      /\ \A o \in Script \ {p} : script'[o] = script[o]
  BY <1>1
<1>3. StartTypeOK'
  BY <1>2 DEF StartTypeOK, DataTypeOK
<1>4. ASSUME NEW o \in Script PROVE SeedsWell(o, script[o])'
  <2>1. PICK s : s = script[o]
    OBVIOUS
  <2>2. CASE o = p
    BY <1>2, <2>2
  <2>3. CASE o # p
    <3>1. SeedsWell(o, s)
      BY <2>1 DEF StartInv
    <3>2. SeedsWell(o, s)'
      BY <3>1, SeedsOn
    <3> QED
      BY <1>2, <2>1, <2>3, <3>2
  <2> QED
    BY <2>2, <2>3
<1>5. Check \subseteq Script
  BY DEF Script
<1>6. OneCheck'
  <2>1. ASSUME NEW j \in Check, NEW k \in Check, script'[j].pc \notin Ended, script'[k].pc \notin Ended, j # k
        PROVE  FALSE
    <3>1. CASE j # p /\ k # p
      BY <1>2, <1>5, <2>1, <3>1 DEF StartInv, OneCheck
    <3>2. CASE j = p
      <4>1. script[k].pc \notin Ended /\ q.pc \notin Ended
        BY <1>2, <1>5, <2>1, <3>2
      <4>2. script[p].pc \in Ended
        BY <2>1, <3>2, <4>1 DEF StartInv, OneCheck
      <4>3. NoCheckRuns
        BY <3>2, <4>1, <4>2
      <4> QED
        BY <2>1, <4>1, <4>3 DEF NoCheckRuns, Ended
    <3>3. CASE k = p
      <4>1. script[j].pc \notin Ended /\ q.pc \notin Ended
        BY <1>2, <1>5, <2>1, <3>3
      <4>2. script[p].pc \in Ended
        BY <2>1, <3>3, <4>1 DEF StartInv, OneCheck
      <4>3. NoCheckRuns
        BY <3>3, <4>1, <4>2
      <4> QED
        BY <2>1, <4>1, <4>3 DEF NoCheckRuns, Ended
    <3> QED
      BY <3>1, <3>2, <3>3
  <2> QED
    BY <2>1 DEF OneCheck
<1>7. ASSUME NEW k \in Check PROVE CleansWell(script[k])'
  <2>1. PICK s : s = script[k]
    OBVIOUS
  <2>2. CASE k = p
    BY <1>2, <2>2
  <2>3. CASE k # p
    <3>1. script'[k] = s /\ CleansWell(s)
      BY <1>2, <1>5, <2>1, <2>3 DEF StartInv
    <3>2. CleansWell(s)'
      <4>1. CASE UNCHANGED fixture
        BY <3>1, <4>1 DEF CleansWell
      <4>2. CASE p \in Check /\ script[p].pc \notin Ended
        <5>1. s.pc \in Ended
          BY <2>1, <2>3, <4>2 DEF StartInv, OneCheck
        <5>2. k \in Container => s.pc = "down"
          BY WebStartupAssumption
        <5> QED
          BY <1>5, <5>1, <5>2, EndedIsWell
      <4> QED
        BY <4>1, <4>2
    <3> QED
      BY <3>1, <3>2
  <2> QED
    BY <2>2, <2>3
<1>8. Quiet' => QuietDatabase' /\ \A o \in Script : Fairly(o, script[o])'
  <2>1. Quiet' <=> Quiet
    BY DEF Quiet, Monotone
  <2>2. SUFFICES ASSUME Quiet PROVE QuietDatabase' /\ \A o \in Script : Fairly(o, script[o])'
    BY <2>1
  <2>3. ASSUME NEW o \in Script \ {p} PROVE Fairly(o, script[o])'
    <3>1. PICK s : s = script[o]
      OBVIOUS
    <3>2. Fairly(o, s) /\ script'[o] = s
      BY <1>2, <2>2, <3>1 DEF StartInv
    <3>3. Fairly(o, s)'
      BY <2>2, <3>1, <3>2 DEF Fairly, Monotone
    <3> QED
      BY <3>2, <3>3
  <2> QED
    BY <1>2, <2>2, <2>3
<1> QED
  BY <1>3, <1>4, <1>6, <1>7, <1>8 DEF StartInv

\* A process goes on, and all else stays.
LEMMA OnlyGoes ==
  ASSUME StartInv, NEW p \in Script, NEW q \in ScriptState, script' = [script EXCEPT ![p] = q],
         UNCHANGED <<setup, schema, row, identities, fixtures>>, troubles' \in 0 .. setup.troubles,
         SeedsWell(p, q),
         p \in Check => CleansWell(q) /\ (q.pc \notin Ended /\ script[p].pc \in Ended => NoCheckRuns),
         Quiet => Fairly(p, q)
  PROVE  StartInv'
<1>1. Monotone /\ DataTypeOK'
  BY DEF Monotone, DataTypeOK, StartInv, StartTypeOK, identities, fixtures
<1>2. OwnerInv' /\ SeedsWell(p, q)'
  <2>1. OwnerInv'
    BY DEF StartInv, OwnerInv, OwnerIsSound, Sound, identities
  <2> QED
    BY <1>1, <2>1, SeedsOn
<1>3. p \in Check => CleansWell(q)'
  BY DEF CleansWell, fixtures
<1>4. Quiet => QuietDatabase' /\ Fairly(p, q)'
  BY DEF Fairly, QuietDatabase, StartInv, identities
<1>5. UNCHANGED fixture /\ UNCHANGED schema
  BY DEF fixtures
<1> QED
  BY <1>1, <1>2, <1>3, <1>4, <1>5, ScriptGoes

-----------------------------------------------------------------------------
(* Entry point and migration                                               *)

\* A process that exits has nothing to say any more; a check says whether it was hit.
LEMMA ExitedIs ==
  ASSUME StartInv, NEW p \in Script, NEW pc \in Ended, NEW hit \in BOOLEAN, NEW q,
         q = [NotRunning EXCEPT !.pc = pc, !.hit = hit], script' = [script EXCEPT ![p] = q],
         p \in Container => pc = "down", script[p].pc # "down",
         UNCHANGED <<setup, schema, row, identities, fixtures>>, troubles' \in 0 .. setup.troubles,
         Quiet /\ p \in Check /\ pc = "failed" => hit
  PROVE  StartInv'
<1>1. q \in ScriptState /\ q.pc = pc /\ q.hit = hit /\ ~q.broken
  BY NewStateIs DEF Ended
<1>2. SeedsWell(p, q) /\ CleansWell(q)
  BY <1>1, EndedIsWell
<1>3. Quiet => Fairly(p, q)
  <2>1. Quiet => p \in setup.up
    BY DEF StartInv, Fairly
  <2>2. pc # "migrate"
    BY DEF Ended
  <2> QED
    BY <1>1, <2>1, <2>2 DEF Fairly
<1> QED
  BY <1>1, <1>2, <1>3, OnlyGoes

LEMMA TroublesStay ==
  ASSUME StartInv, UNCHANGED setup, UNCHANGED troubles \/ Trouble
  PROVE  troubles' \in 0 .. setup.troubles
<1>1. troubles \in 0 .. setup.troubles /\ setup.troubles \in Nat
  BY WebStartupAssumption DEF StartInv, StartTypeOK, SetupState
<1> QED
  BY <1>1 DEF Trouble

LEMMA ErrorKeeps ==
  ASSUME StartInv, NEW p \in Script, ExitsWithError(p), script[p].pc # "down",
         UNCHANGED <<setup, schema, row, identities, fixtures, troubles>>,
         Quiet /\ p \in Check => script[p].hit
  PROVE  StartInv'
<1>1. PICK h, pc : h = script[p].hit /\ pc = IF p \in Container THEN "down" ELSE "failed"
  OBVIOUS
<1>2. h \in BOOLEAN /\ pc \in Ended /\ (p \in Container => pc = "down")
  BY <1>1, StateFields DEF StartInv, StartTypeOK, Ended
<1>3. PICK q : q = [NotRunning EXCEPT !.pc = pc, !.hit = h]
  OBVIOUS
<1>4. script' = [script EXCEPT ![p] = q]
  BY <1>1, <1>3 DEF ExitsWithError, Goes
<1>5. troubles' \in 0 .. setup.troubles
  BY TroublesStay
<1> QED
  BY <1>1, <1>2, <1>3, <1>4, <1>5, ExitedIs

LEMMA ScriptIs ==
  ASSUME StartInv, NEW p \in Script
  PROVE  /\ script[p] \in ScriptState /\ SeedsWell(p, script[p])
         /\ p \in Check => CleansWell(script[p])
         /\ Quiet => QuietDatabase /\ Fairly(p, script[p])
BY DEF StartInv, StartTypeOK

LEMMA StartScriptKeeps ==
  ASSUME StartInv, NEW p \in Script, StartScript(p)
  PROVE  StartInv'
<1>1. PICK s, q : s = script[p] /\ q = [s EXCEPT !.pc = "inspect"]
  OBVIOUS
<1>2. s \in ScriptState /\ SeedsWell(p, s) /\ (Quiet => Fairly(p, s))
  BY <1>1, ScriptIs
<1>3. q \in ScriptState /\ q.pc = "inspect" /\ q.broken = s.broken /\ q.hit = s.hit
  BY <1>1, <1>2 DEF ScriptState
<1>4. SeedsWell(p, q)
  BY <1>3 DEF SeedsWell, Migrated
<1>5. CleansWell(q)
  BY <1>3 DEF CleansWell, Cleaning
<1>6. Quiet => Fairly(p, q)
  BY <1>2, <1>3 DEF Fairly, StartScript
<1>7. /\ script' = [script EXCEPT ![p] = q] /\ (p \in Check => NoCheckRuns)
      /\ UNCHANGED <<setup, schema, row, identities, fixtures, troubles>>
  BY <1>1 DEF StartScript, GoesTo, Goes
<1>8. troubles' \in 0 .. setup.troubles
  BY <1>7, TroublesStay
<1> QED
  BY <1>3, <1>4, <1>5, <1>6, <1>7, <1>8, OnlyGoes

LEMMA InspectSchemaKeeps ==
  ASSUME StartInv, NEW p \in Script, InspectSchema(p)
  PROVE  StartInv'
<1>1. PICK s, q : s = script[p] /\ q = [s EXCEPT !.pc = "migrate", !.fresh = (schema = "empty")]
  OBVIOUS
<1>2. s \in ScriptState /\ SeedsWell(p, s) /\ (Quiet => Fairly(p, s)) /\ s.pc = "inspect"
  BY <1>1, ScriptIs DEF InspectSchema
<1>3. /\ q \in ScriptState /\ q.pc = "migrate" /\ q.broken = s.broken /\ q.hit = s.hit
      /\ q.fresh = (schema = "empty")
  BY <1>1, <1>2 DEF ScriptState
<1>4. SeedsWell(p, q)
  BY <1>3 DEF SeedsWell, Migrated
<1>5. CleansWell(q)
  BY <1>3 DEF CleansWell, Cleaning
<1>6. Quiet => Fairly(p, q)
  BY <1>2, <1>3 DEF Fairly
<1>7. /\ script' = [script EXCEPT ![p] = q]
      /\ UNCHANGED <<setup, schema, row, identities, fixtures, troubles>>
  BY <1>1 DEF InspectSchema, Goes
<1>8. troubles' \in 0 .. setup.troubles
  BY <1>7, TroublesStay
<1>9. script[p].pc \notin Ended
  BY <1>1, <1>2 DEF Ended
<1> QED
  BY <1>3, <1>4, <1>5, <1>6, <1>7, <1>8, <1>9, OnlyGoes

\* Where nothing else migrates at the same time, the schema is what was seen.
LEMMA MigrateKeeps ==
  ASSUME StartInv, NEW p \in Script, Migrate(p)
  PROVE  StartInv'
<1>1. PICK s, q : s = script[p] /\ q = [s EXCEPT !.pc = "keys"]
  OBVIOUS
<1>2. s \in ScriptState /\ SeedsWell(p, s) /\ (Quiet => QuietDatabase /\ Fairly(p, s)) /\ s.pc = "migrate"
  BY <1>1, ScriptIs DEF Migrate
<1>3. q \in ScriptState /\ q.pc = "keys" /\ q.broken = s.broken /\ q.hit = s.hit
  BY <1>1, <1>2 DEF ScriptState
<1>4. UNCHANGED <<setup, row, identities, fixtures, troubles>>
  BY DEF Migrate
<1>5. schema' = "complete" => SeedsWell(p, q)'
  BY <1>3 DEF SeedsWell, Migrated
<1>6. CleansWell(q) /\ CleansWell(q)'
  BY <1>3 DEF CleansWell, Cleaning
<1>7. Quiet => schema \in {"empty", "complete"} /\ (s.fresh <=> schema = "empty")
  BY <1>2 DEF QuietDatabase, Fairly
<1>8. troubles' \in 0 .. setup.troubles
  BY <1>4, TroublesStay
<1>9. script[p].pc \notin Ended /\ script[p].pc # "down"
  BY <1>1, <1>2 DEF Ended
<1>10. OwnerInv'
  BY <1>4 DEF StartInv, OwnerInv, OwnerIsSound, Sound, identities
<1>11. CASE schema = "complete" /\ GoesTo(p, "keys") /\ UNCHANGED schema
  <2>1. script' = [script EXCEPT ![p] = q]
    BY <1>1, <1>11 DEF GoesTo, Goes
  <2>2. SeedsWell(p, q)
    BY <1>3, <1>11 DEF SeedsWell, Migrated
  <2>3. Quiet => Fairly(p, q)
    BY <1>2, <1>3 DEF Fairly
  <2> QED
    BY <1>3, <1>4, <1>6, <1>8, <1>9, <1>11, <2>1, <2>2, <2>3, OnlyGoes
<1>12. CASE schema = "complete" /\ s.fresh /\ ExitsWithError(p) /\ UNCHANGED schema
  BY <1>4, <1>7, <1>9, <1>12, ErrorKeeps
<1>13. CASE schema = "empty" /\ s.fresh /\ GoesTo(p, "keys") /\ schema' = "complete"
  <2>1. script' = [script EXCEPT ![p] = q]
    BY <1>1, <1>13 DEF GoesTo, Goes
  <2>2. Monotone
    BY <1>4, <1>13 DEF Monotone, identities
  <2>3. DataTypeOK'
    BY <1>4, <1>8, <1>13 DEF DataTypeOK, StartInv, StartTypeOK, identities, fixtures
  <2>4. Quiet => QuietDatabase' /\ Fairly(p, q)'
    BY <1>2, <1>3, <1>4, <1>13 DEF QuietDatabase, Fairly, identities
  <2>5. Quiet => \A o \in Script \ {p} : script[o].pc # "migrate"
    <3>1. ASSUME Quiet, NEW o \in Script \ {p}, script[o].pc = "migrate" PROVE FALSE
      <4>1. setup.schema = "empty" /\ setup.up \cap Container = {}
        BY <1>2, <1>13, <3>1 DEF QuietDatabase, Quiet
      <4>2. o \in setup.up /\ p \in setup.up
        BY <1>2, <3>1, ScriptIs DEF Fairly
      <4>3. o \in Check /\ p \in Check
        BY <4>1, <4>2 DEF Script
      <4> QED
        BY <1>9, <3>1, <4>3 DEF StartInv, OneCheck, Ended
    <3> QED
      BY <3>1
  <2>6. UNCHANGED fixture
    BY <1>4 DEF fixtures
  <2> QED
    BY <1>3, <1>5, <1>6, <1>9, <1>10, <1>13, <2>1, <2>2, <2>3, <2>4, <2>5, <2>6, ScriptGoes
<1>14. CASE ~s.fresh /\ schema # "complete" /\ ExitsWithError(p) /\ schema' = "partial"
  <2>1. ~Quiet
    BY <1>7, <1>14
  <2>2. PICK h, pc : h = s.hit /\ pc = IF p \in Container THEN "down" ELSE "failed"
    OBVIOUS
  <2>3. h \in BOOLEAN /\ pc \in {"down", "failed"} /\ (p \in Container => pc = "down")
    BY <1>2, <2>2, StateFields
  <2>4. PICK n : n = [NotRunning EXCEPT !.pc = pc, !.hit = h]
    OBVIOUS
  <2>5. script' = [script EXCEPT ![p] = n]
    BY <1>1, <1>14, <2>2, <2>4 DEF ExitsWithError, Goes
  <2>6. n \in ScriptState /\ n.pc = pc
    BY <2>3, <2>4, NewStateIs
  <2>7. SeedsWell(p, n)' /\ CleansWell(n)' /\ n.pc \in Ended
    BY <2>3, <2>6, EndedIsWell DEF Ended
  <2>8. Monotone
    BY <1>4, <1>14 DEF Monotone, identities
  <2>9. DataTypeOK'
    BY <1>4, <1>8, <1>14 DEF DataTypeOK, StartInv, StartTypeOK, identities, fixtures
  <2>10. UNCHANGED fixture
    BY <1>4 DEF fixtures
  <2> QED
    BY <1>9, <1>10, <2>1, <2>5, <2>6, <2>7, <2>8, <2>9, <2>10, ScriptGoes
<1> QED
  BY <1>1, <1>11, <1>12, <1>13, <1>14 DEF Migrate

LEMMA BackfillKeysKeeps ==
  ASSUME StartInv, NEW p \in Script, BackfillKeys(p)
  PROVE  StartInv'
<1>1. PICK s, q : s = script[p] /\ q = [s EXCEPT !.pc = "seed", !.at = 1]
  OBVIOUS
<1>2. s \in ScriptState /\ SeedsWell(p, s) /\ (Quiet => Fairly(p, s)) /\ s.pc = "keys"
  BY <1>1, ScriptIs DEF BackfillKeys
<1>3. q \in ScriptState /\ q.pc = "seed" /\ q.at = 1 /\ q.broken = s.broken /\ q.hit = s.hit
  <2>1. 1 \in 1 .. Len(SeedSteps)
    BY StepsAre
  <2> QED
    BY <1>1, <1>2, <2>1 DEF ScriptState
<1>4. SeedsWell(p, q)
  <2>1. schema = "complete"
    BY <1>2 DEF SeedsWell, Migrated
  <2>2. \A i \in DOMAIN SeedSteps : ~(i < 1)
    BY StepsAre
  <2>3. 1 \notin {6, 7} /\ 1 # 5 /\ ~(1 > 7)
    OBVIOUS
  <2> QED
    BY <1>3, <2>1, <2>2, <2>3 DEF SeedsWell, Migrated
<1>5. CleansWell(q)
  BY <1>3 DEF CleansWell, Cleaning
<1>6. Quiet => Fairly(p, q)
  BY <1>2, <1>3 DEF Fairly
<1>7. /\ script' = [script EXCEPT ![p] = q]
      /\ UNCHANGED <<setup, schema, row, identities, fixtures, troubles>>
  BY <1>1 DEF BackfillKeys, Goes
<1>8. troubles' \in 0 .. setup.troubles
  BY <1>7, TroublesStay
<1>9. script[p].pc \notin Ended
  BY <1>1, <1>2 DEF Ended
<1> QED
  BY <1>3, <1>4, <1>5, <1>6, <1>7, <1>8, <1>9, OnlyGoes

-----------------------------------------------------------------------------
(* Seed                                                                    *)

\* The seed goes on: the step it was at is done.
LEMMA SeedGoes ==
  ASSUME StartInv, NEW p \in Script, NEW s, s = script[p], s.pc = "seed",
         NEW x \in Person \cup {"nobody"}, NextSeed(p, x), Monotone,
         UNCHANGED <<schema, legacy, fixtures, troubles>>, DataTypeOK', OwnerInv',
         SeedSteps[s.at] \in Row => row'[SeedSteps[s.at]] # "absent",
         s.at = 4 => x \in (persons' \ {"scoped"}) \cup {"nobody"},
         s.at \in {5, 6} => x \in persons' \ {"scoped", "nobody"},
         s.at >= 7 => owns'["demo"] # "nobody",
         Quiet => QuietDatabase'
  PROVE  StartInv'
<1>1. s \in ScriptState /\ SeedsWell(p, s) /\ (Quiet => Fairly(p, s)) /\ s.at \in 1 .. 16
  BY ScriptIs, StateFields
<1>2. SeedsWell(p, s)'
  BY <1>1, SeedsOn
<1>3. s.pc \notin Ended /\ UNCHANGED fixture
  BY DEF Ended, fixtures
<1>4. ASSUME NEW i \in DOMAIN SeedSteps, i <= s.at, SeedSteps[i] \in Row
      PROVE  row'[SeedSteps[i]] # "absent"
  <2>1. CASE i = s.at
    BY <1>4, <2>1
  <2>2. CASE i # s.at
    <3>1. i < s.at
      BY <1>1, <1>4, <2>2, StepsAre
    <3> QED
      BY <1>2, <1>4, <3>1 DEF SeedsWell
  <2> QED
    BY <2>1, <2>2
<1>5. schema' = "complete"
  BY <1>1 DEF SeedsWell, Migrated
<1>6. CASE s.at < Len(SeedSteps)
  <2>1. PICK n : n = s.at + 1
    OBVIOUS
  <2>2. n \in 1 .. Len(SeedSteps) /\ n \in 2 .. 16
    BY <1>1, <1>6, <2>1, StepsAre
  <2>3. PICK q : q = [s EXCEPT !.at = n, !.person = x]
    OBVIOUS
  <2>4. /\ q \in ScriptState /\ q.pc = "seed" /\ q.at = n /\ q.person = x
        /\ q.broken = s.broken /\ q.hit = s.hit
    BY <1>1, <2>2, <2>3 DEF ScriptState
  <2>5. script' = [script EXCEPT ![p] = q]
    BY <1>6, <2>1, <2>3 DEF NextSeed, Goes
  <2>6. SeedsWell(p, q)'
    <3>1. \A i \in DOMAIN SeedSteps : i < n /\ SeedSteps[i] \in Row => row'[SeedSteps[i]] # "absent"
      <4>1. \A i \in DOMAIN SeedSteps : i < n => i <= s.at
        BY <1>1, <2>1, StepsAre
      <4> QED
        BY <1>4, <4>1
    <3>2. /\ n \in {6, 7} => s.at \in {5, 6}
          /\ n = 5 => s.at = 4
          /\ n > 7 => s.at >= 7
      BY <1>1, <2>1
    <3>3. "seed" \in Migrated /\ "seed" \notin Migrated \ {"keys", "seed"}
      BY DEF Migrated
    <3>4. (n \in {6, 7} => x \in persons' \ {"scoped", "nobody"})
          /\ (n = 5 => x \in (persons' \ {"scoped"}) \cup {"nobody"})
          /\ (n > 7 => owns'["demo"] # "nobody")
      BY <3>2
    <3> QED
      BY <1>5, <2>4, <3>1, <3>3, <3>4 DEF SeedsWell
  <2>7. CleansWell(q)'
    BY <2>4 DEF CleansWell, Cleaning
  <2>8. Quiet => Fairly(p, q)'
    BY <1>1, <2>4 DEF Fairly, Monotone
  <2> QED
    BY <1>3, <2>4, <2>5, <2>6, <2>7, <2>8, ScriptGoes
<1>7. CASE ~(s.at < Len(SeedSteps))
  <2>1. s.at = 16
    BY <1>1, <1>7, StepsAre
  <2>2. PICK pc : pc = IF p \in Container THEN "serving" ELSE "tables"
    OBVIOUS
  <2>3. PICK q : q = [NotRunning EXCEPT !.pc = pc]
    OBVIOUS
  <2>4. q \in ScriptState /\ q.pc = pc /\ ~q.broken
    BY <2>2, <2>3, FreshStateIs
  <2>5. script' = [script EXCEPT ![p] = q]
    BY <1>7, <2>2, <2>3 DEF NextSeed, Goes
  <2>6. SeedsWell(p, q)'
    <3>1. \A r \in Row : row'[r] # "absent"
      <4>1. \A i \in DOMAIN SeedSteps : i <= s.at
        BY <2>1, StepsAre
      <4>2. ASSUME NEW r \in Row PROVE row'[r] # "absent"
        <5>1. PICK i \in 1 .. 16 : r = SeedSteps[i]
          BY RowsAre
        <5> QED
          BY <1>4, <4>1, <5>1, StepsAre
      <4> QED
        BY <4>2
    <3>2. owns'["demo"] # "nobody"
      BY <2>1
    <3>3. pc # "seed" /\ (p \in Container => pc = "serving") /\ (p \in Check => pc = "tables")
      BY <2>2, WebStartupAssumption
    <3> QED
      BY <1>5, <2>4, <3>1, <3>2, <3>3 DEF SeedsWell
  <2>7. CleansWell(q)'
    BY <2>2, <2>4 DEF CleansWell, Cleaning
  <2>8. Quiet => Fairly(p, q)'
    BY <1>1, <2>2, <2>4 DEF Fairly, Monotone
  <2> QED
    BY <1>3, <2>4, <2>5, <2>6, <2>7, <2>8, ScriptGoes
<1> QED
  BY <1>6, <1>7

\* A row of the seed is written.
LEMMA SeedRowKeeps ==
  ASSUME StartInv, NEW p \in Script, NEW rows \in SUBSET Row, SeedRow(p, rows)
  PROVE  StartInv'
<1>1. PICK r \in rows : SeedsAt(p, r) /\ row' = [row EXCEPT ![r] = "seeded"]
  BY DEF SeedRow
<1>2. PICK s : s = script[p]
  OBVIOUS
<1>3. s.pc = "seed" /\ SeedSteps[s.at] = r /\ r \in Row /\ s.at \in 1 .. 16 /\ SeedsWell(p, s)
  BY <1>1, <1>2, ScriptIs, StateFields DEF SeedsAt
<1>4. NextSeed(p, "nobody") /\ UNCHANGED <<setup, schema, identities, fixtures, troubles>>
  BY DEF SeedRow
<1>5. row \in [Row -> {"absent", "seeded", "edited", "removed"}]
  BY DEF StartInv, StartTypeOK
<1>6. /\ row' \in [Row -> {"absent", "seeded", "edited", "removed"}]
      /\ row'[r] = "seeded" /\ \A o \in Row \ {r} : row'[o] = row[o]
  BY <1>1, <1>3, <1>5
<1>7. Monotone
  BY <1>4, <1>6 DEF Monotone, identities
<1>8. DataTypeOK'
  BY <1>4, <1>6 DEF DataTypeOK, StartInv, StartTypeOK, identities, fixtures
<1>9. OwnerInv'
  BY <1>4 DEF StartInv, OwnerInv, OwnerIsSound, Sound, identities
<1>10. Quiet => QuietDatabase'
  BY <1>4, <1>6 DEF QuietDatabase, StartInv, identities
<1>11. s.at \notin 4 .. 7
  BY <1>3, RowsAre
<1>12. s.at # 4 /\ s.at \notin {5, 6} /\ (s.at >= 7 => s.at > 7)
  BY <1>3, <1>11
<1>13. s.at >= 7 => owns'["demo"] # "nobody"
  BY <1>3, <1>4, <1>12 DEF SeedsWell, identities
<1>14. SeedSteps[s.at] \in Row => row'[SeedSteps[s.at]] # "absent"
  BY <1>3, <1>6
<1> QED
  BY <1>2, <1>3, <1>4, <1>7, <1>8, <1>9, <1>10, <1>12, <1>13, <1>14, SeedGoes DEF identities

LEMMA SeedAt ==
  ASSUME NEW i \in 1 .. 16
  PROVE  /\ SeedSteps[i] = "findPerson" => i = 4
         /\ SeedSteps[i] = "makePerson" => i = 5
         /\ SeedSteps[i] = "checkOwner" => i = 6
         /\ SeedSteps[i] = "bindOwner" => i = 7
<1>1. \/ i = 1 \/ i = 2 \/ i = 3 \/ i = 4 \/ i = 5 \/ i = 6 \/ i = 7 \/ i = 8
      \/ i = 9 \/ i = 10 \/ i = 11 \/ i = 12 \/ i = 13 \/ i = 14 \/ i = 15 \/ i = 16
  OBVIOUS
<1> QED
  BY <1>1, StepsAre

\* The one Person with the owner's address is found, or there is none.
LEMMA FindPersonKeeps ==
  ASSUME StartInv, NEW p \in Script, FindPerson(p)
  PROVE  StartInv'
<1>1. PICK s : s = script[p]
  OBVIOUS
<1>2. s.pc = "seed" /\ s.at = 4 /\ s \in ScriptState
  BY <1>1, ScriptIs, StateFields, SeedAt DEF FindPerson, SeedsAt
<1>3. UNCHANGED <<setup, schema, row, identities, fixtures, troubles>>
  BY DEF FindPerson
<1>4. Quiet => ~(Cardinality(persons) > 1 \/ "scoped" \in persons)
  <2>1. SUFFICES ASSUME Quiet PROVE ~(Cardinality(persons) > 1 \/ "scoped" \in persons)
    OBVIOUS
  <2>2. persons \subseteq {"demo"}
    BY <2>1, ScriptIs DEF QuietDatabase
  <2>3. IsFiniteSet({"demo"}) /\ Cardinality({"demo"}) = 1
    BY FS_Singleton
  <2>4. Cardinality(persons) <= 1 /\ Cardinality(persons) \in Nat
    BY <2>2, <2>3, FS_Subset, FS_CardinalityType
  <2> QED
    BY <2>2, <2>4
<1>5. CASE Cardinality(persons) > 1 \/ "scoped" \in persons
  <2>1. ExitsWithError(p)
    BY <1>5 DEF FindPerson
  <2>2. script[p].pc # "down"
    BY <1>1, <1>2
  <2> QED
    BY <1>3, <1>4, <1>5, <2>1, <2>2, ErrorKeeps
<1>6. CASE ~(Cardinality(persons) > 1 \/ "scoped" \in persons)
  <2>1. PICK x : x = IF persons = {} THEN "nobody" ELSE CHOOSE y \in persons : TRUE
    OBVIOUS
  <2>2. x = "nobody" \/ x \in persons
    BY <2>1
  <2>3. persons \subseteq Person
    BY DEF StartInv, StartTypeOK
  <2>4. NextSeed(p, x)
    BY <1>6, <2>1 DEF FindPerson
  <2>5. Monotone /\ DataTypeOK'
    BY <1>3 DEF Monotone, DataTypeOK, StartInv, StartTypeOK, identities, fixtures
  <2>6. OwnerInv' /\ (Quiet => QuietDatabase')
    BY <1>3 DEF StartInv, OwnerInv, OwnerIsSound, Sound, QuietDatabase, identities
  <2>7. SeedSteps[s.at] \notin Row
    BY <1>2, RowsAre
  <2>8. s.at \notin {5, 6} /\ ~(s.at >= 7)
    BY <1>2
  <2>9. x \in Person \cup {"nobody"} /\ x \in (persons' \ {"scoped"}) \cup {"nobody"}
    BY <1>3, <1>6, <2>2, <2>3 DEF identities
  <2> QED
    BY <1>1, <1>2, <1>3, <2>4, <2>5, <2>6, <2>7, <2>8, <2>9, SeedGoes DEF identities
<1> QED
  BY <1>5, <1>6

LEMMA MakePersonKeeps ==
  ASSUME StartInv, NEW p \in Script, MakePerson(p)
  PROVE  StartInv'
<1>1. PICK s : s = script[p]
  OBVIOUS
<1>2. s.pc = "seed" /\ s.at = 5 /\ s \in ScriptState /\ SeedsWell(p, s)
  BY <1>1, ScriptIs, StateFields, SeedAt DEF MakePerson, SeedsAt
<1>3. PICK x : x = IF s.person = "nobody" THEN "demo" ELSE s.person
  OBVIOUS
<1>4. /\ UNCHANGED <<setup, schema, row, owns, legacy, fixtures, troubles>> /\ NextSeed(p, x)
      /\ persons' = IF s.person = "nobody" THEN persons \cup {"demo"} ELSE persons
  BY <1>1, <1>3 DEF MakePerson
<1>5. s.person \in (persons \ {"scoped"}) \cup {"nobody"} /\ persons \subseteq Person
  BY <1>2 DEF SeedsWell, StartInv, StartTypeOK
<1>6. persons' \subseteq Person /\ x \in persons' \ {"scoped", "nobody"} /\ x \in Person
      /\ persons \subseteq persons'
  BY <1>3, <1>4, <1>5 DEF Person
<1>7. Monotone
  BY <1>4, <1>6 DEF Monotone
<1>8. DataTypeOK'
  BY <1>4, <1>6 DEF DataTypeOK, StartInv, StartTypeOK, fixtures
<1>9. OwnerInv'
  BY <1>4, <1>6 DEF StartInv, OwnerInv, OwnerIsSound, Sound
<1>10. Quiet => QuietDatabase'
  <2>1. persons \subseteq {"demo"} => persons' \subseteq {"demo"}
    BY <1>4
  <2> QED
    BY <1>4, <2>1 DEF QuietDatabase, StartInv
<1>11. SeedSteps[s.at] \notin Row
  BY <1>2, RowsAre
<1>12. s.at # 4 /\ ~(s.at >= 7)
  BY <1>2
<1> QED
  BY <1>1, <1>2, <1>4, <1>6, <1>7, <1>8, <1>9, <1>10, <1>11, <1>12, SeedGoes

LEMMA CheckOwnerKeeps ==
  ASSUME StartInv, NEW p \in Script, CheckOwner(p)
  PROVE  StartInv'
<1>1. PICK s, x : s = script[p] /\ x = s.person
  OBVIOUS
<1>2. s.pc = "seed" /\ s.at = 6 /\ s \in ScriptState /\ SeedsWell(p, s)
  BY <1>1, ScriptIs, StateFields, SeedAt DEF CheckOwner, SeedsAt
<1>3. UNCHANGED <<setup, schema, row, identities, fixtures, troubles>>
  BY DEF CheckOwner
<1>4. x \in persons \ {"scoped", "nobody"} /\ x \in Person
  BY <1>1, <1>2 DEF SeedsWell, StartInv, StartTypeOK
<1>5. Quiet => owns["visitor"] # x
  BY <1>4, ScriptIs DEF QuietDatabase
<1>6. CASE owns["visitor"] = x
  <2>1. ExitsWithError(p)
    BY <1>1, <1>6 DEF CheckOwner
  <2>2. script[p].pc # "down"
    BY <1>1, <1>2
  <2> QED
    BY <1>3, <1>5, <1>6, <2>1, <2>2, ErrorKeeps
<1>7. CASE owns["visitor"] # x
  <2>1. NextSeed(p, x)
    BY <1>1, <1>7 DEF CheckOwner
  <2>2. Monotone /\ DataTypeOK'
    BY <1>3 DEF Monotone, DataTypeOK, StartInv, StartTypeOK, identities, fixtures
  <2>3. OwnerInv' /\ (Quiet => QuietDatabase')
    BY <1>3 DEF StartInv, OwnerInv, OwnerIsSound, Sound, QuietDatabase, identities
  <2>4. SeedSteps[s.at] \notin Row
    BY <1>2, RowsAre
  <2>5. s.at # 4 /\ ~(s.at >= 7)
    BY <1>2
  <2>6. x \in persons' \ {"scoped", "nobody"}
    BY <1>3, <1>4 DEF identities
  <2> QED
    BY <1>1, <1>2, <1>3, <1>4, <2>1, <2>2, <2>3, <2>4, <2>5, <2>6, SeedGoes DEF identities
<1> QED
  BY <1>6, <1>7

\* The demo's user is bound to a Person, whom the visitor has not taken.
LEMMA BindOwnerKeeps ==
  ASSUME StartInv, NEW p \in Script, BindOwner(p)
  PROVE  StartInv'
<1>1. PICK s, x : s = script[p] /\ x = s.person
  OBVIOUS
<1>2. s.pc = "seed" /\ s.at = 7 /\ s \in ScriptState /\ SeedsWell(p, s)
  BY <1>1, ScriptIs, StateFields, SeedAt DEF BindOwner, SeedsAt
<1>3. UNCHANGED <<setup, schema, row, persons, legacy, fixtures, troubles>>
  BY DEF BindOwner
<1>4. x \in persons \ {"scoped", "nobody"} /\ x \in Person
  BY <1>1, <1>2 DEF SeedsWell, StartInv, StartTypeOK
<1>5. CASE owns["visitor"] # "nobody"
  <2>1. ExitsWithError(p) /\ UNCHANGED owns
    BY <1>5 DEF BindOwner
  <2>2. script[p].pc # "down" /\ UNCHANGED identities
    BY <1>1, <1>2, <1>3, <2>1 DEF identities
  <2>3. ~Quiet
    BY <1>5 DEF StartInv, QuietDatabase
  <2> QED
    BY <1>3, <2>1, <2>2, <2>3, ErrorKeeps
<1>6. CASE owns["visitor"] = "nobody"
  <2>1. NextSeed(p, "nobody") /\ owns' = [owns EXCEPT !["demo"] = x]
    BY <1>1, <1>6 DEF BindOwner
  <2>2. owns \in [{"demo", "visitor"} -> Person \cup {"nobody"}]
    BY DEF StartInv, StartTypeOK
  <2>3. /\ owns' \in [{"demo", "visitor"} -> Person \cup {"nobody"}]
        /\ owns'["demo"] = x /\ owns'["visitor"] = "nobody"
    BY <1>4, <1>6, <2>1, <2>2
  <2>4. Monotone
    BY <1>3, <1>4, <2>3 DEF Monotone
  <2>5. DataTypeOK'
    BY <1>3, <2>3 DEF DataTypeOK, StartInv, StartTypeOK, fixtures
  <2>6. x \in {"demo", "visitor"} /\ x # "nobody"
    BY <1>4 DEF Person
  <2>7. OwnerInv'
    BY <1>3, <1>4, <2>3, <2>6 DEF OwnerInv, OwnerIsSound, Sound
  <2>8. Quiet => QuietDatabase'
    BY <1>3, <2>3 DEF QuietDatabase, StartInv
  <2>9. SeedSteps[s.at] \notin Row
    BY <1>2, RowsAre
  <2>10. s.at # 4 /\ s.at \notin {5, 6} /\ owns'["demo"] # "nobody"
    BY <1>2, <2>3, <2>6
  <2> QED
    BY <1>1, <1>2, <1>3, <2>1, <2>4, <2>5, <2>7, <2>8, <2>9, <2>10, SeedGoes
<1> QED
  BY <1>5, <1>6

LEMMA SeedKeeps ==
  ASSUME StartInv, NEW p \in Script, Seed(p)
  PROVE  StartInv'
<1>1. {"tenant", "roles", "personType"} \subseteq Row
      /\ {"membership", "plans", "subscription", "settings", "usage", "aiUsage"} \subseteq Row
      /\ {"prompts", "languages", "request"} \subseteq Row
  BY RowsAre, StepsAre
<1>2. CASE SeedTenant(p) \/ SeedTenantData(p) \/ SeedExperience(p)
  BY <1>1, <1>2, SeedRowKeeps DEF SeedTenant, SeedTenantData, SeedExperience
<1> QED
  BY <1>2, FindPersonKeeps, MakePersonKeeps, CheckOwnerKeeps, BindOwnerKeeps DEF Seed

-----------------------------------------------------------------------------
(* Smoke                                                                   *)

\* A check that is past its seed: what it relies on
LEMMA CheckIs ==
  ASSUME StartInv, NEW p \in Script, NEW s, s = script[p],
         s.pc \in Migrated \ {"keys", "seed", "serving"}
  PROVE  /\ p \in Check /\ s \in ScriptState /\ SeedsWell(p, s) /\ CleansWell(s)
         /\ s.pc \notin Ended /\ script[p].pc # "down"
         /\ schema = "complete" /\ owns["demo"] # "nobody" /\ \A r \in Row : row[r] # "absent"
<1>1. s \in ScriptState /\ SeedsWell(p, s)
  BY ScriptIs
<1>2. s.pc \notin {"down", "inspect", "migrate", "keys", "seed", "serving"} /\ s.pc \notin Ended
  BY DEF Migrated, Ended
<1>3. p \in Check
  BY <1>1, <1>2 DEF SeedsWell, Script
<1>4. schema = "complete" /\ owns["demo"] # "nobody" /\ \A r \in Row : row[r] # "absent"
  BY <1>1 DEF SeedsWell
<1> QED
  BY <1>1, <1>2, <1>3, <1>4, ScriptIs

\* It goes on within its part: the seed stays as good.
LEMMA CheckSeeds ==
  ASSUME NEW p \in Check, NEW s, NEW q, SeedsWell(p, s), s.pc \in Migrated \ {"keys", "seed", "serving"},
         q.pc \in Migrated \ {"keys", "seed", "serving"}
  PROVE  SeedsWell(p, q)
<1>1. q.pc # "seed" /\ q.pc # "serving" /\ p \notin Container
  BY WebStartupAssumption
<1> QED
  BY <1>1 DEF SeedsWell

\* A check goes on, and may change the fixtures.
LEMMA CheckGoes ==
  ASSUME StartInv, NEW p \in Check, NEW s, s = script[p], s.pc \in Migrated \ {"keys", "seed", "serving"},
         NEW q \in ScriptState, script' = [script EXCEPT ![p] = q],
         q.pc \in Migrated \ {"keys", "seed", "serving"},
         UNCHANGED <<setup, schema, row, persons, owns>>, legacy' \in {legacy, FALSE}, audit' \in BOOLEAN,
         fixture' \in [Fixture -> SUBSET {"user", "bound", "person", "reservation"}],
         troubles' \in 0 .. setup.troubles, CleansWell(q)', Quiet /\ q.broken => q.hit
  PROVE  StartInv'
<1>1. p \in Script /\ SeedsWell(p, s) /\ s.pc \notin Ended /\ (Quiet => Fairly(p, s))
  BY CheckIs, ScriptIs DEF Script
<1>2. SeedsWell(p, q)
  BY <1>1, CheckSeeds
<1>3. Monotone
  BY DEF Monotone
<1>4. SeedsWell(p, q)'
  BY <1>2, <1>3, SeedsOn
<1>5. DataTypeOK'
  BY DEF DataTypeOK, StartInv, StartTypeOK
<1>6. OwnerInv'
  BY DEF StartInv, OwnerInv, OwnerIsSound, Sound
<1>7. Quiet => QuietDatabase'
  BY DEF QuietDatabase, StartInv
<1>8. q.pc # "migrate" /\ q.pc # "failed"
  BY DEF Migrated
<1>9. Quiet => Fairly(p, q)'
  <2>1. Quiet => p \in setup.up
    BY <1>1 DEF Fairly, Ended
  <2> QED
    BY <1>8, <2>1 DEF Fairly
<1> QED
  BY <1>1, <1>3, <1>4, <1>5, <1>6, <1>7, <1>9, ScriptGoes

LEMMA CheckTablesKeeps ==
  ASSUME StartInv, NEW p \in Script, CheckTables(p)
  PROVE  StartInv'
<1>1. PICK s, q : s = script[p] /\ q = [s EXCEPT !.pc = "unaudit"]
  OBVIOUS
<1>2. s.pc = "tables" /\ s.pc \in Migrated \ {"keys", "seed", "serving"}
  BY <1>1 DEF CheckTables, Migrated
<1>3. /\ p \in Check /\ s \in ScriptState /\ script[p].pc # "down"
      /\ schema = "complete" /\ owns["demo"] # "nobody" /\ \A r \in Row : row[r] # "absent"
  BY <1>1, <1>2, CheckIs
<1>4. row["tenant"] # "absent" /\ row["membership"] # "absent" /\ OwnerIsSound
  <2>1. "tenant" \in Row /\ "membership" \in Row
    BY RowsAre, StepsAre
  <2> QED
    BY <1>3, <2>1 DEF StartInv, OwnerInv
<1>5. /\ GoesTo(p, "unaudit") /\ audit' = TRUE
      /\ UNCHANGED <<setup, schema, row, identities, fixture, troubles>>
  BY <1>3, <1>4 DEF CheckTables
<1>6. /\ q \in ScriptState /\ q.pc = "unaudit" /\ q.broken = s.broken /\ q.hit = s.hit
  BY <1>1, <1>3 DEF ScriptState
<1>7. q.pc \in Migrated \ {"keys", "seed", "serving"}
  BY <1>6 DEF Migrated
<1>8. CleansWell(q)'
  <2>1. ~s.broken
    BY <1>1, <1>2, <1>3, ScriptIs DEF CleansWell
  <2> QED
    BY <1>6, <2>1 DEF CleansWell, Cleaning
<1>9. Quiet /\ q.broken => q.hit
  BY <1>1, <1>3, <1>6, ScriptIs DEF Fairly
<1>10. troubles' \in 0 .. setup.troubles /\ script' = [script EXCEPT ![p] = q]
  BY <1>1, <1>5, TroublesStay DEF GoesTo, Goes
<1>11. fixture' \in [Fixture -> SUBSET {"user", "bound", "person", "reservation"}]
  BY <1>5 DEF StartInv, StartTypeOK
<1> QED
  BY <1>1, <1>2, <1>3, <1>5, <1>6, <1>7, <1>8, <1>9, <1>10, <1>11, CheckGoes DEF identities

LEMMA FixtureOrder ==
  /\ Before("reconciled") = {} /\ Before("oidc") = {"reconciled"}
  /\ Before("collision") = {"reconciled", "oidc"}
  /\ Fixture = {"reconciled", "oidc", "collision"}
BY DEF Before, Fixture

LEMMA DeleteAuditKeeps ==
  ASSUME StartInv, NEW p \in Script, DeleteAudit(p)
  PROVE  StartInv'
<1>1. PICK s, q : s = script[p] /\ q = [s EXCEPT !.pc = "clean", !.at = 1, !.fixture = "reconciled"]
  OBVIOUS
<1>2. s.pc = "unaudit" /\ s.pc \in Migrated \ {"keys", "seed", "serving"}
  BY <1>1 DEF DeleteAudit, Migrated
<1>3. p \in Check /\ s \in ScriptState /\ script[p].pc # "down" /\ CleansWell(s)
  BY <1>1, <1>2, CheckIs
<1>4. /\ audit' = FALSE /\ UNCHANGED <<setup, schema, row, identities, fixture, troubles>>
      /\ script' = [script EXCEPT ![p] = q]
  BY <1>1 DEF DeleteAudit, Goes
<1>5. 1 \in 1 .. Len(SeedSteps) /\ "reconciled" \in Fixture
  BY StepsAre, FixtureOrder
<1>6. /\ q \in ScriptState /\ q.pc = "clean" /\ q.at = 1 /\ q.fixture = "reconciled"
      /\ q.broken = s.broken /\ q.hit = s.hit
  BY <1>1, <1>3, <1>5 DEF ScriptState
<1>7. q.pc \in Migrated \ {"keys", "seed", "serving"}
  BY <1>6 DEF Migrated
<1>8. CleansWell(q)'
  <2>1. ~s.broken
    BY <1>2, <1>3 DEF CleansWell
  <2> QED
    BY <1>6, <2>1, FixtureOrder DEF CleansWell, Cleaning, Deleted
<1>9. Quiet /\ q.broken => q.hit
  BY <1>1, <1>3, <1>6, ScriptIs DEF Fairly
<1>10. troubles' \in 0 .. setup.troubles
  BY <1>4, TroublesStay
<1>11. fixture' \in [Fixture -> SUBSET {"user", "bound", "person", "reservation"}]
  BY <1>4 DEF StartInv, StartTypeOK
<1> QED
  BY <1>1, <1>2, <1>3, <1>4, <1>6, <1>7, <1>8, <1>9, <1>10, <1>11, CheckGoes DEF identities

-----------------------------------------------------------------------------
(* The fixtures of a check                                                 *)

LEMMA DeletesAre ==
  /\ Deletes("reconciled")[1] = "reservation" /\ Deletes("reconciled")[2] = "user"
  /\ Deletes("reconciled")[3] = "person"
  /\ \A f \in {"oidc", "collision"} :
       Deletes(f)[1] = "user" /\ Deletes(f)[2] = "reservation" /\ Deletes(f)[3] = "person"
BY DEF Deletes

\* What a deletion takes away
Takes(s) ==
  CASE Deletes(s.fixture)[s.at] = "user" -> {"user", "bound"}
    [] Deletes(s.fixture)[s.at] = "person" /\ s.fixture = "oidc" /\ ~s.known -> {}
    [] OTHER -> {Deletes(s.fixture)[s.at]}

LEMMA TakesAre ==
  ASSUME NEW s \in ScriptState, s.at \in 1 .. 3
  PROVE  /\ s.fixture = "reconciled" =>
              /\ s.at = 1 => Takes(s) = {"reservation"}
              /\ s.at = 2 => Takes(s) = {"user", "bound"}
              /\ s.at = 3 => Takes(s) = {"person"}
         /\ s.fixture # "reconciled" =>
              /\ s.at = 1 => Takes(s) = {"user", "bound"}
              /\ s.at = 2 => Takes(s) = {"reservation"}
              /\ s.at = 3 => Takes(s) = IF s.fixture = "oidc" /\ ~s.known THEN {} ELSE {"person"}
<1>1. s.fixture \in {"reconciled", "oidc", "collision"}
  BY StateFields, FixtureOrder
<1>2. CASE s.fixture = "reconciled"
  BY <1>2, DeletesAre DEF Takes
<1>3. CASE s.fixture \in {"oidc", "collision"}
  <2>1. /\ Deletes(s.fixture)[1] = "user" /\ Deletes(s.fixture)[2] = "reservation"
        /\ Deletes(s.fixture)[3] = "person"
    BY <1>3, DeletesAre
  <2> QED
    BY <1>3, <2>1 DEF Takes
<1> QED
  BY <1>1, <1>2, <1>3

\* A Person that is deleted is not reserved any more; what is deleted stays so.
LEMMA TakesOn ==
  ASSUME NEW s \in ScriptState, s.at \in 1 .. 3, NEW F, NEW G,
         F \subseteq {"user", "bound", "person", "reservation"},
         Deleted(s.fixture, s.at) \cap F = {}, G = F \ Takes(s)
  PROVE  /\ ~("person" \in Takes(s) /\ {"person", "reservation"} \subseteq F)
         /\ s.at < 3 => Deleted(s.fixture, s.at + 1) \cap G = {}
         /\ s.at = 3 => G \subseteq (IF s.fixture = "oidc" /\ ~s.known THEN {"person"} ELSE {})
<1>1. CASE s.at = 1
  <2>1. s.at + 1 = 2 /\ 2 >= 2 /\ ~(2 >= 3)
    BY <1>1
  <2> QED
    BY <1>1, <2>1, TakesAre DEF Deleted
<1>2. CASE s.at = 2
  <2>1. s.at + 1 = 3 /\ 3 >= 2 /\ 3 >= 3 /\ 2 >= 2 /\ ~(2 >= 3)
    BY <1>2
  <2> QED
    BY <1>2, <2>1, TakesAre DEF Deleted
<1>3. CASE s.at = 3
  <2>1. 3 >= 2 /\ 3 >= 3 /\ ~(s.at < 3)
    BY <1>3
  <2>2. F \cap {"user", "bound", "reservation"} = {}
    BY <1>3, <2>1 DEF Deleted
  <2> QED
    BY <1>3, <2>1, <2>2, TakesAre
<1> QED
  BY <1>1, <1>2, <1>3

LEMMA CleanupKeeps ==
  ASSUME StartInv, NEW p \in Script, Cleanup(p)
  PROVE  StartInv'
<1>1. PICK s, f : s = script[p] /\ f = s.fixture
  OBVIOUS
<1>2. s.pc \in {"clean", "delete"} /\ s.pc \in Migrated \ {"keys", "seed", "serving"}
  BY <1>1 DEF Cleanup, Migrated
<1>3. p \in Check /\ s \in ScriptState /\ CleansWell(s) /\ s.pc \notin Ended /\ f \in Fixture
      /\ (Quiet => Fairly(p, s))
  BY <1>1, <1>2, CheckIs, ScriptIs, StateFields
<1>4. s.at \in 1 .. 3 /\ Deleted(f, s.at) \cap fixture[f] = {} /\ \A g \in Before(f) : fixture[g] = {}
  BY <1>1, <1>2, <1>3 DEF CleansWell, Cleaning
<1>5. fixture \in [Fixture -> SUBSET {"user", "bound", "person", "reservation"}]
  BY DEF StartInv, StartTypeOK
<1>6. PICK G : G = fixture[f] \ Takes(s)
  OBVIOUS
<1>7. /\ ~("person" \in Takes(s) /\ {"person", "reservation"} \subseteq fixture[f])
      /\ s.at < 3 => Deleted(f, s.at + 1) \cap G = {}
      /\ s.at = 3 => G \subseteq (IF f = "oidc" /\ ~s.known THEN {"person"} ELSE {})
  <2>1. PICK F : F = fixture[f]
    OBVIOUS
  <2>2. F \subseteq {"user", "bound", "person", "reservation"} /\ G = F \ Takes(s)
    BY <1>3, <1>5, <1>6, <2>1
  <2>3. Deleted(s.fixture, s.at) \cap F = {} /\ s.at \in 1 .. 3
    BY <1>1, <1>4, <2>1
  <2>4. /\ ~("person" \in Takes(s) /\ {"person", "reservation"} \subseteq F)
        /\ s.at < 3 => Deleted(s.fixture, s.at + 1) \cap G = {}
        /\ s.at = 3 => G \subseteq (IF s.fixture = "oidc" /\ ~s.known THEN {"person"} ELSE {})
    BY <1>3, <2>2, <2>3, TakesOn
  <2> QED
    BY <1>1, <2>1, <2>4
<1>8. /\ fixture' = [fixture EXCEPT ![f] = fixture[f] \ Takes(s)]
      /\ UNCHANGED <<setup, schema, row, identities, audit, troubles>>
      /\ s.at = 3 => AfterCleanup(p)
      /\ s.at # 3 => Goes(p, [s EXCEPT !.at = s.at + 1, !.known =
                        IF Deletes(f)[s.at] = "user" THEN "bound" \in fixture[f] ELSE s.known])
  BY <1>1, <1>7 DEF Cleanup, Takes
<1>9. /\ fixture' \in [Fixture -> SUBSET {"user", "bound", "person", "reservation"}]
      /\ fixture'[f] = G /\ \A g \in Fixture \ {f} : fixture'[g] = fixture[g]
  BY <1>3, <1>5, <1>6, <1>8
<1>10. \A g \in Before(f) : fixture'[g] = {}
  BY <1>4, <1>9 DEF Before
<1>11. troubles' \in 0 .. setup.troubles
  BY <1>8, TroublesStay
<1>12. UNCHANGED <<setup, schema, row, persons, owns>> /\ legacy' \in {legacy, FALSE} /\ audit' \in BOOLEAN
  BY <1>8 DEF identities, StartInv, StartTypeOK
<1>13. Quiet /\ s.broken => s.hit
  BY <1>3 DEF Fairly
<1>14. ASSUME NEW q \in ScriptState, script' = [script EXCEPT ![p] = q],
              q.pc \in {"clean", "insert", "delete", "rest"}, CleansWell(q)',
              q.broken = s.broken, q.hit = s.hit
       PROVE  StartInv'
  <2>1. q.pc \in Migrated \ {"keys", "seed", "serving"}
    BY <1>14 DEF Migrated
  <2>2. Quiet /\ q.broken => q.hit
    BY <1>13, <1>14
  <2> QED
    BY <1>1, <1>2, <1>3, <1>9, <1>11, <1>12, <1>14, <2>1, <2>2, CheckGoes
<1>15. CASE s.at # 3
  <2>1. PICK n, k : n = s.at + 1 /\ k = IF Deletes(f)[s.at] = "user" THEN "bound" \in fixture[f] ELSE s.known
    OBVIOUS
  <2>2. n \in 1 .. Len(SeedSteps) /\ n \in 2 .. 3 /\ s.at \in 1 .. 2 /\ k \in BOOLEAN
    <3>1. s.at \in 1 .. 2 /\ n \in 2 .. 3
      BY <1>4, <1>15, <2>1
    <3>2. n \in 1 .. Len(SeedSteps)
      BY <3>1, StepsAre
    <3>3. s.known \in BOOLEAN
      BY <1>3, StateFields
    <3>4. k \in BOOLEAN
      <4>1. CASE Deletes(f)[s.at] = "user"
        BY <2>1, <4>1
      <4>2. CASE Deletes(f)[s.at] # "user"
        BY <2>1, <3>3, <4>2
      <4> QED
        BY <4>1, <4>2
    <3> QED
      BY <3>1, <3>2, <3>4
  <2>3. PICK q : q = [s EXCEPT !.at = n, !.known = k]
    OBVIOUS
  <2>4. /\ q \in ScriptState /\ q.pc = s.pc /\ q.at = n /\ q.known = k /\ q.fixture = f
        /\ q.broken = s.broken /\ q.hit = s.hit
    BY <1>1, <1>3, <2>2, <2>3 DEF ScriptState
  <2>5. script' = [script EXCEPT ![p] = q]
    BY <1>8, <1>15, <2>1, <2>3 DEF Goes
  <2>6. s.pc = "delete" /\ ~s.broken /\ f = "oidc" => k
    <3>1. SUFFICES ASSUME s.pc = "delete", ~s.broken, f = "oidc" PROVE k
      OBVIOUS
    <3>2. IF s.at = 1 THEN "bound" \in fixture["oidc"] ELSE s.known
      BY <1>1, <1>3, <3>1 DEF CleansWell
    <3>3. CASE s.at = 1
      BY <2>1, <3>1, <3>2, <3>3, DeletesAre
    <3>4. CASE s.at = 2
      <4>1. Deletes(f)[s.at] # "user"
        BY <3>1, <3>4, DeletesAre
      <4> QED
        BY <2>1, <3>2, <3>4, <4>1
    <3> QED
      BY <2>2, <3>3, <3>4
  <2>7. CleansWell(q)'
    <3>1. q.pc \in Cleaning /\ q.pc \in {"clean", "delete"}
      BY <1>2, <2>4 DEF Cleaning
    <3>2. q.pc # "rest" /\ q.pc \notin {"insert", "verify", "backfill"}
      BY <1>2, <2>4
    <3>3. q.pc \in (Cleaning \ {"delete"}) \cup {"tables", "unaudit"} => ~q.broken
      BY <1>3, <2>4 DEF CleansWell
    <3>4. n \in 1 .. 3 /\ n # 1 /\ Deleted(f, n) \cap G = {}
      BY <1>7, <2>1, <2>2
    <3> QED
      BY <1>9, <1>10, <2>4, <2>6, <3>1, <3>2, <3>3, <3>4 DEF CleansWell
  <2> QED
    BY <1>2, <1>14, <2>4, <2>5, <2>7
<1>16. CASE s.at = 3
  <2>1. AfterCleanup(p) /\ 1 \in 1 .. Len(SeedSteps)
    BY <1>8, <1>16, StepsAre
  <2>2. CASE s.pc = "clean"
    <3>1. PICK q : q = [s EXCEPT !.pc = "insert", !.at = 1, !.known = FALSE]
      OBVIOUS
    <3>2. script' = [script EXCEPT ![p] = q]
      BY <1>1, <2>1, <2>2, <3>1 DEF AfterCleanup, Goes
    <3>3. /\ q \in ScriptState /\ q.pc = "insert" /\ q.at = 1 /\ q.fixture = f
          /\ q.broken = s.broken /\ q.hit = s.hit
      BY <1>1, <1>3, <2>1, <3>1 DEF ScriptState
    <3>4. ~s.broken
      BY <1>3, <2>2 DEF CleansWell, Cleaning
    <3>5. fixture'[f] \subseteq (IF f = "oidc" THEN {"person"} ELSE {})
      BY <1>7, <1>9, <1>16
    <3>6. CleansWell(q)'
      BY <1>10, <3>3, <3>4, <3>5 DEF CleansWell, Cleaning
    <3> QED
      BY <1>14, <3>2, <3>3, <3>6
  <2>3. CASE s.pc = "delete" /\ s.broken
    <3>1. PICK q : q = [NotRunning EXCEPT !.pc = "failed", !.hit = s.hit]
      OBVIOUS
    <3>2. script' = [script EXCEPT ![p] = q]
      BY <1>1, <1>3, <2>1, <2>3, <3>1, WebStartupAssumption DEF AfterCleanup, ExitsWithError, Goes
    <3>3. s.hit \in BOOLEAN
      BY <1>3, StateFields
    <3>4. q \in ScriptState /\ q.pc = "failed" /\ q.hit = s.hit /\ ~q.broken /\ q.pc \in Ended
      BY <3>1, <3>3, NewStateIs DEF Ended
    <3>5. SeedsWell(p, q)' /\ CleansWell(q)' /\ p \notin Container
      BY <1>3, <3>4, EndedIsWell, WebStartupAssumption
    <3>6. Monotone
      BY <1>12 DEF Monotone
    <3>7. DataTypeOK'
      BY <1>8, <1>9, <1>11 DEF DataTypeOK, StartInv, StartTypeOK, identities
    <3>8. OwnerInv'
      BY <1>12 DEF StartInv, OwnerInv, OwnerIsSound, Sound
    <3>9. Quiet => QuietDatabase' /\ Fairly(p, q)'
      <4>1. Quiet => QuietDatabase'
        BY <1>8 DEF QuietDatabase, StartInv, identities
      <4>2. Quiet => p \in setup.up
        BY <1>3 DEF Fairly, Ended
      <4>3. Quiet => Fairly(p, q)'
        BY <1>12, <1>13, <2>3, <3>4, <4>2 DEF Fairly
      <4> QED
        BY <4>1, <4>3
    <3> QED
      BY <1>1, <1>3, <1>12, <3>2, <3>4, <3>5, <3>6, <3>7, <3>8, <3>9, ScriptGoes
  <2>4. CASE s.pc = "delete" /\ ~s.broken
    <3>1. fixture'[f] = {}
      <4>1. f = "oidc" => s.known
        BY <1>1, <1>3, <1>16, <2>4 DEF CleansWell
      <4> QED
        BY <1>7, <1>9, <1>16, <4>1
    <3>2. CASE f = "collision"
      <4>1. PICK q : q = [s EXCEPT !.pc = "rest", !.at = 1, !.known = FALSE]
        OBVIOUS
      <4>2. script' = [script EXCEPT ![p] = q]
        BY <1>1, <2>1, <2>4, <3>2, <4>1 DEF AfterCleanup, Goes
      <4>3. /\ q \in ScriptState /\ q.pc = "rest" /\ q.broken = s.broken /\ q.hit = s.hit
        BY <1>1, <1>3, <2>1, <4>1 DEF ScriptState
      <4>4. \A g \in Fixture : fixture'[g] = {}
        BY <1>10, <3>1, <3>2, FixtureOrder
      <4>5. CleansWell(q)'
        BY <4>3, <4>4 DEF CleansWell, Cleaning
      <4> QED
        BY <1>14, <4>2, <4>3, <4>5
    <3>3. CASE f # "collision"
      <4>1. PICK h : h = After(f)
        OBVIOUS
      <4>2. h \in Fixture /\ Before(h) = Before(f) \cup {f}
        BY <1>3, <3>3, <4>1, FixtureOrder DEF After
      <4>3. PICK q : q = [s EXCEPT !.pc = "clean", !.at = 1, !.known = FALSE, !.fixture = h]
        OBVIOUS
      <4>4. script' = [script EXCEPT ![p] = q]
        BY <1>1, <2>1, <2>4, <3>3, <4>1, <4>3 DEF AfterCleanup, Goes
      <4>5. /\ q \in ScriptState /\ q.pc = "clean" /\ q.at = 1 /\ q.fixture = h
            /\ q.broken = s.broken /\ q.hit = s.hit
        BY <1>1, <1>3, <2>1, <4>2, <4>3 DEF ScriptState
      <4>6. \A g \in Before(h) : fixture'[g] = {}
        BY <1>10, <3>1, <4>2
      <4>7. Deleted(h, 1) = {} /\ 1 \in 1 .. 3
        BY DEF Deleted
      <4>8. CleansWell(q)'
        BY <2>4, <4>5, <4>6, <4>7 DEF CleansWell, Cleaning
      <4> QED
        BY <1>14, <4>4, <4>5, <4>8
    <3> QED
      BY <3>2, <3>3
  <2> QED
    BY <1>2, <2>2, <2>3, <2>4
<1> QED
  BY <1>15, <1>16

LEMMA InsertFixtureKeeps ==
  ASSUME StartInv, NEW p \in Script, InsertFixture(p)
  PROVE  StartInv'
<1>1. PICK s, f, q : s = script[p] /\ f = s.fixture /\ q = [s EXCEPT !.pc = "verify"]
  OBVIOUS
<1>2. s.pc = "insert" /\ s.pc \in Migrated \ {"keys", "seed", "serving"}
  BY <1>1 DEF InsertFixture, Migrated
<1>3. p \in Check /\ s \in ScriptState /\ CleansWell(s) /\ f \in Fixture /\ (Quiet => Fairly(p, s))
  BY <1>1, <1>2, CheckIs, ScriptIs, StateFields
<1>4. /\ ~s.broken /\ s.at = 1 /\ \A g \in Before(f) : fixture[g] = {}
      /\ fixture[f] \subseteq (IF f = "oidc" THEN {"person"} ELSE {})
  BY <1>1, <1>2, <1>3 DEF CleansWell, Cleaning
<1>5. fixture \in [Fixture -> SUBSET {"user", "bound", "person", "reservation"}]
  BY DEF StartInv, StartTypeOK
<1>6. PICK G : G = CASE f = "reconciled" -> (fixture[f] \ {"bound"}) \cup {"user"}
                     [] f = "oidc" -> {"user", "bound", "person", "reservation"}
                     [] f = "collision" -> fixture[f] \cup {"person"}
  OBVIOUS
<1>7. /\ fixture' = [fixture EXCEPT ![f] = G] /\ script' = [script EXCEPT ![p] = q]
      /\ UNCHANGED <<setup, schema, row, identities, audit, troubles>>
  BY <1>1, <1>6 DEF InsertFixture, GoesTo, Goes
<1>8. /\ G \subseteq {"user", "bound", "person", "reservation"}
      /\ f = "oidc" => {"user", "bound"} \subseteq G
      /\ f = "collision" => "user" \notin G
  <2>1. CASE f = "reconciled"
    BY <1>3, <1>5, <1>6, <2>1
  <2>2. CASE f = "oidc"
    BY <1>6, <2>2
  <2>3. CASE f = "collision"
    BY <1>4, <1>6, <2>3
  <2> QED
    BY <1>3, <2>1, <2>2, <2>3, FixtureOrder
<1>9. /\ fixture' \in [Fixture -> SUBSET {"user", "bound", "person", "reservation"}]
      /\ fixture'[f] = G /\ \A g \in Fixture \ {f} : fixture'[g] = fixture[g]
  BY <1>3, <1>5, <1>7, <1>8
<1>10. \A g \in Before(f) : fixture'[g] = {}
  BY <1>4, <1>9 DEF Before
<1>11. /\ q \in ScriptState /\ q.pc = "verify" /\ q.at = 1 /\ q.fixture = f
       /\ q.broken = s.broken /\ q.hit = s.hit
  BY <1>1, <1>3, <1>4 DEF ScriptState
<1>12. CleansWell(q)'
  BY <1>4, <1>8, <1>9, <1>10, <1>11 DEF CleansWell, Cleaning
<1>13. q.pc \in Migrated \ {"keys", "seed", "serving"}
  BY <1>11 DEF Migrated
<1>14. troubles' \in 0 .. setup.troubles
  BY <1>7, TroublesStay
<1>15. UNCHANGED <<setup, schema, row, persons, owns>> /\ legacy' \in {legacy, FALSE} /\ audit' \in BOOLEAN
  BY <1>7 DEF identities, StartInv, StartTypeOK
<1>16. Quiet /\ q.broken => q.hit
  BY <1>4, <1>11
<1> QED
  BY <1>1, <1>2, <1>3, <1>7, <1>9, <1>11, <1>12, <1>13, <1>14, <1>15, <1>16, CheckGoes

LEMMA VerifyReconciledKeeps ==
  ASSUME StartInv, NEW p \in Script, VerifyReconciled(p)
  PROVE  StartInv'
<1>1. PICK s, q, G : /\ s = script[p] /\ q = [s EXCEPT !.pc = "backfill"]
                     /\ G = {"user", "bound", "person", "reservation"}
  OBVIOUS
<1>2. s.pc = "verify" /\ s.fixture = "reconciled" /\ s.pc \in Migrated \ {"keys", "seed", "serving"}
  BY <1>1 DEF VerifyReconciled, Migrated
<1>3. p \in Check /\ s \in ScriptState /\ CleansWell(s)
  BY <1>1, <1>2, CheckIs
<1>4. ~s.broken /\ s.at = 1
  BY <1>2, <1>3 DEF CleansWell, Cleaning
<1>5. /\ fixture' = [fixture EXCEPT !["reconciled"] = G] /\ script' = [script EXCEPT ![p] = q]
      /\ UNCHANGED <<setup, schema, row, identities, audit, troubles>>
  BY <1>1 DEF VerifyReconciled, GoesTo, Goes
<1>6. fixture' \in [Fixture -> SUBSET {"user", "bound", "person", "reservation"}]
  BY <1>1, <1>5 DEF StartInv, StartTypeOK
<1>7. /\ q \in ScriptState /\ q.pc = "backfill" /\ q.at = 1 /\ q.fixture = "reconciled"
      /\ q.broken = s.broken /\ q.hit = s.hit
  BY <1>1, <1>2, <1>3, <1>4 DEF ScriptState
<1>8. CleansWell(q)'
  BY <1>4, <1>7, FixtureOrder DEF CleansWell, Cleaning
<1>9. q.pc \in Migrated \ {"keys", "seed", "serving"}
  BY <1>7 DEF Migrated
<1>10. troubles' \in 0 .. setup.troubles
  BY <1>5, TroublesStay
<1>11. UNCHANGED <<setup, schema, row, persons, owns>> /\ legacy' \in {legacy, FALSE} /\ audit' \in BOOLEAN
  BY <1>5 DEF identities, StartInv, StartTypeOK
<1>12. Quiet /\ q.broken => q.hit
  BY <1>4, <1>7
<1> QED
  BY <1>1, <1>2, <1>3, <1>5, <1>6, <1>7, <1>8, <1>9, <1>10, <1>11, <1>12, CheckGoes

\* The check is done with a fixture, and cleans it up; where it found
\* something wrong, with the error in mind.
LEMMA TurnsToCleanup ==
  ASSUME StartInv, NEW p \in Script, NEW s, s = script[p], s.pc \in {"verify", "backfill"},
         NEW b \in BOOLEAN, NEW q, q = [s EXCEPT !.pc = "delete", !.broken = b],
         script' = [script EXCEPT ![p] = q], UNCHANGED <<setup, schema, row, persons, owns, fixtures>>,
         legacy' \in {legacy, FALSE}, UNCHANGED troubles, Quiet => ~b
  PROVE  StartInv'
<1>1. s.pc \in Migrated \ {"keys", "seed", "serving"}
  BY DEF Migrated
<1>2. p \in Check /\ s \in ScriptState /\ CleansWell(s) /\ s.fixture \in Fixture
  BY <1>1, CheckIs, StateFields
<1>3. /\ s.at = 1 /\ \A g \in Before(s.fixture) : fixture[g] = {}
      /\ s.fixture = "oidc" => "bound" \in fixture["oidc"]
  <2>1. s.pc \in Cleaning /\ s.pc \in {"insert", "verify", "backfill"}
    BY DEF Cleaning
  <2>2. s.at = 1 /\ \A g \in Before(s.fixture) : fixture[g] = {}
    BY <1>2, <2>1 DEF CleansWell
  <2>3. s.fixture = "oidc" => s.pc = "verify"
    BY <1>2 DEF CleansWell
  <2>4. s.fixture = "oidc" => {"user", "bound"} \subseteq fixture["oidc"]
    BY <1>2, <2>3 DEF CleansWell
  <2> QED
    BY <2>2, <2>4
<1>4. /\ q \in ScriptState /\ q.pc = "delete" /\ q.at = 1 /\ q.fixture = s.fixture
      /\ q.broken = b /\ q.hit = s.hit
  BY <1>2, <1>3 DEF ScriptState
<1>5. Deleted(s.fixture, 1) = {}
  BY DEF Deleted
<1>6. UNCHANGED fixture /\ UNCHANGED audit
  BY DEF fixtures
<1>7. CleansWell(q)'
  <2>1. q.pc \notin (Cleaning \ {"delete"}) \cup {"tables", "unaudit"}
    BY <1>4 DEF Cleaning
  <2>2. q.at \in 1 .. 3
    BY <1>4
  <2> QED
    BY <1>3, <1>4, <1>5, <1>6, <2>1, <2>2 DEF CleansWell
<1>8. q.pc \in Migrated \ {"keys", "seed", "serving"}
  BY <1>4 DEF Migrated
<1>9. troubles' \in 0 .. setup.troubles
  BY TroublesStay
<1>10. audit' \in BOOLEAN /\ fixture' \in [Fixture -> SUBSET {"user", "bound", "person", "reservation"}]
  BY <1>6 DEF StartInv, StartTypeOK
<1>11. Quiet /\ q.broken => q.hit
  BY <1>4
<1> QED
  BY <1>1, <1>2, <1>4, <1>7, <1>8, <1>9, <1>10, <1>11, CheckGoes

LEMMA VerifyOidcKeeps ==
  ASSUME StartInv, NEW p \in Script, VerifyOidc(p)
  PROVE  StartInv'
<1>1. PICK s, b : s = script[p] /\ b = ("user" \notin fixture["oidc"])
  OBVIOUS
<1>2. s.pc = "verify" /\ s.fixture = "oidc" /\ s.pc \in Migrated \ {"keys", "seed", "serving"}
  BY <1>1 DEF VerifyOidc, Migrated
<1>3. ~b /\ b \in BOOLEAN
  <2>1. CleansWell(s)
    BY <1>1, <1>2, CheckIs
  <2>2. {"user", "bound"} \subseteq fixture["oidc"]
    BY <1>2, <2>1 DEF CleansWell
  <2>3. b = FALSE
    BY <1>1, <2>2
  <2> QED
    BY <2>3
<1>4. PICK q : q = [s EXCEPT !.pc = "delete", !.broken = b]
  OBVIOUS
<1>5. /\ script' = [script EXCEPT ![p] = q]
      /\ UNCHANGED <<setup, schema, row, identities, fixtures, troubles>>
  BY <1>1, <1>4 DEF VerifyOidc, Goes
<1>6. UNCHANGED <<setup, schema, row, persons, owns, fixtures>> /\ legacy' \in {legacy, FALSE}
  BY <1>5 DEF identities
<1> QED
  BY <1>1, <1>2, <1>3, <1>4, <1>5, <1>6, TurnsToCleanup

LEMMA VerifyCollisionKeeps ==
  ASSUME StartInv, NEW p \in Script, VerifyCollision(p)
  PROVE  StartInv'
<1>1. PICK s, b : s = script[p] /\ b = ("user" \in fixture["collision"])
  OBVIOUS
<1>2. s.pc = "verify" /\ s.fixture = "collision" /\ s.pc \in Migrated \ {"keys", "seed", "serving"}
  BY <1>1 DEF VerifyCollision, Migrated
<1>3. ~b /\ b \in BOOLEAN
  <2>1. CleansWell(s)
    BY <1>1, <1>2, CheckIs
  <2>2. "user" \notin fixture["collision"]
    BY <1>2, <2>1 DEF CleansWell
  <2>3. ("user" \in fixture["collision"]) = FALSE
    BY <2>2
  <2>4. b = FALSE
    BY <1>1, <2>3, Zenon
  <2> QED
    BY <2>4
<1>4. PICK q : q = [s EXCEPT !.pc = "delete", !.broken = b]
  OBVIOUS
<1>5. /\ script' = [script EXCEPT ![p] = q]
      /\ UNCHANGED <<setup, schema, row, identities, fixtures, troubles>>
  BY <1>1, <1>4 DEF VerifyCollision, Goes
<1>6. UNCHANGED <<setup, schema, row, persons, owns, fixtures>> /\ legacy' \in {legacy, FALSE}
  BY <1>5 DEF identities
<1> QED
  BY <1>1, <1>2, <1>3, <1>4, <1>5, <1>6, TurnsToCleanup

\* No user but the fixture's is without a Person in a quiet setup.
LEMMA BackfillUsersKeeps ==
  ASSUME StartInv, NEW p \in Script, BackfillUsers(p)
  PROVE  StartInv'
<1>1. PICK s, b : s = script[p] /\ b = legacy
  OBVIOUS
<1>2. s.pc = "backfill" /\ b \in BOOLEAN
  BY <1>1 DEF BackfillUsers, StartInv, StartTypeOK
<1>3. Quiet => ~b
  BY <1>1 DEF StartInv, QuietDatabase
<1>4. PICK q : q = [s EXCEPT !.pc = "delete", !.broken = b]
  OBVIOUS
<1>5. /\ script' = [script EXCEPT ![p] = q] /\ legacy' = FALSE
      /\ UNCHANGED <<setup, schema, row, persons, owns, fixtures, troubles>>
  BY <1>1, <1>4 DEF BackfillUsers, Goes
<1> QED
  BY <1>1, <1>2, <1>3, <1>4, <1>5, TurnsToCleanup

LEMMA CheckRestKeeps ==
  ASSUME StartInv, NEW p \in Script, CheckRest(p)
  PROVE  StartInv'
<1>1. PICK s, h : s = script[p] /\ h = s.hit
  OBVIOUS
<1>2. s.pc = "rest" /\ s.pc \in Migrated \ {"keys", "seed", "serving"}
  BY <1>1 DEF CheckRest, Migrated
<1>3. p \in Check /\ s \in ScriptState /\ script[p].pc # "down" /\ \A r \in Row : row[r] # "absent"
  BY <1>1, <1>2, CheckIs
<1>4. UNCHANGED <<setup, schema, row, identities, fixtures, troubles>>
  BY DEF CheckRest
<1>5. Quiet => \A r \in Row : row[r] = "seeded"
  BY <1>3 DEF StartInv, QuietDatabase
<1>6. Compared \subseteq Row
  <2>1. \A i \in {10, 11, 13, 14, 15} : i \in 1 .. 16 /\ i \notin 4 .. 7
    OBVIOUS
  <2>2. \A i \in {10, 11, 13, 14, 15} : SeedSteps[i] \in Row
    BY <2>1, RowsAre
  <2> QED
    BY <2>2, StepsAre DEF Compared, Editable
<1>7. CASE \A r \in Compared : row[r] = "seeded"
  <2>1. PICK q : q = [NotRunning EXCEPT !.pc = "passed", !.hit = h]
    OBVIOUS
  <2>2. script' = [script EXCEPT ![p] = q]
    BY <1>1, <1>7, <2>1 DEF CheckRest, Goes
  <2>3. h \in BOOLEAN /\ p \notin Container /\ "passed" \in Ended
    BY <1>1, <1>3, StateFields, WebStartupAssumption DEF Ended
  <2>4. troubles' \in 0 .. setup.troubles
    BY <1>4, TroublesStay
  <2> QED
    BY <1>3, <1>4, <2>1, <2>2, <2>3, <2>4, ExitedIs
<1>8. CASE ~\A r \in Compared : row[r] = "seeded"
  <2>1. ~Quiet /\ ExitsWithError(p)
    BY <1>5, <1>6, <1>8 DEF CheckRest
  <2> QED
    BY <1>3, <1>4, <2>1, ErrorKeeps
<1> QED
  BY <1>7, <1>8

-----------------------------------------------------------------------------
(* Troubles, and people                                                    *)

LEMMA FailsKeeps ==
  ASSUME StartInv, NEW p \in Script, Fails(p)
  PROVE  StartInv'
<1>1. PICK s : s = script[p]
  OBVIOUS
<1>2. /\ s \in ScriptState /\ script[p].pc # "down" /\ s.pc # "down"
      /\ UNCHANGED <<setup, schema, row, identities, fixtures>>
  BY <1>1, ScriptIs DEF Fails, Running
<1>3. troubles' \in 0 .. setup.troubles
  BY TroublesStay DEF Fails
<1>4. CASE s.pc \in {"insert", "verify", "backfill"}
  <2>1. s.pc \in Migrated \ {"keys", "seed", "serving"}
    BY <1>4 DEF Migrated
  <2>2. p \in Check /\ CleansWell(s) /\ s.fixture \in Fixture /\ 1 \in 1 .. Len(SeedSteps)
    BY <1>1, <1>2, <2>1, CheckIs, StateFields, StepsAre
  <2>3. PICK q : q = [s EXCEPT !.pc = "delete", !.at = 1, !.broken = TRUE, !.hit = TRUE]
    OBVIOUS
  <2>4. /\ q \in ScriptState /\ q.pc = "delete" /\ q.at = 1 /\ q.fixture = s.fixture
        /\ q.broken /\ q.hit
    BY <1>2, <2>2, <2>3 DEF ScriptState
  <2>5. script' = [script EXCEPT ![p] = q]
    BY <1>1, <1>4, <2>3 DEF Fails, Goes
  <2>6. \A g \in Before(s.fixture) : fixture[g] = {}
    BY <1>4, <2>2 DEF CleansWell, Cleaning
  <2>7. CleansWell(q)'
    <3>1. Deleted(s.fixture, 1) = {} /\ UNCHANGED fixture
      BY <1>2 DEF Deleted, fixtures
    <3>2. q.pc \notin (Cleaning \ {"delete"}) \cup {"tables", "unaudit"} /\ q.at \in 1 .. 3
      BY <2>4 DEF Cleaning
    <3> QED
      BY <2>4, <2>6, <3>1, <3>2 DEF CleansWell
  <2>8. q.pc \in Migrated \ {"keys", "seed", "serving"}
    BY <2>4 DEF Migrated
  <2>9. /\ UNCHANGED <<setup, schema, row, persons, owns>> /\ legacy' \in {legacy, FALSE}
        /\ audit' \in BOOLEAN
        /\ fixture' \in [Fixture -> SUBSET {"user", "bound", "person", "reservation"}]
    BY <1>2 DEF identities, fixtures, StartInv, StartTypeOK
  <2> QED
    BY <1>1, <1>3, <2>1, <2>2, <2>4, <2>5, <2>7, <2>8, <2>9, CheckGoes
<1>5. CASE s.pc \notin {"insert", "verify", "backfill"}
  <2>1. PICK h, pc : h = (p \in Check) /\ pc = IF p \in Container THEN "down" ELSE "failed"
    OBVIOUS
  <2>2. PICK q : q = [NotRunning EXCEPT !.pc = pc, !.hit = h]
    OBVIOUS
  <2>3. script' = [script EXCEPT ![p] = q]
    BY <1>1, <1>5, <2>1, <2>2 DEF Fails, Goes
  <2>4. h \in BOOLEAN /\ pc \in Ended /\ (p \in Container => pc = "down")
    BY <2>1 DEF Ended
  <2>5. Quiet /\ p \in Check /\ pc = "failed" => h
    BY <2>1
  <2> QED
    BY <1>2, <1>3, <2>2, <2>3, <2>4, <2>5, ExitedIs
<1> QED
  BY <1>4, <1>5

LEMMA IsKilledKeeps ==
  ASSUME StartInv, NEW p \in Script, IsKilled(p)
  PROVE  StartInv'
<1>1. PICK h, pc : h = (p \in Check) /\ pc = IF p \in Container THEN "down" ELSE "killed"
  OBVIOUS
<1>2. PICK q : q = [NotRunning EXCEPT !.pc = pc, !.hit = h]
  OBVIOUS
<1>3. script' = [script EXCEPT ![p] = q] /\ UNCHANGED <<setup, schema, row, identities, fixtures>>
  BY <1>1, <1>2 DEF IsKilled, Goes
<1>4. h \in BOOLEAN /\ pc \in Ended /\ (p \in Container => pc = "down")
  BY <1>1 DEF Ended
<1>5. troubles' \in 0 .. setup.troubles /\ script[p].pc # "down"
  BY <1>3, TroublesStay DEF IsKilled, Running
<1>6. Quiet /\ p \in Check /\ pc = "failed" => h
  BY <1>1
<1> QED
  BY <1>2, <1>3, <1>4, <1>5, <1>6, ExitedIs

\* People change what they may: no script depends on more than that it is there.
LEMMA PeopleKeep ==
  ASSUME StartInv, setup.open, UNCHANGED <<schema, script, fixtures, legacy, troubles>>, Monotone,
         DataTypeOK', OwnerInv'
  PROVE  StartInv'
<1>1. StartTypeOK'
  BY DEF StartInv, StartTypeOK, DataTypeOK
<1>2. OneCheck'
  BY DEF StartInv, OneCheck
<1>3. ASSUME NEW p \in Script PROVE SeedsWell(p, script[p])'
  <2>1. PICK s : s = script[p]
    OBVIOUS
  <2>2. SeedsWell(p, s)'
    BY <2>1, SeedsOn DEF StartInv
  <2> QED
    BY <2>1, <2>2
<1>4. ASSUME NEW k \in Check PROVE CleansWell(script[k])'
  <2>1. PICK s : s = script[k]
    OBVIOUS
  <2>2. CleansWell(s)
    BY <2>1 DEF StartInv
  <2>3. CleansWell(s)'
    BY <2>2 DEF CleansWell, fixtures
  <2> QED
    BY <2>1, <2>3
<1>5. ~Quiet'
  BY DEF Quiet, Monotone
<1> QED
  BY <1>1, <1>2, <1>3, <1>4, <1>5 DEF StartInv

\* Nobody has the address as a user yet: the demo's user is none of it.
LEMMA VisitorSignsInKeeps ==
  ASSUME StartInv, VisitorSignsIn
  PROVE  StartInv'
<1>1. PICK x : x = IF persons = {} THEN "visitor" ELSE CHOOSE y \in persons : TRUE
  OBVIOUS
<1>2. persons \subseteq Person /\ owns \in [{"demo", "visitor"} -> Person \cup {"nobody"}]
  BY DEF StartInv, StartTypeOK
<1>3. x \in Person
  <2>1. CASE persons = {}
    BY <1>1, <2>1 DEF Person
  <2>2. CASE persons # {}
    <3>1. (CHOOSE y \in persons : TRUE) \in persons
      BY <2>2
    <3> QED
      BY <1>1, <1>2, <2>2, <3>1
  <2> QED
    BY <2>1, <2>2
<1>4. persons' = persons \cup {x} /\ owns' = [owns EXCEPT !["visitor"] = x]
  BY <1>1 DEF VisitorSignsIn
<1>5. owns["demo"] = "nobody" /\ owns'["demo"] = "nobody"
  <2>1. owns = [u \in DOMAIN owns |-> "nobody"] /\ "demo" \in DOMAIN owns
    BY <1>2 DEF VisitorSignsIn
  <2>2. owns["demo"] = "nobody"
    BY <2>1
  <2> QED
    BY <1>2, <1>4, <2>2
<1>6. setup.open /\ UNCHANGED <<setup, schema, row, legacy, fixtures, script, troubles>>
  BY DEF VisitorSignsIn
<1>7. Monotone
  BY <1>4, <1>5, <1>6 DEF Monotone
<1>8. DataTypeOK'
  <2>1. persons' \subseteq Person /\ owns' \in [{"demo", "visitor"} -> Person \cup {"nobody"}]
    BY <1>2, <1>3, <1>4
  <2> QED
    BY <1>6, <2>1 DEF DataTypeOK, StartInv, StartTypeOK, fixtures
<1>9. OwnerInv'
  BY <1>5 DEF OwnerInv
<1> QED
  BY <1>6, <1>7, <1>8, <1>9, PeopleKeep

\* A row that is there is edited or removed, and none becomes absent.
LEMMA RowKeeps ==
  ASSUME StartInv, setup.open, NEW r \in Row, NEW to \in {"edited", "removed"},
         row' = [row EXCEPT ![r] = to],
         UNCHANGED <<setup, schema, identities, fixtures, script, troubles>>
  PROVE  StartInv'
<1>1. row' \in [Row -> {"absent", "seeded", "edited", "removed"}] /\ \A q \in Row : row[q] # "absent" => row'[q] # "absent"
  BY DEF StartInv, StartTypeOK
<1>2. Monotone
  BY <1>1 DEF Monotone, identities
<1>3. DataTypeOK'
  BY <1>1 DEF DataTypeOK, StartInv, StartTypeOK, fixtures, identities
<1>4. OwnerInv'
  BY DEF StartInv, OwnerInv, OwnerIsSound, Sound, identities
<1>5. UNCHANGED <<schema, script, fixtures, legacy, troubles>>
  BY DEF identities
<1> QED
  BY <1>2, <1>3, <1>4, <1>5, PeopleKeep

LEMMA EditableAreRows ==
  Editable \subseteq Row
<1>1. \A i \in {10, 11, 13, 14, 15, 16} : i \in 1 .. 16 /\ i \notin 4 .. 7
  OBVIOUS
<1>2. \A i \in {10, 11, 13, 14, 15, 16} : SeedSteps[i] \in Row
  BY <1>1, RowsAre
<1> QED
  BY <1>2, StepsAre DEF Editable

LEMMA SomebodyEditsKeeps ==
  ASSUME StartInv, SomebodyEdits
  PROVE  StartInv'
<1>1. PICK r \in Editable \ Overrides : row' = [row EXCEPT ![r] = "edited"]
  BY DEF SomebodyEdits
<1>2. setup.open /\ UNCHANGED <<setup, schema, identities, fixtures, script, troubles>> /\ r \in Row
  BY EditableAreRows DEF SomebodyEdits
<1> QED
  BY <1>1, <1>2, RowKeeps

LEMMA SaveOverrideKeeps ==
  ASSUME StartInv, NEW r \in Overrides, SaveOverride(r)
  PROVE  StartInv'
<1>1. PICK to \in {"edited", "removed"} : row' = [row EXCEPT ![r] = to]
  BY DEF SaveOverride
<1>2. setup.open /\ UNCHANGED <<setup, schema, identities, fixtures, script, troubles>>
  BY DEF SaveOverride
<1>3. r \in Row
  BY EditableAreRows DEF Overrides, Editable
<1> QED
  BY <1>1, <1>2, <1>3, RowKeeps

-----------------------------------------------------------------------------
LEMMA StartInitInv ==
  StartInit => StartInv
<1> SUFFICES ASSUME StartInit PROVE StartInv
  OBVIOUS
<1>1. setup \in SetupState /\ setup \in Setups
  BY WebStartupAssumption DEF StartInit
<1>2. \A p \in Script : script[p] = NotRunning
  BY DEF StartInit
<1>3. StartTypeOK
  <2>1. script \in [Script -> ScriptState]
    BY NotRunningIs DEF StartInit
  <2>2. schema \in {"empty", "foreign", "partial", "complete"} /\ persons \subseteq Person
        /\ legacy \in BOOLEAN /\ troubles \in 0 .. setup.troubles
    BY <1>1 DEF StartInit, SetupState, Person
  <2>3. owns \in [{"demo", "visitor"} -> Person \cup {"nobody"}]
    BY DEF StartInit
  <2>4. row \in [Row -> {"absent", "seeded", "edited", "removed"}] /\ audit \in BOOLEAN
        /\ fixture \in [Fixture -> SUBSET {"user", "bound", "person", "reservation"}]
    BY DEF StartInit
  <2> QED
    BY <1>1, <2>1, <2>2, <2>3, <2>4 DEF StartTypeOK
<1>4. OwnerInv
  BY DEF StartInit, OwnerInv
<1>5. NotRunning.pc \in Ended /\ NotRunning.pc = "down"
  BY NotRunningIs DEF Ended
<1>6. \A p \in Script : SeedsWell(p, script[p]) /\ CleansWell(script[p])
  BY <1>2, <1>5, EndedIsWell
<1>7. OneCheck /\ Check \subseteq Script
  BY <1>2, <1>5 DEF OneCheck, Script
<1>8. Quiet => QuietDatabase
  BY DEF Quiet, QuietDatabase, StartInit
<1>9. \A p \in Script : Fairly(p, script[p])
  BY <1>2, NotRunningIs DEF Fairly
<1> QED
  BY <1>3, <1>4, <1>6, <1>7, <1>8, <1>9 DEF StartInv

LEMMA StartStepKeepsInv ==
  ASSUME StartInv, [StartNext]_startVars
  PROVE  StartInv'
<1>1. ASSUME NEW p \in Script, ScriptStep(p) PROVE StartInv'
  <2>1. CASE StartScript(p) \/ InspectSchema(p) \/ Migrate(p) \/ BackfillKeys(p)
    BY <2>1, StartScriptKeeps, InspectSchemaKeeps, MigrateKeeps, BackfillKeysKeeps
  <2>2. CASE Seed(p)
    BY <2>2, SeedKeeps
  <2>3. CASE Smoke(p)
    BY <2>3, CheckTablesKeeps, DeleteAuditKeeps, CleanupKeeps, InsertFixtureKeeps, VerifyReconciledKeeps,
       VerifyOidcKeeps, VerifyCollisionKeeps, BackfillUsersKeeps, CheckRestKeeps DEF Smoke
  <2> QED
    BY <1>1, <2>1, <2>2, <2>3 DEF ScriptStep
<1>2. ASSUME NEW p \in Script, Fails(p) \/ IsKilled(p) PROVE StartInv'
  BY <1>2, FailsKeeps, IsKilledKeeps
<1>3. CASE VisitorSignsIn
  BY <1>3, VisitorSignsInKeeps
<1>4. CASE SomebodyEdits
  BY <1>4, SomebodyEditsKeeps
<1>5. CASE SaveTenantPromptOverride \/ SaveTenantLanguageOverride
  BY <1>5, SaveOverrideKeeps DEF SaveTenantPromptOverride, SaveTenantLanguageOverride, Overrides
<1>6. CASE UNCHANGED startVars
  BY <1>6 DEF startVars, identities, fixtures, StartInv, StartTypeOK, OwnerInv, OwnerIsSound, OneCheck,
     SeedsWell, CleansWell, Quiet, QuietDatabase, Fairly
<1> QED
  BY <1>1, <1>2, <1>3, <1>4, <1>5, <1>6 DEF StartNext

LEMMA StartInvServes ==
  StartInv => ServesWhatIsSeeded
<1> SUFFICES ASSUME StartInv, NEW p \in Container, script[p].pc = "serving"
             PROVE  schema = "complete" /\ (\A r \in Row : row[r] # "absent") /\ OwnerIsSound
  BY DEF ServesWhatIsSeeded
<1>1. p \in Script /\ SeedsWell(p, script[p])
  BY ScriptIs DEF Script
<1>2. script[p].pc \in Migrated /\ script[p].pc \in Migrated \ {"keys", "seed"}
  BY DEF Migrated
<1>3. schema = "complete" /\ owns["demo"] # "nobody" /\ \A r \in Row : row[r] # "absent"
  BY <1>1, <1>2 DEF SeedsWell
<1> QED
  BY <1>3 DEF StartInv, OwnerInv

LEMMA StartInvIsFair ==
  StartInv => SmokeIsFair
<1> SUFFICES ASSUME StartInv, NEW k \in Check
             PROVE  /\ script[k].pc = "failed" /\ ~script[k].hit =>
                         \/ setup.open \/ setup.legacy \/ setup.persons # {} \/ setup.schema = "foreign"
                         \/ setup.schema = "empty" /\ setup.up \cap Container # {}
                    /\ script[k].pc = "rest" => \A f \in Fixture : fixture[f] = {}
  BY DEF SmokeIsFair
<1>1. k \in Script /\ CleansWell(script[k]) /\ (Quiet => Fairly(k, script[k]))
  BY ScriptIs DEF Script
<1>2. setup.schema \in {"empty", "foreign", "complete"}
  BY WebStartupAssumption DEF StartInv, StartTypeOK, SetupState
<1>3. script[k].pc = "failed" /\ ~script[k].hit => ~Quiet
  BY <1>1 DEF Fairly
<1>4. script[k].pc = "rest" => \A f \in Fixture : fixture[f] = {}
  BY <1>1 DEF CleansWell
<1> QED
  BY <1>2, <1>3, <1>4 DEF Quiet

-----------------------------------------------------------------------------
(* The application                                                         *)

\* A step of the application is one of each part, or leaves the part alone.
LEMMA Parts ==
  ASSUME [ApplicationNext]_allVars
  PROVE  [Next]_vars /\ [PageNext]_pageVars /\ [StartNext]_startVars /\ [GateNext]_gateVars
BY DEF ApplicationNext, PageNext, allVars

\* However windows lie and buckets are reclaimed, replaced and evicted: no key
\* is admitted twice its limit within a window's length, and who comes back
\* when told to is not blocked (rate-limit.ts, request-access/+page.server.ts).
THEOREM LimiterStaysSound == ApplicationSpec => []LimiterIsSound
<1>1. ApplicationInit => LimiterInv
  BY LimiterInitially DEF ApplicationInit, PageInit
<1>2. LimiterInv /\ [ApplicationNext]_allVars => LimiterInv'
  BY Parts, LimiterStepsKeep
<1>3. LimiterInv => LimiterIsSound
  BY TheLimiterIsSound
<1> QED
  BY <1>1, <1>2, <1>3, PTL DEF ApplicationSpec

\* However requests are aborted, fail and come back, tenants are switched and
\* pages left: the panel lists one tenant's operations, waits for the command
\* that is under way, and makes no operation twice (ReportOperations.svelte).
THEOREM PanelStaysSound == ApplicationSpec => []PanelIsSound
<1>1. ApplicationInit => PageInv
  BY PageInitially DEF ApplicationInit
<1>2. PageInv /\ [ApplicationNext]_allVars => PageInv'
  BY Parts, PageStepsKeep
<1>3. PageInv => PanelIsSound
  BY ThePanelIsSound
<1> QED
  BY <1>1, <1>2, <1>3, PTL DEF ApplicationSpec

\* A tool acknowledges and answers for the page it was called on only, and for
\* what the server has done (operation-tool.ts, shell-request-lifetime.ts).
THEOREM ToolsStayTrue == ApplicationSpec => ToolsAnswerTruly
<1>1. ApplicationInit => PageInv
  BY PageInitially DEF ApplicationInit
<1>2. PageInv /\ [ApplicationNext]_allVars => PageInv'
  BY Parts, PageStepsKeep
<1>3. ASSUME PageInv, [ApplicationNext]_allVars
      PROVE  [\A f \in Fetch :
                LET was == fetch[f] is == fetch'[f] IN
                /\ was.pc # "acknowledged" /\ is.pc = "acknowledged" =>
                     /\ page.mounted /\ was.life = page.life /\ was.asked = page.tenant
                     /\ \E t \in Tenant : [id |-> was.id, tenant |-> t] \in server.operations
                /\ was.pc # "answered" /\ is.pc = "answered" =>
                     ~was.aborted /\ was.life = page.life]_<<vars, pageVars>>
  <2>1. \A f \in Fetch : TellsTheTruth(f)
    BY <1>3, Parts, ToolsTellTheTruth
  <2> QED
    BY <2>1 DEF TellsTheTruth
<1> QED
  BY <1>1, <1>2, <1>3, PTL DEF ApplicationSpec, ToolsAnswerTruly

\* Whatever is set, reset and awaited in whatever order: the provider changes
\* when it is set, or reset, or when a request that finds none adopts the
\* environment's from a promise that none of these has overtaken (billing.ts).
THEOREM NothingStaleIsEverAdopted == ApplicationSpec => NothingStaleIsAdopted
<1>1. ApplicationInit => MemoInv
  <2>1. Idle \in CallState /\ Idle.pc # "await"
    BY DEF Idle, CallState
  <2> QED
    BY <2>1 DEF ApplicationInit, PageInit, Init, MemoInv
<1>2. MemoInv /\ [ApplicationNext]_allVars => MemoInv'
  BY Parts, MemoStepsKeep
<1>3. ASSUME MemoInv, [ApplicationNext]_allVars
      PROVE  [provider' # provider =>
                AdoptsCurrent \/ \E value \in Explicit \cup {None} : Set(value)]_vars
  BY <1>3, Parts, NothingStale
<1> QED
  BY <1>1, <1>2, <1>3, PTL DEF ApplicationSpec, NothingStaleIsAdopted

\* Wherever scripts fail or are killed, whoever signs in and whatever other
\* containers are about: a container serves only on a complete schema with all
\* that is seeded, and a demo owner whom authorisation accepts
\* (smrt-start.mjs, smrt-db-seed.mjs).
THEOREM ServesWhatWasSeeded == ApplicationSpec => []ServesWhatIsSeeded
<1>1. ApplicationInit => StartInv
  BY StartInitInv DEF ApplicationInit
<1>2. StartInv /\ [ApplicationNext]_allVars => StartInv'
  BY Parts, StartStepKeepsInv
<1> QED
  BY <1>1, <1>2, StartInvServes, PTL DEF ApplicationSpec

\* Whatever the checks before it have left, a db:smoke upon which no trouble
\* comes fails only for something that is not its own, and comes to its last
\* part with every fixture gone (smrt-db-smoke.mjs).
THEOREM SmokeStaysFair == ApplicationSpec => []SmokeIsFair
<1>1. ApplicationInit => StartInv
  BY StartInitInv DEF ApplicationInit
<1>2. StartInv /\ [ApplicationNext]_allVars => StartInv'
  BY Parts, StartStepKeepsInv
<1> QED
  BY <1>1, <1>2, StartInvIsFair, PTL DEF ApplicationSpec

\* A run of the release gate that passes has tested its own image, on its own
\* data, and left nothing behind but what it could not remove
\* (starter-production-image.spec and its helpers).
THEOREM PassesAreTested == ApplicationSpec => []PassMeansTested
<1>1. ApplicationInit => GateInv
  BY GateInitially DEF ApplicationInit
<1>2. GateInv /\ [ApplicationNext]_allVars => GateInv'
  BY Parts, GateStepsKeep
<1> QED
  BY <1>1, <1>2, GateTellsTheTruth, PTL DEF ApplicationSpec
=============================================================================
