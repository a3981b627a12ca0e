------------------------- MODULE PluginHostsProofs -------------------------
(***************************************************************************)
(* Proofs about the hosts of a plugin, for every set of keys, values,      *)
(* requests and headers and any quotas.                                    *)
(***************************************************************************)
EXTENDS PluginHosts, FiniteSetTheorems, TLAPS

-----------------------------------------------------------------------------
(* What a filter leaves.                                                   *)

\* f lists n positions, each of I once and in order.
InOrder(f, n, I) ==
  /\ f \in [1..n -> I]
  /\ \A a, b \in 1..n : a < b => f[a] < f[b]
  /\ \A i \in I : \E a \in 1..n : f[a] = i

\* There is one such listing, that by rank.
LEMMA Listing ==
  ASSUME NEW I \in SUBSET Nat, NEW n \in Nat, NEW f, InOrder(f, n, I)
  PROVE  /\ IsFiniteSet(I) /\ Cardinality(I) = n
         /\ \A a \in 1..n : Rank(I, f[a]) = a /\ Nth(I, a) = f[a]
  <1>0. /\ f \in [1..n -> I] /\ \A a, b \in 1..n : a < b => f[a] < f[b]
        /\ \A i \in I : \E a \in 1..n : f[a] = i
    BY DEF InOrder
  <1>1. \A a, b \in 1..n : f[a] \in Nat /\ (f[a] <= f[b] <=> a <= b)
    <2>1. ASSUME NEW a \in 1..n, NEW b \in 1..n PROVE f[a] \in Nat /\ f[b] \in Nat
      BY <1>0
    <2>2. ASSUME NEW a \in 1..n, NEW b \in 1..n PROVE (a < b => f[a] < f[b]) /\ (b < a => f[b] < f[a])
      BY <1>0
    <2> QED BY <2>1, <2>2
  <1>2. ASSUME NEW a \in 0..n, NEW T, T = {f[b] : b \in 1..a}
        PROVE  IsFiniteSet(T) /\ Cardinality(T) = a
    <2>1. PICK g : g = [b \in 1..a |-> f[b]]
      OBVIOUS
    <2>2. g \in [1..a -> T] /\ (\A t \in T : \E b \in 1..a : g[b] = t)
      BY <1>0, <1>2, <2>1
    <2>3. \A b, c \in 1..a : g[b] = g[c] => b = c
      BY <1>1, <2>1
    <2>4. ExistsBijection(1..a, T)
      BY <2>2, <2>3 DEF ExistsBijection, Bijection, Injection, Surjection, IsInjective
    <2>5. IsFiniteSet(1..a) /\ Cardinality(1..a) = a
      BY FS_Interval
    <2> QED BY <2>4, <2>5, FS_Bijection
  <1>3. I = {f[b] : b \in 1..n}
    BY <1>0
  <1>4. IsFiniteSet(I) /\ Cardinality(I) = n
    <2>1. n \in 0..n
      OBVIOUS
    <2> QED BY <1>2, <1>3, <2>1
  <1>5. ASSUME NEW a \in 1..n PROVE Rank(I, f[a]) = a
    <2>1. {j \in I : j <= f[a]} = {f[b] : b \in 1..a}
      <3>1. ASSUME NEW b \in 1..n PROVE f[b] <= f[a] <=> b \in 1..a
        BY <1>1
      <3>2. 1..a \subseteq 1..n
        OBVIOUS
      <3> QED BY <1>3, <3>1, <3>2
    <2>2. a \in 0..n
      OBVIOUS
    <2> QED BY <1>2, <2>1, <2>2 DEF Rank
  <1>6. ASSUME NEW a \in 1..n PROVE Nth(I, a) = f[a]
    <2>1. \A i \in I : Rank(I, i) = a => i = f[a]
      BY <1>3, <1>5
    <2>2. f[a] \in I /\ Rank(I, f[a]) = a
      BY <1>0, <1>5
    <2> QED BY <2>1, <2>2 DEF Nth
  <1> QED BY <1>4, <1>5, <1>6

\* The rank lists the positions, each once and in order.
LEMMA RankFacts ==
  ASSUME NEW I \in SUBSET Nat, IsFiniteSet(I)
  PROVE  /\ Cardinality(I) \in Nat
         /\ \A n \in 1..Cardinality(I) : Nth(I, n) \in I /\ Rank(I, Nth(I, n)) = n
         /\ \A i \in I : Rank(I, i) \in 1..Cardinality(I) /\ Nth(I, Rank(I, i)) = i
         /\ \A m, n \in 1..Cardinality(I) : m < n => Nth(I, m) < Nth(I, n)
  <1>0. \A i \in I : i \in Nat
    OBVIOUS
  <1>1. PICK c : c = Cardinality(I) /\ c \in Nat
    BY FS_CardinalityType
  <1>2. ASSUME NEW i \in I
        PROVE  /\ IsFiniteSet({j \in I : j <= i}) /\ Rank(I, i) \in 1..c
               /\ \A k \in I : i < k => Rank(I, i) < Rank(I, k)
    <2>1. PICK T : T = {j \in I : j <= i}
      OBVIOUS
    <2>2. T \in SUBSET I /\ T # {} /\ i \in T
      BY <2>1
    <2>3. IsFiniteSet(T) /\ Cardinality(T) <= c /\ Cardinality(T) \in Nat /\ Cardinality(T) # 0
      BY <1>1, <2>2, FS_Subset, FS_CardinalityType, FS_EmptySet
    <2>4. Rank(I, i) \in 1..c
      BY <1>1, <2>1, <2>3 DEF Rank
    <2>5. ASSUME NEW k \in I, i < k PROVE Rank(I, i) < Rank(I, k)
      <3>1. PICK U : U = {j \in I : j <= k}
        OBVIOUS
      <3>2. U \in SUBSET I /\ T \in SUBSET U /\ k \in U /\ k \notin T
        <4>1. \A j \in I : j \in Nat /\ (j <= i => j <= k)
          BY <1>0, <2>5
        <4>2. ~(k <= i) /\ k <= k
          BY <1>0, <2>5
        <4> QED BY <2>1, <3>1, <4>1, <4>2
      <3>3. IsFiniteSet(U) /\ Cardinality(U) \in Nat
        BY <3>2, FS_Subset, FS_CardinalityType
      <3>4. Cardinality(T) <= Cardinality(U) /\ Cardinality(U) # Cardinality(T)
        BY <3>2, <3>3, FS_Subset
      <3> QED BY <2>1, <2>3, <3>1, <3>3, <3>4 DEF Rank
    <2> QED BY <2>1, <2>3, <2>4, <2>5
  <1>3. PICK g : g = [i \in I |-> Rank(I, i)]
    OBVIOUS
  <1>4. g \in Injection(I, 1..c)
    <2>1. ASSUME NEW i \in I, NEW k \in I, g[i] = g[k] PROVE i = k
      <3>1. Rank(I, i) = Rank(I, k) /\ Rank(I, i) \in Nat /\ i \in Nat /\ k \in Nat
        <4>1. Rank(I, i) \in 1..c
          BY <1>2
        <4> QED BY <1>0, <1>1, <1>3, <2>1, <4>1
      <3>2. i < k => Rank(I, i) < Rank(I, k)
        BY <1>2
      <3>3. k < i => Rank(I, k) < Rank(I, i)
        BY <1>2
      <3> QED BY <3>1, <3>2, <3>3
    <2>2. g \in [I -> 1..c]
      BY <1>2, <1>3
    <2> QED BY <2>1, <2>2 DEF Injection, IsInjective
  <1>5. \A n \in 1..c : \E i \in I : Rank(I, i) = n
    <2>1. IsFiniteSet(1..c) /\ Cardinality(1..c) = c
      BY <1>1, FS_Interval
    <2>2. g \in Surjection(I, 1..c)
      BY <1>1, <1>4, <2>1, FS_Injection
    <2> QED BY <1>3, <2>2 DEF Surjection
  <1>6. \A i, k \in I : Rank(I, i) = Rank(I, k) => i = k
    BY <1>3, <1>4 DEF Injection, IsInjective
  <1>7. \A n \in 1..c : Nth(I, n) \in I /\ Rank(I, Nth(I, n)) = n
    BY <1>5 DEF Nth
  <1>8. ASSUME NEW i \in I PROVE Nth(I, Rank(I, i)) = i
    BY <1>2, <1>6, <1>7
  <1>9. ASSUME NEW m \in 1..c, NEW n \in 1..c, m < n PROVE Nth(I, m) < Nth(I, n)
    <2>1. PICK i, k \in I : i = Nth(I, m) /\ k = Nth(I, n) /\ Rank(I, i) = m /\ Rank(I, k) = n
      BY <1>7
    <2>2. k < i => Rank(I, k) < Rank(I, i)
      BY <1>2
    <2>3. i # k /\ i \in Nat /\ k \in Nat /\ ~(n < m)
      BY <1>0, <1>1, <1>9, <2>1
    <2> QED BY <2>1, <2>2, <2>3
  <1> QED BY <1>1, <1>2, <1>7, <1>8, <1>9

\* Positions of a sequence.
LEMMA PickedFacts ==
  ASSUME NEW S, NEW s \in Seq(S), NEW I \in SUBSET (1..Len(s))
  PROVE  /\ I \in SUBSET Nat /\ IsFiniteSet(I) /\ Cardinality(I) \in Nat
         /\ Picked(s, I) \in Seq(S) /\ Len(Picked(s, I)) = Cardinality(I)
         /\ \A n \in 1..Cardinality(I) : Picked(s, I)[n] = s[Nth(I, n)] /\ Nth(I, n) \in I
  <1>1. I \in SUBSET Nat /\ IsFiniteSet(I)
    <2>1. IsFiniteSet(1..Len(s)) /\ 1..Len(s) \subseteq Nat
      BY FS_Interval
    <2> QED BY <2>1, FS_Subset
  <1>2. Cardinality(I) \in Nat /\ \A n \in 1..Cardinality(I) : Nth(I, n) \in I
    BY <1>1, RankFacts
  <1>3. \A n \in 1..Cardinality(I) : s[Nth(I, n)] \in S
    <2>1. \A i \in I : i \in 1..Len(s)
      OBVIOUS
    <2>2. \A i \in 1..Len(s) : s[i] \in S
      OBVIOUS
    <2> QED BY <1>2, <2>1, <2>2
  <1>4. Picked(s, I) \in [1..Cardinality(I) -> S]
    BY <1>3 DEF Picked
  <1> QED BY <1>1, <1>2, <1>4 DEF Picked

-----------------------------------------------------------------------------
(* The grant.                                                              *)

\* The two copies of the grant agree, and without it nothing was stored or told.
GrantInv == harnessGranted = granted /\ UngrantedSeesNothing

\* What the calls return is told apart by its tag.
LEMMA Replies ==
  /\ \A d : Ok(d).ok /\ Ok(d).data = d
  /\ \A c : ~Err(c).ok
  BY DEF Ok, Err

\* A host is created with nothing in it.
LEMMA GrantInit == Init => GrantInv
  BY Replies DEF Init, GoGuestInit, TypedHostInit, CapstoneInit, StoreInit, GrantInv,
     UngrantedSeesNothing

\* A call to the store, behind its own copy of the grant.
LEMMA StorageCallGrant ==
  ASSUME GrantInv, StorageCall, UNCHANGED <<harnessGranted, logs>>
  PROVE  GrantInv'
  <1> USE Replies DEF GrantInv, UngrantedSeesNothing, Denied, Returns
  <1>1. ASSUME NEW k \in Keys, Get(k) \/ Delete(k) PROVE GrantInv'
    BY <1>1 DEF Get, Delete
  <1>2. ASSUME NEW k \in Keys, NEW v \in Values, Set(k, v) PROVE GrantInv'
    BY <1>2 DEF Set
  <1>3. CASE Clear \/ ListKeys
    BY <1>3 DEF Clear, ListKeys
  <1>4. ASSUME NEW p \in Payloads, Emit(p) PROVE GrantInv'
    BY <1>4 DEF Emit
  <1> QED BY <1>1, <1>2, <1>3, <1>4 DEF StorageCall

\* No step of any host gets past the grant.
LEMMA GrantNext == GrantInv /\ [Next]_vars => GrantInv'
  <1> SUFFICES ASSUME GrantInv, [Next]_vars PROVE GrantInv'
    OBVIOUS
  <1>1. CASE CapstoneStep
    <2>1. CASE read_portfolio_names
      BY <2>1, Replies DEF read_portfolio_names, Returns, GrantInv, UngrantedSeesNothing
    <2>2. CASE OtherReads \/ Write
      BY <2>2, Replies DEF OtherReads, Write, Returns, GrantInv, UngrantedSeesNothing
    <2>3. CASE Delegated
      BY <2>3, StorageCallGrant DEF Delegated
    <2> QED BY <1>1, <2>1, <2>2, <2>3 DEF CapstoneStep
  <1>2. CASE UNCHANGED capstoneVars
    BY <1>2 DEF capstoneVars, storeVars, GrantInv, UngrantedSeesNothing
  <1> QED BY <1>1, <1>2 DEF Next, vars

\* CapstoneHarness and the StorageEventsHost in it: whatever calls a plugin makes,
\* without the grant it stores nothing and is told nothing.
THEOREM NothingWithoutGrant == Spec => []UngrantedSeesNothing
  <1>1. GrantInv => UngrantedSeesNothing
    BY DEF GrantInv
  <1> QED BY <1>1, GrantInit, GrantNext, PTL DEF Spec
-----------------------------------------------------------------------------
(* The quotas.                                                             *)

\* The bytes of the store after a write: those of the displaced value make room
\* for those of the new one.
LEMMA BytesWith ==
  ASSUME NEW f, NEW k, NEW v \in Values, IsFiniteSet(StoredBytes(f)),
         \A x \in DOMAIN f : f[x] \in Values,
         NEW old, old = IF k \in DOMAIN f THEN Len(f[k]) ELSE 0
  PROVE  /\ IsFiniteSet(StoredBytes(With(f, k, v)))
         /\ TotalBytes(With(f, k, v)) = TotalBytes(f) - old + Len(v)
  <1>1. old \in Nat /\ Len(v) \in Nat
    BY BytesAssumption
  <1>2. PICK A, R, B : A = StoredBytes(f) /\ R = {k} \X (1..old) /\ B = {k} \X (1..Len(v))
    OBVIOUS
  <1>3. StoredBytes(With(f, k, v)) = (A \ R) \cup B
    <2>1. ASSUME NEW g, NEW y
          PROVE  y \in StoredBytes(g) <=> \E x \in DOMAIN g : \E i \in 1..Len(g[x]) : y = <<x, i>>
      BY DEF StoredBytes
    <2>2. PICK g : g = With(f, k, v)
      OBVIOUS
    <2>3. DOMAIN g = DOMAIN f \cup {k} /\ \A x \in DOMAIN g : g[x] = IF x = k THEN v ELSE f[x]
      BY <2>2 DEF With
    <2>4. ASSUME NEW y PROVE y \in StoredBytes(g) <=> y \in (A \ R) \cup B
      <3>1. CASE \E i : y = <<k, i>>
        BY <1>2, <2>1, <2>3, <3>1
      <3>2. CASE ~\E i : y = <<k, i>>
        BY <1>2, <2>1, <2>3, <3>2
      <3> QED BY <3>1, <3>2
    <2> QED BY <2>2, <2>4
  <1>4. A \cap R = R /\ (A \ R) \cap B = {}
    BY <1>2 DEF StoredBytes
  <1>5. \A n \in Nat : IsFiniteSet({k} \X (1..n)) /\ Cardinality({k} \X (1..n)) = n
    <2>1. ASSUME NEW n \in Nat PROVE IsFiniteSet({k} \X (1..n)) /\ Cardinality({k} \X (1..n)) = n
      <3>1. IsFiniteSet({k}) /\ Cardinality({k}) = 1
        BY FS_Singleton
      <3>2. IsFiniteSet(1..n) /\ Cardinality(1..n) = n
        BY FS_Interval
      <3>3. /\ IsFiniteSet({k} \X (1..n))
            /\ Cardinality({k} \X (1..n)) = Cardinality({k}) * Cardinality(1..n)
        BY <3>1, <3>2, FS_Product
      <3> QED BY <3>1, <3>2, <3>3
    <2> QED BY <2>1
  <1>6. IsFiniteSet(R) /\ IsFiniteSet(B) /\ Cardinality(R) = old /\ Cardinality(B) = Len(v)
    BY <1>1, <1>2, <1>5
  <1>7. IsFiniteSet(A) /\ Cardinality(A) \in Nat
    BY <1>2, FS_CardinalityType
  <1>8. IsFiniteSet(A \ R) /\ Cardinality(A \ R) = Cardinality(A) - old
    <2>1. IsFiniteSet(A \ R) /\ Cardinality(A \ R) = Cardinality(A) - Cardinality(A \cap R)
      BY <1>7, FS_Difference
    <2> QED BY <1>4, <1>6, <2>1
  <1>9. IsFiniteSet((A \ R) \cup B) /\ Cardinality((A \ R) \cup B) = Cardinality(A \ R) + Cardinality(B)
    <2>1. Cardinality((A \ R) \cap B) = 0
      BY <1>4, FS_EmptySet
    <2>2. /\ IsFiniteSet((A \ R) \cup B)
          /\ Cardinality((A \ R) \cup B)
               = Cardinality(A \ R) + Cardinality(B) - Cardinality((A \ R) \cap B)
      BY <1>6, <1>8, FS_Union
    <2> QED BY <1>1, <1>6, <1>7, <1>8, <2>1, <2>2
  <1> QED BY <1>1, <1>2, <1>3, <1>6, <1>8, <1>9 DEF TotalBytes

\* A smaller store is within the quota.
LEMMA BytesFewer ==
  ASSUME NEW f, NEW k, IsFiniteSet(DOMAIN f), IsFiniteSet(StoredBytes(f)), WithinQuota(f)
  PROVE  /\ IsFiniteSet(DOMAIN Without(f, k)) /\ IsFiniteSet(StoredBytes(Without(f, k)))
         /\ WithinQuota(Without(f, k))
  <1>1. StoredBytes(Without(f, k)) \subseteq StoredBytes(f) /\ DOMAIN Without(f, k) \subseteq DOMAIN f
    BY DEF StoredBytes, Without
  <1>2. /\ IsFiniteSet(StoredBytes(Without(f, k))) /\ IsFiniteSet(DOMAIN Without(f, k))
        /\ Cardinality(StoredBytes(Without(f, k))) <= Cardinality(StoredBytes(f))
        /\ Cardinality(DOMAIN Without(f, k)) <= Cardinality(DOMAIN f)
    BY <1>1, FS_Subset
  <1>3. /\ Cardinality(StoredBytes(Without(f, k))) \in Nat /\ Cardinality(StoredBytes(f)) \in Nat
        /\ Cardinality(DOMAIN Without(f, k)) \in Nat /\ Cardinality(DOMAIN f) \in Nat
    BY <1>2, FS_CardinalityType
  <1> QED BY <1>2, <1>3, QuotaAssumption DEF WithinQuota, TotalBytes

\* An empty store is.
LEMMA BytesNone ==
  IsFiniteSet(DOMAIN NoKeys) /\ IsFiniteSet(StoredBytes(NoKeys)) /\ WithinQuota(NoKeys)
  <1>1. DOMAIN NoKeys = {} /\ StoredBytes(NoKeys) = {}
    BY DEF NoKeys, StoredBytes
  <1> QED BY <1>1, FS_EmptySet, QuotaAssumption DEF WithinQuota, TotalBytes

\* What is stored and captured is finite, of bytes, and within the limits.
QuotaInv ==
  /\ IsFiniteSet(DOMAIN kv) /\ IsFiniteSet(StoredBytes(kv))
  /\ \A x \in DOMAIN kv : kv[x] \in Values
  /\ events \in Seq(Payloads)
  /\ WithinQuota(kv) /\ WithinCaps(events)

\* A set that succeeds stays within the quota it has checked.
LEMMA SetWithin ==
  ASSUME QuotaInv, NEW k \in Keys, NEW v \in Values, kv' = With(kv, k, v), UNCHANGED events,
         k \in DOMAIN kv \/ Cardinality(DOMAIN kv) < STORAGE_MAX_KEYS,
         TotalBytes(kv) - (IF k \in DOMAIN kv THEN Len(kv[k]) ELSE 0) + Len(v) <= STORAGE_MAX_TOTAL_BYTES
  PROVE  QuotaInv'
  <1>1. IsFiniteSet(StoredBytes(kv')) /\ TotalBytes(kv') <= STORAGE_MAX_TOTAL_BYTES
    BY BytesWith DEF QuotaInv
  <1>2. DOMAIN kv' = DOMAIN kv \cup {k} /\ \A x \in DOMAIN kv' : kv'[x] \in Values
    BY DEF With, QuotaInv
  <1>3. /\ IsFiniteSet(DOMAIN kv')
        /\ Cardinality(DOMAIN kv') = IF k \in DOMAIN kv THEN Cardinality(DOMAIN kv)
                                     ELSE Cardinality(DOMAIN kv) + 1
    BY <1>2, FS_AddElement DEF QuotaInv
  <1>4. Cardinality(DOMAIN kv) \in Nat
    BY FS_CardinalityType DEF QuotaInv
  <1>5. Cardinality(DOMAIN kv') <= STORAGE_MAX_KEYS
    BY <1>3, <1>4, QuotaAssumption DEF QuotaInv, WithinQuota
  <1> QED BY <1>1, <1>2, <1>3, <1>5 DEF QuotaInv, WithinQuota

\* QuotaInv is inductive.
LEMMA QuotaNext == QuotaInv /\ [Next]_vars => QuotaInv'
  <1> SUFFICES ASSUME QuotaInv, [Next]_vars PROVE QuotaInv'
    OBVIOUS
  <1>1. CASE UNCHANGED <<kv, events>>
    BY <1>1 DEF QuotaInv
  <1>2. ASSUME NEW k \in Keys, NEW v \in Values, Set(k, v) PROVE QuotaInv'
    BY <1>1, <1>2, SetWithin DEF Set, Denied, Returns
  <1>3. ASSUME NEW k \in Keys, Delete(k) PROVE QuotaInv'
    <2>1. CASE kv' = Without(kv, k) /\ UNCHANGED events
      <3>1. \A x \in DOMAIN kv' : kv'[x] \in Values
        BY <2>1 DEF Without, QuotaInv
      <3> QED BY <2>1, <3>1, BytesFewer DEF QuotaInv
    <2> QED BY <1>1, <1>3, <2>1 DEF Delete, Denied, Returns
  <1>4. CASE Clear
    <2>1. CASE kv' = NoKeys /\ UNCHANGED events
      BY <2>1, BytesNone DEF QuotaInv, NoKeys
    <2> QED BY <1>1, <1>4, <2>1 DEF Clear, Denied, Returns
  <1>5. ASSUME NEW p \in Payloads, Emit(p) PROVE QuotaInv'
    <2>1. CASE /\ Len(p) <= EVENT_MAX_PAYLOAD_BYTES /\ Len(events) < EVENTS_MAX_COUNT
               /\ events' = Append(events, p) /\ UNCHANGED kv
      <3>1. events' \in Seq(Payloads) /\ Len(events') = Len(events) + 1
        BY <2>1 DEF QuotaInv
      <3>2. \A i \in DOMAIN events' : events'[i] = p \/ (i \in DOMAIN events /\ events'[i] = events[i])
        BY <2>1 DEF QuotaInv
      <3>3. Len(events) \in Nat
        BY DEF QuotaInv
      <3>4. WithinCaps(events')
        BY <2>1, <3>1, <3>2, <3>3, QuotaAssumption DEF WithinCaps, QuotaInv
      <3> QED BY <2>1, <3>1, <3>4 DEF QuotaInv
    <2> QED BY <1>1, <1>5, <2>1 DEF Emit, Returns
  <1>6. CASE CapstoneStep
    <2>1. CASE read_portfolio_names \/ OtherReads \/ Write
      BY <1>1, <2>1 DEF read_portfolio_names, OtherReads, Write, Returns
    <2>2. CASE Delegated
      <3>1. ASSUME NEW k \in Keys, Get(k) PROVE QuotaInv'
        BY <1>1, <3>1 DEF Get, Denied, Returns
      <3>2. CASE ListKeys
        BY <1>1, <3>2 DEF ListKeys, Denied, Returns
      <3> QED BY <1>2, <1>3, <1>4, <1>5, <2>2, <3>1, <3>2 DEF Delegated, StorageCall
    <2> QED BY <1>6, <2>1, <2>2 DEF CapstoneStep
  <1>7. CASE UNCHANGED capstoneVars
    BY <1>1, <1>7 DEF capstoneVars, storeVars
  <1> QED BY <1>6, <1>7 DEF Next, vars

\* A granted set that would fit is not refused.
LEMMA FittingSetStores ==
  ASSUME QuotaInv
  PROVE  \A k \in Keys, v \in Values :
           granted /\ Set(k, v) /\ WithinQuota(With(kv, k, v)) => kv' = With(kv, k, v)
  <1> SUFFICES ASSUME NEW k \in Keys, NEW v \in Values, granted, Set(k, v), WithinQuota(With(kv, k, v))
               PROVE  kv' = With(kv, k, v)
    OBVIOUS
  <1>1. TotalBytes(kv) - (IF k \in DOMAIN kv THEN Len(kv[k]) ELSE 0) + Len(v) <= STORAGE_MAX_TOTAL_BYTES
    BY BytesWith DEF QuotaInv, WithinQuota
  <1>2. k \in DOMAIN kv \/ Cardinality(DOMAIN kv) < STORAGE_MAX_KEYS
    <2>1. Cardinality(DOMAIN kv) \in Nat
      BY FS_CardinalityType DEF QuotaInv
    <2>2. DOMAIN With(kv, k, v) = DOMAIN kv \cup {k}
      BY DEF With
    <2>3. k \notin DOMAIN kv => Cardinality(DOMAIN With(kv, k, v)) = Cardinality(DOMAIN kv) + 1
      BY <2>2, FS_AddElement DEF QuotaInv
    <2> QED BY <2>1, <2>3, QuotaAssumption DEF WithinQuota
  <1> QED BY <1>1, <1>2 DEF Set, Denied

\* StorageEventsHost::set and emit: for any limits and any bytes, no sequence of
\* calls takes the store or the events past a limit, and a granted set is refused
\* only when the store it would leave exceeds one.
THEOREM QuotaHoldsExactly == Spec => QuotaIsExact
  <1>1. Init => QuotaInv
    <2> SUFFICES ASSUME Init PROVE QuotaInv
      OBVIOUS
    <2>1. kv = NoKeys /\ events = <<>>
      BY DEF Init, GoGuestInit, TypedHostInit, CapstoneInit, StoreInit
    <2>2. WithinCaps(<<>>)
      BY QuotaAssumption DEF WithinCaps
    <2> QED BY <2>1, <2>2, BytesNone DEF QuotaInv, NoKeys
  <1>2. QuotaInv => WithinQuota(kv) /\ WithinCaps(events)
    BY DEF QuotaInv
  <1>3. QuotaInv /\ [Next]_vars
          => [\A k \in Keys, v \in Values :
                granted /\ Set(k, v) /\ WithinQuota(With(kv, k, v)) => kv' = With(kv, k, v)]_storeVars
    BY FittingSetStores
  <1> QED BY <1>1, <1>2, <1>3, QuotaNext, PTL DEF Spec, QuotaIsExact

-----------------------------------------------------------------------------
(* The gated hooks.                                                        *)

\* A send is a record, and each of its parts is what the two properties say.
SendOK(s) ==
  s = [sender |-> s.sender, request |-> s.request, wire |-> s.wire,
       raised |-> s.raised, seenError |-> s.seenError, head |-> s.head, seenHead |-> s.seenHead,
       trailers |-> s.trailers, seenTrailers |-> s.seenTrailers]

GatedSend(s) ==
  /\ Reached(s) =>
       /\ s.wire.https /\ origin_allowed(s.wire.host, origins)
       /\ RESERVED_CREDENTIAL_HEADER \notin DOMAIN s.request.headers
       /\ DOMAIN s.wire.headers \subseteq ALLOWED_REQUEST_HEADERS \cup {"host"}
       /\ s.wire.host = s.request.host /\ s.wire.headers["host"] = 1
  /\ s.sender = "skipped" => s.wire = NoRequest /\ s.seenError = HttpRequestDenied

\* What is shown of a header map.
Shown(map) == Only(map, DOMAIN map \ {"set-cookie", "set-cookie2", "host"})

SeenSend(s) ==
  /\ ~s.seenError.text
  /\ s.raised # NoError => s.seenError.kind = ErrorToP2(s.raised).kind
  /\ s.seenHead = Shown(s.head) /\ s.seenTrailers = Shown(s.trailers)

HttpInv ==
  /\ sends = [f \in Futures |-> sends[f]]
  /\ \A f \in Futures : SendOK(sends[f]) /\ GatedSend(sends[f]) /\ SeenSend(sends[f])
  /\ DroppedIsExact

\* An empty map stays empty.
LEMMA NoHeadersShown == Shown(NoHeaders) = NoHeaders
  BY DEF Shown, Only, NoHeaders

\* A future that carries no send.
LEMMA UnusedOK == SendOK(Unused) /\ GatedSend(Unused) /\ SeenSend(Unused)
  <1>1. SendOK(Unused)
    BY DEF SendOK, Unused
  <1>2. GatedSend(Unused)
    BY DEF GatedSend, Unused, Reached
  <1>3. SeenSend(Unused)
    BY NoHeadersShown DEF SeenSend, Unused, NoError, Error
  <1> QED BY <1>1, <1>2, <1>3

\* check_request lets a request through only over https and to an allowed host.
LEMMA GateFacts ==
  ASSUME NEW r \in Requests, gate(r)
  PROVE  /\ r.https /\ origin_allowed(r.host, origins)
         /\ RESERVED_CREDENTIAL_HEADER \notin DOMAIN r.headers
  <1>1. check_request(r.https, r.host, origins) = "Ok"
    BY DEF gate
  <1>2. r.https /\ origin_allowed(r.host, origins)
    BY <1>1, RequestsAssumption DEF check_request
  <1> QED BY <1>2 DEF gate, is_reserved_credential_header

\* What the policy leaves of the headers of a request.
Retained(r) == Only(r.headers, {n \in DOMAIN r.headers : is_allowed_request_header(n)})

\* The policy and the sender: allowed headers and one Host, and what was withheld
\* is what the policy counts.
LEMMA WireFacts ==
  ASSUME NEW r \in Requests
  PROVE  LET w == send_sanitized(r).wire
         IN  /\ w.https = r.https /\ w.host = r.host
             /\ DOMAIN w.headers = DOMAIN Retained(r) \cup {"host"}
             /\ DOMAIN w.headers \subseteq ALLOWED_REQUEST_HEADERS \cup {"host"}
             /\ w.headers["host"] = 1
             /\ Only(w.headers, ALLOWED_REQUEST_HEADERS) = Retained(r)
             /\ send_sanitized(r).dropped = ValueCount(r.headers) - ValueCount(Retained(r))
  <1>1. PICK k : k = Retained(r)
    OBVIOUS
  <1>2. retain_allowed_request_headers(r.headers) =
          [headers |-> k, dropped |-> ValueCount(r.headers) - ValueCount(k)]
    BY <1>1 DEF retain_allowed_request_headers, Retained
  <1>3. [r EXCEPT !.headers = k] = [https |-> r.https, host |-> r.host, headers |-> k]
    BY RequestsAssumption
  <1>4. PICK m : m = [n \in DOMAIN k \cup {"host"} |-> IF n \in DOMAIN k THEN k[n] ELSE 1]
    OBVIOUS
  <1>5. send_sanitized(r).wire = [https |-> r.https, host |-> r.host, headers |-> m]
    <2>1. default_sender([https |-> r.https, host |-> r.host, headers |-> k])
            = [https |-> r.https, host |-> r.host, headers |-> m]
      BY <1>4 DEF default_sender
    <2> QED BY <1>2, <1>3, <2>1 DEF send_sanitized
  <1>6. send_sanitized(r).dropped = ValueCount(r.headers) - ValueCount(k)
    BY <1>2 DEF send_sanitized
  <1>7. DOMAIN k \subseteq ALLOWED_REQUEST_HEADERS /\ k = [n \in DOMAIN k |-> k[n]]
    BY <1>1 DEF Retained, Only, is_allowed_request_header
  <1>8. "host" \notin ALLOWED_REQUEST_HEADERS
    BY DEF ALLOWED_REQUEST_HEADERS
  <1>9. m["host"] = 1 /\ DOMAIN m = DOMAIN k \cup {"host"}
    BY <1>4, <1>7, <1>8
  <1>10. Only(m, ALLOWED_REQUEST_HEADERS) = k
    <2>1. DOMAIN m \cap ALLOWED_REQUEST_HEADERS = DOMAIN k
      BY <1>7, <1>8, <1>9
    <2>2. \A n \in DOMAIN k : m[n] = k[n]
      BY <1>4
    <2> QED BY <1>7, <2>1, <2>2 DEF Only
  <1> QED BY <1>1, <1>5, <1>6, <1>7, <1>9, <1>10

\* A request is refused, or handed over as the gate and the policy say.
LEMMA SendInv ==
  ASSUME HttpInv, NEW f \in Futures, NEW r \in Requests, send_request(f, r)
  PROVE  HttpInv'
  <1>1. CASE gate(r)
    <2>1. PICK w, c : w = send_sanitized(r).wire /\ c = send_sanitized(r).dropped
      OBVIOUS
    <2>2. PICK s : s = [Unused EXCEPT !.sender = "running", !.request = r, !.wire = w]
      OBVIOUS
    <2>3. /\ sends' = [sends EXCEPT ![f] = s] /\ origins' = origins
          /\ dropped' = dropped + c
          /\ withheld' = withheld + (ValueCount(r.headers)
                                       - ValueCount(Only(w.headers, ALLOWED_REQUEST_HEADERS)))
      BY <1>1, <2>1, <2>2 DEF send_request
    <2>4. s = [sender |-> "running", request |-> r, wire |-> w,
               raised |-> NoError, seenError |-> NoError, head |-> NoHeaders, seenHead |-> NoHeaders,
               trailers |-> NoHeaders, seenTrailers |-> NoHeaders]
      BY <2>2 DEF Unused
    <2>5. SendOK(s)
      BY <2>4 DEF SendOK
    <2>6. GatedSend(s)
      BY <1>1, <2>1, <2>4, GateFacts, WireFacts DEF GatedSend, Reached
    <2>7. SeenSend(s)
      BY <2>4, NoHeadersShown DEF SeenSend, NoError, Error
    <2>8. DroppedIsExact'
      BY <2>1, <2>3, WireFacts DEF HttpInv, DroppedIsExact
    <2> QED BY <2>3, <2>5, <2>6, <2>7, <2>8 DEF HttpInv, GatedSend
  <1>2. CASE ~gate(r)
    <2>1. PICK s : s = failed_send(r)
      OBVIOUS
    <2>2. sends' = [sends EXCEPT ![f] = s] /\ UNCHANGED <<origins, dropped, withheld>>
      BY <1>2, <2>1 DEF send_request
    <2>3. s = [sender |-> "skipped", request |-> r, wire |-> NoRequest,
               raised |-> NoError, seenError |-> HttpRequestDenied,
               head |-> NoHeaders, seenHead |-> NoHeaders,
               trailers |-> NoHeaders, seenTrailers |-> NoHeaders]
      BY <2>1 DEF failed_send, Unused
    <2>4. SendOK(s) /\ GatedSend(s)
      BY <2>3 DEF SendOK, GatedSend, Reached
    <2>5. SeenSend(s)
      BY <2>3, NoHeadersShown DEF SeenSend, HttpRequestDenied, Error
    <2> QED BY <2>2, <2>4, <2>5 DEF HttpInv, GatedSend, DroppedIsExact
  <1> QED BY <1>1, <1>2

\* The two filters of a response head show what the guest is promised, and so does
\* the one of the trailers.
LEMMA ShownHeaders ==
  ASSUME NEW map
  PROVE  Admitted(strip_response_headers(map)) = Shown(map) /\ Admitted(map) = Shown(map)
  <1> USE DEF Shown, Admitted, strip_response_headers, Only, is_forbidden,
          is_stripped_response_header, DEFAULT_FORBIDDEN_HEADERS, STRIPPED_RESPONSE_HEADERS
  <1>1. Admitted(map) = Shown(map)
    <2>1. DOMAIN map \cap {n \in DOMAIN map : ~is_forbidden(n)}
            = DOMAIN map \cap (DOMAIN map \ {"set-cookie", "set-cookie2", "host"})
      OBVIOUS
    <2> QED BY <2>1
  <1>2. PICK m : m = strip_response_headers(map)
    OBVIOUS
  <1>3. DOMAIN m = DOMAIN map \ STRIPPED_RESPONSE_HEADERS /\ \A n \in DOMAIN m : m[n] = map[n]
    BY <1>2
  <1>4. DOMAIN m \cap {n \in DOMAIN m : ~is_forbidden(n)}
          = DOMAIN map \cap (DOMAIN map \ {"set-cookie", "set-cookie2", "host"})
    BY <1>3
  <1>5. Admitted(m) = Shown(map)
    BY <1>3, <1>4
  <1> QED BY <1>1, <1>2, <1>5

\* Scrubbing removes the text and keeps the kind, whatever the library makes of it.
LEMMA ScrubbedErrors ==
  ASSUME NEW e \in SendErrors
  PROVE  /\ ~ErrorToP2(scrub_error(e)).text
         /\ ErrorToP2(scrub_error(e)).kind = ErrorToP2(e).kind
  <1>1. PICK k, t : e = Error(k, t) /\ k \in {"internal", "dns", "tls-alert", "connect-dns-like",
                       "invalid-dns-name", "timeout", "connect"}
                    /\ (t = TRUE \/ t = FALSE) /\ (k \in {"timeout", "connect"} => t = FALSE)
    BY DEF SendErrors
  <1>2. CASE k \in {"internal", "dns", "tls-alert"}
    BY <1>1, <1>2 DEF scrub_error, ErrorToP2, Error
  <1>3. CASE k = "connect-dns-like"
    BY <1>1, <1>3 DEF scrub_error, ErrorToP2, Error
  <1>4. CASE k = "invalid-dns-name"
    BY <1>1, <1>4 DEF scrub_error, ErrorToP2, Error, p2_error_from_dns
  <1>5. CASE k \in {"timeout", "connect"}
    BY <1>1, <1>5 DEF scrub_error, ErrorToP2, Error
  <1> QED BY <1>1, <1>2, <1>3, <1>4, <1>5

\* A step that leaves the counters alone and replaces one send by another.
LEMMA ReplacedSend ==
  ASSUME HttpInv, NEW f \in Futures, NEW s, sends' = [sends EXCEPT ![f] = s],
         UNCHANGED <<origins, dropped, withheld>>, SendOK(s), GatedSend(s), SeenSend(s)
  PROVE  HttpInv'
  BY DEF HttpInv, GatedSend, DroppedIsExact

\* What comes back, and the guest that gives up.
LEMMA ResponseInv ==
  ASSUME HttpInv, NEW f \in Futures,
         \/ \E h \in UpHeads : SenderResponds(f, h) \/ BodyEnds(f, h)
         \/ \E e \in SendErrors : SenderFails(f, e)
         \/ GuestDrops(f)
  PROVE  HttpInv'
  <1>0. PICK s : s = sends[f]
    OBVIOUS
  <1>a. SendOK(s) /\ GatedSend(s) /\ SeenSend(s) /\ DOMAIN sends = Futures
    BY <1>0 DEF HttpInv
  <1>1. ASSUME NEW h \in UpHeads, SenderResponds(f, h) PROVE HttpInv'
    <2>1. PICK t : t = [s EXCEPT !.sender = "streaming", !.head = h, !.seenHead = Shown(h)]
      OBVIOUS
    <2>2. sends' = [sends EXCEPT ![f] = t]
      BY <1>0, <1>1, <1>a, <2>1, ShownHeaders DEF SenderResponds
    <2>3. t = [sender |-> "streaming", request |-> s.request, wire |-> s.wire,
               raised |-> s.raised, seenError |-> s.seenError, head |-> h, seenHead |-> Shown(h),
               trailers |-> s.trailers, seenTrailers |-> s.seenTrailers]
      BY <1>a, <2>1 DEF SendOK
    <2>4. SendOK(t) /\ GatedSend(t) /\ SeenSend(t)
      BY <1>0, <1>1, <1>a, <2>3 DEF SenderResponds, SendOK, GatedSend, SeenSend, Reached
    <2> QED BY <1>1, <2>2, <2>4, ReplacedSend DEF SenderResponds
  <1>2. ASSUME NEW h \in UpHeads, BodyEnds(f, h) PROVE HttpInv'
    <2>1. PICK t : t = [s EXCEPT !.sender = "done", !.trailers = h, !.seenTrailers = Shown(h)]
      OBVIOUS
    <2>2. sends' = [sends EXCEPT ![f] = t]
      BY <1>0, <1>2, <1>a, <2>1, ShownHeaders DEF BodyEnds
    <2>3. t = [sender |-> "done", request |-> s.request, wire |-> s.wire,
               raised |-> s.raised, seenError |-> s.seenError, head |-> s.head,
               seenHead |-> s.seenHead, trailers |-> h, seenTrailers |-> Shown(h)]
      BY <1>a, <2>1 DEF SendOK
    <2>4. SendOK(t) /\ GatedSend(t) /\ SeenSend(t)
      BY <1>0, <1>2, <1>a, <2>3 DEF BodyEnds, SendOK, GatedSend, SeenSend, Reached
    <2> QED BY <1>2, <2>2, <2>4, ReplacedSend DEF BodyEnds
  <1>3. ASSUME NEW e \in SendErrors, SenderFails(f, e) PROVE HttpInv'
    <2>0. PICK x : x = ErrorToP2(scrub_error(e))
      OBVIOUS
    <2>1. PICK t : t = [s EXCEPT !.sender = "done", !.raised = e, !.seenError = x]
      OBVIOUS
    <2>2. sends' = [sends EXCEPT ![f] = t]
      BY <1>0, <1>3, <1>a, <2>0, <2>1 DEF SenderFails
    <2>3. t = [sender |-> "done", request |-> s.request, wire |-> s.wire,
               raised |-> e, seenError |-> x, head |-> s.head,
               seenHead |-> s.seenHead, trailers |-> s.trailers, seenTrailers |-> s.seenTrailers]
      BY <1>a, <2>1 DEF SendOK
    <2>4. SendOK(t) /\ GatedSend(t)
      BY <1>0, <1>3, <1>a, <2>3 DEF SenderFails, SendOK, GatedSend, Reached
    <2>5. SeenSend(t)
      BY <1>a, <2>0, <2>3, ScrubbedErrors DEF SeenSend
    <2> QED BY <1>3, <2>2, <2>4, <2>5, ReplacedSend DEF SenderFails
  <1>4. CASE GuestDrops(f)
    BY <1>4, UnusedOK, ReplacedSend DEF GuestDrops
  <1> QED BY <1>1, <1>2, <1>3, <1>4

\* No send has been made.
LEMMA HttpInitInv == Init => HttpInv
  <1>1. HttpInit => HttpInv
    BY UnusedOK DEF HttpInit, HttpInv, DroppedIsExact
  <1> QED BY <1>1 DEF Init, GoGuestInit, TypedHostInit

\* Every step keeps every send gated and sanitized.
LEMMA HttpNextInv == HttpInv /\ [Next]_vars => HttpInv'
  <1> SUFFICES ASSUME HttpInv, [Next]_vars PROVE HttpInv'
    OBVIOUS
  <1>1. CASE HttpStep
    BY <1>1, SendInv, ResponseInv DEF HttpStep
  <1>2. CASE UNCHANGED httpVars
    BY <1>2 DEF httpVars, HttpInv, GatedSend, DroppedIsExact
  <1> QED BY <1>1, <1>2 DEF Next, vars

\* Every send of every guest is gated, counted and sanitized.
THEOREM HttpInvariance == Spec => []HttpInv
  BY HttpInitInv, HttpNextInv, PTL DEF Spec

\* GatedHttpHooks::send_request: for every request and every allowlist, only what
\* the gate admits and the policy keeps is handed to the sender.
THEOREM OnlyGatedLeaves == Spec => []WireIsGated
  <1>1. HttpInv => WireIsGated
    BY DEF HttpInv, GatedSend, WireIsGated
  <1> QED BY <1>1, HttpInvariance, PTL

\* dropped_request_headers: over any number of sends the counter is the number of
\* values that were handed over and withheld.
THEOREM CounterIsExact == Spec => []DroppedIsExact
  <1>1. HttpInv => DroppedIsExact
    BY DEF HttpInv
  <1> QED BY <1>1, HttpInvariance, PTL

\* sanitize_send, scrub_error and is_forbidden: whatever an upstream answers, fails
\* with or ends with, the guest is shown the kind without the text and no cookie.
THEOREM SanitizedForTheGuest == Spec => []GuestSeesSanitized
  <1>1. HttpInv => GuestSeesSanitized
    BY DEF HttpInv, SeenSend, Shown, GuestSeesSanitized
  <1> QED BY <1>1, HttpInvariance, PTL

-----------------------------------------------------------------------------
(* The codec.                                                              *)

\* The characters of the alphabet, and back.
LEMMA AlphabetFacts ==
  ASSUME NEW x \in 0..63
  PROVE  /\ val(ALPHABET(x)) = x /\ InAlphabet(ALPHABET(x))
         /\ ALPHABET(x) # Pad /\ ALPHABET(x) \notin Whitespace
  <1> USE DEF InAlphabet, Pad, Whitespace
  <1>1. CASE x < 26
    <2>1. ALPHABET(x) = 65 + x
      BY <1>1 DEF ALPHABET
    <2>2. val(65 + x) = x
      BY <1>1 DEF val
    <2> QED BY <1>1, <2>1, <2>2
  <1>2. CASE x \in 26..51
    <2>1. ALPHABET(x) = 97 + x - 26
      BY <1>2 DEF ALPHABET
    <2>2. val(97 + x - 26) = x
      BY <1>2 DEF val
    <2> QED BY <1>2, <2>1, <2>2
  <1>3. CASE x \in 52..61
    <2>1. ALPHABET(x) = 48 + x - 52
      BY <1>3 DEF ALPHABET
    <2>2. val(48 + x - 52) = x
      BY <1>3 DEF val
    <2> QED BY <1>3, <2>1, <2>2
  <1>4. CASE x = 62
    <2>1. ALPHABET(x) = 43
      BY <1>4 DEF ALPHABET
    <2>2. val(43) = 62
      BY DEF val
    <2> QED BY <1>4, <2>1, <2>2
  <1>5. CASE x = 63
    <2>1. ALPHABET(x) = 47
      BY <1>5 DEF ALPHABET
    <2>2. val(47) = 63
      BY DEF val
    <2> QED BY <1>5, <2>1, <2>2
  <1> QED BY <1>1, <1>2, <1>3, <1>4, <1>5

\* A string whose padding is at its end has the characters before it as symbols.
LEMMA SymbolsBeforePadding ==
  ASSUME NEW n \in Nat, NEW m \in 0..n, NEW string, DOMAIN string = 1..n,
         \A i \in 1..m : string[i] # Pad /\ string[i] \notin Whitespace,
         \A i \in (m + 1)..n : string[i] = Pad
  PROVE  Symbols(string) = [i \in 1..m |-> string[i]]
  <1>1. PICK kept, f : /\ kept = {i \in DOMAIN string : string[i] # Pad /\ string[i] \notin Whitespace}
                       /\ f = [i \in 1..m |-> i]
    OBVIOUS
  <1>2. kept = 1..m
    BY <1>1
  <1>3. kept \in SUBSET Nat /\ m \in Nat /\ InOrder(f, m, kept)
    BY <1>1, <1>2 DEF InOrder
  <1>4. Cardinality(kept) = m /\ \A i \in 1..m : Nth(kept, i) = f[i]
    BY <1>3, Listing
  <1>5. Symbols(string) = [i \in 1..m |-> string[Nth(kept, i)]]
    BY <1>1, <1>4 DEF Symbols, Picked
  <1> QED BY <1>1, <1>4, <1>5

\* The k-th byte, or the zero that fills the last chunk.
ByteAt(bytes, k) == IF k <= Len(bytes) THEN bytes[k] ELSE 0

\* Either is a byte.
LEMMA ByteAtIsByte ==
  ASSUME NEW bytes \in Seq(Byte), NEW k \in Nat \ {0}
  PROVE  ByteAt(bytes, k) \in Byte
  <1>1. 0 \in Byte /\ Len(bytes) \in Nat
    BY DEF Byte
  <1>2. \A j \in 1..Len(bytes) : bytes[j] \in Byte
    OBVIOUS
  <1> QED BY <1>1, <1>2 DEF ByteAt

\* Where the characters and the bytes of a chunk are.
LEMMA ChunkOf ==
  ASSUME NEW i \in Nat \ {0}
  PROVE  /\ \E p \in Nat : \E j \in 1..4 : i = 4 * p + j
         /\ \E p \in Nat : \E j \in 1..3 : i = 3 * p + j
  <1>1. (i - 1) \div 4 \in Nat /\ i - 4 * ((i - 1) \div 4) \in 1..4
    OBVIOUS
  <1>2. (i - 1) \div 3 \in Nat /\ i - 3 * ((i - 1) \div 3) \in 1..3
    OBVIOUS
  <1>3. i = 4 * ((i - 1) \div 4) + (i - 4 * ((i - 1) \div 4))
    BY <1>1
  <1>4. i = 3 * ((i - 1) \div 3) + (i - 3 * ((i - 1) \div 3))
    BY <1>2
  <1> QED BY <1>1, <1>2, <1>3, <1>4

\* The indices of a chunk.
LEMMA ChunkIndex ==
  ASSUME NEW p \in Nat
  PROVE  /\ \A j \in 1..4 : ((4 * p + j) - 1) \div 4 = p
         /\ (4 * p + 1) % 4 = 1 /\ (4 * p + 2) % 4 = 2 /\ (4 * p + 3) % 4 = 3 /\ (4 * p + 4) % 4 = 0
         /\ \A j \in 1..3 : ((3 * p + j) - 1) \div 3 = p
         /\ (3 * p + 1) % 3 = 1 /\ (3 * p + 2) % 3 = 2 /\ (3 * p + 3) % 3 = 0
  OBVIOUS

\* The four characters of chunk p.
LEMMA EncodedChunk ==
  ASSUME NEW bytes \in Seq(Byte), NEW p \in Nat, 3 * p < Len(bytes)
  PROVE  LET b1 == ByteAt(bytes, 3 * p + 1)
             b2 == ByteAt(bytes, 3 * p + 2)
             b3 == ByteAt(bytes, 3 * p + 3)
             s  == b64_encode(bytes)
         IN  /\ s[4 * p + 1] = ALPHABET(b1 \div 4)
             /\ s[4 * p + 2] = ALPHABET((b1 % 4) * 16 + b2 \div 16)
             /\ s[4 * p + 3] = IF 3 * p + 2 > Len(bytes) THEN Pad
                               ELSE ALPHABET((b2 % 16) * 4 + b3 \div 64)
             /\ s[4 * p + 4] = IF 3 * p + 3 > Len(bytes) THEN Pad ELSE ALPHABET(b3 % 64)
  <1>0. Len(bytes) \in Nat
    OBVIOUS
  <1>1. \A j \in 1..4 : 4 * p + j \in 1 .. ((Len(bytes) + 2) \div 3) * 4
    BY <1>0
  <1>2. /\ 3 * (((4 * p + 1) - 1) \div 4) = 3 * p /\ 3 * (((4 * p + 2) - 1) \div 4) = 3 * p
        /\ 3 * (((4 * p + 3) - 1) \div 4) = 3 * p /\ 3 * (((4 * p + 4) - 1) \div 4) = 3 * p
    BY ChunkIndex
  <1>3. b64_encode(bytes)[4 * p + 1] = ALPHABET(ByteAt(bytes, 3 * p + 1) \div 4)
    <2>1. PICK i : i = 4 * p + 1
      OBVIOUS
    <2>2. i \in 1 .. ((Len(bytes) + 2) \div 3) * 4 /\ i % 4 = 1 /\ 3 * ((i - 1) \div 4) = 3 * p
      BY <1>1, <1>2, <2>1, ChunkIndex
    <2>3. b64_encode(bytes)[i] = ALPHABET(ByteAt(bytes, 3 * p + 1) \div 4)
      BY <2>2 DEF b64_encode, ByteAt
    <2> QED BY <2>1, <2>3
  <1>4. b64_encode(bytes)[4 * p + 2]
          = ALPHABET((ByteAt(bytes, 3 * p + 1) % 4) * 16 + ByteAt(bytes, 3 * p + 2) \div 16)
    BY <1>1, <1>2, ChunkIndex DEF b64_encode, ByteAt
  <1>5. b64_encode(bytes)[4 * p + 3]
          = IF 3 * p + 2 > Len(bytes) THEN Pad
            ELSE ALPHABET((ByteAt(bytes, 3 * p + 2) % 16) * 4 + ByteAt(bytes, 3 * p + 3) \div 64)
    BY <1>1, <1>2, ChunkIndex DEF b64_encode, ByteAt
  <1>6. b64_encode(bytes)[4 * p + 4]
          = IF 3 * p + 3 > Len(bytes) THEN Pad ELSE ALPHABET(ByteAt(bytes, 3 * p + 3) % 64)
    <2>1. PICK i : i = 4 * p + 4
      OBVIOUS
    <2>2. i \in 1 .. ((Len(bytes) + 2) \div 3) * 4 /\ i % 4 = 0 /\ 3 * ((i - 1) \div 4) = 3 * p
      BY <1>1, <1>2, <2>1, ChunkIndex
    <2>3. b64_encode(bytes)[i] = IF 3 * p + 3 > Len(bytes) THEN Pad
                                 ELSE ALPHABET(ByteAt(bytes, 3 * p + 3) % 64)
      BY <2>2 DEF b64_encode, ByteAt
    <2> QED BY <2>1, <2>3
  <1> QED BY <1>3, <1>4, <1>5, <1>6

\* How many characters stand for n bytes: two for a last byte, three for two.
SymbolCount(n) == 4 * (n \div 3) + (IF n % 3 = 0 THEN 0 ELSE (n % 3) + 1)

\* The six-bit values of a chunk fit, and the bytes come out of them again.
LEMMA SixBits ==
  ASSUME NEW b1 \in Byte, NEW b2 \in Byte, NEW b3 \in Byte
  PROVE  /\ b1 \div 4 \in 0..63 /\ (b1 % 4) * 16 + b2 \div 16 \in 0..63
         /\ (b2 % 16) * 4 + b3 \div 64 \in 0..63 /\ b3 % 64 \in 0..63
         /\ (b1 \div 4) * 4 + ((b1 % 4) * 16 + b2 \div 16) \div 16 = b1
         /\ (((b1 % 4) * 16 + b2 \div 16) % 16) * 16 + ((b2 % 16) * 4 + b3 \div 64) \div 4 = b2
         /\ (((b2 % 16) * 4 + b3 \div 64) % 4) * 64 + (b3 % 64) = b3
  <1> USE DEF Byte
  <1>1. b1 \div 4 \in 0..63 /\ (b1 % 4) * 16 + b2 \div 16 \in 0..63
    OBVIOUS
  <1>2. (b2 % 16) * 4 + b3 \div 64 \in 0..63 /\ b3 % 64 \in 0..63
    OBVIOUS
  <1>3. (b1 \div 4) * 4 + ((b1 % 4) * 16 + b2 \div 16) \div 16 = b1
    OBVIOUS
  <1>4. (((b1 % 4) * 16 + b2 \div 16) % 16) * 16 + ((b2 % 16) * 4 + b3 \div 64) \div 4 = b2
    OBVIOUS
  <1>5. (((b2 % 16) * 4 + b3 \div 64) % 4) * 64 + (b3 % 64) = b3
    <2>1. PICK h \in 0..3, l \in 0..63 : b3 = 64 * h + l
      <3>1. b3 \div 64 \in 0..3 /\ b3 - 64 * (b3 \div 64) \in 0..63
        OBVIOUS
      <3>2. b3 = 64 * (b3 \div 64) + (b3 - 64 * (b3 \div 64))
        BY <3>1
      <3> QED BY <3>1, <3>2
    <2>2. b3 \div 64 = h /\ b3 % 64 = l
      BY <2>1
    <2>3. PICK x \in 0..15 : x = b2 % 16
      OBVIOUS
    <2>4. (x * 4 + h) % 4 = h
      OBVIOUS
    <2>5. ((b2 % 16) * 4 + b3 \div 64) % 4 = h
      BY <2>2, <2>3, <2>4
    <2>6. h * 64 + l = b3
      BY <2>1
    <2> QED BY <2>2, <2>5, <2>6
  <1> QED BY <1>1, <1>2, <1>3, <1>4, <1>5

\* The characters of n bytes fill whole chunks, with at most two to pad.
LEMMA SymbolCounts ==
  ASSUME NEW n \in Nat
  PROVE  /\ SymbolCount(n) \in 0 .. ((n + 2) \div 3) * 4
         /\ SymbolCount(n) % 4 # 1 /\ (SymbolCount(n) * 3) \div 4 = n
         /\ \A p \in Nat : /\ 4 * p + 1 <= SymbolCount(n) <=> 3 * p < n
                           /\ 4 * p + 2 <= SymbolCount(n) <=> 3 * p < n
                           /\ 4 * p + 3 <= SymbolCount(n) <=> 3 * p + 2 <= n
                           /\ 4 * p + 4 <= SymbolCount(n) <=> 3 * p + 3 <= n
                           /\ \A j \in 1..4 : 4 * p + j <= ((n + 2) \div 3) * 4 => 3 * p < n
  <1>1. PICK q \in Nat, r \in 0..2 : n = 3 * q + r
    <2>1. n \div 3 \in Nat /\ n - 3 * (n \div 3) \in 0..2
      OBVIOUS
    <2>2. n = 3 * (n \div 3) + (n - 3 * (n \div 3))
      BY <2>1
    <2> QED BY <2>1, <2>2
  <1>2. n \div 3 = q /\ n % 3 = r
    BY <1>1
  <1>3. /\ r = 0 => SymbolCount(n) = 4 * q /\ (n + 2) \div 3 = q
        /\ r = 1 => SymbolCount(n) = 4 * q + 2 /\ (n + 2) \div 3 = q + 1
        /\ r = 2 => SymbolCount(n) = 4 * q + 3 /\ (n + 2) \div 3 = q + 1
    BY <1>1, <1>2 DEF SymbolCount
  <1>4. CASE r = 0
    BY <1>1, <1>3, <1>4
  <1>5. CASE r = 1
    BY <1>1, <1>3, <1>5
  <1>6. CASE r = 2
    BY <1>1, <1>3, <1>6
  <1> QED BY <1>4, <1>5, <1>6

\* Which of the four characters of a chunk are symbols.
LEMMA ChunkSymbols ==
  ASSUME NEW n \in Nat, NEW p \in Nat, 3 * p < n
  PROVE  /\ 4 * p + 1 <= SymbolCount(n) /\ 4 * p + 2 <= SymbolCount(n)
         /\ 4 * p + 3 <= SymbolCount(n) <=> ~(3 * p + 2 > n)
         /\ 4 * p + 4 <= SymbolCount(n) <=> ~(3 * p + 3 > n)
  <1>1. /\ 4 * p + 1 <= SymbolCount(n) <=> 3 * p < n
        /\ 4 * p + 2 <= SymbolCount(n) <=> 3 * p < n
        /\ 4 * p + 3 <= SymbolCount(n) <=> 3 * p + 2 <= n
        /\ 4 * p + 4 <= SymbolCount(n) <=> 3 * p + 3 <= n
    BY SymbolCounts
  <1>2. (3 * p + 2 <= n <=> ~(3 * p + 2 > n)) /\ (3 * p + 3 <= n <=> ~(3 * p + 3 > n))
    OBVIOUS
  <1> QED BY <1>1, <1>2

\* The symbols of an encoding are its characters before the padding.
LEMMA EncodedSymbols ==
  ASSUME NEW bytes \in Seq(Byte), NEW n, n = Len(bytes), NEW s, s = b64_encode(bytes)
  PROVE  /\ Symbols(s) = [i \in 1..SymbolCount(n) |-> s[i]]
         /\ \A i \in 1..SymbolCount(n) : InAlphabet(s[i])
  <1>0. n \in Nat /\ SymbolCount(n) \in 0 .. ((n + 2) \div 3) * 4 /\ ((n + 2) \div 3) * 4 \in Nat
    <2>1. n \in Nat
      OBVIOUS
    <2>2. ((n + 2) \div 3) * 4 \in Nat
      BY <2>1
    <2> QED BY <2>1, <2>2, SymbolCounts
  <1>1. DOMAIN s = 1 .. ((n + 2) \div 3) * 4
    BY DEF b64_encode
  <1>2. ASSUME NEW i \in 1 .. ((n + 2) \div 3) * 4
        PROVE  IF i <= SymbolCount(n) THEN \E x \in 0..63 : s[i] = ALPHABET(x) ELSE s[i] = Pad
    <2>1. PICK p \in Nat, j \in 1..4 : i = 4 * p + j
      <3>1. i \in Nat \ {0}
        BY <1>0
      <3> QED BY <3>1, ChunkOf
    <2>2. 3 * p < n
      <3>1. 4 * p + j <= ((n + 2) \div 3) * 4
        BY <1>0, <2>1
      <3> QED BY <1>0, <3>1, SymbolCounts
    <2>3. PICK b1, b2, b3 : /\ b1 = ByteAt(bytes, 3 * p + 1) /\ b2 = ByteAt(bytes, 3 * p + 2)
                            /\ b3 = ByteAt(bytes, 3 * p + 3)
      OBVIOUS
    <2>4. b1 \in Byte /\ b2 \in Byte /\ b3 \in Byte
      BY <2>3, ByteAtIsByte
    <2>5. /\ s[4 * p + 1] = ALPHABET(b1 \div 4)
          /\ s[4 * p + 2] = ALPHABET((b1 % 4) * 16 + b2 \div 16)
          /\ s[4 * p + 3] = IF 3 * p + 2 > n THEN Pad ELSE ALPHABET((b2 % 16) * 4 + b3 \div 64)
          /\ s[4 * p + 4] = IF 3 * p + 3 > n THEN Pad ELSE ALPHABET(b3 % 64)
      BY <2>2, <2>3, EncodedChunk
    <2>6. /\ b1 \div 4 \in 0..63 /\ (b1 % 4) * 16 + b2 \div 16 \in 0..63
          /\ (b2 % 16) * 4 + b3 \div 64 \in 0..63 /\ b3 % 64 \in 0..63
      BY <2>4, SixBits
    <2>7. /\ 4 * p + 1 <= SymbolCount(n) /\ 4 * p + 2 <= SymbolCount(n)
          /\ 4 * p + 3 <= SymbolCount(n) <=> ~(3 * p + 2 > n)
          /\ 4 * p + 4 <= SymbolCount(n) <=> ~(3 * p + 3 > n)
      BY <1>0, <2>2, ChunkSymbols
    <2>8. CASE j = 1
      BY <2>1, <2>5, <2>6, <2>7, <2>8
    <2>9. CASE j = 2
      BY <2>1, <2>5, <2>6, <2>7, <2>9
    <2>10. CASE j = 3
      BY <2>1, <2>5, <2>6, <2>7, <2>10
    <2>11. CASE j = 4
      BY <2>1, <2>5, <2>6, <2>7, <2>11
    <2> QED BY <2>8, <2>9, <2>10, <2>11
  <1>3. \A i \in 1..SymbolCount(n) : InAlphabet(s[i]) /\ s[i] # Pad /\ s[i] \notin Whitespace
    <2>1. ASSUME NEW i \in 1..SymbolCount(n)
          PROVE  InAlphabet(s[i]) /\ s[i] # Pad /\ s[i] \notin Whitespace
      <3>1. i \in 1 .. ((n + 2) \div 3) * 4 /\ i <= SymbolCount(n)
        BY <1>0
      <3>2. PICK x \in 0..63 : s[i] = ALPHABET(x)
        BY <1>2, <3>1
      <3> QED BY <3>2, AlphabetFacts
    <2> QED BY <2>1
  <1>4. \A i \in (SymbolCount(n) + 1) .. ((n + 2) \div 3) * 4 : s[i] = Pad
    BY <1>0, <1>2
  <1>5. Symbols(s) = [i \in 1..SymbolCount(n) |-> s[i]]
    <2>1. PICK l, m : l = ((n + 2) \div 3) * 4 /\ m = SymbolCount(n)
      OBVIOUS
    <2>2. l \in Nat /\ m \in 0..l /\ DOMAIN s = 1..l
      BY <1>0, <1>1, <2>1
    <2>3. \A i \in (m + 1)..l : s[i] = Pad
      BY <1>4, <2>1
    <2>4. \A i \in 1..m : s[i] # Pad /\ s[i] \notin Whitespace
      BY <1>3, <2>1
    <2>5. Symbols(s) = [i \in 1..m |-> s[i]]
      BY ONLY <2>2, <2>3, <2>4, SymbolsBeforePadding
    <2> QED BY <2>1, <2>5
  <1> QED BY <1>3, <1>5

\* plugin_host_bytes.rs: b64_decode gives back the bytes that b64_encode was given,
\* whatever they are and however many, so that a value or a payload survives the
\* application's strings.
THEOREM CodecRoundTrip ==
  ASSUME NEW bytes \in Seq(Byte)
  PROVE  b64_decode(b64_encode(bytes)) = bytes
  <1>0. PICK n, s : n = Len(bytes) /\ s = b64_encode(bytes)
    OBVIOUS
  <1>1. PICK symbols : symbols = [i \in 1..SymbolCount(n) |-> s[i]]
    OBVIOUS
  <1>2. n \in Nat /\ SymbolCount(n) \in Nat
    <2>1. n \in Nat
      BY <1>0
    <2>2. SymbolCount(n) \in 0 .. ((n + 2) \div 3) * 4
      BY <2>1, SymbolCounts
    <2> QED BY <2>1, <2>2
  <1>3. Symbols(s) = symbols /\ Len(symbols) = SymbolCount(n)
    BY <1>0, <1>1, <1>2, EncodedSymbols
  <1>4. b64_decode(s) = DecodedBytes(symbols)
    <2>1. \A i \in DOMAIN symbols : InAlphabet(symbols[i])
      BY <1>0, <1>1, EncodedSymbols
    <2>2. Len(symbols) % 4 # 1
      BY <1>2, <1>3, SymbolCounts
    <2> QED BY <1>3, <2>1, <2>2 DEF b64_decode
  <1>5. DOMAIN DecodedBytes(symbols) = 1..n
    <2>1. (Len(symbols) * 3) \div 4 = n
      BY <1>2, <1>3, SymbolCounts
    <2> QED BY <2>1 DEF DecodedBytes
  <1>6. ASSUME NEW i \in 1..n PROVE DecodedBytes(symbols)[i] = bytes[i]
    <2>1. PICK p \in Nat, j \in 1..3 : i = 3 * p + j
      <3>1. i \in Nat \ {0}
        BY <1>2
      <3> QED BY <3>1, ChunkOf
    <2>2. 3 * p < n
      BY <1>2, <2>1
    <2>3. PICK b1, b2, b3 : /\ b1 = ByteAt(bytes, 3 * p + 1) /\ b2 = ByteAt(bytes, 3 * p + 2)
                            /\ b3 = ByteAt(bytes, 3 * p + 3)
      OBVIOUS
    <2>4. b1 \in Byte /\ b2 \in Byte /\ b3 \in Byte
      BY <2>3, ByteAtIsByte
    <2>5. PICK x1, x2, x3, x4 : /\ x1 = b1 \div 4 /\ x2 = (b1 % 4) * 16 + b2 \div 16
                                /\ x3 = (b2 % 16) * 4 + b3 \div 64 /\ x4 = b3 % 64
      OBVIOUS
    <2>6. /\ x1 \in 0..63 /\ x2 \in 0..63 /\ x3 \in 0..63 /\ x4 \in 0..63
          /\ x1 * 4 + x2 \div 16 = b1 /\ (x2 % 16) * 16 + x3 \div 4 = b2
          /\ (x3 % 4) * 64 + x4 = b3
      <3>1. /\ b1 \div 4 \in 0..63 /\ (b1 % 4) * 16 + b2 \div 16 \in 0..63
            /\ (b2 % 16) * 4 + b3 \div 64 \in 0..63 /\ b3 % 64 \in 0..63
        BY <2>4, SixBits
      <3>2. (b1 \div 4) * 4 + ((b1 % 4) * 16 + b2 \div 16) \div 16 = b1
        BY <2>4, SixBits
      <3>3. (((b1 % 4) * 16 + b2 \div 16) % 16) * 16 + ((b2 % 16) * 4 + b3 \div 64) \div 4 = b2
        BY <2>4, SixBits
      <3>4. (((b2 % 16) * 4 + b3 \div 64) % 4) * 64 + (b3 % 64) = b3
        BY <2>4, SixBits
      <3>5. x1 * 4 + x2 \div 16 = b1
        BY <2>5, <3>2
      <3>6. (x2 % 16) * 16 + x3 \div 4 = b2
        BY <2>5, <3>3
      <3>7. (x3 % 4) * 64 + x4 = b3
        BY <2>5, <3>4
      <3> QED BY <2>5, <3>1, <3>5, <3>6, <3>7
    <2>7. /\ s[4 * p + 1] = ALPHABET(x1) /\ s[4 * p + 2] = ALPHABET(x2)
          /\ ~(3 * p + 2 > n) => s[4 * p + 3] = ALPHABET(x3)
          /\ ~(3 * p + 3 > n) => s[4 * p + 4] = ALPHABET(x4)
      BY <1>0, <2>2, <2>3, <2>5, EncodedChunk
    <2>8. /\ 4 * p + 1 <= SymbolCount(n) /\ 4 * p + 2 <= SymbolCount(n)
          /\ ~(3 * p + 2 > n) => 4 * p + 3 <= SymbolCount(n)
          /\ ~(3 * p + 3 > n) => 4 * p + 4 <= SymbolCount(n)
      BY <1>2, <2>2, ChunkSymbols
    <2>9. /\ val(symbols[4 * p + 1]) = x1 /\ val(symbols[4 * p + 2]) = x2
          /\ ~(3 * p + 2 > n) => val(symbols[4 * p + 3]) = x3
          /\ ~(3 * p + 3 > n) => val(symbols[4 * p + 4]) = x4
      <3>1. \A k \in 1..SymbolCount(n) : symbols[k] = s[k]
        BY <1>1
      <3>2. symbols[4 * p + 1] = s[4 * p + 1] /\ symbols[4 * p + 2] = s[4 * p + 2]
        <4>1. 4 * p + 1 \in 1..SymbolCount(n) /\ 4 * p + 2 \in 1..SymbolCount(n)
          BY <1>2, <2>8
        <4> QED BY <3>1, <4>1
      <3>3. ~(3 * p + 2 > n) => symbols[4 * p + 3] = s[4 * p + 3]
        <4>1. ~(3 * p + 2 > n) => 4 * p + 3 \in 1..SymbolCount(n)
          BY <1>2, <2>8
        <4> QED BY <3>1, <4>1
      <3>4. ~(3 * p + 3 > n) => symbols[4 * p + 4] = s[4 * p + 4]
        <4>1. ~(3 * p + 3 > n) => 4 * p + 4 \in 1..SymbolCount(n)
          BY <1>2, <2>8
        <4> QED BY <3>1, <4>1
      <3> QED BY <2>6, <2>7, <3>2, <3>3, <3>4, AlphabetFacts
    <2>10. i \in 1 .. (Len(symbols) * 3) \div 4 /\ 4 * ((i - 1) \div 3) = 4 * p
      <3>1. (i - 1) \div 3 = p
        BY <2>1, ChunkIndex
      <3>2. (Len(symbols) * 3) \div 4 = n
        BY <1>2, <1>3, SymbolCounts
      <3> QED BY <3>1, <3>2
    <2>11. CASE j = 1
      <3>1. i % 3 = 1
        BY <2>1, <2>11, ChunkIndex
      <3>2. DecodedBytes(symbols)[i] = x1 * 4 + x2 \div 16
        BY <2>9, <2>10, <3>1 DEF DecodedBytes
      <3>3. bytes[i] = b1
        BY <1>0, <2>1, <2>3, <2>11 DEF ByteAt
      <3> QED BY <2>6, <3>2, <3>3
    <2>12. CASE j = 2
      <3>1. i % 3 = 2 /\ ~(3 * p + 2 > n)
        BY <1>2, <2>1, <2>12, ChunkIndex
      <3>2. DecodedBytes(symbols)[i] = (x2 % 16) * 16 + x3 \div 4
        BY <2>9, <2>10, <3>1 DEF DecodedBytes
      <3>3. bytes[i] = b2
        BY <1>0, <2>1, <2>3, <2>12 DEF ByteAt
      <3> QED BY <2>6, <3>2, <3>3
    <2>13. CASE j = 3
      <3>1. i % 3 = 0 /\ ~(3 * p + 2 > n) /\ ~(3 * p + 3 > n)
        BY <1>2, <2>1, <2>13, ChunkIndex
      <3>2. DecodedBytes(symbols)[i] = (x3 % 4) * 64 + x4
        <4>1. i % 3 # 1 /\ i % 3 # 2
          BY <3>1
        <4>2. DecodedBytes(symbols)[i] = (val(symbols[4 * p + 3]) % 4) * 64 + val(symbols[4 * p + 4])
          BY <2>10, <4>1 DEF DecodedBytes
        <4> QED BY <2>9, <3>1, <4>2
      <3>3. bytes[i] = b3
        BY <1>0, <2>1, <2>3, <2>13 DEF ByteAt
      <3> QED BY <2>6, <3>2, <3>3
    <2> QED BY <2>11, <2>12, <2>13
  <1>7. bytes = [i \in 1..n |-> bytes[i]]
    BY <1>0
  <1>8. DecodedBytes(symbols) = [i \in 1..n |-> DecodedBytes(symbols)[i]]
    BY <1>5 DEF DecodedBytes
  <1> QED BY <1>0, <1>4, <1>6, <1>7, <1>8

-----------------------------------------------------------------------------
(* The promise of PluginStorage.                                           *)

\* A host call that the guest's thread is waiting for.
Underway == {"issued", "surfaced", "answered", "cancelled"}

\* The strings that stand for what a guest stores and emits.
EncodedValues   == {b64_encode(v) : v \in Values}
EncodedPayloads == {b64_encode(p) : p \in Payloads}

\* The shapes of the variables of the typed hosts.
TypedShape ==
  /\ hostKind \in TypedHostNames \cup {"go-guest"}
  /\ calling \in Ops \cup {NoOp}
  /\ DOMAIN request = Session!CallIds /\ DOMAIN phase = Session!CallIds
  /\ DOMAIN answer = Session!CallIds /\ DOMAIN value = Session!CallIds
  /\ reaction = NoJson \/ reaction = Refusal \/ reaction = Success(reaction.data)

\* The application has been given encodings only.
AppHoldsEncodings ==
  /\ \A x \in DOMAIN appKv : appKv[x] \in EncodedValues
  /\ appEvents \in Seq(EncodedPayloads)

\* At most one host call is under way, that of the typed call in progress.
CallMatches ==
  /\ InMemory => calling = NoOp
  /\ calling = NoOp => reaction = NoJson
  /\ \A k \in Session!CallIds : phase[k] \in Underway => calling # NoOp /\ request[k] = Encode(calling)
  /\ \A j, k \in Session!CallIds : phase[j] \in Underway /\ phase[k] \in Underway => j = k
  /\ \A k \in Session!CallIds :
       phase[k] = "answered" => reaction # NoJson /\ answer[k] \in {reaction, Garbage}

\* The inductive invariant of the typed hosts.
TypedInv == TypedShape /\ AppHoldsEncodings /\ CallMatches

\* Every string the application holds decodes to bytes that a guest sent.
LEMMA Decodable ==
  ASSUME NEW v \in Values \cup Payloads
  PROVE  b64_decode(b64_encode(v)) = v /\ b64_decode(b64_encode(v)) # Undecodable
  <1>1. v \in Seq(Byte)
    BY BytesAssumption DEF Byte
  <1>2. b64_decode(b64_encode(v)) = v
    BY <1>1, CodecRoundTrip
  <1>3. v # Undecodable
    <2>1. -1 \notin Byte /\ Len(Undecodable) = 1 /\ Undecodable[1] = -1
      BY DEF Byte, Undecodable
    <2>2. \A i \in 1..Len(v) : v[i] \in Byte
      BY <1>1
    <2> QED BY <2>1, <2>2
  <1> QED BY <1>2, <1>3

\* A call's name tells its arguments; no call is the absent one.
LEMMA OpFacts ==
  ASSUME NEW o \in Ops
  PROVE  /\ o # NoOp /\ o.op # "none"
         /\ o.op \in {"get", "delete"} => o.key \in Keys
         /\ o.op = "set" => o.key \in Keys /\ o.value \in Values
         /\ o.op = "emit" => o.payload \in Payloads
         /\ o.op \in {"get", "delete", "set", "emit", "clear", "list-keys", "log",
                      "read-portfolio-names"} \cup Reads
  BY DEF Ops, NoOp, Reads

\* What the encoding leaves alone, and what it encodes.
LEMMA EncodeFacts ==
  ASSUME NEW o \in Ops
  PROVE  /\ Encode(o).op = o.op
         /\ o.op \in {"get", "set", "delete"} => Encode(o).key = o.key
         /\ o.op = "set" => Encode(o).value = b64_encode(o.value)
         /\ o.op = "emit" => Encode(o).payload = b64_encode(o.payload)
  BY DEF Ops, Encode, Reads

\* The answers are told apart.
LEMMA JsonFacts ==
  /\ NoJson # Refusal /\ Garbage # NoJson /\ Garbage # Refusal /\ Gone # Garbage /\ Gone # Refusal
  /\ Gone # NoJson
  /\ \A d : /\ Success(d) # NoJson /\ Success(d) # Refusal /\ Success(d) # Garbage
            /\ Success(d) # Gone /\ Success(d).data = d
  BY DEF NoJson, Refusal, Garbage, Gone, Success

\* A host is created with no call under way.
LEMMA TypedInitInv == Init => TypedInv
  <1> SUFFICES ASSUME Init PROVE TypedInv
    OBVIOUS
  <1>1. PICK h \in TypedHostNames \cup {"go-guest"} : TypedInit(h)
    BY DEF Init, GoGuestInit, TypedHostInit
  <1>2. AppHoldsEncodings
    BY <1>1 DEF TypedInit, AppHoldsEncodings, NoKeys
  <1>3. CallMatches
    BY <1>1 DEF TypedInit, CallMatches, Session!Init, Underway
  <1>4. TypedShape
    BY <1>1 DEF TypedInit, TypedShape, Session!Init
  <1> QED BY <1>2, <1>3, <1>4 DEF TypedInv

\* A call is forwarded as the only one under way.
LEMMA ForwardInv ==
  ASSUME TypedInv, hostKind # "go-guest", NEW o \in Ops, NEW k \in Session!CallIds,
         Forward(o, k) \/ ForwardRefused(o, k)
  PROVE  TypedInv'
  <1> USE DEF TypedInv
  <1>1. CASE Forward(o, k)
    <2>1. TypedShape'
      BY <1>1 DEF TypedShape, Forward, Session!Issue, appVars
    <2>2. AppHoldsEncodings'
      BY <1>1 DEF AppHoldsEncodings, Forward, appVars
    <2>3. \A j \in Session!CallIds : phase'[j] \in Underway => j = k
      BY <1>1 DEF CallMatches, TypedShape, Forward, Session!Issue
    <2>4. calling' # NoOp /\ calling' = o /\ request'[k] = Encode(o)
      BY <1>1, OpFacts DEF Forward, TypedShape
    <2>5. phase'[k] # "answered"
      BY <1>1 DEF Forward, TypedShape, Session!Issue
    <2>6. \A j \in Session!CallIds : phase'[j] = "answered" => j = k
      BY <2>3 DEF Underway
    <2> QED BY <1>1, <2>1, <2>2, <2>3, <2>4, <2>5, <2>6 DEF CallMatches, InMemory, Forward
  <1>2. CASE ForwardRefused(o, k)
    <2>1. TypedShape'
      BY <1>2 DEF TypedShape, ForwardRefused, Session!Refuse, appVars
    <2>2. AppHoldsEncodings'
      BY <1>2 DEF AppHoldsEncodings, ForwardRefused, appVars
    <2>3. \A j \in Session!CallIds : phase'[j] \notin Underway
      BY <1>2 DEF CallMatches, TypedShape, ForwardRefused, Session!Refuse, Underway
    <2> QED BY <1>2, <2>1, <2>2, <2>3 DEF CallMatches, InMemory, ForwardRefused, Underway, appVars
  <1> QED BY <1>1, <1>2

\* Nothing is under way once the call has been settled.
LEMMA SettleInv ==
  ASSUME TypedInv, hostKind # "go-guest", NEW k \in Session!CallIds, Settle(k)
  PROVE  TypedInv'
  <1> USE DEF TypedInv
  <1>1. TypedShape'
    BY DEF TypedShape, Settle, Session!Return, Session!Fail
  <1>2. AppHoldsEncodings'
    BY DEF AppHoldsEncodings, Settle
  <1>3. \A j \in Session!CallIds : phase'[j] \notin Underway
    BY DEF CallMatches, TypedShape, Settle, Session!Return, Session!Fail, Underway
  <1> QED BY <1>1, <1>2, <1>3 DEF CallMatches, InMemory, Settle, Underway

\* The application's store is given encodings.
LEMMA ServesInv ==
  ASSUME TypedInv, hostKind # "go-guest", NEW k \in Session!CallIds, AppServes(k)
  PROVE  TypedInv'
  <1> USE DEF TypedInv
  <1>1. calling \in Ops /\ calling # NoOp /\ request[k] = Encode(calling)
    BY DEF AppServes, CallMatches, TypedShape, Underway
  <1>2. TypedShape'
    BY JsonFacts DEF TypedShape, AppServes, transportVars
  <1>3. \A x \in DOMAIN appKv' : appKv'[x] \in EncodedValues
    <2>1. appKv' = CASE calling.op = "set" -> With(appKv, calling.key, b64_encode(calling.value))
                     [] calling.op = "delete" -> Without(appKv, calling.key)
                     [] calling.op = "clear" -> NoKeys
                     [] OTHER -> appKv
      BY <1>1, EncodeFacts DEF AppServes
    <2>2. CASE calling.op = "set"
      <3>1. b64_encode(calling.value) \in EncodedValues
        BY <1>1, <2>2, OpFacts DEF EncodedValues
      <3>2. appKv' = With(appKv, calling.key, b64_encode(calling.value))
        BY <2>1, <2>2
      <3> QED BY <3>1, <3>2 DEF With, AppHoldsEncodings
    <2>3. CASE calling.op # "set"
      BY <2>1, <2>3 DEF Without, NoKeys, AppHoldsEncodings
    <2> QED BY <2>2, <2>3
  <1>4. appEvents' \in Seq(EncodedPayloads)
    <2>1. appEvents' = IF calling.op = "emit" THEN Append(appEvents, b64_encode(calling.payload))
                       ELSE appEvents
      BY <1>1, EncodeFacts DEF AppServes
    <2>2. calling.op = "emit" => b64_encode(calling.payload) \in EncodedPayloads
      BY <1>1, OpFacts DEF EncodedPayloads
    <2> QED BY <2>1, <2>2 DEF AppHoldsEncodings
  <1>5. reaction' # NoJson
    BY JsonFacts DEF AppServes
  <1>6. CallMatches'
    <2>1. UNCHANGED <<hostKind, calling, request, phase, answer>>
      BY DEF AppServes, transportVars
    <2>2. \A j \in Session!CallIds : phase[j] # "answered"
      BY DEF AppServes, CallMatches, Underway
    <2> QED BY <1>1, <1>5, <2>1, <2>2 DEF CallMatches, InMemory
  <1> QED BY <1>2, <1>3, <1>4, <1>6 DEF AppHoldsEncodings

\* The steps that neither begin, serve nor end a call.
LEMMA OtherInv ==
  ASSUME TypedInv, hostKind # "go-guest"
  PROVE  /\ \A o \in Ops : NotWired(o) => TypedInv'
         /\ \A k \in Session!CallIds : Poll(k) \/ AppRefuses(k) \/ AppAnswers(k) => TypedInv'
         /\ AppFrees => TypedInv'
  <1> USE DEF TypedInv
  <1>1. ASSUME NEW o \in Ops, NotWired(o) PROVE TypedInv'
    BY <1>1 DEF NotWired, TypedShape, AppHoldsEncodings, CallMatches, InMemory, transportVars, appVars
  <1>2. ASSUME NEW k \in Session!CallIds, Poll(k) PROVE TypedInv'
    <2>1. \A j \in Session!CallIds : /\ phase'[j] \in Underway => phase[j] \in Underway
                                     /\ phase'[j] = "answered" => phase[j] = "answered"
      BY <1>2 DEF Poll, Session!Surface, TypedShape, Underway
    <2> QED BY <1>2, <2>1 DEF Poll, Session!Surface, TypedShape, AppHoldsEncodings, CallMatches,
            InMemory, appVars
  <1>3. ASSUME NEW k \in Session!CallIds, AppRefuses(k) PROVE TypedInv'
    <2>1. calling # NoOp /\ \A j \in Session!CallIds : phase[j] # "answered"
      BY <1>3 DEF AppRefuses, CallMatches, Underway
    <2> QED BY <1>3, <2>1, JsonFacts DEF AppRefuses, TypedShape, AppHoldsEncodings, CallMatches,
            InMemory, transportVars
  <1>4. ASSUME NEW k \in Session!CallIds, AppAnswers(k) PROVE TypedInv'
    <2>0. PICK a \in {reaction, Garbage} : Session!Answer(k, a)
      BY <1>4 DEF AppAnswers
    <2>1. \A j \in Session!CallIds : /\ phase'[j] \in Underway => phase[j] \in Underway
                                     /\ j # k => phase'[j] = phase[j] /\ answer'[j] = answer[j]
      BY <2>0 DEF Session!Answer, TypedShape, Underway
    <2>2. answer'[k] = a
      BY <2>0 DEF Session!Answer, TypedShape
    <2>3. TypedShape' /\ AppHoldsEncodings'
      BY <1>4, <2>0 DEF AppAnswers, Session!Answer, TypedShape, AppHoldsEncodings, appVars
    <2>4. UNCHANGED <<hostKind, calling, request, reaction>> /\ reaction # NoJson
      BY <1>4 DEF AppAnswers, appVars
    <2> QED BY <2>1, <2>2, <2>3, <2>4 DEF CallMatches, InMemory
  <1>5. ASSUME AppFrees PROVE TypedInv'
    <2>0. UNCHANGED <<hostKind, calling, request, appKv, appEvents, reaction, answer, value>>
      BY <1>5 DEF AppFrees, Session!Close, Session!Shut, appVars
    <2>1. /\ DOMAIN phase' = Session!CallIds
          /\ \A j \in Session!CallIds : /\ phase'[j] \in Underway => phase[j] \in Underway
                                        /\ phase'[j] = "answered" => phase[j] = "answered"
      BY <1>5 DEF AppFrees, Session!Close, Session!Shut, Session!CancelPhase, Underway
    <2> QED BY <2>0, <2>1 DEF TypedShape, AppHoldsEncodings, CallMatches, InMemory
  <1> QED BY <1>1, <1>2, <1>3, <1>4, <1>5

\* TypedInv is inductive.
LEMMA TypedNextInv == TypedInv /\ [Next]_vars => TypedInv'
  <1> SUFFICES ASSUME TypedInv, [Next]_vars PROVE TypedInv'
    OBVIOUS
  <1>1. CASE UNCHANGED typedVars
    BY <1>1 DEF typedVars, transportVars, appVars, TypedInv, TypedShape, AppHoldsEncodings,
       CallMatches, InMemory
  <1>2. CASE hostKind # "go-guest" /\ TypedStep
    BY <1>2, ForwardInv, SettleInv, ServesInv, OtherInv DEF TypedStep
  <1> QED BY <1>1, <1>2 DEF Next, vars

\* An empty store and an empty sink decode to empty ones.
LEMMA DecodedEmpty == Decoded(NoKeys) = NoKeys /\ Decoded(<<>>) = <<>>
  <1>1. Decoded(NoKeys) = NoKeys
    BY DEF Decoded, NoKeys
  <1>2. Decoded(<<>>) = <<>>
    BY DEF Decoded
  <1> QED BY <1>1, <1>2

\* The promise speaks of the same calls and results.
LEMMA SameWords ==
  /\ Promise!NoOp = NoOp /\ Promise!NoKeys = NoKeys /\ Promise!Ops = Ops
  /\ \A d : Promise!Ok(d) = Ok(d)
  /\ \A c : Promise!Err(c) = Err(c)
  /\ \A f, k, v : Promise!With(f, k, v) = With(f, k, v)
  /\ \A f, k : Promise!Without(f, k) = Without(f, k) /\ Promise!Lookup(f, k) = Lookup(f, k)
  BY DEF Promise!NoOp, NoOp, Promise!NoKeys, NoKeys, Promise!Ops, Ops, Promise!Reads, Reads,
     Promise!Ok, Ok, Promise!Err, Err, Promise!With, With, Promise!Without, Without,
     Promise!Lookup, Lookup

\* Initial states are initial states of the promise.
LEMMA PromiseInit == Init => Promise!Init
  <1> SUFFICES ASSUME Init PROVE Promise!Init
    OBVIOUS
  <1>1. kv = NoKeys /\ events = <<>> /\ reply = Ok({})
    BY DEF Init, GoGuestInit, TypedHostInit, CapstoneInit, StoreInit
  <1>2. /\ appKv = NoKeys /\ appEvents = <<>> /\ reaction = NoJson
        /\ calling = NoOp /\ returned = Ok({})
    BY DEF Init, GoGuestInit, TypedHostInit, TypedInit
  <1> QED BY <1>1, <1>2, DecodedEmpty, SameWords DEF Promise!Init, Serviced

\* The in-memory host does every call at once.
LEMMA GoGuestStep ==
  ASSUME TypedInv, InMemory, CapstoneStep, UNCHANGED <<httpVars, typedVars>>
  PROVE  Promise!Next
  <1> USE SameWords
  <1>1. calling = NoOp /\ InMemory'
    BY DEF TypedInv, CallMatches, InMemory, typedVars
  <1>2. UNCHANGED <<calling, reaction>>
    BY DEF typedVars, appVars
  <1>3. ASSUME NEW o \in Ops,
               \/ /\ kv' = Promise!Stored(o, kv) /\ events' = Promise!Emitted(o, events)
                  /\ reply' = Promise!Answer(o, kv)
               \/ /\ o.op # "log" /\ UNCHANGED <<kv, events>>
                  /\ \E c \in Promise!Refusals : reply' = Err(c)
        PROVE  Promise!Next
    BY <1>1, <1>2, <1>3 DEF Promise!AtOnce, Promise!Next, Serviced
  <1>4. CASE read_portfolio_names
    <2>1. [op |-> "read-portfolio-names"] \in Ops
      BY DEF Ops
    <2> QED BY <1>3, <1>4, <2>1 DEF read_portfolio_names, Returns, canned_portfolios,
            Promise!Stored, Promise!Emitted, Promise!Answer, Promise!Refusals
  <1>5. CASE OtherReads
    <2>1. [op |-> "read-asset-count"] \in Ops
      BY DEF Ops, Reads
    <2> QED BY <1>3, <1>5, <2>1 DEF OtherReads, Returns, Promise!Refusals
  <1>6. CASE Write
    <2>1. [op |-> "log"] \in Ops
      BY DEF Ops
    <2> QED BY <1>3, <1>6, <2>1 DEF Write, Returns, Promise!Stored, Promise!Emitted, Promise!Answer
  <1>7. CASE Delegated
    <2> USE DEF Denied, Returns, Promise!Refusals, Promise!Stored, Promise!Emitted, Promise!Answer
    <2>1. ASSUME NEW k \in Keys, Get(k) PROVE Promise!Next
      <3>1. [op |-> "get", key |-> k] \in Ops
        BY DEF Ops
      <3> QED BY <1>3, <2>1, <3>1 DEF Get
    <2>2. ASSUME NEW k \in Keys, Delete(k) PROVE Promise!Next
      <3>1. [op |-> "delete", key |-> k] \in Ops
        BY DEF Ops
      <3> QED BY <1>3, <2>2, <3>1 DEF Delete
    <2>3. ASSUME NEW k \in Keys, NEW v \in Values, Set(k, v) PROVE Promise!Next
      <3>1. [op |-> "set", key |-> k, value |-> v] \in Ops
        BY DEF Ops
      <3> QED BY <1>3, <2>3, <3>1 DEF Set
    <2>4. CASE Clear
      <3>1. [op |-> "clear"] \in Ops
        BY DEF Ops
      <3> QED BY <1>3, <2>4, <3>1 DEF Clear
    <2>5. CASE ListKeys
      <3>1. [op |-> "list-keys"] \in Ops
        BY DEF Ops
      <3> QED BY <1>3, <2>5, <3>1 DEF ListKeys
    <2>6. ASSUME NEW p \in Payloads, Emit(p) PROVE Promise!Next
      <3>1. [op |-> "emit", payload |-> p] \in Ops
        BY DEF Ops
      <3> QED BY <1>3, <2>6, <3>1 DEF Emit
    <2> QED BY <1>7, <2>1, <2>2, <2>3, <2>4, <2>5, <2>6 DEF Delegated, StorageCall
  <1> QED BY <1>4, <1>5, <1>6, <1>7 DEF CapstoneStep

\* A call that the host does not forward, or cannot, is refused at once.
LEMMA RefusedStep ==
  ASSUME TypedInv, ~InMemory, NEW o \in Ops,
         NotWired(o) \/ \E k \in Session!CallIds : ForwardRefused(o, k)
  PROVE  Promise!Next
  <1> USE SameWords
  <1>1. calling = NoOp /\ UNCHANGED <<hostKind, calling, reaction, appKv, appEvents>>
    BY DEF NotWired, ForwardRefused, appVars
  <1>2. CASE NotWired(o)
    <2>1. o.op # "log"
      BY <1>2 DEF NotWired, Offered, Forwarded, InMemory, TypedInv, TypedShape, TypedHostNames, Reads
    <2>2. returned' = Err("not-found")
      BY <1>2 DEF NotWired
    <2> QED BY <1>1, <2>1, <2>2 DEF Promise!Next, Promise!AtOnce, Promise!Refusals, InMemory, Serviced
  <1>3. CASE o.op = "log" /\ returned' = Ok({})
    <2>1. Promise!Stored(o, Decoded(appKv)) = Decoded(appKv)
      BY <1>3 DEF Promise!Stored
    <2>2. Promise!Emitted(o, Decoded(appEvents)) = Decoded(appEvents)
      BY <1>3 DEF Promise!Emitted
    <2>3. Promise!Answer(o, Decoded(appKv)) = Ok({})
      BY <1>3 DEF Promise!Answer
    <2> QED BY <1>1, <1>3, <2>1, <2>2, <2>3 DEF Promise!Next, Promise!AtOnce, InMemory, Serviced
  <1>4. CASE o.op # "log" /\ returned' = Err("not-found")
    BY <1>1, <1>4 DEF Promise!Next, Promise!AtOnce, Promise!Refusals, InMemory, Serviced
  <1> QED BY <1>2, <1>3, <1>4 DEF ForwardRefused, ReturnsToGuest

\* A call that is forwarded is in progress.
LEMMA ForwardStep ==
  ASSUME TypedInv, ~InMemory, NEW o \in Ops, NEW k \in Session!CallIds, Forward(o, k)
  PROVE  Promise!Next
  <1> USE SameWords
  <1>1. /\ calling = NoOp /\ calling' = o /\ UNCHANGED <<hostKind, returned, appKv, appEvents, reaction>>
        /\ reaction = NoJson
    BY DEF Forward, appVars, TypedInv, CallMatches
  <1> QED BY <1>1 DEF Promise!Next, Promise!Call, InMemory, Serviced

\* The application's store, decoded, is the store of the promise.
LEMMA DecodedFacts ==
  /\ \A f, x, v : Decoded(With(f, x, b64_encode(v))) = With(Decoded(f), x, b64_decode(b64_encode(v)))
  /\ \A f, x : Decoded(Without(f, x)) = Without(Decoded(f), x)
  /\ \A f : DOMAIN Decoded(f) = DOMAIN f
  <1>1. ASSUME NEW f, NEW x, NEW v
        PROVE  Decoded(With(f, x, b64_encode(v))) = With(Decoded(f), x, b64_decode(b64_encode(v)))
    BY DEF Decoded, With
  <1>2. ASSUME NEW f, NEW x PROVE Decoded(Without(f, x)) = Without(Decoded(f), x)
    BY DEF Decoded, Without
  <1> QED BY <1>1, <1>2 DEF Decoded

\* And its events, decoded, are the sink of the promise.
LEMMA DecodedAppend ==
  ASSUME NEW S, NEW s \in Seq(S), NEW e \in S
  PROVE  Decoded(Append(s, e)) = Append(Decoded(s), b64_decode(e))
  <1>1. PICK n : n = Len(s)
    OBVIOUS
  <1>2. n \in Nat /\ DOMAIN s = 1..n
    BY <1>1
  <1>3. Decoded(s) \in Seq({b64_decode(y) : y \in S}) /\ Len(Decoded(s)) = n
    BY <1>1, <1>2 DEF Decoded
  <1>4. DOMAIN Append(s, e) = 1..(n + 1) /\ DOMAIN Append(Decoded(s), b64_decode(e)) = 1..(n + 1)
    BY <1>1, <1>3
  <1>5. ASSUME NEW i \in 1..(n + 1)
        PROVE  b64_decode(Append(s, e)[i]) = Append(Decoded(s), b64_decode(e))[i]
    BY <1>1, <1>2, <1>3 DEF Decoded
  <1>6. Append(Decoded(s), b64_decode(e)) = [i \in 1..(n + 1) |-> Append(Decoded(s), b64_decode(e))[i]]
    <2>1. PICK D, t : D = {b64_decode(y) : y \in S} /\ t = Append(Decoded(s), b64_decode(e))
      OBVIOUS
    <2>2. Decoded(s) \in Seq(D) /\ b64_decode(e) \in D
      BY <1>3, <2>1
    <2>3. t \in Seq(D) /\ DOMAIN t = 1..(n + 1)
      BY <1>4, <2>1, <2>2
    <2>4. t = [i \in 1..(n + 1) |-> t[i]]
      BY <2>3
    <2> QED BY <2>1, <2>4
  <1>7. Decoded(Append(s, e)) = [i \in 1..(n + 1) |-> b64_decode(Append(s, e)[i])]
    BY <1>4 DEF Decoded
  <1> QED BY <1>5, <1>6, <1>7

\* What the application answers a call with is read as the promise says.
LEMMA ServedAnswer ==
  ASSUME TypedInv, NEW o \in Ops, NEW data,
         data = CASE o.op = "get" -> IF o.key \in DOMAIN appKv THEN String(appKv[o.key]) ELSE Null
                  [] o.op = "list-keys" -> Array(DOMAIN appKv)
                  [] o.op = "read-portfolio-names" -> Array(Portfolios)
                  [] OTHER -> Null
  PROVE  Decode(o, data) = Promise!Answer(o, Decoded(appKv))
  <1> USE SameWords
  <1>1. CASE o.op = "get" /\ o.key \in DOMAIN appKv
    <2>1. PICK v \in Values : appKv[o.key] = b64_encode(v)
      BY <1>1 DEF TypedInv, AppHoldsEncodings, EncodedValues
    <2>2. data = String(b64_encode(v))
      BY <1>1, <2>1
    <2>3. Decode(o, data) = Ok({v})
      BY <1>1, <2>2, Decodable DEF Decode, decode_value, String, Reads
    <2>4. Lookup(Decoded(appKv), o.key) = {v}
      BY <1>1, <2>1, Decodable DEF Lookup, Decoded
    <2> QED BY <1>1, <2>3, <2>4 DEF Promise!Answer
  <1>2. CASE o.op = "get" /\ o.key \notin DOMAIN appKv
    <2>1. Decode(o, data) = Ok({})
      BY <1>2 DEF Decode, decode_value, Null, Reads
    <2>2. Lookup(Decoded(appKv), o.key) = {}
      BY <1>2 DEF Lookup, Decoded
    <2> QED BY <1>2, <2>1, <2>2 DEF Promise!Answer
  <1>3. CASE o.op = "list-keys"
    BY <1>3, DecodedFacts DEF Decode, decode_list_keys, Array, Reads, Promise!Answer
  <1>4. CASE o.op = "read-portfolio-names"
    BY <1>4 DEF Decode, decode_portfolio_names, Array, Reads, Promise!Answer
  <1>5. CASE o.op \notin {"get", "list-keys", "read-portfolio-names"}
    BY <1>5 DEF Decode, decode_record, Promise!Answer
  <1> QED BY <1>1, <1>2, <1>3, <1>4, <1>5

\* The application services a call where the promise does.
LEMMA ServeStep ==
  ASSUME TypedInv, ~InMemory, NEW k \in Session!CallIds, AppServes(k)
  PROVE  Promise!Next
  <1> USE SameWords
  <1>1. calling \in Ops /\ calling # NoOp /\ request[k] = Encode(calling)
    BY DEF AppServes, TypedInv, CallMatches, TypedShape, Underway
  <1>2. reaction = NoJson /\ UNCHANGED <<hostKind, calling, returned>>
    BY DEF AppServes
  <1>3. Decoded(appKv') = Promise!Stored(calling, Decoded(appKv))
    <2>1. appKv' = CASE calling.op = "set" -> With(appKv, calling.key, b64_encode(calling.value))
                     [] calling.op = "delete" -> Without(appKv, calling.key)
                     [] calling.op = "clear" -> NoKeys
                     [] OTHER -> appKv
      BY <1>1, EncodeFacts DEF AppServes
    <2>2. calling.op = "set" => b64_decode(b64_encode(calling.value)) = calling.value
      BY <1>1, OpFacts, Decodable
    <2>3. CASE calling.op = "set"
      BY <2>1, <2>2, <2>3, DecodedFacts DEF Promise!Stored
    <2>4. CASE calling.op = "delete"
      BY <2>1, <2>4, DecodedFacts DEF Promise!Stored
    <2>5. CASE calling.op = "clear"
      BY <2>1, <2>5, DecodedEmpty DEF Promise!Stored
    <2>6. CASE calling.op \notin {"set", "delete", "clear"}
      BY <2>1, <2>6 DEF Promise!Stored
    <2> QED BY <2>3, <2>4, <2>5, <2>6
  <1>4. Decoded(appEvents') = Promise!Emitted(calling, Decoded(appEvents))
    <2>1. appEvents' = IF calling.op = "emit" THEN Append(appEvents, b64_encode(calling.payload))
                       ELSE appEvents
      BY <1>1, EncodeFacts DEF AppServes
    <2>2. CASE calling.op = "emit"
      <3>1. b64_decode(b64_encode(calling.payload)) = calling.payload
        BY <1>1, <2>2, OpFacts, Decodable
      <3>2. b64_encode(calling.payload) \in EncodedPayloads
        BY <1>1, <2>2, OpFacts DEF EncodedPayloads
      <3>3. appEvents \in Seq(EncodedPayloads)
        BY DEF TypedInv, AppHoldsEncodings
      <3>4. Decoded(Append(appEvents, b64_encode(calling.payload)))
              = Append(Decoded(appEvents), calling.payload)
        BY <3>1, <3>2, <3>3, DecodedAppend
      <3> QED BY <2>1, <2>2, <3>4 DEF Promise!Emitted
    <2>3. CASE calling.op # "emit"
      BY <2>1, <2>3 DEF Promise!Emitted
    <2> QED BY <2>2, <2>3
  <1>5. PICK data :
          /\ reaction' = Success(data)
          /\ data = CASE calling.op = "get" -> IF calling.key \in DOMAIN appKv
                                                THEN String(appKv[calling.key]) ELSE Null
                      [] calling.op = "list-keys" -> Array(DOMAIN appKv)
                      [] calling.op = "read-portfolio-names" -> Array(Portfolios)
                      [] OTHER -> Null
    BY <1>1, EncodeFacts DEF AppServes
  <1>6. Serviced' /\ ~Serviced /\ reaction'.data = data
    BY <1>2, <1>5, JsonFacts DEF Serviced
  <1>7. Decode(calling, data) = Promise!Answer(calling, Decoded(appKv))
    BY <1>1, <1>5, ServedAnswer
  <1>8. calling.op = "log" => Promise!Answer(calling, Decoded(appKv)) = Ok({})
    BY DEF Promise!Answer
  <1>9. Decode(calling', reaction'.data) = Promise!Answer(calling, Decoded(appKv))
    BY <1>2, <1>6, <1>7
  <1>10. Promise!Serve
    BY <1>1, <1>2, <1>3, <1>4, <1>6, <1>8, <1>9 DEF Promise!Serve, InMemory, Decoded
  <1> QED BY <1>10 DEF Promise!Next

\* A settled call returns its answer, or is refused, or its answer is lost.
LEMMA SettleStep ==
  ASSUME TypedInv, ~InMemory, NEW k \in Session!CallIds, Settle(k)
  PROVE  Promise!Next
  <1> USE SameWords
  <1>1. /\ calling # NoOp /\ calling' = NoOp /\ reaction' = NoJson
        /\ UNCHANGED <<hostKind, appKv, appEvents>>
    BY DEF Settle, Session!Return, Session!Fail, TypedInv, CallMatches, Underway
  <1>2. value'[k] \in {reaction, Garbage, Gone} /\ (value'[k] = reaction => reaction # NoJson)
    BY JsonFacts DEF Settle, Session!Return, Session!Fail, TypedInv, TypedShape, CallMatches
  <1>3. ~Serviced'
    BY <1>1 DEF Serviced
  <1>4. returned' = IF calling.op = "log" THEN Ok({}) ELSE Unwrap(calling, value'[k])
    BY DEF Settle, ReturnsToGuest
  <1>5. ASSUME NEW r, returned' = IF calling.op = "log" THEN Ok({}) ELSE r PROVE Promise!Finish(r)
    BY <1>1, <1>3, <1>5 DEF Promise!Finish, InMemory
  <1>6. CASE value'[k] = Gone
    <2>1. Promise!Finish(Err("not-found"))
      BY <1>4, <1>5, <1>6, JsonFacts DEF Unwrap
    <2> QED BY <1>1, <2>1 DEF Promise!Next, Promise!Lose, Promise!Lost
  <1>7. CASE value'[k] = Garbage
    <2>1. Promise!Finish(Err("bad-response"))
      BY <1>4, <1>5, <1>7, JsonFacts DEF Unwrap
    <2> QED BY <1>1, <2>1 DEF Promise!Next, Promise!Lose, Promise!Lost
  <1>8. CASE value'[k] = Refusal /\ reaction = Refusal
    <2>1. Promise!Finish(Err("permission-denied"))
      BY <1>4, <1>5, <1>8, JsonFacts DEF Unwrap
    <2> QED BY <1>1, <1>8, <2>1 DEF Promise!Next, Promise!Refuse, Promise!Refusals, Serviced
  <1>9. CASE value'[k] = reaction /\ reaction = Success(reaction.data)
    <2>1. Serviced
      BY <1>9, JsonFacts DEF Serviced
    <2>2. Unwrap(calling, value'[k]) = Decode(calling, reaction.data)
      BY <1>9, JsonFacts DEF Unwrap
    <2>3. \A r : returned' = (IF calling.op = "log" THEN Ok({}) ELSE r) => Promise!Finish(r)
      BY <1>5
    <2>4. Promise!Finish(IF Serviced /\ calling.op # "log"
                         THEN Decode(calling, reaction.data) ELSE Ok({}))
      BY <1>4, <2>1, <2>2, <2>3
    <2> QED BY <2>1, <2>4 DEF Promise!Next, Promise!Return
  <1> QED BY <1>2, <1>6, <1>7, <1>8, <1>9 DEF TypedInv, TypedShape

\* The other steps of the session and the application are invisible.
LEMMA InvisibleStep ==
  ASSUME TypedInv, ~InMemory,
         AppFrees \/ \E k \in Session!CallIds : Poll(k) \/ AppRefuses(k) \/ AppAnswers(k)
  PROVE  UNCHANGED Promise!vars
  <1>1. UNCHANGED <<hostKind, calling, returned, appKv, appEvents>>
    BY DEF AppFrees, Poll, AppRefuses, AppAnswers, appVars
  <1>2. UNCHANGED reaction \/ (reaction = NoJson /\ reaction' = Refusal)
    BY DEF AppFrees, Poll, AppRefuses, AppAnswers, appVars
  <1> QED BY <1>1, <1>2 DEF Promise!vars, InMemory, Serviced, Decoded

\* Whichever host serves a plugin, in memory or through the session, the codec and
\* the application's strings, its calls keep the promise of PluginStorage.
THEOREM KeepsThePromise == Spec => ImplementsPluginStorage
  <1>1. TypedInv /\ [Next]_vars => [Promise!Next]_(Promise!vars)
    <2> SUFFICES ASSUME TypedInv, [Next]_vars PROVE Promise!Next \/ UNCHANGED Promise!vars
      OBVIOUS
    <2>1. CASE InMemory /\ CapstoneStep /\ UNCHANGED <<httpVars, typedVars>>
      BY <2>1, GoGuestStep
    <2>2. CASE UNCHANGED <<capstoneVars, typedVars>>
      BY <2>2 DEF capstoneVars, storeVars, typedVars, appVars, Promise!vars, InMemory, Serviced, Decoded
    <2>3. CASE ~InMemory /\ TypedStep
      BY <2>3, RefusedStep, ForwardStep, ServeStep, SettleStep, InvisibleStep DEF TypedStep
    <2> QED BY <2>1, <2>2, <2>3 DEF Next, vars, InMemory
  <1>2. Spec => []TypedInv
    BY TypedInitInv, TypedNextInv, PTL DEF Spec
  <1> QED BY PromiseInit, <1>1, <1>2, PTL DEF Spec, ImplementsPluginStorage, Promise!Spec

-----------------------------------------------------------------------------
(* The codec and the RFC.                                                  *)

\* Bit j of six, the first being the highest.
Bit(v, j) == (v \div <<32, 16, 8, 4, 2, 1>>[j]) % 2

\* The six bits of v, and the parts of v that they make up.
HasBits(v, b1, b2, b3, b4, b5, b6) ==
  /\ Bit(v, 1) = b1 /\ Bit(v, 2) = b2 /\ Bit(v, 3) = b3
  /\ Bit(v, 4) = b4 /\ Bit(v, 5) = b5 /\ Bit(v, 6) = b6
  /\ v = 32 * b1 + 16 * b2 + 8 * b3 + 4 * b4 + 2 * b5 + b6
  /\ v \div 16 = 2 * b1 + b2 /\ v % 16 = 8 * b3 + 4 * b4 + 2 * b5 + b6
  /\ v \div 4 = 8 * b1 + 4 * b2 + 2 * b3 + b4 /\ v % 4 = 2 * b5 + b6

\* A symbol's value has six bits.
LEMMA BitFacts ==
  ASSUME NEW v \in 0..63
  PROVE  \E b1, b2, b3, b4, b5, b6 \in 0..1 : HasBits(v, b1, b2, b3, b4, b5, b6)
  <1>1. /\ Bit(v, 1) = (v \div 32) % 2 /\ Bit(v, 2) = (v \div 16) % 2 /\ Bit(v, 3) = (v \div 8) % 2
        /\ Bit(v, 4) = (v \div 4) % 2 /\ Bit(v, 5) = (v \div 2) % 2 /\ Bit(v, 6) = (v \div 1) % 2
    BY DEF Bit
  <1>2. PICK b1, b2, b3, b4, b5, b6 \in 0..1 :
          v = 32 * b1 + 16 * b2 + 8 * b3 + 4 * b4 + 2 * b5 + b6
    OBVIOUS
  <1>3. /\ (v \div 32) % 2 = b1 /\ (v \div 16) % 2 = b2 /\ (v \div 8) % 2 = b3
        /\ (v \div 4) % 2 = b4 /\ (v \div 2) % 2 = b5 /\ (v \div 1) % 2 = b6
    BY <1>2
  <1>4. /\ v \div 16 = 2 * b1 + b2 /\ v % 16 = 8 * b3 + 4 * b4 + 2 * b5 + b6
        /\ v \div 4 = 8 * b1 + 4 * b2 + 2 * b3 + b4 /\ v % 4 = 2 * b5 + b6
    BY <1>2
  <1>5. /\ Bit(v, 1) = b1 /\ Bit(v, 2) = b2 /\ Bit(v, 3) = b3
        /\ Bit(v, 4) = b4 /\ Bit(v, 5) = b5 /\ Bit(v, 6) = b6
    BY <1>1, <1>3
  <1>6. HasBits(v, b1, b2, b3, b4, b5, b6)
    BY <1>2, <1>4, <1>5 DEF HasBits
  <1> QED BY <1>6

\* What a character stands for.
LEMMA ValType == \A c : InAlphabet(c) => val(c) \in 0..63
  <1> SUFFICES ASSUME NEW c, InAlphabet(c) PROVE val(c) \in 0..63
    OBVIOUS
  <1>1. CASE c \in 65..90
    BY <1>1 DEF val
  <1>2. CASE c \in 97..122
    BY <1>2 DEF val
  <1>3. CASE c \in 48..57
    BY <1>3 DEF val
  <1>4. CASE c = 43 \/ c = 47
    BY <1>4 DEF val
  <1> QED BY <1>1, <1>2, <1>3, <1>4 DEF InAlphabet

\* The bytes of chunk p by their bits are the bytes the decoder makes of its
\* symbols.
SameBytes(symbols, n, p, bits) ==
  LET v(j) == val(symbols[4 * p + j]) IN
  /\ 4 * p + 2 <= n => ByteOfBits(bits, 3 * p + 1) = v(1) * 4 + v(2) \div 16
  /\ 4 * p + 3 <= n => ByteOfBits(bits, 3 * p + 2) = (v(2) % 16) * 16 + v(3) \div 4
  /\ 4 * p + 4 <= n => ByteOfBits(bits, 3 * p + 3) = (v(3) % 4) * 64 + v(4)

\* Bit k of the 24 of chunk p is in its symbol (k + 5) \div 6.
LEMMA BytesOfChunk ==
  ASSUME NEW symbols, NEW n \in Nat, Len(symbols) = n, NEW p \in Nat,
         \A i \in 1..n : val(symbols[i]) \in 0..63, NEW bits, bits = BitsOf(symbols)
  PROVE  SameBytes(symbols, n, p, bits)
  <1>1. PICK v1, v2, v3, v4 : /\ v1 = val(symbols[4 * p + 1]) /\ v2 = val(symbols[4 * p + 2])
                              /\ v3 = val(symbols[4 * p + 3]) /\ v4 = val(symbols[4 * p + 4])
    OBVIOUS
  <1>2. ASSUME NEW k \in 1..24, 24 * p + k <= 6 * n
        PROVE  /\ k \in 1..6 => bits[24 * p + k] = Bit(v1, k)
               /\ k \in 7..12 => bits[24 * p + k] = Bit(v2, k - 6)
               /\ k \in 13..18 => bits[24 * p + k] = Bit(v3, k - 12)
               /\ k \in 19..24 => bits[24 * p + k] = Bit(v4, k - 18)
    <2>1. PICK b : b = 24 * p + k /\ b \in 1 .. 6 * n
      BY <1>2
    <2>2. bits[b] = Bit(val(symbols[(b + 5) \div 6]), ((b - 1) % 6) + 1)
      BY <2>1 DEF BitsOf, Bit
    <2>3. /\ k \in 1..6 => (b + 5) \div 6 = 4 * p + 1 /\ ((b - 1) % 6) + 1 = k
          /\ k \in 7..12 => (b + 5) \div 6 = 4 * p + 2 /\ ((b - 1) % 6) + 1 = k - 6
          /\ k \in 13..18 => (b + 5) \div 6 = 4 * p + 3 /\ ((b - 1) % 6) + 1 = k - 12
          /\ k \in 19..24 => (b + 5) \div 6 = 4 * p + 4 /\ ((b - 1) % 6) + 1 = k - 18
      BY <2>1
    <2> QED BY <1>1, <2>1, <2>2, <2>3
  <1>3. ASSUME 4 * p + 2 <= n PROVE ByteOfBits(bits, 3 * p + 1) = v1 * 4 + v2 \div 16
    <2>1. v1 \in 0..63 /\ v2 \in 0..63
      <3>1. 4 * p + 1 \in 1..n /\ 4 * p + 2 \in 1..n
        BY <1>3
      <3> QED BY <1>1, <3>1
    <2>2. /\ bits[24 * p + 1] = Bit(v1, 1) /\ bits[24 * p + 2] = Bit(v1, 2)
          /\ bits[24 * p + 3] = Bit(v1, 3) /\ bits[24 * p + 4] = Bit(v1, 4)
          /\ bits[24 * p + 5] = Bit(v1, 5) /\ bits[24 * p + 6] = Bit(v1, 6)
          /\ bits[24 * p + 7] = Bit(v2, 1) /\ bits[24 * p + 8] = Bit(v2, 2)
      BY <1>2, <1>3
    <2>3. ByteOfBits(bits, 3 * p + 1) =
            128 * Bit(v1, 1) + 64 * Bit(v1, 2) + 32 * Bit(v1, 3) + 16 * Bit(v1, 4)
              + 8 * Bit(v1, 5) + 4 * Bit(v1, 6) + 2 * Bit(v2, 1) + Bit(v2, 2)
      <3>1. /\ 8 * (3 * p + 1) - 7 = 24 * p + 1 /\ 8 * (3 * p + 1) - 6 = 24 * p + 2
            /\ 8 * (3 * p + 1) - 5 = 24 * p + 3 /\ 8 * (3 * p + 1) - 4 = 24 * p + 4
            /\ 8 * (3 * p + 1) - 3 = 24 * p + 5 /\ 8 * (3 * p + 1) - 2 = 24 * p + 6
            /\ 8 * (3 * p + 1) - 1 = 24 * p + 7 /\ 8 * (3 * p + 1) = 24 * p + 8
        OBVIOUS
      <3> QED BY <2>2, <3>1 DEF ByteOfBits
    <2>4. PICK a1, a2, a3, a4, a5, a6 \in 0..1 : HasBits(v1, a1, a2, a3, a4, a5, a6)
      BY <2>1, BitFacts
    <2>5. PICK b1, b2, b3, b4, b5, b6 \in 0..1 : HasBits(v2, b1, b2, b3, b4, b5, b6)
      BY <2>1, BitFacts
    <2>6. ByteOfBits(bits, 3 * p + 1) = 128 * a1 + 64 * a2 + 32 * a3 + 16 * a4 + 8 * a5 + 4 * a6 + 2 * b1 + b2
      BY <2>3, <2>4, <2>5 DEF HasBits
    <2>7. v1 = 32 * a1 + 16 * a2 + 8 * a3 + 4 * a4 + 2 * a5 + a6
      BY <2>4 DEF HasBits
    <2>8. v2 \div 16 = 2 * b1 + b2
      BY <2>5 DEF HasBits
    <2> QED BY <2>1, <2>6, <2>7, <2>8
  <1>4. ASSUME 4 * p + 3 <= n PROVE ByteOfBits(bits, 3 * p + 2) = (v2 % 16) * 16 + v3 \div 4
    <2>1. v2 \in 0..63 /\ v3 \in 0..63
      <3>1. 4 * p + 2 \in 1..n /\ 4 * p + 3 \in 1..n
        BY <1>4
      <3> QED BY <1>1, <3>1
    <2>2. /\ bits[24 * p + 9] = Bit(v2, 3) /\ bits[24 * p + 10] = Bit(v2, 4)
          /\ bits[24 * p + 11] = Bit(v2, 5) /\ bits[24 * p + 12] = Bit(v2, 6)
          /\ bits[24 * p + 13] = Bit(v3, 1) /\ bits[24 * p + 14] = Bit(v3, 2)
          /\ bits[24 * p + 15] = Bit(v3, 3) /\ bits[24 * p + 16] = Bit(v3, 4)
      BY <1>2, <1>4
    <2>3. ByteOfBits(bits, 3 * p + 2) =
            128 * Bit(v2, 3) + 64 * Bit(v2, 4) + 32 * Bit(v2, 5) + 16 * Bit(v2, 6)
              + 8 * Bit(v3, 1) + 4 * Bit(v3, 2) + 2 * Bit(v3, 3) + Bit(v3, 4)
      <3>1. /\ 8 * (3 * p + 2) - 7 = 24 * p + 9 /\ 8 * (3 * p + 2) - 6 = 24 * p + 10
            /\ 8 * (3 * p + 2) - 5 = 24 * p + 11 /\ 8 * (3 * p + 2) - 4 = 24 * p + 12
            /\ 8 * (3 * p + 2) - 3 = 24 * p + 13 /\ 8 * (3 * p + 2) - 2 = 24 * p + 14
            /\ 8 * (3 * p + 2) - 1 = 24 * p + 15 /\ 8 * (3 * p + 2) = 24 * p + 16
        OBVIOUS
      <3> QED BY <2>2, <3>1 DEF ByteOfBits
    <2>4. PICK a1, a2, a3, a4, a5, a6 \in 0..1 : HasBits(v2, a1, a2, a3, a4, a5, a6)
      BY <2>1, BitFacts
    <2>5. PICK b1, b2, b3, b4, b5, b6 \in 0..1 : HasBits(v3, b1, b2, b3, b4, b5, b6)
      BY <2>1, BitFacts
    <2>6. ByteOfBits(bits, 3 * p + 2) = 128 * a3 + 64 * a4 + 32 * a5 + 16 * a6 + 8 * b1 + 4 * b2 + 2 * b3 + b4
      BY <2>3, <2>4, <2>5 DEF HasBits
    <2>7. v2 % 16 = 8 * a3 + 4 * a4 + 2 * a5 + a6
      BY <2>4 DEF HasBits
    <2>8. v3 \div 4 = 8 * b1 + 4 * b2 + 2 * b3 + b4
      BY <2>5 DEF HasBits
    <2> QED BY <2>1, <2>6, <2>7, <2>8
  <1>5. ASSUME 4 * p + 4 <= n PROVE ByteOfBits(bits, 3 * p + 3) = (v3 % 4) * 64 + v4
    <2>1. v3 \in 0..63 /\ v4 \in 0..63
      <3>1. 4 * p + 3 \in 1..n /\ 4 * p + 4 \in 1..n
        BY <1>5
      <3> QED BY <1>1, <3>1
    <2>2. /\ bits[24 * p + 17] = Bit(v3, 5) /\ bits[24 * p + 18] = Bit(v3, 6)
          /\ bits[24 * p + 19] = Bit(v4, 1) /\ bits[24 * p + 20] = Bit(v4, 2)
          /\ bits[24 * p + 21] = Bit(v4, 3) /\ bits[24 * p + 22] = Bit(v4, 4)
          /\ bits[24 * p + 23] = Bit(v4, 5) /\ bits[24 * p + 24] = Bit(v4, 6)
      BY <1>2, <1>5
    <2>3. ByteOfBits(bits, 3 * p + 3) =
            128 * Bit(v3, 5) + 64 * Bit(v3, 6) + 32 * Bit(v4, 1) + 16 * Bit(v4, 2)
              + 8 * Bit(v4, 3) + 4 * Bit(v4, 4) + 2 * Bit(v4, 5) + Bit(v4, 6)
      <3>1. /\ 8 * (3 * p + 3) - 7 = 24 * p + 17 /\ 8 * (3 * p + 3) - 6 = 24 * p + 18
            /\ 8 * (3 * p + 3) - 5 = 24 * p + 19 /\ 8 * (3 * p + 3) - 4 = 24 * p + 20
            /\ 8 * (3 * p + 3) - 3 = 24 * p + 21 /\ 8 * (3 * p + 3) - 2 = 24 * p + 22
            /\ 8 * (3 * p + 3) - 1 = 24 * p + 23 /\ 8 * (3 * p + 3) = 24 * p + 24
        OBVIOUS
      <3> QED BY <2>2, <3>1 DEF ByteOfBits
    <2>4. PICK a1, a2, a3, a4, a5, a6 \in 0..1 : HasBits(v3, a1, a2, a3, a4, a5, a6)
      BY <2>1, BitFacts
    <2>5. PICK b1, b2, b3, b4, b5, b6 \in 0..1 : HasBits(v4, b1, b2, b3, b4, b5, b6)
      BY <2>1, BitFacts
    <2>6. ByteOfBits(bits, 3 * p + 3) = 128 * a5 + 64 * a6 + 32 * b1 + 16 * b2 + 8 * b3 + 4 * b4 + 2 * b5 + b6
      BY <2>3, <2>4, <2>5 DEF HasBits
    <2>7. v3 % 4 = 2 * a5 + a6
      BY <2>4 DEF HasBits
    <2>8. v4 = 32 * b1 + 16 * b2 + 8 * b3 + 4 * b4 + 2 * b5 + b6
      BY <2>5 DEF HasBits
    <2> QED BY <2>1, <2>6, <2>7, <2>8
  <1> QED BY <1>1, <1>3, <1>4, <1>5 DEF SameBytes

\* The lengths, and the lone last symbol.
LEMMA QuantumFacts ==
  ASSUME NEW n \in Nat
  PROVE  /\ (n * 3) \div 4 = (6 * n) \div 8 /\ (n % 4 = 1 <=> (6 * n) % 8 = 6)
         /\ \A p \in Nat : /\ 3 * p + 1 <= (n * 3) \div 4 => 4 * p + 2 <= n
                           /\ 3 * p + 2 <= (n * 3) \div 4 => 4 * p + 3 <= n
                           /\ 3 * p + 3 <= (n * 3) \div 4 => 4 * p + 4 <= n
  <1>1. PICK q \in Nat, r \in 0..3 : n = 4 * q + r
    <2>1. n \div 4 \in Nat /\ n - 4 * (n \div 4) \in 0..3
      OBVIOUS
    <2>2. n = 4 * (n \div 4) + (n - 4 * (n \div 4))
      BY <2>1
    <2> QED BY <2>1, <2>2
  <1>2. CASE r = 0
    BY <1>1, <1>2
  <1>3. CASE r = 1
    BY <1>1, <1>3
  <1>4. CASE r = 2
    BY <1>1, <1>4
  <1>5. CASE r = 3
    BY <1>1, <1>5
  <1> QED BY <1>2, <1>3, <1>4, <1>5

\* plugin_host_bytes.rs, b64_decode: every string, however long, padded, wrapped,
\* truncated or foreign, is read as RFC 4648 reads its symbols, or refused.
THEOREM DecodesAsTheRfc ==
  ASSUME NEW S, NEW string \in Seq(S)
  PROVE  b64_decode(string) = ReferenceDecode(string)
  <1>1. PICK symbols, n, bits : /\ symbols = Symbols(string) /\ n = Len(symbols)
                                /\ bits = BitsOf(symbols)
    OBVIOUS
  <1>2. symbols \in Seq(S) /\ n \in Nat
    <2>1. PICK kept : kept = {i \in DOMAIN string : string[i] # Pad /\ string[i] \notin Whitespace}
      OBVIOUS
    <2>2. kept \in SUBSET (1..Len(string))
      BY <2>1
    <2>3. Picked(string, kept) \in Seq(S)
      BY <2>2, PickedFacts
    <2>4. symbols = Picked(string, kept)
      BY <1>1, <2>1 DEF Symbols
    <2> QED BY <1>1, <2>3, <2>4
  <1>a. symbols = RfcSymbols(string)
    <2>1. {i \in DOMAIN string : string[i] # Pad /\ string[i] \notin Whitespace}
            = {i \in DOMAIN string : string[i] \notin Whitespace \cup {Pad}}
      OBVIOUS
    <2> QED BY <1>1, <2>1 DEF Symbols, RfcSymbols
  <1>3. (n % 4 = 1 <=> (6 * n) % 8 = 6) /\ (n * 3) \div 4 = (6 * n) \div 8
    BY <1>2, QuantumFacts
  <1>4. DOMAIN symbols = 1..n
    BY <1>1, <1>2
  <1>5. CASE n % 4 = 1 \/ \E i \in 1..n : ~InAlphabet(symbols[i])
    <2>1. b64_decode(string) = Undecodable
      BY <1>1, <1>4, <1>5 DEF b64_decode
    <2>2. ReferenceDecode(string) = Undecodable
      BY <1>1, <1>3, <1>5, <1>a DEF ReferenceDecode
    <2> QED BY <2>1, <2>2
  <1>6. CASE n % 4 # 1 /\ \A i \in 1..n : InAlphabet(symbols[i])
    <2>1. b64_decode(string) = DecodedBytes(symbols)
      BY <1>1, <1>4, <1>6 DEF b64_decode
    <2>2. ReferenceDecode(string) = [m \in 1 .. (6 * n) \div 8 |-> ByteOfBits(bits, m)]
      BY <1>1, <1>3, <1>6, <1>a DEF ReferenceDecode
    <2>3. \A i \in 1..n : val(symbols[i]) \in 0..63
      BY <1>6, ValType
    <2>4. ASSUME NEW m \in 1 .. (n * 3) \div 4 PROVE DecodedBytes(symbols)[m] = ByteOfBits(bits, m)
      <3>1. m \in Nat \ {0} /\ (n * 3) \div 4 \in Nat
        BY <1>2
      <3>2. PICK p \in Nat, j \in 1..3 : m = 3 * p + j
        BY <3>1, ChunkOf
      <3>3. 4 * ((m - 1) \div 3) = 4 * p
        BY <3>2, ChunkIndex
      <3>4. PICK v1, v2, v3, v4 : /\ v1 = val(symbols[4 * p + 1]) /\ v2 = val(symbols[4 * p + 2])
                                  /\ v3 = val(symbols[4 * p + 3]) /\ v4 = val(symbols[4 * p + 4])
        OBVIOUS
      <3>5. /\ 4 * p + 2 <= n => ByteOfBits(bits, 3 * p + 1) = v1 * 4 + v2 \div 16
            /\ 4 * p + 3 <= n => ByteOfBits(bits, 3 * p + 2) = (v2 % 16) * 16 + v3 \div 4
            /\ 4 * p + 4 <= n => ByteOfBits(bits, 3 * p + 3) = (v3 % 4) * 64 + v4
        <4>1. SameBytes(symbols, n, p, bits)
          BY <1>1, <1>2, <2>3, BytesOfChunk
        <4> QED BY <3>4, <4>1 DEF SameBytes
      <3>6. m \in 1 .. (Len(symbols) * 3) \div 4
        BY <1>1
      <3>7. CASE j = 1
        <4>1. m % 3 = 1 /\ 4 * p + 2 <= n
          BY <1>2, <3>1, <3>2, <3>7, ChunkIndex, QuantumFacts
        <4>2. DecodedBytes(symbols)[m] = v1 * 4 + v2 \div 16
          BY <3>3, <3>4, <3>6, <4>1 DEF DecodedBytes
        <4> QED BY <3>2, <3>5, <3>7, <4>1, <4>2
      <3>8. CASE j = 2
        <4>1. m % 3 = 2 /\ 4 * p + 3 <= n
          BY <1>2, <3>1, <3>2, <3>8, ChunkIndex, QuantumFacts
        <4>2. DecodedBytes(symbols)[m] = (v2 % 16) * 16 + v3 \div 4
          BY <3>3, <3>4, <3>6, <4>1 DEF DecodedBytes
        <4> QED BY <3>2, <3>5, <3>8, <4>1, <4>2
      <3>9. CASE j = 3
        <4>1. m % 3 # 1 /\ m % 3 # 2 /\ 4 * p + 4 <= n
          BY <1>2, <3>1, <3>2, <3>9, ChunkIndex, QuantumFacts
        <4>2. DecodedBytes(symbols)[m] = (v3 % 4) * 64 + v4
          BY <3>3, <3>4, <3>6, <4>1 DEF DecodedBytes
        <4> QED BY <3>2, <3>5, <3>9, <4>1, <4>2
      <3> QED BY <3>7, <3>8, <3>9
    <2>5. DecodedBytes(symbols) = [m \in 1 .. (n * 3) \div 4 |-> DecodedBytes(symbols)[m]]
      BY <1>1 DEF DecodedBytes
    <2> QED BY <1>3, <2>1, <2>2, <2>4, <2>5
  <1> QED BY <1>5, <1>6

\* An encoding is a string.
LEMMA EncodingIsString ==
  ASSUME NEW bytes \in Seq(Byte)
  PROVE  \E S : b64_encode(bytes) \in Seq(S)
  <1>1. PICK s, N : s = b64_encode(bytes) /\ N = ((Len(bytes) + 2) \div 3) * 4
    OBVIOUS
  <1>2. PICK k : k = Len(bytes) /\ k \in Nat
    OBVIOUS
  <1>3. N \in Nat
    BY <1>1, <1>2
  <1>4. s = [i \in 1..N |-> s[i]]
    BY <1>1 DEF b64_encode
  <1>5. PICK S : S = {s[i] : i \in 1..N}
    OBVIOUS
  <1>6. s \in [1..N -> S]
    BY <1>4, <1>5
  <1>7. s \in Seq(S)
    BY <1>3, <1>6
  <1> QED BY <1>1, <1>7

\* The samples are sequences.
LEMMA TuplesAreSequences ==
  ASSUME NEW S, NEW n \in Nat, NEW t \in Tuples(S, n)
  PROVE  t \in Seq(S)
  <1>1. PICK k \in 0..n : t \in [1..k -> S]
    BY DEF Tuples
  <1> QED BY <1>1

\* The codec agrees with the RFC on any string and gives any bytes back.
LEMMA SamplesAgree == AgreesOnSamples
  <1>1. ASSUME NEW bytes \in SampleBytes PROVE b64_decode(b64_encode(bytes)) = bytes
    <2>1. EdgeBytes \subseteq Byte
      BY DEF EdgeBytes, Byte
    <2>2. bytes \in Seq(EdgeBytes) \/ bytes \in Seq(Byte)
      BY TuplesAreSequences DEF SampleBytes
    <2>3. bytes \in Seq(Byte)
      BY <2>1, <2>2
    <2> QED BY <2>3, CodecRoundTrip
  <1>2. ASSUME NEW s \in SampleStrings PROVE b64_decode(s) = ReferenceDecode(s)
    BY TuplesAreSequences, DecodesAsTheRfc DEF SampleStrings
  <1> QED BY <1>1, <1>2 DEF AgreesOnSamples

\* plugin_host_bytes.rs: "stays binary-safe".  What the application has been given
\* to keep is, as the RFC reads it, what a guest sent.
THEOREM StoredAsTheRfc == Spec => []CodecAgreesWithRfc
  <1>1. ASSUME NEW v \in Values \cup Payloads PROVE ReferenceDecode(b64_encode(v)) = v
    <2>1. v \in Seq(Byte)
      BY BytesAssumption DEF Byte
    <2>2. PICK S : b64_encode(v) \in Seq(S)
      BY <2>1, EncodingIsString
    <2> QED BY <2>1, <2>2, CodecRoundTrip, DecodesAsTheRfc
  <1>2. TypedInv => CodecAgreesWithRfc
    <2> SUFFICES ASSUME TypedInv PROVE CodecAgreesWithRfc
      OBVIOUS
    <2>1. ASSUME NEW k \in DOMAIN appKv PROVE ReferenceDecode(appKv[k]) \in Values
      <3>1. PICK v \in Values : appKv[k] = b64_encode(v)
        BY DEF TypedInv, AppHoldsEncodings, EncodedValues
      <3> QED BY <1>1, <3>1
    <2>2. ASSUME NEW i \in DOMAIN appEvents PROVE ReferenceDecode(appEvents[i]) \in Payloads
      <3>1. appEvents \in Seq(EncodedPayloads)
        BY DEF TypedInv, AppHoldsEncodings
      <3>2. appEvents[i] \in EncodedPayloads
        BY <3>1
      <3>3. PICK v \in Payloads : appEvents[i] = b64_encode(v)
        BY <3>2 DEF EncodedPayloads
      <3> QED BY <1>1, <3>3
    <2> QED BY <2>1, <2>2, SamplesAgree DEF CodecAgreesWithRfc
  <1> QED BY <1>2, TypedInitInv, TypedNextInv, PTL DEF Spec

-----------------------------------------------------------------------------
(* The fetch gate.                                                         *)

\* A host is its labels.
LEMMA HostFacts ==
  ASSUME NEW host \in Hosts
  PROVE  /\ host \in Seq(Labels) /\ Len(host) \in Nat \ {0} /\ DOMAIN host = 1..Len(host)
         /\ \A i \in 1..Len(host) : host[i] \in Labels
  <1>1. host \in Seq(Labels) /\ host # <<>>
    BY DEF Hosts
  <1>2. Len(host) \in Nat /\ Len(host) # 0
    BY <1>1
  <1> QED BY <1>1, <1>2

\* The values of sixteen bits.
LEMMA WordFacts == \A s : s \in Word <=> s \in Nat /\ s < 65536
  <1>1. PICK top : top = 256 * 256 - 1
    OBVIOUS
  <1>2. Word = 0..top
    BY <1>1, Zenon DEF Word
  <1>3. top + 1 = 65536
    BY <1>1
  <1>4. top \in Nat
    BY <1>1
  <1>5. \A s : s \in 0..top <=> s \in Nat /\ s < top + 1
    BY <1>4
  <1> QED BY <1>2, <1>3, <1>5

\* A label, in lower case.
Low(l) == [kind |-> l.kind, text |-> l.text, digits |-> l.digits, upper |-> FALSE]

\* Writing one field of a label.
LEMMA Rewritten ==
  ASSUME NEW l, NEW d,
         l = [kind |-> l.kind, text |-> l.text, digits |-> l.digits, upper |-> l.upper]
  PROVE  [l EXCEPT !.upper = d] = [kind |-> l.kind, text |-> l.text, digits |-> l.digits, upper |-> d]
  OBVIOUS

\* What a label is, and when two are the same but for their case.
LEMMA LabelFacts ==
  /\ \A l \in Labels : /\ [l EXCEPT !.upper = FALSE] = Low(l) /\ Low(l) \in Labels
                       /\ l.kind \in {"name", "octet", "v6", "[v6]"}
                       /\ l.kind = "name" => l.digits = <<>>
                       /\ l.kind # "name" => l.text = ""
                       /\ l.kind = "octet" => l.digits[1] \in 0..255
                       /\ l.kind \in {"v6", "[v6]"} => l.digits \in [1..8 -> Word]
  /\ \A k, l \in Labels :
       Low(k) = Low(l) <=> <<k.kind, k.text, k.digits>> = <<l.kind, l.text, l.digits>>
  <1> DEFINE Ns == [kind : {"name"}, text : LabelTexts, digits : {<<>>}, upper : BOOLEAN]
             Os == [kind : {"octet"}, text : {""}, digits : [1..1 -> 0..255], upper : BOOLEAN]
             Vs == [kind : {"v6", "[v6]"}, text : {""}, digits : [1..8 -> Word], upper : BOOLEAN]
  <1>1. ASSUME NEW l \in Labels
        PROVE  /\ [l EXCEPT !.upper = FALSE] = Low(l) /\ Low(l) \in Labels
               /\ l.kind \in {"name", "octet", "v6", "[v6]"}
               /\ l.kind = "name" => l.digits = <<>>
               /\ l.kind # "name" => l.text = ""
               /\ l.kind = "octet" => l.digits[1] \in 0..255
               /\ l.kind \in {"v6", "[v6]"} => l.digits \in [1..8 -> Word]
    <2>1. l = [kind |-> l.kind, text |-> l.text, digits |-> l.digits, upper |-> l.upper]
      BY DEF Labels
    <2>2. [l EXCEPT !.upper = FALSE] = Low(l)
      BY <2>1, Rewritten, Zenon DEF Low
    <2>3. CASE l \in Ns
      <3>1. l.kind = "name" /\ l.text \in LabelTexts /\ l.digits = <<>>
        BY <2>3
      <3>2. Low(l) \in Ns
        BY <3>1 DEF Low
      <3>3. Low(l) \in Labels
        BY <3>2 DEF Labels
      <3> QED BY <2>2, <3>1, <3>3
    <2>4. CASE l \in Os
      <3>1. l.kind = "octet" /\ l.text = "" /\ l.digits \in [1..1 -> 0..255]
        BY <2>4
      <3>2. Low(l) \in Os
        BY <3>1 DEF Low
      <3>3. Low(l) \in Labels
        BY <3>2 DEF Labels
      <3>4. PICK d : d = l.digits
        OBVIOUS
      <3>5. d \in [1..1 -> 0..255]
        BY <3>1, <3>4
      <3>6. l.digits[1] \in 0..255
        BY <3>4, <3>5
      <3> QED BY <2>2, <3>1, <3>3, <3>6
    <2>5. CASE l \in Vs
      <3>1. l.kind \in {"v6", "[v6]"} /\ l.text = "" /\ l.digits \in [1..8 -> Word]
        BY <2>5
      <3>2. Low(l) \in Vs
        BY <3>1 DEF Low
      <3>3. Low(l) \in Labels
        BY <3>2 DEF Labels
      <3> QED BY <2>2, <3>1, <3>3
    <2> QED BY <2>3, <2>4, <2>5 DEF Labels
  <1>2. \A k, l \in Labels :
          Low(k) = Low(l) <=> <<k.kind, k.text, k.digits>> = <<l.kind, l.text, l.digits>>
    BY DEF Low
  <1> QED BY <1>1, <1>2

\* A host in lower case.
LEMMA LowerFacts ==
  ASSUME NEW host \in Hosts
  PROVE  /\ to_ascii_lowercase(host) = [i \in 1..Len(host) |-> Low(host[i])]
         /\ to_ascii_lowercase(host) \in Seq(Labels)
         /\ Len(to_ascii_lowercase(host)) = Len(host)
  <1>1. to_ascii_lowercase(host) = [i \in 1..Len(host) |-> Low(host[i])]
    BY HostFacts, LabelFacts DEF to_ascii_lowercase
  <1>2. [i \in 1..Len(host) |-> Low(host[i])] \in [1..Len(host) -> Labels]
    BY HostFacts, LabelFacts
  <1>3. Len(host) \in Nat
    BY HostFacts
  <1> QED BY <1>1, <1>2, <1>3

\* What SequencesExt calls a suffix.
LEMMA SuffixFacts ==
  ASSUME NEW S, NEW s \in Seq(S), NEW t \in Seq(S)
  PROVE  IsSuffix(s, t) <=>
           Len(s) <= Len(t) /\ \A k \in 1..Len(s) : s[k] = t[(Len(t) - Len(s)) + k]
  <1>a. PICK m, n : m = Len(s) /\ n = Len(t)
    OBVIOUS
  <1>1. m = Len(s) /\ n = Len(t) /\ m \in Nat /\ n \in Nat
    BY <1>a
  <1>2. PICK r, q : r = Reverse(s) /\ q = Reverse(t)
    OBVIOUS
  <1>3. /\ r \in Seq(S) /\ Len(r) = m /\ \A k \in 1..m : r[k] = s[(m - k) + 1]
        /\ q \in Seq(S) /\ Len(q) = n /\ \A k \in 1..n : q[k] = t[(n - k) + 1]
    <2>1. r = [i \in 1..m |-> s[(m - i) + 1]] /\ q = [i \in 1..n |-> t[(n - i) + 1]]
      BY <1>1, <1>2 DEF Reverse
    <2>2. \A i \in 1..m : s[(m - i) + 1] \in S
      BY <1>1
    <2>3. \A i \in 1..n : t[(n - i) + 1] \in S
      BY <1>1
    <2>4. r \in [1..m -> S] /\ q \in [1..n -> S]
      BY <2>1, <2>2, <2>3
    <2> QED BY <1>1, <2>1, <2>4
  <1>4. IsSuffix(s, t) <=> m <= n /\ SubSeq(r, 1, m) = SubSeq(q, 1, m)
    BY <1>2, <1>3 DEF IsSuffix, IsPrefix
  <1>5. ASSUME m <= n PROVE SubSeq(r, 1, m) = SubSeq(q, 1, m) <=> \A k \in 1..m : r[k] = q[k]
    <2>1. SubSeq(r, 1, m) = [k \in 1..m |-> r[k]] /\ SubSeq(q, 1, m) = [k \in 1..m |-> q[k]]
      BY <1>1, <1>3, <1>5
    <2> QED BY <2>1
  <1>6. ASSUME m <= n
        PROVE  (\A k \in 1..m : r[k] = q[k]) <=> (\A k \in 1..m : s[k] = t[(n - m) + k])
    <2>1. ASSUME NEW k \in 1..m
          PROVE  (m - k) + 1 \in 1..m /\ (n - m) + ((m - k) + 1) = (n - k) + 1 /\ k \in 1..n
                 /\ (m - ((m - k) + 1)) + 1 = k /\ (n - ((m - k) + 1)) + 1 = (n - m) + k
                 /\ (m - k) + 1 \in 1..n
      BY <1>1, <1>6
    <2>2. ASSUME \A k \in 1..m : r[k] = q[k], NEW k \in 1..m PROVE s[k] = t[(n - m) + k]
      <3>1. PICK j : j = (m - k) + 1 /\ j \in 1..m /\ j \in 1..n
                     /\ (m - j) + 1 = k /\ (n - j) + 1 = (n - m) + k
        BY <2>1
      <3>2. r[j] = s[k] /\ q[j] = t[(n - m) + k]
        BY <1>3, <3>1
      <3> QED BY <2>2, <3>1, <3>2
    <2>3. ASSUME \A k \in 1..m : s[k] = t[(n - m) + k], NEW k \in 1..m PROVE r[k] = q[k]
      <3>1. PICK j : j = (m - k) + 1 /\ j \in 1..m /\ (n - m) + j = (n - k) + 1 /\ k \in 1..n
        BY <2>1
      <3>2. r[k] = s[j] /\ q[k] = t[(n - m) + j]
        BY <1>3, <3>1
      <3> QED BY <2>3, <3>1, <3>2
    <2> QED BY <2>2, <2>3
  <1> QED BY <1>1, <1>4, <1>5, <1>6

\* What follows the first n labels of a host is another, but for the case.
Same(host, other, n) ==
  /\ Len(host) = n + Len(other)
  /\ \A k \in 1..Len(other) : Low(host[n + k]) = Low(other[k])

\* A function on 1..m is a sequence.
LEMMA IsSequence ==
  ASSUME NEW S, NEW m \in Nat, NEW f \in [1..m -> S]
  PROVE  f \in Seq(S) /\ Len(f) = m
  OBVIOUS

\* When two sequences are the same.
LEMMA SameSequence ==
  ASSUME NEW S, NEW s \in Seq(S), NEW t \in Seq(S)
  PROVE  (s = t) <=> (Len(s) = Len(t) /\ \A k \in 1..Len(t) : s[k] = t[k])
  OBVIOUS

\* What a label is but for its case.
Codes == {<<l.kind, l.text, l.digits>> : l \in Labels}

\* The texts of a host, a sequence of what its labels are.
LEMMA TextsFacts ==
  ASSUME NEW host \in Hosts
  PROVE  /\ Texts(host) = [k \in 1..Len(host) |-> <<host[k].kind, host[k].text, host[k].digits>>]
         /\ Texts(host) \in Seq(Codes) /\ Len(Texts(host)) = Len(host)
  <1>1. Texts(host) = [k \in 1..Len(host) |-> <<host[k].kind, host[k].text, host[k].digits>>]
    BY HostFacts DEF Texts
  <1>2. ASSUME NEW k \in 1..Len(host) PROVE <<host[k].kind, host[k].text, host[k].digits>> \in Codes
    <2>1. host[k] \in Labels
      BY HostFacts
    <2> QED BY <2>1 DEF Codes
  <1>3. Texts(host) \in [1..Len(host) -> Codes]
    BY <1>1, <1>2
  <1>4. Len(host) \in Nat
    BY HostFacts
  <1>5. Texts(host) \in Seq(Codes) /\ Len(Texts(host)) = Len(host)
    BY <1>3, <1>4, IsSequence
  <1> QED BY <1>1, <1>5

\* The reference compares what is left of a host after n labels.
LEMMA SameTexts ==
  ASSUME NEW host \in Hosts, NEW other \in Hosts, NEW n \in 0 .. (Len(host) - 1)
  PROVE  (SubSeq(Texts(host), n + 1, Len(host)) = Texts(other)) <=> Same(host, other, n)
  <1>a. PICK l, m : l = Len(host) /\ m = Len(other)
    OBVIOUS
  <1>1. l \in Nat /\ m \in Nat /\ n \in 0 .. (l - 1) /\ n \in Nat /\ l - n \in Nat
    BY <1>a, HostFacts
  <1>b. PICK t, u, v : t = Texts(host) /\ u = Texts(other) /\ v = SubSeq(Texts(host), n + 1, Len(host))
    OBVIOUS
  <1>2. /\ t \in Seq(Codes) /\ Len(t) = l
        /\ u \in Seq(Codes) /\ Len(u) = m
    BY <1>a, <1>b, TextsFacts
  <1>3. v = SubSeq(t, n + 1, l)
    BY <1>a, <1>b
  <1>4. v \in Seq(Codes) /\ Len(v) = l - n /\ \A k \in 1 .. (l - n) : v[k] = t[n + k]
    BY <1>1, <1>2, <1>3
  <1>c. (v = u) <=> (Len(v) = Len(u) /\ \A k \in 1..Len(u) : v[k] = u[k])
    BY <1>2, <1>4, SameSequence
  <1>5. (v = u) <=> (l - n = m /\ \A k \in 1..m : v[k] = u[k])
    BY <1>2, <1>4, <1>c
  <1>6. ASSUME l - n = m, NEW k \in 1..m
        PROVE  (v[k] = u[k]) <=> (Low(host[n + k]) = Low(other[k]))
    <2>1. v[k] = t[n + k] /\ n + k \in 1..l
      BY <1>1, <1>4, <1>6
    <2>2. host[n + k] \in Labels /\ other[k] \in Labels
      BY <1>a, <2>1, HostFacts
    <2>3. t[n + k] = <<host[n + k].kind, host[n + k].text, host[n + k].digits>>
      BY <1>a, <1>b, <2>1, TextsFacts
    <2>4. u[k] = <<other[k].kind, other[k].text, other[k].digits>>
      BY <1>a, <1>b, TextsFacts
    <2>5. Low(host[n + k]) = Low(other[k])
            <=> <<host[n + k].kind, host[n + k].text, host[n + k].digits>> = <<other[k].kind, other[k].text, other[k].digits>>
      BY <2>2, LabelFacts
    <2> QED BY <2>1, <2>3, <2>4, <2>5
  <1>7. (v = u) <=> (l - n = m /\ \A k \in 1..m : Low(host[n + k]) = Low(other[k]))
    BY <1>5, <1>6
  <1>8. l = n + m <=> l - n = m
    BY <1>1
  <1> QED BY <1>a, <1>b, <1>7, <1>8 DEF Same

\* The comparison of the whole host in lower case.
LEMMA SameLower ==
  ASSUME NEW host \in Hosts, NEW other \in Hosts
  PROVE  (to_ascii_lowercase(host) = to_ascii_lowercase(other)) <=> Same(host, other, 0)
  <1>a. PICK l, m : l = Len(host) /\ m = Len(other)
    OBVIOUS
  <1>b. PICK t, u : t = to_ascii_lowercase(host) /\ u = to_ascii_lowercase(other)
    OBVIOUS
  <1>1. l \in Nat /\ m \in Nat
    BY <1>a, HostFacts
  <1>2. /\ t \in Seq(Labels) /\ Len(t) = l /\ t = [k \in 1..l |-> Low(host[k])]
        /\ u \in Seq(Labels) /\ Len(u) = m /\ u = [k \in 1..m |-> Low(other[k])]
    BY <1>a, <1>b, LowerFacts
  <1>3. (t = u) <=> (l = m /\ \A k \in 1..m : t[k] = u[k])
    BY <1>1, <1>2
  <1>4. ASSUME l = m, NEW k \in 1..m
        PROVE  (t[k] = u[k]) <=> (Low(host[0 + k]) = Low(other[k]))
    <2>1. t[k] = Low(host[k]) /\ u[k] = Low(other[k]) /\ 0 + k = k
      BY <1>1, <1>2, <1>4
    <2> QED BY <2>1
  <1>5. l = 0 + m <=> l = m
    BY <1>1
  <1>6. (t = u) <=> (l = m /\ \A k \in 1..m : Low(host[0 + k]) = Low(other[k]))
    BY <1>3, <1>4
  <1> QED BY <1>a, <1>b, <1>5, <1>6 DEF Same

\* The comparison of its suffixes.
LEMMA SameSuffix ==
  ASSUME NEW host \in Hosts, NEW other \in Hosts
  PROVE  IsSuffix(to_ascii_lowercase(other), to_ascii_lowercase(host)) <=>
           \E n \in 0 .. (Len(host) - 1) : Same(host, other, n)
  <1>a. PICK l, m : l = Len(host) /\ m = Len(other)
    OBVIOUS
  <1>b. PICK t, u : t = to_ascii_lowercase(host) /\ u = to_ascii_lowercase(other)
    OBVIOUS
  <1>1. l \in Nat /\ m \in Nat /\ m > 0
    BY <1>a, HostFacts
  <1>2. /\ t \in Seq(Labels) /\ Len(t) = l /\ t = [k \in 1..l |-> Low(host[k])]
        /\ u \in Seq(Labels) /\ Len(u) = m /\ u = [k \in 1..m |-> Low(other[k])]
    BY <1>a, <1>b, LowerFacts
  <1>3. IsSuffix(u, t) <=> Len(u) <= Len(t) /\ \A k \in 1..Len(u) : u[k] = t[(Len(t) - Len(u)) + k]
    BY <1>2, SuffixFacts
  <1>4. IsSuffix(u, t) <=> m <= l /\ \A k \in 1..m : u[k] = t[(l - m) + k]
    BY <1>2, <1>3
  <1>5. ASSUME m <= l, NEW k \in 1..m
        PROVE  (u[k] = t[(l - m) + k]) <=> (Low(host[(l - m) + k]) = Low(other[k]))
    <2>1. (l - m) + k \in 1..l
      BY <1>1, <1>5
    <2>2. u[k] = Low(other[k]) /\ t[(l - m) + k] = Low(host[(l - m) + k])
      BY <1>2, <2>1
    <2> QED BY <2>2
  <1>6. IsSuffix(u, t) <=> (m <= l /\ \A k \in 1..m : Low(host[(l - m) + k]) = Low(other[k]))
    BY <1>4, <1>5
  <1>7. ASSUME m <= l
        PROVE  Same(host, other, l - m) <=> \A k \in 1..m : Low(host[(l - m) + k]) = Low(other[k])
    <2>1. l = (l - m) + m
      BY <1>1
    <2> QED BY <1>a, <2>1 DEF Same
  <1>8. ASSUME m <= l PROVE l - m \in 0 .. (l - 1)
    BY <1>1, <1>8
  <1>9. ASSUME NEW n \in 0 .. (l - 1), Same(host, other, n) PROVE m <= l /\ n = l - m
    <2>1. l = n + m
      BY <1>a, <1>9 DEF Same
    <2> QED BY <1>1, <2>1
  <1>10. ASSUME IsSuffix(u, t) PROVE \E n \in 0 .. (l - 1) : Same(host, other, n)
    BY <1>6, <1>7, <1>8, <1>10
  <1>11. ASSUME \E n \in 0 .. (l - 1) : Same(host, other, n) PROVE IsSuffix(u, t)
    <2>1. PICK n \in 0 .. (l - 1) : Same(host, other, n)
      BY <1>11
    <2>2. m <= l /\ n = l - m
      BY <1>9, <2>1
    <2>3. Same(host, other, l - m)
      BY <2>1, <2>2
    <2> QED BY <1>6, <1>7, <2>2, <2>3
  <1> QED BY <1>a, <1>b, <1>10, <1>11

\* The comparisons of origin_allowed and the covering of the reference.
LEMMA OriginAllowedIsCovered ==
  ASSUME NEW host \in Hosts, NEW list \in Seq(Entries)
  PROVE  origin_allowed(host, list) <=> \E i \in DOMAIN list : Covers(list[i], host)
  <1>1. ASSUME NEW e \in Entries
        PROVE  (\/ to_ascii_lowercase(host) = to_ascii_lowercase(e.host)
                \/ e.wild /\ IsSuffix(to_ascii_lowercase(e.host), to_ascii_lowercase(host)))
               <=> Covers(e, host)
    <2>1. e.host \in Hosts /\ e.wild \in BOOLEAN
      BY DEF Entries
    <2>2. Len(host) \in Nat /\ Len(host) > 0
      BY HostFacts
    <2>3. 0 \in 0 .. (Len(host) - 1)
      BY <2>2
    <2>4. \A n \in 0 .. (Len(host) - 1) :
            (SubSeq(Texts(host), n + 1, Len(host)) = Texts(e.host)) <=> Same(host, e.host, n)
      BY <2>1, SameTexts
    <2>5. (to_ascii_lowercase(host) = to_ascii_lowercase(e.host)) <=> Same(host, e.host, 0)
      BY <2>1, SameLower
    <2>6. IsSuffix(to_ascii_lowercase(e.host), to_ascii_lowercase(host)) <=>
            \E n \in 0 .. (Len(host) - 1) : Same(host, e.host, n)
      BY <2>1, SameSuffix
    <2>7. CASE e.wild
      <3>1. Covers(e, host) <=> \E n \in 0 .. (Len(host) - 1) : Same(host, e.host, n)
        BY <2>4, <2>7 DEF Covers
      <3> QED BY <2>3, <2>5, <2>6, <2>7, <3>1
    <2>8. CASE ~e.wild
      <3>1. Covers(e, host) <=> \E n \in 0 .. 0 : SubSeq(Texts(host), n + 1, Len(host)) = Texts(e.host)
        BY <2>8 DEF Covers
      <3>2. \A n \in 0 .. 0 : n = 0
        OBVIOUS
      <3>3. 0 \in 0 .. 0
        OBVIOUS
      <3>4. Covers(e, host) <=> Same(host, e.host, 0)
        BY <2>3, <2>4, <3>1, <3>2, <3>3
      <3> QED BY <2>5, <2>8, <3>4
    <2> QED BY <2>7, <2>8
  <1>2. \A i \in DOMAIN list : list[i] \in Entries
    OBVIOUS
  <1> QED BY <1>1, <1>2 DEF origin_allowed

\* The tests on the octets are those on the documented prefixes.
LEMMA BlockedV4IsDocumented ==
  ASSUME NEW v4, v4[1] \in 0..255, v4[2] \in 0..255
  PROVE  is_blocked_v4(v4) <=> DocumentedV4(v4)
  <1>1. PICK a, b : a = v4[1] /\ b = v4[2]
    OBVIOUS
  <1>2. a \in 0..255 /\ b \in 0..255
    BY <1>1
  <1>3. (\E k \in BlocksV4 : Under(a * 256 + b, k[1] * 256 + k[2], k[3])) <=>
          \/ Under(a * 256 + b, 0, 256) \/ Under(a * 256 + b, 2560, 256)
          \/ Under(a * 256 + b, 25664, 64) \/ Under(a * 256 + b, 32512, 256)
          \/ Under(a * 256 + b, 43518, 1) \/ Under(a * 256 + b, 44048, 16)
          \/ Under(a * 256 + b, 49320, 1) \/ Under(a * 256 + b, 57344, 4096)
    <2>1. 0 * 256 + 0 = 0 /\ 10 * 256 + 0 = 2560 /\ 100 * 256 + 64 = 25664 /\ 127 * 256 + 0 = 32512
          /\ 169 * 256 + 254 = 43518 /\ 172 * 256 + 16 = 44048 /\ 192 * 256 + 168 = 49320
          /\ 224 * 256 + 0 = 57344
      OBVIOUS
    <2>2. (\E k \in BlocksV4 : Under(a * 256 + b, k[1] * 256 + k[2], k[3])) <=>
          \/ Under(a * 256 + b, 0 * 256 + 0, 256) \/ Under(a * 256 + b, 10 * 256 + 0, 256)
          \/ Under(a * 256 + b, 100 * 256 + 64, 64) \/ Under(a * 256 + b, 127 * 256 + 0, 256)
          \/ Under(a * 256 + b, 169 * 256 + 254, 1) \/ Under(a * 256 + b, 172 * 256 + 16, 16)
          \/ Under(a * 256 + b, 192 * 256 + 168, 1) \/ Under(a * 256 + b, 224 * 256 + 0, 4096)
      BY DEF BlocksV4
    <2> QED BY <2>1, <2>2
  <1>4. Under(a * 256 + b, 0, 256) <=> a = 0
    BY <1>2 DEF Under
  <1>5. Under(a * 256 + b, 2560, 256) <=> a = 10
    BY <1>2 DEF Under
  <1>6. Under(a * 256 + b, 25664, 64) <=> a = 100 /\ b \in 64..127
    BY <1>2 DEF Under
  <1>7. Under(a * 256 + b, 32512, 256) <=> a = 127
    BY <1>2 DEF Under
  <1>8. Under(a * 256 + b, 43518, 1) <=> a = 169 /\ b = 254
    BY <1>2 DEF Under
  <1>9. Under(a * 256 + b, 44048, 16) <=> a = 172 /\ b \in 16..31
    BY <1>2 DEF Under
  <1>10. Under(a * 256 + b, 49320, 1) <=> a = 192 /\ b = 168
    BY <1>2 DEF Under
  <1>11. Under(a * 256 + b, 57344, 4096) <=> a \in 224..239
    BY <1>2 DEF Under
  <1>12. DocumentedV4(v4) <=>
           \/ a = 0 \/ a = 10 \/ (a = 100 /\ b \in 64..127) \/ a = 127 \/ (a = 169 /\ b = 254)
           \/ (a = 172 /\ b \in 16..31) \/ (a = 192 /\ b = 168) \/ a \in 224..239
           \/ v4 = <<255, 255, 255, 255>>
    BY <1>1, <1>3, <1>4, <1>5, <1>6, <1>7, <1>8, <1>9, <1>10, <1>11 DEF DocumentedV4
  <1>13. is_blocked_v4(v4) <=>
           \/ a = 0 \/ a = 10 \/ (a = 100 /\ b \in 64..127) \/ a = 127 \/ (a = 169 /\ b = 254)
           \/ (a = 172 /\ b \in 16..31) \/ (a = 192 /\ b = 168) \/ a \in 224..239
           \/ v4 = <<255, 255, 255, 255>>
    BY <1>1 DEF is_blocked_v4
  <1> QED BY <1>12, <1>13

\* The tests on the segments are those on the documented prefixes.
LEMMA BlockedV6IsDocumented ==
  ASSUME NEW v6 \in [1..8 -> Word]
  PROVE  is_blocked_v6(v6) <=> DocumentedV6(v6)
  <1> DEFINE m == Zeros(v6, 5) /\ v6[6] = 65535
             edge == Zeros(v6, 7) /\ v6[8] \in {0, 1}
             embedded == is_blocked_v4(Embedded(v6))
  <1>1. PICK s : s = v6[1]
    OBVIOUS
  <1>2. v6[1] \in Word /\ v6[7] \in Word /\ v6[8] \in Word
    OBVIOUS
  <1>3. (\E b \in BlocksV6 : Under(s, b[1], b[2])) <=>
          s \div 512 = 126 \/ s \div 64 = 1018 \/ s \div 256 = 255
    <2>1. (\E b \in BlocksV6 : Under(s, b[1], b[2])) <=>
            Under(s, 64512, 512) \/ Under(s, 65152, 64) \/ Under(s, 65280, 256)
      BY DEF BlocksV6
    <2>2. s \in Nat /\ s < 65536
      BY <1>1, <1>2, WordFacts
    <2>3. /\ Under(s, 64512, 512) <=> s \div 512 = 126
          /\ Under(s, 65152, 64) <=> s \div 64 = 1018
          /\ Under(s, 65280, 256) <=> s \div 256 = 255
      BY <2>2 DEF Under
    <2> QED BY <2>1, <2>3
  <1>4. embedded <=> DocumentedV4(Embedded(v6))
    <2>1. PICK x, y : x = v6[7] /\ y = v6[8]
      OBVIOUS
    <2>2. x \in Nat /\ x < 65536
      BY <1>2, <2>1, WordFacts
    <2>3. x \div 256 \in 0..255 /\ x % 256 \in 0..255
      BY <2>2
    <2>4. Embedded(v6)[1] = x \div 256 /\ Embedded(v6)[2] = x % 256
      BY <2>1 DEF Embedded
    <2> QED BY <2>3, <2>4, BlockedV4IsDocumented
  <1>5. m => s \div 512 # 126 /\ s \div 64 # 1018 /\ s \div 256 # 255
    <2>1. m => s = 0
      BY <1>1 DEF Zeros
    <2> QED BY <2>1
  <1>6. is_blocked_v6(v6) <=>
          \/ edge
          \/ s \div 256 = 255
          \/ m /\ embedded
          \/ ~m /\ (s \div 512 = 126 \/ s \div 64 = 1018)
    BY <1>1, SMT DEF is_blocked_v6, Zeros, Embedded
  <1>7. DocumentedV6(v6) <=>
          \/ edge
          \/ s \div 512 = 126 \/ s \div 64 = 1018 \/ s \div 256 = 255
          \/ m /\ DocumentedV4(Embedded(v6))
    BY <1>1, <1>3, SMT DEF DocumentedV6
  <1> HIDE DEF m, edge, embedded
  <1> QED BY <1>4, <1>5, <1>6, <1>7

\* Eight words.
LEMMA EightWords ==
  ASSUME NEW a \in Word, NEW b \in Word, NEW c \in Word, NEW d \in Word,
         NEW e \in Word, NEW f \in Word, NEW g \in Word, NEW h \in Word
  PROVE  <<a, b, c, d, e, f, g, h>> \in [1..8 -> Word]
  OBVIOUS

\* The address tests, as the run evaluates them.
LEMMA BlockedAsDocumented == BlockedIsTheDocumentedBlocks
  <1>1. ASSUME NEW a \in 0..255, NEW b \in 0..255, NEW c \in {0, 255}, NEW d \in {0, 255}
        PROVE  is_blocked_v4(<<a, b, c, d>>) <=> DocumentedV4(<<a, b, c, d>>)
    <2>1. <<a, b, c, d>>[1] \in 0..255 /\ <<a, b, c, d>>[2] \in 0..255
      OBVIOUS
    <2> QED BY <2>1, BlockedV4IsDocumented
  <1>2. ASSUME NEW a \in {0, 9, 10, 100, 127, 172, 192, 223, 224, 255},
               NEW b \in {0, 15, 16, 63, 64, 168, 255}
        PROVE  is_blocked_v6(Mapped(a, b, 0, 1)) <=> DocumentedV6(Mapped(a, b, 0, 1))
    <2>1. a * 256 + b \in Word /\ 0 * 256 + 1 \in Word /\ 0 \in Word /\ 65535 \in Word
      BY WordFacts
    <2>2. Mapped(a, b, 0, 1) \in [1..8 -> Word]
      BY <2>1, EightWords, SMT DEF Mapped
    <2> QED BY <2>2, BlockedV6IsDocumented
  <1>3. ASSUME NEW s \in Word PROVE is_blocked_v6(Segments(s)) <=> DocumentedV6(Segments(s))
    <2>1. 0 \in Word /\ 2 \in Word
      BY WordFacts
    <2>2. Segments(s) \in [1..8 -> Word]
      BY <2>1, EightWords, Zenon DEF Segments
    <2> QED BY <2>2, BlockedV6IsDocumented
  <1>4. ASSUME NEW d \in {0, 1} PROVE is_blocked_v6(<<0, 0, 0, 0, 0, 0, 0, d>>)
    <2>a. PICK v6 : v6 = <<0, 0, 0, 0, 0, 0, 0, d>>
      OBVIOUS
    <2>1. (\A i \in 1..7 : v6[i] = 0) /\ v6[8] \in {0, 1}
      BY <2>a
    <2>2. is_blocked_v6(v6)
      BY <2>1 DEF is_blocked_v6
    <2> QED BY <2>a, <2>2
  <1>5. is_blocked_v6([Loopback6 EXCEPT ![8] = 0]) /\ is_blocked_v6(Loopback6)
    <2>1. [Loopback6 EXCEPT ![8] = 0] = <<0, 0, 0, 0, 0, 0, 0, 0>>
      BY DEF Loopback6
    <2>2. is_blocked_v6(<<0, 0, 0, 0, 0, 0, 0, 0>>) /\ is_blocked_v6(<<0, 0, 0, 0, 0, 0, 0, 1>>)
      BY <1>4, Zenon
    <2> QED BY <2>1, <2>2, Zenon DEF Loopback6
  <1>6. \A a, b \in 0..255 : \A c, d \in {0, 255} :
          is_blocked_v4(<<a, b, c, d>>) <=> DocumentedV4(<<a, b, c, d>>)
    BY <1>1
  <1>7. \A a \in {0, 9, 10, 100, 127, 172, 192, 223, 224, 255}, b \in {0, 15, 16, 63, 64, 168, 255} :
          is_blocked_v6(Mapped(a, b, 0, 1)) <=> DocumentedV6(Mapped(a, b, 0, 1))
    BY <1>2
  <1>8. \A s \in Word : is_blocked_v6(Segments(s)) <=> DocumentedV6(Segments(s))
    BY <1>3, Zenon
  <1> QED BY <1>5, <1>6, <1>7, <1>8, Zenon DEF BlockedIsTheDocumentedBlocks

\* The last label is localhost in any spelling.
LEMMA LocalhostIsItsText ==
  ASSUME NEW host \in Hosts
  PROVE  (to_ascii_lowercase(host) # <<>> /\ Last(to_ascii_lowercase(host)) = localhost)
           <=> host[Len(host)].text = "localhost"
  <1>1. PICK t : t = to_ascii_lowercase(host)
    OBVIOUS
  <1>2. t = [i \in 1..Len(host) |-> Low(host[i])] /\ t \in Seq(Labels) /\ Len(t) = Len(host)
    BY <1>1, LowerFacts
  <1>3. Len(host) \in Nat /\ Len(host) # 0 /\ Len(host) \in 1..Len(host)
    BY HostFacts
  <1>4. t # <<>>
    BY <1>2, <1>3
  <1>5. Last(t) = Low(host[Len(host)])
    BY <1>2, <1>3 DEF Last
  <1>6. host[Len(host)] \in Labels
    BY <1>3, HostFacts
  <1>7. ASSUME NEW l \in Labels PROVE Low(l) = localhost <=> l.text = "localhost"
    <2>1. (l.kind # "name" => l.text = "") /\ (l.kind = "name" => l.digits = <<>>)
      BY LabelFacts
    <2>2. l.text = "localhost" => l.kind = "name" /\ l.digits = <<>>
      BY <2>1
    <2> QED BY <2>2 DEF Low, localhost, Name, Label
  <1> QED BY <1>1, <1>4, <1>5, <1>6, <1>7

\* The address a host parses to is blocked exactly when the host is a literal in
\* the documented blocks and not in brackets.
LEMMA BlockedLiterals ==
  ASSUME NEW host \in Hosts
  PROVE  is_blocked_address(parse(host)) <=> DocumentedLiteral(host) /\ ~InBrackets(host)
  <1>1. \A i \in 1..Len(host) : host[i] \in Labels
    BY HostFacts
  <1>2. CASE Len(host) = 4 /\ \A i \in 1..4 : host[i].kind = "octet"
    <2>1. PICK v4 : v4 = [i \in 1..4 |-> host[i].digits[1]]
      OBVIOUS
    <2>2. parse(host) = [version |-> 4, digits |-> v4]
      BY <1>2, <2>1 DEF parse
    <2>3. v4[1] = host[1].digits[1] /\ v4[2] = host[2].digits[1]
      BY <2>1
    <2>4. v4[1] \in 0..255 /\ v4[2] \in 0..255
      <3>1. \A i \in 1..4 : host[i] \in Labels
        BY <1>1, <1>2
      <3>2. \A l \in Labels : l.kind = "octet" => l.digits[1] \in 0..255
        BY LabelFacts, Zenon
      <3>3. host[1].digits[1] \in 0..255 /\ host[2].digits[1] \in 0..255
        BY <1>2, <3>1, <3>2
      <3> QED BY <2>3, <3>3
    <2>5. is_blocked_v4(v4) <=> DocumentedV4(v4)
      BY <2>4, BlockedV4IsDocumented
    <2>6. is_blocked_address(parse(host)) <=> is_blocked_v4(v4)
      BY <2>2 DEF is_blocked_address
    <2>7. (DocumentedLiteral(host) <=> DocumentedV4(v4)) /\ ~InBrackets(host)
      BY <1>2, <2>1 DEF DocumentedLiteral, InBrackets
    <2> QED BY <2>5, <2>6, <2>7
  <1>3. CASE Len(host) = 1 /\ host[1].kind = "v6"
    <2>1. PICK v6 : v6 = host[1].digits
      OBVIOUS
    <2>2. parse(host) = [version |-> 6, digits |-> v6]
      BY <1>3, <2>1 DEF parse
    <2>3. v6 \in [1..8 -> Word]
      <3>1. \A l \in Labels : l.kind \in {"v6", "[v6]"} => l.digits \in [1..8 -> Word]
        BY LabelFacts, Zenon
      <3>2. host[1] \in Labels /\ host[1].kind \in {"v6", "[v6]"}
        BY <1>1, <1>3
      <3> QED BY <2>1, <3>1, <3>2, Zenon
    <2>4. is_blocked_v6(v6) <=> DocumentedV6(v6)
      BY <2>3, BlockedV6IsDocumented
    <2>5. is_blocked_address(parse(host)) <=> is_blocked_v6(v6)
      BY <2>2 DEF is_blocked_address
    <2>6. (DocumentedLiteral(host) <=> DocumentedV6(v6)) /\ ~InBrackets(host)
      BY <1>3, <2>1 DEF DocumentedLiteral, InBrackets
    <2> QED BY <2>4, <2>5, <2>6
  <1>4. CASE /\ ~(Len(host) = 4 /\ \A i \in 1..4 : host[i].kind = "octet")
             /\ ~(Len(host) = 1 /\ host[1].kind = "v6")
    <2>1. parse(host) = NotAnIp
      BY <1>4 DEF parse
    <2>2. ~is_blocked_address(parse(host))
      BY <2>1 DEF is_blocked_address, NotAnIp
    <2>3. DocumentedLiteral(host) => InBrackets(host)
      BY <1>4 DEF DocumentedLiteral, InBrackets
    <2> QED BY <2>2, <2>3
  <1> QED BY <1>2, <1>3, <1>4

\* fetch_gate.rs, for every host and every allowlist, lets a request leave exactly
\* when it is https, some entry covers the host, whatever its spelling, and the
\* host is neither localhost nor an IPv4 or IPv6 literal in the blocks its
\* documentation names; but of an IPv6 literal that comes in brackets, as a URI
\* has it, it decides the scheme and the allowlist alone.
THEOREM GateIsTheDocumentedOne ==
  ASSUME NEW https \in BOOLEAN, NEW host \in Hosts, NEW list \in Seq(Entries)
  PROVE  (check_request(https, host, list) = "Ok") <=> Lets(https, host, list)
  <1> DEFINE last == to_ascii_lowercase(host) # <<>> /\ Last(to_ascii_lowercase(host)) = localhost
             blocked == is_blocked_address(parse(host))
  <1>1. (check_request(https, host, list) = "Ok") <=>
          https /\ origin_allowed(host, list) /\ ~last /\ ~blocked
    <2>1. CASE ~https
      <3>1. check_request(https, host, list) = "SchemeBlocked"
        BY <2>1 DEF check_request
      <3> QED BY <2>1, <3>1
    <2>2. CASE https /\ ~origin_allowed(host, list)
      <3>1. check_request(https, host, list) = "OriginBlocked"
        BY <2>2 DEF check_request
      <3> QED BY <2>2, <3>1
    <2>3. CASE https /\ origin_allowed(host, list)
      <3>1. check_request(https, host, list) = IF last \/ blocked THEN "AddressBlocked" ELSE "Ok"
        BY <2>3 DEF check_request
      <3> QED BY <2>3, <3>1
    <2> QED BY <2>1, <2>2, <2>3
  <1>2. Permitted(https, host, list) <=> https /\ origin_allowed(host, list)
    BY OriginAllowedIsCovered DEF Permitted
  <1>3. last <=> host[Len(host)].text = "localhost"
    BY LocalhostIsItsText
  <1>4. blocked <=> DocumentedLiteral(host) /\ ~InBrackets(host)
    BY BlockedLiterals
  <1>5. InBrackets(host) => host[Len(host)].text # "localhost"
    <2>1. ASSUME InBrackets(host) PROVE host[Len(host)].text # "localhost"
      <3>1. Len(host) = 1 /\ host[1].kind = "[v6]" /\ host[1] \in Labels
        BY <2>1, HostFacts DEF InBrackets
      <3>2. host[1].text = ""
        BY <3>1, LabelFacts
      <3> QED BY <3>1, <3>2
    <2> QED BY <2>1
  <1> HIDE DEF last, blocked
  <1> QED BY <1>1, <1>2, <1>3, <1>4, <1>5 DEF Lets, MayLeave

\* The hosts and entries that the run evaluates are hosts and entries.
LEMMA SamplesAreHosts ==
  /\ \A host \in SampleHosts : host \in Hosts
  /\ \A e \in SampleEntries : e \in Entries
  <1>1. ASSUME NEW t \in LabelTexts PROVE Name(t) \in Labels
    BY DEF Labels, Name, Label
  <1>2. ASSUME NEW n \in 0..255 PROVE Octet(n) \in Labels
    <2>1. <<n>> \in [1..1 -> 0..255]
      OBVIOUS
    <2> QED BY <2>1 DEF Labels, Octet, Label
  <1>3. ASSUME NEW v6 \in [1..8 -> Word] PROVE Literal6(v6) \in Labels /\ Bracketed(v6) \in Labels
    BY DEF Labels, Literal6, Bracketed, Label
  <1>4. ASSUME NEW k, NEW t, NEW d
        PROVE  Loud(Label(k, t, d)) = [kind |-> k, text |-> t, digits |-> d, upper |-> TRUE]
    <2>1. PICK l : l = Label(k, t, d)
      OBVIOUS
    <2>2. /\ l = [kind |-> l.kind, text |-> l.text, digits |-> l.digits, upper |-> l.upper]
          /\ l.kind = k /\ l.text = t /\ l.digits = d
      BY <2>1 DEF Label
    <2>3. Loud(l) = [kind |-> l.kind, text |-> l.text, digits |-> l.digits, upper |-> TRUE]
      BY <2>2, Rewritten, Zenon DEF Loud
    <2> QED BY <2>1, <2>2, <2>3, Zenon
  <1>5. ASSUME NEW t \in LabelTexts PROVE Loud(Name(t)) \in Labels
    <2>1. Loud(Name(t)) = [kind |-> "name", text |-> t, digits |-> <<>>, upper |-> TRUE]
      BY <1>4, Zenon DEF Name
    <2> QED BY <2>1 DEF Labels
  <1>6. ASSUME NEW v6 \in [1..8 -> Word] PROVE Loud(Literal6(v6)) \in Labels
    <2>1. Loud(Literal6(v6)) = [kind |-> "v6", text |-> "", digits |-> v6, upper |-> TRUE]
      BY <1>4, Zenon DEF Literal6
    <2>2. [kind |-> "v6", text |-> "", digits |-> v6, upper |-> TRUE]
            \in [kind : {"v6", "[v6]"}, text : {""}, digits : [1..8 -> Word], upper : BOOLEAN]
      OBVIOUS
    <2> QED BY <2>1, <2>2, Zenon DEF Labels
  <1>7. /\ Name("api") \in Labels /\ Name("example") \in Labels /\ Loud(Name("example")) \in Labels
        /\ Octet(10) \in Labels /\ Octet(8) \in Labels /\ localhost \in Labels
    <2>1. "api" \in LabelTexts /\ "example" \in LabelTexts /\ "localhost" \in LabelTexts
      BY LabelTextsAssumption
    <2>2. 10 \in 0..255 /\ 8 \in 0..255
      OBVIOUS
    <2>3. Name("api") \in Labels /\ Name("example") \in Labels /\ localhost \in Labels
      BY <1>1, <2>1, Zenon DEF localhost
    <2>4. Loud(Name("example")) \in Labels
      BY <1>5, <2>1, Zenon
    <2>5. Octet(10) \in Labels /\ Octet(8) \in Labels
      BY <1>2, <2>2, Zenon
    <2> QED BY <2>3, <2>4, <2>5
  <1>8. \A l \in SampleLabels : l \in Labels
    BY <1>7 DEF SampleLabels
  <1>9. ASSUME NEW n \in Nat \ {0}, NEW host \in [1..n -> Labels] PROVE host \in Hosts
    <2>1. host \in Seq(Labels) /\ Len(host) = n
      BY IsSequence
    <2>2. host # <<>>
      BY <2>1
    <2> QED BY <2>1, <2>2 DEF Hosts
  <1>10. ASSUME NEW l \in Labels PROVE <<l>> \in Hosts
    <2>1. <<l>> \in Seq(Labels) /\ <<l>> # <<>>
      OBVIOUS
    <2> QED BY <2>1 DEF Hosts
  <1>11. ASSUME NEW l \in SampleLiterals PROVE l \in Labels
    <2>1. 0 \in Word /\ 1 \in Word /\ 2 \in Word
      BY WordFacts
    <2>2. Loopback6 \in [1..8 -> Word]
      BY <2>1, EightWords, Zenon DEF Loopback6
    <2>3. \A s \in Word : Segments(s) \in [1..8 -> Word]
      BY <2>1, EightWords, Zenon DEF Segments
    <2>4. /\ Literal6(Loopback6) \in Labels /\ Bracketed(Loopback6) \in Labels
          /\ \A s \in Word : /\ Literal6(Segments(s)) \in Labels /\ Bracketed(Segments(s)) \in Labels
                             /\ Loud(Literal6(Segments(s))) \in Labels
      BY <1>3, <1>6, <2>2, <2>3, Zenon
    <2>5. 8193 \in Word /\ 64512 \in Word
      BY WordFacts
    <2> QED BY <2>4, <2>5, SMT DEF SampleLiterals
  <1>12. ASSUME NEW host \in SampleHosts PROVE host \in Hosts
    <2>1. CASE \E n \in 1..4 : host \in [1..n -> SampleLabels]
      <3>1. PICK n \in 1..4 : host \in [1..n -> SampleLabels]
        BY <2>1
      <3>2. n \in Nat \ {0} /\ host \in [1..n -> Labels]
        BY <1>8, <3>1
      <3> QED BY <1>9, <3>2
    <2>2. CASE \E l \in SampleLiterals : host = <<l>>
      BY <1>10, <1>11, <2>2
    <2> QED BY <2>1, <2>2 DEF SampleHosts
  <1>13. <<Octet(10), Octet(8), Octet(8), Octet(8)>> \in Hosts
    <2>1. PICK k, l \in Labels : k = Octet(10) /\ l = Octet(8)
      BY <1>7
    <2>2. <<k, l, l, l>> \in Seq(Labels) /\ <<k, l, l, l>> # <<>>
      OBVIOUS
    <2> QED BY <2>1, <2>2 DEF Hosts
  <1>14. ASSUME NEW host \in Hosts PROVE Exact(host) \in Entries /\ Below(host) \in Entries
    BY DEF Exact, Below, Entries
  <1>15. /\ Exact(<<Name("example")>>) \in Entries
         /\ Exact(<<Octet(10), Octet(8), Octet(8), Octet(8)>>) \in Entries
         /\ Below(<<Loud(Name("example"))>>) \in Entries
         /\ Below(<<Octet(8)>>) \in Entries /\ Below(<<localhost>>) \in Entries
    BY <1>7, <1>10, <1>13, <1>14
  <1>16. \A l \in SampleLiterals : Exact(<<l>>) \in Entries
    BY <1>10, <1>14, <1>11
  <1>17. \A e \in SampleEntries : e \in Entries
    BY <1>15, <1>16 DEF SampleEntries
  <1> QED BY <1>12, <1>17

\* The gate, as the run evaluates it.
LEMMA GateDecidesOnSamples == DecidesOnSamples
  <1>1. ASSUME NEW host \in SampleHosts, NEW e1 \in SampleEntries, NEW e2 \in SampleEntries,
               NEW https \in BOOLEAN, NEW list \in {<<>>, <<e1, e2>>}
        PROVE  (check_request(https, host, list) = "Ok") <=> Lets(https, host, list)
    <2>1. host \in Hosts /\ e1 \in Entries /\ e2 \in Entries
      BY SamplesAreHosts
    <2>2. <<>> \in Seq(Entries) /\ <<e1, e2>> \in Seq(Entries)
      BY <2>1
    <2>3. list \in Seq(Entries)
      BY <2>2
    <2> QED BY <2>1, <2>3, GateIsTheDocumentedOne
  <1> QED BY <1>1, BlockedAsDocumented DEF DecidesOnSamples

\* What the gate makes of a request under an allowlist.
Permits(list, r) ==
  /\ check_request(r.https, r.host, list) = "Ok"
  /\ RESERVED_CREDENTIAL_HEADER \notin DOMAIN r.headers

\* A send has reached the sender exactly when the gate let it through, and then
\* carries the headers the policy keeps.
DecidedSend(list, s) ==
  s.sender # "none" =>
    /\ s.request \in Requests
    /\ Reached(s) <=> Permits(list, s.request)
    /\ Reached(s) => DOMAIN s.wire.headers = DOMAIN Retained(s.request) \cup {"host"}

DecidedInv ==
  /\ origins \in Seq(Entries)
  /\ \A f \in Futures : DecidedSend(origins, sends[f])

\* No send has been made.
LEMMA DecidedInit == Init => DecidedInv
  <1> SUFFICES ASSUME Init PROVE DecidedInv
    OBVIOUS
  <1>1. HttpInit
    BY DEF Init, GoGuestInit, TypedHostInit
  <1>2. origins \in Seq(Entries)
    BY <1>1, AllowlistsAssumption DEF HttpInit
  <1>3. ASSUME NEW f \in Futures PROVE DecidedSend(origins, sends[f])
    BY <1>1 DEF HttpInit, DecidedSend, Unused
  <1> QED BY <1>2, <1>3 DEF DecidedInv

\* A send is decided once, by the gate, and goes on with its request and its wire.
LEMMA DecidedStep ==
  ASSUME HttpInv, DecidedInv, HttpStep PROVE DecidedInv'
  <1>1. origins' = origins /\ DOMAIN sends = Futures
    BY DEF HttpStep, send_request, SenderResponds, BodyEnds, SenderFails, GuestDrops, HttpInv
  <1>2. PICK f \in Futures :
          \/ \E r \in Requests : send_request(f, r)
          \/ \E h \in UpHeads : SenderResponds(f, h) \/ BodyEnds(f, h)
          \/ \E e \in SendErrors : SenderFails(f, e)
          \/ GuestDrops(f)
    BY DEF HttpStep
  <1>3. PICK s : s = sends[f]
    OBVIOUS
  <1>4. DecidedSend(origins, s) /\ SendOK(s)
    BY <1>3 DEF DecidedInv, HttpInv
  <1>5. \E t : sends' = [sends EXCEPT ![f] = t] /\ DecidedSend(origins, t)
    <2>1. ASSUME NEW r \in Requests, send_request(f, r)
          PROVE  \E t : sends' = [sends EXCEPT ![f] = t] /\ DecidedSend(origins, t)
      <3>1. gate(r) <=> Permits(origins, r)
        BY DEF gate, Permits, is_reserved_credential_header
      <3>2. CASE gate(r)
        <4>1. PICK w : w = send_sanitized(r).wire
          OBVIOUS
        <4>2. PICK t : t = [Unused EXCEPT !.sender = "running", !.request = r, !.wire = w]
          OBVIOUS
        <4>3. sends' = [sends EXCEPT ![f] = t]
          BY <2>1, <3>2, <4>1, <4>2 DEF send_request
        <4>4. t.sender = "running" /\ t.request = r /\ t.wire = w
          BY <4>2 DEF Unused
        <4>5. DOMAIN w.headers = DOMAIN Retained(r) \cup {"host"}
          BY <4>1, WireFacts
        <4>6. Reached(t)
          BY <4>4 DEF Reached
        <4>7. DecidedSend(origins, t)
          BY <3>1, <3>2, <4>4, <4>5, <4>6 DEF DecidedSend
        <4> QED BY <4>3, <4>7
      <3>3. CASE ~gate(r)
        <4>1. PICK t : t = failed_send(r)
          OBVIOUS
        <4>2. sends' = [sends EXCEPT ![f] = t]
          BY <2>1, <3>3, <4>1 DEF send_request
        <4>3. t.sender = "skipped" /\ t.request = r
          BY <4>1 DEF failed_send, Unused
        <4>4. ~Reached(t)
          BY <4>3 DEF Reached
        <4>5. DecidedSend(origins, t)
          BY <3>1, <3>3, <4>3, <4>4 DEF DecidedSend
        <4> QED BY <4>2, <4>5
      <3> QED BY <3>2, <3>3
    <2>2. ASSUME NEW t, t.request = s.request, t.wire = s.wire, Reached(s), Reached(t)
          PROVE  DecidedSend(origins, t)
      BY <1>4, <2>2 DEF DecidedSend, Reached
    <2>3. ASSUME NEW h \in UpHeads, SenderResponds(f, h)
          PROVE  \E t : sends' = [sends EXCEPT ![f] = t] /\ DecidedSend(origins, t)
      <3>1. PICK x : x = Admitted(strip_response_headers(h))
        OBVIOUS
      <3>2. PICK t : t = [s EXCEPT !.sender = "streaming", !.head = h, !.seenHead = x]
        OBVIOUS
      <3>3. sends' = [sends EXCEPT ![f] = t]
        BY <1>1, <1>3, <2>3, <3>1, <3>2 DEF SenderResponds
      <3>4. t.request = s.request /\ t.wire = s.wire /\ t.sender = "streaming" /\ s.sender = "running"
        BY <1>3, <1>4, <2>3, <3>2 DEF SenderResponds, SendOK
      <3> QED BY <2>2, <3>3, <3>4 DEF Reached
    <2>4. ASSUME NEW h \in UpHeads, BodyEnds(f, h)
          PROVE  \E t : sends' = [sends EXCEPT ![f] = t] /\ DecidedSend(origins, t)
      <3>1. PICK x : x = Admitted(h)
        OBVIOUS
      <3>2. PICK t : t = [s EXCEPT !.sender = "done", !.trailers = h, !.seenTrailers = x]
        OBVIOUS
      <3>3. sends' = [sends EXCEPT ![f] = t]
        BY <1>1, <1>3, <2>4, <3>1, <3>2 DEF BodyEnds
      <3>4. t.request = s.request /\ t.wire = s.wire /\ t.sender = "done" /\ s.sender = "streaming"
        BY <1>3, <1>4, <2>4, <3>2 DEF BodyEnds, SendOK
      <3> QED BY <2>2, <3>3, <3>4 DEF Reached
    <2>5. ASSUME NEW e \in SendErrors, SenderFails(f, e)
          PROVE  \E t : sends' = [sends EXCEPT ![f] = t] /\ DecidedSend(origins, t)
      <3>1. PICK x : x = ErrorToP2(scrub_error(e))
        OBVIOUS
      <3>2. PICK t : t = [s EXCEPT !.sender = "done", !.raised = e, !.seenError = x]
        OBVIOUS
      <3>3. sends' = [sends EXCEPT ![f] = t]
        BY <1>1, <1>3, <2>5, <3>1, <3>2 DEF SenderFails
      <3>4. t.request = s.request /\ t.wire = s.wire /\ t.sender = "done"
            /\ s.sender \in {"running", "streaming"}
        BY <1>3, <1>4, <2>5, <3>2 DEF SenderFails, SendOK
      <3> QED BY <2>2, <3>3, <3>4 DEF Reached
    <2>6. CASE GuestDrops(f)
      <3>1. sends' = [sends EXCEPT ![f] = Unused]
        BY <2>6 DEF GuestDrops
      <3>2. DecidedSend(origins, Unused)
        BY DEF DecidedSend, Unused
      <3> QED BY <3>1, <3>2
    <2> QED BY <1>2, <2>1, <2>3, <2>4, <2>5, <2>6
  <1>6. PICK t : sends' = [sends EXCEPT ![f] = t] /\ DecidedSend(origins, t)
    BY <1>5
  <1>7. ASSUME NEW g \in Futures PROVE DecidedSend(origins, sends'[g])
    <2>1. CASE g = f
      BY <1>1, <1>6, <2>1
    <2>2. CASE g # f
      <3>1. sends'[g] = sends[g]
        BY <1>1, <1>6, <2>2
      <3> QED BY <3>1 DEF DecidedInv
    <2> QED BY <2>1, <2>2
  <1> QED BY <1>1, <1>7 DEF DecidedInv

\* Nothing else touches a send or the allowlist.
LEMMA DecidedNext == HttpInv /\ DecidedInv /\ [Next]_vars => DecidedInv'
  <1> SUFFICES ASSUME HttpInv, DecidedInv, [Next]_vars PROVE DecidedInv'
    OBVIOUS
  <1>1. CASE HttpStep
    BY <1>1, DecidedStep
  <1>2. CASE UNCHANGED httpVars
    BY <1>2 DEF httpVars, DecidedInv
  <1> QED BY <1>1, <1>2 DEF Next, vars

\* GatedHttpHooks: at every moment every send stands where the gate has put it.
THEOREM DecidedInvariance == Spec => [](HttpInv /\ DecidedInv)
  BY HttpInitInv, HttpNextInv, DecidedInit, DecidedNext, PTL DEF Spec

\* GatedHttpHooks::send_request: for every request, every allowlist and every way a
\* send goes on, it is at the sender exactly when the documented rule lets it leave,
\* or it is for an IPv6 literal in brackets, over https and covered by an entry, of
\* which the gate does not look at the address; without the credential handle in
\* both cases.
THEOREM OnlyWhatMayLeave == Spec => []GateDecides
  <1>1. ASSUME HttpInv, DecidedInv PROVE GateDecides
    <2>1. ASSUME NEW f \in Futures, sends[f].sender # "none"
          PROVE  Reached(sends[f]) <=>
                   /\ Lets(sends[f].request.https, sends[f].request.host, origins)
                   /\ RESERVED_CREDENTIAL_HEADER \notin DOMAIN sends[f].request.headers
      <3>1. PICK r : r = sends[f].request
        OBVIOUS
      <3>2. r \in Requests /\ (Reached(sends[f]) <=> Permits(origins, r)) /\ origins \in Seq(Entries)
        BY <1>1, <2>1, <3>1 DEF DecidedInv, DecidedSend
      <3>3. r.https \in BOOLEAN /\ r.host \in Hosts
        BY <3>2, RequestsAssumption
      <3>4. (check_request(r.https, r.host, origins) = "Ok") <=> Lets(r.https, r.host, origins)
        BY <3>2, <3>3, GateIsTheDocumentedOne
      <3> QED BY <3>1, <3>2, <3>4 DEF Permits
    <2> QED BY <2>1, GateDecidesOnSamples DEF GateDecides
  <1> QED BY <1>1, DecidedInvariance, PTL

-----------------------------------------------------------------------------
(* The two forms of the header policy.                                     *)

\* The name at a position, where a name is, and the names there are.
NameAt(h, i)  == Normal(h[i][1])
Places(h, n)  == {i \in 1..Len(h) : NameAt(h, i) = n}
NamesIn(h)    == {NameAt(h, i) : i \in 1..Len(h)}

\* What a map holds after its headers were appended.
LEMMA MapOfFacts ==
  ASSUME NEW S, NEW h \in Seq(S)
  PROVE  /\ MapOf(h) = [n \in NamesIn(h) |-> Cardinality(Places(h, n))]
         /\ \A n : Places(h, n) \in SUBSET Nat /\ IsFiniteSet(Places(h, n))
                   /\ Cardinality(Places(h, n)) \in Nat
  <1>1. DOMAIN h = 1..Len(h) /\ Len(h) \in Nat
    OBVIOUS
  <1>2. MapOf(h) = [n \in NamesIn(h) |-> Cardinality(Places(h, n))]
    BY <1>1 DEF MapOf, NamesIn, Places, NameAt
  <1>3. ASSUME NEW n
        PROVE  Places(h, n) \in SUBSET Nat /\ IsFiniteSet(Places(h, n))
               /\ Cardinality(Places(h, n)) \in Nat
    <2>1. Places(h, n) \in SUBSET (1..Len(h))
      BY DEF Places
    <2> QED BY <2>1, PickedFacts
  <1> QED BY <1>2, <1>3

\* The values of a map, as pairs of a name and a number.
ValuesOf(map) == UNION {{n} \X (1..map[n]) : n \in DOMAIN map}

\* Appending one by one keeps every value.
LEMMA EveryValueCounted ==
  ASSUME NEW S, NEW h \in Seq(S)
  PROVE  ValueCount(MapOf(h)) = Len(h)
  <1>0. PICK map, V, l : map = MapOf(h) /\ V = ValuesOf(map) /\ l = Len(h)
    OBVIOUS
  <1>1. l \in Nat /\ map = [n \in NamesIn(h) |-> Cardinality(Places(h, n))]
    BY <1>0, MapOfFacts
  <1>2. ASSUME NEW v
        PROVE  v \in V <=> \E n \in NamesIn(h) : \E k \in 1..Cardinality(Places(h, n)) : v = <<n, k>>
    BY <1>0, <1>1 DEF ValuesOf
  <1>3. ASSUME NEW n
        PROVE  /\ \A i \in Places(h, n) : Rank(Places(h, n), i) \in 1..Cardinality(Places(h, n))
                                          /\ Nth(Places(h, n), Rank(Places(h, n), i)) = i
               /\ \A k \in 1..Cardinality(Places(h, n)) :
                    Nth(Places(h, n), k) \in Places(h, n) /\ Rank(Places(h, n), Nth(Places(h, n), k)) = k
    <2>1. Places(h, n) \in SUBSET Nat /\ IsFiniteSet(Places(h, n))
      BY MapOfFacts
    <2> QED BY <2>1, RankFacts
  <1>4. PICK g : g = [i \in 1..l |-> <<NameAt(h, i), Rank(Places(h, NameAt(h, i)), i)>>]
    OBVIOUS
  <1>5. ASSUME NEW i \in 1..l
        PROVE  /\ i \in Places(h, NameAt(h, i)) /\ NameAt(h, i) \in NamesIn(h)
               /\ Rank(Places(h, NameAt(h, i)), i) \in 1..Cardinality(Places(h, NameAt(h, i)))
    <2>1. i \in Places(h, NameAt(h, i)) /\ NameAt(h, i) \in NamesIn(h)
      BY <1>0 DEF Places, NamesIn
    <2> QED BY <1>3, <2>1
  <1>6. \A i \in 1..l : g[i] \in V
    BY <1>2, <1>4, <1>5
  <1>7. ASSUME NEW i \in 1..l, NEW j \in 1..l, g[i] = g[j] PROVE i = j
    <2>1. PICK n : n = NameAt(h, i)
      OBVIOUS
    <2>2. NameAt(h, j) = n /\ Rank(Places(h, n), i) = Rank(Places(h, n), j)
      BY <1>4, <1>7, <2>1
    <2>3. i \in Places(h, n) /\ j \in Places(h, n)
      BY <1>5, <2>1, <2>2
    <2>4. Nth(Places(h, n), Rank(Places(h, n), i)) = i /\ Nth(Places(h, n), Rank(Places(h, n), j)) = j
      BY <1>3, <2>3
    <2> QED BY <2>2, <2>4
  <1>8. ASSUME NEW v \in V PROVE \E i \in 1..l : g[i] = v
    <2>1. PICK n \in NamesIn(h) : \E k \in 1..Cardinality(Places(h, n)) : v = <<n, k>>
      BY <1>2
    <2>2. PICK k \in 1..Cardinality(Places(h, n)) : v = <<n, k>>
      BY <2>1
    <2>3. PICK i : i = Nth(Places(h, n), k)
      OBVIOUS
    <2>4. i \in Places(h, n) /\ Rank(Places(h, n), i) = k
      BY <1>3, <2>3
    <2>5. i \in 1..l /\ NameAt(h, i) = n
      BY <1>0, <2>4 DEF Places
    <2> QED BY <1>4, <2>2, <2>4, <2>5
  <1>9. ExistsBijection(1..l, V)
    <2>1. g \in [1..l -> V]
      BY <1>4, <1>6
    <2> QED BY <1>7, <1>8, <2>1 DEF ExistsBijection, Bijection, Injection, Surjection, IsInjective
  <1>10. IsFiniteSet(1..l) /\ Cardinality(1..l) = l
    BY <1>1, FS_Interval
  <1>11. Cardinality(V) = l
    BY <1>9, <1>10, FS_Bijection
  <1> QED BY <1>0, <1>11 DEF ValueCount, ValuesOf

\* q is the elements of h at the positions A, as far as names go.
Sifted(q, h, A) ==
  /\ Len(q) = Cardinality(A)
  /\ \A k \in 1..Cardinality(A) : NameAt(q, k) = NameAt(h, Nth(A, k))

\* Filtering the elements by their names filters the map.
LEMMA FilteredMap ==
  ASSUME NEW S, NEW h \in Seq(S), NEW T, NEW q \in Seq(T), NEW P, NEW A,
         A = {i \in 1..Len(h) : NameAt(h, i) \in P}, Sifted(q, h, A)
  PROVE  MapOf(q) = Only(MapOf(h), P)
  <1>0. PICK c, l : c = Cardinality(A) /\ l = Len(h)
    OBVIOUS
  <1>1. A \in SUBSET (1..l)
    BY <1>0
  <1>2. A \in SUBSET Nat /\ IsFiniteSet(A)
    BY <1>0, <1>1, PickedFacts
  <1>3. /\ c \in Nat
        /\ \A k \in 1..c : Nth(A, k) \in A /\ Rank(A, Nth(A, k)) = k
        /\ \A i \in A : Rank(A, i) \in 1..c /\ Nth(A, Rank(A, i)) = i
    BY <1>0, <1>2, RankFacts
  <1>4. Len(q) = c /\ \A k \in 1..c : NameAt(q, k) = NameAt(h, Nth(A, k))
    BY <1>0 DEF Sifted
  <1>5. \A i : i \in A <=> i \in 1..l /\ NameAt(h, i) \in P
    BY <1>0
  <1>6. NamesIn(q) = NamesIn(h) \cap P
    <2>1. ASSUME NEW n \in NamesIn(q) PROVE n \in NamesIn(h) \cap P
      <3>1. PICK k \in 1..c : n = NameAt(q, k)
        BY <1>4 DEF NamesIn
      <3>2. Nth(A, k) \in A /\ n = NameAt(h, Nth(A, k))
        BY <1>3, <1>4, <3>1
      <3> QED BY <1>0, <1>5, <3>2 DEF NamesIn
    <2>2. ASSUME NEW n \in NamesIn(h) \cap P PROVE n \in NamesIn(q)
      <3>1. PICK i \in 1..l : n = NameAt(h, i)
        BY <1>0 DEF NamesIn
      <3>2. i \in A
        BY <1>5, <2>2, <3>1
      <3>3. Rank(A, i) \in 1..c /\ NameAt(q, Rank(A, i)) = n
        BY <1>3, <1>4, <3>1, <3>2
      <3> QED BY <1>4, <3>3 DEF NamesIn
    <2> QED BY <2>1, <2>2
  <1>7. ASSUME NEW n \in NamesIn(h) \cap P PROVE Cardinality(Places(q, n)) = Cardinality(Places(h, n))
    <2>1. PICK K, I : K = Places(q, n) /\ I = Places(h, n)
      OBVIOUS
    <2>2. \A k : k \in K <=> k \in 1..c /\ NameAt(q, k) = n
      BY <1>4, <2>1 DEF Places
    <2>3. \A i : i \in I <=> i \in 1..l /\ NameAt(h, i) = n
      BY <1>0, <2>1 DEF Places
    <2>4. PICK g : g = [k \in K |-> Nth(A, k)]
      OBVIOUS
    <2>5. \A k \in K : g[k] \in I
      <3>1. ASSUME NEW k \in K PROVE g[k] \in I
        <4>1. k \in 1..c /\ NameAt(q, k) = n
          BY <2>2
        <4>2. Nth(A, k) \in A /\ NameAt(h, Nth(A, k)) = n
          BY <1>3, <1>4, <4>1
        <4> QED BY <1>5, <2>3, <2>4, <4>2
      <3> QED BY <3>1
    <2>6. \A j, k \in K : g[j] = g[k] => j = k
      BY <1>3, <2>2, <2>4
    <2>7. ASSUME NEW i \in I PROVE \E k \in K : g[k] = i
      <3>1. i \in A
        BY <1>5, <1>7, <2>3
      <3>2. Rank(A, i) \in 1..c /\ Nth(A, Rank(A, i)) = i
        BY <1>3, <3>1
      <3>3. NameAt(q, Rank(A, i)) = n
        BY <1>4, <2>3, <3>2
      <3>4. Rank(A, i) \in K
        BY <2>2, <3>2, <3>3
      <3> QED BY <2>4, <3>2, <3>4
    <2>8. ExistsBijection(K, I)
      <3>1. g \in [K -> I]
        BY <2>4, <2>5
      <3> QED BY <2>6, <2>7, <3>1 DEF ExistsBijection, Bijection, Injection, Surjection, IsInjective
    <2>9. IsFiniteSet(K)
      BY <2>1, MapOfFacts
    <2> QED BY <2>1, <2>8, <2>9, FS_Bijection
  <1>8. MapOf(h) = [n \in NamesIn(h) |-> Cardinality(Places(h, n))]
    BY MapOfFacts
  <1>9. MapOf(q) = [n \in NamesIn(q) |-> Cardinality(Places(q, n))]
    BY MapOfFacts
  <1>10. Only(MapOf(h), P) = [n \in NamesIn(h) \cap P |-> Cardinality(Places(h, n))]
    BY <1>8 DEF Only
  <1> QED BY <1>6, <1>7, <1>9, <1>10

\* A filter that passes everything changes nothing.
LEMMA AllPicked ==
  ASSUME NEW S, NEW s \in Seq(S)
  PROVE  Picked(s, 1..Len(s)) = s
  <1>1. PICK n \in Nat : n = Len(s)
    OBVIOUS
  <1>2. PICK f : f = [k \in 1..n |-> k]
    OBVIOUS
  <1>3. InOrder(f, n, 1..n)
    BY <1>2 DEF InOrder
  <1>4. PICK I : I = 1..n
    OBVIOUS
  <1>a. I \in SUBSET Nat /\ InOrder(f, n, I)
    BY <1>3, <1>4
  <1>b. /\ IsFiniteSet(I) /\ Cardinality(I) = n
        /\ \A a \in 1..n : Rank(I, f[a]) = a /\ Nth(I, a) = f[a]
    <2>1. n \in Nat
      OBVIOUS
    <2>2. I \in SUBSET Nat
      BY <1>a
    <2>3. InOrder(f, n, I)
      BY <1>a
    <2> QED BY <2>1, <2>2, <2>3, Listing, ZenonT(60)
  <1>5. Cardinality(1..n) = n /\ \A k \in 1..n : Nth(1..n, k) = f[k]
    BY <1>4, <1>b
  <1>6. Picked(s, 1..n) = [k \in 1..n |-> s[k]]
    BY <1>2, <1>5 DEF Picked
  <1> QED BY <1>1, <1>6

\* The positions whose names may be set, and those whose names may be shown.
Settable(h)  == {i \in DOMAIN h : is_allowed_request_header(Normal(h[i][1]))}
Showable(h)  == {i \in DOMAIN h : ~is_stripped_response_header(Normal(h[i][1]))}

\* What sanitize_request_headers returns, and what becomes of it when it is sent.
IsSanitized(h, p, q, A, c) ==
  /\ p.dropped = Len(h) - c /\ c \in Nat
  /\ p.headers = [i \in 1..c |-> <<NameAt(h, Nth(A, i)), h[Nth(A, i)][2]>>]
  /\ q = [i \in 1..c |-> <<Header(p.headers[i][1], TRUE), p.headers[i][2]>>]
  /\ \E T : q \in Seq(T)
  /\ Sifted(q, h, A)

\* The request filter over pairs keeps the settable positions, in order.
LEMMA SanitizedFacts ==
  ASSUME NEW S, NEW h \in Seq(S)
  PROVE  IsSanitized(h, sanitize_request_headers(h), PairsOf(sanitize_request_headers(h).headers),
                     Settable(h), Cardinality(Settable(h)))
  <1>p. PICK p, q, c : /\ p = sanitize_request_headers(h) /\ q = PairsOf(p.headers)
                       /\ c = Cardinality(Settable(h))
    OBVIOUS
  <1>0. PICK A, k : A = Settable(h) /\ k = Picked(h, A)
    OBVIOUS
  <1>1. A \in SUBSET (1..Len(h))
    BY <1>0 DEF Settable
  <1>2. /\ c \in Nat /\ Len(k) = c /\ k \in Seq(S)
        /\ \A i \in 1..c : k[i] = h[Nth(A, i)]
    BY <1>p, <1>0, <1>1, PickedFacts
  <1>3. p.headers = [i \in DOMAIN k |-> <<Normal(k[i][1]), k[i][2]>>] /\ p.dropped = Len(h) - Len(k)
    BY <1>p, <1>0 DEF sanitize_request_headers, Settable
  <1>4. DOMAIN k = 1..c
    BY <1>2
  <1>5. p.headers = [i \in 1..c |-> <<NameAt(h, Nth(A, i)), h[Nth(A, i)][2]>>]
    BY <1>2, <1>3, <1>4 DEF NameAt
  <1>6. q = [i \in 1..c |-> <<Header(p.headers[i][1], TRUE), p.headers[i][2]>>]
    <2>1. DOMAIN p.headers = 1..c
      BY <1>5
    <2> QED BY <1>p, <2>1 DEF PairsOf
  <1>7. PICK T : T = {q[i] : i \in 1..c}
    OBVIOUS
  <1>8. q \in [1..c -> T]
    <2>1. \A i \in 1..c : q[i] \in T
      BY <1>7
    <2>2. q = [i \in 1..c |-> q[i]]
      BY <1>6
    <2> QED BY <2>1, <2>2
  <1>9. q \in Seq(T) /\ Len(q) = c
    BY <1>2, <1>8, IsSequence
  <1>10. ASSUME NEW i \in 1..c PROVE NameAt(q, i) = NameAt(h, Nth(A, i))
    <2>1. q[i] = <<Header(p.headers[i][1], TRUE), p.headers[i][2]>>
      BY <1>6
    <2>2. p.headers[i] = <<NameAt(h, Nth(A, i)), h[Nth(A, i)][2]>>
      BY <1>5
    <2>3. q[i][1] = Header(NameAt(h, Nth(A, i)), TRUE)
      BY <2>1, <2>2
    <2> QED BY <2>3 DEF NameAt, Normal, Header
  <1>11. Sifted(q, h, A)
    BY <1>p, <1>0, <1>9, <1>10 DEF Sifted
  <1>12. IsSanitized(h, p, q, A, c)
    BY <1>2, <1>3, <1>5, <1>6, <1>9, <1>11 DEF IsSanitized
  <1> QED BY <1>p, <1>0, <1>12

\* request_policy.rs and wasi_guests.rs: for any headers of any length, the filter
\* over pairs and the filter over the map keep the same names with the same number
\* of values and drop the same number, for requests and for responses.
THEOREM BothFormsAgree ==
  ASSUME NEW S, NEW h \in Seq(S)
  PROVE  AgreeOn(h)
  <1>0. PICK p, q, c, A : /\ p = sanitize_request_headers(h) /\ q = PairsOf(p.headers)
                          /\ A = Settable(h) /\ c = Cardinality(A)
    OBVIOUS
  <1>1. /\ p.dropped = Len(h) - c /\ c \in Nat
        /\ p.headers = [i \in 1..c |-> <<NameAt(h, Nth(A, i)), h[Nth(A, i)][2]>>]
        /\ q = [i \in 1..c |-> <<Header(p.headers[i][1], TRUE), p.headers[i][2]>>]
        /\ \E T : q \in Seq(T)
        /\ Sifted(q, h, A)
    <2>1. IsSanitized(h, p, q, A, c)
      BY <1>0, SanitizedFacts
    <2> QED BY <2>1 DEF IsSanitized
  <1>2. PICK T : q \in Seq(T)
    BY <1>1
  <1>3. /\ Len(q) = c /\ \A k \in 1..c : NameAt(q, k) = NameAt(h, Nth(A, k))
        /\ DOMAIN MapOf(h) = NamesIn(h) /\ DOMAIN h = 1..Len(h)
    BY <1>0, <1>1, MapOfFacts DEF Sifted
  <1>4. MapOf(q) = Only(MapOf(h), {n \in DOMAIN MapOf(h) : is_allowed_request_header(n)})
    <2>1. PICK P : P = {n \in DOMAIN MapOf(h) : is_allowed_request_header(n)}
      OBVIOUS
    <2>2. A = {i \in 1..Len(h) : NameAt(h, i) \in P}
      BY <1>0, <1>3, <2>1 DEF Settable, NamesIn, NameAt
    <2>3. MapOf(q) = Only(MapOf(h), P)
      BY <1>1, <1>2, <2>2, FilteredMap
    <2> QED BY <2>1, <2>3
  <1>5. MapOf(q) = retain_allowed_request_headers(MapOf(h)).headers
    BY <1>4 DEF retain_allowed_request_headers
  <1>6. p.dropped = retain_allowed_request_headers(MapOf(h)).dropped
    <2>1. retain_allowed_request_headers(MapOf(h)).dropped = ValueCount(MapOf(h)) - ValueCount(MapOf(q))
      BY <1>4 DEF retain_allowed_request_headers
    <2>2. ValueCount(MapOf(h)) = Len(h)
      BY EveryValueCounted
    <2>3. ValueCount(MapOf(q)) = c
      BY <1>2, <1>3, EveryValueCounted
    <2> QED BY <1>1, <2>1, <2>2, <2>3
  <1>7. sanitize_request_headers(q) = [headers |-> p.headers, dropped |-> 0, dropped_credential |-> FALSE]
    <2>1. DOMAIN q = 1..c
      BY <1>1
    <2>2. \A i \in 1..c : is_allowed_request_header(NameAt(q, i))
      <3>1. ASSUME NEW i \in 1..c PROVE is_allowed_request_header(NameAt(q, i))
        <4>1. A \in SUBSET (1..Len(h))
          BY <1>0 DEF Settable
        <4>2. Nth(A, i) \in A
          BY <1>0, <4>1, PickedFacts
        <4>3. is_allowed_request_header(NameAt(h, Nth(A, i)))
          BY <1>0, <4>2 DEF Settable, NameAt
        <4> QED BY <1>3, <4>3
      <3> QED BY <3>1
    <2>3. {i \in DOMAIN q : is_allowed_request_header(Normal(q[i][1]))} = 1..c
      BY <2>1, <2>2 DEF NameAt
    <2>4. Picked(q, 1..c) = q
      BY <1>2, <1>3, AllPicked
    <2>5. [i \in DOMAIN q |-> <<Normal(q[i][1]), q[i][2]>>] = p.headers
      <3>1. ASSUME NEW i \in 1..c PROVE <<Normal(q[i][1]), q[i][2]>> = p.headers[i]
        <4>1. q[i] = <<Header(p.headers[i][1], TRUE), p.headers[i][2]>>
          BY <1>1
        <4>2. p.headers[i] = <<NameAt(h, Nth(A, i)), h[Nth(A, i)][2]>>
          BY <1>1
        <4>3. Normal(q[i][1]) = p.headers[i][1] /\ q[i][2] = p.headers[i][2]
          BY <4>1 DEF Normal, Header
        <4>4. p.headers[i] = <<p.headers[i][1], p.headers[i][2]>>
          BY <4>2
        <4> QED BY <4>3, <4>4
      <3>2. p.headers = [i \in 1..c |-> p.headers[i]]
        BY <1>1
      <3> QED BY <2>1, <3>1, <3>2
    <2>6. ~(\E i \in DOMAIN q : ~is_allowed_request_header(Normal(q[i][1]))
                                /\ is_credential_header_name(Normal(q[i][1])))
      BY <2>1, <2>2 DEF NameAt
    <2>7. Len(q) - Len(q) = 0
      BY <1>1, <1>3
    <2> QED BY <2>3, <2>4, <2>5, <2>6, <2>7 DEF sanitize_request_headers
  <1>8. MapOf(sanitize_response_headers(h)) = strip_response_headers(MapOf(h))
    <2>1. PICK B, r, P : /\ B = Showable(h) /\ r = Picked(h, B)
                         /\ P = DOMAIN MapOf(h) \ STRIPPED_RESPONSE_HEADERS
      OBVIOUS
    <2>2. B \in SUBSET (1..Len(h))
      BY <2>1 DEF Showable
    <2>3. /\ r \in Seq(S) /\ Len(r) = Cardinality(B)
          /\ \A k \in 1..Cardinality(B) : r[k] = h[Nth(B, k)]
      BY <2>1, <2>2, PickedFacts
    <2>4. Sifted(r, h, B)
      BY <2>3 DEF Sifted, NameAt
    <2>5. B = {i \in 1..Len(h) : NameAt(h, i) \in P}
      BY <1>3, <2>1 DEF Showable, NamesIn, NameAt, is_stripped_response_header
    <2>6. MapOf(r) = Only(MapOf(h), P)
      BY <2>3, <2>4, <2>5, FilteredMap
    <2>7. r = sanitize_response_headers(h)
      BY <2>1 DEF sanitize_response_headers, Showable
    <2> QED BY <2>1, <2>6, <2>7 DEF strip_response_headers
  <1> QED BY <1>0, <1>5, <1>6, <1>7, <1>8 DEF AgreeOn

\* The two forms, as the run evaluates them.
LEMMA FormsAgreeOnSamples == AgreeOnSamples
  <1>1. PICK S : S = SamplePairs
    OBVIOUS
  <1>2. ASSUME NEW h \in SampleHeaders PROVE AgreeOn(h)
    <2>1. PICK n \in 0..3 : h \in [1..n -> S]
      BY <1>1 DEF SampleHeaders
    <2>2. n \in Nat
      OBVIOUS
    <2>3. h \in Seq(S)
      BY <2>1, <2>2, IsSequence
    <2> QED BY <2>3, BothFormsAgree
  <1> QED BY <1>2 DEF AgreeOnSamples

\* One header over pairs.
One(n) == << <<Header(n, TRUE), "v">> >>

\* What the filters over pairs make of one header.
LEMMA OneHeader ==
  ASSUME NEW n
  PROVE  /\ (sanitize_request_headers(One(n)).dropped = 0) <=> is_allowed_request_header(n)
         /\ (sanitize_response_headers(One(n)) # <<>>) <=> ~is_stripped_response_header(n)
  <1>0. PICK h : h = One(n)
    OBVIOUS
  <1>1. PICK S : S = {h[1]}
    OBVIOUS
  <1>2. h \in Seq(S) /\ Len(h) = 1 /\ DOMAIN h = {1} /\ Normal(h[1][1]) = n
    BY <1>0, <1>1 DEF One, Normal, Header
  <1>3. IsFiniteSet({1}) /\ Cardinality({1}) = 1 /\ Cardinality({}) = 0
    BY FS_Singleton, FS_EmptySet
  <1>4. (sanitize_request_headers(h).dropped = 0) <=> is_allowed_request_header(n)
    <2>1. sanitize_request_headers(h).dropped = 1 - Cardinality(Settable(h))
      BY <1>2, SanitizedFacts DEF IsSanitized
    <2>2. CASE is_allowed_request_header(n)
      <3>1. Settable(h) = {1}
        BY <1>2, <2>2 DEF Settable
      <3> QED BY <1>3, <2>1, <2>2, <3>1
    <2>3. CASE ~is_allowed_request_header(n)
      <3>1. Settable(h) = {}
        BY <1>2, <2>3 DEF Settable
      <3> QED BY <1>3, <2>1, <2>3, <3>1
    <2> QED BY <2>2, <2>3
  <1>5. (sanitize_response_headers(h) # <<>>) <=> ~is_stripped_response_header(n)
    <2>1. sanitize_response_headers(h) = Picked(h, Showable(h))
      BY DEF sanitize_response_headers, Showable
    <2>2. Showable(h) \in SUBSET (1..Len(h))
      BY <1>2 DEF Showable
    <2>3. /\ sanitize_response_headers(h) \in Seq(S)
          /\ Len(sanitize_response_headers(h)) = Cardinality(Showable(h))
      BY <1>2, <2>1, <2>2, PickedFacts
    <2>4. (sanitize_response_headers(h) # <<>>) <=> Cardinality(Showable(h)) # 0
      BY <2>3
    <2>5. CASE is_stripped_response_header(n)
      <3>1. Showable(h) = {}
        BY <1>2, <2>5 DEF Showable
      <3> QED BY <1>3, <2>4, <2>5, <3>1
    <2>6. CASE ~is_stripped_response_header(n)
      <3>1. Showable(h) = {1}
        BY <1>2, <2>6 DEF Showable
      <3> QED BY <1>3, <2>4, <2>6, <3>1
    <2> QED BY <2>5, <2>6
  <1> QED BY <1>0, <1>4, <1>5

\* GatedHttpHooks and request_policy.rs: in every state of every guest, what was put
\* on the wire and shown is what the filters of the other host keep.
THEOREM SameTreatment == Spec => []FiltersAgree
  <1>1. ASSUME HttpInv, DecidedInv PROVE FiltersAgree
    <2>1. ASSUME NEW f \in Futures, Reached(sends[f])
          PROVE  /\ DOMAIN sends[f].wire.headers \ {"host"} =
                      {n \in DOMAIN sends[f].request.headers :
                         sanitize_request_headers(One(n)).dropped = 0}
                 /\ DOMAIN sends[f].seenHead =
                      {n \in DOMAIN sends[f].head \ {"host"} : sanitize_response_headers(One(n)) # <<>>}
      <3>1. PICK s : s = sends[f]
        OBVIOUS
      <3>2. DOMAIN s.wire.headers = DOMAIN Retained(s.request) \cup {"host"}
        BY <1>1, <2>1, <3>1 DEF DecidedInv, DecidedSend, Reached
      <3>3. DOMAIN Retained(s.request) = {n \in DOMAIN s.request.headers : is_allowed_request_header(n)}
        BY DEF Retained, Only
      <3>4. ~is_allowed_request_header("host")
        BY DEF is_allowed_request_header, ALLOWED_REQUEST_HEADERS
      <3>5. DOMAIN s.wire.headers \ {"host"} =
              {n \in DOMAIN s.request.headers : sanitize_request_headers(One(n)).dropped = 0}
        BY <3>2, <3>3, <3>4, OneHeader
      <3>6. s.seenHead = Shown(s.head)
        BY <1>1, <3>1 DEF HttpInv, SeenSend
      <3>7. DOMAIN s.seenHead = DOMAIN s.head \ {"set-cookie", "set-cookie2", "host"}
        BY <3>6 DEF Shown, Only
      <3>8. \A n : is_stripped_response_header(n) <=> n \in {"set-cookie", "set-cookie2"}
        BY DEF is_stripped_response_header, STRIPPED_RESPONSE_HEADERS
      <3>9. DOMAIN s.seenHead = {n \in DOMAIN s.head \ {"host"} : sanitize_response_headers(One(n)) # <<>>}
        BY <3>7, <3>8, OneHeader
      <3> QED BY <3>1, <3>5, <3>9
    <2> QED BY <2>1, FormsAgreeOnSamples DEF FiltersAgree, One
  <1> QED BY <1>1, DecidedInvariance, PTL
=============================================================================
