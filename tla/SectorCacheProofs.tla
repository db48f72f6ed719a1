------------------------- MODULE SectorCacheProofs -------------------------
(***************************************************************************)
(* Proofs about SectorCache, for any number of volumes, sectors, contents  *)
(* and any capacity.  First the list: it orders the cached sectors totally *)
(* under the whole interface, on a device that may fail.  From that, put   *)
(* always finds a victim, so the cache never outgrows its capacity.  Then  *)
(* the contents: with a healthy device a clean copy is the volume's, and   *)
(* the cache implements BlockStore.  Last, fsck's workers: reads that take *)
(* turns are the shell's.                                                  *)
(***************************************************************************)
EXTENDS DiskThreads, FiniteSetTheorems, WellFoundedInduction, TLAPS

-----------------------------------------------------------------------------
(* The list as a strict total order.                                       *)

IsOrder(R, K) ==
  /\ R \subseteq K \X K
  /\ \A s, t \in K : s # t => (<<s, t>> \in R <=> <<t, s>> \notin R)
  /\ \A s \in K : <<s, s>> \notin R
  /\ \A r, s, t \in K : <<r, s>> \in R /\ <<s, t>> \in R => <<r, t>> \in R

\* Dropping keys from the list (eviction, invalidation) leaves the others in order.
LEMMA WithoutIsOrder ==
  ASSUME NEW R, NEW K, NEW G, IsOrder(R, K)
  PROVE  IsOrder(Without(R, G), K \ G)
  BY DEF IsOrder, Without

\* touch keeps the list an order, whether the key was in it or is new.
LEMMA ToFrontIsOrder ==
  ASSUME NEW R, NEW K, NEW s, IsOrder(R, K)
  PROVE  IsOrder(ToFront(R, K, s), K \cup {s})
  <1> DEFINE F == ToFront(R, K, s)
             L == K \cup {s}
  <1>1. F \subseteq L \X L
    BY DEF ToFront, Without, IsOrder
  <1>2. \A a, b : <<a, b>> \in F <=>
           \/ <<a, b>> \in R /\ a # s /\ b # s
           \/ a = s /\ b \in K \ {s}
    BY DEF ToFront, Without
  <1> HIDE DEF F
  <1>3. \A a, b \in L : a # b => (<<a, b>> \in F <=> <<b, a>> \notin F)
    BY <1>2 DEF IsOrder
  <1>4. \A a \in L : <<a, a>> \notin F
    BY <1>2 DEF IsOrder
  <1>5. \A a, b, c \in L : <<a, b>> \in F /\ <<b, c>> \in F => <<a, c>> \in F
    BY <1>2 DEF IsOrder
  <1>6. QED
    BY <1>1, <1>3, <1>4, <1>5 DEF IsOrder, F

\* An order on a finite, non-empty set of keys has a last one, and only one: put
\* has exactly one entry to evict.
LEMMA OrderHasLast ==
  ASSUME NEW R, NEW K, IsFiniteSet(K), K # {}, IsOrder(R, K)
  PROVE  \E s \in K : \A t \in K \ {s} : <<t, s>> \in R
  <1> DEFINE Front(s) == {t \in K : <<t, s>> \in R}
             Behind(s) == {t \in K : <<s, t>> \in R}
             T == {Cardinality(Behind(s)) : s \in K}
  <1>1. \A s \in K : IsFiniteSet(Behind(s)) /\ Cardinality(Behind(s)) \in Nat
    <2> TAKE s \in K
    <2>1. Behind(s) \in SUBSET K
      OBVIOUS
    <2>2. IsFiniteSet(Behind(s))
      BY <2>1, FS_Subset
    <2> HIDE DEF Behind
    <2>3. QED
      BY <2>2, FS_CardinalityType
  <1>2. T \subseteq Nat /\ T # {}
    BY <1>1
  <1>3. PICK n \in T : \A m \in T : ~ (<<m, n>> \in OpToRel(<, Nat))
    <2> HIDE DEF T
    <2>1. QED BY <1>2, WFMin, NatLessThanWellFounded
  <1>4. PICK s \in K : n = Cardinality(Behind(s))
    OBVIOUS
  <1>5. \A t \in K \ {s} : <<t, s>> \in R
    <2> SUFFICES ASSUME NEW t \in K \ {s}, <<t, s>> \notin R
                 PROVE  FALSE
      OBVIOUS
    <2>1. <<s, t>> \in R
      BY DEF IsOrder
    <2>2. Behind(t) \in SUBSET Behind(s)
      BY <2>1 DEF IsOrder
    <2>3. t \in Behind(s) /\ t \notin Behind(t)
      BY <2>1 DEF IsOrder
    <2>4. Cardinality(Behind(t)) <= Cardinality(Behind(s))
          /\ Cardinality(Behind(t)) # Cardinality(Behind(s))
      <3> HIDE DEF Behind
      <3>1. QED BY <1>1, <2>2, <2>3, FS_Subset
    <2>5. Cardinality(Behind(t)) \in T
      OBVIOUS
    <2>6. Cardinality(Behind(t)) < n
      <3> HIDE DEF Behind
      <3>1. QED BY <1>1, <1>4, <2>4
    <2>7. <<Cardinality(Behind(t)), n>> \in OpToRel(<, Nat)
      BY <1>1, <1>4, <2>6 DEF OpToRel
    <2>8. QED
      BY <1>3, <2>5, <2>7
  <1>6. QED
    BY <1>5

-----------------------------------------------------------------------------
(* The structure of the cache, under the whole interface.                  *)

LruInv == TypeOK /\ LruIsTotalOrder /\ WithinCapacity

LEMMA LruIsOrder ==
  ASSUME TypeOK
  PROVE  LruIsTotalOrder <=> IsOrder(newer, Cached)
  BY DEF TypeOK, LruIsTotalOrder, IsOrder

\* The same of the next state.
LEMMA LruIsOrderNext ==
  ASSUME IsOrder(newer', Cached')
  PROVE  newer' \subseteq Cached' \X Cached' /\ LruIsTotalOrder'
  BY DEF LruIsTotalOrder, IsOrder

LEMMA CachedFinite ==
  IsFiniteSet(Cached) /\ Cardinality(Cached) \in Nat
  <1>1. Cached \in SUBSET Sectors
    BY DEF Cached
  <1>2. QED
    BY <1>1, CacheAssumption, FS_Subset, FS_CardinalityType

\* The device keeps its type whatever set of cached sectors is written to it.
LEMMA DeviceType ==
  ASSUME TypeOK, NEW S \in SUBSET Cached, WriteSectorsDirect(S)
  PROVE  device' \in [Volumes -> [Sectors -> Data]]
  <1>1. CASE volume = Closed
    BY <1>1 DEF TypeOK, WriteSectorsDirect
  <1>2. CASE volume # Closed
    <2>1. \A s \in S : cacheData[s] \in Data
      BY DEF TypeOK, Cached
    <2>2. [s \in Sectors |-> IF s \in S THEN cacheData[s] ELSE device[volume][s]]
            \in [Sectors -> Data]
      BY <1>2, <2>1 DEF TypeOK
    <2>3. QED
      BY <1>2, <2>2 DEF TypeOK, WriteSectorsDirect
  <1>3. QED
    BY <1>1, <1>2

\* put evicts cached entries only, never the key it stores, and, when the cache is
\* full and the key new, exactly one.
LEMMA VictimsAre ==
  ASSUME TypeOK, LruIsTotalOrder, NEW key \in Sectors
  PROVE  /\ Victims(key) \subseteq Cached
         /\ key \notin Victims(key)
         /\ \/ Victims(key) = {} /\ (key \in Cached \/ Cardinality(Cached) < maxEntries
                                     \/ Cached = {})
            \/ \E s \in Cached : Victims(key) = {s}
  <1>1. Victims(key) \subseteq Cached /\ key \notin Victims(key)
    BY DEF Victims, Cached
  <1>2. CASE cacheData[key] = Absent /\ Cardinality(Cached) >= maxEntries /\ Cached # {}
    <2>1. PICK s \in Cached : \A t \in Cached \ {s} : <<t, s>> \in newer
      BY <1>2, OrderHasLast, CachedFinite, LruIsOrder
    <2>2. s \in Victims(key)
      BY <1>2, <2>1 DEF Victims, IsOldest
    <2>3. \A t \in Victims(key) : t \in Cached /\ \A u \in Cached \ {t} : <<u, t>> \in newer
      BY DEF Victims, IsOldest
    <2>4. \A t \in Cached : <<s, t>> \in newer /\ <<t, s>> \in newer => t = s
      BY DEF LruIsTotalOrder
    <2>5. ASSUME NEW t \in Victims(key), t # s  PROVE FALSE
      BY <2>1, <2>3, <2>4, <2>5
    <2>6. Victims(key) = {s}
      BY <2>2, <2>5
    <2>7. QED
      BY <1>1, <2>6
  <1>3. CASE ~ (cacheData[key] = Absent /\ Cardinality(Cached) >= maxEntries /\ Cached # {})
    <2>1. Victims(key) = {}
      BY <1>3 DEF Victims, IsOldest
    <2>2. key \in Cached \/ Cardinality(Cached) < maxEntries \/ Cached = {}
      BY <1>3, CachedFinite DEF Cached, TypeOK
    <2>3. QED
      BY <1>1, <2>1, <2>2
  <1>4. QED
    BY <1>2, <1>3

\* What is cached after a put.
LEMMA PutCached ==
  ASSUME TypeOK, LruIsTotalOrder, NEW key \in Sectors, NEW d \in Data,
         NEW isDirty \in BOOLEAN, NEW ok \in SUBSET Sectors, Put(key, d, isDirty, ok)
  PROVE  Cached' = (Cached \ Victims(key)) \cup {key}
  BY VictimsAre, CacheAssumption DEF Put, Cached, TypeOK

LEMMA PutStructure ==
  ASSUME TypeOK, LruIsTotalOrder, WithinCapacity, NEW key \in Sectors, NEW d \in Data,
         NEW isDirty \in BOOLEAN, NEW ok \in SUBSET Sectors, Put(key, d, isDirty, ok),
         maxEntries' = maxEntries
  PROVE  /\ cacheData' \in [Sectors -> Data \cup {Absent}]
         /\ newer' \subseteq Cached' \X Cached'
         /\ dirty' \subseteq Sectors
         /\ device' \in [Volumes -> [Sectors -> Data]]
         /\ LruIsTotalOrder'
         /\ WithinCapacity'
  <1> DEFINE gone == Victims(key)
  <1>1. gone \subseteq Cached
    BY VictimsAre
  <1>2. cacheData' \in [Sectors -> Data \cup {Absent}] /\ dirty' \subseteq Sectors
    BY DEF Put, TypeOK
  <1>3. device' \in [Volumes -> [Sectors -> Data]]
    <2>1. gone \cap dirty \cap ok \in SUBSET Cached
      BY <1>1
    <2>2. WriteSectorsDirect(gone \cap dirty \cap ok)
      BY DEF Put, WriteVictims
    <2> HIDE DEF gone
    <2>3. QED
      BY <2>1, <2>2, DeviceType
  <1>4. Cached' = (Cached \ gone) \cup {key}
    BY PutCached
  <1>5. IsOrder(newer', Cached')
    <2>1. IsOrder(Without(newer, gone), Cached \ gone)
      BY LruIsOrder, WithoutIsOrder
    <2>2. IsOrder(ToFront(Without(newer, gone), Cached \ gone, key), (Cached \ gone) \cup {key})
      BY <2>1, ToFrontIsOrder
    <2>3. newer' = ToFront(Without(newer, gone), Cached \ gone, key)
      BY DEF Put
    <2>4. QED
      BY <1>4, <2>2, <2>3
  <1>6. WithinCapacity'
    <2> HIDE DEF gone
    <2>1. CASE gone = {} /\ key \in Cached
      BY <1>4, <2>1 DEF WithinCapacity
    <2>2. CASE gone = {} /\ key \notin Cached /\ Cardinality(Cached) < maxEntries
      <3>1. Cardinality(Cached') = Cardinality(Cached) + 1
        BY <1>4, <2>2, CachedFinite, FS_AddElement
      <3>2. QED
        BY <2>2, <3>1, CachedFinite DEF WithinCapacity, TypeOK
    <2>3. CASE gone = {} /\ Cached = {}
      <3>1. Cardinality(Cached') = 1
        BY <1>4, <2>3, FS_Singleton
      <3>2. QED
        BY <3>1 DEF WithinCapacity, TypeOK
    <2>4. ASSUME NEW s \in Cached, gone = {s}
          PROVE  WithinCapacity'
      <3>1. key \notin Cached
        BY <2>4 DEF gone, Victims, Cached
      <3>2. Cardinality(Cached') = Cardinality(Cached)
        <4>1. /\ IsFiniteSet(Cached \ {s})
              /\ Cardinality(Cached \ {s}) = Cardinality(Cached) - 1
          BY CachedFinite, FS_RemoveElement
        <4>2. Cardinality((Cached \ {s}) \cup {key}) = Cardinality(Cached \ {s}) + 1
          BY <3>1, <4>1, FS_AddElement
        <4>3. QED
          BY <1>4, <2>4, <4>1, <4>2, CachedFinite
      <3>3. QED
        BY <3>2 DEF WithinCapacity
    <2>5. QED
      BY <2>1, <2>2, <2>3, <2>4, VictimsAre DEF gone
  <1>7. QED
    BY <1>2, <1>3, <1>5, <1>6, LruIsOrderNext

\* Some entries leave the cache, the others keep their place in the list.
LEMMA DropStructure ==
  ASSUME TypeOK, LruIsTotalOrder, NEW gone \in SUBSET Sectors,
         cacheData' = [s \in Sectors |-> IF s \in gone THEN Absent ELSE cacheData[s]],
         newer' = Without(newer, gone)
  PROVE  /\ cacheData' \in [Sectors -> Data \cup {Absent}]
         /\ Cached' = Cached \ gone
         /\ newer' \subseteq Cached' \X Cached'
         /\ LruIsTotalOrder'
         /\ IsFiniteSet(Cached') /\ Cardinality(Cached') \in Nat
         /\ Cardinality(Cached') <= Cardinality(Cached)
  <1>1. cacheData' \in [Sectors -> Data \cup {Absent}]
    BY DEF TypeOK
  <1>2. Cached' = Cached \ gone
    BY DEF Cached, TypeOK
  <1>3. IsOrder(newer', Cached')
    BY <1>2, LruIsOrder, WithoutIsOrder
  <1>4. IsFiniteSet(Cached') /\ Cardinality(Cached') <= Cardinality(Cached)
    BY <1>2, CachedFinite, FS_Subset, Cached \ gone \in SUBSET Cached
  <1>5. QED
    BY <1>1, <1>2, <1>3, <1>4, LruIsOrderNext, FS_CardinalityType

LEMMA ForgetStructure ==
  ASSUME Forget, device' \in [Volumes -> [Sectors -> Data]]
  PROVE  LruInv'
  <1>1. Cached' = {}
    BY DEF Forget, Cached
  <1>2. TypeOK'
    BY <1>1, CacheAssumption DEF Forget, TypeOK
  <1>3. LruIsTotalOrder' /\ WithinCapacity'
    BY <1>1, CacheAssumption, FS_EmptySet DEF Forget, LruIsTotalOrder, WithinCapacity
  <1>4. QED
    BY <1>2, <1>3 DEF LruInv

LEMMA LruInit == Init => LruInv
  <1> SUFFICES ASSUME Init PROVE LruInv
    OBVIOUS
  <1>1. Cached = {}
    BY DEF Init, Cached
  <1>2. TypeOK
    BY <1>1, CacheAssumption DEF Init, TypeOK
  <1>3. LruIsTotalOrder /\ WithinCapacity
    BY <1>1, CacheAssumption, FS_EmptySet DEF Init, LruIsTotalOrder, WithinCapacity
  <1>4. QED
    BY <1>2, <1>3 DEF LruInv

\* Every operation of the interface, on a device that may fail at any write.
LEMMA LruStep == LruInv /\ [ApiNext]_vars => LruInv'
  <1> SUFFICES ASSUME LruInv, [ApiNext]_vars PROVE LruInv'
    OBVIOUS
  <1> USE DEF LruInv
  <1>0. /\ Cached = {s \in Sectors : cacheData[s] # Absent}
        /\ \A s \in Cached : s \in Sectors /\ cacheData[s] \in Data
    BY DEF TypeOK, Cached
  <1>1. ASSUME NEW s \in Sectors, ReadHit(s)
        PROVE  LruInv'
    <2>1. Cached' = Cached
      BY <1>1 DEF ReadHit, Cached
    <2>2. IsOrder(newer', Cached')
      <3>1. Cached \cup {s} = Cached
        BY <1>1 DEF ReadHit
      <3>2. QED
        BY <1>1, <2>1, <3>1, LruIsOrder, ToFrontIsOrder DEF ReadHit
    <2>3. TypeOK'
      BY <1>0, <1>1, <2>2, LruIsOrderNext DEF ReadHit, Result, TypeOK
    <2>4. QED
      BY <1>1, <2>1, <2>2, <2>3, LruIsOrderNext DEF ReadHit, WithinCapacity
  <1>2. ASSUME NEW s \in Sectors, ReadSectors(s)
        PROVE  LruInv'
    BY <1>2 DEF ReadSectors, Result, TypeOK, LruIsTotalOrder, WithinCapacity, Cached
  <1>3. ASSUME NEW s \in Sectors, MarkSectorDirty(s) \/ MarkSectorClean(s)
        PROVE  LruInv'
    <2>1. dirty' \subseteq Sectors
      BY <1>3 DEF MarkSectorDirty, MarkSectorClean, TypeOK
    <2>2. UNCHANGED <<cacheData, newer, enabled, maxEntries, volume, device, out>>
      BY <1>3 DEF MarkSectorDirty, MarkSectorClean
    <2>3. QED
      BY <2>1, <2>2 DEF TypeOK, LruIsTotalOrder, WithinCapacity, Cached
  <1>4. ASSUME NEW s \in Sectors, NEW ok \in SUBSET Sectors, ReadMiss(s, ok)
        PROVE  LruInv'
    <2>1. device[volume][s] \in Data
      BY <1>4 DEF ReadMiss, TypeOK
    <2>2. CASE enabled
      <3>1. Put(s, device[volume][s], FALSE, ok) /\ maxEntries' = maxEntries
        BY <1>4, <2>2 DEF ReadMiss
      <3>2. QED
        BY <1>4, <2>1, <3>1, PutStructure DEF ReadMiss, Result, TypeOK
    <2>3. CASE ~enabled
      BY <1>4, <2>1, <2>3
      DEF ReadMiss, Result, TypeOK, LruIsTotalOrder, WithinCapacity, Cached
    <2>4. QED
      BY <2>2, <2>3
  <1>5. ASSUME NEW s \in Sectors, NEW d \in Data, NEW ok \in SUBSET Sectors,
               WriteSector(s, d, ok)
        PROVE  LruInv'
    <2>1. CASE enabled
      <3>1. Put(s, d, TRUE, ok) /\ maxEntries' = maxEntries
        BY <1>5, <2>1 DEF WriteSector
      <3>2. QED
        BY <1>5, <3>1, PutStructure DEF WriteSector, TypeOK
    <2>2. CASE ~enabled
      BY <1>5, <2>2 DEF WriteSector, TypeOK, LruIsTotalOrder, WithinCapacity, Cached
    <2>3. QED
      BY <2>1, <2>2
  <1>6. ASSUME NEW v \in Volumes \cup {Closed}, NEW ok \in SUBSET Sectors, Open(v, ok)
        PROVE  LruInv'
    <2>1. device' \in [Volumes -> [Sectors -> Data]]
      <3>1. dirty \cap Cached \cap ok \in SUBSET Cached
        OBVIOUS
      <3>2. QED
        BY <1>6, <3>1, DeviceType DEF Open, Flush
    <2>2. QED
      BY <1>6, <2>1 DEF Open, Flush, TypeOK, LruIsTotalOrder, WithinCapacity, Cached
  <1>7. ASSUME NEW keys \in SUBSET Sectors, Invalidate(keys)
        PROVE  LruInv'
    <2>1. UNCHANGED <<dirty, enabled, maxEntries, volume, device, out>>
      BY <1>7 DEF Invalidate
    <2>2. /\ cacheData' \in [Sectors -> Data \cup {Absent}]
          /\ newer' \subseteq Cached' \X Cached'
          /\ LruIsTotalOrder'
          /\ Cardinality(Cached') \in Nat
          /\ Cardinality(Cached') <= Cardinality(Cached)
          /\ Cached' = Cached \ keys
      BY <1>7, DropStructure DEF Invalidate
    <2>3. WithinCapacity'
      <3>1. CASE Cardinality(Cached) <= maxEntries
        BY <2>1, <2>2, <3>1, CachedFinite DEF WithinCapacity, TypeOK
      <3>2. CASE maxEntries = 0 /\ Cardinality(Cached) = 1
        <4>1. Cardinality(Cached') = 0 \/ Cardinality(Cached') = 1
          BY <2>2, <3>2
        <4>2. QED
          BY <2>1, <3>2, <4>1 DEF WithinCapacity
      <3>3. QED
        BY <3>1, <3>2 DEF WithinCapacity
    <2>4. QED
      BY <2>1, <2>2, <2>3 DEF TypeOK
  <1>8. ASSUME NEW e \in BOOLEAN, EnableCache(e)
        PROVE  LruInv'
    BY <1>8 DEF EnableCache, TypeOK, LruIsTotalOrder, WithinCapacity, Cached
  <1>9. ASSUME NEW cap \in Capacities, NEW ok \in SUBSET Sectors, SetCacheSize(cap, ok)
        PROVE  LruInv'
    <2>1. PICK gone \in SUBSET Cached :
            /\ Cardinality(Cached \ gone) <= cap
            /\ maxEntries' = cap
            /\ WriteVictims(gone, ok)
            /\ cacheData' = [s \in Sectors |-> IF s \in gone THEN Absent ELSE cacheData[s]]
            /\ newer' = Without(newer, gone)
            /\ dirty' = dirty \ gone
            /\ UNCHANGED <<enabled, volume, out>>
      BY <1>9 DEF SetCacheSize
    <2>2. /\ cacheData' \in [Sectors -> Data \cup {Absent}]
          /\ newer' \subseteq Cached' \X Cached'
          /\ LruIsTotalOrder'
          /\ Cached' = Cached \ gone
      BY <1>0, <2>1, DropStructure
    <2>3. device' \in [Volumes -> [Sectors -> Data]]
      <3>1. gone \cap dirty \cap ok \in SUBSET Cached
        OBVIOUS
      <3>2. QED
        BY <2>1, <3>1, DeviceType DEF WriteVictims
    <2>4. QED
      BY <2>1, <2>2, <2>3, CacheAssumption DEF TypeOK, WithinCapacity
  <1>10. ASSUME NEW ok \in SUBSET Sectors, FlushCache(ok)
         PROVE  LruInv'
    <2>1. device' \in [Volumes -> [Sectors -> Data]]
      <3>1. dirty \cap Cached \cap ok \in SUBSET Cached
        OBVIOUS
      <3>2. QED
        BY <1>10, <3>1, DeviceType DEF FlushCache, Flush
    <2>2. QED
      BY <1>10, <2>1 DEF FlushCache, Flush, TypeOK, LruIsTotalOrder, WithinCapacity, Cached
  <1>11. ASSUME NEW ok \in SUBSET Sectors, Exit(ok)
         PROVE  LruInv'
    <2>1. dirty \cap Cached \cap ok \in SUBSET Cached
      OBVIOUS
    <2>2. device' \in [Volumes -> [Sectors -> Data]]
      BY <1>11, <2>1, DeviceType DEF Exit
    <2>3. QED
      BY <1>11, <2>2, ForgetStructure DEF Exit
  <1>12. ASSUME NEW S \in SUBSET Sectors, NEW d \in Data, WriteSectors(S, d)
         PROVE  LruInv'
    <2>1. device' \in [Volumes -> [Sectors -> Data]]
      BY <1>12 DEF WriteSectors, TypeOK
    <2>2. QED
      BY <1>12, <2>1 DEF WriteSectors, TypeOK, LruIsTotalOrder, WithinCapacity, Cached
  <1>13. CASE Crash
    BY <1>13, ForgetStructure DEF Crash, TypeOK
  <1>14. CASE UNCHANGED vars
    BY <1>14 DEF vars, TypeOK, LruIsTotalOrder, WithinCapacity, Cached
  <1>15. QED
    BY <1>1, <1>2, <1>3, <1>4, <1>5, <1>6, <1>7, <1>8, <1>9, <1>10, <1>11, <1>12, <1>13,
       <1>14 DEF ApiNext

\* The variables keep their types, and the list holds cached keys only: under the whole
\* interface with writes that fail, and so under the shell's operations.
THEOREM TypeCorrect == (ApiSpec => []TypeOK) /\ (Spec => []TypeOK)
  <1>1. LruInv => TypeOK
    BY DEF LruInv
  <1>2. [Next]_vars => [ApiNext]_vars
    BY DEF Next, ApiNext
  <1>3. ApiSpec => []TypeOK
    BY <1>1, LruInit, LruStep, PTL DEF ApiSpec
  <1>4. Spec => []TypeOK
    BY <1>1, <1>2, LruInit, LruStep, PTL DEF Spec
  <1>5. QED
    BY <1>3, <1>4

\* Under every sequence of operations of the cache and its device, failures
\* included, the list stays a total order of the cached sectors.
THEOREM ListStaysTotal == ApiSpec => []LruIsTotalOrder
  <1>1. LruInv => LruIsTotalOrder
    BY DEF LruInv
  <1>2. QED
    BY <1>1, LruInit, LruStep, PTL DEF ApiSpec

\* ... and the cache within its capacity: a full cache always finds a victim.
THEOREM CacheStaysWithinCapacity == ApiSpec => []WithinCapacity
  <1>1. LruInv => WithinCapacity
    BY DEF LruInv
  <1>2. QED
    BY <1>1, LruInit, LruStep, PTL DEF ApiSpec

-----------------------------------------------------------------------------
(* The contents, on a healthy device and with one volume per process.      *)

\* What makes a clean copy droppable: nothing is cached while no volume is open
\* (a new process starts empty), and the shell never disables the cache.
ContentInv ==
  /\ LruInv
  /\ CleanMatchesDevice
  /\ volume = Closed => Cached = {}
  /\ enabled = TRUE

LEMMA ShellStepIsApiStep == [Next]_vars => [ApiNext]_vars
  BY DEF Next, ApiNext

\* What a put on a healthy device does to the medium and to what is visible.
LEMMA PutContents ==
  ASSUME ContentInv, volume \in Volumes, NEW key \in Sectors, NEW d \in Data,
         NEW isDirty \in BOOLEAN, isDirty \/ d = device[volume][key],
         Put(key, d, isDirty, Sectors), volume' = volume
  PROVE  /\ device' = [device EXCEPT ![volume] =
                         [s \in Sectors |-> IF s \in Victims(key) \cap dirty
                                            THEN Visible[volume][s] ELSE @[s]]]
         /\ Visible' = [Visible EXCEPT ![volume][key] = d]
         /\ CleanMatchesDevice'
  <1> USE DEF ContentInv, LruInv
  <1> DEFINE gone == Victims(key)
             W == gone \cap dirty
  <1>1. gone \subseteq Cached /\ key \notin gone
    BY VictimsAre
  <1>2. Cached' = (Cached \ gone) \cup {key}
    BY PutCached
  <1>3. volume # Closed
    BY CacheAssumption
  <1> HIDE DEF gone
  <1>4. \A s \in W : s \in Sectors /\ Visible[volume][s] = cacheData[s]
    BY <1>1 DEF Visible, Cached
  <1>5. WriteSectorsDirect(W \cap Sectors)
    <2>1. gone \cap dirty \cap Sectors = W \cap Sectors
      OBVIOUS
    <2>2. QED
      BY <2>1 DEF Put, WriteVictims, gone
  <1>6. W \cap Sectors = W
    BY <1>4
  <1>7. device' = [device EXCEPT ![volume] =
                     [s \in Sectors |-> IF s \in W THEN cacheData[s] ELSE @[s]]]
    BY <1>3, <1>5, <1>6 DEF WriteSectorsDirect
  <1>8. \A s \in Sectors : device'[volume][s] = IF s \in W THEN cacheData[s]
                                                ELSE device[volume][s]
    BY <1>7 DEF TypeOK
  <1>9. \A v \in Volumes \ {volume} : device'[v] = device[v]
    BY <1>7 DEF TypeOK
  <1>10. \A s \in Sectors : cacheData'[s] = IF s = key THEN d
                              ELSE IF s \in gone THEN Absent ELSE cacheData[s]
    BY DEF Put, gone
  <1>11. dirty' = (dirty \ gone) \cup (IF isDirty THEN {key} ELSE {})
    BY DEF Put, gone
  <1>12. device' = [device EXCEPT ![volume] =
                      [s \in Sectors |-> IF s \in W THEN Visible[volume][s] ELSE @[s]]]
    <2>1. [s \in Sectors |-> IF s \in W THEN cacheData[s] ELSE device[volume][s]]
            = [s \in Sectors |-> IF s \in W THEN Visible[volume][s] ELSE device[volume][s]]
      BY <1>4
    <2>2. QED
      BY <1>7, <2>1 DEF TypeOK
  <1>13. CleanMatchesDevice'
    <2> SUFFICES ASSUME NEW s \in Cached' \ dirty'
                 PROVE  cacheData'[s] = device'[volume][s]
      BY <1>3 DEF CleanMatchesDevice
    <2>1. CASE s = key
      <3>1. d = device[volume][key]
        BY <1>11, <2>1
      <3>2. QED
        BY <1>1, <1>8, <1>10, <2>1, <3>1
    <2>2. CASE s # key
      <3>1. s \in Cached \ gone /\ s \notin dirty /\ s \in Sectors
        BY <1>2, <1>11, <2>2 DEF Cached
      <3>2. QED
        BY <1>8, <1>10, <2>2, <3>1 DEF CleanMatchesDevice
    <2>3. QED
      BY <2>1, <2>2
  <1>14. \A s \in Sectors : Visible'[volume][s] = IF s = key THEN d ELSE Visible[volume][s]
    <2> SUFFICES ASSUME NEW s \in Sectors
                 PROVE  Visible'[volume][s] = IF s = key THEN d ELSE Visible[volume][s]
      OBVIOUS
    <2>1. Visible'[volume][s] = IF s \in Cached' THEN cacheData'[s] ELSE device'[volume][s]
      BY DEF Visible
    <2>2. Visible[volume][s] = IF s \in Cached THEN cacheData[s] ELSE device[volume][s]
      BY DEF Visible
    <2>3. CASE s = key
      BY <1>2, <1>10, <2>1, <2>3
    <2>4. CASE s # key /\ s \in gone
      BY <1>1, <1>2, <1>8, <2>1, <2>2, <2>4 DEF CleanMatchesDevice
    <2>5. CASE s # key /\ s \notin gone
      BY <1>2, <1>8, <1>10, <2>1, <2>2, <2>5
    <2>6. QED
      BY <2>3, <2>4, <2>5
  <1>15. \A v \in Volumes \ {volume} : Visible'[v] = Visible[v]
    <2> SUFFICES ASSUME NEW v \in Volumes \ {volume}
                 PROVE  Visible'[v] = Visible[v]
      OBVIOUS
    <2>1. Visible'[v] = [s \in Sectors |-> device'[v][s]]
      BY DEF Visible
    <2>2. Visible[v] = [s \in Sectors |-> device[v][s]]
      BY DEF Visible
    <2>3. QED
      BY <1>9, <2>1, <2>2
  <1>16. Visible' = [Visible EXCEPT ![volume][key] = d]
    <2>1. /\ Visible \in [Volumes -> [Sectors -> Data]]
          /\ Visible' = [v \in Volumes |-> Visible'[v]]
          /\ Visible'[volume] = [s \in Sectors |-> Visible'[volume][s]]
      BY DEF Visible, Cached, TypeOK
    <2>2. Visible'[volume] = [Visible[volume] EXCEPT ![key] = d]
      BY <1>14, <2>1
    <2>3. QED
      BY <1>15, <2>1, <2>2
  <1>17. QED
    BY <1>12, <1>13, <1>16 DEF gone

\* Writing every dirty sector back makes the medium equal to what is visible.
LEMMA FlushContents ==
  ASSUME ContentInv, WriteSectorsDirect(dirty \cap Cached \cap Sectors)
  PROVE  device' = Visible
  <1> USE DEF ContentInv, LruInv
  <1>1. Visible \in [Volumes -> [Sectors -> Data]]
    BY DEF Visible, Cached, TypeOK
  <1>2. CASE volume = Closed
    <2>1. Visible = device
      BY <1>2 DEF Visible, TypeOK
    <2>2. QED
      BY <1>2, <2>1 DEF WriteSectorsDirect
  <1>3. CASE volume # Closed
    <2>1. [s \in Sectors |-> IF s \in dirty \cap Cached \cap Sectors
                             THEN cacheData[s] ELSE device[volume][s]] = Visible[volume]
      BY <1>3 DEF Visible, CleanMatchesDevice, TypeOK
    <2>2. \A v \in Volumes \ {volume} : Visible[v] = device[v]
      BY DEF Visible, TypeOK
    <2>3. device' = [device EXCEPT ![volume] = Visible[volume]]
      BY <1>3, <2>1 DEF WriteSectorsDirect, TypeOK
    <2>4. device' \in [Volumes -> [Sectors -> Data]]
      BY <1>1, <2>3 DEF TypeOK
    <2>5. \A v \in Volumes : device'[v] = Visible[v]
      BY <1>1, <2>2, <2>3 DEF TypeOK
    <2>6. QED
      BY <1>1, <2>4, <2>5
  <1>4. QED
    BY <1>2, <1>3

\* With nothing cached, the medium is what is visible.
LEMMA ForgottenContents ==
  ASSUME Forget, device' \in [Volumes -> [Sectors -> Data]]
  PROVE  Visible' = device' /\ Cached' = {}
  <1>1. Cached' = {}
    BY DEF Forget, Cached
  <1>2. Visible' = [v \in Volumes |-> [s \in Sectors |-> device'[v][s]]]
    BY <1>1 DEF Visible
  <1>3. QED
    BY <1>1, <1>2

LEMMA ContentInit == Init => ContentInv
  <1> SUFFICES ASSUME Init PROVE ContentInv
    OBVIOUS
  <1>1. Cached = {}
    BY DEF Init, Cached
  <1>2. QED
    BY <1>1, LruInit DEF Init, ContentInv, CleanMatchesDevice

\* Every step of the shell keeps the invariant and is a step of the store.
LEMMA ContentStep ==
  ContentInv /\ [Next]_vars => ContentInv' /\ [Store!Next]_(Store!vars)
  <1> SUFFICES ASSUME ContentInv, [Next]_vars
               PROVE  ContentInv' /\ [Store!Next]_(Store!vars)
    OBVIOUS
  <1> USE DEF ContentInv
  <1>0. LruInv'
    BY LruStep, ShellStepIsApiStep
  <1>1. /\ TypeOK
        /\ volume = Closed \/ volume \in Volumes
        /\ device \in [Volumes -> [Sectors -> Data]]
        /\ Visible \in [Volumes -> [Sectors -> Data]]
    BY DEF LruInv, TypeOK, Visible, Cached
  <1>2. ASSUME NEW s \in Sectors, ReadHit(s)
        PROVE  ContentInv' /\ Store!Next
    <2>1. volume \in Volumes
      BY <1>1, <1>2 DEF ReadHit
    <2>2. Visible' = Visible /\ Cached' = Cached
      BY <1>2 DEF ReadHit, Visible, Cached
    <2>3. out' = [volume |-> volume, sector |-> s, value |-> Visible[volume][s]]
      BY <1>2, <2>1 DEF ReadHit, Result, Visible
    <2>4. device' = [device EXCEPT ![volume] =
                       [t \in Sectors |-> IF t \in {} THEN Visible[volume][t] ELSE @[t]]]
      BY <1>1, <1>2, <2>1 DEF ReadHit
    <2>5. Store!WriteBack(volume)
      BY <2>4 DEF Store!WriteBack
    <2>6. Store!Read(volume, s)
      BY <2>2, <2>3, <2>5 DEF Store!Read
    <2>7. ContentInv'
      BY <1>0, <1>2, <2>2 DEF ReadHit, CleanMatchesDevice
    <2>8. QED
      BY <2>1, <2>6, <2>7 DEF Store!Next
  <1>3. ASSUME NEW s \in Sectors, volume # Closed, ReadMiss(s, Sectors)
        PROVE  ContentInv' /\ Store!Next
    <2>1. volume \in Volumes /\ s \notin Cached
      BY <1>1, <1>3 DEF ReadMiss
    <2>2. Visible[volume][s] = device[volume][s] /\ device[volume][s] \in Data
      BY <1>1, <2>1 DEF Visible
    <2>3. /\ device' = [device EXCEPT ![volume] =
                          [t \in Sectors |-> IF t \in Victims(s) \cap dirty
                                             THEN Visible[volume][t] ELSE @[t]]]
          /\ Visible' = [Visible EXCEPT ![volume][s] = device[volume][s]]
          /\ CleanMatchesDevice'
      <3>1. Put(s, device[volume][s], FALSE, Sectors) /\ volume' = volume
        BY <1>3 DEF ReadMiss
      <3>2. QED
        BY <2>1, <2>2, <3>1, PutContents
    <2>4. Visible' = Visible
      BY <1>1, <2>1, <2>2, <2>3
    <2>5. out' = [volume |-> volume, sector |-> s, value |-> Visible[volume][s]]
      BY <1>3, <2>2 DEF ReadMiss, Result
    <2>6. Store!WriteBack(volume)
      <3>1. Victims(s) \cap dirty \in SUBSET Sectors
        BY <1>1 DEF TypeOK
      <3> DEFINE W == Victims(s) \cap dirty
      <3> HIDE DEF W
      <3>2. device' = [device EXCEPT ![volume] =
                         [t \in Sectors |-> IF t \in W THEN Visible[volume][t] ELSE @[t]]]
        BY <2>3 DEF W
      <3>3. QED
        BY <3>1, <3>2 DEF Store!WriteBack, W
    <2>7. Store!Read(volume, s)
      BY <2>4, <2>5, <2>6 DEF Store!Read
    <2>8. ContentInv'
      BY <1>0, <1>3, <2>3 DEF ReadMiss
    <2>9. QED
      BY <2>1, <2>7, <2>8 DEF Store!Next
  <1>4. ASSUME NEW s \in Sectors, NEW d \in Data, volume # Closed,
               WriteSector(s, d, Sectors)
        PROVE  ContentInv' /\ Store!Next
    <2>1. volume \in Volumes
      BY <1>1, <1>4
    <2>2. /\ device' = [device EXCEPT ![volume] =
                          [t \in Sectors |-> IF t \in Victims(s) \cap dirty
                                             THEN Visible[volume][t] ELSE @[t]]]
          /\ Visible' = [Visible EXCEPT ![volume][s] = d]
          /\ CleanMatchesDevice'
      <3>1. Put(s, d, TRUE, Sectors) /\ volume' = volume
        BY <1>4 DEF WriteSector
      <3>2. QED
        BY <2>1, <3>1, PutContents
    <2>3. Store!WriteBack(volume)
      <3>1. Victims(s) \cap dirty \in SUBSET Sectors
        BY <1>1 DEF TypeOK
      <3> DEFINE W == Victims(s) \cap dirty
      <3> HIDE DEF W
      <3>2. device' = [device EXCEPT ![volume] =
                         [t \in Sectors |-> IF t \in W THEN Visible[volume][t] ELSE @[t]]]
        BY <2>2 DEF W
      <3>3. QED
        BY <3>1, <3>2 DEF Store!WriteBack, W
    <2>4. Store!Write(volume, s, d)
      BY <1>4, <2>2, <2>3 DEF WriteSector, Store!Write
    <2>5. ContentInv'
      BY <1>0, <1>4, <2>2 DEF WriteSector
    <2>6. QED
      BY <2>1, <2>4, <2>5 DEF Store!Next
  <1>5. ASSUME NEW v \in Volumes, volume \in {v, Closed}, Open(v, Sectors)
        PROVE  ContentInv' /\ [Store!Next]_(Store!vars)
    <2>1. device' = Visible
      BY <1>5, FlushContents DEF Open, Flush
    <2>2. Cached' = Cached
      BY <1>5 DEF Open, Cached
    <2>3. Visible' = Visible
      <3>1. CASE volume = Closed
        BY <1>5, <2>1, <2>2, <3>1 DEF Open, Visible
      <3>2. CASE volume = v
        BY <1>5, <2>1, <2>2, <3>2 DEF Open, Visible
      <3>3. QED
        BY <1>5, <3>1, <3>2
    <2>4. ContentInv'
      <3>1. \A s \in Cached' : cacheData'[s] = device'[v][s]
        BY <1>5, <2>1, <2>2 DEF Open, Visible, Cached
      <3>2. QED
        BY <1>0, <1>5, <3>1, CacheAssumption DEF Open, CleanMatchesDevice
    <2>5. CASE volume = v
      <3>1. device' = [device EXCEPT ![v] = Visible[v]]
        <4>1. \A u \in Volumes \ {v} : Visible[u] = device[u]
          BY <1>1, <2>5 DEF Visible
        <4>2. QED
          BY <1>1, <2>1, <4>1
      <3>2. Store!Sync(v)
        BY <1>5, <2>3, <3>1 DEF Open, Store!Sync
      <3>3. QED
        BY <2>4, <3>2 DEF Store!Next
    <2>6. CASE volume = Closed
      <3>1. Visible = device
        BY <1>1, <2>6 DEF Visible
      <3>2. UNCHANGED Store!vars
        BY <1>5, <2>1, <2>3, <3>1 DEF Open, Store!vars
      <3>3. QED
        BY <2>4, <3>2
    <2>7. QED
      BY <1>5, <2>5, <2>6
  <1>6. ASSUME volume # Closed, Exit(Sectors)
        PROVE  ContentInv' /\ Store!Next
    <2>1. device' = Visible
      BY <1>6, FlushContents DEF Exit
    <2>2. Visible' = device' /\ Cached' = {}
      BY <1>1, <1>6, <2>1, ForgottenContents DEF Exit
    <2>3. device' = [device EXCEPT ![volume] = Visible[volume]]
      <3>1. \A u \in Volumes \ {volume} : Visible[u] = device[u]
        BY <1>1 DEF Visible
      <3>2. QED
        BY <1>1, <2>1, <3>1
    <2>4. Store!Sync(volume)
      BY <1>6, <2>1, <2>2, <2>3 DEF Exit, Forget, Store!Sync
    <2>5. ContentInv'
      BY <1>0, <1>6, <2>2 DEF Exit, Forget, CleanMatchesDevice
    <2>6. QED
      BY <1>1, <1>6, <2>4, <2>5 DEF Store!Next
  <1>7. ASSUME volume # Closed, Crash
        PROVE  ContentInv' /\ Store!Next
    <2>1. Visible' = device' /\ Cached' = {}
      BY <1>1, <1>7, ForgottenContents DEF Crash
    <2>2. Store!Crash
      BY <1>7, <2>1 DEF Crash, Forget, Store!Crash
    <2>3. ContentInv'
      BY <1>0, <1>7, <2>1 DEF Crash, Forget, CleanMatchesDevice
    <2>4. QED
      BY <2>2, <2>3 DEF Store!Next
  <1>8. CASE UNCHANGED vars
    BY <1>0, <1>8 DEF vars, CleanMatchesDevice, Cached, Visible, Store!vars
  <1>9. QED
    BY <1>2, <1>3, <1>4, <1>5, <1>6, <1>7, <1>8 DEF Next

\* On a healthy device a clean copy is always what the open volume holds.
THEOREM CleanCopiesAreTheVolumes == Spec => []CleanMatchesDevice
  <1>1. ContentInv => CleanMatchesDevice
    BY DEF ContentInv
  <1>2. QED
    BY <1>1, ContentInit, ContentStep, PTL DEF Spec

\* The cache implements the store it promises: evictions and write-backs are
\* invisible, an orderly exit loses nothing, a crash only what was dirty.
THEOREM CacheImplementsStore == Spec => StoreSpec
  <1>1. Init => Store!Init
    <2> SUFFICES ASSUME Init PROVE Store!Init
      OBVIOUS
    <2>1. Cached = {}
      BY DEF Init, Cached
    <2>2. Visible = device
      BY <2>1 DEF Init, Visible
    <2>3. QED
      BY <2>2 DEF Init, Store!Init, Store!Contents
  <1>2. QED
    BY <1>1, ContentInit, ContentStep, PTL DEF Spec, StoreSpec, Store!Spec

-----------------------------------------------------------------------------
(* One reader at a time.                                                   *)

\* No worker is between the steps of a read while another one is.
OneBusy == \A v, w \in Workers : step[v] # "idle" /\ step[w] # "idle" => v = w

\* What a worker has read so far, with nobody moving the pointer in between.
ReaderInv ==
  /\ step \in [Workers -> {"idle", "seek", "read", "put", "write"}]
  /\ sector \in [Workers -> Sectors \cup {0}]
  /\ buffer \in [Workers -> Data \cup {NoData}]
  /\ \A w \in Workers : step[w] # "idle" =>
       /\ volume # Closed /\ sector[w] \in Sectors \ Cached
       /\ step[w] = "read" => position = sector[w]
       /\ step[w] \in {"put", "write"} => buffer[w] = device[volume][sector[w]]
       /\ step[w] = "write" => position \in DirtyVictims(w)

\* A put evicts at most one entry.
LEMMA OneVictim ==
  ASSUME ContentInv, NEW key \in Sectors, NEW s \in Victims(key)
  PROVE  Victims(key) = {s} /\ s \in Sectors /\ s # key
  BY VictimsAre DEF ContentInv, LruInv, Cached

\* The last step of a read is the read as SectorCache has it.
LEMMA PutIsRead ==
  ASSUME ContentInv, ReaderInv, NEW w \in Workers, PutRead(w), DirtyVictims(w) = {}
  PROVE  \E s \in Sectors : volume # Closed /\ ReadMiss(s, Sectors)
<1>1. /\ step[w] = "put" /\ Put(sector[w], buffer[w], FALSE, Sectors)
      /\ out' = Result(sector[w], buffer[w]) /\ UNCHANGED <<enabled, maxEntries, volume>>
  BY DEF PutRead
<1>2. volume # Closed /\ sector[w] \in Sectors \ Cached /\ buffer[w] = device[volume][sector[w]]
  BY <1>1 DEF ReaderInv
<1>3. enabled = TRUE
  BY DEF ContentInv
<1>4. ReadMiss(sector[w], Sectors)
  BY <1>1, <1>2, <1>3 DEF ReadMiss
<1> QED BY <1>2, <1>4

LEMMA WriteVictimIsRead ==
  ASSUME ContentInv, ReaderInv, NEW w \in Workers, WriteVictim(w)
  PROVE  \E s \in Sectors : volume # Closed /\ ReadMiss(s, Sectors)
<1> DEFINE key == sector[w]
           gone == Victims(key)
<1>1. step[w] = "write"
  BY DEF WriteVictim
<1>2. /\ volume # Closed /\ key \in Sectors \ Cached /\ buffer[w] = device[volume][key]
      /\ position \in gone /\ position \in dirty
  BY <1>1 DEF ReaderInv, DirtyVictims
<1>3. gone = {position} /\ position \in Sectors
  BY <1>2, OneVictim
<1>4. WriteVictims(gone, Sectors)
  <2>1. device' = [device EXCEPT ![volume][position] = cacheData[position]]
    BY <1>3 DEF WriteVictim
  <2>2. device \in [Volumes -> [Sectors -> Data]] /\ volume \in Volumes
    BY <1>2 DEF ContentInv, LruInv, TypeOK
  <2>3. gone \cap dirty \cap Sectors = {position}
    BY <1>2, <1>3
  <2>4. [device[volume] EXCEPT ![position] = cacheData[position]]
          = [s \in Sectors |-> IF s \in {position} THEN cacheData[s] ELSE device[volume][s]]
    BY <1>3, <2>2
  <2> HIDE DEF gone
  <2>5. device' = [device EXCEPT ![volume] =
                     [s \in Sectors |-> IF s \in {position} THEN cacheData[s] ELSE @[s]]]
    BY <2>1, <2>2, <2>4
  <2> QED BY <1>2, <2>3, <2>5 DEF WriteVictims, WriteSectorsDirect
<1>5. Put(key, buffer[w], FALSE, Sectors)
  <2>1. /\ cacheData' = [s \in Sectors |-> IF s = key THEN buffer[w]
                                           ELSE IF s \in gone THEN Absent ELSE cacheData[s]]
        /\ newer' = ToFront(Without(newer, gone), Cached \ gone, key)
        /\ dirty' = dirty \ gone
    BY DEF WriteVictim
  <2> HIDE DEF gone
  <2>2. gone = Victims(key)
    BY DEF gone
  <2> QED BY <1>4, <2>1, <2>2 DEF Put
<1>6. out' = Result(key, buffer[w]) /\ UNCHANGED <<enabled, maxEntries, volume>>
  BY DEF WriteVictim
<1>7. enabled = TRUE
  BY DEF ContentInv
<1>8. ReadMiss(key, Sectors)
  BY <1>2, <1>5, <1>6, <1>7 DEF ReadMiss
<1> QED BY <1>2, <1>8

\* One reader's steps are the shell's, or none of its variables change.
LEMMA ReaderSteps ==
  ASSUME ContentInv, ReaderInv, OneBusy, OneBusy', ThreadsNext
  PROVE  ReaderInv' /\ [Next]_vars
<1>1. CASE (\A w \in Workers : step[w] = "idle") /\ Next /\ UNCHANGED threadVars
  <2>1. step' = step /\ sector' = sector /\ buffer' = buffer
    BY <1>1 DEF threadVars
  <2>2. \A w \in Workers : step'[w] = "idle"
    BY <1>1, <2>1
  <2>3. ReaderInv'
    BY <2>1, <2>2 DEF ReaderInv
  <2> QED BY <1>1, <2>3
<1>2. ASSUME NEW w \in Workers, NEW s \in Sectors, Get(w, s)
      PROVE  ReaderInv' /\ [Next]_vars
  <2>1. CASE ReadHit(s) /\ UNCHANGED threadVars
    <3>1. cacheData' = cacheData /\ Cached' = Cached /\ volume' = volume /\ device' = device /\ dirty' = dirty
      BY <2>1 DEF ReadHit, Cached
    <3>2. step' = step /\ sector' = sector /\ buffer' = buffer /\ position' = position
      BY <2>1 DEF threadVars
    <3>3. \A v \in Workers : step[v] # "write"
      BY <1>2 DEF Get, Locked
    <3>4. ReaderInv'
      BY <3>1, <3>2, <3>3 DEF ReaderInv
    <3> QED BY <2>1, <3>4 DEF Next
  <2>2. CASE /\ s \notin Cached /\ Goto(w, "seek") /\ sector' = [sector EXCEPT ![w] = s]
             /\ UNCHANGED <<vars, position, buffer>>
    <3>1. step' = [step EXCEPT ![w] = "seek"] /\ buffer' = buffer
      BY <2>2 DEF Goto
    <3>2. cacheData' = cacheData /\ Cached' = Cached /\ volume' = volume
      BY <2>2 DEF vars, Cached
    <3>3. \A v \in Workers : step'[v] # "idle" => v = w
      BY <3>1 DEF OneBusy, ReaderInv
    <3>4. volume # Closed /\ s \in Sectors \ Cached
      BY <1>2, <2>2 DEF Get
    <3>5. step'[w] = "seek" /\ sector'[w] = s
      BY <2>2, <3>1 DEF ReaderInv
    <3>6. /\ step' \in [Workers -> {"idle", "seek", "read", "put", "write"}]
          /\ sector' \in [Workers -> Sectors \cup {0}]
          /\ buffer' \in [Workers -> Data \cup {NoData}]
      BY <2>2, <3>1 DEF ReaderInv
    <3>7. ReaderInv'
      BY <3>2, <3>3, <3>4, <3>5, <3>6 DEF ReaderInv
    <3> QED BY <2>2, <3>7
  <2> QED BY <1>2, <2>1, <2>2 DEF Get
<1>3. ASSUME NEW w \in Workers, Seek(w) \/ Read(w) \/ (PutRead(w) /\ DirtyVictims(w) # {})
      PROVE  ReaderInv' /\ [Next]_vars
  <2>1. vars' = vars
    BY <1>3 DEF Seek, Read, PutRead
  <2>2. /\ cacheData' = cacheData /\ Cached' = Cached /\ volume' = volume /\ device' = device
        /\ dirty' = dirty
    BY <2>1 DEF vars, Cached
  <2>3. step[w] # "idle" /\ \A v \in Workers : v # w => step[v] = "idle"
    BY <1>3 DEF OneBusy, Seek, Read, PutRead
  <2>4. volume # Closed /\ sector[w] \in Sectors \ Cached /\ sector' = sector
    BY <1>3, <2>3 DEF ReaderInv, Seek, Read, PutRead
  <2>5. volume \in Volumes /\ device \in [Volumes -> [Sectors -> Data]]
    BY <2>4 DEF ContentInv, LruInv, TypeOK
  <2>6. CASE Seek(w)
    <3>1. step' = [step EXCEPT ![w] = "read"] /\ position' = sector[w] /\ buffer' = buffer
      BY <2>6 DEF Seek, Goto
    <3> QED BY <2>1, <2>2, <2>3, <2>4, <3>1 DEF ReaderInv
  <2>7. CASE Read(w)
    <3>1. position = sector[w]
      BY <2>7 DEF Read, ReaderInv
    <3>2. /\ step' = [step EXCEPT ![w] = "put"]
          /\ buffer' = [buffer EXCEPT ![w] = device[volume][sector[w]]]
      BY <2>4, <2>7, <3>1 DEF Read, Goto
    <3>3. device[volume][sector[w]] \in Data
      BY <2>4, <2>5
    <3> QED BY <2>1, <2>2, <2>3, <2>4, <3>2, <3>3 DEF ReaderInv
  <2>8. CASE PutRead(w) /\ DirtyVictims(w) # {}
    <3>1. /\ step[w] = "put" /\ step' = [step EXCEPT ![w] = "write"] /\ buffer' = buffer
          /\ position' \in DirtyVictims(w)
      BY <2>8 DEF PutRead, Goto
    <3>2. DirtyVictims(w)' = DirtyVictims(w)
      BY <2>1, <2>2, <2>4 DEF DirtyVictims, Victims, IsOldest, vars
    <3> QED BY <2>1, <2>2, <2>3, <2>4, <3>1, <3>2 DEF ReaderInv
  <2> QED BY <1>3, <2>6, <2>7, <2>8
<1>4. ASSUME NEW w \in Workers, WriteVictim(w) \/ (PutRead(w) /\ DirtyVictims(w) = {})
      PROVE  ReaderInv' /\ [Next]_vars
  <2>1. step[w] # "idle" /\ \A v \in Workers : v # w => step[v] = "idle"
    BY <1>4 DEF OneBusy, WriteVictim, PutRead
  <2>2. step' = [step EXCEPT ![w] = "idle"] /\ sector' = sector /\ buffer' = buffer
    BY <1>4 DEF WriteVictim, PutRead, Goto
  <2>3. \A v \in Workers : step'[v] = "idle"
    BY <2>1, <2>2 DEF ReaderInv
  <2>4. ReaderInv'
    BY <2>2, <2>3 DEF ReaderInv
  <2>5. \E s \in Sectors : volume # Closed /\ ReadMiss(s, Sectors)
    BY <1>4, PutIsRead, WriteVictimIsRead
  <2> QED BY <2>4, <2>5 DEF Next
<1> QED BY <1>1, <1>2, <1>3, <1>4 DEF ThreadsNext

\* Readers that take turns are the shell's reads: fsck's workers with a lock around each
\* readSector, which the code does not have, or with one worker.
THEOREM TurnsAreReads == ThreadsSpec /\ []OneBusy => Spec /\ []ParallelReadsAreClean
<1>1. ThreadsInit => Init /\ ReaderInv /\ ContentInv
  <2> SUFFICES ASSUME ThreadsInit PROVE Init /\ ReaderInv /\ ContentInv
    OBVIOUS
  <2>1. Init /\ ContentInv
    BY ContentInit DEF ThreadsInit
  <2> QED BY <2>1 DEF ThreadsInit, ReaderInv
<1>2. ContentInv /\ ReaderInv /\ OneBusy /\ OneBusy' /\ [ThreadsNext]_<<vars, threadVars>>
        => ContentInv' /\ ReaderInv' /\ [Next]_vars
  <2> SUFFICES ASSUME ContentInv, ReaderInv, OneBusy, OneBusy', [ThreadsNext]_<<vars, threadVars>>
               PROVE  ContentInv' /\ ReaderInv' /\ [Next]_vars
    OBVIOUS
  <2>1. CASE ThreadsNext
    BY <2>1, ReaderSteps, ContentStep
  <2>2. CASE UNCHANGED <<vars, threadVars>>
    <3>1. UNCHANGED vars
      BY <2>2
    <3>2. /\ cacheData' = cacheData /\ newer' = newer /\ dirty' = dirty /\ volume' = volume
          /\ maxEntries' = maxEntries /\ device' = device
          /\ position' = position /\ step' = step /\ sector' = sector /\ buffer' = buffer
      BY <2>2 DEF vars, threadVars
    <3>3. ReaderInv'
      BY <3>2 DEF ReaderInv, DirtyVictims, Victims, IsOldest, Cached
    <3> QED BY <3>1, <3>3, ContentStep
  <2> QED BY <2>1, <2>2
<1>3. ContentInv => ParallelReadsAreClean
  BY DEF ContentInv, ParallelReadsAreClean
<1> QED BY <1>1, <1>2, <1>3, PTL DEF ThreadsSpec, Spec
=============================================================================
