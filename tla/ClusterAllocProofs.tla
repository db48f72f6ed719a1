------------------------- MODULE ClusterAllocProofs -------------------------
(***************************************************************************)
(* The allocator's properties, for every volume geometry, every set of     *)
(* owners and whatever the pool held when the volume was formatted.        *)
(*                                                                         *)
(* The volume is looked at through Entry(v, c) alone: each function of the *)
(* allocator is shown to change the entries of the clusters it is about    *)
(* and no other, LIT, pool and counters notwithstanding, and to keep the   *)
(* counters exact.  The steps are then composed of a few moves: a cluster  *)
(* is taken, linked, cut off or given back.  Last, every step is one of    *)
(* ClusterPool, for which a chain is the set of its clusters.              *)
(***************************************************************************)
EXTENDS ClusterAlloc, FiniteSetTheorems, SequenceTheorems, WellFoundedInduction, TLAPS

-----------------------------------------------------------------------------
(* Geometry.                                                               *)

LEMMA Positions ==
  ASSUME NEW c \in Clusters
  PROVE  Group(c) \in Groups /\ Offset(c) \in Offsets /\ Group(c) \in Pool
<1>1. c \in Nat /\ c < TotalClusters /\ PerLab \in Nat /\ PerLab > 0 /\ TotalClusters \in Nat
  BY AllocAssumption DEF Clusters
<1>2. Offset(c) \in Offsets
  BY <1>1 DEF Offset, Offsets
<1>3. Group(c) \in Pool
  <2>1. c \div PerLab \in Nat /\ PoolSize \in Int
    BY <1>1 DEF PoolSize
  <2>2. PerLab * (c \div PerLab) <= c
    BY <1>1
  <2>3. TotalClusters + PerLab - 1 < PerLab * PoolSize + PerLab
    BY <1>1 DEF PoolSize
  <2>4. c \div PerLab < PoolSize
    BY <1>1, <2>1, <2>2, <2>3
  <2> QED BY <2>1, <2>4 DEF Group, Pool
<1> QED BY <1>2, <1>3 DEF Groups

\* A group and an offset are one cluster.
LEMMA PositionsDiffer ==
  ASSUME NEW c \in Clusters, NEW d \in Clusters, Group(c) = Group(d), Offset(c) = Offset(d)
  PROVE  c = d
<1>1. c \in Nat /\ d \in Nat /\ PerLab \in Nat /\ PerLab > 0
  BY AllocAssumption DEF Clusters
<1>2. /\ c = PerLab * (c \div PerLab) + (c % PerLab)
      /\ d = PerLab * (d \div PerLab) + (d % PerLab)
  BY <1>1
<1> QED BY <1>2 DEF Group, Offset

LEMMA DataAreClusters == Data \subseteq Clusters /\ 0 \notin Data
  BY AllocAssumption DEF Data, Clusters

LEMMA DataFinite == IsFiniteSet(Data) /\ IsFiniteSet(Groups) /\ Cardinality(Groups) <= PoolSize
<1>1. IsFiniteSet(Data)
  BY FS_Interval, AllocAssumption DEF Data
<1>2. Groups \subseteq Pool
  BY Positions DEF Groups
<1>3. PoolSize \in Nat
  BY Positions, AllocAssumption DEF PoolSize
<1>4. IsFiniteSet(Pool) /\ Cardinality(Pool) = PoolSize
  BY <1>3, FS_Interval DEF Pool
<1> QED BY <1>1, <1>2, <1>4, FS_Subset

-----------------------------------------------------------------------------
(* The allocator's functions.                                              *)

VolType == [nextFreeLAB : Nat, freeClusterHint : Nat, totalFreeClusters : Int,
            lit : [Groups -> [lab : Nat \cup {LIT_EMPTY}, count : Nat]],
            lab : [Pool -> [Offsets -> LABEntry]]]

WithLab(v) == {g \in Groups : v.lit[g].lab # LIT_EMPTY}

LabsOK(v) ==
  /\ \A g \in Groups : v.lit[g].lab # LIT_EMPTY =>
       v.lit[g].lab \in Pool /\ v.lit[g].lab < v.nextFreeLAB
  /\ \A g, h \in Groups : v.lit[g].lab = v.lit[h].lab /\ g # h =>
       v.lit[g].lab = LIT_EMPTY

VolOK(v) ==
  /\ v \in VolType
  /\ LabsOK(v)
  /\ v.nextFreeLAB = Cardinality(WithLab(v))
  /\ \A g \in Groups : v.lit[g].lab = LIT_EMPTY => v.lit[g].count = 0

LEMMA EntryTypes ==
  /\ FreeEntry \in LABEntry /\ LastEntry \in LABEntry /\ FreeEntry # LastEntry
  /\ FreeEntry.next = LAT_FREE /\ FreeEntry.flags = 0
  /\ LastEntry.next = LAT_END /\ LastEntry.flags = LAT_FLAG_USED
  BY AllocAssumption DEF FreeEntry, LastEntry, LABEntry, LAT_FREE, LAT_END, LAT_FLAG_USED

LEMMA EntryType ==
  ASSUME NEW v, v \in VolType, NEW c \in Data
  PROVE  Entry(v, c) \in LABEntry
<1>1. Group(c) \in Groups /\ Offset(c) \in Offsets
  BY DataAreClusters, Positions
<1> QED BY <1>1, EntryTypes DEF Entry, VolType

\* A new LAB changes no entry: it is clear, as its group was before.
LEMMA CreateLABWorks ==
  ASSUME NEW v, VolOK(v), NEW g \in Groups
  PROVE  LET w == CreateLAB(v, g) IN
         /\ VolOK(w)
         /\ w.lit[g].lab \in Pool
         /\ \A c \in Data : Entry(w, c) = Entry(v, c)
         /\ \A h \in Groups : w.lit[h].count = v.lit[h].count
         /\ w.freeClusterHint = v.freeClusterHint
         /\ w.totalFreeClusters = v.totalFreeClusters
<1> DEFINE w == CreateLAB(v, g)
           n == v.nextFreeLAB
<1> SUFFICES /\ VolOK(w)
             /\ w.lit[g].lab \in Pool
             /\ \A c \in Data : Entry(w, c) = Entry(v, c)
             /\ \A h \in Groups : w.lit[h].count = v.lit[h].count
             /\ w.freeClusterHint = v.freeClusterHint
             /\ w.totalFreeClusters = v.totalFreeClusters
  OBVIOUS
<1>1. CASE v.lit[g].lab # LIT_EMPTY
  BY <1>1 DEF CreateLAB, VolOK, LabsOK
<1>2. CASE v.lit[g].lab = LIT_EMPTY
  <2>1. /\ v \in VolType /\ n \in Nat /\ n = Cardinality(WithLab(v))
        /\ \A h \in Groups : v.lit[h].lab \in Nat \cup {LIT_EMPTY} /\ v.lit[h].count \in Nat
    BY DEF VolOK, VolType
  <2>2. /\ IsFiniteSet(WithLab(v)) /\ g \notin WithLab(v)
        /\ IsFiniteSet(WithLab(v) \cup {g})
        /\ Cardinality(WithLab(v) \cup {g}) = n + 1
        /\ n + 1 <= Cardinality(Groups)
    <3>1. WithLab(v) \in SUBSET Groups /\ WithLab(v) \cup {g} \in SUBSET Groups
      BY DEF WithLab
    <3>2. IsFiniteSet(WithLab(v)) /\ IsFiniteSet(WithLab(v) \cup {g})
          /\ Cardinality(WithLab(v) \cup {g}) <= Cardinality(Groups)
      BY <3>1, DataFinite, FS_Subset
    <3>3. g \notin WithLab(v)
      BY <1>2 DEF WithLab
    <3>4. Cardinality(WithLab(v) \cup {g}) = n + 1
      BY <2>1, <3>2, <3>3, FS_AddElement
    <3> QED BY <3>2, <3>3, <3>4
  <2>3. n \in Pool /\ Cardinality(Groups) \in Nat /\ PoolSize \in Int
    <3>1. Cardinality(Groups) \in Nat
      BY DataFinite, FS_CardinalityType
    <3>2. PoolSize \in Int
      BY AllocAssumption DEF PoolSize
    <3> QED BY <2>1, <2>2, <3>1, <3>2, DataFinite DEF Pool
  <2> DEFINE clear == [i \in Offsets |-> FreeEntry]
             lit == [v.lit EXCEPT ![g] = [lab |-> n, count |-> 0]]
             lab == [v.lab EXCEPT ![n] = clear]
  <2>4. /\ w.nextFreeLAB = n + 1
        /\ w.freeClusterHint = v.freeClusterHint
        /\ w.totalFreeClusters = v.totalFreeClusters
        /\ w.lit = lit
        /\ w.lab = lab
        /\ w = [nextFreeLAB |-> n + 1, freeClusterHint |-> v.freeClusterHint,
                totalFreeClusters |-> v.totalFreeClusters, lit |-> lit, lab |-> lab]
    BY <1>2, <2>1 DEF CreateLAB, VolType
  <2> HIDE DEF w
  <2>5. \A h \in Groups : /\ w.lit[h].lab = IF h = g THEN n ELSE v.lit[h].lab
                          /\ w.lit[h].count = IF h = g THEN 0 ELSE v.lit[h].count
    BY <2>1, <2>4 DEF VolType
  <2>6. \A p \in Pool : w.lab[p] = IF p = n THEN clear ELSE v.lab[p]
    BY <2>1, <2>4 DEF VolType
  <2>7. w \in VolType
    <3>1. lit \in [Groups -> [lab : Nat \cup {LIT_EMPTY}, count : Nat]]
      BY <2>1 DEF VolType
    <3>2. clear \in [Offsets -> LABEntry]
      BY EntryTypes
    <3>3. lab \in [Pool -> [Offsets -> LABEntry]]
      <4> HIDE DEF clear
      <4> QED BY <2>1, <3>2 DEF VolType
    <3> HIDE DEF lit, lab
    <3> QED BY <2>1, <2>4, <3>1, <3>3 DEF VolType
  <2>8. WithLab(w) = WithLab(v) \cup {g}
    BY <2>1, <2>5 DEF WithLab, LIT_EMPTY
  <2>9. \A h \in Groups : v.lit[h].lab # n
    BY <2>1 DEF VolOK, LabsOK, LIT_EMPTY
  <2>10. LabsOK(w)
    BY <2>1, <2>3, <2>4, <2>5, <2>9 DEF VolOK, LabsOK, LIT_EMPTY
  <2>11. \A h \in Groups : w.lit[h].count = v.lit[h].count
    BY <1>2, <2>5 DEF VolOK
  <2>12. VolOK(w)
    <3>1. w.nextFreeLAB = Cardinality(WithLab(w))
      BY <2>2, <2>4, <2>8
    <3>2. \A h \in Groups : w.lit[h].lab = LIT_EMPTY => w.lit[h].count = 0
      BY <2>1, <2>5 DEF VolOK, LIT_EMPTY
    <3> QED BY <2>7, <2>10, <3>1, <3>2 DEF VolOK
  <2>13. ASSUME NEW c \in Data  PROVE Entry(w, c) = Entry(v, c)
    <3>1. Group(c) \in Groups /\ Offset(c) \in Offsets
      BY DataAreClusters, Positions
    <3>2. CASE Group(c) = g
      BY <1>2, <2>1, <2>3, <2>5, <2>6, <3>1, <3>2 DEF Entry, LIT_EMPTY, Pool
    <3>3. CASE Group(c) # g
      BY <2>3, <2>5, <2>6, <2>9, <3>1, <3>3 DEF Entry
    <3> QED BY <3>2, <3>3
  <2> QED BY <2>3, <2>4, <2>5, <2>11, <2>12, <2>13
<1> QED BY <1>1, <1>2

\* An entry of a volume: where CreateLAB has put the group's LAB, and nowhere else.
LEMMA SetLABEntryWorks ==
  ASSUME NEW v, VolOK(v), NEW c \in Clusters, NEW e \in LABEntry
  PROVE  LET w == SetLABEntry(v, c, e) IN
         /\ VolOK(w)
         /\ \A d \in Data : Entry(w, d) = IF d = c THEN e ELSE Entry(v, d)
         /\ \A h \in Groups : w.lit[h].count = v.lit[h].count
         /\ w.lit[Group(c)].lab # LIT_EMPTY
         /\ w.freeClusterHint = v.freeClusterHint
         /\ w.totalFreeClusters = v.totalFreeClusters
<1> DEFINE g == Group(c)
           u == CreateLAB(v, g)
           p == u.lit[g].lab
           w == SetLABEntry(v, c, e)
<1>1. g \in Groups /\ Offset(c) \in Offsets
  BY Positions
<1>2. /\ VolOK(u) /\ p \in Pool
      /\ \A d \in Data : Entry(u, d) = Entry(v, d)
      /\ \A h \in Groups : u.lit[h].count = v.lit[h].count
      /\ u.freeClusterHint = v.freeClusterHint
      /\ u.totalFreeClusters = v.totalFreeClusters
  BY <1>1, CreateLABWorks
<1>3. w = [u EXCEPT !.lab[p][Offset(c)] = e]
  BY DEF SetLABEntry
<1> HIDE DEF g, u, w
<1>4. u \in VolType
  BY <1>2 DEF VolOK
<1>5. u.lab \in [Pool -> [Offsets -> LABEntry]] /\ u.lab[p] \in [Offsets -> LABEntry]
  BY <1>2, <1>4 DEF VolType
<1> DEFINE table == [u.lab[p] EXCEPT ![Offset(c)] = e]
           lab == [u.lab EXCEPT ![p] = table]
<1>6. w = [u EXCEPT !.lab = lab]
  BY <1>3
<1>7. table \in [Offsets -> LABEntry] /\ \A i \in Offsets : table[i] = IF i = Offset(c) THEN e ELSE u.lab[p][i]
  BY <1>1, <1>5
<1> HIDE DEF table
<1>8. lab \in [Pool -> [Offsets -> LABEntry]] /\ \A q \in Pool : lab[q] = IF q = p THEN table ELSE u.lab[q]
  BY <1>2, <1>5, <1>7
<1> HIDE DEF lab
<1>9. /\ w \in VolType /\ w.lab = lab /\ w.lit = u.lit /\ w.nextFreeLAB = u.nextFreeLAB
      /\ w.freeClusterHint = u.freeClusterHint /\ w.totalFreeClusters = u.totalFreeClusters
  BY <1>4, <1>6, <1>8 DEF VolType
<1>10. VolOK(w)
  BY <1>2, <1>9 DEF VolOK, LabsOK, WithLab
<1>11. ASSUME NEW d \in Data  PROVE Entry(w, d) = IF d = c THEN e ELSE Entry(v, d)
  <2>1. Group(d) \in Groups /\ Offset(d) \in Offsets /\ d \in Clusters
    BY DataAreClusters, Positions
  <2>2. Entry(u, d) = Entry(v, d)
    BY <1>2
  <2>3. CASE d = c
    BY <1>2, <1>7, <1>8, <1>9, <2>1, <2>3 DEF Entry, g
  <2>4. CASE d # c /\ Group(d) = g
    <3>1. Offset(d) # Offset(c)
      BY <2>1, <2>4, PositionsDiffer DEF g
    <3> QED BY <1>2, <1>7, <1>8, <1>9, <2>1, <2>2, <2>4, <3>1 DEF Entry
  <2>5. CASE d # c /\ Group(d) # g
    <3>1. u.lit[Group(d)].lab # p
      BY <1>1, <1>2, <2>1, <2>5 DEF VolOK, LabsOK, LIT_EMPTY, Pool
    <3> QED BY <1>8, <1>9, <2>1, <2>2, <2>5, <3>1 DEF Entry
  <2> QED BY <2>3, <2>4, <2>5
<1>12. p # LIT_EMPTY
  BY <1>2, AllocAssumption DEF Pool, PoolSize, LIT_EMPTY
<1>13. w.lit[Group(c)].lab # LIT_EMPTY
  BY <1>9, <1>12 DEF g
<1> QED
  BY <1>2, <1>9, <1>10, <1>11, <1>13 DEF w

LEMMA SetLATEntryWorks ==
  ASSUME NEW v, VolOK(v), NEW c \in Clusters, NEW n \in 0 .. LAT_END
  PROVE  LET w == SetLATEntry(v, c, n) IN
         /\ VolOK(w)
         /\ \A d \in Data : Entry(w, d) =
              IF d = c THEN [next  |-> n,
                             flags |-> IF n = LAT_END THEN LAT_FLAG_USED ELSE Entry(v, c).flags]
              ELSE Entry(v, d)
         /\ \A h \in Groups : w.lit[h].count = v.lit[h].count
         /\ w.freeClusterHint = v.freeClusterHint
         /\ w.totalFreeClusters = v.totalFreeClusters
<1> DEFINE e == [next  |-> n,
                 flags |-> IF n = LAT_END THEN LAT_FLAG_USED ELSE Entry(v, c).flags]
<1>1. Entry(v, c).flags \in {0, LAT_FLAG_USED}
  <2>1. CASE c \in Data
    BY <2>1, EntryType DEF VolOK, LABEntry
  <2>2. CASE c \notin Data
    BY <2>2 DEF Entry
  <2> QED BY <2>1, <2>2
<1>2. e \in LABEntry
  BY <1>1 DEF LABEntry
<1>3. SetLATEntry(v, c, n) = SetLABEntry(v, c, e)
  BY DEF SetLATEntry
<1> HIDE DEF e
<1>4. /\ VolOK(SetLABEntry(v, c, e))
      /\ \A d \in Data : Entry(SetLABEntry(v, c, e), d) = IF d = c THEN e ELSE Entry(v, d)
      /\ \A h \in Groups : SetLABEntry(v, c, e).lit[h].count = v.lit[h].count
      /\ SetLABEntry(v, c, e).freeClusterHint = v.freeClusterHint
      /\ SetLABEntry(v, c, e).totalFreeClusters = v.totalFreeClusters
  BY <1>2, SetLABEntryWorks
<1> QED BY <1>3, <1>4 DEF e

LEMMA LeastExists ==
  ASSUME NEW S \in SUBSET Nat, S # {}
  PROVE  \E n \in S : \A m \in S : n <= m
<1>1. PICK n \in S : \A m \in S : ~ (<<m, n>> \in OpToRel(<, Nat))
  BY WFMin, NatLessThanWellFounded
<1>2. \A m \in S : ~ (m < n)
  BY <1>1 DEF OpToRel
<1> QED BY <1>2

LEMMA NextClusterWorks ==
  ASSUME NEW v, Allocatable(v) # {}
  PROVE  NextCluster(v) \in Allocatable(v)
<1> DEFINE ahead == {c \in Allocatable(v) : c >= v.freeClusterHint}
           S == IF ahead # {} THEN ahead ELSE Allocatable(v)
<1>1. S # {} /\ S \subseteq Allocatable(v)
  OBVIOUS
<1>2. S \in SUBSET Nat
  BY <1>1, AllocAssumption DEF Allocatable, Data
<1>3. NextCluster(v) = CHOOSE c \in S : \A d \in S : c <= d
  BY DEF NextCluster
<1> HIDE DEF S
<1> QED BY <1>1, <1>2, <1>3, LeastExists

-----------------------------------------------------------------------------
(* The counters.                                                           *)

InUse(v, g) == {c \in Data : Group(c) = g /\ Entry(v, c) # FreeEntry}

CountersOK(v) ==
  /\ v.totalFreeClusters = Cardinality(Allocatable(v))
  /\ \A g \in Groups : v.lit[g].count = Cardinality(InUse(v, g))

LEMMA PartsFinite ==
  ASSUME NEW v
  PROVE  /\ IsFiniteSet(Allocatable(v)) /\ Cardinality(Allocatable(v)) \in Nat
         /\ \A g : IsFiniteSet(InUse(v, g)) /\ Cardinality(InUse(v, g)) \in Nat
<1>1. Allocatable(v) \in SUBSET Data /\ \A g : InUse(v, g) \in SUBSET Data
  BY DEF Allocatable, InUse
<1>2. \A S \in SUBSET Data : IsFiniteSet(S) /\ Cardinality(S) \in Nat
  BY DataFinite, FS_Subset, FS_CardinalityType
<1> QED BY <1>1, <1>2

\* A change that frees nothing and uses nothing keeps the counters exact.
LEMMA CountersKept ==
  ASSUME NEW v, NEW w, CountersOK(v),
         \A c \in Data : Entry(w, c) = FreeEntry <=> Entry(v, c) = FreeEntry,
         \A g \in Groups : w.lit[g].count = v.lit[g].count,
         w.totalFreeClusters = v.totalFreeClusters
  PROVE  CountersOK(w) /\ Allocatable(w) = Allocatable(v)
<1>1. Allocatable(w) = Allocatable(v)
  BY DEF Allocatable
<1>2. \A g : InUse(w, g) = InUse(v, g)
  BY DEF InUse
<1> QED BY <1>1, <1>2 DEF CountersOK

HintOK(v) == v.freeClusterHint \in FirstData .. TotalClusters - 1

LEMMA AllocWorks ==
  ASSUME NEW v, VolOK(v), Allocatable(v) # {}
  PROVE  LET w == Alloc(v)
             c == NextCluster(v) IN
         /\ VolOK(w) /\ (CountersOK(v) => CountersOK(w)) /\ HintOK(w)
         /\ w.totalFreeClusters = v.totalFreeClusters - 1
         /\ c \in Allocatable(v) /\ c \in Data /\ Entry(v, c) = FreeEntry
         /\ \A d \in Data : Entry(w, d) = IF d = c THEN LastEntry ELSE Entry(v, d)
         /\ Allocatable(w) = Allocatable(v) \ {c}
<1> DEFINE c == NextCluster(v)
           g == Group(c)
           u == SetLABEntry(v, c, LastEntry)
           w == Alloc(v)
<1>1. c \in Allocatable(v) /\ c \in Data /\ Entry(v, c) = FreeEntry /\ c \in Clusters
  BY NextClusterWorks, DataAreClusters DEF Allocatable
<1>2. g \in Groups
  BY <1>1, Positions
<1>3. /\ VolOK(u)
      /\ \A d \in Data : Entry(u, d) = IF d = c THEN LastEntry ELSE Entry(v, d)
      /\ \A h \in Groups : u.lit[h].count = v.lit[h].count
      /\ u.lit[g].lab # LIT_EMPTY
      /\ u.freeClusterHint = v.freeClusterHint
      /\ u.totalFreeClusters = v.totalFreeClusters
  BY <1>1, EntryTypes, SetLABEntryWorks
<1>4. w = [u EXCEPT !.lit[g] = [lab |-> @.lab, count |-> @.count + 1],
                   !.freeClusterHint = c + 1, !.totalFreeClusters = @ - 1]
  BY DEF Alloc
<1> HIDE DEF c, u, w
<1>5. /\ u \in VolType /\ c \in Nat /\ u.lit \in [Groups -> [lab : Nat \cup {LIT_EMPTY}, count : Nat]]
      /\ u.lit[g] \in [lab : Nat \cup {LIT_EMPTY}, count : Nat]
  BY <1>1, <1>2, <1>3, AllocAssumption DEF VolOK, VolType, Data
<1> DEFINE cell == [lab |-> u.lit[g].lab, count |-> u.lit[g].count + 1]
           lit == [u.lit EXCEPT ![g] = cell]
<1>6. cell \in [lab : Nat \cup {LIT_EMPTY}, count : Nat] /\ cell.lab = u.lit[g].lab
      /\ cell.count = u.lit[g].count + 1
  BY <1>5
<1>7. w = [nextFreeLAB |-> u.nextFreeLAB, freeClusterHint |-> c + 1,
           totalFreeClusters |-> u.totalFreeClusters - 1, lit |-> lit, lab |-> u.lab]
  BY <1>4, <1>5 DEF VolType
<1> HIDE DEF cell
<1>8. /\ lit \in [Groups -> [lab : Nat \cup {LIT_EMPTY}, count : Nat]]
      /\ \A h \in Groups : /\ lit[h].lab = u.lit[h].lab
                            /\ lit[h].count = IF h = g THEN u.lit[h].count + 1 ELSE u.lit[h].count
  BY <1>2, <1>5, <1>6
<1> HIDE DEF lit
<1>9. /\ w \in VolType /\ w.lit = lit /\ w.freeClusterHint = c + 1
      /\ w.totalFreeClusters = u.totalFreeClusters - 1
      /\ w.lab = u.lab /\ w.nextFreeLAB = u.nextFreeLAB
  BY <1>5, <1>7, <1>8 DEF VolType
<1>10. VolOK(w)
  <2>1. LabsOK(w)
    BY <1>3, <1>8, <1>9 DEF VolOK, LabsOK
  <2>2. WithLab(w) = WithLab(u)
    BY <1>8, <1>9 DEF WithLab
  <2>3. \A h \in Groups : w.lit[h].lab = LIT_EMPTY => w.lit[h].count = 0
    BY <1>3, <1>8, <1>9 DEF VolOK
  <2> QED BY <1>3, <1>9, <2>1, <2>2, <2>3 DEF VolOK
<1>11. \A d \in Data : Entry(w, d) = Entry(u, d)
  <2>1. \A d \in Data : Group(d) \in Groups
    BY DataAreClusters, Positions
  <2> QED BY <1>8, <1>9, <2>1 DEF Entry
<1>12. \A d \in Data : Entry(w, d) = IF d = c THEN LastEntry ELSE Entry(v, d)
  BY <1>3, <1>11
<1>13. Allocatable(w) = Allocatable(v) \ {c}
  BY <1>1, <1>12, EntryTypes DEF Allocatable
<1>14. \A h \in Groups : InUse(w, h) = IF h = g THEN InUse(v, h) \cup {c} ELSE InUse(v, h)
  BY <1>1, <1>12, EntryTypes DEF InUse, g
<1>15. ASSUME CountersOK(v)  PROVE CountersOK(w)
  <2>1. w.totalFreeClusters = Cardinality(Allocatable(w))
    <3>1. IsFiniteSet(Allocatable(v))
      BY PartsFinite
    <3>2. Cardinality(Allocatable(v) \ {c}) = Cardinality(Allocatable(v)) - 1
      BY <1>1, <3>1, FS_RemoveElement
    <3>3. v.totalFreeClusters = Cardinality(Allocatable(v))
      BY <1>15 DEF CountersOK
    <3> QED BY <1>3, <1>9, <1>13, <3>2, <3>3
  <2>2. ASSUME NEW h \in Groups  PROVE w.lit[h].count = Cardinality(InUse(w, h))
    <3>1. IsFiniteSet(InUse(v, h)) /\ c \notin InUse(v, h)
      BY <1>1, PartsFinite DEF InUse
    <3>2. Cardinality(InUse(v, h) \cup {c}) = Cardinality(InUse(v, h)) + 1
      BY <3>1, FS_AddElement
    <3>3. v.lit[h].count = Cardinality(InUse(v, h))
      BY <1>15 DEF CountersOK
    <3>4. w.lit[h].count = IF h = g THEN v.lit[h].count + 1 ELSE v.lit[h].count
      BY <1>3, <1>8, <1>9
    <3> QED BY <1>14, <3>2, <3>3, <3>4
  <2> QED BY <2>1, <2>2 DEF CountersOK
<1>16. HintOK(w)
  BY <1>1, <1>9, AllocAssumption DEF HintOK, Data
<1>17. w.totalFreeClusters = v.totalFreeClusters - 1
  BY <1>3, <1>9
<1> QED
  BY <1>1, <1>10, <1>12, <1>13, <1>15, <1>16, <1>17 DEF w, c

\* A chain is freed in the entries; in the counters too, if its clusters were in use.
LEMMA FreeChainWorks ==
  ASSUME NEW v, VolOK(v), NEW start
  PROVE  LET w == FreeChain(v, start)
             S == Chain(v, start) IN
         /\ VolOK(w) /\ w.freeClusterHint = v.freeClusterHint
         /\ CountersOK(v) /\ (\A c \in S : Entry(v, c) # FreeEntry) => CountersOK(w)
         /\ w.totalFreeClusters = v.totalFreeClusters + Cardinality(S)
         /\ S \subseteq Data
         /\ \A d \in Data : Entry(w, d) = IF d \in S THEN FreeEntry ELSE Entry(v, d)
         /\ Allocatable(w) = Allocatable(v) \cup S
<1> DEFINE S == Chain(v, start)
           Part(g) == {c \in S : Group(c) = g}
           lab == [s \in Pool |-> [i \in Offsets |->
                     IF \E c \in S : v.lit[Group(c)].lab = s /\ Offset(c) = i
                     THEN FreeEntry ELSE v.lab[s][i]]]
           lit == [g \in Groups |->
                     [lab   |-> v.lit[g].lab,
                      count |-> IF v.lit[g].count >= Cardinality(Part(g))
                                THEN v.lit[g].count - Cardinality(Part(g)) ELSE 0]]
           w == FreeChain(v, start)
<1>1. S \subseteq Data
  BY DEF Chain, Walk
<1>2. v \in VolType /\ LabsOK(v)
  BY DEF VolOK
<1>3. w = [nextFreeLAB |-> v.nextFreeLAB, freeClusterHint |-> v.freeClusterHint,
           totalFreeClusters |-> v.totalFreeClusters + Cardinality(S), lit |-> lit, lab |-> lab]
  <2>1. w = [v EXCEPT !.lab = lab, !.lit = lit,
                      !.totalFreeClusters = v.totalFreeClusters + Cardinality(S)]
    BY DEF FreeChain
  <2> HIDE DEF lab, lit, S, w
  <2> QED BY <1>2, <2>1 DEF VolType
<1> HIDE DEF w, S
<1>4. ASSUME NEW g  PROVE IsFiniteSet(Part(g)) /\ Cardinality(Part(g)) \in Nat
  BY <1>1, DataFinite, FS_Subset, FS_CardinalityType
<1>5. IsFiniteSet(S) /\ Cardinality(S) \in Nat
  BY <1>1, DataFinite, FS_Subset, FS_CardinalityType
<1> HIDE DEF Part
<1>6. \A g \in Groups : /\ lit[g].lab = v.lit[g].lab
                        /\ lit[g].count = IF v.lit[g].count >= Cardinality(Part(g))
                                          THEN v.lit[g].count - Cardinality(Part(g)) ELSE 0
                        /\ lit[g].count \in Nat
                        /\ v.lit[g].count = 0 => lit[g].count = 0
  <2> TAKE g \in Groups
  <2>1. v.lit[g].count \in Nat
    BY <1>2 DEF VolType
  <2>2. lit[g].lab = v.lit[g].lab
        /\ lit[g].count = IF v.lit[g].count >= Cardinality(Part(g))
                          THEN v.lit[g].count - Cardinality(Part(g)) ELSE 0
    OBVIOUS
  <2> DEFINE k == Cardinality(Part(g))
  <2>3. k \in Nat
    BY <1>4
  <2> HIDE DEF lit, k
  <2>4. lit[g].count = IF v.lit[g].count >= k THEN v.lit[g].count - k ELSE 0
    BY <2>2 DEF k
  <2>5. lit[g].count \in Nat /\ (v.lit[g].count = 0 => lit[g].count = 0)
    BY <2>1, <2>3, <2>4
  <2> QED BY <2>2, <2>5
<1>7. lit \in [Groups -> [lab : Nat \cup {LIT_EMPTY}, count : Nat]]
  BY <1>2, <1>6 DEF VolType
<1>8. \A s \in Pool, i \in Offsets :
        /\ lab[s][i] = IF \E c \in S : v.lit[Group(c)].lab = s /\ Offset(c) = i
                       THEN FreeEntry ELSE v.lab[s][i]
        /\ lab[s][i] \in LABEntry
  BY <1>2, EntryTypes DEF VolType
<1>9. lab \in [Pool -> [Offsets -> LABEntry]]
  BY <1>8
<1> HIDE DEF lit, lab
<1>10. /\ w \in VolType /\ w.lit = lit /\ w.lab = lab
       /\ w.nextFreeLAB = v.nextFreeLAB /\ w.freeClusterHint = v.freeClusterHint
       /\ w.totalFreeClusters = v.totalFreeClusters + Cardinality(S)
  BY <1>2, <1>3, <1>5, <1>7, <1>9 DEF VolType
<1>11. ASSUME NEW g \in Groups, v.lit[g].lab = LIT_EMPTY  PROVE w.lit[g].count = 0
  BY <1>6, <1>10, <1>11 DEF VolOK
<1>12. VolOK(w)
  <2>1. LabsOK(w)
    BY <1>2, <1>6, <1>10 DEF LabsOK
  <2>2. WithLab(w) = WithLab(v)
    BY <1>6, <1>10 DEF WithLab
  <2>3. \A g \in Groups : w.lit[g].lab = LIT_EMPTY => w.lit[g].count = 0
    BY <1>6, <1>10, <1>11
  <2> QED BY <1>10, <2>1, <2>2, <2>3 DEF VolOK
<1>13. ASSUME NEW d \in Data  PROVE Entry(w, d) = IF d \in S THEN FreeEntry ELSE Entry(v, d)
  <2>1. Group(d) \in Groups /\ Offset(d) \in Offsets /\ d \in Clusters
    BY DataAreClusters, Positions
  <2>2. CASE v.lit[Group(d)].lab \notin Pool
    BY <1>6, <1>10, <2>1, <2>2 DEF Entry
  <2>3. CASE v.lit[Group(d)].lab \in Pool
    <3> DEFINE hit == \E c \in S : v.lit[Group(c)].lab = v.lit[Group(d)].lab /\ Offset(c) = Offset(d)
    <3>1. Entry(w, d) = IF hit THEN FreeEntry ELSE Entry(v, d)
      BY <1>6, <1>8, <1>10, <2>1, <2>3 DEF Entry
    <3>2. d \in S => hit
      OBVIOUS
    <3>3. ASSUME hit  PROVE d \in S
      <4>1. PICK c \in S : v.lit[Group(c)].lab = v.lit[Group(d)].lab /\ Offset(c) = Offset(d)
        BY <3>3
      <4>2. c \in Clusters /\ Group(c) \in Groups
        BY <1>1, DataAreClusters, Positions
      <4>3. v.lit[Group(d)].lab # LIT_EMPTY
        BY <2>3, AllocAssumption DEF Pool, PoolSize, LIT_EMPTY
      <4>4. Group(c) = Group(d)
        BY <1>2, <2>1, <4>1, <4>2, <4>3 DEF LabsOK
      <4> QED BY <2>1, <4>1, <4>2, <4>4, PositionsDiffer
    <3> QED BY <3>1, <3>2, <3>3
  <2> QED BY <2>2, <2>3
<1>14. Allocatable(w) = Allocatable(v) \cup S
  BY <1>1, <1>13 DEF Allocatable
<1>15. \A g \in Groups : InUse(w, g) = InUse(v, g) \ Part(g)
  BY <1>1, <1>13 DEF InUse, Part
<1>16. ASSUME CountersOK(v), \A c \in S : Entry(v, c) # FreeEntry  PROVE CountersOK(w)
  <2>1. Cardinality(Allocatable(v) \cup S) = Cardinality(Allocatable(v)) + Cardinality(S)
    <3>1. Allocatable(v) \cap S = {}
      BY <1>16 DEF Allocatable
    <3>2. IsFiniteSet(Allocatable(v)) /\ Cardinality(Allocatable(v)) \in Nat
      BY PartsFinite
    <3>3. Cardinality(Allocatable(v) \cup S) =
            Cardinality(Allocatable(v)) + Cardinality(S) - Cardinality(Allocatable(v) \cap S)
      BY <1>5, <3>2, FS_Union
    <3>4. Cardinality(Allocatable(v) \cap S) = 0
      BY <3>1, FS_EmptySet
    <3> QED BY <1>5, <3>2, <3>3, <3>4
  <2>2. v.totalFreeClusters = Cardinality(Allocatable(v))
    BY <1>16 DEF CountersOK
  <2>3. ASSUME NEW g \in Groups  PROVE w.lit[g].count = Cardinality(InUse(w, g))
    <3>1. Part(g) \in SUBSET InUse(v, g)
      BY <1>1, <1>16 DEF InUse, Part
    <3>2. IsFiniteSet(InUse(v, g)) /\ Cardinality(InUse(v, g)) \in Nat
      BY PartsFinite
    <3>3. Cardinality(Part(g)) <= Cardinality(InUse(v, g))
      BY <3>1, <3>2, FS_Subset
    <3>4. InUse(v, g) \cap Part(g) = Part(g)
      BY <3>1
    <3>5. Cardinality(InUse(v, g) \ Part(g)) =
            Cardinality(InUse(v, g)) - Cardinality(Part(g))
      BY <3>2, <3>4, FS_Difference
    <3>6. v.lit[g].count = Cardinality(InUse(v, g)) /\ Cardinality(Part(g)) \in Nat
      BY <1>4, <1>16 DEF CountersOK
    <3>7. w.lit[g].count = IF v.lit[g].count >= Cardinality(Part(g))
                           THEN v.lit[g].count - Cardinality(Part(g)) ELSE 0
      BY <1>6, <1>10
    <3> QED BY <1>15, <3>2, <3>3, <3>5, <3>6, <3>7
  <2> QED BY <1>10, <1>14, <2>1, <2>2, <2>3 DEF CountersOK
<1> QED BY <1>1, <1>10, <1>12, <1>13, <1>14, <1>16 DEF w, S

-----------------------------------------------------------------------------
(* Chains, and the moves the commands are made of.                         *)

Link(s, i) == [next  |-> IF i = Len(s) THEN LAT_END ELSE s[i + 1],
               flags |-> LAT_FLAG_USED]

Linked(v, b) == \A o \in Owners : \A i \in 1 .. Len(b[o]) : Entry(v, b[o][i]) = Link(b[o], i)

Disjoint(b) ==
  \A o, p \in Owners : \A i \in 1 .. Len(b[o]), j \in 1 .. Len(b[p]) :
    b[o][i] = b[p][j] => o = p /\ i = j

\* What NothingLost says, cluster by cluster.
Split(v, b, l) ==
  /\ \A c \in Data : c \in Allocatable(v) \/ c \in l \/ \E o \in Owners : c \in Members(b[o])
  /\ \A c \in l : c \notin Allocatable(v) /\ \A o \in Owners : c \notin Members(b[o])

Good(v, b, l) ==
  /\ VolOK(v) /\ CountersOK(v) /\ HintOK(v)
  /\ b \in [Owners -> Seq(Data)] /\ l \subseteq Data
  /\ Linked(v, b) /\ Disjoint(b) /\ Split(v, b, l)

LEMMA MembersAreData ==
  ASSUME NEW s \in Seq(Data)
  PROVE  Members(s) \subseteq Data /\ \A i \in 1 .. Len(s) : s[i] \in Data /\ s[i] \in Members(s)
  BY ElementOfSeq DEF Members

LEMMA OneOwner ==
  ASSUME NEW b, Disjoint(b), NEW o \in Owners, NEW p \in Owners,
         NEW c \in Members(b[o]), c \in Members(b[p])
  PROVE  o = p
<1>1. PICK i \in 1 .. Len(b[o]) : c = b[o][i]
  BY DEF Members
<1>2. PICK j \in 1 .. Len(b[p]) : c = b[p][j]
  BY DEF Members
<1>3. b[o][i] = b[p][j] => o = p
  BY DEF Disjoint
<1> QED BY <1>1, <1>2, <1>3

LEMMA OwnedInUse ==
  ASSUME NEW v, NEW b, NEW l, Good(v, b, l)
  PROVE  /\ \A o \in Owners : \A c \in Members(b[o]) :
              c \in Data /\ Entry(v, c) # FreeEntry /\ Entry(v, c).flags = LAT_FLAG_USED
         /\ \A c \in l : c \in Data /\ Entry(v, c) # FreeEntry
<1>1. ASSUME NEW o \in Owners, NEW c \in Members(b[o])
      PROVE  c \in Data /\ Entry(v, c) # FreeEntry /\ Entry(v, c).flags = LAT_FLAG_USED
  <2>1. PICK i \in 1 .. Len(b[o]) : c = b[o][i]
    BY DEF Members
  <2>2. Entry(v, c) = Link(b[o], i)
    BY <2>1 DEF Good, Linked
  <2>3. c \in Data
    BY <1>1, MembersAreData DEF Good
  <2> QED BY <2>2, <2>3, EntryTypes DEF Link, LAT_FLAG_USED
<1>2. \A c \in l : c \in Data /\ Entry(v, c) # FreeEntry
  BY DEF Good, Split, Allocatable
<1> QED BY <1>1, <1>2

\* An owner's chain is made anew of its own clusters and of lost ones; those it has
\* no more are lost.
LEMMA Rearrange ==
  ASSUME NEW v, NEW b, NEW l, Good(v, b, l), NEW o \in Owners,
         NEW w, VolOK(w), \A g \in Groups : w.lit[g].count = v.lit[g].count,
         w.freeClusterHint = v.freeClusterHint, w.totalFreeClusters = v.totalFreeClusters,
         NEW s \in Seq(Data), Members(s) \subseteq Members(b[o]) \cup l,
         \A i, j \in 1 .. Len(s) : s[i] = s[j] => i = j,
         \A i \in 1 .. Len(s) : Entry(w, s[i]) = Link(s, i),
         \A d \in Data : d \notin Members(s) => Entry(w, d) = Entry(v, d),
         NEW m, m = (l \cup Members(b[o])) \ Members(s)
  PROVE  Good(w, [b EXCEPT ![o] = s], m)
<1> DEFINE a == [b EXCEPT ![o] = s]
<1>1. b \in [Owners -> Seq(Data)] /\ l \subseteq Data
  BY DEF Good
<1>2. a \in [Owners -> Seq(Data)] /\ \A p \in Owners : a[p] = IF p = o THEN s ELSE b[p]
  BY <1>1
<1> HIDE DEF a
<1>3. m \subseteq Data
  BY <1>1, MembersAreData
<1>4. \A p \in Owners : p # o => Members(b[p]) \cap Members(s) = {}
  <2> SUFFICES ASSUME NEW p \in Owners, p # o, NEW c \in Members(b[p]), c \in Members(s)  PROVE FALSE
    OBVIOUS
  <2>1. CASE c \in l
    BY <2>1 DEF Good, Split
  <2>2. CASE c \in Members(b[o])
    BY <2>2, OneOwner DEF Good
  <2> QED BY <2>1, <2>2
<1>5. \A c \in Members(s) : Entry(w, c) # FreeEntry /\ Entry(v, c) # FreeEntry
  <2> TAKE c \in Members(s)
  <2>1. PICK i \in 1 .. Len(s) : c = s[i]
    BY DEF Members
  <2>2. Entry(w, c) # FreeEntry
    <3>1. Entry(w, c) = Link(s, i)
      BY <2>1
    <3>2. Link(s, i).flags = 1
      BY DEF Link, LAT_FLAG_USED
    <3> QED BY <3>1, <3>2, EntryTypes
  <2>3. Entry(v, c) # FreeEntry
    BY OwnedInUse
  <2> QED BY <2>2, <2>3
<1>6. \A c \in Data : Entry(w, c) = FreeEntry <=> Entry(v, c) = FreeEntry
  BY <1>5
<1>7. CountersOK(w) /\ Allocatable(w) = Allocatable(v)
  BY <1>6, CountersKept DEF Good
<1>8. HintOK(w)
  BY DEF Good, HintOK
<1>9. Linked(w, a)
  <2> SUFFICES ASSUME NEW p \in Owners, NEW i \in 1 .. Len(a[p])
               PROVE  Entry(w, a[p][i]) = Link(a[p], i)
    BY DEF Linked
  <2>1. CASE p = o
    BY <1>2, <2>1
  <2>2. CASE p # o
    <3>1. a[p] = b[p] /\ a[p][i] \in Members(b[p]) /\ a[p][i] \in Data
      BY <1>1, <1>2, <2>2, MembersAreData
    <3>2. Entry(w, a[p][i]) = Entry(v, b[p][i])
      BY <1>4, <2>2, <3>1
    <3> QED BY <3>1, <3>2 DEF Good, Linked
  <2> QED BY <2>1, <2>2
<1>10. Disjoint(a)
  <2> SUFFICES ASSUME NEW p \in Owners, NEW q \in Owners, NEW i \in 1 .. Len(a[p]),
                      NEW j \in 1 .. Len(a[q]), a[p][i] = a[q][j]
               PROVE  p = q /\ i = j
    BY DEF Disjoint
  <2>1. a[p][i] \in Members(a[p]) /\ a[p][i] \in Members(a[q])
    BY <1>2, MembersAreData
  <2>2. CASE p = o /\ q = o
    BY <1>2, <2>2
  <2>3. CASE p # o /\ q # o
    BY <1>2, <2>3 DEF Good, Disjoint
  <2>4. CASE p # o /\ q = o
    BY <1>2, <1>4, <2>1, <2>4
  <2>5. CASE p = o /\ q # o
    BY <1>2, <1>4, <2>1, <2>5
  <2> QED BY <2>2, <2>3, <2>4, <2>5
<1>11. Split(w, a, m)
  <2>1. ASSUME NEW c \in Data
        PROVE  c \in Allocatable(w) \/ c \in m \/ \E p \in Owners : c \in Members(a[p])
    <3>1. c \in Allocatable(v) \/ c \in l \/ \E p \in Owners : c \in Members(b[p])
      BY DEF Good, Split
    <3>2. CASE c \in Members(s)
      BY <1>2, <3>2
    <3>3. CASE c \notin Members(s)
      BY <1>2, <1>7, <3>1, <3>3
    <3> QED BY <3>2, <3>3
  <2>2. ASSUME NEW c \in m
        PROVE  c \notin Allocatable(w) /\ \A p \in Owners : c \notin Members(a[p])
    <3>1. Entry(v, c) # FreeEntry
      BY OwnedInUse
    <3>2. c \notin Allocatable(w)
      BY <1>7, <3>1 DEF Allocatable
    <3>3. ASSUME NEW p \in Owners, c \in Members(a[p])  PROVE FALSE
      <4>1. p # o /\ c \in Members(b[p])
        BY <1>2, <3>3
      <4>2. c \notin l
        BY <4>1 DEF Good, Split
      <4>3. c \in Members(b[o])
        BY <4>2
      <4> QED BY <4>1, <4>3, OneOwner DEF Good
    <3> QED BY <3>2, <3>3
  <2> QED BY <2>1, <2>2 DEF Split
<1> QED BY <1>2, <1>3, <1>7, <1>8, <1>9, <1>10, <1>11 DEF Good, a

\* A cluster is allocated and nothing has it yet.
LEMMA Lose ==
  ASSUME NEW v, NEW b, NEW l, Good(v, b, l), Allocatable(v) # {}
  PROVE  LET c == NextCluster(v)
             w == Alloc(v) IN
         /\ Good(w, b, l \cup {c})
         /\ c \in Data /\ c \notin l /\ Entry(w, c) = LastEntry
         /\ \A o \in Owners : c \notin Members(b[o])
<1> DEFINE c == NextCluster(v)
           w == Alloc(v)
<1>1. /\ VolOK(w) /\ CountersOK(w) /\ HintOK(w)
      /\ c \in Allocatable(v) /\ c \in Data /\ Entry(v, c) = FreeEntry
      /\ \A d \in Data : Entry(w, d) = IF d = c THEN LastEntry ELSE Entry(v, d)
      /\ Allocatable(w) = Allocatable(v) \ {c}
  BY AllocWorks DEF Good
<1> HIDE DEF c, w
<1>2. c \notin l /\ \A o \in Owners : c \notin Members(b[o])
  BY <1>1, OwnedInUse
<1>3. \A o \in Owners : \A i \in 1 .. Len(b[o]) : Entry(w, b[o][i]) = Entry(v, b[o][i])
  BY <1>1, <1>2, MembersAreData DEF Good
<1>4. Linked(w, b)
  BY <1>3 DEF Good, Linked
<1>5. Split(w, b, l \cup {c})
  BY <1>1, <1>2 DEF Good, Split
<1>6. Good(w, b, l \cup {c})
  BY <1>1, <1>4, <1>5 DEF Good
<1> QED BY <1>1, <1>2, <1>6 DEF c, w

\* A lost cluster that ends a chain becomes an owner's first.
LEMMA Give ==
  ASSUME NEW v, NEW b, NEW l, Good(v, b, l), NEW o \in Owners, b[o] = <<>>,
         NEW c \in l, Entry(v, c) = LastEntry
  PROVE  Good(v, [b EXCEPT ![o] = <<c>>], l \ {c})
<1> DEFINE s == <<c>>
<1>1. c \in Data
  BY DEF Good
<1>2. s \in Seq(Data) /\ Len(s) = 1 /\ s[1] = c
  BY <1>1
<1> HIDE DEF s
<1>3. Members(s) = {c} /\ Members(b[o]) = {}
  BY <1>2 DEF Members
<1>4. \A i \in 1 .. Len(s) : Entry(v, s[i]) = Link(s, i)
  BY <1>2 DEF Link, LastEntry
<1>5. l \ {c} = (l \cup Members(b[o])) \ Members(s)
  BY <1>3
<1>6. VolOK(v)
  BY DEF Good
<1>7. Good(v, [b EXCEPT ![o] = s], l \ {c})
  BY <1>2, <1>3, <1>4, <1>5, <1>6, Rearrange
<1> QED BY <1>7 DEF s

\* A cluster is allocated for an owner that has none.
LEMMA Take ==
  ASSUME NEW v, NEW b, NEW l, Good(v, b, l), NEW o \in Owners, b[o] = <<>>,
         Allocatable(v) # {}
  PROVE  Good(Alloc(v), [b EXCEPT ![o] = <<NextCluster(v)>>], l)
<1>1. /\ Good(Alloc(v), b, l \cup {NextCluster(v)})
      /\ NextCluster(v) \notin l /\ Entry(Alloc(v), NextCluster(v)) = LastEntry
  BY Lose
<1>2. (l \cup {NextCluster(v)}) \ {NextCluster(v)} = l
  BY <1>1
<1>3. Good(Alloc(v), [b EXCEPT ![o] = <<NextCluster(v)>>],
           (l \cup {NextCluster(v)}) \ {NextCluster(v)})
  BY <1>1, Give
<1> QED BY <1>2, <1>3

\* What a cut behind the n-th cluster leaves behind.
Rest(s, n) == {s[i] : i \in n + 1 .. Len(s)}

IsPrefix(r, s, n) ==
  /\ r \in Seq(Data) /\ Len(r) = n /\ n \in Nat /\ Len(s) \in Nat
  /\ \A i \in 1 .. n : r[i] = s[i] /\ r[i] \in Data /\ i \in 1 .. Len(s)
  /\ \A i, j \in 1 .. n : r[i] = r[j] => i = j
  /\ Members(r) = {s[i] : i \in 1 .. n}
  /\ Members(s) \ Members(r) = Rest(s, n)

LEMMA Prefix ==
  ASSUME NEW b, b \in [Owners -> Seq(Data)], Disjoint(b), NEW o \in Owners,
         NEW n \in 1 .. Len(b[o])
  PROVE  IsPrefix(SubSeq(b[o], 1, n), b[o], n)
<1> DEFINE s == SubSeq(b[o], 1, n)
<1>1. b[o] \in Seq(Data) /\ Len(b[o]) \in Nat /\ n \in Nat
  BY LenProperties
<1>2. \A i \in 1 .. n : b[o][i] \in Data /\ i \in 1 .. Len(b[o])
  BY <1>1, ElementOfSeq
<1>3. /\ s \in Seq(Data)
      /\ Len(s) = IF 1 <= n THEN n - 1 + 1 ELSE 0
      /\ \A i \in 1 .. n - 1 + 1 : s[i] = b[o][1 + i - 1]
  BY <1>1, <1>2, SubSeqProperties
<1> HIDE DEF s
<1>4. Len(s) = n
  BY <1>1, <1>3
<1>5. \A i \in 1 .. n : s[i] = b[o][i]
  BY <1>1, <1>3
<1>6. \A i, j \in 1 .. n : s[i] = s[j] => i = j
  BY <1>2, <1>5 DEF Disjoint
<1>7. Members(s) = {b[o][i] : i \in 1 .. n}
  BY <1>4, <1>5 DEF Members
<1>8. Members(b[o]) \ Members(s) = Rest(b[o], n)
  <2>1. ASSUME NEW c \in Members(b[o]), c \notin Members(s)  PROVE c \in Rest(b[o], n)
    <3>1. PICK i \in 1 .. Len(b[o]) : c = b[o][i]
      BY DEF Members
    <3>2. i \notin 1 .. n
      BY <1>7, <2>1, <3>1
    <3>3. i \in n + 1 .. Len(b[o])
      BY <1>1, <3>2
    <3> QED BY <3>1, <3>3 DEF Rest
  <2>2. ASSUME NEW c \in Rest(b[o], n)  PROVE c \in Members(b[o]) /\ c \notin Members(s)
    <3>1. PICK i \in n + 1 .. Len(b[o]) : c = b[o][i]
      BY DEF Rest
    <3>2. i \in 1 .. Len(b[o]) /\ i \notin 1 .. n
      BY <1>1, <3>1
    <3>3. \A j \in 1 .. n : b[o][j] # b[o][i]
      BY <1>2, <3>2 DEF Disjoint
    <3> QED BY <1>7, <3>1, <3>2, <3>3 DEF Members
  <2> QED BY <2>1, <2>2
<1> QED BY <1>1, <1>2, <1>3, <1>4, <1>5, <1>6, <1>7, <1>8 DEF s, IsPrefix

\* An owner's chain is cut behind its n-th cluster.
LEMMA Cut ==
  ASSUME NEW v, NEW b, NEW l, Good(v, b, l), NEW o \in Owners, NEW n \in 1 .. Len(b[o])
  PROVE  Good(SetLATEntry(v, b[o][n], LAT_END), [b EXCEPT ![o] = SubSeq(b[o], 1, n)],
              l \cup Rest(b[o], n))
<1> DEFINE s == SubSeq(b[o], 1, n)
           w == SetLATEntry(v, b[o][n], LAT_END)
           m == l \cup Rest(b[o], n)
<1>0. IsPrefix(s, b[o], n)
  BY Prefix DEF Good
<1>1. /\ s \in Seq(Data) /\ Len(s) = n /\ n \in Nat /\ Len(b[o]) \in Nat
      /\ \A i \in 1 .. n : s[i] = b[o][i] /\ s[i] \in Data /\ i \in 1 .. Len(b[o])
      /\ \A i, j \in 1 .. n : s[i] = s[j] => i = j
      /\ Members(s) = {b[o][i] : i \in 1 .. n}
      /\ Members(b[o]) \ Members(s) = Rest(b[o], n)
  BY <1>0 DEF IsPrefix
<1>2. VolOK(v) /\ b[o][n] \in Clusters /\ LAT_END \in 0 .. LAT_END /\ b[o][n] \in Data
  BY <1>1, DataAreClusters, AllocAssumption DEF Good, LAT_END
<1>3. /\ VolOK(w)
      /\ \A d \in Data : Entry(w, d) =
           IF d = b[o][n] THEN [next |-> LAT_END, flags |-> LAT_FLAG_USED] ELSE Entry(v, d)
      /\ \A h \in Groups : w.lit[h].count = v.lit[h].count
      /\ w.freeClusterHint = v.freeClusterHint
      /\ w.totalFreeClusters = v.totalFreeClusters
  BY <1>2, SetLATEntryWorks
<1> HIDE DEF w, s
<1>4. m = (l \cup Members(b[o])) \ Members(s)
  <2>1. l \cap Members(s) = {}
    <3>1. \A c \in l : c \notin Members(b[o])
      BY DEF Good, Split
    <3>2. Members(s) \subseteq Members(b[o])
      BY <1>1 DEF Members
    <3> QED BY <3>1, <3>2
  <2> QED BY <1>1, <2>1
<1>5. \A i \in 1 .. Len(s) : Entry(w, s[i]) = Link(s, i)
  <2> SUFFICES ASSUME NEW i \in 1 .. n  PROVE Entry(w, s[i]) = Link(s, i)
    BY <1>1
  <2>1. CASE i = n
    BY <1>1, <1>2, <1>3, <2>1 DEF Link
  <2>2. CASE i # n
    <3>1. i \in 1 .. Len(b[o]) /\ s[i] = b[o][i] /\ s[i] \in Data /\ s[i] # b[o][n]
          /\ i + 1 \in 1 .. n /\ i # Len(b[o])
      BY <1>1, <2>2
    <3>2. Entry(w, s[i]) = Link(b[o], i)
      BY <1>3, <3>1 DEF Good, Linked
    <3> QED BY <1>1, <2>2, <3>1, <3>2 DEF Link
  <2> QED BY <2>1, <2>2
<1>6. Members(s) \subseteq Members(b[o]) \cup l
  BY <1>1 DEF Members
<1>7. \A d \in Data : d \notin Members(s) => Entry(w, d) = Entry(v, d)
  BY <1>1, <1>3
<1>8. s \in Seq(Data) /\ \A i, j \in 1 .. Len(s) : s[i] = s[j] => i = j
  BY <1>1
<1>9. Good(w, [b EXCEPT ![o] = s], m)
  BY <1>3, <1>4, <1>5, <1>6, <1>7, <1>8, Rearrange
<1> QED BY <1>9 DEF w, s

\* A lost cluster that ends a chain is linked behind an owner's n-th.
LEMMA Attach ==
  ASSUME NEW v, NEW b, NEW l, Good(v, b, l), NEW o \in Owners, NEW n \in 1 .. Len(b[o]),
         NEW c \in l, Entry(v, c) = LastEntry
  PROVE  Good(SetLATEntry(v, b[o][n], c), [b EXCEPT ![o] = Append(SubSeq(b[o], 1, n), c)],
              (l \ {c}) \cup Rest(b[o], n))
<1> DEFINE r == SubSeq(b[o], 1, n)
           s == Append(r, c)
           w == SetLATEntry(v, b[o][n], c)
           m == (l \ {c}) \cup Rest(b[o], n)
<1>0. IsPrefix(r, b[o], n)
  BY Prefix DEF Good
<1>1. /\ r \in Seq(Data) /\ Len(r) = n /\ n \in Nat /\ Len(b[o]) \in Nat
      /\ \A i \in 1 .. n : r[i] = b[o][i] /\ r[i] \in Data /\ i \in 1 .. Len(b[o])
      /\ \A i, j \in 1 .. n : r[i] = r[j] => i = j
      /\ Members(r) = {b[o][i] : i \in 1 .. n}
      /\ Members(b[o]) \ Members(r) = Rest(b[o], n)
  BY <1>0 DEF IsPrefix
<1>2. /\ VolOK(v) /\ b[o][n] \in Clusters /\ b[o][n] \in Data /\ b[o][n] \in Members(b[o])
      /\ c \in Data /\ c \in 0 .. LAT_END /\ c # LAT_END /\ c \notin Members(b[o])
  <2>1. VolOK(v) /\ c \in Data /\ c \notin Members(b[o])
    BY DEF Good, Split
  <2>2. c \in 0 .. LAT_END /\ c # LAT_END
    BY <2>1, AllocAssumption DEF Data, LAT_END
  <2>3. b[o][n] \in Data /\ b[o][n] \in Members(b[o])
    BY <1>1 DEF Members
  <2> QED BY <2>1, <2>2, <2>3, DataAreClusters
<1>3. Entry(v, b[o][n]).flags = LAT_FLAG_USED
  BY <1>2, OwnedInUse
<1>4. /\ VolOK(w)
      /\ \A d \in Data : Entry(w, d) =
           IF d = b[o][n] THEN [next |-> c, flags |-> LAT_FLAG_USED] ELSE Entry(v, d)
      /\ \A h \in Groups : w.lit[h].count = v.lit[h].count
      /\ w.freeClusterHint = v.freeClusterHint
      /\ w.totalFreeClusters = v.totalFreeClusters
  BY <1>2, <1>3, SetLATEntryWorks
<1>5. /\ s \in Seq(Data) /\ Len(s) = n + 1 /\ s[n + 1] = c
      /\ \A i \in 1 .. n : s[i] = b[o][i]
  BY <1>1, <1>2, AppendProperties
<1> HIDE DEF w, s, r
<1>6. Members(s) = Members(r) \cup {c}
  <2>1. \A i : i \in 1 .. n + 1 <=> i \in 1 .. n \/ i = n + 1
    BY <1>1
  <2> QED BY <1>1, <1>5, <2>1 DEF Members
<1>7. m = (l \cup Members(b[o])) \ Members(s)
  <2>1. l \cap Members(r) = {}
    <3>1. \A d \in l : d \notin Members(b[o])
      BY DEF Good, Split
    <3>2. Members(r) \subseteq Members(b[o])
      BY <1>1 DEF Members
    <3> QED BY <3>1, <3>2
  <2> QED BY <1>1, <1>2, <1>6, <2>1
<1>8. \A i \in 1 .. Len(s) : Entry(w, s[i]) = Link(s, i)
  <2> SUFFICES ASSUME NEW i \in 1 .. n + 1  PROVE Entry(w, s[i]) = Link(s, i)
    BY <1>5
  <2>1. CASE i = n + 1
    BY <1>2, <1>4, <1>5, <2>1 DEF Link, LastEntry
  <2>2. CASE i = n
    <3>1. Link(s, i) = [next |-> c, flags |-> LAT_FLAG_USED]
      BY <1>1, <1>5, <2>2 DEF Link
    <3>2. s[i] = b[o][n]
      BY <1>1, <1>5, <2>2
    <3> QED BY <1>2, <1>4, <3>1, <3>2
  <2>3. CASE i \in 1 .. n - 1
    <3>1. i \in 1 .. n /\ i \in 1 .. Len(b[o]) /\ i + 1 \in 1 .. n /\ i # Len(b[o]) /\ i # n
      BY <1>1, <2>3
    <3>2. s[i] = b[o][i] /\ s[i + 1] = b[o][i + 1] /\ s[i] \in Data /\ s[i] # b[o][n]
      BY <1>1, <1>5, <3>1
    <3>3. Entry(w, s[i]) = Link(b[o], i)
      BY <1>4, <3>1, <3>2 DEF Good, Linked
    <3> QED BY <1>1, <1>5, <3>1, <3>2, <3>3 DEF Link
  <2> QED BY <1>1, <2>1, <2>2, <2>3
<1>9. \A i, j \in 1 .. Len(s) : s[i] = s[j] => i = j
  <2>1. \A i \in 1 .. n : s[i] # c /\ s[i] \in Members(b[o])
    BY <1>1, <1>2, <1>5 DEF Members
  <2>2. \A i \in 1 .. n + 1 : i \in 1 .. n \/ i = n + 1
    BY <1>1
  <2> QED BY <1>1, <1>5, <2>1, <2>2
<1>10. Members(s) \subseteq Members(b[o]) \cup l
  BY <1>1, <1>6 DEF Members
<1>11. \A d \in Data : d \notin Members(s) => Entry(w, d) = Entry(v, d)
  BY <1>1, <1>4, <1>6
<1> HIDE DEF m
<1>12. Good(w, [b EXCEPT ![o] = s], m)
  BY <1>4, <1>5, <1>7, <1>8, <1>9, <1>10, <1>11, Rearrange
<1> QED BY <1>12 DEF w, s, r, m

\* An owner loses all it has.
LEMMA Drop ==
  ASSUME NEW v, NEW b, NEW l, Good(v, b, l), NEW o \in Owners
  PROVE  Good(v, [b EXCEPT ![o] = <<>>], l \cup Members(b[o]))
<1> DEFINE s == <<>>
           m == l \cup Members(b[o])
<1>1. s \in Seq(Data) /\ Len(s) = 0 /\ \A i \in 1 .. Len(s) : FALSE
  OBVIOUS
<1> HIDE DEF s
<1>2. Members(s) = {}
  BY <1>1 DEF Members
<1>3. m = (l \cup Members(b[o])) \ Members(s)
  BY <1>2
<1>4. VolOK(v)
  BY DEF Good
<1>5. Good(v, [b EXCEPT ![o] = s], m)
  BY <1>1, <1>2, <1>3, <1>4, Rearrange
<1> QED BY <1>5 DEF s

\* The link of a cluster that no owner has.
LEMMA Aside ==
  ASSUME NEW v, NEW b, NEW l, Good(v, b, l), NEW c \in Clusters, NEW n \in 0 .. LAT_END,
         c \notin Data \/ (c \in l /\ Entry(v, c).flags = LAT_FLAG_USED)
  PROVE  Good(SetLATEntry(v, c, n), b, l)
<1> DEFINE w == SetLATEntry(v, c, n)
           f == IF n = LAT_END THEN LAT_FLAG_USED ELSE Entry(v, c).flags
<1>1. VolOK(v)
  BY DEF Good
<1>2. /\ VolOK(w)
      /\ \A d \in Data : Entry(w, d) = IF d = c THEN [next |-> n, flags |-> f] ELSE Entry(v, d)
      /\ \A h \in Groups : w.lit[h].count = v.lit[h].count
      /\ w.freeClusterHint = v.freeClusterHint
      /\ w.totalFreeClusters = v.totalFreeClusters
  BY <1>1, SetLATEntryWorks
<1>3. c \in Data => c \in l /\ f = LAT_FLAG_USED
  OBVIOUS
<1> HIDE DEF w, f
<1>4. \A d \in Data : Entry(w, d) = FreeEntry <=> Entry(v, d) = FreeEntry
  <2> SUFFICES ASSUME NEW d \in Data  PROVE Entry(w, d) = FreeEntry <=> Entry(v, d) = FreeEntry
    OBVIOUS
  <2>1. CASE d # c
    BY <1>2, <2>1
  <2>2. CASE d = c
    <3>1. Entry(v, d) # FreeEntry
      BY <1>3, <2>2, OwnedInUse
    <3>2. Entry(w, d).flags = 1
      BY <1>2, <1>3, <2>2 DEF LAT_FLAG_USED
    <3> QED BY <3>1, <3>2, EntryTypes
  <2> QED BY <2>1, <2>2
<1>5. CountersOK(w) /\ Allocatable(w) = Allocatable(v)
  BY <1>2, <1>4, CountersKept DEF Good
<1>6. Linked(w, b)
  <2> SUFFICES ASSUME NEW o \in Owners, NEW i \in 1 .. Len(b[o])
               PROVE  Entry(w, b[o][i]) = Link(b[o], i)
    BY DEF Linked
  <2>1. b[o][i] \in Data /\ b[o][i] \in Members(b[o])
    BY MembersAreData DEF Good
  <2>2. b[o][i] # c
    BY <1>3, <2>1 DEF Good, Split
  <2> QED BY <1>2, <2>1, <2>2 DEF Good, Linked
<1>7. Split(w, b, l)
  BY <1>5 DEF Good, Split
<1>8. HintOK(w)
  BY <1>2 DEF Good, HintOK
<1>9. Good(w, b, l)
  BY <1>2, <1>5, <1>6, <1>7, <1>8 DEF Good
<1> QED BY <1>9 DEF w

\* The links of an owner's clusters, from the first to the n-th, lead through all of
\* them and nowhere else.
UpTo(s, n) == {s[i] : i \in 1 .. n}

LEMMA WalkIsPrefix ==
  ASSUME NEW v, NEW b, NEW l, Good(v, b, l), NEW o \in Owners, NEW n \in 1 .. Len(b[o]),
         NEW stop, stop = b[o][n] \/ (n = Len(b[o]) /\ stop = LAT_END)
  PROVE  Walk(v, b[o][1], stop) = UpTo(b[o], n)
<1> DEFINE s == b[o]
           P == {s[i] : i \in 1 .. n}
           Closed(S) == \A d \in S \ {stop} : Entry(v, d).next \in Data => Entry(v, d).next \in S
<1>1. s \in Seq(Data) /\ Len(s) \in Nat \ {0} /\ (\A i \in 1 .. Len(s) : s[i] \in Data)
      /\ n \in Nat /\ 1 <= n /\ n <= Len(s)
  BY EmptySeq, ElementOfSeq DEF Good
<1>2. \A i \in 1 .. Len(s) : Entry(v, s[i]).next = IF i = Len(s) THEN LAT_END ELSE s[i + 1]
  <2>1. \A i \in 1 .. Len(s) : Entry(v, s[i]) = Link(s, i)
    BY DEF Good, Linked
  <2>2. \A i : Link(s, i).next = IF i = Len(s) THEN LAT_END ELSE s[i + 1]
    BY DEF Link
  <2> QED BY <2>1, <2>2
<1>3. LAT_END \notin Data
  BY AllocAssumption DEF LAT_END, Data
<1>0. stop = s[n] \/ (n = Len(s) /\ stop = LAT_END)
  OBVIOUS
<1>9. \A i, j \in 1 .. Len(s) : s[i] = s[j] => i = j
  BY DEF Good, Disjoint
<1> HIDE DEF s
<1>4. P \in SUBSET Data /\ s[1] \in P
  BY <1>1
<1>5. Closed(P)
  <2> SUFFICES ASSUME NEW i \in 1 .. n, s[i] # stop, Entry(v, s[i]).next \in Data
               PROVE  Entry(v, s[i]).next \in P
    OBVIOUS
  <2>1. i \in 1 .. Len(s) /\ i # Len(s)
    BY <1>1, <1>2, <1>3
  <2>2. i # n
    BY <1>0, <2>1
  <2>3. i + 1 \in 1 .. n
    BY <1>1, <2>2
  <2> QED BY <1>2, <2>1, <2>3
<1>6. ASSUME NEW S \in SUBSET Data, s[1] \in S, Closed(S)
      PROVE  P \subseteq S
  <2> DEFINE Bad == {i \in 1 .. n : s[i] \notin S}
  <2> SUFFICES ASSUME Bad # {}  PROVE FALSE
    OBVIOUS
  <2>1. Bad \in SUBSET Nat
    BY <1>1
  <2> HIDE DEF Bad
  <2>2. PICK i \in Bad : \A j \in Bad : i <= j
    BY <2>1, LeastExists
  <2>3. i \in 1 .. n /\ s[i] \notin S /\ i # 1
    BY <1>6 DEF Bad
  <2>4. i - 1 \in 1 .. n /\ i - 1 \in 1 .. Len(s) /\ i - 1 # Len(s) /\ i - 1 # n /\ (i - 1) + 1 = i
        /\ i \in 1 .. Len(s)
    BY <1>1, <2>3
  <2>5. i - 1 \notin Bad
    BY <2>1, <2>2, <2>4
  <2>6. s[i - 1] \in S
    BY <2>4, <2>5 DEF Bad
  <2>7. Entry(v, s[i - 1]).next = s[i] /\ s[i] \in Data
    BY <1>1, <1>2, <2>4
  <2>8. s[i - 1] # stop
    <3>1. s[i - 1] # s[n]
      BY <1>1, <1>9, <2>4
    <3>2. s[i - 1] \in Data
      BY <1>1, <2>4
    <3> QED BY <1>0, <1>3, <3>1, <3>2
  <2>9. s[i] \in S
    BY <1>6, <2>6, <2>7, <2>8
  <2> QED BY <2>3, <2>9
<1> HIDE DEF P
<1>7. Walk(v, s[1], stop) \subseteq P
  BY <1>4, <1>5 DEF Walk
<1>8. P \subseteq Walk(v, s[1], stop)
  BY <1>4, <1>6 DEF Walk
<1> QED BY <1>7, <1>8 DEF s, P, UpTo

LEMMA ChainIsBlocks ==
  ASSUME NEW v, NEW b, NEW l, Good(v, b, l), NEW o \in Owners, b[o] # <<>>
  PROVE  Chain(v, b[o][1]) = Members(b[o])
<1>1. Len(b[o]) \in 1 .. Len(b[o])
  BY EmptySeq DEF Good
<1>2. Walk(v, b[o][1], LAT_END) = UpTo(b[o], Len(b[o]))
  BY <1>1, WalkIsPrefix
<1> QED BY <1>2 DEF Chain, Members, UpTo

\* An owner's last cluster is where getChain ends.
LEMMA EndIsLast ==
  ASSUME NEW v, NEW b, NEW l, Good(v, b, l), NEW o \in Owners, b[o] # <<>>
  PROVE  End(v, b[o][1]) = b[o][Len(b[o])]
<1> DEFINE s == b[o]
           n == Len(b[o])
           chain == Chain(v, s[1])
           Last(e) == Walk(v, s[1], e) = chain
<1>1. n \in Nat /\ n \in 1 .. n /\ \A i, j \in 1 .. n : s[i] = s[j] => i = j
  BY EmptySeq DEF Good, Disjoint
<1>2. chain = UpTo(s, n)
  <2>1. Chain(v, b[o][1]) = Members(b[o])
    BY ChainIsBlocks
  <2> QED BY <2>1 DEF Members, UpTo
<1>3. \A i \in 1 .. n : Walk(v, s[1], s[i]) = UpTo(s, i)
  <2> TAKE i \in 1 .. n
  <2> DEFINE stop == b[o][i]
  <2>1. stop = b[o][i] \/ (i = Len(b[o]) /\ stop = LAT_END)
    OBVIOUS
  <2> HIDE DEF stop
  <2>2. Walk(v, b[o][1], stop) = UpTo(b[o], i)
    BY <2>1, WalkIsPrefix
  <2> QED BY <2>2 DEF stop
<1>4. s[n] \in chain /\ Last(s[n])
  BY <1>1, <1>2, <1>3 DEF UpTo
<1>5. ASSUME NEW e \in chain, Last(e)  PROVE e = s[n]
  <2>1. PICK i \in 1 .. n : e = s[i]
    BY <1>2 DEF UpTo
  <2>2. s[n] \in {s[j] : j \in 1 .. i}
    BY <1>3, <1>4, <1>5, <2>1 DEF UpTo
  <2>3. PICK j \in 1 .. i : s[n] = s[j]
    BY <2>2
  <2>4. j \in 1 .. n /\ j = n
    BY <1>1, <2>3
  <2> QED BY <1>1, <2>1, <2>3, <2>4
<1>6. End(v, s[1]) = CHOOSE e \in chain : Last(e)
  BY DEF End
<1> HIDE DEF chain, Last
<1> QED BY <1>4, <1>5, <1>6

\* An owner's clusters are freed.
LEMMA Free ==
  ASSUME NEW v, NEW b, NEW l, Good(v, b, l), NEW o \in Owners, b[o] # <<>>
  PROVE  Good(FreeChain(v, b[o][1]), [b EXCEPT ![o] = <<>>], l)
<1> DEFINE w == FreeChain(v, b[o][1])
           S == Members(b[o])
           a == [b EXCEPT ![o] = <<>>]
<1>1. Chain(v, b[o][1]) = S
  BY ChainIsBlocks
<1>2. VolOK(v) /\ CountersOK(v) /\ \A c \in Chain(v, b[o][1]) : Entry(v, c) # FreeEntry
  BY <1>1, OwnedInUse DEF Good
<1>3. /\ VolOK(w) /\ CountersOK(w) /\ w.freeClusterHint = v.freeClusterHint
      /\ \A d \in Data : Entry(w, d) = IF d \in S THEN FreeEntry ELSE Entry(v, d)
      /\ Allocatable(w) = Allocatable(v) \cup S
  BY <1>1, <1>2, FreeChainWorks
<1> HIDE DEF w
<1>4. a \in [Owners -> Seq(Data)] /\ \A p \in Owners : a[p] = IF p = o THEN <<>> ELSE b[p]
  BY DEF Good
<1> HIDE DEF a
<1>5. \A p \in Owners : Members(a[p]) = IF p = o THEN {} ELSE Members(b[p])
  BY <1>4 DEF Members
<1>6. Linked(w, a)
  <2> SUFFICES ASSUME NEW p \in Owners, NEW i \in 1 .. Len(a[p])
               PROVE  Entry(w, a[p][i]) = Link(a[p], i)
    BY DEF Linked
  <2>1. p # o
    BY <1>4
  <2>2. a[p] = b[p] /\ b[p][i] \in Data /\ b[p][i] \in Members(b[p])
    BY <1>4, <2>1, MembersAreData
  <2>3. b[p][i] \notin S
    BY <2>1, <2>2, OneOwner DEF Good
  <2> QED BY <1>3, <2>2, <2>3 DEF Good, Linked
<1>7. Disjoint(a)
  <2> SUFFICES ASSUME NEW p \in Owners, NEW q \in Owners, NEW i \in 1 .. Len(a[p]),
                      NEW j \in 1 .. Len(a[q]), a[p][i] = a[q][j]
               PROVE  p = q /\ i = j
    BY DEF Disjoint
  <2>1. p # o /\ q # o
    BY <1>4
  <2> QED BY <1>4, <2>1 DEF Good, Disjoint
<1>8. Split(w, a, l)
  <2>1. ASSUME NEW c \in Data
        PROVE  c \in Allocatable(w) \/ c \in l \/ \E p \in Owners : c \in Members(a[p])
    BY <1>3, <1>5 DEF Good, Split
  <2>2. ASSUME NEW c \in l  PROVE c \notin Allocatable(w) /\ \A p \in Owners : c \notin Members(a[p])
    BY <1>3, <1>5 DEF Good, Split
  <2> QED BY <2>1, <2>2 DEF Split
<1>9. HintOK(w)
  BY <1>3 DEF Good, HintOK
<1>10. Good(w, a, l)
  BY <1>3, <1>4, <1>6, <1>7, <1>8, <1>9 DEF Good
<1> QED BY <1>10 DEF w, a

-----------------------------------------------------------------------------
(* Until a stale name is used: every action as its moves.                  *)

Exact ==
  /\ uses = 0
  /\ Good(vol, blocks, leaked)
  /\ importing \in Owners \cup {NoOwner}
  /\ importing # NoOwner => blocks[importing] # <<>>

LEMMA InitExact == Init => Exact
<1> SUFFICES ASSUME Init  PROVE Exact
  OBVIOUS
<1> USE DEF Init
<1>1. /\ vol.nextFreeLAB = 0 /\ vol.freeClusterHint = FirstData
      /\ vol.totalFreeClusters = TotalClusters - FirstData - 1
      /\ vol.lab = Stale
      /\ vol.lit \in [Groups -> [lab : Nat \cup {LIT_EMPTY}, count : Nat]]
      /\ \A g \in Groups : vol.lit[g].lab = LIT_EMPTY /\ vol.lit[g].count = 0
  OBVIOUS
<1>2. vol \in VolType
  BY <1>1, AllocAssumption DEF VolType
<1>3. WithLab(vol) = {}
  BY <1>1 DEF WithLab
<1>4. VolOK(vol)
  BY <1>1, <1>2, <1>3, FS_EmptySet DEF VolOK, LabsOK
<1>5. \A c \in Data : Entry(vol, c) = FreeEntry
  <2> TAKE c \in Data
  <2>1. Group(c) \in Groups
    BY DataAreClusters, Positions
  <2>2. LIT_EMPTY \notin Pool
    BY AllocAssumption DEF LIT_EMPTY, Pool, PoolSize
  <2> QED BY <1>1, <2>1, <2>2 DEF Entry
<1>6. Allocatable(vol) = Data /\ \A g : InUse(vol, g) = {}
  BY <1>5 DEF Allocatable, InUse
<1>7. CountersOK(vol)
  <2>1. Cardinality(Data) = TotalClusters - FirstData - 1
    BY FS_Interval, AllocAssumption DEF Data
  <2>2. Cardinality({}) = 0
    BY FS_EmptySet
  <2> QED BY <1>1, <1>6, <2>1, <2>2 DEF CountersOK
<1>8. HintOK(vol)
  BY <1>1, AllocAssumption DEF HintOK
<1>9. blocks \in [Owners -> Seq(Data)] /\ \A o \in Owners : blocks[o] = <<>> /\ Len(blocks[o]) = 0
  OBVIOUS
<1>10. Linked(vol, blocks) /\ Disjoint(blocks)
  BY <1>9 DEF Linked, Disjoint
<1>11. Split(vol, blocks, leaked)
  BY <1>6 DEF Split
<1> QED BY <1>4, <1>7, <1>8, <1>9, <1>10, <1>11 DEF Exact, Good

LEMMA CreateExact ==
  ASSUME Exact, NEW o \in Owners, Create(o)
  PROVE  Exact'
<1>1. Good(vol', blocks', leaked')
  BY Take DEF Exact, Create, Track
<1> QED BY <1>1 DEF Exact, Create, Track

LEMMA CreateFolderExact ==
  ASSUME Exact, NEW o \in Owners, NEW p \in Owners, CreateFolder(o, p)
  PROVE  Exact'
<1> DEFINE b == [blocks EXCEPT ![o] = <<NextCluster(vol)>>]
<1>1. Good(Alloc(vol), b, leaked)
  BY Take DEF Exact, CreateFolder, Track
<1>2. b[p] = <<>> /\ Allocatable(Alloc(vol)) # {}
  BY DEF CreateFolder, Track
<1> HIDE DEF b
<1>3. Good(Alloc(Alloc(vol)), [b EXCEPT ![p] = <<NextCluster(Alloc(vol))>>], leaked)
  BY <1>1, <1>2, Take
<1>4. blocks' = [b EXCEPT ![p] = <<NextCluster(Alloc(vol))>>]
  BY DEF Exact, CreateFolder, Track, b
<1>5. Good(vol', blocks', leaked')
  BY <1>3, <1>4 DEF Exact, CreateFolder, Track
<1> QED BY <1>5 DEF Exact, CreateFolder, Track

\* What a failed allocation behind another one does to the first.
LEMMA CreateFolderFullExact ==
  ASSUME Exact, CreateFolderFull
  PROVE  Exact'
<1> DEFINE c == NextCluster(vol)
<1>1. /\ Good(Alloc(vol), blocks, leaked \cup {c})
      /\ c \in Data /\ Entry(Alloc(vol), c) = LastEntry
  BY Lose DEF Exact, CreateFolderFull, Track
<1> HIDE DEF c
<1>2. c \in Clusters /\ Entry(Alloc(vol), c).flags = LAT_FLAG_USED /\ LAT_FREE \in 0 .. LAT_END
  BY <1>1, EntryTypes, DataAreClusters, AllocAssumption DEF LAT_FREE, LAT_END
<1>3. Good(SetLATEntry(Alloc(vol), c, LAT_FREE), blocks, leaked \cup {c})
  BY <1>1, <1>2, Aside
<1>4. Good(vol', blocks', leaked')
  BY <1>3 DEF Exact, CreateFolderFull, Track, c
<1> QED BY <1>4 DEF Exact, CreateFolderFull, Track

LEMMA ExtendRootExact ==
  ASSUME Exact, ExtendRoot
  PROVE  Exact'
<1> DEFINE c == NextCluster(vol)
<1>1. Good(Alloc(vol), blocks, leaked \cup {c}) /\ c \in Data
  BY Lose DEF Exact, ExtendRoot, Track
<1> HIDE DEF c
<1>2. FirstData - 1 \in Clusters /\ FirstData - 1 \notin Data /\ c \in 0 .. LAT_END
  BY <1>1, AllocAssumption DEF Clusters, Data, LAT_END
<1>3. Good(SetLATEntry(Alloc(vol), FirstData - 1, c), blocks, leaked \cup {c})
  BY <1>1, <1>2, Aside
<1>4. Good(vol', blocks', leaked')
  BY <1>3 DEF Exact, ExtendRoot, Track, c
<1> QED BY <1>4 DEF Exact, ExtendRoot, Track

LEMMA AllocLostExact ==
  ASSUME Exact, AllocLost
  PROVE  Exact'
<1>1. Good(vol', blocks', leaked')
  BY Lose DEF Exact, AllocLost, Track
<1> QED BY <1>1 DEF Exact, AllocLost, Track

\* An owner's last cluster, and what is behind it.
LEMMA LastBlock ==
  ASSUME NEW v, NEW b, NEW l, Good(v, b, l), NEW o \in Owners, b[o] # <<>>
  PROVE  /\ Len(b[o]) \in 1 .. Len(b[o]) /\ 1 \in 1 .. Len(b[o])
         /\ SubSeq(b[o], 1, Len(b[o])) = b[o]
         /\ Rest(b[o], Len(b[o])) = {}
<1>1. b[o] \in Seq(Data) /\ Len(b[o]) \in Nat \ {0}
  BY EmptySeq DEF Good
<1>2. SubSeq(b[o], 1, Len(b[o])) = b[o]
  BY <1>1, SubSeqFull
<1>3. Rest(b[o], Len(b[o])) = {}
  BY <1>1 DEF Rest
<1> QED BY <1>1, <1>2, <1>3

LEMMA ExtendExact ==
  ASSUME Exact, NEW o \in Owners, Extend(o)
  PROVE  Exact'
<1> DEFINE c == NextCluster(vol)
           v == Alloc(vol)
           n == Len(blocks[o])
           l == leaked \cup {c}
           s == Append(blocks[o], c)
           b == [blocks EXCEPT ![o] = s]
<1>1. Good(v, blocks, l) /\ c \in Data /\ c \notin leaked /\ Entry(v, c) = LastEntry
  BY Lose DEF Exact, Extend, Track
<1>2. /\ vol' = SetLATEntry(v, blocks[o][n], c)
      /\ blocks' = b
      /\ blocks[o] # <<>>
  BY EndIsLast DEF Exact, Extend, Track
<1> HIDE DEF c, v
<1>3. n \in 1 .. n /\ SubSeq(blocks[o], 1, n) = blocks[o] /\ Rest(blocks[o], n) = {}
  BY <1>1, <1>2, LastBlock
<1>4. Good(SetLATEntry(v, blocks[o][n], c),
           [blocks EXCEPT ![o] = Append(SubSeq(blocks[o], 1, n), c)],
           (l \ {c}) \cup Rest(blocks[o], n))
  BY <1>1, <1>3, Attach
<1>5. (l \ {c}) \cup Rest(blocks[o], n) = leaked
  BY <1>1, <1>3
<1>6. Good(vol', blocks', leaked')
  BY <1>2, <1>3, <1>4, <1>5 DEF Exact, Extend, Track
<1>7. blocks \in [Owners -> Seq(Data)] /\ blocks[o] \in Seq(Data)
  BY DEF Exact, Good
<1>8. s # <<>>
  BY <1>1, <1>7, AppendProperties
<1> HIDE DEF s
<1>9. \A p \in Owners : blocks[p] # <<>> => blocks'[p] # <<>>
  BY <1>2, <1>7, <1>8
<1> QED BY <1>6, <1>9, AllocAssumption DEF Exact, Extend, Track

LEMMA ReimportExact ==
  ASSUME Exact, NEW o \in Owners, Reimport(o)
  PROVE  Exact'
<1> DEFINE c == NextCluster(vol)
           v == Alloc(vol)
           l == leaked \cup {c}
           r == SubSeq(blocks[o], 1, 1)
<1>1. Good(v, blocks, l) /\ c \in Data /\ c \notin leaked /\ Entry(v, c) = LastEntry
  BY Lose DEF Exact, Reimport, Track
<1>2. /\ vol' = SetLATEntry(v, blocks[o][1], c)
      /\ blocks' = [blocks EXCEPT ![o] = <<blocks[o][1], c>>]
      /\ leaked' = leaked \cup Rest(blocks[o], 1)
      /\ blocks[o] # <<>>
  BY DEF Exact, Reimport, Track, Rest
<1> HIDE DEF c, v, r
<1>3. 1 \in 1 .. Len(blocks[o])
  BY <1>1, <1>2, LastBlock
<1>4. Good(SetLATEntry(v, blocks[o][1], c), [blocks EXCEPT ![o] = Append(r, c)],
           (l \ {c}) \cup Rest(blocks[o], 1))
  BY <1>1, <1>3, Attach DEF r
<1>5. IsPrefix(r, blocks[o], 1)
  BY <1>3, Prefix DEF r, Exact, Good
<1>6. r \in Seq(Data) /\ Len(r) = 1 /\ r[1] = blocks[o][1]
  BY <1>5 DEF IsPrefix
<1>7. Append(r, c) = <<blocks[o][1], c>>
  <2> DEFINE s == Append(r, c)
             t == <<blocks[o][1], c>>
  <2>1. s \in Seq(Data) /\ Len(s) = 2 /\ s[1] = blocks[o][1] /\ s[2] = c
    <3>1. r \in Seq(Data) /\ c \in Data
      BY <1>1, <1>6
    <3>2. /\ s \in Seq(Data) /\ Len(s) = Len(r) + 1 /\ s[Len(r) + 1] = c
          /\ \A i \in 1 .. Len(r) : s[i] = r[i]
      BY <3>1, AppendProperties
    <3> HIDE DEF s
    <3> QED BY <1>6, <3>2
  <2>2. blocks[o][1] \in Data
    BY <1>6, ElementOfSeq
  <2>3. t \in Seq(Data) /\ Len(t) = 2 /\ t[1] = blocks[o][1] /\ t[2] = c
    BY <1>1, <2>2
  <2> HIDE DEF s, t
  <2>4. s = t
    BY <2>1, <2>3, SeqEqual
  <2> QED BY <2>4 DEF s, t
<1>8. (l \ {c}) \cup Rest(blocks[o], 1) = leaked'
  BY <1>1, <1>2
<1>9. Good(vol', blocks', leaked')
  BY <1>2, <1>4, <1>7, <1>8
<1> QED BY <1>9 DEF Exact, Reimport, Track

\* The cluster a chain is cut after is the owner's n-th, for one n.
LEMMA CutPlace ==
  ASSUME Exact, NEW o \in Owners, NEW c, Truncate(o, c)
  PROVE  \E n \in 1 .. Len(blocks[o]) :
           /\ c = blocks[o][n]
           /\ vol' = SetLATEntry(vol, blocks[o][n], LAT_END)
           /\ blocks' = [blocks EXCEPT ![o] = SubSeq(blocks[o], 1, n)]
           /\ leaked' = leaked \cup Rest(blocks[o], n)
<1> DEFINE n == CHOOSE i \in 1 .. Len(blocks[o]) : uses = 0 => blocks[o][i] = c
<1>1. uses = 0 /\ c \in Members(blocks[o])
  BY ChainIsBlocks DEF Exact, Truncate
<1>2. \E i \in 1 .. Len(blocks[o]) : uses = 0 => blocks[o][i] = c
  BY <1>1 DEF Members
<1>3. n \in 1 .. Len(blocks[o]) /\ blocks[o][n] = c
  BY <1>1, <1>2
<1>4. /\ vol' = SetLATEntry(vol, c, LAT_END)
      /\ blocks' = [blocks EXCEPT ![o] = SubSeq(blocks[o], 1, n)]
      /\ leaked' = leaked \cup Rest(blocks[o], n)
  BY <1>1 DEF Truncate, Track, Rest
<1> HIDE DEF n
<1> QED BY <1>3, <1>4

LEMMA TruncateExact ==
  ASSUME Exact, NEW o \in Owners, NEW c, Truncate(o, c)
  PROVE  Exact'
<1>1. PICK n \in 1 .. Len(blocks[o]) :
        /\ vol' = SetLATEntry(vol, blocks[o][n], LAT_END)
        /\ blocks' = [blocks EXCEPT ![o] = SubSeq(blocks[o], 1, n)]
        /\ leaked' = leaked \cup Rest(blocks[o], n)
  BY CutPlace
<1>2. Good(vol', blocks', leaked')
  BY <1>1, Cut DEF Exact
<1> QED BY <1>2 DEF Exact, Truncate

LEMMA BeginImportExact ==
  ASSUME Exact, NEW o \in Owners, BeginImport(o)
  PROVE  Exact'
<1>1. Good(vol', blocks', leaked')
  BY Take DEF Exact, BeginImport, Track
<1>2. blocks'[o] # <<>> /\ importing' = o /\ uses' = 0
  <2>1. blocks \in [Owners -> Seq(Data)] /\ uses = 0
    BY DEF Exact, Good
  <2>2. blocks' = [blocks EXCEPT ![o] = <<NextCluster(vol)>>]
    BY <2>1 DEF BeginImport, Track
  <2>3. blocks'[o] = <<NextCluster(vol)>>
    BY <2>1, <2>2
  <2> QED BY <2>1, <2>3, EmptySeq DEF BeginImport
<1> QED BY <1>1, <1>2 DEF Exact

LEMMA EndImportExact ==
  ASSUME Exact, EndImport
  PROVE  Exact'
<1> DEFINE o == importing
           n == Len(blocks[o])
<1>1. o \in Owners /\ blocks[o] # <<>> /\ Good(vol, blocks, leaked)
  BY DEF Exact, EndImport
<1>2. n \in 1 .. n /\ SubSeq(blocks[o], 1, n) = blocks[o] /\ Rest(blocks[o], n) = {}
  BY <1>1, LastBlock
<1>3. Good(SetLATEntry(vol, blocks[o][n], LAT_END),
           [blocks EXCEPT ![o] = SubSeq(blocks[o], 1, n)], leaked \cup Rest(blocks[o], n))
  BY <1>1, <1>2, Cut
<1>4. [blocks EXCEPT ![o] = SubSeq(blocks[o], 1, n)] = blocks /\ leaked \cup Rest(blocks[o], n) = leaked
  BY <1>1, <1>2 DEF Good
<1>5. Good(vol', blocks', leaked')
  <2>1. End(vol, blocks[o][1]) = blocks[o][n]
    BY <1>1, EndIsLast
  <2> QED BY <1>3, <1>4, <2>1 DEF EndImport
<1> QED BY <1>5 DEF Exact, EndImport

LEMMA ImportFullExact ==
  ASSUME Exact, ImportFull
  PROVE  Exact'
<1>1. Good(vol', blocks', leaked')
  BY Drop DEF Exact, ImportFull, Track
<1> QED BY <1>1 DEF Exact, ImportFull, Track

LEMMA DeleteExact ==
  ASSUME Exact, NEW o \in Owners, Delete(o)
  PROVE  Exact'
<1>1. Good(vol', blocks', leaked')
  BY Free DEF Exact, Delete, Track
<1> QED BY <1>1 DEF Exact, Delete, Track

LEMMA ExactNext ==
  ASSUME Exact, Next, uses' = 0
  PROVE  Exact'
<1>1. ASSUME NEW o \in Owners, Create(o) \/ BeginImport(o) \/ Reimport(o)  PROVE Exact'
  BY <1>1, CreateExact, BeginImportExact, ReimportExact
<1>2. ASSUME NEW o \in Owners, NEW p \in Owners, CreateFolder(o, p)  PROVE Exact'
  BY <1>2, CreateFolderExact
<1>3. ASSUME NEW o \in Owners, Extend(o) \/ Delete(o)  PROVE Exact'
  BY <1>3, ExtendExact, DeleteExact
<1>4. ASSUME NEW o \in Owners, NEW c \in Data, Truncate(o, c)  PROVE Exact'
  BY <1>4, TruncateExact
<1>5. CASE CreateFolderFull
  BY <1>5, CreateFolderFullExact
<1>6. CASE EndImport
  BY <1>6, EndImportExact
<1>7. CASE ImportFull
  BY <1>7, ImportFullExact
<1>8. CASE ExtendRoot
  BY <1>8, ExtendRootExact
<1>9. CASE AllocLost
  BY <1>9, AllocLostExact
<1>10. ASSUME UseStale  PROVE FALSE
  BY <1>10 DEF UseStale, Exact
<1>11. ASSUME NEW c \in stale, DeleteStale(c) \/ ExtendStale(c) \/ TruncateStale(c)  PROVE Exact'
  BY <1>10, <1>11 DEF DeleteStale, ExtendStale, TruncateStale
<1> QED BY <1>1, <1>2, <1>3, <1>4, <1>5, <1>6, <1>7, <1>8, <1>9, <1>11 DEF Next

-----------------------------------------------------------------------------
(* Whatever stale names are used: what stays true of the volume.           *)

\* The counter of free clusters covers them.
Covered(v) == v.totalFreeClusters >= Cardinality(Allocatable(v))

Sane(v) == VolOK(v) /\ HintOK(v) /\ Covered(v)

LEMMA GoodIsSane ==
  ASSUME NEW v, NEW b, NEW l, Good(v, b, l)
  PROVE  Sane(v)
<1>1. v.totalFreeClusters = Cardinality(Allocatable(v)) /\ Cardinality(Allocatable(v)) \in Nat
  BY PartsFinite DEF Good, CountersOK
<1> QED BY <1>1 DEF Good, Sane, Covered

LEMMA AllocSane ==
  ASSUME NEW v, Sane(v), Allocatable(v) # {}
  PROVE  /\ Sane(Alloc(v)) /\ NextCluster(v) \in Data
         /\ Entry(Alloc(v), NextCluster(v)) = LastEntry
<1> DEFINE c == NextCluster(v)
           w == Alloc(v)
<1>1. /\ VolOK(w) /\ HintOK(w) /\ w.totalFreeClusters = v.totalFreeClusters - 1
      /\ c \in Allocatable(v) /\ c \in Data /\ Allocatable(w) = Allocatable(v) \ {c}
      /\ Entry(w, c) = LastEntry
  BY AllocWorks DEF Sane
<1> HIDE DEF c, w
<1>2. IsFiniteSet(Allocatable(v)) /\ Cardinality(Allocatable(v)) \in Nat
  BY PartsFinite
<1>3. Cardinality(Allocatable(w)) = Cardinality(Allocatable(v)) - 1
  BY <1>1, <1>2, FS_RemoveElement
<1>4. v.totalFreeClusters \in Int
  BY DEF Sane, VolOK, VolType
<1>5. Covered(w)
  BY <1>1, <1>2, <1>3, <1>4 DEF Sane, Covered
<1> QED BY <1>1, <1>5 DEF Sane, c, w

\* A link takes a cluster from the free ones, or none: only the one to LAT_FREE could
\* add one, and it leaves the flag of a used cluster.
LEMMA SetLATEntrySane ==
  ASSUME NEW v, Sane(v), NEW c \in Clusters, NEW n \in 0 .. LAT_END,
         n # LAT_FREE \/ Entry(v, c).flags = LAT_FLAG_USED
  PROVE  Sane(SetLATEntry(v, c, n))
<1> DEFINE w == SetLATEntry(v, c, n)
           e == [next |-> n, flags |-> IF n = LAT_END THEN LAT_FLAG_USED ELSE Entry(v, c).flags]
<1>1. VolOK(v)
  BY DEF Sane
<1>2. /\ VolOK(w) /\ w.freeClusterHint = v.freeClusterHint
      /\ w.totalFreeClusters = v.totalFreeClusters
      /\ \A d \in Data : Entry(w, d) = IF d = c THEN e ELSE Entry(v, d)
  BY <1>1, SetLATEntryWorks
<1>3. e # FreeEntry
  <2>1. CASE n # LAT_FREE
    BY <2>1, EntryTypes
  <2>2. CASE n = LAT_FREE /\ Entry(v, c).flags = LAT_FLAG_USED
    BY <2>2, EntryTypes, AllocAssumption DEF LAT_FREE, LAT_END, LAT_FLAG_USED
  <2> QED BY <2>1, <2>2
<1> HIDE DEF w, e
<1>4. Allocatable(w) \in SUBSET Allocatable(v)
  BY <1>2, <1>3 DEF Allocatable
<1>5. /\ IsFiniteSet(Allocatable(v)) /\ Cardinality(Allocatable(v)) \in Nat
      /\ Cardinality(Allocatable(w)) \in Nat
  BY PartsFinite
<1>6. Cardinality(Allocatable(w)) <= Cardinality(Allocatable(v))
  BY <1>4, <1>5, FS_Subset
<1>7. v.totalFreeClusters \in Int
  BY <1>1 DEF VolOK, VolType
<1>8. Covered(w)
  BY <1>2, <1>5, <1>6, <1>7 DEF Sane, Covered
<1>9. HintOK(w)
  BY <1>2 DEF Sane, HintOK
<1> QED BY <1>2, <1>8, <1>9 DEF Sane, w

\* What is freed is counted, free before or not.
LEMMA FreeChainSane ==
  ASSUME NEW v, Sane(v), NEW start
  PROVE  Sane(FreeChain(v, start))
<1> DEFINE w == FreeChain(v, start)
           S == Chain(v, start)
<1>1. /\ VolOK(w) /\ w.freeClusterHint = v.freeClusterHint
      /\ w.totalFreeClusters = v.totalFreeClusters + Cardinality(S)
      /\ Allocatable(w) = Allocatable(v) \cup S
      /\ S \subseteq Data
  BY FreeChainWorks DEF Sane
<1> HIDE DEF w, S
<1>2. /\ IsFiniteSet(Allocatable(v)) /\ Cardinality(Allocatable(v)) \in Nat
      /\ Cardinality(Allocatable(w)) \in Nat
  BY PartsFinite
<1>3. IsFiniteSet(S) /\ Cardinality(S) \in Nat
  BY <1>1, DataFinite, FS_Subset, FS_CardinalityType
<1>4. IsFiniteSet(Allocatable(v) \cap S) /\ Cardinality(Allocatable(v) \cap S) \in Nat
  BY <1>3, FS_Intersection, FS_CardinalityType
<1>5. Cardinality(Allocatable(v) \cup S) =
        Cardinality(Allocatable(v)) + Cardinality(S) - Cardinality(Allocatable(v) \cap S)
  BY <1>2, <1>3, FS_Union
<1>6. v.totalFreeClusters \in Int
  BY DEF Sane, VolOK, VolType
<1>7. Covered(w)
  BY <1>1, <1>2, <1>3, <1>4, <1>5, <1>6 DEF Sane, Covered
<1>8. HintOK(w)
  BY <1>1 DEF Sane, HintOK
<1> QED BY <1>1, <1>7, <1>8 DEF Sane, w

\* A cluster is allocated and linked behind another one.
LEMMA LinkSane ==
  ASSUME NEW v, Sane(v), Allocatable(v) # {}, NEW d \in Clusters
  PROVE  Sane(SetLATEntry(Alloc(v), d, NextCluster(v)))
<1>1. Sane(Alloc(v)) /\ NextCluster(v) \in Data
  BY AllocSane
<1>2. NextCluster(v) \in 0 .. LAT_END /\ NextCluster(v) # LAT_FREE
  BY <1>1, AllocAssumption DEF Data, LAT_FREE, LAT_END
<1> QED BY <1>1, <1>2, SetLATEntrySane

\* A chain is cut behind a cluster.
LEMMA UnlinkSane ==
  ASSUME NEW v, Sane(v), NEW d \in Clusters
  PROVE  Sane(SetLATEntry(v, d, LAT_END))
<1>1. LAT_END \in 0 .. LAT_END /\ LAT_END # LAT_FREE
  BY AllocAssumption DEF LAT_FREE, LAT_END
<1> QED BY <1>1, SetLATEntrySane

\* The clusters a walk leads to are closed under the links it follows, and in every set
\* that is.
Closed(v, start, stop, S) ==
  /\ S \in SUBSET Data /\ start \in S
  /\ \A d \in S \ {stop} : Entry(v, d).next \in Data => Entry(v, d).next \in S

LEMMA WalkIsLeast ==
  ASSUME NEW v, NEW start \in Data, NEW stop
  PROVE  /\ Closed(v, start, stop, Walk(v, start, stop))
         /\ \A S : Closed(v, start, stop, S) => Walk(v, start, stop) \subseteq S
<1> DEFINE W == Walk(v, start, stop)
<1>1. \A c : c \in W <=> c \in Data /\ \A S : Closed(v, start, stop, S) => c \in S
  BY DEF Walk, Closed
<1> HIDE DEF W
<1>2. W \in SUBSET Data /\ start \in W
  BY <1>1 DEF Closed
<1>3. ASSUME NEW d \in W \ {stop}, Entry(v, d).next \in Data  PROVE Entry(v, d).next \in W
  <2>1. ASSUME NEW S, Closed(v, start, stop, S)  PROVE Entry(v, d).next \in S
    <3>1. d \in S
      BY <1>1, <2>1
    <3> QED BY <1>3, <2>1, <3>1 DEF Closed
  <2> QED BY <1>1, <1>3, <2>1
<1>4. Closed(v, start, stop, W)
  BY <1>2, <1>3 DEF Closed
<1> QED BY <1>1, <1>4 DEF W

\* A walk that stops short of getChain's can be followed by a link.
LEMMA WalkGrows ==
  ASSUME NEW v, NEW start \in Data, NEW e \in Chain(v, start),
         Walk(v, start, e) # Chain(v, start)
  PROVE  \E f \in Chain(v, start) :
           f \notin Walk(v, start, e) /\ Walk(v, start, e) \cup {f} \subseteq Walk(v, start, f)
<1> DEFINE W == Walk(v, start, e)
           C == Chain(v, start)
           f == Entry(v, e).next
<1>1. /\ Closed(v, start, e, W) /\ Closed(v, start, LAT_END, C)
      /\ \A S : Closed(v, start, LAT_END, S) => C \subseteq S
      /\ \A S : Closed(v, start, e, S) => W \subseteq S
  BY WalkIsLeast DEF Chain
<1>2. W \subseteq C
  <2>1. LAT_END \notin Data
    BY AllocAssumption DEF LAT_END, Data
  <2>2. Closed(v, start, e, C)
    BY <1>1, <2>1 DEF Closed
  <2> QED BY <1>1, <2>2
<1>3. ~ Closed(v, start, LAT_END, W)
  BY <1>1, <1>2
<1>4. e \in W /\ f \in Data /\ f \notin W
  BY <1>1, <1>3 DEF Closed
<1>5. f \in C
  <2>1. LAT_END \notin Data
    BY AllocAssumption DEF LAT_END, Data
  <2>2. e \in C /\ e \in Data
    BY <1>1 DEF Closed
  <2> QED BY <1>1, <1>4, <2>1, <2>2 DEF Closed
<1> HIDE DEF W, C, f
<1>6. ASSUME NEW S, Closed(v, start, f, S)  PROVE W \cup {f} \subseteq S
  <2>1. Closed(v, start, e, S \cap W)
    BY <1>1, <1>4, <1>6 DEF Closed
  <2>2. W \subseteq S
    BY <1>1, <2>1
  <2>3. f \in S
    BY <1>4, <1>6, <2>2 DEF Closed, f
  <2> QED BY <2>2, <2>3
<1>7. Closed(v, start, f, Walk(v, start, f))
  BY WalkIsLeast
<1>8. W \cup {f} \subseteq Walk(v, start, f)
  BY <1>6, <1>7
<1> QED BY <1>4, <1>5, <1>8 DEF W, C

\* getChain ends in one of its clusters, whatever the links: else a walk could always be
\* followed by another one.
LEMMA EndExists ==
  ASSUME NEW v, NEW start \in Data
  PROVE  End(v, start) \in Data
<1> DEFINE C == Chain(v, start)
           Size(e) == Cardinality(Walk(v, start, e))
           N == Cardinality(Data)
           Left == {N - Size(e) : e \in C}
<1>1. C \in SUBSET Data /\ start \in C
  BY WalkIsLeast DEF Closed, Chain
<1>2. ASSUME NEW e  PROVE /\ Walk(v, start, e) \in SUBSET Data /\ IsFiniteSet(Walk(v, start, e))
                          /\ Size(e) \in Nat /\ Size(e) <= N /\ N \in Nat
  <2>1. Walk(v, start, e) \in SUBSET Data
    BY DEF Walk
  <2> QED BY <2>1, DataFinite, FS_Subset, FS_CardinalityType
<1> HIDE DEF Size, N
<1>3. \A e \in C : N - Size(e) \in Nat
  BY <1>2
<1>4. Left \in SUBSET Nat /\ Left # {}
  BY <1>1, <1>3
<1>5. PICK n \in Left : \A m \in Left : n <= m
  BY <1>4, LeastExists
<1>6. PICK e \in C : n = N - Size(e)
  BY <1>5
<1>7. \A f \in C : Size(f) <= Size(e)
  <2> TAKE f \in C
  <2>1. N - Size(e) <= N - Size(f)
    BY <1>5, <1>6
  <2> QED BY <1>2, <2>1
<1>8. Walk(v, start, e) = C
  <2> SUFFICES ASSUME Walk(v, start, e) # C  PROVE FALSE
    OBVIOUS
  <2>1. PICK f \in C : f \notin Walk(v, start, e)
                       /\ Walk(v, start, e) \cup {f} \subseteq Walk(v, start, f)
    BY WalkGrows
  <2>2. Size(f) > Size(e)
    <3>1. IsFiniteSet(Walk(v, start, e)) /\ Size(e) \in Nat /\ Size(f) \in Nat
          /\ IsFiniteSet(Walk(v, start, f))
      BY <1>2
    <3>2. Cardinality(Walk(v, start, e) \cup {f}) = Size(e) + 1
      BY <2>1, <3>1, FS_AddElement DEF Size
    <3>3. Cardinality(Walk(v, start, e) \cup {f}) <= Size(f)
      BY <2>1, <3>1, FS_Subset DEF Size
    <3> QED BY <3>1, <3>2, <3>3
  <2>3. Size(f) <= Size(e) /\ Size(e) \in Nat /\ Size(f) \in Nat
    BY <1>2, <1>7
  <2> QED BY <2>2, <2>3
<1>9. End(v, start) = CHOOSE d \in C : Walk(v, start, d) = C
  BY DEF End
<1> HIDE DEF C
<1> QED BY <1>1, <1>6, <1>8, <1>9

-----------------------------------------------------------------------------
(* The inductive invariant.                                                *)

Tables(b, i) ==
  /\ b \in [Owners -> Seq(Data)]
  /\ i \in Owners \cup {NoOwner}
  /\ i # NoOwner => b[i] # <<>>

Inv ==
  /\ Sane(vol)
  /\ Tables(blocks, importing)
  /\ leaked \subseteq Data /\ stale \subseteq Data /\ uses \in 0 .. MaxStaleUses
  /\ uses = 0 => Exact

LEMMA InitInv == Init => Inv
<1> SUFFICES ASSUME Init  PROVE Inv
  OBVIOUS
<1>1. Exact
  BY InitExact
<1>2. Sane(vol)
  BY <1>1, GoodIsSane DEF Exact
<1>3. Tables(blocks, importing) /\ leaked \subseteq Data
  BY <1>1 DEF Exact, Good, Tables
<1>4. stale \subseteq Data /\ uses \in 0 .. MaxStaleUses
  BY AllocAssumption DEF Init
<1> QED BY <1>1, <1>2, <1>3, <1>4 DEF Inv

LEMMA UsesKept ==
  ASSUME Inv, Next
  PROVE  uses' = 0 => uses = 0
<1>1. uses \in Nat
  BY AllocAssumption DEF Inv
<1>2. ASSUME UseStale  PROVE uses' # 0
  BY <1>1, <1>2 DEF UseStale
<1>3. ASSUME NEW o \in Owners, Create(o) \/ BeginImport(o) \/ Reimport(o) \/ Extend(o) \/ Delete(o)
      PROVE  uses' = uses
  BY <1>3 DEF Create, BeginImport, Reimport, Extend, Delete
<1>4. ASSUME NEW o \in Owners, NEW p \in Owners, CreateFolder(o, p)  PROVE uses' = uses
  BY <1>4 DEF CreateFolder
<1>5. ASSUME NEW o \in Owners, NEW c, Truncate(o, c)  PROVE uses' = uses
  BY <1>5 DEF Truncate
<1>6. ASSUME CreateFolderFull \/ EndImport \/ ImportFull \/ ExtendRoot \/ AllocLost  PROVE uses' = uses
  BY <1>6 DEF CreateFolderFull, EndImport, ImportFull, ExtendRoot, AllocLost
<1>7. ASSUME NEW c, DeleteStale(c) \/ ExtendStale(c) \/ TruncateStale(c)  PROVE uses' # 0
  BY <1>2, <1>7 DEF DeleteStale, ExtendStale, TruncateStale
<1> QED BY <1>3, <1>4, <1>5, <1>6, <1>7 DEF Next

\* Which names are stale, and how often one was used.
LEMMA StaleNames ==
  ASSUME Inv, Next
  PROVE  stale' \subseteq Data /\ uses' \in 0 .. MaxStaleUses
<1>1. stale \subseteq Data /\ uses \in 0 .. MaxStaleUses /\ MaxStaleUses \in Nat
  BY AllocAssumption DEF Inv
<1>2. ASSUME NEW o \in Owners, Delete(o)  PROVE stale' \subseteq Data /\ uses' = uses
  <2>1. blocks[o][1] \in Data
    BY <1>2, EmptySeq, ElementOfSeq DEF Inv, Tables, Delete
  <2> QED BY <1>1, <1>2, <2>1 DEF Delete, Keep
<1>3. ASSUME UseStale  PROVE uses' \in 0 .. MaxStaleUses
  BY <1>1, <1>3 DEF UseStale
<1>4. ASSUME NEW c \in stale, DeleteStale(c) \/ ExtendStale(c) \/ TruncateStale(c)
      PROVE  stale' \subseteq Data /\ uses' \in 0 .. MaxStaleUses
  BY <1>1, <1>3, <1>4 DEF DeleteStale, ExtendStale, TruncateStale, Keep
<1> QED BY <1>1, <1>2, <1>4 DEF Next, Create, BeginImport, Reimport, CreateFolder, Extend, Truncate,
             CreateFolderFull, EndImport, ImportFull, ExtendRoot, AllocLost

LEMMA FirstsAre ==
  ASSUME NEW b, NEW i, Tables(b, i)
  PROVE  Tables(Firsts(b), i)
<1>1. ASSUME NEW o \in Owners
      PROVE  /\ (IF b[o] = <<>> THEN <<>> ELSE <<b[o][1]>>) \in Seq(Data)
             /\ b[o] # <<>> => (IF b[o] = <<>> THEN <<>> ELSE <<b[o][1]>>) # <<>>
  <2>1. b[o] # <<>> => b[o][1] \in Data
    BY EmptySeq, ElementOfSeq DEF Tables
  <2> QED BY <2>1
<1> QED BY <1>1 DEF Firsts, Tables

\* The clusters of a chain, whatever it leads through.
LEMMA ChainInData ==
  ASSUME NEW v, NEW start
  PROVE  Chain(v, start) \subseteq Data
  BY DEF Chain, Walk

LEMMA Allocated ==
  ASSUME Inv, Allocatable(vol) # {}
  PROVE  /\ Sane(Alloc(vol)) /\ NextCluster(vol) \in Data
         /\ \A d \in Clusters : Sane(SetLATEntry(Alloc(vol), d, NextCluster(vol)))
  BY AllocSane, LinkSane DEF Inv

LEMMA FirstIsData ==
  ASSUME Inv, NEW o \in Owners, blocks[o] # <<>>
  PROVE  /\ blocks[o] \in Seq(Data) /\ Len(blocks[o]) \in Nat \ {0} /\ blocks[o][1] \in Data
         /\ End(vol, blocks[o][1]) \in Clusters /\ blocks[o][1] \in Clusters
<1>1. blocks[o] \in Seq(Data) /\ Len(blocks[o]) \in Nat \ {0} /\ blocks[o][1] \in Data
  BY EmptySeq, ElementOfSeq DEF Inv, Tables
<1> QED BY <1>1, EndExists, DataAreClusters

\* The owners' clusters a step would have left, had no stale name been used.
LEMMA NewChain ==
  ASSUME Inv, NEW o \in Owners, NEW s \in Seq(Data), NEW i \in {importing, NoOwner},
         s # <<>> \/ i = NoOwner
  PROVE  Tables([blocks EXCEPT ![o] = s], i)
  BY DEF Inv, Tables

\* After a stale name was used, the first clusters are kept.
LEMMA Strayed ==
  ASSUME NEW b, NEW l, Tables(b, importing'), uses # 0, Track(b, l)
  PROVE  Tables(blocks', importing') /\ leaked' \subseteq Data
  BY FirstsAre DEF Track

LEMMA StaleStep ==
  ASSUME Inv, NEW c \in stale, DeleteStale(c) \/ ExtendStale(c) \/ TruncateStale(c)
  PROVE  Sane(vol') /\ Tables(blocks', importing') /\ leaked' \subseteq Data
<1>0. Sane(vol) /\ Tables(blocks, importing) /\ c \in Data
  BY DEF Inv
<1>1. CASE DeleteStale(c)
  BY <1>0, <1>1, FreeChainSane, FirstsAre DEF DeleteStale, UseStale
<1>2. CASE ExtendStale(c)
  <2>1. c \in Clusters /\ End(vol, c) \in Clusters
    BY <1>0, EndExists, DataAreClusters
  <2>2. Sane(vol')
    BY <1>2, <2>1, Allocated DEF ExtendStale
  <2> QED BY <1>0, <1>2, <2>2, FirstsAre DEF ExtendStale, UseStale
<1>3. CASE TruncateStale(c)
  <2>1. Chain(vol, c) \subseteq Clusters
    BY ChainInData, DataAreClusters
  <2>2. Sane(vol')
    BY <1>0, <1>3, <2>1, UnlinkSane DEF TruncateStale
  <2> QED BY <1>0, <1>3, <2>2, FirstsAre DEF TruncateStale, UseStale
<1> QED BY <1>1, <1>2, <1>3

LEMMA StrayStep ==
  ASSUME Inv, Next, uses # 0
  PROVE  Sane(vol') /\ Tables(blocks', importing') /\ leaked' \subseteq Data
<1> DEFINE Goal == Sane(vol') /\ Tables(blocks', importing') /\ leaked' \subseteq Data
<1>0. Sane(vol) /\ Tables(blocks, importing) /\ leaked \subseteq Data
  BY DEF Inv
<1>1. ASSUME NEW o \in Owners, Create(o) \/ BeginImport(o)  PROVE Goal
  <2>1. Sane(Alloc(vol)) /\ NextCluster(vol) \in Data
    BY <1>1, Allocated DEF Create, BeginImport
  <2> DEFINE s == <<NextCluster(vol)>>
  <2>2. s \in Seq(Data) /\ s # <<>>
    BY <2>1
  <2> HIDE DEF s
  <2>3. Tables([blocks EXCEPT ![o] = s], importing')
    BY <1>0, <1>1, <2>2 DEF Tables, Create, BeginImport
  <2>4. Track([blocks EXCEPT ![o] = s], leaked) /\ vol' = Alloc(vol)
    BY <1>1 DEF Create, BeginImport, s
  <2> QED BY <2>1, <2>3, <2>4, Strayed
<1>2. ASSUME NEW o \in Owners, Reimport(o)  PROVE Goal
  <2>1. /\ NextCluster(vol) \in Data /\ blocks[o][1] \in Data
        /\ Sane(SetLATEntry(Alloc(vol), blocks[o][1], NextCluster(vol)))
    BY <1>2, Allocated, FirstIsData DEF Reimport
  <2> DEFINE s == <<blocks[o][1], NextCluster(vol)>>
             l == leaked \cup {blocks[o][i] : i \in 2 .. Len(blocks[o])}
  <2>2. s \in Seq(Data) /\ s # <<>>
    BY <2>1
  <2> HIDE DEF s, l
  <2>3. Tables([blocks EXCEPT ![o] = s], importing')
    BY <1>2, <2>2, NewChain DEF Reimport
  <2>4. Track([blocks EXCEPT ![o] = s], l)
    BY <1>2 DEF Reimport, s, l
  <2>5. Sane(vol')
    BY <1>2, <2>1 DEF Reimport
  <2> QED BY <2>3, <2>4, <2>5, Strayed
<1>3. ASSUME NEW o \in Owners, NEW p \in Owners, CreateFolder(o, p)  PROVE Goal
  <2>1. Sane(Alloc(vol)) /\ NextCluster(vol) \in Data
    BY <1>3, Allocated DEF CreateFolder
  <2>2. Sane(Alloc(Alloc(vol))) /\ NextCluster(Alloc(vol)) \in Data
    BY <1>3, <2>1, AllocSane DEF CreateFolder
  <2> DEFINE s == <<NextCluster(vol)>>
             t == <<NextCluster(Alloc(vol))>>
             b == [blocks EXCEPT ![o] = s, ![p] = t]
  <2>3. s \in Seq(Data) /\ t \in Seq(Data)
    BY <2>1, <2>2
  <2> HIDE DEF s, t
  <2>4. Tables(b, importing')
    BY <1>0, <1>3, <2>3 DEF Tables, CreateFolder
  <2>5. Track(b, leaked) /\ vol' = Alloc(Alloc(vol))
    BY <1>3 DEF CreateFolder, s, t
  <2> HIDE DEF b
  <2> QED BY <2>2, <2>4, <2>5, Strayed
<1>4. ASSUME NEW o \in Owners, Extend(o)  PROVE Goal
  <2>1. /\ NextCluster(vol) \in Data /\ blocks[o] \in Seq(Data)
        /\ Sane(SetLATEntry(Alloc(vol), End(vol, blocks[o][1]), NextCluster(vol)))
    BY <1>4, Allocated, FirstIsData DEF Extend
  <2> DEFINE s == Append(blocks[o], NextCluster(vol))
  <2>2. s \in Seq(Data) /\ s # <<>>
    BY <2>1, AppendProperties
  <2> HIDE DEF s
  <2>3. Tables([blocks EXCEPT ![o] = s], importing')
    BY <1>4, <2>2, NewChain DEF Extend
  <2>4. Track([blocks EXCEPT ![o] = s], leaked)
    BY <1>4 DEF Extend, s
  <2>5. Sane(vol')
    BY <1>4, <2>1 DEF Extend
  <2> QED BY <2>3, <2>4, <2>5, Strayed
<1>5. ASSUME NEW o \in Owners, Delete(o)  PROVE Goal
  <2>1. Sane(vol')
    BY <1>0, <1>5, FreeChainSane DEF Delete
  <2> DEFINE s == <<>>
  <2>2. s \in Seq(Data)
    OBVIOUS
  <2> HIDE DEF s
  <2>3. Tables([blocks EXCEPT ![o] = s], importing')
    BY <1>5, <2>2, NewChain DEF Delete
  <2>4. Track([blocks EXCEPT ![o] = s], leaked)
    BY <1>5 DEF Delete, s
  <2> QED BY <2>1, <2>3, <2>4, Strayed
<1>6. ASSUME NEW o \in Owners, NEW c \in Data, Truncate(o, c)  PROVE Goal
  <2>1. Sane(vol')
    BY <1>0, <1>6, UnlinkSane, DataAreClusters DEF Truncate
  <2> DEFINE n == CHOOSE i \in 1 .. Len(blocks[o]) : uses = 0 => blocks[o][i] = c
             s == SubSeq(blocks[o], 1, n)
             l == leaked \cup {blocks[o][i] : i \in n + 1 .. Len(blocks[o])}
  <2>2. blocks[o] \in Seq(Data) /\ Len(blocks[o]) \in Nat \ {0}
    BY <1>6, FirstIsData DEF Truncate
  <2>3. n \in 1 .. Len(blocks[o])
    <3>1. \E i \in 1 .. Len(blocks[o]) : uses = 0 => blocks[o][i] = c
      BY <2>2
    <3> QED BY <3>1
  <2> HIDE DEF n
  <2>4. s \in Seq(Data)
    <3>1. \A i \in 1 .. n : blocks[o][i] \in Data
      BY <2>2, <2>3, ElementOfSeq
    <3> QED BY <2>2, <2>3, <3>1, SubSeqProperties
  <2>5. Track([blocks EXCEPT ![o] = s], l)
    BY <1>6 DEF Truncate, n
  <2> HIDE DEF s, l
  <2>6. Tables([blocks EXCEPT ![o] = s], importing')
    BY <1>6, <2>4, NewChain DEF Truncate
  <2> QED BY <2>1, <2>5, <2>6, Strayed
<1>7. CASE CreateFolderFull
  <2>1. Sane(Alloc(vol)) /\ NextCluster(vol) \in Data
        /\ Entry(Alloc(vol), NextCluster(vol)) = LastEntry
    BY <1>0, <1>7, AllocSane DEF CreateFolderFull
  <2>2. LAT_FREE \in 0 .. LAT_END
    BY AllocAssumption DEF LAT_FREE, LAT_END
  <2>3. Sane(vol')
    BY <1>7, <2>1, <2>2, SetLATEntrySane, EntryTypes, DataAreClusters DEF CreateFolderFull
  <2>4. Tables(blocks, importing') /\ Track(blocks, leaked \cup {NextCluster(vol)})
    BY <1>0, <1>7 DEF CreateFolderFull
  <2> QED BY <2>3, <2>4, Strayed
<1>8. CASE EndImport
  <2>1. importing \in Owners /\ blocks[importing] # <<>>
    BY <1>0, <1>8 DEF EndImport, Tables
  <2>2. Sane(vol')
    BY <1>0, <1>8, <2>1, FirstIsData, UnlinkSane DEF EndImport
  <2>3. Tables(blocks', importing') /\ leaked' \subseteq Data
    BY <1>0, <1>8 DEF EndImport, Tables
  <2> QED BY <2>2, <2>3
<1>9. CASE ImportFull
  <2>1. importing \in Owners
    BY <1>0, <1>9 DEF ImportFull, Tables
  <2> DEFINE s == <<>>
  <2>2. s \in Seq(Data)
    OBVIOUS
  <2> HIDE DEF s
  <2>3. Tables([blocks EXCEPT ![importing] = s], importing')
    BY <1>9, <2>1, <2>2, NewChain DEF ImportFull
  <2>4. Track([blocks EXCEPT ![importing] = s], leaked \cup Members(blocks[importing]))
    BY <1>9 DEF ImportFull, s
  <2>5. Sane(vol')
    BY <1>0, <1>9 DEF ImportFull
  <2> QED BY <2>3, <2>4, <2>5, Strayed
<1>10. CASE ExtendRoot \/ AllocLost
  <2>1. FirstData - 1 \in Clusters
    BY AllocAssumption DEF Clusters
  <2>2. Sane(vol')
    BY <1>10, <2>1, Allocated DEF ExtendRoot, AllocLost
  <2>3. Tables(blocks, importing') /\ Track(blocks, leaked \cup {NextCluster(vol)})
    BY <1>0, <1>10 DEF ExtendRoot, AllocLost
  <2> QED BY <2>2, <2>3, Strayed
<1>11. ASSUME NEW c \in stale, DeleteStale(c) \/ ExtendStale(c) \/ TruncateStale(c)  PROVE Goal
  BY <1>11, StaleStep
<1> QED BY <1>1, <1>2, <1>3, <1>4, <1>5, <1>6, <1>7, <1>8, <1>9, <1>10, <1>11 DEF Next

\* The first use of a stale name.
LEMMA FirstUse ==
  ASSUME Inv, Next, uses = 0, uses' # 0
  PROVE  Sane(vol') /\ Tables(blocks', importing') /\ leaked' \subseteq Data
<1>1. PICK c \in stale : DeleteStale(c) \/ ExtendStale(c) \/ TruncateStale(c)
  BY DEF Next, Create, BeginImport, Reimport, CreateFolder, Extend, Truncate, Delete,
         CreateFolderFull, EndImport, ImportFull, ExtendRoot, AllocLost
<1> QED BY <1>1, StaleStep

LEMMA NextInv == Inv /\ [Next]_vars => Inv'
<1> SUFFICES ASSUME Inv, [Next]_vars  PROVE Inv'
  OBVIOUS
<1>1. CASE UNCHANGED vars
  BY <1>1 DEF Inv, Exact, vars
<1>2. CASE Next /\ uses' = 0
  <2>1. uses = 0
    BY <1>2, UsesKept
  <2>2. Exact'
    BY <1>2, <2>1, ExactNext DEF Inv
  <2>3. Sane(vol')
    BY <2>2, GoodIsSane DEF Exact
  <2>4. Tables(blocks', importing') /\ leaked' \subseteq Data
    BY <2>2 DEF Exact, Good, Tables
  <2> QED BY <1>2, <2>2, <2>3, <2>4, StaleNames DEF Inv
<1>3. CASE Next /\ uses' # 0
  <2>1. Sane(vol') /\ Tables(blocks', importing') /\ leaked' \subseteq Data
    BY <1>3, StrayStep, FirstUse
  <2> QED BY <1>3, <2>1, StaleNames DEF Inv
<1> QED BY <1>1, <1>2, <1>3

LEMMA Invariance == Spec => []Inv
  BY InitInv, NextInv, PTL DEF Spec

-----------------------------------------------------------------------------
(* What follows from it.                                                   *)

\* The variables have their types: in particular the unsigned counters never wrap
\* and the hint stays where the scan may start, whatever stale names are used.
THEOREM TypeCorrect == Spec => []TypeOK
<1>1. Inv => TypeOK
  <2> SUFFICES ASSUME Inv  PROVE TypeOK
    OBVIOUS
  <2>1. vol \in VolType /\ HintOK(vol) /\ vol.totalFreeClusters >= Cardinality(Allocatable(vol))
    BY DEF Inv, Sane, Covered, VolOK
  <2>2. vol.totalFreeClusters \in Nat
    <3>1. vol.totalFreeClusters \in Int
      BY <2>1 DEF VolType
    <3>2. Cardinality(Allocatable(vol)) \in Nat
      BY PartsFinite
    <3> QED BY <2>1, <3>1, <3>2
  <2>3. vol \in [nextFreeLAB : Nat, freeClusterHint : FirstData .. TotalClusters - 1,
                 totalFreeClusters : Nat,
                 lit : [Groups -> [lab : Nat \cup {LIT_EMPTY}, count : Nat]],
                 lab : [Pool -> [Offsets -> LABEntry]]]
    BY <2>1, <2>2 DEF VolType, HintOK
  <2> QED BY <2>3 DEF TypeOK, Inv, Tables
<1> QED BY <1>1, Invariance, PTL

\* Until a stale name is used: whatever is created, cut, extended and deleted, getChain
\* returns a file's own clusters, in order, and no cluster is in two files.
THEOREM ChainsStayExact == Spec => []ChainsExact
<1>1. Inv => ChainsExact
  <2> SUFFICES ASSUME Inv, uses = 0  PROVE ChainsExact
    BY DEF ChainsExact
  <2>1. Linked(vol, blocks) /\ Disjoint(blocks)
    BY DEF Inv, Exact, Good
  <2> QED BY <2>1 DEF ChainsExact, Linked, Link, Disjoint
<1> QED BY <1>1, Invariance, PTL

\* The free and allocated counters, updated apart from the entries they count, are
\* what a scan of the entries would count, until a stale name is used; after that the
\* superblock's counter is never below it.
THEOREM CountersStayExact == Spec => []AccountingExact
<1>1. Inv => AccountingExact
  BY DEF Inv, Sane, Covered, Exact, Good, CountersOK, InUse, AccountingExact
<1> QED BY <1>1, Invariance, PTL

\* Groups never share a LAB, and labPoolClusters LABs are enough although the code
\* never compares nextFreeLAB with it, whatever stale names are used.
THEOREM PoolIsEnough == Spec => []LabsDistinct
<1>1. Inv => LabsDistinct
  BY DEF Inv, Sane, VolOK, LabsOK, LabsDistinct
<1> QED BY <1>1, Invariance, PTL

\* Until a stale name is used, every data cluster can be allocated, is some file's, or was
\* lost by one of the steps that are known to lose clusters, and never two of the three.
THEOREM OnlyTheseLose == Spec => []NothingLost
<1>1. Inv => NothingLost
  <2> SUFFICES ASSUME Inv, uses = 0  PROVE NothingLost
    BY DEF NothingLost
  <2>1. Split(vol, blocks, leaked) /\ leaked \subseteq Data
    BY DEF Inv, Exact, Good
  <2>2. \A o \in Owners : Members(blocks[o]) \subseteq Data
    BY MembersAreData DEF Inv, Tables
  <2>3. Allocatable(vol) \subseteq Data
    BY DEF Allocatable
  <2>4. \A o \in Owners : \A c \in Members(blocks[o]) : c \notin Allocatable(vol)
    BY OwnedInUse DEF Inv, Exact, Allocatable
  <2> DEFINE owned == UNION {Members(blocks[o]) : o \in Owners}
  <2>5. \A c : c \in owned <=> \E o \in Owners : c \in Members(blocks[o])
    OBVIOUS
  <2> HIDE DEF owned
  <2>6. /\ Data = Allocatable(vol) \cup owned \cup leaked
        /\ leaked \cap (Allocatable(vol) \cup owned) = {}
        /\ Allocatable(vol) \cap owned = {}
    BY <2>1, <2>2, <2>3, <2>4, <2>5 DEF Split
  <2> QED BY <2>6 DEF NothingLost, owned
<1> QED BY <1>1, Invariance, PTL

-----------------------------------------------------------------------------
(* The refinement: sets of clusters instead of links, LABs and counters.   *)

Sets(b) == [o \in Owners |-> Members(b[o])]
Spare(b, l) == {c \in Data : c \notin l /\ \A o \in Owners : c \notin Members(b[o])}

\* What ClusterPool sees of a state: the chains as sets, and what is neither in one
\* of them nor lost.
View(h, f, n, b, l) == h = Sets(b) /\ f = Spare(b, l) /\ n = Cardinality(f)

LEMMA SpareIsFree ==
  ASSUME NEW v, NEW b, NEW l, Good(v, b, l)
  PROVE  Allocatable(v) = Spare(b, l)
<1>1. ASSUME NEW c \in Data  PROVE c \in Allocatable(v) <=> c \in Spare(b, l)
  <2>1. c \in Allocatable(v) => Entry(v, c) = FreeEntry
    BY DEF Allocatable
  <2>2. /\ c \in l => Entry(v, c) # FreeEntry
        /\ \A o \in Owners : c \in Members(b[o]) => Entry(v, c) # FreeEntry
    BY OwnedInUse
  <2>3. c \in Allocatable(v) \/ c \in l \/ \E o \in Owners : c \in Members(b[o])
    BY DEF Good, Split
  <2> QED BY <2>1, <2>2, <2>3 DEF Spare
<1> QED BY <1>1 DEF Allocatable, Spare

LEMMA Viewed == Exact => View(Held, Allocatable(vol), vol.totalFreeClusters, blocks, leaked)
<1> SUFFICES ASSUME Exact  PROVE View(Held, Allocatable(vol), vol.totalFreeClusters, blocks, leaked)
  OBVIOUS
<1>1. Good(vol, blocks, leaked)
  BY DEF Exact
<1>2. ASSUME NEW o \in Owners
      PROVE  (IF blocks[o] = <<>> THEN {} ELSE Chain(vol, blocks[o][1])) = Members(blocks[o])
  <2>1. CASE blocks[o] = <<>>
    BY <2>1 DEF Members
  <2>2. CASE blocks[o] # <<>>
    BY <1>1, <2>2, ChainIsBlocks
  <2> QED BY <2>1, <2>2
<1>3. Held = Sets(blocks)
  BY <1>2 DEF Held, Sets
<1>4. Allocatable(vol) = Spare(blocks, leaked)
  BY <1>1, SpareIsFree
<1>5. vol.totalFreeClusters = Cardinality(Allocatable(vol))
  BY <1>1 DEF Good, CountersOK
<1> QED BY <1>3, <1>4, <1>5 DEF View

\* The members of a chain t and the lost clusters l, with the clusters K, are those of
\* the chain s and the lost clusters m.
From(s, m, t, l, K) == Members(s) \cup m = Members(t) \cup l \cup K

ChainTable(b) == b \in [Owners -> Seq(Data)]

Chained(a, b, o, s) == a = [b EXCEPT ![o] = s]

\* An owner's chain changes and clusters are lost, and the clusters K come from the
\* free ones.
LEMMA Moved ==
  ASSUME NEW b, ChainTable(b), NEW l, NEW o \in Owners, NEW s,
         NEW a, Chained(a, b, o, s),
         NEW m, NEW K, From(s, m, b[o], l, K)
  PROVE  /\ Chained(Sets(a), Sets(b), o, Members(s))
         /\ Spare(a, m) = Spare(b, l) \ K
<1>1. \A p \in Owners : a[p] = IF p = o THEN s ELSE b[p]
  BY DEF Chained, ChainTable
<1>2. \A p \in Owners : Members(a[p]) = IF p = o THEN Members(s) ELSE Members(b[p])
  BY <1>1
<1>3. Chained(Sets(a), Sets(b), o, Members(s))
  BY <1>2 DEF Sets, Chained
<1>4. Spare(a, m) = Spare(b, l) \ K
  <2>1. ASSUME NEW c \in Data  PROVE c \in Spare(a, m) <=> c \in Spare(b, l) /\ c \notin K
    <3>1. c \in Members(s) \/ c \in m <=> c \in Members(b[o]) \/ c \in l \/ c \in K
      BY DEF From
    <3>2. c \in Spare(a, m) <=> /\ ~ (c \in Members(s) \/ c \in m)
                                /\ \A p \in Owners : p # o => c \notin Members(b[p])
      BY <1>2 DEF Spare
    <3>3. c \in Spare(b, l) <=> /\ ~ (c \in Members(b[o]) \/ c \in l)
                                /\ \A p \in Owners : p # o => c \notin Members(b[p])
      BY DEF Spare
    <3> QED BY <3>1, <3>2, <3>3
  <2> QED BY <2>1 DEF Spare
<1> QED BY <1>3, <1>4

LEMMA ViewedNext ==
  Exact' => View(Held', Allocatable(vol'), vol'.totalFreeClusters, blocks', leaked')
<1>1. (Exact => View(Held, Allocatable(vol), vol.totalFreeClusters, blocks, leaked))'
  BY Viewed, PTL
<1> QED BY <1>1

\* A step over what ClusterPool sees.
LEMMA Views ==
  ASSUME Exact, Exact'
  PROVE  /\ Held = Sets(blocks) /\ Held' = Sets(blocks')
         /\ Allocatable(vol) = Spare(blocks, leaked)
         /\ Allocatable(vol') = Spare(blocks', leaked')
         /\ vol'.totalFreeClusters = Cardinality(Allocatable(vol'))
         /\ \A o \in Owners : Held[o] = Members(blocks[o])
         /\ blocks \in [Owners -> Seq(Data)]
  BY Viewed, ViewedNext DEF View, Sets, Exact, Good

\* The owner's clusters become the members of a sequence, with K from the free ones.
LEMMA MoveStep ==
  ASSUME Exact, Exact', NEW o \in Owners, NEW s, NEW K,
         Chained(blocks', blocks, o, s),
         From(s, leaked', blocks[o], leaked, K)
  PROVE  /\ Held' = [Held EXCEPT ![o] = Members(s)]
         /\ Allocatable(vol') = Allocatable(vol) \ K
<1>1. ChainTable(blocks)
  BY Views DEF ChainTable
<1>2. /\ Chained(Sets(blocks'), Sets(blocks), o, Members(s))
      /\ Spare(blocks', leaked') = Spare(blocks, leaked) \ K
  BY <1>1, Moved
<1> QED BY <1>2, Views DEF Chained

LEMMA OneMember ==
  ASSUME NEW c \in Data
  PROVE  <<c>> \in Seq(Data) /\ Members(<<c>>) = {c} /\ Members(<<>>) = {}
<1> DEFINE s == <<c>>
<1>1. s \in Seq(Data) /\ Len(s) = 1 /\ s[1] = c
  OBVIOUS
<1> HIDE DEF s
<1>2. Members(s) = {c}
  BY <1>1 DEF Members
<1>3. Members(<<>>) = {}
  BY DEF Members
<1> QED BY <1>1, <1>2, <1>3 DEF s

\* An empty chain gets its first cluster.
LEMMA FirstStep ==
  ASSUME Exact, Exact', NEW o \in Owners, blocks[o] = <<>>, Allocatable(vol) # {},
         blocks' = [blocks EXCEPT ![o] = <<NextCluster(vol)>>], leaked' = leaked
  PROVE  Promise!Take(o)
<1> DEFINE c == NextCluster(vol)
           s == <<c>>
<1>1. c \in Allocatable(vol) /\ c \in Data
  BY NextClusterWorks DEF Allocatable
<1>2. Chained(blocks', blocks, o, s)
  BY DEF Chained
<1> HIDE DEF c
<1>3. Members(s) = {c} /\ Members(blocks[o]) = {}
  BY <1>1, OneMember
<1> HIDE DEF s
<1>4. From(s, leaked', blocks[o], leaked, {c})
  BY <1>3 DEF From
<1>5. /\ Held' = [Held EXCEPT ![o] = Members(s)]
      /\ Allocatable(vol') = Allocatable(vol) \ {c}
  BY <1>2, <1>4, MoveStep
<1>6. Held[o] = {}
  BY <1>3, Views
<1>7. Held' = [Held EXCEPT ![o] = Held[o] \cup {c}]
  BY <1>3, <1>5, <1>6
<1> QED BY <1>1, <1>5, <1>7 DEF Promise!Take

LEMMA CreateFolderStep ==
  ASSUME Exact, Exact', NEW o \in Owners, NEW p \in Owners, CreateFolder(o, p)
  PROVE  Promise!TakeBoth(o, p)
<1> DEFINE c == NextCluster(vol)
           d == NextCluster(Alloc(vol))
<1>1. /\ Good(vol, blocks, leaked) /\ o # p /\ blocks[o] = <<>> /\ blocks[p] = <<>>
      /\ Allocatable(vol) # {} /\ Allocatable(Alloc(vol)) # {}
      /\ vol' = Alloc(Alloc(vol)) /\ blocks' = [blocks EXCEPT ![o] = <<c>>, ![p] = <<d>>]
  BY DEF Exact, CreateFolder, Track
<1>2. /\ VolOK(Alloc(vol)) /\ CountersOK(Alloc(vol)) /\ c \in Allocatable(vol) /\ c \in Data
      /\ Allocatable(Alloc(vol)) = Allocatable(vol) \ {c}
  BY <1>1, AllocWorks DEF Good
<1>3. /\ d \in Allocatable(Alloc(vol)) /\ d \in Data
      /\ Allocatable(vol') = Allocatable(Alloc(vol)) \ {d}
  BY <1>1, <1>2, AllocWorks
<1> HIDE DEF c, d
<1>4. Allocatable(vol') = Allocatable(vol) \ {c, d} /\ c # d /\ d \in Allocatable(vol)
  BY <1>2, <1>3
<1>5. Members(<<c>>) = {c} /\ Members(<<d>>) = {d} /\ Members(<<>>) = {}
  BY <1>2, <1>3, OneMember
<1>6. blocks'[o] = <<c>> /\ blocks'[p] = <<d>>
      /\ \A q \in Owners \ {o, p} : blocks'[q] = blocks[q]
  BY <1>1, Views
<1>7. \A q \in Owners : Sets(blocks')[q] = IF q = p THEN {d} ELSE IF q = o THEN {c} ELSE Sets(blocks)[q]
  BY <1>5, <1>6 DEF Sets
<1>8. Sets(blocks)[o] = {} /\ Sets(blocks)[p] = {}
  BY <1>1, <1>5 DEF Sets
<1> DEFINE h == Sets(blocks)
           k == Sets(blocks')
<1>9. h = [q \in Owners |-> h[q]] /\ k = [q \in Owners |-> k[q]]
  BY DEF Sets
<1> HIDE DEF h, k
<1>10. k = [h EXCEPT ![o] = @ \cup {c}, ![p] = @ \cup {d}]
  BY <1>1, <1>7, <1>8, <1>9 DEF h, k
<1>11. Held' = [Held EXCEPT ![o] = @ \cup {c}, ![p] = @ \cup {d}]
  BY <1>10, Views DEF h, k
<1> QED BY <1>1, <1>2, <1>4, <1>11 DEF Promise!TakeBoth

\* A cluster is allocated and lost at once.
LEMMA WasteStep ==
  ASSUME Exact, Exact', Allocatable(vol) # {}, blocks' = blocks,
         leaked' = leaked \cup {NextCluster(vol)}
  PROVE  Promise!Waste
<1> DEFINE c == NextCluster(vol)
<1>1. c \in Allocatable(vol)
  BY NextClusterWorks
<1>2. Spare(blocks', leaked') = Spare(blocks, leaked) \ {c}
  BY DEF Spare
<1> HIDE DEF c
<1>3. Held' = Held /\ Allocatable(vol') = Allocatable(vol) \ {c}
  BY <1>2, Views
<1> QED BY <1>1, <1>3 DEF Promise!Waste

LEMMA ExtendStep ==
  ASSUME Exact, Exact', NEW o \in Owners, Extend(o)
  PROVE  Promise!Take(o)
<1> DEFINE c == NextCluster(vol)
           s == Append(blocks[o], c)
<1>1. c \in Allocatable(vol) /\ c \in Data
  BY NextClusterWorks DEF Extend, Track, Allocatable
<1>2. Chained(blocks', blocks, o, s) /\ leaked' = leaked
  BY DEF Exact, Extend, Track, Chained
<1> HIDE DEF c
<1>3. blocks[o] \in Seq(Data)
  BY Views
<1>4. Len(blocks[o]) \in Nat /\ Len(s) = Len(blocks[o]) + 1 /\ s[Len(blocks[o]) + 1] = c
      /\ \A i \in 1 .. Len(blocks[o]) : s[i] = blocks[o][i]
  BY <1>1, <1>3, AppendProperties, LenProperties
<1> HIDE DEF s
<1>5. Members(s) = Members(blocks[o]) \cup {c}
  <2>1. \A i \in 1 .. Len(s) : i \in 1 .. Len(blocks[o]) \/ i = Len(blocks[o]) + 1
    BY <1>4
  <2>2. \A i \in 1 .. Len(blocks[o]) : i \in 1 .. Len(s)
    BY <1>4
  <2>3. Len(blocks[o]) + 1 \in 1 .. Len(s)
    BY <1>4
  <2> QED BY <1>4, <2>1, <2>2, <2>3 DEF Members
<1>6. From(s, leaked', blocks[o], leaked, {c})
  BY <1>2, <1>5 DEF From
<1>7. Held' = [Held EXCEPT ![o] = Members(s)] /\ Allocatable(vol') = Allocatable(vol) \ {c}
  BY <1>2, <1>6, MoveStep
<1>8. Held' = [Held EXCEPT ![o] = Held[o] \cup {c}]
  BY <1>5, <1>7, Views
<1> QED BY <1>1, <1>7, <1>8 DEF Promise!Take

LEMMA ReimportStep ==
  ASSUME Exact, Exact', NEW o \in Owners, Reimport(o)
  PROVE  Promise!Replace(o)
<1> DEFINE c == NextCluster(vol)
           k == blocks[o][1]
           s == <<k, c>>
<1>1. c \in Allocatable(vol) /\ c \in Data
  BY NextClusterWorks DEF Reimport, Track, Allocatable
<1>2. Chained(blocks', blocks, o, s) /\ leaked' = leaked \cup Rest(blocks[o], 1) /\ blocks[o] # <<>>
  BY DEF Exact, Reimport, Track, Chained, Rest
<1>3. blocks[o] \in Seq(Data) /\ Len(blocks[o]) \in Nat \ {0}
  BY <1>2, Views, EmptySeq
<1>4. k \in Data /\ Members(blocks[o]) = {k} \cup Rest(blocks[o], 1)
  BY <1>3, ElementOfSeq DEF Members, Rest
<1> HIDE DEF c, k
<1>5. Len(s) = 2 /\ s[1] = k /\ s[2] = c
  BY <1>1, <1>4
<1> HIDE DEF s
<1>6. Members(s) = {k, c}
  BY <1>5 DEF Members
<1>7. From(s, leaked', blocks[o], leaked, {c})
  BY <1>2, <1>4, <1>6 DEF From
<1>8. Held' = [Held EXCEPT ![o] = Members(s)] /\ Allocatable(vol') = Allocatable(vol) \ {c}
  BY <1>2, <1>7, MoveStep
<1>9. k \in Held[o] /\ Held' = [Held EXCEPT ![o] = {k, c}]
  BY <1>4, <1>6, <1>8, Views
<1> QED BY <1>1, <1>8, <1>9 DEF Promise!Replace

\* A chain becomes shorter, and what is cut off is lost.
LEMMA CutStep ==
  ASSUME Exact, Exact', NEW o \in Owners, NEW s, NEW S, Chained(blocks', blocks, o, s),
         Members(s) = Members(blocks[o]) \ S, S \subseteq Members(blocks[o]),
         leaked' = leaked \cup S
  PROVE  Promise!Drop(o)
<1>1. From(s, leaked', blocks[o], leaked, {})
  BY DEF From
<1>2. Held' = [Held EXCEPT ![o] = Members(s)] /\ Allocatable(vol') = Allocatable(vol) \ {}
  BY <1>1, MoveStep
<1>3. Held[o] = Members(blocks[o])
  BY Views
<1>4. S \in SUBSET Held[o] /\ Held' = [Held EXCEPT ![o] = Held[o] \ S]
  BY <1>2, <1>3
<1>5. Allocatable(vol') = Allocatable(vol)
  BY <1>2
<1> QED BY <1>4, <1>5 DEF Promise!Drop

LEMMA TruncateStep ==
  ASSUME Exact, Exact', NEW o \in Owners, NEW c, Truncate(o, c)
  PROVE  Promise!Drop(o)
<1>0. PICK n \in 1 .. Len(blocks[o]) :
        /\ blocks' = [blocks EXCEPT ![o] = SubSeq(blocks[o], 1, n)]
        /\ leaked' = leaked \cup Rest(blocks[o], n)
  BY CutPlace
<1> DEFINE s == SubSeq(blocks[o], 1, n)
           S == Rest(blocks[o], n)
<1>1. Chained(blocks', blocks, o, s) /\ leaked' = leaked \cup S
  BY <1>0 DEF Chained
<1>2. IsPrefix(s, blocks[o], n)
  BY Prefix DEF Exact, Good
<1> HIDE DEF s, S
<1>3. Members(s) \subseteq Members(blocks[o]) /\ Members(blocks[o]) \ Members(s) = S
  BY <1>2 DEF IsPrefix, Members, S
<1>4. Members(s) = Members(blocks[o]) \ S /\ S \subseteq Members(blocks[o])
  BY <1>3
<1> QED BY <1>1, <1>4, CutStep

LEMMA ImportFullStep ==
  ASSUME Exact, Exact', ImportFull
  PROVE  importing \in Owners /\ Promise!Drop(importing)
<1> DEFINE s == <<>>
           S == Members(blocks[importing])
<1>1. importing \in Owners /\ Chained(blocks', blocks, importing, s) /\ leaked' = leaked \cup S
  BY DEF ImportFull, Track, Chained, Exact
<1>2. Members(s) = {}
  BY DEF Members
<1> HIDE DEF s
<1>3. Members(s) = S \ S /\ S \subseteq S
  BY <1>2
<1> QED BY <1>1, <1>3, CutStep

\* The last link of the imported file is written once more.
LEMMA EndImportStep ==
  ASSUME Exact, Exact', EndImport
  PROVE  UNCHANGED Promise!vars
<1>1. blocks' = blocks /\ leaked' = leaked
  BY DEF EndImport
<1>2. Held' = Held /\ Allocatable(vol') = Allocatable(vol)
  BY <1>1, Views
<1>3. vol.totalFreeClusters = Cardinality(Allocatable(vol))
  BY Viewed DEF View
<1>4. vol'.totalFreeClusters = vol.totalFreeClusters
  BY <1>2, <1>3, Views
<1> QED BY <1>2, <1>4 DEF Promise!vars

LEMMA DeleteStep ==
  ASSUME Exact, Exact', NEW o \in Owners, Delete(o)
  PROVE  Promise!Free(o)
<1> DEFINE s == <<>>
           S == Members(blocks[o])
<1>1. /\ Chained(blocks', blocks, o, s) /\ leaked' = leaked /\ blocks[o] # <<>>
      /\ Good(vol, blocks, leaked) /\ vol' = FreeChain(vol, blocks[o][1])
  BY DEF Delete, Track, Chained, Exact
<1>2. Chain(vol, blocks[o][1]) = S
  BY <1>1, ChainIsBlocks
<1>3. VolOK(vol) /\ CountersOK(vol) /\ \A c \in Chain(vol, blocks[o][1]) : Entry(vol, c) # FreeEntry
  BY <1>1, <1>2, OwnedInUse DEF Good
<1>4. Allocatable(vol') = Allocatable(vol) \cup S
  BY <1>1, <1>2, <1>3, FreeChainWorks
<1>5. Members(s) = {}
  BY DEF Members
<1> HIDE DEF s
<1>6. Sets(blocks') = [Sets(blocks) EXCEPT ![o] = {}]
  BY <1>1, <1>5, Views DEF Sets, Chained
<1>7. Held' = [Held EXCEPT ![o] = {}] /\ Held[o] = S
  BY <1>6, Views
<1> QED BY <1>4, <1>7 DEF Promise!Free

\* The pool counts as the counters do: both are FiniteSets' Cardinality.
LEMMA SameCount ==
  ASSUME NEW S
  PROVE  Promise!Cardinality(S) = Cardinality(S)
  BY DEF Promise!Cardinality, Cardinality

\* Every step of the allocator is one of the pool, or changes nothing it sees.
LEMMA PoolStep ==
  ASSUME Exact, Exact', [Next]_vars
  PROVE  [Promise!Next]_(Promise!vars)
<1>0. vol'.totalFreeClusters = Promise!Cardinality(Allocatable(vol'))
  BY Views, SameCount
<1>1. ASSUME NEW o \in Owners, Create(o) \/ BeginImport(o)  PROVE Promise!Take(o)
  BY <1>1, FirstStep DEF Exact, Create, Track, BeginImport
<1>2. ASSUME NEW o \in Owners, Reimport(o)  PROVE Promise!Replace(o)
  BY <1>2, ReimportStep
<1>3. ASSUME NEW o \in Owners, NEW p \in Owners, CreateFolder(o, p)  PROVE Promise!TakeBoth(o, p)
  BY <1>3, CreateFolderStep
<1>4. ASSUME NEW o \in Owners, Extend(o)  PROVE Promise!Take(o)
  BY <1>4, ExtendStep
<1>5. ASSUME NEW o \in Owners, Delete(o)  PROVE Promise!Free(o)
  BY <1>5, DeleteStep
<1>6. ASSUME NEW o \in Owners, NEW c \in Data, Truncate(o, c)  PROVE Promise!Drop(o)
  BY <1>6, TruncateStep
<1>7. CASE CreateFolderFull \/ ExtendRoot \/ AllocLost
  <2>1. Promise!Waste
    BY <1>7, WasteStep DEF Exact, CreateFolderFull, Track, ExtendRoot, AllocLost
  <2> QED BY <1>0, <2>1 DEF Promise!Next
<1>8. CASE ImportFull
  BY <1>0, <1>8, ImportFullStep DEF Promise!Next
<1>9. CASE EndImport
  BY <1>9, EndImportStep
<1>10. CASE UNCHANGED vars
  BY <1>10 DEF vars, Held, Promise!vars
<1>11. ASSUME NEW o \in Owners,
              Promise!Take(o) \/ Promise!Replace(o) \/ Promise!Drop(o) \/ Promise!Free(o)
       PROVE  Promise!Next
  BY <1>0, <1>11 DEF Promise!Next
<1>12. ASSUME NEW o \in Owners, NEW p \in Owners, Promise!TakeBoth(o, p)  PROVE Promise!Next
  BY <1>0, <1>12 DEF Promise!Next
<1>13. ASSUME NEW c \in stale, DeleteStale(c) \/ ExtendStale(c) \/ TruncateStale(c)  PROVE FALSE
  BY <1>13 DEF DeleteStale, ExtendStale, TruncateStale, UseStale, Exact
<1> QED
  BY <1>1, <1>2, <1>3, <1>4, <1>5, <1>6, <1>7, <1>8, <1>9, <1>10, <1>11, <1>12, <1>13 DEF Next

LEMMA PoolInit == Init => Promise!Init
<1> SUFFICES ASSUME Init  PROVE Promise!Init
  OBVIOUS
<1>1. Exact
  BY InitExact
<1>2. Held = Sets(blocks) /\ Allocatable(vol) = Spare(blocks, leaked)
      /\ vol.totalFreeClusters = Cardinality(Allocatable(vol))
  BY <1>1, Viewed DEF View
<1>3. (\A o \in Owners : Members(blocks[o]) = {}) /\ leaked = {}
  BY DEF Init, Members
<1>4. Held = [o \in Owners |-> {}] /\ Allocatable(vol) = Data
  BY <1>2, <1>3 DEF Sets, Spare
<1>5. vol.totalFreeClusters = Promise!Cardinality(Data)
  BY <1>2, <1>4, SameCount
<1> QED BY <1>4, <1>5 DEF Promise!Init

\* A step that uses no stale name, from a state no stale name led to.
LEMMA PoolNext ==
  ASSUME Inv, Inv', [Next]_vars
  PROVE  [uses' = 0 => Promise!Next]_(Promise!vars)
<1>1. CASE uses' # 0
  BY <1>1
<1>2. CASE uses' = 0 /\ uses # 0
  BY <1>2, UsesKept DEF vars
<1>3. CASE uses' = 0 /\ uses = 0
  <2>1. Exact /\ Exact'
    BY <1>3 DEF Inv
  <2> QED BY <2>1, PoolStep
<1> QED BY <1>1, <1>2, <1>3

\* Until a stale name is used, links, LABs, LIT and counters implement sets of clusters: to
\* its commands the allocator is a pool that hands a cluster to one owner and takes it
\* back, whose free count is the size of the pool, and in which what was lost stays lost.
THEOREM ChainsImplementPool == Spec => PoolSpec
<1>1. Spec => []Inv
  BY Invariance
<1>2. Inv /\ Inv' /\ [Next]_vars => [uses' = 0 => Promise!Next]_(Promise!vars)
  BY PoolNext
<1>3. Init => Promise!Init
  BY PoolInit
<1>4. Spec => Promise!Init /\ [][uses' = 0 => Promise!Next]_(Promise!vars)
  BY <1>1, <1>2, <1>3, PTL DEF Spec
<1> QED BY <1>4 DEF PoolSpec
=============================================================================
