---------------------------- MODULE LevelsProofs ----------------------------
(***************************************************************************)
(* What holds of level IDs for any number of folders' contents, version    *)
(* tables of any size and sessions of any length.  The version tables have *)
(* IDs below the saved one, but the registry may have the saved one        *)
(* itself, from a branch that found no slot, and so may the context,       *)
(* through a level mount: a level can be added under a parent with its own *)
(* ID, and under none that is younger.                                     *)
(***************************************************************************)
EXTENDS Levels, FiniteSetTheorems, SequenceTheorems, WellFoundedInduction, TLAPS

Descriptors == [id : Ids, parent : Ids, content : AllContents, refs : 0 .. MaxRefs]
Contexts == [dir : Tables, content : AllContents \cup {NoContent}, level : Ids,
             atRoot : BOOLEAN, rootVersion : Names]

GoodVersion(v, bound) == v \in VersionEntry /\ v.id < bound /\ v.parent <= v.id
GoodTable(s, bound) ==
  /\ s \in Seq(VersionEntry)
  /\ Len(s) \in {k * PerCluster : k \in 1 .. MaxClusters}
  /\ \A j \in DOMAIN s : GoodVersion(s[j], bound)
GoodDescriptor(d, bound) == d \in Descriptors /\ d.id <= bound /\ d.parent <= d.id
GoodContext(x, bound) ==
  /\ x \in Contexts /\ x.level <= bound
  /\ x.atRoot => x.dir = RootDir

IdsOK == nextLevelID \in Ids /\ savedID \in Ids /\ 0 < savedID /\ savedID <= nextLevelID
TablesOK ==
  /\ tables \in [Tables -> Seq(VersionEntry)]
  /\ \A t \in Tables : GoodTable(tables[t], savedID)
RegistryOK ==
  /\ registry \in [Slots -> Descriptors]
  /\ \A i \in Slots : GoodDescriptor(registry[i], savedID)
BeyondOK == beyond \subseteq Ids /\ \A i \in beyond : i <= savedID
RestOK ==
  /\ mounts \subseteq AllContents \X Ids /\ allocated \subseteq AllContents
  /\ BeyondOK

Inv == IdsOK /\ TablesOK /\ RegistryOK /\ RestOK /\ GoodContext(context, savedID)

-----------------------------------------------------------------------------
(* Looking for things.                                                     *)

LEMMA Sizes ==
  /\ PerCluster \in Nat \ {0} /\ PerSector \in Nat \ {0}
  /\ Agreed \in Nat \ {0} /\ MaxRefs \in Nat \ {0} /\ MaxClusters \in Nat \ {0}
  /\ MaxId \in Nat /\ MaxId > 1
  BY LevelsAssumption DEF PerCluster

LEMMA FirstIsIn ==
  ASSUME NEW S \in SUBSET Nat, S # {}
  PROVE  First(S) \in S
<1>1. PICK i \in S : \A j \in S : ~ (<<j, i>> \in OpToRel(<, Nat))
  BY WFMin, NatLessThanWellFounded
<1>2. \A j \in S : ~ (j < i)
  BY <1>1 DEF OpToRel
<1>3. \A j \in S : i <= j
  BY <1>2
<1> QED BY <1>3 DEF First

\* A scan returns no slot, as 0, or one of those it looks at.
LEMMA ScanReturns ==
  ASSUME NEW S \in SUBSET (Nat \ {0})
  PROVE  \/ First(S) = 0 /\ S = {}
         \/ First(S) \in S /\ First(S) # 0
<1>1. CASE S = {}
  <2>1. First(S) = 0
    BY <1>1 DEF First
  <2> QED BY <1>1, <2>1
<1>2. CASE S # {}
  BY <1>2, FirstIsIn
<1> QED BY <1>1, <1>2

LEMMA DescriptorFound ==
  ASSUME NEW i
  PROVE  LET k == findLevelByID(i) IN k # 0 => k \in Slots /\ registry[k].id = i
<1> DEFINE S == {k \in Slots : registry[k].id = i}
<1>1. S \in SUBSET (Nat \ {0})
  <2>1. S \subseteq Slots
    OBVIOUS
  <2>2. Slots \subseteq Nat \ {0}
    BY Sizes DEF Slots
  <2> HIDE DEF S
  <2> QED BY <2>1, <2>2
<1> QED BY <1>1, ScanReturns DEF findLevelByID

\* registerNewLevel finds a free descriptor, the first, or none.
LEMMA DescriptorRegistered ==
  ASSUME NEW d
  PROVE  LET k == findLevelByID(0) IN
         \/ k = 0 /\ Full /\ Registered(d) = registry
         \/ k \in Slots /\ ~ Full /\ Registered(d) = [registry EXCEPT ![k] = d]
<1> DEFINE S == {j \in Slots : registry[j].id = 0}
<1>1. S \in SUBSET (Nat \ {0})
  <2>1. S \subseteq Slots
    OBVIOUS
  <2>2. Slots \subseteq Nat \ {0}
    BY Sizes DEF Slots
  <2> HIDE DEF S
  <2> QED BY <2>1, <2>2
<1>2. \/ First(S) = 0 /\ S = {}
      \/ First(S) \in S /\ First(S) # 0
  <2> HIDE DEF S
  <2> QED BY <1>1, ScanReturns
<1>3. findLevelByID(0) = First(S)
  BY DEF findLevelByID
<1>4. Registered(d) = IF First(S) = 0 THEN registry ELSE [registry EXCEPT ![First(S)] = d]
  BY DEF Registered
<1>5. Full <=> S = {}
  BY DEF Full
<1>6. First(S) \in S => First(S) \in Slots
  OBVIOUS
<1> HIDE DEF S
<1> QED BY <1>2, <1>3, <1>4, <1>5, <1>6

LEMMA TableDomain ==
  ASSUME TablesOK, NEW t \in Tables
  PROVE  DOMAIN tables[t] = 1 .. Len(tables[t]) /\ Len(tables[t]) \in Nat \ {0}
<1>1. tables[t] \in Seq(VersionEntry) /\ \E k \in 1 .. MaxClusters : Len(tables[t]) = k * PerCluster
  BY DEF TablesOK, GoodTable
<1>2. \A k \in 1 .. MaxClusters : k * PerCluster \in Nat \ {0}
  BY Sizes
<1> QED BY <1>1, <1>2

LEMMA VersionFound ==
  ASSUME TablesOK, NEW t \in Tables, NEW n, Find(t, n) # 0
  PROVE  /\ Find(t, n) \in DOMAIN tables[t]
         /\ GoodVersion(tables[t][Find(t, n)], savedID)
<1> DEFINE S == {j \in DOMAIN tables[t] : tables[t][j].active /\ tables[t][j].name = n}
<1>1. S \in SUBSET (Nat \ {0})
  BY TableDomain
<1>2. Find(t, n) \in S
  BY <1>1, ScanReturns DEF Find
<1> QED BY <1>2 DEF TablesOK, GoodTable

LEMMA InFirstClusterFound ==
  ASSUME TablesOK, NEW t \in Tables, NEW n, InFirstCluster(t, n) # 0
  PROVE  /\ InFirstCluster(t, n) \in DOMAIN tables[t]
         /\ GoodVersion(tables[t][InFirstCluster(t, n)], savedID)
  BY VersionFound DEF InFirstCluster

LEMMA SlotFound ==
  ASSUME TablesOK, NEW t \in Tables, FreeVersionOf(t) # 0
  PROVE  FreeVersionOf(t) \in DOMAIN tables[t]
<1> DEFINE S == {j \in DOMAIN tables[t] : ~ tables[t][j].active}
<1>1. S \in SUBSET (Nat \ {0})
  BY TableDomain
<1> QED BY <1>1, ScanReturns DEF FreeVersionOf

-----------------------------------------------------------------------------
(* Changes of the tables, the registry and the context.                    *)

LEMMA FreeVersionIsGood ==
  ASSUME NEW bound \in Nat \ {0}
  PROVE  GoodVersion(FreeVersion, bound)
  BY Sizes, LevelsAssumption DEF GoodVersion, FreeVersion, VersionEntry, Ids, AllContents

LEMMA GoodStays ==
  ASSUME NEW a \in Nat, NEW b \in Nat, a <= b
  PROVE  /\ \A v : GoodVersion(v, a) => GoodVersion(v, b)
         /\ \A s : GoodTable(s, a) => GoodTable(s, b)
         /\ \A d : GoodDescriptor(d, a) => GoodDescriptor(d, b)
         /\ \A x : GoodContext(x, a) => GoodContext(x, b)
<1>1. \A v : GoodVersion(v, a) => GoodVersion(v, b)
  BY Sizes DEF GoodVersion, VersionEntry, Ids
<1>2. \A s : GoodTable(s, a) => GoodTable(s, b)
  BY <1>1 DEF GoodTable
<1>3. \A d : GoodDescriptor(d, a) => GoodDescriptor(d, b)
  BY Sizes DEF GoodDescriptor, Descriptors, Ids
<1>4. \A x : GoodContext(x, a) => GoodContext(x, b)
  BY Sizes DEF GoodContext, Contexts, Ids
<1> QED BY <1>1, <1>2, <1>3, <1>4

\* A slot of a table is overwritten.
LEMMA SlotChanges ==
  ASSUME NEW s, NEW bound \in Nat, GoodTable(s, bound), NEW j \in DOMAIN s,
         NEW v, GoodVersion(v, bound)
  PROVE  GoodTable([s EXCEPT ![j] = v], bound)
<1> DEFINE r == [s EXCEPT ![j] = v]
<1>1. s \in Seq(VersionEntry) /\ v \in VersionEntry
  BY DEF GoodTable, GoodVersion
<1>2. r \in Seq(VersionEntry) /\ Len(r) = Len(s) /\ DOMAIN r = DOMAIN s
  BY <1>1
<1>3. \A k \in DOMAIN r : r[k] = IF k = j THEN v ELSE s[k]
  BY <1>1
<1> HIDE DEF r
<1>4. GoodTable(r, bound)
  BY <1>2, <1>3 DEF GoodTable
<1> QED BY <1>4 DEF r

LEMMA OneMore ==
  ASSUME NEW k \in Nat, NEW m \in Nat, NEW p \in Nat \ {0}, k * p < m * p
  PROVE  k + 1 <= m /\ (k + 1) * p = k * p + p
<1>1. ASSUME m <= k  PROVE FALSE
  <2>1. PICK d \in Nat : k = m + d
    BY <1>1, k - m \in Nat, k = m + (k - m)
  <2>2. k * p = m * p + d * p /\ d * p \in Nat /\ m * p \in Nat
    BY <2>1
  <2> QED BY <2>2
<1> QED BY <1>1

\* addLevel, addLevelWithCluster: the outcomes are good tables.
LEMMA OutcomeIsGood ==
  ASSUME NEW bound \in Nat \ {0}, NEW t \in Tables, TablesOK, GoodTable(tables[t], bound),
         Room(t), NEW v, GoodVersion(v, bound), NEW s \in Outcomes(t, v)
  PROVE  GoodTable(s, bound)
<1>1. CASE s = tables[t]
  BY <1>1
<1>2. CASE FreeVersionOf(t) # 0 /\ s = [tables[t] EXCEPT ![FreeVersionOf(t)] = v]
  BY <1>2, SlotFound, SlotChanges
<1>3. CASE FreeVersionOf(t) = 0 /\ s = tables[t] \o
             [k \in 1 .. PerCluster |-> IF k % PerSector = 1 % PerSector THEN v ELSE FreeVersion]
  <2> DEFINE added == [k \in 1 .. PerCluster |->
                         IF k % PerSector = 1 % PerSector THEN v ELSE FreeVersion]
             old == tables[t]
  <2>1. \A k \in 1 .. PerCluster : GoodVersion(added[k], bound)
    BY FreeVersionIsGood
  <2>2. added \in Seq(VersionEntry) /\ Len(added) = PerCluster
    BY <2>1, Sizes DEF GoodVersion
  <2>3. old \in Seq(VersionEntry) /\ \A j \in DOMAIN old : GoodVersion(old[j], bound)
    BY DEF GoodTable
  <2>4. PICK n \in 1 .. MaxClusters : Len(old) = n * PerCluster
    BY DEF GoodTable
  <2>5. Len(old) < MaxClusters * PerCluster
    BY <1>3 DEF Room
  <2> HIDE DEF added, old
  <2>6. s = old \o added
    BY <1>3 DEF old, added
  <2>7. s \in Seq(VersionEntry) /\ Len(s) = Len(old) + PerCluster
    BY <2>2, <2>3, <2>6, ConcatProperties
  <2>8. Len(s) = (n + 1) * PerCluster /\ n + 1 \in 1 .. MaxClusters
    BY <2>4, <2>5, <2>7, OneMore, Sizes
  <2>9. ASSUME NEW j \in DOMAIN s  PROVE GoodVersion(s[j], bound)
    <3>1. j \in 1 .. Len(old) + PerCluster
      BY <2>7
    <3>2. CASE j <= Len(old)
      BY <2>2, <2>3, <2>6, <3>1, <3>2
    <3>3. CASE j > Len(old)
      <4>1. j - Len(old) \in 1 .. PerCluster
        BY <2>3, <3>1, <3>3, Sizes
      <4>2. s[j] = added[j - Len(old)]
        BY <2>2, <2>3, <2>6, <3>1, <3>3
      <4> QED BY <2>1, <4>1, <4>2
    <3> QED BY <2>3, <3>1, <3>2, <3>3, Sizes
  <2> QED BY <2>7, <2>8, <2>9 DEF GoodTable
<1> QED BY <1>1, <1>2, <1>3 DEF Outcomes, Filled

LEMMA TableChanges ==
  ASSUME Inv, IdsOK', savedID <= savedID', NEW t \in Tables, NEW s, GoodTable(s, savedID'),
         tables' = [tables EXCEPT ![t] = s]
  PROVE  TablesOK'
<1>1. savedID \in Nat /\ savedID' \in Nat
  BY Sizes DEF Inv, IdsOK, Ids
<1>2. \A x \in Tables : GoodTable(tables'[x], savedID')
  BY <1>1, GoodStays DEF Inv, TablesOK
<1> QED BY <1>2 DEF Inv, TablesOK, GoodTable

LEMMA TablesStay ==
  ASSUME Inv, IdsOK', savedID <= savedID', tables' = tables
  PROVE  TablesOK'
<1>1. savedID \in Nat /\ savedID' \in Nat
  BY Sizes DEF Inv, IdsOK, Ids
<1> QED BY <1>1, GoodStays DEF Inv, TablesOK

LEMMA DescriptorChanges ==
  ASSUME Inv, IdsOK', savedID <= savedID', NEW i \in Slots, NEW d, GoodDescriptor(d, savedID'),
         registry' = [registry EXCEPT ![i] = d]
  PROVE  RegistryOK'
<1>1. savedID \in Nat /\ savedID' \in Nat
  BY Sizes DEF Inv, IdsOK, Ids
<1>2. \A x \in Slots : GoodDescriptor(registry'[x], savedID')
  BY <1>1, GoodStays DEF Inv, RegistryOK
<1> QED BY <1>2 DEF Inv, RegistryOK, GoodDescriptor

LEMMA RegisteredIsGood ==
  ASSUME Inv, IdsOK', savedID <= savedID', NEW d, GoodDescriptor(d, savedID'),
         registry' = Registered(d)
  PROVE  RegistryOK'
<1>1. savedID \in Nat /\ savedID' \in Nat
  BY Sizes DEF Inv, IdsOK, Ids
<1>2. CASE registry' = registry
  BY <1>1, <1>2, GoodStays DEF Inv, RegistryOK
<1>3. ASSUME NEW k \in Slots, registry' = [registry EXCEPT ![k] = d]
      PROVE  RegistryOK'
  BY <1>3, DescriptorChanges
<1> QED BY <1>2, <1>3, DescriptorRegistered

LEMMA BeyondStays ==
  ASSUME Inv, IdsOK', savedID <= savedID', beyond' = beyond
  PROVE  BeyondOK'
  BY Sizes DEF Inv, IdsOK, RestOK, BeyondOK, Ids

LEMMA RegistryStays ==
  ASSUME Inv, IdsOK', savedID <= savedID', registry' = registry
  PROVE  RegistryOK'
<1>1. savedID \in Nat /\ savedID' \in Nat
  BY Sizes DEF Inv, IdsOK, Ids
<1> QED BY <1>1, GoodStays DEF Inv, RegistryOK

LEMMA ContextStays ==
  ASSUME Inv, IdsOK', savedID <= savedID', context' = context
  PROVE  GoodContext(context, savedID)'
<1>1. savedID \in Nat /\ savedID' \in Nat
  BY Sizes DEF Inv, IdsOK, Ids
<1> QED BY <1>1, GoodStays DEF Inv, GoodContext

LEMMA LoadedIsGood ==
  ASSUME TablesOK, IdsOK, NEW x, GoodContext(x, savedID), NEW n
  PROVE  GoodContext(Loaded(x, n), savedID)
<1>1. CASE Find(x.dir, n) = 0
  BY <1>1 DEF Loaded
<1>2. CASE Find(x.dir, n) # 0
  <2>1. x.dir \in Tables
    BY DEF GoodContext, Contexts
  <2>2. GoodVersion(tables[x.dir][Find(x.dir, n)], savedID)
    BY <1>2, <2>1, VersionFound
  <2> DEFINE v == tables[x.dir][Find(x.dir, n)]
  <2>3. Loaded(x, n) = [x EXCEPT !.content = v.content, !.level = v.id]
    BY <1>2 DEF Loaded
  <2>4. v.content \in AllContents /\ v.id \in Ids /\ v.id <= savedID
    BY <2>2, Sizes DEF GoodVersion, VersionEntry, IdsOK, Ids
  <2> HIDE DEF v
  <2> QED BY <2>3, <2>4 DEF GoodContext, Contexts
<1> QED BY <1>1, <1>2

-----------------------------------------------------------------------------
(* The commands.                                                           *)

LEMMA NewEntryIsGood ==
  ASSUME NEW n \in Names, NEW c \in AllContents, NEW i \in Ids, NEW p \in Ids, p <= i,
         NEW bound \in Nat, i < bound
  PROVE  GoodVersion(Version(n, c, i, p), bound)
  BY DEF GoodVersion, Version, VersionEntry

LEMMA NewDescriptorIsGood ==
  ASSUME NEW c \in AllContents, NEW i \in Ids, NEW p \in Ids, p <= i,
         NEW bound \in Nat, i <= bound
  PROVE  GoodDescriptor(Descriptor(i, p, c), bound)
  BY Sizes DEF GoodDescriptor, Descriptor, Descriptors

LEMMA Added ==
  ASSUME Inv, NEW t \in Tables, NEW n \in Names, AddLevel(t, n)
  PROVE  /\ IdsOK' /\ TablesOK' /\ RegistryOK' /\ RestOK'
         /\ savedID <= savedID'
<1>1. IdsOK' /\ savedID' = nextLevelID + 1 /\ savedID <= savedID' /\ nextLevelID \in Ids
  BY Sizes DEF Inv, IdsOK, Ids, AddLevel, SavedByRegister
<1>2. PICK c \in Unused :
        /\ allocated' = allocated \cup {c}
        /\ registry' = Registered(Descriptor(nextLevelID, context.level, c))
        /\ \E s \in Outcomes(t, Version(n, c, nextLevelID, context.level)) :
             tables' = [tables EXCEPT ![t] = s]
  BY DEF AddLevel
<1>3. BeyondOK'
  BY <1>1, Sizes DEF AddLevel, Inv, RestOK, BeyondOK, IdsOK, Ids
<1>4. c \in AllContents /\ context.level \in Ids /\ context.level <= nextLevelID
      /\ savedID' \in Nat \ {0} /\ nextLevelID < savedID'
  BY <1>1, Sizes DEF Unused, Inv, GoodContext, Contexts, IdsOK, Ids
<1>5. TablesOK'
  <2>1. GoodVersion(Version(n, c, nextLevelID, context.level), savedID')
    BY <1>1, <1>4, NewEntryIsGood
  <2>2. PICK s \in Outcomes(t, Version(n, c, nextLevelID, context.level)) :
          tables' = [tables EXCEPT ![t] = s]
    BY <1>2
  <2>3. GoodTable(tables[t], savedID') /\ Room(t)
    BY <1>1, Sizes, GoodStays DEF Inv, TablesOK, IdsOK, Ids, AddLevel
  <2>4. GoodTable(s, savedID')
    BY <1>4, <2>1, <2>3, OutcomeIsGood DEF Inv
  <2> QED BY <1>1, <2>2, <2>4, TableChanges
<1>6. RegistryOK'
  <2>1. GoodDescriptor(Descriptor(nextLevelID, context.level, c), savedID')
    BY <1>1, <1>4, NewDescriptorIsGood DEF Ids
  <2> QED BY <1>1, <1>2, <2>1, RegisteredIsGood
<1>7. RestOK'
  BY <1>2, <1>3, <1>4 DEF RestOK, Inv, AddLevel
<1> QED BY <1>1, <1>5, <1>6, <1>7

LEMMA Branched ==
  ASSUME Inv, NEW t \in Tables, NEW l \in Names, NEW n \in Names, LevelBranch(t, l, n)
  PROVE  Inv'
<1> DEFINE j == FreeVersionOf(t)
           parent == tables[t][Find(t, l)].id
<1>1. /\ IdsOK' /\ savedID <= savedID' /\ nextLevelID \in Ids /\ nextLevelID <= savedID'
      /\ j # 0 => nextLevelID < savedID'
  BY Sizes DEF Inv, IdsOK, Ids, LevelBranch, SavedByBranch, SavedByAlloc
<1>2. PICK c \in Unused :
        /\ allocated' = allocated \cup {c}
        /\ registry' = Registered(Descriptor(nextLevelID, parent, c))
        /\ tables' = IF j = 0 THEN tables
                     ELSE [tables EXCEPT ![t][j] = Version(n, c, nextLevelID, parent)]
        /\ mounts' = Cleared(c)
  BY DEF LevelBranch
<1>3. BeyondOK'
  BY <1>1, BeyondStays DEF LevelBranch
<1>4. c \in AllContents /\ parent \in Ids /\ parent <= nextLevelID /\ savedID' \in Nat
  <2>1. GoodVersion(tables[t][Find(t, l)], savedID)
    BY VersionFound DEF LevelBranch, Inv
  <2> QED BY <1>1, <2>1, Sizes DEF Unused, GoodVersion, VersionEntry, Inv, IdsOK, Ids
<1>5. TablesOK'
  <2>1. CASE j = 0
    BY <1>1, <1>2, <2>1, TablesStay
  <2>2. CASE j # 0
    <3> DEFINE v == Version(n, c, nextLevelID, parent)
               s == [tables[t] EXCEPT ![j] = v]
    <3>1. GoodVersion(v, savedID')
      BY <1>1, <1>4, <2>2, NewEntryIsGood
    <3>2. GoodTable(tables[t], savedID') /\ j \in DOMAIN tables[t]
      BY <1>1, <2>2, Sizes, GoodStays, SlotFound DEF Inv, TablesOK, IdsOK, Ids
    <3>3. GoodTable(s, savedID')
      BY <1>4, <3>1, <3>2, SlotChanges
    <3>4. tables' = [tables EXCEPT ![t] = s]
      BY <1>2, <2>2
    <3> QED BY <1>1, <3>3, <3>4, TableChanges
  <2> QED BY <2>1, <2>2
<1>6. RegistryOK'
  <2>1. GoodDescriptor(Descriptor(nextLevelID, parent, c), savedID')
    BY <1>1, <1>4, NewDescriptorIsGood
  <2> QED BY <1>1, <1>2, <2>1, RegisteredIsGood
<1>7. RestOK'
  BY <1>2, <1>3, <1>4 DEF RestOK, Inv, Cleared
<1>8. GoodContext(context, savedID)'
  BY <1>1, ContextStays DEF LevelBranch
<1> QED BY <1>1, <1>5, <1>6, <1>7, <1>8 DEF Inv

LEMMA LinkedIsGood ==
  ASSUME TablesOK, IdsOK, NEW t \in Tables, NEW n \in Names, NEW c \in AllContents
  PROVE  GoodVersion(Linked(t, n, c), savedID)
<1> DEFINE old == IF FreeVersionOf(t) = 0 THEN FreeVersion ELSE tables[t][FreeVersionOf(t)]
<1>1. GoodVersion(old, savedID)
  <2>1. savedID \in Nat \ {0}
    BY Sizes DEF IdsOK, Ids
  <2> QED BY <2>1, FreeVersionIsGood, SlotFound DEF TablesOK, GoodTable
<1>2. Linked(t, n, c) = [old EXCEPT !.active = TRUE, !.name = n, !.content = c]
  BY DEF Linked
<1> HIDE DEF old
<1> QED BY <1>1, <1>2 DEF GoodVersion, VersionEntry

LEMMA LevelsLinked ==
  ASSUME Inv, NEW n \in Names, LinkLevel(n)
  PROVE  Inv'
<1>1. IdsOK' /\ savedID <= savedID'
  BY Sizes DEF Inv, IdsOK, Ids, LinkLevel, SavedByAlloc
<1>2. PICK c \in Unused :
        /\ allocated' = allocated \cup {c}
        /\ \E local \in Outcomes(Local, Linked(Local, n, c)),
              data \in Outcomes(Data, Linked(Data, n, c)) :
             tables' = [tables EXCEPT ![Local] = local, ![Data] = data]
        /\ mounts' = Cleared(c)
  BY DEF LinkLevel
<1>3. PICK local \in Outcomes(Local, Linked(Local, n, c)),
           data \in Outcomes(Data, Linked(Data, n, c)) :
        tables' = [tables EXCEPT ![Local] = local, ![Data] = data]
  BY <1>2
<1>4. savedID \in Nat \ {0} /\ savedID' \in Nat \ {0} /\ c \in AllContents
      /\ {Local, Data} \subseteq Tables
  BY <1>1, Sizes DEF Inv, IdsOK, Ids, Unused, Tables
<1>5. GoodTable(local, savedID) /\ GoodTable(data, savedID)
  BY <1>4, LinkedIsGood, OutcomeIsGood DEF Inv, TablesOK, LinkLevel
<1>6. TablesOK'
  <2>1. \A x \in Tables : GoodTable(tables'[x], savedID)
    BY <1>3, <1>5 DEF Inv, TablesOK
  <2>2. \A x \in Tables : GoodTable(tables'[x], savedID')
    BY <1>1, <1>4, <2>1, GoodStays
  <2>3. tables' \in [Tables -> Seq(VersionEntry)]
    BY <1>3, <1>5 DEF Inv, TablesOK, GoodTable
  <2> QED BY <2>2, <2>3 DEF TablesOK
<1>7. RegistryOK' /\ GoodContext(context, savedID)'
  BY <1>1, RegistryStays, ContextStays DEF LinkLevel
<1>8. BeyondOK'
  BY <1>1, BeyondStays DEF LinkLevel
<1>9. RestOK'
  BY <1>2, <1>4, <1>8 DEF RestOK, Inv, Cleared
<1> QED BY <1>1, <1>6, <1>7, <1>9 DEF Inv

\* levelRemove, levelRename and deleteLevel overwrite one slot.
LEMMA SlotOverwritten ==
  ASSUME Inv, NEW t \in Tables, NEW j \in DOMAIN tables[t], NEW v, GoodVersion(v, savedID'),
         tables' = [tables EXCEPT ![t][j] = v], IdsOK', savedID <= savedID',
         registry' = registry, beyond' = beyond, context' = context, mounts' = mounts,
         allocated' \subseteq allocated
  PROVE  Inv'
<1> DEFINE s == [tables[t] EXCEPT ![j] = v]
<1>1. savedID' \in Nat /\ savedID \in Nat
  BY Sizes DEF IdsOK, Ids, Inv
<1>2. GoodTable(s, savedID')
  BY <1>1, SlotChanges, GoodStays DEF Inv, TablesOK
<1>3. tables' = [tables EXCEPT ![t] = s]
  OBVIOUS
<1>4. TablesOK'
  BY <1>2, <1>3, TableChanges
<1> QED BY <1>4, RegistryStays, BeyondStays, ContextStays DEF Inv, RestOK

LEMMA Removed ==
  ASSUME Inv, NEW t \in Tables, NEW n \in Names, NEW m \in Names,
         LevelRemove(t, n) \/ LevelRename(t, n, m) \/ DeleteLevel(t, n)
  PROVE  Inv'
<1> DEFINE j == InFirstCluster(t, n)
<1>1. j \in DOMAIN tables[t] /\ GoodVersion(tables[t][j], savedID)
  BY InFirstClusterFound DEF Inv, LevelRemove, LevelRename, DeleteLevel
<1>2. savedID \in Nat \ {0} /\ savedID <= nextLevelID /\ nextLevelID \in Nat
      /\ savedID <= savedID /\ IdsOK
  BY Sizes DEF Inv, IdsOK, Ids
<1>3. CASE LevelRemove(t, n)
  <2>1. GoodVersion([tables[t][j] EXCEPT !.active = FALSE], savedID)
    BY <1>1 DEF GoodVersion, VersionEntry
  <2>2. tables' = [tables EXCEPT ![t][j] = [tables[t][j] EXCEPT !.active = FALSE]]
    BY <1>1, <1>3 DEF LevelRemove, Inv, TablesOK
  <2>3. /\ savedID' = savedID /\ nextLevelID' = nextLevelID /\ registry' = registry
        /\ context' = context /\ mounts' = mounts /\ allocated' = allocated /\ beyond' = beyond
    BY <1>3 DEF LevelRemove
  <2>4. IdsOK' /\ savedID <= savedID'
    BY <1>2, <2>3 DEF IdsOK
  <2> QED BY <1>1, <2>1, <2>2, <2>3, <2>4, SlotOverwritten
<1>4. CASE LevelRename(t, n, m)
  <2>1. GoodVersion([tables[t][j] EXCEPT !.name = m], savedID)
    BY <1>1 DEF GoodVersion, VersionEntry
  <2>2. tables' = [tables EXCEPT ![t][j] = [tables[t][j] EXCEPT !.name = m]]
    BY <1>1, <1>4 DEF LevelRename, Inv, TablesOK
  <2>3. /\ savedID' = savedID /\ nextLevelID' = nextLevelID /\ registry' = registry
        /\ context' = context /\ mounts' = mounts /\ allocated' = allocated /\ beyond' = beyond
    BY <1>4 DEF LevelRename
  <2>4. IdsOK' /\ savedID <= savedID'
    BY <1>2, <2>3 DEF IdsOK
  <2> QED BY <1>1, <2>1, <2>2, <2>3, <2>4, SlotOverwritten
<1>5. CASE DeleteLevel(t, n)
  <2>1. savedID' = nextLevelID /\ nextLevelID' = nextLevelID /\ IdsOK'
    BY <1>2, <1>5 DEF DeleteLevel, SavedByAlloc, Inv, IdsOK
  <2>2. GoodVersion(FreeVersion, savedID')
    BY <1>2, <2>1, FreeVersionIsGood
  <2>3. tables' = [tables EXCEPT ![t][j] = FreeVersion]
    BY <1>5 DEF DeleteLevel
  <2> QED BY <1>1, <1>2, <1>5, <2>1, <2>2, <2>3, SlotOverwritten DEF DeleteLevel
<1> QED BY <1>3, <1>4, <1>5

LEMMA Mounted ==
  ASSUME Inv, NEW i \in 1 .. MaxId, NEW c \in AllContents, MountLevel(i, c)
  PROVE  Inv'
<1> DEFINE k == findLevelByID(i)
           d == [registry[k] EXCEPT !.refs = @ + 1]
<1>3. IdsOK' /\ savedID <= savedID' /\ savedID' = savedID
  BY Sizes DEF MountLevel, Inv, IdsOK, Ids
<1>4. RegistryOK'
  <2>1. CASE registry' = registry
    BY <1>3, <2>1, RegistryStays
  <2>2. CASE k # 0 /\ registry[k].refs < MaxRefs /\ registry' = updateLevelDescriptor(d)
    <3>1. k \in Slots /\ registry[k].id = i
      BY <2>2, DescriptorFound
    <3>2. GoodDescriptor(d, savedID) /\ d.id = i
      BY <2>2, <3>1, Sizes DEF GoodDescriptor, Descriptors, Inv, RegistryOK
    <3>3. registry' = [registry EXCEPT ![k] = d]
      BY <2>2, <3>2 DEF updateLevelDescriptor
    <3> QED BY <1>3, <3>1, <3>2, <3>3, DescriptorChanges
  <2> QED BY <2>1, <2>2 DEF MountLevel
<1>5. TablesOK' /\ GoodContext(context, savedID)'
  BY <1>3, TablesStay, ContextStays DEF MountLevel
<1>6. BeyondOK'
  BY <1>3, BeyondStays DEF MountLevel
<1>7. RestOK'
  BY <1>6, Sizes DEF RestOK, Inv, MountLevel, Ids
<1> QED BY <1>3, <1>4, <1>5, <1>7 DEF Inv

\* nav and mount leave the volume as it is, but for the IDs.
LEMMA ContextChanges ==
  ASSUME Inv, tables' = tables, registry' = registry, beyond' = beyond, mounts' = mounts,
         allocated' = allocated, IdsOK', savedID <= savedID', GoodContext(context', savedID)
  PROVE  Inv'
<1>1. savedID \in Nat /\ savedID' \in Nat
  BY Sizes DEF Inv, IdsOK, Ids
<1>2. GoodContext(context', savedID')
  BY <1>1, GoodStays
<1> QED BY <1>2, TablesStay, RegistryStays, BeyondStays DEF Inv, RestOK

LEMMA EnteredIsGood ==
  ASSUME Inv, NEW t \in Tables, NEW c \in AllContents
  PROVE  GoodContext(Entered(t, c), savedID)
  BY DEF Inv, GoodContext, Contexts, Entered

LEMMA AtRootIsGood == Inv => GoodContext(AtRoot, savedID)
  BY DEF Inv, GoodContext, Contexts, AtRoot, Tables

LEMMA Navigated ==
  ASSUME Inv, NEW n \in Names, NEW t \in Tables, NEW i \in 1 .. MaxId,
         NavUp \/ NavLevel(n) \/ NavFolder(t, n) \/ NavMount(i)
  PROVE  Inv'
<1>1. /\ tables' = tables /\ registry' = registry /\ mounts' = mounts /\ allocated' = allocated
      /\ beyond' = beyond /\ IdsOK' /\ savedID' = savedID /\ savedID <= savedID'
  <2>1. UNCHANGED volume
    BY DEF NavUp, NavLevel, NavFolder, NavMount
  <2> QED BY <2>1, Sizes DEF volume, Inv, IdsOK, Ids
<1>2. CASE NavUp
  BY <1>1, <1>2, AtRootIsGood, LoadedIsGood, ContextChanges DEF NavUp, Inv
<1>3. CASE NavLevel(n)
  <2>1. GoodContext(Loaded(context, n), savedID)
    BY LoadedIsGood DEF Inv
  <2>2. context' = [Loaded(context, n) EXCEPT !.rootVersion = IF context.atRoot THEN n ELSE @]
    BY <1>3 DEF NavLevel
  <2>3. GoodContext(context', savedID)
    BY <2>1, <2>2 DEF GoodContext, Contexts
  <2> QED BY <1>1, <2>3, ContextChanges
<1>4. CASE NavFolder(t, n)
  <2>1. tables[t][InFirstCluster(t, n)].content \in AllContents
    BY <1>4, InFirstClusterFound DEF NavFolder, Inv, GoodVersion, VersionEntry
  <2> QED BY <1>1, <1>4, <2>1, EnteredIsGood, ContextChanges DEF NavFolder
<1>5. CASE NavMount(i)
  <2> DEFINE k == findLevelByID(i)
  <2>1. PICK c \in AllContents \cup {NoContent} :
          /\ IF k = 0 THEN i \in beyond ELSE c = registry[k].content
          /\ context' = [context EXCEPT !.content = c, !.level = i, !.atRoot = FALSE]
    BY <1>5 DEF NavMount
  <2>2. i <= savedID /\ i \in Ids
    <3>1. CASE k = 0
      BY <2>1, <3>1 DEF Inv, RestOK, BeyondOK
    <3>2. CASE k # 0
      <4>1. k \in Slots /\ registry[k].id = i
        BY <3>2, DescriptorFound
      <4> QED BY <4>1, Sizes DEF Inv, RegistryOK, GoodDescriptor, Descriptors, Ids
    <3> QED BY <3>1, <3>2
  <2>3. context' = [context EXCEPT !.content = c, !.level = i, !.atRoot = FALSE]
    BY <2>1
  <2>4. GoodContext(context', savedID)
    BY <2>2, <2>3 DEF Inv, GoodContext, Contexts
  <2> QED BY <1>1, <2>4, ContextChanges
<1> QED BY <1>2, <1>3, <1>4, <1>5

LEMMA NewEntered ==
  ASSUME Inv, NEW t \in Tables, NavNew(t)
  PROVE  Inv'
<1>1. /\ IdsOK' /\ TablesOK' /\ RegistryOK' /\ RestOK' /\ savedID <= savedID'
  BY Added, LevelsAssumption DEF NavNew
<1>2. tables'[t][1].content \in AllContents
  <2>1. GoodTable(tables'[t], savedID')
    BY <1>1 DEF TablesOK
  <2>2. 1 \in DOMAIN tables'[t]
    <3>1. \A k \in 1 .. MaxClusters : k * PerCluster \in Nat \ {0}
      BY Sizes
    <3> QED BY <2>1, <3>1 DEF GoodTable
  <2> QED BY <2>1, <2>2 DEF GoodTable, GoodVersion, VersionEntry
<1>3. GoodContext(context', savedID)
  BY <1>2, EnteredIsGood DEF NavNew
<1>4. GoodContext(context', savedID')
  BY <1>1, <1>3, Sizes, GoodStays DEF Inv, IdsOK, Ids
<1> QED BY <1>1, <1>4 DEF Inv

LEMMA VolumeMounted == ASSUME Inv, Mount PROVE Inv'
<1>1. IdsOK' /\ savedID' = savedID /\ savedID <= savedID'
  BY Sizes DEF Mount, ReadID, Inv, IdsOK, Ids
<1>2. GoodContext(Loaded(AtRoot, Master), savedID)
  BY AtRootIsGood, LoadedIsGood DEF Inv
<1>3. GoodContext(context', savedID)
  BY <1>2, LevelsAssumption DEF Mount, GoodContext, Contexts
<1> QED BY <1>1, <1>3, ContextChanges DEF Mount

LEMMA Saved == ASSUME Inv, Other PROVE Inv'
<1>1. IdsOK' /\ savedID <= savedID'
  BY Sizes DEF Other, Inv, IdsOK, Ids
<1> QED BY <1>1, ContextChanges DEF Other, Inv

LEMMA LevelsStep == Inv /\ [Next]_vars => Inv'
<1> SUFFICES ASSUME Inv, [Next]_vars  PROVE Inv'
  OBVIOUS
<1>1. ASSUME NEW t \in Tables, NEW n \in Names, LevelAdd(t, n)  PROVE Inv'
  <2>1. AddLevel(t, n) /\ context' = context
    BY <1>1 DEF LevelAdd
  <2>2. GoodContext(context, savedID)'
    BY <2>1, Added, ContextStays
  <2> QED BY <2>1, <2>2, Added DEF Inv
<1>2. ASSUME NEW i \in 1 .. MaxId, NEW c \in {context.content, RootContent},
             MountLevel(i, c) \/ DeleteMount(i, c)
      PROVE  Inv'
  <2>1. CASE MountLevel(i, c)
    <3>1. c \in AllContents
      BY <2>1 DEF MountLevel
    <3> QED BY <2>1, <3>1, Mounted
  <2>2. CASE DeleteMount(i, c)
    <3>1. IdsOK' /\ savedID <= savedID'
      BY <2>2, Sizes DEF DeleteMount, Inv, IdsOK, Ids
    <3> QED BY <2>2, <3>1, TablesStay, RegistryStays, BeyondStays, ContextStays
            DEF DeleteMount, Inv, RestOK
  <2> QED BY <1>2, <2>1, <2>2
<1>3. CASE UNCHANGED vars
  <2>1. IdsOK' /\ savedID <= savedID'
    BY <1>3, Sizes DEF vars, Inv, IdsOK, Ids
  <2> QED BY <1>3, <2>1, ContextChanges DEF vars, Inv
<1>4. Master \in Names /\ Local \in Tables /\ 1 \in 1 .. MaxId
  BY LevelsAssumption DEF Tables
<1> QED
  BY <1>1, <1>2, <1>3, <1>4, Branched, LevelsLinked, Removed, Navigated, NewEntered,
     VolumeMounted, Saved DEF Next

LEMMA LevelsInit == Init => Inv
<1> SUFFICES ASSUME Init  PROVE Inv
  OBVIOUS
<1>1. IdsOK /\ RestOK /\ GoodContext(context, savedID)
  BY LevelsAssumption
     DEF Init, IdsOK, Ids, RestOK, BeyondOK, GoodContext, Contexts, AllContents, Tables
<1>2. RegistryOK
  BY Sizes DEF Init, RegistryOK, GoodDescriptor, Descriptors, FreeDescriptor, Ids, AllContents
<1>3. ASSUME NEW v, GoodVersion(v, 2)  PROVE GoodTable(NewTable(v), 2)
  <2> DEFINE rest == [k \in 1 .. PerCluster - 1 |-> FreeVersion]
  <2>1. GoodVersion(FreeVersion, 2)
    BY FreeVersionIsGood
  <2>2. rest \in Seq(VersionEntry) /\ Len(rest) = PerCluster - 1
    BY <2>1, Sizes DEF GoodVersion
  <2>3. <<v>> \in Seq(VersionEntry) /\ Len(<<v>>) = 1 /\ <<v>>[1] = v
    BY <1>3 DEF GoodVersion
  <2>4. \A j \in DOMAIN rest : rest[j] = FreeVersion
    OBVIOUS
  <2>5. NewTable(v) = <<v>> \o rest
    BY DEF NewTable
  <2> HIDE DEF rest
  <2>6. NewTable(v) \in Seq(VersionEntry) /\ Len(NewTable(v)) = PerCluster
    BY <2>2, <2>3, <2>5, Sizes
  <2>7. \A j \in DOMAIN NewTable(v) : NewTable(v)[j] \in {v, FreeVersion}
    <3> SUFFICES ASSUME NEW j \in DOMAIN NewTable(v)  PROVE NewTable(v)[j] \in {v, FreeVersion}
      OBVIOUS
    <3>1. j \in 1 .. PerCluster
      BY <2>6
    <3>2. CASE j = 1
      BY <2>2, <2>3, <2>5, <3>1, <3>2
    <3>3. CASE j # 1
      <4>1. j - 1 \in 1 .. PerCluster - 1 /\ NewTable(v)[j] = rest[j - 1]
        BY <2>2, <2>3, <2>5, <3>1, <3>3, Sizes
      <4>2. j - 1 \in DOMAIN rest
        BY <2>2, <4>1
      <4> QED BY <2>4, <4>1, <4>2
    <3> QED BY <3>2, <3>3
  <2>8. 1 \in 1 .. MaxClusters /\ 1 * PerCluster = PerCluster
    BY Sizes
  <2> QED BY <1>3, <2>1, <2>6, <2>7, <2>8 DEF GoodTable
<1>4. TablesOK
  <2>1. /\ GoodVersion(Version(Master, RootContent, 1, 0), 2)
        /\ GoodVersion(Version(Master, LocalContent, 1, 1), 2)
        /\ GoodVersion(Version(Master, DataContent, 1, 1), 2)
    BY Sizes, LevelsAssumption DEF GoodVersion, Version, VersionEntry, Ids, AllContents
  <2>2. \A t \in Tables : GoodTable(tables[t], 2)
    BY <1>3, <2>1, LevelsAssumption DEF Init, Tables
  <2>3. \A t \in Tables : tables[t] \in Seq(VersionEntry)
    BY <2>2 DEF GoodTable
  <2>4. tables \in [Tables -> Seq(VersionEntry)]
    BY <2>3 DEF Init
  <2> QED BY <2>2, <2>4 DEF TablesOK, Init
<1> QED BY <1>1, <1>2, <1>4 DEF Inv

LEMMA LevelsInvariant == Spec => []Inv
  BY LevelsInit, LevelsStep, PTL DEF Spec

-----------------------------------------------------------------------------

\* The variables have their types, and version tables stay whole clusters however often
\* addLevel extends them.
THEOREM LevelTypes == Spec => []TypeOK
<1>1. ASSUME Inv  PROVE TypeOK
  BY <1>1 DEF Inv, TypeOK, IdsOK, TablesOK, GoodTable, RegistryOK, Descriptors, RestOK,
              BeyondOK, GoodContext, Contexts
<1> QED BY <1>1, LevelsInvariant, PTL

\* addLevel and branchLevel save the next level ID before a version table has the last one,
\* so that no mount gives out an ID that a version table has.
THEOREM TableIdsAreSaved == Spec => []TableIdsSaved
<1>1. ASSUME Inv  PROVE TableIdsSaved
  BY <1>1, Sizes DEF Inv, TableIdsSaved, Versions, IdsOK, TablesOK, GoodTable, GoodVersion,
                     VersionEntry, Ids
<1> QED BY <1>1, LevelsInvariant, PTL

\* Whatever level the shell takes for the current one, a new level's parent is no younger.
THEOREM LineageIsOrdered == Spec => []LineageDescends
<1>1. ASSUME Inv  PROVE LineageDescends
  BY <1>1 DEF Inv, LineageDescends, Versions, RegistryOK, GoodDescriptor, TablesOK, GoodTable,
              GoodVersion
<1> QED BY <1>1, LevelsInvariant, PTL
-----------------------------------------------------------------------------
(* Level mounts.  Agreed descriptors are appended: one that a scan finds   *)
(* is found by it for ever, and no level is beyond them before they are    *)
(* full.                                                                   *)

Appended ==
  /\ \A i, k \in Slots : i < k /\ registry[i].id = 0 => registry[k].id = 0
  /\ beyond = {} \/ Full
MountsLead ==
  /\ IsFiniteSet(mounts)
  /\ \A p \in mounts : p[2] \in 1 .. MaxId /\ (findLevelByID(p[2]) # 0 \/ p[2] \in beyond)

MountInv == Inv /\ Appended /\ MountsLead /\ MountsAreCounted

NewAt(d) ==
  LET i == findLevelByID(0) IN
  /\ i # 0 /\ d \in Descriptors /\ d.id # 0 /\ d.refs = 1
  /\ registry' = [registry EXCEPT ![i] = d]
  /\ beyond' = beyond /\ ~ Full

LEMMA LeastIsFirst ==
  ASSUME NEW S \in SUBSET Nat, NEW i \in S, \A j \in S : i <= j
  PROVE  First(S) = i
<1>1. First(S) = CHOOSE k \in S : \A j \in S : k <= j
  BY DEF First
<1>2. \A k \in S : (\A j \in S : k <= j) => k = i
  OBVIOUS
<1> QED BY <1>1, <1>2

LEMMA FirstIsLeast ==
  ASSUME NEW S \in SUBSET (Nat \ {0}), First(S) # 0
  PROVE  First(S) \in S /\ \A j \in S : First(S) <= j
<1>1. S # {}
  BY DEF First
<1>2. PICK i \in S : \A j \in S : ~ (<<j, i>> \in OpToRel(<, Nat))
  BY <1>1, WFMin, NatLessThanWellFounded
<1>3. \A j \in S : ~ (j < i)
  BY <1>2 DEF OpToRel
<1>4. \A j \in S : i <= j
  BY <1>3
<1>5. First(S) = i
  BY <1>4, LeastIsFirst
<1> QED BY <1>4, <1>5

LEMMA Places == Slots \subseteq Nat \ {0} /\ 0 \notin Slots
  BY Sizes DEF Slots

LEMMA Found ==
  ASSUME NEW x, findLevelByID(x) # 0
  PROVE  /\ findLevelByID(x) \in Slots
         /\ registry[findLevelByID(x)].id = x
         /\ \A j \in Slots : registry[j].id = x => findLevelByID(x) <= j
<1> DEFINE S == {k \in Slots : registry[k].id = x}
<1>1. S \in SUBSET (Nat \ {0})
  <2>1. S \subseteq Slots
    OBVIOUS
  <2> HIDE DEF S
  <2> QED BY <2>1, Places
<1>2. findLevelByID(x) = First(S)
  BY DEF findLevelByID
<1>3. First(S) \in S /\ \A j \in S : First(S) <= j
  BY <1>1, <1>2, FirstIsLeast
<1> QED BY <1>2, <1>3

LEMMA NotFound ==
  ASSUME NEW x, findLevelByID(x) = 0
  PROVE  \A j \in Slots : registry[j].id # x
<1> DEFINE S == {j \in Slots : registry[j].id = x}
<1>1. S \in SUBSET (Nat \ {0})
  BY Places
<1>2. First(S) = 0
  BY DEF findLevelByID
<1> QED BY <1>1, <1>2, ScanReturns

\* What a later scan finds, by what the slots hold then.
LEMMA FindsLater ==
  ASSUME NEW x, NEW k \in Slots, registry'[k].id = x,
         \A j \in Slots : registry'[j].id = x => k <= j
  PROVE  findLevelByID(x)' = k
<1> DEFINE S == {j \in Slots : registry'[j].id = x}
<1>1. S \in SUBSET Nat /\ k \in S
  BY Places
<1>2. First(S) = k
  <2>1. \A j \in S : k <= j
    OBVIOUS
  <2> HIDE DEF S
  <2> QED BY <1>1, <2>1, LeastIsFirst
<1> QED BY <1>2 DEF findLevelByID

StaysOrFills ==
  /\ registry' = registry /\ beyond \subseteq beyond'
  /\ beyond' = beyond \/ Full

LEMMA RegisteredWays ==
  ASSUME NEW d \in Descriptors, d.id # 0, d.refs = 1, registry' = Registered(d),
         beyond' = beyond \/ beyond' = IF Full THEN beyond \cup {nextLevelID} ELSE beyond
  PROVE  StaysOrFills \/ NewAt(d)
<1>1. CASE Full /\ Registered(d) = registry
  BY <1>1 DEF StaysOrFills
<1>2. CASE findLevelByID(0) \in Slots /\ ~ Full
           /\ Registered(d) = [registry EXCEPT ![findLevelByID(0)] = d]
  BY <1>2, Places DEF NewAt
<1> QED BY <1>1, <1>2, DescriptorRegistered

LEMMA ThreeWays ==
  ASSUME Inv, [Next]_vars
  PROVE  \/ StaysOrFills /\ mounts' \subseteq mounts
         \/ (\E d \in Descriptors : NewAt(d)) /\ mounts' \subseteq mounts
         \/ \E i \in 1 .. MaxId, c \in AllContents : MountLevel(i, c)
<1> DEFINE Goal == \/ StaysOrFills /\ mounts' \subseteq mounts
                   \/ (\E d \in Descriptors : NewAt(d)) /\ mounts' \subseteq mounts
                   \/ \E i \in 1 .. MaxId, c \in AllContents : MountLevel(i, c)
<1>0. nextLevelID \in Ids /\ nextLevelID # 0 /\ context.level \in Ids
  BY Sizes DEF Inv, IdsOK, Ids, GoodContext, Contexts
<1>1. ASSUME NEW c \in AllContents, NEW p \in Ids
      PROVE  LET d == Descriptor(nextLevelID, p, c) IN d \in Descriptors /\ d.id # 0 /\ d.refs = 1
  BY <1>0, Sizes DEF Descriptor, Descriptors
<1>2. ASSUME NEW t \in Tables, NEW n \in Names, AddLevel(t, n)  PROVE Goal
  <2>1. PICK c \in Unused :
          registry' = Registered(Descriptor(nextLevelID, context.level, c))
    BY <1>2 DEF AddLevel
  <2> DEFINE d == Descriptor(nextLevelID, context.level, c)
  <2>2. d \in Descriptors /\ d.id # 0 /\ d.refs = 1
    BY <1>0, <1>1 DEF Unused
  <2>3. beyond' = IF Full THEN beyond \cup {nextLevelID} ELSE beyond
    BY <1>2 DEF AddLevel
  <2>4. registry' = Registered(d)
    BY <2>1
  <2> HIDE DEF d
  <2>5. StaysOrFills \/ NewAt(d)
    BY <2>2, <2>3, <2>4, RegisteredWays
  <2> QED BY <1>2, <2>2, <2>5 DEF AddLevel
<1>3. ASSUME NEW t \in Tables, NEW l \in Names, NEW n \in Names, LevelBranch(t, l, n)
      PROVE  Goal
  <2> DEFINE parent == tables[t][Find(t, l)].id
  <2>1. PICK c \in Unused :
          /\ registry' = Registered(Descriptor(nextLevelID, parent, c))
          /\ mounts' = Cleared(c)
    BY <1>3 DEF LevelBranch
  <2>2. parent \in Ids
    BY <1>3, VersionFound DEF LevelBranch, Inv, GoodVersion, VersionEntry
  <2> DEFINE d == Descriptor(nextLevelID, parent, c)
  <2>3. d \in Descriptors /\ d.id # 0 /\ d.refs = 1
    BY <1>1, <2>2 DEF Unused
  <2>4. registry' = Registered(d) /\ beyond' = beyond
    BY <1>3, <2>1 DEF LevelBranch
  <2> HIDE DEF d
  <2>5. StaysOrFills \/ NewAt(d)
    BY <2>3, <2>4, RegisteredWays
  <2> QED BY <2>1, <2>3, <2>5 DEF Cleared
<1>4. ASSUME NEW i \in 1 .. MaxId, NEW c \in {context.content, RootContent}, MountLevel(i, c)
      PROVE  Goal
  BY <1>4 DEF MountLevel
<1>5. ASSUME NEW n \in Names, LinkLevel(n)  PROVE Goal
  BY <1>5 DEF LinkLevel, Cleared, StaysOrFills
<1> HIDE DEF Goal
<1>6. ASSUME registry' = registry, beyond' = beyond, mounts' = mounts  PROVE Goal
  BY <1>6 DEF Goal, StaysOrFills
<1>7. ASSUME NEW i \in 1 .. MaxId, NEW c \in {context.content, RootContent}, DeleteMount(i, c)
      PROVE  Goal
  BY <1>7 DEF DeleteMount, Goal, StaysOrFills
<1>8. Main \in Names
  BY LevelsAssumption
<1>9. ASSUME NEW t \in Tables, NEW n \in Names, NEW m \in Names,
             LevelRemove(t, n) \/ LevelRename(t, n, m) \/ DeleteLevel(t, n) \/ NavFolder(t, n)
      PROVE  Goal
  <2>1. registry' = registry /\ beyond' = beyond /\ mounts' = mounts
    BY <1>9 DEF LevelRemove, LevelRename, DeleteLevel, NavFolder, volume
  <2> QED BY <1>6, <2>1
<1>10. ASSUME NEW n \in Names, NEW i \in 1 .. MaxId,
              NavUp \/ NavLevel(n) \/ NavMount(i) \/ Other \/ Mount \/ UNCHANGED vars
       PROVE  Goal
  <2>1. registry' = registry /\ beyond' = beyond /\ mounts' = mounts
    BY <1>10 DEF NavUp, NavLevel, NavMount, volume, Other, Mount, vars
  <2> QED BY <1>6, <2>1
<1>11. 1 \in 1 .. MaxId
  BY Sizes
<1>12. Goal
  BY <1>2, <1>3, <1>4, <1>5, <1>7, <1>8, <1>9, <1>10, <1>11 DEF Next, LevelAdd, NavNew
<1> QED BY <1>12 DEF Goal

\* A descriptor that is found stays where it is found, whatever is appended.
LEMMA NewLeavesFound ==
  ASSUME MountInv, NEW d \in Descriptors, NewAt(d),
         NEW x \in 1 .. MaxId, findLevelByID(x) # 0
  PROVE  /\ findLevelByID(x)' = findLevelByID(x)
         /\ registry'[findLevelByID(x)] = registry[findLevelByID(x)]
<1> DEFINE i == findLevelByID(0)
           k == findLevelByID(x)
<1>1. i \in Slots /\ registry[i].id = 0
  BY Found DEF NewAt
<1>2. k \in Slots /\ registry[k].id = x /\ \A j \in Slots : registry[j].id = x => k <= j
  BY Found
<1>3. registry' = [registry EXCEPT ![i] = d] /\ registry \in [Slots -> Descriptors]
  BY DEF NewAt, MountInv, Inv, RegistryOK
<1>4. x # 0 /\ k # i
  BY <1>1, <1>2
<1> HIDE DEF i, k
<1>5. registry'[k] = registry[k]
  BY <1>2, <1>3, <1>4
<1>6. k <= i
  <2>1. ASSUME i < k  PROVE FALSE
    BY <1>1, <1>2, <1>4, <2>1 DEF MountInv, Appended
  <2> QED BY <1>1, <1>2, <2>1, Places
<1>7. \A j \in Slots : registry'[j].id = x => k <= j
  BY <1>2, <1>3, <1>6
<1>8. findLevelByID(x)' = k
  BY <1>2, <1>5, <1>7, FindsLater
<1> QED BY <1>5, <1>8 DEF k

LEMMA NewIsAppended ==
  ASSUME MountInv, NEW d \in Descriptors, NewAt(d)
  PROVE  Appended'
<1> DEFINE i == findLevelByID(0)
<1>1. i \in Slots /\ registry[i].id = 0 /\ \A j \in Slots : registry[j].id = 0 => i <= j
  BY Found DEF NewAt
<1>2. registry' = [registry EXCEPT ![i] = d] /\ registry \in [Slots -> Descriptors] /\ d.id # 0
  BY DEF NewAt, MountInv, Inv, RegistryOK
<1>3. beyond' = {}
  BY DEF NewAt, MountInv, Appended
<1> HIDE DEF i
<1> SUFFICES ASSUME NEW a \in Slots, NEW k \in Slots, a < k, registry'[a].id = 0
             PROVE  registry'[k].id = 0
  BY <1>3 DEF Appended
<1>4. a # i
  BY <1>2
<1>5. registry[a].id = 0 /\ i <= a
  BY <1>1, <1>2, <1>4
<1>6. k # i
  BY <1>1, <1>5, Places
<1> QED BY <1>2, <1>5, <1>6 DEF MountInv, Appended

\* mount-level changes no descriptor's ID, and the content of none that is found.
LEMMA MountLeavesFound ==
  ASSUME MountInv, NEW i \in 1 .. MaxId, NEW c \in AllContents, MountLevel(i, c)
  PROVE  /\ \A j \in Slots : registry'[j].id = registry[j].id
         /\ \A x \in 1 .. MaxId :
              LET k == findLevelByID(x) IN
              /\ k = 0 => findLevelByID(x)' = 0
              /\ k # 0 =>
                   /\ findLevelByID(x)' = k
                   /\ registry'[k].content = registry[k].content
                   /\ registry'[k].refs = IF x = i THEN registry[k].refs + 1 ELSE registry[k].refs
<1> DEFINE m == findLevelByID(i)
           d == [registry[m] EXCEPT !.refs = @ + 1]
<1>1. registry \in [Slots -> Descriptors]
  BY DEF MountInv, Inv, RegistryOK
<1>2. /\ m = 0 => registry' = registry
      /\ m # 0 => /\ m \in Slots /\ registry[m].id = i
                  /\ d.id = i /\ d.content = registry[m].content /\ d.refs = registry[m].refs + 1
                  /\ registry' = [registry EXCEPT ![m] = d]
  <2>1. CASE m = 0
    BY <2>1 DEF MountLevel
  <2>2. CASE m # 0
    <3>1. m \in Slots /\ registry[m].id = i
      BY <2>2, Found
    <3>2. d.id = i /\ d.content = registry[m].content /\ d.refs = registry[m].refs + 1
      BY <1>1, <3>1 DEF Descriptors
    <3>3. registry' = updateLevelDescriptor(d)
      BY <2>2 DEF MountLevel
    <3> QED BY <2>2, <3>1, <3>2, <3>3 DEF updateLevelDescriptor
  <2> QED BY <2>1, <2>2
<1> HIDE DEF d
<1>3. \A j \in Slots : registry'[j].id = registry[j].id
  BY <1>1, <1>2
<1>4. ASSUME NEW x \in 1 .. MaxId
      PROVE  LET k == findLevelByID(x) IN
             /\ k = 0 => findLevelByID(x)' = 0
             /\ k # 0 =>
                  /\ findLevelByID(x)' = k
                  /\ registry'[k].content = registry[k].content
                  /\ registry'[k].refs = IF x = i THEN registry[k].refs + 1 ELSE registry[k].refs
  <2> DEFINE k == findLevelByID(x)
  <2>1. {j \in Slots : registry'[j].id = x} = {j \in Slots : registry[j].id = x}
    BY <1>3
  <2>2. findLevelByID(x)' = k
    BY <2>1 DEF findLevelByID
  <2>3. k # 0 => k \in Slots /\ registry[k].id = x
    BY Found
  <2>4. x = i => k = m
    OBVIOUS
  <2> HIDE DEF k, m
  <2>5. ASSUME k # 0
        PROVE  /\ registry'[k].content = registry[k].content
               /\ registry'[k].refs = IF x = i THEN registry[k].refs + 1 ELSE registry[k].refs
    <3>1. CASE x = i
      BY <1>1, <1>2, <2>3, <2>4, <2>5, <3>1
    <3>2. CASE x # i
      BY <1>1, <1>2, <2>3, <2>5, <3>2
    <3> QED BY <3>1, <3>2
  <2> QED BY <2>2, <2>5 DEF k
<1> QED BY <1>3, <1>4

-----------------------------------------------------------------------------
(* Counting mounts.                                                        *)

Of(x) == {p \in mounts : p[2] = x}

LEMMA FewerMounts ==
  ASSUME MountsLead, mounts' \subseteq mounts, NEW x
  PROVE  /\ IsFiniteSet(mounts')
         /\ Cardinality(Of(x)') \in Nat /\ Cardinality(Of(x)) \in Nat
         /\ Cardinality(Of(x)') <= Cardinality(Of(x))
<1>1. IsFiniteSet(mounts') /\ IsFiniteSet(Of(x))
  BY FS_Subset DEF MountsLead, Of
<1>2. Of(x)' \in SUBSET Of(x)
  BY DEF Of
<1> QED BY <1>1, <1>2, FS_Subset, FS_CardinalityType

LEMMA MountStep == MountInv /\ [Next]_vars => MountInv'
<1> SUFFICES ASSUME MountInv, [Next]_vars  PROVE MountInv'
  OBVIOUS
<1>1. Inv'
  BY LevelsStep DEF MountInv
<1>2. CASE StaysOrFills /\ mounts' \subseteq mounts
  <2>1. \A x : findLevelByID(x)' = findLevelByID(x)
    BY <1>2 DEF findLevelByID, StaysOrFills
  <2>2. Appended'
    BY <1>2 DEF MountInv, Appended, StaysOrFills, Full
  <2>3. MountsLead'
    BY <1>2, <2>1, FewerMounts DEF MountInv, MountsLead, StaysOrFills
  <2>4. MountsAreCounted'
    <3> SUFFICES ASSUME NEW x \in 1 .. MaxId, findLevelByID(x) # 0
                 PROVE  Cardinality(Of(x)') < registry[findLevelByID(x)].refs
      BY <1>2, <2>1 DEF MountsAreCounted, Of, StaysOrFills
    <3>1. Cardinality(Of(x)) < registry[findLevelByID(x)].refs
      BY DEF MountInv, MountsAreCounted, Of
    <3>2. findLevelByID(x) \in Slots
      BY Found
    <3>3. registry[findLevelByID(x)].refs \in Nat
      BY <3>2, Sizes DEF MountInv, Inv, RegistryOK, Descriptors
    <3> QED BY <1>2, <3>1, <3>3, FewerMounts DEF MountInv
  <2> QED BY <1>1, <2>2, <2>3, <2>4 DEF MountInv
<1>3. ASSUME NEW d \in Descriptors, NewAt(d), mounts' \subseteq mounts
      PROVE  MountInv'
  <2>0. beyond' = beyond /\ beyond = {}
    BY <1>3 DEF NewAt, MountInv, Appended
  <2>1. MountsLead'
    <3> SUFFICES ASSUME NEW p \in mounts'
                 PROVE  p[2] \in 1 .. MaxId /\ findLevelByID(p[2])' # 0
      BY <1>3, FewerMounts DEF MountInv, MountsLead
    <3>1. p[2] \in 1 .. MaxId /\ findLevelByID(p[2]) # 0
      BY <1>3, <2>0 DEF MountInv, MountsLead
    <3>2. findLevelByID(p[2])' = findLevelByID(p[2])
      BY <1>3, <3>1, NewLeavesFound
    <3> QED BY <3>1, <3>2
  <2>2. MountsAreCounted'
    <3> SUFFICES ASSUME NEW x \in 1 .. MaxId, findLevelByID(x)' # 0
                 PROVE  Cardinality(Of(x)') < registry'[findLevelByID(x)'].refs
      BY DEF MountsAreCounted, Of
    <3>1. CASE findLevelByID(x) # 0
      <4> DEFINE k == findLevelByID(x)
      <4>1. findLevelByID(x)' = k /\ registry'[k] = registry[k]
        BY <1>3, <3>1, NewLeavesFound
      <4>2. Cardinality(Of(x)) < registry[k].refs
        BY <3>1 DEF MountInv, MountsAreCounted, Of
      <4>3. registry[k].refs \in Nat
        BY <3>1, Found, Sizes DEF MountInv, Inv, RegistryOK, Descriptors
      <4> HIDE DEF k
      <4> QED BY <1>3, <4>1, <4>2, <4>3, FewerMounts DEF MountInv
    <3>2. CASE findLevelByID(x) = 0
      <4>1. Of(x) = {} /\ Of(x)' = {}
        BY <1>3, <2>0, <3>2 DEF Of, MountInv, MountsLead
      <4>2. Cardinality(Of(x)') = 0
        BY <4>1, FS_EmptySet
      <4> DEFINE k == findLevelByID(x)'
                 i == findLevelByID(0)
      <4>3. k \in Slots /\ registry'[k].id = x
        <5> DEFINE S == {j \in Slots : registry'[j].id = x}
        <5>1. S \in SUBSET (Nat \ {0})
          BY Places
        <5>2. k = First(S)
          BY DEF findLevelByID
        <5>3. First(S) \in S
          BY <5>1, <5>2, ScanReturns
        <5> QED BY <5>2, <5>3
      <4>4. registry' = [registry EXCEPT ![i] = d] /\ registry \in [Slots -> Descriptors]
            /\ i \in Slots /\ d.refs = 1
        BY <1>3, Found DEF NewAt, MountInv, Inv, RegistryOK
      <4>5. \A j \in Slots : registry[j].id # x
        BY <3>2, NotFound
      <4> HIDE DEF k, i
      <4>6. k = i
        BY <4>3, <4>4, <4>5
      <4>7. registry'[k].refs = 1
        BY <4>4, <4>6
      <4> QED BY <4>2, <4>7 DEF k
    <3> QED BY <3>1, <3>2
  <2> QED BY <1>1, <1>3, <2>1, <2>2, NewIsAppended DEF MountInv
<1>4. ASSUME NEW i \in 1 .. MaxId, NEW c \in AllContents, MountLevel(i, c)  PROVE MountInv'
  <2>1. /\ findLevelByID(i) # 0 \/ i \in beyond
        /\ <<c, i>> \notin mounts /\ mounts' = mounts \cup {<<c, i>>} /\ beyond' = beyond
    BY <1>4 DEF MountLevel
  <2>2. Appended'
    <3>1. \A j \in Slots : registry'[j].id = registry[j].id
      BY <1>4, MountLeavesFound
    <3>2. Full' <=> Full
      BY <3>1 DEF Full
    <3> QED BY <2>1, <3>1, <3>2 DEF MountInv, Appended
  <2>3. MountsLead'
    <3>1. IsFiniteSet(mounts')
      BY <2>1, FS_AddElement DEF MountInv, MountsLead
    <3>2. ASSUME NEW p \in mounts'
          PROVE  p[2] \in 1 .. MaxId /\ (findLevelByID(p[2])' # 0 \/ p[2] \in beyond')
      <4>1. p[2] \in 1 .. MaxId /\ (findLevelByID(p[2]) # 0 \/ p[2] \in beyond)
        BY <2>1 DEF MountInv, MountsLead
      <4> QED BY <1>4, <2>1, <4>1, MountLeavesFound
    <3> QED BY <3>1, <3>2 DEF MountsLead
  <2>4. MountsAreCounted'
    <3> SUFFICES ASSUME NEW x \in 1 .. MaxId, findLevelByID(x)' # 0
                 PROVE  Cardinality(Of(x)') < registry'[findLevelByID(x)'].refs
      BY DEF MountsAreCounted, Of
    <3> DEFINE k == findLevelByID(x)
    <3>1. k # 0
      BY <1>4, MountLeavesFound
    <3>2. /\ findLevelByID(x)' = k
          /\ registry'[k].refs = IF x = i THEN registry[k].refs + 1 ELSE registry[k].refs
      BY <1>4, <3>1, MountLeavesFound
    <3>3. Cardinality(Of(x)) < registry[k].refs
      BY <3>1 DEF MountInv, MountsAreCounted, Of
    <3>4. registry[k].refs \in Nat
      BY <3>1, Found, Sizes DEF MountInv, Inv, RegistryOK, Descriptors
    <3>5. IsFiniteSet(Of(x)) /\ Cardinality(Of(x)) \in Nat
      BY FS_Subset, FS_CardinalityType DEF MountInv, MountsLead, Of
    <3>6. CASE x = i
      <4>1. Of(x)' = Of(x) \cup {<<c, i>>} /\ <<c, i>> \notin Of(x)
        BY <2>1, <3>6 DEF Of
      <4>2. Cardinality(Of(x)') = Cardinality(Of(x)) + 1
        BY <3>5, <4>1, FS_AddElement
      <4> HIDE DEF k
      <4> QED BY <3>2, <3>3, <3>4, <3>5, <3>6, <4>2
    <3>7. CASE x # i
      <4>1. Of(x)' = Of(x)
        BY <2>1, <3>7 DEF Of
      <4> HIDE DEF k
      <4> QED BY <3>2, <3>3, <3>7, <4>1
    <3> QED BY <3>6, <3>7
  <2> QED BY <1>1, <2>2, <2>3, <2>4 DEF MountInv
<1> QED BY <1>2, <1>3, <1>4, ThreeWays DEF MountInv

LEMMA MountInit == Init => MountInv
<1> SUFFICES ASSUME Init  PROVE MountInv
  OBVIOUS
<1>1. Inv
  BY LevelsInit
<1>2. Appended
  BY Sizes DEF Init, Appended, FreeDescriptor, Slots
<1>3. MountsLead
  BY FS_EmptySet DEF Init, MountsLead
<1>4. MountsAreCounted
  <2> SUFFICES ASSUME NEW x \in 1 .. MaxId, findLevelByID(x) # 0
               PROVE  Cardinality({p \in mounts : p[2] = x}) < registry[findLevelByID(x)].refs
    BY DEF MountsAreCounted
  <2>1. x # 0
    BY Sizes
  <2>2. registry[findLevelByID(x)].id = x /\ findLevelByID(x) \in Slots
    BY Found
  <2>3. registry[findLevelByID(x)].refs = 1
    BY <2>1, <2>2 DEF Init, FreeDescriptor
  <2>4. {p \in mounts : p[2] = x} = {}
    BY DEF Init
  <2> QED BY <2>3, <2>4, FS_EmptySet
<1> QED BY <1>1, <1>2, <1>3, <1>4 DEF MountInv

LEMMA MountInvariant == Spec => []MountInv
  BY MountInit, MountStep, PTL DEF Spec

\* createLevelMount counts a mount of a level with an agreed descriptor where findLevelByID
\* looks for the level, although the two find descriptors in different ways and a lost
\* branch's ID is given out again; del never makes the count too small.
THEOREM MountsCounted == Spec => []MountsAreCounted
<1>1. MountInv => MountsAreCounted
  BY DEF MountInv
<1> QED BY <1>1, MountInvariant, PTL

\* For any number of agreed descriptors, and whatever the code overwrites beyond them: no ID
\* that is given out again, and no count that is raised, leads a mount of a level that has
\* one elsewhere.
THEOREM MountsStayHome == Spec => MountStaysHome
<1>1. ASSUME MountInv, [Next]_vars
      PROVE  [\A p \in mounts \cap mounts' :
                LET k == findLevelByID(p[2]) IN
                k # 0 => LET h == findLevelByID(p[2])' IN
                         h # 0 /\ registry'[h].content = registry[k].content]_vars
  <2> SUFFICES ASSUME NEW p \in mounts, findLevelByID(p[2]) # 0
               PROVE  /\ findLevelByID(p[2])' # 0
                      /\ registry'[findLevelByID(p[2])'].content
                           = registry[findLevelByID(p[2])].content
    OBVIOUS
  <2>1. p[2] \in 1 .. MaxId
    BY <1>1 DEF MountInv, MountsLead
  <2>2. CASE registry' = registry
    BY <2>2 DEF findLevelByID
  <2>3. ASSUME NEW d \in Descriptors, NewAt(d)
        PROVE  /\ findLevelByID(p[2])' # 0
               /\ registry'[findLevelByID(p[2])'].content
                    = registry[findLevelByID(p[2])].content
    BY <1>1, <2>1, <2>3, NewLeavesFound
  <2>4. ASSUME NEW i \in 1 .. MaxId, NEW c \in AllContents, MountLevel(i, c)
        PROVE  /\ findLevelByID(p[2])' # 0
               /\ registry'[findLevelByID(p[2])'].content
                    = registry[findLevelByID(p[2])].content
    BY <1>1, <2>1, <2>4, MountLeavesFound
  <2> QED BY <1>1, <2>2, <2>3, <2>4, ThreeWays DEF MountInv, StaysOrFills
<1> QED BY <1>1, MountInvariant, PTL DEF Spec, MountStaysHome

-----------------------------------------------------------------------------
(* Duplicates.  Of the slots of the version tables, only the copies of a   *)
(* version in a table's later clusters have an ID in common, and those no  *)
(* command touches: what an ID leads to is one content.                    *)

Copies(t, j, u, k) ==
  /\ j > PerCluster /\ k > PerCluster
  /\ tables[t][j].active /\ tables[u][k].active
  /\ tables[t][j].content = tables[u][k].content

VersionsAgree ==
  \A t, u \in Tables : \A j \in DOMAIN tables[t], k \in DOMAIN tables[u] :
    tables[t][j].id = tables[u][k].id /\ tables[t][j].id > 1
      => \/ t = u /\ j = k
         \/ Copies(t, j, u, k)

\* The first ID is the root's only.
RootIsFirst == \A i \in Slots : registry[i].id = 1 => i = 1

IdsInv == Inv /\ savedID > 1 /\ VersionsAgree /\ RootIsFirst

\* What a command does with a slot: it leaves it, it keeps the ID of one that is not active
\* or in the first cluster, it leaves it without an ID, or it gives it the next one.
Same(t, j) == j \in DOMAIN tables[t] /\ tables'[t][j] = tables[t][j]
Reused(t, j) ==
  /\ j \in DOMAIN tables[t] /\ tables'[t][j].id = tables[t][j].id
  /\ j <= PerCluster \/ ~ tables[t][j].active
WithoutID(t, j) == tables'[t][j].id = 0
New(t, j) == tables'[t][j].id = nextLevelID
SlotsChange ==
  /\ \A t \in Tables : \A j \in DOMAIN tables'[t] :
       Same(t, j) \/ Reused(t, j) \/ WithoutID(t, j) \/ New(t, j)
  /\ \A t, u \in Tables : \A j \in DOMAIN tables'[t], k \in DOMAIN tables'[u] :
       New(t, j) /\ New(u, k)
         => \/ t = u /\ j = k
            \/ Copies(t, j, u, k)'

LEMMA SlotNumbers ==
  ASSUME Inv, NEW t \in Tables, NEW j \in DOMAIN tables[t]
  PROVE  /\ j \in Nat /\ j > 0 /\ PerCluster \in Nat /\ PerCluster <= Len(tables[t])
         /\ tables[t][j].id \in Nat /\ tables[t][j].id < nextLevelID /\ nextLevelID \in Nat
         /\ tables[t][j] \in VersionEntry
<1>1. DOMAIN tables[t] = 1 .. Len(tables[t]) /\ Len(tables[t]) \in Nat \ {0}
  BY TableDomain DEF Inv
<1>2. PICK k \in 1 .. MaxClusters : Len(tables[t]) = k * PerCluster
  BY DEF Inv, TablesOK, GoodTable
<1>3. k * PerCluster >= PerCluster
  <2>1. PICK m \in Nat : k = m + 1
    BY <1>2, Sizes, k - 1 \in Nat, k = (k - 1) + 1
  <2>2. (m + 1) * PerCluster = m * PerCluster + PerCluster /\ m * PerCluster \in Nat
    BY Sizes
  <2> QED BY <2>1, <2>2, Sizes
<1>4. GoodVersion(tables[t][j], savedID)
  BY DEF Inv, TablesOK, GoodTable
<1> QED BY <1>1, <1>2, <1>3, <1>4, Sizes DEF GoodVersion, VersionEntry, Inv, IdsOK, Ids

LEMMA AgreeingChange ==
  ASSUME Inv, VersionsAgree, SlotsChange
  PROVE  VersionsAgree'
<1> SUFFICES ASSUME NEW t \in Tables, NEW u \in Tables,
                    NEW j \in DOMAIN tables'[t], NEW k \in DOMAIN tables'[u],
                    tables'[t][j].id = tables'[u][k].id, tables'[t][j].id > 1, ~ (t = u /\ j = k)
             PROVE  Copies(t, j, u, k)'
  BY DEF VersionsAgree
<1>1. Same(t, j) \/ Reused(t, j) \/ New(t, j)
  BY DEF SlotsChange, WithoutID
<1>2. Same(u, k) \/ Reused(u, k) \/ New(u, k)
  BY DEF SlotsChange, WithoutID
<1>3. CASE New(t, j) /\ New(u, k)
  BY <1>3 DEF SlotsChange
<1>4. ~ (New(t, j) /\ (Same(u, k) \/ Reused(u, k)))
  BY SlotNumbers DEF New, Same, Reused
<1>5. ~ (New(u, k) /\ (Same(t, j) \/ Reused(t, j)))
  BY SlotNumbers DEF New, Same, Reused
<1>6. ASSUME Same(t, j) \/ Reused(t, j), Same(u, k) \/ Reused(u, k)
      PROVE  Copies(t, j, u, k)'
  <2>1. /\ j \in DOMAIN tables[t] /\ tables[t][j].id = tables'[t][j].id
        /\ k \in DOMAIN tables[u] /\ tables[u][k].id = tables'[u][k].id
    BY <1>6 DEF Same, Reused
  <2>2. Copies(t, j, u, k)
    BY <2>1 DEF VersionsAgree
  <2>3. j \in Nat /\ k \in Nat /\ PerCluster \in Nat
    BY <2>1, SlotNumbers
  <2>4. Same(t, j) /\ Same(u, k)
    BY <1>6, <2>2, <2>3 DEF Copies, Reused
  <2> QED BY <2>2, <2>4 DEF Same, Copies
<1> QED BY <1>1, <1>2, <1>3, <1>4, <1>5, <1>6

LEMMA FreeSlotIsInactive ==
  ASSUME Inv, NEW t \in Tables, FreeVersionOf(t) # 0
  PROVE  FreeVersionOf(t) \in DOMAIN tables[t] /\ ~ tables[t][FreeVersionOf(t)].active
<1> DEFINE S == {j \in DOMAIN tables[t] : ~ tables[t][j].active}
<1>1. S \in SUBSET (Nat \ {0})
  BY TableDomain DEF Inv
<1>2. FreeVersionOf(t) = First(S)
  BY DEF FreeVersionOf
<1>3. First(S) \in S
  BY <1>1, <1>2, ScanReturns
<1> QED BY <1>2, <1>3

\* addLevel and addLevelWithCluster: one slot, or slots of a new cluster.
LEMMA OutcomeSlots ==
  ASSUME Inv, NEW t \in Tables, NEW v \in VersionEntry, NEW s \in Outcomes(t, v), NEW j \in DOMAIN s
  PROVE  \/ j \in DOMAIN tables[t] /\ s[j] = tables[t][j]
         \/ j = FreeVersionOf(t) /\ j # 0 /\ s[j] = v /\ j \in DOMAIN tables[t]
         \/ FreeVersionOf(t) = 0 /\ j > PerCluster /\ s[j] \in {v, FreeVersion}
<1>1. /\ tables[t] \in Seq(VersionEntry)
      /\ DOMAIN tables[t] = 1 .. Len(tables[t]) /\ Len(tables[t]) \in Nat \ {0}
  BY TableDomain DEF Inv, TablesOK, GoodTable
<1>2. CASE s = tables[t]
  BY <1>2
<1>3. CASE FreeVersionOf(t) # 0 /\ s = [tables[t] EXCEPT ![FreeVersionOf(t)] = v]
  BY <1>3, <1>1, FreeSlotIsInactive
<1>4. CASE FreeVersionOf(t) = 0 /\ s = tables[t] \o
             [k \in 1 .. PerCluster |-> IF k % PerSector = 1 % PerSector THEN v ELSE FreeVersion]
  <2> DEFINE added == [k \in 1 .. PerCluster |->
                         IF k % PerSector = 1 % PerSector THEN v ELSE FreeVersion]
             old == tables[t]
  <2>1. FreeVersion \in VersionEntry
    BY FreeVersionIsGood DEF GoodVersion
  <2>2. /\ added \in Seq(VersionEntry) /\ Len(added) = PerCluster
        /\ \A k \in 1 .. PerCluster : added[k] \in {v, FreeVersion}
    BY <2>1, Sizes
  <2> HIDE DEF added
  <2>3. s = old \o added
    BY <1>4 DEF added
  <2>4. s \in Seq(VersionEntry) /\ Len(s) = Len(old) + PerCluster
    BY <1>1, <2>2, <2>3, ConcatProperties
  <2>5. j \in 1 .. Len(old) + PerCluster
    BY <2>4
  <2>6. CASE j <= Len(old)
    BY <1>1, <2>2, <2>3, <2>5, <2>6
  <2>7. CASE j > Len(old)
    <3>1. j - Len(old) \in 1 .. PerCluster
      BY <1>1, <2>5, <2>7, Sizes
    <3>2. s[j] = added[j - Len(old)]
      BY <1>1, <2>2, <2>3, <2>5, <2>7
    <3>3. PerCluster <= Len(old)
      BY <1>1, SlotNumbers
    <3>4. s[j] \in {v, FreeVersion}
      BY <2>2, <3>1, <3>2
    <3>5. j > PerCluster
      BY <1>1, <2>2, <2>5, <2>7, <3>3, Sizes
    <3> QED BY <1>4, <3>4, <3>5
  <2> QED BY <1>1, <2>5, <2>6, <2>7, Sizes
<1> QED BY <1>2, <1>3, <1>4 DEF Outcomes, Filled

\* All slots of the tables keep what they have.
LEMMA TablesSame ==
  ASSUME Inv, tables' = tables
  PROVE  SlotsChange
<1>1. \A t \in Tables : \A j \in DOMAIN tables'[t] : Same(t, j) /\ ~ New(t, j)
  BY SlotNumbers DEF Same, New
<1> QED BY <1>1 DEF SlotsChange

\* A slot in use of the first cluster keeps its ID or loses it.
LEMMA FirstClusterChange ==
  ASSUME Inv, NEW t \in Tables, NEW n, InFirstCluster(t, n) # 0, NEW v \in VersionEntry,
         v.id = tables[t][InFirstCluster(t, n)].id \/ v.id = 0,
         tables' = [tables EXCEPT ![t][InFirstCluster(t, n)] = v]
  PROVE  SlotsChange
<1> DEFINE i == InFirstCluster(t, n)
<1>1. i \in DOMAIN tables[t] /\ i <= PerCluster
  <2>1. i \in DOMAIN tables[t]
    BY InFirstClusterFound DEF Inv
  <2>2. ~ (i > PerCluster)
    <3>1. i # 0
      OBVIOUS
    <3>2. CASE Find(t, n) > PerCluster
      BY <3>1, <3>2 DEF InFirstCluster
    <3>3. CASE ~ (Find(t, n) > PerCluster)
      BY <3>3 DEF InFirstCluster
    <3> QED BY <3>2, <3>3
  <2> QED BY <2>1, <2>2, SlotNumbers
<1> HIDE DEF i
<1>2. tables \in [Tables -> Seq(VersionEntry)] /\ tables' = [tables EXCEPT ![t][i] = v]
  BY DEF i, Inv, TablesOK
<1>3. \A u \in Tables : DOMAIN tables'[u] = DOMAIN tables[u]
  BY <1>2
<1>4. \A u \in Tables : \A j \in DOMAIN tables[u] :
        tables'[u][j] = IF u = t /\ j = i THEN v ELSE tables[u][j]
  BY <1>2
<1>5. v.id = tables[t][i].id \/ v.id = 0
  BY DEF i
<1>6. ASSUME NEW u \in Tables, NEW j \in DOMAIN tables'[u]
      PROVE  (Same(u, j) \/ Reused(u, j) \/ WithoutID(u, j)) /\ ~ New(u, j)
  <2>1. j \in DOMAIN tables[u] /\ tables[u][j].id < nextLevelID /\ nextLevelID \in Nat
        /\ tables[u][j].id \in Nat
    BY <1>3, SlotNumbers
  <2>2. CASE u = t /\ j = i
    BY <1>1, <1>4, <1>5, <2>1, <2>2 DEF Same, Reused, WithoutID, New
  <2>3. CASE ~ (u = t /\ j = i)
    BY <1>4, <2>1, <2>3 DEF Same, New
  <2> QED BY <2>2, <2>3
<1> QED BY <1>6 DEF SlotsChange

\* A table gets a version with the next ID.
LEMMA NewVersionChange ==
  ASSUME Inv, NEW t \in Tables, NEW v \in VersionEntry, v.id = nextLevelID, v.active,
         NEW s \in Outcomes(t, v), tables' = [tables EXCEPT ![t] = s]
  PROVE  SlotsChange
<1>1. tables'[t] = s /\ \A u \in Tables : u # t => tables'[u] = tables[u]
  BY DEF Inv, TablesOK
<1>2. ASSUME NEW u \in Tables, NEW j \in DOMAIN tables'[u]
      PROVE  \/ Same(u, j) /\ ~ New(u, j)
             \/ u = t /\ j = FreeVersionOf(t) /\ j # 0 /\ New(u, j)
             \/ u = t /\ FreeVersionOf(t) = 0 /\ j > PerCluster /\ New(u, j) /\ tables'[u][j] = v
             \/ WithoutID(u, j) /\ ~ New(u, j)
  <2>1. CASE j \in DOMAIN tables[u] /\ tables'[u][j] = tables[u][j]
    BY <2>1, SlotNumbers DEF Same, New
  <2>2. CASE u = t /\ ~ (j \in DOMAIN tables[u] /\ tables'[u][j] = tables[u][j])
    <3>1. \/ j = FreeVersionOf(t) /\ j # 0 /\ s[j] = v
          \/ FreeVersionOf(t) = 0 /\ j > PerCluster /\ s[j] \in {v, FreeVersion}
      BY <1>1, <2>2, OutcomeSlots
    <3>2. FreeVersion.id = 0 /\ nextLevelID # 0
      BY Sizes DEF FreeVersion, Inv, IdsOK, Ids
    <3> QED BY <1>1, <2>2, <3>1, <3>2 DEF New, WithoutID
  <2> QED BY <1>1, <2>1, <2>2
<1>3. ASSUME NEW u \in Tables, NEW w \in Tables,
             NEW j \in DOMAIN tables'[u], NEW k \in DOMAIN tables'[w],
             New(u, j), New(w, k), ~ (u = w /\ j = k)
      PROVE  Copies(u, j, w, k)'
  <2>1. /\ u = t /\ j > PerCluster /\ tables'[u][j] = v
        /\ w = t /\ k > PerCluster /\ tables'[w][k] = v
    BY <1>2, <1>3
  <2> QED BY <2>1 DEF Copies
<1> QED BY <1>2, <1>3 DEF SlotsChange

\* A level that is linked has the ID that the slot had, or none.
LEMMA LinkedChange ==
  ASSUME Inv, NEW n \in Names, NEW c \in AllContents,
         NEW local \in Outcomes(Local, Linked(Local, n, c)),
         NEW data \in Outcomes(Data, Linked(Data, n, c)),
         tables' = [tables EXCEPT ![Local] = local, ![Data] = data]
  PROVE  SlotsChange
<1>1. /\ Local \in Tables /\ Data \in Tables /\ RootDir \in Tables
      /\ Tables = {RootDir, Local, Data}
      /\ tables'[Local] = local /\ tables'[Data] = data /\ tables'[RootDir] = tables[RootDir]
  BY LevelsAssumption DEF Tables, Inv, TablesOK
<1>2. ASSUME NEW t \in Tables, NEW s \in Outcomes(t, Linked(t, n, c)), tables'[t] = s,
             NEW j \in DOMAIN tables'[t]
      PROVE  (Same(t, j) \/ Reused(t, j) \/ WithoutID(t, j)) /\ ~ New(t, j)
  <2> DEFINE v == Linked(t, n, c)
             i == FreeVersionOf(t)
  <2>1. v \in VersionEntry
    BY LinkedIsGood DEF Inv, GoodVersion
  <2>2. i = 0 => v.id = 0
    BY DEF Linked, FreeVersion
  <2>3. i # 0 => i \in DOMAIN tables[t] /\ ~ tables[t][i].active /\ v.id = tables[t][i].id
    <3>1. i # 0 => i \in DOMAIN tables[t] /\ ~ tables[t][i].active
      BY FreeSlotIsInactive
    <3>2. i # 0 => tables[t][i] \in VersionEntry
      BY <3>1, SlotNumbers
    <3> QED BY <3>1, <3>2 DEF Linked, VersionEntry
  <2>4. FreeVersion.id = 0 /\ nextLevelID # 0
    BY Sizes DEF FreeVersion, Inv, IdsOK, Ids
  <2>5. \/ j \in DOMAIN tables[t] /\ s[j] = tables[t][j]
        \/ j = i /\ j # 0 /\ s[j] = v
        \/ i = 0 /\ s[j] \in {v, FreeVersion}
    BY <1>2, <2>1, OutcomeSlots
  <2> HIDE DEF v, i
  <2>6. CASE j \in DOMAIN tables[t] /\ s[j] = tables[t][j]
    BY <1>2, <2>6, SlotNumbers DEF Same, New
  <2>7. CASE j = i /\ j # 0 /\ s[j] = v
    <3>1. tables[t][j].id \in Nat /\ tables[t][j].id < nextLevelID /\ nextLevelID \in Nat
      BY <2>3, <2>7, SlotNumbers
    <3> QED BY <1>2, <2>3, <2>7, <3>1 DEF Reused, New
  <2>8. CASE i = 0 /\ s[j] \in {v, FreeVersion}
    BY <1>2, <2>2, <2>4, <2>8 DEF WithoutID, New
  <2> QED BY <2>5, <2>6, <2>7, <2>8
<1>3. ASSUME NEW j \in DOMAIN tables'[RootDir]
      PROVE  Same(RootDir, j) /\ ~ New(RootDir, j)
  BY <1>1, SlotNumbers DEF Same, New
<1>4. \A t \in Tables : \A j \in DOMAIN tables'[t] :
        (Same(t, j) \/ Reused(t, j) \/ WithoutID(t, j)) /\ ~ New(t, j)
  BY <1>1, <1>2, <1>3
<1> QED BY <1>4 DEF SlotsChange

\* The registry gets descriptors with the next ID only, and one with an ID that it has.
LEMMA RootStaysFirst ==
  ASSUME Inv, RootIsFirst, NEW k \in Slots, NEW d \in Descriptors,
         d.id = registry[k].id \/ d.id > 1,
         registry' = [registry EXCEPT ![k] = d]
  PROVE  RootIsFirst'
<1>1. registry \in [Slots -> Descriptors]
  BY DEF Inv, RegistryOK
<1>2. \A i \in Slots : registry'[i].id = registry[i].id \/ registry'[i].id > 1
  BY <1>1
<1>3. \A i \in Slots : registry'[i].id \in Nat
  BY <1>1, Sizes DEF Descriptors, Ids
<1> QED BY <1>2, <1>3 DEF RootIsFirst

LEMMA RegisteredAfterRoot ==
  ASSUME Inv, RootIsFirst, NEW d \in Descriptors, d.id > 1, registry' = Registered(d)
  PROVE  RootIsFirst'
<1>1. CASE registry' = registry
  BY <1>1 DEF RootIsFirst
<1>2. ASSUME NEW k \in Slots, registry' = [registry EXCEPT ![k] = d]
      PROVE  RootIsFirst'
  BY <1>2, RootStaysFirst
<1> QED BY <1>1, <1>2, DescriptorRegistered

LEMMA AddChanges ==
  ASSUME IdsInv, NEW t \in Tables, NEW n \in Names, AddLevel(t, n)
  PROVE  SlotsChange /\ RootIsFirst'
<1>1. PICK c \in Unused :
        /\ registry' = Registered(Descriptor(nextLevelID, context.level, c))
        /\ \E s \in Outcomes(t, Version(n, c, nextLevelID, context.level)) :
             tables' = [tables EXCEPT ![t] = s]
  BY DEF AddLevel
<1>2. /\ c \in AllContents /\ context.level \in Ids /\ nextLevelID \in Ids /\ nextLevelID > 1
      /\ context.level <= nextLevelID
  BY Sizes DEF Unused, IdsInv, Inv, GoodContext, Contexts, IdsOK, Ids
<1>3. SlotsChange
  <2> DEFINE v == Version(n, c, nextLevelID, context.level)
  <2>1. v \in VersionEntry /\ v.id = nextLevelID /\ v.active
    BY <1>2 DEF Version, VersionEntry
  <2>2. PICK s \in Outcomes(t, v) : tables' = [tables EXCEPT ![t] = s]
    BY <1>1
  <2> HIDE DEF v
  <2> QED BY <2>1, <2>2, NewVersionChange DEF IdsInv
<1>4. RootIsFirst'
  <2> DEFINE d == Descriptor(nextLevelID, context.level, c)
  <2>1. d \in Descriptors /\ d.id > 1
    BY <1>2, Sizes DEF Descriptor, Descriptors
  <2>2. registry' = Registered(d)
    BY <1>1
  <2> HIDE DEF d
  <2> QED BY <2>1, <2>2, RegisteredAfterRoot DEF IdsInv
<1> QED BY <1>3, <1>4

LEMMA BranchChanges ==
  ASSUME IdsInv, NEW t \in Tables, NEW l \in Names, NEW n \in Names, LevelBranch(t, l, n)
  PROVE  SlotsChange /\ RootIsFirst'
<1> DEFINE j == FreeVersionOf(t)
           parent == tables[t][Find(t, l)].id
<1>1. PICK c \in Unused :
        /\ registry' = Registered(Descriptor(nextLevelID, parent, c))
        /\ tables' = IF j = 0 THEN tables
                     ELSE [tables EXCEPT ![t][j] = Version(n, c, nextLevelID, parent)]
  BY DEF LevelBranch
<1>2. c \in AllContents /\ parent \in Ids /\ nextLevelID \in Ids /\ nextLevelID > 1
  <2>1. GoodVersion(tables[t][Find(t, l)], savedID)
    BY VersionFound DEF LevelBranch, IdsInv, Inv
  <2> QED BY <2>1, Sizes DEF Unused, GoodVersion, VersionEntry, IdsInv, Inv, IdsOK, Ids
<1>3. SlotsChange
  <2>1. CASE j = 0
    BY <1>1, <2>1, TablesSame DEF IdsInv
  <2>2. CASE j # 0
    <3> DEFINE v == Version(n, c, nextLevelID, parent)
               s == [tables[t] EXCEPT ![j] = v]
    <3>1. v \in VersionEntry /\ v.id = nextLevelID /\ v.active
      BY <1>2 DEF Version, VersionEntry
    <3>2. s \in Outcomes(t, v)
      BY <2>2 DEF Outcomes, Filled
    <3>3. tables' = [tables EXCEPT ![t] = s]
      BY <1>1, <2>2
    <3> HIDE DEF v, s
    <3> QED BY <3>1, <3>2, <3>3, NewVersionChange DEF IdsInv
  <2> QED BY <2>1, <2>2
<1>4. RootIsFirst'
  <2> DEFINE d == Descriptor(nextLevelID, parent, c)
  <2>1. d \in Descriptors /\ d.id > 1
    BY <1>2, Sizes DEF Descriptor, Descriptors
  <2>2. registry' = Registered(d)
    BY <1>1
  <2> HIDE DEF d
  <2> QED BY <2>1, <2>2, RegisteredAfterRoot DEF IdsInv
<1> QED BY <1>3, <1>4

LEMMA LinkChanges ==
  ASSUME IdsInv, NEW n \in Names, LinkLevel(n)
  PROVE  SlotsChange
<1>1. PICK c \in Unused :
        \E local \in Outcomes(Local, Linked(Local, n, c)),
           data \in Outcomes(Data, Linked(Data, n, c)) :
             tables' = [tables EXCEPT ![Local] = local, ![Data] = data]
  BY DEF LinkLevel
<1>2. c \in AllContents
  BY DEF Unused
<1> QED BY <1>1, <1>2, LinkedChange DEF IdsInv

LEMMA RemoveChanges ==
  ASSUME IdsInv, NEW t \in Tables, NEW n \in Names, NEW m \in Names,
         LevelRemove(t, n) \/ LevelRename(t, n, m) \/ DeleteLevel(t, n)
  PROVE  SlotsChange
<1> DEFINE j == InFirstCluster(t, n)
<1>1. j # 0 /\ j \in DOMAIN tables[t] /\ tables[t][j] \in VersionEntry
  BY InFirstClusterFound
     DEF GoodVersion, IdsInv, Inv, LevelRemove, LevelRename, DeleteLevel
<1>2. PICK v \in VersionEntry : /\ v.id = tables[t][j].id \/ v.id = 0
                                /\ tables' = [tables EXCEPT ![t][j] = v]
  <2>1. CASE LevelRemove(t, n)
    <3> DEFINE v == [tables[t][j] EXCEPT !.active = FALSE]
    <3>1. v \in VersionEntry /\ v.id = tables[t][j].id
      BY <1>1 DEF VersionEntry
    <3>2. tables' = [tables EXCEPT ![t][j] = v]
      BY <1>1, <2>1 DEF LevelRemove, IdsInv, Inv, TablesOK
    <3> QED BY <3>1, <3>2
  <2>2. CASE LevelRename(t, n, m)
    <3> DEFINE v == [tables[t][j] EXCEPT !.name = m]
    <3>1. v \in VersionEntry /\ v.id = tables[t][j].id
      BY <1>1 DEF VersionEntry
    <3>2. tables' = [tables EXCEPT ![t][j] = v]
      BY <1>1, <2>2 DEF LevelRename, IdsInv, Inv, TablesOK
    <3> QED BY <3>1, <3>2
  <2>3. CASE DeleteLevel(t, n)
    <3>1. GoodVersion(FreeVersion, 1)
      BY FreeVersionIsGood
    <3>2. FreeVersion \in VersionEntry /\ FreeVersion.id = 0
      BY <3>1 DEF GoodVersion, FreeVersion
    <3> QED BY <2>3, <3>2 DEF DeleteLevel
  <2> QED BY <2>1, <2>2, <2>3
<1> QED BY <1>1, <1>2, FirstClusterChange DEF IdsInv

LEMMA MountChanges ==
  ASSUME IdsInv, NEW i \in 1 .. MaxId, NEW c, MountLevel(i, c)
  PROVE  RootIsFirst'
<1> DEFINE k == findLevelByID(i)
           d == [registry[k] EXCEPT !.refs = @ + 1]
<1>1. CASE registry' = registry
  BY <1>1 DEF IdsInv, RootIsFirst
<1>2. CASE k # 0 /\ registry[k].refs < MaxRefs /\ registry' = updateLevelDescriptor(d)
  <2>1. k \in Slots /\ registry[k].id = i
    BY <1>2, DescriptorFound
  <2>2. d \in Descriptors /\ d.id = i
    BY <1>2, <2>1, Sizes DEF Descriptors, IdsInv, Inv, RegistryOK
  <2>3. registry' = [registry EXCEPT ![k] = d]
    BY <1>2, <2>2 DEF updateLevelDescriptor
  <2> HIDE DEF d, k
  <2> QED BY <2>1, <2>2, <2>3, RootStaysFirst DEF IdsInv
<1> QED BY <1>1, <1>2 DEF MountLevel

LEMMA IdsStep == IdsInv /\ [Next]_vars => IdsInv'
<1> SUFFICES ASSUME IdsInv, [Next]_vars  PROVE IdsInv'
  OBVIOUS
<1>1. Inv'
  BY LevelsStep DEF IdsInv
<1>2. SlotsChange /\ RootIsFirst'
  <2>1. CASE tables' = tables /\ registry' = registry
    BY <2>1, TablesSame DEF IdsInv, RootIsFirst
  <2>2. ASSUME registry' = registry, SlotsChange  PROVE RootIsFirst'
    BY <2>2 DEF IdsInv, RootIsFirst
  <2>3. ASSUME NEW t \in Tables, NEW n \in Names,
               LevelAdd(t, n) \/ LevelRemove(t, n) \/ DeleteLevel(t, n) \/ NavFolder(t, n)
        PROVE  SlotsChange /\ RootIsFirst'
    BY <2>1, <2>2, <2>3, AddChanges, RemoveChanges
       DEF LevelAdd, LevelRemove, DeleteLevel, NavFolder, volume
  <2>4. ASSUME NEW t \in Tables, NEW n \in Names, NEW m \in Names,
               LevelBranch(t, n, m) \/ LevelRename(t, n, m)
        PROVE  SlotsChange /\ RootIsFirst'
    BY <2>2, <2>4, BranchChanges, RemoveChanges DEF LevelRename
  <2>5. ASSUME NEW n \in Names, LinkLevel(n) \/ NavLevel(n)
        PROVE  SlotsChange /\ RootIsFirst'
    BY <2>1, <2>2, <2>5, LinkChanges DEF LinkLevel, NavLevel, volume
  <2>6. ASSUME NEW t \in Tables, NavNew(t)
        PROVE  SlotsChange /\ RootIsFirst'
    BY <2>6, AddChanges, LevelsAssumption DEF NavNew
  <2>7. ASSUME NEW i \in 1 .. MaxId, NavMount(i)
        PROVE  SlotsChange /\ RootIsFirst'
    BY <2>1, <2>7 DEF NavMount, volume
  <2>8. ASSUME NEW i \in 1 .. MaxId, NEW c, MountLevel(i, c) \/ DeleteMount(i, c)
        PROVE  SlotsChange /\ RootIsFirst'
    <3>1. CASE MountLevel(i, c)
      BY <3>1, MountChanges, TablesSame DEF MountLevel, IdsInv
    <3>2. CASE DeleteMount(i, c)
      BY <2>1, <3>2 DEF DeleteMount
    <3> QED BY <2>8, <3>1, <3>2
  <2>9. CASE NavUp \/ Other \/ Mount \/ UNCHANGED vars
    BY <2>1, <2>9 DEF NavUp, Other, Mount, volume, vars
  <2> QED BY <2>3, <2>4, <2>5, <2>6, <2>7, <2>8, <2>9 DEF Next
<1>3. savedID' > 1
  <2>1. nextLevelID \in Nat /\ savedID \in Nat /\ nextLevelID > 1 /\ savedID > 1
    BY Sizes DEF IdsInv, Inv, IdsOK, Ids
  <2>2. savedID' \in {savedID, nextLevelID, nextLevelID + 1}
    <3> DEFINE P == savedID' \in {savedID, nextLevelID, nextLevelID + 1}
    <3>1. ASSUME NEW t \in Tables, NEW n \in Names,
                 LevelAdd(t, n) \/ LevelRemove(t, n) \/ DeleteLevel(t, n) \/ NavFolder(t, n)
          PROVE  P
      BY <3>1 DEF LevelAdd, AddLevel, LevelRemove, DeleteLevel, NavFolder, SavedByAlloc,
                  SavedByRegister, volume
    <3>2. ASSUME NEW t \in Tables, NEW n \in Names, NEW m \in Names,
                 LevelBranch(t, n, m) \/ LevelRename(t, n, m)
          PROVE  P
      BY <3>2 DEF LevelBranch, LevelRename, SavedByAlloc, SavedByRegister, SavedByBranch, volume
    <3>3. ASSUME NEW n \in Names, LinkLevel(n) \/ NavLevel(n)
          PROVE  P
      BY <3>3 DEF LinkLevel, NavLevel, SavedByAlloc, SavedByRegister, SavedByBranch, volume
    <3>4. ASSUME NEW t \in Tables, NavNew(t)
          PROVE  P
      BY <3>4 DEF NavNew, AddLevel, SavedByAlloc, SavedByRegister, SavedByBranch, volume
    <3>5. ASSUME NEW i \in 1 .. MaxId, NavMount(i)
          PROVE  P
      BY <3>5 DEF NavMount, volume
    <3>6. ASSUME NEW i \in 1 .. MaxId, NEW c, MountLevel(i, c) \/ DeleteMount(i, c)
          PROVE  P
      BY <3>6 DEF MountLevel, DeleteMount, volume
    <3>7. CASE NavUp \/ Other \/ Mount \/ UNCHANGED vars
      BY <3>7 DEF NavUp, Other, Mount, volume, vars
    <3>8. Next \/ UNCHANGED vars
      OBVIOUS
    <3> QED BY <3>1, <3>2, <3>3, <3>4, <3>5, <3>6, <3>7, <3>8 DEF Next
  <2> QED BY <2>1, <2>2
<1>4. VersionsAgree'
  BY <1>2, AgreeingChange DEF IdsInv
<1> QED BY <1>1, <1>2, <1>3, <1>4 DEF IdsInv

LEMMA IdsInit == Init => IdsInv
<1> SUFFICES ASSUME Init  PROVE IdsInv
  OBVIOUS
<1>1. Inv /\ savedID > 1
  BY LevelsInit DEF Init
<1>2. RootIsFirst
  BY DEF Init, RootIsFirst, FreeDescriptor
<1>3. ASSUME NEW t \in Tables, NEW j \in DOMAIN tables[t]  PROVE tables[t][j].id \in {0, 1}
  <2> DEFINE rest == [k \in 1 .. PerCluster - 1 |-> FreeVersion]
  <2>1. PICK v : v.id = 1 /\ tables[t] = NewTable(v)
    BY LevelsAssumption DEF Init, Tables, Version
  <2>2. rest \in Seq({FreeVersion}) /\ Len(rest) = PerCluster - 1
    BY Sizes
  <2>3. tables[t] = <<v>> \o rest
    BY <2>1 DEF NewTable
  <2> HIDE DEF rest
  <2>4. \A k \in DOMAIN tables[t] : tables[t][k] \in {v, FreeVersion}
    <3>1. <<v>> \in Seq({v, FreeVersion}) /\ rest \in Seq({v, FreeVersion})
      BY <2>2
    <3>2. tables[t] \in Seq({v, FreeVersion})
      BY <2>3, <3>1, ConcatProperties
    <3> QED BY <3>2
  <2> QED BY <2>1, <2>4 DEF FreeVersion
<1>4. VersionsAgree
  BY <1>3 DEF VersionsAgree
<1> QED BY <1>1, <1>2, <1>4 DEF IdsInv

LEMMA IdsInvariant == Spec => []IdsInv
  BY IdsInit, IdsStep, PTL DEF Spec

\* Two descriptors that have one ID lead to one content, or one of them leads to
\* what no active version is: after a mount that gives the ID of a lost branch out again,
\* the version tables have only the new level under it.
THEOREM OnlyLostAreDouble == Spec => []DuplicatesAreLost
<1>1. ASSUME IdsInv  PROVE DuplicatesAreLost
  <2> SUFFICES ASSUME NEW i \in Slots, NEW k \in Slots, i # k, registry[i].id = registry[k].id,
                      registry[i].id # 0, HasLevel(registry[i]), HasLevel(registry[k])
               PROVE  registry[i].content = registry[k].content
    BY DEF DuplicatesAreLost
  <2>1. registry[i].id > 1
    BY <1>1, Sizes DEF IdsInv, RootIsFirst, Inv, RegistryOK, Descriptors, Ids
  <2>2. PICK t \in Tables : \E j \in DOMAIN tables[t] :
          tables[t][j].id = registry[i].id /\ tables[t][j].content = registry[i].content
    BY DEF HasLevel, Versions
  <2>3. PICK u \in Tables : \E l \in DOMAIN tables[u] :
          tables[u][l].id = registry[k].id /\ tables[u][l].content = registry[k].content
    BY DEF HasLevel, Versions
  <2> QED BY <1>1, <2>1, <2>2, <2>3 DEF IdsInv, VersionsAgree, Copies
<1> QED BY <1>1, IdsInvariant, PTL
=============================================================================
