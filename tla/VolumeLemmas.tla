------------------------------ MODULE VolumeLemmas --------------------------
(***************************************************************************)
(* What the operators of Volume return, and what follows from how a        *)
(* command changes the data: the entries and the levels are a graph        *)
(* (EntryAt, LevelAt), and a command grows it at one entry and at the      *)
(* levels of what it allocates (Grows), or only takes from it (Shrinks).   *)
(* That is all that the properties need to know of a command.              *)
(***************************************************************************)
EXTENDS Volume, FiniteSetTheorems, SequenceTheorems, WellFoundedInduction, TLAPS

LEMMA LeastNumber ==
  ASSUME NEW T \in SUBSET Nat, T # {}
  PROVE  \E n \in T : \A m \in T : n <= m
<1>1. PICK n \in T : \A m \in T : ~ (<<m, n>> \in OpToRel(<, Nat))
  BY WFMin, NatLessThanWellFounded
<1>2. \A m \in T : ~ (m < n)
  BY <1>1 DEF OpToRel
<1> QED BY <1>2

-----------------------------------------------------------------------------
(* Looking things up.                                                      *)

LEMMA MinIsLeast ==
  ASSUME NEW T \in SUBSET Nat, T # {}
  PROVE  Min(T) \in T /\ \A m \in T : Min(T) <= m
  BY LeastNumber DEF Min

\* i is the first match among those in S, or 0.
IsFirst(i, S) == IF S = {} THEN i = 0 ELSE i \in S /\ \A j \in S : i <= j

LEMMA FirstMatch ==
  ASSUME NEW S \in SUBSET Nat, NEW i, i = IF S # {} THEN Min(S) ELSE 0
  PROVE  IsFirst(i, S)
<1>1. CASE S = {}
  BY <1>1 DEF IsFirst
<1>2. CASE S # {}
  <2>1. i = Min(S)
    BY <1>2
  <2>2. i \in S /\ \A j \in S : i <= j
    BY <1>2, <2>1, MinIsLeast
  <2> QED BY <1>2, <2>2 DEF IsFirst
<1> QED BY <1>1, <1>2

LEMMA SelectFree ==
  ASSUME NEW s, Len(s) \in Nat
  PROVE  IsFirst(FreeSlot(s), {j \in 1 .. Len(s) : s[j].type = "free"})
<1> DEFINE S == {j \in 1 .. Len(s) : s[j].type = "free"}
<1>1. FreeSlot(s) = IF S # {} THEN Min(S) ELSE 0
  BY DEF FreeSlot, SelectInSeq
<1>2. S \in SUBSET Nat
  OBVIOUS
<1>3. IsFirst(FreeSlot(s), S)
  <2> HIDE DEF S
  <2> QED BY <1>1, <1>2, FirstMatch
<1> QED BY <1>3

LEMMA SelectEntry ==
  ASSUME NEW d, NEW n, NEW types, Len(data[d].slots) \in Nat
  PROVE  IsFirst(Find(d, n, types), {j \in 1 .. Len(data[d].slots) :
                    data[d].slots[j].type \in types /\ data[d].slots[j].name = n})
<1> DEFINE S == {j \in 1 .. Len(data[d].slots) :
                    data[d].slots[j].type \in types /\ data[d].slots[j].name = n}
<1>1. Find(d, n, types) = IF S # {} THEN Min(S) ELSE 0
  BY DEF Find, SelectInSeq
<1>2. S \in SUBSET Nat
  OBVIOUS
<1>3. IsFirst(Find(d, n, types), S)
  <2> HIDE DEF S
  <2> QED BY <1>1, <1>2, FirstMatch
<1> QED BY <1>3

\* The slot that createSymlink and createHardlink give the target: the first of the name.
FirstLink(s, type, n) == SelectInSeq(s, LAMBDA x : x.type = type /\ x.name = n)

LEMMA SelectLink ==
  ASSUME NEW s, NEW n, NEW type, Len(s) \in Nat
  PROVE  IsFirst(FirstLink(s, type, n), {j \in 1 .. Len(s) : s[j].type = type /\ s[j].name = n})
<1> DEFINE S == {j \in 1 .. Len(s) : s[j].type = type /\ s[j].name = n}
           i == FirstLink(s, type, n)
<1>1. i = IF S # {} THEN Min(S) ELSE 0
  BY DEF FirstLink, SelectInSeq
<1>2. S \in SUBSET Nat
  OBVIOUS
<1>3. IsFirst(i, S)
  <2> HIDE DEF S, i
  <2> QED BY <1>1, <1>2, FirstMatch
<1> QED BY <1>3

LEMMA SelectLevel ==
  ASSUME NEW t, NEW l, Len(data[t].slots) \in Nat
  PROVE  IsFirst(FindLevel(t, l), {j \in 1 .. Len(data[t].slots) : data[t].slots[j].name = l})
<1> DEFINE S == {j \in 1 .. Len(data[t].slots) : data[t].slots[j].name = l}
<1>1. FindLevel(t, l) = IF S # {} THEN Min(S) ELSE 0
  BY DEF FindLevel, SelectInSeq
<1>2. S \in SUBSET Nat
  OBVIOUS
<1>3. IsFirst(FindLevel(t, l), S)
  <2> HIDE DEF S
  <2> QED BY <1>1, <1>2, FirstMatch
<1> QED BY <1>3

-----------------------------------------------------------------------------
(* Types.                                                                  *)

Whole(s) == Len(s) \in {k * PerCluster : k \in 1 .. MaxSlots}
Shapes == DirData \cup TableData \cup {Text}
DataOK(dt) ==
  /\ dt \in [AllChains -> Shapes] /\ dt[RootDir].kind = "table"
  /\ \A c \in Chains : dt[c].kind = "dir" => Whole(dt[c].slots)

LEMMA Sizes ==
  /\ PerCluster \in Nat \ {0} /\ RootSlots \in Nat \ {0} /\ LevelSlots \in Nat \ {0}
  /\ MaxSlots \in Nat \ {0} /\ MaxAttributes \in Nat /\ MaxAttributes >= 3
  BY VolumeAssumption DEF PERM_DEFAULT

LEMMA TypeOKIs ==
  TypeOK <=> /\ DataOK(data)
             /\ role \in [Chains -> {"free", "file", "dir", "table"}]
             /\ \A c \in Chains : role[c] = "table" => data[c].kind = "table"
             /\ cwd \in Chains \cup {Root} /\ dir \in Chains \cup {RootDir}
             /\ rootVersion \in LevelNames
  BY DEF TypeOK, DataOK, Whole, Shapes

LEMMA ShapeOf ==
  ASSUME NEW dt, DataOK(dt), NEW c \in AllChains
  PROVE  /\ dt[c] \in DirData \/ dt[c] \in TableData \/ dt[c] = Text
         /\ dt[c].kind \in {"dir", "table", "text"}
         /\ dt[c].kind = "dir" => /\ dt[c] \in DirData /\ dt[c].slots \in Seq(Entry)
                                  /\ Len(dt[c].slots) \in Nat
                                  /\ DOMAIN dt[c].slots = 1 .. Len(dt[c].slots)
                                  /\ \A i \in DOMAIN dt[c].slots : dt[c].slots[i] \in Entry
         /\ dt[c].kind = "table" => /\ dt[c] \in TableData
                                    /\ dt[c].slots \in [1 .. LevelSlots -> Level]
                                    /\ DOMAIN dt[c].slots = 1 .. LevelSlots
                                    /\ Len(dt[c].slots) = LevelSlots
         /\ dt[c].kind = "text" => dt[c] = Text
<1>1. dt[c] \in DirData \/ dt[c] \in TableData \/ dt[c] = Text
  BY DEF DataOK, Shapes
<1>2. CASE dt[c] \in DirData
  <2>1. dt[c].kind = "dir" /\ dt[c].slots \in Seq(Entry)
    BY <1>2 DEF DirData
  <2>2. /\ Len(dt[c].slots) \in Nat
        /\ DOMAIN dt[c].slots = 1 .. Len(dt[c].slots)
        /\ \A i \in DOMAIN dt[c].slots : dt[c].slots[i] \in Entry
    BY <2>1
  <2> QED BY <1>2, <2>1, <2>2
<1>3. CASE dt[c] \in TableData
  <2>1. dt[c].kind = "table" /\ dt[c].slots \in [1 .. LevelSlots -> Level]
    BY <1>3 DEF TableData
  <2>2. Len(dt[c].slots) = LevelSlots
    <3>1. dt[c].slots \in Seq(Level)
      BY <2>1, Sizes, SeqDef
    <3>2. Len(dt[c].slots) \in Nat /\ DOMAIN dt[c].slots = 1 .. Len(dt[c].slots)
      BY <3>1, LenProperties
    <3>3. 1 .. Len(dt[c].slots) = 1 .. LevelSlots
      BY <3>2, <2>1
    <3> QED BY <3>2, <3>3, Sizes
  <2> QED BY <1>3, <2>1, <2>2
<1>4. CASE dt[c] = Text
  BY <1>4 DEF Text
<1> QED BY <1>1, <1>2, <1>3, <1>4

LEMMA DirsAre ==
  ASSUME NEW dt, DataOK(dt), NEW d \in AllChains, dt[d].kind = "dir"
  PROVE  d # RootDir /\ (d = Root \/ d \in Chains)
  BY DEF DataOK, AllChains

\* One chain gets other data of a good shape.
LEMMA SetData ==
  ASSUME NEW dt, DataOK(dt), NEW c \in AllChains, NEW r \in [AllChains -> Shapes],
         r[c].kind = "dir" => c = Root \/ Whole(r[c].slots),
         c = RootDir => r[c].kind = "table", \A x \in AllChains \ {c} : r[x] = dt[x]
  PROVE  DataOK(r)
<1>3. \A x \in Chains : r[x].kind = "dir" => Whole(r[x].slots)
  <2> TAKE x \in Chains
  <2>1. x \in AllChains /\ x # Root
    BY VolumeAssumption DEF AllChains
  <2>2. CASE x = c
    BY <2>1, <2>2
  <2>3. CASE x # c
    BY <2>1, <2>3 DEF DataOK
  <2> QED BY <2>2, <2>3
<1>4. r[RootDir].kind = "table"
  BY DEF DataOK, AllChains
<1> QED BY <1>3, <1>4 DEF DataOK

\* r is dt with e in a slot of d.
SlotSet(dt, r, d, i, e) ==
  /\ DataOK(r) /\ \A x \in AllChains \ {d} : r[x] = dt[x]
  /\ r[d].kind = "dir" /\ DOMAIN r[d].slots = DOMAIN dt[d].slots
  /\ \A j \in DOMAIN r[d].slots : r[d].slots[j] = IF j = i THEN e ELSE dt[d].slots[j]

\* One slot of a content gets another entry.
LEMMA SetSlot ==
  ASSUME NEW dt, DataOK(dt), NEW d \in AllChains, dt[d].kind = "dir",
         NEW i \in DOMAIN dt[d].slots, NEW e \in Entry
  PROVE  SlotSet(dt, [dt EXCEPT ![d].slots[i] = e], d, i, e)
<1> DEFINE s == dt[d].slots
           v == [kind |-> "dir", slots |-> [s EXCEPT ![i] = e]]
           r == [dt EXCEPT ![d].slots[i] = e]
<1>1. s \in Seq(Entry) /\ DOMAIN s = 1 .. Len(s) /\ dt[d] \in DirData
  BY ShapeOf
<1>2. /\ [s EXCEPT ![i] = e] \in Seq(Entry) /\ Len([s EXCEPT ![i] = e]) = Len(s)
      /\ DOMAIN [s EXCEPT ![i] = e] = DOMAIN s
  BY <1>1, ExceptSeq
<1>3. v \in Shapes
  BY <1>2 DEF Shapes, DirData
<1>4. d # Root => Whole(v.slots)
  <2>1. d # Root => Whole(s)
    BY DirsAre DEF DataOK
  <2> QED BY <2>1, <1>2 DEF Whole
<1>5. r = [dt EXCEPT ![d] = v]
  <2>1. dt[d] = [kind |-> "dir", slots |-> s]
    BY <1>1 DEF DirData
  <2>2. [dt[d] EXCEPT !.slots[i] = e] = v
    BY <2>1
  <2>3. r = [dt EXCEPT ![d] = [dt[d] EXCEPT !.slots[i] = e]]
    OBVIOUS
  <2> QED BY <2>2, <2>3
<1>6. DataOK(r) /\ r[d] = v /\ \A x \in AllChains \ {d} : r[x] = dt[x]
  <2>1. dt \in [AllChains -> Shapes] /\ r = [dt EXCEPT ![d] = v]
    BY <1>5 DEF DataOK
  <2>2. v.kind = "dir" /\ (d = Root \/ Whole(v.slots)) /\ d # RootDir
    BY <1>4, DirsAre
  <2> HIDE DEF r, v
  <2>3. r \in [AllChains -> Shapes] /\ r[d] = v /\ \A x \in AllChains \ {d} : r[x] = dt[x]
    BY <1>3, <2>1
  <2> QED BY <2>2, <2>3, SetData
<1> QED BY <1>1, <1>2, <1>6 DEF SlotSet

-----------------------------------------------------------------------------
(* The closure.                                                            *)

Body(next, k, g) ==
  [R \in SUBSET DOMAIN next |->
     LET new == UNION {next[d] : d \in R} IN
     IF k = 0 \/ new \subseteq R THEN R ELSE g[R \cup new]]

LEMMA BodyAtZero ==
  ASSUME NEW next, NEW g, NEW h
  PROVE  Body(next, 0, g) = Body(next, 0, h)
  BY DEF Body

\* The recursive function that Closure defines exists.
LEMMA GrowExists ==
  ASSUME NEW next
  PROVE  \E f : f = [k \in Nat |-> Body(next, k, f[k - 1])]
<1> DEFINE B(k, g) == Body(next, k, g)
           P(n, g) == g = [k \in 0 .. n |-> B(k, g[k - 1])]
<1>0. \A g, h : B(0, g) = B(0, h)
  BY BodyAtZero
<1> HIDE DEF B
<1>1. \A n \in Nat : \E g : P(n, g)
  <2> DEFINE T == {n \in Nat : ~ \E g : P(n, g)}
  <2>1. SUFFICES ASSUME T # {} PROVE FALSE
    OBVIOUS
  <2>2. PICK n \in T : \A m \in T : n <= m
    BY <2>1, LeastNumber
  <2>3. CASE n = 0
    <3> DEFINE g == [k \in 0 .. 0 |-> B(0, 0)]
    <3>1. g = [k \in 0 .. 0 |-> B(k, g[k - 1])]
      BY <1>0
    <3> QED BY <2>2, <2>3, <3>1
  <2>4. CASE n # 0
    <3>1. n - 1 \in Nat /\ n - 1 \notin T
      BY <2>2, <2>4
    <3>2. PICK g : P(n - 1, g)
      BY <3>1
    <3> DEFINE h == [k \in 0 .. n |-> IF k = n THEN B(n, g[n - 1]) ELSE g[k]]
    <3>3. ASSUME NEW k \in 0 .. n PROVE h[k] = B(k, h[k - 1])
      <4>1. CASE k = n
        BY <4>1, <2>2, <2>4
      <4>2. CASE k # n /\ k # 0
        <5>1. k \in 0 .. n - 1 /\ k - 1 \in 0 .. n /\ k - 1 # n
          BY <4>2, <2>2
        <5>2. g[k] = B(k, g[k - 1])
          BY <3>2, <5>1
        <5> QED BY <5>1, <5>2, <4>2
      <4>3. CASE k # n /\ k = 0
        <5>1. k \in 0 .. n - 1
          BY <4>3, <2>2
        <5>2. g[k] = B(k, g[k - 1])
          BY <3>2, <5>1
        <5> QED BY <5>1, <5>2, <4>3, <1>0
      <4> QED BY <4>1, <4>2, <4>3
    <3>4. h = [k \in 0 .. n |-> B(k, h[k - 1])]
      <4>1. h = [k \in 0 .. n |-> h[k]]
        OBVIOUS
      <4> HIDE DEF h
      <4> QED BY <3>3, <4>1
    <3> HIDE DEF h
    <3> QED BY <2>2, <3>4
  <2> QED BY <2>3, <2>4
<1>2. ASSUME NEW n \in Nat, NEW m \in Nat, NEW g, NEW h, P(n, g), P(m, h),
             NEW i \in 0 .. n, i \in 0 .. m
      PROVE  g[i] = h[i]
  <2> DEFINE T == {k \in Nat : k \in 0 .. n /\ k \in 0 .. m /\ g[k] # h[k]}
  <2> SUFFICES ASSUME g[i] # h[i] PROVE FALSE
    OBVIOUS
  <2>1. i \in T
    BY <1>2
  <2>2. PICK k \in T : \A j \in T : k <= j
    BY <2>1, LeastNumber
  <2>3. g[k] = B(k, g[k - 1]) /\ h[k] = B(k, h[k - 1])
    BY <1>2, <2>2
  <2>4. CASE k = 0
    BY <2>2, <2>3, <2>4, <1>0
  <2>5. CASE k # 0
    <3>1. k - 1 \in 0 .. n /\ k - 1 \in 0 .. m /\ k - 1 \notin T
      BY <2>2, <2>5
    <3> QED BY <3>1, <2>2, <2>3
  <2> QED BY <2>4, <2>5
<1> DEFINE G(k) == CHOOSE g : P(k, g)
           f == [k \in Nat |-> G(k)[k]]
<1>3. \A k \in Nat : P(k, G(k))
  BY <1>1
<1> HIDE DEF G
<1>4. ASSUME NEW k \in Nat PROVE f[k] = B(k, f[k - 1])
  <2>1. G(k)[k] = B(k, G(k)[k - 1])
    BY <1>3
  <2>2. CASE k = 0
    BY <2>1, <2>2, <1>0
  <2>3. CASE k # 0
    <3>1. k - 1 \in Nat /\ k - 1 \in 0 .. k /\ k - 1 \in 0 .. k - 1
      BY <2>3
    <3>2. P(k, G(k)) /\ P(k - 1, G(k - 1))
      BY <3>1, <1>3
    <3>3. G(k)[k - 1] = G(k - 1)[k - 1]
      <4> HIDE DEF P
      <4> QED BY <3>1, <3>2, <1>2
    <3> QED BY <2>1, <3>1, <3>3
  <2> QED BY <2>2, <2>3
<1>5. f = [k \in Nat |-> B(k, f[k - 1])]
  <2>1. f = [k \in Nat |-> f[k]]
    OBVIOUS
  <2> HIDE DEF f
  <2> QED BY <2>1, <1>4
<1> QED BY <1>5 DEF B

LEMMA ClosureUnfolds ==
  ASSUME NEW next, NEW S
  PROVE  \E f : /\ f = [k \in Nat |-> Body(next, k, f[k - 1])]
                /\ Closure(S, next) = f[Cardinality(DOMAIN next)][S]
<1> DEFINE F == CHOOSE f : f = [k \in Nat |-> Body(next, k, f[k - 1])]
<1>1. F = [k \in Nat |-> Body(next, k, F[k - 1])]
  BY GrowExists
<1>2. Closure(S, next) = F[Cardinality(DOMAIN next)][S]
  BY DEF Closure, Body
<1> QED BY <1>1, <1>2

\* r is what is reached from R, within Z.
Reached(next, Z, R, r) ==
  /\ R \subseteq r /\ r \subseteq Z
  /\ \A d \in r : next[d] \subseteq r
  /\ \A Q : R \subseteq Q /\ (\A d \in Q \cap Z : next[d] \subseteq Q) => r \subseteq Q

\* next need not have its type outside a set Z that no step leads out of.
LEMMA GrowReaches ==
  ASSUME NEW next, IsFiniteSet(DOMAIN next), NEW Z \in SUBSET DOMAIN next,
         \A d \in Z : next[d] \in SUBSET Z,
         NEW f, f = [k \in Nat |-> Body(next, k, f[k - 1])],
         NEW n \in Nat, NEW S \in SUBSET Z, Cardinality(DOMAIN next \ S) <= n
  PROVE  Reached(next, Z, S, f[n][S])
<1> DEFINE X == DOMAIN next
           T == {k \in Nat : ~ \A R \in SUBSET Z : Cardinality(X \ R) <= k => Reached(next, Z, R, f[k][R])}
<1> SUFFICES ASSUME T # {} PROVE FALSE
  OBVIOUS
<1>1. PICK k \in T : \A j \in T : k <= j
  BY LeastNumber
<1>2. PICK R \in SUBSET Z : Cardinality(X \ R) <= k /\ ~ Reached(next, Z, R, f[k][R])
  BY <1>1
<1> DEFINE new == UNION {next[d] : d \in R}
<1>3. f[k] = Body(next, k, f[k - 1])
  BY <1>1
<1>4. f[k][R] = IF k = 0 \/ new \subseteq R THEN R ELSE f[k - 1][R \cup new]
  BY <1>3 DEF Body
<1>5. CASE new \subseteq R
  <2>1. f[k][R] = R
    BY <1>4, <1>5
  <2> QED BY <2>1, <1>5, <1>2 DEF Reached
<1>6. CASE k = 0
  <2>1. IsFiniteSet(X \ R) /\ Cardinality(X \ R) \in Nat
    BY FS_Subset, FS_CardinalityType
  <2>2. Cardinality(X \ R) = 0
    BY <2>1, <1>2, <1>6
  <2>3. X \ R = {}
    BY <2>1, <2>2, FS_EmptySet
  <2>4. new \subseteq R
    BY <2>3
  <2> QED BY <2>4, <1>5
<1>7. CASE k # 0 /\ ~ (new \subseteq R)
  <2> DEFINE R2 == R \cup new
  <2>1. k - 1 \in Nat /\ k - 1 \notin T
    <3>1. k \in Nat /\ k - 1 \in Nat /\ ~ (k <= k - 1)
      BY <1>7
    <3> HIDE DEF T
    <3> QED BY <3>1, <1>1
  <2>2. R2 \in SUBSET Z
    OBVIOUS
  <2>3. Cardinality(X \ R2) <= k - 1
    <3>1. IsFiniteSet(X \ R) /\ Cardinality(X \ R) \in Nat
      BY FS_Subset, FS_CardinalityType
    <3>2. X \ R2 \in SUBSET (X \ R) /\ X \ R2 # X \ R
      BY <1>7
    <3>3. /\ Cardinality(X \ R2) \in Nat /\ Cardinality(X \ R2) <= Cardinality(X \ R)
          /\ Cardinality(X \ R2) # Cardinality(X \ R)
      BY <3>1, <3>2, FS_Subset, FS_CardinalityType
    <3> QED BY <3>1, <3>3, <1>2, <1>1
  <2>4. Reached(next, Z, R2, f[k - 1][R2])
    BY <2>1, <2>2, <2>3
  <2>5. f[k][R] = f[k - 1][R2]
    BY <1>4, <1>7
  <2>6. \A Q : R \subseteq Q /\ (\A d \in Q \cap Z : next[d] \subseteq Q) => R2 \subseteq Q
    OBVIOUS
  <2> HIDE DEF R2
  <2>7. R \subseteq R2
    BY DEF R2
  <2>8. Reached(next, Z, R, f[k][R])
    BY <2>4, <2>5, <2>6, <2>7 DEF Reached
  <2> QED BY <2>8, <1>2
<1> QED BY <1>5, <1>6, <1>7

\* What Closure returns: the least set with S that a step does not lead out of.  next need
\* not have its type outside a set Z with S that no step leads out of.
LEMMA ClosureReaches ==
  ASSUME NEW next, IsFiniteSet(DOMAIN next), NEW Z \in SUBSET DOMAIN next,
         \A d \in Z : next[d] \in SUBSET Z, NEW S \in SUBSET Z
  PROVE  LET C == Closure(S, next) IN
         /\ S \subseteq C /\ C \subseteq Z
         /\ \A d \in C : next[d] \subseteq C
         /\ \A Q : S \subseteq Q /\ (\A d \in Q \cap C : next[d] \subseteq Q) => C \subseteq Q
<1> DEFINE C == Closure(S, next)
<1>1. PICK f : /\ f = [k \in Nat |-> Body(next, k, f[k - 1])]
               /\ C = f[Cardinality(DOMAIN next)][S]
  BY ClosureUnfolds
<1>2. Cardinality(DOMAIN next) \in Nat /\ Cardinality(DOMAIN next \ S) <= Cardinality(DOMAIN next)
  BY FS_Subset, FS_CardinalityType
<1> HIDE DEF C
<1>3. Reached(next, Z, S, C)
  BY <1>1, <1>2, GrowReaches
<1>4. ASSUME NEW Q, S \subseteq Q, \A d \in Q \cap C : next[d] \subseteq Q PROVE C \subseteq Q
  <2> DEFINE QC == Q \cap C
  <2>1. S \subseteq QC /\ \A d \in QC \cap Z : next[d] \subseteq QC
    BY <1>3, <1>4 DEF Reached
  <2>2. C \subseteq QC
    <3> HIDE DEF QC
    <3> QED BY <2>1, <1>3 DEF Reached
  <2> QED BY <2>2
<1> QED BY <1>3, <1>4 DEF Reached, C

-----------------------------------------------------------------------------
(* Entering an entry.                                                      *)

\* r is dt with e entered in slot k of d, which was free or is new; in none if k is 0.
Entered(dt, r, d, k, e) ==
  /\ DataOK(r) /\ \A x \in AllChains \ {d} : r[x] = dt[x]
  /\ r[d].kind = "dir"
  /\ \A i \in DOMAIN dt[d].slots : dt[d].slots[i].type # "free" =>
       i \in DOMAIN r[d].slots /\ r[d].slots[i] = dt[d].slots[i]
  /\ \A i \in DOMAIN r[d].slots :
       \/ i = k
       \/ r[d].slots[i].type = "free"
       \/ i \in DOMAIN dt[d].slots /\ r[d].slots[i] = dt[d].slots[i]
  /\ k # 0 => /\ k \in DOMAIN r[d].slots /\ r[d].slots[k] = e
              /\ k \in DOMAIN dt[d].slots => dt[d].slots[k].type = "free"
  /\ 0 \notin DOMAIN r[d].slots

LEMMA FreeEntryIsEntry == FreeEntry \in Entry /\ FreeEntry.type = "free"
  BY DEF Entry, FreeEntry

LEMMA FreeIsFree ==
  ASSUME NEW k \in Nat
  PROVE  /\ Free(k) \in Seq(Entry) /\ Len(Free(k)) = k /\ DOMAIN Free(k) = 1 .. k
         /\ \A i \in 1 .. k : Free(k)[i] = FreeEntry
<1>1. Free(k) \in [1 .. k -> Entry] /\ \A i \in 1 .. k : Free(k)[i] = FreeEntry
  BY FreeEntryIsEntry DEF Free
<1>2. Free(k) \in Seq(Entry)
  BY <1>1, SeqDef
<1>3. Len(Free(k)) \in Nat /\ DOMAIN Free(k) = 1 .. Len(Free(k))
  BY <1>2, LenProperties
<1>4. 1 .. Len(Free(k)) = 1 .. k
  BY <1>1, <1>3
<1> QED BY <1>1, <1>2, <1>3, <1>4

LEMMA FreeSlotFound ==
  ASSUME NEW dt, DataOK(dt), NEW d \in AllChains, dt[d].kind = "dir", FreeSlot(dt[d].slots) # 0
  PROVE  /\ FreeSlot(dt[d].slots) \in DOMAIN dt[d].slots
         /\ dt[d].slots[FreeSlot(dt[d].slots)].type = "free"
<1>1. Len(dt[d].slots) \in Nat /\ DOMAIN dt[d].slots = 1 .. Len(dt[d].slots)
  BY ShapeOf
<1>2. IsFirst(FreeSlot(dt[d].slots), {j \in 1 .. Len(dt[d].slots) : dt[d].slots[j].type = "free"})
  BY <1>1, SelectFree
<1> QED BY <1>1, <1>2 DEF IsFirst

LEMMA SlotSetEnters ==
  ASSUME NEW dt, NEW r, NEW d \in AllChains, NEW i, NEW e, SlotSet(dt, r, d, i, e),
         DataOK(dt), dt[d].kind = "dir", i \in DOMAIN dt[d].slots, dt[d].slots[i].type = "free"
  PROVE  Entered(dt, r, d, i, e)
<1>1. 0 \notin DOMAIN dt[d].slots
  BY ShapeOf
<1> QED BY <1>1 DEF SlotSet, Entered

LEMMA PutEnters ==
  ASSUME NEW dt, DataOK(dt), NEW d \in AllChains, dt[d].kind = "dir", NEW e \in Entry,
         FreeSlot(dt[d].slots) # 0 \/ d = Root \/ Len(dt[d].slots) < MaxSlots
  PROVE  \E k : /\ Entered(dt, Put(dt, d, e), d, k, e)
                /\ k = 0 => d = Root /\ FreeSlot(dt[d].slots) = 0
<1> DEFINE s == dt[d].slots
           i == FreeSlot(s)
           n == Len(s)
<1>1. s \in Seq(Entry) /\ n \in Nat /\ DOMAIN s = 1 .. n /\ dt[d] \in DirData
  BY ShapeOf
<1>2. CASE i # 0
  <2>1. i \in DOMAIN s /\ s[i].type = "free"
    BY <1>2, FreeSlotFound
  <2>2. Put(dt, d, e) = [dt EXCEPT ![d].slots[i] = e]
    BY <1>2 DEF Put
  <2> HIDE DEF i
  <2>3. SlotSet(dt, [dt EXCEPT ![d].slots[i] = e], d, i, e)
    BY <2>1, SetSlot
  <2>5. SlotSet(dt, Put(dt, d, e), d, i, e)
    BY <2>2, <2>3
  <2>4. Entered(dt, Put(dt, d, e), d, i, e)
    BY <2>1, <2>5, SlotSetEnters
  <2> QED BY <2>4, <1>2
<1>3. CASE i = 0 /\ d = Root
  <2>1. Put(dt, d, e) = dt
    BY <1>3 DEF Put
  <2>2. Entered(dt, dt, d, 0, e)
    BY <1>1 DEF Entered
  <2> QED BY <2>1, <2>2, <1>3
<1>4. CASE i = 0 /\ d # Root
  <2> DEFINE f == Free(PerCluster - 1)
             new == s \o <<e>> \o f
             v == [kind |-> "dir", slots |-> new]
             r == [dt EXCEPT ![d] = v]
  <2>1. PerCluster - 1 \in Nat
    BY Sizes
  <2>2. /\ f \in Seq(Entry) /\ Len(f) = PerCluster - 1
        /\ \A j \in 1 .. PerCluster - 1 : f[j] = FreeEntry
    BY <2>1, FreeIsFree
  <2>3. <<e>> \in Seq(Entry) /\ Len(<<e>>) = 1 /\ <<e>>[1] = e
    OBVIOUS
  <2>4. /\ s \o <<e>> \in Seq(Entry) /\ Len(s \o <<e>>) = n + 1
        /\ \A j \in 1 .. n + 1 : (s \o <<e>>)[j] = IF j <= n THEN s[j] ELSE <<e>>[j - n]
    BY <1>1, <2>3, ConcatProperties
  <2> HIDE DEF f
  <2> DEFINE se == s \o <<e>>
  <2>15. se \in Seq(Entry) /\ Len(se) = n + 1
    BY <2>4
  <2> HIDE DEF se
  <2>5. /\ se \o f \in Seq(Entry) /\ Len(se \o f) = Len(se) + Len(f)
        /\ \A j \in 1 .. Len(se) + Len(f) :
             (se \o f)[j] = IF j <= Len(se) THEN se[j] ELSE f[j - Len(se)]
    BY <2>2, <2>15, ConcatProperties
  <2>6. new = se \o f
    BY DEF se
  <2>7. /\ new \in Seq(Entry) /\ Len(new) = n + PerCluster /\ DOMAIN new = 1 .. n + PerCluster
        /\ \A j \in 1 .. n : new[j] = s[j]
        /\ new[n + 1] = e
        /\ \A j \in n + 2 .. n + PerCluster : new[j] = FreeEntry
    <3> HIDE DEF new
    <3>0. Len(se) + Len(f) = n + PerCluster
      BY <2>1, <2>2, <2>15, <1>1, Sizes
    <3>1. new \in Seq(Entry) /\ Len(new) = n + PerCluster
      BY <2>5, <2>6, <3>0
    <3>2. DOMAIN new = 1 .. n + PerCluster
      BY <3>1, LenProperties
    <3>3. \A j \in 1 .. n + PerCluster : new[j] = IF j <= n + 1 THEN se[j] ELSE f[j - (n + 1)]
      BY <2>5, <2>6, <2>15, <3>0
    <3>4. \A j \in 1 .. n + 1 : se[j] = IF j <= n THEN s[j] ELSE e
      BY <2>3, <2>4, <1>1 DEF se
    <3>5. \A j \in n + 2 .. n + PerCluster : j - (n + 1) \in 1 .. PerCluster - 1 /\ ~ (j <= n + 1)
      BY <1>1, Sizes
    <3>6. \A j \in n + 2 .. n + PerCluster : new[j] = FreeEntry
      <4> TAKE j \in n + 2 .. n + PerCluster
      <4>1. j \in 1 .. n + PerCluster
        BY <1>1, Sizes
      <4> QED BY <4>1, <3>3, <3>5, <2>2
    <3>7. \A j \in 1 .. n : new[j] = s[j]
      BY <3>3, <3>4, <1>1, Sizes
    <3>8. new[n + 1] = e
      BY <3>3, <3>4, <1>1, Sizes
    <3> QED BY <3>1, <3>2, <3>6, <3>7, <3>8
  <2> HIDE DEF new
  <2>8. Whole(new)
    <3>1. d \in Chains /\ n < MaxSlots
      BY <1>4, DirsAre
    <3>2. PICK k \in 1 .. MaxSlots : n = k * PerCluster
      BY <3>1 DEF DataOK, Whole
    <3>3. k <= k * PerCluster /\ (k + 1) * PerCluster = k * PerCluster + PerCluster
      BY Sizes
    <3>4. k + 1 \in 1 .. MaxSlots /\ Len(new) = (k + 1) * PerCluster
      BY <3>1, <3>2, <3>3, <2>7, Sizes
    <3> QED BY <3>4 DEF Whole
  <2>9. v \in Shapes
    BY <2>7 DEF Shapes, DirData
  <2>10. Put(dt, d, e) = r
    <3>1. Put(dt, d, e) = [dt EXCEPT ![d].slots = new]
      BY <1>4 DEF Put, new, f
    <3>2. dt[d] = [kind |-> "dir", slots |-> s]
      BY <1>1 DEF DirData
    <3>3. [dt[d] EXCEPT !.slots = new] = v
      BY <3>2
    <3> QED BY <3>1, <3>3
  <2>11. DataOK(r) /\ r[d] = v /\ \A x \in AllChains \ {d} : r[x] = dt[x]
    <3>1. dt \in [AllChains -> Shapes] /\ r = [dt EXCEPT ![d] = v]
      BY DEF DataOK
    <3>2. v.kind = "dir" /\ Whole(v.slots) /\ d # RootDir
      BY <2>8, DirsAre
    <3> HIDE DEF r, v
    <3>3. r \in [AllChains -> Shapes] /\ r[d] = v /\ \A x \in AllChains \ {d} : r[x] = dt[x]
      BY <2>9, <3>1
    <3> QED BY <3>2, <3>3, SetData
  <2>12. r[d].kind = "dir" /\ r[d].slots = new
    BY <2>11
  <2> HIDE DEF r, v
  <2>13. Entered(dt, r, d, n + 1, e)
    <3>1. n + 1 # 0 /\ n + 1 \in DOMAIN new /\ n + 1 \notin DOMAIN s
      BY <1>1, <2>7, Sizes
    <3>2. \A j \in DOMAIN new :
            j = n + 1 \/ new[j].type = "free" \/ (j \in DOMAIN s /\ new[j] = s[j])
      <4> TAKE j \in DOMAIN new
      <4>1. j \in 1 .. n \/ j = n + 1 \/ j \in n + 2 .. n + PerCluster
        BY <1>1, <2>7, Sizes
      <4> QED BY <4>1, <2>7, <1>1, FreeEntryIsEntry
    <3>3. \A j \in DOMAIN s : j \in DOMAIN new /\ new[j] = s[j]
      BY <1>1, <2>7, Sizes
    <3>4. 0 \notin DOMAIN new
      BY <2>7, <1>1, Sizes
    <3> QED BY <3>1, <3>2, <3>3, <3>4, <2>7, <2>11, <2>12 DEF Entered
  <2>14. n + 1 # 0
    BY <1>1
  <2> QED BY <2>10, <2>13, <2>14
<1> QED BY <1>2, <1>3, <1>4

-----------------------------------------------------------------------------
(* The operators on the tree, in terms of the data.                        *)

LEMMA EntryShape ==
  ASSUME NEW e \in Entry
  PROVE  /\ e.type \in AnyType \cup {"free"}
         /\ e.start \in Chains \cup {NoChain}
         /\ e.type \in {"dir", "file"} => e.start \in Chains
  BY DEF Entry, FreeEntry, AnyType

LEMMA LevelShape ==
  ASSUME NEW v \in Level
  PROVE  /\ v.content \in Chains \cup {Root, NoChain}
         /\ v.name \in LevelNames => v.content \in Chains \cup {Root}
         /\ v.content = NoChain <=> v = FreeLevel
         /\ v.name = NoName <=> v = FreeLevel
  BY VolumeAssumption DEF Level, FreeLevel

LEMMA LevelsAre ==
  TypeOK => \A t \in AllChains :
    /\ LevelsOf(t) \subseteq Chains \cup {Root}
    /\ \A c : c \in LevelsOf(t) <=>
         /\ data[t].kind = "table" /\ c # NoChain
         /\ \E j \in 1 .. LevelSlots : data[t].slots[j].content = c
<1> SUFFICES ASSUME TypeOK, NEW t \in AllChains
             PROVE  /\ LevelsOf(t) \subseteq Chains \cup {Root}
                    /\ \A c : c \in LevelsOf(t) <=>
                         /\ data[t].kind = "table" /\ c # NoChain
                         /\ \E j \in 1 .. LevelSlots : data[t].slots[j].content = c
  OBVIOUS
<1>1. DataOK(data)
  BY TypeOKIs
<1>2. CASE data[t].kind # "table"
  BY <1>2 DEF LevelsOf
<1>3. CASE data[t].kind = "table"
  <2>1. /\ DOMAIN data[t].slots = 1 .. LevelSlots
        /\ \A j \in 1 .. LevelSlots : data[t].slots[j] \in Level
    BY <1>1, <1>3, ShapeOf
  <2>2. \A j \in 1 .. LevelSlots : data[t].slots[j].content \in Chains \cup {Root, NoChain}
    BY <2>1, LevelShape
  <2>3. LevelsOf(t) = {v.content : v \in {data[t].slots[j] : j \in 1 .. LevelSlots}} \ {NoChain}
    BY <1>3, <2>1 DEF LevelsOf, ToSet
  <2> QED BY <2>2, <2>3, <1>3
<1> QED BY <1>2, <1>3

LEMMA EntriesAre ==
  TypeOK => \A d \in AllChains :
    /\ \A e : e \in EntriesOf(d) <=>
         /\ data[d].kind = "dir"
         /\ \E i \in DOMAIN data[d].slots : data[d].slots[i] = e /\ e.type # "free"
    /\ data[d].kind = "dir" => \A i \in DOMAIN data[d].slots :
         /\ data[d].slots[i] \in Entry
         /\ data[d].slots[i].start \in Chains \cup {NoChain}
         /\ data[d].slots[i].type \in {"dir", "file"} => data[d].slots[i].start \in Chains
<1> SUFFICES ASSUME TypeOK, NEW d \in AllChains
             PROVE  /\ \A e : e \in EntriesOf(d) <=>
                         /\ data[d].kind = "dir"
                         /\ \E i \in DOMAIN data[d].slots : data[d].slots[i] = e /\ e.type # "free"
                    /\ data[d].kind = "dir" => \A i \in DOMAIN data[d].slots :
                         /\ data[d].slots[i] \in Entry
                         /\ data[d].slots[i].start \in Chains \cup {NoChain}
                         /\ data[d].slots[i].type \in {"dir", "file"} => data[d].slots[i].start \in Chains
  OBVIOUS
<1>1. DataOK(data)
  BY TypeOKIs
<1>2. data[d].kind = "dir" => \A i \in DOMAIN data[d].slots : data[d].slots[i] \in Entry
  BY <1>1, ShapeOf
<1>3. \A e : e \in EntriesOf(d) <=>
         /\ data[d].kind = "dir"
         /\ \E i \in DOMAIN data[d].slots : data[d].slots[i] = e /\ e.type # "free"
  BY DEF EntriesOf, ToSet
<1> QED BY <1>2, <1>3, EntryShape

LEMMA BelowAre ==
  TypeOK => \A d \in AllChains :
    /\ Below(d) \subseteq Chains \cup {Root}
    /\ \A c : c \in Below(d) <=>
         /\ data[d].kind = "dir"
         /\ \E i \in DOMAIN data[d].slots : /\ data[d].slots[i].type = "dir"
                                           /\ c \in LevelsOf(data[d].slots[i].start)
<1> SUFFICES ASSUME TypeOK, NEW d \in AllChains
             PROVE  /\ Below(d) \subseteq Chains \cup {Root}
                    /\ \A c : c \in Below(d) <=>
                         /\ data[d].kind = "dir"
                         /\ \E i \in DOMAIN data[d].slots :
                              /\ data[d].slots[i].type = "dir"
                              /\ c \in LevelsOf(data[d].slots[i].start)
  OBVIOUS
<1>1. \A c : c \in Below(d) <=> \E e \in EntriesOf(d) : e.type = "dir" /\ c \in LevelsOf(e.start)
  BY DEF Below
<1>2. \A c : c \in Below(d) <=>
         /\ data[d].kind = "dir"
         /\ \E i \in DOMAIN data[d].slots : /\ data[d].slots[i].type = "dir"
                                           /\ c \in LevelsOf(data[d].slots[i].start)
  BY <1>1, EntriesAre
<1>3. Below(d) \subseteq Chains \cup {Root}
  <2> SUFFICES ASSUME NEW c \in Below(d) PROVE c \in Chains \cup {Root}
    OBVIOUS
  <2>1. PICK i \in DOMAIN data[d].slots : /\ data[d].slots[i].type = "dir"
                                          /\ c \in LevelsOf(data[d].slots[i].start)
    BY <1>2
  <2>2. data[d].slots[i].start \in AllChains
    BY <1>2, <2>1, EntriesAre DEF AllChains
  <2> QED BY <2>1, <2>2, LevelsAre
<1> QED BY <1>2, <1>3

LEMMA ChainsFinite == IsFiniteSet(AllChains)
<1>1. IsFiniteSet(Chains \cup {Root})
  BY VolumeAssumption, FS_AddElement
<1>2. IsFiniteSet((Chains \cup {Root}) \cup {RootDir})
  BY <1>1, FS_AddElement
<1>3. AllChains = (Chains \cup {Root}) \cup {RootDir}
  BY DEF AllChains
<1> QED BY <1>2, <1>3

\* The closure of the tree is the least set that has what is below its members.
LEMMA TreeClosure ==
  TypeOK => \A S \in SUBSET AllChains :
    /\ S \subseteq Closure(S, Tree) /\ Closure(S, Tree) \subseteq AllChains
    /\ \A d \in Closure(S, Tree) : Below(d) \subseteq Closure(S, Tree)
    /\ \A Q : S \subseteq Q /\ (\A d \in Q \cap Closure(S, Tree) : Below(d) \subseteq Q)
         => Closure(S, Tree) \subseteq Q
<1> SUFFICES ASSUME TypeOK, NEW S \in SUBSET AllChains
             PROVE  /\ S \subseteq Closure(S, Tree) /\ Closure(S, Tree) \subseteq AllChains
                    /\ \A d \in Closure(S, Tree) : Below(d) \subseteq Closure(S, Tree)
                    /\ \A Q : S \subseteq Q /\ (\A d \in Q \cap Closure(S, Tree) : Below(d) \subseteq Q)
                         => Closure(S, Tree) \subseteq Q
  OBVIOUS
<1>1. IsFiniteSet(AllChains)
  BY ChainsFinite
<1>2. DOMAIN Tree = AllChains /\ \A d \in AllChains : Tree[d] = Below(d)
  BY DEF Tree
<1>3. \A d \in AllChains : Below(d) \in SUBSET AllChains
  BY BelowAre DEF AllChains
<1> HIDE DEF Tree
<1> DEFINE C == Closure(S, Tree)
<1>4. /\ S \subseteq C /\ C \subseteq AllChains
      /\ \A d \in C : Tree[d] \subseteq C
      /\ \A Q : S \subseteq Q /\ (\A d \in Q \cap C : Tree[d] \subseteq Q) => C \subseteq Q
  <2>1. /\ IsFiniteSet(DOMAIN Tree) /\ AllChains \in SUBSET DOMAIN Tree
        /\ \A d \in AllChains : Tree[d] \in SUBSET AllChains
    BY <1>1, <1>2, <1>3
  <2> QED BY <2>1, ClosureReaches
<1> HIDE DEF C
<1>5. /\ S \subseteq C /\ C \subseteq AllChains
      /\ \A d \in C : Below(d) \subseteq C
      /\ \A Q : S \subseteq Q /\ (\A d \in Q \cap C : Below(d) \subseteq Q) => C \subseteq Q
  BY <1>2, <1>4
<1> QED BY <1>5 DEF C

LEMMA LiveFacts ==
  TypeOK =>
    /\ Root \in Live /\ cwd \in Live /\ Live \subseteq AllChains
    /\ LevelsOf(dir) \subseteq Live /\ LevelsOf(RootDir) \subseteq Live
    /\ \A d \in Live : Below(d) \subseteq Live
    /\ \A Q : Starts \subseteq Q /\ (\A d \in Q \cap Live : Below(d) \subseteq Q) => Live \subseteq Q
<1>1. TypeOK => Starts \in SUBSET AllChains
  <2>1. TypeOK => cwd \in AllChains /\ dir \in AllChains
    BY TypeOKIs DEF AllChains
  <2>2. Root \in AllChains /\ RootDir \in AllChains /\ Chains \cup {Root} \subseteq AllChains
    BY DEF AllChains
  <2> QED BY <2>1, <2>2, LevelsAre DEF Starts
<1>2. Root \in Starts /\ cwd \in Starts /\ LevelsOf(dir) \subseteq Starts /\ LevelsOf(RootDir) \subseteq Starts
  BY DEF Starts
<1> QED BY <1>1, <1>2, TreeClosure DEF Live

LEMMA ContentsFacts ==
  TypeOK =>
    /\ Root \in Contents /\ Contents \subseteq AllChains /\ LevelsOf(RootDir) \subseteq Contents
    /\ \A d \in Contents : Below(d) \subseteq Contents
    /\ \A Q : /\ Root \in Q /\ LevelsOf(RootDir) \subseteq Q
              /\ \A d \in Q \cap Contents : Below(d) \subseteq Q
              => Contents \subseteq Q
<1> DEFINE S == {Root} \cup LevelsOf(RootDir)
<1>1. TypeOK => S \in SUBSET AllChains
  <2>1. Root \in AllChains /\ RootDir \in AllChains /\ Chains \cup {Root} \subseteq AllChains
    BY DEF AllChains
  <2> QED BY <2>1, LevelsAre
<1>2. Root \in S /\ LevelsOf(RootDir) \subseteq S
      /\ \A Q : Root \in Q /\ LevelsOf(RootDir) \subseteq Q => S \subseteq Q
  OBVIOUS
<1>3. Contents = Closure(S, Tree)
  BY DEF Contents
<1> HIDE DEF S
<1> QED BY <1>1, <1>2, <1>3, TreeClosure

\* What is allocated below the root and the current directory, if Sound.
LEMMA SoundFacts ==
  Sound =>
    /\ dir # RootDir => role[dir] = "table"
    /\ \A d \in Live :
         /\ d # Root => role[d] = "dir"
         /\ data[d].kind = "dir"
         /\ \A e \in EntriesOf(d) : e.start # NoChain =>
              role[e.start] = IF e.type = "dir" THEN "table" ELSE "file"
  BY DEF Sound

\* Those that are a content are the root's or a chain.
LEMMA LiveDirs == TypeOK /\ Sound => \A d \in Live : d = Root \/ d \in Chains
<1> SUFFICES ASSUME TypeOK, Sound, NEW d \in Live PROVE d = Root \/ d \in Chains
  OBVIOUS
<1>1. DataOK(data) /\ d \in AllChains /\ data[d].kind = "dir"
  BY TypeOKIs, LiveFacts, SoundFacts
<1> QED BY <1>1, DirsAre

\* resolvePath leads to what is below the root and the current directory.
LEMMA NamedIsBelow ==
  ASSUME TypeOK, Sound, NEW d \in Live, NEW levels \in SUBSET LevelNames
  PROVE  Named(d, levels) \subseteq Below(d)
<1>1. DataOK(data) /\ d \in AllChains /\ data[d].kind = "dir"
  BY TypeOKIs, LiveFacts, SoundFacts
<1> SUFFICES ASSUME NEW c \in Named(d, levels) PROVE c \in Below(d)
  OBVIOUS
<1>2. PICK n \in Names, l \in levels :
        LET t == data[d].slots[Find(d, n, {"dir"})].start IN
        /\ Find(d, n, {"dir"}) # 0 /\ FindLevel(t, l) # 0
        /\ c = data[t].slots[FindLevel(t, l)].content
  BY DEF Named
<1> DEFINE i == Find(d, n, {"dir"})
           t == data[d].slots[i].start
           j == FindLevel(t, l)
<1>3. Len(data[d].slots) \in Nat /\ DOMAIN data[d].slots = 1 .. Len(data[d].slots)
  BY <1>1, ShapeOf
<1>4. i \in DOMAIN data[d].slots /\ data[d].slots[i].type = "dir"
  <2> DEFINE S == {k \in 1 .. Len(data[d].slots) :
                    data[d].slots[k].type \in {"dir"} /\ data[d].slots[k].name = n}
  <2>1. i # 0
    BY <1>2
  <2>2. IsFirst(i, S)
    BY <1>3, SelectEntry
  <2> HIDE DEF i
  <2>3. i \in S
    BY <2>1, <2>2 DEF IsFirst
  <2> QED BY <1>3, <2>3
<1>5. t \in Chains /\ data[d].slots[i] \in EntriesOf(d) /\ t # NoChain
  BY <1>1, <1>4, EntriesAre, VolumeAssumption
<1>6. role[t] = "table"
  BY <1>4, <1>5, SoundFacts
<1>7. data[t].kind = "table" /\ t \in AllChains
  BY <1>5, <1>6, TypeOKIs DEF AllChains
<1>8. /\ data[t].slots \in [1 .. LevelSlots -> Level] /\ Len(data[t].slots) = LevelSlots
      /\ LevelSlots \in Nat
  BY <1>1, <1>7, ShapeOf, Sizes
<1> HIDE DEF i, t, j
<1>9. j \in 1 .. LevelSlots /\ data[t].slots[j].name = l
  <2>1. j # 0
    BY <1>2 DEF i, t, j
  <2>2. IsFirst(j, {k \in 1 .. Len(data[t].slots) : data[t].slots[k].name = l})
    BY <1>8, SelectLevel DEF j
  <2> QED BY <2>1, <2>2, <1>8 DEF IsFirst
<1>10. data[t].slots[j] \in Level /\ data[t].slots[j].content \in Chains \cup {Root}
  BY <1>8, <1>9, LevelShape
<1>11. c = data[t].slots[j].content
  BY <1>2 DEF i, t, j
<1>12. c \in LevelsOf(t)
  BY <1>7, <1>9, <1>10, <1>11, LevelsAre, VolumeAssumption
<1> QED BY <1>1, <1>4, <1>12, BelowAre DEF t

-----------------------------------------------------------------------------
(* The entries and the levels as a graph: entry i of d has type y and      *)
(* start s; level j of t has the content c.                                *)

EntryAt(dt, d, i, y, s) ==
  /\ dt[d].kind = "dir" /\ i \in DOMAIN dt[d].slots
  /\ dt[d].slots[i].type = y /\ y # "free" /\ dt[d].slots[i].start = s
LevelAt(dt, t, j, c) ==
  /\ dt[t].kind = "table" /\ j \in 1 .. LevelSlots
  /\ dt[t].slots[j].content = c /\ c # NoChain

LEMMA EntryAtTyped ==
  TypeOK => \A d \in AllChains : \A i, y, s : EntryAt(data, d, i, y, s) =>
    /\ s \in Chains \cup {NoChain} /\ y \in AnyType
    /\ y \in {"dir", "file"} => s \in Chains /\ s # NoChain
<1> SUFFICES ASSUME TypeOK, NEW d \in AllChains, NEW i, NEW y, NEW s, EntryAt(data, d, i, y, s)
             PROVE  /\ s \in Chains \cup {NoChain} /\ y \in AnyType
                    /\ y \in {"dir", "file"} => s \in Chains /\ s # NoChain
  OBVIOUS
<1>1. data[d].slots[i] \in Entry
  BY EntriesAre DEF EntryAt
<1> QED BY <1>1, EntryShape, VolumeAssumption DEF EntryAt

LEMMA LevelAtTyped ==
  TypeOK => \A t \in AllChains : \A j, c : LevelAt(data, t, j, c) => c \in Chains \cup {Root}
<1> SUFFICES ASSUME TypeOK, NEW t \in AllChains, NEW j, NEW c, LevelAt(data, t, j, c)
             PROVE  c \in Chains \cup {Root}
  OBVIOUS
<1>1. c \in LevelsOf(t)
  BY LevelsAre DEF LevelAt
<1> QED BY <1>1, LevelsAre

LEMMA LevelsOfAt ==
  TypeOK => \A t \in AllChains : \A c : c \in LevelsOf(t) <=> \E j : LevelAt(data, t, j, c)
  BY LevelsAre DEF LevelAt

LEMMA BelowAt ==
  TypeOK => \A d \in AllChains : \A c :
    c \in Below(d) <=> \E i, t, j : EntryAt(data, d, i, "dir", t) /\ LevelAt(data, t, j, c)
<1> SUFFICES ASSUME TypeOK, NEW d \in AllChains, NEW c
             PROVE  c \in Below(d) <=>
                      \E i, t, j : EntryAt(data, d, i, "dir", t) /\ LevelAt(data, t, j, c)
  OBVIOUS
<1>1. \A i, t : EntryAt(data, d, i, "dir", t) => t \in AllChains
  BY EntryAtTyped DEF AllChains
<1>2. c \in Below(d) <=> \E i, t : EntryAt(data, d, i, "dir", t) /\ c \in LevelsOf(t)
  BY BelowAre DEF EntryAt
<1> QED BY <1>1, <1>2, LevelsOfAt

\* Sound, in terms of the graph.
LEMMA SoundAt ==
  TypeOK => (Sound <=>
    /\ dir # RootDir => role[dir] = "table"
    /\ \A d \in Live :
         /\ d # Root => role[d] = "dir"
         /\ data[d].kind = "dir"
         /\ \A i, y, s : EntryAt(data, d, i, y, s) /\ s # NoChain =>
              role[s] = IF y = "dir" THEN "table" ELSE "file")
<1> SUFFICES ASSUME TypeOK
             PROVE  Sound <=>
                      /\ dir # RootDir => role[dir] = "table"
                      /\ \A d \in Live :
                           /\ d # Root => role[d] = "dir"
                           /\ data[d].kind = "dir"
                           /\ \A i, y, s : EntryAt(data, d, i, y, s) /\ s # NoChain =>
                                role[s] = IF y = "dir" THEN "table" ELSE "file"
  OBVIOUS
<1>1. \A d \in Live : data[d].kind = "dir" =>
        ((\A e \in EntriesOf(d) : e.start # NoChain =>
            role[e.start] = IF e.type = "dir" THEN "table" ELSE "file")
         <=> \A i, y, s : EntryAt(data, d, i, y, s) /\ s # NoChain =>
               role[s] = IF y = "dir" THEN "table" ELSE "file")
  <2> SUFFICES ASSUME NEW d \in Live, data[d].kind = "dir"
               PROVE  (\A e \in EntriesOf(d) : e.start # NoChain =>
                         role[e.start] = IF e.type = "dir" THEN "table" ELSE "file")
                      <=> \A i, y, s : EntryAt(data, d, i, y, s) /\ s # NoChain =>
                            role[s] = IF y = "dir" THEN "table" ELSE "file"
    OBVIOUS
  <2>1. d \in AllChains
    BY LiveFacts
  <2>2. ASSUME \A e \in EntriesOf(d) : e.start # NoChain =>
                 role[e.start] = IF e.type = "dir" THEN "table" ELSE "file",
               NEW i, NEW y, NEW s, EntryAt(data, d, i, y, s), s # NoChain
        PROVE  role[s] = IF y = "dir" THEN "table" ELSE "file"
    <3>1. data[d].slots[i] \in EntriesOf(d)
      BY <2>1, <2>2, EntriesAre DEF EntryAt
    <3> QED BY <2>2, <3>1 DEF EntryAt
  <2>3. ASSUME \A i, y, s : EntryAt(data, d, i, y, s) /\ s # NoChain =>
                 role[s] = IF y = "dir" THEN "table" ELSE "file",
               NEW e \in EntriesOf(d), e.start # NoChain
        PROVE  role[e.start] = IF e.type = "dir" THEN "table" ELSE "file"
    <3>1. PICK i \in DOMAIN data[d].slots : data[d].slots[i] = e /\ e.type # "free"
      BY <2>1, EntriesAre
    <3>2. EntryAt(data, d, i, e.type, e.start)
      BY <3>1 DEF EntryAt
    <3> QED BY <2>3, <3>2
  <2> QED BY <2>2, <2>3
<1>2. Sound <=>
        /\ dir # RootDir => role[dir] = "table"
        /\ \A d \in Live :
             /\ d # Root => role[d] = "dir"
             /\ data[d].kind = "dir"
             /\ \A e \in EntriesOf(d) : e.start # NoChain =>
                  role[e.start] = IF e.type = "dir" THEN "table" ELSE "file"
  BY DEF Sound
<1> QED BY <1>1, <1>2

\* The references to a chain, in terms of the graph.
LEMMA EntryRefsAt ==
  TypeOK => \A S \in SUBSET AllChains : \A c \in Chains :
    /\ \A p \in EntryRefs(c, S) : p = <<p[1], p[2]>>
    /\ \A d, i : <<d, i>> \in EntryRefs(c, S) <=> d \in S /\ \E y : EntryAt(data, d, i, y, c)
  BY DEF EntryRefs, EntryAt

LEMMA FoldersAt ==
  TypeOK => \A S \in SUBSET AllChains : \A t :
    t \in FoldersOf(S) <=> \E d \in S : \E i : EntryAt(data, d, i, "dir", t)
<1> SUFFICES ASSUME TypeOK, NEW S \in SUBSET AllChains, NEW t
             PROVE  t \in FoldersOf(S) <=> \E d \in S : \E i : EntryAt(data, d, i, "dir", t)
  OBVIOUS
<1>1. ASSUME t \in FoldersOf(S) PROVE \E d \in S : \E i : EntryAt(data, d, i, "dir", t)
  <2>0. PICK d \in S : \E e \in EntriesOf(d) : e.type = "dir" /\ e.start = t
    BY <1>1 DEF FoldersOf
  <2>1. PICK e \in EntriesOf(d) : e.type = "dir" /\ e.start = t
    BY <2>0
  <2>2. PICK i \in DOMAIN data[d].slots : data[d].slots[i] = e
    BY EntriesAre
  <2>3. data[d].kind = "dir"
    BY EntriesAre
  <2> QED BY <2>1, <2>2, <2>3 DEF EntryAt
<1>2. ASSUME NEW d \in S, NEW i, EntryAt(data, d, i, "dir", t) PROVE t \in FoldersOf(S)
  <2>1. data[d].slots[i] \in EntriesOf(d) /\ data[d].slots[i].type = "dir" /\ data[d].slots[i].start = t
    BY <1>2, EntriesAre DEF EntryAt
  <2>2. t \in Chains
    BY <1>2, EntryAtTyped
  <2> QED BY <2>1, <2>2 DEF FoldersOf
<1> QED BY <1>1, <1>2

\* The version tables that contents lead to, and those the context has.
TablesOf(S) == FoldersOf(S) \cup {dir, RootDir}

LEMMA LevelRefsAt ==
  TypeOK => \A S \in SUBSET AllChains : \A c \in Chains :
    /\ \A p \in LevelRefs(c, S) : p = <<p[1], p[2]>>
    /\ \A t, j : <<t, j>> \in LevelRefs(c, S) <=> t \in TablesOf(S) /\ LevelAt(data, t, j, c)
<1>1. \A c \in Chains : c # NoChain
  BY VolumeAssumption
<1> QED BY <1>1 DEF LevelRefs, LevelAt, TablesOf

LEMMA TablesAre == TypeOK => \A S : TablesOf(S) \subseteq AllChains
<1>1. TypeOK => dir \in AllChains /\ RootDir \in AllChains
  BY TypeOKIs DEF AllChains
<1>2. \A S : FoldersOf(S) \subseteq AllChains
  BY DEF FoldersOf, AllChains
<1> QED BY <1>1, <1>2 DEF TablesOf

\* The levels of the version tables that live contents and the context lead to are live.
LEMMA TablesLive ==
  TypeOK => \A t \in TablesOf(Live) : \A j, c : LevelAt(data, t, j, c) => c \in Live
<1> SUFFICES ASSUME TypeOK, NEW t \in TablesOf(Live), NEW j, NEW c, LevelAt(data, t, j, c)
             PROVE  c \in Live
  OBVIOUS
<1>1. t \in AllChains /\ Live \in SUBSET AllChains
  BY TablesAre, LiveFacts
<1>2. CASE t \in FoldersOf(Live)
  <2>1. PICK d \in Live : \E i : EntryAt(data, d, i, "dir", t)
    BY <1>1, <1>2, FoldersAt
  <2>2. d \in AllChains /\ Below(d) \subseteq Live
    BY LiveFacts
  <2> QED BY <2>1, <2>2, BelowAt
<1>3. CASE t \in {dir, RootDir}
  <2>1. c \in LevelsOf(t)
    BY <1>1, LevelsOfAt
  <2> QED BY <1>3, <2>1, LiveFacts
<1> QED BY <1>2, <1>3 DEF TablesOf

LEMMA RefsFinite ==
  TypeOK => \A S \in SUBSET AllChains : \A c \in Chains :
    IsFiniteSet(EntryRefs(c, S)) /\ IsFiniteSet(LevelRefs(c, S)) /\ IsFiniteSet(Refs(c, S))
<1> SUFFICES ASSUME TypeOK, NEW S \in SUBSET AllChains, NEW c \in Chains
             PROVE  IsFiniteSet(EntryRefs(c, S)) /\ IsFiniteSet(LevelRefs(c, S)) /\ IsFiniteSet(Refs(c, S))
  OBVIOUS
<1>0. DataOK(data)
  BY TypeOKIs
<1> DEFINE n == IF data[Root].kind = "dir" THEN Len(data[Root].slots) ELSE 0
           m == MaxSlots * PerCluster
           B == AllChains \X (1 .. n + m + LevelSlots)
<1>1. n \in Nat /\ m \in Nat /\ LevelSlots \in Nat
  BY <1>0, ShapeOf, Sizes DEF AllChains
<1> HIDE DEF n, m
<1>2. IsFiniteSet(B)
  <2>1. IsFiniteSet(AllChains)
    BY ChainsFinite
  <2>2. IsFiniteSet(1 .. n + m + LevelSlots)
    BY <1>1, FS_Interval
  <2> QED BY <2>1, <2>2, FS_Product
<1>3. \A d \in AllChains : data[d].kind = "dir" => \A i \in DOMAIN data[d].slots : i \in 1 .. n + m + LevelSlots
  <2> SUFFICES ASSUME NEW d \in AllChains, data[d].kind = "dir", NEW i \in DOMAIN data[d].slots
               PROVE  i \in 1 .. n + m + LevelSlots
    OBVIOUS
  <2>1. Len(data[d].slots) \in Nat /\ DOMAIN data[d].slots = 1 .. Len(data[d].slots)
    BY <1>0, ShapeOf
  <2>2. CASE d = Root
    BY <2>1, <2>2, <1>1 DEF n
  <2>3. CASE d # Root
    <3>1. PICK k \in 1 .. MaxSlots : Len(data[d].slots) = k * PerCluster
      BY <2>3, <1>0, DirsAre DEF DataOK, Whole
    <3>2. k * PerCluster <= MaxSlots * PerCluster
      BY Sizes
    <3> QED BY <2>1, <3>1, <3>2, <1>1 DEF m
  <2> QED BY <2>2, <2>3
<1>4. EntryRefs(c, S) \subseteq B
  <2> SUFFICES ASSUME NEW p \in EntryRefs(c, S) PROVE p \in B
    OBVIOUS
  <2>1. p = <<p[1], p[2]>> /\ p[1] \in S /\ \E y : EntryAt(data, p[1], p[2], y, c)
    BY EntryRefsAt
  <2> QED BY <2>1, <1>3 DEF EntryAt
<1>5. LevelRefs(c, S) \subseteq B
  <2> SUFFICES ASSUME NEW p \in LevelRefs(c, S) PROVE p \in B
    OBVIOUS
  <2>1. p = <<p[1], p[2]>> /\ p[1] \in TablesOf(S) /\ LevelAt(data, p[1], p[2], c)
    BY LevelRefsAt
  <2>2. p[1] \in AllChains
    BY <2>1, TablesAre
  <2>3. p[2] \in 1 .. n + m + LevelSlots
    BY <2>1, <1>1 DEF LevelAt
  <2> QED BY <2>1, <2>2, <2>3
<1> HIDE DEF B
<1> QED BY <1>2, <1>4, <1>5, FS_Subset DEF Refs

-----------------------------------------------------------------------------
(* What a change of the data does to the graph.                            *)

\* In r slot i of d has e; everything else is as in dt.
SlotGets(dt, r, d, i, e) ==
  /\ \A x \in AllChains : r[x].kind = dt[x].kind
  /\ \A x \in AllChains : \A k, y, s : EntryAt(r, x, k, y, s) <=>
       IF x = d /\ k = i THEN e.type = y /\ y # "free" /\ e.start = s ELSE EntryAt(dt, x, k, y, s)
  /\ \A x \in AllChains : \A k, c : LevelAt(r, x, k, c) <=> LevelAt(dt, x, k, c)

LEMMA SlotSetAt ==
  ASSUME NEW dt, NEW r, NEW d \in AllChains, NEW i, NEW e, SlotSet(dt, r, d, i, e),
         dt[d].kind = "dir", i \in DOMAIN dt[d].slots
  PROVE  SlotGets(dt, r, d, i, e)
<1>1. \A x \in AllChains : r[x].kind = dt[x].kind
  BY DEF SlotSet
<1>2. \A x \in AllChains : \A k, c : LevelAt(r, x, k, c) <=> LevelAt(dt, x, k, c)
  BY DEF SlotSet, LevelAt
<1>3. ASSUME NEW x \in AllChains, NEW k, NEW y, NEW s
      PROVE  EntryAt(r, x, k, y, s) <=>
               IF x = d /\ k = i THEN e.type = y /\ y # "free" /\ e.start = s
               ELSE EntryAt(dt, x, k, y, s)
  BY DEF SlotSet, EntryAt
<1> QED BY <1>1, <1>2, <1>3 DEF SlotGets

\* In r the new slot k of d has e, if k is not 0; everything else is as in dt.
SlotEnters(dt, r, d, k, e) ==
  /\ \A x \in AllChains : r[x].kind = dt[x].kind
  /\ \A x \in AllChains : \A j, y, s : EntryAt(r, x, j, y, s) <=>
       IF x = d /\ j = k /\ k # 0 THEN y = e.type /\ s = e.start ELSE EntryAt(dt, x, j, y, s)
  /\ \A y, s : k # 0 => ~ EntryAt(dt, d, k, y, s)
  /\ \A x \in AllChains : \A j, c : LevelAt(r, x, j, c) <=> LevelAt(dt, x, j, c)
  /\ k # 0 => k \in DOMAIN r[d].slots /\ r[d].slots[k] = e

LEMMA EnteredAt ==
  ASSUME NEW dt, NEW r, NEW d \in AllChains, NEW k, NEW e, Entered(dt, r, d, k, e),
         dt[d].kind = "dir", e.type # "free"
  PROVE  SlotEnters(dt, r, d, k, e)
<1>1. \A x \in AllChains : r[x].kind = dt[x].kind
  BY DEF Entered
<1>2. \A x \in AllChains : \A j, c : LevelAt(r, x, j, c) <=> LevelAt(dt, x, j, c)
  BY DEF Entered, LevelAt
<1>3. \A y, s : k # 0 => ~ EntryAt(dt, d, k, y, s)
  BY DEF Entered, EntryAt
<1>4. ASSUME NEW x \in AllChains, NEW j, NEW y, NEW s
      PROVE  EntryAt(r, x, j, y, s) <=>
               IF x = d /\ j = k /\ k # 0 THEN y = e.type /\ s = e.start
               ELSE EntryAt(dt, x, j, y, s)
  <2>1. CASE x # d
    BY <2>1 DEF Entered, EntryAt
  <2>2. CASE x = d /\ j = k /\ k # 0
    BY <2>2 DEF Entered, EntryAt
  <2>3. CASE x = d /\ ~ (j = k /\ k # 0)
    BY <2>3 DEF Entered, EntryAt
  <2> QED BY <2>1, <2>2, <2>3
<1>5. k # 0 => k \in DOMAIN r[d].slots /\ r[d].slots[k] = e
  BY DEF Entered
<1> QED BY <1>1, <1>2, <1>3, <1>4, <1>5 DEF SlotEnters

\* In r place j of table t has v; everything else is as in dt.
LevelGets(dt, r, t, j, v) ==
  /\ \A x \in AllChains \ {t} : r[x] = dt[x]
  /\ \A x \in AllChains : r[x].kind = dt[x].kind
  /\ \A x \in AllChains : \A k, y, s : EntryAt(r, x, k, y, s) <=> EntryAt(dt, x, k, y, s)
  /\ \A x \in AllChains : \A k, c : LevelAt(r, x, k, c) <=>
       IF x = t /\ k = j THEN v.content = c /\ c # NoChain ELSE LevelAt(dt, x, k, c)

LEMMA SetLevel ==
  ASSUME NEW dt, DataOK(dt), NEW t \in AllChains, dt[t].kind = "table",
         NEW j \in 1 .. LevelSlots, NEW v \in Level, NEW r, r = [dt EXCEPT ![t].slots[j] = v]
  PROVE  DataOK(r) /\ LevelGets(dt, r, t, j, v)
<1> DEFINE s == dt[t].slots
           w == [kind |-> "table", slots |-> [s EXCEPT ![j] = v]]
<1>1. s \in [1 .. LevelSlots -> Level] /\ dt[t] \in TableData
  BY ShapeOf
<1>2. w \in Shapes
  BY <1>1 DEF Shapes, TableData
<1>3. r = [dt EXCEPT ![t] = w]
  <2>1. dt[t] = [kind |-> "table", slots |-> s]
    BY <1>1 DEF TableData
  <2>2. [dt[t] EXCEPT !.slots[j] = v] = w
    BY <2>1
  <2>3. r = [dt EXCEPT ![t] = [dt[t] EXCEPT !.slots[j] = v]]
    OBVIOUS
  <2> QED BY <2>2, <2>3
<1>4. DataOK(r) /\ r[t] = w /\ \A x \in AllChains \ {t} : r[x] = dt[x]
  <2>1. dt \in [AllChains -> Shapes] /\ w.kind = "table"
    BY DEF DataOK
  <2> HIDE DEF w
  <2>2. r \in [AllChains -> Shapes] /\ r[t] = w /\ \A x \in AllChains \ {t} : r[x] = dt[x]
    BY <1>2, <1>3, <2>1
  <2> QED BY <2>1, <2>2, SetData
<1>5. r[t].kind = "table" /\ r[t].slots = [s EXCEPT ![j] = v]
  BY <1>4
<1> HIDE DEF w
<1>6. \A x \in AllChains : r[x].kind = dt[x].kind
  BY <1>4, <1>5
<1>7. \A x \in AllChains : \A k, y, q : EntryAt(r, x, k, y, q) <=> EntryAt(dt, x, k, y, q)
  BY <1>4, <1>5 DEF EntryAt
<1>8. ASSUME NEW x \in AllChains, NEW k, NEW c
      PROVE  LevelAt(r, x, k, c) <=>
               IF x = t /\ k = j THEN v.content = c /\ c # NoChain ELSE LevelAt(dt, x, k, c)
  <2>1. CASE x # t
    BY <1>4, <2>1 DEF LevelAt
  <2>2. CASE x = t
    <3>1. LevelAt(r, t, k, c) <=> k \in 1 .. LevelSlots /\ r[t].slots[k].content = c /\ c # NoChain
      BY <1>1, <1>5 DEF LevelAt
    <3>2. LevelAt(dt, t, k, c) <=> k \in 1 .. LevelSlots /\ s[k].content = c /\ c # NoChain
      BY DEF LevelAt
    <3>3. \A l \in 1 .. LevelSlots : r[t].slots[l] = IF l = j THEN v ELSE s[l]
      BY <1>1, <1>5
    <3> HIDE DEF s
    <3> QED BY <2>2, <3>1, <3>2, <3>3
  <2> QED BY <2>1, <2>2
<1> HIDE DEF s
<1> QED BY <1>4, <1>6, <1>7, <1>8 DEF LevelGets

\* r is dt with v as the data of c.
LEMMA SetDataAt ==
  ASSUME NEW dt, NEW r, NEW c \in AllChains, NEW v, r[c] = v, \A x \in AllChains \ {c} : r[x] = dt[x]
  PROVE  \A x \in AllChains :
           /\ x # c => r[x].kind = dt[x].kind
           /\ \A k, y, s : EntryAt(r, x, k, y, s) <=>
                IF x = c THEN EntryAt(r, c, k, y, s) ELSE EntryAt(dt, x, k, y, s)
           /\ \A k, l : LevelAt(r, x, k, l) <=>
                IF x = c THEN LevelAt(r, c, k, l) ELSE LevelAt(dt, x, k, l)
  BY DEF EntryAt, LevelAt

LEMMA EmptyDirIs ==
  /\ EmptyDir \in Shapes /\ EmptyDir.kind = "dir" /\ Whole(EmptyDir.slots)
  /\ EmptyDir.slots \in Seq(Entry) /\ \A i \in DOMAIN EmptyDir.slots : EmptyDir.slots[i].type = "free"
  /\ \A dt, d : dt[d] = EmptyDir =>
       (\A i, y, s : ~ EntryAt(dt, d, i, y, s)) /\ (\A j, c : ~ LevelAt(dt, d, j, c))
<1>0. EmptyDir.kind = "dir" /\ EmptyDir.slots = Free(PerCluster) /\ PerCluster \in Nat \ {0}
  BY Sizes DEF EmptyDir
<1>1. /\ EmptyDir.slots \in Seq(Entry) /\ Len(EmptyDir.slots) = PerCluster
      /\ \A i \in DOMAIN EmptyDir.slots : EmptyDir.slots[i] = FreeEntry
  BY <1>0, FreeIsFree
<1>2. \A i \in DOMAIN EmptyDir.slots : EmptyDir.slots[i].type = "free"
  BY <1>1, FreeEntryIsEntry
<1>3. EmptyDir \in Shapes
  BY <1>1, <1>0 DEF Shapes, DirData, EmptyDir
<1>4. Whole(EmptyDir.slots)
  <2>1. 1 \in 1 .. MaxSlots /\ Len(EmptyDir.slots) = 1 * PerCluster
    BY <1>1, Sizes
  <2> QED BY <2>1 DEF Whole
<1>5. ASSUME NEW dt, NEW d, dt[d] = EmptyDir
      PROVE  (\A i, y, s : ~ EntryAt(dt, d, i, y, s)) /\ (\A j, c : ~ LevelAt(dt, d, j, c))
  BY <1>5, <1>2, <1>0 DEF EntryAt, LevelAt
<1> QED BY <1>0, <1>1, <1>2, <1>3, <1>4, <1>5

LEMMA TextIs ==
  /\ Text \in Shapes /\ Text.kind = "text"
  /\ \A dt, d : dt[d] = Text =>
       (\A i, y, s : ~ EntryAt(dt, d, i, y, s)) /\ (\A j, c : ~ LevelAt(dt, d, j, c))
<1>1. Text \in Shapes /\ Text.kind = "text"
  BY DEF Text, Shapes
<1> QED BY <1>1 DEF EntryAt, LevelAt

LEMMA TableIs ==
  ASSUME NEW c \in Chains \cup {Root}
  PROVE  /\ Table(c) \in Shapes /\ Table(c).kind = "table"
         /\ \A dt, t : dt[t] = Table(c) =>
              /\ \A i, y, s : ~ EntryAt(dt, t, i, y, s)
              /\ \A j, l : LevelAt(dt, t, j, l) <=> j = 1 /\ l = c
<1>1. Table(c).kind = "table" /\ \A j \in 1 .. LevelSlots :
        Table(c).slots[j] = IF j = 1 THEN [name |-> Master, content |-> c] ELSE FreeLevel
  BY DEF Table
<1>2. Table(c).slots \in [1 .. LevelSlots -> Level]
  BY VolumeAssumption DEF Table, Level
<1>3. Table(c) \in Shapes
  BY <1>2 DEF Shapes, TableData, Table
<1>4. c # NoChain /\ 1 \in 1 .. LevelSlots /\ FreeLevel.content = NoChain
  BY VolumeAssumption DEF FreeLevel
<1>5. \A j \in 1 .. LevelSlots : Table(c).slots[j].content = IF j = 1 THEN c ELSE NoChain
  BY <1>1, <1>4
<1>6. ASSUME NEW dt, NEW t, dt[t] = Table(c)
      PROVE  /\ \A i, y, s : ~ EntryAt(dt, t, i, y, s)
             /\ \A j, l : LevelAt(dt, t, j, l) <=> j = 1 /\ l = c
  BY <1>1, <1>4, <1>5, <1>6 DEF EntryAt, LevelAt
<1> QED BY <1>1, <1>3, <1>6

\* What freeing leaves of a chain's data is typed, and holds nothing new.
LEMMA FreedIs ==
  ASSUME NEW dt, DataOK(dt), NEW c \in Chains, NEW r, r[c] = Freed(dt[c])
  PROVE  /\ r[c] \in Shapes /\ r[c].kind # "table"
         /\ r[c].kind = "dir" => Whole(r[c].slots)
         /\ dt[c].kind = "dir" => r[c].kind = "dir"
         /\ \A i, y, s : EntryAt(r, c, i, y, s) => EntryAt(dt, c, i, y, s)
         /\ \A j, l : ~ LevelAt(r, c, j, l)
<1>0. c \in AllChains
  BY DEF AllChains
<1>1. CASE dt[c].kind # "dir"
  <2>1. r[c] = Text
    BY <1>1 DEF Freed
  <2> QED BY <2>1, <1>1, TextIs
<1>2. CASE dt[c].kind = "dir"
  <2> DEFINE s == dt[c].slots
             f == FirstCluster(s)
  <2>1. dt[c] = [kind |-> "dir", slots |-> s] /\ s \in Seq(Entry) /\ Len(s) \in Nat /\ DOMAIN s = 1 .. Len(s)
    BY <1>0, <1>2, ShapeOf DEF DirData
  <2>2. [dt[c] EXCEPT !.slots = FirstCluster(@)] = [kind |-> "dir", slots |-> f]
    BY <2>1
  <2>3. r[c] = [kind |-> "dir", slots |-> f]
    BY <2>2, <1>2 DEF Freed
  <2>4. PerCluster \in 1 .. Len(s)
    <3>1. PICK k \in 1 .. MaxSlots : Len(s) = k * PerCluster
      BY <1>2 DEF DataOK, Whole
    <3>2. PerCluster <= k * PerCluster
      BY Sizes
    <3> QED BY <2>1, <3>1, <3>2, Sizes
  <2>5. /\ f \in Seq(Entry) /\ Len(f) = PerCluster
        /\ \A i \in 1 .. PerCluster : f[i] = s[i]
    <3>1. 1 \in 1 .. Len(s) + 1 /\ PerCluster \in 1 - 1 .. Len(s)
      BY <2>1, <2>4
    <3>2. /\ SubSeq(s, 1, PerCluster) \in Seq(Entry)
          /\ Len(SubSeq(s, 1, PerCluster)) = IF 1 <= PerCluster THEN PerCluster - 1 + 1 ELSE 0
          /\ \A i \in 1 .. PerCluster - 1 + 1 : SubSeq(s, 1, PerCluster)[i] = s[1 + i - 1]
      <4> HIDE DEF s
      <4> QED BY <2>1, <2>4, <3>1, SubSeqProperties
    <3>3. PerCluster - 1 + 1 = PerCluster /\ 1 <= PerCluster /\ \A i \in 1 .. PerCluster : 1 + i - 1 = i
      BY Sizes
    <3> QED BY <3>2, <3>3 DEF FirstCluster
  <2>6. DOMAIN f = 1 .. PerCluster
    BY <2>5, LenProperties
  <2>7. Whole(f)
    <3>1. 1 \in 1 .. MaxSlots /\ Len(f) = 1 * PerCluster
      BY <2>5, Sizes
    <3> QED BY <3>1 DEF Whole
  <2>8. r[c] \in Shapes
    BY <2>3, <2>5 DEF Shapes, DirData
  <2>9. r[c].kind = "dir" /\ r[c].slots = f
    BY <2>3
  <2> HIDE DEF f
  <2>10. \A i, y, q : EntryAt(r, c, i, y, q) => EntryAt(dt, c, i, y, q)
    BY <2>1, <2>4, <2>5, <2>6, <2>9, <1>2 DEF EntryAt
  <2>11. \A j, l : ~ LevelAt(r, c, j, l)
    BY <2>9 DEF LevelAt
  <2> QED BY <2>7, <2>8, <2>9, <2>10, <2>11
<1> QED BY <1>1, <1>2

-----------------------------------------------------------------------------
(* What a command does to the graph, and what follows from that.           *)

NewContents == {c \in Chains : role[c] = "free" /\ role'[c] = "dir" /\ data'[c] = EmptyDir}

\* A new entry of type y leads to a chain that was free,
Fresh(y, s) == s \in Chains /\ role[s] = "free" /\ role'[s] = IF y = "dir" THEN "table" ELSE "file"
\* or is a hard link to a file,
Link(y, s) == y = "hardlink" /\ role[s] = "file" /\ role'[s] = "file"
\* or was moved to p.
Moved(p, y, s) ==
  \E d \in Live : \E i : /\ EntryAt(data, d, i, y, s)
                        /\ \A z, q : EntryAt(data', d, i, z, q) => <<d, i>> = p

\* At most the entry p and the levels in r of new contents are new.
Grows(p, r) ==
  /\ cwd' \in Live \cup NewContents /\ dir' \in TablesOf(Live)
  /\ \A d \in AllChains : (d = Root \/ role[d] = "dir") /\ data[d].kind = "dir" => data'[d].kind = "dir"
  /\ \A d \in AllChains : \A i, y, s : EntryAt(data', d, i, y, s) /\ s # NoChain =>
       \/ EntryAt(data, d, i, y, s)
       \/ <<d, i>> = p /\ (Fresh(y, s) \/ Link(y, s) \/ Moved(p, y, s))
  /\ \A t \in AllChains : \A j, c : LevelAt(data', t, j, c) =>
       \/ <<t, j>> \in r /\ c \in NewContents
       \/ LevelAt(data, t, j, c) /\ ~ (t \in Chains /\ role[t] = "free" /\ role'[t] = "table")

RolesStay == \A x \in Chains : role[x] # "free" => role'[x] = role[x]

LEMMA NewContentsAre ==
  ASSUME TypeOK, TypeOK', Sound
  PROVE  /\ NewContents \subseteq Chains /\ NewContents \cap Live = {}
         /\ \A c \in NewContents : Below(c)' = {} /\ \A i, y, s : ~ EntryAt(data', c, i, y, s)
         /\ \A t \in AllChains, j \in Nat : \A d \in Live : \A i : \A c \in NewContents :
              ~ (EntryAt(data, d, i, "dir", t) /\ LevelAt(data, t, j, c))
<1>1. NewContents \subseteq Chains
  BY DEF NewContents
<1>2. NewContents \cap Live = {}
  <2>1. \A c \in Live : c # Root => role[c] = "dir"
    BY SoundAt
  <2>2. \A c \in Chains : c # Root
    BY VolumeAssumption
  <2> QED BY <2>1, <2>2 DEF NewContents
<1>3. BelowAt'
  BY BelowAt, PTL
<1>4. ASSUME NEW c \in NewContents
      PROVE  Below(c)' = {} /\ \A i, y, s : ~ EntryAt(data', c, i, y, s)
  <2>1. \A i, y, s : ~ EntryAt(data', c, i, y, s)
    BY EmptyDirIs DEF NewContents
  <2>2. c \in AllChains
    BY DEF NewContents, AllChains
  <2> QED BY <1>3, <2>1, <2>2
<1>5. ASSUME NEW t \in AllChains, NEW j \in Nat, NEW d \in Live, NEW i, NEW c \in NewContents,
             EntryAt(data, d, i, "dir", t), LevelAt(data, t, j, c)
      PROVE  FALSE
  <2>1. d \in AllChains /\ Below(d) \subseteq Live
    BY LiveFacts
  <2>2. c \in Below(d)
    BY <1>5, <2>1, BelowAt
  <2> QED BY <2>1, <2>2, <1>2
<1> QED BY <1>1, <1>2, <1>4, <1>5

\* Where a directory entry of a live content comes from.
LEMMA GrowsFrom ==
  ASSUME TypeOK, TypeOK', Sound, NEW p, NEW r, Grows(p, r),
         NEW d \in Live, NEW i, NEW t, EntryAt(data', d, i, "dir", t)
  PROVE  /\ d \in AllChains /\ t \in Chains /\ t \in AllChains /\ t # NoChain
         /\ \/ EntryAt(data, d, i, "dir", t)
            \/ <<d, i>> = p /\ Fresh("dir", t)
            \/ <<d, i>> = p /\ Moved(p, "dir", t)
<1>1. d \in AllChains
  BY LiveFacts
<1>2. EntryAtTyped'
  BY EntryAtTyped, PTL
<1>3. t \in Chains /\ t # NoChain
  BY <1>1, <1>2
<1> QED BY <1>1, <1>3 DEF Grows, Link, AllChains

\* The contents below a content, and below a content with a moved entry.
LEMMA GrowsBelow ==
  ASSUME TypeOK, TypeOK', Sound, NEW p, NEW r, Grows(p, r), NEW d \in Live, NEW c \in Below(d)'
  PROVE  \/ c \in NewContents \/ c \in Below(d)
         \/ \E i, t, j : /\ <<d, i>> = p /\ EntryAt(data', d, i, "dir", t)
                         /\ Moved(p, "dir", t) /\ LevelAt(data, t, j, c)
<1>1. d \in AllChains
  BY LiveFacts
<1>2. BelowAt'
  BY BelowAt, PTL
<1>3. PICK i, t, j : EntryAt(data', d, i, "dir", t) /\ LevelAt(data', t, j, c)
  BY <1>1, <1>2
<1>4. /\ t \in Chains /\ t \in AllChains
      /\ \/ EntryAt(data, d, i, "dir", t)
         \/ <<d, i>> = p /\ Fresh("dir", t)
         \/ <<d, i>> = p /\ Moved(p, "dir", t)
  BY <1>3, GrowsFrom
<1>5. \/ c \in NewContents
      \/ LevelAt(data, t, j, c) /\ ~ (t \in Chains /\ role[t] = "free" /\ role'[t] = "table")
  BY <1>3, <1>4 DEF Grows
<1>6. CASE EntryAt(data, d, i, "dir", t) /\ LevelAt(data, t, j, c)
  BY <1>1, <1>6, BelowAt
<1>7. CASE LevelAt(data, t, j, c) /\ <<d, i>> = p /\ Moved(p, "dir", t)
  BY <1>3, <1>7
<1> QED BY <1>4, <1>5, <1>6, <1>7 DEF Fresh

\* What is reached afterwards was reached before or is a new content.
LEMMA GrowsLive ==
  ASSUME TypeOK, TypeOK', Sound, NEW p, NEW r, Grows(p, r)
  PROVE  Live' \subseteq Live \cup NewContents
<1> DEFINE Q == Live \cup NewContents
<1>1. LiveFacts'
  BY LiveFacts, PTL
<1>2. Starts' \subseteq Q
  <2>1. LevelsOfAt' /\ TypeOKIs'
    BY LevelsOfAt, TypeOKIs, PTL
  <2>2. ASSUME NEW t \in TablesOf(Live), NEW c \in LevelsOf(t)' PROVE c \in Q
    <3>1. t \in AllChains
      BY TablesAre
    <3>2. PICK j : LevelAt(data', t, j, c)
      BY <2>1, <2>2, <3>1
    <3>3. c \in NewContents \/ LevelAt(data, t, j, c)
      BY <3>1, <3>2 DEF Grows
    <3> QED BY <3>3, TablesLive
  <2>3. dir' \in TablesOf(Live) /\ RootDir \in TablesOf(Live)
    BY DEF Grows, TablesOf
  <2>4. LevelsOf(dir)' \subseteq Q /\ LevelsOf(RootDir)' \subseteq Q
    <3>1. \A t \in TablesOf(Live) : LevelsOf(t)' \subseteq Q
      BY <2>2
    <3> QED BY <2>3, <3>1 DEF LevelsOf
  <2>5. Root \in Q /\ cwd' \in Q
    BY LiveFacts DEF Grows
  <2> QED BY <2>4, <2>5 DEF Starts
<1>3. ASSUME NEW d \in Q, NEW c \in Below(d)' PROVE c \in Q
  <2>1. CASE d \in NewContents
    BY <2>1, <1>3, NewContentsAre
  <2>2. CASE d \in Live
    <3>0. d \in AllChains /\ Below(d) \subseteq Live
      BY <2>2, LiveFacts
    <3>1. CASE c \in NewContents \/ c \in Below(d)
      BY <3>0, <3>1
    <3>2. CASE \E i, t, j : /\ <<d, i>> = p /\ EntryAt(data', d, i, "dir", t)
                            /\ Moved(p, "dir", t) /\ LevelAt(data, t, j, c)
      <4>1. PICK t, j : Moved(p, "dir", t) /\ LevelAt(data, t, j, c)
        BY <3>2
      <4>2. PICK d2 \in Live : \E i : EntryAt(data, d2, i, "dir", t)
        BY <4>1 DEF Moved
      <4>3. d2 \in AllChains /\ Below(d2) \subseteq Live
        BY LiveFacts
      <4> QED BY <4>1, <4>2, <4>3, BelowAt
    <3> QED BY <2>2, <1>3, <3>1, <3>2, GrowsBelow
  <2> QED BY <1>3, <2>1, <2>2
<1> HIDE DEF Q
<1>4. Starts' \subseteq Q /\ \A d \in Q \cap Live' : Below(d)' \subseteq Q
  BY <1>2, <1>3
<1>5. Live' \subseteq Q
  BY <1>1, <1>4
<1> QED BY <1>5 DEF Q

\* Where every entry of a content that is live afterwards comes from.
LEMMA GrowsEntry ==
  ASSUME TypeOK, TypeOK', Sound, NEW p, NEW r, Grows(p, r),
         NEW d \in Live', NEW i, NEW y, NEW s, EntryAt(data', d, i, y, s), s # NoChain
  PROVE  /\ d \in Live /\ d \in AllChains /\ s \in Chains
         /\ \/ EntryAt(data, d, i, y, s)
            \/ <<d, i>> = p /\ (Fresh(y, s) \/ Link(y, s) \/ Moved(p, y, s))
<1>1. d \in Live
  BY GrowsLive, NewContentsAre
<1>2. d \in AllChains
  BY <1>1, LiveFacts
<1>3. EntryAtTyped'
  BY EntryAtTyped, PTL
<1>4. s \in Chains
  BY <1>2, <1>3
<1> QED BY <1>1, <1>2, <1>4 DEF Grows

\* A graph that grows stays sound: what is new is allocated for what the entry says.
LEMMA GrowsSound ==
  ASSUME TypeOK, TypeOK', Sound, NEW p, NEW r, Grows(p, r), RolesStay
  PROVE  Sound'
<1>1. SoundAt'
  BY SoundAt, PTL
<1>2. ASSUME NEW d \in Live' PROVE (d # Root => role'[d] = "dir") /\ data'[d].kind = "dir"
  <2>1. CASE d \in NewContents
    BY <2>1, EmptyDirIs DEF NewContents
  <2>2. CASE d \in Live
    <3>1. d \in AllChains /\ (d # Root => role[d] = "dir") /\ data[d].kind = "dir"
      BY <2>2, LiveFacts, SoundAt
    <3>2. data'[d].kind = "dir"
      BY <3>1 DEF Grows
    <3> QED BY <2>2, <3>1, <3>2, LiveDirs DEF RolesStay
  <2> QED BY <2>1, <2>2, GrowsLive
<1>3. ASSUME NEW d \in Live', NEW i, NEW y, NEW s, EntryAt(data', d, i, y, s), s # NoChain
      PROVE  role'[s] = IF y = "dir" THEN "table" ELSE "file"
  <2>1. /\ d \in Live /\ d \in AllChains /\ s \in Chains
        /\ \/ EntryAt(data, d, i, y, s)
           \/ <<d, i>> = p /\ (Fresh(y, s) \/ Link(y, s) \/ Moved(p, y, s))
    BY <1>3, GrowsEntry
  <2>2. CASE Fresh(y, s) \/ Link(y, s)
    BY <2>2 DEF Fresh, Link
  <2>3. CASE \E d2 \in Live : \E k : EntryAt(data, d2, k, y, s)
    <3>1. role[s] = IF y = "dir" THEN "table" ELSE "file"
      BY <2>3, <1>3, SoundAt
    <3> QED BY <3>1, <2>1 DEF RolesStay
  <2> QED BY <2>1, <2>2, <2>3 DEF Moved
<1>4. dir' # RootDir => role'[dir'] = "table"
  <2>1. dir' \in TablesOf(Live) /\ TypeOKIs'
    BY TypeOKIs, PTL DEF Grows
  <2>2. \A t \in TablesOf(Live) : t # RootDir => role[t] = "table"
    <3>1. \A t \in FoldersOf(Live) : role[t] = "table"
      <4> SUFFICES ASSUME NEW t \in FoldersOf(Live) PROVE role[t] = "table"
        OBVIOUS
      <4>1. Live \in SUBSET AllChains
        BY LiveFacts
      <4>2. PICK d \in Live : \E i : EntryAt(data, d, i, "dir", t)
        BY <4>1, FoldersAt
      <4>3. t # NoChain
        BY <4>1, <4>2, EntryAtTyped
      <4> QED BY <4>2, <4>3, SoundAt
    <3> QED BY <3>1, SoundFacts DEF TablesOf
  <2>3. dir' \in Chains \cup {RootDir}
    BY <2>1
  <2> QED BY <2>1, <2>2, <2>3 DEF RolesStay
<1> QED BY <1>1, <1>2, <1>3, <1>4

-----------------------------------------------------------------------------
(* Exclusive and Acyclic.                                                  *)

LEMMA AtMostOne ==
  ASSUME NEW S, IsFiniteSet(S)
  PROVE  Cardinality(S) <= 1 <=> \A a, b \in S : a = b
<1>1. ASSUME Cardinality(S) <= 1, NEW a \in S, NEW b \in S PROVE a = b
  <2>1. Cardinality(S) \in Nat
    BY FS_CardinalityType
  <2>2. Cardinality(S) # 0
    BY FS_EmptySet
  <2>3. Cardinality(S) = 1
    BY <1>1, <2>1, <2>2
  <2> QED BY <2>3, FS_Singleton
<1>2. ASSUME \A a, b \in S : a = b PROVE Cardinality(S) <= 1
  <2>1. CASE S = {}
    BY <2>1, FS_EmptySet
  <2>2. CASE S # {}
    <3>1. PICK a \in S : TRUE
      BY <2>2
    <3>2. S = {a}
      BY <1>2
    <3>3. Cardinality(S) = 1
      BY <3>2, FS_Singleton
    <3> QED BY <3>3
  <2> QED BY <2>1, <2>2
<1> QED BY <1>1, <1>2

LEMMA AtMostTwo ==
  ASSUME NEW S, NEW a, NEW b, S \subseteq {a, b}
  PROVE  IsFiniteSet(S) /\ Cardinality(S) <= 2
<1>1. IsFiniteSet({a}) /\ Cardinality({a}) = 1
  BY FS_Singleton
<1>2. IsFiniteSet({a} \cup {b}) /\ Cardinality({a} \cup {b}) \in {1, 2}
  BY <1>1, FS_AddElement
<1>3. {a} \cup {b} = {a, b}
  OBVIOUS
<1>4. IsFiniteSet(S) /\ Cardinality(S) \in Nat /\ Cardinality(S) <= Cardinality({a, b})
  BY <1>2, <1>3, FS_Subset, FS_CardinalityType
<1> QED BY <1>2, <1>3, <1>4

\* Data has one entry besides those of hard links.
OneEntry ==
  \A c \in Chains : \A d, e \in Live : \A i, j, y, z :
    EntryAt(data, d, i, y, c) /\ y # "hardlink" /\ EntryAt(data, e, j, z, c) /\ z # "hardlink"
      => d = e /\ i = j

\* Exclusive, in terms of the graph.
LEMMA ExclusiveAt ==
  TypeOK =>
    (Exclusive <=> (Sound => OneEntry /\ \A c \in Chains : Cardinality(LevelRefs(c, Live)) <= 2))
<1> SUFFICES ASSUME TypeOK
             PROVE  Exclusive <=> (Sound => OneEntry /\ \A c \in Chains : Cardinality(LevelRefs(c, Live)) <= 2)
  OBVIOUS
<1> DEFINE E(c) == {p \in EntryRefs(c, Live) : data[p[1]].slots[p[2]].type # "hardlink"}
<1>1. Live \in SUBSET AllChains
  BY LiveFacts
<1>2. ASSUME NEW c \in Chains
      PROVE  Cardinality(E(c)) <= 1 <=>
               \A d, e \in Live : \A i, j, y, z :
                  EntryAt(data, d, i, y, c) /\ y # "hardlink" /\ EntryAt(data, e, j, z, c) /\ z # "hardlink"
                    => d = e /\ i = j
  <2>1. IsFiniteSet(E(c))
    <3>1. IsFiniteSet(EntryRefs(c, Live))
      BY <1>1, RefsFinite
    <3> QED BY <3>1, FS_Subset
  <2>2. /\ \A p \in E(c) : p = <<p[1], p[2]>>
        /\ \A d, i : <<d, i>> \in E(c) <=> d \in Live /\ \E y : EntryAt(data, d, i, y, c) /\ y # "hardlink"
    <3>1. /\ \A p \in EntryRefs(c, Live) : p = <<p[1], p[2]>>
          /\ \A d, i : <<d, i>> \in EntryRefs(c, Live) <=> d \in Live /\ \E y : EntryAt(data, d, i, y, c)
      BY <1>1, EntryRefsAt
    <3>2. \A d, i, y : EntryAt(data, d, i, y, c) => data[d].slots[i].type = y
      BY DEF EntryAt
    <3>3. \A d, i : <<d, i>> \in E(c) <=> <<d, i>> \in EntryRefs(c, Live) /\ data[d].slots[i].type # "hardlink"
      OBVIOUS
    <3> QED BY <3>1, <3>2, <3>3
  <2> HIDE DEF E
  <2>3. Cardinality(E(c)) <= 1 <=> \A a, b \in E(c) : a = b
    BY <2>1, AtMostOne
  <2>4. ASSUME \A a, b \in E(c) : a = b, NEW d \in Live, NEW e \in Live, NEW i, NEW j, NEW y, NEW z,
               EntryAt(data, d, i, y, c), y # "hardlink", EntryAt(data, e, j, z, c), z # "hardlink"
        PROVE  d = e /\ i = j
    <3>1. <<d, i>> \in E(c) /\ <<e, j>> \in E(c)
      BY <2>2, <2>4
    <3>2. <<d, i>> = <<e, j>>
      BY <3>1, <2>4
    <3> QED BY <3>2
  <2>5. ASSUME \A d, e \in Live : \A i, j, y, z :
                 EntryAt(data, d, i, y, c) /\ y # "hardlink" /\ EntryAt(data, e, j, z, c) /\ z # "hardlink"
                   => d = e /\ i = j,
               NEW a \in E(c), NEW b \in E(c)
        PROVE  a = b
    <3>1. a = <<a[1], a[2]>> /\ b = <<b[1], b[2]>>
      BY <2>2
    <3>2. /\ a[1] \in Live /\ \E y : EntryAt(data, a[1], a[2], y, c) /\ y # "hardlink"
          /\ b[1] \in Live /\ \E y : EntryAt(data, b[1], b[2], y, c) /\ y # "hardlink"
      BY <2>2, <3>1
    <3>3. a[1] = b[1] /\ a[2] = b[2]
      BY <3>2, <2>5
    <3> QED BY <3>1, <3>3
  <2> QED BY <2>3, <2>4, <2>5
<1>3. Exclusive <=> (Sound => \A c \in Chains : Cardinality(E(c)) <= 1 /\ Cardinality(LevelRefs(c, Live)) <= 2)
  BY DEF Exclusive
<1> HIDE DEF E
<1>4. (\A c \in Chains : Cardinality(E(c)) <= 1) <=> OneEntry
  BY <1>2 DEF OneEntry
<1> QED BY <1>3, <1>4

\* A graph that grows stays exclusive: a new entry is to what was free, a hard link, or
\* of what the entry it replaces was of.
LEMMA GrowsExclusive ==
  ASSUME TypeOK, TypeOK', Sound, Exclusive, NEW p, NEW a, NEW b, Grows(p, {a, b})
  PROVE  Exclusive'
<1> DEFINE r == {a, b}
<1>0. Grows(p, r)
  OBVIOUS
<1>1. OneEntry /\ \A c \in Chains : Cardinality(LevelRefs(c, Live)) <= 2
  BY ExclusiveAt
<1>2. ExclusiveAt' /\ LevelRefsAt' /\ FoldersAt' /\ RefsFinite' /\ LiveFacts'
  BY ExclusiveAt, LevelRefsAt, FoldersAt, RefsFinite, LiveFacts, PTL
<1> HIDE DEF r
<1>3. OneEntry'
  <2> SUFFICES ASSUME NEW c \in Chains, NEW d \in Live', NEW e \in Live', NEW i, NEW j, NEW y, NEW z,
                      EntryAt(data', d, i, y, c), y # "hardlink", EntryAt(data', e, j, z, c), z # "hardlink"
               PROVE  <<d, i>> = <<e, j>>
    BY DEF OneEntry
  <2>0. c # NoChain
    BY VolumeAssumption
  <2>1. /\ d \in Live
        /\ \/ EntryAt(data, d, i, y, c)
           \/ <<d, i>> = p /\ (Fresh(y, c) \/ Moved(p, y, c))
    BY <1>0, <2>0, GrowsEntry DEF Link
  <2>2. /\ e \in Live
        /\ \/ EntryAt(data, e, j, z, c)
           \/ <<e, j>> = p /\ (Fresh(z, c) \/ Moved(p, z, c))
    BY <1>0, <2>0, GrowsEntry DEF Link
  <2>3. \A x \in Live : \A k, w : EntryAt(data, x, k, w, c) => role[c] # "free"
    <3>1. \A x \in Live : \A k, w : EntryAt(data, x, k, w, c) => role[c] = IF w = "dir" THEN "table" ELSE "file"
      BY <2>0, SoundAt
    <3> QED BY <3>1
  <2>4. CASE EntryAt(data, d, i, y, c) /\ EntryAt(data, e, j, z, c)
    BY <2>1, <2>2, <2>4, <1>1 DEF OneEntry
  <2>5. CASE EntryAt(data, d, i, y, c) /\ <<e, j>> = p /\ (Fresh(z, c) \/ Moved(p, z, c))
    <3>1. ~ Fresh(z, c)
      BY <2>1, <2>3, <2>5 DEF Fresh
    <3>2. PICK x, k : /\ x \in Live
                      /\ EntryAt(data, x, k, z, c)
                      /\ \A w, q : EntryAt(data', x, k, w, q) => <<x, k>> = p
      BY <2>5, <3>1 DEF Moved
    <3>3. x = d /\ k = i
      BY <3>2, <2>1, <2>5, <1>1 DEF OneEntry
    <3> QED BY <3>2, <3>3, <2>5
  <2>6. CASE EntryAt(data, e, j, z, c) /\ <<d, i>> = p /\ (Fresh(y, c) \/ Moved(p, y, c))
    <3>1. ~ Fresh(y, c)
      BY <2>2, <2>3, <2>6 DEF Fresh
    <3>2. PICK x, k : /\ x \in Live
                      /\ EntryAt(data, x, k, y, c)
                      /\ \A w, q : EntryAt(data', x, k, w, q) => <<x, k>> = p
      BY <2>6, <3>1 DEF Moved
    <3>3. x = e /\ k = j
      BY <3>2, <2>2, <2>6, <1>1 DEF OneEntry
    <3> QED BY <3>2, <3>3, <2>6
  <2> QED BY <2>1, <2>2, <2>4, <2>5, <2>6
<1>4. ASSUME NEW c \in Chains PROVE Cardinality(LevelRefs(c, Live)') <= 2
  <2>1. \A q \in LevelRefs(c, Live)' : q = <<q[1], q[2]>>
    BY <1>2
  <2>2. ASSUME NEW t, NEW j, <<t, j>> \in LevelRefs(c, Live)'
        PROVE  (<<t, j>> \in r /\ c \in NewContents) \/ <<t, j>> \in LevelRefs(c, Live)
    <3>0. Live \in SUBSET AllChains
      BY LiveFacts
    <3>1. t \in TablesOf(Live)' /\ LevelAt(data', t, j, c)
      BY <2>2, <1>2
    <3>2. CASE t \in {dir', RootDir}
      <4>1. t \in TablesOf(Live) /\ t \in AllChains
        BY <3>2, <1>0, TablesAre DEF Grows, TablesOf
      <4>2. (<<t, j>> \in r /\ c \in NewContents) \/ LevelAt(data, t, j, c)
        BY <3>1, <4>1, <1>0 DEF Grows
      <4> QED BY <3>0, <4>1, <4>2, LevelRefsAt
    <3>3. CASE t \in FoldersOf(Live)'
      <4>1. PICK d \in Live' : \E i : EntryAt(data', d, i, "dir", t)
        BY <3>3, <1>2
      <4>2. PICK i : EntryAt(data', d, i, "dir", t)
        BY <4>1
      <4>3. d \in Live
        BY <4>2, <1>0, GrowsLive, NewContentsAre
      <4>4. /\ d \in AllChains /\ t \in Chains /\ t \in AllChains /\ t # NoChain
            /\ \/ EntryAt(data, d, i, "dir", t)
               \/ <<d, i>> = p /\ Fresh("dir", t)
               \/ <<d, i>> = p /\ Moved(p, "dir", t)
        BY <4>2, <4>3, <1>0, GrowsFrom
      <4>5. \/ <<t, j>> \in r /\ c \in NewContents
            \/ LevelAt(data, t, j, c) /\ ~ (t \in Chains /\ role[t] = "free" /\ role'[t] = "table")
        BY <3>1, <4>4, <1>0 DEF Grows
      <4>6. CASE LevelAt(data, t, j, c) /\ \E x \in Live : \E k : EntryAt(data, x, k, "dir", t)
        <5>1. t \in TablesOf(Live)
          BY <3>0, <4>6, FoldersAt DEF TablesOf
        <5> QED BY <3>0, <4>6, <5>1, LevelRefsAt
      <4> QED BY <4>3, <4>4, <4>5, <4>6 DEF Fresh, Moved
    <3> QED BY <3>1, <3>2, <3>3 DEF TablesOf
  <2>3. CASE c \in NewContents
    <3>0. \A t, j : <<t, j>> \notin LevelRefs(c, Live)
      <4> SUFFICES ASSUME NEW t, NEW j, <<t, j>> \in LevelRefs(c, Live) PROVE FALSE
        OBVIOUS
      <4>1. Live \in SUBSET AllChains
        BY LiveFacts
      <4>2. t \in TablesOf(Live) /\ LevelAt(data, t, j, c)
        BY <4>1, LevelRefsAt
      <4> QED BY <2>3, <4>2, TablesLive, NewContentsAre
    <3>1. LevelRefs(c, Live)' \subseteq r
      BY <2>1, <2>2, <3>0
    <3> QED BY <3>1, AtMostTwo DEF r
  <2>4. CASE c \notin NewContents
    <3>1. LevelRefs(c, Live)' \subseteq LevelRefs(c, Live)
      BY <2>1, <2>2, <2>4
    <3>2. IsFiniteSet(LevelRefs(c, Live))
      BY LiveFacts, RefsFinite
    <3>3. /\ IsFiniteSet(LevelRefs(c, Live)')
          /\ Cardinality(LevelRefs(c, Live)') <= Cardinality(LevelRefs(c, Live))
      BY <3>1, <3>2, FS_Subset
    <3> QED BY <3>2, <3>3, <1>1, FS_CardinalityType
  <2> QED BY <2>3, <2>4
<1> QED BY <1>2, <1>3, <1>4

\* If no entry of a folder is moved, nothing gets below itself.
LEMMA GrowsAcyclic ==
  ASSUME TypeOK, TypeOK', Sound, Acyclic, NEW p, NEW r, Grows(p, r),
         \A t : EntryAt(data', p[1], p[2], "dir", t) =>
           EntryAt(data, p[1], p[2], "dir", t) \/ Fresh("dir", t)
  PROVE  Acyclic'
<1>1. ASSUME NEW d \in Live PROVE Below(d)' \subseteq Below(d) \cup NewContents
  <2> SUFFICES ASSUME NEW c \in Below(d)' PROVE c \in NewContents \/ c \in Below(d)
    OBVIOUS
  <2>1. \/ c \in NewContents \/ c \in Below(d)
        \/ \E i, t, j : /\ <<d, i>> = p /\ EntryAt(data', d, i, "dir", t)
                        /\ Moved(p, "dir", t) /\ LevelAt(data, t, j, c)
    BY GrowsBelow
  <2>2. ASSUME NEW i, NEW t, NEW j, <<d, i>> = p, EntryAt(data', d, i, "dir", t),
               Moved(p, "dir", t), LevelAt(data, t, j, c)
        PROVE  c \in Below(d)
    <3>1. d = p[1] /\ i = p[2] /\ d \in AllChains
      BY <2>2, LiveFacts
    <3>2. PICK x, k : x \in Live /\ EntryAt(data, x, k, "dir", t)
      BY <2>2 DEF Moved
    <3>3. x \in AllChains
      BY <3>2, LiveFacts
    <3>4. t # NoChain
      BY <3>2, <3>3, EntryAtTyped
    <3>5. role[t] = "table"
      BY <3>2, <3>4, SoundAt
    <3>6. EntryAt(data, d, i, "dir", t)
      BY <2>2, <3>1, <3>5 DEF Fresh
    <3> QED BY <2>2, <3>1, <3>6, BelowAt
  <2> QED BY <2>1, <2>2
<1>2. SUFFICES ASSUME NEW c \in Live', c # Root, c \in Closure(Below(c), Tree)' PROVE FALSE
  BY DEF Acyclic
<1>3. TreeClosure' /\ BelowAre' /\ LiveFacts'
  BY TreeClosure, BelowAre, LiveFacts, PTL
<1>4. c \in AllChains /\ Below(c)' \in SUBSET AllChains
  BY <1>2, <1>3 DEF AllChains
<1>5. CASE c \in NewContents
  <2>1. Below(c)' = {}
    BY <1>5, NewContentsAre
  <2>2. Closure(Below(c), Tree)' \subseteq {}
    BY <1>3, <1>4, <2>1
  <2> QED BY <1>2, <2>2
<1>6. CASE c \in Live
  <2>1. /\ data[c].kind = "dir" /\ c \notin Closure(Below(c), Tree)
        /\ Below(c) \subseteq Live /\ Below(c) \in SUBSET AllChains
    BY <1>2, <1>6, LiveFacts, SoundAt DEF Acyclic
  <2> DEFINE C == Closure(Below(c), Tree)
             Q == C \cup NewContents
  <2>2. /\ Below(c) \subseteq C /\ C \subseteq AllChains
        /\ \A d \in C : Below(d) \subseteq C
        /\ C \subseteq Live
    BY <2>1, TreeClosure, LiveFacts
  <2> HIDE DEF C
  <2>3. c \notin Q
    BY <2>1, <1>6, NewContentsAre DEF C
  <2>4. Below(c)' \subseteq Q
    BY <1>1, <1>6, <2>2
  <2>5. ASSUME NEW d \in Q PROVE Below(d)' \subseteq Q
    BY <1>1, <2>2, NewContentsAre
  <2> HIDE DEF Q
  <2>6. Closure(Below(c), Tree)' \subseteq Q
    BY <1>3, <1>4, <2>4, <2>5
  <2> QED BY <1>2, <2>3, <2>6
<1> QED BY <1>2, <1>5, <1>6, GrowsLive

-----------------------------------------------------------------------------
(* Moving below what is not moved.                                         *)

\* A folder moved to where its own contents do not lead gets below nothing of its own.
LEMMA MoveAcyclic ==
  ASSUME TypeOK, TypeOK', Sound, Acyclic, NEW e \in Live, NEW j, NEW r, Grows(<<e, j>>, r),
         NEW t \in Chains, \A u : EntryAt(data', e, j, "dir", u) => u = t,
         e \notin Closure(LevelsOf(t), Tree), \E d \in Live : \E i : EntryAt(data, d, i, "dir", t)
  PROVE  Acyclic'
<1> DEFINE R == Closure(LevelsOf(t), Tree)
<1>0. t \in AllChains
  BY DEF AllChains
<1>1. LevelsOf(t) \in SUBSET AllChains /\ LevelsOf(t) \subseteq Live
  <2>1. PICK d \in Live : \E i : EntryAt(data, d, i, "dir", t)
    OBVIOUS
  <2>2. d \in AllChains /\ Below(d) \subseteq Live /\ Live \subseteq AllChains
    BY LiveFacts
  <2>3. LevelsOf(t) \subseteq Below(d)
    BY <1>0, <2>1, <2>2, BelowAt, LevelsOfAt
  <2> QED BY <2>2, <2>3
<1>2. LevelsOf(t) \subseteq R /\ R \subseteq Live /\ \A d \in R : Below(d) \subseteq R
  BY <1>1, TreeClosure, LiveFacts
<1> HIDE DEF R
<1>3. ASSUME NEW d \in Live, d # e PROVE Below(d)' \subseteq Below(d) \cup NewContents
  BY <1>3, GrowsBelow
<1>4. Below(e)' \subseteq Below(e) \cup LevelsOf(t) \cup NewContents
  <2> SUFFICES ASSUME NEW c \in Below(e)' PROVE c \in NewContents \/ c \in Below(e) \/ c \in LevelsOf(t)
    OBVIOUS
  <2>1. \/ c \in NewContents \/ c \in Below(e)
        \/ \E i, u, k : /\ <<e, i>> = <<e, j>> /\ EntryAt(data', e, i, "dir", u)
                        /\ Moved(<<e, j>>, "dir", u) /\ LevelAt(data, u, k, c)
    BY GrowsBelow
  <2>2. ASSUME NEW i, NEW u, NEW k, <<e, i>> = <<e, j>>, EntryAt(data', e, i, "dir", u), LevelAt(data, u, k, c)
        PROVE  c \in LevelsOf(t)
    <3>1. i = j
      BY <2>2
    <3>2. u = t
      BY <2>2, <3>1
    <3> QED BY <1>0, <2>2, <3>2, LevelsOfAt
  <2> QED BY <2>1, <2>2
<1>5. SUFFICES ASSUME NEW c \in Live', c # Root, c \in Closure(Below(c), Tree)' PROVE FALSE
  BY DEF Acyclic
<1>6. TreeClosure' /\ BelowAre' /\ LiveFacts'
  BY TreeClosure, BelowAre, LiveFacts, PTL
<1>7. c \in AllChains /\ Below(c)' \in SUBSET AllChains
  BY <1>5, <1>6 DEF AllChains
<1>8. CASE c \in NewContents
  <2>1. Below(c)' = {}
    BY <1>8, NewContentsAre
  <2>2. Closure(Below(c), Tree)' \subseteq {}
    BY <1>6, <1>7, <2>1
  <2> QED BY <1>5, <2>2
<1>9. CASE c \in Live
  <2>1. /\ data[c].kind = "dir" /\ c \notin Closure(Below(c), Tree)
        /\ Below(c) \subseteq Live /\ Below(c) \in SUBSET AllChains
    BY <1>5, <1>9, LiveFacts, SoundAt DEF Acyclic
  <2> DEFINE C == Closure(Below(c), Tree)
  <2>2. /\ Below(c) \subseteq C /\ C \subseteq Live
        /\ \A d \in C : Below(d) \subseteq C
        /\ \A Q : Below(c) \subseteq Q /\ (\A d \in Q \cap C : Below(d) \subseteq Q) => C \subseteq Q
    BY <2>1, TreeClosure, LiveFacts
  <2>3. c \notin C
    BY <2>1
  <2> HIDE DEF C
  <2>4. CASE c \in R
    <3> DEFINE Q == C \cup NewContents
    <3>1. C \subseteq R
      BY <2>2, <2>4, <1>2
    <3>2. e \notin C /\ e # c
      BY <3>1, <2>4 DEF R
    <3>3. c \notin Q
      BY <2>3, <1>9, NewContentsAre
    <3>4. Below(c)' \subseteq Q
      BY <1>3, <1>9, <2>2, <3>2
    <3>5. ASSUME NEW d \in Q PROVE Below(d)' \subseteq Q
      BY <1>3, <2>2, <3>2, NewContentsAre
    <3> HIDE DEF Q
    <3>6. Closure(Below(c), Tree)' \subseteq Q
      BY <1>6, <1>7, <3>4, <3>5
    <3> QED BY <1>5, <3>3, <3>6
  <2>5. CASE c \notin R
    <3> DEFINE Q == C \cup R \cup NewContents
    <3>1. c \notin Q
      BY <2>3, <2>5, <1>9, NewContentsAre
    <3>2. Below(c)' \subseteq Q
      BY <1>2, <1>3, <1>4, <1>9, <2>2
    <3>3. ASSUME NEW d \in Q PROVE Below(d)' \subseteq Q
      <4>1. CASE d \in NewContents
        BY <4>1, NewContentsAre
      <4>2. CASE d \in C \cup R /\ d # e
        BY <4>2, <1>2, <1>3, <2>2
      <4>3. CASE d \in C \cup R /\ d = e
        <5>1. e \in C
          BY <4>3 DEF R
        <5> QED BY <4>3, <5>1, <1>2, <1>4, <2>2
      <4> QED BY <4>1, <4>2, <4>3
    <3> HIDE DEF Q
    <3>4. Closure(Below(c), Tree)' \subseteq Q
      BY <1>6, <1>7, <3>2, <3>3
    <3> QED BY <1>5, <3>1, <3>4
  <2> QED BY <2>4, <2>5
<1>10. Live' \subseteq Live \cup NewContents
  BY GrowsLive
<1> QED BY <1>5, <1>8, <1>9, <1>10

-----------------------------------------------------------------------------
(* Freeing.                                                                *)

FreedNow == {c \in Chains : role[c] # "free" /\ role'[c] = "free"}

\* A reference to c is gone.
Unlinked(c) ==
  \/ \E d \in Live : \E i, y : EntryAt(data, d, i, y, c) /\ \A z, q : ~ EntryAt(data', d, i, z, q)
  \/ \E t \in TablesOf(Live) : \E j : LevelAt(data, t, j, c) /\ \A l : ~ LevelAt(data', t, j, l)

\* Nothing is new, and what is freed loses a reference.
Shrinks ==
  /\ cwd' = cwd /\ dir' = dir
  /\ \A d \in AllChains : data[d].kind = "dir" => data'[d].kind = "dir"
  /\ \A d \in AllChains : \A i, y, s : EntryAt(data', d, i, y, s) => EntryAt(data, d, i, y, s)
  /\ \A t \in AllChains : \A j, c : LevelAt(data', t, j, c) => LevelAt(data, t, j, c)
  /\ \A x \in Chains : role'[x] = role[x] \/ x \in FreedNow
  /\ \A c \in FreedNow : Unlinked(c)

\* Taking entries and levels away is growing by nothing.
LEMMA ShrinksGrows ==
  ASSUME TypeOK, Shrinks, NEW p, NEW r
  PROVE  Grows(p, r)
<1>1. cwd' \in Live /\ dir' \in TablesOf(Live)
  BY LiveFacts DEF Shrinks, TablesOf
<1>2. \A t \in Chains : ~ (role[t] = "free" /\ role'[t] = "table")
  BY DEF Shrinks, FreedNow
<1> QED BY <1>1, <1>2 DEF Shrinks, Grows

\* Freeing what has one reference, and is not the current directory's, leaves no reference
\* to it.
LEMMA FreesSound ==
  ASSUME TypeOK, TypeOK', Sound, Shrinks
  PROVE  Sound' \/ \E c \in FreedNow : Cardinality(Refs(c, Live)) > 1 \/ c \in {cwd, dir}
<1> SUFFICES ASSUME \A c \in FreedNow : ~ (Cardinality(Refs(c, Live)) > 1) /\ c \notin {cwd, dir}
             PROVE  Sound'
  OBVIOUS
<1>1. SoundAt' /\ BelowAt' /\ LiveFacts' /\ EntryAtTyped'
  BY SoundAt, BelowAt, LiveFacts, EntryAtTyped, PTL
<1>2. /\ Live \subseteq AllChains /\ Root \in Live /\ cwd \in Live
      /\ \A d \in Live : Below(d) \subseteq Live
  BY LiveFacts
<1>3. \A d \in Live \cap Chains : role[d] = "dir"
  BY SoundAt, VolumeAssumption
<1>4. \A d \in Live : \A i, y, s : EntryAt(data, d, i, y, s) /\ s # NoChain => role[s] \in {"table", "file"}
  <2>1. \A d \in Live : \A i, y, s : EntryAt(data, d, i, y, s) /\ s # NoChain =>
          role[s] = IF y = "dir" THEN "table" ELSE "file"
    BY SoundAt
  <2> QED BY <2>1
<1>5. \A t \in TablesOf(Live) : t \in AllChains /\ \A j, c : LevelAt(data, t, j, c) => c \in Live
  BY TablesLive, TablesAre
<1>6. ASSUME NEW c \in FreedNow, NEW a \in Refs(c, Live), NEW b \in Refs(c, Live) PROVE a = b
  <2>1. c \in Chains
    BY DEF FreedNow
  <2>2. IsFiniteSet(Refs(c, Live))
    BY <1>2, <2>1, RefsFinite
  <2>3. Cardinality(Refs(c, Live)) <= 1
    <3>1. Cardinality(Refs(c, Live)) \in Nat
      BY <2>2, FS_CardinalityType
    <3>2. ~ (Cardinality(Refs(c, Live)) > 1)
      BY <1>6
    <3> QED BY <3>1, <3>2
  <2> QED BY <2>2, <2>3, AtMostOne
<1>7. Live' \subseteq Live \ FreedNow
  <2> DEFINE Q == Live \ FreedNow
  <2>1. ASSUME NEW t \in TablesOf(Live), NEW j, NEW c, LevelAt(data', t, j, c) PROVE c \in Q
    <3>1. LevelAt(data, t, j, c) /\ c \in Live
      BY <2>1, <1>5 DEF Shrinks
    <3>2. ASSUME c \in FreedNow PROVE FALSE
      <4>1. c \in Chains /\ role[c] = "dir" /\ c # NoChain
        BY <1>3, <3>1, <3>2, VolumeAssumption DEF FreedNow
      <4>2. <<t, j>> \in Refs(c, Live)
        BY <1>2, <3>1, <4>1, LevelRefsAt DEF Refs
      <4>3. PICK u, k : u \in TablesOf(Live) /\ LevelAt(data, u, k, c) /\ \A l : ~ LevelAt(data', u, k, l)
        BY <1>4, <3>2, <4>1 DEF Unlinked, Shrinks
      <4>4. <<u, k>> \in Refs(c, Live)
        BY <1>2, <4>1, <4>3, LevelRefsAt DEF Refs
      <4>5. u = t /\ k = j
        BY <1>6, <3>2, <4>2, <4>4
      <4> QED BY <2>1, <4>3, <4>5
    <3> QED BY <3>1, <3>2
  <2>2. Starts' \subseteq Q
    <3>1. Root \in Q
      BY <1>2, VolumeAssumption DEF FreedNow
    <3>2. cwd' \in Q
      BY <1>2 DEF Shrinks
    <3>3. LevelsOfAt'
      BY LevelsOfAt, PTL
    <3>4. \A t \in TablesOf(Live) : LevelsOf(t)' \subseteq Q
      BY <1>5, <2>1, <3>3
    <3>5. dir' \in TablesOf(Live) /\ RootDir \in TablesOf(Live)
      BY DEF Shrinks, TablesOf
    <3>6. LevelsOf(dir)' \subseteq Q /\ LevelsOf(RootDir)' \subseteq Q
      BY <3>4, <3>5 DEF LevelsOf
    <3> QED BY <3>1, <3>2, <3>6 DEF Starts
  <2>3. ASSUME NEW d \in Q, NEW c \in Below(d)' PROVE c \in Q
    <3>1. d \in Live /\ d \in AllChains
      BY <1>2
    <3>2. PICK i, t, j : EntryAt(data', d, i, "dir", t) /\ LevelAt(data', t, j, c)
      BY <1>1, <2>3, <3>1
    <3>3. EntryAt(data, d, i, "dir", t)
      BY <3>1, <3>2 DEF Shrinks
    <3>4. t \in TablesOf(Live)
      BY <1>2, <3>1, <3>3, FoldersAt DEF TablesOf
    <3> QED BY <2>1, <3>2, <3>4
  <2> HIDE DEF Q
  <2>4. Live' \subseteq Q
    BY <1>1, <2>2, <2>3
  <2> QED BY <2>4 DEF Q
<1>8. ASSUME NEW d \in Live' PROVE (d # Root => role'[d] = "dir") /\ data'[d].kind = "dir"
  <2>1. d \in Live /\ d \in AllChains /\ d \notin FreedNow
    BY <1>2, <1>7
  <2>2. (d # Root => role[d] = "dir") /\ data[d].kind = "dir"
    BY <2>1, SoundAt
  <2>3. data'[d].kind = "dir"
    BY <2>1, <2>2 DEF Shrinks
  <2> QED BY <2>1, <2>2, <2>3, LiveDirs DEF Shrinks
<1>9. ASSUME NEW d \in Live', NEW i, NEW y, NEW s, EntryAt(data', d, i, y, s), s # NoChain
      PROVE  role'[s] = IF y = "dir" THEN "table" ELSE "file"
  <2>1. d \in Live /\ d \in AllChains
    BY <1>2, <1>7
  <2>2. EntryAt(data, d, i, y, s) /\ s \in Chains
    BY <1>1, <1>9, <2>1 DEF Shrinks
  <2>3. role[s] = IF y = "dir" THEN "table" ELSE "file"
    BY <1>9, <2>1, <2>2, SoundAt
  <2>4. ASSUME s \in FreedNow PROVE FALSE
    <3>1. <<d, i>> \in Refs(s, Live)
      BY <1>2, <2>1, <2>2, EntryRefsAt DEF Refs
    <3>2. s \notin Live
      BY <1>3, <2>2, <2>3
    <3>3. PICK e, k : /\ e \in Live
                      /\ \E z : EntryAt(data, e, k, z, s)
                      /\ \A z, q : ~ EntryAt(data', e, k, z, q)
      BY <1>5, <2>4, <3>2 DEF Unlinked, Shrinks
    <3>4. <<e, k>> \in Refs(s, Live)
      BY <1>2, <2>2, <3>3, EntryRefsAt DEF Refs
    <3>5. <<e, k>> = <<d, i>>
      BY <1>6, <2>4, <3>1, <3>4
    <3> QED BY <1>9, <3>3, <3>5
  <2> QED BY <2>2, <2>3, <2>4 DEF Shrinks
<1>10. dir' # RootDir => role'[dir'] = "table"
  <2>1. dir \in Chains \cup {RootDir}
    BY TypeOKIs
  <2> QED BY <2>1, SoundFacts DEF Shrinks
<1> QED BY <1>1, <1>8, <1>9, <1>10

-----------------------------------------------------------------------------
(* Losing chains.                                                          *)

LEMMA ContentsLive == TypeOK => Contents \subseteq Live
  BY ContentsFacts, LiveFacts

\* Lost chains, in terms of the graph.
LEMMA LostAt ==
  TypeOK => \A x : x \in Lost <=>
    /\ x \in Chains /\ role[x] # "free" /\ x \notin Contents
    /\ \A d \in Contents : \A i, y : ~ EntryAt(data, d, i, y, x)
<1> SUFFICES ASSUME TypeOK, NEW x
             PROVE  x \in Lost <=>
                      /\ x \in Chains /\ role[x] # "free" /\ x \notin Contents
                      /\ \A d \in Contents : \A i, y : ~ EntryAt(data, d, i, y, x)
  OBVIOUS
<1>1. x \in Lost <=> /\ x \in Chains /\ role[x] # "free" /\ x \notin Contents
                     /\ \A d \in Contents : \A e \in EntriesOf(d) : e.start # x
  BY DEF Lost
<1>2. \A d \in Contents :
        (\A e \in EntriesOf(d) : e.start # x) <=> \A i, y : ~ EntryAt(data, d, i, y, x)
  <2> SUFFICES ASSUME NEW d \in Contents
               PROVE  (\E e \in EntriesOf(d) : e.start = x) <=> \E i, y : EntryAt(data, d, i, y, x)
    OBVIOUS
  <2>1. d \in AllChains
    BY ContentsFacts
  <2> QED BY <2>1, EntriesAre DEF EntryAt
<1> QED BY <1>1, <1>2

\* What is below the root stays so or is freed, if
\* a freed content has no entries,
EmptyFreed == \A c \in FreedNow \cap Contents : \A i, y, s : ~ EntryAt(data, c, i, y, s)
\* an entry leads to what is freed or is kept, here or elsewhere below the root,
EntriesKept ==
  \A d \in Contents \ FreedNow : \A i, y, s : EntryAt(data, d, i, y, s) /\ s # NoChain =>
    \/ s \in FreedNow
    \/ \E e : (e = d \/ e \in Contents') /\ \E k : EntryAt(data', e, k, y, s)
\* and a level of a folder or of the root is freed or kept, or the root's content has or is it.
LevelsKept ==
  /\ \A d \in Contents : \A i, t, j, c : EntryAt(data, d, i, "dir", t) /\ LevelAt(data, t, j, c) =>
       \/ c = Root \/ c \in FreedNow \/ c \in Below(Root)'
       \/ t \notin FreedNow /\ \E k : LevelAt(data', t, k, c)
  /\ \A j, c : LevelAt(data, RootDir, j, c) =>
       c = Root \/ c \in FreedNow \/ \E k : LevelAt(data', RootDir, k, c)

\* Contents stay reachable if the contents that are freed have no entries and the other
\* references stay.
LEMMA ContentsStay ==
  ASSUME TypeOK, TypeOK', EmptyFreed, EntriesKept, LevelsKept
  PROVE  Contents \subseteq Contents' \cup FreedNow
<1> DEFINE Q == Contents' \cup FreedNow
<1>1. ContentsFacts' /\ BelowAt' /\ LevelsOfAt'
  BY ContentsFacts, BelowAt, LevelsOfAt, PTL
<1>2. Root \in Q /\ LevelsOf(RootDir) \subseteq Q
  <2>1. RootDir \in AllChains
    BY DEF AllChains
  <2>2. ASSUME NEW c \in LevelsOf(RootDir) PROVE c \in Q
    <3>1. c = Root \/ c \in FreedNow \/ \E k : LevelAt(data', RootDir, k, c)
      BY <2>1, LevelsOfAt DEF LevelsKept
    <3>2. LevelsOf(RootDir)' \subseteq Contents'
      BY <1>1
    <3> QED BY <1>1, <2>1, <3>1, <3>2
  <2> QED BY <1>1, <2>2
<1>3. ASSUME NEW d \in Q \cap Contents, NEW c \in Below(d) PROVE c \in Q
  <2>1. d \in AllChains
    BY ContentsFacts
  <2>2. PICK i, t, j : EntryAt(data, d, i, "dir", t) /\ LevelAt(data, t, j, c)
    BY <1>3, <2>1, BelowAt
  <2>3. d \notin FreedNow
    BY <2>2 DEF EmptyFreed
  <2>4. d \in Contents'
    BY <2>3
  <2>5. t # NoChain
    BY <2>1, <2>2, EntryAtTyped
  <2>6. CASE c = Root \/ c \in FreedNow
    BY <1>1, <2>6
  <2>7. CASE c \in Below(Root)'
    BY <2>7, <1>1
  <2>8. CASE t \notin FreedNow /\ \E k : LevelAt(data', t, k, c)
    <3>1. PICK e : (e = d \/ e \in Contents') /\ \E k : EntryAt(data', e, k, "dir", t)
      BY <2>2, <2>3, <2>5, <2>8 DEF EntriesKept
    <3>2. e \in Contents' /\ e \in AllChains
      BY <3>1, <2>4, <1>1
    <3>3. c \in Below(e)'
      BY <3>1, <3>2, <2>8, <1>1
    <3> QED BY <3>2, <3>3, <1>1
  <2> QED BY <2>2, <2>6, <2>7, <2>8 DEF LevelsKept
<1> HIDE DEF Q
<1>4. Contents \subseteq Q
  BY <1>2, <1>3, ContentsFacts
<1> QED BY <1>4 DEF Q

\* A chain allocated now is entered below the root.
NewEntered ==
  \A x \in Chains : role[x] = "free" /\ role'[x] # "free" =>
    \/ x \in LevelsOf(RootDir)'
    \/ \E d \in Contents \ FreedNow : x \in Below(d)' \/ \E i, y : EntryAt(data', d, i, y, x)

\* Then nothing is lost, if what is allocated is entered.
LEMMA NothingLost ==
  ASSUME TypeOK, TypeOK', EmptyFreed, EntriesKept, LevelsKept, NewEntered
  PROVE  Lost' \subseteq Lost
<1> SUFFICES ASSUME NEW x \in Lost', x \notin Lost PROVE FALSE
  OBVIOUS
<1>1. ContentsFacts' /\ LostAt'
  BY ContentsFacts, LostAt, PTL
<1>2. /\ x \in Chains /\ role'[x] # "free" /\ x \notin Contents'
      /\ \A d \in Contents' : \A i, y : ~ EntryAt(data', d, i, y, x)
  BY <1>1
<1>3. x \notin FreedNow /\ x # NoChain
  BY <1>2, VolumeAssumption DEF FreedNow
<1>4. Contents \subseteq Contents' \cup FreedNow
  BY ContentsStay
<1>5. CASE role[x] = "free"
  <2>0. x \notin LevelsOf(RootDir)'
    BY <1>1, <1>2
  <2>1. PICK d \in Contents \ FreedNow : x \in Below(d)' \/ \E i, y : EntryAt(data', d, i, y, x)
    BY <1>2, <1>5, <2>0 DEF NewEntered
  <2>2. d \in Contents' /\ Below(d)' \subseteq Contents'
    BY <1>1, <1>4
  <2> QED BY <1>2, <2>1, <2>2
<1>6. CASE x \in Contents
  BY <1>2, <1>3, <1>4, <1>6
<1>7. CASE \E d \in Contents : \E i, y : EntryAt(data, d, i, y, x)
  <2>1. PICK d, i, y : d \in Contents /\ EntryAt(data, d, i, y, x)
    BY <1>7
  <2>2. d \notin FreedNow
    BY <2>1 DEF EmptyFreed
  <2>3. PICK e : (e = d \/ e \in Contents') /\ \E k : EntryAt(data', e, k, y, x)
    BY <1>3, <2>1, <2>2 DEF EntriesKept
  <2>4. e \in Contents'
    BY <1>4, <2>1, <2>2, <2>3
  <2> QED BY <1>2, <2>3, <2>4
<1> QED BY <1>2, <1>5, <1>6, <1>7, LostAt

-----------------------------------------------------------------------------
(* Paths.                                                                  *)

\* What a path leads to is live, and plain paths are paths.
LEMMA PathsFacts ==
  ASSUME TypeOK, Sound
  PROVE  /\ Root \in Paths /\ cwd \in Paths /\ Paths \subseteq Live /\ PlainPaths \subseteq Paths
         /\ Root \in PlainPaths
<1> DEFINE P == [d \in AllChains |-> Named(d, LevelNames)]
           M == [d \in AllChains |-> Named(d, {Master})]
<1>1. IsFiniteSet(AllChains) /\ Live \in SUBSET AllChains /\ {Root, cwd} \in SUBSET Live
  BY LiveFacts, ChainsFinite
<1>2. /\ DOMAIN P = AllChains /\ \A d \in AllChains : P[d] = Named(d, LevelNames)
      /\ DOMAIN M = AllChains /\ \A d \in AllChains : M[d] = Named(d, {Master})
  OBVIOUS
<1>3. /\ \A d \in Live : Named(d, LevelNames) \in SUBSET Live
      /\ \A d \in Live : Named(d, {Master}) \in SUBSET Live
  BY LiveFacts, NamedIsBelow, VolumeAssumption
<1>4. \A d : Named(d, {Master}) \subseteq Named(d, LevelNames)
  BY VolumeAssumption DEF Named
<1>5. Paths = Closure({Root, cwd}, P) /\ PlainPaths = Closure({Root, cwd}, M)
  BY DEF Paths, PlainPaths
<1> HIDE DEF P, M
<1>6. /\ {Root, cwd} \subseteq Paths /\ Paths \subseteq Live
      /\ \A d \in Paths : P[d] \subseteq Paths
      /\ \A Q : {Root, cwd} \subseteq Q /\ (\A d \in Q \cap Paths : P[d] \subseteq Q) => Paths \subseteq Q
  <2>1. /\ IsFiniteSet(DOMAIN P) /\ Live \in SUBSET DOMAIN P
        /\ \A d \in Live : P[d] \in SUBSET Live
    BY <1>1, <1>2, <1>3
  <2> DEFINE S == {Root, cwd}
             C == Closure(S, P)
  <2>2. S \in SUBSET Live
    BY <1>1
  <2> HIDE DEF S
  <2>3. /\ S \subseteq C /\ C \subseteq Live
        /\ \A d \in C : P[d] \subseteq C
        /\ \A Q : S \subseteq Q /\ (\A d \in Q \cap C : P[d] \subseteq Q) => C \subseteq Q
    BY <2>1, <2>2, ClosureReaches
  <2> QED BY <2>3, <1>5 DEF S
<1>7. /\ {Root, cwd} \subseteq PlainPaths /\ PlainPaths \subseteq Live
      /\ \A Q : {Root, cwd} \subseteq Q /\ (\A d \in Q \cap PlainPaths : M[d] \subseteq Q)
               => PlainPaths \subseteq Q
  <2>1. /\ IsFiniteSet(DOMAIN M) /\ Live \in SUBSET DOMAIN M
        /\ \A d \in Live : M[d] \in SUBSET Live
    BY <1>1, <1>2, <1>3
  <2> DEFINE S == {Root, cwd}
             C == Closure(S, M)
  <2>2. S \in SUBSET Live
    BY <1>1
  <2> HIDE DEF S
  <2>3. /\ S \subseteq C /\ C \subseteq Live
        /\ \A d \in C : M[d] \subseteq C
        /\ \A Q : S \subseteq Q /\ (\A d \in Q \cap C : M[d] \subseteq Q) => C \subseteq Q
    BY <2>1, <2>2, ClosureReaches
  <2> QED BY <2>3, <1>5 DEF S
<1>8. PlainPaths \subseteq Paths
  <2>1. \A d \in Paths \cap PlainPaths : M[d] \subseteq Paths
    BY <1>1, <1>2, <1>4, <1>6
  <2> QED BY <1>6, <1>7, <2>1
<1> QED BY <1>6, <1>7, <1>8
=============================================================================
