------------------------------ MODULE VolumeProofs --------------------------
(***************************************************************************)
(* What holds of a volume with any number of chains, names, levels and     *)
(* entries.  TypeOK is inductive as it is; the action properties need it   *)
(* and Sound, which a command requires.  One lemma per command shows the   *)
(* types, that it extends the graph of entries and levels or shrinks it,   *)
(* and that it loses no chain but in the cases of Loses; a move is         *)
(* neither, and has a lemma of its own.                                    *)
(***************************************************************************)
EXTENDS VolumeLemmas

-----------------------------------------------------------------------------
(* Commands that enter something.                                          *)

\* What is entered is new, or a hard link to a file.
Extends ==
  /\ RolesStay
  /\ \E d, k, a, b : /\ Grows(<<d, k>>, {a, b})
                     /\ \A t : EntryAt(data', d, k, "dir", t) =>
                          EntryAt(data, d, k, "dir", t) \/ Fresh("dir", t)

LEMMA PathFacts ==
  ASSUME TypeOK, Sound, NEW d \in Paths
  PROVE  /\ d \in AllChains /\ d \in Live /\ data[d].kind = "dir" /\ (d # Root => role[d] = "dir")
         /\ DataOK(data) /\ (d # Root => d \in Chains)
  BY PathsFacts, LiveFacts, LiveDirs, SoundFacts, TypeOKIs

\* The command leaves the context, or what it sets has its type and is reached.
Stays == cwd' = cwd /\ dir' = dir /\ rootVersion' = rootVersion
ContextTyped ==
  cwd' \in Chains \cup {Root} /\ dir' \in Chains \cup {RootDir} /\ rootVersion' \in LevelNames
ContextReached == cwd' \in Live \cup NewContents /\ dir' \in TablesOf(Live)

LEMMA StaysOK ==
  ASSUME TypeOK, Stays
  PROVE  ContextTyped /\ ContextReached
  BY TypeOKIs, LiveFacts DEF Stays, ContextTyped, ContextReached, TablesOf

LEMMA PlainIsPath ==
  ASSUME TypeOK, Sound
  PROVE  PlainPaths \subseteq Paths
  BY PathsFacts

LEMMA NotLoses ==
  ASSUME TypeOK, Sound, ~ Loses
  PROVE  /\ EmptyFreed
         /\ \A n \in Names : FreeSlot(data[Root].slots) = 0 =>
              ~ CreateFile(Root, n) /\ ~ CreateFolder(Root, n)
         /\ \A d \in Paths, n \in Names :
              CreateFile(d, n) \/ CreateFolder(d, n) \/ Symlink(d, n) \/ Write(d, n) => d \in Contents
<1>1. \A n \in Names : FreeSlot(data[Root].slots) = 0 =>
        ~ CreateFile(Root, n) /\ ~ CreateFolder(Root, n)
  BY DEF Loses
<1>2. \A c \in Chains : role[c] = "dir" /\ role'[c] = "free" => EntriesOf(c) = {}
  BY DEF Loses
<1>3. ASSUME NEW c \in FreedNow \cap Contents, NEW i, NEW y, NEW s PROVE ~ EntryAt(data, c, i, y, s)
  <2>1. c \in Chains /\ c \in AllChains /\ c # Root /\ c \in Live /\ role'[c] = "free"
    BY ContentsLive, VolumeAssumption DEF FreedNow, AllChains
  <2>2. role[c] = "dir"
    BY <2>1, SoundFacts
  <2>3. EntriesOf(c) = {}
    BY <1>2, <2>1, <2>2
  <2> QED BY <2>1, <2>3, EntriesAre DEF EntryAt
<1>4. ASSUME NEW d \in Paths, NEW n \in Names,
             CreateFile(d, n) \/ CreateFolder(d, n) \/ Symlink(d, n) \/ Write(d, n)
      PROVE  d \in Contents
  <2>1. Master \in LevelNames
    BY VolumeAssumption
  <2>2. ~ \E x, y \in Paths \ Contents, k, m \in Names, l \in LevelNames :
            CreateFile(x, k) \/ CreateFolder(x, k) \/ Symlink(x, k) \/ Write(x, k)
    BY DEF Loses
  <2> QED BY <1>4, <2>1, <2>2
<1> QED BY <1>1, <1>3, <1>4 DEF EmptyFreed

\* If nothing is freed or overwritten and what is allocated is entered, nothing is lost.
LEMMA KeepingLosesNothing ==
  ASSUME TypeOK, TypeOK', Sound, RolesStay, NewEntered,
         \A d \in Live : \A i, y, s : EntryAt(data, d, i, y, s) /\ s # NoChain => EntryAt(data', d, i, y, s),
         \A t \in AllChains : \A j, c :
           (t = RootDir \/ role[t] = "table") /\ LevelAt(data, t, j, c) => LevelAt(data', t, j, c)
  PROVE  Lost' \subseteq Lost
<1>1. FreedNow = {}
  BY DEF FreedNow, RolesStay
<1>2. Contents \subseteq Live
  BY ContentsLive
<1>3. EmptyFreed
  BY <1>1 DEF EmptyFreed
<1>4. EntriesKept
  BY <1>2 DEF EntriesKept
<1>5. LevelsKept
  <2>0. \A j, c : LevelAt(data, RootDir, j, c) => \E k : LevelAt(data', RootDir, k, c)
    BY DEF AllChains
  <2> SUFFICES ASSUME NEW d \in Contents, NEW i, NEW t, NEW j, NEW c,
                      EntryAt(data, d, i, "dir", t), LevelAt(data, t, j, c)
               PROVE  t \notin FreedNow /\ \E k : LevelAt(data', t, k, c)
    BY <2>0 DEF LevelsKept
  <2>1. d \in AllChains /\ d \in Live
    BY <1>2, LiveFacts
  <2>2. t \in Chains /\ t # NoChain
    BY <2>1, EntryAtTyped
  <2>3. role[t] = "table" /\ t \in AllChains
    BY <2>1, <2>2, SoundAt DEF AllChains
  <2> QED BY <1>1, <2>3
<1> QED BY <1>3, <1>4, <1>5, NothingLost

LEMMA NewEntryIs ==
  ASSUME NEW n \in Names
  PROVE  /\ \A c \in Chains : /\ NewEntry("file", n, c) \in Entry
                              /\ NewEntry("file", n, c).type = "file" /\ NewEntry("file", n, c).start = c
         /\ \A c \in Chains : /\ NewEntry("dir", n, c) \in Entry
                              /\ NewEntry("dir", n, c).type = "dir" /\ NewEntry("dir", n, c).start = c
         /\ \A y \in {"symlink", "hardlink"} :
              /\ NewEntry(y, n, NoChain) \in Entry /\ NewEntry(y, n, NoChain).type = y
              /\ NewEntry(y, n, NoChain).start = NoChain /\ NewEntry(y, n, NoChain).name = n
<1>1. PERM_DEFAULT \in 0 .. MaxAttributes
  BY Sizes DEF PERM_DEFAULT
<1> QED BY <1>1 DEF NewEntry, Entry

LEMMA CreateFileStep ==
  ASSUME TypeOK, Sound, NEW d \in Paths, NEW n \in Names, CreateFile(d, n)
  PROVE  TypeOK' /\ Extends /\ (~ Loses => Lost' \subseteq Lost)
<1>1. PICK c \in Unused : /\ role' = [role EXCEPT ![c] = "file"]
                          /\ data' = Put(data, d, NewEntry("file", n, c))
  BY DEF CreateFile
<1>2. /\ ContextTyped /\ ContextReached
      /\ FreeSlot(data[d].slots) # 0 \/ d = Root \/ Len(data[d].slots) < MaxSlots
  BY StaysOK DEF CreateFile, Room, context, Stays
<1>3. c \in Chains /\ role[c] = "free" /\ c # NoChain
  BY <1>1, VolumeAssumption DEF Unused
<1> DEFINE e == NewEntry("file", n, c)
<1>4. e \in Entry /\ e.type = "file" /\ e.start = c
  BY <1>3, NewEntryIs
<1> HIDE DEF e
<1>5. d \in AllChains /\ d \in Live /\ data[d].kind = "dir" /\ DataOK(data)
  BY PathFacts
<1>6. PICK k : Entered(data, data', d, k, e) /\ (k = 0 => d = Root /\ FreeSlot(data[d].slots) = 0)
  BY <1>1, <1>2, <1>4, <1>5, PutEnters DEF e
<1>7. SlotEnters(data, data', d, k, e)
  <2>1. e.type # "free"
    BY <1>4
  <2> QED BY <1>5, <1>6, <2>1, EnteredAt
<1>8. role' \in [Chains -> {"free", "file", "dir", "table"}] /\ role'[c] = "file"
      /\ \A x \in Chains : x # c => role'[x] = role[x]
  BY <1>1, <1>3, TypeOKIs
<1>9. TypeOK'
  <2>1. TypeOKIs'
    BY TypeOKIs, PTL
  <2>2. \A x \in Chains : role'[x] = "table" => data'[x].kind = "table"
    BY <1>7, <1>8, TypeOKIs DEF AllChains, SlotEnters
  <2> QED BY <1>2, <1>6, <1>8, <2>1, <2>2 DEF Entered, ContextTyped
<1>10. Extends
  <2>1. RolesStay
    BY <1>3, <1>8 DEF RolesStay
  <2>2. Grows(<<d, k>>, {d, d})
    BY <1>2, <1>3, <1>4, <1>5, <1>7, <1>8 DEF Grows, Fresh, SlotEnters, ContextReached
  <2>3. \A t : ~ (EntryAt(data', d, k, "dir", t) /\ ~ EntryAt(data, d, k, "dir", t))
    BY <1>4, <1>5, <1>7 DEF SlotEnters
  <2> QED BY <2>1, <2>2, <2>3 DEF Extends
<1>11. ASSUME ~ Loses PROVE Lost' \subseteq Lost
  <2>1. d \in Contents /\ k # 0
    BY <1>6, <1>11, NotLoses
  <2>2. FreedNow = {}
    BY <1>3, <1>8 DEF FreedNow
  <2>3. NewEntered
    BY <1>3, <1>4, <1>5, <1>7, <1>8, <2>1, <2>2 DEF NewEntered, SlotEnters
  <2>4. \A x \in Live : \A i, y, s : EntryAt(data, x, i, y, s) /\ s # NoChain => EntryAt(data', x, i, y, s)
    BY <1>7, LiveFacts DEF SlotEnters
  <2>5. \A t \in AllChains : \A j, l : LevelAt(data, t, j, l) => LevelAt(data', t, j, l)
    BY <1>7 DEF SlotEnters
  <2> QED BY <1>9, <1>10, <2>3, <2>4, <2>5, KeepingLosesNothing DEF Extends
<1> QED BY <1>9, <1>10, <1>11

-----------------------------------------------------------------------------
(* create, for a folder.                                                   *)

With(dt, c, v) == [dt EXCEPT ![c] = v]

LEMMA WithIs ==
  ASSUME NEW dt, DataOK(dt), NEW c \in AllChains, NEW v \in Shapes,
         v.kind = "dir" => c = Root \/ Whole(v.slots), c # RootDir
  PROVE  /\ DataOK(With(dt, c, v)) /\ With(dt, c, v)[c] = v
         /\ \A x \in AllChains \ {c} : With(dt, c, v)[x] = dt[x]
<1> DEFINE r == With(dt, c, v)
<1>1. dt \in [AllChains -> Shapes]
  BY DEF DataOK
<1>2. r \in [AllChains -> Shapes] /\ r[c] = v /\ \A x \in AllChains \ {c} : r[x] = dt[x]
  BY <1>1 DEF With
<1> HIDE DEF r
<1>3. DataOK(r)
  BY <1>2, SetData
<1> QED BY <1>2, <1>3 DEF r

LEMMA CreateFolderStep ==
  ASSUME TypeOK, Sound, NEW d \in Paths, NEW n \in Names, CreateFolder(d, n)
  PROVE  TypeOK' /\ Extends /\ (~ Loses => Lost' \subseteq Lost)
<1>1. PICK t \in Unused, c \in Unused :
        /\ t # c /\ role' = [role EXCEPT ![t] = "table", ![c] = "dir"]
        /\ data' = Put([data EXCEPT ![t] = Table(c), ![c] = EmptyDir], d, NewEntry("dir", n, t))
  BY DEF CreateFolder
<1>2. /\ ContextTyped /\ ContextReached
      /\ FreeSlot(data[d].slots) # 0 \/ d = Root \/ Len(data[d].slots) < MaxSlots
  BY StaysOK DEF CreateFolder, Room, context, Stays
<1>3. /\ t \in Chains /\ role[t] = "free" /\ t \in AllChains /\ t # NoChain /\ t \notin {Root, RootDir}
      /\ c \in Chains /\ role[c] = "free" /\ c \in AllChains /\ c # NoChain /\ c \notin {Root, RootDir}
  BY <1>1, VolumeAssumption DEF Unused, AllChains
<1>4. /\ d \in AllChains /\ d \in Live /\ data[d].kind = "dir" /\ DataOK(data)
      /\ d # t /\ d # c
  BY <1>3, PathFacts
<1> DEFINE a == With(data, t, Table(c))
           b == With(a, c, EmptyDir)
           e == NewEntry("dir", n, t)
<1>5. e \in Entry /\ e.type = "dir" /\ e.start = t
  BY <1>3, NewEntryIs
<1>6. DataOK(a) /\ a[t] = Table(c) /\ \A x \in AllChains \ {t} : a[x] = data[x]
  BY <1>3, <1>4, TableIs, WithIs
<1>7. data' = Put(b, d, e)
  BY <1>1 DEF With
<1> HIDE DEF a, e
<1>8. DataOK(b) /\ b[c] = EmptyDir /\ \A x \in AllChains \ {c} : b[x] = a[x]
  BY <1>3, <1>6, EmptyDirIs, WithIs
<1> HIDE DEF b
<1>9. b[d] = data[d] /\ b[t] = Table(c) /\ \A x \in AllChains \ {t, c} : b[x] = data[x]
  BY <1>1, <1>3, <1>4, <1>6, <1>8
<1>10. PICK k : Entered(b, data', d, k, e) /\ (k = 0 => d = Root /\ FreeSlot(data[d].slots) = 0)
  BY <1>2, <1>4, <1>5, <1>7, <1>8, <1>9, PutEnters
<1>11. e.type # "free" /\ b[d].kind = "dir"
  BY <1>4, <1>5, <1>9
<1>12. SlotEnters(b, data', d, k, e)
  BY <1>4, <1>10, <1>11, EnteredAt
<1>13. /\ b[t].kind = "table" /\ \A x \in AllChains \ {t, c} : b[x].kind = data[x].kind
       /\ \A j, y, s : ~ EntryAt(b, t, j, y, s) /\ ~ EntryAt(b, c, j, y, s)
       /\ \A j, l : (LevelAt(b, t, j, l) <=> j = 1 /\ l = c) /\ ~ LevelAt(b, c, j, l)
  BY <1>3, <1>8, <1>9, TableIs, EmptyDirIs
<1>14. /\ \A x \in AllChains \ {t, c} : \A j, y, s : EntryAt(b, x, j, y, s) <=> EntryAt(data, x, j, y, s)
       /\ \A x \in AllChains \ {t, c} : \A j, l : LevelAt(b, x, j, l) <=> LevelAt(data, x, j, l)
  BY <1>9 DEF EntryAt, LevelAt
<1>15. /\ role' \in [Chains -> {"free", "file", "dir", "table"}] /\ role'[t] = "table" /\ role'[c] = "dir"
       /\ \A x \in Chains : x # c /\ x # t => role'[x] = role[x]
  BY <1>1, <1>3, TypeOKIs
<1>16. TypeOK'
  <2>1. TypeOKIs'
    BY TypeOKIs, PTL
  <2>2. \A x \in Chains : role'[x] = "table" => data'[x].kind = "table"
    <3> TAKE x \in Chains
    <3>1. x \in AllChains
      BY DEF AllChains
    <3> QED BY <3>1, <1>12, <1>13, <1>15, TypeOKIs DEF SlotEnters
  <2> QED BY <1>2, <1>10, <1>15, <2>1, <2>2 DEF Entered, ContextTyped
<1>17. data'[c] = EmptyDir
  BY <1>3, <1>4, <1>8, <1>10 DEF Entered
<1>18. Extends
  <2>1. RolesStay
    BY <1>3, <1>15 DEF RolesStay
  <2> DEFINE r == {<<t, 1>>, <<t, 1>>}
  <2>2. c \in NewContents
    BY <1>3, <1>15, <1>17 DEF NewContents
  <2>3. \A x \in AllChains : \A i, y, s : EntryAt(data', x, i, y, s) =>
          EntryAt(data, x, i, y, s) \/ (<<x, i>> = <<d, k>> /\ Fresh(y, s))
    <3> SUFFICES ASSUME NEW x \in AllChains, NEW i, NEW y, NEW s, EntryAt(data', x, i, y, s)
                 PROVE  EntryAt(data, x, i, y, s) \/ (<<x, i>> = <<d, k>> /\ Fresh(y, s))
      OBVIOUS
    <3>1. CASE x = d /\ i = k /\ k # 0
      <4>1. y = "dir" /\ s = t
        BY <3>1, <1>5, <1>12 DEF SlotEnters
      <4> QED BY <3>1, <4>1, <1>3, <1>15 DEF Fresh
    <3>2. CASE ~ (x = d /\ i = k /\ k # 0)
      <4>1. EntryAt(b, x, i, y, s)
        BY <3>2, <1>12 DEF SlotEnters
      <4> QED BY <4>1, <1>13, <1>14
    <3> QED BY <3>1, <3>2
  <2>4. \A x \in AllChains : \A j, l : LevelAt(data', x, j, l) =>
          \/ <<x, j>> \in r /\ l \in NewContents
          \/ LevelAt(data, x, j, l) /\ ~ (x \in Chains /\ role[x] = "free" /\ role'[x] = "table")
    <3> SUFFICES ASSUME NEW x \in AllChains, NEW j, NEW l, LevelAt(data', x, j, l)
                 PROVE  \/ <<x, j>> \in r /\ l \in NewContents
                        \/ LevelAt(data, x, j, l) /\ ~ (x \in Chains /\ role[x] = "free" /\ role'[x] = "table")
      OBVIOUS
    <3>1. LevelAt(b, x, j, l)
      BY <1>12 DEF SlotEnters
    <3>2. CASE x = t
      BY <2>2, <3>1, <3>2, <1>13
    <3>3. CASE x # t
      BY <3>1, <3>3, <1>13, <1>14, <1>15
    <3> QED BY <3>2, <3>3
  <2>5. \A x \in AllChains : (x = Root \/ role[x] = "dir") /\ data[x].kind = "dir" => data'[x].kind = "dir"
    BY <1>3, <1>12, <1>13 DEF SlotEnters
  <2> HIDE DEF r
  <2>6. Grows(<<d, k>>, r)
    BY <1>2, <1>4, <2>3, <2>4, <2>5 DEF Grows, ContextReached
  <2>7. \A t2 : EntryAt(data', d, k, "dir", t2) => EntryAt(data, d, k, "dir", t2) \/ Fresh("dir", t2)
    BY <1>4, <2>3
  <2> QED BY <2>1, <2>6, <2>7 DEF Extends, r
<1>19. ASSUME ~ Loses PROVE Lost' \subseteq Lost
  <2>1. d \in Contents /\ k # 0
    BY <1>10, <1>19, NotLoses
  <2>2. FreedNow = {}
    BY <1>3, <1>15 DEF FreedNow
  <2>3. EntryAt(data', d, k, "dir", t) /\ LevelAt(data', t, 1, c)
    BY <1>3, <1>4, <1>5, <1>12, <1>13, <2>1 DEF SlotEnters
  <2>4. BelowAt'
    BY BelowAt, PTL
  <2>5. c \in Below(d)'
    BY <1>4, <1>16, <2>3, <2>4
  <2>6. NewEntered
    BY <1>15, <2>1, <2>2, <2>3, <2>5 DEF NewEntered
  <2>7. \A x \in Live : \A i, y, s : EntryAt(data, x, i, y, s) /\ s # NoChain => EntryAt(data', x, i, y, s)
    <3> SUFFICES ASSUME NEW x \in Live, NEW i, NEW y, NEW s, EntryAt(data, x, i, y, s)
                 PROVE  EntryAt(data', x, i, y, s)
      OBVIOUS
    <3>1. x \in AllChains /\ x # t /\ x # c
      BY <1>3, LiveFacts, SoundAt
    <3> QED BY <3>1, <1>12, <1>14 DEF SlotEnters
  <2>8. \A x \in AllChains : \A j, l :
          (x = RootDir \/ role[x] = "table") /\ LevelAt(data, x, j, l) => LevelAt(data', x, j, l)
    BY <1>3, <1>12, <1>14 DEF SlotEnters
  <2> QED BY <1>16, <1>18, <2>6, <2>7, <2>8, KeepingLosesNothing DEF Extends
<1> QED BY <1>16, <1>18, <1>19

-----------------------------------------------------------------------------
(* rename, and hardlink without a path.                                    *)

\* A command that leaves the graph as it is.
LEMMA SameGraphStep ==
  ASSUME TypeOK, Sound, DataOK(data'), role' = role, ContextTyped, ContextReached,
         \A x \in AllChains : data'[x].kind = data[x].kind,
         \A x \in AllChains : \A i, y, s : s # NoChain =>
           (EntryAt(data', x, i, y, s) <=> EntryAt(data, x, i, y, s)),
         \A x \in AllChains : \A j, c : LevelAt(data', x, j, c) <=> LevelAt(data, x, j, c)
  PROVE  TypeOK' /\ Extends /\ Lost' \subseteq Lost
<1>1. TypeOK'
  <2>1. TypeOKIs'
    BY TypeOKIs, PTL
  <2>2. \A x \in Chains : role'[x] = "table" => data'[x].kind = "table"
    BY TypeOKIs DEF AllChains
  <2> QED BY <2>1, <2>2, TypeOKIs DEF ContextTyped
<1>2. Extends
  <2>1. RolesStay
    BY DEF RolesStay
  <2>2. Grows(<<Root, 0>>, {Root, Root})
    BY DEF Grows, ContextReached
  <2>3. \A t : EntryAt(data', Root, 0, "dir", t) => EntryAt(data, Root, 0, "dir", t)
    <3>1. EntryAtTyped'
      BY EntryAtTyped, PTL
    <3> QED BY <1>1, <3>1 DEF AllChains
  <2> QED BY <2>1, <2>2, <2>3 DEF Extends
<1>3. Lost' \subseteq Lost
  <2>1. NewEntered
    BY DEF NewEntered
  <2>2. \A d \in Live : \A i, y, s : EntryAt(data, d, i, y, s) /\ s # NoChain => EntryAt(data', d, i, y, s)
    BY LiveFacts
  <2>3. \A t \in AllChains : \A j, c : LevelAt(data, t, j, c) => LevelAt(data', t, j, c)
    OBVIOUS
  <2> QED BY <1>1, <1>2, <2>1, <2>2, <2>3, KeepingLosesNothing DEF Extends
<1> QED BY <1>1, <1>2, <1>3

\* r is dt with file data in c.
TextSet(dt, r, c) ==
  /\ \A x \in AllChains \ {c} : r[x] = dt[x]
  /\ r[c].kind = "text" /\ \A x \in AllChains \ {c} : r[x].kind = dt[x].kind
  /\ \A x \in AllChains : \A i, y, s : EntryAt(r, x, i, y, s) <=> x # c /\ EntryAt(dt, x, i, y, s)
  /\ \A x \in AllChains : \A j, l : LevelAt(r, x, j, l) <=> x # c /\ LevelAt(dt, x, j, l)

LEMMA SetText ==
  ASSUME NEW dt, DataOK(dt), NEW c \in Chains
  PROVE  DataOK(With(dt, c, Text)) /\ TextSet(dt, With(dt, c, Text), c)
<1> DEFINE r == With(dt, c, Text)
<1>1. Text \in Shapes /\ Text.kind = "text" /\ c \in AllChains /\ c # RootDir
  BY TextIs, VolumeAssumption DEF AllChains
<1>2. DataOK(r) /\ r[c] = Text /\ \A x \in AllChains \ {c} : r[x] = dt[x]
  BY <1>1, WithIs
<1> HIDE DEF r
<1>3. (\A i, y, s : ~ EntryAt(r, c, i, y, s)) /\ (\A j, l : ~ LevelAt(r, c, j, l))
  BY <1>2, TextIs
<1>4. \A x \in AllChains \ {c} : \A i, y, s : EntryAt(r, x, i, y, s) <=> EntryAt(dt, x, i, y, s)
  BY <1>2 DEF EntryAt
<1>5. \A x \in AllChains \ {c} : \A j, l : LevelAt(r, x, j, l) <=> LevelAt(dt, x, j, l)
  BY <1>2 DEF LevelAt
<1>6. TextSet(dt, r, c)
  BY <1>1, <1>2, <1>3, <1>4, <1>5 DEF TextSet
<1> QED BY <1>2, <1>6 DEF r

\* The entry that Find returns.
LEMMA FoundEntry ==
  ASSUME TypeOK, NEW d \in AllChains, data[d].kind = "dir", NEW n, NEW types, Find(d, n, types) # 0
  PROVE  LET i == Find(d, n, types) IN
         /\ i \in DOMAIN data[d].slots /\ data[d].slots[i] \in Entry
         /\ data[d].slots[i].type \in types /\ data[d].slots[i].name = n
<1>1. DataOK(data)
  BY TypeOKIs
<1>2. Len(data[d].slots) \in Nat /\ DOMAIN data[d].slots = 1 .. Len(data[d].slots)
  BY <1>1, ShapeOf
<1> DEFINE i == Find(d, n, types)
           S == {j \in 1 .. Len(data[d].slots) : data[d].slots[j].type \in types /\ data[d].slots[j].name = n}
<1>3. IsFirst(i, S)
  BY <1>2, SelectEntry
<1>4. i \in S
  BY <1>3 DEF IsFirst
<1> HIDE DEF i
<1>5. i \in DOMAIN data[d].slots /\ data[d].slots[i].type \in types /\ data[d].slots[i].name = n
  BY <1>2, <1>4
<1>6. data[d].slots[i] \in Entry
  BY <1>1, <1>5, ShapeOf
<1> QED BY <1>5, <1>6 DEF i

LEMMA NoneFound ==
  ASSUME TypeOK, NEW d \in AllChains, data[d].kind = "dir", NEW n, NEW types, Find(d, n, types) = 0
  PROVE  \A j \in DOMAIN data[d].slots : ~ (data[d].slots[j].type \in types /\ data[d].slots[j].name = n)
<1>1. DataOK(data)
  BY TypeOKIs
<1>2. Len(data[d].slots) \in Nat /\ DOMAIN data[d].slots = 1 .. Len(data[d].slots)
  BY <1>1, ShapeOf
<1> DEFINE S == {j \in 1 .. Len(data[d].slots) : data[d].slots[j].type \in types /\ data[d].slots[j].name = n}
<1>3. IsFirst(0, S)
  BY <1>2, SelectEntry
<1>4. S = {}
  BY <1>2, <1>3 DEF IsFirst
<1> QED BY <1>2, <1>4

LEMMA EntryWith ==
  ASSUME NEW e \in Entry
  PROVE  /\ e.type # "free" => \A m \in Names : LET x == [e EXCEPT !.name = m] IN
              x \in Entry /\ x.type = e.type /\ x.start = e.start
         /\ e.type = "file" /\ e.attributes < MaxAttributes => LET x == [e EXCEPT !.attributes = @ + 1] IN
              x \in Entry /\ x.type = e.type /\ x.start = e.start /\ x.name = e.name
         /\ e.type = "symlink" => \A c \in Chains : LET x == [e EXCEPT !.start = c] IN
              x \in Entry /\ x.type = "symlink" /\ x.start = c
         /\ e.type = "hardlink" => \A c \in Chains : \A k \in 0 .. MaxAttributes :
              LET x == [e EXCEPT !.start = c, !.attributes = k] IN
              x \in Entry /\ x.type = "hardlink" /\ x.start = c
         /\ e.type = "file" => e.attributes \in 0 .. MaxAttributes /\ e.start \in Chains
<1>1. e.type # "free" => \A m \in Names : LET x == [e EXCEPT !.name = m] IN
              x \in Entry /\ x.type = e.type /\ x.start = e.start
  BY DEF Entry, FreeEntry
<1>2. e.type = "file" => e.attributes \in 0 .. MaxAttributes /\ e.start \in Chains
  BY DEF Entry, FreeEntry
<1>3. e.type = "file" /\ e.attributes < MaxAttributes => LET x == [e EXCEPT !.attributes = @ + 1] IN
              x \in Entry /\ x.type = e.type /\ x.start = e.start /\ x.name = e.name
  <2> SUFFICES ASSUME e.type = "file", e.attributes < MaxAttributes
               PROVE  LET x == [e EXCEPT !.attributes = @ + 1] IN
                      x \in Entry /\ x.type = e.type /\ x.start = e.start /\ x.name = e.name
    OBVIOUS
  <2>1. e.attributes + 1 \in 0 .. MaxAttributes
    BY <1>2, Sizes
  <2>2. e \in [type : {"file"}, name : Names, start : Chains, attributes : 0 .. MaxAttributes]
    BY DEF Entry, FreeEntry
  <2> DEFINE x == [e EXCEPT !.attributes = @ + 1]
  <2>3. /\ x \in [type : {"file"}, name : Names, start : Chains, attributes : 0 .. MaxAttributes]
        /\ x.type = e.type /\ x.start = e.start /\ x.name = e.name
    BY <2>1, <2>2
  <2> QED BY <2>3 DEF Entry
<1>4. e.type = "symlink" => \A c \in Chains : LET x == [e EXCEPT !.start = c] IN
              x \in Entry /\ x.type = "symlink" /\ x.start = c
  BY DEF Entry, FreeEntry
<1>5. e.type = "hardlink" => \A c \in Chains : \A k \in 0 .. MaxAttributes :
              LET x == [e EXCEPT !.start = c, !.attributes = k] IN
              x \in Entry /\ x.type = "hardlink" /\ x.start = c
  <2> SUFFICES ASSUME e.type = "hardlink", NEW c \in Chains, NEW k \in 0 .. MaxAttributes
               PROVE  LET x == [e EXCEPT !.start = c, !.attributes = k] IN
                      x \in Entry /\ x.type = "hardlink" /\ x.start = c
    OBVIOUS
  <2> DEFINE x == [e EXCEPT !.start = c, !.attributes = k]
             R == [type : {"symlink", "hardlink"}, name : Names, start : Chains \cup {NoChain},
                   attributes : 0 .. MaxAttributes]
  <2>1. e \in R
    BY DEF Entry, FreeEntry
  <2> DEFINE y == [e EXCEPT !.start = c]
  <2>2. y \in R /\ y.type = "hardlink" /\ y.start = c
    BY <2>1
  <2>3. x = [y EXCEPT !.attributes = k]
    OBVIOUS
  <2> HIDE DEF y, x
  <2>4. x \in R /\ x.type = "hardlink" /\ x.start = c
    BY <2>2, <2>3
  <2>5. x \in Entry
    BY <2>4 DEF Entry
  <2> QED BY <2>4, <2>5 DEF x
<1> QED BY <1>1, <1>2, <1>3, <1>4, <1>5

\* Setting a slot to an entry of the type and the start it had leaves the graph as it is.
LEMMA SameSlot ==
  ASSUME NEW dt, DataOK(dt), NEW d \in AllChains, dt[d].kind = "dir", NEW i \in DOMAIN dt[d].slots,
         NEW e \in Entry, e.type = dt[d].slots[i].type, e.start = dt[d].slots[i].start,
         NEW r, SlotSet(dt, r, d, i, e)
  PROVE  /\ \A x \in AllChains : r[x].kind = dt[x].kind
         /\ \A x \in AllChains : \A k, y, s : EntryAt(r, x, k, y, s) <=> EntryAt(dt, x, k, y, s)
         /\ \A x \in AllChains : \A k, c : LevelAt(r, x, k, c) <=> LevelAt(dt, x, k, c)
<1>1. SlotGets(dt, r, d, i, e)
  BY SlotSetAt
<1>2. \A y, s : EntryAt(dt, d, i, y, s) <=> e.type = y /\ y # "free" /\ e.start = s
  BY DEF EntryAt
<1> QED BY <1>1, <1>2 DEF SlotGets

Renamed(e, m) == [e EXCEPT !.name = m]

LEMMA RenamedIs ==
  ASSUME NEW e \in Entry, e.type # "free", NEW m \in Names
  PROVE  /\ Renamed(e, m) \in Entry
         /\ Renamed(e, m).type = e.type /\ Renamed(e, m).start = e.start
  BY DEF Renamed, Entry, FreeEntry

LEMMA RenameStep ==
  ASSUME TypeOK, Sound, NEW d \in Paths, NEW n \in Names, NEW m \in Names, Rename(d, n, m)
  PROVE  TypeOK' /\ Extends /\ (~ Loses => Lost' \subseteq Lost)
<1> DEFINE i == Find(d, n, AnyType)
           e == Renamed(data[d].slots[i], m)
<1>1. i # 0 /\ data' = [data EXCEPT ![d].slots[i].name = m] /\ role' = role /\ Stays
  BY DEF Rename, context, Stays
<1>2. d \in AllChains /\ data[d].kind = "dir" /\ DataOK(data)
  BY PathFacts
<1>3. i \in DOMAIN data[d].slots /\ data[d].slots[i] \in Entry /\ data[d].slots[i].type # "free"
  BY <1>1, <1>2, FoundEntry DEF AnyType
<1>4. e \in Entry /\ e.type = data[d].slots[i].type /\ e.start = data[d].slots[i].start
  BY <1>3, RenamedIs
<1>5. data' = [data EXCEPT ![d].slots[i] = e]
  BY <1>1 DEF Renamed
<1> HIDE DEF i, e
<1>6. SlotSet(data, data', d, i, e)
  BY <1>2, <1>3, <1>4, <1>5, SetSlot
<1>7. /\ \A x \in AllChains : data'[x].kind = data[x].kind
      /\ \A x \in AllChains : \A k, y, s : EntryAt(data', x, k, y, s) <=> EntryAt(data, x, k, y, s)
      /\ \A x \in AllChains : \A k, c : LevelAt(data', x, k, c) <=> LevelAt(data, x, k, c)
  BY <1>2, <1>3, <1>4, <1>6, SameSlot
<1>8. DataOK(data')
  BY <1>6 DEF SlotSet
<1> QED BY <1>1, <1>7, <1>8, StaysOK, SameGraphStep

LEMMA HardlinkNoPathStep ==
  ASSUME TypeOK, Sound, NEW d \in Paths, NEW n \in Names, HardlinkNoPath(d, n)
  PROVE  TypeOK' /\ Extends /\ (~ Loses => Lost' \subseteq Lost)
<1> DEFINE i == Find(d, n, {"file"})
           e == [data[d].slots[i] EXCEPT !.attributes = @ + 1]
<1>1. /\ i # 0 /\ data[d].slots[i].attributes < MaxAttributes
      /\ data' = [data EXCEPT ![d].slots[i].attributes = @ + 1] /\ role' = role /\ Stays
  BY DEF HardlinkNoPath, context, Stays
<1>2. d \in AllChains /\ data[d].kind = "dir" /\ DataOK(data)
  BY PathFacts
<1>3. i \in DOMAIN data[d].slots /\ data[d].slots[i] \in Entry /\ data[d].slots[i].type = "file"
  BY <1>1, <1>2, FoundEntry
<1>4. e \in Entry /\ e.type = data[d].slots[i].type /\ e.start = data[d].slots[i].start
  BY <1>1, <1>3, EntryWith
<1>5. data' = [data EXCEPT ![d].slots[i] = e]
  BY <1>1
<1> HIDE DEF i, e
<1>6. SlotSet(data, data', d, i, e)
  BY <1>2, <1>3, <1>4, <1>5, SetSlot
<1>7. /\ \A x \in AllChains : data'[x].kind = data[x].kind
      /\ \A x \in AllChains : \A k, y, s : EntryAt(data', x, k, y, s) <=> EntryAt(data, x, k, y, s)
      /\ \A x \in AllChains : \A k, c : LevelAt(data', x, k, c) <=> LevelAt(data, x, k, c)
  BY <1>2, <1>3, <1>4, <1>6, SameSlot
<1>8. DataOK(data')
  BY <1>6 DEF SlotSet
<1> QED BY <1>1, <1>7, <1>8, StaysOK, SameGraphStep

-----------------------------------------------------------------------------
(* write.                                                                  *)

\* Writing a file's data.
LEMMA RewriteStep ==
  ASSUME TypeOK, Sound, NEW c \in Chains, role[c] = "file", data' = With(data, c, Text),
         role' = role, Stays
  PROVE  TypeOK' /\ Extends /\ Lost' \subseteq Lost
<1>1. /\ DataOK(data) /\ c \in AllChains /\ c \notin {Root, RootDir}
      /\ ContextTyped /\ ContextReached
  BY TypeOKIs, StaysOK, VolumeAssumption DEF AllChains
<1>2. DataOK(data') /\ TextSet(data, data', c)
  BY <1>1, SetText
<1>3. TypeOK'
  <2>1. TypeOKIs'
    BY TypeOKIs, PTL
  <2>2. \A x \in Chains : role'[x] = "table" => data'[x].kind = "table"
    BY <1>2, TypeOKIs DEF TextSet, AllChains
  <2> QED BY <1>1, <1>2, <2>1, <2>2, TypeOKIs DEF ContextTyped
<1>4. Extends
  <2>1. RolesStay
    BY DEF RolesStay
  <2>2. \A x \in AllChains : (x = Root \/ role[x] = "dir") /\ data[x].kind = "dir" => data'[x].kind = "dir"
    BY <1>1, <1>2 DEF TextSet
  <2>3. Grows(<<Root, 0>>, {Root, Root})
    BY <1>1, <1>2, <2>2 DEF Grows, TextSet, ContextReached
  <2>4. \A t : EntryAt(data', Root, 0, "dir", t) => EntryAt(data, Root, 0, "dir", t)
    BY <1>1, <1>2 DEF TextSet, AllChains
  <2> QED BY <2>1, <2>3, <2>4 DEF Extends
<1>5. Lost' \subseteq Lost
  <2>1. NewEntered
    BY DEF NewEntered
  <2>2. \A d \in Live : \A i, y, s : EntryAt(data, d, i, y, s) /\ s # NoChain => EntryAt(data', d, i, y, s)
    <3>1. \A d \in Live : d \in AllChains /\ d # c
      BY <1>1, LiveFacts, SoundFacts
    <3> QED BY <3>1, <1>2 DEF TextSet
  <2>3. \A t \in AllChains : \A j, l :
          (t = RootDir \/ role[t] = "table") /\ LevelAt(data, t, j, l) => LevelAt(data', t, j, l)
    BY <1>1, <1>2 DEF TextSet
  <2> QED BY <1>3, <1>4, <2>1, <2>2, <2>3, KeepingLosesNothing DEF Extends
<1> QED BY <1>3, <1>4, <1>5

\* Entering a file, or a symlink, with new data: a is data with the entry, in slot k of d.
LEMMA NewTextStep ==
  ASSUME TypeOK, Sound, NEW d \in Paths, NEW c \in Unused, NEW a, DataOK(a),
         \A x \in AllChains : a[x].kind = data[x].kind,
         NEW k, NEW y0, y0 \in {"file", "symlink"}, EntryAt(a, d, k, y0, c),
         \A x \in AllChains : \A i, y, s : <<x, i>> # <<d, k>> /\ s # NoChain =>
           (EntryAt(a, x, i, y, s) <=> EntryAt(data, x, i, y, s)),
         \A x \in AllChains : \A j, l : LevelAt(a, x, j, l) <=> LevelAt(data, x, j, l),
         data' = With(a, c, Text), role' = [role EXCEPT ![c] = "file"], Stays
  PROVE  /\ TypeOK' /\ Extends
         /\ d \in Contents /\ (\A y, s : s # NoChain => ~ EntryAt(data, d, k, y, s))
              => Lost' \subseteq Lost
<1>1. c \in Chains /\ role[c] = "free" /\ c \in AllChains /\ c \notin {Root, RootDir, NoChain}
  BY VolumeAssumption DEF Unused, AllChains
<1>2. d \in AllChains /\ d \in Live /\ ContextTyped /\ ContextReached /\ d # c
  BY <1>1, PathFacts, StaysOK
<1>3. DataOK(data') /\ TextSet(a, data', c)
  BY <1>1, SetText
<1>4. role' \in [Chains -> {"free", "file", "dir", "table"}] /\ role'[c] = "file"
      /\ \A x \in Chains : x # c => role'[x] = role[x]
  BY <1>1, TypeOKIs
<1>5. TypeOK'
  <2>1. TypeOKIs'
    BY TypeOKIs, PTL
  <2>2. \A x \in Chains : role'[x] = "table" => data'[x].kind = "table"
    BY <1>3, <1>4, TypeOKIs DEF TextSet, AllChains
  <2> QED BY <1>2, <1>3, <1>4, <2>1, <2>2 DEF ContextTyped
<1>6. EntryAt(data', d, k, y0, c)
  BY <1>2, <1>3 DEF TextSet
<1>7. \A y, s : EntryAt(data', d, k, y, s) => y = y0 /\ s = c
  BY <1>6 DEF EntryAt
<1>8. Extends
  <2>1. RolesStay
    BY <1>1, <1>4 DEF RolesStay
  <2>2. \A x \in AllChains : (x = Root \/ role[x] = "dir") /\ data[x].kind = "dir" => data'[x].kind = "dir"
    BY <1>1, <1>3 DEF TextSet
  <2>3. \A x \in AllChains : \A i, y, s : EntryAt(data', x, i, y, s) /\ s # NoChain =>
          EntryAt(data, x, i, y, s) \/ (<<x, i>> = <<d, k>> /\ Fresh(y, s))
    <3> SUFFICES ASSUME NEW x \in AllChains, NEW i, NEW y, NEW s, EntryAt(data', x, i, y, s), s # NoChain
                 PROVE  EntryAt(data, x, i, y, s) \/ (<<x, i>> = <<d, k>> /\ Fresh(y, s))
      OBVIOUS
    <3>1. CASE <<x, i>> = <<d, k>>
      <4>1. x = d /\ i = k
        BY <3>1
      <4>2. y = y0 /\ s = c
        BY <4>1, <1>7
      <4> QED BY <3>1, <4>2, <1>1, <1>4 DEF Fresh
    <3>2. CASE <<x, i>> # <<d, k>>
      BY <3>2, <1>3 DEF TextSet
    <3> QED BY <3>1, <3>2
  <2>4. \A t \in AllChains : \A j, l : LevelAt(data', t, j, l) =>
          LevelAt(data, t, j, l) /\ ~ (t \in Chains /\ role[t] = "free" /\ role'[t] = "table")
    BY <1>3, <1>4 DEF TextSet
  <2>5. Grows(<<d, k>>, {d, d})
    BY <1>2, <2>2, <2>3, <2>4 DEF Grows, ContextReached
  <2>6. \A t : ~ EntryAt(data', d, k, "dir", t)
    BY <1>7
  <2> QED BY <2>1, <2>5, <2>6 DEF Extends
<1>9. ASSUME d \in Contents, \A y, s : s # NoChain => ~ EntryAt(data, d, k, y, s)
      PROVE  Lost' \subseteq Lost
  <2>2. FreedNow = {}
    BY <1>1, <1>4 DEF FreedNow
  <2>3. NewEntered
    BY <1>4, <1>6, <1>9, <2>2 DEF NewEntered
  <2>4. \A x \in Live : \A i, y, s : EntryAt(data, x, i, y, s) /\ s # NoChain => EntryAt(data', x, i, y, s)
    <3> SUFFICES ASSUME NEW x \in Live, NEW i, NEW y, NEW s, EntryAt(data, x, i, y, s), s # NoChain
                 PROVE  EntryAt(data', x, i, y, s)
      OBVIOUS
    <3>1. x \in AllChains /\ x # c
      BY <1>1, LiveFacts, SoundFacts
    <3>2. <<x, i>> # <<d, k>>
      <4>1. ASSUME <<x, i>> = <<d, k>> PROVE FALSE
        <5>1. x = d /\ i = k
          BY <4>1
        <5> QED BY <5>1, <1>9
      <4> QED BY <4>1
    <3> QED BY <3>1, <3>2, <1>3 DEF TextSet
  <2>5. \A t \in AllChains : \A j, l :
          (t = RootDir \/ role[t] = "table") /\ LevelAt(data, t, j, l) => LevelAt(data', t, j, l)
    BY <1>1, <1>3 DEF TextSet
  <2> QED BY <1>5, <1>8, <2>3, <2>4, <2>5, KeepingLosesNothing DEF Extends
<1> QED BY <1>5, <1>8, <1>9

LEMMA WriteStep ==
  ASSUME TypeOK, Sound, NEW d \in Paths, NEW n \in Names, Write(d, n)
  PROVE  TypeOK' /\ Extends /\ (~ Loses => Lost' \subseteq Lost)
<1> DEFINE i == Find(d, n, {"file"})
           j == FreeSlot(data[d].slots)
<1>1. d \in AllChains /\ d \in Live /\ data[d].kind = "dir" /\ DataOK(data)
  BY PathFacts
<1>2. CASE i # 0 /\ data' = [data EXCEPT ![data[d].slots[i].start] = Text] /\ role' = role /\ Stays
  <2>1. i \in DOMAIN data[d].slots /\ data[d].slots[i] \in Entry /\ data[d].slots[i].type = "file"
    BY <1>1, <1>2, FoundEntry
  <2> DEFINE c == data[d].slots[i].start
  <2>2. data' = With(data, c, Text)
    BY <1>2 DEF With
  <2> HIDE DEF i
  <2>3. EntryAt(data, d, i, "file", c) /\ c \in Chains /\ c # NoChain
    <3>1. EntryAt(data, d, i, "file", c)
      BY <1>1, <2>1 DEF EntryAt
    <3> QED BY <3>1, <1>1, EntryAtTyped
  <2>4. role[c] = "file"
    BY <1>1, <2>3, SoundAt
  <2> HIDE DEF c
  <2> QED BY <1>2, <2>2, <2>3, <2>4, RewriteStep
<1>3. CASE j # 0 /\ (\E c \in Unused : /\ role' = [role EXCEPT ![c] = "file"]
                                       /\ data' = [data EXCEPT ![d].slots[j] = NewEntry("file", n, c),
                                                                ![c] = Text])
           /\ Stays
  <2>1. PICK c \in Unused : /\ role' = [role EXCEPT ![c] = "file"]
                            /\ data' = [data EXCEPT ![d].slots[j] = NewEntry("file", n, c), ![c] = Text]
    BY <1>3
  <2> DEFINE e == NewEntry("file", n, c)
             a == [data EXCEPT ![d].slots[j] = e]
  <2>2. e \in Entry /\ e.type = "file" /\ e.start = c /\ e.type # "free"
    BY NewEntryIs DEF Unused
  <2>3. j \in DOMAIN data[d].slots /\ data[d].slots[j].type = "free" /\ j # 0
    BY <1>1, <1>3, FreeSlotFound
  <2>4. data' = With(a, c, Text)
    BY <2>1 DEF With
  <2> HIDE DEF e, j
  <2>5. SlotSet(data, a, d, j, e)
    BY <1>1, <2>2, <2>3, SetSlot
  <2> HIDE DEF a
  <2>6. SlotGets(data, a, d, j, e) /\ DataOK(a)
    <3>1. DataOK(a)
      BY <2>5 DEF SlotSet
    <3> QED BY <1>1, <2>3, <2>5, <3>1, SlotSetAt
  <2>7. EntryAt(a, d, j, "file", c)
    BY <1>1, <2>2, <2>6 DEF SlotGets
  <2>8. \A y, s : ~ EntryAt(data, d, j, y, s)
    BY <2>3 DEF EntryAt
  <2>9. \A x \in AllChains : \A k, y, s : <<x, k>> # <<d, j>> /\ s # NoChain =>
          (EntryAt(a, x, k, y, s) <=> EntryAt(data, x, k, y, s))
    BY <2>6 DEF SlotGets
  <2>10. /\ \A x \in AllChains : a[x].kind = data[x].kind
         /\ \A x \in AllChains : \A k, l : LevelAt(a, x, k, l) <=> LevelAt(data, x, k, l)
    BY <2>6 DEF SlotGets
  <2>11. role' = [role EXCEPT ![c] = "file"] /\ Stays /\ "file" \in {"file", "symlink"}
    BY <1>3, <2>1
  <2> HIDE <1>3
  <2>12. /\ TypeOK' /\ Extends
         /\ d \in Contents /\ (\A y, s : s # NoChain => ~ EntryAt(data, d, j, y, s))
              => Lost' \subseteq Lost
    BY <2>4, <2>6, <2>7, <2>9, <2>10, <2>11, NewTextStep
  <2> QED BY <2>8, <2>12, NotLoses
<1> QED BY <1>2, <1>3 DEF Write, context, Stays

-----------------------------------------------------------------------------
(* symlink.                                                                *)

LEMMA FirstLinkIs ==
  ASSUME NEW dt, DataOK(dt), NEW d \in AllChains, dt[d].kind = "dir", NEW type, NEW n,
         FirstLink(dt[d].slots, type, n) # 0
  PROVE  LET i == FirstLink(dt[d].slots, type, n) IN
         /\ i \in DOMAIN dt[d].slots /\ dt[d].slots[i] \in Entry
         /\ dt[d].slots[i].type = type /\ dt[d].slots[i].name = n
<1> DEFINE s == dt[d].slots
           S == {j \in 1 .. Len(s) : s[j].type = type /\ s[j].name = n}
           i == FirstLink(s, type, n)
<1>1. Len(s) \in Nat /\ DOMAIN s = 1 .. Len(s) /\ \A j \in DOMAIN s : s[j] \in Entry
  BY ShapeOf
<1> HIDE DEF s
<1>2. IsFirst(i, S)
  BY <1>1, SelectLink
<1>3. i # 0
  BY DEF s
<1>4. i \in S
  BY <1>2, <1>3 DEF IsFirst
<1> HIDE DEF i
<1>5. i \in DOMAIN s /\ s[i] \in Entry /\ s[i].type = type /\ s[i].name = n
  BY <1>1, <1>4
<1> QED BY <1>5 DEF i, s

LEMMA SymlinkStep ==
  ASSUME TypeOK, Sound, NEW d \in Paths, NEW n \in Names, Symlink(d, n)
  PROVE  TypeOK' /\ Extends /\ (~ Loses => Lost' \subseteq Lost)
<1> DEFINE e == NewEntry("symlink", n, NoChain)
           dt == Put(data, d, e)
           i == FirstLink(dt[d].slots, "symlink", n)
<1>1. /\ FreeSlot(data[d].slots) # 0 \/ d = Root \/ Len(data[d].slots) < MaxSlots
      /\ Stays
      /\ \/ i = 0 /\ data' = data /\ role' = role
         \/ i # 0 /\ data' = [dt EXCEPT ![d].slots[i] = FreeEntry] /\ role' = role
         \/ i # 0 /\ \E c \in Unused : /\ role' = [role EXCEPT ![c] = "file"]
                                       /\ data' = [dt EXCEPT ![d].slots[i].start = c, ![c] = Text]
  BY DEF Symlink, Room, FirstLink, context, Stays
<1>2. /\ d \in AllChains /\ d \in Live /\ data[d].kind = "dir" /\ DataOK(data)
      /\ ContextTyped /\ ContextReached
      /\ d # Root => d \in Chains /\ role[d] = "dir"
  BY <1>1, PathFacts, StaysOK
<1>3. e \in Entry /\ e.type = "symlink" /\ e.start = NoChain /\ e.type # "free"
  BY NewEntryIs
<1> HIDE DEF e
<1>4. PICK k : Entered(data, dt, d, k, e)
  BY <1>1, <1>2, <1>3, PutEnters
<1> HIDE DEF dt
<1>5. SlotEnters(data, dt, d, k, e)
  BY <1>2, <1>3, <1>4, EnteredAt
<1>6. DataOK(dt) /\ dt[d].kind = "dir"
  BY <1>4 DEF Entered
<1>7. /\ \A x \in AllChains : dt[x].kind = data[x].kind
      /\ \A x \in AllChains : \A j, y, s : s # NoChain
               => (EntryAt(dt, x, j, y, s) <=> EntryAt(data, x, j, y, s))
      /\ \A x \in AllChains : \A j, l : LevelAt(dt, x, j, l) <=> LevelAt(data, x, j, l)
  BY <1>2, <1>3, <1>5 DEF SlotEnters
<1>8. i # 0 => /\ i \in DOMAIN dt[d].slots /\ dt[d].slots[i] \in Entry /\ dt[d].slots[i].type = "symlink"
  BY <1>2, <1>6, FirstLinkIs
<1>9. ASSUME ~ Loses, i # 0 PROVE \A y, s : ~ EntryAt(data, d, i, y, s)
  <2>1. Find(d, n, {"symlink"}) = 0
    BY <1>9 DEF Loses
  <2>2. i \in DOMAIN dt[d].slots /\ dt[d].slots[i].type = "symlink" /\ dt[d].slots[i].name = n
    BY <1>2, <1>6, <1>9, FirstLinkIs
  <2> HIDE DEF i
  <2>3. i = k \/ (i \in DOMAIN data[d].slots /\ dt[d].slots[i] = data[d].slots[i])
    BY <1>4, <2>2 DEF Entered
  <2>4. \A j \in DOMAIN data[d].slots : ~ (data[d].slots[j].type \in {"symlink"} /\ data[d].slots[j].name = n)
    BY <1>2, <2>1, NoneFound
  <2>5. i = k
    BY <2>2, <2>3, <2>4
  <2> QED BY <1>5, <1>9, <2>5 DEF SlotEnters
<1> HIDE DEF i
<1>10. CASE i = 0 /\ data' = data /\ role' = role
  BY <1>1, <1>2, <1>10, SameGraphStep
<1>11. CASE i # 0 /\ data' = [dt EXCEPT ![d].slots[i] = FreeEntry] /\ role' = role
  <2>1. SlotSet(dt, data', d, i, FreeEntry)
    BY <1>2, <1>6, <1>8, <1>11, SetSlot, FreeEntryIsEntry
  <2>2. SlotGets(dt, data', d, i, FreeEntry) /\ DataOK(data')
    <3>1. DataOK(data')
      BY <2>1 DEF SlotSet
    <3> QED BY <1>2, <1>6, <1>8, <1>11, <2>1, <3>1, SlotSetAt
  <2>3. /\ \A x \in AllChains : data'[x].kind = data[x].kind
        /\ \A x \in AllChains : \A j, y, s : s # NoChain => (EntryAt(data', x, j, y, s) <=>
             EntryAt(data, x, j, y, s) /\ ~ (x = d /\ j = i))
        /\ \A x \in AllChains : \A j, l : LevelAt(data', x, j, l) <=> LevelAt(data, x, j, l)
    BY <1>2, <1>7, <2>2, FreeEntryIsEntry DEF SlotGets
  <2>4. TypeOK'
    <3>1. TypeOKIs'
      BY TypeOKIs, PTL
    <3>2. \A x \in Chains : role'[x] = "table" => data'[x].kind = "table"
      BY <1>11, <2>3, TypeOKIs DEF AllChains
    <3> QED BY <1>2, <1>11, <2>2, <3>1, <3>2, TypeOKIs DEF ContextTyped
  <2>5. Extends
    <3>1. RolesStay
      BY <1>11 DEF RolesStay
    <3>2. Grows(<<d, i>>, {d, d})
      BY <1>1, <1>2, <1>11, <2>3 DEF Grows, ContextReached
    <3>3. \A t : ~ EntryAt(data', d, i, "dir", t)
      BY <1>2, <2>2, FreeEntryIsEntry DEF SlotGets
    <3> QED BY <3>1, <3>2, <3>3 DEF Extends
  <2>6. ASSUME ~ Loses PROVE Lost' \subseteq Lost
    <3>1. NewEntered
      BY <1>11 DEF NewEntered
    <3>2. \A x \in Live : \A j, y, s : EntryAt(data, x, j, y, s) /\ s # NoChain => EntryAt(data', x, j, y, s)
      <4> SUFFICES ASSUME NEW x \in Live, NEW j, NEW y, NEW s, EntryAt(data, x, j, y, s), s # NoChain
                   PROVE  EntryAt(data', x, j, y, s)
        OBVIOUS
      <4>1. x \in AllChains /\ \A z, q : ~ EntryAt(data, d, i, z, q)
        BY <1>9, <1>11, <2>6, LiveFacts
      <4>2. ~ (x = d /\ j = i)
        BY <4>1
      <4> QED BY <2>3, <4>1, <4>2
    <3>3. \A t \in AllChains : \A j, l : LevelAt(data, t, j, l) => LevelAt(data', t, j, l)
      BY <2>3
    <3> QED BY <2>4, <2>5, <3>1, <3>2, <3>3, KeepingLosesNothing DEF Extends
  <2> QED BY <2>4, <2>5, <2>6
<1>12. CASE i # 0 /\ \E c \in Unused : /\ role' = [role EXCEPT ![c] = "file"]
                                       /\ data' = [dt EXCEPT ![d].slots[i].start = c, ![c] = Text]
  <2>1. PICK c \in Unused : /\ role' = [role EXCEPT ![c] = "file"]
                            /\ data' = [dt EXCEPT ![d].slots[i].start = c, ![c] = Text]
    BY <1>12
  <2>2. c \in Chains
    BY DEF Unused
  <2> DEFINE v == [dt[d].slots[i] EXCEPT !.start = c]
             a == [dt EXCEPT ![d].slots[i] = v]
  <2>3. v \in Entry /\ v.type = "symlink" /\ v.start = c
    <3> DEFINE w == dt[d].slots[i]
    <3>1. w \in Entry /\ w.type = "symlink"
      BY <1>8, <1>12
    <3> HIDE DEF w
    <3>2. LET x == [w EXCEPT !.start = c] IN x \in Entry /\ x.type = "symlink" /\ x.start = c
      BY <2>2, <3>1, EntryWith
    <3> QED BY <3>2 DEF w
  <2>4. data' = With(a, c, Text)
    BY <2>1 DEF With
  <2> HIDE DEF v
  <2>5. SlotSet(dt, a, d, i, v)
    BY <1>2, <1>6, <1>8, <1>12, <2>3, SetSlot
  <2> HIDE DEF a
  <2>6. SlotGets(dt, a, d, i, v) /\ DataOK(a)
    <3>1. DataOK(a)
      BY <2>5 DEF SlotSet
    <3> QED BY <1>2, <1>6, <1>8, <1>12, <2>5, <3>1, SlotSetAt
  <2>7. EntryAt(a, d, i, "symlink", c)
    BY <1>2, <2>3, <2>6 DEF SlotGets
  <2>8. \A x \in AllChains : \A j, y, s : <<x, j>> # <<d, i>> /\ s # NoChain =>
          (EntryAt(a, x, j, y, s) <=> EntryAt(data, x, j, y, s))
    BY <1>7, <2>6 DEF SlotGets
  <2>9. /\ \A x \in AllChains : a[x].kind = data[x].kind
        /\ \A x \in AllChains : \A j, l : LevelAt(a, x, j, l) <=> LevelAt(data, x, j, l)
    BY <1>7, <2>6 DEF SlotGets
  <2>10. role' = [role EXCEPT ![c] = "file"] /\ Stays /\ "symlink" \in {"file", "symlink"} /\ DataOK(a)
    BY <1>1, <2>1, <2>6
  <2>11. /\ TypeOK' /\ Extends
         /\ d \in Contents /\ (\A y, s : s # NoChain => ~ EntryAt(data, d, i, y, s))
              => Lost' \subseteq Lost
    BY <2>4, <2>7, <2>8, <2>9, <2>10, NewTextStep
  <2> QED BY <1>9, <1>12, <2>11, NotLoses
<1> QED BY <1>1, <1>10, <1>11, <1>12

-----------------------------------------------------------------------------
(* hardlink.                                                               *)

LEMMA SameRange ==
  ASSUME NEW a \in Nat, NEW b \in Nat, 1 .. a = 1 .. b
  PROVE  a = b
<1>1. ASSUME NEW x \in Nat, NEW y \in Nat, 1 .. x = 1 .. y, x < y PROVE FALSE
  <2>1. y \in 1 .. y
    BY <1>1
  <2>2. y \notin 1 .. x
    BY <1>1
  <2> QED BY <1>1, <2>1, <2>2
<1>2. ~ (a < b)
  BY <1>1
<1>3. ~ (b < a)
  BY <1>1
<1> QED BY <1>2, <1>3

\* A hard link that gets its target, and data in which one does.
Linked(x, c, a) == [x EXCEPT !.start = c, !.attributes = a]
LinkedIn(dt, e, j, c, a) == [dt EXCEPT ![e].slots[j].start = c, ![e].slots[j].attributes = a]

\* Setting two fields of a slot is setting the slot.
LEMMA TwoFields ==
  ASSUME NEW dt, NEW e \in DOMAIN dt, "slots" \in DOMAIN dt[e], NEW j \in DOMAIN dt[e].slots,
         NEW c, NEW a
  PROVE  LinkedIn(dt, e, j, c, a) = [dt EXCEPT ![e].slots[j] = Linked(dt[e].slots[j], c, a)]
<1> DEFINE D == dt[e]
           S == D.slots
           x1 == [S[j] EXCEPT !.start = c]
           x2 == [x1 EXCEPT !.attributes = a]
           S1 == [S EXCEPT ![j] = x1]
           S2 == [S EXCEPT ![j] = x2]
           D1 == [D EXCEPT !.slots = S1]
           D2 == [D EXCEPT !.slots = S2]
           b1 == [dt EXCEPT ![e] = D1]
<1>1. [dt EXCEPT ![e].slots[j].start = c, ![e].slots[j].attributes = a]
        = [b1 EXCEPT ![e].slots[j].attributes = a]
  OBVIOUS
<1>2. b1[e] = D1 /\ D1.slots = S1 /\ S1[j] = x1
  OBVIOUS
<1> HIDE DEF x1, x2
<1>3. [S1 EXCEPT ![j] = x2] = S2
  OBVIOUS
<1> HIDE DEF S1, S2, S
<1>4. [D1 EXCEPT !.slots = S2] = D2
  OBVIOUS
<1> HIDE DEF D1, D2
<1>5. [b1 EXCEPT ![e] = D2] = [dt EXCEPT ![e] = D2]
  OBVIOUS
<1> HIDE DEF b1, D
<1>6. [b1 EXCEPT ![e].slots[j].attributes = a] = [b1 EXCEPT ![e] = D2]
  <2>1. [b1 EXCEPT ![e].slots[j].attributes = a]
          = [b1 EXCEPT ![e] = [b1[e] EXCEPT !.slots = [b1[e].slots EXCEPT ![j] =
                                 [b1[e].slots[j] EXCEPT !.attributes = a]]]]
    OBVIOUS
  <2>2. [b1[e].slots[j] EXCEPT !.attributes = a] = x2
    BY <1>2 DEF x2
  <2>3. [b1[e].slots EXCEPT ![j] = x2] = S2
    BY <1>2, <1>3
  <2> QED BY <1>2, <1>4, <2>1, <2>2, <2>3
<1>7. [dt EXCEPT ![e].slots[j] = x2] = [dt EXCEPT ![e] = D2]
  BY DEF D2, S2, S, D
<1>8. x2 = [dt[e].slots[j] EXCEPT !.start = c, !.attributes = a]
  BY DEF x2, x1, S, D
<1> QED BY <1>1, <1>5, <1>6, <1>7, <1>8 DEF LinkedIn, Linked

LEMMA LinkWith ==
  ASSUME NEW e \in Entry, e.type = "hardlink", NEW c \in Chains, NEW k \in 0 .. MaxAttributes
  PROVE  /\ Linked(e, c, k) \in Entry /\ Linked(e, c, k).type = "hardlink"
         /\ Linked(e, c, k).start = c
<1>1. e.type = "hardlink" => \A d \in Chains : \A q \in 0 .. MaxAttributes :
        LET x == [e EXCEPT !.start = d, !.attributes = q] IN
        x \in Entry /\ x.type = "hardlink" /\ x.start = d
  BY EntryWith
<1> QED BY <1>1 DEF Linked

\* A slot that is set leaves the free slots as they are, if neither entry is free.
LEMMA SlotKeepsRoom ==
  ASSUME NEW dt, DataOK(dt), NEW d \in AllChains, dt[d].kind = "dir", NEW i \in DOMAIN dt[d].slots,
         dt[d].slots[i].type # "free", NEW v, v.type # "free", NEW r, SlotSet(dt, r, d, i, v),
         NEW e \in AllChains, dt[e].kind = "dir"
  PROVE  /\ r[e].kind = "dir"
         /\ FreeSlot(r[e].slots) = 0 <=> FreeSlot(dt[e].slots) = 0
         /\ Len(r[e].slots) = Len(dt[e].slots)
         /\ \A j \in DOMAIN r[e].slots : /\ j \in DOMAIN dt[e].slots
                                         /\ j # i \/ e # d => r[e].slots[j] = dt[e].slots[j]
<1> DEFINE s == dt[e].slots
           q == r[e].slots
           S == {j \in 1 .. Len(s) : s[j].type = "free"}
           T == {j \in 1 .. Len(q) : q[j].type = "free"}
<1>1. DataOK(r) /\ r[e].kind = "dir"
  BY DEF SlotSet
<1>2. Len(s) \in Nat /\ DOMAIN s = 1 .. Len(s)
  BY ShapeOf
<1>3. Len(q) \in Nat /\ DOMAIN q = 1 .. Len(q)
  BY <1>1, ShapeOf
<1>4. DOMAIN q = DOMAIN s /\ \A j \in DOMAIN q :
        /\ j # i \/ e # d => q[j] = s[j]
        /\ j = i /\ e = d => q[j].type # "free" /\ s[j].type # "free"
  BY DEF SlotSet
<1> HIDE DEF s, q
<1>5. Len(q) = Len(s)
  <2>1. 1 .. Len(q) = 1 .. Len(s)
    BY <1>2, <1>3, <1>4
  <2> QED BY <2>1, <1>2, <1>3, SameRange
<1>6. S = T
  <2>1. \A j \in DOMAIN s : q[j].type = "free" <=> s[j].type = "free"
    BY <1>4
  <2> QED BY <1>2, <1>5, <2>1
<1>7. IsFirst(FreeSlot(s), S) /\ IsFirst(FreeSlot(q), T)
  BY <1>2, <1>3, SelectFree
<1>8. FreeSlot(q) = 0 <=> FreeSlot(s) = 0
  BY <1>6, <1>7 DEF IsFirst
<1> QED BY <1>1, <1>4, <1>5, <1>8 DEF s, q

LEMMA HardlinkStep ==
  ASSUME TypeOK, Sound, NEW d \in Paths, NEW n \in Names, NEW e \in Paths, NEW m \in Names,
         Hardlink(d, n, e, m)
  PROVE  TypeOK' /\ Extends /\ (~ Loses => Lost' \subseteq Lost)
<1> DEFINE i == Find(d, n, {"file"})
           target == data[d].slots[i]
           v == [target EXCEPT !.attributes = @ + 1]
           b == [data EXCEPT ![d].slots[i] = v]
           f == NewEntry("hardlink", m, NoChain)
           dt == Put(b, e, f)
           j == FirstLink(dt[e].slots, "hardlink", m)
           c == target.start
           w == Linked(dt[e].slots[j], c, target.attributes)
<1>1. /\ i # 0 /\ target.attributes < MaxAttributes
      /\ FreeSlot(data[e].slots) # 0 \/ e = Root \/ Len(data[e].slots) < MaxSlots
      /\ data' = IF j = 0 THEN dt ELSE LinkedIn(dt, e, j, c, target.attributes)
      /\ role' = role /\ Stays
  <2>1. b = [data EXCEPT ![d].slots[i].attributes = @ + 1]
    OBVIOUS
  <2> QED BY <2>1 DEF Hardlink, Room, FirstLink, LinkedIn, context, Stays
<1>2. /\ d \in AllChains /\ d \in Live /\ data[d].kind = "dir" /\ DataOK(data)
      /\ e \in AllChains /\ e \in Live /\ data[e].kind = "dir"
      /\ ContextTyped /\ ContextReached
  BY <1>1, PathFacts, StaysOK
<1>3. i \in DOMAIN data[d].slots /\ target \in Entry /\ target.type = "file"
  <2>1. Find(d, n, {"file"}) # 0
    BY <1>1
  <2>2. i \in DOMAIN data[d].slots /\ data[d].slots[i] \in Entry /\ data[d].slots[i].type \in {"file"}
    BY <1>2, <2>1, FoundEntry
  <2> QED BY <2>2
<1>4. /\ v \in Entry /\ v.type = target.type /\ v.start = target.start
      /\ target.attributes \in 0 .. MaxAttributes /\ c \in Chains
  <2> HIDE DEF target
  <2>1. LET x == [target EXCEPT !.attributes = @ + 1] IN
        x \in Entry /\ x.type = target.type /\ x.start = target.start /\ x.name = target.name
    BY <1>1, <1>3, EntryWith
  <2> QED BY <1>3, <2>1, EntryWith
<1>5. role[c] = "file" /\ c # NoChain
  <2>1. EntryAt(data, d, i, "file", c)
    BY <1>2, <1>3 DEF EntryAt
  <2>2. c # NoChain
    BY <1>4, VolumeAssumption
  <2> QED BY <1>2, <2>1, <2>2, SoundAt
<1> HIDE DEF i, v, w
<1>7. SlotSet(data, b, d, i, v)
  BY <1>2, <1>3, <1>4, SetSlot
<1> HIDE DEF b
<1>8. DataOK(b) /\ v.type # "free" /\ data[d].slots[i].type # "free"
  BY <1>3, <1>4, <1>7 DEF SlotSet
<1>9. /\ \A x \in AllChains : b[x].kind = data[x].kind
      /\ \A x \in AllChains : \A k, y, s : EntryAt(b, x, k, y, s) <=> EntryAt(data, x, k, y, s)
      /\ \A x \in AllChains : \A k, l : LevelAt(b, x, k, l) <=> LevelAt(data, x, k, l)
  BY <1>2, <1>3, <1>4, <1>7, SameSlot
<1>10. /\ b[e].kind = "dir"
       /\ FreeSlot(b[e].slots) = 0 <=> FreeSlot(data[e].slots) = 0
       /\ Len(b[e].slots) = Len(data[e].slots)
       /\ \A q \in DOMAIN b[e].slots : /\ q \in DOMAIN data[e].slots
                                       /\ q # i \/ e # d => b[e].slots[q] = data[e].slots[q]
  BY <1>2, <1>3, <1>7, <1>8, SlotKeepsRoom
<1>11. f \in Entry /\ f.type = "hardlink" /\ f.start = NoChain /\ f.type # "free"
  BY NewEntryIs
<1> HIDE DEF f
<1>12. PICK k : Entered(b, dt, e, k, f)
  BY <1>1, <1>2, <1>8, <1>10, <1>11, PutEnters
<1> HIDE DEF dt
<1>13. SlotEnters(b, dt, e, k, f)
  BY <1>2, <1>10, <1>11, <1>12, EnteredAt
<1>14. DataOK(dt) /\ dt[e].kind = "dir"
  BY <1>12 DEF Entered
<1>15. /\ \A x \in AllChains : dt[x].kind = data[x].kind
       /\ \A x \in AllChains : \A q, y, s : s # NoChain
                => (EntryAt(dt, x, q, y, s) <=> EntryAt(data, x, q, y, s))
       /\ \A x \in AllChains : \A q, l : LevelAt(dt, x, q, l) <=> LevelAt(data, x, q, l)
  BY <1>2, <1>9, <1>11, <1>13 DEF SlotEnters
<1>16. CASE j = 0
  <2>1. data' = dt
    BY <1>1, <1>16
  <2> HIDE DEF j, c, target
  <2>2. ContextTyped /\ ContextReached /\ role' = role
    BY <1>1, <1>2
  <2>3. DataOK(data')
    BY <1>14, <2>1
  <2>4. /\ \A x \in AllChains : data'[x].kind = data[x].kind
        /\ \A x \in AllChains : \A q, y, s : s # NoChain
                 => (EntryAt(data', x, q, y, s) <=> EntryAt(data, x, q, y, s))
        /\ \A x \in AllChains : \A q, l : LevelAt(data', x, q, l) <=> LevelAt(data, x, q, l)
    BY <1>15, <2>1
  <2> QED BY <2>2, <2>3, <2>4, SameGraphStep
<1>17. CASE j # 0
  <2>1. j \in DOMAIN dt[e].slots /\ dt[e].slots[j] \in Entry /\ dt[e].slots[j].type = "hardlink"
        /\ dt[e].slots[j].name = m
    BY <1>2, <1>14, <1>17, FirstLinkIs
  <2>2. w \in Entry /\ w.type = "hardlink" /\ w.start = c
    <3> DEFINE u == dt[e].slots[j]
           a == target.attributes
    <3>1. u \in Entry /\ u.type = "hardlink"
      BY <2>1
    <3> HIDE DEF u, a, c, target, j
    <3>0. a \in 0 .. MaxAttributes /\ c \in Chains
      BY <1>4 DEF a
    <3>2. Linked(u, c, a) \in Entry /\ Linked(u, c, a).type = "hardlink" /\ Linked(u, c, a).start = c
      BY <3>0, <3>1, LinkWith
    <3> QED BY <3>2 DEF u, w, a
  <2> HIDE DEF c, target
  <2>10. data' = [dt EXCEPT ![e].slots[j] = w]
    <3> DEFINE a == target.attributes
    <3>1. data' = LinkedIn(dt, e, j, c, a)
      BY <1>1, <1>17
    <3>2. e \in DOMAIN dt /\ "slots" \in DOMAIN dt[e] /\ j \in DOMAIN dt[e].slots
      <4>1. dt[e] \in DirData /\ dt \in [AllChains -> Shapes]
        BY <1>2, <1>14, ShapeOf DEF DataOK
      <4> QED BY <1>2, <2>1, <4>1 DEF DirData
    <3> HIDE DEF a, j
    <3>3. data' = [dt EXCEPT ![e].slots[j] = Linked(dt[e].slots[j], c, a)]
      BY <3>1, <3>2, TwoFields
    <3> QED BY <3>3 DEF a, w
  <2>3. ASSUME ~ Loses PROVE \A y, s : ~ EntryAt(data, e, j, y, s)
    <3>1. Find(e, m, {"hardlink"}) = 0
      BY <2>3 DEF Loses
    <3>2. \A q \in DOMAIN data[e].slots :
            ~ (data[e].slots[q].type \in {"hardlink"} /\ data[e].slots[q].name = m)
      BY <1>2, <3>1, NoneFound
    <3>3. j = k \/ (j \in DOMAIN b[e].slots /\ dt[e].slots[j] = b[e].slots[j])
      BY <1>12, <2>1 DEF Entered
    <3>4. ASSUME j \in DOMAIN b[e].slots, dt[e].slots[j] = b[e].slots[j] PROVE FALSE
      <4>1. CASE j # i \/ e # d
        BY <4>1, <1>10, <2>1, <3>2, <3>4
      <4>2. CASE j = i /\ e = d
        <5>1. b[e].slots[j] = v
          BY <4>2, <3>4, <1>7 DEF SlotSet
        <5>2. v.type = "file"
          BY <1>3, <1>4 DEF target
        <5> QED BY <5>1, <5>2, <2>1, <3>4
      <4> QED BY <4>1, <4>2
    <3>5. \A y, s : ~ EntryAt(b, e, j, y, s)
      BY <1>13, <1>17, <3>3, <3>4 DEF SlotEnters
    <3> QED BY <1>2, <1>9, <3>5
  <2> HIDE DEF j
  <2>4. SlotSet(dt, data', e, j, w)
    BY <1>2, <1>14, <2>10, <2>1, <2>2, SetSlot
  <2>5. SlotGets(dt, data', e, j, w) /\ DataOK(data')
    <3>1. DataOK(data')
      BY <2>4 DEF SlotSet
    <3> QED BY <1>2, <1>14, <2>1, <2>4, <3>1, SlotSetAt
  <2>6. /\ \A x \in AllChains : data'[x].kind = data[x].kind
        /\ \A x \in AllChains : \A q, y, s : s # NoChain => (EntryAt(data', x, q, y, s) <=>
             IF x = e /\ q = j THEN y = "hardlink" /\ s = c ELSE EntryAt(data, x, q, y, s))
        /\ \A x \in AllChains : \A q, l : LevelAt(data', x, q, l) <=> LevelAt(data, x, q, l)
    BY <1>15, <2>2, <2>5 DEF SlotGets
  <2>7. TypeOK'
    <3>1. TypeOKIs'
      BY TypeOKIs, PTL
    <3>2. \A x \in Chains : role'[x] = "table" => data'[x].kind = "table"
      BY <1>1, <2>6, TypeOKIs DEF AllChains
    <3> QED BY <1>1, <1>2, <2>5, <3>1, <3>2, TypeOKIs DEF ContextTyped
  <2>8. Extends
    <3>1. RolesStay
      BY <1>1 DEF RolesStay
    <3>2. \A x \in AllChains : \A q, y, s : EntryAt(data', x, q, y, s) /\ s # NoChain =>
            EntryAt(data, x, q, y, s) \/ (<<x, q>> = <<e, j>> /\ Link(y, s))
      <4> SUFFICES ASSUME NEW x \in AllChains, NEW q, NEW y, NEW s, EntryAt(data', x, q, y, s), s # NoChain
                   PROVE  EntryAt(data, x, q, y, s) \/ (<<x, q>> = <<e, j>> /\ Link(y, s))
        OBVIOUS
      <4>1. CASE x = e /\ q = j
        <5>1. y = "hardlink" /\ s = c
          BY <4>1, <2>6
        <5> QED BY <4>1, <5>1, <1>1, <1>5 DEF Link
      <4>2. CASE ~ (x = e /\ q = j)
        BY <4>2, <2>6
      <4> QED BY <4>1, <4>2
    <3>3. \A t \in AllChains : \A q, l : LevelAt(data', t, q, l) =>
            LevelAt(data, t, q, l) /\ ~ (t \in Chains /\ role[t] = "free" /\ role'[t] = "table")
      BY <1>1, <2>6
    <3>4. Grows(<<e, j>>, {e, e})
      BY <1>1, <1>2, <2>6, <3>2, <3>3 DEF Grows, ContextReached
    <3>5. \A t : ~ EntryAt(data', e, j, "dir", t)
      BY <1>2, <2>2, <2>5 DEF SlotGets
    <3> QED BY <3>1, <3>4, <3>5 DEF Extends
  <2>9. ASSUME ~ Loses PROVE Lost' \subseteq Lost
    <3>1. NewEntered
      BY <1>1 DEF NewEntered
    <3>2. \A x \in Live : \A q, y, s : EntryAt(data, x, q, y, s) /\ s # NoChain => EntryAt(data', x, q, y, s)
      <4> SUFFICES ASSUME NEW x \in Live, NEW q, NEW y, NEW s, EntryAt(data, x, q, y, s), s # NoChain
                   PROVE  EntryAt(data', x, q, y, s)
        OBVIOUS
      <4>1. x \in AllChains /\ \A z, l : ~ EntryAt(data, e, j, z, l)
        BY <2>3, <2>9, LiveFacts
      <4>2. ~ (x = e /\ q = j)
        BY <4>1
      <4> QED BY <2>6, <4>1, <4>2
    <3>3. \A t \in AllChains : \A q, l : LevelAt(data, t, q, l) => LevelAt(data', t, q, l)
      BY <2>6
    <3> QED BY <2>7, <2>8, <3>1, <3>2, <3>3, KeepingLosesNothing DEF Extends
  <2> QED BY <2>7, <2>8, <2>9
<1> QED BY <1>16, <1>17

-----------------------------------------------------------------------------
(* move.                                                                   *)

\* An entry of type v.type and start v.start is moved from slot i of d to slot j of e; it is
\* gone if j is 0.
MovedTo(d, i, e, j, v) ==
  /\ EntryAt(data, d, i, v.type, v.start)
  /\ \A y, s : EntryAt(data, d, i, y, s) => y = v.type /\ s = v.start
  /\ \A x \in AllChains : data'[x].kind = data[x].kind
  /\ \A x \in AllChains : \A k, y, s : EntryAt(data', x, k, y, s) <=>
       IF x = e /\ k = j /\ j # 0 THEN y = v.type /\ s = v.start
       ELSE ~ (x = d /\ k = i) /\ EntryAt(data, x, k, y, s)
  /\ \A y, s : EntryAt(data, e, j, y, s) => e = d /\ j = i
  /\ \A x \in AllChains : \A k, c : LevelAt(data', x, k, c) <=> LevelAt(data, x, k, c)
  /\ \A y, s : j = 0 => ~ EntryAt(data', e, j, y, s)

LEMMA FreeSlotThere ==
  ASSUME NEW dt, DataOK(dt), NEW d \in AllChains, dt[d].kind = "dir",
         NEW i \in DOMAIN dt[d].slots, dt[d].slots[i].type = "free"
  PROVE  FreeSlot(dt[d].slots) # 0
<1>1. Len(dt[d].slots) \in Nat /\ DOMAIN dt[d].slots = 1 .. Len(dt[d].slots)
  BY ShapeOf
<1>2. IsFirst(FreeSlot(dt[d].slots), {k \in 1 .. Len(dt[d].slots) : dt[d].slots[k].type = "free"})
  BY <1>1, SelectFree
<1> QED BY <1>1, <1>2 DEF IsFirst

LEMMA MoveMoves ==
  ASSUME TypeOK, Sound, NEW d \in Paths, NEW n \in Names, NEW e \in Paths, NEW m \in Names,
         Move(d, n, e, m)
  PROVE  LET i == Find(d, n, AnyType)
             v == data[d].slots[i]
         IN  /\ i # 0 /\ DataOK(data') /\ role' = role /\ Stays
             /\ \E j : /\ MovedTo(d, i, e, j, v)
                       /\ FreeSlot(data[e].slots) # 0 => j # 0
<1> DEFINE i == Find(d, n, AnyType)
           v == data[d].slots[i]
           dt == [data EXCEPT ![d].slots[i] = FreeEntry]
           j == FreeSlot(dt[e].slots)
           w == Renamed(v, m)
<1>1. /\ i # 0 /\ role' = role /\ Stays
      /\ data' = IF j = 0 THEN dt ELSE [dt EXCEPT ![e].slots[j] = w]
  BY DEF Move, Renamed, context, Stays
<1>2. /\ d \in AllChains /\ d \in Live /\ data[d].kind = "dir" /\ DataOK(data)
      /\ e \in AllChains /\ e \in Live /\ data[e].kind = "dir"
  BY PathFacts
<1>3. i \in DOMAIN data[d].slots /\ v \in Entry /\ v.type # "free"
  <2>1. Find(d, n, AnyType) # 0
    BY <1>1
  <2>2. i \in DOMAIN data[d].slots /\ data[d].slots[i] \in Entry /\ data[d].slots[i].type \in AnyType
    BY <1>2, <2>1, FoundEntry
  <2> QED BY <2>2 DEF AnyType
<1> HIDE DEF i
<1>4. w \in Entry /\ w.type = v.type /\ w.start = v.start
  <2> HIDE DEF v
  <2> QED BY <1>3, RenamedIs
<1>5. EntryAt(data, d, i, v.type, v.start) /\ \A y, s : EntryAt(data, d, i, y, s) => y = v.type /\ s = v.start
  BY <1>2, <1>3 DEF EntryAt
<1> HIDE DEF v, w
<1>6. SlotSet(data, dt, d, i, FreeEntry)
  BY <1>2, <1>3, FreeEntryIsEntry, SetSlot
<1> HIDE DEF dt
<1>7. SlotGets(data, dt, d, i, FreeEntry) /\ DataOK(dt)
  <2>1. DataOK(dt)
    BY <1>6 DEF SlotSet
  <2> QED BY <2>1, <1>2, <1>3, <1>6, SlotSetAt
<1>8. /\ \A x \in AllChains : dt[x].kind = data[x].kind
      /\ \A x \in AllChains : \A k, y, s : EntryAt(dt, x, k, y, s)
               <=> ~ (x = d /\ k = i) /\ EntryAt(data, x, k, y, s)
      /\ \A x \in AllChains : \A k, c : LevelAt(dt, x, k, c) <=> LevelAt(data, x, k, c)
  BY <1>7, FreeEntryIsEntry DEF SlotGets
<1>9. FreeSlot(data[e].slots) # 0 => j # 0
  <2> SUFFICES ASSUME FreeSlot(data[e].slots) # 0 PROVE j # 0
    OBVIOUS
  <2> DEFINE k == FreeSlot(data[e].slots)
  <2>1. k \in DOMAIN data[e].slots /\ data[e].slots[k].type = "free"
    BY <1>2, FreeSlotFound
  <2> HIDE DEF k
  <2>2. k \in DOMAIN dt[e].slots /\ dt[e].slots[k].type = "free"
    BY <1>2, <1>6, <2>1, FreeEntryIsEntry DEF SlotSet
  <2> QED BY <1>2, <1>7, <1>8, <2>2, FreeSlotThere
<1>10. CASE j = 0
  <2>1. data' = dt
    BY <1>1, <1>10
  <2>2. 0 \notin DOMAIN dt[e].slots /\ 0 \notin DOMAIN data[e].slots
    BY <1>2, <1>7, <1>8, ShapeOf
  <2> HIDE DEF j
  <2>3. \A y, s : ~ EntryAt(dt, e, 0, y, s) /\ ~ EntryAt(data, e, 0, y, s)
    BY <2>2 DEF EntryAt
  <2>4. MovedTo(d, i, e, 0, v)
    BY <1>5, <1>8, <2>1, <2>3 DEF MovedTo
  <2> QED BY <1>1, <1>7, <1>9, <1>10, <2>1, <2>4 DEF i, v
<1>11. CASE j # 0
  <2>1. data' = [dt EXCEPT ![e].slots[j] = w]
    BY <1>1, <1>11
  <2>2. j \in DOMAIN dt[e].slots /\ dt[e].slots[j].type = "free" /\ dt[e].kind = "dir"
    BY <1>2, <1>7, <1>8, <1>11, FreeSlotFound
  <2> HIDE DEF j
  <2>3. SlotSet(dt, data', e, j, w)
    BY <1>2, <1>4, <1>7, <2>1, <2>2, SetSlot
  <2>4. SlotGets(dt, data', e, j, w) /\ DataOK(data')
    <3>1. DataOK(data')
      BY <2>3 DEF SlotSet
    <3> QED BY <3>1, <1>2, <2>2, <2>3, SlotSetAt
  <2>5. \A y, s : ~ EntryAt(dt, e, j, y, s)
    BY <2>2 DEF EntryAt
  <2>6. v.type # "free"
    BY <1>5 DEF EntryAt
  <2>7. \A y, s : EntryAt(data, e, j, y, s) => e = d /\ j = i
    BY <1>2, <1>8, <2>5
  <2>8. \A x \in AllChains : \A k, y, s : EntryAt(data', x, k, y, s) <=>
          IF x = e /\ k = j /\ j # 0 THEN y = v.type /\ s = v.start
          ELSE ~ (x = d /\ k = i) /\ EntryAt(data, x, k, y, s)
    BY <1>4, <1>8, <1>11, <2>4, <2>6 DEF SlotGets
  <2>9. MovedTo(d, i, e, j, v)
    BY <1>5, <1>8, <1>11, <2>4, <2>7, <2>8 DEF MovedTo, SlotGets
  <2> QED BY <1>1, <1>11, <2>4, <2>9 DEF i, v
<1> QED BY <1>10, <1>11

\* What the last lemma says of the data, in terms of the graph, and the types.
LEMMA MoveStep ==
  ASSUME TypeOK, Sound, NEW d \in Paths, NEW n \in Names, NEW e \in Paths, NEW m \in Names,
         Move(d, n, e, m)
  PROVE  LET i == Find(d, n, AnyType)
             v == data[d].slots[i]
         IN  /\ TypeOK' /\ RolesStay
             /\ \E j : /\ Grows(<<e, j>>, {e, e})
                       /\ \A t : EntryAt(data', e, j, "dir", t) =>
                            i # 0 /\ EntryAt(data, d, i, "dir", t) /\ t = v.start
             /\ ~ Loses => Lost' \subseteq Lost
<1> DEFINE i == Find(d, n, AnyType)
           v == data[d].slots[i]
<1>1. /\ i # 0 /\ DataOK(data') /\ role' = role /\ Stays
      /\ \E j : MovedTo(d, i, e, j, v) /\ (FreeSlot(data[e].slots) # 0 => j # 0)
  BY MoveMoves
<1>2. PICK j : MovedTo(d, i, e, j, v) /\ (FreeSlot(data[e].slots) # 0 => j # 0)
  BY <1>1
<1>3. d \in AllChains /\ d \in Live /\ e \in AllChains /\ e \in Live /\ ContextTyped /\ ContextReached
  BY <1>1, PathFacts, StaysOK
<1> HIDE DEF v
<1>4. TypeOK'
  <2>1. TypeOKIs'
    BY TypeOKIs, PTL
  <2>2. \A x \in Chains : role'[x] = "table" => data'[x].kind = "table"
    BY <1>1, <1>2, TypeOKIs DEF AllChains, MovedTo
  <2> QED BY <1>1, <1>3, <2>1, <2>2, TypeOKIs DEF ContextTyped
<1>5. RolesStay
  BY <1>1 DEF RolesStay
<1>6. \A t : EntryAt(data', e, j, "dir", t) => EntryAt(data, d, i, "dir", t) /\ t = v.start
  BY <1>2, <1>3 DEF MovedTo
<1>7. Grows(<<e, j>>, {e, e})
  <2>1. Moved(<<e, j>>, v.type, v.start)
    <3>1. \A z, q : EntryAt(data', d, i, z, q) => <<d, i>> = <<e, j>>
      BY <1>2, <1>3 DEF MovedTo
    <3>2. EntryAt(data, d, i, v.type, v.start)
      BY <1>2 DEF MovedTo
    <3> QED BY <1>3, <3>1, <3>2 DEF Moved
  <2>2. \A x \in AllChains : \A k, y, s : EntryAt(data', x, k, y, s) =>
          EntryAt(data, x, k, y, s) \/ (<<x, k>> = <<e, j>> /\ Moved(<<e, j>>, y, s))
    <3> SUFFICES ASSUME NEW x \in AllChains, NEW k, NEW y, NEW s, EntryAt(data', x, k, y, s)
                 PROVE  EntryAt(data, x, k, y, s) \/ (<<x, k>> = <<e, j>> /\ Moved(<<e, j>>, y, s))
      OBVIOUS
    <3>1. CASE x = e /\ k = j /\ j # 0
      <4>1. y = v.type /\ s = v.start
        BY <1>2, <3>1 DEF MovedTo
      <4> QED BY <2>1, <3>1, <4>1
    <3>2. CASE ~ (x = e /\ k = j /\ j # 0)
      BY <1>2, <3>2 DEF MovedTo
    <3> QED BY <3>1, <3>2
  <2>3. \A t \in AllChains : \A k, c : LevelAt(data', t, k, c) =>
          LevelAt(data, t, k, c) /\ ~ (t \in Chains /\ role[t] = "free" /\ role'[t] = "table")
    BY <1>1, <1>2 DEF MovedTo
  <2>4. \A x \in AllChains : data[x].kind = "dir" => data'[x].kind = "dir"
    BY <1>2 DEF MovedTo
  <2> QED BY <1>1, <1>3, <2>2, <2>3, <2>4 DEF Grows, ContextReached
<1>8. ASSUME ~ Loses PROVE Lost' \subseteq Lost
  <2>1. FreeSlot(data[e].slots) # 0 /\ e \in Contents'
    BY <1>8 DEF Loses
  <2>2. j # 0
    BY <1>2, <2>1
  <2>3. FreedNow = {}
    BY <1>1 DEF FreedNow
  <2>4. EmptyFreed
    BY <2>3 DEF EmptyFreed
  <2>5. NewEntered
    BY <1>1 DEF NewEntered
  <2>6. EntriesKept
    <3> SUFFICES ASSUME NEW x \in Contents, NEW k, NEW y, NEW s, EntryAt(data, x, k, y, s)
                 PROVE  \E f : (f = x \/ f \in Contents') /\ \E q : EntryAt(data', f, q, y, s)
      BY DEF EntriesKept
    <3>1. x \in AllChains
      BY ContentsFacts
    <3>2. CASE x = d /\ k = i
      <4>1. y = v.type /\ s = v.start
        BY <1>2, <3>2 DEF MovedTo
      <4>2. EntryAt(data', e, j, y, s)
        BY <1>2, <1>3, <2>2, <4>1 DEF MovedTo
      <4> QED BY <2>1, <4>2
    <3>3. CASE ~ (x = d /\ k = i)
      <4>1. ~ (x = e /\ k = j)
        BY <1>2, <3>3 DEF MovedTo
      <4>2. EntryAt(data', x, k, y, s)
        BY <1>2, <3>1, <3>3, <4>1 DEF MovedTo
      <4> QED BY <4>2
    <3> QED BY <3>2, <3>3
  <2>7. LevelsKept
    <3>0. \A q, c : LevelAt(data, RootDir, q, c) => LevelAt(data', RootDir, q, c)
      BY <1>2 DEF MovedTo, AllChains
    <3> SUFFICES ASSUME NEW x \in Contents, NEW k, NEW t, NEW q, NEW c,
                        EntryAt(data, x, k, "dir", t), LevelAt(data, t, q, c)
                 PROVE  \E z : LevelAt(data', t, z, c)
      BY <2>3, <3>0 DEF LevelsKept
    <3>1. x \in AllChains
      BY ContentsFacts
    <3>2. t \in AllChains
      BY <3>1, EntryAtTyped DEF AllChains
    <3> QED BY <1>2, <3>2 DEF MovedTo
  <2> QED BY <1>4, <2>4, <2>5, <2>6, <2>7, NothingLost
<1> QED BY <1>1, <1>4, <1>5, <1>6, <1>7, <1>8 DEF v

-----------------------------------------------------------------------------
(* Levels.                                                                 *)

LEMMA FolderIs ==
  ASSUME TypeOK, Sound, NEW d \in Live, NEW t, NEW i, NEW n,
         i = Find(d, n, {"dir"}), i # 0, t = data[d].slots[i].start
  PROVE  /\ t \in Chains /\ t \in AllChains /\ role[t] = "table" /\ data[t].kind = "table"
         /\ t # NoChain /\ t \notin {Root, RootDir} /\ t \in TablesOf(Live)
         /\ EntryAt(data, d, i, "dir", t) /\ LevelsOf(t) \subseteq Live
<1>1. d \in AllChains /\ d \in Live /\ data[d].kind = "dir" /\ DataOK(data)
  BY LiveFacts, SoundFacts, TypeOKIs
<1>2. i \in DOMAIN data[d].slots /\ data[d].slots[i].type = "dir"
  <2>1. Find(d, n, {"dir"}) # 0
    OBVIOUS
  <2>2. i \in DOMAIN data[d].slots /\ data[d].slots[i].type \in {"dir"}
    BY <1>1, <2>1, FoundEntry
  <2> QED BY <2>2
<1>3. EntryAt(data, d, i, "dir", t)
  BY <1>1, <1>2 DEF EntryAt
<1>4. t \in Chains /\ t # NoChain
  BY <1>1, <1>3, EntryAtTyped
<1>5. role[t] = "table"
  BY <1>1, <1>3, <1>4, SoundAt
<1>6. data[t].kind = "table" /\ t \in AllChains /\ t \notin {Root, RootDir}
  BY <1>4, <1>5, TypeOKIs, VolumeAssumption DEF AllChains
<1>9. t \in TablesOf(Live)
  BY <1>3, FoldersAt, LiveFacts DEF TablesOf
<1>7. LevelsOf(t) \subseteq Below(d)
  BY <1>1, <1>3, <1>6, LevelsOfAt, BelowAt
<1>8. Below(d) \subseteq Live
  BY <1>1, LiveFacts
<1> QED BY <1>3, <1>4, <1>5, <1>6, <1>7, <1>8, <1>9

\* A folder of the current directory by its name, or its own table.
LEMMA FolderFound ==
  ASSUME TypeOK, Sound, NEW n, NEW t, t = Folder(n), t # NoChain
  PROVE  /\ t \in AllChains /\ data[t].kind = "table" /\ t # Root
         /\ t = RootDir \/ (t \in Chains /\ role[t] = "table")
         /\ t \in TablesOf(Live) /\ LevelsOf(t) \subseteq Live
<1> DEFINE i == Find(cwd, n, {"dir"})
<1>1. CASE t = dir
  <2>1. dir \in Chains \cup {RootDir} /\ data[RootDir].kind = "table"
    BY TypeOKIs DEF DataOK
  <2>2. t = RootDir \/ (t \in Chains /\ role[t] = "table" /\ data[t].kind = "table")
    BY <1>1, <2>1, SoundFacts, TypeOKIs
  <2> QED BY <1>1, <2>1, <2>2, LiveFacts, VolumeAssumption DEF AllChains, TablesOf
<1>2. CASE t # dir
  <2>1. i # 0 /\ t = data[cwd].slots[i].start
    BY <1>2 DEF Folder
  <2> HIDE DEF i
  <2>2. i = Find(cwd, n, {"dir"})
    BY DEF i
  <2>3. cwd \in Live
    BY LiveFacts
  <2> QED BY <2>1, <2>2, <2>3, FolderIs
<1> QED BY <1>1, <1>2

LEMMA FoundLevel ==
  ASSUME TypeOK, NEW t \in AllChains, data[t].kind = "table", NEW l, NEW j, j = FindLevel(t, l), j # 0
  PROVE  /\ j \in 1 .. LevelSlots /\ data[t].slots[j] \in Level /\ data[t].slots[j].name = l
         /\ l = NoName => \A c : ~ LevelAt(data, t, j, c)
         /\ l \in LevelNames => /\ data[t].slots[j].content \in Chains \cup {Root}
                                /\ LevelAt(data, t, j, data[t].slots[j].content)
                                /\ data[t].slots[j].content \in LevelsOf(t)
<1>1. DataOK(data)
  BY TypeOKIs
<1>2. Len(data[t].slots) = LevelSlots /\ LevelSlots \in Nat
         /\ \A k \in 1 .. LevelSlots : data[t].slots[k] \in Level
  BY <1>1, ShapeOf, Sizes
<1>3. IsFirst(FindLevel(t, l), {k \in 1 .. Len(data[t].slots) : data[t].slots[k].name = l})
  BY <1>2, SelectLevel
<1>4. j \in 1 .. LevelSlots /\ data[t].slots[j] \in Level /\ data[t].slots[j].name = l
  BY <1>2, <1>3 DEF IsFirst
<1> DEFINE v == data[t].slots[j]
<1>5. /\ v.name \in LevelNames => v.content \in Chains \cup {Root}
      /\ v.content = NoChain <=> v = FreeLevel
      /\ v.name = NoName <=> v = FreeLevel
  <2> HIDE DEF v
  <2>1. v \in Level
    BY <1>4 DEF v
  <2> QED BY <2>1, LevelShape
<1>6. l = NoName => v.content = NoChain
  BY <1>4, <1>5
<1>7. l = NoName => \A c : ~ LevelAt(data, t, j, c)
  BY <1>6 DEF LevelAt
<1>8. l \in LevelNames => v.content \in Chains \cup {Root} /\ LevelAt(data, t, j, v.content)
  <2> SUFFICES ASSUME l \in LevelNames PROVE v.content \in Chains \cup {Root} /\ LevelAt(data, t, j, v.content)
    OBVIOUS
  <2>1. v.content \in Chains \cup {Root}
    BY <1>4, <1>5
  <2>2. v.content # NoChain
    BY <2>1, VolumeAssumption
  <2> QED BY <1>4, <2>1, <2>2 DEF LevelAt
<1>9. l \in LevelNames => v.content \in LevelsOf(t)
  BY <1>8, LevelsOfAt
<1> QED BY <1>4, <1>7, <1>8, <1>9

\* A command that allocates a content and makes it the content of the levels a and b.
LEMMA NewLevelStep ==
  ASSUME TypeOK, Sound, NEW c \in Chains, role[c] = "free", role' = [role EXCEPT ![c] = "dir"],
         ContextTyped, DataOK(data'), NEW R,
         \A x \in AllChains \ {c} : data'[x].kind = data[x].kind,
         \A x \in AllChains \ {c} : \A i, y, s : EntryAt(data', x, i, y, s) <=> EntryAt(data, x, i, y, s),
         \A x \in AllChains \ {c} : \A j, l : LevelAt(data', x, j, l) <=>
           IF <<x, j>> \in R THEN l = c ELSE LevelAt(data, x, j, l),
         \A x \in AllChains \ {c} : \A j, l : <<x, j>> \in R => ~ LevelAt(data, x, j, l)
  PROVE  /\ TypeOK'
         /\ (\A a, b : R \subseteq {a, b} /\ data'[c] = EmptyDir /\ ContextReached => Extends)
         /\ c \in LevelsOf(RootDir)' \/ (\E d \in Contents : c \in Below(d)') => Lost' \subseteq Lost
<1>1. /\ c \in AllChains /\ c \notin {Root, RootDir, NoChain}
      /\ role \in [Chains -> {"free", "file", "dir", "table"}]
      /\ \A x \in Chains : role[x] = "table" => data[x].kind = "table"
  BY TypeOKIs, VolumeAssumption DEF AllChains
<1>2. /\ role' \in [Chains -> {"free", "file", "dir", "table"}] /\ role'[c] = "dir"
      /\ \A x \in Chains : x # c => role'[x] = role[x]
  BY <1>1
<1>3. RolesStay /\ FreedNow = {}
  BY <1>2 DEF RolesStay, FreedNow
<1>4. TypeOK'
  <2>1. TypeOKIs'
    BY TypeOKIs, PTL
  <2>2. \A x \in Chains : role'[x] = "table" => data'[x].kind = "table"
    BY <1>1, <1>2 DEF AllChains
  <2> QED BY <1>2, <2>1, <2>2 DEF ContextTyped
<1>5. ASSUME NEW a, NEW b, R \subseteq {a, b}, data'[c] = EmptyDir, ContextReached PROVE Extends
  <2>1. c \in NewContents
    BY <1>2, <1>5 DEF NewContents
  <2>2. (\A i, y, s : ~ EntryAt(data', c, i, y, s)) /\ (\A j, l : ~ LevelAt(data', c, j, l))
    BY <1>5, EmptyDirIs
  <2>3. \A x \in AllChains : \A i, y, s : EntryAt(data', x, i, y, s) => EntryAt(data, x, i, y, s)
    BY <2>2
  <2>4. \A x \in AllChains : \A j, l : LevelAt(data', x, j, l) =>
          \/ <<x, j>> \in {a, b} /\ l \in NewContents
          \/ LevelAt(data, x, j, l) /\ ~ (x \in Chains /\ role[x] = "free" /\ role'[x] = "table")
    <3> SUFFICES ASSUME NEW x \in AllChains, NEW j, NEW l, LevelAt(data', x, j, l)
                 PROVE  \/ <<x, j>> \in {a, b} /\ l \in NewContents
                        \/ LevelAt(data, x, j, l) /\ ~ (x \in Chains /\ role[x] = "free" /\ role'[x] = "table")
      OBVIOUS
    <3>1. x # c
      BY <2>2
    <3>2. CASE <<x, j>> \in R
      BY <1>5, <2>1, <3>1, <3>2
    <3>3. CASE <<x, j>> \notin R
      BY <1>2, <3>1, <3>3
    <3> QED BY <3>2, <3>3
  <2>5. \A d \in AllChains : (d = Root \/ role[d] = "dir") /\ data[d].kind = "dir" => data'[d].kind = "dir"
    BY <1>1
  <2>6. Grows(<<Root, 0>>, {a, b})
    BY <1>1, <1>5, <2>3, <2>4, <2>5 DEF Grows, ContextReached
  <2>7. \A t : EntryAt(data', Root, 0, "dir", t) => EntryAt(data, Root, 0, "dir", t)
    BY <2>3 DEF AllChains
  <2> QED BY <1>3, <2>6, <2>7 DEF Extends
<1>6. ASSUME c \in LevelsOf(RootDir)' \/ \E d \in Contents : c \in Below(d)' PROVE Lost' \subseteq Lost
  <2>1. NewEntered
    BY <1>2, <1>3, <1>6 DEF NewEntered
  <2>2. \A x \in Live : \A i, y, s : EntryAt(data, x, i, y, s) /\ s # NoChain => EntryAt(data', x, i, y, s)
    <3> SUFFICES ASSUME NEW x \in Live, NEW i, NEW y, NEW s, EntryAt(data, x, i, y, s)
                 PROVE  EntryAt(data', x, i, y, s)
      OBVIOUS
    <3>1. x \in AllChains /\ (x = Root \/ role[x] = "dir")
      BY LiveFacts, SoundFacts
    <3> QED BY <1>1, <3>1
  <2>3. \A t \in AllChains : \A j, l :
          (t = RootDir \/ role[t] = "table") /\ LevelAt(data, t, j, l) => LevelAt(data', t, j, l)
    <3> SUFFICES ASSUME NEW t \in AllChains, NEW j, NEW l, t = RootDir \/ role[t] = "table",
                        LevelAt(data, t, j, l)
                 PROVE  LevelAt(data', t, j, l)
      OBVIOUS
    <3>1. t # c
      BY <1>1
    <3>2. <<t, j>> \notin R
      BY <3>1
    <3> QED BY <3>1, <3>2
  <2> QED BY <1>3, <1>4, <2>1, <2>2, <2>3, KeepingLosesNothing
<1> QED BY <1>4, <1>5, <1>6

\* The content of a level of a folder is below the content that has the folder.
LEMMA LevelBelow ==
  ASSUME TypeOK', NEW d \in AllChains, NEW i, NEW t, NEW j, NEW c,
         EntryAt(data', d, i, "dir", t), LevelAt(data', t, j, c)
  PROVE  c \in Below(d)'
<1>1. BelowAt'
  BY BelowAt, PTL
<1> QED BY <1>1

LEMMA NewLevelTyped ==
  ASSUME NEW l \in LevelNames, NEW c \in Chains \cup {Root}
  PROVE  [name |-> l, content |-> c] \in Level /\ c # NoChain
  BY VolumeAssumption DEF Level

\* A level of a folder below the root, or of the root.
LEMMA LevelEntered ==
  ASSUME TypeOK, TypeOK', NEW t \in Folders, NEW j, NEW c, LevelAt(data', t, j, c),
         \A x \in Contents : \A i, y, s : EntryAt(data, x, i, y, s) => EntryAt(data', x, i, y, s)
  PROVE  c \in LevelsOf(RootDir)' \/ \E d \in Contents : c \in Below(d)'
<1>1. CASE t = RootDir
  <2>1. LevelsOfAt'
    BY LevelsOfAt, PTL
  <2>2. RootDir \in AllChains
    BY DEF AllChains
  <2> QED BY <1>1, <2>1, <2>2
<1>2. CASE t \in FoldersOf(Contents)
  <2>1. Contents \in SUBSET AllChains
    BY ContentsFacts
  <2>2. PICK d \in Contents : \E i : EntryAt(data, d, i, "dir", t)
    BY <1>2, <2>1, FoldersAt
  <2>3. d \in AllChains /\ \E i : EntryAt(data', d, i, "dir", t)
    BY <2>1, <2>2
  <2>4. c \in Below(d)'
    BY <2>3, LevelBelow
  <2> QED BY <2>4
<1> QED BY <1>1, <1>2 DEF Folders

\* What a new content leaves below the root.
LEMMA OldNotNew ==
  ASSUME TypeOK, Sound, NEW c \in Chains, role[c] = "free"
  PROVE  \A x \in Contents : x \in AllChains /\ x # c
  BY ContentsLive, LiveFacts, SoundFacts, VolumeAssumption

LEMMA AddLevelStep ==
  ASSUME TypeOK, Sound, NEW n \in Names \cup {Dot}, NEW l \in LevelNames, AddLevel(n, l)
  PROVE  TypeOK' /\ (Extends \/ OldContent) /\ (~ Loses => Lost' \subseteq Lost)
<1> DEFINE t == Folder(n)
           j == FindLevel(t, NoName)
<1>1. t # NoChain /\ j # 0 /\ Stays
  BY DEF AddLevel, context, Stays
<1>0. ~ Loses => t \in Folders
  BY DEF Loses
<1>2. PICK c \in Unused : /\ role' = [role EXCEPT ![c] = "dir"]
                          /\ data' = [data EXCEPT ![t].slots[j] = [name |-> l, content |-> c]]
  BY DEF AddLevel
<1>3. c \in Chains /\ role[c] = "free"
  BY DEF Unused
<1> DEFINE v == [name |-> l, content |-> c]
<1>4. v \in Level /\ c # NoChain /\ v.content = c
  BY <1>3, NewLevelTyped
<1> HIDE DEF v, t
<1>5. /\ t \in AllChains /\ data[t].kind = "table" /\ t # c
  BY <1>1, <1>3, FolderFound, VolumeAssumption DEF t
<1> HIDE DEF j
<1>6. j \in 1 .. LevelSlots /\ \A x : ~ LevelAt(data, t, j, x)
  BY <1>1, <1>5, FoundLevel DEF j
<1>7. DataOK(data') /\ LevelGets(data, data', t, j, v)
  <2>1. DataOK(data) /\ data' = [data EXCEPT ![t].slots[j] = v]
    BY <1>2, TypeOKIs DEF v
  <2> QED BY <1>4, <1>5, <1>6, <2>1, SetLevel
<1>8. /\ \A x \in AllChains : data'[x].kind = data[x].kind
      /\ \A x \in AllChains : \A i, y, s : EntryAt(data', x, i, y, s) <=> EntryAt(data, x, i, y, s)
      /\ \A x \in AllChains : \A k, z : LevelAt(data', x, k, z) <=>
           IF <<x, k>> \in {<<t, j>>, <<t, j>>} THEN z = c ELSE LevelAt(data, x, k, z)
      /\ \A x \in AllChains : \A k, z : <<x, k>> \in {<<t, j>>, <<t, j>>} => ~ LevelAt(data, x, k, z)
  BY <1>4, <1>6, <1>7 DEF LevelGets
<1> DEFINE R == {<<t, j>>, <<t, j>>}
<1>9. /\ TypeOK' /\ (\A a, b : R \subseteq {a, b} /\ data'[c] = EmptyDir /\ ContextReached => Extends)
      /\ c \in LevelsOf(RootDir)' \/ (\E d \in Contents : c \in Below(d)') => Lost' \subseteq Lost
  <2>1. /\ \A x \in AllChains \ {c} : data'[x].kind = data[x].kind
        /\ \A x \in AllChains \ {c} : \A i, y, s : EntryAt(data', x, i, y, s) <=> EntryAt(data, x, i, y, s)
        /\ \A x \in AllChains \ {c} : \A k, z : LevelAt(data', x, k, z) <=>
             IF <<x, k>> \in R THEN z = c ELSE LevelAt(data, x, k, z)
        /\ \A x \in AllChains \ {c} : \A k, z : <<x, k>> \in R => ~ LevelAt(data, x, k, z)
    BY <1>8
  <2> HIDE DEF R
  <2>2. role' = [role EXCEPT ![c] = "dir"] /\ ContextTyped /\ DataOK(data')
    BY <1>1, <1>2, <1>7, StaysOK
  <2> QED BY <1>3, <2>1, <2>2, NewLevelStep
<1>10. Extends \/ OldContent
  <2>1. CASE data'[c] = EmptyDir
    BY <1>1, <1>9, <2>1, StaysOK
  <2>2. CASE data'[c] # EmptyDir
    <3>1. role'[c] = "dir"
      BY <1>2, <1>3, TypeOKIs
    <3> QED BY <1>3, <2>2, <3>1 DEF OldContent
  <2> QED BY <2>1, <2>2
<1>11. ASSUME ~ Loses PROVE Lost' \subseteq Lost
  <2>1. t \in Folders /\ LevelAt(data', t, j, c)
    BY <1>0, <1>5, <1>8, <1>11
  <2>2. \A x \in Contents : \A i, y, s : EntryAt(data, x, i, y, s) => EntryAt(data', x, i, y, s)
    BY <1>8, ContentsFacts
  <2>3. c \in LevelsOf(RootDir)' \/ \E d \in Contents : c \in Below(d)'
    BY <1>9, <2>1, <2>2, LevelEntered
  <2> QED BY <1>9, <2>3
<1> QED BY <1>9, <1>10, <1>11

-----------------------------------------------------------------------------
(* branch and link.                                                        *)

LEMMA BranchLevelStep ==
  ASSUME TypeOK, Sound, NEW n \in Names \cup {Dot}, NEW l \in LevelNames, NEW m \in LevelNames, BranchLevel(n, l, m)
  PROVE  TypeOK' /\ Extends /\ (~ Loses => Lost' \subseteq Lost)
<1> DEFINE t == Folder(n)
           j == FindLevel(t, NoName)
<1>1. t # NoChain /\ Stays /\ ContextTyped /\ ContextReached
  BY StaysOK DEF BranchLevel, context, Stays
<1>0. ~ Loses => t \in Folders
  BY DEF Loses
<1>2. PICK c \in Unused :
        LET dt == [data EXCEPT ![c] = EmptyDir] IN
        /\ role' = [role EXCEPT ![c] = "dir"]
        /\ data' = IF j = 0 THEN dt ELSE [dt EXCEPT ![t].slots[j] = [name |-> m, content |-> c]]
  BY DEF BranchLevel
<1>3. c \in Chains /\ role[c] = "free" /\ c \in AllChains /\ DataOK(data)
  BY TypeOKIs DEF Unused, AllChains
<1> DEFINE v == [name |-> m, content |-> c]
           dt == With(data, c, EmptyDir)
<1>4. v \in Level /\ c # NoChain /\ v.content = c
  BY <1>3, NewLevelTyped
<1>5. data' = IF j = 0 THEN dt ELSE [dt EXCEPT ![t].slots[j] = v]
  BY <1>2 DEF With
<1>6. DataOK(dt) /\ dt[c] = EmptyDir /\ \A x \in AllChains \ {c} : dt[x] = data[x]
  BY <1>3, EmptyDirIs, WithIs, VolumeAssumption
<1>7. j = 0 => ~ ~ Loses
  BY DEF Loses
<1> HIDE DEF v, t, dt
<1>8. t \in AllChains /\ data[t].kind = "table" /\ t # c
  BY <1>1, <1>3, FolderFound, VolumeAssumption DEF t
<1> HIDE DEF j
<1>9. t # c
  BY <1>8
<1>10. /\ \A x \in AllChains \ {c} : dt[x].kind = data[x].kind
       /\ \A x \in AllChains \ {c} : \A i, y, s : EntryAt(dt, x, i, y, s) <=> EntryAt(data, x, i, y, s)
       /\ \A x \in AllChains \ {c} : \A k, z : LevelAt(dt, x, k, z) <=> LevelAt(data, x, k, z)
  BY <1>6 DEF EntryAt, LevelAt
<1>11. CASE j = 0
  <2>1. data' = dt
    BY <1>5, <1>11
  <2> DEFINE R == {}
  <2>2. /\ \A x \in AllChains \ {c} : data'[x].kind = data[x].kind
        /\ \A x \in AllChains \ {c} : \A i, y, s : EntryAt(data', x, i, y, s) <=> EntryAt(data, x, i, y, s)
        /\ \A x \in AllChains \ {c} : \A k, z : LevelAt(data', x, k, z) <=>
             IF <<x, k>> \in R THEN z = c ELSE LevelAt(data, x, k, z)
        /\ \A x \in AllChains \ {c} : \A k, z : <<x, k>> \in R => ~ LevelAt(data, x, k, z)
    BY <1>10, <2>1
  <2>3. R \subseteq {Root, Root}
    OBVIOUS
  <2> HIDE DEF R
  <2>4. role' = [role EXCEPT ![c] = "dir"] /\ DataOK(data') /\ data'[c] = EmptyDir
    BY <1>1, <1>2, <1>6, <2>1
  <2>5. TypeOK' /\ (\A a, b : R \subseteq {a, b} /\ data'[c] = EmptyDir /\ ContextReached => Extends)
    BY <1>1, <1>3, <2>2, <2>4, NewLevelStep
  <2> QED BY <1>1, <1>7, <1>11, <2>3, <2>4, <2>5
<1>12. CASE j # 0
  <2>1. data' = [dt EXCEPT ![t].slots[j] = v]
    BY <1>5, <1>12
  <2>2. j \in 1 .. LevelSlots /\ (\A x : ~ LevelAt(data, t, j, x)) /\ dt[t].kind = "table"
    BY <1>6, <1>8, <1>9, <1>12, FoundLevel DEF j
  <2>3. DataOK(data') /\ LevelGets(dt, data', t, j, v)
    BY <1>4, <1>6, <1>8, <2>1, <2>2, SetLevel
  <2> DEFINE R == {<<t, j>>}
  <2>4. /\ \A x \in AllChains \ {c} : data'[x].kind = data[x].kind
        /\ \A x \in AllChains \ {c} : \A i, y, s : EntryAt(data', x, i, y, s) <=> EntryAt(data, x, i, y, s)
        /\ \A x \in AllChains \ {c} : \A k, z : LevelAt(data', x, k, z) <=>
             IF <<x, k>> \in R THEN z = c ELSE LevelAt(data, x, k, z)
        /\ \A x \in AllChains \ {c} : \A k, z : <<x, k>> \in R => ~ LevelAt(data, x, k, z)
    BY <1>4, <1>10, <2>2, <2>3 DEF LevelGets
  <2>5. R \subseteq {<<t, j>>, <<t, j>>}
    OBVIOUS
  <2>6. LevelAt(data', t, j, c)
    BY <1>8, <1>9, <2>4
  <2> HIDE DEF R
  <2>7. role' = [role EXCEPT ![c] = "dir"] /\ DataOK(data') /\ data'[c] = EmptyDir
    BY <1>2, <1>3, <1>6, <1>9, <2>3 DEF LevelGets
  <2>8. /\ TypeOK'
        /\ (\A a, b : R \subseteq {a, b} /\ data'[c] = EmptyDir /\ ContextReached => Extends)
        /\ c \in LevelsOf(RootDir)' \/ (\E d \in Contents : c \in Below(d)') => Lost' \subseteq Lost
    BY <1>1, <1>3, <2>4, <2>7, NewLevelStep
  <2>9. ASSUME ~ Loses PROVE Lost' \subseteq Lost
    <3>1. t \in Folders
      BY <1>0, <2>9
    <3>2. \A x \in Contents : \A i, y, s : EntryAt(data, x, i, y, s) => EntryAt(data', x, i, y, s)
      BY <1>3, <2>4, OldNotNew
    <3>3. c \in LevelsOf(RootDir)' \/ \E d \in Contents : c \in Below(d)'
      BY <2>6, <2>8, <3>1, <3>2, LevelEntered
    <3> QED BY <2>8, <3>3
  <2> QED BY <1>1, <2>5, <2>7, <2>8, <2>9
<1> QED BY <1>11, <1>12

LEMMA LinkLevelStep ==
  ASSUME TypeOK, Sound, NEW d \in Paths, NEW n \in Names, NEW e \in Paths, NEW m \in Names,
         NEW l \in LevelNames, LinkLevel(d, n, e, m, l)
  PROVE  TypeOK' /\ Extends /\ (~ Loses => Lost' \subseteq Lost)
<1> DEFINE i == Find(d, n, {"dir"})
           j == Find(e, m, {"dir"})
           t == data[d].slots[i].start
           u == data[e].slots[j].start
           a == FindLevel(t, NoName)
           b == FindLevel(u, NoName)
<1>1. i # 0 /\ j # 0 /\ t # u /\ a # 0 /\ b # 0 /\ ContextTyped /\ ContextReached
  BY StaysOK DEF LinkLevel, context, Stays
<1>0. ~ Loses => d \in Contents \/ e \in Contents
  BY DEF Loses
<1>2. PICK c \in Unused :
        /\ role' = [role EXCEPT ![c] = "dir"]
        /\ data' = [data EXCEPT ![c] = EmptyDir, ![t].slots[a] = [name |-> l, content |-> c],
                                ![u].slots[b] = [name |-> l, content |-> c]]
  BY DEF LinkLevel
<1>3. c \in Chains /\ role[c] = "free" /\ c \in AllChains /\ DataOK(data)
  BY TypeOKIs DEF Unused, AllChains
<1>4. /\ d \in AllChains /\ d \in Live /\ e \in AllChains /\ e \in Live /\ Root \notin Chains
      /\ d # Root => role[d] = "dir"
      /\ e # Root => role[e] = "dir"
  BY PathFacts, VolumeAssumption
<1> HIDE DEF i, j
<1>5. /\ t \in Chains /\ t \in AllChains /\ role[t] = "table" /\ data[t].kind = "table"
      /\ EntryAt(data, d, i, "dir", t)
  <2> HIDE DEF t
  <2>1. i = Find(d, n, {"dir"}) /\ t = data[d].slots[i].start
    BY DEF i, t
  <2> QED BY <1>1, <1>4, <2>1, FolderIs
<1>6. /\ u \in Chains /\ u \in AllChains /\ role[u] = "table" /\ data[u].kind = "table"
      /\ EntryAt(data, e, j, "dir", u)
  <2> HIDE DEF u
  <2>1. j = Find(e, m, {"dir"}) /\ u = data[e].slots[j].start
    BY DEF j, u
  <2> QED BY <1>1, <1>4, <2>1, FolderIs
<1> HIDE DEF t, u
<1>7. a \in 1 .. LevelSlots /\ \A x : ~ LevelAt(data, t, a, x)
  BY <1>1, <1>5, FoundLevel
<1>8. b \in 1 .. LevelSlots /\ \A x : ~ LevelAt(data, u, b, x)
  BY <1>1, <1>6, FoundLevel
<1>9. t # c /\ u # c /\ d # c /\ e # c
  BY <1>3, <1>4, <1>5, <1>6
<1> DEFINE v == [name |-> l, content |-> c]
           dt == With(data, c, EmptyDir)
           q == [dt EXCEPT ![t].slots[a] = v]
<1>10. v \in Level /\ c # NoChain /\ v.content = c
  BY <1>3, NewLevelTyped
<1>11. data' = [q EXCEPT ![u].slots[b] = v]
  BY <1>2 DEF With
<1>12. DataOK(dt) /\ dt[c] = EmptyDir /\ \A x \in AllChains \ {c} : dt[x] = data[x]
  BY <1>3, EmptyDirIs, WithIs, VolumeAssumption
<1> HIDE DEF v, a, b, dt
<1>13. DataOK(q) /\ LevelGets(dt, q, t, a, v)
  <2>1. dt[t].kind = "table"
    BY <1>5, <1>9, <1>12
  <2> HIDE DEF q
  <2>2. q = [dt EXCEPT ![t].slots[a] = v]
    BY DEF q
  <2> QED BY <1>5, <1>7, <1>10, <1>12, <2>1, <2>2, SetLevel
<1> HIDE DEF q
<1>14. DataOK(data') /\ LevelGets(q, data', u, b, v)
  <2>1. q[u].kind = "table"
    BY <1>6, <1>9, <1>12, <1>13 DEF LevelGets
  <2> QED BY <1>6, <1>8, <1>10, <1>11, <1>13, <2>1, SetLevel
<1>15. /\ \A x \in AllChains \ {c} : dt[x].kind = data[x].kind
       /\ \A x \in AllChains \ {c} : \A k, y, s : EntryAt(dt, x, k, y, s) <=> EntryAt(data, x, k, y, s)
       /\ \A x \in AllChains \ {c} : \A k, z : LevelAt(dt, x, k, z) <=> LevelAt(data, x, k, z)
  BY <1>12 DEF EntryAt, LevelAt
<1> DEFINE R == {<<t, a>>, <<u, b>>}
<1>16. \A x \in AllChains \ {c} : \A k, z : LevelAt(data', x, k, z) <=>
             IF <<x, k>> \in R THEN z = c ELSE LevelAt(data, x, k, z)
  <2> SUFFICES ASSUME NEW x \in AllChains \ {c}, NEW k, NEW z
               PROVE  LevelAt(data', x, k, z) <=> IF <<x, k>> \in R THEN z = c ELSE LevelAt(data, x, k, z)
    OBVIOUS
  <2>1. LevelAt(data', x, k, z) <=> IF x = u /\ k = b THEN z = c ELSE LevelAt(q, x, k, z)
    BY <1>10, <1>14 DEF LevelGets
  <2>2. LevelAt(q, x, k, z) <=> IF x = t /\ k = a THEN z = c ELSE LevelAt(dt, x, k, z)
    BY <1>10, <1>13 DEF LevelGets
  <2>3. LevelAt(dt, x, k, z) <=> LevelAt(data, x, k, z)
    BY <1>15
  <2>4. <<x, k>> \in R <=> (x = t /\ k = a) \/ (x = u /\ k = b)
    OBVIOUS
  <2> HIDE DEF R
  <2> QED BY <2>1, <2>2, <2>3, <2>4
<1>17. /\ \A x \in AllChains \ {c} : data'[x].kind = data[x].kind
       /\ \A x \in AllChains \ {c} : \A k, y, s : EntryAt(data', x, k, y, s) <=> EntryAt(data, x, k, y, s)
  BY <1>13, <1>14, <1>15 DEF LevelGets
<1>18. /\ \A x \in AllChains \ {c} : \A k, z : <<x, k>> \in R => ~ LevelAt(data, x, k, z)
       /\ R \subseteq {<<t, a>>, <<u, b>>} /\ <<t, a>> \in R /\ <<u, b>> \in R
  BY <1>7, <1>8
<1> HIDE DEF R
<1>19. role' = [role EXCEPT ![c] = "dir"] /\ data'[c] = EmptyDir
  BY <1>2, <1>3, <1>9, <1>12, <1>13, <1>14 DEF LevelGets
<1>20. /\ TypeOK'
       /\ (\A x, y : R \subseteq {x, y} /\ data'[c] = EmptyDir /\ ContextReached => Extends)
       /\ c \in LevelsOf(RootDir)' \/ (\E x \in Contents : c \in Below(x)') => Lost' \subseteq Lost
  BY <1>1, <1>3, <1>14, <1>16, <1>17, <1>18, <1>19, NewLevelStep
<1>21. ASSUME ~ Loses PROVE Lost' \subseteq Lost
  <2>1. EntryAt(data', d, i, "dir", t) /\ LevelAt(data', t, a, c)
    BY <1>4, <1>5, <1>9, <1>16, <1>17, <1>18
  <2>2. EntryAt(data', e, j, "dir", u) /\ LevelAt(data', u, b, c)
    BY <1>4, <1>6, <1>9, <1>16, <1>17, <1>18
  <2>3. c \in Below(d)'
    BY <1>4, <1>20, <2>1, LevelBelow
  <2>4. c \in Below(e)'
    BY <1>4, <1>20, <2>2, LevelBelow
  <2>5. \E x \in Contents : c \in Below(x)'
    BY <1>0, <1>21, <2>3, <2>4
  <2> QED BY <1>20, <2>5
<1> QED BY <1>1, <1>18, <1>19, <1>20, <1>21

LEMMA LevelRenameStep ==
  ASSUME TypeOK, Sound, NEW n \in Names \cup {Dot}, NEW l \in LevelNames, NEW m \in LevelNames, LevelRename(n, l, m)
  PROVE  TypeOK' /\ Extends /\ (~ Loses => Lost' \subseteq Lost)
<1> DEFINE t == Folder(n)
           j == FindLevel(t, l)
           v == [name |-> m, content |-> data[t].slots[j].content]
<1>1. /\ t # NoChain /\ j # 0 /\ ContextTyped /\ ContextReached /\ role' = role
      /\ data' = [data EXCEPT ![t].slots[j].name = m]
  BY StaysOK DEF LevelRename, context, Stays
<1> HIDE DEF t
<1>2. t \in AllChains /\ data[t].kind = "table" /\ DataOK(data)
  BY <1>1, FolderFound, TypeOKIs DEF t
<1> HIDE DEF j
<1>3. /\ j \in 1 .. LevelSlots /\ data[t].slots[j] \in Level /\ data[t].slots[j].name = l
      /\ data[t].slots[j].content \in Chains \cup {Root}
      /\ LevelAt(data, t, j, data[t].slots[j].content)
  BY <1>1, <1>2, FoundLevel DEF j
<1>4. v \in Level /\ v.content = data[t].slots[j].content
  BY <1>3, NewLevelTyped
<1>5. data' = [data EXCEPT ![t].slots[j] = v]
  <2> DEFINE o == data[t].slots[j]
  <2>1. o = [name |-> o.name, content |-> o.content]
    BY <1>3 DEF Level, FreeLevel
  <2>2. [o EXCEPT !.name = m] = v
    <3> HIDE DEF o
    <3> QED BY <2>1 DEF o
  <2>3. data' = [data EXCEPT ![t].slots[j] = [o EXCEPT !.name = m]]
    BY <1>1
  <2> QED BY <2>2, <2>3
<1> HIDE DEF v
<1>6. DataOK(data') /\ LevelGets(data, data', t, j, v)
  BY <1>2, <1>3, <1>4, <1>5, SetLevel
<1>7. /\ \A x \in AllChains : data'[x].kind = data[x].kind
      /\ \A x \in AllChains : \A i, y, s : EntryAt(data', x, i, y, s) <=> EntryAt(data, x, i, y, s)
      /\ \A x \in AllChains : \A k, c : LevelAt(data', x, k, c) <=> LevelAt(data, x, k, c)
  <2>1. \A c : LevelAt(data, t, j, c) <=> v.content = c /\ c # NoChain
    BY <1>3, <1>4 DEF LevelAt
  <2> QED BY <1>6, <2>1 DEF LevelGets
<1> QED BY <1>1, <1>2, <1>6, <1>7, SameGraphStep

\* The content of the level that is removed stays allocated.
LEMMA LevelRemoveStep ==
  ASSUME TypeOK, Sound, NEW n \in Names \cup {Dot}, NEW l \in LevelNames, LevelRemove(n, l)
  PROVE  TypeOK' /\ Extends /\ (~ Loses => Lost' \subseteq Lost)
<1> DEFINE t == Folder(n)
           j == FindLevel(t, l)
<1>1. /\ t # NoChain /\ j # 0 /\ ContextTyped /\ ContextReached /\ role' = role
      /\ data' = [data EXCEPT ![t].slots[j] = FreeLevel]
  BY StaysOK DEF LevelRemove, context, Stays
<1>2. Loses
  BY DEF Loses
<1> HIDE DEF t
<1>3. t \in AllChains /\ data[t].kind = "table" /\ DataOK(data) /\ Root \in AllChains
  BY <1>1, FolderFound, TypeOKIs, LiveFacts DEF t
<1> HIDE DEF j
<1>4. j \in 1 .. LevelSlots
  BY <1>1, <1>3, FoundLevel DEF j
<1>5. FreeLevel \in Level
  BY DEF Level
<1>6. DataOK(data') /\ LevelGets(data, data', t, j, FreeLevel)
  BY <1>1, <1>3, <1>4, <1>5, SetLevel
<1>7. /\ \A x \in AllChains : data'[x].kind = data[x].kind
      /\ \A x \in AllChains : \A i, y, s : EntryAt(data', x, i, y, s) <=> EntryAt(data, x, i, y, s)
      /\ \A x \in AllChains : \A k, c : LevelAt(data', x, k, c) => LevelAt(data, x, k, c)
  BY <1>6 DEF LevelGets, FreeLevel
<1>8. TypeOK'
  <2>1. TypeOKIs'
    BY TypeOKIs, PTL
  <2>2. \A x \in Chains : role'[x] = "table" => data'[x].kind = "table"
    BY <1>1, <1>7, TypeOKIs DEF AllChains
  <2>3. role' \in [Chains -> {"free", "file", "dir", "table"}]
    BY <1>1, TypeOKIs
  <2> QED BY <1>1, <1>6, <2>1, <2>2, <2>3 DEF ContextTyped
<1>9. Extends
  <2>1. RolesStay
    BY <1>1 DEF RolesStay
  <2>2. Grows(<<Root, 0>>, {Root, Root})
    BY <1>1, <1>3, <1>7 DEF Grows, ContextReached
  <2>3. \A u : EntryAt(data', Root, 0, "dir", u) => EntryAt(data, Root, 0, "dir", u)
    BY <1>3, <1>7
  <2> QED BY <2>1, <2>2, <2>3 DEF Extends
<1> QED BY <1>2, <1>8, <1>9

-----------------------------------------------------------------------------
(* nav.                                                                    *)

LEMMA NavStep ==
  ASSUME TypeOK, Sound, NEW n \in Names, NEW l \in LevelNames, Nav(n, l)
  PROVE  TypeOK' /\ Extends /\ (~ Loses => Lost' \subseteq Lost)
<1> DEFINE i == Find(cwd, n, {"dir"})
           t == data[cwd].slots[i].start
           j == FindLevel(t, l)
<1>1. /\ i # 0 /\ j # 0 /\ cwd' = data[t].slots[j].content /\ dir' = t
      /\ data' = data /\ role' = role /\ rootVersion' = rootVersion
  BY DEF Nav
<1>2. cwd \in Live /\ DataOK(data) /\ rootVersion \in LevelNames
  BY LiveFacts, TypeOKIs
<1> HIDE DEF t
<1>3. i = Find(cwd, n, {"dir"}) /\ t = data[cwd].slots[i].start
  BY DEF t
<1> HIDE DEF i, j
<1>4. /\ t \in Chains /\ t \in AllChains /\ data[t].kind = "table"
      /\ LevelsOf(t) \subseteq Live /\ t \in TablesOf(Live)
  BY <1>1, <1>2, <1>3, FolderIs
<1>5. data[t].slots[j].content \in LevelsOf(t) /\ data[t].slots[j].content \in Chains \cup {Root}
  BY <1>1, <1>4, FoundLevel DEF j
<1>6. ContextTyped /\ ContextReached /\ DataOK(data')
  BY <1>1, <1>2, <1>4, <1>5 DEF ContextTyped, ContextReached
<1> QED BY <1>1, <1>6, SameGraphStep

LEMMA NavLevelStep ==
  ASSUME TypeOK, Sound, NEW l \in LevelNames, NavLevel(l)
  PROVE  TypeOK' /\ Extends /\ (~ Loses => Lost' \subseteq Lost)
<1> DEFINE j == FindLevel(dir, l)
<1>1. /\ j # 0 /\ cwd' = data[dir].slots[j].content /\ dir' = dir
      /\ data' = data /\ role' = role /\ rootVersion' \in {l, rootVersion}
  BY DEF NavLevel
<1>2. /\ DataOK(data) /\ rootVersion \in LevelNames /\ dir \in Chains \cup {RootDir}
      /\ dir \in AllChains /\ data[dir].kind = "table" /\ LevelsOf(dir) \subseteq Live
  BY TypeOKIs, SoundFacts, LiveFacts DEF DataOK, AllChains
<1> HIDE DEF j
<1>3. data[dir].slots[j].content \in LevelsOf(dir) /\ data[dir].slots[j].content \in Chains \cup {Root}
  BY <1>1, <1>2, FoundLevel DEF j
<1>4. ContextTyped /\ ContextReached /\ DataOK(data')
  BY <1>1, <1>2, <1>3 DEF ContextTyped, ContextReached, TablesOf
<1> QED BY <1>1, <1>4, SameGraphStep

LEMMA NavUpStep ==
  ASSUME TypeOK, Sound, NavUp
  PROVE  TypeOK' /\ Extends /\ (~ Loses => Lost' \subseteq Lost)
<1> DEFINE j == FindLevel(RootDir, rootVersion)
<1>1. /\ cwd' = IF j = 0 THEN cwd ELSE data[RootDir].slots[j].content
      /\ dir' = RootDir /\ data' = data /\ role' = role /\ rootVersion' = rootVersion
  BY DEF NavUp
<1>2. /\ DataOK(data) /\ rootVersion \in LevelNames /\ cwd \in Chains \cup {Root} /\ cwd \in Live
      /\ RootDir \in AllChains /\ data[RootDir].kind = "table" /\ LevelsOf(RootDir) \subseteq Live
  BY TypeOKIs, LiveFacts DEF DataOK, AllChains
<1> HIDE DEF j
<1>3. j # 0 => /\ data[RootDir].slots[j].content \in LevelsOf(RootDir)
               /\ data[RootDir].slots[j].content \in Chains \cup {Root}
  BY <1>2, FoundLevel DEF j
<1>4. ContextTyped /\ ContextReached /\ DataOK(data')
  BY <1>1, <1>2, <1>3 DEF ContextTyped, ContextReached, TablesOf
<1> QED BY <1>1, <1>4, SameGraphStep

\* The folder that is entered has no level, so the first slot of its table is free.
LEMMA NavNewStep ==
  ASSUME TypeOK, Sound, NEW n \in Names, NavNew(n)
  PROVE  TypeOK' /\ (Extends \/ OldContent) /\ (~ Loses => Lost' \subseteq Lost)
<1> DEFINE i == Find(cwd, n, {"dir"})
           t == data[cwd].slots[i].start
<1>1. i # 0 /\ LevelsOf(t) = {} /\ dir' = t /\ rootVersion' = rootVersion
  BY DEF NavNew
<1>2. PICK c \in Unused : /\ role' = [role EXCEPT ![c] = "dir"] /\ cwd' = c
                          /\ data' = [data EXCEPT ![t].slots[1] = [name |-> Main, content |-> c]]
  BY DEF NavNew
<1>3. c \in Chains /\ role[c] = "free" /\ Main \in LevelNames
  BY VolumeAssumption DEF Unused
<1>4. ~ Loses => cwd \in Contents
  BY DEF Loses
<1> DEFINE v == [name |-> Main, content |-> c]
<1>5. v \in Level /\ c # NoChain /\ v.content = c
  BY <1>3, NewLevelTyped
<1> HIDE DEF v, t
<1>6. i = Find(cwd, n, {"dir"}) /\ t = data[cwd].slots[i].start /\ cwd \in Live /\ cwd \in AllChains
  BY LiveFacts DEF t
<1> HIDE DEF i
<1>7. /\ t \in Chains /\ t \in AllChains /\ role[t] = "table" /\ data[t].kind = "table"
      /\ t \in TablesOf(Live) /\ EntryAt(data, cwd, i, "dir", t) /\ t # c
  BY <1>1, <1>3, <1>6, FolderIs
<1>8. 1 \in 1 .. LevelSlots /\ \A k, x : ~ LevelAt(data, t, k, x)
  BY <1>1, <1>7, LevelsOfAt, Sizes
<1>9. DataOK(data') /\ LevelGets(data, data', t, 1, v)
  <2>1. DataOK(data) /\ data' = [data EXCEPT ![t].slots[1] = v]
    BY <1>2, TypeOKIs DEF v
  <2> QED BY <1>5, <1>7, <1>8, <2>1, SetLevel
<1> DEFINE R == {<<t, 1>>}
<1>10. /\ \A x \in AllChains \ {c} : data'[x].kind = data[x].kind
       /\ \A x \in AllChains : \A k, y, s : EntryAt(data', x, k, y, s) <=> EntryAt(data, x, k, y, s)
       /\ \A x \in AllChains \ {c} : \A k, z : LevelAt(data', x, k, z) <=>
            IF <<x, k>> \in R THEN z = c ELSE LevelAt(data, x, k, z)
       /\ \A x \in AllChains \ {c} : \A k, z : <<x, k>> \in R => ~ LevelAt(data, x, k, z)
       /\ LevelAt(data', t, 1, c)
  BY <1>5, <1>7, <1>8, <1>9 DEF LevelGets
<1>11. R \subseteq {<<t, 1>>, <<t, 1>>}
  OBVIOUS
<1> HIDE DEF R
<1>12. ContextTyped
  BY <1>1, <1>2, <1>3, <1>7, TypeOKIs DEF ContextTyped
<1>13. /\ TypeOK' /\ (\A a, b : R \subseteq {a, b} /\ data'[c] = EmptyDir /\ ContextReached => Extends)
       /\ c \in LevelsOf(RootDir)' \/ (\E d \in Contents : c \in Below(d)') => Lost' \subseteq Lost
  BY <1>2, <1>3, <1>9, <1>10, <1>12, NewLevelStep
<1>14. Extends \/ OldContent
  <2>0. role'[c] = "dir"
    BY <1>2, <1>3, TypeOKIs
  <2>1. CASE data'[c] = EmptyDir
    <3>1. ContextReached
      BY <1>1, <1>2, <1>3, <1>7, <2>0, <2>1 DEF ContextReached, NewContents
    <3> QED BY <1>11, <1>13, <2>1, <3>1
  <2>2. CASE data'[c] # EmptyDir
    BY <1>3, <2>0, <2>2 DEF OldContent
  <2> QED BY <2>1, <2>2
<1>15. ASSUME ~ Loses PROVE Lost' \subseteq Lost
  <2>1. EntryAt(data', cwd, i, "dir", t)
    BY <1>6, <1>7, <1>10
  <2>2. \E d \in Contents : d \in AllChains /\ EntryAt(data', d, i, "dir", t)
    BY <1>4, <1>6, <1>15, <2>1
  <2>3. \E d \in Contents : c \in Below(d)'
    BY <1>10, <1>13, <2>2, LevelBelow
  <2> QED BY <1>13, <2>3
<1> QED BY <1>13, <1>14, <1>15

-----------------------------------------------------------------------------
(* Deleting.                                                               *)

\* S is what a command frees in data that is dt: the root's content is not freed.
Frees(dt, S) == \E S0 : S = S0 \cap Chains /\ FreeChains(dt, S0)

\* What freeing the chains of S does: nothing is new, and a freed table has no levels.
LEMMA FreeChainsAt ==
  ASSUME NEW dt, DataOK(dt), NEW S, Frees(dt, S)
  PROVE  /\ DataOK(data')
         /\ \A x \in AllChains \ S : data'[x] = dt[x]
         /\ \A x \in AllChains : dt[x].kind = "dir" => data'[x].kind = "dir"
         /\ \A x \in AllChains : \A i, y, s : EntryAt(data', x, i, y, s) => EntryAt(dt, x, i, y, s)
         /\ \A x \in AllChains : \A j, c : LevelAt(data', x, j, c) => LevelAt(dt, x, j, c) /\ x \notin S
         /\ \A x \in AllChains \ S : \A i, y, s : EntryAt(data', x, i, y, s) <=> EntryAt(dt, x, i, y, s)
         /\ \A x \in AllChains \ S : \A j, c : LevelAt(data', x, j, c) <=> LevelAt(dt, x, j, c)
         /\ \A x \in Chains : role'[x] = IF x \in S THEN "free" ELSE role[x]
         /\ DOMAIN role' = Chains
<1>0. PICK S0 : S = S0 \cap Chains /\ FreeChains(dt, S0)
  BY DEF Frees
<1>1. /\ DOMAIN dt = AllChains /\ dt \in [AllChains -> Shapes] /\ dt[RootDir].kind = "table"
      /\ RootDir \in AllChains /\ RootDir \notin S
  BY <1>0, VolumeAssumption DEF DataOK, AllChains
<1>2. /\ DOMAIN data' = AllChains /\ data' = [x \in AllChains |-> data'[x]]
      /\ \A x \in AllChains : data'[x] = IF x \in S THEN Freed(dt[x]) ELSE dt[x]
  BY <1>0, <1>1 DEF FreeChains
<1>3. ASSUME NEW x \in S
      PROVE  /\ data'[x] \in Shapes /\ data'[x].kind # "table"
             /\ data'[x].kind = "dir" => Whole(data'[x].slots)
             /\ dt[x].kind = "dir" => data'[x].kind = "dir"
             /\ \A i, y, s : EntryAt(data', x, i, y, s) => EntryAt(dt, x, i, y, s)
             /\ \A j, l : ~ LevelAt(data', x, j, l)
  <2>1. data'[x] = Freed(dt[x]) /\ x \in Chains
    BY <1>0, <1>2 DEF AllChains
  <2> QED BY <2>1, FreedIs
<1>4. DataOK(data')
  <2>1. \A x \in AllChains : data'[x] \in Shapes
    BY <1>1, <1>2, <1>3
  <2>2. data' \in [AllChains -> Shapes]
    BY <1>2, <2>1
  <2>3. \A x \in Chains : data'[x].kind = "dir" => Whole(data'[x].slots)
    <3> TAKE x \in Chains
    <3>1. CASE x \in S
      BY <1>3, <3>1
    <3>2. CASE x \notin S
      BY <1>2, <3>2 DEF DataOK, AllChains
    <3> QED BY <3>1, <3>2
  <2>4. data'[RootDir].kind = "table"
    BY <1>1, <1>2
  <2> QED BY <2>2, <2>3, <2>4 DEF DataOK
<1>5. \A x \in AllChains \ S : data'[x] = dt[x]
  BY <1>2
<1>6. /\ \A x \in AllChains \ S : \A i, y, s : EntryAt(data', x, i, y, s) <=> EntryAt(dt, x, i, y, s)
      /\ \A x \in AllChains \ S : \A j, c : LevelAt(data', x, j, c) <=> LevelAt(dt, x, j, c)
  BY <1>5 DEF EntryAt, LevelAt
<1>7. (\A x \in Chains : role'[x] = IF x \in S THEN "free" ELSE role[x]) /\ DOMAIN role' = Chains
  BY <1>0 DEF FreeChains
<1>8. \A x \in AllChains : dt[x].kind = "dir" => data'[x].kind = "dir"
  BY <1>3, <1>5
<1>9. /\ \A x \in AllChains : \A i, y, s : EntryAt(data', x, i, y, s) => EntryAt(dt, x, i, y, s)
      /\ \A x \in AllChains : \A j, c : LevelAt(data', x, j, c) => LevelAt(dt, x, j, c) /\ x \notin S
  BY <1>3, <1>6
<1> QED BY <1>4, <1>5, <1>6, <1>7, <1>8, <1>9

\* A deletion frees the chains of S in data that is dt, in which an entry or a level is free
\* now: what holds of both kinds of deletion.
LEMMA FreeingTyped ==
  ASSUME TypeOK, NEW dt, DataOK(dt), NEW S, Frees(dt, S), Stays,
         \A x \in AllChains : dt[x].kind = data[x].kind
  PROVE  TypeOK' /\ FreedNow \subseteq S /\ \A x \in Chains : role'[x] = role[x] \/ x \in FreedNow
<1>1. /\ DataOK(data')
      /\ \A x \in AllChains \ S : data'[x] = dt[x]
      /\ \A x \in Chains : role'[x] = IF x \in S THEN "free" ELSE role[x]
      /\ DOMAIN role' = Chains
  BY FreeChainsAt
<1>2. /\ role \in [Chains -> {"free", "file", "dir", "table"}] /\ ContextTyped
      /\ \A x \in Chains : role[x] = "table" => data[x].kind = "table"
  BY StaysOK, TypeOKIs
<1>3. role' \in [Chains -> {"free", "file", "dir", "table"}]
  <2>1. role' = [x \in Chains |-> role'[x]]
    BY DEF FreeChains, Frees
  <2>2. \A x \in Chains : role'[x] \in {"free", "file", "dir", "table"}
    BY <1>1, <1>2
  <2> QED BY <2>1, <2>2
<1>4. \A x \in Chains : role'[x] = "table" => data'[x].kind = "table"
  BY <1>1, <1>2 DEF AllChains
<1>5. TypeOK'
  <2>1. TypeOKIs'
    BY TypeOKIs, PTL
  <2> QED BY <1>1, <1>2, <1>3, <1>4, <2>1 DEF ContextTyped
<1>6. FreedNow \subseteq S /\ \A x \in Chains : role'[x] = role[x] \/ x \in FreedNow
  BY <1>1 DEF FreedNow
<1> QED BY <1>5, <1>6

LEMMA DeleteLevelStep ==
  ASSUME TypeOK, Sound, NEW n \in Names \cup {Dot}, NEW l \in LevelNames, DeleteLevel(n, l)
  PROVE  TypeOK' /\ Shrinks /\ (~ Loses => Lost' \subseteq Lost)
<1> DEFINE t == Folder(n)
           j == FindLevel(t, l)
           c == data[t].slots[j].content
           dt == [data EXCEPT ![t].slots[j] = FreeLevel]
           S0 == {c}
           S == S0 \cap Chains
<1>1. t # NoChain /\ j # 0 /\ Stays /\ FreeChains(dt, S0)
  BY DEF DeleteLevel, context, Stays
<1> HIDE DEF t
<1>2. /\ t \in AllChains /\ data[t].kind = "table" /\ (t = RootDir \/ role[t] = "table")
      /\ LevelsOf(t) \subseteq Live /\ t \in TablesOf(Live) /\ DataOK(data)
  BY <1>1, FolderFound, TypeOKIs DEF t
<1> HIDE DEF j
<1>3. j \in 1 .. LevelSlots /\ c \in Chains \cup {Root} /\ LevelAt(data, t, j, c) /\ c \in LevelsOf(t)
  BY <1>1, <1>2, FoundLevel DEF j
<1> HIDE DEF c
<1>4. /\ c \in Live /\ c \in AllChains /\ Root \notin Chains /\ RootDir \notin Chains /\ RootDir \in AllChains
      /\ \A x \in S : x = c /\ x \in Chains /\ role[x] = "dir"
  BY <1>2, <1>3, SoundFacts, VolumeAssumption DEF AllChains
<1>13. t \notin S
  BY <1>2, <1>4
<1>5. DataOK(dt) /\ LevelGets(data, dt, t, j, FreeLevel)
  <2> HIDE DEF dt
  <2>1. FreeLevel \in Level
    BY DEF Level
  <2>2. dt = [data EXCEPT ![t].slots[j] = FreeLevel]
    BY DEF dt
  <2> QED BY <1>2, <1>3, <2>1, <2>2, SetLevel
<1>6. /\ \A x \in AllChains : dt[x].kind = data[x].kind
      /\ \A x \in AllChains : \A k, y, s : EntryAt(dt, x, k, y, s) <=> EntryAt(data, x, k, y, s)
      /\ \A x \in AllChains : \A k, z : LevelAt(dt, x, k, z) <=> ~ (x = t /\ k = j) /\ LevelAt(data, x, k, z)
  BY <1>5 DEF LevelGets, FreeLevel
<1> HIDE DEF dt
<1>7. Frees(dt, S) /\ (c \in Chains => c \in S)
  BY <1>1 DEF Frees
<1>8. TypeOK' /\ FreedNow \subseteq S /\ \A x \in Chains : role'[x] = role[x] \/ x \in FreedNow
  <2> HIDE DEF S, S0
  <2> QED BY <1>1, <1>5, <1>6, <1>7, FreeingTyped
<1>9. /\ \A x \in AllChains : dt[x].kind = "dir" => data'[x].kind = "dir"
      /\ \A x \in AllChains : \A k, y, s : EntryAt(data', x, k, y, s) => EntryAt(dt, x, k, y, s)
      /\ \A x \in AllChains : \A k, z : LevelAt(data', x, k, z) => LevelAt(dt, x, k, z) /\ x \notin S
      /\ \A x \in AllChains \ S : \A k, y, s : EntryAt(data', x, k, y, s) <=> EntryAt(dt, x, k, y, s)
      /\ \A x \in AllChains \ S : \A k, z : LevelAt(data', x, k, z) <=> LevelAt(dt, x, k, z)
      /\ \A x \in Chains : role'[x] = IF x \in S THEN "free" ELSE role[x]
  <2> HIDE DEF S, S0
  <2> QED BY <1>1, <1>5, <1>7, FreeChainsAt
<1> HIDE DEF S
<1>10. Shrinks
  <2>1. Unlinked(c)
    <3>1. \A z : ~ LevelAt(data', t, j, z)
      BY <1>2, <1>6, <1>9
    <3> QED BY <1>2, <1>3, <3>1 DEF Unlinked
  <2>2. \A x \in FreedNow : Unlinked(x)
    BY <1>4, <1>8, <2>1
  <2>3. /\ \A x \in AllChains : data[x].kind = "dir" => data'[x].kind = "dir"
        /\ \A x \in AllChains : \A k, y, s : EntryAt(data', x, k, y, s) => EntryAt(data, x, k, y, s)
        /\ \A x \in AllChains : \A k, z : LevelAt(data', x, k, z) => LevelAt(data, x, k, z)
    BY <1>6, <1>9
  <2> QED BY <1>1, <1>8, <2>2, <2>3 DEF Shrinks, Stays
<1>11. ASSUME ~ Loses PROVE Lost' \subseteq Lost
  <2>1. EmptyFreed
    BY <1>11, NotLoses
  <2>2. c = Root \/ c \in FreedNow
    BY <1>3, <1>4, <1>7, <1>9 DEF FreedNow
  <2>6. \A x \in S : x \in FreedNow
    BY <1>3, <1>4, <2>2
  <2>3. EntriesKept
    <3> SUFFICES ASSUME NEW x \in Contents \ FreedNow, NEW k, NEW y, NEW s, EntryAt(data, x, k, y, s)
                 PROVE  EntryAt(data', x, k, y, s)
      BY DEF EntriesKept
    <3>1. x \in AllChains /\ x \notin S
      BY <2>6, ContentsFacts
    <3> QED BY <1>6, <1>9, <3>1
  <2>4. LevelsKept
    <3>7. ASSUME NEW u \in AllChains, NEW q, NEW z, LevelAt(data, u, q, z), u \notin S
          PROVE  z = Root \/ z \in FreedNow \/ \E w : LevelAt(data', u, w, z)
      <4>1. CASE u = t /\ q = j
        <5>1. z = c
          BY <1>3, <3>7, <4>1 DEF LevelAt
        <5> QED BY <2>2, <5>1
      <4>2. CASE ~ (u = t /\ q = j)
        BY <1>6, <1>9, <3>7, <4>2
      <4> QED BY <4>1, <4>2
    <3>8. RootDir \notin S
      BY <1>4
    <3> SUFFICES ASSUME NEW x \in Contents, NEW k, NEW u, NEW q, NEW z,
                        EntryAt(data, x, k, "dir", u), LevelAt(data, u, q, z)
                 PROVE  z = Root \/ z \in FreedNow \/ (u \notin FreedNow /\ \E w : LevelAt(data', u, w, z))
      BY <1>4, <3>7, <3>8 DEF LevelsKept
    <3>1. x \in AllChains /\ x \in Live
      BY ContentsFacts, ContentsLive
    <3>2. u \in Chains /\ u # NoChain /\ u \in AllChains
      BY <3>1, EntryAtTyped DEF AllChains
    <3>3. role[u] = "table"
      BY <3>1, <3>2, SoundAt
    <3>4. u \notin S /\ u \notin FreedNow
      BY <1>4, <1>8, <3>3
    <3> QED BY <3>2, <3>4, <3>7
  <2>5. NewEntered
    BY <1>9 DEF NewEntered
  <2> QED BY <1>8, <2>1, <2>3, <2>4, <2>5, NothingLost
<1> QED BY <1>8, <1>10, <1>11

\* decrementRefCount changes no type and no start.
LEMMA DecrementIs ==
  ASSUME TypeOK, data[Root].kind = "dir", NEW c, NEW K, NEW r, r = DecrementRefCount(c, K)
  PROVE  /\ DataOK(r) /\ \A x \in AllChains \ {Root} : r[x] = data[x]
         /\ DOMAIN r[Root].slots = DOMAIN data[Root].slots
         /\ \A x \in AllChains : r[x].kind = data[x].kind
         /\ \A x \in AllChains : \A i, y, s : EntryAt(r, x, i, y, s) <=> EntryAt(data, x, i, y, s)
         /\ \A x \in AllChains : \A j, l : LevelAt(r, x, j, l) <=> LevelAt(data, x, j, l)
<1> DEFINE s == data[Root].slots
           D(x) == IF x.type \in {"file", "hardlink"} /\ x.start = c /\ x.attributes > 0
                   THEN [x EXCEPT !.attributes = x.attributes - 1] ELSE x
           q == [i \in DOMAIN s |-> IF i \in K THEN s[i] ELSE D(s[i])]
           v == [kind |-> "dir", slots |-> q]
<1>1. /\ Root \in AllChains /\ DataOK(data) /\ data[Root] \in DirData /\ s \in Seq(Entry)
      /\ Len(s) \in Nat /\ DOMAIN s = 1 .. Len(s) /\ \A i \in DOMAIN s : s[i] \in Entry
      /\ Root # RootDir
  BY TypeOKIs, ShapeOf, VolumeAssumption DEF AllChains
<1>2. r = [data EXCEPT ![Root] = v]
  <2>1. data[Root] = [kind |-> "dir", slots |-> s]
    BY <1>1 DEF DirData
  <2>2. [data[Root] EXCEPT !.slots = q] = v
    <3> HIDE DEF q, s
    <3> QED BY <2>1
  <2>3. r = [data EXCEPT ![Root] = [data[Root] EXCEPT !.slots = q]]
    BY DEF DecrementRefCount
  <2> QED BY <2>2, <2>3
<1>3. ASSUME NEW x \in Entry
      PROVE  D(x) \in Entry /\ D(x).type = x.type /\ D(x).start = x.start
  <2>1. CASE x.type \in {"file", "hardlink"} /\ x.start = c /\ x.attributes > 0
    <3>1. x.attributes \in 0 .. MaxAttributes
      BY <2>1 DEF Entry, FreeEntry
    <3>2. x.attributes - 1 \in 0 .. MaxAttributes
      BY <2>1, <3>1, Sizes
    <3> DEFINE a == x.attributes - 1
    <3> HIDE DEF a
    <3>3. /\ [x EXCEPT !.attributes = a] \in Entry /\ [x EXCEPT !.attributes = a].type = x.type
          /\ [x EXCEPT !.attributes = a].start = x.start
      <4>0. a \in 0 .. MaxAttributes
        BY <3>2 DEF a
      <4>1. CASE x.type = "file"
        <5>1. x \in [type : {"file"}, name : Names, start : Chains, attributes : 0 .. MaxAttributes]
          BY <4>1 DEF Entry, FreeEntry
        <5>2. [x EXCEPT !.attributes = a]
                 \in [type : {"file"}, name : Names, start : Chains, attributes : 0 .. MaxAttributes]
          BY <4>0, <5>1
        <5> QED BY <5>1, <5>2 DEF Entry
      <4>2. CASE x.type = "hardlink"
        <5> DEFINE L == [type : {"symlink", "hardlink"}, name : Names, start : Chains \cup {NoChain},
                         attributes : 0 .. MaxAttributes]
        <5>1. x \in L
          BY <4>2 DEF Entry, FreeEntry
        <5>2. [x EXCEPT !.attributes = a] \in L
          BY <4>0, <5>1
        <5> QED BY <5>1, <5>2 DEF Entry
      <4> QED BY <2>1, <4>1, <4>2
    <3> QED BY <2>1, <3>3 DEF a
  <2>2. CASE ~ (x.type \in {"file", "hardlink"} /\ x.start = c /\ x.attributes > 0)
    BY <2>2
  <2> QED BY <2>1, <2>2
<1> HIDE DEF D
<1>4. q \in [1 .. Len(s) -> Entry] /\ DOMAIN q = DOMAIN s
  BY <1>1, <1>3
<1>5. q \in Seq(Entry)
  BY <1>1, <1>4, SeqDef
<1>6. v \in Shapes
  BY <1>5 DEF Shapes, DirData
<1>7. \A i \in DOMAIN s : q[i].type = s[i].type /\ q[i].start = s[i].start
  BY <1>1, <1>3
<1>8. v.kind = "dir" /\ v.slots = q
  OBVIOUS
<1> HIDE DEF s, q, v
<1>9. DataOK(r) /\ r[Root] = v /\ \A x \in AllChains \ {Root} : r[x] = data[x]
  <2>1. data \in [AllChains -> Shapes]
    BY <1>1 DEF DataOK
  <2>2. r \in [AllChains -> Shapes] /\ r[Root] = v /\ \A x \in AllChains \ {Root} : r[x] = data[x]
    BY <1>1, <1>2, <1>6, <2>1
  <2> QED BY <1>1, <2>2, SetData
<1>13. DOMAIN r[Root].slots = DOMAIN data[Root].slots
  BY <1>4, <1>8, <1>9 DEF s
<1>10. \A i, y, z : EntryAt(r, Root, i, y, z) <=> EntryAt(data, Root, i, y, z)
  BY <1>4, <1>7, <1>8, <1>9 DEF EntryAt, s
<1>11. \A j, l : ~ LevelAt(r, Root, j, l) /\ ~ LevelAt(data, Root, j, l)
  BY <1>8, <1>9 DEF LevelAt
<1>12. /\ \A x \in AllChains : r[x].kind = data[x].kind
       /\ \A x \in AllChains : \A i, y, z : EntryAt(r, x, i, y, z) <=> EntryAt(data, x, i, y, z)
       /\ \A x \in AllChains : \A j, l : LevelAt(r, x, j, l) <=> LevelAt(data, x, j, l)
  BY <1>8, <1>9, <1>10, <1>11 DEF EntryAt, LevelAt
<1> QED BY <1>9, <1>12, <1>13

\* The data that a deletion starts from: a count in the root may have been lowered.
DelBase(d, e, i) ==
  IF e.type \in {"file", "hardlink"} /\ e.attributes > 1
  THEN DecrementRefCount(e.start, IF d = Root THEN Sector(i) ELSE {}) ELSE data
\* What it frees: of a folder, what is not shared.
DelFrees(e) ==
  CASE e.type = "dir" -> {e.start} \cup {c \in LevelsOf(e.start) : ~ IsLevelShared(c, e.start)}
    [] e.type \in {"file", "hardlink"} -> {e.start} \ {NoChain}
    [] OTHER -> {}

LEMMA DelIs ==
  ASSUME NEW d, NEW n, NEW recursive, Del(d, n, recursive)
  PROVE  LET i == Find(d, n, AnyType)
             e == data[d].slots[i]
         IN  /\ i # 0 /\ Stays
             /\ FreeChains([DelBase(d, e, i) EXCEPT ![d].slots[i] = FreeEntry], DelFrees(e))
<1> DEFINE i == Find(d, n, AnyType)
           e == data[d].slots[i]
           counted == e.type \in {"file", "hardlink"} /\ e.attributes > 1
           dt == IF counted THEN DecrementRefCount(e.start, IF d = Root THEN Sector(i) ELSE {}) ELSE data
<1>1. i # 0 /\ Stays
  BY DEF Del, context, Stays
<1>2. FreeChains([dt EXCEPT ![d].slots[i] = FreeEntry], DelFrees(e))
  BY DEF Del, DelFrees
<1>3. dt = DelBase(d, e, i)
  BY DEF DelBase
<1> HIDE DEF dt, e, i, counted
<1>4. FreeChains([DelBase(d, e, i) EXCEPT ![d].slots[i] = FreeEntry], DelFrees(e))
  BY <1>2, <1>3
<1> QED BY <1>1, <1>4 DEF e, i

LEMMA DelBaseIs ==
  ASSUME TypeOK, Sound, NEW d \in AllChains, NEW e, NEW i
  PROVE  LET b == DelBase(d, e, i) IN
         /\ DataOK(b) /\ DOMAIN b[d].slots = DOMAIN data[d].slots
         /\ \A x \in AllChains : b[x].kind = data[x].kind
         /\ \A x \in AllChains : \A k, y, s : EntryAt(b, x, k, y, s) <=> EntryAt(data, x, k, y, s)
         /\ \A x \in AllChains : \A j, l : LevelAt(b, x, j, l) <=> LevelAt(data, x, j, l)
<1> DEFINE b == DelBase(d, e, i)
<1>1. DataOK(data) /\ data[Root].kind = "dir"
  BY TypeOKIs, LiveFacts, SoundFacts
<1>2. b = data \/ \E K : b = DecrementRefCount(e.start, K)
  BY DEF DelBase
<1> HIDE DEF b
<1>3. CASE b = data
  BY <1>1, <1>3 DEF b
<1>4. CASE \E K : b = DecrementRefCount(e.start, K)
  <2>1. PICK K : b = DecrementRefCount(e.start, K)
    BY <1>4
  <2>2. /\ DataOK(b) /\ \A x \in AllChains \ {Root} : b[x] = data[x]
        /\ DOMAIN b[Root].slots = DOMAIN data[Root].slots
        /\ \A x \in AllChains : b[x].kind = data[x].kind
        /\ \A x \in AllChains : \A k, y, s : EntryAt(b, x, k, y, s) <=> EntryAt(data, x, k, y, s)
        /\ \A x \in AllChains : \A j, l : LevelAt(b, x, j, l) <=> LevelAt(data, x, j, l)
    BY <1>1, <2>1, DecrementIs
  <2>3. DOMAIN b[d].slots = DOMAIN data[d].slots
    BY <2>2
  <2> QED BY <2>2, <2>3 DEF b
<1> QED BY <1>2, <1>3, <1>4

\* The entry is gone, and what is freed is the chain it leads to, or a level of its folder.
LEMMA DelFacts ==
  ASSUME TypeOK, Sound, NEW d \in Paths, NEW n, NEW recursive, Del(d, n, recursive),
         NEW i, NEW e, i = Find(d, n, AnyType), e = data[d].slots[i]
  PROVE  LET S == DelFrees(e) \cap Chains IN
         /\ EntryAt(data, d, i, e.type, e.start) /\ e.name = n
         /\ TypeOK' /\ Stays /\ FreedNow \subseteq S
         /\ \A x \in Chains : role'[x] = IF x \in S THEN "free" ELSE role[x]
         /\ \A x \in AllChains : data[x].kind = "dir" => data'[x].kind = "dir"
         /\ \A x \in AllChains : \A k, y, s : EntryAt(data', x, k, y, s) =>
              ~ (x = d /\ k = i) /\ EntryAt(data, x, k, y, s)
         /\ \A x \in AllChains : \A k, z : LevelAt(data', x, k, z) => LevelAt(data, x, k, z) /\ x \notin S
         /\ \A x \in AllChains \ S : \A k, y, s : ~ (x = d /\ k = i) /\ EntryAt(data, x, k, y, s) =>
              EntryAt(data', x, k, y, s)
         /\ \A x \in AllChains \ S : \A k, z : LevelAt(data, x, k, z) => LevelAt(data', x, k, z)
<1> DEFINE S0 == DelFrees(e)
           S == S0 \cap Chains
           b == DelBase(d, e, i)
           dt == [b EXCEPT ![d].slots[i] = FreeEntry]
<1>1. i # 0 /\ Stays /\ FreeChains(dt, S0)
  BY DelIs
<1>2. d \in AllChains /\ data[d].kind = "dir" /\ DataOK(data)
  BY PathFacts
<1>3. i \in DOMAIN data[d].slots /\ e \in Entry /\ e.type \in AnyType /\ e.name = n
  BY <1>1, <1>2, FoundEntry
<1>4. EntryAt(data, d, i, e.type, e.start)
  BY <1>2, <1>3 DEF EntryAt, AnyType
<1>5. Frees(dt, S)
  BY <1>1 DEF Frees
<1> HIDE DEF S0, S, b
<1>6. /\ DataOK(b) /\ DOMAIN b[d].slots = DOMAIN data[d].slots
      /\ \A x \in AllChains : b[x].kind = data[x].kind
      /\ \A x \in AllChains : \A k, y, s : EntryAt(b, x, k, y, s) <=> EntryAt(data, x, k, y, s)
      /\ \A x \in AllChains : \A k, z : LevelAt(b, x, k, z) <=> LevelAt(data, x, k, z)
  BY <1>2, DelBaseIs DEF b
<1>7. SlotSet(b, dt, d, i, FreeEntry)
  <2>1. i \in DOMAIN b[d].slots /\ b[d].kind = "dir"
    BY <1>2, <1>3, <1>6
  <2> QED BY <1>2, <1>6, <2>1, FreeEntryIsEntry, SetSlot
<1> HIDE DEF dt
<1>8. SlotGets(b, dt, d, i, FreeEntry) /\ DataOK(dt)
  <2>1. DataOK(dt) /\ i \in DOMAIN b[d].slots /\ b[d].kind = "dir"
    BY <1>2, <1>3, <1>6, <1>7 DEF SlotSet
  <2> QED BY <1>2, <1>7, <2>1, SlotSetAt
<1>9. /\ \A x \in AllChains : dt[x].kind = data[x].kind
      /\ \A x \in AllChains : \A k, y, s : EntryAt(dt, x, k, y, s)
               <=> ~ (x = d /\ k = i) /\ EntryAt(data, x, k, y, s)
      /\ \A x \in AllChains : \A k, z : LevelAt(dt, x, k, z) <=> LevelAt(data, x, k, z)
  BY <1>6, <1>8, FreeEntryIsEntry DEF SlotGets
<1>10. TypeOK' /\ FreedNow \subseteq S
  BY <1>1, <1>5, <1>8, <1>9, FreeingTyped
<1>11. /\ \A x \in AllChains : dt[x].kind = "dir" => data'[x].kind = "dir"
       /\ \A x \in AllChains : \A k, y, s : EntryAt(data', x, k, y, s) => EntryAt(dt, x, k, y, s)
       /\ \A x \in AllChains : \A k, z : LevelAt(data', x, k, z) => LevelAt(dt, x, k, z) /\ x \notin S
       /\ \A x \in AllChains \ S : \A k, y, s : EntryAt(data', x, k, y, s) <=> EntryAt(dt, x, k, y, s)
       /\ \A x \in AllChains \ S : \A k, z : LevelAt(data', x, k, z) <=> LevelAt(dt, x, k, z)
       /\ \A x \in Chains : role'[x] = IF x \in S THEN "free" ELSE role[x]
  BY <1>1, <1>5, <1>8, FreeChainsAt
<1>12. /\ \A x \in AllChains : data[x].kind = "dir" => data'[x].kind = "dir"
       /\ \A x \in AllChains : \A k, y, s : EntryAt(data', x, k, y, s) =>
            ~ (x = d /\ k = i) /\ EntryAt(data, x, k, y, s)
       /\ \A x \in AllChains : \A k, z : LevelAt(data', x, k, z) => LevelAt(data, x, k, z) /\ x \notin S
       /\ \A x \in AllChains \ S : \A k, y, s : ~ (x = d /\ k = i) /\ EntryAt(data, x, k, y, s) =>
            EntryAt(data', x, k, y, s)
       /\ \A x \in AllChains \ S : \A k, z : LevelAt(data, x, k, z) => LevelAt(data', x, k, z)
  BY <1>9, <1>11
<1> QED BY <1>1, <1>3, <1>4, <1>10, <1>11, <1>12 DEF S, S0

LEMMA DelStep ==
  ASSUME TypeOK, Sound, NEW d \in Paths, NEW n \in Names, NEW recursive \in BOOLEAN, Del(d, n, recursive)
  PROVE  TypeOK' /\ Shrinks /\ (~ Loses => Lost' \subseteq Lost)
<1>1. PICK i, e : i = Find(d, n, AnyType) /\ e = data[d].slots[i]
  OBVIOUS
<1> DEFINE S == DelFrees(e) \cap Chains
           t == e.start
<1>2. /\ EntryAt(data, d, i, e.type, t) /\ e.name = n
      /\ TypeOK' /\ Stays /\ FreedNow \subseteq S
      /\ \A x \in Chains : role'[x] = IF x \in S THEN "free" ELSE role[x]
      /\ \A x \in AllChains : data[x].kind = "dir" => data'[x].kind = "dir"
      /\ \A x \in AllChains : \A k, y, s : EntryAt(data', x, k, y, s) =>
           ~ (x = d /\ k = i) /\ EntryAt(data, x, k, y, s)
      /\ \A x \in AllChains : \A k, z : LevelAt(data', x, k, z) => LevelAt(data, x, k, z) /\ x \notin S
      /\ \A x \in AllChains \ S : \A k, y, s : ~ (x = d /\ k = i) /\ EntryAt(data, x, k, y, s) =>
           EntryAt(data', x, k, y, s)
      /\ \A x \in AllChains \ S : \A k, z : LevelAt(data, x, k, z) => LevelAt(data', x, k, z)
  BY <1>1, DelFacts
<1>3. /\ d \in AllChains /\ d \in Live /\ Root \in Live /\ Root \in AllChains /\ Root \notin Chains
      /\ RootDir \in AllChains /\ RootDir \notin S
      /\ data[d].kind = "dir"
  BY PathFacts, LiveFacts, VolumeAssumption DEF AllChains
<1>4. \A x \in S : x \in Chains /\ (x = t \/ (e.type = "dir" /\ x \in LevelsOf(t)))
  BY DEF DelFrees
<1>5. e.type = "dir" => /\ t \in Chains /\ t \in AllChains /\ t # NoChain /\ role[t] = "table"
                        /\ LevelsOf(t) \subseteq Live /\ t \in TablesOf(Live)
                        /\ \A x \in LevelsOf(t) : x = Root \/ (x \in Chains /\ role[x] = "dir")
  <2> HIDE DEF t, S
  <2> SUFFICES ASSUME e.type = "dir"
               PROVE  /\ t \in Chains /\ t \in AllChains /\ t # NoChain /\ role[t] = "table"
                      /\ LevelsOf(t) \subseteq Live /\ t \in TablesOf(Live)
                      /\ \A x \in LevelsOf(t) : x = Root \/ (x \in Chains /\ role[x] = "dir")
    OBVIOUS
  <2>1. EntryAt(data, d, i, "dir", t)
    BY <1>2
  <2>2. t \in Chains /\ t # NoChain /\ t \in AllChains
    BY <1>3, <2>1, EntryAtTyped DEF AllChains
  <2>3. role[t] = "table"
    BY <1>3, <2>1, <2>2, SoundAt
  <2>4. LevelsOf(t) \subseteq Below(d)
    BY <1>3, <2>1, <2>2, LevelsOfAt, BelowAt
  <2>5. LevelsOf(t) \subseteq Live
    BY <1>3, <2>4, LiveFacts
  <2>6. t \in TablesOf(Live)
    BY <1>3, <2>1, FoldersAt, LiveFacts DEF TablesOf
  <2>7. \A x \in LevelsOf(t) : x = Root \/ (x \in Chains /\ role[x] = "dir")
    BY <1>3, <2>2, <2>5, LevelsAre, SoundFacts
  <2> QED BY <2>2, <2>3, <2>5, <2>6, <2>7
<1>6. e.type \in {"file", "hardlink"} /\ t # NoChain => role[t] = "file" /\ t \in S
  <2>1. e.type \in {"file", "hardlink"} /\ t # NoChain => role[t] = "file" /\ t \in Chains
    BY <1>2, <1>3, SoundAt, EntryAtTyped
  <2> QED BY <2>1 DEF DelFrees
<1>7. e.type = "dir" => t \in S /\ \A x \in LevelsOf(t) : x = Root \/ x \in S \/ IsLevelShared(x, t)
  BY <1>5 DEF DelFrees
<1> HIDE DEF S, t
<1>10. /\ e.type = "dir" => \A x \in S : x = t \/ role[x] = "dir"
       /\ Root \notin S
  BY <1>3, <1>4, <1>5
<1>8. Shrinks
  <2>1. ASSUME NEW x \in FreedNow PROVE Unlinked(x)
    <3>0. x \in S
      BY <1>2
    <3>1. CASE x = t
      <4>1. \A y, s : ~ EntryAt(data', d, i, y, s)
        BY <1>2, <1>3
      <4> QED BY <1>2, <1>3, <3>1, <4>1 DEF Unlinked
    <3>2. CASE x # t
      <4>1. e.type = "dir" /\ x \in LevelsOf(t)
        BY <1>4, <3>0, <3>2
      <4>2. t \in TablesOf(Live) /\ t \in AllChains /\ t \in S
        BY <1>5, <1>7, <4>1
      <4>3. PICK j : LevelAt(data, t, j, x)
        BY <4>1, <4>2, LevelsOfAt
      <4>4. \A z : ~ LevelAt(data', t, j, z)
        BY <1>2, <4>2
      <4> QED BY <4>2, <4>3, <4>4 DEF Unlinked
    <3> QED BY <3>1, <3>2
  <2>2. \A x \in Chains : role'[x] = role[x] \/ x \in FreedNow
    BY <1>2 DEF FreedNow
  <2> QED BY <1>2, <2>1, <2>2 DEF Shrinks, Stays
<1>9. ASSUME ~ Loses PROVE Lost' \subseteq Lost
  <2>1. EmptyFreed
    BY <1>9, NotLoses
  <2>2. \A x \in S : role[x] # "free" => x \in FreedNow
    BY <1>2, <1>4 DEF FreedNow
  <2>3. e.type # "symlink"
    <3> SUFFICES ASSUME e.type = "symlink" PROVE FALSE
      OBVIOUS
    <3>1. i \in DOMAIN data[d].slots /\ data[d].slots[i].type = "symlink" /\ data[d].slots[i].name = n
      BY <1>1, <1>2 DEF EntryAt
    <3>2. Find(d, n, {"symlink"}) # 0
      BY <1>3, <3>1, NoneFound
    <3>3. Del(d, n, TRUE) \/ Del(d, n, FALSE)
      BY DEF Del
    <3> QED BY <1>9, <3>2, <3>3 DEF Loses
  <2>4. e.type \in {"dir", "file", "hardlink"}
    BY <1>2, <1>3, <2>3, EntryAtTyped DEF AnyType
  <2>5. EntriesKept
    <3> SUFFICES ASSUME NEW x \in Contents \ FreedNow, NEW k, NEW y, NEW s,
                        EntryAt(data, x, k, y, s), s # NoChain
                 PROVE  s \in FreedNow \/ EntryAt(data', x, k, y, s)
      BY DEF EntriesKept
    <3>1. x \in AllChains /\ x \in Live
      BY ContentsFacts, ContentsLive
    <3>2. CASE x = d /\ k = i
      <4>1. s = t
        BY <1>2, <3>2 DEF EntryAt
      <4>2. t \in S /\ role[t] # "free"
        BY <1>5, <1>6, <1>7, <2>4, <4>1
      <4> QED BY <2>2, <4>1, <4>2
    <3>3. CASE ~ (x = d /\ k = i)
      <4>1. x \notin S
        <5>1. x # Root => role[x] = "dir"
          BY <3>1, SoundFacts
        <5> QED BY <1>3, <1>4, <2>2, <5>1
      <4> QED BY <1>2, <3>1, <3>3, <4>1
    <3> QED BY <3>2, <3>3
  <2>6. LevelsKept
    <3> SUFFICES ASSUME NEW x \in Contents, NEW k, NEW u, NEW q, NEW z,
                        EntryAt(data, x, k, "dir", u), LevelAt(data, u, q, z)
                 PROVE  \/ z = Root \/ z \in FreedNow \/ z \in Below(Root)'
                        \/ u \notin FreedNow /\ \E w : LevelAt(data', u, w, z)
      BY <1>2, <1>3 DEF LevelsKept
    <3>1. x \in AllChains /\ x \in Live
      BY ContentsFacts, ContentsLive
    <3>2. u \in Chains /\ u # NoChain /\ u \in AllChains
      BY <3>1, EntryAtTyped DEF AllChains
    <3>3. role[u] = "table"
      BY <3>1, <3>2, SoundAt
    <3>4. CASE u \notin S
      BY <1>2, <3>2, <3>4
    <3>5. CASE u \in S
      <4>1. e.type = "dir" /\ u = t
        <5>1. CASE e.type = "dir"
          BY <1>10, <3>3, <3>5, <5>1
        <5>2. CASE e.type # "dir"
          BY <1>4, <1>6, <2>4, <3>2, <3>3, <3>5, <5>2
        <5> QED BY <5>1, <5>2
      <4>2. z \in LevelsOf(t)
        BY <3>2, <4>1, LevelsOfAt
      <4>3. CASE z = Root \/ z \in S
        BY <1>3, <1>4, <1>5, <2>2, <4>1, <4>2, <4>3
      <4>4. CASE IsLevelShared(z, t)
        <5>1. PICK f \in EntriesOf(Root) : f.type = "dir" /\ f.start # t /\ z \in LevelsOf(f.start)
          BY <4>4 DEF IsLevelShared
        <5>2. PICK r \in DOMAIN data[Root].slots : data[Root].slots[r] = f
          BY <1>3, EntriesAre
        <5> DEFINE v == f.start
        <5>3. EntryAt(data, Root, r, "dir", v)
          BY <1>3, <5>1, <5>2, EntriesAre DEF EntryAt
        <5> HIDE DEF v
        <5>4. v # t /\ z \in LevelsOf(v)
          BY <5>1 DEF v
        <5>5. v \in Chains /\ v # NoChain /\ v \in AllChains
          BY <1>3, <5>3, EntryAtTyped DEF AllChains
        <5>6. role[v] = "table"
          BY <1>3, <5>3, <5>5, SoundAt
        <5>7. v \notin S
          BY <1>10, <4>1, <5>4, <5>6
        <5>8. PICK w : LevelAt(data, v, w, z)
          BY <5>4, <5>5, LevelsOfAt
        <5>9. LevelAt(data', v, w, z)
          BY <1>2, <5>5, <5>7, <5>8
        <5>10. ~ (Root = d /\ r = i)
          BY <1>2, <5>3, <5>4 DEF EntryAt
        <5>11. EntryAt(data', Root, r, "dir", v)
          BY <1>2, <1>3, <1>10, <5>3, <5>10
        <5>12. z \in Below(Root)'
          BY <1>2, <1>3, <5>9, <5>11, LevelBelow
        <5> QED BY <5>12
      <4> QED BY <1>7, <4>1, <4>2, <4>3, <4>4
    <3> QED BY <3>4, <3>5
  <2>7. NewEntered
    BY <1>2 DEF NewEntered
  <2> QED BY <1>2, <2>1, <2>5, <2>6, <2>7, NothingLost
<1> QED BY <1>2, <1>8, <1>9

-----------------------------------------------------------------------------
(* The theorems.                                                           *)

\* What every command keeps and does.
StepOK ==
  /\ TypeOK'
  /\ \/ OldContent \/ Extends \/ Shrinks
     \/ \E d, e \in PlainPaths, n, m \in Names : Move(d, n, e, m)
  /\ ~ Loses => Lost' \subseteq Lost

\* Every command does what StepOK says.
LEMMA NextSteps ==
  ASSUME TypeOK, Next
  PROVE  Sound /\ StepOK
<1>1. Sound
  BY DEF Next
<1>2. \A d \in PlainPaths : d \in Paths
  BY <1>1, PlainIsPath
<1>3. ASSUME NEW d \in Paths, NEW n \in Names, CreateFile(d, n) PROVE StepOK
  BY <1>1, <1>3, CreateFileStep DEF StepOK
<1>4. ASSUME NEW d \in Paths, NEW n \in Names, CreateFolder(d, n) PROVE StepOK
  BY <1>1, <1>4, CreateFolderStep DEF StepOK
<1>5. ASSUME NEW d \in Paths, NEW n \in Names, Write(d, n) PROVE StepOK
  BY <1>1, <1>5, WriteStep DEF StepOK
<1>6. ASSUME NEW d \in Paths, NEW n \in Names, NEW e \in Paths, NEW m \in Names, NEW l \in LevelNames,
             LinkLevel(d, n, e, m, l) PROVE StepOK
  BY <1>1, <1>6, LinkLevelStep DEF StepOK
<1>7. ASSUME NEW d \in PlainPaths, NEW n \in Names, Symlink(d, n) PROVE StepOK
  BY <1>1, <1>2, <1>7, SymlinkStep DEF StepOK
<1>8. ASSUME NEW d \in PlainPaths, NEW n \in Names, HardlinkNoPath(d, n) PROVE StepOK
  BY <1>1, <1>2, <1>8, HardlinkNoPathStep DEF StepOK
<1>9. ASSUME NEW d \in PlainPaths, NEW n \in Names, NEW recursive \in BOOLEAN, Del(d, n, recursive) PROVE StepOK
  BY <1>1, <1>2, <1>9, DelStep DEF StepOK
<1>10. ASSUME NEW d \in PlainPaths, NEW n \in Names, NEW m \in Names, Rename(d, n, m) PROVE StepOK
  BY <1>1, <1>2, <1>10, RenameStep DEF StepOK
<1>11. ASSUME NEW d \in PlainPaths, NEW n \in Names, NEW e \in PlainPaths, NEW m \in Names,
              Hardlink(d, n, e, m) PROVE StepOK
  BY <1>1, <1>2, <1>11, HardlinkStep DEF StepOK
<1>12. ASSUME NEW d \in PlainPaths, NEW n \in Names, NEW e \in PlainPaths, NEW m \in Names,
              Move(d, n, e, m) PROVE StepOK
  <2>1. TypeOK' /\ (~ Loses => Lost' \subseteq Lost)
    BY <1>1, <1>2, <1>12, MoveStep
  <2> QED BY <1>12, <2>1 DEF StepOK
<1>13. ASSUME NEW n \in Names \cup {Dot}, NEW l \in LevelNames, AddLevel(n, l) PROVE StepOK
  BY <1>1, <1>13, AddLevelStep DEF StepOK
<1>14. ASSUME NEW n \in Names \cup {Dot}, NEW l \in LevelNames, DeleteLevel(n, l) PROVE StepOK
  BY <1>1, <1>14, DeleteLevelStep DEF StepOK
<1>15. ASSUME NEW n \in Names \cup {Dot}, NEW l \in LevelNames, LevelRemove(n, l) PROVE StepOK
  BY <1>1, <1>15, LevelRemoveStep DEF StepOK
<1>16. ASSUME NEW n \in Names, NEW l \in LevelNames, Nav(n, l) PROVE StepOK
  BY <1>1, <1>16, NavStep DEF StepOK
<1>17. ASSUME NEW n \in Names \cup {Dot}, NEW l \in LevelNames, NEW m \in LevelNames,
              LevelRename(n, l, m) PROVE StepOK
  BY <1>1, <1>17, LevelRenameStep DEF StepOK
<1>18. ASSUME NEW n \in Names \cup {Dot}, NEW l \in LevelNames, NEW m \in LevelNames,
              BranchLevel(n, l, m) PROVE StepOK
  BY <1>1, <1>18, BranchLevelStep DEF StepOK
<1>19. ASSUME NavUp PROVE StepOK
  BY <1>1, <1>19, NavUpStep DEF StepOK
<1>21. ASSUME NEW n \in Names, NavNew(n) PROVE StepOK
  BY <1>1, <1>21, NavNewStep DEF StepOK
<1>22. ASSUME NEW l \in LevelNames, NavLevel(l) PROVE StepOK
  BY <1>1, <1>22, NavLevelStep DEF StepOK
<1>20. \/ \E d \in Paths, n \in Names :
             \/ CreateFile(d, n) \/ CreateFolder(d, n) \/ Write(d, n)
             \/ \E e \in Paths, m \in Names, l \in LevelNames : LinkLevel(d, n, e, m, l)
       \/ \E d \in PlainPaths, n \in Names :
             \/ Symlink(d, n) \/ HardlinkNoPath(d, n)
             \/ \E recursive \in BOOLEAN : Del(d, n, recursive)
             \/ \E m \in Names : Rename(d, n, m)
             \/ \E e \in PlainPaths, m \in Names : Hardlink(d, n, e, m) \/ Move(d, n, e, m)
       \/ \E n \in Names \cup {Dot}, l \in LevelNames :
             \/ AddLevel(n, l) \/ DeleteLevel(n, l) \/ LevelRemove(n, l)
             \/ \E m \in LevelNames : LevelRename(n, l, m) \/ BranchLevel(n, l, m)
       \/ \E n \in Names : NavNew(n) \/ \E l \in LevelNames : Nav(n, l)
       \/ (\E l \in LevelNames : NavLevel(l)) \/ NavUp
  BY DEF Next
<1> QED BY <1>1, <1>3, <1>4, <1>5, <1>6, <1>7, <1>8, <1>9, <1>10, <1>11, <1>12, <1>13, <1>14,
           <1>15, <1>16, <1>17, <1>18, <1>19, <1>20, <1>21, <1>22

\* The formatted volume has the types.
LEMMA InitTyped == Init => TypeOK
<1> SUFFICES ASSUME Init PROVE TypeOK
  OBVIOUS
<1>1. /\ Root \in AllChains /\ RootDir \in AllChains /\ RootDir # Root
      /\ \A c \in Chains : c \in AllChains /\ c \notin {Root, RootDir}
  BY VolumeAssumption DEF AllChains
<1>2. /\ data[Root] = [kind |-> "dir", slots |-> Free(RootSlots)] /\ data[RootDir] = Table(Root)
      /\ \A c \in Chains : data[c] = EmptyDir
      /\ DOMAIN data = AllChains /\ data = [c \in AllChains |-> data[c]]
  BY <1>1 DEF Init
<1>3. [kind |-> "dir", slots |-> Free(RootSlots)] \in Shapes
  <2>1. Free(RootSlots) \in Seq(Entry)
    BY Sizes, FreeIsFree
  <2> QED BY <2>1 DEF Shapes, DirData
<1>4. Table(Root) \in Shapes /\ Table(Root).kind = "table"
  BY TableIs
<1>5. \A c \in AllChains : data[c] \in Shapes
  BY <1>2, <1>3, <1>4, EmptyDirIs DEF AllChains
<1>6. DataOK(data)
  <2>1. data \in [AllChains -> Shapes]
    BY <1>2, <1>5
  <2>2. \A c \in Chains : Whole(data[c].slots)
    BY <1>2, EmptyDirIs
  <2>3. data[RootDir].kind = "table"
    BY <1>2, <1>4
  <2> QED BY <2>1, <2>2, <2>3 DEF DataOK
<1>7. role \in [Chains -> {"free", "file", "dir", "table"}] /\ \A c \in Chains : role[c] = "free"
  BY DEF Init
<1>8. cwd \in Chains \cup {Root} /\ dir \in Chains \cup {RootDir} /\ rootVersion \in LevelNames
  BY VolumeAssumption DEF Init
<1> QED BY <1>6, <1>7, <1>8, TypeOKIs

\* Whatever commands are given, directory contents are whole clusters of entries, version
\* tables have their levels, and what is allocated for a version table holds one.
THEOREM Typed == Spec => []TypeOK
<1>1. Init => TypeOK
  BY InitTyped
<1>2. TypeOK /\ [Next]_vars => TypeOK'
  <2>1. ASSUME TypeOK, Next PROVE TypeOK'
    BY <2>1, NextSteps DEF StepOK
  <2>2. ASSUME TypeOK, UNCHANGED vars PROVE TypeOK'
    BY <2>2 DEF vars, context, TypeOK
  <2> QED BY <2>1, <2>2
<1> QED BY <1>1, <1>2, PTL DEF Spec

\* No command gives a folder a second entry, the data of a file a second entry that is no
\* hard link, or a directory content a third folder, unless it adds a level over old data.
THEOREM KeepsExclusive == Spec => ExclusiveStays
<1>1. TypeOK /\ [Next]_vars => [Exclusive' \/ OldContent \/ ~ Exclusive]_vars
  <2> SUFFICES ASSUME TypeOK, Next, Exclusive, ~ OldContent PROVE Exclusive'
    OBVIOUS
  <2>1. TypeOK' /\ Sound
    BY NextSteps DEF StepOK
  <2>2. CASE Extends
    <3>1. PICK d, k, a, b : Grows(<<d, k>>, {a, b})
      BY <2>2 DEF Extends
    <3> QED BY <2>1, <3>1, GrowsExclusive
  <2>3. CASE Shrinks
    <3>1. Grows(<<Root, 0>>, {Root, Root})
      BY <2>3, ShrinksGrows
    <3> QED BY <2>1, <3>1, GrowsExclusive
  <2>4. CASE \E d, e \in PlainPaths, n, m \in Names : Move(d, n, e, m)
    <3>1. PICK d \in PlainPaths, e \in PlainPaths, n \in Names, m \in Names : Move(d, n, e, m)
      BY <2>4
    <3>2. d \in Paths /\ e \in Paths
      BY <2>1, PlainIsPath
    <3>3. \E j : Grows(<<e, j>>, {e, e})
      BY <2>1, <3>1, <3>2, MoveStep
    <3> QED BY <2>1, <3>3, GrowsExclusive
  <2> QED BY <2>2, <2>3, <2>4, NextSteps DEF StepOK
<1> QED BY <1>1, Typed, PTL DEF Spec, ExclusiveStays

\* A command leaves a reference to a freed chain only if it frees what has another
\* reference or leads to the current directory, or adds a level over old directory data.
THEOREM OnlySharedDangle == Spec => DanglesOnlyIfShared
<1>1. TypeOK /\ [Next]_vars => [Sound' \/ OldContent \/ FreesShared]_vars
  <2> SUFFICES ASSUME TypeOK, Next, ~ OldContent PROVE Sound' \/ FreesShared
    OBVIOUS
  <2>1. TypeOK' /\ Sound
    BY NextSteps DEF StepOK
  <2>2. CASE Extends
    BY <2>1, <2>2, GrowsSound DEF Extends
  <2>3. CASE Shrinks
    BY <2>1, <2>3, FreesSound DEF FreedNow, FreesShared
  <2>4. CASE \E d, e \in PlainPaths, n, m \in Names : Move(d, n, e, m)
    <3>1. PICK d \in PlainPaths, e \in PlainPaths, n \in Names, m \in Names : Move(d, n, e, m)
      BY <2>4
    <3>2. d \in Paths /\ e \in Paths
      BY <2>1, PlainIsPath
    <3>3. RolesStay /\ \E j : Grows(<<e, j>>, {e, e})
      BY <2>1, <3>1, <3>2, MoveStep
    <3> QED BY <2>1, <3>3, GrowsSound
  <2> QED BY <2>2, <2>3, <2>4, NextSteps DEF StepOK
<1> QED BY <1>1, Typed, PTL DEF Spec, DanglesOnlyIfShared

\* Only the commands that Loses lists leave a chain allocated that nothing refers to.
THEOREM NoOtherLosses == Spec => OnlyTheseLose
<1>1. TypeOK /\ [Next]_vars => [Sound' => (\A c \in Lost' : c \in Lost) \/ Loses]_vars
  BY NextSteps DEF StepOK
<1> QED BY <1>1, Typed, PTL DEF Spec, OnlyTheseLose

\* A folder that move finds as an entry of any type is the first folder of that name.
LEMMA MoveFindsDir ==
  ASSUME TypeOK, NEW d \in AllChains, data[d].kind = "dir", NEW n, NEW i, i = Find(d, n, AnyType),
         i # 0, data[d].slots[i].type = "dir"
  PROVE  Find(d, n, {"dir"}) = i
<1> DEFINE A == {j \in 1 .. Len(data[d].slots) : data[d].slots[j].type \in AnyType /\ data[d].slots[j].name = n}
           D == {j \in 1 .. Len(data[d].slots) : data[d].slots[j].type \in {"dir"} /\ data[d].slots[j].name = n}
           k == Find(d, n, {"dir"})
<1>1. Len(data[d].slots) \in Nat
  BY TypeOKIs, ShapeOf
<1>2. IsFirst(i, A) /\ IsFirst(k, D)
  BY <1>1, SelectEntry
<1>3. D \subseteq A /\ A \in SUBSET Nat
  BY <1>1 DEF AnyType
<1>4. i \in A /\ i \in D
  BY <1>2 DEF IsFirst
<1> HIDE DEF A, D, k
<1>5. k \in D /\ k <= i /\ i <= k
  BY <1>2, <1>3, <1>4 DEF IsFirst
<1>6. k = i
  BY <1>3, <1>4, <1>5
<1> QED BY <1>6 DEF k

\* Only a move of a folder below itself, and a level over old data, make a cycle.
THEOREM NoOtherCycles == Spec => OnlyMovesMakeCycles
<1>1. TypeOK /\ [Next]_vars => [Acyclic' \/ ~ Sound' \/ OldContent \/ ~ Acyclic \/ MovesBelow]_vars
  <2> SUFFICES ASSUME TypeOK, Next, Acyclic, ~ OldContent, ~ MovesBelow PROVE Acyclic'
    OBVIOUS
  <2>1. TypeOK' /\ Sound
    BY NextSteps DEF StepOK
  <2>2. CASE Extends
    <3>1. PICK d, k, a, b : /\ Grows(<<d, k>>, {a, b})
                            /\ \A t : EntryAt(data', d, k, "dir", t) =>
                                 EntryAt(data, d, k, "dir", t) \/ Fresh("dir", t)
      BY <2>2 DEF Extends
    <3>2. <<d, k>>[1] = d /\ <<d, k>>[2] = k
      OBVIOUS
    <3> DEFINE p == <<d, k>>
    <3>3. \A t : EntryAt(data', p[1], p[2], "dir", t) => EntryAt(data, p[1], p[2], "dir", t) \/ Fresh("dir", t)
      BY <3>1
    <3> HIDE DEF p
    <3>4. Grows(p, {a, b})
      BY <3>1 DEF p
    <3> QED BY <2>1, <3>3, <3>4, GrowsAcyclic
  <2>3. CASE Shrinks
    <3> DEFINE p == <<Root, 0>>
    <3>1. \A t : EntryAt(data', p[1], p[2], "dir", t) => EntryAt(data, p[1], p[2], "dir", t)
      BY <2>3 DEF Shrinks, AllChains
    <3> HIDE DEF p
    <3>2. Grows(p, {Root})
      BY <2>3, ShrinksGrows
    <3> QED BY <2>1, <3>1, <3>2, GrowsAcyclic
  <2>4. CASE \E d, e \in PlainPaths, n, m \in Names : Move(d, n, e, m)
    <3>1. PICK d \in PlainPaths, e \in PlainPaths, n \in Names, m \in Names : Move(d, n, e, m)
      BY <2>4
    <3>2. d \in Paths /\ e \in Paths /\ d \in Live /\ e \in Live /\ d \in AllChains /\ data[d].kind = "dir"
      BY <2>1, PlainIsPath, PathFacts
    <3>3. PICK i : i = Find(d, n, AnyType)
      OBVIOUS
    <3>4. PICK j : /\ Grows(<<e, j>>, {e, e})
                   /\ \A t : EntryAt(data', e, j, "dir", t) =>
                        i # 0 /\ EntryAt(data, d, i, "dir", t) /\ t = data[d].slots[i].start
      BY <2>1, <3>1, <3>2, <3>3, MoveStep
    <3>5. CASE \A t : ~ EntryAt(data', e, j, "dir", t)
      <4> DEFINE p == <<e, j>>
      <4>1. \A t : EntryAt(data', p[1], p[2], "dir", t) => EntryAt(data, p[1], p[2], "dir", t)
        BY <3>5
      <4> HIDE DEF p
      <4>2. Grows(p, {e, e})
        BY <3>4 DEF p
      <4> QED BY <2>1, <4>1, <4>2, GrowsAcyclic
    <3>6. CASE \E t : EntryAt(data', e, j, "dir", t)
      <4>1. PICK t : EntryAt(data', e, j, "dir", t)
        BY <3>6
      <4>2. i # 0 /\ EntryAt(data, d, i, "dir", t) /\ t = data[d].slots[i].start
        BY <3>4, <4>1
      <4>3. data[d].slots[i].type = "dir"
        BY <4>2 DEF EntryAt
      <4>4. Find(d, n, {"dir"}) = i
        BY <3>2, <3>3, <4>2, <4>3, MoveFindsDir
      <4>5. e \notin Closure(LevelsOf(t), Tree)
        BY <3>1, <4>2, <4>4 DEF MovesBelow
      <4>6. \A u : EntryAt(data', e, j, "dir", u) => u = t
        BY <3>4, <4>2
      <4>7. t \in Chains
        BY <3>2, <4>2, EntryAtTyped
      <4> QED BY <2>1, <3>2, <3>4, <4>2, <4>5, <4>6, <4>7, MoveAcyclic
    <3> QED BY <3>5, <3>6
  <2> QED BY <2>2, <2>3, <2>4, NextSteps DEF StepOK
<1> QED BY <1>1, Typed, PTL DEF Spec, OnlyMovesMakeCycles

-----------------------------------------------------------------------------
(* Sessions without the three exceptions.                                  *)

\* A formatted volume is an empty root.
LEMMA InitIsSound == Init => Sound /\ Exclusive /\ Acyclic
<1> SUFFICES ASSUME Init PROVE Sound /\ Exclusive /\ Acyclic
  OBVIOUS
<1>1. TypeOK
  BY InitTyped
<1>2. /\ data[Root] = [kind |-> "dir", slots |-> Free(RootSlots)] /\ data[RootDir] = Table(Root)
      /\ cwd = Root /\ dir = RootDir
  BY VolumeAssumption DEF Init, AllChains
<1>3. \A i, y, s : ~ EntryAt(data, Root, i, y, s)
  <2>1. \A i \in DOMAIN Free(RootSlots) : Free(RootSlots)[i].type = "free"
    BY Sizes, FreeIsFree DEF FreeEntry
  <2> QED BY <1>2, <2>1 DEF EntryAt
<1>4. Below(Root) = {}
  BY <1>1, <1>3, BelowAt DEF AllChains
<1>11. /\ RootDir \in AllChains /\ LevelsOf(RootDir) = {Root}
       /\ \A j, c : LevelAt(data, RootDir, j, c) => c = Root
  <2>1. RootDir \in AllChains
    BY DEF AllChains
  <2>2. \A j, c : LevelAt(data, RootDir, j, c) <=> j = 1 /\ c = Root
    BY <1>2, TableIs
  <2> QED BY <1>1, <2>1, <2>2, LevelsOfAt
<1>5. Live = {Root}
  <2>0. Starts = {Root}
    BY <1>2, <1>11 DEF Starts
  <2>1. /\ Root \in Live
        /\ \A Q : Starts \subseteq Q /\ (\A d \in Q \cap Live : Below(d) \subseteq Q) => Live \subseteq Q
    BY <1>1, LiveFacts
  <2>2. Live \subseteq {Root}
    BY <1>4, <2>0, <2>1
  <2> QED BY <2>1, <2>2
<1>6. Sound
  <2>1. \A d \in Live : d = Root
    BY <1>5
  <2> QED BY <1>1, <1>2, <1>3, <2>1, SoundAt
<1>7. Acyclic
  BY <1>5 DEF Acyclic
<1>8. OneEntry
  BY <1>3, <1>5 DEF OneEntry
<1>9. ASSUME NEW c \in Chains PROVE Cardinality(LevelRefs(c, Live)) <= 2
  <2>1. TablesOf(Live) = {RootDir}
    <3>1. \A t : t \notin FoldersOf(Live)
      BY <1>1, <1>3, <1>5, FoldersAt, LiveFacts
    <3> QED BY <1>2, <3>1 DEF TablesOf
  <2>2. Live \in SUBSET AllChains /\ c # Root
    BY <1>1, LiveFacts, VolumeAssumption
  <2>3. \A p : p \notin LevelRefs(c, Live)
    BY <1>1, <1>11, <2>1, <2>2, LevelRefsAt
  <2>4. LevelRefs(c, Live) = {}
    BY <2>3
  <2> QED BY <2>4, FS_EmptySet
<1>10. Exclusive
  BY <1>1, <1>8, <1>9, ExclusiveAt
<1> QED BY <1>6, <1>7, <1>10

\* A command that is not there.
LEMMA NothingGrows ==
  ASSUME TypeOK, UNCHANGED vars
  PROVE  /\ TypeOK' /\ RolesStay /\ Grows(<<Root, 0>>, {Root, Root})
         /\ \A t : EntryAt(data', Root, 0, "dir", t) => EntryAt(data, Root, 0, "dir", t)
<1>1. data' = data /\ role' = role /\ Stays
  BY DEF vars, context, Stays
<1>2. TypeOK'
  BY <1>1 DEF TypeOK, Stays
<1>3. RolesStay
  BY <1>1 DEF RolesStay
<1>4. Grows(<<Root, 0>>, {Root, Root})
  <2>1. ContextReached
    BY <1>1, StaysOK
  <2>2. \A t \in AllChains : ~ (t \in Chains /\ role[t] = "free" /\ role'[t] = "table")
    BY <1>1
  <2> QED BY <1>1, <2>1, <2>2 DEF Grows, ContextReached
<1> QED BY <1>1, <1>2, <1>3, <1>4

\* A session that frees nothing that is shared, nor what it works in, and adds no level over
\* old data, keeps every reference right and every folder's entry its only one.
THEOREM CarefulSessions ==
  Spec /\ [][~ FreesShared /\ ~ OldContent]_vars => [](Sound /\ Exclusive)
<1>1. Init => Sound /\ Exclusive
  BY InitIsSound
<1>2. TypeOK /\ [Sound' \/ OldContent \/ FreesShared]_vars
      /\ [Exclusive' \/ OldContent \/ ~ Exclusive]_vars
      /\ [~ FreesShared /\ ~ OldContent]_vars /\ Sound /\ Exclusive => Sound' /\ Exclusive'
  <2>1. ASSUME TypeOK, UNCHANGED vars, Sound, Exclusive PROVE Sound' /\ Exclusive'
    BY <2>1, NothingGrows, GrowsSound, GrowsExclusive
  <2> QED BY <2>1
<1>3. Spec => [][Sound' \/ OldContent \/ FreesShared]_vars
  BY OnlySharedDangle DEF DanglesOnlyIfShared
<1>4. Spec => [][Exclusive' \/ OldContent \/ ~ Exclusive]_vars
  BY KeepsExclusive DEF ExclusiveStays
<1> QED BY <1>1, <1>2, <1>3, <1>4, Typed, PTL DEF Spec

\* If besides no folder is moved below itself, no content is ever below itself.
THEOREM TidySessions ==
  Spec /\ [][~ FreesShared /\ ~ OldContent /\ ~ MovesBelow]_vars => []Acyclic
<1>1. Init => Acyclic
  BY InitIsSound
<1>2. TypeOK /\ [Acyclic' \/ ~ Sound' \/ OldContent \/ ~ Acyclic \/ MovesBelow]_vars
      /\ [~ FreesShared /\ ~ OldContent /\ ~ MovesBelow]_vars
      /\ Sound /\ Sound' /\ Acyclic => Acyclic'
  <2>1. ASSUME TypeOK, UNCHANGED vars, Sound, Acyclic PROVE Acyclic'
    <3> DEFINE p == <<Root, 0>>
    <3>1. TypeOK' /\ \A t : EntryAt(data', p[1], p[2], "dir", t) => EntryAt(data, p[1], p[2], "dir", t)
      BY <2>1, NothingGrows
    <3>2. Grows(p, {Root, Root})
      BY <2>1, NothingGrows
    <3> HIDE DEF p
    <3> QED BY <2>1, <3>1, <3>2, GrowsAcyclic
  <2> QED BY <2>1
<1>3. Spec => [][Acyclic' \/ ~ Sound' \/ OldContent \/ ~ Acyclic \/ MovesBelow]_vars
  BY NoOtherCycles DEF OnlyMovesMakeCycles
<1>4. [~ FreesShared /\ ~ OldContent /\ ~ MovesBelow]_vars => [~ FreesShared /\ ~ OldContent]_vars
  OBVIOUS
<1> QED BY <1>1, <1>2, <1>3, <1>4, CarefulSessions, Typed, PTL DEF Spec
=============================================================================
