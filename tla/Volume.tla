------------------------------- MODULE Volume -------------------------------
(***************************************************************************)
(* The directory structure of a LevelFS volume (mount.cpp): directory      *)
(* contents hold entries, an entry of type dir leads to a version table, a *)
(* version table's levels lead to directory contents again.  Every command *)
(* runs to its end before the next: one action per command.                *)
(*                                                                         *)
(* A chain of clusters is one member of Chains here (ClusterAlloc has the  *)
(* clusters); data is what its clusters hold, which freeing does not clear.*)
(* A path is the directory content it leads to and a last name.  Only the  *)
(* first cluster of a directory content is read by some of the commands,   *)
(* so contents are sequences of PerCluster entries for every cluster.      *)
(***************************************************************************)
EXTENDS Integers, FiniteSets, SequencesExt

CONSTANTS Chains, NoChain,
          Root, RootDir,        \* the root's content at mount, the root's version table
          Names, LevelNames, Master, Main, NoName,
          Dot,                  \* "." in the place of a folder's name
          PerCluster,           \* entries of a cluster of a directory content
          RootSlots, PerSector, \* entries of the root's content, of a sector of it
          LevelSlots,           \* levels of a version table
          MaxSlots, MaxAttributes   \* bounds: entries of a content, attributes

PERM_DEFAULT == 3
CanWrite(e) == (e.attributes \div 2) % 2 = 1      \* PERM_WRITE

FreeEntry == [type |-> "free", name |-> NoName, start |-> NoChain, attributes |-> 0]
NewEntry(type, n, c) ==
  [type |-> type, name |-> n, start |-> c,
   attributes |-> IF type = "dir" THEN 7 ELSE PERM_DEFAULT]
FreeLevel == [name |-> NoName, content |-> NoChain]

Free(k) == [i \in 1 .. k |-> FreeEntry]
EmptyDir == [kind |-> "dir", slots |-> Free(PerCluster)]
Text == [kind |-> "text", slots |-> <<>>]
Table(c) ==
  [kind |-> "table",
   slots |-> [j \in 1 .. LevelSlots |->
               IF j = 1 THEN [name |-> Master, content |-> c] ELSE FreeLevel]]

ASSUME VolumeAssumption ==
  /\ IsFiniteSet(Chains)
  /\ {Master, Main} \subseteq LevelNames
  /\ NoName \notin Names \cup LevelNames /\ Dot \notin Names
  /\ Root \notin Chains /\ RootDir \notin Chains \cup {Root}
  /\ NoChain \notin Chains \cup {Root, RootDir}
  /\ PerCluster \in Nat \ {0} /\ RootSlots \in Nat \ {0} /\ PerSector \in Nat \ {0}
  /\ LevelSlots \in Nat \ {0}
  /\ MaxSlots \in Nat \ {0} /\ MaxAttributes \in Nat /\ MaxAttributes >= PERM_DEFAULT

AllChains == Chains \cup {Root, RootDir}

VARIABLES data,         \* what the clusters of a chain, or of the root, hold
          role,         \* what a chain is allocated for, "free" if it is not
          cwd,          \* context.currentContentCluster
          dir,          \* context.currentDirCluster; the current path is "/" iff it is RootDir
          rootVersion   \* context.rootVersion

context == <<cwd, dir, rootVersion>>
vars == <<data, role, context>>

Init ==
  /\ data = [c \in AllChains |->
               CASE c = Root -> [kind |-> "dir", slots |-> Free(RootSlots)]
                 [] c = RootDir -> Table(Root)
                 [] OTHER -> EmptyDir]
  /\ role = [c \in Chains |-> "free"]
  /\ cwd = Root /\ dir = RootDir /\ rootVersion = Master

-----------------------------------------------------------------------------
(* Looking things up.  The first match counts; 0 is none.                  *)

Find(d, n, types) ==
  SelectInSeq(data[d].slots, LAMBDA e : e.type \in types /\ e.name = n)
AnyType == {"file", "dir", "symlink", "hardlink"}

FreeSlot(s) == SelectInSeq(s, LAMBDA e : e.type = "free")
FindLevel(t, l) == SelectInSeq(data[t].slots, LAMBDA v : v.name = l)
FirstCluster(s) == SubSeq(s, 1, PerCluster)

\* The scan of the first cluster, the root's only one, for an entry in del and deleteLevel.
HasContents(d) ==
  \E i \in DOMAIN data[d].slots : (d = Root \/ i <= PerCluster) /\ data[d].slots[i].type # "free"

LevelsOf(t) ==
  IF data[t].kind # "table" THEN {}
  ELSE {v.content : v \in ToSet(data[t].slots)} \ {NoChain}

EntriesOf(d) ==
  IF data[d].kind # "dir" THEN {} ELSE {e \in ToSet(data[d].slots) : e.type # "free"}

\* Directory contents one folder and level down: all, and those that a name leads to.
Below(d) == UNION {LevelsOf(e.start) : e \in {x \in EntriesOf(d) : x.type = "dir"}}
Named(d, levels) ==
  {data[p[1]].slots[FindLevel(p[1], p[2])].content :
     p \in {q \in {data[d].slots[Find(d, n, {"dir"})].start :
                      n \in {m \in Names : Find(d, m, {"dir"}) # 0}} \X levels :
              FindLevel(q[1], q[2]) # 0}}

\* What is reached from S by steps from a content d to those of next[d].
Closure(S, next) ==
  LET grow[k \in Nat] ==
        [R \in SUBSET DOMAIN next |->
           LET new == UNION {next[d] : d \in R} IN
           IF k = 0 \/ new \subseteq R THEN R ELSE grow[k - 1][R \cup new]]
  IN  grow[Cardinality(DOMAIN next)][S]
Tree == [d \in AllChains |-> Below(d)]

\* resolvePath, and without a level in the path, which most commands refuse.
Paths == Closure({Root, cwd}, [d \in AllChains |-> Named(d, LevelNames)])
PlainPaths == Closure({Root, cwd}, [d \in AllChains |-> Named(d, {Master})])
Contents == Closure({Root} \cup LevelsOf(RootDir), Tree)

\* What is below the root and the current directory, whose levels "." leads to.
Starts == {Root, cwd} \cup LevelsOf(dir) \cup LevelsOf(RootDir)
Live == Closure(Starts, Tree)

\* Every reference from the root or the current directory, and the context's own, leads
\* to a chain that is allocated for what the reference says.
Sound ==
  /\ dir # RootDir => role[dir] = "table"
  /\ \A d \in Live :
       /\ d # Root => role[d] = "dir"
       /\ data[d].kind = "dir"
       /\ \A e \in EntriesOf(d) : e.start # NoChain =>
            role[e.start] = IF e.type = "dir" THEN "table" ELSE "file"

-----------------------------------------------------------------------------
(* create, symlink, hardlink, write, move, rename.                         *)

Unused == {c \in Chains : role[c] = "free"}

\* Bound.
Room(d) == FreeSlot(data[d].slots) # 0 \/ d = Root \/ Len(data[d].slots) < MaxSlots

\* createInCluster: the first free slot or a new cluster, which the root's chain does
\* not lead to.
Put(dt, d, e) ==
  LET i == FreeSlot(dt[d].slots) IN
  IF i # 0 THEN [dt EXCEPT ![d].slots[i] = e]
  ELSE IF d = Root THEN dt
  ELSE [dt EXCEPT ![d].slots = @ \o <<e>> \o Free(PerCluster - 1)]

CreateFile(d, n) ==
  /\ Room(d)
  /\ \E c \in Unused :
       /\ role' = [role EXCEPT ![c] = "file"]
       /\ data' = Put(data, d, NewEntry("file", n, c))
  /\ UNCHANGED context

CreateFolder(d, n) ==
  /\ Room(d)
  /\ \E t \in Unused : \E c \in Unused \ {t} :
       /\ role' = [role EXCEPT ![t] = "table", ![c] = "dir"]
       /\ data' = Put([data EXCEPT ![t] = Table(c), ![c] = EmptyDir], d, NewEntry("dir", n, t))
  /\ UNCHANGED context

\* The symlink that gets the target is the first of its name, which may be an older one.
Symlink(d, n) ==
  /\ Room(d)
  /\ LET dt == Put(data, d, NewEntry("symlink", n, NoChain))
         i == SelectInSeq(dt[d].slots, LAMBDA e : e.type = "symlink" /\ e.name = n)
     IN  IF i = 0 THEN UNCHANGED <<data, role>>
         ELSE IF Unused = {}
         THEN /\ data' = [dt EXCEPT ![d].slots[i] = FreeEntry]
              /\ UNCHANGED role
         ELSE \E c \in Unused :
                /\ role' = [role EXCEPT ![c] = "file"]
                /\ data' = [dt EXCEPT ![d].slots[i].start = c, ![c] = Text]
  /\ UNCHANGED context

\* The target's count is raised before the path of the link is looked at, and the
\* link that gets the target's chain is the first of its name.
Hardlink(d, n, e, m) ==
  LET i == Find(d, n, {"file"})
      target == data[d].slots[i]
  IN  /\ i # 0 /\ target.attributes < MaxAttributes
      /\ Room(e)
      /\ LET dt == Put([data EXCEPT ![d].slots[i].attributes = @ + 1], e,
                       NewEntry("hardlink", m, NoChain))
             j == SelectInSeq(dt[e].slots, LAMBDA x : x.type = "hardlink" /\ x.name = m)
         IN  data' = IF j = 0 THEN dt
                     ELSE [dt EXCEPT ![e].slots[j].start = target.start,
                                     ![e].slots[j].attributes = target.attributes]
      /\ UNCHANGED <<role, context>>

HardlinkNoPath(d, n) ==
  LET i == Find(d, n, {"file"}) IN
  /\ i # 0 /\ data[d].slots[i].attributes < MaxAttributes
  /\ data' = [data EXCEPT ![d].slots[i].attributes = @ + 1]
  /\ UNCHANGED <<role, context>>

\* write, which for a new file takes a free slot but makes none.
Write(d, n) ==
  LET i == Find(d, n, {"file"})
      j == FreeSlot(data[d].slots)
  IN  \/ /\ i # 0 /\ CanWrite(data[d].slots[i])
         /\ data' = [data EXCEPT ![data[d].slots[i].start] = Text]
         /\ UNCHANGED <<role, context>>
      \/ /\ i = 0 /\ j # 0
         /\ \E c \in Unused :
              /\ role' = [role EXCEPT ![c] = "file"]
              /\ data' = [data EXCEPT ![d].slots[j] = NewEntry("file", n, c), ![c] = Text]
         /\ UNCHANGED context

\* Mutant: the source is freed only once the destination is written.
MoveCopies(d, n, e, m) ==
  LET i == Find(d, n, AnyType)
      j == FreeSlot(data[e].slots)
  IN  /\ i # 0 /\ j # 0
      /\ data' = [data EXCEPT ![e].slots[j] = [data[d].slots[i] EXCEPT !.name = m]]
      /\ UNCHANGED <<role, context>>

\* move frees the source first; without a free slot in the destination that is all.
Move(d, n, e, m) ==
  LET i == Find(d, n, AnyType)
      dt == [data EXCEPT ![d].slots[i] = FreeEntry]
      j == FreeSlot(dt[e].slots)
  IN  /\ i # 0
      /\ data' = IF j = 0 THEN dt
                 ELSE [dt EXCEPT ![e].slots[j] = [data[d].slots[i] EXCEPT !.name = m]]
      /\ UNCHANGED <<role, context>>

Rename(d, n, m) ==
  LET i == Find(d, n, AnyType) IN
  /\ i # 0
  /\ data[d].slots[i].type = "file" => CanWrite(data[d].slots[i])
  /\ data' = [data EXCEPT ![d].slots[i].name = m]
  /\ UNCHANGED <<role, context>>

-----------------------------------------------------------------------------
(* Deleting.                                                               *)

\* Mutant: the folder itself counts as another one.
IsLevelSharedOrOwn(c, t) ==
  \E e \in EntriesOf(Root) : e.type = "dir" /\ c \in LevelsOf(e.start)

\* isLevelShared: another folder of the root has the content too.
IsLevelShared(c, t) ==
  \E e \in EntriesOf(Root) : e.type = "dir" /\ e.start # t /\ c \in LevelsOf(e.start)

\* decrementRefCount, in the root only, and what it leaves but for the slots K.
DecrementRefCount(c, K) ==
  LET s == data[Root].slots
      Less(e) == IF e.type \in {"file", "hardlink"} /\ e.start = c /\ e.attributes > 0
                 THEN [e EXCEPT !.attributes = e.attributes - 1] ELSE e
  IN  [data EXCEPT ![Root].slots = [i \in DOMAIN s |-> IF i \in K THEN s[i] ELSE Less(s[i])]]

\* The slots in the sector of slot i.
Sector(i) == {k \in 1 .. RootSlots : (k - 1) \div PerSector = (i - 1) \div PerSector}

\* What is known of a chain's data when it is free: its clusters may be taken one by one,
\* and only what a directory content holds matters to the chain's next use.
Freed(x) == IF x.kind = "dir" THEN [x EXCEPT !.slots = FirstCluster(@)] ELSE Text

\* The root's content is reserved and stays.
FreeChains(dt, S) ==
  /\ role' = [c \in Chains |-> IF c \in S THEN "free" ELSE role[c]]
  /\ data' = [c \in DOMAIN dt |-> IF c \in S \cap Chains THEN Freed(dt[c]) ELSE dt[c]]

\* The sector with the entry is written back as it was read before decrementRefCount, which
\* undoes it there.
Del(d, n, recursive) ==
  LET i == Find(d, n, AnyType)
      e == data[d].slots[i]
      counted == e.type \in {"file", "hardlink"} /\ e.attributes > 1
      dt == IF counted THEN DecrementRefCount(e.start, IF d = Root THEN Sector(i) ELSE {})
            ELSE data
  IN  /\ i # 0
      /\ e.type = "dir" /\ ~ recursive => \A c \in LevelsOf(e.start) : ~ HasContents(c)
      /\ e.type = "file" => CanWrite(e)
      /\ FreeChains([dt EXCEPT ![d].slots[i] = FreeEntry],
           CASE e.type = "dir" ->
                  {e.start} \cup {c \in LevelsOf(e.start) : ~ IsLevelShared(c, e.start)}
             [] e.type \in {"file", "hardlink"} -> {e.start} \ {NoChain}
             [] OTHER -> {})
      /\ UNCHANGED context

-----------------------------------------------------------------------------
(* Levels.                                                                 *)

\* findFolderCluster: a name is looked for in the first cluster of the current content.
Folder(n) ==
  LET i == Find(cwd, n, {"dir"}) IN
  IF n = Dot THEN dir
  ELSE IF i # 0 /\ (cwd = Root \/ i <= PerCluster) THEN data[cwd].slots[i].start
  ELSE NoChain

\* Mutant: the version table is not written back.
DeleteLevelUnwritten(n, l) ==
  LET t == Folder(n)
      j == FindLevel(t, l)
      c == data[t].slots[j].content
  IN  /\ t # NoChain /\ j # 0
      /\ ~ HasContents(c)
      /\ FreeChains(data, {c})
      /\ UNCHANGED context

DeleteLevel(n, l) ==
  LET t == Folder(n)
      j == FindLevel(t, l)
      c == data[t].slots[j].content
  IN  /\ t # NoChain /\ j # 0
      /\ ~ HasContents(c)
      /\ FreeChains([data EXCEPT ![t].slots[j] = FreeLevel], {c})
      /\ UNCHANGED context

LevelRemove(n, l) ==
  LET t == Folder(n)
      j == FindLevel(t, l)
  IN  /\ t # NoChain /\ j # 0 /\ l # Master
      /\ data' = [data EXCEPT ![t].slots[j] = FreeLevel]
      /\ UNCHANGED <<role, context>>

LevelRename(n, l, m) ==
  LET t == Folder(n)
      j == FindLevel(t, l)
  IN  /\ t # NoChain /\ j # 0
      /\ data' = [data EXCEPT ![t].slots[j].name = m]
      /\ UNCHANGED <<role, context>>

\* A level's content is not cleared when it is added.
AddLevel(n, l) ==
  LET t == Folder(n)
      j == FindLevel(t, NoName)
  IN  /\ t # NoChain /\ j # 0
      /\ \E c \in Unused :
           /\ role' = [role EXCEPT ![c] = "dir"]
           /\ data' = [data EXCEPT ![t].slots[j] = [name |-> l, content |-> c]]
      /\ UNCHANGED context

\* Without a slot for the level its content stays allocated.
BranchLevel(n, l, m) ==
  LET t == Folder(n)
      j == FindLevel(t, NoName)
  IN  /\ t # NoChain /\ FindLevel(t, l) # 0
      /\ \E c \in Unused :
           LET dt == [data EXCEPT ![c] = EmptyDir] IN
           /\ role' = [role EXCEPT ![c] = "dir"]
           /\ data' = IF j = 0 THEN dt ELSE [dt EXCEPT ![t].slots[j] = [name |-> m, content |-> c]]
      /\ UNCHANGED context

\* Mutant: the first folder's level is linked, not a new one.
LinkLevelOfFirst(d, n, e, m, l) ==
  LET i == Find(d, n, {"dir"})
      j == Find(e, m, {"dir"})
  IN  /\ i # 0 /\ j # 0
      /\ LET t == data[d].slots[i].start
             u == data[e].slots[j].start
             a == FindLevel(t, l)
             b == FindLevel(u, NoName)
         IN  /\ t # u /\ a # 0 /\ b # 0
             /\ data' = [data EXCEPT
                           ![u].slots[b] = [name |-> l, content |-> data[t].slots[a].content]]
      /\ UNCHANGED <<role, context>>

LinkLevel(d, n, e, m, l) ==
  LET i == Find(d, n, {"dir"})
      j == Find(e, m, {"dir"})
  IN  /\ i # 0 /\ j # 0
      /\ LET t == data[d].slots[i].start
             u == data[e].slots[j].start
             a == FindLevel(t, NoName)
             b == FindLevel(u, NoName)
         IN  /\ t # u /\ a # 0 /\ b # 0
             /\ \E c \in Unused :
                  /\ role' = [role EXCEPT ![c] = "dir"]
                  /\ data' = [data EXCEPT ![c] = EmptyDir,
                                ![t].slots[a] = [name |-> l, content |-> c],
                                ![u].slots[b] = [name |-> l, content |-> c]]
      /\ UNCHANGED context

\* Mutant: a level that is not found leads to cluster 0.
NavUnfound(n, l) ==
  LET i == Find(cwd, n, {"dir"})
      t == data[cwd].slots[i].start
      j == FindLevel(t, l)
  IN  /\ i # 0
      /\ cwd' = IF j = 0 THEN NoChain ELSE data[t].slots[j].content
      /\ dir' = t
      /\ UNCHANGED <<data, role, rootVersion>>

Nav(n, l) ==
  LET i == Find(cwd, n, {"dir"})
      t == data[cwd].slots[i].start
      j == FindLevel(t, l)
  IN  /\ i # 0 /\ j # 0
      /\ cwd' = data[t].slots[j].content /\ dir' = t
      /\ UNCHANGED <<data, role, rootVersion>>

\* A folder without levels gets one when it is entered.
NavNew(n) ==
  LET i == Find(cwd, n, {"dir"})
      t == data[cwd].slots[i].start
  IN  /\ i # 0 /\ LevelsOf(t) = {}
      /\ \E c \in Unused :
           /\ role' = [role EXCEPT ![c] = "dir"]
           /\ data' = [data EXCEPT ![t].slots[1] = [name |-> Main, content |-> c]]
           /\ cwd' = c
      /\ dir' = t
      /\ UNCHANGED rootVersion

\* Another level of the current directory.
NavLevel(l) ==
  LET j == FindLevel(dir, l) IN
  /\ j # 0
  /\ cwd' = data[dir].slots[j].content
  /\ rootVersion' = IF dir = RootDir THEN l ELSE rootVersion
  /\ UNCHANGED <<data, role, dir>>

\* The content stays the current one if the root has no such level any more.
NavUp ==
  LET j == FindLevel(RootDir, rootVersion) IN
  /\ dir' = RootDir
  /\ cwd' = IF j = 0 THEN cwd ELSE data[RootDir].slots[j].content
  /\ UNCHANGED <<data, role, rootVersion>>

-----------------------------------------------------------------------------
\* Bound: what is read through a reference to a chain that is free or has another use
\* depends on the old bytes of that chain, and the model stops there.
Next ==
  /\ Sound
  /\ LET paths == Paths
         plain == PlainPaths
     IN
     \/ \E d \in paths, n \in Names :
          \/ CreateFile(d, n) \/ CreateFolder(d, n) \/ Write(d, n)
          \/ \E e \in paths, m \in Names, l \in LevelNames : LinkLevel(d, n, e, m, l)
     \/ \E d \in plain, n \in Names :
          \/ Symlink(d, n) \/ HardlinkNoPath(d, n)
          \/ Del(d, n, TRUE) \/ Del(d, n, FALSE)
          \/ \E m \in Names : Rename(d, n, m)
          \/ \E e \in plain, m \in Names : Hardlink(d, n, e, m) \/ Move(d, n, e, m)
     \/ \E n \in Names \cup {Dot}, l \in LevelNames :
          \/ AddLevel(n, l) \/ DeleteLevel(n, l) \/ LevelRemove(n, l)
          \/ \E m \in LevelNames : LevelRename(n, l, m) \/ BranchLevel(n, l, m)
     \/ \E n \in Names : NavNew(n) \/ \E l \in LevelNames : Nav(n, l)
     \/ \E l \in LevelNames : NavLevel(l)
     \/ NavUp

Spec == Init /\ [][Next]_vars

-----------------------------------------------------------------------------
(* Properties.                                                             *)

Entry ==
  {FreeEntry}
  \cup [type : {"dir"}, name : Names, start : Chains, attributes : {7}]
  \cup [type : {"file"}, name : Names, start : Chains, attributes : 0 .. MaxAttributes]
  \cup [type : {"symlink", "hardlink"}, name : Names, start : Chains \cup {NoChain},
         attributes : 0 .. MaxAttributes]
Level == {FreeLevel} \cup [name : LevelNames, content : Chains \cup {Root}]
DirData == [kind : {"dir"}, slots : Seq(Entry)]
TableData == [kind : {"table"}, slots : [1 .. LevelSlots -> Level]]

\* The variables have their types, directory contents consist of whole clusters of entries,
\* and what is allocated for a version table, or is the root's, holds one.
TypeOK ==
  /\ data \in [AllChains -> DirData \cup TableData \cup {Text}]
  /\ \A c \in Chains : data[c].kind = "dir" =>
       Len(data[c].slots) \in {k * PerCluster : k \in 1 .. MaxSlots}
  /\ role \in [Chains -> {"free", "file", "dir", "table"}]
  /\ \A c \in Chains : role[c] = "table" => data[c].kind = "table"
  /\ data[RootDir].kind = "table"
  /\ cwd \in Chains \cup {Root} /\ dir \in Chains \cup {RootDir} /\ rootVersion \in LevelNames

\* The references to a chain: <<content, slot>> of an entry, <<table, level>> of a level,
\* in what is below the root and the current directory.
FoldersOf(S) ==
  {e.start : e \in {x \in UNION {EntriesOf(d) : d \in S} : x.type = "dir"}} \cap Chains
EntryRefs(c, S) ==
  UNION {{<<d, i>> : i \in {j \in DOMAIN data[d].slots :
                              LET e == data[d].slots[j] IN e.type # "free" /\ e.start = c}} :
           d \in {x \in S : data[x].kind = "dir"}}
LevelRefs(c, S) ==
  UNION {{<<t, j>> : j \in {k \in 1 .. LevelSlots : data[t].slots[k].content = c}} :
           t \in {x \in FoldersOf(S) \cup {dir, RootDir} : data[x].kind = "table"}}
Refs(c, S) == EntryRefs(c, S) \cup LevelRefs(c, S)

\* No folder has two entries, file data has one entry besides those of hard links, and a
\* directory content belongs to at most two folders, whose link made it.
Exclusive ==
  Sound => \A live \in {Live}, c \in Chains :
    /\ Cardinality({p \in EntryRefs(c, live) : data[p[1]].slots[p[2]].type # "hardlink"}) <= 1
    /\ Cardinality(LevelRefs(c, live)) <= 2

\* A level was added whose cluster is not an empty directory.
OldContent ==
  \E c \in Chains : role[c] = "free" /\ role'[c] = "dir" /\ data'[c] # EmptyDir

\* Only a level added over old directory data breaks this: the data may have the entry of
\* a file that another name was used to delete, and whose clusters are another's now.
ExclusiveStays == [][Exclusive' \/ OldContent \/ ~ Exclusive]_vars

\* A command frees what has another reference (a hard link, a linked level) or is the
\* current directory, its version table or its content.
FreesShared ==
  \E c \in Chains :
    /\ role[c] # "free" /\ role'[c] = "free"
    /\ Cardinality(Refs(c, Live)) > 1 \/ c \in {cwd, dir}

\* Only such a command, or a level added over old directory data, leaves a reference to a
\* freed chain.
DanglesOnlyIfShared == [][Sound' \/ OldContent \/ FreesShared]_vars

Lost ==
  LET S == Contents IN
  {c \in Chains : role[c] # "free"} \ (S \cup {e.start : e \in UNION {EntriesOf(d) : d \in S}})

\* The folders below the root, and the root's own version table.
Folders == FoldersOf(Contents) \cup {RootDir}

\* What may lose chains: a file or a folder made in a full root directory; freeing a directory
\* content that has entries, which a recursive deletion does, and any other if they are after
\* the first cluster; a second symlink or hard link of a name; the deletion of a symlink; a
\* move without a free slot or below what is moved; the removal of a level; a branch in a full
\* version table; and what is made in a content or a version table that is cut off already.
Loses ==
  \/ \E n \in Names :
       FreeSlot(data[Root].slots) = 0 /\ (CreateFile(Root, n) \/ CreateFolder(Root, n))
  \/ \E c \in Chains : role[c] = "dir" /\ role'[c] = "free" /\ EntriesOf(c) # {}
  \/ \E d \in Paths, n \in Names :
       /\ Find(d, n, {"symlink"}) # 0
       /\ Symlink(d, n) \/ Del(d, n, TRUE) \/ Del(d, n, FALSE)
  \/ \E d, e \in Paths, n, m \in Names :
       Hardlink(d, n, e, m) /\ Find(e, m, {"hardlink"}) # 0
  \/ \E d, e \in Paths, n, m \in Names :
       /\ Move(d, n, e, m)
       /\ FreeSlot(data[e].slots) = 0 \/ e \notin Contents'
  \/ \E n \in Names \cup {Dot}, l, m \in LevelNames :
       \/ LevelRemove(n, l)
       \/ BranchLevel(n, l, m) /\ FindLevel(Folder(n), NoName) = 0
  \/ \E d, e \in Paths \ Contents, n, m \in Names, l \in LevelNames :
       \/ CreateFile(d, n) \/ CreateFolder(d, n) \/ Symlink(d, n) \/ Write(d, n)
       \/ LinkLevel(d, n, e, m, l)
  \/ \E n \in Names \cup {Dot}, l, m \in LevelNames :
       Folder(n) \notin Folders /\ (AddLevel(n, l) \/ BranchLevel(n, l, m))
  \/ \E n \in Names : cwd \notin Contents /\ NavNew(n)

\* No other command leaves a chain allocated that nothing below the root refers to.
OnlyTheseLose == [][Sound' => (\A c \in Lost' : c \in Lost) \/ Loses]_vars

\* Help text of del: "Delete entry (links preserved)".  The data of a file stays allocated
\* as long as one of its names, the file's or a hard link's, is left.
LinksPreserved ==
  \A e \in UNION {EntriesOf(d) : d \in Contents} :
    e.type \in {"file", "hardlink"} /\ e.start # NoChain => role[e.start] = "file"

\* README: levels linked across folders create a DAG (Directed Acyclic Graph) structure.
Acyclic ==
  \A c \in Live \ {Root} : data[c].kind = "dir" => c \notin Closure(Below(c), Tree)

\* A folder is moved into what is below it.
MovesBelow ==
  \E d, e \in PlainPaths, n, m \in Names :
    LET i == Find(d, n, {"dir"}) IN
    /\ i # 0 /\ Move(d, n, e, m)
    /\ e \in Closure(LevelsOf(data[d].slots[i].start), Tree)

\* Only such a move, or old directory data in an added level, makes a cycle below the root
\* or the current directory.
OnlyMovesMakeCycles ==
  [][Acyclic' \/ ~ Sound' \/ OldContent \/ ~ Acyclic \/ MovesBelow]_vars
=============================================================================
