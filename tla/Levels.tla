------------------------------- MODULE Levels -------------------------------
(***************************************************************************)
(* Levels of LevelFS (mount.cpp): the version tables of the root and of    *)
(* two folders in it, the registry of level descriptors, the superblock's  *)
(* next level ID in memory and on the volume, level mounts, and the        *)
(* shell's navigation context (fs_context.hpp).  One action is one         *)
(* command; the volume is left in order, by exit or by another mount.      *)
(*                                                                         *)
(* findLevelByID and registerNewLevel find descriptors sector by sector,   *)
(* branchLevel and updateLevelDescriptor cluster by cluster, across sector *)
(* borders.  Both see the first Agreed ones (4 in the code) at the same    *)
(* places, where nothing that lies beyond them reaches.  Beyond, the bytes *)
(* of one way's descriptor are parts of several of the other's, each write *)
(* changes some of them, and the parent of one may pass for the ID of      *)
(* another: the model keeps the IDs that registerNewLevel has given to     *)
(* descriptors there, lets findLevelByID find one of these with any        *)
(* content or not at all, and no other (a sector's place for an ID is, in  *)
(* each cluster's descriptor, part of a text or a zero).                   *)
(*                                                                         *)
(* What the folders' contents hold besides folders and level mounts is in  *)
(* Volume; names, times and sizes in descriptors and totalLevels are left  *)
(* out.                                                                    *)
(***************************************************************************)
EXTENDS Naturals, FiniteSets, Sequences

CONSTANTS Contents,      \* clusters of directory contents that can be allocated
          RootContent,   \* the root's, which has the folders in it
          Names, Master, Main,
          Local, Data,   \* the version tables of /local and /data
          LocalContent, DataContent,
          RootDir,       \* the root's version table
          NoContent,     \* a cluster that is no directory content
          Agreed,        \* descriptors that are found at one place
          PerSector, Sectors, \* version entries in a sector, sectors in a cluster
          MaxId, MaxRefs, MaxClusters \* bounds

ASSUME LevelsAssumption ==
  /\ {Agreed, PerSector, Sectors, MaxRefs, MaxClusters} \subseteq Nat \ {0}
  /\ MaxId \in Nat \ {0, 1} /\ {Master, Main} \subseteq Names
  /\ Local # Data /\ RootDir \notin {Local, Data}

VARIABLES registry,    \* the agreed descriptors; one with ID 0 is free
          beyond,      \* the IDs of levels that registerNewLevel has entered beyond them
          tables,      \* the version tables
          mounts,      \* <<content, ID>> of TYPE_LEVEL_MOUNT entries
          allocated,   \* contents that are not free
          nextLevelID, \* sb.nextLevelID
          savedID,     \* what the superblock on the volume has for it
          context

vars == <<registry, beyond, tables, mounts, allocated, nextLevelID, savedID, context>>
volume == <<registry, beyond, tables, mounts, allocated, nextLevelID, savedID>>

Tables == {RootDir, Local, Data}
AllContents == Contents \cup {RootContent, LocalContent, DataContent}
Slots == 1 .. Agreed
PerCluster == PerSector * Sectors

FreeDescriptor == [id |-> 0, parent |-> 0, content |-> RootContent, refs |-> 0]
FreeVersion == [active |-> FALSE, name |-> Master, content |-> RootContent,
                id |-> 0, parent |-> 0]
Version(n, c, i, p) == [active |-> TRUE, name |-> n, content |-> c, id |-> i, parent |-> p]
NewTable(v) == <<v>> \o [k \in 1 .. PerCluster - 1 |-> FreeVersion]

\* The formatter's root and the folders of rootfsInit, whose first level has the ID of
\* the level they are made in.
Init ==
  /\ registry = [i \in Slots |-> IF i = 1
                   THEN [id |-> 1, parent |-> 0, content |-> RootContent, refs |-> 1]
                   ELSE FreeDescriptor]
  /\ beyond = {}
  /\ tables = [t \in Tables |-> NewTable(
                 CASE t = RootDir -> Version(Master, RootContent, 1, 0)
                   [] t = Local -> Version(Master, LocalContent, 1, 1)
                   [] t = Data -> Version(Master, DataContent, 1, 1))]
  /\ mounts = {} /\ allocated = {RootContent, LocalContent, DataContent}
  /\ nextLevelID = 2 /\ savedID = 2
  /\ context = [dir |-> RootDir, content |-> RootContent, level |-> 1,
                atRoot |-> TRUE, rootVersion |-> Master]

-----------------------------------------------------------------------------
(* Looking for things.                                                     *)

First(S) == IF S = {} THEN 0 ELSE CHOOSE i \in S : \A j \in S : i <= j

\* Mutant: the scan goes on after a match.
LastById(i) ==
  LET S == {k \in Slots : registry[k].id = i} IN
  IF S = {} THEN 0 ELSE CHOOSE k \in S : \A j \in S : j <= k

\* The agreed places come first in every scan.
findLevelByID(i) == First({k \in Slots : registry[k].id = i})

\* The registry with a new level in it, in the first free place.  Bound: there is one.
Registered(d) ==
  LET k == First({j \in Slots : registry[j].id = 0}) IN
  IF k = 0 THEN registry ELSE [registry EXCEPT ![k] = d]
Full == \A k \in Slots : registry[k].id # 0

FreeVersionOf(t) == First({j \in DOMAIN tables[t] : ~ tables[t][j].active})
Find(t, n) == First({j \in DOMAIN tables[t] : tables[t][j].active /\ tables[t][j].name = n})

\* The scans of a table's first cluster only.
InFirstCluster(t, n) == LET j == Find(t, n) IN IF j > PerCluster THEN 0 ELSE j

\* findFolderCluster: "." is the table of the directory the shell is in, whatever the
\* current content is; names are looked for in the content.
Folders == {context.dir} \cup (IF context.content = RootContent THEN {Local, Data} ELSE {})

\* Entries that del leaves: the root's content has the folders, /data's a file.
IsEmpty(c) == c \notin {RootContent, DataContent} /\ \A p \in mounts : p[1] # c

Unused == AllContents \ allocated

-----------------------------------------------------------------------------
(* Making levels.                                                          *)

\* branchLevel and linkLevel clear the content, addLevel does not.
Cleared(c) == {p \in mounts : p[1] # c}

Descriptor(i, p, c) == [id |-> i, parent |-> p, content |-> c, refs |-> 1]

\* allocCluster, and freeChain, write the superblock.
SavedByAlloc == nextLevelID

\* The table with a level in it: in the first inactive slot, or in the first slot of each
\* sector of a new cluster.
Filled(t, v) ==
  LET j == FreeVersionOf(t) IN
  IF j # 0 THEN [tables[t] EXCEPT ![j] = v]
  ELSE tables[t] \o [k \in 1 .. PerCluster |->
                       IF k % PerSector = 1 % PerSector THEN v ELSE FreeVersion]

\* Without a cluster to extend it the table stays as it is.
Outcomes(t, v) ==
  {Filled(t, v)} \cup (IF FreeVersionOf(t) = 0 THEN {tables[t]} ELSE {})

\* Bound.
Room(t) == FreeVersionOf(t) # 0 \/ Len(tables[t]) < MaxClusters * PerCluster

\* Mutant: the new ID is not saved.
SavedByRegisterNot == SavedByAlloc

SavedByRegister == nextLevelID + 1

\* levelAdd, and the default level that nav offers.
AddLevel(t, n) ==
  /\ nextLevelID < MaxId /\ Room(t)
  /\ \E c \in Unused :
       LET new == Version(n, c, nextLevelID, context.level) IN
       /\ allocated' = allocated \cup {c}
       /\ registry' = Registered(Descriptor(nextLevelID, context.level, c))
       /\ beyond' = IF Full THEN beyond \cup {nextLevelID} ELSE beyond
       /\ \E table \in Outcomes(t, new) : tables' = [tables EXCEPT ![t] = table]
  /\ nextLevelID' = nextLevelID + 1
  /\ savedID' = SavedByRegister
  /\ UNCHANGED mounts

LevelAdd(t, n) == t \in Folders /\ AddLevel(t, n) /\ UNCHANGED context

\* Mutant: the new ID is saved only when the next cluster is allocated.
SavedByBranchLate(slot) == SavedByAlloc

\* branchLevel returns before it writes the superblock if the table has no free slot.
SavedByBranch(slot) == IF slot = 0 THEN SavedByAlloc ELSE nextLevelID + 1

\* branchLevel, which never extends a table.
LevelBranch(t, l, n) ==
  LET j == FreeVersionOf(t)
      parent == tables[t][Find(t, l)].id
  IN
  /\ t \in Folders /\ Find(t, l) # 0
  /\ nextLevelID < MaxId
  /\ \E c \in Unused :
       /\ allocated' = allocated \cup {c}
       /\ registry' = Registered(Descriptor(nextLevelID, parent, c))
       /\ tables' = IF j = 0 THEN tables
                    ELSE [tables EXCEPT ![t][j] = Version(n, c, nextLevelID, parent)]
       /\ mounts' = Cleared(c)
  /\ nextLevelID' = nextLevelID + 1
  /\ savedID' = SavedByBranch(j)
  /\ UNCHANGED <<beyond, context>>

\* addLevelWithCluster gives the level no ID: one that it finds in the slot stays.
Linked(t, n, c) ==
  LET j == FreeVersionOf(t) IN
  [(IF j = 0 THEN FreeVersion ELSE tables[t][j])
     EXCEPT !.active = TRUE, !.name = n, !.content = c]

LinkLevel(n) ==
  /\ Room(Local) /\ Room(Data)
  /\ \E c \in Unused :
       /\ allocated' = allocated \cup {c}
       /\ \E local \in Outcomes(Local, Linked(Local, n, c)),
             data \in Outcomes(Data, Linked(Data, n, c)) :
            /\ local = tables[Local] => data = tables[Data]
            /\ tables' = [tables EXCEPT ![Local] = local, ![Data] = data]
       /\ mounts' = Cleared(c)
  /\ savedID' = SavedByAlloc
  /\ UNCHANGED <<registry, beyond, nextLevelID, context>>

-----------------------------------------------------------------------------
(* Removing and renaming levels; the registry is not told.                 *)

LevelRemove(t, n) ==
  LET j == InFirstCluster(t, n) IN
  /\ t \in Folders /\ j # 0 /\ n # Master
  /\ tables' = [tables EXCEPT ![t][j].active = FALSE]
  /\ UNCHANGED <<registry, beyond, mounts, allocated, nextLevelID, savedID, context>>

\* Bound: the root's master, without which no further mount has a root, is left.
LevelRename(t, n, m) ==
  LET j == InFirstCluster(t, n) IN
  /\ t \in Folders /\ j # 0 /\ ~ (t = RootDir /\ j = 1)
  /\ tables' = [tables EXCEPT ![t][j].name = m]
  /\ UNCHANGED <<registry, beyond, mounts, allocated, nextLevelID, savedID, context>>

\* del with a level.
DeleteLevel(t, n) ==
  LET j == InFirstCluster(t, n)
      c == tables[t][j].content
  IN
  /\ t \in Folders /\ j # 0 /\ IsEmpty(c)
  /\ tables' = [tables EXCEPT ![t][j] = FreeVersion]
  /\ allocated' = allocated \ {c}
  /\ savedID' = SavedByAlloc
  /\ UNCHANGED <<registry, beyond, mounts, nextLevelID, context>>

-----------------------------------------------------------------------------
(* Level mounts.                                                           *)

\* Mutant: the count is raised at another place.
updateElsewhere(d) == registry

\* The first descriptor with the ID is overwritten by the one that was found.
updateLevelDescriptor(d) ==
  LET k == findLevelByID(d.id) IN [registry EXCEPT ![k] = d]

\* mount-level.  Bounds: one mount of a level in a content; no entry is written into a
\* cluster that is no content.
MountLevel(i, c) ==
  LET k == findLevelByID(i) IN
  /\ c \in AllContents /\ <<c, i>> \notin mounts
  /\ \/ /\ k # 0 /\ registry[k].refs < MaxRefs
        /\ registry' = updateLevelDescriptor([registry[k] EXCEPT !.refs = @ + 1])
     \/ k = 0 /\ i \in beyond /\ UNCHANGED registry
  /\ mounts' = mounts \cup {<<c, i>>}
  /\ UNCHANGED <<beyond, tables, allocated, nextLevelID, savedID, context>>

\* del of a mount leaves the level's count.  What it frees is the cluster with the number
\* of the level's ID, a reserved one for all IDs up to MaxId.
DeleteMount(i, c) ==
  /\ <<c, i>> \in mounts
  /\ mounts' = mounts \ {<<c, i>>}
  /\ UNCHANGED <<registry, beyond, tables, allocated, nextLevelID, savedID, context>>

-----------------------------------------------------------------------------
(* Navigation.                                                             *)

\* loadVersion: when the level is not there, only the rest of the context changes.
Loaded(ctx, n) ==
  LET j == Find(ctx.dir, n) IN
  IF j = 0 THEN ctx
  ELSE [ctx EXCEPT !.content = tables[ctx.dir][j].content, !.level = tables[ctx.dir][j].id]

AtRoot == [context EXCEPT !.dir = RootDir, !.atRoot = TRUE]

\* nav ..
NavUp == context' = Loaded(AtRoot, context.rootVersion) /\ UNCHANGED volume

\* nav .:level
NavLevel(n) ==
  /\ Find(context.dir, n) # 0
  /\ context' = [Loaded(context, n) EXCEPT !.rootVersion = IF context.atRoot THEN n ELSE @]
  /\ UNCHANGED volume

\* Mutant: the path stays.
EnteredHere(t, c) == [context EXCEPT !.dir = t, !.content = c]

\* enterFolder, which does not set the level.
Entered(t, c) == [context EXCEPT !.dir = t, !.content = c, !.atRoot = FALSE]

\* nav folder:level
NavFolder(t, n) ==
  LET j == InFirstCluster(t, n) IN
  /\ context.content = RootContent /\ t \in {Local, Data} /\ j # 0
  /\ context' = Entered(t, tables[t][j].content)
  /\ UNCHANGED volume

\* A folder without a level is offered one.
NavNew(t) ==
  /\ context.content = RootContent /\ t \in {Local, Data}
  /\ \A j \in 1 .. PerCluster : ~ tables[t][j].active
  /\ AddLevel(t, Main)
  /\ context' = Entered(t, tables'[t][1].content)

\* nav mount: the directory stays.
NavMount(i) ==
  LET k == findLevelByID(i) IN
  /\ <<context.content, i>> \in mounts
  /\ \E c \in AllContents \cup {NoContent} :
       /\ IF k = 0 THEN i \in beyond ELSE c = registry[k].content
       /\ context' = [context EXCEPT !.content = c, !.level = i, !.atRoot = FALSE]
  /\ UNCHANGED volume

-----------------------------------------------------------------------------
\* create, write and del write the superblock.
Other ==
  /\ savedID # nextLevelID /\ savedID' = nextLevelID
  /\ UNCHANGED <<registry, beyond, tables, mounts, allocated, nextLevelID, context>>

\* Mutant: the superblock of a new volume is read, as from a backup never written again.
ReadFirstID == 2

ReadID == savedID

\* mount, in this process or, after exit, in another one.
Mount ==
  /\ nextLevelID' = ReadID
  /\ context' = [Loaded(AtRoot, Master) EXCEPT !.rootVersion = Master]
  /\ UNCHANGED <<registry, beyond, tables, mounts, allocated, savedID>>

Next ==
  \/ \E t \in Tables, n \in Names :
       \/ LevelAdd(t, n) \/ LevelRemove(t, n) \/ DeleteLevel(t, n) \/ NavFolder(t, n)
       \/ \E m \in Names : LevelBranch(t, n, m) \/ LevelRename(t, n, m)
  \/ \E n \in Names : LinkLevel(n) \/ NavLevel(n)
  \/ \E t \in Tables : NavNew(t)
  \/ \E i \in 1 .. MaxId :
       \/ NavMount(i)
       \/ \E c \in {context.content, RootContent} : MountLevel(i, c) \/ DeleteMount(i, c)
  \/ NavUp \/ Other \/ Mount

Spec == Init /\ [][Next]_vars

-----------------------------------------------------------------------------
(* Correctness.                                                            *)

Ids == 0 .. MaxId
VersionEntry == [active : BOOLEAN, name : Names, content : AllContents, id : Ids, parent : Ids]

\* The variables have their types, version tables consist of whole clusters, and the shell
\* is at the root's table when it says "/".
TypeOK ==
  /\ registry \in [Slots -> [id : Ids, parent : Ids, content : AllContents, refs : 0 .. MaxRefs]]
  /\ \A t \in Tables : /\ tables[t] \in Seq(VersionEntry)
                       /\ Len(tables[t]) \in {k * PerCluster : k \in 1 .. MaxClusters}
  /\ beyond \subseteq Ids
  /\ mounts \subseteq AllContents \X Ids /\ allocated \subseteq AllContents
  /\ nextLevelID \in Ids /\ savedID \in Ids
  /\ context \in [dir : Tables, content : AllContents \cup {NoContent}, level : Ids,
                   atRoot : BOOLEAN, rootVersion : Names]
  /\ context.atRoot => context.dir = RootDir

Versions(t) == {tables[t][j] : j \in DOMAIN tables[t]}

\* No ID that a version table has, even in a slot that was removed and may be linked
\* again, is given out once more by this or a later mount.
TableIdsSaved ==
  \A t \in Tables : \A v \in Versions(t) : v.id < savedID /\ v.id < nextLevelID

HasLevel(d) ==
  \E t \in Tables : \E v \in Versions(t) : v.active /\ v.id = d.id /\ v.content = d.content

\* Two of the agreed descriptors have one ID only if one is of a branch that found no slot
\* in its version table, so that no command but mount-level leads to it, or both have one
\* content, which was freed through a stale level in between.
DuplicatesAreLost ==
  \A i, k \in Slots :
    i # k /\ registry[i].id = registry[k].id /\ registry[i].id # 0
      => \/ ~ HasLevel(registry[i]) \/ ~ HasLevel(registry[k])
         \/ registry[i].content = registry[k].content

\* A level descends from no younger one, although the shell's current level is not the one
\* it is in when it enters a folder, and may be one whose ID is given out again.
LineageDescends ==
  /\ \A i \in Slots : registry[i].parent <= registry[i].id
  /\ \A t \in Tables : \A v \in Versions(t) : v.parent <= v.id

\* A level with an agreed descriptor has been referred to once more than it is mounted, at
\* least.
MountsAreCounted ==
  \A i \in 1 .. MaxId :
    LET k == findLevelByID(i) IN
    k # 0 => Cardinality({p \in mounts : p[2] = i}) < registry[k].refs

\* A level mount whose level has an agreed descriptor leads to the same content for ever,
\* also when the ID is given out again.  (Others do not: the code overwrites what is
\* beyond.)
MountStaysHome ==
  [][\A p \in mounts \cap mounts' :
       LET k == findLevelByID(p[2]) IN
       k # 0 => LET h == findLevelByID(p[2])' IN
                h # 0 /\ registry'[h].content = registry[k].content]_vars
=============================================================================
