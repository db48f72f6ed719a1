--------------------------- MODULE ClusterAlloc ---------------------------
(***************************************************************************)
(* The cluster allocator of LevelFS (mount.cpp): the superblock's counters,*)
(* the level index table LIT, and the pool of allocation blocks (LABs) the *)
(* LIT entries point to, created when the first cluster of their group is  *)
(* allocated.  The shell's commands are sequences of the actions below.    *)
(*                                                                         *)
(* The clusters 0 .. FirstData-1 (superblock, LIT, LAB pool, registry,     *)
(* journal, root directory) and the last one (backup superblock) are       *)
(* reserved.  Levels and reference counts of LAB entries, which nothing    *)
(* reads, are left out.                                                    *)
(*                                                                         *)
(* A chain may have more than one name: a hard link, a linked level, the   *)
(* shell's current folder.  A command may use any of them, and deletion    *)
(* frees the chain whichever name it is given.  Names of a chain that was  *)
(* freed are stale, and a command that uses one works on clusters that are *)
(* free or another owner's by then.  From there on blocks has no more than *)
(* every owner's first cluster, as its directory entry does.               *)
(***************************************************************************)
EXTENDS Integers, FiniteSets, Sequences

CONSTANTS TotalClusters,   \* totalClusters
          FirstData,       \* rootDirCluster + 2
          PerLab,          \* CLUSTERS_PER_LIT_ENTRY
          Stale,           \* what the LAB pool holds when the volume is formatted
          Owners,          \* files, directories and version tables
          NoOwner,
          MaxStaleUses     \* bound: how often a stale name is used

Clusters == 0 .. TotalClusters - 1
Data == FirstData .. TotalClusters - 2

LAT_FREE == 0
LAT_END == TotalClusters       \* like 0xFFFF...: no cluster has this number

LAT_FLAG_USED == 1

LABEntry == [next : 0 .. LAT_END, flags : {0, LAT_FLAG_USED}]
FreeEntry == [next |-> LAT_FREE, flags |-> 0]
LastEntry == [next |-> LAT_END, flags |-> LAT_FLAG_USED]

Group(c) == c \div PerLab
Offset(c) == c % PerLab
Groups == {Group(c) : c \in Clusters}
Offsets == 0 .. PerLab - 1
PoolSize == (TotalClusters + PerLab - 1) \div PerLab      \* labPoolClusters
Pool == 0 .. PoolSize - 1
LIT_EMPTY == -1

ASSUME AllocAssumption ==
  /\ TotalClusters \in Nat /\ FirstData \in Nat \ {0} /\ FirstData < TotalClusters
  /\ PerLab \in Nat \ {0}
  /\ Stale \in [Pool -> [Offsets -> LABEntry]]
  /\ NoOwner \notin Owners
  /\ MaxStaleUses \in Nat

VARIABLES vol,        \* the volume: superblock counters, LIT and LAB pool
          blocks,     \* the clusters each owner has, in order (all but the first: ghost)
          leaked,     \* the clusters no owner has any more (ghost)
          importing,  \* the file whose import has yet to write its directory entry
          stale,      \* the first clusters that names of freed chains still have
          uses        \* how often such a name was used (ghost)

vars == <<vol, blocks, leaked, importing, stale, uses>>

\* performFormat.
Init ==
  /\ vol = [nextFreeLAB       |-> 0,
            freeClusterHint   |-> FirstData,
            totalFreeClusters |-> TotalClusters - FirstData - 1,
            lit |-> [g \in Groups |-> [lab |-> LIT_EMPTY, count |-> 0]],
            lab |-> Stale]
  /\ blocks = [o \in Owners |-> <<>>]
  /\ leaked = {}
  /\ importing = NoOwner
  /\ stale = {}
  /\ uses = 0

-----------------------------------------------------------------------------
(* The allocator's functions, from a volume v to the volume they leave.    *)

\* getLABEntry.  A group without a LAB, or with one outside the pool, is free.
Entry(v, c) ==
  IF c \notin Data THEN [next |-> LAT_END, flags |-> 0]
  ELSE IF v.lit[Group(c)].lab \in Pool THEN v.lab[v.lit[Group(c)].lab][Offset(c)]
  ELSE FreeEntry

\* Mutant: nextFreeLAB is not advanced.
CreateLABAgain(v, g) ==
  IF v.lit[g].lab # LIT_EMPTY THEN v
  ELSE [v EXCEPT !.lit[g] = [lab |-> v.nextFreeLAB, count |-> 0],
                 !.lab[v.nextFreeLAB] = [i \in Offsets |-> FreeEntry]]

\* Mutant: a new LAB keeps what the pool held.
CreateLABStale(v, g) ==
  IF v.lit[g].lab # LIT_EMPTY THEN v
  ELSE [v EXCEPT !.nextFreeLAB = @ + 1,
                 !.lit[g] = [lab |-> v.nextFreeLAB, count |-> 0]]

\* The first half of setLABEntry: the group gets a LAB if it has none.
CreateLAB(v, g) ==
  IF v.lit[g].lab # LIT_EMPTY THEN v
  ELSE [v EXCEPT !.nextFreeLAB = @ + 1,
                 !.lit[g] = [lab |-> v.nextFreeLAB, count |-> 0],
                 !.lab[v.nextFreeLAB] = [i \in Offsets |-> FreeEntry]]

SetLABEntry(v, c, e) ==
  LET w == CreateLAB(v, Group(c))
  IN  [w EXCEPT !.lab[w.lit[Group(c)].lab][Offset(c)] = e]

\* Mutant: the flags are those of the new link alone.
SetLATEntryAfresh(v, c, n) ==
  SetLABEntry(v, c, [next |-> n, flags |-> IF n = LAT_END THEN LAT_FLAG_USED ELSE 0])

\* A link to LAT_FREE leaves the used flag as it is.
SetLATEntry(v, c, n) ==
  SetLABEntry(v, c, [next  |-> n,
                    flags |-> IF n = LAT_END THEN LAT_FLAG_USED ELSE Entry(v, c).flags])

\* Mutant: the scan looks at the link only.
AllocatableByLink(v) == {c \in Data : Entry(v, c).next = LAT_FREE}

Allocatable(v) == {c \in Data : Entry(v, c) = FreeEntry}

\* Where the scan of allocClusterForLevel ends: the first allocatable cluster from
\* the hint on, and after the last cluster from the first one.
NextCluster(v) ==
  LET ahead == {c \in Allocatable(v) : c >= v.freeClusterHint}
      S == IF ahead # {} THEN ahead ELSE Allocatable(v)
  IN  CHOOSE c \in S : \A d \in S : c <= d

\* allocCluster when there is an allocatable cluster.
Alloc(v) ==
  LET c == NextCluster(v)
      w == SetLABEntry(v, c, LastEntry)
  IN  [w EXCEPT !.lit[Group(c)] = [lab |-> @.lab, count |-> @.count + 1],
                !.freeClusterHint = c + 1,
                !.totalFreeClusters = @ - 1]

\* What links lead to from a cluster, not following that of the cluster stop.
Walk(v, start, stop) ==
  LET Link(d) == Entry(v, d).next
      closed == {S \in SUBSET Data :
                   start \in S /\ \A d \in S \ {stop} : Link(d) \in Data => Link(d) \in S}
  IN  {c \in Data : \A S \in closed : c \in S}

\* getChain, as a set: it stops where a link leads to no cluster, or back.
Chain(v, start) == Walk(v, start, LAT_END)

\* The last cluster of getChain: all others are met before it.
End(v, start) ==
  LET chain == Chain(v, start)
  IN  CHOOSE e \in chain : Walk(v, start, e) = chain

\* Mutant: the superblock's counter is only counted up for the first cluster.
FreeChainUncounted(v, start) ==
  LET S == Chain(v, start)
      Freed(g) == Cardinality({c \in S : Group(c) = g})
  IN  [v EXCEPT
         !.lab = [s \in Pool |-> [i \in Offsets |->
                    IF \E c \in S : v.lit[Group(c)].lab = s /\ Offset(c) = i
                    THEN FreeEntry ELSE v.lab[s][i]]],
         !.lit = [g \in Groups |->
                    [lab   |-> v.lit[g].lab,
                     count |-> IF v.lit[g].count >= Freed(g)
                               THEN v.lit[g].count - Freed(g) ELSE 0]],
         !.totalFreeClusters = @ + 1]

\* freeChain.  Every cluster of the chain is in a LAB already.
FreeChain(v, start) ==
  LET S == Chain(v, start)
      Freed(g) == Cardinality({c \in S : Group(c) = g})
  IN  [v EXCEPT
         !.lab = [s \in Pool |-> [i \in Offsets |->
                    IF \E c \in S : v.lit[Group(c)].lab = s /\ Offset(c) = i
                    THEN FreeEntry ELSE v.lab[s][i]]],
         !.lit = [g \in Groups |->
                    [lab   |-> v.lit[g].lab,
                     count |-> IF v.lit[g].count >= Freed(g)
                               THEN v.lit[g].count - Freed(g) ELSE 0]],
         !.totalFreeClusters = @ + Cardinality(S)]

-----------------------------------------------------------------------------
(* What the commands do with it.                                           *)

Members(s) == {s[i] : i \in 1 .. Len(s)}

Firsts(b) == [o \in Owners |-> IF b[o] = <<>> THEN <<>> ELSE <<b[o][1]>>]

\* The owners' clusters become those of b, and l are lost.
Track(b, l) ==
  IF uses = 0 THEN blocks' = b /\ leaked' = l
  ELSE blocks' = Firsts(b) /\ leaked' = {}

\* A stale name that the bound leaves no use for is not kept.
Keep(S) == stale' = IF uses' < MaxStaleUses THEN S ELSE {}

\* A file, a level or a version table gets its first cluster.
Create(o) ==
  /\ importing = NoOwner /\ blocks[o] = <<>>
  /\ Allocatable(vol) # {}
  /\ vol' = Alloc(vol)
  /\ Track([blocks EXCEPT ![o] = <<NextCluster(vol)>>], leaked)
  /\ UNCHANGED <<importing, stale, uses>>

\* create folder: a version table, then the content of its first level.
CreateFolder(o, p) ==
  /\ importing = NoOwner /\ o # p /\ blocks[o] = <<>> /\ blocks[p] = <<>>
  /\ Allocatable(vol) # {} /\ Allocatable(Alloc(vol)) # {}
  /\ vol' = Alloc(Alloc(vol))
  /\ Track([blocks EXCEPT ![o] = <<NextCluster(vol)>>,
                          ![p] = <<NextCluster(Alloc(vol))>>], leaked)
  /\ UNCHANGED <<importing, stale, uses>>

\* create folder on a disk with a single free cluster: the version table's cluster
\* is given back with setLATEntry.
CreateFolderFull ==
  /\ importing = NoOwner
  /\ Allocatable(vol) # {} /\ Allocatable(Alloc(vol)) = {}
  /\ vol' = SetLATEntry(Alloc(vol), NextCluster(vol), LAT_FREE)
  /\ Track(blocks, leaked \cup {NextCluster(vol)})
  /\ UNCHANGED <<importing, stale, uses>>

\* A cluster is linked behind the last one of a chain.
Extend(o) ==
  /\ importing \in {NoOwner, o} /\ blocks[o] # <<>>
  /\ Allocatable(vol) # {}
  /\ vol' = SetLATEntry(Alloc(vol), End(vol, blocks[o][1]), NextCluster(vol))
  /\ Track([blocks EXCEPT ![o] = Append(@, NextCluster(vol))], leaked)
  /\ UNCHANGED <<importing, stale, uses>>

\* write of a shorter text: the chain is cut after one of its clusters, and the rest
\* is not freed.
Truncate(o, c) ==
  /\ importing = NoOwner /\ blocks[o] # <<>> /\ c \in Chain(vol, blocks[o][1])
  /\ vol' = SetLATEntry(vol, c, LAT_END)
  /\ LET n == CHOOSE i \in 1 .. Len(blocks[o]) : uses = 0 => blocks[o][i] = c
     IN  Track([blocks EXCEPT ![o] = SubSeq(@, 1, n)],
               leaked \cup {blocks[o][i] : i \in n + 1 .. Len(blocks[o])})
  /\ UNCHANGED <<importing, stale, uses>>

\* import over an existing file keeps its first cluster and links new ones to it.
Reimport(o) ==
  /\ importing = NoOwner /\ blocks[o] # <<>>
  /\ Allocatable(vol) # {}
  /\ vol' = SetLATEntry(Alloc(vol), blocks[o][1], NextCluster(vol))
  /\ Track([blocks EXCEPT ![o] = <<@[1], NextCluster(vol)>>],
           leaked \cup {blocks[o][i] : i \in 2 .. Len(blocks[o])})
  /\ UNCHANGED <<importing, stale, uses>>

\* import of a new file allocates the whole chain before its directory entry is
\* written; on a full disk it returns without having written it.
BeginImport(o) ==
  /\ importing = NoOwner /\ blocks[o] = <<>>
  /\ Allocatable(vol) # {}
  /\ vol' = Alloc(vol)
  /\ Track([blocks EXCEPT ![o] = <<NextCluster(vol)>>], leaked)
  /\ importing' = o
  /\ UNCHANGED <<stale, uses>>

EndImport ==
  /\ importing # NoOwner
  /\ vol' = SetLATEntry(vol, End(vol, blocks[importing][1]), LAT_END)
  /\ importing' = NoOwner
  /\ UNCHANGED <<blocks, leaked, stale, uses>>

ImportFull ==
  /\ importing # NoOwner /\ Allocatable(vol) = {}
  /\ Track([blocks EXCEPT ![importing] = <<>>], leaked \cup Members(blocks[importing]))
  /\ importing' = NoOwner
  /\ UNCHANGED <<vol, stale, uses>>

\* A root directory without a free slot is extended like any other, but the chain
\* of a reserved cluster always ends there.
ExtendRoot ==
  /\ importing = NoOwner
  /\ Allocatable(vol) # {}
  /\ vol' = SetLATEntry(Alloc(vol), FirstData - 1, NextCluster(vol))
  /\ Track(blocks, leaked \cup {NextCluster(vol)})
  /\ UNCHANGED <<importing, stale, uses>>

\* A cluster is allocated for something no directory will lead to: an entry of such
\* an extension, or a level branchLevel finds no room for in the version table.
AllocLost ==
  /\ importing = NoOwner
  /\ Allocatable(vol) # {}
  /\ vol' = Alloc(vol)
  /\ Track(blocks, leaked \cup {NextCluster(vol)})
  /\ UNCHANGED <<importing, stale, uses>>

\* del and deleteLevel free what their entry names; the chain's other names, if it has
\* any, keep its first cluster.
Delete(o) ==
  /\ importing = NoOwner /\ blocks[o] # <<>>
  /\ vol' = FreeChain(vol, blocks[o][1])
  /\ Track([blocks EXCEPT ![o] = <<>>], leaked)
  /\ UNCHANGED <<importing, uses>>
  /\ \E S \in {stale, stale \cup {blocks[o][1]}} : Keep(S)

\* A stale name is used: whatever its cluster is by now is taken for the chain.
UseStale ==
  /\ importing = NoOwner /\ uses < MaxStaleUses
  /\ uses' = uses + 1
  /\ blocks' = Firsts(blocks) /\ leaked' = {}
  /\ UNCHANGED importing

DeleteStale(c) ==
  /\ UseStale
  /\ vol' = FreeChain(vol, c)
  /\ \E S \in {stale, stale \ {c}} : Keep(S)

\* A cluster is linked behind the last one, or by import behind the first one.
ExtendStale(c) ==
  /\ UseStale
  /\ Allocatable(vol) # {}
  /\ \E d \in {c, End(vol, c)} : vol' = SetLATEntry(Alloc(vol), d, NextCluster(vol))
  /\ Keep(stale)

TruncateStale(c) ==
  /\ UseStale
  /\ \E d \in Chain(vol, c) : vol' = SetLATEntry(vol, d, LAT_END)
  /\ Keep(stale)

Next ==
  \/ \E o \in Owners : Create(o) \/ BeginImport(o) \/ Reimport(o)
  \/ \E o, p \in Owners : CreateFolder(o, p)
  \/ \E o \in Owners : Extend(o) \/ Delete(o)
  \/ \E o \in Owners : \E c \in Data : Truncate(o, c)
  \/ CreateFolderFull
  \/ EndImport
  \/ ImportFull
  \/ ExtendRoot
  \/ AllocLost
  \/ \E c \in stale : DeleteStale(c) \/ ExtendStale(c) \/ TruncateStale(c)

Spec == Init /\ [][Next]_vars

-----------------------------------------------------------------------------
(* Correctness.                                                            *)

\* The variables have their types; the hint is a data cluster or the one behind the
\* last, and the unsigned counters of free and of allocated clusters never wrap.
TypeOK ==
  /\ vol \in [nextFreeLAB : Nat, freeClusterHint : FirstData .. TotalClusters - 1,
              totalFreeClusters : Nat,
              lit : [Groups -> [lab : Nat \cup {LIT_EMPTY}, count : Nat]],
              lab : [Pool -> [Offsets -> LABEntry]]]
  /\ blocks \in [Owners -> Seq(Data)]
  /\ leaked \subseteq Data
  /\ importing \in Owners \cup {NoOwner}
  /\ stale \subseteq Data
  /\ uses \in 0 .. MaxStaleUses

\* Until a stale name is used, every owner's clusters are what the links on the volume
\* say, in order, and no cluster is used twice: getChain returns a file's own clusters
\* whatever else was created, cut, extended and deleted since, and also where a stale
\* name has one of them for its own.
ChainsExact ==
  uses = 0 =>
    /\ \A o \in Owners : \A i \in 1 .. Len(blocks[o]) :
         Entry(vol, blocks[o][i]) =
           [next  |-> IF i = Len(blocks[o]) THEN LAT_END ELSE blocks[o][i + 1],
            flags |-> LAT_FLAG_USED]
    /\ \A o, p \in Owners : \A i \in 1 .. Len(blocks[o]), j \in 1 .. Len(blocks[p]) :
         blocks[o][i] = blocks[p][j] => o = p /\ i = j

\* The superblock's and the LIT's counters, updated apart from the entries they count,
\* agree with them until a stale name is used; what a second freeing of a chain does to
\* the superblock's counter makes it too large, never too small.
AccountingExact ==
  /\ vol.totalFreeClusters >= Cardinality(Allocatable(vol))
  /\ uses = 0 =>
       /\ vol.totalFreeClusters = Cardinality(Allocatable(vol))
       /\ \A g \in Groups : vol.lit[g].count =
            Cardinality({c \in Data : Group(c) = g /\ Entry(vol, c) # FreeEntry})

\* Two groups never share a LAB, and the pool is never overrun (setLABEntry hands
\* out nextFreeLAB without looking at labPoolClusters), stale names or not.
LabsDistinct ==
  /\ \A g \in Groups : vol.lit[g].lab # LIT_EMPTY =>
       vol.lit[g].lab \in Pool /\ vol.lit[g].lab < vol.nextFreeLAB
  /\ \A g, h \in Groups : vol.lit[g].lab = vol.lit[h].lab /\ g # h =>
       vol.lit[g].lab = LIT_EMPTY

\* Until a stale name is used, a data cluster can be allocated, belongs to an owner, or
\* was lost by one of the commands that lose clusters; never two of the three.
NothingLost ==
  LET owned == UNION {Members(blocks[o]) : o \in Owners} IN
  uses = 0 =>
    /\ Data = Allocatable(vol) \cup owned \cup leaked
    /\ leaked \cap (Allocatable(vol) \cup owned) = {}
    /\ Allocatable(vol) \cap owned = {}

\* What getChain returns for an owner's first cluster, which its directory entry or its
\* level has.
Held == [o \in Owners |-> IF blocks[o] = <<>> THEN {} ELSE Chain(vol, blocks[o][1])]

Promise == INSTANCE ClusterPool WITH
  held <- Held, free <- Allocatable(vol), count <- vol.totalFreeClusters

\* Until a stale name is used, links, LABs and counters together are sets of clusters: a
\* command moves clusters between its owners and the free ones, no other owner's chain
\* changes, and what was lost is never handed out again.
PoolSpec == Promise!Init /\ [][uses' = 0 => Promise!Next]_(Promise!vars)
=============================================================================
