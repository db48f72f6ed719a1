---------------------------- MODULE ClusterPool ----------------------------
(***************************************************************************)
(* What the cluster allocator promises to the commands: sets of clusters.  *)
(* An owner has some, some are free, and a command moves them: from the    *)
(* free ones to an owner, one at a time, all of an owner's back, or out of *)
(* both, where nothing brings them back from.  What the shell shows as     *)
(* free is their number.  ClusterAlloc implements this with what getChain  *)
(* returns and what the scan for a free cluster finds.                     *)
(***************************************************************************)
EXTENDS FiniteSets

CONSTANTS Data,     \* the clusters that can be allocated
          Owners    \* files, directories and version tables

VARIABLES held,     \* the clusters each owner has
          free,     \* the clusters that can be allocated now
          count     \* the number of free clusters, as the superblock has it

vars == <<held, free, count>>

Init ==
  /\ held = [o \in Owners |-> {}]
  /\ free = Data
  /\ count = Cardinality(Data)

\* A chain gets its first cluster or another one.
Take(o) ==
  \E c \in free :
    /\ free' = free \ {c}
    /\ held' = [held EXCEPT ![o] = @ \cup {c}]

\* A folder's version table and the content of its level, or neither.
TakeBoth(o, p) ==
  \E c, d \in free :
    /\ o # p /\ c # d
    /\ free' = free \ {c, d}
    /\ held' = [held EXCEPT ![o] = @ \cup {c}, ![p] = @ \cup {d}]

\* An import over a file keeps one cluster and gets another.
Replace(o) ==
  \E c \in free :
    /\ free' = free \ {c}
    /\ \E k \in held[o] : held' = [held EXCEPT ![o] = {k, c}]

\* A chain is cut, or given up by an import that finds the disk full.
Drop(o) ==
  /\ UNCHANGED free
  /\ \E S \in SUBSET held[o] : held' = [held EXCEPT ![o] = @ \ S]

\* A cluster is allocated for nobody.
Waste ==
  \E c \in free : free' = free \ {c} /\ UNCHANGED held

Free(o) ==
  /\ free' = free \cup held[o]
  /\ held' = [held EXCEPT ![o] = {}]

Next ==
  /\ \/ \E o \in Owners : Take(o) \/ Replace(o) \/ Drop(o) \/ Free(o)
     \/ \E o, p \in Owners : TakeBoth(o, p)
     \/ Waste
  /\ count' = Cardinality(free')

Spec == Init /\ [][Next]_vars
=============================================================================
