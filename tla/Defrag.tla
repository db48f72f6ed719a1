------------------------------- MODULE Defrag -------------------------------
(***************************************************************************)
(* The defragmenter of LevelFS (Defragmenter in defrag.hpp) on a volume as *)
(* the shell leaves it.  It takes sector c / Lab, counted from the start   *)
(* of the volume, for the LAB of cluster c, where the superblock, the LIT  *)
(* and then the LABs of other clusters are, and reads and writes one       *)
(* sector of it: an entry behind the sector's end has any value, and is    *)
(* not written.                                                            *)
(*                                                                         *)
(* One step is a call of getChain or findContiguousSpace, or one write of  *)
(* moveClusterChain, between any two of which the program may die.         *)
(***************************************************************************)
EXTENDS Naturals, Sequences

CONSTANTS InSector,    \* LAB entries in a sector
          Sectors,     \* sectors in a cluster
          Groups, PoolStart, DataStart, FirstData, Total, \* the layout, in clusters
          Files, Nobody,
          END, Count,  \* LAT_END, and allocatedCount and flags of a LIT entry as one number
          MaxChain     \* bound

Lab == InSector * Sectors   \* LAB entries in a cluster, LAB_ENTRIES_PER_CLUSTER
FREE == 0
Clusters == 0 .. Total - 1

\* DataStart = PoolStart + Groups, FirstData < Total <= Lab * Groups.

VARIABLES entries,   \* what the sectors up to the pool's end hold, as LAB entries' links
          content,   \* whose data a cluster holds, <<file, position>>
          start,     \* the first cluster in a file's directory entry
          chain,     \* the chain getChain found
          backup,    \* backupData
          target,    \* newStart
          moving,    \* the file that is defragmented
          step,      \* "idle", "find", "copy", "point", "link", "free"
          position   \* the loop's index

vars == <<entries, content, start, chain, backup, target, moving, step, position>>

\* Where the shell has a cluster's entry: the LABs are in the pool group by group.
ShellSector(c) == PoolStart * Sectors + c \div InSector
Link(c) == entries[ShellSector(c)][c % InSector]

\* The links the shell follows from a cluster, at most n of them.
ChainFrom(c) ==
  LET follow[k \in 0 .. MaxChain] ==
        IF k = 0 THEN <<c>>
        ELSE LET s == follow[k - 1]
                 next == Link(s[Len(s)])
             IN  IF next \in Clusters \ {FREE} /\ Len(s) = k THEN Append(s, next) ELSE s
  IN  follow[MaxChain]

\* LIT entries of three words over LAB entries of two.
LitWord(w) ==
  CASE w % 3 = 0 -> IF w \div 3 < Groups THEN PoolStart + w \div 3 ELSE 0
    [] w % 3 = 1 -> IF w \div 3 < Groups THEN Lab * (w \div 3) ELSE 0
    [] w % 3 = 2 -> Count

\* The superblock's fields are no cluster's number; the rest of its cluster is empty.
InitialEntry(s, o, links) ==
  CASE s = 0 -> END
    [] s \in 1 .. Sectors - 1 -> FREE
    [] s \in Sectors .. PoolStart * Sectors - 1 -> LitWord(2 * InSector * (s - Sectors) + 2 * o)
    [] OTHER -> LET c == InSector * (s - PoolStart * Sectors) + o IN
                IF c \in DOMAIN links THEN links[c] ELSE IF c < FirstData THEN END ELSE FREE

\* Two files of two clusters each, whose clusters the allocator has given them in turn.
Init ==
  \E f, g \in Files, c \in FirstData .. Total - 4 :
    /\ f # g
    /\ LET links == [d \in c .. c + 3 |-> IF d < c + 2 THEN d + 2 ELSE END] IN
       entries = [s \in 0 .. (PoolStart + Groups) * Sectors - 1 |->
                    [o \in 0 .. InSector - 1 |-> InitialEntry(s, o, links)]]
    /\ content = [d \in Clusters |->
                    CASE d \in {c, c + 2} -> <<f, 1 + (d - c) \div 2>>
                      [] d \in {c + 1, c + 3} -> <<g, 1 + (d - c) \div 2>>
                      [] OTHER -> <<Nobody, d>>]
    /\ start = [x \in Files |-> IF x = f THEN c ELSE c + 1]
    /\ chain = <<>> /\ backup = <<>> /\ target = 0 /\ moving = Nobody
    /\ step = "idle" /\ position = 0

-----------------------------------------------------------------------------
\* getLABEntry and setLABEntry of the Defragmenter; what is read may be no cluster's number.
Numbers == Clusters \cup {END, Count}
Reads(c) ==
  IF c \in Clusters /\ c % Lab < InSector THEN {entries[c \div Lab][c % Lab]} ELSE Numbers
Written(c, next) ==
  IF c % Lab < InSector THEN [entries EXCEPT ![c \div Lab][c % Lab] = next] ELSE entries

\* getChain ends at a free or last entry, or one that leads to itself; a cluster past the
\* volume's end is one of the chain.  Bound: chains of MaxChain clusters.
IsChain(s, first) ==
  /\ s[1] = first
  /\ \A k \in 1 .. Len(s) - 1 : s[k + 1] \in Reads(s[k]) \ {FREE, END, s[k]}
  /\ Reads(s[Len(s)]) \cap {FREE, END, s[Len(s)]} # {}

Chains(first) ==
  {s \in UNION {[1 .. n -> Numbers] : n \in 1 .. MaxChain} : IsChain(s, first)}

Contiguous(s) == \A k \in 1 .. Len(s) - 1 : s[k + 1] = s[k] + 1

\* A file that has the right to be written, or defrag -f.  One that is in one piece to
\* analyzeFile is skipped; defragFile then calls getChain again.
Analyze(f) ==
  /\ step = "idle"
  /\ \E s \in Chains(start[f]) : ~ Contiguous(s)
  /\ chain' \in Chains(start[f])
  /\ moving' = f /\ step' = "find"
  /\ UNCHANGED <<entries, content, start, backup, target, position>>

Readable == \A k \in DOMAIN chain : chain[k] \in Clusters

\* findContiguousSpace returns the first run of entries that read as free; then
\* moveClusterChain reads the chain's clusters before it writes any.
FindContiguousSpace ==
  /\ step = "find" /\ Readable
  /\ \E c \in DataStart .. Total - Len(chain) :
       /\ \A d \in c .. c + Len(chain) - 1 : FREE \in Reads(d)
       /\ \A b \in DataStart .. c - 1 :
            \E d \in b .. b + Len(chain) - 1 : d < c /\ Reads(d) # {FREE}
       /\ target' = c
  /\ backup' = [k \in DOMAIN chain |-> content[chain[k]]]
  /\ step' = "copy" /\ position' = 1
  /\ UNCHANGED <<entries, content, start, chain, moving>>

\* There is no space, or moveClusterChain cannot read a cluster of the chain.
Fail ==
  /\ step = "find"
  /\ \/ \A c \in DataStart .. Total - Len(chain) :
          \E d \in c .. c + Len(chain) - 1 : Reads(d) # {FREE}
     \/ ~ Readable
  /\ step' = "idle" /\ chain' = <<>> /\ moving' = Nobody
  /\ UNCHANGED <<entries, content, start, backup, target, position>>

-----------------------------------------------------------------------------
(* moveClusterChain.                                                       *)

Loop(this, next) ==
  /\ step = this
  /\ IF position < Len(chain) THEN position' = position + 1 /\ step' = this
     ELSE position' = 1 /\ step' = next

Copy ==
  /\ Loop("copy", "point")
  /\ content' = [content EXCEPT ![target + position - 1] = backup[position]]
  /\ UNCHANGED <<entries, start, chain, backup, target, moving>>

\* The directory entry.
Point ==
  /\ step = "point" /\ step' = "link"
  /\ start' = [start EXCEPT ![moving] = target]
  /\ UNCHANGED <<entries, content, chain, backup, target, moving, position>>

LinkNew ==
  /\ Loop("link", "free")
  /\ LET c == target + position - 1 IN
     entries' = Written(c, IF position < Len(chain) THEN c + 1 ELSE END)
  /\ UNCHANGED <<content, start, chain, backup, target, moving>>

FreeOld ==
  /\ Loop("free", "idle")
  /\ entries' = Written(chain[position], FREE)
  /\ UNCHANGED <<content, start, chain, backup, target, moving>>

Next ==
  \/ \E f \in Files : Analyze(f)
  \/ FindContiguousSpace \/ Fail \/ Copy \/ Point \/ LinkNew \/ FreeOld

Spec == Init /\ [][Next]_vars

-----------------------------------------------------------------------------
(* Correctness.                                                            *)

\* README: "defrag: Defragment disk".  When a file has been moved, the shell reads in every
\* file what was in it.
FilesKeepTheirData ==
  step = "idle" =>
    \A f \in Files :
      LET s == ChainFrom(start[f]) IN [k \in DOMAIN s |-> content[s[k]]] = <<<<f, 1>>, <<f, 2>>>>
=============================================================================
