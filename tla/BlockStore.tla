----------------------------- MODULE BlockStore -----------------------------
(***************************************************************************)
(* What a buffered disk promises to the file system above it.  A read      *)
(* returns the last value written to that sector of that volume; writing a *)
(* sector back to the medium may happen at any time and nobody sees it; an *)
(* orderly shutdown leaves everything on the medium; a crash loses exactly *)
(* what had not been written back.  SectorCache implements this.           *)
(***************************************************************************)
CONSTANTS Volumes,   \* the volumes that can be mounted
          Sectors,   \* the sectors of a volume
          Data,      \* the contents a sector can have
          NoResult   \* nothing has been read yet

VARIABLES store,     \* store[v][s]: what a read of sector s of volume v returns
          stable,    \* stable[v][s]: what is on the medium
          out        \* the last read: the volume, the sector and the value returned

vars == <<store, stable, out>>

Contents == [Volumes -> [Sectors -> Data]]

Init ==
  /\ store \in Contents
  /\ stable = store
  /\ out = NoResult

\* Any set of sectors of the volume may reach the medium during a step.
WriteBack(v) ==
  \E W \in SUBSET Sectors :
    stable' = [stable EXCEPT ![v] =
                 [s \in Sectors |-> IF s \in W THEN store[v][s] ELSE @[s]]]

Read(v, s) ==
  /\ out' = [volume |-> v, sector |-> s, value |-> store[v][s]]
  /\ WriteBack(v)
  /\ UNCHANGED store

Write(v, s, d) ==
  /\ store' = [store EXCEPT ![v][s] = d]
  /\ WriteBack(v)
  /\ UNCHANGED out

\* Orderly close of a volume, by a remount or by leaving the program.
Sync(v) ==
  /\ stable' = [stable EXCEPT ![v] = store[v]]
  /\ out' \in {out, NoResult}
  /\ UNCHANGED store

Crash ==
  /\ store' = stable
  /\ out' = NoResult
  /\ UNCHANGED stable

Next ==
  \/ \E v \in Volumes, s \in Sectors : Read(v, s)
  \/ \E v \in Volumes, s \in Sectors, d \in Data : Write(v, s, d)
  \/ \E v \in Volumes : Sync(v)
  \/ Crash

Spec == Init /\ [][Next]_vars
=============================================================================
