-------------------------- MODULE MCClusterAlloc --------------------------
(* A volume of seven clusters with LABs of two entries, formatted over a  *)
(* disk whose pool area holds entries that look allocated.                 *)
EXTENDS ClusterAlloc, TLC

MCStale == [s \in Pool |-> [i \in Offsets |-> [next |-> 4, flags |-> LAT_FLAG_USED]]]

Symmetry == Permutations(Owners)
=============================================================================
