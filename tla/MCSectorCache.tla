--------------------------- MODULE MCSectorCache ---------------------------
(* SectorCache for TLC.  Two sectors more than fit in the cache are not    *)
(* needed to see every order of hit, fill, eviction and write-back: three  *)
(* sectors compete for two entries.                                        *)
EXTENDS SectorCache, TLC

CONSTANTS v1, v2, s1, s2, s3, d1, d2

OneVolume == {v1}
TwoVolumes == {v1, v2}
ThreeSectors == {s1, s2, s3}
TwoData == {d1, d2}
Sizes == 0 .. 3

\* No definition tells one sector, or one content, from another.
SectorSymmetry == Permutations(ThreeSectors)
CacheSymmetry == SectorSymmetry \cup Permutations(TwoData)
=============================================================================
