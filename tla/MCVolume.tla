------------------------------ MODULE MCVolume ------------------------------
(* Small instances of Volume for TLC: sessions of at most MaxCommands commands. *)
EXTENDS Volume, TLC

CONSTANT MaxCommands    \* bound

VARIABLE commands

MCInit == Init /\ commands = 0
MCNext == commands < MaxCommands /\ commands' = commands + 1 /\ Next
MCSpec == MCInit /\ [][MCNext]_<<vars, commands>>

Symmetry == Permutations(Chains) \cup Permutations(Names)
=============================================================================
