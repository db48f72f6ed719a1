------------------------------ MODULE MCLevels ------------------------------
(* Small instances of Levels for TLC: sessions of at most MaxCommands commands. *)
EXTENDS Levels, TLC

CONSTANT MaxCommands    \* bound

VARIABLE commands

MCInit == Init /\ commands = 0
MCNext == commands < MaxCommands /\ commands' = commands + 1 /\ Next
MCSpec == MCInit /\ [][MCNext]_<<vars, commands>>

Symmetry == Permutations(Contents)
=============================================================================
