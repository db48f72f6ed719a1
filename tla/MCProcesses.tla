----------------------------- MODULE MCProcesses -----------------------------
(* Instances of Processes for TLC. *)
EXTENDS Processes

CONSTANTS a, b

\* Like "backup" and "up".
MCNames == {a, b}
MCMentions == {<<a, b>>}
=============================================================================
