---------------------------- MODULE MCTaskboard ----------------------------
(* Instances of Taskboard for TLC.                                         *)
EXTENDS Taskboard, TLC

\* Agents differ by name only.
AgentSymmetry == Permutations(Agents)
=============================================================================
