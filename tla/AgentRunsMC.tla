---------------------------- MODULE AgentRunsMC ----------------------------
(* Constants of AgentRuns for TLC. *)
EXTENDS AgentRuns, TLC

CONSTANTS edit, fetch, install, script

\* An edit never needs approval; the two network commands share a category that
\* a run may be granted; a shell command of unbounded meaning never can be.
MCCategories == {"edit", "network", "complex"}
MCCategory ==
    [a \in Actions |-> CASE a = edit -> "edit" [] a = script -> "complex" [] OTHER -> "network"]
MCRoutine == Actions \cap {edit}
MCGrantable == {"network"}

MCSymmetry == Permutations(Handlers) \cup Permutations(Actions \cap {fetch, install})
=============================================================================
