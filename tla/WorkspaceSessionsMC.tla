------------------------ MODULE WorkspaceSessionsMC ------------------------
(* Constants of WorkspaceSessions for TLC: two repositories, the first of   *)
(* which may be opened twice.                                               *)
EXTENDS WorkspaceSessions, TLC

CONSTANTS first, second, again, here, there

MCWorkspaceOf == [s \in Sessions |-> IF s = second THEN there ELSE here]
=============================================================================
