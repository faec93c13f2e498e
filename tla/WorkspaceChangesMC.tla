------------------------- MODULE WorkspaceChangesMC -------------------------
(* Small instances of WorkspaceChanges. *)
EXTENDS WorkspaceChanges, TLC

MCPaths == 1 .. 3
MCWorkspaces == {<<"none", "x", "y">>, <<"l", "m", "none">>}

Symmetry == Permutations(Actions)
=============================================================================
