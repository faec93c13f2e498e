----------------------------- MODULE RemoteJobsMC -----------------------------
(* RemoteJobs for TLC: jobs and workers are interchangeable.               *)
EXTENDS RemoteJobs, TLC

Symmetry == Permutations(Jobs) \cup Permutations(Workers)
=============================================================================
