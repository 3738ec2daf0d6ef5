--------------------------- MODULE MCApplyPipeline ---------------------------
(* Instance values for ApplyPipeline. *)
EXTENDS ApplyPipeline, TLC

CONSTANTS j1, j2, x1, x2

\* Two rows for one job (a second one may be created once the first is terminal),
\* and one row each for two jobs.
MCSameJob == [a \in App |-> j1]
MCTwoJobs == [a \in App |-> IF a = x1 THEN j1 ELSE j2]

Symmetry == Permutations(App)
=============================================================================
