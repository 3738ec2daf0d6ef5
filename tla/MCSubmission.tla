---------------------------- MODULE MCSubmission ----------------------------
(* Instance values for Submission. *)
EXTENDS Submission, TLC

CONSTANTS a1, a2

Symmetry == Permutations(Req) \cup Permutations(ApprId)
=============================================================================
