---------------------------- MODULE MCSessions ----------------------------
(* Instance values for Sessions. *)
EXTENDS Sessions, TLC

Symmetry == Permutations(Req) \cup Permutations(Token) \cup Permutations(Family)
=============================================================================
