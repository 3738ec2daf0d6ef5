------------------------ MODULE MCApplicationPackage ------------------------
(* Instance values for ApplicationPackage: `apkg` and `bpkg` are e-mail     *)
(* packages with different hashes, `wpkg` differs from `apkg` only in what  *)
(* the hash normalises away, `ppkg` is a portal package, and `npkg` lacks a *)
(* cover letter.                                                           *)
EXTENDS ApplicationPackage, TLC

CONSTANTS apkg, bpkg, wpkg, ppkg, npkg, ha, hb, hp, hn

MCHash == [c \in Content |->
    CASE c \in {apkg, wpkg} -> ha [] c = bpkg -> hb [] c = ppkg -> hp [] c = npkg -> hn]
MCHashVal == {ha, hb, hp, hn}
MCEmail == {apkg, bpkg, wpkg, npkg} \cap Content
MCIncomplete == {npkg} \cap Content

Symmetry == Permutations(Req) \cup Permutations(PkgId) \cup Permutations(ApprId)
=============================================================================
