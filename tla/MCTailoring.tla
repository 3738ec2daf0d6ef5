---------------------------- MODULE MCTailoring ----------------------------
(* Instance values for Tailoring. *)
EXTENDS Tailoring, TLC

\* Texts from 90 on are those of the uploaded resume.  The second resume was
\* tailored from it in a session that is not looked at any more.
MCLibrary ==
    <<[type |-> "base", doc |-> [summary |-> 90, skills |-> <<91, 92>>], json |-> FALSE,
       pdf |-> TRUE, session |-> 0, reviews |-> {}],
      [type |-> "tailored", doc |-> [summary |-> 90, skills |-> <<92>>], json |-> TRUE,
       pdf |-> TRUE, session |-> 0, reviews |-> {}]>>

Edit(kind, target) == [kind |-> kind, target |-> target]

\* One edit, which leaves a change_id for its revision, and two at once; if the
\* insertion goes first, the modification lands on the other item.
MCProposals == {<< >>, <<Edit("modify", 1)>>, <<Edit("modify", Summary), Edit("remove", 0)>>,
                <<Edit("modify", 1), Edit("add", 0)>>}

Symmetry == Permutations(Req)
=============================================================================
