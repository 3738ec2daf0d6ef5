---------------------------- MODULE Tailoring_proofs ----------------------------
(***************************************************************************)
(* The safety of CV tailoring for every set of requests, every number of   *)
(* sessions, resumes and changes, and all that the models may propose; and *)
(* what the merge of the accepted changes computes.                        *)
(***************************************************************************)
EXTENDS Tailoring, FiniteSetTheorems, SequenceTheorems, WellFoundedInduction, TLAPS

(* Recursion over the natural numbers.                                     *)

LEMMA Least ==
    ASSUME NEW T \in SUBSET Nat, T # {}
    PROVE  \E m \in T : \A k \in Nat : k < m => k \notin T
<1>1. PICK m \in T : \A k \in T : ~(<<k, m>> \in OpToRel(<, Nat))
  BY NatLessThanWellFounded, WFMin
<1>2. \A k \in T : ~(k < m)
  BY <1>1 DEF OpToRel
<1> QED
  BY <1>2

\* A function g follows the steps from a up to n.
Follows(g, n, a, step) ==
    g[0] = a /\ \A i \in 1..n : g[i] = step[g[i - 1]][i]

\* A function g on the natural numbers follows the steps from a.
Recurs(g, a, step) == \A n \in Nat : g[n] = IF n = 0 THEN a ELSE step[g[n - 1]][n]

\* The steps from a define a function on the natural numbers.
LEMMA Recursion ==
    ASSUME NEW S, NEW a \in S, NEW step \in [S -> [Nat -> S]]
    PROVE  \E f \in [Nat -> S] : Recurs(f, a, step)
<1>1. \A n \in Nat : \E g \in [0..n -> S] : Follows(g, n, a, step)
  <2> DEFINE T == {n \in Nat : ~\E g \in [0..n -> S] : Follows(g, n, a, step)}
  <2> SUFFICES ASSUME T # {} PROVE FALSE
    OBVIOUS
  <2>1. PICK m \in T : \A k \in Nat : k < m => k \notin T
    BY Least
  <2>2. CASE m = 0
    <3> DEFINE g == [i \in 0..0 |-> a]
    <3>1. g \in [0..0 -> S] /\ Follows(g, 0, a, step)
      BY DEF Follows
    <3> QED
      BY <2>1, <2>2, <3>1
  <2>3. CASE m # 0
    <3>1. m \in Nat /\ m - 1 \in Nat /\ m - 1 < m
      BY <2>3
    <3>2. PICK g \in [0..(m - 1) -> S] : Follows(g, m - 1, a, step)
      BY <2>1, <3>1
    <3> DEFINE h == [i \in 0..m |-> IF i = m THEN step[g[m - 1]][m] ELSE g[i]]
    <3>3. h \in [0..m -> S]
      <4>1. g[m - 1] \in S /\ step[g[m - 1]][m] \in S
        BY <3>1
      <4>2. \A i \in 0..m : i # m => g[i] \in S
        BY <3>1
      <4> QED
        BY <4>1, <4>2
    <3>4. \A i \in 0..(m - 1) : h[i] = g[i]
      BY <3>1
    <3>5. Follows(h, m, a, step)
      <4>1. h[0] = a
        BY <2>3, <3>1, <3>2, <3>4 DEF Follows
      <4>2. ASSUME NEW i \in 1..m PROVE h[i] = step[h[i - 1]][i]
        <5>1. i - 1 \in 0..(m - 1) /\ h[i - 1] = g[i - 1]
          BY <3>1, <3>4
        <5>2. CASE i = m
          BY <3>1, <5>1, <5>2
        <5>3. CASE i # m
          BY <3>1, <3>2, <3>4, <5>1, <5>3 DEF Follows
        <5> QED
          BY <5>2, <5>3
      <4> HIDE DEF h
      <4> QED
        BY <4>1, <4>2 DEF Follows
    <3> QED
      BY <2>1, <3>3, <3>5
  <2> QED
    BY <2>2, <2>3
<1>2. ASSUME NEW n \in Nat, NEW m \in Nat, n <= m, NEW g, NEW h,
             Follows(g, n, a, step), Follows(h, m, a, step)
      PROVE  g[n] = h[n]
  <2> DEFINE T == {i \in 0..n : g[i] # h[i]}
  <2>0. T \subseteq Nat /\ n \in 0..n
    OBVIOUS
  <2> SUFFICES ASSUME T # {} PROVE FALSE
    BY <2>0
  <2>1. PICK i \in T : \A k \in Nat : k < i => k \notin T
    <3> HIDE DEF T
    <3> QED
      BY <2>0, Least
  <2>2. CASE i = 0
    BY <1>2, <2>2 DEF Follows
  <2>3. CASE i # 0
    <3>1. i \in 1..n /\ i \in 1..m /\ i - 1 \in 0..n /\ i - 1 \in Nat /\ i - 1 < i
      BY <1>2, <2>3
    <3>2. g[i - 1] = h[i - 1]
      BY <2>1, <3>1
    <3>3. g[i] = h[i]
      BY <1>2, <3>1, <3>2 DEF Follows
    <3> QED
      BY <2>1, <3>3
  <2> QED
    BY <2>2, <2>3
<1> DEFINE up(n) == CHOOSE g \in [0..n -> S] : Follows(g, n, a, step)
           f == [n \in Nat |-> up(n)[n]]
<1>3. \A n \in Nat : up(n) \in [0..n -> S] /\ Follows(up(n), n, a, step)
  BY <1>1
<1> HIDE DEF up
<1>4. f \in [Nat -> S]
  BY <1>3
<1>5. ASSUME NEW n \in Nat PROVE f[n] = IF n = 0 THEN a ELSE step[f[n - 1]][n]
  <2>1. CASE n = 0
    BY <1>3, <2>1 DEF Follows
  <2>2. CASE n # 0
    <3>1. n - 1 \in Nat /\ n - 1 <= n /\ n \in 1..n
      BY <2>2
    <3>2. up(n)[n] = step[up(n)[n - 1]][n]
      BY <1>3, <3>1 DEF Follows
    <3>3. Follows(up(n - 1), n - 1, a, step) /\ Follows(up(n), n, a, step)
      BY <1>3, <3>1
    <3>4. up(n - 1)[n - 1] = up(n)[n - 1]
      BY <1>2, <3>1, <3>3
    <3> QED
      BY <2>2, <3>1, <3>2, <3>4
  <2> QED
    BY <2>1, <2>2
<1> QED
  BY <1>4, <1>5 DEF Recurs

-----------------------------------------------------------------------------
(* What the operators on documents return.                                 *)

\* The states of a merge.
States == [ok : BOOLEAN, touched : SUBSET Target, doc : Doc]

\* Applying a change that resolves gives a document; only an addition to the list
\* or a removal from it changes its length, and only the target's text changes.
LEMMA AppliedIsDoc ==
    ASSUME NEW doc \in Doc, NEW kind \in Kind, NEW target \in Target, NEW text \in Nat,
           Resolves(doc, kind, target)
    PROVE  Applied(doc, kind, target, text) \in Doc
<1> DEFINE s == doc.skills
           i == target + 1
<1>1. doc = [summary |-> doc.summary, skills |-> s] /\ doc.summary \in Nat /\ s \in Seq(Nat)
  BY DEF Doc
<1>2. CASE target = Summary
  BY <1>1, <1>2 DEF Applied, Doc, Empty
<1>3. CASE target # Summary
  <2>1. target \in Nat /\ i \in Nat /\ i >= 1
    BY <1>3 DEF Target
  <2>2. Len(s) \in Nat /\ \A k \in 1..Len(s) : s[k] \in Nat
    BY <1>1
  <2>3. kind # "add" => i \in 1..Len(s)
    BY <1>3, <2>1, <2>2 DEF Resolves
  <2>4. i <= Len(s) + 1
    BY <1>3, <2>1, <2>2 DEF Resolves
  <2> DEFINE before == SubSeq(s, 1, i - 1)
             from == SubSeq(s, i, Len(s))
             after == SubSeq(s, i + 1, Len(s))
  <2>5. before \in Seq(Nat) /\ from \in Seq(Nat) /\ after \in Seq(Nat)
    <3>1. \A k \in 1..(i - 1) : s[k] \in Nat
      BY <2>1, <2>2, <2>4
    <3>2. \A k \in i..Len(s) : s[k] \in Nat
      BY <2>1, <2>2
    <3>3. \A k \in (i + 1)..Len(s) : s[k] \in Nat
      BY <2>1, <2>2
    <3>4. i \in Int /\ i - 1 \in Int /\ i + 1 \in Int /\ Len(s) \in Int
      BY <2>1, <2>2
    <3> HIDE DEF s, i
    <3>5. before \in Seq(Nat)
      BY <3>1, <3>4, SubSeqProperties
    <3>6. from \in Seq(Nat)
      BY <3>2, <3>4, SubSeqProperties
    <3>7. after \in Seq(Nat)
      BY <3>3, <3>4, SubSeqProperties
    <3> QED
      BY <3>5, <3>6, <3>7
  <2>6. kind = "add" => InsertAt(s, i, text) \in Seq(Nat)
    <3>1. <<text>> \in Seq(Nat)
      OBVIOUS
    <3> QED
      BY <2>5, <3>1, ConcatProperties DEF InsertAt
  <2>7. kind = "modify" => [s EXCEPT ![i] = text] \in Seq(Nat)
    BY <1>1, <2>3, ExceptSeq
  <2>8. kind = "remove" => RemoveAt(s, i) \in Seq(Nat)
    BY <2>5, ConcatProperties DEF RemoveAt
  <2>9. Applied(doc, kind, target, text)
          = [doc EXCEPT !.skills = CASE kind = "add" -> InsertAt(s, i, text)
                                     [] kind = "modify" -> [s EXCEPT ![i] = text]
                                     [] kind = "remove" -> RemoveAt(s, i)]
    BY <1>3 DEF Applied
  <2> HIDE DEF s, i
  <2>10. (CASE kind = "add" -> InsertAt(s, i, text)
            [] kind = "modify" -> [s EXCEPT ![i] = text]
            [] kind = "remove" -> RemoveAt(s, i)) \in Seq(Nat)
    BY <2>6, <2>7, <2>8 DEF Kind
  <2> QED
    BY <1>1, <2>9, <2>10 DEF Doc
<1> QED
  BY <1>2, <1>3

\* One step of a merge.
LEMMA MergeStepIsState ==
    ASSUME NEW m \in States, NEW c \in Nat, NEW row \in ChangeRow
    PROVE  MergeStep(m, c, row) \in States
<1>1. m.ok \in BOOLEAN /\ m.touched \subseteq Target /\ m.doc \in Doc
  BY DEF States
<1>2. row.kind \in Kind /\ row.target \in Target
  BY DEF ChangeRow
<1>3. Resolves(m.doc, row.kind, row.target) => Applied(m.doc, row.kind, row.target, c) \in Doc
  BY <1>1, <1>2, AppliedIsDoc
<1> QED
  BY <1>1, <1>2, <1>3 DEF MergeStep, States

\* The merge is the last of a sequence of states, one for each change_id.
LEMMA MergeUnfolds ==
    ASSUME NEW doc \in Doc, NEW rows \in Rows
    PROVE  LET accepted == Decided(rows, "accepted") IN
           \E f \in [Nat -> States] :
               /\ f[0] = [ok |-> TRUE, touched |-> {}, doc |-> doc]
               /\ \A n \in Nat \ {0} :
                    f[n] = IF n \in accepted THEN MergeStep(f[n - 1], n, rows[n]) ELSE f[n - 1]
               /\ Merge(doc, rows, accepted) = f[MaxChanges]
<1> DEFINE accepted == Decided(rows, "accepted")
           first == [ok |-> TRUE, touched |-> {}, doc |-> doc]
           next(m, n) == IF n \in accepted THEN MergeStep(m, n, rows[n]) ELSE m
           step == [m \in States |-> [n \in Nat |-> next(m, n)]]
           Merges(g) == g = [n \in Nat |-> IF n = 0 THEN first
                                           ELSE IF n \in accepted THEN MergeStep(g[n - 1], n, rows[n])
                                           ELSE g[n - 1]]
<1>1. \A c \in accepted : rows[c] \in ChangeRow
  BY DEF Rows, Decided, NoRow
<1>2. first \in States
  BY DEF States
<1>3. \A m \in States, n \in Nat : next(m, n) \in States
  <2> HIDE DEF accepted
  <2> QED
    BY <1>1, MergeStepIsState
<1> HIDE DEF first, next, accepted
<1>4. step \in [States -> [Nat -> States]]
  BY <1>3
<1> HIDE DEF step
<1>5. PICK f \in [Nat -> States] : Recurs(f, first, step)
  <2> HIDE DEF Merges
  <2> QED
    BY <1>2, <1>4, Recursion, ZenonT(30)
<1>6. \A n \in Nat \ {0} : f[n - 1] \in States /\ f[n] = next(f[n - 1], n)
  <2> TAKE n \in Nat \ {0}
  <2>1. n - 1 \in Nat
    OBVIOUS
  <2>2. f[n - 1] \in States
    BY <2>1
  <2>3. step[f[n - 1]][n] = next(f[n - 1], n)
    BY <2>2 DEF step
  <2> QED
    BY <1>5, <2>2, <2>3 DEF Recurs
<1>7. Merges(f)
  BY <1>5, <1>6 DEF next, Recurs
<1>8. ASSUME NEW g, Merges(g) PROVE g[MaxChanges] = f[MaxChanges]
  <2> DEFINE T == {n \in Nat : g[n] # f[n]}
  <2>1. T \subseteq Nat /\ MaxChanges \in Nat
    BY BoundsAssumption
  <2> SUFFICES ASSUME T # {} PROVE FALSE
    BY <2>1
  <2>2. PICK n \in T : \A k \in Nat : k < n => k \notin T
    <3> HIDE DEF T
    <3> QED
      BY <2>1, Least
  <2>3. n # 0
    BY <1>5, <1>8 DEF Recurs
  <2>4. n - 1 \in Nat /\ n - 1 < n
    BY <2>3
  <2>5. g[n - 1] = f[n - 1]
    BY <2>2, <2>4
  <2>6. g[n] = next(g[n - 1], n)
    BY <1>8, <2>3 DEF next
  <2>7. f[n] = next(f[n - 1], n)
    BY <1>6, <2>3
  <2> QED
    BY <2>5, <2>6, <2>7
<1>9. Merge(doc, rows, accepted) = (CHOOSE g : Merges(g))[MaxChanges]
  BY DEF Merge, first
<1>10. Merge(doc, rows, accepted) = f[MaxChanges]
  <2> HIDE DEF Merges
  <2> QED
    BY <1>7, <1>8, <1>9
<1>11. f[0] = first
  BY <1>5 DEF Recurs
<1>12. \A n \in Nat \ {0} : f[n] = IF n \in accepted THEN MergeStep(f[n - 1], n, rows[n]) ELSE f[n - 1]
  BY <1>6 DEF next
<1> QED
  BY <1>10, <1>11, <1>12 DEF first, accepted

\* A merge is a state, whatever was accepted.
LEMMA MergeIsState ==
    ASSUME NEW doc \in Doc, NEW rows \in Rows
    PROVE  Merge(doc, rows, Decided(rows, "accepted")) \in States
<1> DEFINE accepted == Decided(rows, "accepted")
<1>1. PICK f \in [Nat -> States] :
          /\ f[0] = [ok |-> TRUE, touched |-> {}, doc |-> doc]
          /\ \A n \in Nat \ {0} :
               f[n] = IF n \in accepted THEN MergeStep(f[n - 1], n, rows[n]) ELSE f[n - 1]
          /\ Merge(doc, rows, accepted) = f[MaxChanges]
  BY MergeUnfolds
<1> QED
  BY <1>1, BoundsAssumption

\* Text x is at target t after the changes cs, if it was old before.
Shows(rows, cs, t, old, x) ==
    \/ x = old /\ \A c \in cs : rows[c].target # t
    \/ \E c \in cs : rows[c].target = t /\ x = IF rows[c].kind = "remove" THEN Empty ELSE c

\* The changes cs have been merged into doc, each at its own target.
Placed(rows, cs, doc, m) ==
    /\ \A c \in cs : rows[c].target \in m.touched
    /\ \A c, d \in cs : rows[c].target = rows[d].target /\ rows[c].target # Summary => c = d
    /\ Shows(rows, cs, Summary, doc.summary, m.doc.summary)
    /\ Len(m.doc.skills) = Len(doc.skills)
    /\ \A k \in 1..Len(doc.skills) : Shows(rows, cs, k - 1, doc.skills[k], m.doc.skills[k])

\* A step that succeeds keeps a merge pointwise, if it only modifies list items.
LEMMA StepIsPointwise ==
    ASSUME NEW m \in States, NEW rows \in Rows, NEW doc \in Doc,
           NEW cs \in SUBSET Nat, NEW c \in Nat, c \notin cs, rows[c] \in ChangeRow,
           rows[c].target # Summary => rows[c].kind = "modify",
           Placed(rows, cs, doc, m), MergeStep(m, c, rows[c]).ok
    PROVE  Placed(rows, cs \cup {c}, doc, MergeStep(m, c, rows[c]))
<1> DEFINE row == rows[c]
           s == m.doc.skills
           new == MergeStep(m, c, row)
<1>1. /\ ~(row.target \in m.touched /\ row.kind \in {"modify", "remove"})
      /\ Resolves(m.doc, row.kind, row.target)
      /\ new = [ok |-> TRUE, touched |-> m.touched \cup {row.target},
                doc |-> Applied(m.doc, row.kind, row.target, c)]
  BY DEF MergeStep, States
<1>2. new.touched = m.touched \cup {row.target} /\ new.doc = Applied(m.doc, row.kind, row.target, c)
  BY <1>1
<1>3. m.doc \in Doc /\ s \in Seq(Nat) /\ m.doc.summary \in Nat
  BY DEF States, Doc
<1>4. row.target \in Target /\ row.kind \in Kind
  BY DEF ChangeRow
<1>5. doc.skills \in Seq(Nat) /\ Len(doc.skills) \in Nat /\ Len(s) = Len(doc.skills)
  BY DEF Placed, Doc
<1> HIDE DEF new
<1>6. \A d \in cs \cup {c} : rows[d].target \in new.touched
  BY <1>2 DEF Placed
<1>7. \A d, e \in cs \cup {c} : rows[d].target = rows[e].target /\ rows[d].target # Summary => d = e
  <2>1. row.target # Summary => \A d \in cs : rows[d].target # row.target
    BY <1>1 DEF Placed
  <2> QED
    BY <2>1 DEF Placed
<1>8. CASE row.target = Summary
  <2>1. new.doc = [m.doc EXCEPT !.summary = IF row.kind = "remove" THEN Empty ELSE c]
    BY <1>2, <1>8 DEF Applied
  <2>2. new.doc.summary = (IF row.kind = "remove" THEN Empty ELSE c) /\ new.doc.skills = s
    BY <1>3, <2>1 DEF Doc
  <2>3. Shows(rows, cs \cup {c}, Summary, doc.summary, new.doc.summary)
    BY <1>8, <2>2 DEF Shows
  <2>4. ASSUME NEW k \in 1..Len(doc.skills)
        PROVE  Shows(rows, cs \cup {c}, k - 1, doc.skills[k], new.doc.skills[k])
    <3>1. row.target # k - 1
      BY <1>5, <1>8 DEF Summary
    <3>2. Shows(rows, cs, k - 1, doc.skills[k], s[k])
      BY DEF Placed
    <3> QED
      BY <2>2, <3>1, <3>2 DEF Shows
  <2> QED
    BY <1>5, <1>6, <1>7, <2>2, <2>3, <2>4 DEF Placed, new
<1>9. CASE row.target # Summary
  <2> DEFINE i == row.target + 1
  <2>1. row.kind = "modify" /\ row.target \in Nat /\ i \in 1..Len(s)
    BY <1>1, <1>4, <1>5, <1>9 DEF Resolves, Target
  <2>2. new.doc = [m.doc EXCEPT !.skills = [s EXCEPT ![i] = c]]
    BY <1>2, <1>9, <2>1 DEF Applied
  <2>3. new.doc.summary = m.doc.summary /\ new.doc.skills = [s EXCEPT ![i] = c]
    BY <1>3, <2>2 DEF Doc
  <2>4. /\ Len(new.doc.skills) = Len(s)
        /\ \A k \in 1..Len(s) : new.doc.skills[k] = IF k = i THEN c ELSE s[k]
    BY <1>3, <2>1, <2>3, ExceptSeq
  <2>5. Shows(rows, cs \cup {c}, Summary, doc.summary, new.doc.summary)
    BY <1>9, <2>3 DEF Shows, Placed
  <2>6. ASSUME NEW k \in 1..Len(doc.skills)
        PROVE  Shows(rows, cs \cup {c}, k - 1, doc.skills[k], new.doc.skills[k])
    <3>1. Shows(rows, cs, k - 1, doc.skills[k], s[k])
      BY DEF Placed
    <3>2. CASE k = i
      <4>1. row.target = k - 1
        BY <2>1, <3>2
      <4>2. k \in 1..Len(s)
        BY <1>5
      <4>3. new.doc.skills[k] = c
        BY <2>4, <3>2, <4>2
      <4> QED
        BY <2>1, <4>1, <4>3 DEF Shows
    <3>3. CASE k # i
      <4>1. row.target # k - 1 /\ new.doc.skills[k] = s[k]
        BY <1>5, <2>1, <2>4, <3>3
      <4> QED
        BY <3>1, <4>1 DEF Shows
    <3> QED
      BY <3>2, <3>3
  <2> QED
    BY <1>5, <1>6, <1>7, <2>4, <2>5, <2>6 DEF Placed, new
<1> QED
  BY <1>8, <1>9

\* Editing a list of texts of S.
LEMMA ListsGrow ==
    ASSUME NEW S, NEW s \in Seq(S), NEW text \in S, NEW i \in 1..(Len(s) + 1)
    PROVE  InsertAt(s, i, text) \in Seq(S) /\ Len(InsertAt(s, i, text)) = Len(s) + 1
<1> DEFINE before == SubSeq(s, 1, i - 1)
           from == SubSeq(s, i, Len(s))
           one == <<text>>
<1>1. Len(s) \in Nat /\ \A k \in 1..Len(s) : s[k] \in S
  BY LenProperties, ElementOfSeq
<1>2. i \in Int /\ 1 <= i /\ i <= Len(s) + 1
  BY <1>1
<1>3. before \in Seq(S) /\ Len(before) = i - 1
  <2>1. \A k \in 1..(i - 1) : s[k] \in S
    BY <1>1, <1>2
  <2>2. before \in Seq(S) /\ Len(before) = IF 1 <= i - 1 THEN (i - 1) - 1 + 1 ELSE 0
    BY <1>2, <2>1, SubSeqProperties
  <2> HIDE DEF before
  <2> QED
    BY <1>2, <2>2
<1>4. from \in Seq(S) /\ Len(from) = Len(s) - i + 1
  <2>1. \A k \in i..Len(s) : s[k] \in S
    BY <1>1, <1>2
  <2>2. from \in Seq(S) /\ Len(from) = IF i <= Len(s) THEN Len(s) - i + 1 ELSE 0
    BY <1>1, <1>2, <2>1, SubSeqProperties
  <2> HIDE DEF from
  <2> QED
    BY <1>1, <1>2, <2>2
<1>5. one \in Seq(S) /\ Len(one) = 1
  OBVIOUS
<1>6. InsertAt(s, i, text) = before \o one \o from
  BY DEF InsertAt
<1> HIDE DEF before, from, one
<1>7. before \o one \in Seq(S) /\ Len(before \o one) = i
  <2>1. before \o one \in Seq(S) /\ Len(before \o one) = Len(before) + Len(one)
    BY <1>3, <1>5, ConcatProperties
  <2>2. Len(before) + Len(one) = i
    BY <1>2, <1>3, <1>5
  <2> QED
    BY <2>1, <2>2
<1>8. /\ (before \o one) \o from \in Seq(S)
      /\ Len((before \o one) \o from) = Len(before \o one) + Len(from)
  BY <1>4, <1>7, ConcatProperties
<1> QED
  BY <1>1, <1>2, <1>4, <1>6, <1>7, <1>8

LEMMA ListsShrink ==
    ASSUME NEW S, NEW s \in Seq(S), NEW i \in 1..Len(s)
    PROVE  RemoveAt(s, i) \in Seq(S) /\ Len(RemoveAt(s, i)) = Len(s) - 1
<1> DEFINE before == SubSeq(s, 1, i - 1)
           after == SubSeq(s, i + 1, Len(s))
<1>1. Len(s) \in Nat /\ \A k \in 1..Len(s) : s[k] \in S
  BY LenProperties, ElementOfSeq
<1>2. i \in Int /\ 1 <= i /\ i <= Len(s)
  BY <1>1
<1>3. before \in Seq(S) /\ Len(before) = i - 1
  <2>1. \A k \in 1..(i - 1) : s[k] \in S
    BY <1>1, <1>2
  <2>2. before \in Seq(S) /\ Len(before) = IF 1 <= i - 1 THEN (i - 1) - 1 + 1 ELSE 0
    BY <1>2, <2>1, SubSeqProperties
  <2> HIDE DEF before
  <2> QED
    BY <1>2, <2>2
<1>4. after \in Seq(S) /\ Len(after) = Len(s) - i
  <2>1. \A k \in (i + 1)..Len(s) : s[k] \in S
    BY <1>1, <1>2
  <2>2. i + 1 \in Int /\ Len(s) \in Int
    BY <1>1, <1>2
  <2>3. after \in Seq(S) /\ Len(after) = IF i + 1 <= Len(s) THEN Len(s) - (i + 1) + 1 ELSE 0
    BY <2>1, <2>2, SubSeqProperties
  <2> HIDE DEF after
  <2> QED
    BY <1>1, <1>2, <2>3
<1>5. RemoveAt(s, i) = before \o after
  BY DEF RemoveAt
<1> HIDE DEF before, after
<1>6. before \o after \in Seq(S) /\ Len(before \o after) = Len(before) + Len(after)
  BY <1>3, <1>4, ConcatProperties
<1>7. Len(before) + Len(after) = Len(s) - 1
  BY <1>1, <1>2, <1>3, <1>4
<1> QED
  BY <1>5, <1>6, <1>7

\* The changes among cs that do something to an item of the list.
OfList(rows, cs, kind) == {c \in cs : rows[c].kind = kind /\ rows[c].target # Summary}

\* What the list may show once cs have been merged into doc.
Texts(rows, cs, doc) ==
    Range(doc.skills) \cup OfList(rows, cs, "add") \cup OfList(rows, cs, "modify")

\* The changes cs have been merged into doc: each counts once for the list's length,
\* and no text is invented.
Counted(rows, cs, doc, m) ==
    /\ Shows(rows, cs, Summary, doc.summary, m.doc.summary)
    /\ Len(m.doc.skills) = Len(doc.skills) + Cardinality(OfList(rows, cs, "add"))
                                           - Cardinality(OfList(rows, cs, "remove"))
    /\ m.doc.skills \in Seq(Texts(rows, cs, doc))

\* One more change.
LEMMA OneMoreCounts ==
    ASSUME NEW rows, NEW cs, IsFiniteSet(cs), NEW c, c \notin cs, NEW kind
    PROVE  /\ IsFiniteSet(OfList(rows, cs, kind)) /\ Cardinality(OfList(rows, cs, kind)) \in Nat
           /\ IF rows[c].kind = kind /\ rows[c].target # Summary
              THEN /\ OfList(rows, cs \cup {c}, kind) = OfList(rows, cs, kind) \cup {c}
                   /\ Cardinality(OfList(rows, cs \cup {c}, kind))
                        = Cardinality(OfList(rows, cs, kind)) + 1
              ELSE OfList(rows, cs \cup {c}, kind) = OfList(rows, cs, kind)
<1> DEFINE L == OfList(rows, cs, kind)
<1>1. L \in SUBSET cs /\ c \notin L
  BY DEF OfList
<1>2. IsFiniteSet(L)
  BY <1>1, FS_Subset
<1>3. Cardinality(L) \in Nat /\ Cardinality(L \cup {c}) = Cardinality(L) + 1
  BY <1>1, <1>2, FS_CardinalityType, FS_AddElement
<1>4. IF rows[c].kind = kind /\ rows[c].target # Summary
      THEN OfList(rows, cs \cup {c}, kind) = OfList(rows, cs, kind) \cup {c}
      ELSE OfList(rows, cs \cup {c}, kind) = OfList(rows, cs, kind)
  BY DEF OfList
<1> QED
  BY <1>2, <1>3, <1>4

\* A step that succeeds changes the list by what it says.
LEMMA StepCounts ==
    ASSUME NEW m \in States, NEW rows \in Rows, NEW doc \in Doc,
           NEW cs \in SUBSET Nat, IsFiniteSet(cs), NEW c \in Nat, c \notin cs,
           rows[c] \in ChangeRow, Counted(rows, cs, doc, m), MergeStep(m, c, rows[c]).ok
    PROVE  Counted(rows, cs \cup {c}, doc, MergeStep(m, c, rows[c]))
<1> DEFINE row == rows[c]
           s == m.doc.skills
           new == MergeStep(m, c, row)
           i == row.target + 1
           T == Texts(rows, cs, doc)
           U == Texts(rows, cs \cup {c}, doc)
           a == Cardinality(OfList(rows, cs, "add"))
           d == Cardinality(OfList(rows, cs, "remove"))
           b == Cardinality(OfList(rows, cs \cup {c}, "add"))
           e == Cardinality(OfList(rows, cs \cup {c}, "remove"))
<1>1. /\ Resolves(m.doc, row.kind, row.target)
      /\ new.doc = Applied(m.doc, row.kind, row.target, c)
  BY DEF MergeStep, States
<1>2. m.doc \in Doc /\ m.doc.summary \in Nat /\ s \in Seq(Nat)
  BY DEF States, Doc
<1>3. row.target \in Target /\ row.kind \in Kind
  BY DEF ChangeRow
<1>4. T \subseteq U /\ (row.target # Summary /\ row.kind # "remove" => c \in U)
  BY <1>3 DEF Texts, OfList, Kind
<1>5. /\ a \in Nat /\ d \in Nat
      /\ b = IF row.kind = "add" /\ row.target # Summary THEN a + 1 ELSE a
      /\ e = IF row.kind = "remove" /\ row.target # Summary THEN d + 1 ELSE d
  BY OneMoreCounts
<1>6. /\ Len(s) = Len(doc.skills) + a - d /\ Len(s) \in Nat /\ Len(doc.skills) \in Nat
      /\ s \in Seq(T)
  BY <1>2, LenProperties DEF Counted, Doc
<1> HIDE DEF T, U
<1>7. s \in Seq(U)
  BY <1>4, <1>6, SeqMonotonic
<1> HIDE DEF new, a, b, d, e
<1>10. /\ a \in Int /\ d \in Int /\ Len(doc.skills) \in Int
      /\ Len(s) = Len(doc.skills) + a - d
  BY <1>5, <1>6
<1>8. CASE row.target = Summary
  <2>1. new.doc = [m.doc EXCEPT !.summary = IF row.kind = "remove" THEN Empty ELSE c]
    BY <1>1, <1>8 DEF Applied
  <2>2. new.doc.summary = (IF row.kind = "remove" THEN Empty ELSE c) /\ new.doc.skills = s
    BY <1>2, <2>1 DEF Doc
  <2>3. Shows(rows, cs \cup {c}, Summary, doc.summary, new.doc.summary)
    BY <1>8, <2>2 DEF Shows
  <2>4. Len(new.doc.skills) = Len(doc.skills) + b - e
    BY <1>5, <1>6, <1>8, <2>2
  <2> QED
    BY <1>7, <2>2, <2>3, <2>4 DEF Counted, new, b, e, U
<1>9. CASE row.target # Summary
  <2>1. row.target \in Nat /\ i \in Nat /\ i >= 1
    BY <1>3, <1>9 DEF Target
  <2>2. i <= Len(s) + 1 /\ (row.kind # "add" => i <= Len(s))
    BY <1>1, <1>6, <1>9, <2>1 DEF Resolves
  <2> DEFINE list == CASE row.kind = "add" -> InsertAt(s, i, c)
                       [] row.kind = "modify" -> [s EXCEPT ![i] = c]
                       [] row.kind = "remove" -> RemoveAt(s, i)
  <2>3. new.doc = [m.doc EXCEPT !.skills = list]
    BY <1>1, <1>9 DEF Applied
  <2>4. new.doc.summary = m.doc.summary /\ new.doc.skills = list
    BY <1>2, <2>3 DEF Doc
  <2>5. Shows(rows, cs \cup {c}, Summary, doc.summary, new.doc.summary)
    BY <1>9, <2>4 DEF Shows, Counted
  <2> HIDE DEF i, row, list, s
  <2>6. CASE row.kind = "add"
    <3>1. c \in U /\ i \in 1..(Len(s) + 1)
      BY <1>4, <1>6, <1>9, <2>1, <2>2, <2>6
    <3>2. list \in Seq(U) /\ Len(list) = Len(s) + 1
      BY <1>7, <2>6, <3>1, ListsGrow DEF list
    <3>3. b = a + 1 /\ e = d
      BY <1>5, <1>9, <2>6
    <3>4. Len(list) = Len(doc.skills) + b - e
      <4>1. \A l, x, y \in Int : (l + x - y) + 1 = l + (x + 1) - y
        OBVIOUS
      <4>2. (Len(doc.skills) + a - d) + 1 = Len(doc.skills) + (a + 1) - d
        BY <1>10, <4>1, Zenon
      <4> QED
        BY <1>10, <3>2, <3>3, <4>2, Zenon
    <3> QED
      BY <2>4, <2>5, <3>2, <3>4 DEF Counted, new, b, e, U, row
  <2>7. CASE row.kind = "modify"
    <3>1. c \in U /\ i \in 1..Len(s)
      BY <1>4, <1>6, <1>9, <2>1, <2>2, <2>7
    <3>2. list \in Seq(U) /\ Len(list) = Len(s)
      BY <1>7, <2>7, <3>1, ExceptSeq DEF list
    <3>3. b = a /\ e = d
      BY <1>5, <1>9, <2>7
    <3>4. Len(list) = Len(doc.skills) + b - e
      BY <1>10, <3>2, <3>3
    <3> QED
      BY <2>4, <2>5, <3>2, <3>4 DEF Counted, new, b, e, U, row
  <2>8. CASE row.kind = "remove"
    <3>1. i \in 1..Len(s)
      BY <1>6, <2>1, <2>2, <2>8
    <3>2. list \in Seq(U) /\ Len(list) = Len(s) - 1
      BY <1>7, <2>8, <3>1, ListsShrink DEF list
    <3>3. b = a /\ e = d + 1
      BY <1>5, <1>9, <2>8
    <3>4. Len(list) = Len(doc.skills) + b - e
      BY <1>10, <3>2, <3>3
    <3> QED
      BY <2>4, <2>5, <3>2, <3>4 DEF Counted, new, b, e, U, row
  <2> QED
    BY <1>3, <2>6, <2>7, <2>8 DEF Kind
<1> QED
  BY <1>8, <1>9

\* The changes of lists only modify items.
Textual(rows, cs) == \A c \in cs : rows[c].target # Summary => rows[c].kind = "modify"

\* The numbers of a set up to n.
Upto(cs, n) == {c \in cs : c <= n}

\* How the numbers of a set up to n grow with n.
LEMMA UptoGrows ==
    ASSUME NEW N \in Nat, NEW cs \in SUBSET (1..N)
    PROVE  /\ Upto(cs, 0) = {}
           /\ Upto(cs, N) = cs
           /\ \A n \in Nat \ {0} :
                /\ Upto(cs, n - 1) \subseteq Nat
                /\ n \notin Upto(cs, n - 1)
                /\ n \in cs => Upto(cs, n) = Upto(cs, n - 1) \cup {n}
                /\ n \notin cs => Upto(cs, n) = Upto(cs, n - 1)
<1>1. \A c \in cs : c \in Nat /\ ~(c <= 0) /\ c <= N
  OBVIOUS
<1>2. Upto(cs, 0) = {}
  BY <1>1 DEF Upto
<1>3. Upto(cs, N) = cs
  BY <1>1 DEF Upto
<1>4. ASSUME NEW n \in Nat \ {0}
      PROVE  /\ Upto(cs, n - 1) \subseteq Nat
             /\ n \notin Upto(cs, n - 1)
             /\ n \in cs => Upto(cs, n) = Upto(cs, n - 1) \cup {n}
             /\ n \notin cs => Upto(cs, n) = Upto(cs, n - 1)
  <2>1. \A c \in cs : c <= n <=> c <= n - 1 \/ c = n
    BY <1>1
  <2>2. ~(n <= n - 1) /\ n <= n
    OBVIOUS
  <2>3. Upto(cs, n - 1) \subseteq Nat
    BY <1>1 DEF Upto
  <2>4. n \notin Upto(cs, n - 1)
    BY <2>2 DEF Upto
  <2>5. n \in cs => Upto(cs, n) = Upto(cs, n - 1) \cup {n}
    BY <2>1, <2>2 DEF Upto
  <2>6. n \notin cs => Upto(cs, n) = Upto(cs, n - 1)
    BY <2>1, <2>2 DEF Upto
  <2> QED
    BY <2>3, <2>4, <2>5, <2>6
<1> QED
  BY <1>2, <1>3, <1>4

\* The changes cs have been merged into doc.
Merged(rows, cs, doc, m) ==
    Counted(rows, cs, doc, m) /\ (Textual(rows, cs) => Placed(rows, cs, doc, m))

\* At first nothing has been merged.
LEMMA NothingMerged ==
    ASSUME NEW doc \in Doc, NEW rows, NEW m, m.touched = {}, m.doc = doc
    PROVE  Merged(rows, {}, doc, m)
<1>1. Placed(rows, {}, doc, m)
  BY DEF Placed, Shows
<1>2. \A kind : OfList(rows, {}, kind) = {}
  BY DEF OfList
<1>3. Texts(rows, {}, doc) = Range(doc.skills) /\ doc.skills \in Seq(Nat) /\ Len(doc.skills) \in Nat
  BY <1>2, LenProperties DEF Texts, Doc
<1>4. doc.skills \in Seq(Range(doc.skills))
  BY <1>3, SeqOfRange
<1>5. /\ Cardinality(OfList(rows, {}, "add")) = 0
      /\ Cardinality(OfList(rows, {}, "remove")) = 0
  BY <1>2, FS_EmptySet
<1>6. Len(doc.skills) = Len(doc.skills) + 0 - 0
  BY <1>3
<1>7. Counted(rows, {}, doc, m)
  BY <1>1, <1>3, <1>4, <1>5, <1>6 DEF Counted, Placed
<1> QED
  BY <1>1, <1>7 DEF Merged

LEMMA StepMerges ==
    ASSUME NEW m \in States, NEW rows \in Rows, NEW doc \in Doc,
           NEW cs \in SUBSET Nat, IsFiniteSet(cs), NEW c \in Nat, c \notin cs,
           rows[c] \in ChangeRow, Merged(rows, cs, doc, m), MergeStep(m, c, rows[c]).ok
    PROVE  Merged(rows, cs \cup {c}, doc, MergeStep(m, c, rows[c]))
<1>1. Counted(rows, cs \cup {c}, doc, MergeStep(m, c, rows[c]))
  BY StepCounts DEF Merged
<1>2. ASSUME Textual(rows, cs \cup {c})
      PROVE  Placed(rows, cs \cup {c}, doc, MergeStep(m, c, rows[c]))
  <2>1. Textual(rows, cs) /\ (rows[c].target # Summary => rows[c].kind = "modify")
    BY <1>2 DEF Textual
  <2> QED
    BY <2>1, StepIsPointwise DEF Merged
<1> QED
  BY <1>1, <1>2 DEF Merged

\* A merge that succeeds counts every change once, and it is pointwise if the accepted
\* changes of lists only modify items.
LEMMA MergeMerges ==
    ASSUME NEW doc \in Doc, NEW rows \in Rows,
           Merge(doc, rows, Decided(rows, "accepted")).ok
    PROVE  Merged(rows, Decided(rows, "accepted"), doc,
                     Merge(doc, rows, Decided(rows, "accepted")))
<1> DEFINE accepted == Decided(rows, "accepted")
           first == [ok |-> TRUE, touched |-> {}, doc |-> doc]
<1>1. PICK f \in [Nat -> States] :
          /\ f[0] = first
          /\ \A n \in Nat \ {0} :
               f[n] = IF n \in accepted THEN MergeStep(f[n - 1], n, rows[n]) ELSE f[n - 1]
          /\ Merge(doc, rows, accepted) = f[MaxChanges]
  BY MergeUnfolds
<1>2. accepted \subseteq 1..MaxChanges /\ \A c \in accepted : rows[c] \in ChangeRow
  BY DEF Rows, Decided, NoRow, ChangeId
<1> HIDE DEF first, accepted
<1>3. MaxChanges \in Nat
  BY BoundsAssumption
<1>0. /\ Upto(accepted, 0) = {}
      /\ Upto(accepted, MaxChanges) = accepted
      /\ \A n \in Nat \ {0} :
           /\ Upto(accepted, n - 1) \subseteq Nat
           /\ n \notin Upto(accepted, n - 1)
           /\ n \in accepted => Upto(accepted, n) = Upto(accepted, n - 1) \cup {n}
           /\ n \notin accepted => Upto(accepted, n) = Upto(accepted, n - 1)
           /\ IsFiniteSet(Upto(accepted, n - 1))
  <2>1. \A n \in Nat : Upto(accepted, n) \in SUBSET (1..MaxChanges)
    BY <1>2 DEF Upto
  <2>2. \A n \in Nat : IsFiniteSet(Upto(accepted, n))
    <3>1. IsFiniteSet(1..MaxChanges)
      BY <1>3, FS_Interval
    <3> QED
      BY <2>1, <3>1, FS_Subset
  <2>3. \A n \in Nat \ {0} : n - 1 \in Nat
    OBVIOUS
  <2> QED
    BY <1>2, <1>3, <2>2, <2>3, UptoGrows
<1> DEFINE T == {n \in Nat : f[n].ok /\ ~Merged(rows, Upto(accepted, n), doc, f[n])}
<1>4. T = {}
  <2> SUFFICES ASSUME T # {} PROVE FALSE
    OBVIOUS
  <2>0. T \subseteq Nat
    OBVIOUS
  <2>1. PICK n \in T : \A k \in Nat : k < n => k \notin T
    <3> HIDE DEF T
    <3> QED
      BY <2>0, Least
  <2>2. CASE n = 0
    <3>1. Upto(accepted, 0) = {}
      BY <1>0
    <3>2. f[0].touched = {} /\ f[0].doc = doc
      BY <1>1 DEF first
    <3>3. Merged(rows, {}, doc, f[0])
      BY <3>2, NothingMerged
    <3> QED
      BY <2>2, <3>1, <3>3
  <2>3. CASE n # 0
    <3>1. n - 1 \in Nat /\ n - 1 < n /\ n \in Nat \ {0}
      BY <2>3
    <3>2. f[n] = IF n \in accepted THEN MergeStep(f[n - 1], n, rows[n]) ELSE f[n - 1]
      BY <1>1, <3>1
    <3>3. f[n - 1].ok
      <4>1. f[n].ok /\ f[n - 1] \in States
        BY <3>1
      <4>2. n \in accepted => f[n] = MergeStep(f[n - 1], n, rows[n])
        BY <3>2
      <4>3. n \notin accepted => f[n] = f[n - 1]
        BY <3>2
      <4>4. n \in accepted /\ ~f[n - 1].ok => ~f[n].ok
        <5> HIDE DEF T
        <5> QED
          BY <4>1, <4>2 DEF MergeStep, States
      <4> QED
        BY <4>1, <4>3, <4>4
    <3>4. Merged(rows, Upto(accepted, n - 1), doc, f[n - 1])
      BY <2>1, <3>1, <3>3
    <3>5. CASE n \in accepted
      <4>1. Upto(accepted, n) = Upto(accepted, n - 1) \cup {n} /\ n \notin Upto(accepted, n - 1) /\ Upto(accepted, n - 1) \subseteq Nat
        BY <1>0, <3>1, <3>5
      <4>2. rows[n] \in ChangeRow /\ IsFiniteSet(Upto(accepted, n - 1))
        BY <1>0, <1>2, <3>1, <3>5
      <4>3. f[n - 1] \in States /\ f[n] = MergeStep(f[n - 1], n, rows[n]) /\ f[n].ok
        BY <3>1, <3>2, <3>5
      <4> HIDE DEF T
      <4>4. Merged(rows, Upto(accepted, n - 1) \cup {n}, doc, MergeStep(f[n - 1], n, rows[n]))
        BY <3>1, <3>4, <4>1, <4>2, <4>3, StepMerges
      <4> QED
        BY <4>1, <4>3, <4>4 DEF T
    <3>6. CASE n \notin accepted
      <4>1. Upto(accepted, n) = Upto(accepted, n - 1)
        BY <1>0, <3>1, <3>6
      <4> QED
        BY <3>2, <3>4, <3>6, <4>1
    <3> QED
      BY <3>5, <3>6
  <2> QED
    BY <2>2, <2>3
<1>5. Upto(accepted, MaxChanges) = accepted
  BY <1>0
<1> QED
  BY <1>1, <1>3, <1>4, <1>5 DEF accepted

-----------------------------------------------------------------------------
(* The inductive invariant.                                                *)

\* Sessions are of resumes there are, and their final resumes are.
SessionsSound ==
    \A s \in DOMAIN sessions :
        sessions[s].base \in DOMAIN resumes /\ sessions[s].final \in 0..Len(resumes)

\* A blocked change says so in its severity, and its session exists.
ChangesSound ==
    \A c \in Existing :
        /\ changes[c].session \in DOMAIN sessions
        /\ changes[c].review = "blocked" => changes[c].severity = "blocked"

\* The session and the changes a request has loaded exist.
Grounded(r) ==
    /\ req[r].at = "opening" => req[r].base \in DOMAIN resumes
    /\ req[r].at \in {"drafting", "reviewing", "revising", "finalizing", "rendering"} =>
         req[r].session \in DOMAIN sessions
    /\ req[r].at \in {"reviewing", "deciding", "revising"} => req[r].asked \subseteq Existing
    /\ req[r].at = "reviewing" => \A c \in req[r].asked : changes[c].session = req[r].session

\* A finalisation loaded no blocked change as accepted.
Unblocked(r) ==
    req[r].at \in {"finalizing", "rendering"} =>
        \A c \in Decided(req[r].rows, "accepted") : req[r].rows[c].review # "blocked"

\* A document to be rendered is the merge of the accepted changes.
IsMerge(r) ==
    req[r].at = "rendering" =>
        LET merged == Merge(Source(req[r].session), req[r].rows, Decided(req[r].rows, "accepted"))
        IN  req[r].status = "rendering" /\ merged.ok /\ req[r].doc = merged.doc

RequestsSound == \A r \in Req : Grounded(r) /\ Unblocked(r) /\ IsMerge(r)

IInv ==
    /\ TypeOK
    /\ SessionsSound
    /\ ChangesSound
    /\ RequestsSound
    /\ UsedWasReviewed
    /\ UnfinishedIsWorkedOn

-----------------------------------------------------------------------------
(* What the steps have in common.                                          *)

\* A request that does nothing.
LEMMA IdleIsRequest == NoRows \in Rows /\ NoContent \in Doc /\ Idle \in Request
<1>1. NoRows \in Rows
  BY DEF NoRows, Rows
<1>2. NoContent \in Doc
  BY DEF NoContent, Doc, Empty
<1>3. Idle \in Request
  BY <1>1, <1>2, BoundsAssumption DEF Idle, Request, Phase, SessionStatus, Decision
<1> QED
  BY <1>1, <1>2, <1>3

\* The rows of changes that exist are the typed ones.
LEMMA RowsOf ==
    ASSUME changes \in Rows
    PROVE  /\ \A x \in ChangeRow : x # NoRow
           /\ \A c \in Existing : c \in ChangeId /\ changes[c] \in ChangeRow
           /\ \A c \in ChangeId \ Existing : changes[c] = NoRow
<1>1. \A x \in ChangeRow : x # NoRow
  BY DEF ChangeRow, NoRow, Decision
<1> QED
  BY <1>1 DEF Existing, Rows

\* Rows and sessions are never deleted, and what a session refers to stays.
Grows ==
    /\ \A i \in DOMAIN resumes : i \in DOMAIN resumes' /\ resumes'[i] = resumes[i]
    /\ \A s \in DOMAIN sessions : s \in DOMAIN sessions' /\ sessions'[s].base = sessions[s].base
    /\ \A c \in Existing : c \in Existing' /\ changes'[c].session = changes[c].session

Sound(r) == Grounded(r) /\ Unblocked(r) /\ IsMerge(r)

\* Only request r is touched.
Others(r) == \A q \in Req \ {r} : req'[q] = req[q]

\* What a request has loaded stays sound while others work.
LEMMA OthersStay ==
    ASSUME IInv, NEW q \in Req, Grows, req'[q] = req[q]
    PROVE  Sound(q)'
<1> USE DEF IInv, RequestsSound, Sound
<1>1. Grounded(q)'
  BY DEF Grounded, Grows
<1>2. Unblocked(q)'
  BY DEF Unblocked
<1>3. IsMerge(q)'
  <2> SUFFICES ASSUME req[q].at = "rendering"
               PROVE  LET merged == Merge(Source(req[q].session)', req[q].rows, Decided(req[q].rows, "accepted"))
                      IN  req[q].status = "rendering" /\ merged.ok /\ req[q].doc = merged.doc
    BY DEF IsMerge
  <2>1. req[q].session \in DOMAIN sessions
    BY DEF Grounded
  <2>2. Source(req[q].session)' = Source(req[q].session)
    <3>1. sessions[req[q].session].base \in DOMAIN resumes
      BY <2>1 DEF SessionsSound
    <3> QED
      BY <2>1, <3>1 DEF Source, Structured, Grows
  <2> QED
    BY <2>2 DEF IsMerge
<1> QED
  BY <1>1, <1>2, <1>3

\* The invariant after a step of request r, from what the step can disturb.
LEMMA StepKeeps ==
    ASSUME IInv, NEW r \in Req, Grows, Others(r), TypeOK', SessionsSound', ChangesSound',
           Sound(r)', UsedWasReviewed', UnfinishedIsWorkedOn'
    PROVE  IInv'
<1>1. ASSUME NEW q \in Req PROVE Sound(q)'
  BY <1>1, OthersStay DEF Others
<1> QED
  BY <1>1 DEF IInv, RequestsSound, Sound

\* A request that ends is sound.
LEMMA EndIsSound ==
    ASSUME NEW r \in Req, req'[r] = Idle
    PROVE  Sound(r)'
BY DEF Sound, Grounded, Unblocked, IsMerge, Idle

\* An update of one request.
LEMMA Updated ==
    ASSUME req \in [Req -> Request], NEW r \in Req, NEW x \in Request,
           req' = [req EXCEPT ![r] = x]
    PROVE  req' \in [Req -> Request] /\ req'[r] = x /\ Others(r)
BY DEF Others

\* If neither resumes nor sessions change, only the end of a rendering can leave
\* a session unfinished.
LEMMA UnfinishedStays ==
    ASSUME UnfinishedIsWorkedOn, NEW r \in Req, Others(r),
           UNCHANGED <<resumes, sessions>>, lost \subseteq lost',
           req[r].at = "rendering" => req[r].session \in lost'
    PROVE  UnfinishedIsWorkedOn'
<1> SUFFICES ASSUME NEW s \in DOMAIN sessions, sessions[s].status = "rendering"
             PROVE  s \in lost' \/ \E q \in Req : req'[q].at = "rendering" /\ req'[q].session = s
  BY DEF UnfinishedIsWorkedOn
<1>1. s \in lost \/ \E q \in Req : req[q].at = "rendering" /\ req[q].session = s
  BY DEF UnfinishedIsWorkedOn
<1> QED
  BY <1>1 DEF Others

\* Awaited reviews stay accounted for, if those that are new are asked for by r
\* and those r gave up have lost their session.
LEMMA UsedStays ==
    ASSUME UsedWasReviewed, NEW r \in Req, Others(r), lost \subseteq lost',
           UNCHANGED resumes,
           \A c \in Existing' : changes'[c].review = "awaited" =>
               \/ req'[r].at = "reviewing" /\ c \in req'[r].asked
               \/ /\ c \in Existing /\ changes[c].review = "awaited"
                  /\ changes'[c].session = changes[c].session
                  /\ req[r].at = "reviewing" /\ c \in req[r].asked => changes[c].session \in lost'
    PROVE  UsedWasReviewed'
<1> SUFFICES ASSUME NEW c \in Existing', changes'[c].review = "awaited"
             PROVE  \/ changes'[c].session \in lost'
                    \/ \E q \in Req : req'[q].at = "reviewing" /\ c \in req'[q].asked
  BY DEF UsedWasReviewed
<1>1. CASE req'[r].at = "reviewing" /\ c \in req'[r].asked
  BY <1>1
<1>2. CASE /\ c \in Existing /\ changes[c].review = "awaited"
           /\ changes'[c].session = changes[c].session
           /\ req[r].at = "reviewing" /\ c \in req[r].asked => changes[c].session \in lost'
  <2>1. changes[c].session \in lost \/ \E q \in Req : req[q].at = "reviewing" /\ c \in req[q].asked
    BY <1>2 DEF UsedWasReviewed
  <2> QED
    BY <1>2, <2>1 DEF Others
<1> QED
  BY <1>1, <1>2

\* The types of the rows there are.
LEMMA TypesOf ==
    ASSUME IInv
    PROVE  /\ \A s \in DOMAIN sessions :
                /\ s \in 1..MaxSessions /\ s \in 0..MaxSessions
                /\ sessions[s] \in Session /\ sessions[s].status \in SessionStatus
                /\ sessions[s].base \in DOMAIN resumes
           /\ \A i \in DOMAIN resumes : i \in 1..MaxResumes /\ resumes[i] \in Resume
           /\ DOMAIN sessions = 1..Len(sessions) /\ Len(sessions) \in Nat
           /\ DOMAIN resumes = 1..Len(resumes) /\ Len(resumes) \in Nat
<1>1. /\ sessions \in Seq(Session) /\ Len(sessions) <= MaxSessions
      /\ resumes \in Seq(Resume) /\ Len(resumes) <= MaxResumes
  BY BoundsAssumption DEF IInv, TypeOK
<1>2. /\ DOMAIN sessions = 1..Len(sessions) /\ Len(sessions) \in Nat
      /\ DOMAIN resumes = 1..Len(resumes) /\ Len(resumes) \in Nat
  BY <1>1
<1>3. ASSUME NEW s \in DOMAIN sessions
      PROVE  /\ s \in 1..MaxSessions /\ s \in 0..MaxSessions
             /\ sessions[s] \in Session /\ sessions[s].status \in SessionStatus
             /\ sessions[s].base \in DOMAIN resumes
  <2>1. s \in 1..MaxSessions /\ s \in 0..MaxSessions
    BY <1>1, <1>2, BoundsAssumption
  <2>2. sessions[s] \in Session
    BY <1>1, <1>2
  <2>3. sessions[s].status \in SessionStatus
    BY <2>2 DEF Session
  <2> QED
    BY <2>1, <2>2, <2>3 DEF IInv, SessionsSound
<1>4. ASSUME NEW i \in DOMAIN resumes PROVE i \in 1..MaxResumes /\ resumes[i] \in Resume
  <2>1. i \in 1..MaxResumes
    BY <1>1, <1>2, BoundsAssumption
  <2> QED
    BY <1>1, <1>2, <2>1
<1> QED
  BY <1>2, <1>3, <1>4

-----------------------------------------------------------------------------
(* Requests that load what they will work on.                              *)

\* A request that has loaded request x, and written nothing.
LEMMA LoadKeeps ==
    ASSUME IInv, NEW r \in Req, req[r].at = "idle", NEW x \in Request,
           req' = [req EXCEPT ![r] = x],
           UNCHANGED <<resumes, sessions, changes, lost>>,
           x.at \in {"opening", "deciding", "revising", "finalizing"},
           x.at = "opening" => x.base \in DOMAIN resumes,
           x.at \in {"revising", "finalizing"} => x.session \in DOMAIN sessions,
           x.at \in {"deciding", "revising"} => x.asked \subseteq Existing,
           x.at = "finalizing" =>
               \A c \in Decided(x.rows, "accepted") : x.rows[c].review # "blocked"
    PROVE  IInv'
<1>1. req' \in [Req -> Request] /\ req'[r] = x /\ Others(r)
  <2>1. req \in [Req -> Request]
    BY DEF IInv, TypeOK
  <2> QED
    BY <2>1, Updated
<1>2. TypeOK'
  BY <1>1 DEF IInv, TypeOK
<1>3. Grows /\ SessionsSound' /\ ChangesSound'
  BY DEF IInv, Grows, SessionsSound, ChangesSound, Existing
<1>4. Sound(r)'
  BY <1>1 DEF Sound, Grounded, Unblocked, IsMerge, Existing
<1>5. UsedWasReviewed'
  <2>1. \A c \in Existing' : c \in Existing /\ changes'[c] = changes[c]
    BY DEF Existing
  <2> QED
    BY <1>1, <2>1, UsedStays DEF IInv
<1>6. UnfinishedIsWorkedOn'
  BY <1>1, UnfinishedStays DEF IInv
<1> QED
  BY <1>1, <1>2, <1>3, <1>4, <1>5, <1>6, StepKeeps

LEMMA OpenReadKeeps == ASSUME IInv, NEW r \in Req, OpenRead(r) PROVE IInv'
<1>1. PICK b \in DOMAIN resumes : req' = [req EXCEPT ![r] = [Idle EXCEPT !.at = "opening", !.base = b]]
  BY DEF OpenRead
<1> DEFINE x == [Idle EXCEPT !.at = "opening", !.base = b]
<1>2. b \in 0..MaxResumes
  BY BoundsAssumption DEF IInv, TypeOK
<1>3. x \in Request /\ x.at = "opening" /\ x.base = b
  BY <1>2, IdleIsRequest DEF Request, Phase, Idle
<1>4. req[r].at = "idle" /\ UNCHANGED <<resumes, sessions, changes, lost>>
  BY DEF OpenRead
<1>5. req' = [req EXCEPT ![r] = x]
  BY <1>1
<1> HIDE DEF x
<1> QED
  BY <1>3, <1>4, <1>5, LoadKeeps

LEMMA DecideReadKeeps == ASSUME IInv, NEW r \in Req, DecideRead(r) PROVE IInv'
<1>1. PICK s \in DOMAIN sessions, d \in Answers : \E cs \in SUBSET Of(s) :
          req' = [req EXCEPT ![r] = [Idle EXCEPT !.at = "deciding", !.answer = d,
                                       !.asked = {c \in cs : changes[c].decision # d}]]
  BY DEF DecideRead
<1>2. PICK cs \in SUBSET Of(s) :
          req' = [req EXCEPT ![r] = [Idle EXCEPT !.at = "deciding", !.answer = d,
                                       !.asked = {c \in cs : changes[c].decision # d}]]
  BY <1>1
<1> DEFINE asked == {c \in cs : changes[c].decision # d}
           x == [Idle EXCEPT !.at = "deciding", !.answer = d, !.asked = asked]
<1>3. asked \subseteq Existing /\ asked \subseteq ChangeId
  BY DEF Of, Existing
<1>4. d \in Decision
  BY InputsAssumption
<1> HIDE DEF asked
<1>5. x \in Request /\ x.at = "deciding" /\ x.asked = asked
  BY <1>3, <1>4, IdleIsRequest DEF Request, Phase, Idle
<1>6. req[r].at = "idle" /\ UNCHANGED <<resumes, sessions, changes, lost>>
  BY DEF DecideRead
<1>7. req' = [req EXCEPT ![r] = x]
  BY <1>2 DEF asked
<1> HIDE DEF x
<1> QED
  BY <1>3, <1>5, <1>6, <1>7, LoadKeeps

LEMMA ReviseReadKeeps == ASSUME IInv, NEW r \in Req, ReviseRead(r) PROVE IInv'
<1>1. PICK c \in Existing :
          req' = [req EXCEPT ![r] = [Idle EXCEPT !.at = "revising", !.session = changes[c].session,
                                       !.asked = {c} \ Decided(changes, "rejected")]]
  BY DEF ReviseRead
<1> DEFINE asked == {c} \ Decided(changes, "rejected")
           s == changes[c].session
           x == [Idle EXCEPT !.at = "revising", !.session = s, !.asked = asked]
<1>2. asked \subseteq Existing /\ asked \subseteq ChangeId
  BY DEF Existing
<1>3. s \in DOMAIN sessions
  BY DEF IInv, ChangesSound
<1>4. s \in 0..MaxSessions
  BY <1>3, BoundsAssumption DEF IInv, TypeOK
<1> HIDE DEF asked, s
<1>5. x \in Request /\ x.at = "revising" /\ x.session = s /\ x.asked = asked
  BY <1>2, <1>4, IdleIsRequest DEF Request, Phase, Idle
<1>6. req[r].at = "idle" /\ UNCHANGED <<resumes, sessions, changes, lost>>
  BY DEF ReviseRead
<1>7. req' = [req EXCEPT ![r] = x]
  BY <1>1 DEF asked, s
<1> HIDE DEF x
<1> QED
  BY <1>2, <1>3, <1>5, <1>6, <1>7, LoadKeeps

LEMMA FinalizeReadKeeps == ASSUME IInv, NEW r \in Req, FinalizeRead(r) PROVE IInv'
<1>1. PICK s \in DOMAIN sessions :
          /\ Finalizable(Loaded(s))
          /\ req' = [req EXCEPT ![r] = [Idle EXCEPT !.at = "finalizing", !.session = s,
                       !.status = sessions[s].status, !.rows = Loaded(s)]]
  BY DEF FinalizeRead
<1> DEFINE rows == Loaded(s)
           status == sessions[s].status
           x == [Idle EXCEPT !.at = "finalizing", !.session = s, !.status = status, !.rows = rows]
<1>2. s \in 0..MaxSessions /\ status \in SessionStatus
  BY TypesOf
<1>3. changes \in Rows
  BY DEF IInv, TypeOK
<1>4. rows \in Rows
  BY <1>3 DEF Loaded, Rows
<1>5. \A c \in Decided(rows, "accepted") : rows[c].review # "blocked"
  <2>1. ASSUME NEW c \in Decided(rows, "accepted") PROVE rows[c].review # "blocked"
    <3>1. c \in ChangeId /\ rows[c].decision = "accepted"
      BY <1>4 DEF Decided, Rows
    <3>2. c \in Of(s) /\ rows[c] = changes[c]
      BY <3>1 DEF Loaded, NoRow
    <3>3. rows[c].severity # "blocked"
      BY <1>1, <2>1, <3>1 DEF Finalizable, Decided
    <3> QED
      BY <3>2, <3>3 DEF IInv, ChangesSound, Of
  <2> QED
    BY <2>1
<1> HIDE DEF rows, status
<1>6. x \in Request /\ x.at = "finalizing" /\ x.session = s /\ x.rows = rows
  BY <1>2, <1>4, IdleIsRequest DEF Request, Phase, Idle
<1>7. req[r].at = "idle" /\ UNCHANGED <<resumes, sessions, changes, lost>>
  BY DEF FinalizeRead
<1>8. req' = [req EXCEPT ![r] = x]
  BY <1>1 DEF rows, status
<1> HIDE DEF x
<1> QED
  BY <1>5, <1>6, <1>7, <1>8, LoadKeeps

-----------------------------------------------------------------------------
(* Requests that write changes.                                            *)

\* Request r writes rows of changes and goes on as x.
LEMMA WriteKeeps ==
    ASSUME IInv, NEW r \in Req, NEW x \in Request, req' = [req EXCEPT ![r] = x],
           req[r].at # "rendering", UNCHANGED <<resumes, sessions, lost>>,
           changes' \in Rows,
           \A c \in Existing : c \in Existing' /\ changes'[c].session = changes[c].session,
           \A c \in Existing' :
               /\ changes'[c].session \in DOMAIN sessions
               /\ changes'[c].review = "blocked" => changes'[c].severity = "blocked"
               /\ changes'[c].review = "awaited" =>
                    \/ x.at = "reviewing" /\ c \in x.asked
                    \/ /\ c \in Existing /\ changes[c].review = "awaited"
                       /\ req[r].at = "reviewing" => c \notin req[r].asked,
           x = Idle \/ /\ x.at = "reviewing" /\ x.session \in DOMAIN sessions
                       /\ \A c \in x.asked : c \in Existing' /\ changes'[c].session = x.session
    PROVE  IInv'
<1>1. req' \in [Req -> Request] /\ req'[r] = x /\ Others(r)
  <2>1. req \in [Req -> Request]
    BY DEF IInv, TypeOK
  <2> QED
    BY <2>1, Updated
<1>2. TypeOK'
  BY <1>1 DEF IInv, TypeOK
<1>3. Grows /\ SessionsSound'
  BY DEF IInv, Grows, SessionsSound
<1>4. ChangesSound'
  BY DEF ChangesSound
<1>5. Sound(r)'
  <2>1. CASE x = Idle
    BY <1>1, <2>1, EndIsSound
  <2>2. CASE x # Idle
    BY <1>1, <2>2 DEF Sound, Grounded, Unblocked, IsMerge
  <2> QED
    BY <2>1, <2>2
<1>6. UsedWasReviewed'
  <2>1. UsedWasReviewed /\ lost \subseteq lost' /\ UNCHANGED resumes
    BY DEF IInv
  <2>2. \A c \in Existing' : changes'[c].review = "awaited" =>
               \/ req'[r].at = "reviewing" /\ c \in req'[r].asked
               \/ /\ c \in Existing /\ changes[c].review = "awaited"
                  /\ changes'[c].session = changes[c].session
                  /\ req[r].at = "reviewing" /\ c \in req[r].asked => changes[c].session \in lost'
    BY <1>1
  <2> QED
    BY <1>1, <2>1, <2>2, UsedStays
<1>7. UnfinishedIsWorkedOn'
  BY <1>1, UnfinishedStays DEF IInv
<1> QED
  BY <1>1, <1>2, <1>3, <1>4, <1>5, <1>6, <1>7, StepKeeps

LEMMA DecideCommitKeeps == ASSUME IInv, NEW r \in Req, DecideCommit(r) PROVE IInv'
<1>1. /\ req[r].at = "deciding" /\ UNCHANGED <<resumes, sessions, lost>>
      /\ changes' = [c \in ChangeId |->
           IF c \in req[r].asked THEN [changes[c] EXCEPT !.decision = req[r].answer]
           ELSE changes[c]]
      /\ req' = [req EXCEPT ![r] = Idle]
  BY DEF DecideCommit
<1>2. req[r] \in Request /\ req[r].answer \in Decision /\ changes \in Rows
  BY DEF IInv, TypeOK, Request
<1>3. req[r].asked \subseteq Existing
  BY <1>1 DEF IInv, RequestsSound, Grounded
<1>4. ASSUME NEW c \in Existing
      PROVE  /\ changes'[c] \in ChangeRow /\ changes'[c] # NoRow
             /\ changes'[c].session = changes[c].session
             /\ changes'[c].review = changes[c].review
             /\ changes'[c].severity = changes[c].severity
  <2>1. c \in ChangeId /\ changes[c] \in ChangeRow
    BY <1>2, RowsOf
  <2>2. changes'[c] = IF c \in req[r].asked THEN [changes[c] EXCEPT !.decision = req[r].answer]
                      ELSE changes[c]
    BY <1>1, <2>1
  <2>3. changes'[c] \in ChangeRow
    BY <1>2, <2>1, <2>2 DEF ChangeRow
  <2> QED
    BY <1>2, <2>1, <2>2, <2>3, RowsOf DEF ChangeRow
<1>5. \A c \in ChangeId \ Existing : changes'[c] = NoRow
  BY <1>1, <1>2, <1>3, RowsOf
<1>6. changes' \in Rows
  <2>1. \A c \in ChangeId : changes'[c] \in ChangeRow \cup {NoRow}
    BY <1>4, <1>5
  <2> QED
    BY <1>1, <2>1 DEF Rows
<1>7. Existing' = Existing
  BY <1>4, <1>5 DEF Existing
<1>8. \A c \in Existing : c \in Existing' /\ changes'[c].session = changes[c].session
  BY <1>4, <1>7
<1>9. \A c \in Existing' :
          /\ changes'[c].session \in DOMAIN sessions
          /\ changes'[c].review = "blocked" => changes'[c].severity = "blocked"
          /\ changes'[c].review = "awaited" =>
               \/ Idle.at = "reviewing" /\ c \in Idle.asked
               \/ /\ c \in Existing /\ changes[c].review = "awaited"
                  /\ req[r].at = "reviewing" => c \notin req[r].asked
  BY <1>1, <1>4, <1>7 DEF IInv, ChangesSound
<1>10. Idle \in Request /\ req[r].at # "rendering"
  BY <1>1, IdleIsRequest
<1> QED
  BY <1>1, <1>6, <1>8, <1>9, <1>10, WriteKeeps

\* The changes a request asked about get the verdicts v.
LEMMA VerdictKeeps ==
    ASSUME IInv, NEW r \in Req, req[r].at = "reviewing",
           NEW v \in [req[r].asked -> {"passed", "blocked"}],
           UNCHANGED <<resumes, sessions, lost>>, req' = [req EXCEPT ![r] = Idle],
           changes' = [c \in ChangeId |->
             IF c \in req[r].asked
             THEN [changes[c] EXCEPT !.review = v[c],
                     !.severity = IF v[c] = "passed" THEN "safe" ELSE "blocked"]
             ELSE changes[c]]
    PROVE  IInv'
<1>2. changes \in Rows
  BY DEF IInv, TypeOK
<1>3. req[r].asked \subseteq Existing
  BY DEF IInv, RequestsSound, Grounded
<1>4. ASSUME NEW c \in Existing
      PROVE  /\ changes'[c] \in ChangeRow /\ changes'[c] # NoRow
             /\ changes'[c].session = changes[c].session
             /\ c \in req[r].asked =>
                  /\ changes'[c].review # "awaited"
                  /\ changes'[c].review = "blocked" => changes'[c].severity = "blocked"
             /\ c \notin req[r].asked => changes'[c] = changes[c]
  <2>1. c \in ChangeId /\ changes[c] \in ChangeRow
    BY <1>2, RowsOf
  <2>2. changes'[c] = IF c \in req[r].asked
                      THEN [changes[c] EXCEPT !.review = v[c],
                              !.severity = IF v[c] = "passed" THEN "safe" ELSE "blocked"]
                      ELSE changes[c]
    BY <2>1
  <2>3. c \in req[r].asked => v[c] \in {"passed", "blocked"}
    OBVIOUS
  <2>4. changes'[c] \in ChangeRow
    BY <2>1, <2>2, <2>3 DEF ChangeRow, Review
  <2>5. changes'[c] # NoRow
    BY <1>2, <2>4, RowsOf
  <2>6. changes'[c].session = changes[c].session
    BY <2>1, <2>2 DEF ChangeRow
  <2>7. c \in req[r].asked =>
                  /\ changes'[c].review # "awaited"
                  /\ changes'[c].review = "blocked" => changes'[c].severity = "blocked"
    BY <2>1, <2>2, <2>3 DEF ChangeRow
  <2> QED
    BY <2>2, <2>4, <2>5, <2>6, <2>7
<1>5. \A c \in ChangeId \ Existing : changes'[c] = NoRow
  BY <1>2, <1>3, RowsOf
<1>6. changes' \in Rows
  <2>1. \A c \in ChangeId : changes'[c] \in ChangeRow \cup {NoRow}
    BY <1>4, <1>5
  <2> QED
    BY <2>1 DEF Rows
<1>7. Existing' = Existing
  BY <1>4, <1>5 DEF Existing
<1>8. \A c \in Existing : c \in Existing' /\ changes'[c].session = changes[c].session
  BY <1>4, <1>7
<1>9. \A c \in Existing' :
          /\ changes'[c].session \in DOMAIN sessions
          /\ changes'[c].review = "blocked" => changes'[c].severity = "blocked"
          /\ changes'[c].review = "awaited" =>
               \/ Idle.at = "reviewing" /\ c \in Idle.asked
               \/ /\ c \in Existing /\ changes[c].review = "awaited"
                  /\ req[r].at = "reviewing" => c \notin req[r].asked
  BY <1>4, <1>7 DEF IInv, ChangesSound
<1>10. Idle \in Request /\ req[r].at # "rendering"
  BY IdleIsRequest
<1> QED
  BY <1>6, <1>8, <1>9, <1>10, WriteKeeps

LEMMA ReviewedKeeps == ASSUME IInv, NEW r \in Req, Reviewed(r) PROVE IInv'
BY VerdictKeeps DEF Reviewed

LEMMA ReviewFailsKeeps == ASSUME IInv, NEW r \in Req, ReviewFails(r) PROVE IInv'
<1> DEFINE v == [c \in req[r].asked |-> "blocked"]
<1>1. v \in [req[r].asked -> {"passed", "blocked"}]
  OBVIOUS
<1>2. changes' = [c \in ChangeId |->
        IF c \in req[r].asked
        THEN [changes[c] EXCEPT !.review = v[c],
                !.severity = IF v[c] = "passed" THEN "safe" ELSE "blocked"]
        ELSE changes[c]]
  BY DEF ReviewFails
<1>3. /\ req[r].at = "reviewing" /\ UNCHANGED <<resumes, sessions, lost>>
      /\ req' = [req EXCEPT ![r] = Idle]
  BY DEF ReviewFails
<1> HIDE DEF v
<1> QED
  BY <1>1, <1>2, <1>3, VerdictKeeps

\* A new change is a row.
LEMMA NewChangeIsRow ==
    ASSUME NEW s \in 1..MaxSessions, NEW e \in [kind : Kind, target : Target],
           NEW verdict \in Review, NEW severity \in {"safe", "blocked"}
    PROVE  LET row == NewChange(s, e, verdict, severity) IN
           /\ row \in ChangeRow /\ row.session = s
           /\ row.review = verdict /\ row.severity = severity
BY DEF NewChange, ChangeRow, Decision

LEMMA DraftedKeeps == ASSUME IInv, NEW r \in Req, Drafted(r) PROVE IInv'
<1>0. PICK p \in Proposals : \E id \in [DOMAIN p -> ChangeId \ Existing] :
        LET new == {id[i] : i \in DOMAIN p} IN
          /\ changes' = [c \in ChangeId |->
               IF c \in new
               THEN NewChange(req[r].session, p[CHOOSE i \in DOMAIN p : id[i] = c], "awaited", "safe")
               ELSE changes[c]]
          /\ req' = [req EXCEPT ![r] = IF p = << >> THEN Idle
                       ELSE [@ EXCEPT !.at = "reviewing", !.asked = new]]
  BY DEF Drafted
<1>1. PICK id \in [DOMAIN p -> ChangeId \ Existing] :
        LET new == {id[i] : i \in DOMAIN p} IN
          /\ changes' = [c \in ChangeId |->
               IF c \in new
               THEN NewChange(req[r].session, p[CHOOSE i \in DOMAIN p : id[i] = c], "awaited", "safe")
               ELSE changes[c]]
          /\ req' = [req EXCEPT ![r] = IF p = << >> THEN Idle
                       ELSE [@ EXCEPT !.at = "reviewing", !.asked = new]]
  BY <1>0
<1> DEFINE new == {id[i] : i \in DOMAIN p}
           s == req[r].session
           row(c) == NewChange(s, p[CHOOSE i \in DOMAIN p : id[i] = c], "awaited", "safe")
           x == IF p = << >> THEN Idle ELSE [req[r] EXCEPT !.at = "reviewing", !.asked = new]
<1>2. req[r].at = "drafting" /\ UNCHANGED <<resumes, sessions, lost>>
  BY DEF Drafted
<1>3. req[r] \in Request /\ changes \in Rows /\ req \in [Req -> Request]
  BY DEF IInv, TypeOK
<1>4. s \in DOMAIN sessions /\ s \in 1..MaxSessions
  <2>1. s \in DOMAIN sessions
    BY <1>2 DEF IInv, RequestsSound, Grounded
  <2> QED
    BY <2>1, TypesOf
<1>5. new \subseteq ChangeId \ Existing
  OBVIOUS
<1>6. ASSUME NEW c \in new
      PROVE  row(c) \in ChangeRow /\ row(c).session = s /\ row(c).review = "awaited"
  <2>1. (CHOOSE i \in DOMAIN p : id[i] = c) \in DOMAIN p
    BY <1>6
  <2>2. p \in Seq([kind : Kind, target : Target])
    BY InputsAssumption
  <2>3. p[CHOOSE i \in DOMAIN p : id[i] = c] \in [kind : Kind, target : Target]
    <3>1. \A i \in DOMAIN p : p[i] \in [kind : Kind, target : Target]
      BY <2>2, LenProperties, ElementOfSeq
    <3> QED
      BY <2>1, <3>1
  <2>4. "awaited" \in Review /\ "safe" \in {"safe", "blocked"}
    BY DEF Review
  <2> HIDE DEF s
  <2> QED
    BY <1>4, <2>3, <2>4, NewChangeIsRow
<1>7. changes' = [c \in ChangeId |-> IF c \in new THEN row(c) ELSE changes[c]]
  BY <1>1
<1>8. req' = [req EXCEPT ![r] = x]
  BY <1>1
<1>9. p = << >> => new = {}
  OBVIOUS
<1> HIDE DEF new, row
<1>10. x \in Request /\ (x = Idle \/ (x.at = "reviewing" /\ x.session = s /\ x.asked = new))
       /\ (p # << >> => x.at = "reviewing" /\ x.asked = new)
  <2>1. CASE p = << >>
    BY <2>1, IdleIsRequest
  <2>2. CASE p # << >>
    BY <1>3, <1>5, <2>2 DEF Request, Phase
  <2> QED
    BY <2>1, <2>2
<1> HIDE DEF s, x
<1>11. \A c \in Existing : c \in ChangeId /\ c \notin new /\ changes'[c] = changes[c]
  BY <1>3, <1>5, <1>7, RowsOf
<1>12. \A c \in new : c \in ChangeId /\ changes'[c] = row(c) /\ row(c) # NoRow
  BY <1>3, <1>5, <1>6, <1>7, RowsOf
<1>13. \A c \in ChangeId : c \notin Existing /\ c \notin new => changes'[c] = NoRow
  BY <1>3, <1>7, RowsOf
<1>14. Existing' = Existing \cup new
  BY <1>11, <1>12, <1>13 DEF Existing
<1>15. changes' \in Rows
  <2>1. \A c \in ChangeId : changes'[c] \in ChangeRow \cup {NoRow}
    BY <1>3, <1>6, <1>11, <1>12, <1>13, RowsOf
  <2> QED
    BY <1>7, <2>1 DEF Rows
<1>16. \A c \in Existing : c \in Existing' /\ changes'[c].session = changes[c].session
  BY <1>11, <1>14
<1>17. ASSUME NEW c \in Existing'
       PROVE  /\ changes'[c].session \in DOMAIN sessions
              /\ changes'[c].review = "blocked" => changes'[c].severity = "blocked"
              /\ changes'[c].review = "awaited" =>
                   \/ x.at = "reviewing" /\ c \in x.asked
                   \/ /\ c \in Existing /\ changes[c].review = "awaited"
                      /\ req[r].at = "reviewing" => c \notin req[r].asked
  <2>1. CASE c \in Existing
    BY <1>2, <1>11, <2>1 DEF IInv, ChangesSound
  <2>2. CASE c \in new
    BY <1>4, <1>6, <1>9, <1>10, <1>12, <2>2
  <2> QED
    BY <1>14, <2>1, <2>2
<1>18. x = Idle \/ /\ x.at = "reviewing" /\ x.session \in DOMAIN sessions
                   /\ \A c \in x.asked : c \in Existing' /\ changes'[c].session = x.session
  BY <1>4, <1>6, <1>10, <1>12, <1>14
<1>19. req[r].at # "rendering"
  BY <1>2
<1> QED
  BY <1>2, <1>8, <1>10, <1>15, <1>16, <1>17, <1>18, <1>19, WriteKeeps

LEMMA ReviseCommitKeeps == ASSUME IInv, NEW r \in Req, ReviseCommit(r) PROVE IInv'
<1>1. PICK p \in Proposals, verdict \in {"passed", "blocked", "skipped"}, n \in ChangeId \ Existing :
         /\ p # << >>
         /\ changes' = [c \in ChangeId |->
              IF c = n
              THEN NewChange(req[r].session, Head(p), verdict, RevisedSeverity(verdict))
              ELSE IF c \in req[r].asked
              THEN [changes[c] EXCEPT !.decision = "rejected"]
              ELSE changes[c]]
  BY DEF ReviseCommit
<1> DEFINE s == req[r].session
           row == NewChange(s, Head(p), verdict, RevisedSeverity(verdict))
<1>2. /\ req[r].at = "revising" /\ UNCHANGED <<resumes, sessions, lost>>
      /\ req' = [req EXCEPT ![r] = Idle]
  BY DEF ReviseCommit
<1>3. changes \in Rows
  BY DEF IInv, TypeOK
<1>4. s \in DOMAIN sessions /\ s \in 1..MaxSessions
  <2>1. s \in DOMAIN sessions
    BY <1>2 DEF IInv, RequestsSound, Grounded
  <2> QED
    BY <2>1, TypesOf
<1>5. req[r].asked \subseteq Existing
  BY <1>2 DEF IInv, RequestsSound, Grounded
<1>6. /\ row \in ChangeRow /\ row.session = s /\ row.review # "awaited"
      /\ row.review = "blocked" => row.severity = "blocked"
  <2>1. p \in Seq([kind : Kind, target : Target])
    BY InputsAssumption
  <2>2. Head(p) \in [kind : Kind, target : Target]
    BY <1>1, <2>1, HeadTailProperties
  <2>3. verdict \in Review /\ RevisedSeverity(verdict) \in {"safe", "blocked"}
    BY DEF Review, RevisedSeverity
  <2> HIDE DEF s
  <2>4. /\ row \in ChangeRow /\ row.session = s
        /\ row.review = verdict /\ row.severity = RevisedSeverity(verdict)
    BY <1>4, <2>2, <2>3, NewChangeIsRow
  <2> HIDE DEF row
  <2> QED
    BY <2>4 DEF RevisedSeverity
<1>7. changes' = [c \in ChangeId |-> IF c = n THEN row
                   ELSE IF c \in req[r].asked THEN [changes[c] EXCEPT !.decision = "rejected"]
                   ELSE changes[c]]
  BY <1>1
<1> HIDE DEF s, row
<1>8. ASSUME NEW c \in Existing
      PROVE  /\ c \in ChangeId /\ changes'[c] \in ChangeRow /\ changes'[c] # NoRow
             /\ changes'[c].session = changes[c].session
             /\ changes'[c].review = changes[c].review
             /\ changes'[c].severity = changes[c].severity
  <2>1. c \in ChangeId /\ changes[c] \in ChangeRow /\ c # n
    BY <1>3, RowsOf
  <2>2. changes'[c] = IF c \in req[r].asked THEN [changes[c] EXCEPT !.decision = "rejected"]
                      ELSE changes[c]
    BY <1>7, <2>1
  <2>3. changes'[c] \in ChangeRow
    BY <2>1, <2>2 DEF ChangeRow, Decision
  <2> QED
    BY <1>3, <2>1, <2>2, <2>3, RowsOf DEF ChangeRow
<1>9. n \in ChangeId /\ changes'[n] = row /\ row # NoRow
  BY <1>3, <1>6, <1>7, RowsOf
<1>10. \A c \in ChangeId : c \notin Existing /\ c # n => changes'[c] = NoRow
  BY <1>3, <1>5, <1>7, RowsOf
<1>11. Existing' = Existing \cup {n}
  BY <1>8, <1>9, <1>10 DEF Existing
<1>12. changes' \in Rows
  <2>1. \A c \in ChangeId : changes'[c] \in ChangeRow \cup {NoRow}
    BY <1>6, <1>8, <1>9, <1>10
  <2> QED
    BY <1>7, <2>1 DEF Rows
<1>13. \A c \in Existing : c \in Existing' /\ changes'[c].session = changes[c].session
  BY <1>8, <1>11
<1>14. ASSUME NEW c \in Existing'
       PROVE  /\ changes'[c].session \in DOMAIN sessions
              /\ changes'[c].review = "blocked" => changes'[c].severity = "blocked"
              /\ changes'[c].review = "awaited" =>
                   \/ Idle.at = "reviewing" /\ c \in Idle.asked
                   \/ /\ c \in Existing /\ changes[c].review = "awaited"
                      /\ req[r].at = "reviewing" => c \notin req[r].asked
  <2>1. CASE c \in Existing
    BY <1>2, <1>8, <2>1 DEF IInv, ChangesSound
  <2>2. CASE c = n
    BY <1>4, <1>6, <1>9, <2>2
  <2> QED
    BY <1>11, <2>1, <2>2
<1>15. Idle \in Request /\ req[r].at # "rendering"
  BY <1>2, IdleIsRequest
<1> QED
  BY <1>2, <1>12, <1>13, <1>14, <1>15, WriteKeeps

-----------------------------------------------------------------------------
(* Requests that write sessions and resumes.                               *)

\* A new session of resume b, by a request that goes on as x.
LEMMA AppendKeeps ==
    ASSUME IInv, NEW r \in Req, NEW b \in DOMAIN resumes, NEW x \in Request,
           req[r].at \in {"idle", "opening"}, Len(sessions) < MaxSessions,
           sessions' = Append(sessions, [status |-> "reviewing", base |-> b, final |-> 0]),
           req' = [req EXCEPT ![r] = x], UNCHANGED <<resumes, changes, lost>>,
           x = Idle \/ (x.at = "drafting" /\ x.session = Len(sessions) + 1)
    PROVE  IInv'
<1> DEFINE row == [status |-> "reviewing", base |-> b, final |-> 0]
<1>1. req' \in [Req -> Request] /\ req'[r] = x /\ Others(r)
  <2>1. req \in [Req -> Request]
    BY DEF IInv, TypeOK
  <2> QED
    BY <2>1, Updated
<1>2. sessions \in Seq(Session) /\ Len(sessions) \in Nat /\ DOMAIN sessions = 1..Len(sessions)
  BY DEF IInv, TypeOK
<1>3. row \in Session
  <2>1. b \in 1..MaxResumes
    BY TypesOf
  <2> QED
    BY <2>1, BoundsAssumption DEF Session, SessionStatus
<1>4. /\ sessions' \in Seq(Session) /\ Len(sessions') = Len(sessions) + 1
      /\ DOMAIN sessions' = 1..(Len(sessions) + 1)
      /\ \A s \in DOMAIN sessions : sessions'[s] = sessions[s]
      /\ sessions'[Len(sessions) + 1] = row
  <2>1. sessions' = Append(sessions, row)
    OBVIOUS
  <2> HIDE DEF row
  <2> QED
    BY <1>2, <1>3, <2>1, AppendProperties
<1>5. \A s \in DOMAIN sessions' : s \in DOMAIN sessions \/ s = Len(sessions) + 1
  BY <1>2, <1>4
<1>6. \A s \in DOMAIN sessions : s \in DOMAIN sessions'
  BY <1>2, <1>4
<1>7. TypeOK'
  <2>1. Len(sessions') <= MaxSessions
    BY <1>2, <1>4, BoundsAssumption
  <2> QED
    BY <1>1, <1>4, <2>1 DEF IInv, TypeOK
<1>8. Grows
  BY <1>4, <1>6 DEF Grows, Existing
<1>9. row.base = b /\ row.final = 0 /\ row.status = "reviewing"
  OBVIOUS
<1> HIDE DEF row
<1>10. SessionsSound'
  <2>1. 0 \in 0..Len(resumes)
    BY TypesOf
  <2> QED
    BY <1>4, <1>5, <1>9, <2>1 DEF IInv, SessionsSound
<1>11. ChangesSound'
  BY <1>6 DEF IInv, ChangesSound, Existing
<1>12. Sound(r)'
  <2>1. CASE x = Idle
    BY <1>1, <2>1, EndIsSound
  <2>2. CASE x.at = "drafting" /\ x.session = Len(sessions) + 1
    <3>1. x.session \in DOMAIN sessions'
      BY <1>2, <1>4, <2>2
    <3> QED
      BY <1>1, <2>2, <3>1 DEF Sound, Grounded, Unblocked, IsMerge
  <2> QED
    BY <2>1, <2>2
<1>13. UsedWasReviewed'
  <2>1. \A c \in Existing' : c \in Existing /\ changes'[c] = changes[c]
    BY DEF Existing
  <2>2. req[r].at # "reviewing"
    OBVIOUS
  <2> QED
    BY <1>1, <2>1, <2>2, UsedStays DEF IInv
<1>14. UnfinishedIsWorkedOn'
  <2> SUFFICES ASSUME NEW s \in DOMAIN sessions'
               PROVE  /\ sessions'[s].status = "rendering" =>
                           s \in lost \/ \E q \in Req : req'[q].at = "rendering" /\ req'[q].session = s
                      /\ sessions'[s].status = "verified" => sessions'[s].final # 0
                      /\ sessions'[s].final # 0 => resumes[sessions'[s].final].session = s
    BY DEF UnfinishedIsWorkedOn
  <2>1. CASE s \in DOMAIN sessions
    <3>1. sessions'[s] = sessions[s]
      BY <1>4, <2>1
    <3>2. sessions[s].status = "rendering" =>
            s \in lost \/ \E q \in Req : req'[q].at = "rendering" /\ req'[q].session = s
      BY <1>1, <2>1 DEF IInv, UnfinishedIsWorkedOn, Others
    <3> QED
      BY <2>1, <3>1, <3>2 DEF IInv, UnfinishedIsWorkedOn
  <2>2. CASE s = Len(sessions) + 1
    BY <1>4, <1>9, <2>2
  <2> QED
    BY <1>5, <2>1, <2>2
<1> QED
  BY <1>1, <1>7, <1>8, <1>10, <1>11, <1>12, <1>13, <1>14, StepKeeps

LEMMA StartKeeps == ASSUME IInv, NEW r \in Req, Start(r) PROVE IInv'
<1>1. PICK b \in DOMAIN resumes : Begin(r, b)
  BY DEF Start
<1> DEFINE n == Len(sessions) + 1
           x == [Idle EXCEPT !.at = "drafting", !.session = n]
<1>2. /\ req[r].at = "idle" /\ Len(sessions) < MaxSessions
      /\ sessions' = Append(sessions, [status |-> "reviewing", base |-> b, final |-> 0])
      /\ req' = [req EXCEPT ![r] = x]
      /\ UNCHANGED <<resumes, changes, lost>>
  BY <1>1 DEF Begin
<1>3. n \in 0..MaxSessions
  BY <1>2, TypesOf, BoundsAssumption
<1> HIDE DEF n
<1>4. x \in Request /\ x.at = "drafting" /\ x.session = n
  BY <1>3, IdleIsRequest DEF Request, Phase, Idle
<1>5. x.at = "drafting" /\ x.session = Len(sessions) + 1
  BY <1>4 DEF n
<1> HIDE DEF x
<1> QED
  BY <1>2, <1>4, <1>5, AppendKeeps

LEMMA OpenCommitKeeps == ASSUME IInv, NEW r \in Req, OpenCommit(r) PROVE IInv'
<1>1. /\ req[r].at = "opening" /\ Len(sessions) < MaxSessions
      /\ sessions' = Append(sessions, [status |-> "reviewing", base |-> req[r].base, final |-> 0])
      /\ req' = [req EXCEPT ![r] = Idle]
      /\ UNCHANGED <<resumes, changes, lost>>
  BY DEF OpenCommit
<1>2. req[r].base \in DOMAIN resumes
  BY <1>1 DEF IInv, RequestsSound, Grounded
<1>3. Idle \in Request
  BY IdleIsRequest
<1> QED
  BY <1>1, <1>2, <1>3, AppendKeeps

\* The status of the session of request r becomes st, and the request ends or
\* goes on to render; it does the latter if the session is to be rendering.
LEMMA StatusKeeps ==
    ASSUME IInv, NEW r \in Req, req[r].at \in {"drafting", "finalizing", "rendering"},
           NEW st \in SessionStatus, NEW x \in Request,
           sessions' = [sessions EXCEPT ![req[r].session].status = st],
           req' = [req EXCEPT ![r] = x], UNCHANGED <<resumes, changes, lost>>,
           st = "verified" => sessions[req[r].session].status = "verified",
           req[r].at = "rendering" => st # "rendering",
           \/ /\ x = Idle
              /\ st = "rendering" => sessions[req[r].session].status = "rendering"
           \/ /\ x.at = "rendering" /\ x.session = req[r].session /\ Unblocked(r)'
              /\ LET merged == Merge(Source(x.session), x.rows, Decided(x.rows, "accepted"))
                 IN  x.status = "rendering" /\ merged.ok /\ x.doc = merged.doc
    PROVE  IInv'
<1> DEFINE t == req[r].session
<1>1. req' \in [Req -> Request] /\ req'[r] = x /\ Others(r)
  <2>1. req \in [Req -> Request]
    BY DEF IInv, TypeOK
  <2> QED
    BY <2>1, Updated
<1>2. sessions \in Seq(Session) /\ t \in DOMAIN sessions
  BY DEF IInv, TypeOK, RequestsSound, Grounded
<1>3. \A s \in DOMAIN sessions : sessions[s] \in Session
  BY TypesOf
<1>4. /\ sessions' \in Seq(Session) /\ Len(sessions') = Len(sessions)
      /\ DOMAIN sessions' = DOMAIN sessions
      /\ \A s \in DOMAIN sessions :
           /\ sessions'[s].base = sessions[s].base
           /\ sessions'[s].final = sessions[s].final
           /\ s # t => sessions'[s].status = sessions[s].status
      /\ sessions'[t].status = st
  <2> DEFINE row == [sessions[t] EXCEPT !.status = st]
  <2>1. row \in Session /\ row.base = sessions[t].base /\ row.final = sessions[t].final
        /\ row.status = st
    BY <1>2, <1>3 DEF Session
  <2>2. sessions' = [sessions EXCEPT ![t] = row]
    OBVIOUS
  <2>3. t \in 1..Len(sessions) /\ DOMAIN sessions = 1..Len(sessions)
    BY <1>2, TypesOf
  <2> HIDE DEF row, t
  <2>4. sessions' \in Seq(Session) /\ Len(sessions') = Len(sessions)
        /\ \A s \in 1..Len(sessions) : sessions'[s] = IF s = t THEN row ELSE sessions[s]
    <3>1. sessions \in Seq(Session) /\ t \in 1..Len(sessions) /\ row \in Session
      BY <1>2, <2>1, <2>3
    <3>2. /\ [sessions EXCEPT ![t] = row] \in Seq(Session)
          /\ Len([sessions EXCEPT ![t] = row]) = Len(sessions)
          /\ \A s \in 1..Len(sessions) :
               [sessions EXCEPT ![t] = row][s] = IF s = t THEN row ELSE sessions[s]
      BY <3>1, ExceptSeq
    <3> QED
      BY <2>2, <3>2
  <2>5. DOMAIN sessions' = DOMAIN sessions
    BY <2>2
  <2> QED
    BY <2>1, <2>3, <2>4, <2>5
<1> HIDE DEF t
<1>5. TypeOK'
  BY <1>1, <1>4 DEF IInv, TypeOK
<1>6. Grows
  BY <1>4 DEF Grows, Existing
<1>7. SessionsSound' /\ ChangesSound'
  BY <1>4 DEF IInv, SessionsSound, ChangesSound, Existing
<1>8. Sound(r)'
  <2>1. CASE x = Idle
    BY <1>1, <2>1, EndIsSound
  <2>2. CASE x # Idle
    <3>1. Grounded(r)'
      BY <1>1, <1>2, <1>4, <2>2 DEF Grounded, t
    <3>2. Source(x.session)' = Source(x.session)
      <4>1. x.session = t /\ t \in DOMAIN sessions
        BY <1>2, <2>2 DEF t
      <4> QED
        BY <1>4, <4>1 DEF Source, Structured
    <3>3. IsMerge(r)'
      BY <1>1, <2>2, <3>2 DEF IsMerge
    <3> QED
      BY <2>2, <3>1, <3>3 DEF Sound
  <2> QED
    BY <2>1, <2>2
<1>9. UsedWasReviewed'
  <2>1. \A c \in Existing' : c \in Existing /\ changes'[c] = changes[c]
    BY DEF Existing
  <2>2. req[r].at # "reviewing"
    OBVIOUS
  <2> QED
    BY <1>1, <2>1, <2>2, UsedStays DEF IInv
<1>10. UnfinishedIsWorkedOn'
  <2> SUFFICES ASSUME NEW s \in DOMAIN sessions
               PROVE  /\ sessions'[s].status = "rendering" =>
                           s \in lost \/ \E q \in Req : req'[q].at = "rendering" /\ req'[q].session = s
                      /\ sessions'[s].status = "verified" => sessions[s].final # 0
                      /\ sessions[s].final # 0 => resumes[sessions[s].final].session = s
    BY <1>4 DEF UnfinishedIsWorkedOn
  <2>1. /\ sessions[s].status = "rendering" =>
             s \in lost \/ \E q \in Req : req[q].at = "rendering" /\ req[q].session = s
        /\ sessions[s].status = "verified" => sessions[s].final # 0
        /\ sessions[s].final # 0 => resumes[sessions[s].final].session = s
    BY DEF IInv, UnfinishedIsWorkedOn
  <2>2. CASE s # t
    <3>1. sessions'[s].status = sessions[s].status
      BY <1>4, <2>2
    <3>2. \A q \in Req : req[q].at = "rendering" /\ req[q].session = s =>
              req'[q].at = "rendering" /\ req'[q].session = s
      BY <1>1, <2>2 DEF Others, t
    <3> QED
      BY <2>1, <3>1, <3>2
  <2>3. CASE s = t
    <3>1. sessions'[s].status = st
      BY <1>4, <2>3
    <3>2. CASE x = Idle
      <4>1. st = "rendering" => req[r].at # "rendering" /\ sessions[s].status = "rendering"
        BY <2>3, <3>2, IdleIsRequest DEF t, Idle
      <4>2. st = "rendering" => \A q \in Req : req[q].at = "rendering" => req'[q] = req[q]
        BY <1>1, <4>1 DEF Others
      <4>3. st = "verified" => sessions[s].status = "verified"
        BY <2>3 DEF t
      <4> QED
        BY <2>1, <3>1, <4>1, <4>2, <4>3
    <3>3. CASE x # Idle
      <4>1. req'[r].at = "rendering" /\ req'[r].session = s
        BY <1>1, <2>3, <3>3 DEF t
      <4>2. st = "verified" => sessions[s].status = "verified"
        BY <2>3 DEF t
      <4> QED
        BY <2>1, <3>1, <4>1, <4>2
    <3> QED
      BY <3>2, <3>3
  <2> QED
    BY <2>2, <2>3
<1> QED
  BY <1>1, <1>5, <1>6, <1>7, <1>8, <1>9, <1>10, StepKeeps

\* The text a session works on is a document.
LEMMA SourceIsDoc ==
    ASSUME IInv, NEW s \in DOMAIN sessions
    PROVE  Source(s) \in Doc
<1>1. sessions[s].base \in DOMAIN resumes
  BY TypesOf
<1>2. resumes[sessions[s].base] \in Resume
  BY <1>1, TypesOf
<1>3. resumes[sessions[s].base].doc \in Doc
  BY <1>2 DEF Resume
<1> QED
  BY <1>3, IdleIsRequest DEF Source, Structured

LEMMA DraftFailsKeeps == ASSUME IInv, NEW r \in Req, DraftFails(r) PROVE IInv'
<1>1. /\ req[r].at = "drafting"
      /\ sessions' = [sessions EXCEPT ![req[r].session].status = "failed"]
      /\ req' = [req EXCEPT ![r] = Idle]
      /\ UNCHANGED <<resumes, changes, lost>>
  BY DEF DraftFails
<1>2. "failed" \in SessionStatus /\ Idle \in Request
  BY IdleIsRequest DEF SessionStatus
<1> QED
  BY <1>1, <1>2, StatusKeeps

LEMMA VerificationFailsKeeps == ASSUME IInv, NEW r \in Req, VerificationFails(r) PROVE IInv'
<1>1. /\ req[r].at = "rendering"
      /\ sessions' = [sessions EXCEPT ![req[r].session].status = "failed"]
      /\ req' = [req EXCEPT ![r] = Idle]
      /\ UNCHANGED <<resumes, changes, lost>>
  BY DEF VerificationFails
<1>2. "failed" \in SessionStatus /\ Idle \in Request
  BY IdleIsRequest DEF SessionStatus
<1> QED
  BY <1>1, <1>2, StatusKeeps

LEMMA FinalizeMergeKeeps == ASSUME IInv, NEW r \in Req, FinalizeMerge(r) PROVE IInv'
<1> DEFINE t == req[r].session
           rows == req[r].rows
           merged == Merge(Source(t), rows, Decided(rows, "accepted"))
           status == IF merged.ok THEN "rendering" ELSE "failed"
           st == Flush(req[r].status, sessions[t].status, status)
           y == [req[r] EXCEPT !.at = "rendering", !.status = "rendering", !.doc = merged.doc]
           x == IF merged.ok THEN y ELSE Idle
<1>1. /\ req[r].at = "finalizing"
      /\ sessions' = [sessions EXCEPT ![t].status = Flush(req[r].status, @, status)]
      /\ req' = [req EXCEPT ![r] = x]
      /\ UNCHANGED <<resumes, changes, lost>>
  BY DEF FinalizeMerge
<1>2. t \in DOMAIN sessions
  BY <1>1 DEF IInv, RequestsSound, Grounded
<1>3. sessions' = [sessions EXCEPT ![t].status = st]
  BY <1>1, <1>2
<1>4. req[r] \in Request /\ rows \in Rows /\ req \in [Req -> Request]
  BY DEF IInv, TypeOK, Request
<1>5. merged.doc \in Doc
  <2>1. Source(t) \in Doc
    BY <1>2, SourceIsDoc
  <2> HIDE DEF t, rows
  <2>2. merged \in States
    BY <1>4, <2>1, MergeIsState
  <2> HIDE DEF merged
  <2> QED
    BY <2>2 DEF States
<1>6. /\ st = sessions[t].status \/ st = status
      /\ st \in SessionStatus
  <2>1. sessions[t].status \in SessionStatus
    BY <1>2, TypesOf
  <2> HIDE DEF merged, t
  <2> QED
    BY <2>1 DEF Flush, SessionStatus
<1>7. /\ y \in Request /\ y.at = "rendering" /\ y.session = t /\ y.rows = rows
      /\ y.status = "rendering" /\ y.doc = merged.doc
  <2> HIDE DEF merged
  <2> QED
    BY <1>4, <1>5 DEF Request, Phase, SessionStatus
<1>8. status = "rendering" <=> merged.ok
  <2> HIDE DEF merged
  <2> QED
    OBVIOUS
<1>9. status \in {"rendering", "failed"}
  <2> HIDE DEF merged
  <2> QED
    OBVIOUS
<1>10. x \in Request
  BY <1>7, IdleIsRequest
<1>11. Unblocked(r)
  BY DEF IInv, RequestsSound
<1>12. st = "verified" => sessions[t].status = "verified"
  BY <1>6, <1>9
<1> HIDE DEF st, status, y
<1>13. CASE merged.ok
  <2>1. x = y
    BY <1>13
  <2>2. req'[r] = y
    BY <1>1, <1>4, <2>1
  <2>3. Unblocked(r)'
    BY <1>1, <1>7, <1>11, <2>2 DEF Unblocked
  <2>4. LET m == Merge(Source(y.session), y.rows, Decided(y.rows, "accepted"))
        IN  y.status = "rendering" /\ m.ok /\ y.doc = m.doc
    BY <1>7, <1>13
  <2>5. req' = [req EXCEPT ![r] = y]
    BY <1>1, <2>1
  <2> HIDE DEF merged, rows, x
  <2>6. sessions' = [sessions EXCEPT ![req[r].session].status = st]
    BY <1>3
  <2>7. st = "verified" => sessions[req[r].session].status = "verified"
    BY <1>12
  <2>8. y.session = req[r].session
    BY <1>7
  <2>9. /\ y.at = "rendering" /\ y.session = req[r].session /\ Unblocked(r)'
        /\ LET m == Merge(Source(y.session), y.rows, Decided(y.rows, "accepted"))
           IN  y.status = "rendering" /\ m.ok /\ y.doc = m.doc
    BY <1>7, <2>3, <2>4, <2>8
  <2>10. /\ req[r].at \in {"drafting", "finalizing", "rendering"}
         /\ req[r].at = "rendering" => st # "rendering"
         /\ UNCHANGED <<resumes, changes, lost>>
         /\ y \in Request /\ st \in SessionStatus
    BY <1>1, <1>6, <1>7
  <2> HIDE DEF t
  <2> QED
    BY <2>5, <2>6, <2>7, <2>9, <2>10, StatusKeeps
<1>14. CASE ~merged.ok
  <2>1. x = Idle
    BY <1>14
  <2>2. st = "rendering" => sessions[req[r].session].status = "rendering"
    BY <1>6, <1>8, <1>14
  <2>3. sessions' = [sessions EXCEPT ![req[r].session].status = st]
    BY <1>3
  <2>4. st = "verified" => sessions[req[r].session].status = "verified"
    BY <1>12
  <2>5. req' = [req EXCEPT ![r] = Idle] /\ Idle \in Request
    BY <1>1, <2>1, IdleIsRequest
  <2> HIDE DEF merged, rows, x, t
  <2> QED
    BY <1>1, <1>6, <2>2, <2>3, <2>4, <2>5, StatusKeeps
<1> QED
  BY <1>13, <1>14

\* Storing a resume of the session of r, made of no blocked change.
LEMMA StoreKeeps ==
    ASSUME IInv, NEW r \in Req, req[r].at \in {"finalizing", "rendering"},
           NEW row \in Resume, row.session = req[r].session,
           row.reviews \subseteq {"passed", "skipped", "awaited"}, Store(r, row)
    PROVE  IInv'
<1> DEFINE t == req[r].session
           n == Len(resumes) + 1
           st == Flush(req[r].status, sessions[t].status, "verified")
           new == [sessions[t] EXCEPT !.final = n, !.status = st]
<1>1. /\ Len(resumes) < MaxResumes
      /\ resumes' = Append(resumes, row)
      /\ sessions' = [sessions EXCEPT ![t].final = n, ![t].status = Flush(req[r].status, @, "verified")]
      /\ req' = [req EXCEPT ![r] = Idle]
      /\ UNCHANGED <<changes, lost>>
  BY DEF Store
<1>2. t \in DOMAIN sessions
  BY DEF IInv, RequestsSound, Grounded
<1>3. sessions[t] \in Session /\ sessions[t].status \in SessionStatus
  BY <1>2, TypesOf
<1>4. sessions \in Seq(Session) /\ resumes \in Seq(Resume) /\ req \in [Req -> Request]
      /\ Len(sessions) <= MaxSessions
  BY DEF IInv, TypeOK
<1>5. DOMAIN sessions = 1..Len(sessions) /\ DOMAIN resumes = 1..Len(resumes)
      /\ Len(resumes) \in Nat /\ Len(sessions) \in Nat
  BY TypesOf
<1>6. sessions' = [sessions EXCEPT ![t] = new]
  BY <1>1, <1>2, <1>3 DEF Session
<1>7. n \in 1..MaxResumes /\ n \in 0..MaxResumes /\ n # 0 /\ n \notin DOMAIN resumes
  BY <1>1, <1>5, BoundsAssumption
<1>8. st \in SessionStatus /\ (st = "rendering" => req[r].status = "verified")
  BY <1>3 DEF Flush, SessionStatus
<1> HIDE DEF n, st
<1>9. new \in Session /\ new.base = sessions[t].base /\ new.final = n /\ new.status = st
  BY <1>3, <1>7, <1>8 DEF Session
<1> HIDE DEF new, t
<1>10. /\ sessions' \in Seq(Session) /\ Len(sessions') = Len(sessions)
       /\ DOMAIN sessions' = DOMAIN sessions
       /\ \A s \in DOMAIN sessions : sessions'[s] = IF s = t THEN new ELSE sessions[s]
  <2>1. sessions \in Seq(Session) /\ t \in 1..Len(sessions) /\ new \in Session
    BY <1>2, <1>4, <1>5, <1>9
  <2>2. /\ [sessions EXCEPT ![t] = new] \in Seq(Session)
        /\ Len([sessions EXCEPT ![t] = new]) = Len(sessions)
        /\ \A s \in 1..Len(sessions) :
             [sessions EXCEPT ![t] = new][s] = IF s = t THEN new ELSE sessions[s]
    BY <2>1, ExceptSeq
  <2> QED
    BY <1>5, <1>6, <2>2
<1>11. /\ resumes' \in Seq(Resume) /\ Len(resumes') = n
       /\ DOMAIN resumes' = DOMAIN resumes \cup {n}
       /\ \A i \in DOMAIN resumes : resumes'[i] = resumes[i]
       /\ resumes'[n] = row
  <2>1. /\ resumes' \in Seq(Resume) /\ Len(resumes') = Len(resumes) + 1
        /\ \A i \in 1..Len(resumes) : resumes'[i] = resumes[i]
        /\ resumes'[Len(resumes) + 1] = row
    BY <1>1, <1>4, AppendProperties
  <2>2. DOMAIN resumes' = 1..(Len(resumes) + 1)
    BY <2>1, LenProperties
  <2>3. 1..(Len(resumes) + 1) = 1..Len(resumes) \cup {Len(resumes) + 1}
    BY <1>5
  <2> QED
    BY <1>5, <2>1, <2>2, <2>3 DEF n
<1>12. req' \in [Req -> Request] /\ req'[r] = Idle /\ Others(r)
  BY <1>1, <1>4, IdleIsRequest, Updated
<1>13. TypeOK'
  <2>1. Len(resumes') \in 1..MaxResumes
    BY <1>7, <1>11
  <2> QED
    BY <1>1, <1>4, <1>10, <1>11, <1>12, <2>1 DEF IInv, TypeOK
<1>14. \A s \in DOMAIN sessions : sessions'[s].base = sessions[s].base
  BY <1>9, <1>10
<1>15. Grows
  BY <1>1, <1>10, <1>11, <1>14 DEF Grows, Existing
<1>16. \A s \in DOMAIN sessions : sessions[s].final # 0 => sessions[s].final \in DOMAIN resumes
  BY <1>5 DEF IInv, SessionsSound
<1>17. SessionsSound'
  <2> SUFFICES ASSUME NEW s \in DOMAIN sessions
               PROVE  sessions'[s].base \in DOMAIN resumes' /\ sessions'[s].final \in 0..Len(resumes')
    BY <1>10 DEF SessionsSound
  <2>1. sessions'[s].base \in DOMAIN resumes'
    BY <1>11, <1>14, TypesOf
  <2>2. sessions[s].final \in 0..Len(resumes)
    BY DEF IInv, SessionsSound
  <2>3. n \in 0..n /\ sessions[s].final \in 0..n
    BY <1>5, <2>2 DEF n
  <2> QED
    BY <1>9, <1>10, <1>11, <2>1, <2>3
<1>18. ChangesSound'
  BY <1>1, <1>10 DEF IInv, ChangesSound, Existing
<1>19. Sound(r)'
  BY <1>12, EndIsSound
<1>20. UsedWasReviewed'
  <2>1. \A i \in DOMAIN resumes' : resumes'[i].reviews \subseteq {"passed", "skipped", "awaited"}
    BY <1>11 DEF IInv, UsedWasReviewed
  <2>2. ASSUME NEW c \in Existing, changes[c].review = "awaited"
        PROVE  \/ changes[c].session \in lost
               \/ \E q \in Req : req'[q].at = "reviewing" /\ c \in req'[q].asked
    <3>1. changes[c].session \in lost \/ \E q \in Req : req[q].at = "reviewing" /\ c \in req[q].asked
      BY <2>2 DEF IInv, UsedWasReviewed
    <3> QED
      BY <1>12, <3>1 DEF Others
  <2>3. Existing' = Existing
    BY <1>1 DEF Existing
  <2> QED
    BY <1>1, <2>1, <2>2, <2>3 DEF UsedWasReviewed
<1>21. UnfinishedIsWorkedOn'
  <2> SUFFICES ASSUME NEW s \in DOMAIN sessions
               PROVE  /\ sessions'[s].status = "rendering" =>
                           s \in lost \/ \E q \in Req : req'[q].at = "rendering" /\ req'[q].session = s
                      /\ sessions'[s].status = "verified" => sessions'[s].final # 0
                      /\ sessions'[s].final # 0 => resumes'[sessions'[s].final].session = s
    BY <1>1, <1>10 DEF UnfinishedIsWorkedOn
  <2>1. /\ sessions[s].status = "rendering" =>
             s \in lost \/ \E q \in Req : req[q].at = "rendering" /\ req[q].session = s
        /\ sessions[s].status = "verified" => sessions[s].final # 0
        /\ sessions[s].final # 0 => resumes[sessions[s].final].session = s
    BY DEF IInv, UnfinishedIsWorkedOn
  <2>2. CASE s # t
    <3>1. sessions'[s] = sessions[s]
      BY <1>10, <2>2
    <3>2. \A q \in Req : req[q].at = "rendering" /\ req[q].session = s =>
              req'[q].at = "rendering" /\ req'[q].session = s
      BY <1>12, <2>2 DEF Others, t
    <3>3. sessions[s].final # 0 => resumes'[sessions[s].final].session = s
      BY <1>11, <1>16, <2>1
    <3> QED
      BY <2>1, <3>1, <3>2, <3>3
  <2>3. CASE s = t
    <3>1. sessions'[s].status = st /\ sessions'[s].final = n
      BY <1>9, <1>10, <2>3
    <3>2. st = "rendering" => req[r].at # "rendering" /\ sessions[s].status = "rendering"
      <4>1. req[r].at = "rendering" => req[r].status = "rendering"
        BY DEF IInv, RequestsSound, IsMerge
      <4>2. st = "rendering" => st = sessions[s].status
        BY <2>3 DEF st, Flush
      <4> QED
        BY <1>8, <4>1, <4>2
    <3>3. st = "rendering" => \A q \in Req : req[q].at = "rendering" => req'[q] = req[q]
      BY <1>12, <3>2 DEF Others
    <3>4. resumes'[n].session = s
      BY <1>11, <2>3 DEF t
    <3> QED
      BY <1>7, <2>1, <3>1, <3>2, <3>3, <3>4
  <2> QED
    BY <2>2, <2>3
<1> QED
  BY <1>12, <1>13, <1>15, <1>17, <1>18, <1>19, <1>20, <1>21, StepKeeps

LEMMA FinalizeUnchangedKeeps == ASSUME IInv, NEW r \in Req, FinalizeUnchanged(r) PROVE IInv'
<1> DEFINE s == req[r].session
           row == [resumes[sessions[s].base] EXCEPT !.type = "tailored", !.session = s, !.reviews = {}]
<1>1. req[r].at = "finalizing" /\ Store(r, row)
  BY DEF FinalizeUnchanged
<1>2. s \in DOMAIN sessions
  BY <1>1 DEF IInv, RequestsSound, Grounded
<1>3. s \in 0..MaxSessions /\ resumes[sessions[s].base] \in Resume
  BY <1>2, TypesOf
<1> HIDE DEF s
<1>4. row \in Resume /\ row.session = s /\ row.reviews = {}
  BY <1>3 DEF Resume
<1>5. row.session = req[r].session /\ row.reviews \subseteq {"passed", "skipped", "awaited"}
  BY <1>4 DEF s
<1> HIDE DEF row
<1> QED
  BY <1>1, <1>4, <1>5, StoreKeeps

LEMMA RenderedKeeps == ASSUME IInv, NEW r \in Req, Rendered(r) PROVE IInv'
<1>1. PICK pdf \in BOOLEAN :
          Store(r, [type |-> "tailored", doc |-> req[r].doc, json |-> TRUE, pdf |-> pdf,
                    session |-> req[r].session, reviews |-> ReviewsOf(req[r].rows)])
  BY DEF Rendered
<1> DEFINE s == req[r].session
           reviews == ReviewsOf(req[r].rows)
           doc == req[r].doc
           row == [type |-> "tailored", doc |-> doc, json |-> TRUE, pdf |-> pdf,
                   session |-> s, reviews |-> reviews]
<1>2. req[r].at = "rendering"
  BY DEF Rendered
<1>3. req[r] \in Request /\ doc \in Doc /\ req[r].rows \in Rows
  BY DEF IInv, TypeOK, Request
<1>4. s \in 0..MaxSessions
  <2>1. s \in DOMAIN sessions
    BY <1>2 DEF IInv, RequestsSound, Grounded
  <2> QED
    BY <2>1, TypesOf
<1>5. ASSUME NEW c \in Decided(req[r].rows, "accepted")
      PROVE  req[r].rows[c].review \in Review \ {"blocked"}
  <2>1. c \in ChangeId /\ req[r].rows[c].decision = "accepted"
    BY <1>3 DEF Decided, Rows
  <2>2. req[r].rows[c] \in ChangeRow
    BY <1>3, <2>1 DEF Rows, NoRow
  <2>3. req[r].rows[c].review # "blocked"
    BY <1>2, <1>5 DEF IInv, RequestsSound, Unblocked
  <2> QED
    BY <2>2, <2>3 DEF ChangeRow
<1>6. reviews \subseteq Review /\ reviews \subseteq {"passed", "skipped", "awaited"}
  BY <1>5 DEF ReviewsOf, Review
<1> HIDE DEF s, reviews, doc
<1>7. row \in Resume /\ row.session = s /\ row.reviews = reviews
  BY <1>3, <1>4, <1>6 DEF Resume
<1>8. Store(r, row)
  BY <1>1 DEF s, reviews, doc
<1>9. row.session = req[r].session /\ row.reviews \subseteq {"passed", "skipped", "awaited"}
  BY <1>6, <1>7 DEF s
<1> HIDE DEF row
<1> QED
  BY <1>2, <1>7, <1>8, <1>9, StoreKeeps

LEMMA CutOffKeeps == ASSUME IInv, NEW r \in Req, CutOff(r) PROVE IInv'
<1>1. /\ req[r].at # "idle" /\ req' = [req EXCEPT ![r] = Idle]
      /\ lost' = IF req[r].at \in {"drafting", "reviewing", "rendering"}
                 THEN lost \cup {req[r].session} ELSE lost
      /\ UNCHANGED <<resumes, sessions, changes>>
  BY DEF CutOff
<1>2. req' \in [Req -> Request] /\ req'[r] = Idle /\ Others(r)
  <2>1. req \in [Req -> Request]
    BY DEF IInv, TypeOK
  <2> QED
    BY <1>1, <2>1, IdleIsRequest, Updated
<1>3. req[r].at \in {"drafting", "reviewing", "rendering"} => req[r].session \in 1..MaxSessions
  <2>1. req[r].at \in {"drafting", "reviewing", "rendering"} => req[r].session \in DOMAIN sessions
    BY DEF IInv, RequestsSound, Grounded
  <2> QED
    BY <2>1, TypesOf
<1>4. lost \subseteq lost' /\ lost' \subseteq 1..MaxSessions
  BY <1>1, <1>3 DEF IInv, TypeOK
<1>5. TypeOK'
  BY <1>1, <1>2, <1>4 DEF IInv, TypeOK
<1>6. Grows /\ SessionsSound' /\ ChangesSound'
  BY <1>1 DEF IInv, Grows, SessionsSound, ChangesSound, Existing
<1>7. Sound(r)'
  BY <1>2, EndIsSound
<1>8. UsedWasReviewed'
  <2>1. UsedWasReviewed /\ UNCHANGED resumes
    BY <1>1 DEF IInv
  <2>2. Existing' = Existing
    BY <1>1 DEF Existing
  <2>3. \A c \in Existing : req[r].at = "reviewing" /\ c \in req[r].asked => changes[c].session \in lost'
    BY <1>1 DEF IInv, RequestsSound, Grounded
  <2>4. \A c \in Existing' : changes'[c].review = "awaited" =>
               \/ req'[r].at = "reviewing" /\ c \in req'[r].asked
               \/ /\ c \in Existing /\ changes[c].review = "awaited"
                  /\ changes'[c].session = changes[c].session
                  /\ req[r].at = "reviewing" /\ c \in req[r].asked => changes[c].session \in lost'
    BY <1>1, <2>2, <2>3
  <2> QED
    BY <1>2, <1>4, <2>1, <2>4, UsedStays
<1>9. UnfinishedIsWorkedOn'
  BY <1>1, <1>2, <1>4, UnfinishedStays DEF IInv
<1> QED
  BY <1>2, <1>5, <1>6, <1>7, <1>8, <1>9, StepKeeps

-----------------------------------------------------------------------------
(* The theorems.                                                           *)

LEMMA InitSound == Init => IInv
<1> SUFFICES ASSUME Init PROVE IInv
  OBVIOUS
<1>1. /\ resumes = Library /\ sessions = << >> /\ changes = NoRows
      /\ req = [r \in Req |-> Idle] /\ lost = {}
  BY DEF Init
<1>2. Existing = {}
  BY <1>1 DEF Existing, NoRows
<1>3. DOMAIN sessions = {} /\ Len(sessions) = 0 /\ sessions \in Seq(Session)
  BY <1>1
<1>4. \A r \in Req : req[r] = Idle
  BY <1>1
<1>5. TypeOK
  <2>1. resumes \in Seq(Resume) /\ Len(resumes) \in 1..MaxResumes
    BY <1>1, InputsAssumption
  <2>2. Len(sessions) <= MaxSessions
    BY <1>3, BoundsAssumption
  <2>3. changes \in Rows /\ req \in [Req -> Request]
    BY <1>1, IdleIsRequest
  <2> QED
    BY <1>1, <1>3, <2>1, <2>2, <2>3 DEF TypeOK
<1>6. SessionsSound /\ ChangesSound
  BY <1>2, <1>3 DEF SessionsSound, ChangesSound
<1>7. RequestsSound
  BY <1>4 DEF RequestsSound, Grounded, Unblocked, IsMerge, Idle
<1>8. UsedWasReviewed
  BY <1>1, <1>2, InputsAssumption DEF UsedWasReviewed
<1>9. UnfinishedIsWorkedOn
  BY <1>3 DEF UnfinishedIsWorkedOn
<1> QED
  BY <1>5, <1>6, <1>7, <1>8, <1>9 DEF IInv

LEMMA NextKeeps == IInv /\ [Next]_vars => IInv'
<1> SUFFICES ASSUME IInv, [Next]_vars PROVE IInv'
  OBVIOUS
<1>1. CASE UNCHANGED vars
  <2>1. UNCHANGED <<resumes, sessions, changes, req, lost>>
    BY <1>1 DEF vars
  <2>2. TypeOK' /\ SessionsSound' /\ ChangesSound'
    BY <2>1 DEF IInv, TypeOK, SessionsSound, ChangesSound, Existing
  <2>3. UsedWasReviewed' /\ UnfinishedIsWorkedOn'
    BY <2>1 DEF IInv, UsedWasReviewed, UnfinishedIsWorkedOn, Existing
  <2>4. Grows
    BY <2>1 DEF Grows, Existing
  <2>5. \A r \in Req : Sound(r)'
    BY <2>1, <2>4, OthersStay
  <2> QED
    BY <2>2, <2>3, <2>5 DEF IInv, RequestsSound, Sound
<1>2. CASE Next
  <2>1. PICK r \in Req : Tailor(r) \/ Open(r) \/ Decide(r) \/ Finalize(r) \/ CutOff(r)
    BY <1>2 DEF Next
  <2>2. CASE Tailor(r)
    BY <2>2, StartKeeps, DraftedKeeps, DraftFailsKeeps, ReviewedKeeps, ReviewFailsKeeps DEF Tailor
  <2>3. CASE Open(r)
    BY <2>3, OpenReadKeeps, OpenCommitKeeps DEF Open
  <2>4. CASE Decide(r)
    BY <2>4, DecideReadKeeps, DecideCommitKeeps, ReviseReadKeeps, ReviseCommitKeeps DEF Decide
  <2>5. CASE Finalize(r)
    BY <2>5, FinalizeReadKeeps, FinalizeUnchangedKeeps, FinalizeMergeKeeps, RenderedKeeps,
       VerificationFailsKeeps DEF Finalize
  <2> QED
    BY <2>1, <2>2, <2>3, <2>4, <2>5, CutOffKeeps
<1> QED
  BY <1>1, <1>2

\* The inductive invariant holds in every behaviour.
THEOREM Invariance == Spec => []IInv
<1>1. Init => IInv
  BY InitSound
<1>2. IInv /\ [Next]_vars => IInv'
  BY NextKeeps
<1> QED
  BY <1>1, <1>2, PTL DEF Spec

\* The state keeps its types: every document a request or a resume holds is one.
THEOREM TypeCorrect == Spec => []TypeOK
<1>1. IInv => TypeOK
  BY DEF IInv
<1> QED
  BY <1>1, Invariance, PTL

\* A change that goes into a resume was let through by its review, apart from the
\* revisions without a verdict and the proposals whose review is cut off or still runs.
THEOREM OnlyReviewedIsUsed == Spec => []UsedWasReviewed
<1>1. IInv => UsedWasReviewed
  BY DEF IInv
<1> QED
  BY <1>1, Invariance, PTL

\* A session is left rendering only by a finalisation that was cut off, and it is
\* verified only with a final resume, which was made for it.
THEOREM NoneIsLeftRendering == Spec => []UnfinishedIsWorkedOn
<1>1. IInv => UnfinishedIsWorkedOn
  BY DEF IInv
<1> QED
  BY <1>1, Invariance, PTL

\* A merge of any accepted changes, in the order of their ids, leaves the list with one
\* item more for each insertion and one less for each removal, and with nothing in it but
\* the base's items and accepted texts; without insertions and removals in the list it puts
\* each accepted text at its own target and keeps the base's text elsewhere, however many
\* changes there are (tailoring_merge.py:110-147).
THEOREM MergeHitsItsTargets == Spec => []MergeIsPointwise
<1>1. IInv => MergeIsPointwise
  <2> SUFFICES ASSUME IInv, NEW r \in Req, req[r].at = "rendering"
               PROVE  LET rows == req[r].rows
                          accepted == Decided(rows, "accepted")
                          base == Source(req[r].session)
                          doc == req[r].doc
                          At(t) == {c \in accepted : rows[c].target = t}
                          Text(t, old) ==
                              IF At(t) = {} THEN {old}
                              ELSE {IF rows[c].kind = "remove" THEN Empty ELSE c : c \in At(t)}
                      IN  /\ doc.summary \in Text(Summary, base.summary)
                          /\ Len(doc.skills) = Len(base.skills)
                                                 + Cardinality(OfList(rows, accepted, "add"))
                                                 - Cardinality(OfList(rows, accepted, "remove"))
                          /\ Range(doc.skills) \subseteq Texts(rows, accepted, base)
                          /\ Textual(rows, accepted) =>
                               \A k \in DOMAIN base.skills :
                                   /\ Cardinality(At(k - 1)) <= 1
                                   /\ doc.skills[k] \in Text(k - 1, base.skills[k])
    BY DEF MergeIsPointwise, OfList, Texts, Textual
  <2> DEFINE rows == req[r].rows
             accepted == Decided(rows, "accepted")
             base == Source(req[r].session)
             merged == Merge(base, rows, accepted)
             At(t) == {c \in accepted : rows[c].target = t}
             Text(t, old) == IF At(t) = {} THEN {old}
                             ELSE {IF rows[c].kind = "remove" THEN Empty ELSE c : c \in At(t)}
  <2>1. merged.ok /\ req[r].doc = merged.doc
    BY DEF IInv, RequestsSound, IsMerge
  <2>2. base \in Doc /\ rows \in Rows
    <3>1. req[r].session \in DOMAIN sessions
      BY DEF IInv, RequestsSound, Grounded
    <3>2. base \in Doc
      BY <3>1, SourceIsDoc
    <3> QED
      BY <3>2 DEF IInv, TypeOK, Request
  <2>3. Counted(rows, accepted, base, merged)
        /\ (Textual(rows, accepted) => Placed(rows, accepted, base, merged))
    <3> HIDE DEF base, rows
    <3> QED
      BY <2>1, <2>2, MergeMerges DEF Merged
  <2> HIDE DEF merged, rows, base
  <2>4. \A t, old, x : Shows(rows, accepted, t, old, x) => x \in Text(t, old)
    BY DEF Shows
  <2> HIDE DEF accepted
  <2>5. DOMAIN base.skills = 1..Len(base.skills) /\ Len(base.skills) \in Nat
    BY <2>2 DEF Doc
  <2>6. ASSUME Textual(rows, accepted), NEW k \in DOMAIN base.skills
        PROVE  Cardinality(At(k - 1)) <= 1
    <3>1. k - 1 # Summary
      BY <2>5 DEF Summary
    <3>2. \A c, d \in At(k - 1) : c = d
      BY <2>3, <2>6, <3>1 DEF Placed
    <3>3. At(k - 1) = {} \/ \E c : At(k - 1) = {c}
      BY <3>2
    <3> HIDE DEF At
    <3>4. Cardinality(At(k - 1)) = 0 \/ Cardinality(At(k - 1)) = 1
      BY <3>3, FS_EmptySet, FS_Singleton, Zenon
    <3> QED
      BY <3>4
  <2>7. /\ req[r].doc.summary \in Text(Summary, base.summary)
        /\ Len(req[r].doc.skills) = Len(base.skills)
                                       + Cardinality(OfList(rows, accepted, "add"))
                                       - Cardinality(OfList(rows, accepted, "remove"))
    BY <2>1, <2>3, <2>4 DEF Counted
  <2>8. ASSUME Textual(rows, accepted), NEW k \in DOMAIN base.skills
        PROVE  req[r].doc.skills[k] \in Text(k - 1, base.skills[k])
    <3>1. Shows(rows, accepted, k - 1, base.skills[k], merged.doc.skills[k])
      BY <2>3, <2>5, <2>8 DEF Placed
    <3> HIDE DEF Text
    <3> QED
      BY <2>1, <2>4, <3>1
  <2>9. Range(req[r].doc.skills) \subseteq Texts(rows, accepted, base)
    <3>1. req[r].doc.skills \in Seq(Texts(rows, accepted, base))
      BY <2>1, <2>3 DEF Counted
    <3> QED
      BY <3>1, RangeEquality, ElementOfSeq
  <2> QED
    BY <2>6, <2>7, <2>8, <2>9 DEF rows, base, accepted
<1> QED
  BY <1>1, Invariance, PTL

=============================================================================
