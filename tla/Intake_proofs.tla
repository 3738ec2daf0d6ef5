---------------------------- MODULE Intake_proofs ----------------------------
(***************************************************************************)
(* The safety of the intake of postings for every number of requests,       *)
(* workers, rows, jobs and deaths and for every posting; and what resolving, *)
(* merging and overriding routes does to the preference.                   *)
(***************************************************************************)
EXTENDS Intake, SequenceTheorems, WellFoundedInduction, TLAPS

(* Recursion over the natural numbers.                                     *)

LEMMA Least ==
    ASSUME NEW T \in SUBSET Nat, T # {}
    PROVE  \E m \in T : \A k \in Nat : k < m => k \notin T
<1>1. PICK m \in T : \A k \in T : ~(<<k, m>> \in OpToRel(<, Nat))
  BY NatLessThanWellFounded, WFMin
<1>2. \A k \in T : ~(k < m)
  BY <1>1 DEF OpToRel
<1> QED
  BY <1>2

\* A function g follows the steps from a up to n.
Follows(g, n, a, step) ==
    g[0] = a /\ \A i \in 1..n : g[i] = step[g[i - 1]][i]

\* A function g on the natural numbers follows the steps from a.
Recurs(g, a, step) == \A n \in Nat : g[n] = IF n = 0 THEN a ELSE step[g[n - 1]][n]

\* The steps from a define a function on the natural numbers.
LEMMA Recursion ==
    ASSUME NEW S, NEW a \in S, NEW step \in [S -> [Nat -> S]]
    PROVE  \E f \in [Nat -> S] : Recurs(f, a, step)
<1>1. \A n \in Nat : \E g \in [0..n -> S] : Follows(g, n, a, step)
  <2> DEFINE T == {n \in Nat : ~\E g \in [0..n -> S] : Follows(g, n, a, step)}
  <2> SUFFICES ASSUME T # {} PROVE FALSE
    OBVIOUS
  <2>1. PICK m \in T : \A k \in Nat : k < m => k \notin T
    BY Least
  <2>2. CASE m = 0
    <3> DEFINE g == [i \in 0..0 |-> a]
    <3>1. g \in [0..0 -> S] /\ Follows(g, 0, a, step)
      BY DEF Follows
    <3> QED
      BY <2>1, <2>2, <3>1
  <2>3. CASE m # 0
    <3>1. m \in Nat /\ m - 1 \in Nat /\ m - 1 < m
      BY <2>3
    <3>2. PICK g \in [0..(m - 1) -> S] : Follows(g, m - 1, a, step)
      BY <2>1, <3>1
    <3> DEFINE h == [i \in 0..m |-> IF i = m THEN step[g[m - 1]][m] ELSE g[i]]
    <3>3. h \in [0..m -> S]
      <4>1. g[m - 1] \in S /\ step[g[m - 1]][m] \in S
        BY <3>1
      <4>2. \A i \in 0..m : i # m => g[i] \in S
        BY <3>1
      <4> QED
        BY <4>1, <4>2
    <3>4. \A i \in 0..(m - 1) : h[i] = g[i]
      BY <3>1
    <3>5. Follows(h, m, a, step)
      <4>1. h[0] = a
        BY <2>3, <3>1, <3>2, <3>4 DEF Follows
      <4>2. ASSUME NEW i \in 1..m PROVE h[i] = step[h[i - 1]][i]
        <5>1. i - 1 \in 0..(m - 1) /\ h[i - 1] = g[i - 1]
          BY <3>1, <3>4
        <5>2. CASE i = m
          BY <3>1, <5>1, <5>2
        <5>3. CASE i # m
          BY <3>1, <3>2, <3>4, <5>1, <5>3 DEF Follows
        <5> QED
          BY <5>2, <5>3
      <4> HIDE DEF h
      <4> QED
        BY <4>1, <4>2 DEF Follows
    <3> QED
      BY <2>1, <3>3, <3>5
  <2> QED
    BY <2>2, <2>3
<1>2. ASSUME NEW n \in Nat, NEW m \in Nat, n <= m, NEW g, NEW h,
             Follows(g, n, a, step), Follows(h, m, a, step)
      PROVE  g[n] = h[n]
  <2> DEFINE T == {i \in 0..n : g[i] # h[i]}
  <2>0. T \subseteq Nat /\ n \in 0..n
    OBVIOUS
  <2> SUFFICES ASSUME T # {} PROVE FALSE
    BY <2>0
  <2>1. PICK i \in T : \A k \in Nat : k < i => k \notin T
    <3> HIDE DEF T
    <3> QED
      BY <2>0, Least
  <2>2. CASE i = 0
    BY <1>2, <2>2 DEF Follows
  <2>3. CASE i # 0
    <3>1. i \in 1..n /\ i \in 1..m /\ i - 1 \in 0..n /\ i - 1 \in Nat /\ i - 1 < i
      BY <1>2, <2>3
    <3>2. g[i - 1] = h[i - 1]
      BY <2>1, <3>1
    <3>3. g[i] = h[i]
      BY <1>2, <3>1, <3>2 DEF Follows
    <3> QED
      BY <2>1, <3>3
  <2> QED
    BY <2>2, <2>3
<1> DEFINE up(n) == CHOOSE g \in [0..n -> S] : Follows(g, n, a, step)
           f == [n \in Nat |-> up(n)[n]]
<1>3. \A n \in Nat : up(n) \in [0..n -> S] /\ Follows(up(n), n, a, step)
  BY <1>1
<1> HIDE DEF up
<1>4. f \in [Nat -> S]
  BY <1>3
<1>5. ASSUME NEW n \in Nat PROVE f[n] = IF n = 0 THEN a ELSE step[f[n - 1]][n]
  <2>1. CASE n = 0
    BY <1>3, <2>1 DEF Follows
  <2>2. CASE n # 0
    <3>1. n - 1 \in Nat /\ n - 1 <= n /\ n \in 1..n
      BY <2>2
    <3>2. up(n)[n] = step[up(n)[n - 1]][n]
      BY <1>3, <3>1 DEF Follows
    <3>3. Follows(up(n - 1), n - 1, a, step) /\ Follows(up(n), n, a, step)
      BY <1>3, <3>1
    <3>4. up(n - 1)[n - 1] = up(n)[n - 1]
      BY <1>2, <3>1, <3>3
    <3> QED
      BY <2>2, <3>1, <3>2, <3>4
  <2> QED
    BY <2>1, <2>2
<1> QED
  BY <1>4, <1>5 DEF Recurs

-----------------------------------------------------------------------------
(* The routes the resolver finds.                                          *)

\* A resolved route.
Route == [type : RouteType, at : Address, confidence : 0..100, human : BOOLEAN,
          preferred : BOOLEAN]

AtMostOne(rs) == \A i, k \in DOMAIN rs : rs[i].preferred /\ rs[k].preferred => i = k

LEMMA SingletonIsRoutes ==
    ASSUME NEW r \in Route
    PROVE  << r >> \in Seq(Route) /\ << r >> # << >>
  OBVIOUS

LEMMA ConcatRoutes ==
    ASSUME NEW r \in Seq(Route), NEW s \in Seq(Route)
    PROVE  r \o s \in Seq(Route) /\ (r # << >> => r \o s # << >>)
<1>1. r \o s \in Seq(Route) /\ Len(r \o s) = Len(r) + Len(s) /\ Len(r) \in Nat /\ Len(s) \in Nat
  BY ConcatProperties, LenProperties
<1>2. r # << >> => Len(r) > 0
  BY <1>1, EmptySeq
<1>3. r \o s = << >> => Len(r \o s) = 0
  OBVIOUS
<1> QED
  BY <1>1, <1>2, <1>3

LEMMA AddressOfSite ==
    ASSUME NEW url \in DOMAIN Site
    PROVE  /\ url \in Address /\ url # Nowhere
           /\ Site[url] \in {"WORKABLE", "BAYT", "OTHER"}
  BY DEF Site, Address, Nowhere

LEMMA DetectedIsRoutes ==
    ASSUME NEW url \in DOMAIN Site \cup {Nowhere}
    PROVE  DetectAts(url) \in Seq(Route)
<1>1. CASE url = Nowhere \/ Site[url] = "OTHER"
  BY <1>1 DEF DetectAts
<1>2. CASE ~(url = Nowhere \/ Site[url] = "OTHER")
  <2>1. url \in Address /\ Site[url] \in {"WORKABLE", "BAYT"}
    BY <1>2, AddressOfSite
  <2> DEFINE r == Resolved(Site[url], url, 100, Site[url] = "BAYT", Site[url] # "BAYT")
  <2>2. r \in Route
    BY <2>1 DEF Resolved, Route, RouteType
  <2>3. DetectAts(url) = << r >>
    BY <1>2 DEF DetectAts
  <2> HIDE DEF r
  <2> QED
    BY <2>2, <2>3
<1> QED
  BY <1>1, <1>2

LEMMA FoundIsRoutes ==
    ASSUME NEW p \in Posting
    PROVE  Found(p) \in Seq(Route) /\ Found(p) # << >>
<1>1. /\ p.apply \in DOMAIN Site \cup {Nowhere} /\ p.page \in DOMAIN Site \cup {Nowhere}
      /\ p.email \in BOOLEAN /\ p.model \in {"none", "unsure", "sure"}
  BY DEF Posting
<1>2. ExplicitUrl(p) \in Seq(Route)
  <2>1. CASE p.apply = Nowhere
    BY <2>1 DEF ExplicitUrl
  <2>2. CASE p.apply # Nowhere /\ DetectAts(p.apply) # << >>
    BY <1>1, <2>2, DetectedIsRoutes DEF ExplicitUrl
  <2>3. CASE p.apply # Nowhere /\ DetectAts(p.apply) = << >>
    <3>1. Resolved("COMPANY_WEBSITE", p.apply, 90, FALSE, TRUE) \in Route
      BY <1>1, <2>3, AddressOfSite DEF Resolved, Route, RouteType
    <3>2. ExplicitUrl(p) = << Resolved("COMPANY_WEBSITE", p.apply, 90, FALSE, TRUE) >>
      BY <2>3 DEF ExplicitUrl
    <3> QED
      BY <3>1, <3>2, SingletonIsRoutes
  <2> QED
    BY <2>1, <2>2, <2>3
<1>3. EmailRoute(p) \in Seq(Route)
  <2>1. Resolved("EMAIL", "mail1", 95, FALSE, FALSE) \in Route
    BY DEF Resolved, Route, RouteType, Address
  <2>2. CASE p.email
    BY <2>1, <2>2, SingletonIsRoutes DEF EmailRoute
  <2>3. CASE ~p.email
    BY <2>3 DEF EmailRoute
  <2> QED
    BY <1>1, <2>2, <2>3
<1>4. ModelRoute(p) \in Seq(Route)
  <2>1. /\ Resolved("LINKEDIN", Nowhere, 50, TRUE, FALSE) \in Route
        /\ Resolved("LINKEDIN", Nowhere, 80, FALSE, FALSE) \in Route
    BY DEF Resolved, Route, RouteType, Address
  <2>2. CASE p.model = "none"
    BY <2>2 DEF ModelRoute
  <2>3. CASE p.model = "unsure"
    <3>1. ModelRoute(p) = << Resolved("LINKEDIN", Nowhere, 50, TRUE, FALSE) >>
      BY <2>3 DEF ModelRoute
    <3> QED
      BY <2>1, <3>1, SingletonIsRoutes
  <2>4. CASE p.model = "sure"
    <3>1. ModelRoute(p) = << Resolved("LINKEDIN", Nowhere, 80, FALSE, FALSE) >>
      BY <2>4 DEF ModelRoute
    <3> QED
      BY <2>1, <3>1, SingletonIsRoutes
  <2> QED
    BY <1>1, <2>2, <2>3, <2>4
<1> DEFINE explicit == ExplicitUrl(p) \o EmailRoute(p)
           more == IF HasAts(explicit) THEN << >> ELSE DetectAts(p.page)
           direct == explicit \o more
<1>5. explicit \in Seq(Route)
  BY <1>2, <1>3, ConcatRoutes
<1>6. more \in Seq(Route)
  <2> HIDE DEF explicit
  <2> QED
    BY <1>1, DetectedIsRoutes
<1> HIDE DEF explicit, more
<1>7. direct \in Seq(Route)
  BY <1>5, <1>6, ConcatRoutes
<1>8. Resolved("MANUAL", Nowhere, 0, TRUE, TRUE) \in Route
  BY DEF Resolved, Route, RouteType, Address
<1>9. << Resolved("MANUAL", Nowhere, 0, TRUE, TRUE) >> \in Seq(Route) \ {<< >>}
  BY <1>8, SingletonIsRoutes
<1>10. Found(p) \in {direct, ModelRoute(p), << Resolved("MANUAL", Nowhere, 0, TRUE, TRUE) >>} \ {<< >>}
  <2>1. Found(p) = CASE direct # << >> -> direct
                     [] direct = << >> /\ ModelRoute(p) # << >> -> ModelRoute(p)
                     [] OTHER -> << Resolved("MANUAL", Nowhere, 0, TRUE, TRUE) >>
    BY DEF Found, explicit, more
  <2> HIDE DEF direct
  <2> QED
    BY <1>9, <2>1
<1> HIDE DEF direct
<1> QED
  BY <1>4, <1>7, <1>9, <1>10

\* One of several routes is the best.
LEMMA BestExists ==
    ASSUME NEW rs \in Seq(Route), rs # << >>
    PROVE  Best(rs) \in DOMAIN rs
<1> DEFINE value(i) == 101 * Rank(rs[i].type) + rs[i].confidence
<1>1. PICK n \in Nat \ {0} : DOMAIN rs = 1..n /\ n = Len(rs)
  BY EmptySeq, LenProperties
<1>2. \A i \in 1..n : /\ rs[i].confidence \in Nat /\ rs[i].confidence <= 100
                      /\ Rank(rs[i].type) \in Nat /\ Rank(rs[i].type) <= 10
  <2> TAKE i \in 1..n
  <2>1. rs[i] \in Route
    BY <1>1, ElementOfSeq
  <2>2. PICK x \in 0..100 : x = rs[i].confidence
    BY <2>1 DEF Route
  <2>3. PICK y \in {0, 5, 8, 10} : y = Rank(rs[i].type)
    BY DEF Rank
  <2>4. x \in Nat /\ x <= 100 /\ y \in Nat /\ y <= 10
    OBVIOUS
  <2> QED
    BY <2>2, <2>3, <2>4
<1>3. \A x, y \in Nat : x <= 10 /\ y <= 100 => 101 * x + y \in Nat /\ 101 * x + y <= 2000
  OBVIOUS
<1>4. \A i \in 1..n : value(i) \in Nat /\ value(i) <= 2000
  <2> TAKE i \in 1..n
  <2>1. PICK x \in Nat, y \in Nat : /\ x = Rank(rs[i].type) /\ x <= 10
                                    /\ y = rs[i].confidence /\ y <= 100
    BY <1>2
  <2>2. 101 * x + y \in Nat /\ 101 * x + y <= 2000
    BY <1>3, <2>1
  <2> QED
    BY <2>1, <2>2
<1>5. PICK i \in 1..n : \A k \in 1..n : value(k) <= value(i)
  <2> HIDE DEF value
  <2> DEFINE T == {m \in Nat : \A k \in 1..n : value(k) <= m}
  <2>1. T \subseteq Nat /\ T # {}
    <3>1. \A k \in 1..n : value(k) <= 2000
      BY <1>4
    <3>2. PICK top \in Nat : top = 2000
      OBVIOUS
    <3>3. \A k \in 1..n : value(k) <= top
      BY <3>1, <3>2
    <3>4. top \in T
      BY <3>3, Zenon
    <3> QED
      BY <3>4
  <2>2. PICK m \in T : \A k \in Nat : k < m => k \notin T
    <3> HIDE DEF T
    <3> QED
      BY <2>1, Least
  <2>3. m \in Nat /\ \A k \in 1..n : value(k) \in Nat /\ value(k) <= m
    BY <1>4
  <2> SUFFICES ASSUME \A i \in 1..n : value(i) # m PROVE FALSE
    BY <2>3
  <2>4. \A k \in 1..n : value(k) \in Nat /\ value(k) < m
    <3> TAKE k \in 1..n
    <3>1. value(k) \in Nat /\ value(k) <= m /\ value(k) # m
      BY <2>3
    <3> QED
      BY <2>3, <3>1
  <2>5. m - 1 \in Nat /\ m - 1 < m
    <3>1. 1 \in 1..n
      OBVIOUS
    <3>2. value(1) \in Nat /\ value(1) < m
      BY <2>4, <3>1
    <3> QED
      BY <2>3, <3>2
  <2>6. \A k \in 1..n : value(k) <= m - 1
    <3> TAKE k \in 1..n
    <3>1. value(k) \in Nat /\ value(k) < m
      BY <2>4
    <3> QED
      BY <2>3, <3>1
  <2>7. m - 1 \in T
    BY <2>5, <2>6
  <2> HIDE DEF T
  <2> QED
    BY <2>2, <2>5, <2>7
<1>6. ASSUME NEW k \in 1..n, Better(rs[k], rs[i]) PROVE FALSE
  <2>1. PICK x \in Nat, y \in Nat, u \in Nat, v \in Nat :
          /\ x = Rank(rs[k].type) /\ y = rs[k].confidence /\ y <= 100
          /\ u = Rank(rs[i].type) /\ v = rs[i].confidence /\ v <= 100
    BY <1>2
  <2>2. x > u \/ (x = u /\ y > v)
    BY <1>6, <2>1 DEF Better
  <2>3. ~(101 * x + y <= 101 * u + v)
    <3>1. \A a, b, c, d \in Nat :
            b <= 100 /\ d <= 100 /\ (a > c \/ (a = c /\ b > d))
              => ~(101 * a + b <= 101 * c + d)
      OBVIOUS
    <3>2. y <= 100 /\ v <= 100
      BY <2>1
    <3> QED
      BY <2>2, <3>1, <3>2
  <2>4. value(k) = 101 * x + y /\ value(i) = 101 * u + v
    BY <2>1
  <2> HIDE DEF value
  <2> QED
    BY <1>5, <2>3, <2>4
<1> QED
  BY <1>1, <1>5, <1>6 DEF Best

\* Of several ranked routes only the best is preferred.
LEMMA RankedIsRoutes ==
    ASSUME NEW rs \in Seq(Route), rs # << >>
    PROVE  Ranked(rs) \in Seq(Route) /\ Ranked(rs) # << >> /\ AtMostOne(Ranked(rs))
<1>1. CASE Len(rs) = 1
  <2>1. DOMAIN rs = {1}
    BY <1>1, LenProperties
  <2> QED
    BY <1>1, <2>1 DEF Ranked, AtMostOne
<1>2. CASE Len(rs) # 1
  <2> DEFINE best == Best(rs)
             Other(i) == rs[IF i < best THEN i ELSE i + 1]
             head == [rs[best] EXCEPT !.preferred = TRUE]
             rest(i) == [Other(i) EXCEPT !.preferred = FALSE]
             tail == [i \in 1..(Len(rs) - 1) |-> rest(i)]
  <2>1. PICK n \in Nat : n = Len(rs) /\ n > 1 /\ DOMAIN rs = 1..n
    <3> HIDE DEF best, Other, head, rest, tail
    <3>1. Len(rs) \in Nat /\ DOMAIN rs = 1..Len(rs)
      BY LenProperties
    <3>2. Len(rs) # 0
      BY EmptySeq
    <3>3. Len(rs) > 1
      BY <1>2, <3>1, <3>2
    <3> QED
      BY <3>1, <3>3
  <2>2. best \in 1..n
    BY <2>1, BestExists
  <2> HIDE DEF best
  <2>3. ASSUME NEW i \in 1..(n - 1)
        PROVE  rest(i) \in Route /\ ~rest(i).preferred
    <3>1. (IF i < best THEN i ELSE i + 1) \in 1..n
      BY <2>1, <2>2
    <3>2. Other(i) \in Route
      BY <2>1, <3>1, ElementOfSeq
    <3> HIDE DEF Other
    <3> QED
      BY <3>2 DEF Route
  <2>4. head \in Route
    <3>1. rs[best] \in Route
      BY <2>1, <2>2, ElementOfSeq
    <3> QED
      BY <3>1 DEF Route
  <2> HIDE DEF Other, head, rest
  <2>5. Ranked(rs) = << head >> \o tail
    BY <1>2 DEF Ranked, best, Other, head, rest
  <2>6. n - 1 \in Nat /\ tail = [i \in 1..(n - 1) |-> rest(i)]
    BY <2>1
  <2>7. /\ tail \in Seq(Route) /\ Len(tail) = n - 1
        /\ \A i \in 1..(n - 1) : tail[i] \in Route /\ ~tail[i].preferred
    BY <2>3, <2>6
  <2> HIDE DEF tail
  <2>8. /\ << head >> \in Seq(Route) /\ Len(<< head >>) = 1 /\ << head >>[1] = head
    BY <2>4
  <2> DEFINE one == << head >>
  <2>9. one \in Seq(Route) /\ Len(one) = 1
    BY <2>8
  <2> HIDE DEF one
  <2>10. /\ one \o tail \in Seq(Route) /\ Len(one \o tail) = 1 + (n - 1)
         /\ \A i \in 1..(1 + (n - 1)) :
              (one \o tail)[i] = IF i <= 1 THEN one[i] ELSE tail[i - 1]
    <3>1. Len(one) = 1 /\ Len(tail) = n - 1
      BY <2>7, <2>9
    <3>2. /\ one \o tail \in Seq(Route) /\ Len(one \o tail) = Len(one) + Len(tail)
          /\ \A i \in 1..(Len(one) + Len(tail)) :
               (one \o tail)[i] = IF i <= Len(one) THEN one[i] ELSE tail[i - Len(one)]
      BY <2>7, <2>9, ConcatProperties
    <3> QED
      BY <3>1, <3>2
  <2> DEFINE all == one \o tail
  <2>11. Ranked(rs) = all
    BY <2>5 DEF one
  <2>12. /\ all \in Seq(Route) /\ Len(all) = n /\ DOMAIN all = 1..n
         /\ \A i \in 1..n : i # 1 => all[i] = tail[i - 1]
    <3>1. 1 + (n - 1) = n
      OBVIOUS
    <3>2. all \in Seq(Route) /\ Len(all) = n /\ DOMAIN all = 1..n
      BY <2>10, <3>1, LenProperties
    <3> QED
      BY <2>10, <3>1, <3>2
  <2> HIDE DEF all
  <2>13. \A i \in 1..n : all[i].preferred => i = 1
    <3> SUFFICES ASSUME NEW i \in 1..n, i # 1 PROVE ~all[i].preferred
      OBVIOUS
    <3>1. i - 1 \in 1..(n - 1)
      OBVIOUS
    <3> QED
      BY <2>7, <2>12, <3>1
  <2>14. all # << >>
    BY <2>1, <2>12, EmptySeq
  <2> QED
    BY <2>11, <2>12, <2>13, <2>14 DEF AtMostOne
<1> QED
  BY <1>1, <1>2

\* Of the routes of a posting at most one is preferred.
LEMMA ResolvedIsRoutes ==
    ASSUME NEW p \in Posting
    PROVE  Resolve(p) \in Seq(Route) /\ AtMostOne(Resolve(p))
<1> DEFINE routes_ == Ranked(Found(p))
           first == [routes_[1] EXCEPT !.human = @ \/ routes_[1].confidence < 60]
<1>1. routes_ \in Seq(Route) /\ routes_ # << >> /\ AtMostOne(routes_)
  BY FoundIsRoutes, RankedIsRoutes
<1>2. Resolve(p) = [routes_ EXCEPT ![1].human = @ \/ routes_[1].confidence < 60]
  BY DEF Resolve
<1> HIDE DEF routes_
<1>3. 1 \in DOMAIN routes_ /\ 1 \in 1..Len(routes_)
  BY <1>1, EmptySeq, LenProperties
<1>4. routes_[1] \in Route
  BY <1>1, <1>3, ElementOfSeq
<1>5. first \in Route /\ first.preferred = routes_[1].preferred
  BY <1>4 DEF Route
<1>6. Resolve(p) = [routes_ EXCEPT ![1] = first]
  BY <1>2
<1> HIDE DEF first
<1>7. Resolve(p) \in Seq(Route)
  BY <1>1, <1>3, <1>5, <1>6, ExceptSeq
<1>8. /\ DOMAIN Resolve(p) = DOMAIN routes_
      /\ \A i \in DOMAIN routes_ : Resolve(p)[i].preferred = routes_[i].preferred
  BY <1>3, <1>5, <1>6
<1> QED
  BY <1>1, <1>7, <1>8 DEF AtMostOne

-----------------------------------------------------------------------------
(* The rows of a job's routes.                                             *)

\* A row keeps its address, and a row of the user's is left alone.
Kept(r, s) == s.type = r.type /\ s.at = r.at /\ s.overridden = r.overridden /\ (r.overridden => s = r)

\* Rows keep what they are about, and no new one is the user's.
Extends(old, new) ==
    /\ Len(old) <= Len(new)
    /\ \A i \in DOMAIN old : Kept(old[i], new[i])
    /\ \A i \in DOMAIN new \ DOMAIN old : ~new[i].overridden

\* No row is preferred that has not been so.
Shrinks(old, new) == \A i \in DOMAIN new : new[i].preferred => i \in DOMAIN old /\ old[i].preferred

NonePreferred(rs) == \A i \in DOMAIN rs : ~rs[i].preferred

\* What PreferredIsClear says of the routes of a row.
ClearRoutes(rs) ==
    \A i, k \in DOMAIN rs :
        rs[i].preferred /\ rs[k].preferred =>
            \/ i = k
            \/ rs[i].type = rs[k].type /\ rs[i].overridden /\ rs[k].overridden

LEMMA ExtendsAgain ==
    ASSUME NEW r \in Seq(RouteRow), NEW s \in Seq(RouteRow), NEW t \in Seq(RouteRow),
           Extends(r, s), Extends(s, t)
    PROVE  Extends(r, t)
<1>1. PICK l \in Nat, m \in Nat, n \in Nat :
        /\ l = Len(r) /\ m = Len(s) /\ n = Len(t)
        /\ DOMAIN r = 1..l /\ DOMAIN s = 1..m /\ DOMAIN t = 1..n
  BY LenProperties
<1>2. l <= m /\ m <= n
  BY <1>1 DEF Extends
<1>3. l <= n /\ 1..l \subseteq 1..m /\ 1..m \subseteq 1..n
  BY <1>2
<1>4. \A i \in 1..l : Kept(r[i], t[i])
  <2> TAKE i \in 1..l
  <2>1. Kept(r[i], s[i]) /\ Kept(s[i], t[i])
    BY <1>1, <1>3 DEF Extends
  <2> QED
    BY <2>1 DEF Kept
<1>5. \A i \in 1..n \ 1..l : ~t[i].overridden
  <2> TAKE i \in 1..n \ 1..l
  <2>1. CASE i \in 1..m
    <3>1. ~s[i].overridden /\ Kept(s[i], t[i])
      BY <1>1, <2>1 DEF Extends
    <3> QED
      BY <3>1 DEF Kept
  <2>2. CASE i \notin 1..m
    BY <1>1, <2>2 DEF Extends
  <2> QED
    BY <2>1, <2>2
<1> QED
  BY <1>1, <1>3, <1>4, <1>5 DEF Extends

\* Merging a route keeps the rows; only one that is preferred makes a row preferred.
LEMMA MergeOneKeeps ==
    ASSUME NEW rs \in Seq(RouteRow), NEW r \in Route
    PROVE  /\ MergeOne(rs, r) \in Seq(RouteRow)
           /\ Extends(rs, MergeOne(rs, r))
           /\ ~r.preferred => Shrinks(rs, MergeOne(rs, r))
           /\ NonePreferred(rs) => AtMostOne(MergeOne(rs, r))
<1> DEFINE same == {i \in DOMAIN rs : rs[i].type = r.type /\ rs[i].at = r.at}
           first == CHOOSE i \in same : \A j \in same : i <= j
<1>1. PICK n \in Nat : n = Len(rs) /\ DOMAIN rs = 1..n
  BY LenProperties
<1>2. \A i \in 1..n : rs[i] \in RouteRow
  BY <1>1, ElementOfSeq
<1>3. CASE same = {}
  <2> DEFINE new == Append(rs, Stored(r))
  <2>1. MergeOne(rs, r) = new
    BY <1>3 DEF MergeOne
  <2>2. Stored(r) \in RouteRow /\ Stored(r).preferred = r.preferred /\ ~Stored(r).overridden
    BY DEF Stored, Route, RouteRow
  <2>3. /\ new \in Seq(RouteRow) /\ Len(new) = n + 1 /\ DOMAIN new = 1..(n + 1)
        /\ \A i \in 1..n : new[i] = rs[i]
        /\ new[n + 1] = Stored(r)
    BY <1>1, <2>2, AppendProperties, LenProperties
  <2> HIDE DEF new
  <2>4. \A i \in 1..(n + 1) : i \in 1..n \/ i = n + 1
    OBVIOUS
  <2>5. n <= n + 1 /\ 1..(n + 1) \ 1..n = {n + 1}
    OBVIOUS
  <2>6. Extends(rs, new)
    BY <1>1, <2>2, <2>3, <2>5 DEF Extends, Kept
  <2>7. ~r.preferred => Shrinks(rs, new)
    BY <1>1, <2>2, <2>3, <2>4 DEF Shrinks
  <2>8. NonePreferred(rs) => AtMostOne(new)
    BY <1>1, <2>3, <2>4 DEF NonePreferred, AtMostOne
  <2> QED
    BY <2>1, <2>3, <2>6, <2>7, <2>8
<1>4. CASE same # {}
  <2>1. PICK m \in same : \A k \in Nat : k < m => k \notin same
    <3>1. same \subseteq Nat
      BY <1>1
    <3> HIDE DEF same
    <3> QED
      BY <1>4, <3>1, Least
  <2>2. \A j \in same : m <= j
    <3>1. same \subseteq 1..n /\ m \in 1..n
      BY <1>1
    <3> HIDE DEF same
    <3> TAKE j \in same
    <3>2. j \in 1..n /\ ~(j < m)
      BY <2>1, <3>1
    <3> QED
      BY <3>1, <3>2
  <2>3. first \in same
    <3> HIDE DEF same
    <3> QED
      BY <2>2
  <2>4. first \in 1..n
    BY <1>1, <2>3
  <2>5. MergeOne(rs, r) = IF rs[first].overridden THEN rs
                          ELSE [rs EXCEPT ![first].preferred = r.preferred]
    <3>1. MergeOne(rs, r) = CASE same = {} -> Append(rs, Stored(r))
                              [] same # {} /\ rs[first].overridden -> rs
                              [] OTHER -> [rs EXCEPT ![first].preferred = r.preferred]
      BY DEF MergeOne
    <3> HIDE DEF same, first
    <3> QED
      BY <1>4, <3>1
  <2> HIDE DEF first, same
  <2>6. CASE rs[first].overridden
    <3>1. Extends(rs, rs) /\ Shrinks(rs, rs)
      BY <1>1 DEF Extends, Kept, Shrinks
    <3>2. NonePreferred(rs) => AtMostOne(rs)
      BY DEF NonePreferred, AtMostOne
    <3> QED
      BY <2>5, <2>6, <3>1, <3>2
  <2>7. CASE ~rs[first].overridden
    <3> DEFINE row == [rs[first] EXCEPT !.preferred = r.preferred]
               new == [rs EXCEPT ![first] = row]
    <3>1. row \in RouteRow /\ row.preferred = r.preferred /\ Kept(rs[first], row)
      BY <1>2, <2>4, <2>7 DEF RouteRow, Route, Kept
    <3>2. MergeOne(rs, r) = new
      BY <2>5, <2>7
    <3> HIDE DEF row
    <3>3. /\ new \in Seq(RouteRow) /\ Len(new) = n /\ DOMAIN new = 1..n
          /\ \A i \in 1..n : new[i] = IF i = first THEN row ELSE rs[i]
      BY <1>1, <2>4, <3>1, ExceptSeq, LenProperties
    <3> HIDE DEF new
    <3>4. Extends(rs, new)
      BY <1>1, <3>1, <3>3 DEF Extends, Kept
    <3>5. ~r.preferred => Shrinks(rs, new)
      BY <1>1, <3>1, <3>3 DEF Shrinks
    <3>6. NonePreferred(rs) => AtMostOne(new)
      BY <1>1, <3>3 DEF NonePreferred, AtMostOne
    <3> QED
      BY <3>2, <3>3, <3>4, <3>5, <3>6
  <2> QED
    BY <2>6, <2>7
<1> QED
  BY <1>3, <1>4

\* What is offered of the n-th resolved route.
Offer(resolved, kept, n) == [resolved[n] EXCEPT !.preferred = @ /\ ~kept]

LEMMA OfferIsRoute ==
    ASSUME NEW resolved \in Seq(Route), NEW kept \in BOOLEAN, NEW n \in 1..Len(resolved)
    PROVE  /\ Offer(resolved, kept, n) \in Route
           /\ Offer(resolved, kept, n).preferred = (resolved[n].preferred /\ ~kept)
<1>1. resolved[n] \in Route
  BY ElementOfSeq
<1> QED
  BY <1>1 DEF Offer, Route

\* The merge is the last of a sequence of rows, one for each resolved route.
LEMMA MergeUnfolds ==
    ASSUME NEW rs \in Seq(RouteRow), NEW resolved \in Seq(Route), NEW kept \in BOOLEAN
    PROVE  \E f \in [0..Len(resolved) -> Seq(RouteRow)] :
               /\ f[0] = rs
               /\ \A n \in 1..Len(resolved) :
                    f[n] = MergeOne(f[n - 1], Offer(resolved, kept, n))
               /\ MergeAll(rs, resolved, kept) = f[Len(resolved)]
<1> DEFINE S == Seq(RouteRow)
           last == Len(resolved)
           next(m, n) == IF n \in 1..last THEN MergeOne(m, Offer(resolved, kept, n)) ELSE m
           step == [m \in S |-> [n \in Nat |-> next(m, n)]]
           Merges(g) == g = [n \in 0..last |-> IF n = 0 THEN rs
                                   ELSE MergeOne(g[n - 1], Offer(resolved, kept, n))]
<1>1. last \in Nat
  BY LenProperties
<1>2. \A m \in S, n \in Nat : next(m, n) \in S
  BY OfferIsRoute, MergeOneKeeps
<1>3. rs \in S
  OBVIOUS
<1>4. MergeAll(rs, resolved, kept) = (CHOOSE g : Merges(g))[last]
  BY DEF MergeAll, Offer
<1> HIDE DEF next, last, S
<1>5. step \in [S -> [Nat -> S]]
  BY <1>2
<1> HIDE DEF step
<1>6. PICK f \in [Nat -> S] : Recurs(f, rs, step)
  <2> HIDE DEF Merges
  <2> QED
    BY <1>3, <1>5, Recursion, ZenonT(30)
<1>7. \A n \in 1..last : n - 1 \in 0..last /\ f[n] = MergeOne(f[n - 1], Offer(resolved, kept, n))
  <2> TAKE n \in 1..last
  <2>1. n - 1 \in 0..last /\ n - 1 \in Nat /\ n \in Nat /\ n # 0
    BY <1>1
  <2>2. f[n - 1] \in S
    BY <2>1
  <2>3. step[f[n - 1]][n] = next(f[n - 1], n)
    BY <2>1, <2>2 DEF step
  <2>4. f[n] = step[f[n - 1]][n]
    BY <1>6, <2>1 DEF Recurs
  <2> QED
    BY <2>1, <2>3, <2>4 DEF next
<1> DEFINE h == [n \in 0..last |-> f[n]]
<1>8. h \in [0..last -> S] /\ h[0] = rs /\ 0 \in 0..last /\ last \in 0..last
  BY <1>1, <1>6 DEF Recurs
<1>9. \A n \in 1..last : n \in 0..last /\ n - 1 \in 0..last
                         /\ h[n] = MergeOne(h[n - 1], Offer(resolved, kept, n))
  BY <1>1, <1>7
<1> HIDE DEF h
<1>10. Merges(h)
  <2>1. \A n \in 0..last : n # 0 => n \in 1..last
    BY <1>1
  <2> QED
    BY <1>8, <1>9, <2>1
<1>11. ASSUME NEW g, Merges(g) PROVE g[last] = h[last]
  <2> DEFINE T == {n \in 0..last : g[n] # h[n]}
  <2>1. T \subseteq Nat
    BY <1>1
  <2> SUFFICES ASSUME T # {} PROVE FALSE
    BY <1>8
  <2>2. PICK n \in T : \A k \in Nat : k < n => k \notin T
    <3> HIDE DEF T
    <3> QED
      BY <2>1, Least
  <2>3. n # 0
    BY <1>8, <1>11
  <2>4. n \in 1..last /\ n - 1 \in Nat /\ n - 1 < n /\ n - 1 \in 0..last
    BY <1>1, <2>3
  <2>5. g[n - 1] = h[n - 1]
    BY <2>2, <2>4
  <2>6. g[n] = MergeOne(g[n - 1], Offer(resolved, kept, n))
    BY <1>11, <2>3
  <2> QED
    BY <1>9, <2>4, <2>5, <2>6
<1>12. MergeAll(rs, resolved, kept) = h[last]
  <2> HIDE DEF Merges
  <2> QED
    BY <1>4, <1>10, <1>11
<1> QED
  BY <1>8, <1>9, <1>12 DEF last, S

\* Merging all resolved routes, of which at most one is preferred.
LEMMA MergeAllKeeps ==
    ASSUME NEW rs \in Seq(RouteRow), NEW resolved \in Seq(Route), NEW kept \in BOOLEAN,
           AtMostOne(resolved)
    PROVE  LET new == MergeAll(rs, resolved, kept) IN
           /\ new \in Seq(RouteRow)
           /\ Extends(rs, new)
           /\ (\A i \in DOMAIN resolved : resolved[i].preferred => kept) => Shrinks(rs, new)
           /\ NonePreferred(rs) => AtMostOne(new)
<1> DEFINE last == Len(resolved)
           offer(n) == Offer(resolved, kept, n)
           None(n) == \A i \in 1..n : ~(resolved[i].preferred /\ ~kept)
<1>1. PICK f \in [0..last -> Seq(RouteRow)] :
          /\ f[0] = rs
          /\ \A n \in 1..last : f[n] = MergeOne(f[n - 1], offer(n))
          /\ MergeAll(rs, resolved, kept) = f[last]
  BY MergeUnfolds
<1>2. last \in Nat /\ DOMAIN resolved = 1..last
  BY LenProperties
<1>3. \A n \in 1..last : offer(n) \in Route /\ offer(n).preferred = (resolved[n].preferred /\ ~kept)
  BY OfferIsRoute
<1> DEFINE Good(n) == /\ Extends(rs, f[n])
                      /\ None(n) => Shrinks(rs, f[n])
                      /\ NonePreferred(rs) => AtMostOne(f[n])
           T == {n \in 0..last : ~Good(n)}
<1>4. Good(0)
  BY <1>1, LenProperties DEF Extends, Kept, Shrinks, NonePreferred, AtMostOne
<1>5. ASSUME NEW n \in 1..last, Good(n - 1) PROVE Good(n)
  <2>1. n - 1 \in 0..last /\ n \in 0..last /\ n \in Nat
    BY <1>2
  <2>2. f[n - 1] \in Seq(RouteRow) /\ f[n] \in Seq(RouteRow)
    BY <2>1
  <2>3. offer(n) \in Route /\ offer(n).preferred = (resolved[n].preferred /\ ~kept)
    BY <1>3
  <2>4. f[n] = MergeOne(f[n - 1], offer(n))
    BY <1>1
  <2> HIDE DEF offer, last
  <2>5. /\ Extends(f[n - 1], f[n])
        /\ ~offer(n).preferred => Shrinks(f[n - 1], f[n])
        /\ NonePreferred(f[n - 1]) => AtMostOne(f[n])
    BY <2>2, <2>3, <2>4, MergeOneKeeps
  <2>6. Extends(rs, f[n - 1])
    BY <1>5
  <2>7. Extends(rs, f[n])
    BY <2>2, <2>5, <2>6, ExtendsAgain
  <2>8. None(n) => None(n - 1) /\ ~offer(n).preferred
    <3>1. 1..(n - 1) \subseteq 1..n /\ n \in 1..n
      BY <2>1
    <3> QED
      BY <2>3, <3>1
  <2>9. None(n) => Shrinks(rs, f[n])
    BY <1>5, <2>5, <2>8 DEF Shrinks
  <2>10. ASSUME NonePreferred(rs) PROVE AtMostOne(f[n])
    <3>1. CASE offer(n).preferred
      <4>1. \A i \in 1..(n - 1) : i \in 1..last /\ i # n
        BY <1>2, <2>1
      <4>2. None(n - 1)
        <5> SUFFICES ASSUME NEW i \in 1..(n - 1), resolved[i].preferred PROVE FALSE
          OBVIOUS
        <5> QED
          BY <1>2, <2>3, <3>1, <4>1 DEF AtMostOne
      <4>3. NonePreferred(f[n - 1])
        BY <1>5, <2>10, <4>2 DEF Shrinks, NonePreferred
      <4> QED
        BY <2>5, <4>3
    <3>2. CASE ~offer(n).preferred
      <4>1. AtMostOne(f[n - 1])
        BY <1>5, <2>10
      <4>2. Shrinks(f[n - 1], f[n])
        BY <2>5, <3>2
      <4> QED
        BY <4>1, <4>2 DEF Shrinks, AtMostOne
    <3> QED
      BY <3>1, <3>2
  <2> QED
    BY <2>7, <2>9, <2>10
<1>6. Good(last)
  <2> HIDE DEF Good
  <2>1. T \subseteq Nat /\ last \in 0..last
    BY <1>2
  <2> SUFFICES ASSUME T # {} PROVE FALSE
    BY <2>1
  <2>2. PICK n \in T : \A k \in Nat : k < n => k \notin T
    <3> HIDE DEF T
    <3> QED
      BY <2>1, Least
  <2>3. n # 0
    BY <1>4
  <2>4. n \in 1..last /\ n - 1 \in Nat /\ n - 1 < n /\ n - 1 \in 0..last
    BY <1>2, <2>3
  <2>5. Good(n - 1)
    BY <2>2, <2>4
  <2> QED
    BY <1>5, <2>4, <2>5
<1>7. f[last] \in Seq(RouteRow)
  BY <1>2
<1>8. (\A i \in DOMAIN resolved : resolved[i].preferred => kept) => None(last)
  BY <1>2
<1> QED
  BY <1>1, <1>6, <1>7, <1>8

\* Clearing the old preference: rows keep what they are about, and none is added.
LEMMA ClearedKeeps ==
    ASSUME NEW rs \in Seq(RouteRow), NEW resolved \in Seq(Route)
    PROVE  /\ Cleared(rs, resolved) \in Seq(RouteRow)
           /\ Extends(rs, Cleared(rs, resolved)) /\ Shrinks(rs, Cleared(rs, resolved))
           /\ ~UserPreferred(rs) /\ (\E i \in DOMAIN resolved : resolved[i].preferred)
              => NonePreferred(Cleared(rs, resolved))
<1> DEFINE clears == ~UserPreferred(rs) /\ \E i \in DOMAIN resolved : resolved[i].preferred
           row(i) == IF rs[i].overridden THEN rs[i] ELSE [rs[i] EXCEPT !.preferred = FALSE]
           new == [i \in DOMAIN rs |-> row(i)]
<1>1. PICK n \in Nat : n = Len(rs) /\ DOMAIN rs = 1..n
  BY LenProperties
<1>2. \A i \in 1..n : rs[i] \in RouteRow
  BY <1>1, ElementOfSeq
<1>3. CASE clears
  <2>1. Cleared(rs, resolved) = new
    BY <1>3 DEF Cleared
  <2>2. \A i \in 1..n : /\ row(i) \in RouteRow /\ Kept(rs[i], row(i))
                        /\ ~row(i).preferred
    <3> TAKE i \in 1..n
    <3>1. rs[i] \in RouteRow
      BY <1>2
    <3>2. rs[i].overridden => ~rs[i].preferred
      BY <1>1, <1>3 DEF UserPreferred
    <3> QED
      BY <3>1, <3>2 DEF RouteRow, Kept
  <2> HIDE DEF row
  <2>3. new = [i \in 1..n |-> row(i)]
    BY <1>1
  <2>4. /\ new \in Seq(RouteRow) /\ Len(new) = n /\ DOMAIN new = 1..n
        /\ \A i \in 1..n : new[i] = row(i)
    BY <2>2, <2>3
  <2> HIDE DEF new
  <2>5. Extends(rs, new)
    BY <1>1, <2>2, <2>4 DEF Extends
  <2>6. NonePreferred(new) /\ Shrinks(rs, new)
    BY <2>2, <2>4 DEF NonePreferred, Shrinks
  <2> QED
    BY <1>3, <2>1, <2>4, <2>5, <2>6
<1>4. CASE ~clears
  <2>1. Cleared(rs, resolved) = rs
    BY <1>4 DEF Cleared
  <2>2. Extends(rs, rs) /\ Shrinks(rs, rs)
    BY <1>1 DEF Extends, Kept, Shrinks
  <2> QED
    BY <1>4, <2>1, <2>2
<1> QED
  BY <1>3, <1>4

\* _merge_application_routes keeps the user's choice, and one clear preference.
LEMMA MergeKeeps ==
    ASSUME NEW rs \in Seq(RouteRow), NEW resolved \in Seq(Route), AtMostOne(resolved)
    PROVE  /\ Merge(rs, resolved) \in Seq(RouteRow)
           /\ Extends(rs, Merge(rs, resolved))
           /\ ClearRoutes(rs) => ClearRoutes(Merge(rs, resolved))
<1> DEFINE kept == UserPreferred(rs)
           base == Cleared(rs, resolved)
           new == Merge(rs, resolved)
<1>1. /\ base \in Seq(RouteRow)
      /\ Extends(rs, base) /\ Shrinks(rs, base)
      /\ ~kept /\ (\E i \in DOMAIN resolved : resolved[i].preferred) => NonePreferred(base)
  BY ClearedKeeps
<1>2. kept \in BOOLEAN
  BY DEF UserPreferred
<1>3. new = MergeAll(base, resolved, kept)
  BY DEF Merge
<1> HIDE DEF kept, base, new
<1>4. /\ new \in Seq(RouteRow)
      /\ Extends(base, new)
      /\ (\A i \in DOMAIN resolved : resolved[i].preferred => kept) => Shrinks(base, new)
      /\ NonePreferred(base) => AtMostOne(new)
  BY <1>1, <1>2, <1>3, MergeAllKeeps
<1>5. Extends(rs, new)
  BY <1>1, <1>4, ExtendsAgain
<1>6. ASSUME ClearRoutes(rs) PROVE ClearRoutes(new)
  <2>1. CASE NonePreferred(base)
    BY <1>4, <2>1 DEF AtMostOne, ClearRoutes
  <2>2. CASE ~NonePreferred(base)
    <3>1. Shrinks(base, new)
      BY <1>1, <1>2, <1>4, <2>2
    <3>2. Shrinks(rs, new)
      BY <1>1, <3>1 DEF Shrinks
    <3> QED
      BY <1>5, <1>6, <3>2 DEF Shrinks, Extends, Kept, ClearRoutes
  <2> QED
    BY <2>1, <2>2
<1> QED
  BY <1>4, <1>5, <1>6 DEF new

\* Rows that are kept keep the user's choice.
LEMMA ExtendsKeepsChoice ==
    ASSUME NEW rs \in Seq(RouteRow), NEW new \in Seq(RouteRow), Extends(rs, new),
           UserPreferred(rs)
    PROVE  UserPreferred(new)
<1>1. PICK i \in DOMAIN rs : rs[i].overridden /\ rs[i].preferred
  BY DEF UserPreferred
<1>2. Kept(rs[i], new[i])
  BY DEF Extends
<1>3. i \in DOMAIN new
  <2>1. DOMAIN rs = 1..Len(rs) /\ DOMAIN new = 1..Len(new) /\ Len(rs) \in Nat /\ Len(new) \in Nat
    BY LenProperties
  <2>2. Len(rs) <= Len(new)
    BY DEF Extends
  <2> QED
    BY <2>1, <2>2
<1> QED
  BY <1>1, <1>2, <1>3 DEF Kept, UserPreferred

\* override_application_route: the routes of the chosen type, and only they, are
\* preferred, as the user's.
LEMMA OverrideChooses ==
    ASSUME NEW rs \in Seq(RouteRow), NEW type \in RouteType
    PROVE  LET new == Override(rs, type) IN
           /\ new \in Seq(RouteRow) /\ Len(rs) <= Len(new)
           /\ \A i \in DOMAIN rs : new[i].type = rs[i].type /\ new[i].at = rs[i].at
           /\ ClearRoutes(new) /\ UserPreferred(new)
<1> DEFINE row(i) == IF rs[i].type = type
                     THEN [rs[i] EXCEPT !.preferred = TRUE, !.overridden = TRUE]
                     ELSE [rs[i] EXCEPT !.preferred = FALSE]
           chosen == [i \in DOMAIN rs |-> row(i)]
           extra == [type |-> type, at |-> Nowhere, preferred |-> TRUE, overridden |-> TRUE]
           new == Override(rs, type)
<1>1. PICK n \in Nat : n = Len(rs) /\ DOMAIN rs = 1..n
  BY LenProperties
<1>2. \A i \in 1..n : /\ row(i) \in RouteRow
                      /\ row(i).type = rs[i].type /\ row(i).at = rs[i].at
                      /\ rs[i].type = type => row(i).preferred /\ row(i).overridden
                      /\ rs[i].type # type => ~row(i).preferred
  <2> TAKE i \in 1..n
  <2>1. rs[i] \in RouteRow
    BY <1>1, ElementOfSeq
  <2> QED
    BY <2>1 DEF RouteRow
<1>3. extra \in RouteRow
  BY DEF RouteRow, Address
<1>4. new = IF \E i \in DOMAIN rs : rs[i].type = type THEN chosen ELSE Append(chosen, extra)
  BY DEF Override
<1> HIDE DEF row, new
<1>5. chosen = [i \in 1..n |-> row(i)]
  BY <1>1
<1>6. /\ chosen \in Seq(RouteRow) /\ Len(chosen) = n /\ DOMAIN chosen = 1..n
      /\ \A i \in 1..n : chosen[i] = row(i)
  BY <1>2, <1>5
<1>7. CASE \E i \in DOMAIN rs : rs[i].type = type
  <2>1. new = chosen
    BY <1>4, <1>7
  <2> HIDE DEF chosen
  <2>0. /\ DOMAIN new = 1..n
        /\ \A i \in 1..n : /\ new[i].type = rs[i].type
                           /\ rs[i].type = type => new[i].preferred /\ new[i].overridden
                           /\ rs[i].type # type => ~new[i].preferred
    BY <1>2, <1>6, <2>1
  <2>2. ClearRoutes(new)
    <3> SUFFICES ASSUME NEW i \in 1..n, NEW k \in 1..n, new[i].preferred, new[k].preferred
                 PROVE  new[i].type = new[k].type /\ new[i].overridden /\ new[k].overridden
      BY <2>0 DEF ClearRoutes
    <3>1. rs[i].type = type /\ rs[k].type = type
      BY <2>0, Zenon
    <3>2. new[i].type = rs[i].type /\ new[k].type = rs[k].type
      BY <2>0, Zenon
    <3>3. new[i].overridden /\ new[k].overridden
      BY <2>0, <3>1, Zenon
    <3> QED
      BY <3>1, <3>2, <3>3, Zenon
  <2>3. UserPreferred(new)
    <3>1. PICK i \in 1..n : rs[i].type = type
      BY <1>1, <1>7
    <3>2. new[i].preferred /\ new[i].overridden
      BY <2>0, <3>1, Zenon
    <3> QED
      BY <2>0, <3>2, Zenon DEF UserPreferred
  <2> QED
    BY <1>1, <1>2, <1>6, <2>1, <2>2, <2>3 DEF new
<1>8. CASE ~\E i \in DOMAIN rs : rs[i].type = type
  <2>1. new = Append(chosen, extra)
    BY <1>4, <1>8
  <2>2. extra.preferred /\ extra.overridden
    OBVIOUS
  <2> HIDE DEF chosen, extra
  <2>3. /\ new \in Seq(RouteRow) /\ Len(new) = n + 1 /\ DOMAIN new = 1..(n + 1)
        /\ \A i \in 1..n : new[i] = row(i)
        /\ new[n + 1] = extra
    BY <1>3, <1>6, <2>1, AppendProperties, LenProperties
  <2>4. \A i \in 1..(n + 1) : i \in 1..n \/ i = n + 1
    OBVIOUS
  <2>5. n + 1 \in 1..(n + 1) /\ n <= n + 1
    OBVIOUS
  <2>6. \A i \in 1..n : ~row(i).preferred
    BY <1>1, <1>2, <1>8
  <2>7. ClearRoutes(new)
    BY <2>3, <2>4, <2>6 DEF ClearRoutes
  <2>8. UserPreferred(new)
    BY <2>2, <2>3, <2>5 DEF UserPreferred
  <2> QED
    BY <1>1, <1>2, <2>3, <2>5, <2>7, <2>8 DEF new
<1> QED
  BY <1>7, <1>8

\* What a commit leaves of a row that was read as o and has become n.
Update(r, o, n) ==
    [r EXCEPT !.preferred = IF n.preferred # o.preferred THEN n.preferred ELSE @,
              !.overridden = IF n.overridden # o.overridden THEN n.overridden ELSE @]

LEMMA UpdateIsRow ==
    ASSUME NEW r \in RouteRow, NEW o \in RouteRow, NEW n \in RouteRow
    PROVE  /\ Update(r, o, n) \in RouteRow
           /\ r = o /\ n.type = o.type /\ n.at = o.at => Update(r, o, n) = n
  BY DEF Update, RouteRow

\* A commit writes rows; over the rows it has read it writes what it has made of them.
LEMMA WrittenIsRows ==
    ASSUME NEW rs \in Seq(RouteRow), NEW old \in Seq(RouteRow), NEW new \in Seq(RouteRow),
           Len(old) <= Len(new)
    PROVE  /\ Written(rs, old, new) \in Seq(RouteRow)
           /\ (rs = old /\ \A i \in DOMAIN old : new[i].type = old[i].type /\ new[i].at = old[i].at)
              => Written(rs, old, new) = new
<1> DEFINE row(i) == IF i \in DOMAIN old THEN Update(rs[i], old[i], new[i]) ELSE rs[i]
           head == [i \in DOMAIN rs |-> row(i)]
           tail == SubSeq(new, Len(old) + 1, Len(new))
<1>1. PICK l \in Nat, m \in Nat, n \in Nat :
        /\ l = Len(old) /\ m = Len(new) /\ n = Len(rs)
        /\ DOMAIN old = 1..l /\ DOMAIN new = 1..m /\ DOMAIN rs = 1..n
  BY LenProperties
<1>2. l <= m
  BY <1>1
<1>3. /\ \A i \in 1..l : old[i] \in RouteRow
      /\ \A i \in 1..m : new[i] \in RouteRow
      /\ \A i \in 1..n : rs[i] \in RouteRow
  BY <1>1, ElementOfSeq
<1>4. Written(rs, old, new) = head \o tail
  BY DEF Written, Update
<1>5. \A i \in 1..n : row(i) \in RouteRow
  <2> TAKE i \in 1..n
  <2>1. CASE i \in 1..l
    <3>1. i \in 1..m
      BY <1>2, <2>1
    <3>2. rs[i] \in RouteRow /\ old[i] \in RouteRow /\ new[i] \in RouteRow
      BY <1>3, <2>1, <3>1
    <3>3. Update(rs[i], old[i], new[i]) \in RouteRow
      BY <3>2, UpdateIsRow
    <3> QED
      BY <1>1, <2>1, <3>3
  <2>2. CASE i \notin 1..l
    BY <1>1, <1>3, <2>2
  <2> QED
    BY <2>1, <2>2
<1>6. ASSUME NEW i \in 1..l, i \in 1..n, rs[i] = old[i], new[i].type = old[i].type,
             new[i].at = old[i].at
      PROVE  row(i) = new[i]
  <2>1. i \in 1..m
    BY <1>2
  <2>2. rs[i] \in RouteRow /\ old[i] \in RouteRow /\ new[i] \in RouteRow
    BY <1>3, <1>6, <2>1
  <2>3. Update(rs[i], old[i], new[i]) = new[i]
    BY <1>6, <2>2, UpdateIsRow
  <2> QED
    BY <1>1, <2>3
<1> HIDE DEF row
<1>7. head = [i \in 1..n |-> row(i)]
  BY <1>1
<1>8. /\ head \in Seq(RouteRow) /\ Len(head) = n
      /\ \A i \in 1..n : head[i] = row(i)
  BY <1>5, <1>7
<1> HIDE DEF head
<1>9. /\ tail \in Seq(RouteRow) /\ Len(tail) = m - l
      /\ \A i \in 1..(m - l) : tail[i] = new[l + i]
  <2>1. l + 1 \in Int /\ m \in Int
    OBVIOUS
  <2>2. \A i \in (l + 1)..m : new[i] \in RouteRow
    <3>1. (l + 1)..m \subseteq 1..m
      OBVIOUS
    <3> QED
      BY <1>3, <3>1
  <2>3. tail = SubSeq(new, l + 1, m)
    BY <1>1
  <2> HIDE DEF tail
  <2>4. /\ tail \in Seq(RouteRow)
        /\ Len(tail) = IF l + 1 <= m THEN m - (l + 1) + 1 ELSE 0
        /\ \A i \in 1..(m - (l + 1) + 1) : tail[i] = new[(l + 1) + i - 1]
    BY <2>1, <2>2, <2>3, SubSeqProperties
  <2>5. m - (l + 1) + 1 = m - l /\ (IF l + 1 <= m THEN m - (l + 1) + 1 ELSE 0) = m - l
    BY <1>2
  <2>6. \A i \in 1..(m - l) : (l + 1) + i - 1 = l + i
    OBVIOUS
  <2> QED
    BY <2>4, <2>5, <2>6
<1> HIDE DEF tail
<1>10. /\ head \o tail \in Seq(RouteRow) /\ Len(head \o tail) = n + (m - l)
       /\ \A i \in 1..(n + (m - l)) :
            (head \o tail)[i] = IF i <= n THEN head[i] ELSE tail[i - n]
  <2>1. /\ head \o tail \in Seq(RouteRow) /\ Len(head \o tail) = Len(head) + Len(tail)
        /\ \A i \in 1..(Len(head) + Len(tail)) :
             (head \o tail)[i] = IF i <= Len(head) THEN head[i] ELSE tail[i - Len(head)]
    BY <1>8, <1>9, ConcatProperties
  <2> QED
    BY <1>8, <1>9, <2>1
<1>11. ASSUME rs = old,
              \A i \in DOMAIN old : new[i].type = old[i].type /\ new[i].at = old[i].at
       PROVE  head \o tail = new
  <2>1. n = l
    BY <1>1, <1>11
  <2>2. n + (m - l) = m
    BY <2>1
  <2>3. \A i \in 1..m : (head \o tail)[i] = new[i]
    <3> TAKE i \in 1..m
    <3>1. CASE i <= l
      <4>1. i \in 1..l /\ i \in 1..n
        BY <2>1, <3>1
      <4>2. row(i) = new[i]
        <5>1. rs[i] = old[i] /\ new[i].type = old[i].type /\ new[i].at = old[i].at
          BY <1>1, <1>11, <4>1
        <5> QED
          BY <1>6, <4>1, <5>1
      <4>3. (head \o tail)[i] = head[i]
        BY <1>10, <2>1, <2>2, <3>1
      <4> QED
        BY <1>8, <4>1, <4>2, <4>3
    <3>2. CASE ~(i <= l)
      <4>1. i - l \in 1..(m - l) /\ l + (i - l) = i
        BY <3>2
      <4>2. (head \o tail)[i] = tail[i - l]
        BY <1>10, <2>1, <2>2, <3>2
      <4> QED
        BY <1>9, <4>1, <4>2
    <3> QED
      BY <3>1, <3>2
  <2>4. Len(head \o tail) = Len(new)
    BY <1>1, <1>10, <2>2
  <2> DEFINE all == head \o tail
  <2>5. /\ all \in Seq(RouteRow) /\ Len(all) = Len(new) /\ Len(all) = m
        /\ \A i \in 1..m : all[i] = new[i]
    BY <1>1, <1>10, <2>3, <2>4
  <2> HIDE DEF all
  <2>6. \A i \in 1..Len(all) : all[i] = new[i]
    BY <2>5
  <2>7. all = new
    BY <2>5, <2>6, SeqEqual
  <2> QED
    BY <2>7 DEF all
<1> QED
  BY <1>4, <1>10, <1>11

-----------------------------------------------------------------------------
(* The inductive invariant.                                                *)

Waiting(row) == row.status \in {"received", "processing"}

\* A worker that will take the row out of its status, if it does not die.
Finishes(slot, j) ==
    /\ slot.at # "idle" /\ slot.row = j
    /\ slot.status # (IF slot.at = "failing" THEN "failed" ELSE "ready")

Finishing(ws, j) == \E w \in Worker : Finishes(ws[w], j)

\* A request that will enqueue a job for the row, if it does not die.
Asks(x, j) == x.at \in {"created", "enqueueing"} /\ x.row = j

Asking(rs, j) == \E r \in Req : Asks(rs[r], j)

\* What a request and a worker know of the rows they work on.
GoodRequest(x, D) ==
    /\ x.at \notin {"idle", "creating"} => x.row \in D
    /\ x.at = "enqueueing" => x.status = "processing"
    /\ x.at = "expiring" => x.status \in {"received", "processing"}
    /\ x.at = "overriding" => x.choice \in Preferences

GoodSlot(x, D) == x.at # "idle" => x.row \in D

RowsLoaded ==
    /\ \A r \in Req : GoodRequest(req[r], DOMAIN rows)
    /\ \A w \in Worker : GoodSlot(worker[w], DOMAIN rows)

QueueBounded == \A j \in 1..MaxRows : queue[j] <= jobs + deaths

\* ProcessingIsServed, by workers that will finish.
Served ==
    \A j \in DOMAIN rows : Waiting(rows[j]) =>
        j \in lost \/ queue[j] > 0 \/ Finishing(worker, j) \/ Asking(req, j)

Core == TypeOK /\ RowsLoaded /\ QueueBounded /\ Served

IInv == Core /\ PreferredIsClear

LEMMA RowNumbers ==
    ASSUME TypeOK
    PROVE  /\ DOMAIN rows = 1..Len(rows) /\ DOMAIN routes = DOMAIN rows
           /\ Len(rows) \in 0..MaxRows /\ DOMAIN rows \subseteq 1..MaxRows
           /\ \A j \in DOMAIN rows : rows[j] \in Row /\ routes[j] \in Seq(RouteRow)
<1>1. /\ rows \in Seq(Row) /\ Len(rows) <= MaxRows /\ MaxRows \in Nat
      /\ routes \in Seq(Seq(RouteRow)) /\ Len(routes) = Len(rows)
  BY IntakeAssumption DEF TypeOK
<1>2. /\ DOMAIN rows = 1..Len(rows) /\ Len(rows) \in Nat
      /\ DOMAIN routes = 1..Len(routes)
  BY <1>1, LenProperties
<1>3. \A j \in 1..Len(rows) : rows[j] \in Row
  BY <1>1, ElementOfSeq
<1>4. \A j \in 1..Len(routes) : routes[j] \in Seq(RouteRow)
  BY <1>1, ElementOfSeq
<1> QED
  BY <1>1, <1>2, <1>3, <1>4

LEMMA IdleIsGood ==
    /\ Idle \in Request /\ \A D : GoodRequest(Idle, D)
    /\ Free \in Slot /\ \A D : GoodSlot(Free, D)
    /\ \A j : ~Asks(Idle, j) /\ ~Finishes(Free, j)
<1>1. 0 \in 0..MaxRows
  BY IntakeAssumption
<1>2. << >> \in Seq(RouteRow)
  OBVIOUS
<1>3. Idle \in Request
  BY <1>1, <1>2 DEF Idle, Request, Status, Data
<1>4. Free \in Slot
  BY <1>1, <1>2 DEF Free, Slot, Status, Data
<1>5. Idle.at = "idle" /\ Free.at = "idle"
  BY DEF Idle, Free
<1> QED
  BY <1>3, <1>4, <1>5 DEF GoodRequest, GoodSlot, Asks, Finishes

\* One request goes on; the rows may have become more.
LEMMA RequestStep ==
    ASSUME TypeOK, RowsLoaded, NEW r \in Req, NEW x \in Request, NEW D,
           DOMAIN rows \subseteq D, GoodRequest(x, D), req' = [req EXCEPT ![r] = x]
    PROVE  /\ req' \in [Req -> Request] /\ \A q \in Req : GoodRequest(req'[q], D)
           /\ \A j \in 1..MaxRows : Asks(x, j) => Asking(req', j)
           /\ \A j \in 1..MaxRows : Asking(req, j) => Asking(req', j) \/ Asks(req[r], j)
<1>1. req \in [Req -> Request] /\ \A q \in Req : GoodRequest(req[q], DOMAIN rows)
  BY DEF TypeOK, RowsLoaded
<1>2. req' \in [Req -> Request] /\ req'[r] = x /\ \A q \in Req \ {r} : req'[q] = req[q]
  BY <1>1
<1>3. \A q \in Req : GoodRequest(req'[q], D)
  BY <1>1, <1>2 DEF GoodRequest
<1> QED
  BY <1>2, <1>3 DEF Asking

\* One worker goes on.
LEMMA WorkerStep ==
    ASSUME TypeOK, RowsLoaded, NEW w \in Worker, NEW x \in Slot,
           GoodSlot(x, DOMAIN rows), worker' = [worker EXCEPT ![w] = x]
    PROVE  /\ worker' \in [Worker -> Slot] /\ \A v \in Worker : GoodSlot(worker'[v], DOMAIN rows)
           /\ \A j \in 1..MaxRows : Finishes(x, j) => Finishing(worker', j)
           /\ \A j \in 1..MaxRows : Finishing(worker, j) => Finishing(worker', j) \/ Finishes(worker[w], j)
<1>1. worker \in [Worker -> Slot] /\ \A v \in Worker : GoodSlot(worker[v], DOMAIN rows)
  BY DEF TypeOK, RowsLoaded
<1>2. worker' \in [Worker -> Slot] /\ worker'[w] = x /\ \A v \in Worker \ {w} : worker'[v] = worker[v]
  BY <1>1
<1>3. \A v \in Worker : GoodSlot(worker'[v], DOMAIN rows)
  BY <1>1, <1>2
<1> QED
  BY <1>2, <1>3 DEF Finishing

\* One row is written.
LEMMA RowStep ==
    ASSUME TypeOK, NEW j \in DOMAIN rows, NEW row \in Row, rows' = [rows EXCEPT ![j] = row]
    PROVE  /\ rows' \in Seq(Row) /\ Len(rows') = Len(rows) /\ DOMAIN rows' = DOMAIN rows
           /\ \A k \in DOMAIN rows : rows'[k] = IF k = j THEN row ELSE rows[k]
<1>1. rows \in Seq(Row) /\ DOMAIN rows = 1..Len(rows)
  BY RowNumbers DEF TypeOK
<1>2. j \in 1..Len(rows)
  BY <1>1
<1> QED
  BY <1>1, <1>2, ExceptSeq, LenProperties

\* The routes of one row are written.
LEMMA RoutesStep ==
    ASSUME TypeOK, NEW j \in DOMAIN rows, NEW rs \in Seq(RouteRow),
           routes' = [routes EXCEPT ![j] = rs]
    PROVE  /\ routes' \in Seq(Seq(RouteRow)) /\ Len(routes') = Len(rows)
           /\ \A k \in DOMAIN rows : routes'[k] = IF k = j THEN rs ELSE routes[k]
<1> DEFINE S == Seq(RouteRow)
<1>1. routes \in Seq(S) /\ DOMAIN rows = 1..Len(rows) /\ Len(routes) = Len(rows)
  BY RowNumbers DEF TypeOK
<1>2. j \in 1..Len(routes) /\ rs \in S
  BY <1>1
<1> HIDE DEF S
<1>3. /\ routes' \in Seq(S) /\ Len(routes') = Len(routes)
      /\ \A k \in 1..Len(routes) : routes'[k] = IF k = j THEN rs ELSE routes[k]
  BY <1>1, <1>2, ExceptSeq
<1> QED
  BY <1>1, <1>3 DEF S

\* A flush keeps what it does not write; it writes a status other than the loaded one.
LEMMA FlushIsRow ==
    ASSUME NEW row \in Row, NEW status \in Status, NEW data \in Data, NEW loaded
    PROVE  LET new == Flush(row, status, data, loaded) IN
           /\ new \in Row /\ new.raced = row.raced
           /\ new.status = IF status = loaded.status THEN row.status ELSE status
  BY DEF Flush, Row

-----------------------------------------------------------------------------
(* Steps of one request or one worker.                                     *)

\* A request goes on and writes nothing; those that die have lost their row.
LEMMA RequestReads ==
    ASSUME Core, NEW r \in Req, NEW x \in Request, GoodRequest(x, DOMAIN rows),
           req' = [req EXCEPT ![r] = x],
           UNCHANGED <<rows, routes, worker, queue, jobs>>,
           deaths' \in 0..MaxDeaths, deaths <= deaths', overrides' \in 0..MaxOverrides,
           lost' \in SUBSET (1..MaxRows), lost \subseteq lost',
           \A j \in DOMAIN rows : Asks(req[r], j) => Asks(x, j) \/ j \in lost'
    PROVE  Core'
<1>1. TypeOK /\ RowsLoaded /\ QueueBounded /\ Served
  BY DEF Core
<1>2. DOMAIN rows \subseteq 1..MaxRows
  BY <1>1, RowNumbers
<1>3. DOMAIN rows \subseteq DOMAIN rows
  OBVIOUS
<1>4. /\ req' \in [Req -> Request] /\ \A q \in Req : GoodRequest(req'[q], DOMAIN rows)
      /\ \A j \in 1..MaxRows : Asks(x, j) => Asking(req', j)
      /\ \A j \in 1..MaxRows : Asking(req, j) => Asking(req', j) \/ Asks(req[r], j)
  BY <1>1, <1>3, RequestStep, ZenonT(30)
<1>5. TypeOK'
  BY <1>1, <1>4 DEF TypeOK
<1>6. RowsLoaded'
  BY <1>1, <1>4 DEF RowsLoaded
<1>7. QueueBounded'
  <2>1. jobs \in Nat /\ deaths \in Nat /\ deaths' \in Nat
    BY <1>1, IntakeAssumption DEF TypeOK
  <2>2. \A j \in 1..MaxRows : queue[j] \in Nat
    BY <1>1, IntakeAssumption DEF TypeOK
  <2>3. \A j \in 1..MaxRows : queue[j] <= jobs + deaths
    BY <1>1 DEF QueueBounded
  <2>4. \A j \in 1..MaxRows : queue[j] <= jobs + deaths'
    BY <2>1, <2>2, <2>3
  <2> QED
    BY <2>4 DEF QueueBounded
<1>8. Served'
  <2> SUFFICES ASSUME NEW j \in DOMAIN rows, Waiting(rows[j])
               PROVE  j \in lost' \/ queue[j] > 0 \/ Finishing(worker, j) \/ Asking(req', j)
    BY DEF Served
  <2> QED
    BY <1>1, <1>2, <1>4 DEF Served
<1> QED
  BY <1>5, <1>6, <1>7, <1>8 DEF Core

\* Request r becomes x and writes the row j.
Commits(r, x, j, row) ==
    /\ x \in Request /\ GoodRequest(x, DOMAIN rows) /\ j \in DOMAIN rows /\ row \in Row
    /\ req' = [req EXCEPT ![r] = x] /\ rows' = [rows EXCEPT ![j] = row]
    /\ UNCHANGED <<worker, queue, jobs, deaths, overrides, lost>>
    /\ routes' \in Seq(Seq(RouteRow)) /\ Len(routes') = Len(rows)
    /\ Waiting(row) => Waiting(rows[j]) \/ Asks(x, j)
    /\ \A k \in DOMAIN rows : Asks(req[r], k) => Asks(x, k) \/ (k = j /\ ~Waiting(row))

LEMMA RequestWrites ==
    ASSUME Core, NEW r \in Req, NEW x, NEW j, NEW row, Commits(r, x, j, row)
    PROVE  Core'
<1>0. /\ x \in Request /\ GoodRequest(x, DOMAIN rows) /\ j \in DOMAIN rows /\ row \in Row
      /\ req' = [req EXCEPT ![r] = x] /\ rows' = [rows EXCEPT ![j] = row]
      /\ UNCHANGED <<worker, queue, jobs, deaths, overrides, lost>>
      /\ routes' \in Seq(Seq(RouteRow)) /\ Len(routes') = Len(rows)
      /\ Waiting(row) => Waiting(rows[j]) \/ Asks(x, j)
      /\ \A k \in DOMAIN rows : Asks(req[r], k) => Asks(x, k) \/ (k = j /\ ~Waiting(row))
  BY DEF Commits
<1>1. TypeOK /\ RowsLoaded /\ QueueBounded /\ Served
  BY DEF Core
<1>2. DOMAIN rows \subseteq 1..MaxRows
  BY <1>1, RowNumbers
<1>3. DOMAIN rows \subseteq DOMAIN rows
  OBVIOUS
<1>4. /\ req' \in [Req -> Request] /\ \A q \in Req : GoodRequest(req'[q], DOMAIN rows)
      /\ \A k \in 1..MaxRows : Asks(x, k) => Asking(req', k)
      /\ \A k \in 1..MaxRows : Asking(req, k) => Asking(req', k) \/ Asks(req[r], k)
  BY <1>0, <1>1, <1>3, RequestStep, ZenonT(30)
<1>5. /\ rows' \in Seq(Row) /\ Len(rows') = Len(rows) /\ DOMAIN rows' = DOMAIN rows
      /\ \A k \in DOMAIN rows : rows'[k] = IF k = j THEN row ELSE rows[k]
  BY <1>0, <1>1, RowStep, ZenonT(30)
<1>6. TypeOK'
  BY <1>0, <1>1, <1>4, <1>5 DEF TypeOK
<1>7. RowsLoaded'
  BY <1>0, <1>1, <1>4, <1>5 DEF RowsLoaded
<1>8. QueueBounded'
  BY <1>0, <1>1 DEF QueueBounded
<1>9. Served'
  <2> SUFFICES ASSUME NEW k \in DOMAIN rows, Waiting(rows'[k])
               PROVE  k \in lost \/ queue[k] > 0 \/ Finishing(worker, k) \/ Asking(req', k)
    BY <1>0, <1>5 DEF Served
  <2>1. k \in 1..MaxRows /\ j \in 1..MaxRows
    BY <1>0, <1>2
  <2>2. CASE k = j
    <3>1. Waiting(row)
      BY <1>5, <2>2
    <3> QED
      BY <1>0, <1>1, <1>4, <2>1, <2>2, <3>1 DEF Served
  <2>3. CASE k # j
    <3>1. Waiting(rows[k])
      BY <1>5, <2>3
    <3> QED
      BY <1>0, <1>1, <1>4, <2>1, <2>3, <3>1 DEF Served
  <2> QED
    BY <2>2, <2>3
<1> QED
  BY <1>6, <1>7, <1>8, <1>9 DEF Core

\* Worker w becomes x and writes the row j.
Writes(w, x, j, row) ==
    /\ x \in Slot /\ GoodSlot(x, DOMAIN rows) /\ j \in DOMAIN rows /\ row \in Row
    /\ worker' = [worker EXCEPT ![w] = x] /\ rows' = [rows EXCEPT ![j] = row]
    /\ UNCHANGED <<req, queue, jobs, deaths, overrides, lost>>
    /\ routes' \in Seq(Seq(RouteRow)) /\ Len(routes') = Len(rows)
    /\ Waiting(row) => Waiting(rows[j])
    /\ \A k \in DOMAIN rows :
         Finishes(worker[w], k) => Finishes(x, k) \/ (k = j /\ ~Waiting(row))

LEMMA WorkerWrites ==
    ASSUME Core, NEW w \in Worker, NEW x, NEW j, NEW row, Writes(w, x, j, row)
    PROVE  Core'
<1>0. /\ x \in Slot /\ GoodSlot(x, DOMAIN rows) /\ j \in DOMAIN rows /\ row \in Row
      /\ worker' = [worker EXCEPT ![w] = x] /\ rows' = [rows EXCEPT ![j] = row]
      /\ UNCHANGED <<req, queue, jobs, deaths, overrides, lost>>
      /\ routes' \in Seq(Seq(RouteRow)) /\ Len(routes') = Len(rows)
      /\ Waiting(row) => Waiting(rows[j])
      /\ \A k \in DOMAIN rows :
           Finishes(worker[w], k) => Finishes(x, k) \/ (k = j /\ ~Waiting(row))
  BY DEF Writes
<1>1. TypeOK /\ RowsLoaded /\ QueueBounded /\ Served
  BY DEF Core
<1>2. DOMAIN rows \subseteq 1..MaxRows
  BY <1>0, <1>1, RowNumbers
<1>4. /\ worker' \in [Worker -> Slot] /\ \A v \in Worker : GoodSlot(worker'[v], DOMAIN rows)
      /\ \A k \in 1..MaxRows : Finishes(x, k) => Finishing(worker', k)
      /\ \A k \in 1..MaxRows : Finishing(worker, k) => Finishing(worker', k) \/ Finishes(worker[w], k)
  BY <1>0, <1>1, WorkerStep, ZenonT(30)
<1>5. /\ rows' \in Seq(Row) /\ Len(rows') = Len(rows) /\ DOMAIN rows' = DOMAIN rows
      /\ \A k \in DOMAIN rows : rows'[k] = IF k = j THEN row ELSE rows[k]
  BY <1>0, <1>1, RowStep, ZenonT(30)
<1>6. TypeOK'
  BY <1>0, <1>1, <1>4, <1>5 DEF TypeOK
<1>7. RowsLoaded'
  BY <1>0, <1>1, <1>4, <1>5 DEF RowsLoaded
<1>8. QueueBounded'
  BY <1>0, <1>1 DEF QueueBounded
<1>9. Served'
  <2> SUFFICES ASSUME NEW k \in DOMAIN rows, Waiting(rows'[k])
               PROVE  k \in lost \/ queue[k] > 0 \/ Finishing(worker', k) \/ Asking(req, k)
    BY <1>0, <1>5 DEF Served
  <2>1. k \in 1..MaxRows
    BY <1>0, <1>2
  <2>2. CASE k = j
    <3>1. Waiting(row)
      BY <1>5, <2>2
    <3> QED
      BY <1>0, <1>1, <1>4, <2>1, <2>2, <3>1 DEF Served
  <2>3. CASE k # j
    <3>1. Waiting(rows[k])
      BY <1>5, <2>3
    <3> QED
      BY <1>0, <1>1, <1>4, <2>1, <2>3, <3>1 DEF Served
  <2> QED
    BY <2>2, <2>3
<1> QED
  BY <1>6, <1>7, <1>8, <1>9 DEF Core

\* Worker w becomes x; it may have taken a job, or died and left it or lost it.
Takes(w, x) ==
    /\ x \in Slot /\ GoodSlot(x, DOMAIN rows) /\ worker' = [worker EXCEPT ![w] = x]
    /\ UNCHANGED <<rows, routes, req, jobs, overrides>>
    /\ queue' \in [1..MaxRows -> 0..(MaxJobs + MaxDeaths)]
    /\ deaths' \in 0..MaxDeaths /\ QueueBounded'
    /\ lost' \in SUBSET (1..MaxRows) /\ lost \subseteq lost'
    /\ \A k \in DOMAIN rows : Waiting(rows[k]) =>
         ((Finishes(worker[w], k) \/ queue[k] > 0) => Finishes(x, k) \/ k \in lost' \/ queue'[k] > 0)

LEMMA WorkerTakes ==
    ASSUME Core, NEW w \in Worker, NEW x, Takes(w, x)
    PROVE  Core'
<1>0. /\ x \in Slot /\ GoodSlot(x, DOMAIN rows) /\ worker' = [worker EXCEPT ![w] = x]
      /\ UNCHANGED <<rows, routes, req, jobs, overrides>>
      /\ queue' \in [1..MaxRows -> 0..(MaxJobs + MaxDeaths)]
      /\ deaths' \in 0..MaxDeaths /\ QueueBounded'
      /\ lost' \in SUBSET (1..MaxRows) /\ lost \subseteq lost'
      /\ \A k \in DOMAIN rows : Waiting(rows[k]) =>
           ((Finishes(worker[w], k) \/ queue[k] > 0) => Finishes(x, k) \/ k \in lost' \/ queue'[k] > 0)
  BY DEF Takes
<1>1. TypeOK /\ RowsLoaded /\ Served
  BY DEF Core
<1>2. DOMAIN rows \subseteq 1..MaxRows
  BY <1>0, <1>1, RowNumbers
<1>4. /\ worker' \in [Worker -> Slot] /\ \A v \in Worker : GoodSlot(worker'[v], DOMAIN rows)
      /\ \A k \in 1..MaxRows : Finishes(x, k) => Finishing(worker', k)
      /\ \A k \in 1..MaxRows : Finishing(worker, k) => Finishing(worker', k) \/ Finishes(worker[w], k)
  BY <1>0, <1>1, WorkerStep, ZenonT(30)
<1>6. TypeOK'
  BY <1>0, <1>1, <1>4 DEF TypeOK
<1>7. RowsLoaded'
  BY <1>0, <1>1, <1>4 DEF RowsLoaded
<1>9. Served'
  <2> SUFFICES ASSUME NEW k \in DOMAIN rows, Waiting(rows[k])
               PROVE  k \in lost' \/ queue'[k] > 0 \/ Finishing(worker', k) \/ Asking(req, k)
    BY <1>0 DEF Served
  <2>1. k \in 1..MaxRows
    BY <1>2
  <2>2. k \in lost \/ queue[k] > 0 \/ Finishing(worker, k) \/ Asking(req, k)
    BY <1>1 DEF Served
  <2> QED
    BY <1>0, <1>4, <2>1, <2>2
<1> QED
  BY <1>0, <1>6, <1>7, <1>9 DEF Core

-----------------------------------------------------------------------------
(* The actions keep the core.                                              *)

\* What is known of a request, of a worker and of a row.
LEMMA RequestOf ==
    ASSUME Core, NEW r \in Req
    PROVE  req[r] \in Request /\ GoodRequest(req[r], DOMAIN rows)
  BY DEF Core, TypeOK, RowsLoaded

LEMMA SlotOf ==
    ASSUME Core, NEW w \in Worker
    PROVE  worker[w] \in Slot /\ GoodSlot(worker[w], DOMAIN rows)
  BY DEF Core, TypeOK, RowsLoaded

LEMMA RowOf ==
    ASSUME Core, NEW j \in DOMAIN rows
    PROVE  /\ j \in 1..MaxRows /\ j \in 0..MaxRows
           /\ rows[j] \in Row /\ rows[j].status \in Status /\ rows[j].data \in Data
           /\ routes[j] \in Seq(RouteRow)
<1>1. TypeOK
  BY DEF Core
<1>2. j \in 1..MaxRows /\ rows[j] \in Row /\ routes[j] \in Seq(RouteRow)
  BY <1>1, RowNumbers
<1>3. j \in 0..MaxRows
  BY <1>2, IntakeAssumption
<1> QED
  BY <1>2, <1>3 DEF Row

LEMMA SameCounters ==
    ASSUME Core
    PROVE  /\ deaths \in 0..MaxDeaths /\ deaths <= deaths /\ overrides \in 0..MaxOverrides
           /\ lost \in SUBSET (1..MaxRows) /\ lost \subseteq lost
  BY IntakeAssumption DEF Core, TypeOK

\* The oldest row is one.
LEMMA OldestIsKnown ==
    ASSUME Core, Known # {}
    PROVE  Oldest(Known) \in DOMAIN rows
<1> DEFINE T == DOMAIN rows
<1>1. TypeOK /\ T = 1..Len(rows) /\ Len(rows) \in Nat
  BY RowNumbers, IntakeAssumption DEF Core
<1>2. T # {} /\ 1 \in T
  BY <1>1 DEF Known, Rows
<1>3. \A k \in T : 1 <= k
  BY <1>1
<1>4. Oldest(Known) = CHOOSE j \in T : \A k \in T : j <= k
  BY DEF Oldest, Known, Rows
<1> HIDE DEF T
<1>5. Oldest(Known) \in T
  BY <1>2, <1>3, <1>4
<1> QED
  BY <1>5 DEF T

LEMMA IngestNewKeeps ==
    ASSUME Core, NEW r \in Req, IngestNew(r)
    PROVE  Core'
<1> DEFINE x == [Idle EXCEPT !.at = "creating"]
<1>1. req' = [req EXCEPT ![r] = x] /\ req[r].at = "idle"
      /\ UNCHANGED <<rows, routes, worker, queue, jobs, deaths, overrides, lost>>
  BY DEF IngestNew
<1>2. x \in Request /\ x.at = "creating"
  BY IdleIsGood DEF Request
<1> HIDE DEF x
<1>3. GoodRequest(x, DOMAIN rows)
  BY <1>2 DEF GoodRequest
<1>4. \A j \in DOMAIN rows : Asks(req[r], j) => Asks(x, j) \/ j \in lost'
  BY <1>1 DEF Asks
<1>5. UNCHANGED <<rows, routes, worker, queue, jobs>>
  BY <1>1
<1>6. /\ deaths' \in 0..MaxDeaths /\ deaths <= deaths' /\ overrides' \in 0..MaxOverrides
      /\ lost' \in SUBSET (1..MaxRows) /\ lost \subseteq lost'
  BY <1>1, SameCounters
<1> QED
  BY <1>1, <1>2, <1>3, <1>4, <1>5, <1>6, RequestReads, ZenonT(60)

LEMMA IngestAgainKeeps ==
    ASSUME Core, NEW r \in Req, IngestAgain(r)
    PROVE  Core'
<1> DEFINE j == Oldest(Known)
           x == [Idle EXCEPT !.at = "retrying", !.row = j,
                             !.status = rows[j].status, !.data = rows[j].data]
<1>1. req' = [req EXCEPT ![r] = x] /\ req[r].at = "idle" /\ Known # {}
      /\ UNCHANGED <<rows, routes, worker, queue, jobs, deaths, overrides, lost>>
  BY DEF IngestAgain
<1>2. j \in DOMAIN rows
  BY <1>1, OldestIsKnown
<1> HIDE DEF j
<1>3. x \in Request /\ x.at = "retrying" /\ x.row = j
  BY <1>2, RowOf, IdleIsGood DEF Request
<1> HIDE DEF x
<1>4. GoodRequest(x, DOMAIN rows)
  BY <1>2, <1>3 DEF GoodRequest
<1>5. \A k \in DOMAIN rows : Asks(req[r], k) => Asks(x, k) \/ k \in lost'
  BY <1>1 DEF Asks
<1>6. UNCHANGED <<rows, routes, worker, queue, jobs>>
  BY <1>1
<1>7. /\ deaths' \in 0..MaxDeaths /\ deaths <= deaths' /\ overrides' \in 0..MaxOverrides
      /\ lost' \in SUBSET (1..MaxRows) /\ lost \subseteq lost'
  BY <1>1, SameCounters
<1> QED
  BY <1>1, <1>3, <1>4, <1>5, <1>6, <1>7, RequestReads, ZenonT(60)

LEMMA InsertRefusedKeeps ==
    ASSUME Core, NEW r \in Req, InsertRefused(r)
    PROVE  Core'
<1>1. req' = [req EXCEPT ![r] = Idle] /\ req[r].at = "creating"
      /\ UNCHANGED <<rows, routes, worker, queue, jobs, deaths, overrides, lost>>
  BY DEF InsertRefused
<1>2. Idle \in Request /\ GoodRequest(Idle, DOMAIN rows)
  BY IdleIsGood
<1>3. \A j \in DOMAIN rows : Asks(req[r], j) => Asks(Idle, j) \/ j \in lost'
  BY <1>1 DEF Asks
<1>4. UNCHANGED <<rows, routes, worker, queue, jobs>>
  BY <1>1
<1>5. /\ deaths' \in 0..MaxDeaths /\ deaths <= deaths' /\ overrides' \in 0..MaxOverrides
      /\ lost' \in SUBSET (1..MaxRows) /\ lost \subseteq lost'
  BY <1>1, SameCounters
<1> QED
  BY <1>1, <1>2, <1>3, <1>4, <1>5, RequestReads, ZenonT(60)

LEMMA RequestDiesKeeps ==
    ASSUME Core, NEW r \in Req, RequestDies(r)
    PROVE  Core'
<1>1. /\ req' = [req EXCEPT ![r] = Idle] /\ req[r].at # "idle" /\ deaths < MaxDeaths
      /\ deaths' = deaths + 1
      /\ lost' = IF req[r].at \in {"created", "enqueueing"} THEN lost \cup {req[r].row} ELSE lost
      /\ UNCHANGED <<rows, routes, worker, queue, jobs, overrides>>
  BY DEF RequestDies
<1>2. Idle \in Request /\ GoodRequest(Idle, DOMAIN rows)
  BY IdleIsGood
<1>3. \A j \in DOMAIN rows : Asks(req[r], j) => Asks(Idle, j) \/ j \in lost'
  BY <1>1 DEF Asks
<1>4. UNCHANGED <<rows, routes, worker, queue, jobs>>
  BY <1>1
<1>5. lost' \in SUBSET (1..MaxRows) /\ lost \subseteq lost'
  <2>1. req[r].at \in {"created", "enqueueing"} => req[r].row \in 1..MaxRows
    BY RequestOf, RowOf DEF GoodRequest
  <2> QED
    BY <1>1, <2>1, SameCounters
<1>6. deaths' \in 0..MaxDeaths /\ deaths <= deaths' /\ overrides' \in 0..MaxOverrides
  BY <1>1, SameCounters, IntakeAssumption
<1> QED
  BY <1>1, <1>2, <1>3, <1>4, <1>5, <1>6, RequestReads, ZenonT(60)

LEMMA OverrideReadKeeps ==
    ASSUME Core, NEW r \in Req, OverrideRead(r)
    PROVE  Core'
<1>1. /\ req[r].at = "idle" /\ overrides < MaxOverrides /\ overrides' = overrides + 1
      /\ UNCHANGED <<rows, routes, worker, queue, jobs, deaths, lost>>
  BY DEF OverrideRead
<1>2. PICK j \in DOMAIN rows, type \in Preferences :
        req' = [req EXCEPT ![r] = [Idle EXCEPT !.at = "overriding", !.row = j,
                                     !.choice = type, !.read = routes[j]]]
  BY DEF OverrideRead, Rows
<1> DEFINE x == [Idle EXCEPT !.at = "overriding", !.row = j, !.choice = type, !.read = routes[j]]
<1>3. x \in Request /\ x.at = "overriding" /\ x.row = j /\ x.choice = type
  <2>1. j \in 0..MaxRows /\ routes[j] \in Seq(RouteRow)
    BY RowOf
  <2> QED
    BY <2>1, IdleIsGood DEF Request
<1>4. req' = [req EXCEPT ![r] = x]
  BY <1>2
<1> HIDE DEF x
<1>5. GoodRequest(x, DOMAIN rows)
  BY <1>3 DEF GoodRequest
<1>6. \A k \in DOMAIN rows : Asks(req[r], k) => Asks(x, k) \/ k \in lost'
  BY <1>1 DEF Asks
<1>7. UNCHANGED <<rows, routes, worker, queue, jobs>>
  BY <1>1
<1>8. /\ deaths' \in 0..MaxDeaths /\ deaths <= deaths'
      /\ lost' \in SUBSET (1..MaxRows) /\ lost \subseteq lost'
  BY <1>1, SameCounters
<1>9. overrides' \in 0..MaxOverrides
  BY <1>1, SameCounters, IntakeAssumption
<1> QED
  BY <1>3, <1>4, <1>5, <1>6, <1>7, <1>8, <1>9, RequestReads, ZenonT(60)

LEMMA ExpireReadKeeps ==
    ASSUME Core, NEW r \in Req, ExpireRead(r)
    PROVE  Core'
<1>1. /\ req[r].at = "idle"
      /\ UNCHANGED <<rows, routes, worker, queue, jobs, deaths, overrides, lost>>
  BY DEF ExpireRead
<1>2. PICK j \in DOMAIN rows : Stale(rows[j]) /\
        req' = [req EXCEPT ![r] = [Idle EXCEPT !.at = "expiring", !.row = j,
                                     !.status = rows[j].status, !.data = rows[j].data]]
  BY DEF ExpireRead, Rows
<1> DEFINE x == [Idle EXCEPT !.at = "expiring", !.row = j,
                             !.status = rows[j].status, !.data = rows[j].data]
<1>3. x \in Request /\ x.at = "expiring" /\ x.row = j /\ x.status = rows[j].status
  BY RowOf, IdleIsGood DEF Request
<1>4. req' = [req EXCEPT ![r] = x]
  BY <1>2
<1> HIDE DEF x
<1>5. GoodRequest(x, DOMAIN rows)
  BY <1>2, <1>3 DEF GoodRequest, Stale
<1>6. \A k \in DOMAIN rows : Asks(req[r], k) => Asks(x, k) \/ k \in lost'
  BY <1>1 DEF Asks
<1>7. UNCHANGED <<rows, routes, worker, queue, jobs>>
  BY <1>1
<1>8. /\ deaths' \in 0..MaxDeaths /\ deaths <= deaths' /\ overrides' \in 0..MaxOverrides
      /\ lost' \in SUBSET (1..MaxRows) /\ lost \subseteq lost'
  BY <1>1, SameCounters
<1> QED
  BY <1>3, <1>4, <1>5, <1>6, <1>7, <1>8, RequestReads, ZenonT(60)

LEMMA SameRoutes ==
    ASSUME Core
    PROVE  routes \in Seq(Seq(RouteRow)) /\ Len(routes) = Len(rows)
  BY DEF Core, TypeOK

LEMMA ProcessingKeeps ==
    ASSUME Core, NEW r \in Req, Processing(r)
    PROVE  Core'
<1> DEFINE j == req[r].row
           row == Flush(rows[j], "processing", "empty", req[r])
           x == [req[r] EXCEPT !.at = "enqueueing", !.status = "processing", !.data = "empty"]
<1>1. /\ req[r].at \in {"created", "retrying"}
      /\ rows' = [rows EXCEPT ![j] = row]
      /\ UNCHANGED <<routes, worker, queue, jobs, deaths, overrides, lost>>
  BY DEF Processing
<1>2. req[r] \in Request /\ req \in [Req -> Request]
  BY RequestOf DEF Core, TypeOK
<1>3. req' = [req EXCEPT ![r] = x]
  BY <1>2 DEF Processing
<1>4. j \in DOMAIN rows
  BY <1>1, RequestOf DEF GoodRequest
<1>5. x \in Request /\ x.at = "enqueueing" /\ x.status = "processing" /\ x.row = j
  BY <1>2 DEF Request, Status, Data
<1>6. row \in Row
  BY <1>4, RowOf, FlushIsRow DEF Status, Data
<1> HIDE DEF x, row
<1>7. GoodRequest(x, DOMAIN rows)
  BY <1>4, <1>5 DEF GoodRequest
<1>8. \A k \in DOMAIN rows : Asks(req[r], k) => Asks(x, k) \/ (k = j /\ ~Waiting(row))
  BY <1>5 DEF Asks
<1>9. Waiting(row) => Waiting(rows[j]) \/ Asks(x, j)
  BY <1>5 DEF Asks
<1>10. routes' \in Seq(Seq(RouteRow)) /\ Len(routes') = Len(rows)
  BY <1>1, SameRoutes
<1>11. UNCHANGED <<worker, queue, jobs, deaths, overrides, lost>>
  BY <1>1
<1> HIDE DEF j
<1> QED
  <2>1. Commits(r, x, j, row)
    BY <1>1, <1>3, <1>4, <1>5, <1>6, <1>7, <1>8, <1>9, <1>10, <1>11 DEF Commits
  <2> QED
    BY <2>1, RequestWrites

\* A request gives its row up: it writes FAILED over another status it has loaded.
LEMMA GivingUpKeeps ==
    ASSUME Core, NEW r \in Req, req[r].at \in {"enqueueing", "expiring"},
           rows' = [rows EXCEPT ![req[r].row] = Flush(rows[req[r].row], "failed", "error", req[r])],
           req' = [req EXCEPT ![r] = Idle],
           UNCHANGED <<routes, worker, queue, jobs, deaths, overrides, lost>>
    PROVE  Core'
<1> DEFINE j == req[r].row
           row == Flush(rows[j], "failed", "error", req[r])
<1>1. j \in DOMAIN rows /\ req[r].status # "failed"
  BY RequestOf DEF GoodRequest
<1>2. row \in Row /\ row.status = "failed"
  BY <1>1, RowOf, FlushIsRow DEF Status, Data
<1>3. rows' = [rows EXCEPT ![j] = row]
  OBVIOUS
<1>4. \A k \in DOMAIN rows : Asks(req[r], k) => k = j
  BY DEF Asks
<1> HIDE DEF row, j
<1>5. ~Waiting(row)
  BY <1>2 DEF Waiting
<1>6. \A k \in DOMAIN rows : Asks(req[r], k) => Asks(Idle, k) \/ (k = j /\ ~Waiting(row))
  BY <1>4, <1>5
<1>7. Waiting(row) => Waiting(rows[j]) \/ Asks(Idle, j)
  BY <1>5
<1>8. routes' \in Seq(Seq(RouteRow)) /\ Len(routes') = Len(rows)
  BY SameRoutes
<1>9. Idle \in Request /\ GoodRequest(Idle, DOMAIN rows)
  BY IdleIsGood
<1>10. UNCHANGED <<worker, queue, jobs, deaths, overrides, lost>>
  OBVIOUS
<1> QED
  <2>1. Commits(r, Idle, j, row)
    BY <1>1, <1>2, <1>3, <1>6, <1>7, <1>8, <1>9, <1>10 DEF Commits
  <2> QED
    BY <2>1, RequestWrites

LEMMA NoQueueKeeps ==
    ASSUME Core, NEW r \in Req, NoQueue(r)
    PROVE  Core'
<1>1. /\ req[r].at \in {"enqueueing", "expiring"}
      /\ rows' = [rows EXCEPT ![req[r].row] = Flush(rows[req[r].row], "failed", "error", req[r])]
      /\ req' = [req EXCEPT ![r] = Idle]
      /\ UNCHANGED <<routes, worker, queue, jobs, deaths, overrides, lost>>
  BY DEF NoQueue, Unqueued
<1> QED
  BY <1>1, GivingUpKeeps

LEMMA ExpireCommitKeeps ==
    ASSUME Core, NEW r \in Req, ExpireCommit(r)
    PROVE  Core'
<1>1. /\ req[r].at \in {"enqueueing", "expiring"}
      /\ rows' = [rows EXCEPT ![req[r].row] = Flush(rows[req[r].row], "failed", "error", req[r])]
      /\ req' = [req EXCEPT ![r] = Idle]
      /\ UNCHANGED <<routes, worker, queue, jobs, deaths, overrides, lost>>
  BY DEF ExpireCommit
<1> QED
  BY <1>1, GivingUpKeeps

\* What an override commits.
LEMMA OverrideWrites ==
    ASSUME Core, NEW r \in Req, req[r].at = "overriding"
    PROVE  LET j == req[r].row
               old == req[r].read
               new == Override(old, req[r].choice)
           IN  /\ j \in DOMAIN rows
               /\ Written(routes[j], old, new) \in Seq(RouteRow)
               /\ old = routes[j] => /\ ClearRoutes(Written(routes[j], old, new))
                                     /\ UserPreferred(Written(routes[j], old, new))
<1> DEFINE j == req[r].row
           old == req[r].read
           new == Override(old, req[r].choice)
<1>1. req[r] \in Request /\ GoodRequest(req[r], DOMAIN rows)
  BY RequestOf
<1>2. j \in DOMAIN rows /\ req[r].choice \in RouteType
  BY <1>1, IntakeAssumption DEF GoodRequest
<1>3. old \in Seq(RouteRow)
  BY <1>1 DEF Request
<1>4. routes[j] \in Seq(RouteRow)
  BY <1>2, RowOf
<1> HIDE DEF old, j
<1>5. /\ new \in Seq(RouteRow) /\ Len(old) <= Len(new)
      /\ \A i \in DOMAIN old : new[i].type = old[i].type /\ new[i].at = old[i].at
      /\ ClearRoutes(new) /\ UserPreferred(new)
  BY <1>2, <1>3, OverrideChooses
<1> HIDE DEF new
<1>6. /\ Written(routes[j], old, new) \in Seq(RouteRow)
      /\ (routes[j] = old /\ \A i \in DOMAIN old : new[i].type = old[i].type /\ new[i].at = old[i].at)
         => Written(routes[j], old, new) = new
  BY <1>3, <1>4, <1>5, WrittenIsRows
<1> QED
  BY <1>2, <1>5, <1>6 DEF new, old, j

LEMMA OverrideCommitKeeps ==
    ASSUME Core, NEW r \in Req, OverrideCommit(r)
    PROVE  Core'
<1> DEFINE j == req[r].row
           row == [rows[j] EXCEPT !.raced = @ \/ req[r].read # routes[j]]
           rs == Written(routes[j], req[r].read, Override(req[r].read, req[r].choice))
<1>1. /\ req[r].at = "overriding"
      /\ routes' = [routes EXCEPT ![j] = rs]
      /\ req' = [req EXCEPT ![r] = Idle]
      /\ UNCHANGED <<worker, queue, jobs, deaths, overrides, lost>>
  BY DEF OverrideCommit
<1>2. rows' = [rows EXCEPT ![j] = row]
  BY DEF OverrideCommit
<1>3. j \in DOMAIN rows /\ rs \in Seq(RouteRow)
  BY <1>1, OverrideWrites
<1> HIDE DEF j, rs
<1>4. row \in Row /\ row.status = rows[j].status
  <2>1. rows[j] \in Row
    BY <1>3, RowOf
  <2>2. (rows[j].raced \/ req[r].read # routes[j]) \in BOOLEAN
    OBVIOUS
  <2> QED
    BY <2>1, <2>2 DEF Row
<1> HIDE DEF row
<1>5. \A k \in DOMAIN rows : Asks(req[r], k) => Asks(Idle, k) \/ (k = j /\ ~Waiting(row))
  BY <1>1 DEF Asks
<1>6. Waiting(row) => Waiting(rows[j]) \/ Asks(Idle, j)
  BY <1>4 DEF Waiting
<1>7. routes' \in Seq(Seq(RouteRow)) /\ Len(routes') = Len(rows)
  BY <1>1, <1>3, RoutesStep DEF Core
<1>8. Idle \in Request /\ GoodRequest(Idle, DOMAIN rows)
  BY IdleIsGood
<1>9. UNCHANGED <<worker, queue, jobs, deaths, overrides, lost>>
  BY <1>1
<1> QED
  <2>1. Commits(r, Idle, j, row)
    BY <1>1, <1>2, <1>3, <1>4, <1>5, <1>6, <1>7, <1>8, <1>9 DEF Commits
  <2> QED
    BY <2>1, RequestWrites

LEMMA EnqueueKeeps ==
    ASSUME Core, NEW r \in Req, Enqueue(r)
    PROVE  Core'
<1> DEFINE j == req[r].row
<1>1. /\ req[r].at = "enqueueing" /\ jobs < MaxJobs
      /\ queue' = [queue EXCEPT ![j] = queue[j] + 1] /\ jobs' = jobs + 1
      /\ req' = [req EXCEPT ![r] = Idle]
      /\ UNCHANGED <<rows, routes, worker, deaths, overrides, lost>>
  BY DEF Enqueue
<1>2. TypeOK /\ RowsLoaded /\ QueueBounded /\ Served
  BY DEF Core
<1>3. j \in DOMAIN rows
  BY <1>1, RequestOf DEF GoodRequest
<1>4. j \in 1..MaxRows /\ DOMAIN rows \subseteq 1..MaxRows
  BY <1>3, RowOf
<1>5. Idle \in Request /\ GoodRequest(Idle, DOMAIN rows) /\ DOMAIN rows \subseteq DOMAIN rows
  BY IdleIsGood
<1>6. /\ req' \in [Req -> Request] /\ \A q \in Req : GoodRequest(req'[q], DOMAIN rows)
      /\ \A k \in 1..MaxRows : Asks(Idle, k) => Asking(req', k)
      /\ \A k \in 1..MaxRows : Asking(req, k) => Asking(req', k) \/ Asks(req[r], k)
  BY <1>1, <1>2, <1>5, RequestStep, ZenonT(30)
<1>7. /\ jobs \in Nat /\ deaths \in Nat /\ MaxJobs \in Nat /\ MaxDeaths \in Nat
      /\ jobs + 1 <= MaxJobs /\ deaths <= MaxDeaths
  BY <1>1, <1>2, IntakeAssumption DEF TypeOK
<1>8. \A k \in 1..MaxRows : queue[k] \in Nat /\ queue[k] <= jobs + deaths
  <2>1. \A k \in 1..MaxRows : queue[k] \in Nat
    BY <1>2, <1>7 DEF TypeOK
  <2>2. \A k \in 1..MaxRows : queue[k] <= jobs + deaths
    BY <1>2 DEF QueueBounded
  <2> QED
    BY <2>1, <2>2
<1>9. \A k \in 1..MaxRows : /\ queue'[k] \in Nat /\ queue[k] <= queue'[k]
                            /\ queue'[k] <= (jobs + 1) + deaths
  <2> TAKE k \in 1..MaxRows
  <2>1. queue'[k] = IF k = j THEN queue[k] + 1 ELSE queue[k]
    BY <1>1, <1>2 DEF TypeOK
  <2> QED
    BY <1>7, <1>8, <2>1
<1>10. queue' \in [1..MaxRows -> 0..(MaxJobs + MaxDeaths)]
  <2>1. \A k \in 1..MaxRows : queue'[k] \in 0..(MaxJobs + MaxDeaths)
    BY <1>7, <1>9
  <2>2. queue' = [k \in 1..MaxRows |-> queue'[k]]
    BY <1>1, <1>2 DEF TypeOK
  <2> QED
    BY <2>1, <2>2
<1>11. jobs' \in 0..MaxJobs
  BY <1>1, <1>7
<1>12. TypeOK'
  BY <1>1, <1>2, <1>6, <1>10, <1>11 DEF TypeOK
<1>13. RowsLoaded'
  BY <1>1, <1>2, <1>6 DEF RowsLoaded
<1>14. QueueBounded'
  BY <1>1, <1>9 DEF QueueBounded
<1>15. Served'
  <2> SUFFICES ASSUME NEW k \in DOMAIN rows, Waiting(rows[k])
               PROVE  k \in lost \/ queue'[k] > 0 \/ Finishing(worker, k) \/ Asking(req', k)
    BY <1>1 DEF Served
  <2>1. k \in 1..MaxRows
    BY <1>4
  <2>2. queue[k] > 0 => queue'[k] > 0
    BY <1>8, <1>9, <2>1
  <2>3. CASE k = j
    <3>1. queue'[k] = queue[k] + 1
      BY <1>1, <1>2, <2>1, <2>3 DEF TypeOK
    <3> QED
      BY <1>8, <2>1, <3>1
  <2>4. CASE k # j
    <3>1. ~Asks(req[r], k)
      BY <2>4 DEF Asks
    <3> QED
      BY <1>2, <1>6, <2>1, <2>2, <3>1 DEF Served
  <2> QED
    BY <2>3, <2>4
<1> QED
  BY <1>12, <1>13, <1>14, <1>15 DEF Core

LEMMA InsertKeeps ==
    ASSUME Core, NEW r \in Req, Insert(r)
    PROVE  Core'
<1> DEFINE row == [status |-> "received", data |-> "empty", pid |-> TextHash,
                   old |-> FALSE, raced |-> FALSE]
           new == Len(rows) + 1
           x == [req[r] EXCEPT !.at = "created", !.row = new]
<1>1. /\ req[r].at = "creating" /\ Len(rows) < MaxRows
      /\ rows' = Append(rows, row) /\ routes' = Append(routes, << >>)
      /\ UNCHANGED <<worker, queue, jobs, deaths, overrides, lost>>
  BY DEF Insert
<1>2. TypeOK /\ RowsLoaded /\ QueueBounded /\ Served
  BY DEF Core
<1>3. req[r] \in Request /\ req \in [Req -> Request]
  BY <1>2 DEF TypeOK
<1>4. req' = [req EXCEPT ![r] = x]
  BY <1>3 DEF Insert
<1>5. row \in Row
  BY DEF Row, Status, Data
<1>6. /\ Len(rows) \in Nat /\ Len(rows) <= MaxRows /\ DOMAIN rows = 1..Len(rows)
      /\ MaxRows \in Nat /\ new \in 1..MaxRows /\ new \in 0..MaxRows /\ 1..new = 1..Len(rows) \cup {new}
  <2>1. Len(rows) \in 0..MaxRows /\ DOMAIN rows = 1..Len(rows) /\ MaxRows \in Nat
    BY <1>2, RowNumbers, IntakeAssumption
  <2> QED
    BY <1>1, <2>1
<1>7. x \in Request /\ x.at = "created" /\ x.row = new
  BY <1>3, <1>6 DEF Request
<1> HIDE DEF x, row
<1>8. /\ rows' \in Seq(Row) /\ Len(rows') = new /\ DOMAIN rows' = 1..new
      /\ \A k \in DOMAIN rows : rows'[k] = rows[k]
  <2>1. rows \in Seq(Row)
    BY <1>2 DEF TypeOK
  <2> QED
    BY <1>1, <1>5, <1>6, <2>1, AppendProperties, LenProperties
<1>9. routes' \in Seq(Seq(RouteRow)) /\ Len(routes') = new
  <2> DEFINE S == Seq(RouteRow)
             none == << >>
  <2>1. routes \in Seq(S) /\ Len(routes) = Len(rows) /\ none \in S
    BY <1>2 DEF TypeOK
  <2>2. routes' = Append(routes, none)
    BY <1>1
  <2> HIDE DEF S, none
  <2>3. routes' \in Seq(S) /\ Len(routes') = Len(routes) + 1
    BY <2>1, <2>2, AppendProperties
  <2> QED
    BY <2>1, <2>3 DEF S
<1> HIDE DEF new
<1>10. DOMAIN rows \subseteq 1..new /\ new \in 1..new
  BY <1>6, <1>8 DEF new
<1>11. GoodRequest(x, 1..new)
  BY <1>7, <1>10 DEF GoodRequest
<1>12. /\ req' \in [Req -> Request] /\ \A q \in Req : GoodRequest(req'[q], 1..new)
       /\ \A k \in 1..MaxRows : Asks(x, k) => Asking(req', k)
       /\ \A k \in 1..MaxRows : Asking(req, k) => Asking(req', k) \/ Asks(req[r], k)
  <2> DEFINE D == 1..new
  <2>1. DOMAIN rows \subseteq D /\ GoodRequest(x, D)
    BY <1>10, <1>11
  <2> HIDE DEF D
  <2>2. /\ req' \in [Req -> Request] /\ \A q \in Req : GoodRequest(req'[q], D)
        /\ \A k \in 1..MaxRows : Asks(x, k) => Asking(req', k)
        /\ \A k \in 1..MaxRows : Asking(req, k) => Asking(req', k) \/ Asks(req[r], k)
    BY <1>2, <1>4, <1>7, <2>1, RequestStep, ZenonT(30)
  <2> QED
    BY <2>2 DEF D
<1>13. TypeOK'
  <2>1. Len(rows') <= MaxRows
    BY <1>6, <1>8
  <2> QED
    BY <1>1, <1>2, <1>8, <1>9, <1>12, <2>1 DEF TypeOK
<1>14. RowsLoaded'
  BY <1>1, <1>2, <1>8, <1>10, <1>12 DEF RowsLoaded, GoodSlot
<1>15. QueueBounded'
  BY <1>1, <1>2 DEF QueueBounded
<1>16. Served'
  <2> SUFFICES ASSUME NEW k \in 1..new, Waiting(rows'[k])
               PROVE  k \in lost \/ queue[k] > 0 \/ Finishing(worker, k) \/ Asking(req', k)
    BY <1>1, <1>8 DEF Served
  <2>1. k \in 1..MaxRows
    BY <1>6, <1>8
  <2>2. CASE k = new
    BY <1>7, <1>12, <2>1, <2>2 DEF Asks
  <2>3. CASE k # new
    <3>1. k \in DOMAIN rows
      BY <1>6, <1>8, <2>3
    <3>2. ~Asks(req[r], k)
      BY <1>1 DEF Asks
    <3> QED
      BY <1>2, <1>8, <1>12, <2>1, <3>1, <3>2 DEF Served
  <2> QED
    BY <2>2, <2>3
<1> QED
  BY <1>13, <1>14, <1>15, <1>16 DEF Core

\* A worker goes on with its row: it takes the row out of its status or will do so.
LEMMA GoingOnKeeps ==
    ASSUME Core, NEW w \in Worker, worker[w].at # "idle", NEW x \in Slot, NEW row \in Row,
           worker' = [worker EXCEPT ![w] = x], rows' = [rows EXCEPT ![worker[w].row] = row],
           UNCHANGED <<req, queue, jobs, deaths, overrides, lost>>,
           routes' \in Seq(Seq(RouteRow)), Len(routes') = Len(rows),
           x.at = "idle" \/ x.row = worker[w].row,
           Waiting(row) => Waiting(rows[worker[w].row]),
           Waiting(row) /\ Finishes(worker[w], worker[w].row) => Finishes(x, worker[w].row)
    PROVE  Core'
<1> DEFINE j == worker[w].row
<1>1. j \in DOMAIN rows
  BY SlotOf DEF GoodSlot
<1>2. GoodSlot(x, DOMAIN rows)
  BY <1>1 DEF GoodSlot
<1>3. \A k \in DOMAIN rows : Finishes(worker[w], k) => k = j
  BY DEF Finishes
<1>4. rows' = [rows EXCEPT ![j] = row]
  OBVIOUS
<1>5. Waiting(row) /\ Finishes(worker[w], j) => Finishes(x, j)
  OBVIOUS
<1>6. Waiting(row) => Waiting(rows[j])
  OBVIOUS
<1> HIDE DEF j
<1>7. \A k \in DOMAIN rows : Finishes(worker[w], k) => Finishes(x, k) \/ (k = j /\ ~Waiting(row))
  BY <1>3, <1>5
<1>8. Writes(w, x, j, row)
  BY <1>1, <1>2, <1>4, <1>6, <1>7 DEF Writes
<1> QED
  BY <1>8, WorkerWrites

\* A row that is written as it is.
LEMMA SameRows ==
    ASSUME Core, NEW j \in DOMAIN rows, UNCHANGED rows
    PROVE  rows' = [rows EXCEPT ![j] = rows[j]]
<1>1. TypeOK
  BY DEF Core
<1>2. rows \in [1..Len(rows) -> Row] /\ DOMAIN rows = 1..Len(rows)
  BY <1>1, LenProperties DEF TypeOK
<1> QED
  BY <1>2

LEMMA MergeReadKeeps ==
    ASSUME Core, NEW w \in Worker, MergeRead(w)
    PROVE  Core'
<1> DEFINE j == worker[w].row
           x == [worker[w] EXCEPT !.at = "merging", !.read = routes[j]]
<1>1. worker[w].at = "extracting"
      /\ UNCHANGED <<rows, routes, req, queue, jobs, deaths, overrides, lost>>
  BY DEF MergeRead
<1>2. worker[w] \in Slot /\ worker \in [Worker -> Slot]
  BY SlotOf DEF Core, TypeOK
<1>3. worker' = [worker EXCEPT ![w] = x]
  BY <1>2 DEF MergeRead
<1>4. j \in DOMAIN rows
  BY <1>1, SlotOf DEF GoodSlot
<1>5. rows[j] \in Row /\ routes[j] \in Seq(RouteRow)
  BY <1>4, RowOf
<1>6. x \in Slot /\ x.at = "merging" /\ x.row = j /\ x.status = worker[w].status
  BY <1>2, <1>5 DEF Slot
<1> HIDE DEF x
<1>7. Finishes(worker[w], j) => Finishes(x, j)
  BY <1>1, <1>6 DEF Finishes
<1>8. rows' = [rows EXCEPT ![j] = rows[j]]
  BY <1>1, <1>4, SameRows
<1>9. routes' \in Seq(Seq(RouteRow)) /\ Len(routes') = Len(rows)
  BY <1>1, SameRoutes
<1> QED
  BY <1>1, <1>3, <1>5, <1>6, <1>7, <1>8, <1>9, GoingOnKeeps

\* What the merge commits.
LEMMA MergeWrites ==
    ASSUME Core, NEW w \in Worker, worker[w].at = "merging", NEW p \in Postings
    PROVE  LET j == worker[w].row
               old == worker[w].read
               new == Written(routes[j], old, Merged(old, p))
           IN  /\ j \in DOMAIN rows
               /\ new \in Seq(RouteRow)
               /\ old = routes[j] => /\ ClearRoutes(old) => ClearRoutes(new)
                                     /\ UserPreferred(old) => UserPreferred(new)
<1> DEFINE j == worker[w].row
           old == worker[w].read
           merged == Merged(old, p)
<1>1. worker[w] \in Slot /\ GoodSlot(worker[w], DOMAIN rows)
  BY SlotOf
<1>2. j \in DOMAIN rows
  BY <1>1 DEF GoodSlot
<1>3. old \in Seq(RouteRow)
  BY <1>1 DEF Slot
<1>4. routes[j] \in Seq(RouteRow)
  BY <1>2, RowOf
<1>5. Resolve(p) \in Seq(Route) /\ AtMostOne(Resolve(p))
  BY ResolvedIsRoutes, IntakeAssumption
<1>6. merged = Merge(old, Resolve(p))
  BY DEF Merged
<1> HIDE DEF old, j, merged
<1>7. /\ merged \in Seq(RouteRow) /\ Extends(old, merged)
      /\ ClearRoutes(old) => ClearRoutes(merged)
  BY <1>3, <1>5, <1>6, MergeKeeps
<1>8. UserPreferred(old) => UserPreferred(merged)
  BY <1>3, <1>7, ExtendsKeepsChoice
<1>9. /\ Len(old) <= Len(merged)
      /\ \A i \in DOMAIN old : merged[i].type = old[i].type /\ merged[i].at = old[i].at
  BY <1>7 DEF Extends, Kept
<1>10. /\ Written(routes[j], old, merged) \in Seq(RouteRow)
       /\ (routes[j] = old
           /\ \A i \in DOMAIN old : merged[i].type = old[i].type /\ merged[i].at = old[i].at)
          => Written(routes[j], old, merged) = merged
  BY <1>3, <1>4, <1>7, <1>9, WrittenIsRows
<1> QED
  BY <1>2, <1>7, <1>8, <1>9, <1>10 DEF old, j, merged

LEMMA MergeCommitKeeps ==
    ASSUME Core, NEW w \in Worker, MergeCommit(w)
    PROVE  Core'
<1> DEFINE j == worker[w].row
           x == [worker[w] EXCEPT !.at = "analysing", !.read = << >>]
<1>1. worker[w].at = "merging" /\ UNCHANGED <<req, queue, jobs, deaths, overrides, lost>>
  BY DEF MergeCommit
<1>2. worker[w] \in Slot /\ worker \in [Worker -> Slot]
  BY SlotOf DEF Core, TypeOK
<1>3. worker' = [worker EXCEPT ![w] = x]
  BY <1>2 DEF MergeCommit
<1>4. PICK c \in Contents :
        rows' = [rows EXCEPT ![j] = [rows[j] EXCEPT !.pid = c, !.old = FALSE,
                   !.raced = rows[j].raced \/ worker[w].read # routes[j]]]
  BY DEF MergeCommit
<1>5. PICK p \in Postings :
        routes' = [routes EXCEPT ![j] = Written(routes[j], worker[w].read, Merged(worker[w].read, p))]
  BY DEF MergeCommit
<1> DEFINE row == [rows[j] EXCEPT !.pid = c, !.old = FALSE,
                     !.raced = rows[j].raced \/ worker[w].read # routes[j]]
           rs == Written(routes[j], worker[w].read, Merged(worker[w].read, p))
<1>6. j \in DOMAIN rows /\ rs \in Seq(RouteRow)
  BY <1>1, MergeWrites
<1>7. row \in Row /\ row.status = rows[j].status
  <2>1. rows[j] \in Row
    BY <1>6, RowOf
  <2>2. (rows[j].raced \/ worker[w].read # routes[j]) \in BOOLEAN
    OBVIOUS
  <2> QED
    BY <2>1, <2>2 DEF Row
<1>8. rows' = [rows EXCEPT ![j] = row]
  BY <1>4
<1>9. routes' = [routes EXCEPT ![j] = rs]
  BY <1>5
<1> HIDE DEF row, rs
<1>10. routes' \in Seq(Seq(RouteRow)) /\ Len(routes') = Len(rows)
  <2> HIDE DEF j, x
  <2> QED
    BY <1>6, <1>9, RoutesStep DEF Core
<1>11. x \in Slot /\ x.at = "analysing" /\ x.row = j /\ x.status = worker[w].status
  <2>1. << >> \in Seq(RouteRow)
    OBVIOUS
  <2> QED
    BY <1>2, <2>1 DEF Slot
<1> HIDE DEF x
<1>12. Finishes(worker[w], j) => Finishes(x, j)
  BY <1>1, <1>11 DEF Finishes
<1>13. Waiting(row) => Waiting(rows[j])
  BY <1>7 DEF Waiting
<1> QED
  BY <1>1, <1>3, <1>7, <1>8, <1>10, <1>11, <1>12, <1>13, GoingOnKeeps

LEMMA AnalyseKeeps ==
    ASSUME Core, NEW w \in Worker, Analyse(w)
    PROVE  Core'
<1> DEFINE j == worker[w].row
<1>1. worker[w].at = "analysing" /\ UNCHANGED <<routes, req, queue, jobs, deaths, overrides, lost>>
  BY DEF Analyse
<1>2. worker[w] \in Slot /\ worker \in [Worker -> Slot]
  BY SlotOf DEF Core, TypeOK
<1>3. j \in DOMAIN rows
  BY <1>1, SlotOf DEF GoodSlot
<1>4. rows[j] \in Row
  BY <1>3, RowOf
<1>5. routes' \in Seq(Seq(RouteRow)) /\ Len(routes') = Len(rows)
  BY <1>1, SameRoutes
<1>6. PICK x \in Slot, row \in Row :
        /\ worker' = [worker EXCEPT ![w] = x] /\ rows' = [rows EXCEPT ![j] = row]
        /\ x.at = "storing" /\ x.row = j /\ x.status = worker[w].status
        /\ row.status = rows[j].status
  <2>1. CASE /\ rows' = [rows EXCEPT ![j] = [rows[j] EXCEPT !.data = "analysed", !.old = FALSE]]
             /\ worker' = [worker EXCEPT ![w].at = "storing", ![w].data = "analysed"]
    <3> DEFINE x == [worker[w] EXCEPT !.at = "storing", !.data = "analysed"]
               row == [rows[j] EXCEPT !.data = "analysed", !.old = FALSE]
    <3>1. worker' = [worker EXCEPT ![w] = x] /\ rows' = [rows EXCEPT ![j] = row]
      BY <1>2, <2>1
    <3>2. x \in Slot /\ x.at = "storing" /\ x.row = j /\ x.status = worker[w].status
      BY <1>2 DEF Slot, Data
    <3>3. row \in Row /\ row.status = rows[j].status
      BY <1>4 DEF Row, Data
    <3> HIDE DEF x, row
    <3> QED
      BY <3>1, <3>2, <3>3
  <2>2. CASE worker' = [worker EXCEPT ![w].at = "storing"] /\ UNCHANGED rows
    <3> DEFINE x == [worker[w] EXCEPT !.at = "storing"]
    <3>1. worker' = [worker EXCEPT ![w] = x]
      BY <1>2, <2>2
    <3>2. rows' = [rows EXCEPT ![j] = rows[j]]
      BY <1>3, <2>2, SameRows
    <3>3. x \in Slot /\ x.at = "storing" /\ x.row = j /\ x.status = worker[w].status
      BY <1>2 DEF Slot
    <3> HIDE DEF x
    <3> QED
      BY <1>4, <3>1, <3>2, <3>3
  <2> QED
    BY <2>1, <2>2 DEF Analyse
<1>7. Finishes(worker[w], j) => Finishes(x, j)
  BY <1>1, <1>6 DEF Finishes
<1>8. Waiting(row) => Waiting(rows[j])
  BY <1>6 DEF Waiting
<1> QED
  BY <1>1, <1>5, <1>6, <1>7, <1>8, GoingOnKeeps

LEMMA StoreKeeps ==
    ASSUME Core, NEW w \in Worker, Store(w) \/ StoreFailure(w)
    PROVE  Core'
<1> DEFINE j == worker[w].row
           last == IF worker[w].at = "failing" THEN "failed" ELSE "ready"
           data == IF worker[w].at = "failing" THEN "error" ELSE "analysed"
           row == Flush(rows[j], last, data, worker[w])
<1>1. /\ worker[w].at \in {"storing", "failing"}
      /\ rows' = [rows EXCEPT ![j] = row]
      /\ worker' = [worker EXCEPT ![w] = Free]
      /\ UNCHANGED <<routes, req, queue, jobs, deaths, overrides, lost>>
  BY DEF Store, StoreFailure
<1>2. j \in DOMAIN rows
  BY <1>1, SlotOf DEF GoodSlot
<1>3. rows[j] \in Row /\ last \in Status /\ data \in Data
  BY <1>2, RowOf DEF Status, Data
<1>4. Free \in Slot /\ Free.at = "idle"
  BY IdleIsGood DEF Free
<1>5. Finishes(worker[w], j) => last # worker[w].status
  BY DEF Finishes
<1>6. last \notin {"received", "processing"}
  OBVIOUS
<1> HIDE DEF last, data
<1>7. /\ row \in Row
      /\ row.status = IF last = worker[w].status THEN rows[j].status ELSE last
  BY <1>3, FlushIsRow
<1> HIDE DEF row
<1>8. Waiting(row) => Waiting(rows[j])
  BY <1>6, <1>7 DEF Waiting
<1>9. Waiting(row) /\ Finishes(worker[w], j) => Finishes(Free, j)
  BY <1>5, <1>6, <1>7 DEF Waiting
<1>10. routes' \in Seq(Seq(RouteRow)) /\ Len(routes') = Len(rows)
  BY <1>1, SameRoutes
<1> QED
  <2>1. worker[w].at # "idle" /\ (Free.at = "idle" \/ Free.row = worker[w].row)
    BY <1>1, <1>4
  <2>2. rows' = [rows EXCEPT ![worker[w].row] = row] /\ worker' = [worker EXCEPT ![w] = Free]
        /\ UNCHANGED <<req, queue, jobs, deaths, overrides, lost>>
    BY <1>1
  <2> QED
    BY <1>4, <1>7, <1>8, <1>9, <1>10, <2>1, <2>2, GoingOnKeeps

LEMMA FailsKeeps ==
    ASSUME Core, NEW w \in Worker, Fails(w)
    PROVE  Core'
<1> DEFINE j == worker[w].row
           x == [Free EXCEPT !.at = "failing", !.row = j,
                             !.status = rows[j].status, !.data = rows[j].data]
<1>1. /\ worker[w].at # "idle" /\ worker' = [worker EXCEPT ![w] = x]
      /\ UNCHANGED <<rows, routes, req, queue, jobs, deaths, overrides, lost>>
  BY DEF Fails
<1>2. j \in DOMAIN rows
  BY <1>1, SlotOf DEF GoodSlot
<1>3. j \in 0..MaxRows /\ rows[j] \in Row /\ rows[j].status \in Status /\ rows[j].data \in Data
  BY <1>2, RowOf
<1>4. x \in Slot /\ x.at = "failing" /\ x.row = j /\ x.status = rows[j].status
  BY <1>3, IdleIsGood DEF Slot
<1> HIDE DEF x
<1>5. Waiting(rows[j]) => Finishes(x, j)
  BY <1>4 DEF Waiting, Finishes
<1>6. rows' = [rows EXCEPT ![j] = rows[j]]
  BY <1>1, <1>2, SameRows
<1>7. routes' \in Seq(Seq(RouteRow)) /\ Len(routes') = Len(rows)
  BY <1>1, SameRoutes
<1> QED
  <2>1. worker[w].at # "idle" /\ (x.at = "idle" \/ x.row = worker[w].row)
    BY <1>1, <1>4
  <2>2. rows' = [rows EXCEPT ![worker[w].row] = rows[j]] /\ worker' = [worker EXCEPT ![w] = x]
        /\ UNCHANGED <<req, queue, jobs, deaths, overrides, lost>>
    BY <1>1, <1>6
  <2>3. Waiting(rows[j]) /\ Finishes(worker[w], j) => Finishes(x, j)
    BY <1>5
  <2>4. x \in Slot /\ rows[j] \in Row
    BY <1>3, <1>4
  <2> QED
    BY <1>7, <2>1, <2>2, <2>3, <2>4, GoingOnKeeps

LEMMA TakeKeeps ==
    ASSUME Core, NEW w \in Worker, Take(w)
    PROVE  Core'
<1>1. /\ worker[w].at = "idle"
      /\ UNCHANGED <<rows, routes, req, jobs, deaths, overrides, lost>>
  BY DEF Take
<1>2. PICK j \in DOMAIN rows :
        /\ queue[j] > 0
        /\ queue' = [queue EXCEPT ![j] = queue[j] - 1]
        /\ worker' = [worker EXCEPT ![w] = [Free EXCEPT !.at = "extracting", !.row = j,
                        !.status = rows[j].status, !.data = rows[j].data]]
  BY DEF Take, Rows
<1> DEFINE x == [Free EXCEPT !.at = "extracting", !.row = j,
                             !.status = rows[j].status, !.data = rows[j].data]
<1>3. TypeOK /\ RowsLoaded /\ QueueBounded
  BY DEF Core
<1>4. /\ j \in 1..MaxRows /\ j \in 0..MaxRows
      /\ rows[j] \in Row /\ rows[j].status \in Status /\ rows[j].data \in Data
  BY RowOf
<1>5. x \in Slot /\ x.at = "extracting" /\ x.row = j /\ x.status = rows[j].status
  BY <1>4, IdleIsGood DEF Slot
<1>6. worker' = [worker EXCEPT ![w] = x]
  BY <1>2
<1> HIDE DEF x
<1>7. GoodSlot(x, DOMAIN rows)
  BY <1>5 DEF GoodSlot
<1>8. /\ MaxJobs \in Nat /\ MaxDeaths \in Nat /\ jobs \in Nat /\ deaths \in Nat
      /\ jobs <= MaxJobs /\ deaths <= MaxDeaths
  BY <1>3, IntakeAssumption DEF TypeOK
<1>9. \A k \in 1..MaxRows : queue[k] \in Nat
  BY <1>3, <1>8 DEF TypeOK
<1>10. \A k \in 1..MaxRows : queue[k] <= jobs + deaths
  BY <1>3 DEF QueueBounded
<1>11. \A k \in 1..MaxRows : queue'[k] = IF k = j THEN queue[k] - 1 ELSE queue[k]
  BY <1>2, <1>3 DEF TypeOK
<1>12. \A k \in 1..MaxRows : queue'[k] \in Nat /\ queue'[k] <= jobs + deaths
  <2> TAKE k \in 1..MaxRows
  <2>1. queue[k] \in Nat /\ queue[k] <= jobs + deaths
    BY <1>9, <1>10
  <2>2. CASE k = j
    BY <1>2, <1>8, <1>11, <2>1, <2>2
  <2>3. CASE k # j
    BY <1>11, <2>1, <2>3
  <2> QED
    BY <2>2, <2>3
<1>13. queue' \in [1..MaxRows -> 0..(MaxJobs + MaxDeaths)]
  <2>1. \A k \in 1..MaxRows : queue'[k] \in 0..(MaxJobs + MaxDeaths)
    BY <1>8, <1>12
  <2>2. queue' = [k \in 1..MaxRows |-> queue'[k]]
    BY <1>2, <1>3 DEF TypeOK
  <2> QED
    BY <2>1, <2>2
<1>14. QueueBounded'
  BY <1>1, <1>12 DEF QueueBounded
<1>15. ASSUME NEW k \in DOMAIN rows, Waiting(rows[k]), Finishes(worker[w], k) \/ queue[k] > 0
       PROVE  Finishes(x, k) \/ k \in lost' \/ queue'[k] > 0
  <2>1. CASE k = j
    BY <1>5, <1>15, <2>1 DEF Finishes, Waiting
  <2>2. CASE k # j
    <3>1. k \in 1..MaxRows
      BY RowOf
    <3>2. queue[k] > 0
      BY <1>1, <1>15 DEF Finishes
    <3> QED
      BY <1>11, <2>2, <3>1, <3>2
  <2> QED
    BY <2>1, <2>2
<1>16. /\ deaths' \in 0..MaxDeaths /\ lost' \in SUBSET (1..MaxRows) /\ lost \subseteq lost'
  BY <1>1, SameCounters
<1>17. Takes(w, x)
  BY <1>1, <1>5, <1>6, <1>7, <1>13, <1>14, <1>15, <1>16 DEF Takes
<1> QED
  BY <1>17, WorkerTakes

LEMMA WorkerDiesKeeps ==
    ASSUME Core, NEW w \in Worker, WorkerDies(w)
    PROVE  Core'
<1> DEFINE j == worker[w].row
<1>1. /\ worker[w].at # "idle" /\ deaths < MaxDeaths /\ deaths' = deaths + 1
      /\ worker' = [worker EXCEPT ![w] = Free]
      /\ UNCHANGED <<rows, routes, req, jobs, overrides>>
      /\ \/ queue' = [queue EXCEPT ![j] = queue[j] + 1] /\ UNCHANGED lost
         \/ lost' = lost \cup {j} /\ UNCHANGED queue
  BY DEF WorkerDies
<1>2. TypeOK /\ RowsLoaded /\ QueueBounded
  BY DEF Core
<1>3. j \in DOMAIN rows
  BY <1>1, SlotOf DEF GoodSlot
<1>4. j \in 1..MaxRows
  BY <1>3, RowOf
<1>5. Free \in Slot /\ GoodSlot(Free, DOMAIN rows)
  BY IdleIsGood
<1>6. /\ MaxJobs \in Nat /\ MaxDeaths \in Nat /\ jobs \in Nat /\ deaths \in Nat
      /\ jobs <= MaxJobs /\ deaths' <= MaxDeaths /\ deaths' = deaths + 1 /\ deaths' \in Nat
  BY <1>1, <1>2, IntakeAssumption DEF TypeOK
<1>7. \A k \in 1..MaxRows : queue[k] \in Nat
  BY <1>2, <1>6 DEF TypeOK
<1>8. \A k \in 1..MaxRows : queue[k] <= jobs + deaths
  BY <1>2 DEF QueueBounded
<1>9. \A k \in 1..MaxRows :
        queue'[k] = queue[k] \/ (k = j /\ queue'[k] = queue[k] + 1)
  BY <1>1, <1>2 DEF TypeOK
<1>10. \A k \in 1..MaxRows : /\ queue'[k] \in Nat /\ queue[k] <= queue'[k]
                             /\ queue'[k] <= jobs + deaths'
  <2> TAKE k \in 1..MaxRows
  <2>1. queue[k] \in Nat /\ queue[k] <= jobs + deaths
    BY <1>7, <1>8
  <2>2. queue'[k] = queue[k] \/ queue'[k] = queue[k] + 1
    BY <1>9
  <2> QED
    BY <1>6, <2>1, <2>2
<1>11. queue' \in [1..MaxRows -> 0..(MaxJobs + MaxDeaths)]
  <2>1. \A k \in 1..MaxRows : queue'[k] \in 0..(MaxJobs + MaxDeaths)
    BY <1>6, <1>10
  <2>2. queue' = [k \in 1..MaxRows |-> queue'[k]]
    BY <1>1, <1>2 DEF TypeOK
  <2> QED
    BY <2>1, <2>2
<1>12. QueueBounded'
  BY <1>1, <1>10 DEF QueueBounded
<1>13. lost' \in SUBSET (1..MaxRows) /\ lost \subseteq lost'
  BY <1>1, <1>4, SameCounters
<1>14. j \in lost' \/ queue'[j] > 0
  <2>1. CASE queue' = [queue EXCEPT ![j] = queue[j] + 1]
    <3>1. queue'[j] = queue[j] + 1
      BY <1>2, <1>4, <2>1 DEF TypeOK
    <3>2. queue[j] \in Nat
      BY <1>4, <1>7
    <3> QED
      BY <3>1, <3>2
  <2>2. CASE lost' = lost \cup {j}
    BY <2>2
  <2> QED
    BY <1>1, <2>1, <2>2
<1>15. ASSUME NEW k \in DOMAIN rows, Finishes(worker[w], k) \/ queue[k] > 0
       PROVE  k \in lost' \/ queue'[k] > 0
  <2>1. CASE Finishes(worker[w], k)
    BY <1>14, <2>1 DEF Finishes
  <2>2. CASE queue[k] > 0
    <3>1. k \in 1..MaxRows
      BY RowOf
    <3> QED
      BY <1>7, <1>10, <2>2, <3>1
  <2> QED
    BY <1>15, <2>1, <2>2
<1>16. deaths' \in 0..MaxDeaths
  BY <1>6
<1>17. Takes(w, Free)
  BY <1>1, <1>5, <1>11, <1>12, <1>13, <1>15, <1>16 DEF Takes
<1> QED
  BY <1>17, WorkerTakes

LEMMA AgeKeeps ==
    ASSUME Core, NEW j \in DOMAIN rows, Age(j)
    PROVE  Core'
<1> DEFINE row == [rows[j] EXCEPT !.old = TRUE]
<1>1. /\ rows' = [rows EXCEPT ![j] = row]
      /\ UNCHANGED <<routes, req, worker, queue, jobs, deaths, overrides, lost>>
  BY DEF Age
<1>2. TypeOK /\ RowsLoaded /\ QueueBounded /\ Served
  BY DEF Core
<1>3. row \in Row /\ row.status = rows[j].status
  BY RowOf DEF Row
<1> HIDE DEF row
<1>4. /\ rows' \in Seq(Row) /\ Len(rows') = Len(rows) /\ DOMAIN rows' = DOMAIN rows
      /\ \A k \in DOMAIN rows : rows'[k] = IF k = j THEN row ELSE rows[k]
  BY <1>1, <1>2, <1>3, RowStep
<1>5. \A k \in DOMAIN rows : Waiting(rows'[k]) => Waiting(rows[k])
  BY <1>3, <1>4 DEF Waiting
<1>6. TypeOK'
  BY <1>1, <1>2, <1>4 DEF TypeOK
<1>7. RowsLoaded'
  BY <1>1, <1>2, <1>4 DEF RowsLoaded
<1>8. QueueBounded'
  BY <1>1, <1>2 DEF QueueBounded
<1>9. Served'
  BY <1>1, <1>2, <1>4, <1>5 DEF Served
<1> QED
  BY <1>6, <1>7, <1>8, <1>9 DEF Core

LEMMA CoreInit == Init => Core
<1> SUFFICES ASSUME Init PROVE Core
  OBVIOUS
<1>1. MaxRows \in Nat /\ MaxJobs \in Nat /\ MaxDeaths \in Nat /\ MaxOverrides \in Nat
  BY IntakeAssumption
<1>2. rows \in Seq(Row) /\ Len(rows) = 0 /\ DOMAIN rows = {}
  BY DEF Init
<1>3. routes \in Seq(Seq(RouteRow)) /\ Len(routes) = 0
  BY DEF Init
<1>4. req \in [Req -> Request] /\ \A r \in Req : GoodRequest(req[r], DOMAIN rows)
  BY IdleIsGood DEF Init
<1>5. worker \in [Worker -> Slot] /\ \A w \in Worker : GoodSlot(worker[w], DOMAIN rows)
  BY IdleIsGood DEF Init
<1>6. queue \in [1..MaxRows -> 0..(MaxJobs + MaxDeaths)] /\ \A j \in 1..MaxRows : queue[j] = 0
  <2>1. 0 \in 0..(MaxJobs + MaxDeaths)
    BY <1>1
  <2> QED
    BY <2>1 DEF Init
<1>7. jobs = 0 /\ deaths = 0 /\ overrides = 0 /\ lost = {}
  BY DEF Init
<1>8. jobs \in 0..MaxJobs /\ deaths \in 0..MaxDeaths /\ overrides \in 0..MaxOverrides
  BY <1>1, <1>7
<1>9. TypeOK
  <2>1. Len(rows) <= MaxRows /\ Len(routes) = Len(rows)
    BY <1>1, <1>2, <1>3
  <2> QED
    BY <1>2, <1>3, <1>4, <1>5, <1>6, <1>7, <1>8, <2>1 DEF TypeOK
<1>10. RowsLoaded
  BY <1>4, <1>5 DEF RowsLoaded
<1>11. QueueBounded
  BY <1>6, <1>7 DEF QueueBounded
<1>12. Served
  BY <1>2 DEF Served
<1> QED
  BY <1>9, <1>10, <1>11, <1>12 DEF Core

LEMMA CoreStep == Core /\ [Next]_vars => Core'
<1> SUFFICES ASSUME Core, [Next]_vars PROVE Core'
  OBVIOUS
<1>1. ASSUME NEW r \in Req, Ingest(r) PROVE Core'
  BY <1>1, IngestNewKeeps, IngestAgainKeeps, InsertKeeps, InsertRefusedKeeps, ProcessingKeeps,
     EnqueueKeeps, NoQueueKeeps, RequestDiesKeeps DEF Ingest
<1>2. ASSUME NEW r \in Req, Overriding(r) PROVE Core'
  BY <1>2, OverrideReadKeeps, OverrideCommitKeeps DEF Overriding
<1>3. ASSUME NEW r \in Req, Expire(r) PROVE Core'
  BY <1>3, ExpireReadKeeps, ExpireCommitKeeps DEF Expire
<1>4. ASSUME NEW w \in Worker, Process(w) PROVE Core'
  BY <1>4, TakeKeeps, MergeReadKeeps, MergeCommitKeeps, AnalyseKeeps, StoreKeeps, FailsKeeps,
     WorkerDiesKeeps DEF Process
<1>5. ASSUME NEW j \in Rows, Age(j) PROVE Core'
  BY <1>5, AgeKeeps DEF Rows
<1>6. CASE UNCHANGED vars
  BY <1>6 DEF vars, Core, TypeOK, RowsLoaded, QueueBounded, Served
<1> QED
  BY <1>1, <1>2, <1>3, <1>4, <1>5, <1>6 DEF Next

-----------------------------------------------------------------------------
(* The preferred routes.                                                   *)

\* PreferredIsClear and OverrideKept of a step.
StaysClear ==
    /\ PreferredIsClear'
    /\ \A j \in DOMAIN rows : UserPreferred(routes[j]) /\ ~rows'[j].raced
          => UserPreferred(routes'[j])

\* A step that leaves the routes and the history of their commits alone.
Quiet ==
    /\ routes' = routes /\ DOMAIN rows' = DOMAIN rows
    /\ \A j \in DOMAIN rows : rows'[j].raced = rows[j].raced

LEMMA ClearOfRoutes ==
    PreferredIsClear <=> \A j \in DOMAIN rows : ~rows[j].raced => ClearRoutes(routes[j])
  BY DEF PreferredIsClear, ClearRoutes, Rows

LEMMA ClearOfRoutesPrime ==
    PreferredIsClear' <=> \A j \in DOMAIN rows' : ~rows'[j].raced => ClearRoutes(routes'[j])
  BY DEF PreferredIsClear, ClearRoutes, Rows

LEMMA QuietStaysClear ==
    ASSUME PreferredIsClear, Quiet
    PROVE  StaysClear
<1>1. /\ routes' = routes /\ DOMAIN rows' = DOMAIN rows
      /\ \A j \in DOMAIN rows : rows'[j].raced = rows[j].raced
  BY DEF Quiet
<1>2. \A j \in DOMAIN rows' : ~rows'[j].raced => ClearRoutes(routes'[j])
  BY <1>1, ClearOfRoutes
<1>3. PreferredIsClear'
  BY <1>2, ClearOfRoutesPrime
<1>4. \A j \in DOMAIN rows : UserPreferred(routes[j]) => UserPreferred(routes'[j])
  BY <1>1
<1> QED
  BY <1>3, <1>4 DEF StaysClear

LEMMA WrittenRowIsQuiet ==
    ASSUME Core, NEW j \in DOMAIN rows, NEW row \in Row, row.raced = rows[j].raced,
           rows' = [rows EXCEPT ![j] = row], routes' = routes
    PROVE  Quiet
<1>1. TypeOK
  BY DEF Core
<1>2. /\ DOMAIN rows' = DOMAIN rows
      /\ \A k \in DOMAIN rows : rows'[k] = IF k = j THEN row ELSE rows[k]
  BY <1>1, RowStep
<1> QED
  BY <1>2 DEF Quiet

LEMMA FlushIsQuiet ==
    ASSUME Core, NEW j \in DOMAIN rows, NEW status \in Status, NEW data \in Data, NEW loaded,
           rows' = [rows EXCEPT ![j] = Flush(rows[j], status, data, loaded)], routes' = routes
    PROVE  Quiet
<1>1. rows[j] \in Row
  BY RowOf
<1>2. PICK row \in Row : row = Flush(rows[j], status, data, loaded) /\ row.raced = rows[j].raced
  BY <1>1, FlushIsRow
<1>3. rows' = [rows EXCEPT ![j] = row]
  BY <1>2
<1> QED
  BY <1>2, <1>3, WrittenRowIsQuiet

\* A commit of routes: over routes it has read it writes clear ones.
LEMMA CommitStaysClear ==
    ASSUME Core, PreferredIsClear, NEW j \in DOMAIN rows, NEW row \in Row, NEW rs \in Seq(RouteRow),
           NEW read, row.raced = (rows[j].raced \/ read # routes[j]),
           rows' = [rows EXCEPT ![j] = row], routes' = [routes EXCEPT ![j] = rs],
           read = routes[j] => /\ ClearRoutes(read) => ClearRoutes(rs)
                               /\ UserPreferred(read) => UserPreferred(rs)
    PROVE  StaysClear
<1>1. TypeOK
  BY DEF Core
<1>2. /\ DOMAIN rows' = DOMAIN rows
      /\ \A k \in DOMAIN rows : rows'[k] = IF k = j THEN row ELSE rows[k]
  BY <1>1, RowStep
<1>3. \A k \in DOMAIN rows : routes'[k] = IF k = j THEN rs ELSE routes[k]
  BY <1>1, RoutesStep
<1>4. ~row.raced => ~rows[j].raced /\ read = routes[j]
  OBVIOUS
<1>5. ASSUME NEW k \in DOMAIN rows, ~rows'[k].raced
      PROVE  /\ ClearRoutes(routes'[k])
             /\ UserPreferred(routes[k]) => UserPreferred(routes'[k])
  <2>1. CASE k = j
    <3>1. ~rows[j].raced /\ read = routes[j]
      BY <1>2, <1>4, <1>5, <2>1
    <3>2. ClearRoutes(routes[j])
      BY <3>1, ClearOfRoutes
    <3> QED
      BY <1>3, <2>1, <3>1, <3>2
  <2>2. CASE k # j
    BY <1>2, <1>3, <1>5, <2>2, ClearOfRoutes
  <2> QED
    BY <2>1, <2>2
<1>6. PreferredIsClear'
  BY <1>2, <1>5, ClearOfRoutesPrime
<1> QED
  BY <1>5, <1>6 DEF StaysClear

LEMMA OverrideCommitStaysClear ==
    ASSUME Core, PreferredIsClear, NEW r \in Req, OverrideCommit(r)
    PROVE  StaysClear
<1> DEFINE j == req[r].row
           read == req[r].read
           row == [rows[j] EXCEPT !.raced = @ \/ read # routes[j]]
           rs == Written(routes[j], read, Override(read, req[r].choice))
<1>1. req[r].at = "overriding" /\ routes' = [routes EXCEPT ![j] = rs]
  BY DEF OverrideCommit
<1>2. rows' = [rows EXCEPT ![j] = row]
  BY DEF OverrideCommit
<1>3. /\ j \in DOMAIN rows /\ rs \in Seq(RouteRow)
      /\ read = routes[j] => ClearRoutes(rs) /\ UserPreferred(rs)
  BY <1>1, OverrideWrites
<1>4. row \in Row /\ row.raced = (rows[j].raced \/ read # routes[j])
  <2>1. rows[j] \in Row
    BY <1>3, RowOf
  <2>2. (rows[j].raced \/ read # routes[j]) \in BOOLEAN
    OBVIOUS
  <2> QED
    BY <2>1, <2>2 DEF Row
<1> HIDE DEF j, read, row, rs
<1> QED
  BY <1>1, <1>2, <1>3, <1>4, CommitStaysClear

LEMMA MergeCommitStaysClear ==
    ASSUME Core, PreferredIsClear, NEW w \in Worker, MergeCommit(w)
    PROVE  StaysClear
<1> DEFINE j == worker[w].row
           read == worker[w].read
<1>1. worker[w].at = "merging"
  BY DEF MergeCommit
<1>2. PICK c \in Contents :
        rows' = [rows EXCEPT ![j] = [rows[j] EXCEPT !.pid = c, !.old = FALSE,
                   !.raced = rows[j].raced \/ worker[w].read # routes[j]]]
  BY DEF MergeCommit
<1>3. PICK p \in Postings :
        routes' = [routes EXCEPT ![j] = Written(routes[j], worker[w].read, Merged(worker[w].read, p))]
  BY DEF MergeCommit
<1> DEFINE row == [rows[j] EXCEPT !.pid = c, !.old = FALSE, !.raced = rows[j].raced \/ read # routes[j]]
           rs == Written(routes[j], read, Merged(read, p))
<1>4. /\ j \in DOMAIN rows /\ rs \in Seq(RouteRow)
      /\ read = routes[j] => /\ ClearRoutes(read) => ClearRoutes(rs)
                             /\ UserPreferred(read) => UserPreferred(rs)
  BY <1>1, MergeWrites
<1>5. row \in Row /\ row.raced = (rows[j].raced \/ read # routes[j])
  <2>1. rows[j] \in Row
    BY <1>4, RowOf
  <2>2. (rows[j].raced \/ read # routes[j]) \in BOOLEAN
    OBVIOUS
  <2> QED
    BY <2>1, <2>2 DEF Row
<1>6. rows' = [rows EXCEPT ![j] = row] /\ routes' = [routes EXCEPT ![j] = rs]
  BY <1>2, <1>3
<1> HIDE DEF j, read, row, rs
<1> QED
  BY <1>4, <1>5, <1>6, CommitStaysClear

\* A new row has no routes.
LEMMA InsertStaysClear ==
    ASSUME Core, PreferredIsClear, NEW r \in Req, Insert(r)
    PROVE  StaysClear
<1> DEFINE row == [status |-> "received", data |-> "empty", pid |-> TextHash,
                   old |-> FALSE, raced |-> FALSE]
           none == << >>
           n == Len(rows)
           S == Seq(RouteRow)
<1>1. rows' = Append(rows, row) /\ routes' = Append(routes, none)
  BY DEF Insert
<1>2. TypeOK
  BY DEF Core
<1>3. /\ rows \in Seq(Row) /\ routes \in Seq(S) /\ Len(routes) = n /\ n \in Nat
      /\ DOMAIN rows = 1..n
  BY <1>2, RowNumbers, LenProperties DEF TypeOK
<1>4. row \in Row /\ none \in S
  BY DEF Row, Status, Data
<1>5. ClearRoutes(none)
  BY DEF ClearRoutes
<1> HIDE DEF row, none, S, n
<1>6. /\ DOMAIN rows' = 1..(n + 1)
      /\ \A k \in 1..n : rows'[k] = rows[k]
  <2>1. /\ rows' \in Seq(Row) /\ Len(rows') = Len(rows) + 1
        /\ \A k \in 1..Len(rows) : rows'[k] = rows[k]
    BY <1>1, <1>3, <1>4, AppendProperties
  <2> QED
    BY <2>1, LenProperties DEF n
<1>7. /\ \A k \in 1..n : routes'[k] = routes[k]
      /\ routes'[n + 1] = none
  BY <1>1, <1>3, <1>4, AppendProperties
<1>8. \A k \in 1..(n + 1) : k \in 1..n \/ k = n + 1
  BY <1>3
<1>9. ASSUME NEW k \in 1..(n + 1), ~rows'[k].raced PROVE ClearRoutes(routes'[k])
  <2>1. CASE k \in 1..n
    BY <1>3, <1>6, <1>7, <1>9, <2>1, ClearOfRoutes
  <2>2. CASE k = n + 1
    BY <1>5, <1>7, <2>2
  <2> QED
    BY <1>8, <2>1, <2>2
<1>10. PreferredIsClear'
  BY <1>6, <1>9, ClearOfRoutesPrime
<1>11. \A k \in DOMAIN rows : UserPreferred(routes[k]) => UserPreferred(routes'[k])
  BY <1>3, <1>7
<1> QED
  BY <1>10, <1>11 DEF StaysClear

\* All other steps are quiet.
LEMMA RequestsAreQuiet ==
    ASSUME Core, NEW r \in Req, Ingest(r) \/ Overriding(r) \/ Expire(r),
           ~Insert(r), ~OverrideCommit(r)
    PROVE  Quiet
<1>1. CASE UNCHANGED <<rows, routes>>
  BY <1>1 DEF Quiet
<1>2. CASE Processing(r) \/ NoQueue(r) \/ ExpireCommit(r)
  <2> DEFINE j == req[r].row
  <2>1. req[r].at \in {"created", "retrying", "enqueueing", "expiring"} /\ routes' = routes
    BY <1>2 DEF Processing, NoQueue, ExpireCommit
  <2>2. j \in DOMAIN rows
    BY <2>1, RequestOf DEF GoodRequest
  <2>3. PICK status \in Status, data \in Data :
          rows' = [rows EXCEPT ![j] = Flush(rows[j], status, data, req[r])]
    <3>1. {"processing", "failed"} \subseteq Status /\ {"empty", "error"} \subseteq Data
      BY DEF Status, Data
    <3>2. \/ rows' = [rows EXCEPT ![j] = Flush(rows[j], "processing", "empty", req[r])]
          \/ rows' = [rows EXCEPT ![j] = Flush(rows[j], "failed", "error", req[r])]
      BY <1>2 DEF Processing, NoQueue, Unqueued, ExpireCommit
    <3> QED
      BY <3>1, <3>2
  <2> HIDE DEF j
  <2> QED
    BY <2>1, <2>2, <2>3, FlushIsQuiet
<1>3. \/ UNCHANGED <<rows, routes>>
      \/ Processing(r) \/ NoQueue(r) \/ ExpireCommit(r)
  BY DEF Ingest, Overriding, Expire, IngestNew, IngestAgain, InsertRefused, Enqueue,
         RequestDies, OverrideRead, ExpireRead
<1> QED
  BY <1>1, <1>2, <1>3

LEMMA WorkersAreQuiet ==
    ASSUME Core, NEW w \in Worker, Process(w), ~MergeCommit(w)
    PROVE  Quiet
<1> DEFINE j == worker[w].row
<1>1. CASE UNCHANGED <<rows, routes>>
  BY <1>1 DEF Quiet
<1>2. CASE Store(w) \/ StoreFailure(w)
  <2>1. worker[w].at # "idle" /\ routes' = routes
    BY <1>2 DEF Store, StoreFailure
  <2>2. j \in DOMAIN rows
    BY <2>1, SlotOf DEF GoodSlot
  <2>3. PICK status \in Status, data \in Data :
          rows' = [rows EXCEPT ![j] = Flush(rows[j], status, data, worker[w])]
    <3>1. {"ready", "failed"} \subseteq Status /\ {"analysed", "error"} \subseteq Data
      BY DEF Status, Data
    <3>2. \/ rows' = [rows EXCEPT ![j] = Flush(rows[j], "ready", "analysed", worker[w])]
          \/ rows' = [rows EXCEPT ![j] = Flush(rows[j], "failed", "error", worker[w])]
      BY <1>2 DEF Store, StoreFailure
    <3> QED
      BY <3>1, <3>2
  <2> HIDE DEF j
  <2> QED
    BY <2>1, <2>2, <2>3, FlushIsQuiet
<1>3. CASE /\ worker[w].at # "idle" /\ routes' = routes
           /\ rows' = [rows EXCEPT ![j] = [rows[j] EXCEPT !.data = "analysed", !.old = FALSE]]
  <2>1. j \in DOMAIN rows
    BY <1>3, SlotOf DEF GoodSlot
  <2> DEFINE row == [rows[j] EXCEPT !.data = "analysed", !.old = FALSE]
  <2>2. row \in Row /\ row.raced = rows[j].raced
    BY <2>1, RowOf DEF Row, Data
  <2>3. rows' = [rows EXCEPT ![j] = row] /\ routes' = routes
    BY <1>3
  <2> HIDE DEF row, j
  <2> QED
    BY <2>1, <2>2, <2>3, WrittenRowIsQuiet
<1>4. \/ UNCHANGED <<rows, routes>>
      \/ Store(w) \/ StoreFailure(w)
      \/ /\ worker[w].at # "idle" /\ routes' = routes
         /\ rows' = [rows EXCEPT ![j] = [rows[j] EXCEPT !.data = "analysed", !.old = FALSE]]
  BY DEF Process, Take, MergeRead, Analyse, Fails, WorkerDies
<1> QED
  BY <1>1, <1>2, <1>3, <1>4

LEMMA AgeIsQuiet ==
    ASSUME Core, NEW j \in DOMAIN rows, Age(j)
    PROVE  Quiet
<1> DEFINE row == [rows[j] EXCEPT !.old = TRUE]
<1>1. rows' = [rows EXCEPT ![j] = row] /\ routes' = routes
  BY DEF Age
<1>2. row \in Row /\ row.raced = rows[j].raced
  BY RowOf DEF Row
<1> HIDE DEF row
<1> QED
  BY <1>1, <1>2, WrittenRowIsQuiet

LEMMA ClearStep ==
    ASSUME Core, PreferredIsClear, [Next]_vars
    PROVE  StaysClear
<1>1. ASSUME NEW r \in Req, Ingest(r) \/ Overriding(r) \/ Expire(r) PROVE StaysClear
  <2>1. CASE Insert(r)
    BY <2>1, InsertStaysClear
  <2>2. CASE OverrideCommit(r)
    BY <2>2, OverrideCommitStaysClear
  <2>3. CASE ~Insert(r) /\ ~OverrideCommit(r)
    BY <1>1, <2>3, RequestsAreQuiet, QuietStaysClear
  <2> QED
    BY <2>1, <2>2, <2>3
<1>2. ASSUME NEW w \in Worker, Process(w) PROVE StaysClear
  <2>1. CASE MergeCommit(w)
    BY <2>1, MergeCommitStaysClear
  <2>2. CASE ~MergeCommit(w)
    BY <1>2, <2>2, WorkersAreQuiet, QuietStaysClear
  <2> QED
    BY <2>1, <2>2
<1>3. ASSUME NEW j \in Rows, Age(j) PROVE StaysClear
  BY <1>3, AgeIsQuiet, QuietStaysClear DEF Rows
<1>4. CASE UNCHANGED vars
  <2>1. Quiet
    BY <1>4 DEF vars, Quiet
  <2> QED
    BY <2>1, QuietStaysClear
<1> QED
  BY <1>1, <1>2, <1>3, <1>4 DEF Next

-----------------------------------------------------------------------------
(* The theorems.                                                           *)

\* The inductive invariant holds in every state: rows, requests, workers and the queue
\* are what the intake makes of them, and every row that is processing is served.
THEOREM Invariance == Spec => []IInv
<1>1. Init => IInv
  <2>1. Init => DOMAIN rows = {}
    BY DEF Init
  <2> QED
    BY <2>1, CoreInit, ClearOfRoutes DEF IInv
<1>2. IInv /\ [Next]_vars => IInv'
  BY CoreStep, ClearStep DEF IInv, StaysClear
<1> QED
  BY <1>1, <1>2, PTL DEF Spec

\* Rows, routes, requests, worker slots, the queue and the counters have their types.
THEOREM TypeCorrect == Spec => []TypeOK
<1>1. IInv => TypeOK
  BY DEF IInv, Core
<1> QED
  BY <1>1, Invariance, PTL

\* A row that is received or processing has a job, a worker or a request that goes on
\* with it, or one of them has died on it.
THEOREM RowsAreServed == Spec => []ProcessingIsServed
<1>1. IInv => ProcessingIsServed
  BY DEF IInv, Core, Served, Waiting, Finishing, Finishes, Asking, Asks, ProcessingIsServed, Rows
<1> QED
  BY <1>1, Invariance, PTL

\* Unless commits have crossed, at most one route of a row is preferred, or several of
\* the type the user chose, whatever postings have been merged in whatever order.
THEOREM OnePreference == Spec => []PreferredIsClear
<1>1. IInv => PreferredIsClear
  BY DEF IInv
<1> QED
  BY <1>1, Invariance, PTL

\* No step that has read the routes it writes over takes the user's choice away.
THEOREM ChoiceIsKept == Spec => OverrideKept
<1>1. IInv /\ [Next]_vars
      => [\A j \in Rows : UserPreferred(routes[j]) /\ ~rows'[j].raced
            => UserPreferred(routes'[j])]_vars
  BY ClearStep DEF IInv, StaysClear, Rows
<1> QED
  BY <1>1, Invariance, PTL DEF Spec, OverrideKept
=============================================================================
