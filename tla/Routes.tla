-------------------------------- MODULE Routes --------------------------------
(***************************************************************************)
(* The ways of applying to a job: how they are resolved from a posting      *)
(* (services/application_route_resolver.py), merged into the ones there are *)
(* (_merge_application_routes of workers/tasks.py) and overridden by the    *)
(* user (api/v1/opportunities.py).                                          *)
(***************************************************************************)
EXTENDS Naturals, Sequences

\* Addresses: pages of an applicant tracking system ("WORKABLE" stands for Greenhouse
\* and Lever too), of bayt.com, of another site, and an e-mail address.
Nowhere == "nowhere"
Site == [ats1 |-> "WORKABLE", ats2 |-> "WORKABLE", bayt1 |-> "BAYT", site1 |-> "OTHER"]
Address == DOMAIN Site \cup {Nowhere, "mail1"}
RouteType == {"WORKABLE", "BAYT", "COMPANY_WEBSITE", "EMAIL", "LINKEDIN", "MANUAL"}

\* What the resolver looks at: the application URL, an e-mail address, the page of the
\* posting, and what the model makes of the text if nothing else is found.
Posting == [apply : DOMAIN Site \cup {Nowhere}, email : BOOLEAN,
            page : DOMAIN Site \cup {Nowhere}, model : {"none", "unsure", "sure"}]

\* A resolved route; confidence in percent.
Resolved(type, at, confidence, human, preferred) ==
    [type |-> type, at |-> at, confidence |-> confidence, human |-> human,
     preferred |-> preferred]

\* _detect_ats
DetectAts(url) ==
    IF url = Nowhere \/ Site[url] = "OTHER" THEN << >>
    ELSE << Resolved(Site[url], url, 100, Site[url] = "BAYT", Site[url] # "BAYT") >>

ExplicitUrl(p) ==
    CASE p.apply = Nowhere -> << >>
      [] p.apply # Nowhere /\ DetectAts(p.apply) # << >> -> DetectAts(p.apply)
      [] OTHER -> << Resolved("COMPANY_WEBSITE", p.apply, 90, FALSE, TRUE) >>

EmailRoute(p) == IF p.email THEN << Resolved("EMAIL", "mail1", 95, FALSE, FALSE) >> ELSE << >>

ModelRoute(p) ==
    CASE p.model = "none" -> << >>
      [] p.model = "unsure" -> << Resolved("LINKEDIN", Nowhere, 50, TRUE, FALSE) >>
      [] p.model = "sure" -> << Resolved("LINKEDIN", Nowhere, 80, FALSE, FALSE) >>

HasAts(routes) == \E i \in DOMAIN routes : routes[i].type = "WORKABLE"

\* Deterministic routes, then the model's, then the manual one.
Found(p) ==
    LET explicit == ExplicitUrl(p) \o EmailRoute(p)
        direct == explicit \o (IF HasAts(explicit) THEN << >> ELSE DetectAts(p.page))
    IN  CASE direct # << >> -> direct
          [] direct = << >> /\ ModelRoute(p) # << >> -> ModelRoute(p)
          [] OTHER -> << Resolved("MANUAL", Nowhere, 0, TRUE, TRUE) >>

Rank(type) ==
    CASE type = "WORKABLE" -> 10
      [] type = "EMAIL" -> 8
      [] type \in {"COMPANY_WEBSITE", "LINKEDIN"} -> 5
      [] OTHER -> 0

Better(r, s) ==
    \/ Rank(r.type) > Rank(s.type)
    \/ Rank(r.type) = Rank(s.type) /\ r.confidence > s.confidence

\* The first of the sorted routes; two that are equally good are equal.
Best(routes) ==
    CHOOSE i \in DOMAIN routes : \A k \in DOMAIN routes : ~Better(routes[k], routes[i])

\* The best of several routes comes first and is preferred; a lone one keeps what it was
\* given.  The order of the others, which decides nothing, is left as it was.
Ranked(routes) ==
    IF Len(routes) = 1 THEN routes
    ELSE LET best == Best(routes)
             Other(i) == routes[IF i < best THEN i ELSE i + 1]
         IN  << [routes[best] EXCEPT !.preferred = TRUE] >>
             \o [i \in 1..(Len(routes) - 1) |-> [Other(i) EXCEPT !.preferred = FALSE]]

\* resolve
Resolve(p) ==
    LET routes == Ranked(Found(p))
    IN  [routes EXCEPT ![1].human = @ \/ routes[1].confidence < 60]

-----------------------------------------------------------------------------
(* Rows of application_routes. *)

RouteRow == [type : RouteType, at : Address, preferred : BOOLEAN, overridden : BOOLEAN]

Stored(r) == [type |-> r.type, at |-> r.at, preferred |-> r.preferred, overridden |-> FALSE]

\* The user's own choice among the rows.
UserPreferred(rows) == \E i \in DOMAIN rows : rows[i].overridden /\ rows[i].preferred

\* One resolved route is merged: a new row, or what it says of an old one.
MergeOne(rows, r) ==
    LET same == {i \in DOMAIN rows : rows[i].type = r.type /\ rows[i].at = r.at}
        first == CHOOSE i \in same : \A j \in same : i <= j
    IN  CASE same = {} -> Append(rows, Stored(r))
          [] same # {} /\ rows[first].overridden -> rows
          [] OTHER -> [rows EXCEPT ![first].preferred = r.preferred]

\* The resolved routes one by one; none is preferred beside the user's own choice.
MergeAll(rows, resolved, kept) ==
    LET merged[n \in 0..Len(resolved)] ==
            IF n = 0 THEN rows
            ELSE MergeOne(merged[n - 1], [resolved[n] EXCEPT !.preferred = @ /\ ~kept])
    IN  merged[Len(resolved)]

\* Mutant of Merge: the old preference is not cleared.
MergeUncleared(rows, resolved) == MergeAll(rows, resolved, UserPreferred(rows))

\* What becomes of the old preference before the resolved routes are looked at.
Cleared(rows, resolved) ==
    IF ~UserPreferred(rows) /\ \E i \in DOMAIN resolved : resolved[i].preferred
    THEN [i \in DOMAIN rows |->
            IF rows[i].overridden THEN rows[i] ELSE [rows[i] EXCEPT !.preferred = FALSE]]
    ELSE rows

\* _merge_application_routes
Merge(rows, resolved) ==
    MergeAll(Cleared(rows, resolved), resolved, UserPreferred(rows))

\* override_application_route
Override(rows, type) ==
    LET chosen == [i \in DOMAIN rows |->
                     IF rows[i].type = type
                     THEN [rows[i] EXCEPT !.preferred = TRUE, !.overridden = TRUE]
                     ELSE [rows[i] EXCEPT !.preferred = FALSE]]
    IN  IF \E i \in DOMAIN rows : rows[i].type = type THEN chosen
        ELSE Append(chosen, [type |-> type, at |-> Nowhere, preferred |-> TRUE,
                             overridden |-> TRUE])

\* Commits of rows that were read as `old` and have become `new`: of an old row the
\* changed attributes are written, new rows are inserted.
Written(rows, old, new) ==
    [i \in DOMAIN rows |->
        IF i \in DOMAIN old
        THEN [rows[i] EXCEPT
                !.preferred = IF new[i].preferred # old[i].preferred THEN new[i].preferred ELSE @,
                !.overridden = IF new[i].overridden # old[i].overridden THEN new[i].overridden ELSE @]
        ELSE rows[i]]
    \o SubSeq(new, Len(old) + 1, Len(new))
=============================================================================
