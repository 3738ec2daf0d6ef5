------------------------------ MODULE JobBoard ------------------------------
(***************************************************************************)
(* The list of jobs: how a search registers the listings of the platforms  *)
(* (services/job_search.py), what a card shows of a job's sessions,        *)
(* resumes, application, package and route, and how trustworthy a posting  *)
(* looks (services/posting_quality.py).                                    *)
(***************************************************************************)
EXTENDS Integers, Sequences, FiniteSets, SequencesExt, FiniteSetsExt

NoIdent == <<"none">>

\* Mutant of JobIdentity: the id alone.
IdentityById(listing) == <<"id", listing.id>>

\* A listing is [platform, id, url], either of the last two possibly blank.
JobIdentity(listing) ==
  CASE listing.id # ""                      -> <<"id", listing.id>>
    [] listing.id = "" /\ listing.url # "" -> <<"url", listing.url>>
    [] OTHER                                -> NoIdent

Key(listing) == <<listing.platform, JobIdentity(listing)>>

\* A listing without an identity is kept as it is; any other once, on the row
\* the user has of it if there is one.
Register(s, listing) ==
  IF JobIdentity(listing) = NoIdent
  THEN [s EXCEPT !.added = Append(@, Key(listing)), !.shown = Append(@, Key(listing))]
  ELSE IF Key(listing) \in Range(s.shown) THEN s
  ELSE [s EXCEPT !.shown = Append(@, Key(listing)),
                 !.added = IF Key(listing) \in s.existing THEN @ ELSE Append(@, Key(listing))]

\* The listings of one platform, in their order.
RegisterEach(s, listings) ==
  LET after[n \in 0..Len(listings)] ==
        IF n = 0 THEN s ELSE Register(after[n - 1], listings[n])
  IN  after[Len(listings)]

\* A platform that fails contributes nothing; the others do.
RegisterAll(existing, platforms) ==
  LET after[n \in 0..Len(platforms)] ==
        CASE n = 0 -> [existing |-> existing, added |-> <<>>, shown |-> <<>>]
          [] n # 0 /\ platforms[n].failed -> after[n - 1]
          [] OTHER -> RegisterEach(after[n - 1], platforms[n].listings)
  IN  after[Len(platforms)]

\* The rows are inserted in one transaction, under the unique index of user,
\* platform and id: with two rows of a platform without an identity, one that
\* has been stored before or a row another search has inserted meanwhile,
\* nothing is kept and nothing shown.
Commit(s, meanwhile) ==
  IF IsInjective(s.added) /\ Range(s.added) \cap (s.existing \cup meanwhile) = {}
  THEN [rows |-> s.existing \cup meanwhile \cup Range(s.added), shown |-> s.shown]
  ELSE [rows |-> s.existing \cup meanwhile, shown |-> <<>>]

\* The part of a list a page shows, and whether there is more.
Page(items, page, size) ==
  [items    |-> SubSeq(items, (page - 1) * size + 1, Min({page * size, Len(items)})),
   has_next |-> page * size < Len(items)]

----------------------------------------------------------------------------
\* The card.  Rows carry the time of their last update.

Latest(rows) == CHOOSE r \in rows : \A q \in rows : q.at <= r.at

CardSession(sessions) == IF sessions = {} THEN {} ELSE {Latest(sessions)}

\* The resume the latest session has produced, or else the latest tailored one.
CardResume(sessions, resumes) ==
  LET own == {r \in resumes : \E s \in CardSession(sessions) : s.final_resume = r.id}
  IN  IF own # {} THEN own ELSE IF resumes = {} THEN {} ELSE {Latest(resumes)}

\* The package's route, or else the preferred one, or else the latest.
CardRoute(packages, routes) ==
  LET own == {r \in routes : \E p \in packages : p.route = r.id}
      preferred == {r \in routes : r.is_preferred}
  IN  CASE own # {} -> own
        [] own = {} /\ preferred # {} -> {CHOOSE r \in preferred : TRUE}
        [] own = {} /\ preferred = {} /\ routes # {} -> {Latest(routes)}
        [] OTHER -> {}

\* packages: the current package of the job, if there is one.
PackageReady(packages, routes) ==
  \E p \in packages :
    /\ p.resume /\ p.letter
    /\ (\E r \in CardRoute(packages, routes) : r.type = "EMAIL") => p.email
    /\ p.qa # "blocked"

OperationalState(c) ==
  LET session == CardSession(c.sessions)
      resume  == CardResume(c.sessions, c.resumes)
  IN  [match_exists |-> c.analysed \/ c.scored,
       tailoring    |-> {s.status : s \in session},
       resume       |-> {r.id : r \in resume},
       verified     |-> \E r \in resume :
                          \/ \E s \in session : s.status = "verified" /\ s.final_resume = r.id
                          \/ r.text /\ r.file,
       package_ready    |-> PackageReady(c.packages, c.routes),
       package_approved |-> \E p \in c.packages : p.approved,
       route            |-> {r.type : r \in CardRoute(c.packages, c.routes)}]

----------------------------------------------------------------------------
(***************************************************************************)
(* The signal of a posting: [company, short, doubtful, suspicious, emails, *)
(* routes], where suspicious are the patterns found in its text, emails    *)
(* the addresses in it, routes its routes' addresses when they are loaded  *)
(* and Free the addresses at a free provider.                              *)
(***************************************************************************)
CONSTANT Free

Destination(posting) ==
  LET given == SelectSeq(posting.routes, LAMBDA r : r # "")
  IN  IF given # <<>> THEN given[1] ELSE IF posting.emails # <<>> THEN posting.emails[1] ELSE ""

NeedsReview(posting) ==
  \/ posting.company \in {"", "placeholder"}
  \/ posting.short
  \/ posting.doubtful
  \/ Destination(posting) \in Free
  \/ Cardinality(Range(posting.emails)) > 1

AssessPostingQuality(posting) ==
  CASE posting.suspicious # {} -> "SUSPICIOUS"
    [] posting.suspicious = {} /\ NeedsReview(posting) -> "NEEDS_REVIEW"
    [] OTHER -> "LIKELY_LEGITIMATE"
=============================================================================
