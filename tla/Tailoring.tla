------------------------------ MODULE Tailoring ------------------------------
(***************************************************************************)
(* CV tailoring (services/tailoring.py, api/v1/tailoring.py).  A session   *)
(* proposes changes to a resume by one model call and reviews them by a    *)
(* second one; the user accepts, rejects or revises each change; finalising *)
(* merges the accepted ones (services/tailoring_merge.py), renders and      *)
(* verifies the document (services/pdf_verifier.py) and stores a new        *)
(* resume.  Requests overlap at every await: each works on what it loaded.  *)
(*                                                                         *)
(* A document is a summary and a list of skills, which stand for a field   *)
(* and for a list of the structured resume; a text is a number, and the    *)
(* text proposed by a change is its change_id.                             *)
(***************************************************************************)
EXTENDS Naturals, Integers, Sequences, SequencesExt, FiniteSets

CONSTANTS
    Req,           \* requests in flight at the same time
    MaxChanges,    \* bound on the rows of cv_tailoring_changes
    MaxSessions,   \* bound on the rows of cv_tailoring_sessions
    MaxResumes,    \* bound on the rows of resumes
    Library,       \* the resumes there are at first: uploaded, generated, tailored
    Answers,       \* the decisions users take back or make
    Proposals,     \* what the tailoring model may propose: sequences of edits
    Crashes        \* TRUE: requests may be cancelled or die between two steps

ASSUME BoundsAssumption ==
    /\ MaxChanges \in Nat /\ MaxSessions \in Nat /\ MaxResumes \in Nat \ {0}
    /\ Crashes \in BOOLEAN

\* change_ids are random: which of the free ones a change gets is open.
ChangeId == 1..MaxChanges

-----------------------------------------------------------------------------
(* Documents and the merge of changes. *)

Empty == 0
Doc == [summary : Nat, skills : Seq(Nat)]

\* The text of a tailored resume is the JSON dump of its document; structuring
\* it again finds one line without a section header.
NoContent == [summary |-> Empty, skills |-> << >>]

\* target_reference: the summary, or the skill of an index from 0.
Summary == -1
Target == Nat \cup {Summary}
Kind == {"add", "modify", "remove"}

\* resolve_target: a field always resolves, an index must exist, and appending
\* at the end is allowed (to an addition only).
Resolves(doc, kind, target) ==
    \/ target = Summary
    \/ target < Len(doc.skills)
    \/ kind = "add" /\ target = Len(doc.skills)

Applied(doc, kind, target, text) ==
    IF target = Summary
    THEN [doc EXCEPT !.summary = IF kind = "remove" THEN Empty ELSE text]
    ELSE [doc EXCEPT !.skills =
            CASE kind = "add" -> InsertAt(@, target + 1, text)
              [] kind = "modify" -> [@ EXCEPT ![target + 1] = text]
              [] kind = "remove" -> RemoveAt(@, target + 1)]

\* Mutant of MergeStep: without the test for an earlier change of the same target.
MergeStepAnyway(m, c, row) ==
    IF ~m.ok \/ ~Resolves(m.doc, row.kind, row.target)
    THEN [m EXCEPT !.ok = FALSE]
    ELSE [m EXCEPT !.touched = @ \cup {row.target}, !.doc = Applied(@, row.kind, row.target, c)]

\* What has become of a document while changes are merged one by one.
MergeStep(m, c, row) ==
    IF \/ ~m.ok
       \/ row.target \in m.touched /\ row.kind \in {"modify", "remove"}
       \/ ~Resolves(m.doc, row.kind, row.target)
    THEN [m EXCEPT !.ok = FALSE]
    ELSE [ok |-> TRUE, touched |-> m.touched \cup {row.target},
          doc |-> Applied(m.doc, row.kind, row.target, c)]

\* merge_tailoring_changes: in the order of the change_ids.
Merge(doc, rows, accepted) ==
    LET merged[n \in Nat] ==
            IF n = 0 THEN [ok |-> TRUE, touched |-> {}, doc |-> doc]
            ELSE IF n \in accepted THEN MergeStep(merged[n - 1], n, rows[n])
            ELSE merged[n - 1]
    IN  merged[MaxChanges]

Holds(doc, text) == text = doc.summary \/ \E i \in DOMAIN doc.skills : doc.skills[i] = text

Introduced(rows, cs) == {c \in cs : rows[c].kind # "remove"}

\* check_document_integrity: sections survive, accepted texts appear, rejected do not.
Integral(base, doc, rows, accepted, rejected) ==
    /\ base.summary # Empty => doc.summary # Empty
    /\ base.skills # << >> => doc.skills # << >>
    /\ \A c \in Introduced(rows, accepted) : Holds(doc, c)
    /\ \A c \in Introduced(rows, rejected) : ~Holds(doc, c)

-----------------------------------------------------------------------------
VARIABLES
    resumes,   \* resumes, in the order of creation
    sessions,  \* cv_tailoring_sessions, in the order of creation
    changes,   \* cv_tailoring_changes by change_id
    req,       \* the requests and what they have loaded
    lost       \* history: sessions on which a request died, raised or was cancelled

vars == <<resumes, sessions, changes, req, lost>>

SessionStatus == {"reviewing", "rendering", "verified", "failed"}
Decision == {"pending", "accepted", "rejected"}

\* How a change came through its review (history): not yet, passed, blocked (for
\* want of a verdict, too), or a revision whose reviewer listed nothing.
Review == {"awaited", "passed", "blocked", "skipped"}

\* review_severity; "safe" stands for "warning" too.
ChangeRow == [session : 1..MaxSessions, kind : Kind, target : Target,
              severity : {"safe", "blocked"}, decision : Decision, review : Review]
NoRow == [session |-> 0, decision |-> "none"]
Rows == [ChangeId -> ChangeRow \cup {NoRow}]

Session == [status : SessionStatus, base : 1..MaxResumes, final : 0..MaxResumes]

\* `json`: content_text is a dump of the document; `pdf`: a PDF was rendered.
\* Of a finalised resume: its session, and (history) how the changes in it had
\* come through their reviews when the finalisation read them.
Resume == [type : {"base", "tailored"}, doc : Doc, json : BOOLEAN, pdf : BOOLEAN,
           session : 0..MaxSessions, reviews : SUBSET Review]

\* What the resumes there are at first were made of is not looked at.
ASSUME InputsAssumption ==
    /\ Library \in Seq(Resume) /\ Len(Library) \in 1..MaxResumes
    /\ \A i \in DOMAIN Library : Library[i].session = 0 /\ Library[i].reviews = {}
    /\ Proposals \subseteq Seq([kind : Kind, target : Target])
    /\ Answers \subseteq Decision

NoRows == [c \in ChangeId |-> NoRow]

Phase == {"idle", "opening", "drafting", "reviewing", "deciding", "revising",
          "finalizing", "rendering"}

Request == [at : Phase, session : 0..MaxSessions, base : 0..MaxResumes,
            status : SessionStatus, rows : Rows, asked : SUBSET ChangeId,
            answer : Decision, doc : Doc]

Idle == [at |-> "idle", session |-> 0, base |-> 0, status |-> "reviewing",
         rows |-> NoRows, asked |-> {}, answer |-> "pending", doc |-> NoContent]

Init ==
    /\ resumes = Library
    /\ sessions = << >>
    /\ changes = NoRows
    /\ req = [r \in Req |-> Idle]
    /\ lost = {}

Flush(loaded, current, new) == IF new = loaded THEN current ELSE new

Existing == {c \in ChangeId : changes[c] # NoRow}
Of(s) == {c \in Existing : changes[c].session = s}
Loaded(s) == [c \in ChangeId |-> IF c \in Of(s) THEN changes[c] ELSE NoRow]
Decided(rows, d) == {c \in DOMAIN rows : rows[c].decision = d}
ReviewsOf(rows) == {rows[c].review : c \in Decided(rows, "accepted")}

\* _build_resume_data_from_text
Structured(b) == IF resumes[b].json THEN NoContent ELSE resumes[b].doc
Source(s) == Structured(sessions[s].base)

-----------------------------------------------------------------------------
(* Opening a session: proposals, then their review. *)

\* start_tailoring_session: the session is committed before the first model call.
Begin(r, b) ==
    /\ req[r].at = "idle"
    /\ Len(sessions) < MaxSessions
    /\ sessions' = Append(sessions, [status |-> "reviewing", base |-> b, final |-> 0])
    /\ req' = [req EXCEPT ![r] = [Idle EXCEPT !.at = "drafting", !.session = Len(sessions) + 1]]
    /\ UNCHANGED <<resumes, changes, lost>>

\* For any resume: that a session had it as its base before (regenerate_session) makes
\* no difference.
Start(r) == \E b \in DOMAIN resumes : Begin(r, b)

NewChange(s, e, verdict, severity) ==
    [session |-> s, kind |-> e.kind, target |-> e.target, severity |-> severity,
     decision |-> "pending", review |-> verdict]

\* The proposals are committed as SAFE and PENDING, before they are reviewed.
Drafted(r) ==
    /\ req[r].at = "drafting"
    /\ \E p \in Proposals : \E id \in [DOMAIN p -> ChangeId \ Existing] :
         /\ IsInjective(id)
         /\ LET new == {id[i] : i \in DOMAIN p} IN
            /\ changes' = [c \in ChangeId |->
                 IF c \in new
                 THEN NewChange(req[r].session, p[CHOOSE i \in DOMAIN p : id[i] = c], "awaited", "safe")
                 ELSE changes[c]]
            /\ req' = [req EXCEPT ![r] = IF p = << >> THEN Idle
                         ELSE [@ EXCEPT !.at = "reviewing", !.asked = new]]
    /\ UNCHANGED <<resumes, sessions, lost>>

\* The model failed, or the client went away: FAILED is committed either way.
DraftFails(r) ==
    /\ req[r].at = "drafting"
    /\ sessions' = [sessions EXCEPT ![req[r].session].status = "failed"]
    /\ req' = [req EXCEPT ![r] = Idle]
    /\ UNCHANGED <<resumes, changes, lost>>

\* A change without a verdict is blocked.
Reviewed(r) ==
    /\ req[r].at = "reviewing"
    /\ \E verdict \in [req[r].asked -> {"passed", "blocked"}] :
         changes' = [c \in ChangeId |->
            IF c \in req[r].asked
            THEN [changes[c] EXCEPT !.review = verdict[c],
                    !.severity = IF verdict[c] = "passed" THEN "safe" ELSE "blocked"]
            ELSE changes[c]]
    /\ req' = [req EXCEPT ![r] = Idle]
    /\ UNCHANGED <<resumes, sessions, lost>>

\* The review is unavailable or malformed: every change of it is blocked.
ReviewFails(r) ==
    /\ req[r].at = "reviewing"
    /\ changes' = [c \in ChangeId |->
         IF c \in req[r].asked
         THEN [changes[c] EXCEPT !.review = "blocked", !.severity = "blocked"] ELSE changes[c]]
    /\ req' = [req EXCEPT ![r] = Idle]
    /\ UNCHANGED <<resumes, sessions, lost>>

\* get_or_create_revision_session, when no session of the resume is found.
OpenRead(r) ==
    /\ req[r].at = "idle"
    /\ \E b \in DOMAIN resumes :
         /\ resumes[b].type = "tailored"
         /\ ~\E s \in DOMAIN sessions :
               \/ sessions[s].final = b
               \/ sessions[s].base = b /\ sessions[s].status = "reviewing"
         /\ req' = [req EXCEPT ![r] = [Idle EXCEPT !.at = "opening", !.base = b]]
    /\ UNCHANGED <<resumes, sessions, changes, lost>>

OpenCommit(r) ==
    /\ req[r].at = "opening"
    /\ Len(sessions) < MaxSessions
    /\ sessions' = Append(sessions, [status |-> "reviewing", base |-> req[r].base, final |-> 0])
    /\ req' = [req EXCEPT ![r] = Idle]
    /\ UNCHANGED <<resumes, changes, lost>>

-----------------------------------------------------------------------------
(* Decisions and revisions. *)

\* api_submit_decisions: refused as a whole if it accepts a change loaded as blocked.
\* `asked` are the changes whose loaded decision differs: only those are written.
DecideRead(r) ==
    /\ req[r].at = "idle"
    /\ \E s \in DOMAIN sessions, d \in Answers : \E cs \in SUBSET Of(s) :
         /\ cs # {}
         /\ d = "accepted" => \A c \in cs : changes[c].severity # "blocked"
         /\ req' = [req EXCEPT ![r] = [Idle EXCEPT !.at = "deciding", !.answer = d,
                      !.asked = {c \in cs : changes[c].decision # d}]]
    /\ UNCHANGED <<resumes, sessions, changes, lost>>

DecideCommit(r) ==
    /\ req[r].at = "deciding"
    /\ changes' = [c \in ChangeId |->
         IF c \in req[r].asked
         THEN [changes[c] EXCEPT !.decision = req[r].answer]
         ELSE changes[c]]
    /\ req' = [req EXCEPT ![r] = Idle]
    /\ UNCHANGED <<resumes, sessions, lost>>

\* revise_change: the change and its session are loaded before two model calls.
ReviseRead(r) ==
    /\ req[r].at = "idle"
    /\ \E c \in Existing :
         req' = [req EXCEPT ![r] = [Idle EXCEPT !.at = "revising", !.session = changes[c].session,
                   !.asked = {c} \ Decided(changes, "rejected")]]
    /\ UNCHANGED <<resumes, sessions, changes, lost>>

\* Only a verdict changes the severity the revised change starts with.
RevisedSeverity(verdict) == IF verdict = "blocked" THEN "blocked" ELSE "safe"

\* The revised change and the rejection of the old one are one transaction.
ReviseCommit(r) ==
    /\ req[r].at = "revising"
    /\ \E p \in Proposals, verdict \in {"passed", "blocked", "skipped"}, n \in ChangeId \ Existing :
         /\ p # << >>
         /\ changes' = [c \in ChangeId |->
              IF c = n
              THEN NewChange(req[r].session, Head(p), verdict, RevisedSeverity(verdict))
              ELSE IF c \in req[r].asked
              THEN [changes[c] EXCEPT !.decision = "rejected"]
              ELSE changes[c]]
    /\ req' = [req EXCEPT ![r] = Idle]
    /\ UNCHANGED <<resumes, sessions, lost>>

-----------------------------------------------------------------------------
(* Finalising. *)

\* Mutant of Finalizable: only a decision is required.
FinalizableOnceDecided(rows) == \A c \in DOMAIN rows : rows[c].decision # "pending"

\* finalize_session looks at the decisions and severities, not at the status.
Finalizable(rows) ==
    \A c \in DOMAIN rows :
        /\ rows[c].decision # "pending"
        /\ ~(rows[c].decision = "accepted" /\ rows[c].severity = "blocked")

FinalizeRead(r) ==
    /\ req[r].at = "idle"
    /\ \E s \in DOMAIN sessions :
         /\ Finalizable(Loaded(s))
         /\ req' = [req EXCEPT ![r] = [Idle EXCEPT !.at = "finalizing", !.session = s,
                      !.status = sessions[s].status,
                      !.rows = Loaded(s)]]
    /\ UNCHANGED <<resumes, sessions, changes, lost>>

\* The new resume, final_resume_id and VERIFIED are one transaction.
Store(r, row) ==
    /\ Len(resumes) < MaxResumes
    /\ resumes' = Append(resumes, row)
    /\ sessions' = [sessions EXCEPT
         ![req[r].session].final = Len(resumes) + 1,
         ![req[r].session].status = Flush(req[r].status, @, "verified")]
    /\ req' = [req EXCEPT ![r] = Idle]
    /\ UNCHANGED <<changes, lost>>

\* Nothing was accepted: the new version refers to the files and text of its base.
FinalizeUnchanged(r) ==
    /\ req[r].at = "finalizing"
    /\ Decided(req[r].rows, "accepted") = {}
    /\ Store(r, [resumes[sessions[req[r].session].base] EXCEPT !.type = "tailored",
                   !.session = req[r].session, !.reviews = {}])

\* RENDERING is committed if the changes can be merged, FAILED if they conflict.
FinalizeMerge(r) ==
    LET accepted == Decided(req[r].rows, "accepted")
        merged == Merge(Source(req[r].session), req[r].rows, accepted)
        status == IF merged.ok THEN "rendering" ELSE "failed"
    IN  /\ req[r].at = "finalizing"
        /\ accepted # {}
        /\ sessions' = [sessions EXCEPT ![req[r].session].status = Flush(req[r].status, @, status)]
        /\ req' = [req EXCEPT ![r] =
             IF merged.ok
             THEN [@ EXCEPT !.at = "rendering", !.status = "rendering", !.doc = merged.doc]
             ELSE Idle]
        /\ UNCHANGED <<resumes, changes, lost>>

\* A PDF is verified; without one (only DOCX was rendered) nothing is.
Rendered(r) ==
    /\ req[r].at = "rendering"
    /\ \E pdf \in BOOLEAN :
         /\ pdf => Integral(Source(req[r].session), req[r].doc, req[r].rows,
                            Decided(req[r].rows, "accepted"), Decided(req[r].rows, "rejected"))
         /\ Store(r, [type |-> "tailored", doc |-> req[r].doc, json |-> TRUE, pdf |-> pdf,
                      session |-> req[r].session, reviews |-> ReviewsOf(req[r].rows)])

\* Mutant of VerificationFails: the error is raised before FAILED is committed.
VerificationRaises(r) ==
    /\ req[r].at = "rendering"
    /\ req' = [req EXCEPT ![r] = Idle]
    /\ UNCHANGED <<resumes, sessions, changes, lost>>

\* The verification finds a fault: in the content, or in the rendered file.
VerificationFails(r) ==
    /\ req[r].at = "rendering"
    /\ sessions' = [sessions EXCEPT ![req[r].session].status = "failed"]
    /\ req' = [req EXCEPT ![r] = Idle]
    /\ UNCHANGED <<resumes, changes, lost>>

-----------------------------------------------------------------------------
\* A request is cancelled or dies, or an exception leaves it: its session is rolled
\* back.  While a proposal is drafted a cancellation is DraftFails instead.
CutOff(r) ==
    /\ req[r].at # "idle"
    /\ Crashes \/ req[r].at \in {"revising", "rendering"}
    /\ req' = [req EXCEPT ![r] = Idle]
    /\ lost' = IF req[r].at \in {"drafting", "reviewing", "rendering"}
               THEN lost \cup {req[r].session} ELSE lost
    /\ UNCHANGED <<resumes, sessions, changes>>

Tailor(r) == Start(r) \/ Drafted(r) \/ DraftFails(r) \/ Reviewed(r) \/ ReviewFails(r)
Open(r) == OpenRead(r) \/ OpenCommit(r)
Decide(r) == DecideRead(r) \/ DecideCommit(r) \/ ReviseRead(r) \/ ReviseCommit(r)
Finalize(r) == FinalizeRead(r) \/ FinalizeUnchanged(r) \/ FinalizeMerge(r) \/ Rendered(r)
               \/ VerificationFails(r)

Next == \E r \in Req : Tailor(r) \/ Open(r) \/ Decide(r) \/ Finalize(r) \/ CutOff(r)

Spec == Init /\ [][Next]_vars

-----------------------------------------------------------------------------
(* Properties. *)

\* The state is well typed; the rows a resume was made from are rows of its session.
TypeOK ==
    /\ resumes \in Seq(Resume) /\ Len(resumes) \in 1..MaxResumes
    /\ sessions \in Seq(Session) /\ Len(sessions) <= MaxSessions
    /\ changes \in Rows
    /\ req \in [Req -> Request]
    /\ lost \subseteq 1..MaxSessions

\* Whatever overlaps, a change that goes into a resume was let through by its
\* review when the finalisation read it; the exceptions are a revision for which
\* the reviewer listed no verdict, and proposals whose review was still running
\* or was cut off, which only the loss of its request can leave so for good.
UsedWasReviewed ==
    /\ \A i \in DOMAIN resumes : resumes[i].reviews \subseteq {"passed", "skipped", "awaited"}
    /\ \A c \in Existing : changes[c].review = "awaited" =>
         \/ changes[c].session \in lost
         \/ \E r \in Req : req[r].at = "reviewing" /\ c \in req[r].asked

\* A session stays "rendering" only while a finalisation renders it, unless one
\* was cut off; a session has a final resume exactly if one was stored for it,
\* and a verified session has one.
UnfinishedIsWorkedOn ==
    \A s \in DOMAIN sessions :
        /\ sessions[s].status = "rendering" =>
             s \in lost \/ \E r \in Req : req[r].at = "rendering" /\ req[r].session = s
        /\ sessions[s].status = "verified" => sessions[s].final # 0
        /\ sessions[s].final # 0 => resumes[sessions[s].final].session = s

\* The merge of accepted changes, in whatever order the random change_ids sort.
\* Insertions and removals in a list shift the items that later changes name by
\* index, so that a text may land on another item or replace an inserted one; but
\* the list still has exactly one item more for each insertion and one less for
\* each removal, and shows nothing but the base's items and accepted texts.  If no
\* accepted change inserts or removes an item, the document to be rendered has each
\* accepted text at its own target and the base's text everywhere else, and no two
\* of the changes modify one item.
MergeIsPointwise ==
    \A r \in Req : req[r].at = "rendering" =>
        LET rows == req[r].rows
            accepted == Decided(rows, "accepted")
            base == Source(req[r].session)
            doc == req[r].doc
            OfList(kind) == {c \in accepted : rows[c].kind = kind /\ rows[c].target # Summary}
            At(t) == {c \in accepted : rows[c].target = t}
            Text(t, old) ==
                IF At(t) = {} THEN {old}
                ELSE {IF rows[c].kind = "remove" THEN Empty ELSE c : c \in At(t)}
        IN  /\ doc.summary \in Text(Summary, base.summary)
            /\ Len(doc.skills) = Len(base.skills) + Cardinality(OfList("add"))
                                                  - Cardinality(OfList("remove"))
            /\ Range(doc.skills) \subseteq
                 Range(base.skills) \cup OfList("add") \cup OfList("modify")
            /\ (\A c \in accepted : rows[c].target # Summary => rows[c].kind = "modify") =>
                 \A k \in DOMAIN base.skills :
                     /\ Cardinality(At(k - 1)) <= 1
                     /\ doc.skills[k] \in Text(k - 1, base.skills[k])

=============================================================================
