-------------------------- MODULE ApplicationPackage --------------------------
(***************************************************************************)
(* The package review flow of one application: immutable package versions  *)
(* (services/application_package.py), their QA verdict                     *)
(* (services/package_generation.py), single-use approvals and the e-mail   *)
(* send (services/package_send.py), and the manual confirmation of an      *)
(* external submission (services/application.py).                          *)
(*                                                                         *)
(* Each HTTP request runs in a database session of its own.  A request     *)
(* reads rows, awaits (other requests run meanwhile), and commits; what it *)
(* read stays in its session, for SQLAlchemy neither refreshes a loaded    *)
(* object nor expires it at a commit (expire_on_commit=False).  So every   *)
(* handler is a "read" action followed by its "commit" actions, and the    *)
(* values the session remembers are the fields of req[r].                  *)
(***************************************************************************)
EXTENDS Naturals, FiniteSets

CONSTANTS
    Req,             \* requests in flight at the same time
    PkgId, ApprId,   \* identifiers (uuid4): bound the number of rows
    Content,         \* component sets a package can carry
    HashVal, Hash,   \* Hash[c]: SHA-256 of the normalised components of c
    EmailRoute,      \* contents whose route has type EMAIL
    WithRecipient,   \* contents with email_to set
    Mailable,        \* complete e-mail, and attachments that validate
    Incomplete,      \* contents a deterministic QA check blocks
    InitStatus,      \* statuses the application may have at the start
    InitRun,         \* completed preparation runs it may have at the start
    ModelVerdict,    \* verdicts the review model gives
    OtherStatus,     \* statuses written by other parts of the system
    Crashes,         \* TRUE: requests may die between two steps
    NoPkg, NoAppr, NoContent, NoHash

ASSUME PackageAssumption ==
    /\ NoPkg \notin PkgId /\ NoAppr \notin ApprId /\ NoContent \notin Content
    /\ NoHash \notin HashVal
    /\ Hash \in [Content -> HashVal]
    /\ EmailRoute \subseteq Content /\ WithRecipient \subseteq EmailRoute
    /\ Mailable \subseteq WithRecipient /\ Incomplete \subseteq Content
    /\ Crashes \in BOOLEAN

\* models/enums.py: ApplicationStatus, QAVerdict, EmailSendState.
Status ==
    {"discovered", "matched", "preparing", "ready", "waiting_for_review",
     "submitting", "submission_blocked", "submission_unknown", "queued",
     "pending_review", "approved", "applying", "applied", "interview",
     "rejected", "offer", "withdrawn", "failed"}
Verdict == {"none", "pass", "warning", "blocked"}
\* A completed run: "answered" if a browser session prepared the form's
\* questions, "bare" if approve_package inserted it (_ensure_prep_run).
Run == {"none", "bare", "answered"}
SendState == {"none", "pending", "sent", "failed", "unknown"}

ASSUME StatusAssumption ==
    /\ InitStatus \subseteq Status /\ OtherStatus \subseteq Status
    /\ InitRun \subseteq Run \ {"bare"} /\ ModelVerdict \subseteq Verdict \ {"none"}

VARIABLES
    status,                            \* applications.status
    prepRun,                           \* the latest completed application_runs row
    created, content, version, isCurrent, approvalId, qa, sendState,
                                       \* application_packages
    granted, forPkg, forHash, forRun, used, expired,
                                       \* application_approvals
    req,                               \* the requests and their sessions
    mailed, calls, accepted, confirmed \* history: what reached the outside

packageVars == <<created, content, version, isCurrent, approvalId, qa, sendState>>
approvalVars == <<granted, forPkg, forHash, forRun, used, expired>>
historyVars == <<mailed, calls, accepted, confirmed>>
vars == <<status, prepRun, packageVars, approvalVars, req, historyVars>>

\* A session: `at` is the await the request is suspended in, the other fields
\* what it has loaded.  `bound`: the loaded row has an approval_id; `moves`: by
\* what was loaded, the commit writes the status; `was`: the old value of the
\* column it will write; `seen`: the status a send loaded.
Idle == [at |-> "idle", pkg |-> NoPkg, appr |-> NoAppr, content |-> NoContent,
         prior |-> {}, version |-> 0, seen |-> "none", bound |-> FALSE,
         moves |-> FALSE, was |-> "none"]
Where == {"idle", "edit", "flushed", "draft", "approve", "send", "call",
          "answered", "qa", "confirm"}
Session == [at : Where, pkg : PkgId \cup {NoPkg}, appr : ApprId \cup {NoAppr},
            content : Content \cup {NoContent}, prior : SUBSET PkgId,
            version : Nat, seen : Status \cup {"none"}, bound : BOOLEAN,
            moves : BOOLEAN, was : Verdict \cup SendState]

TypeOK ==
    /\ status \in Status
    /\ prepRun \in Run
    /\ created \subseteq PkgId
    /\ content \in [PkgId -> Content \cup {NoContent}]
    /\ \A p \in created : content[p] \in Content
    /\ version \in [PkgId -> Nat]
    /\ isCurrent \in [PkgId -> BOOLEAN]
    /\ approvalId \in [PkgId -> ApprId \cup {NoAppr}]
    /\ qa \in [PkgId -> Verdict]
    /\ sendState \in [PkgId -> SendState]
    /\ granted \subseteq ApprId
    /\ forPkg \in [ApprId -> PkgId \cup {NoPkg}]
    /\ forHash \in [ApprId -> HashVal \cup {NoHash}]
    /\ forRun \in [ApprId -> Run]
    /\ used \in [ApprId -> BOOLEAN]
    /\ expired \in [ApprId -> BOOLEAN]
    /\ req \in [Req -> Session]
    /\ mailed \subseteq PkgId \X ApprId
    /\ calls \in [ApprId -> Nat]
    /\ accepted \subseteq PkgId
    /\ confirmed \subseteq PkgId

Init ==
    /\ status \in InitStatus
    /\ prepRun \in InitRun
    /\ created = {}
    /\ content = [p \in PkgId |-> NoContent]
    /\ version = [p \in PkgId |-> 0]
    /\ isCurrent = [p \in PkgId |-> FALSE]
    /\ approvalId = [p \in PkgId |-> NoAppr]
    /\ qa = [p \in PkgId |-> "none"]
    /\ sendState = [p \in PkgId |-> "none"]
    /\ granted = {}
    /\ forPkg = [a \in ApprId |-> NoPkg]
    /\ forHash = [a \in ApprId |-> NoHash]
    /\ forRun = [a \in ApprId |-> "none"]
    /\ used = [a \in ApprId |-> FALSE]
    /\ expired = [a \in ApprId |-> FALSE]
    /\ req = [r \in Req |-> Idle]
    /\ mailed = {} /\ calls = [a \in ApprId |-> 0]
    /\ accepted = {} /\ confirmed = {}

-----------------------------------------------------------------------------
\* SQLAlchemy writes a column only when the new value differs from the one
\* the session has in memory.
Flush(loaded, new, stored) == IF new = loaded THEN stored ELSE new

CurrentRows == {p \in created : isCurrent[p]}

\* get_current_package: the current row of the highest version.
Newest == {p \in CurrentRows : \A q \in CurrentRows : version[q] <= version[p]}

\* _next_version: one more than the highest committed version.
IsNextVersion(n) ==
    /\ \A p \in created : version[p] < n
    /\ n = 1 \/ \E p \in created : version[p] + 1 = n

\* Mutants of Live: the filters on the hash and on used_at are forgotten.
LiveOfAnyHash(h) == {a \in granted : ~used[a] /\ ~expired[a]}
LiveThoughUsed(h) == {a \in granted : forHash[a] = h /\ ~expired[a]}

\* The lookup approve_package and send_package_email share: unused, unexpired
\* approvals of this application for this package hash.
Live(h) == {a \in granted : forHash[a] = h /\ ~used[a] /\ ~expired[a]}

Reviewable == {"ready", "waiting_for_review", "pending_review"}

Goto(r, session) == req' = [req EXCEPT ![r] = session]
Finish(r) == Goto(r, Idle)
At(r, place) == req[r].at = place

\* Bounds: a request that will insert a row begins only if an identifier is left.
RoomForPackage ==
    Cardinality({r \in Req : At(r, "edit") \/ At(r, "flushed")})
        < Cardinality(PkgId \ created)
RoomForApproval ==
    Cardinality({r \in Req : At(r, "approve") /\ req[r].appr = NoAppr})
        < Cardinality(ApprId \ granted)

-----------------------------------------------------------------------------
(* create_or_update_package: POST .../package and the generate endpoints.  *)
(* c is the component set after the defaults taken from the current row;   *)
(* an unchanged hash returns the current row and writes nothing.           *)

\* The application, the current row and the rows to mark not current are read.
\* `held`: the row this session had loaded earlier, with the approval_id of
\* then; app was not kept, so its status is read afresh.
LoadForEdit(r, c, held, heldBound) ==
    LET edit(p, bound) ==
            [Idle EXCEPT !.at = "edit", !.pkg = p, !.content = c,
                         !.prior = CurrentRows,
                         !.moves = bound /\ status = "approved"]
    IN /\ RoomForPackage
       /\ \/ /\ CurrentRows = {}
             /\ Goto(r, edit(NoPkg, FALSE))
          \/ \E p \in Newest :
               /\ Hash[c] # Hash[content[p]]
               /\ Goto(r, edit(p, IF p = held THEN heldBound
                                  ELSE approvalId[p] # NoAppr))

EditRead(r, c) ==
    /\ At(r, "idle")
    /\ LoadForEdit(r, c, NoPkg, FALSE)
    /\ UNCHANGED <<status, prepRun, packageVars, approvalVars, historyVars>>

\* The version query autoflushes UPDATE ... SET is_current = false: the rows in
\* `prior` stay locked until the commit, and the next version is read.
EditFlush(r) ==
    /\ At(r, "edit")
    /\ \A o \in Req \ {r} : At(o, "flushed") => req[o].prior \cap req[r].prior = {}
    /\ \E n \in 1..(Cardinality(created) + 1) :
         /\ IsNextVersion(n)
         /\ Goto(r, [req[r] EXCEPT !.at = "flushed", !.version = n])
    /\ UNCHANGED <<status, prepRun, packageVars, approvalVars, historyVars>>

\* Mutants of CurrentAfter: the rows are marked after the INSERT, or not at all.
NoneCurrentAfter(prior, p) ==
    [q \in PkgId |-> q \notin prior \cup {p} /\ isCurrent[q]]
AllCurrentAfter(prior, p) == [q \in PkgId |-> q = p \/ isCurrent[q]]

\* _mark_previous_not_current, then the INSERT of row p.
CurrentAfter(prior, p) ==
    [q \in PkgId |-> q = p \/ (q \notin prior /\ isCurrent[q])]

EditCommit(r) ==
    /\ At(r, "flushed")
    /\ \E p \in PkgId \ created :
         /\ created' = created \cup {p}
         /\ content' = [content EXCEPT ![p] = req[r].content]
         /\ version' = [version EXCEPT ![p] = req[r].version]
         /\ isCurrent' = CurrentAfter(req[r].prior, p)
    /\ status' = IF req[r].moves THEN "pending_review" ELSE status
    /\ Finish(r)
    /\ UNCHANGED <<prepRun, approvalId, qa, sendState, approvalVars, historyVars>>

\* gen_email keeps the current row in its session while the model writes; the
\* other generate endpoints keep nothing and are EditRead once the model answers.
DraftRead(r) ==
    /\ At(r, "idle")
    /\ \E p \in Newest :
         /\ content[p] \in EmailRoute
         /\ Goto(r, [Idle EXCEPT !.at = "draft", !.pkg = p,
                                 !.bound = approvalId[p] # NoAppr])
    /\ UNCHANGED <<status, prepRun, packageVars, approvalVars, historyVars>>

DraftDone(r, c) ==
    /\ At(r, "draft")
    /\ LoadForEdit(r, c, req[r].pkg, req[r].bound)
    /\ UNCHANGED <<status, prepRun, packageVars, approvalVars, historyVars>>

\* The draft failed its validation, or changed nothing.
DraftUnused(r) ==
    /\ At(r, "draft")
    /\ Finish(r)
    /\ UNCHANGED <<status, prepRun, packageVars, approvalVars, historyVars>>

-----------------------------------------------------------------------------
(* approve_package.  With two live approvals the lookup raises             *)
(* MultipleResultsFound, and the request ends without a write.             *)

\* Mutant of ApproveRead: the live approval is not looked up.
ApproveReadAnew(r) ==
    /\ At(r, "idle") /\ RoomForApproval
    /\ \E p \in Newest :
         /\ qa[p] # "blocked"
         /\ content[p] \in EmailRoute => content[p] \in WithRecipient
         /\ Goto(r, [Idle EXCEPT !.at = "approve", !.pkg = p,
                                 !.moves = status \in Reviewable])
    /\ UNCHANGED <<status, prepRun, packageVars, approvalVars, historyVars>>

ApproveRead(r) ==
    /\ At(r, "idle")
    /\ \E p \in Newest :
         LET live == Live(Hash[content[p]])
             approve(a) == [Idle EXCEPT !.at = "approve", !.pkg = p, !.appr = a,
                                        !.moves = status \in Reviewable]
         IN /\ qa[p] # "blocked"
            /\ content[p] \in EmailRoute => content[p] \in WithRecipient
            /\ \/ live = {} /\ RoomForApproval /\ Goto(r, approve(NoAppr))
               \/ \E a \in live : live = {a} /\ Goto(r, approve(a))
    /\ UNCHANGED <<status, prepRun, packageVars, approvalVars, historyVars>>

StatusOnceApproved(moves) == IF moves THEN "approved" ELSE status

\* A live approval of this hash is reused: the package row is not touched.
ApproveReuse(r) ==
    /\ At(r, "approve") /\ req[r].appr # NoAppr
    /\ status' = StatusOnceApproved(req[r].moves)
    /\ Finish(r)
    /\ UNCHANGED <<prepRun, packageVars, approvalVars, historyVars>>

ApproveGrant(r) ==
    LET p == req[r].pkg
        run == IF prepRun = "none" THEN "bare" ELSE prepRun
    IN /\ At(r, "approve") /\ req[r].appr = NoAppr
       /\ \E a \in ApprId \ granted :
            /\ granted' = granted \cup {a}
            /\ forPkg' = [forPkg EXCEPT ![a] = p]
            /\ forHash' = [forHash EXCEPT ![a] = Hash[content[p]]]
            /\ forRun' = [forRun EXCEPT ![a] = run]
            /\ approvalId' = [approvalId EXCEPT ![p] = a]
       /\ prepRun' = run
       /\ status' = StatusOnceApproved(req[r].moves)
       /\ Finish(r)
       /\ UNCHANGED <<used, expired, created, content, version, isCurrent, qa,
                      sendState, historyVars>>

\* expires_at passes, 24 hours after the approval.
Expire(a) ==
    /\ a \in granted /\ ~expired[a]
    /\ expired' = [expired EXCEPT ![a] = TRUE]
    /\ UNCHANGED <<status, prepRun, packageVars, granted, forPkg, forHash, forRun,
                   used, req, historyVars>>

-----------------------------------------------------------------------------
(* send_package_email.                                                     *)

\* Mutant of Sendable: the send state is not looked at.
SendableAgain(p) == content[p] \in Mailable

\* Not sent yet, the e-mail is complete and its attachments validate.
Sendable(p) == sendState[p] # "sent" /\ content[p] \in Mailable

SendRead(r) ==
    /\ At(r, "idle")
    /\ \E p \in Newest :
         /\ Sendable(p)
         /\ \E a \in ApprId :
              /\ Live(Hash[content[p]]) = {a}
              /\ Goto(r, [Idle EXCEPT !.at = "send", !.pkg = p, !.appr = a,
                                      !.seen = status, !.was = sendState[p]])
    /\ UNCHANGED <<status, prepRun, packageVars, approvalVars, historyVars>>

\* First commit: the approval is consumed before the provider is called.
SendConsume(r) ==
    LET p == req[r].pkg
        seen == req[r].seen
        next == IF seen \in {"applied", "submission_unknown"} THEN seen
                ELSE "submitting"
    IN /\ At(r, "send")
       /\ used' = [used EXCEPT ![req[r].appr] = TRUE]
       /\ sendState' = [sendState EXCEPT ![p] = Flush(req[r].was, "pending", @)]
       /\ status' = Flush(seen, next, status)
       /\ Goto(r, [req[r] EXCEPT !.at = "call", !.seen = next, !.was = "none"])
       /\ UNCHANGED <<prepRun, created, content, version, isCurrent, approvalId, qa,
                      granted, forPkg, forHash, forRun, expired, historyVars>>

\* EmailProvider.send: what it reports, and whether the relay took the message.
\* SMTPEmailProvider turns every exception into "failed", the connection lost
\* after the message was accepted included.
ProviderOutcome ==
    {[report |-> "sent",    delivered |-> TRUE],
     [report |-> "failed",  delivered |-> FALSE],
     [report |-> "failed",  delivered |-> TRUE],
     [report |-> "unknown", delivered |-> FALSE],
     [report |-> "unknown", delivered |-> TRUE]}

SendCall(r) ==
    LET p == req[r].pkg
        a == req[r].appr
    IN /\ At(r, "call")
       /\ \E o \in ProviderOutcome :
            /\ accepted' = IF o.delivered THEN accepted \cup {p} ELSE accepted
            /\ Goto(r, [req[r] EXCEPT !.at = "answered", !.was = o.report])
       /\ mailed' = mailed \cup {<<p, a>>}
       /\ calls' = [calls EXCEPT ![a] = @ + 1]
       /\ UNCHANGED <<status, prepRun, packageVars, approvalVars, confirmed>>

\* Mutants of Recorded: a status outside the enumeration, an unknown outcome
\* taken for a success, and one that is not recorded.
RecordedOutsideStatus(report) == [send |-> report, app |-> "submitted"]
RecordedHopefully(report) ==
    IF report = "failed" THEN [send |-> "failed", app |-> "submission_blocked"]
    ELSE [send |-> "sent", app |-> "applied"]
RecordedLater(report) ==
    CASE report = "sent"    -> [send |-> "sent",    app |-> "applied"]
      [] report = "failed"  -> [send |-> "failed",  app |-> "submission_blocked"]
      [] report = "unknown" -> [send |-> "pending", app |-> "submitting"]

\* The package's new send state and the application's new status.
Recorded(report) ==
    CASE report = "sent"    -> [send |-> "sent",    app |-> "applied"]
      [] report = "failed"  -> [send |-> "failed",  app |-> "submission_blocked"]
      [] report = "unknown" -> [send |-> "unknown", app |-> "submission_unknown"]

\* Second commit.  No column is compared with what is stored by now.
SendRecord(r) ==
    LET new == Recorded(req[r].was)
    IN /\ At(r, "answered")
       /\ sendState' = [sendState EXCEPT ![req[r].pkg] = new.send]
       /\ status' = Flush(req[r].seen, new.app, status)
       /\ Finish(r)
       /\ UNCHANGED <<prepRun, created, content, version, isCurrent, approvalId, qa,
                      approvalVars, historyVars>>

-----------------------------------------------------------------------------
(* run_package_qa.  normalize_current_package_for_route returns the row it *)
(* is given: create_or_update_package stores no e-mail on another route.   *)

QaRead(r) ==
    /\ At(r, "idle")
    /\ \E p \in Newest :
         Goto(r, [Idle EXCEPT !.at = "qa", !.pkg = p, !.was = qa[p],
                              !.moves = approvalId[p] = NoAppr /\ status = "approved"])
    /\ UNCHANGED <<status, prepRun, packageVars, approvalVars, historyVars>>

\* The model answers, or fails ("warning"); a deterministic blocker overrules it.
VerdictsFor(c) ==
    IF c \in Incomplete THEN {"blocked"} ELSE ModelVerdict \cup {"warning"}

QaCommit(r) ==
    LET p == req[r].pkg
    IN /\ At(r, "qa")
       /\ \E v \in VerdictsFor(content[p]) :
            qa' = [qa EXCEPT ![p] = Flush(req[r].was, v, @)]
       /\ status' = IF req[r].moves THEN "pending_review" ELSE status
       /\ Finish(r)
       /\ UNCHANGED <<prepRun, created, content, version, isCurrent, approvalId,
                      sendState, approvalVars, historyVars>>

-----------------------------------------------------------------------------
(* confirm_manual_submission: any current row, in no particular order.     *)

ConfirmRead(r) ==
    /\ At(r, "idle")
    /\ status = "approved"
    /\ \E p \in CurrentRows :
         /\ approvalId[p] # NoAppr
         /\ content[p] \notin EmailRoute
         /\ Goto(r, [Idle EXCEPT !.at = "confirm", !.pkg = p])
    /\ UNCHANGED <<status, prepRun, packageVars, approvalVars, historyVars>>

ConfirmCommit(r) ==
    /\ At(r, "confirm")
    /\ status' = "applied"
    /\ confirmed' = confirmed \cup {req[r].pkg}
    /\ Finish(r)
    /\ UNCHANGED <<prepRun, packageVars, approvalVars, mailed, calls, accepted>>

-----------------------------------------------------------------------------
(* update_status, and the components this module does not describe.        *)

StatusWrittenElsewhere(s) ==
    /\ s # status
    /\ status' = s
    /\ UNCHANGED <<prepRun, packageVars, approvalVars, req, historyVars>>

\* The process dies, the client goes away or the database fails: the open
\* transaction is rolled back, what was committed stays.
Crash(r) ==
    /\ Crashes /\ ~At(r, "idle")
    /\ Finish(r)
    /\ UNCHANGED <<status, prepRun, packageVars, approvalVars, historyVars>>

\* What a request does once it has begun; the user decides what to begin.
Continue(r) ==
    \/ EditFlush(r) \/ EditCommit(r)
    \/ (\E c \in Content : DraftDone(r, c)) \/ DraftUnused(r)
    \/ ApproveReuse(r) \/ ApproveGrant(r)
    \/ SendConsume(r) \/ SendCall(r) \/ SendRecord(r)
    \/ QaCommit(r) \/ ConfirmCommit(r)

Begin(r) ==
    \/ \E c \in Content : EditRead(r, c)
    \/ DraftRead(r) \/ ApproveRead(r) \/ SendRead(r) \/ QaRead(r) \/ ConfirmRead(r)

Next ==
    \/ \E r \in Req : Begin(r) \/ Continue(r) \/ Crash(r)
    \/ \E a \in ApprId : Expire(a)
    \/ \E s \in OtherStatus : StatusWrittenElsewhere(s)

Spec == Init /\ [][Next]_vars

\* A request that has begun runs on: the event loop resumes every coroutine,
\* and every await of the handlers ends (the SMTP connection has a timeout of
\* 30 s, the model calls time out too).
FairSpec == Spec /\ \A r \in Req : WF_vars(Continue(r))

-----------------------------------------------------------------------------
(* Properties.                                                             *)

\* Whatever reaches the e-mail provider was approved by the user with exactly
\* this hash, and before the call both the consumption of the approval and the
\* send state were committed, so that no crash makes the send unknown to the
\* system (package_send.py:196-200).
SentWasApproved ==
    \A m \in mailed :
        /\ m[2] \in granted /\ used[m[2]]
        /\ forHash[m[2]] = Hash[content[m[1]]]
        /\ sendState[m[1]] # "none"

\* "sent" is claimed only for a message the relay took, and the application is
\* "applied" only by such a message or by the user's own word, whatever requests
\* overlap (package_send.py:11-12).
ClaimsHaveEvidence ==
    /\ \A p \in PkgId : sendState[p] = "sent" => p \in accepted
    /\ status = "applied" => accepted \cup confirmed # {}

\* The newest version is always current, even after updates that overlapped:
\* get_current_package never falls back to older content.
NewestIsCurrent ==
    \A p \in created : (\A q \in created : version[q] <= version[p]) => isCurrent[p]

\* With one request at a time an application has one current row, and version
\* numbers identify rows (application_package.py:6-9).
OneCurrentVersion ==
    \A p, q \in created : p # q =>
        /\ ~(isCurrent[p] /\ isCurrent[q])
        /\ version[p] # version[q]

\* With one request at a time no two approvals of one hash are live: the
\* scalar_one_or_none of approve_package and send_package_email cannot raise
\* (package_send.py:88-97, 220-229).
UniqueLiveApproval ==
    \A a, b \in granted : (forHash[a] = forHash[b] /\ a \in Live(forHash[a])
                                                 /\ b \in Live(forHash[b])) => a = b

\* An approval is single-use: it authorises at most one call of the provider
\* (models/application.py:117).
SingleUse == \A a \in ApprId : calls[a] <= 1

\* A package recorded as sent is never sent again, nor its record rewritten
\* (package_send.py:212-213).
SentIsFinal ==
    [][\A p \in PkgId : sendState[p] = "sent" =>
           /\ sendState'[p] = "sent"
           /\ \A a \in ApprId : <<p, a>> \in mailed' => <<p, a>> \in mailed]_vars

\* With one request at a time the flow implements the approval ledger: every
\* grant, consumption and provider call is a step the ledger allows, whatever
\* edits, reviews and crashes come between.
Ledger == INSTANCE ApprovalLedger WITH
    bound <- forHash,
    spent <- {a \in ApprId : used[a]},
    uses <- calls,
    emitted <- {<<m[2], Hash[content[m[1]]]>> : m \in mailed}

ImplementsLedger == Ledger!LedgerSpec

\* While no request dies, a send that has begun ends with a verdict.
SendResolves ==
    \A p \in PkgId : sendState[p] = "pending" ~> sendState[p] # "pending"
=============================================================================
