------------------------------ MODULE Submission ------------------------------
(***************************************************************************)
(* The live submission of one application (api/v1/workflow.py): a browser  *)
(* session prepares the form's answers in the background                   *)
(* (services/application_runner.py), the user completes them and approves, *)
(* and approve_and_submit spends the approval and drives a second browser  *)
(* session (services/submission_service.py).  The package flow grants      *)
(* approvals for the same application, and send_package_email spends them  *)
(* and writes the same status; its edits, verdicts and package rows are    *)
(* those of module ApplicationPackage and appear here as environment.      *)
(*                                                                         *)
(* A request keeps what it has loaded; only approve_and_submit locks what  *)
(* it reads (SELECT ... FOR UPDATE of the live approvals).                 *)
(***************************************************************************)
EXTENDS Naturals, Sequences, SequencesExt, FiniteSets

CONSTANTS
    Req,             \* requests in flight at the same time
    ApprId,          \* identifiers of approvals: bound the number of rows
    MaxRuns,         \* bound on the rows of application_runs
    HashVal, NoHash, \* hashes of packages; no package
    OtherStatus,     \* statuses written by other parts of the system
    MaxSends,        \* bound on the sends in flight at the same time
    MaxMishaps,      \* bound on approvals that expire and preparations that fail
    Crashes,         \* TRUE: requests may die between two steps
    NoAppr

ASSUME SubmissionAssumption ==
    /\ NoAppr \notin ApprId /\ NoHash \notin HashVal
    /\ MaxRuns \in Nat \ {0} /\ {MaxSends, MaxMishaps} \subseteq Nat /\ Crashes \in BOOLEAN

Status ==
    {"discovered", "matched", "preparing", "ready", "waiting_for_review", "submitting",
     "submission_blocked", "submission_unknown", "queued", "pending_review", "approved",
     "applying", "applied", "interview", "rejected", "offer", "withdrawn", "failed"}

ASSUME OtherAssumption == OtherStatus \subseteq Status

\* state_data["questions"]: absent, or one still requires the user, or complete.
Questions == {"none", "open", "complete"}

VARIABLES
    status,   \* applications.status
    runs,     \* application_runs in the order of created_at
    ended,    \* indices of the completed runs in the order of completed_at
    granted, forRun, forHash, used, expired,   \* application_approvals
    package,  \* content_hash of the current package
    req,      \* the requests and their sessions
    clicks,   \* history: submit clicks made on the strength of each approval
    sent,     \* history: what was submitted
    lost,     \* history: submission runs whose request died
    excused   \* history: the claim that is now the status rests on something else than a
              \* submission: another component, an accepted email, a send that died

approvalVars == <<granted, forRun, forHash, used, expired>>
historyVars == <<clicks, sent, lost>>
vars == <<status, excused, runs, ended, approvalVars, package, req, historyVars>>

\* A run; `appr` (history) is the approval a submission run was made for.
RunRow == [state : {"running", "submitting", "completed", "unknown", "failed"},
           questions : Questions, appr : ApprId \cup {NoAppr}]

\* A session: the status it holds ("none" if it is one that matters to nothing the
\* session does), the approval, run and questions it has loaded, the submission run
\* it has inserted, and what its browser session reported.
Idle == [at |-> "idle", seen |-> "none", appr |-> NoAppr, run |-> 0,
         questions |-> "none", own |-> 0, report |-> "none"]
Session == [at : {"idle", "approve", "grant", "submit", "locked", "execute", "browser",
                  "answered", "answer", "prepare", "mail", "mailing"},
            seen : Status \cup {"none"}, appr : ApprId \cup {NoAppr}, run : 0..MaxRuns,
            questions : Questions, own : 0..MaxRuns,
            report : {"none", "ok", "unconfirmed", "error"}]

TypeOK ==
    /\ status \in Status
    /\ runs \in Seq(RunRow) /\ Len(runs) <= MaxRuns
    /\ ended \in Seq(1..MaxRuns)
    /\ granted \subseteq ApprId
    /\ forRun \in [ApprId -> 0..MaxRuns]
    /\ forHash \in [ApprId -> HashVal \cup {NoHash}]
    /\ used \in [ApprId -> BOOLEAN]
    /\ expired \in [ApprId -> BOOLEAN]
    /\ package \in HashVal \cup {NoHash}
    /\ req \in [Req -> Session]
    /\ clicks \in [ApprId -> Nat]
    /\ lost \subseteq 1..MaxRuns
    /\ excused \in BOOLEAN

\* prepare_application has created the application and its first run.
Init ==
    /\ status = "preparing"
    /\ runs = <<[state |-> "running", questions |-> "none", appr |-> NoAppr]>>
    /\ ended = <<>>
    /\ granted = {}
    /\ forRun = [a \in ApprId |-> 0]
    /\ forHash = [a \in ApprId |-> NoHash]
    /\ used = [a \in ApprId |-> FALSE]
    /\ expired = [a \in ApprId |-> FALSE]
    /\ package = NoHash
    /\ req = [r \in Req |-> Idle]
    /\ excused = FALSE
    /\ clicks = [a \in ApprId |-> 0] /\ sent = {} /\ lost = {}

-----------------------------------------------------------------------------
Flush(loaded, new, stored) == IF new = loaded THEN stored ELSE new

\* The status is written by a session that holds `loaded`, or by an UPDATE.
Write(loaded, new) ==
    /\ status' = Flush(loaded, new, status)
    /\ excused' = (excused /\ loaded = new)
Overwrite(new) == status' = new /\ excused' = FALSE

Goto(r, session) == req' = [req EXCEPT ![r] = session]
Finish(r) == Goto(r, Idle)
At(r, place) == req[r].at = place

\* The status as far as a session's writes depend on it.
Seen(values) == IF status \in values THEN status ELSE "none"

Submittable == {"waiting_for_review", "submission_blocked"}

\* Both lookups of submission_service: unused, unexpired approvals of the
\* application, whatever package they were given for.
Live == {a \in granted : ~used[a] /\ ~expired[a]}

\* Mutant of Unlocked: the SELECT does not lock.
NeverLocked(a) == TRUE

\* No request holds the row lock of FOR UPDATE on approval a.
Unlocked(a) == \A r \in Req : At(r, "locked") => req[r].appr # a

\* Bounds: a request that will insert a row begins only if there is room for it.
WillAdd == Cardinality({r \in Req : At(r, "submit") \/ At(r, "locked") \/ At(r, "prepare")})

RoomForRun == Len(runs) + WillAdd < MaxRuns

\* A preparation leaves room for a run that is made for its submission.
RoomForPreparation == Len(runs) + WillAdd + 1 < MaxRuns

RoomForSend == Cardinality({r \in Req : At(r, "mail") \/ At(r, "mailing")}) < MaxSends

RoomForMishap ==
    Cardinality({a \in ApprId : expired[a]})
      + Cardinality({i \in DOMAIN runs : runs[i].state = "failed" /\ runs[i].appr = NoAppr})
        < MaxMishaps

RoomForApproval ==
    Cardinality({r \in Req : At(r, "approve") \/ At(r, "grant")})
        < Cardinality(ApprId \ granted)

\* The completed run with the newest completed_at, if there is one: a run that failed
\* after its completion is passed over.
LatestCompleted ==
    {i \in DOMAIN runs :
        \E k \in DOMAIN ended :
            /\ ended[k] = i /\ runs[i].state = "completed"
            /\ \A j \in k+1..Len(ended) : runs[ended[j]].state # "completed"}

-----------------------------------------------------------------------------
(* prepare_application and run_application_preparation.                    *)

\* Whatever the status of the application is.
PrepareRead(r) ==
    /\ At(r, "idle") /\ RoomForPreparation
    /\ Goto(r, [Idle EXCEPT !.at = "prepare", !.seen = Seen({"preparing"})])
    /\ UNCHANGED <<status, excused, runs, ended, approvalVars, package, historyVars>>

PrepareCommit(r) ==
    /\ At(r, "prepare") /\ Len(runs) < MaxRuns
    /\ Write(req[r].seen, "preparing")
    /\ runs' = Append(runs, [state |-> "running", questions |-> "none", appr |-> NoAppr])
    /\ Finish(r)
    /\ UNCHANGED <<ended, approvalVars, package, historyVars>>

\* The background task writes the status by an UPDATE, whatever it is by now.
PrepareDone(i, q) ==
    /\ runs[i].state = "running"
    /\ runs' = [runs EXCEPT ![i].state = "completed", ![i].questions = q]
    /\ ended' = Append(ended, i)
    /\ Overwrite("waiting_for_review")
    /\ UNCHANGED <<approvalVars, package, req, historyVars>>

\* The try block goes on with the notification after that commit, for as long as it
\* takes: an exception fails a run that is completed, and perhaps approved or
\* submitted, by then.  Its questions stay.
Preparing(run) ==
    \/ run.state = "running"
    \/ run.state = "completed" /\ run.questions # "none"

PrepareFails(i) ==
    /\ Preparing(runs[i]) /\ RoomForMishap
    /\ runs' = [runs EXCEPT ![i].state = "failed"]
    /\ Overwrite("failed")
    /\ UNCHANGED <<ended, approvalVars, package, req, historyVars>>

\* update_application_questions: the latest run must carry questions.  The whole
\* column is written back: answers, or what was loaded but for other questions.
AnswerRead(r) ==
    /\ At(r, "idle")
    /\ Last(runs).questions # "none"
    /\ Goto(r, [Idle EXCEPT !.at = "answer", !.run = Len(runs),
                            !.questions = Last(runs).questions])
    /\ UNCHANGED <<status, excused, runs, ended, approvalVars, package, historyVars>>

AnswerCommit(r) ==
    /\ At(r, "answer")
    /\ \E q \in {"complete", req[r].questions} :
         runs' = [runs EXCEPT ![req[r].run].questions = q]
    /\ Finish(r)
    /\ UNCHANGED <<status, excused, ended, approvalVars, package, historyVars>>

-----------------------------------------------------------------------------
(* approve_application.                                                    *)

ApproveRead(r) ==
    /\ At(r, "idle") /\ RoomForApproval
    /\ status \in Submittable
    /\ \E i \in LatestCompleted : Goto(r, [Idle EXCEPT !.at = "approve", !.run = i])
    /\ UNCHANGED <<status, excused, runs, ended, approvalVars, package, historyVars>>

\* A live approval is returned as it is; of several, the lookup raises.
ApproveLookup(r) ==
    /\ At(r, "approve")
    /\ IF Live = {} THEN Goto(r, [req[r] EXCEPT !.at = "grant"]) ELSE Finish(r)
    /\ UNCHANGED <<status, excused, runs, ended, approvalVars, package, historyVars>>

Grant(a, run, hash) ==
    /\ granted' = granted \cup {a}
    /\ forRun' = [forRun EXCEPT ![a] = run]
    /\ forHash' = [forHash EXCEPT ![a] = hash]
    /\ UNCHANGED <<used, expired>>

ApproveCommit(r) ==
    /\ At(r, "grant")
    /\ \E a \in ApprId \ granted : Grant(a, req[r].run, NoHash)
    /\ Finish(r)
    /\ UNCHANGED <<status, excused, runs, ended, package, historyVars>>

\* expires_at passes, 24 hours after the approval; of a spent one nobody asks.
Expire(a) ==
    /\ a \in Live /\ RoomForMishap
    /\ expired' = [expired EXCEPT ![a] = TRUE]
    /\ UNCHANGED <<status, excused, runs, ended, granted, forRun, forHash, used, package,
                   req, historyVars>>

-----------------------------------------------------------------------------
(* approve_and_submit and _execute_submission.                             *)

SubmitRead(r) ==
    /\ At(r, "idle") /\ RoomForRun
    /\ status \in Submittable
    /\ Goto(r, [Idle EXCEPT !.at = "submit"])
    /\ UNCHANGED <<status, excused, runs, ended, approvalVars, package, historyVars>>

\* Mutant of SubmitLock: the consumption is committed before the last guards.
SubmitLockAndSpend(r) ==
    /\ At(r, "submit")
    /\ \E a \in ApprId :
         /\ Live = {a} /\ Unlocked(a)
         /\ used' = [used EXCEPT ![a] = TRUE]
         /\ Goto(r, [req[r] EXCEPT !.at = "locked", !.appr = a])
    /\ UNCHANGED <<status, excused, runs, ended, granted, forRun, forHash, expired,
                   package, historyVars>>

\* SELECT ... FOR UPDATE waits for the lock and then looks at the row again.
SubmitLock(r) ==
    /\ At(r, "submit")
    /\ \E a \in ApprId :
         /\ Live = {a} /\ Unlocked(a)
         /\ Goto(r, [req[r] EXCEPT !.at = "locked", !.appr = a])
    /\ UNCHANGED <<status, excused, runs, ended, approvalVars, package, historyVars>>

\* There is not one live approval, or live submission is switched off, or the
\* connector cannot submit: the transaction is rolled back, the approval unspent.
SubmitRefused(r) ==
    /\ \/ At(r, "submit") /\ \A a \in ApprId : Live # {a}
       \/ At(r, "locked")
    /\ Finish(r)
    /\ UNCHANGED <<status, excused, runs, ended, approvalVars, package, historyVars>>

\* The approval is spent, the submission run inserted and the application marked
\* in one commit; the session holds a submittable status, so the mark is written.
SubmitCommit(r) ==
    LET a == req[r].appr
    IN /\ At(r, "locked") /\ Len(runs) < MaxRuns
       /\ used' = [used EXCEPT ![a] = TRUE]
       /\ runs' = Append(runs, [state |-> "submitting", questions |-> "none", appr |-> a])
       /\ Overwrite("submitting")
       /\ Goto(r, [req[r] EXCEPT !.at = "execute", !.own = Len(runs) + 1,
                                 !.run = forRun[a]])
       /\ UNCHANGED <<ended, granted, forRun, forHash, expired, package, historyVars>>

\* Mutant of Prepared: questions that require the user are not looked at.
PreparedAtAll(q) == q # "none"

\* The preparation run has questions, and none of them requires the user.
Prepared(q) == q \notin {"none", "open"}

\* The preparation run of the approval is loaded; any guard may refuse.
ExecuteLoad(r) ==
    LET q == runs[req[r].run].questions
    IN /\ At(r, "execute")
       /\ \/ Prepared(q) /\ Goto(r, [req[r] EXCEPT !.at = "browser", !.questions = q])
          \/ Goto(r, [req[r] EXCEPT !.at = "answered", !.report = "error"])
       /\ UNCHANGED <<status, excused, runs, ended, approvalVars, package, historyVars>>

\* _pw_submission_task gives up before the click (the form has a new question, a
\* field cannot be filled) ...
BrowserGivesUp(r) ==
    /\ At(r, "browser")
    /\ Goto(r, [req[r] EXCEPT !.at = "answered", !.report = "error"])
    /\ UNCHANGED <<status, excused, runs, ended, approvalVars, package, historyVars>>

\* ... or clicks, and finds the confirmation, or does not, or fails afterwards (the
\* last screenshot is taken outside the try block of the confirmation).
BrowserClicks(r) ==
    LET a == req[r].appr
    IN /\ At(r, "browser")
       /\ clicks' = [clicks EXCEPT ![a] = @ + 1]
       /\ \E report \in {"ok", "unconfirmed", "error"} :
            /\ sent' = sent \cup
                  {[appr |-> a, run |-> req[r].run, own |-> req[r].own,
                    questions |-> req[r].questions, confirmed |-> report = "ok"]}
            /\ Goto(r, [req[r] EXCEPT !.at = "answered", !.report = report])
       /\ UNCHANGED <<status, excused, runs, ended, approvalVars, package, lost>>

\* Mutants of Outcome: a state the application does not have, and an unconfirmed
\* click taken for a success.
OutcomeOutside(report) == [run |-> "unknown", app |-> "submitted"]
OutcomeHopeful(report) ==
    IF report = "error" THEN [run |-> "failed", app |-> "submission_blocked"]
    ELSE [run |-> "completed", app |-> "applied"]

\* The submission run's state and the application's status.
Outcome(report) ==
    CASE report = "ok"          -> [run |-> "completed", app |-> "applied"]
      [] report = "unconfirmed" -> [run |-> "unknown",   app |-> "submission_unknown"]
      [] report = "error"       -> [run |-> "failed",    app |-> "submission_blocked"]

ExecuteRecord(r) ==
    LET new == Outcome(req[r].report)
        own == req[r].own
    IN /\ At(r, "answered")
       /\ runs' = [runs EXCEPT ![own].state = new.run]
       /\ ended' = IF new.run = "completed" THEN Append(ended, own) ELSE ended
       /\ Overwrite(new.app)
       /\ Finish(r)
       /\ UNCHANGED <<approvalVars, package, historyVars>>

-----------------------------------------------------------------------------
(* The package flow (module ApplicationPackage): what it does to approvals *)
(* and to the status of the application.                                   *)

\* A session of the package flow changes the status it has just read, or leaves it.
Turn(new) == status' = new /\ excused' = (excused /\ new = status)

\* create_or_update_package: an approved application returns to review if the row it
\* replaces has an approval of its own (a reused one belongs to an older row).
PackageStored(h) ==
    /\ package # h
    /\ package' = h
    /\ \E new \in {status} \cup (IF status = "approved" THEN {"pending_review"} ELSE {}) :
         Turn(new)
    /\ UNCHANGED <<runs, ended, approvalVars, req, historyVars>>

\* The statuses that a send leaves until it knows the verdict.
Settled == {"applied", "submission_unknown"}

\* The statuses that approve_package turns into "approved".
Reviewable == {"ready", "waiting_for_review", "pending_review"}

ForPackage == {b \in Live : forHash[b] = package}

\* approve_package grants an approval for the current package, unless it has a live
\* one; without a completed run it inserts one that has no questions.
PackageApproved(a) ==
    /\ package # NoHash /\ a \notin granted /\ RoomForApproval
    /\ ForPackage = {}
    /\ \/ /\ LatestCompleted = {} /\ RoomForRun /\ Len(runs) < MaxRuns
          /\ runs' = Append(runs, [state |-> "completed", questions |-> "none",
                                   appr |-> NoAppr])
          /\ ended' = Append(ended, Len(runs) + 1)
          /\ Grant(a, Len(runs) + 1, package)
       \/ /\ \E i \in LatestCompleted : Grant(a, i, package)
          /\ UNCHANGED <<runs, ended>>
    /\ Turn(IF status \in Reviewable THEN "approved" ELSE status)
    /\ UNCHANGED <<package, req, historyVars>>

PackageReapproved ==
    /\ package # NoHash /\ ForPackage # {}
    /\ status \in Reviewable /\ Turn("approved")
    /\ UNCHANGED <<runs, ended, approvalVars, package, req, historyVars>>

\* send_package_email reads the status and the approval of the current package, and
\* takes no lock ...
SendRead(r) ==
    /\ At(r, "idle") /\ package # NoHash /\ RoomForSend
    /\ \E a \in ApprId :
         /\ ForPackage = {a}
         /\ Goto(r, [Idle EXCEPT !.at = "mail", !.appr = a,
                                 !.seen = Seen({"submitting"} \cup Settled)])
    /\ UNCHANGED <<status, excused, runs, ended, approvalVars, package, historyVars>>

\* ... its attachments are refused, and nothing is written ...
SendRefused(r) ==
    /\ At(r, "mail") /\ Finish(r)
    /\ UNCHANGED <<status, excused, runs, ended, approvalVars, package, historyVars>>

\* ... the commit waits for a row lock but does not look at used_at again, and marks
\* the application ...
SendCommit(r) ==
    LET a == req[r].appr
        seen == req[r].seen
        new == IF seen \in Settled THEN seen ELSE "submitting"
    IN /\ At(r, "mail") /\ Unlocked(a)
       /\ used' = [used EXCEPT ![a] = TRUE]
       /\ Write(seen, new)
       /\ Goto(r, [req[r] EXCEPT !.at = "mailing", !.seen = new])
       /\ UNCHANGED <<runs, ended, granted, forRun, forHash, expired, package, historyVars>>

\* Mutant of SentStatus: a call that ends without a verdict leaves the mark.
SentStatusKept(verdict) ==
    CASE verdict = "sent"    -> "applied"
      [] verdict = "unknown" -> "submitting"
      [] verdict = "failed"  -> "submission_blocked"

SentStatus(verdict) ==
    CASE verdict = "sent"    -> "applied"
      [] verdict = "unknown" -> "submission_unknown"
      [] verdict = "failed"  -> "submission_blocked"

\* ... and the provider's verdict decides what the application is then.
SendRecord(r) ==
    /\ At(r, "mailing")
    /\ \E verdict \in {"sent", "unknown", "failed"} :
         /\ status' = Flush(req[r].seen, SentStatus(verdict), status)
         /\ excused' = IF SentStatus(verdict) = req[r].seen THEN excused
                       ELSE verdict = "sent"
    /\ Finish(r)
    /\ UNCHANGED <<runs, ended, approvalVars, package, historyVars>>

-----------------------------------------------------------------------------
(* Other components, and deaths.                                           *)

\* The claims that somebody submits, or has submitted, the application.
Claims == {"submitting", "applied"}

\* update_status and confirm_manual_submission, the worker, and the reject button of
\* the Telegram bot: any status, the two claims included.
StatusWrittenElsewhere(s) ==
    /\ s # status
    /\ status' = s /\ excused' = (s \in Claims)
    /\ UNCHANGED <<runs, ended, approvalVars, package, req, historyVars>>

\* The process dies or the request is cancelled: `except Exception` does not see a
\* cancellation, so an application that was being submitted stays "submitting".
Crash(r) ==
    /\ Crashes /\ ~At(r, "idle")
    /\ lost' = lost \cup ({req[r].own} \ {0})
    /\ excused' = (excused \/ (At(r, "mailing") /\ "submitting" = req[r].seen
                               /\ "submitting" = status))
    /\ Finish(r)
    /\ UNCHANGED <<status, runs, ended, approvalVars, package, clicks, sent>>

Continue(r) ==
    \/ PrepareCommit(r) \/ AnswerCommit(r) \/ ApproveLookup(r) \/ ApproveCommit(r)
    \/ SubmitLock(r) \/ SubmitRefused(r) \/ SubmitCommit(r) \/ ExecuteLoad(r)
    \/ BrowserGivesUp(r) \/ BrowserClicks(r) \/ ExecuteRecord(r)
    \/ SendRefused(r) \/ SendCommit(r) \/ SendRecord(r)

Begin(r) ==
    \/ PrepareRead(r) \/ AnswerRead(r) \/ ApproveRead(r) \/ SubmitRead(r) \/ SendRead(r)

Next ==
    \/ \E r \in Req : Begin(r) \/ Continue(r) \/ Crash(r)
    \/ \E i \in 1..Len(runs) :
         \/ \E q \in {"open", "complete"} : PrepareDone(i, q)
         \/ PrepareFails(i)
    \/ \E a \in ApprId : Expire(a) \/ PackageApproved(a)
    \/ PackageReapproved
    \/ \E h \in HashVal : PackageStored(h)
    \/ \E s \in OtherStatus : StatusWrittenElsewhere(s)

Spec == Init /\ [][Next]_vars

-----------------------------------------------------------------------------
(* Properties.                                                             *)

\* The flow implements the approval ledger although requests overlap and the
\* package flow spends approvals of the same application: each approval is bound
\* to one preparation run, is spent once, and then lets one click out, with that
\* run's answers (submission_service.py:223-297, the FOR UPDATE).  The uses are the
\* clicks: a send that has read an approval before its spending may still mail.
Ledger == INSTANCE ApprovalLedger WITH
    HashVal <- 1..MaxRuns, NoHash <- 0,
    bound <- forRun,
    spent <- {a \in ApprId : used[a]},
    uses <- clicks,
    emitted <- {<<s.appr, s.run>> : s \in sent}

ImplementsLedger == Ledger!LedgerSpec

\* Only answers without open questions are submitted, and they are those of a
\* preparation that had completed, though its notification may have failed it since,
\* though an approval may be bound to a submission's run or to one that has no
\* questions, and answers are edited meanwhile (submission_service.py:317-332,
\* application_runner.py:105-166).
SubmittedWasPrepared ==
    \A s \in sent :
        /\ s.questions = "complete"
        /\ \E k \in DOMAIN ended : ended[k] = s.run
        /\ runs[s.run].appr = NoAppr

\* Unless another component wrote it, "applied" is claimed only if a confirmation of
\* a click was seen or an email was accepted; a submission run is completed only by
\* the confirmation of its own click, whatever overlaps
\* (submission_service.py:372-390, package_send.py:268-291).
AppliedWasConfirmed ==
    /\ status = "applied" /\ ~excused => \E s \in sent : s.confirmed
    /\ \A i \in DOMAIN runs : runs[i].appr # NoAppr /\ runs[i].state = "completed" =>
           \E s \in sent : s.own = i /\ s.confirmed

\* An approval this flow granted is spent exactly if a submission run stands for
\* it: a refusal or a crash before the commit does not use it up
\* (submission_service.py:268-297).
SpentIsAccounted ==
    \A a \in granted : forHash[a] = NoHash =>
        (used[a] <=> \E i \in DOMAIN runs : runs[i].appr = a)

\* No error path leaves a run "submitting" with no request at work on it but a
\* request that died.  The application is "submitting" only if a submission or a send
\* that marked it is still at work, or one has died, or another component wrote it
\* (submission_service.py:300-309, package_send.py:245-291).
SubmittingIsWorkedOn ==
    /\ \A i \in DOMAIN runs : runs[i].state = "submitting" =>
           i \in lost \/ \E r \in Req : req[r].own = i
    /\ status = "submitting" /\ ~excused =>
           \/ lost # {}
           \/ \E r \in Req : \/ req[r].own # 0
                             \/ At(r, "mailing") /\ req[r].seen = "submitting"

=============================================================================
