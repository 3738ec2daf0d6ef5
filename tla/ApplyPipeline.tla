----------------------------- MODULE ApplyPipeline -----------------------------
(***************************************************************************)
(* The automated apply pipeline: the API creates, dispatches and approves  *)
(* applications (services/application.py, services/dispatch.py), an Arq    *)
(* queue in Redis carries one job per application, and the worker          *)
(* (workers/tasks.py, _apply) drives the browser and records the outcome.  *)
(*                                                                         *)
(* Arq delivers at least once: a job whose worker dies is run again, up to *)
(* max_tries times.  A job id is taken while the job is queued or running  *)
(* and while its result is kept; an enqueue under a taken id is dropped.   *)
(***************************************************************************)
EXTENDS Naturals

CONSTANTS
    Req,           \* API requests in flight at the same time
    App, Job,      \* application rows that can be inserted, and jobs
    JobOf,         \* the job each row applies to
    MaxTries,      \* WorkerSettings.max_tries
    UserStatus,    \* statuses the user sets through PUT .../status
    Kills,         \* TRUE: processes may die, and Redis and the database fail
    NoApp

ASSUME PipelineAssumption ==
    /\ JobOf \in [App -> Job] /\ NoApp \notin App
    /\ MaxTries \in Nat \ {0} /\ Kills \in BOOLEAN

Terminal == {"rejected", "withdrawn", "failed"}
Status == {"queued", "pending_review", "approved", "applying", "applied",
           "interview"} \cup Terminal

\* ApplyMode: REVIEW and BATCH both stage the application for approval.
Mode == {"autonomous", "staged"}

ASSUME UserAssumption == UserStatus \subseteq Status

VARIABLES
    rows, mode, status,        \* applications: rows that exist, apply_mode, status
    queue, tries,              \* Redis: state of job apply:<id>, its job_try counter
    pool,                      \* the API has a connection pool to Redis
    work,                      \* the worker's coroutine for each application
    req,                       \* API requests
    submits,                   \* history: submissions made by the current job
    settled,                   \* history: APPLIED by the worker, and not rewritten
    lost                       \* history: a worker ended without recording an outcome

dbVars == <<rows, mode, status>>
redisVars == <<queue, tries, pool>>
historyVars == <<submits, settled, lost>>
vars == <<dbVars, redisVars, work, req, historyVars>>

\* A request: `left` are the rows it still has to dispatch, approve or enqueue,
\* `app` the one it is enqueueing, `seen` the status it loaded, `jobs` the jobs of a
\* batch that had no active row.
Idle == [at |-> "idle", app |-> NoApp, seen |-> "queued", left |-> {}, jobs |-> {}]
Request == [at : {"idle", "batch", "dispatch", "enqueue", "approve", "enqueueAll"},
            app : App \cup {NoApp}, seen : Status, left : SUBSET App,
            jobs : SUBSET Job]

\* job_try is what arq hands the coroutine; `report` is what the submission came to.
Resting == [at |-> "none", seen |-> "queued", report |-> "none"]
Coroutine == [at : {"none", "loaded", "applying", "answered", "done"}, seen : Status,
              report : {"none", "ok", "transient", "terminal"}]

TypeOK ==
    /\ rows \subseteq App
    /\ mode \in [App -> Mode]
    /\ status \in [App -> Status]
    /\ queue \in [App -> {"none", "queued", "running", "result"}]
    /\ tries \in [App -> 0..(MaxTries + 1)]
    /\ pool \in BOOLEAN
    /\ work \in [App -> Coroutine]
    /\ req \in [Req -> Request]
    /\ submits \in [App -> Nat]
    /\ settled \in [App -> BOOLEAN]
    /\ lost \in BOOLEAN

Init ==
    /\ rows = {}
    /\ mode = [a \in App |-> "staged"]
    /\ status = [a \in App |-> "queued"]
    /\ queue = [a \in App |-> "none"]
    /\ tries = [a \in App |-> 0]
    /\ pool \in BOOLEAN
    /\ work = [a \in App |-> Resting]
    /\ req = [r \in Req |-> Idle]
    /\ submits = [a \in App |-> 0]
    /\ settled = [a \in App |-> FALSE]
    /\ lost = FALSE

-----------------------------------------------------------------------------
\* Mutants of MayBe and Flush: no index, and a status the enumeration lacks.
MayAlwaysBe(a, s) == TRUE
FlushedBadly(loaded, new, stored) == IF new = loaded THEN stored ELSE "review"

\* The partial unique index uq_app_active_job.
MayBe(a, s) ==
    \/ s \in Terminal
    \/ \A b \in rows \ {a} : JobOf[b] = JobOf[a] => status[b] \in Terminal

\* SQLAlchemy writes the column when the new value differs from the loaded one.
Flush(loaded, new, stored) == IF new = loaded THEN stored ELSE new

Goto(r, session) == req' = [req EXCEPT ![r] = session]
Finish(r) == Goto(r, Idle)

\* A status written by anyone but the worker.
Rewrite(written) ==
    /\ status' = [a \in App |-> IF a \in DOMAIN written THEN written[a] ELSE status[a]]
    /\ settled' = [a \in App |-> settled[a] /\ status'[a] = status[a]]

ActiveRows(j) == {a \in rows : JobOf[a] = j /\ status[a] \notin Terminal}

\* The INSERT of the rows `new`, in mode m.
Insert(new, m) ==
    /\ rows' = rows \cup new
    /\ mode' = [a \in App |-> IF a \in new THEN m ELSE mode[a]]

\* create_application: the row inserted, or the active row of the job if the index
\* refuses it, is dispatched.
Create(r, j, m) ==
    LET dispatch(a, s) ==
            Goto(r, [Idle EXCEPT !.at = "dispatch", !.left = {a}, !.seen = s])
    IN /\ req[r].at = "idle"
       /\ \/ /\ ActiveRows(j) = {}
             /\ \E a \in App \ rows :
                  JobOf[a] = j /\ Insert({a}, m) /\ dispatch(a, "queued")
          \/ /\ \E a \in ActiveRows(j) : dispatch(a, status[a])
             /\ UNCHANGED <<rows, mode>>
       /\ UNCHANGED <<status, redisVars, work, historyVars>>

\* create_batch leaves out the jobs that have an active row when it reads them.
\* (Bound: there is an identifier left for every job.)
BatchRead(r, js) ==
    /\ req[r].at = "idle"
    /\ \A j \in js : \E a \in App \ rows : JobOf[a] = j
    /\ Goto(r, [Idle EXCEPT !.at = "batch",
                            !.jobs = {j \in js : ActiveRows(j) = {}}])
    /\ UNCHANGED <<dbVars, redisVars, work, historyVars>>

\* It inserts all the others in one commit, which the index may refuse.
BatchCommit(r, m) ==
    LET jobs == req[r].jobs
    IN /\ req[r].at = "batch"
       /\ \/ /\ jobs = {} \/ \E j \in jobs : ActiveRows(j) # {}
             /\ Finish(r)
             /\ UNCHANGED <<rows, mode>>
          \/ /\ jobs # {} /\ \A j \in jobs : ActiveRows(j) = {}
             /\ \E new \in SUBSET (App \ rows) :
                  /\ {JobOf[a] : a \in new} = jobs
                  /\ \A a, b \in new : JobOf[a] = JobOf[b] => a = b
                  /\ Insert(new, m)
                  /\ Goto(r, [Idle EXCEPT !.at = "dispatch", !.left = new])
       /\ UNCHANGED <<status, redisVars, work, historyVars>>

\* After one row of a batch, the next.
NextRow(r, left) ==
    IF left = {} THEN Finish(r)
    ELSE Goto(r, [Idle EXCEPT !.at = "dispatch", !.left = left])

\* dispatch_for_mode: autonomous rows are queued, the others staged for approval.
\* An exception ends the request.
Dispatch(r) ==
    /\ req[r].at = "dispatch"
    /\ \E a \in req[r].left :
         LET auto == mode[a] = "autonomous"
             to == IF auto THEN "queued" ELSE "pending_review"
             written == Flush(req[r].seen, to, status[a])
             left == req[r].left \ {a}
         IN \/ /\ MayBe(a, written)
               /\ Rewrite([b \in {a} |-> written])
               /\ IF auto
                  THEN Goto(r, [Idle EXCEPT !.at = "enqueue", !.app = a, !.left = left])
                  ELSE NextRow(r, left)
            \/ /\ ~MayBe(a, written)
               /\ Finish(r)
               /\ UNCHANGED <<status, settled>>
    /\ UNCHANGED <<rows, mode, redisVars, work, submits, lost>>

\* approve_application (one row) and bulk_approve (a set of rows): staged or
\* queued rows only.
ApproveRead(r, s) ==
    /\ req[r].at = "idle"
    /\ \A a \in s : status[a] \in {"pending_review", "queued"}
    /\ Goto(r, [Idle EXCEPT !.at = "approve", !.left = s])
    /\ UNCHANGED <<dbVars, redisVars, work, historyVars>>

\* All the rows are approved in one commit.
ApproveCommit(r) ==
    /\ req[r].at = "approve"
    /\ IF \A a \in req[r].left : MayBe(a, "approved")
       THEN /\ Rewrite([a \in req[r].left |-> "approved"])
            /\ Goto(r, [req[r] EXCEPT !.at = "enqueueAll"])
       ELSE Finish(r) /\ UNCHANGED <<status, settled>>
    /\ UNCHANGED <<rows, mode, redisVars, work, submits, lost>>

\* enqueue_apply: without a connection, or under a taken id, nothing is enqueued.
Push(a) ==
    IF pool /\ queue[a] = "none"
    THEN /\ queue' = [queue EXCEPT ![a] = "queued"]
         /\ tries' = [tries EXCEPT ![a] = 0]
         /\ submits' = [submits EXCEPT ![a] = 0]
    ELSE UNCHANGED <<queue, tries, submits>>

Enqueue(r) ==
    /\ req[r].at = "enqueue"
    /\ Push(req[r].app)
    /\ NextRow(r, req[r].left)
    /\ UNCHANGED <<dbVars, pool, work, settled, lost>>

\* After the approval, one row after the other.
EnqueueApproved(r) ==
    /\ req[r].at = "enqueueAll"
    /\ \E a \in req[r].left :
         /\ Push(a)
         /\ IF req[r].left = {a} THEN Finish(r)
            ELSE Goto(r, [req[r] EXCEPT !.left = @ \ {a}])
    /\ UNCHANGED <<dbVars, pool, work, settled, lost>>

\* A request dies between two commits.
RequestDies(r) ==
    /\ Kills /\ req[r].at # "idle"
    /\ Finish(r)
    /\ UNCHANGED <<dbVars, redisVars, work, historyVars>>

\* update_status: any status, from any status.
UpdateStatus(a, s) ==
    /\ a \in rows /\ s # status[a] /\ MayBe(a, s)
    /\ Rewrite([b \in {a} |-> s])
    /\ UNCHANGED <<rows, mode, redisVars, work, req, submits, lost>>

-----------------------------------------------------------------------------
\* The worker.  seen, report: what the coroutine of a knows.
Step(a, coroutine) == work' = [work EXCEPT ![a] = coroutine]

\* A commit of the worker writes what differs from the status it loaded; the
\* unique index may refuse a write, and then the task ends with the exception.
Written(a, s) == Flush(work[a].seen, s, status[a])
Recordable(a, s) == MayBe(a, Written(a, s))

Record(a, s) ==
    /\ status' = IF Recordable(a, s)
                 THEN [status EXCEPT ![a] = Written(a, s)] ELSE status
    /\ settled' = [settled EXCEPT ![a] = status'[a] = "applied" /\ (s = "applied" \/ @)]
    /\ UNCHANGED <<rows, mode>>

EndJob(a) == queue' = [queue EXCEPT ![a] = "result"] /\ Step(a, Resting)
Requeue(a) == queue' = [queue EXCEPT ![a] = "queued"] /\ Step(a, Resting)

\* Mutant of Completed: the idempotency check is forgotten.
NeverCompleted(s) == FALSE

\* _apply returns at once if the row is APPLIED.
Completed(s) == s = "applied"

\* Mutants of GivenUp and RetriesLeft: no limit, and one try too many.
NeverGivenUp(a) == FALSE
OneRetryMore(a) == tries[a] <= MaxTries

\* arq gives a job up without calling the task once it has been tried max_tries
\* times; _apply stops raising Retry at its last try.
GivenUp(a) == tries[a] >= MaxTries
RetriesLeft(a) == tries[a] < MaxTries

PickUp(a) ==
    /\ queue[a] = "queued"
    /\ tries' = [tries EXCEPT ![a] = IF @ > MaxTries THEN @ ELSE @ + 1]
    /\ IF GivenUp(a)
       THEN EndJob(a)
       ELSE /\ queue' = [queue EXCEPT ![a] = "running"]
            /\ Step(a, [Resting EXCEPT !.at = IF Completed(status[a]) THEN "done"
                                              ELSE "loaded",
                                       !.seen = status[a]])
    /\ UNCHANGED <<dbVars, pool, req, historyVars>>

\* The ATS gate refuses: _mark_failed.
GateFails(a) ==
    /\ work[a].at = "loaded"
    /\ Record(a, "failed")
    /\ Step(a, [work[a] EXCEPT !.at = "done"])
    /\ UNCHANGED <<redisVars, req, submits, lost>>

\* The in-flight marker is committed before the submission.
MarkApplying(a) ==
    /\ work[a].at = "loaded"
    /\ Record(a, "applying")
    /\ Step(a, IF Recordable(a, "applying")
               THEN [work[a] EXCEPT !.at = "applying", !.seen = "applying"]
               ELSE [work[a] EXCEPT !.at = "done"])
    /\ UNCHANGED <<redisVars, req, submits, lost>>

\* run_apply: the agent may claim a submission it did not make and fail after one
\* it made, so every answer may follow a submission; an error that looks like the
\* infrastructure's is transient.
Submit(a) ==
    /\ work[a].at = "applying"
    /\ submits' = [submits EXCEPT ![a] = @ + 1]
    /\ \E report \in {"ok", "transient", "terminal"} :
         Step(a, [work[a] EXCEPT !.at = "answered", !.report = report])
    /\ UNCHANGED <<dbVars, redisVars, req, settled, lost>>

Succeeded(a) ==
    /\ work[a].at = "answered" /\ work[a].report = "ok"
    /\ Record(a, "applied")
    /\ Step(a, [work[a] EXCEPT !.at = "done"])
    /\ UNCHANGED <<redisVars, req, submits, lost>>

\* raise Retry: the job goes back to the queue, the row stays APPLYING.
Retried(a) ==
    /\ work[a].at = "answered" /\ work[a].report = "transient" /\ RetriesLeft(a)
    /\ Requeue(a)
    /\ UNCHANGED <<dbVars, tries, pool, req, historyVars>>

Failed(a) ==
    /\ work[a].at = "answered"
    /\ \/ work[a].report = "terminal"
       \/ work[a].report = "transient" /\ ~RetriesLeft(a)
    /\ Record(a, "failed")
    /\ Step(a, [work[a] EXCEPT !.at = "done"])
    /\ UNCHANGED <<redisVars, req, submits, lost>>

\* The coroutine has returned; arq stores the result, which expires in an hour.
Finished(a) ==
    /\ work[a].at = "done"
    /\ EndJob(a)
    /\ UNCHANGED <<dbVars, tries, pool, req, historyVars>>

ResultExpires(a) ==
    /\ queue[a] = "result"
    /\ queue' = [queue EXCEPT ![a] = "none"]
    /\ UNCHANGED <<dbVars, tries, pool, work, req, historyVars>>

\* CancelledError during the submission: at job_timeout arq stores the failure, at
\* shutdown it queues the job again.  FAILED is recorded if the commit succeeds.
Cancelled(a) ==
    /\ work[a].at = "applying"
    /\ \E made \in {0, 1} : submits' = [submits EXCEPT ![a] = @ + made]
    /\ \/ Record(a, "failed") /\ UNCHANGED lost
       \/ Kills /\ lost' = TRUE /\ UNCHANGED <<dbVars, settled>>
    /\ EndJob(a) \/ Requeue(a)
    /\ UNCHANGED <<tries, pool, req>>

\* An exception outside the submission's try block (the event bus, the database, a
\* time-out in the ATS gate) ends the job and leaves the row as it is.
CutShort(a) ==
    /\ Kills /\ work[a].at \in {"loaded", "applying"}
    /\ EndJob(a)
    /\ lost' = TRUE
    /\ UNCHANGED <<dbVars, tries, pool, req, submits, settled>>

\* The worker process is killed; arq runs the job again once its in-progress key
\* has expired.
Killed(a) ==
    /\ Kills /\ work[a].at # "none"
    /\ Requeue(a)
    /\ lost' = TRUE
    /\ UNCHANGED <<dbVars, tries, pool, req, submits, settled>>

Worker(a) ==
    \/ PickUp(a) \/ GateFails(a) \/ MarkApplying(a) \/ Submit(a) \/ Succeeded(a)
    \/ Retried(a) \/ Failed(a) \/ Finished(a)

Continue(r) ==
    \/ \E m \in Mode : BatchCommit(r, m)
    \/ Dispatch(r) \/ Enqueue(r) \/ ApproveCommit(r) \/ EnqueueApproved(r)

Next ==
    \/ \E r \in Req :
         \/ \E j \in Job, m \in Mode : Create(r, j, m)
         \/ \E js \in SUBSET Job \ {{}} : BatchRead(r, js)
         \/ \E s \in SUBSET rows \ {{}} : ApproveRead(r, s)
         \/ Continue(r) \/ RequestDies(r)
    \/ \E a \in App :
         \/ Worker(a) \/ ResultExpires(a) \/ Cancelled(a) \/ CutShort(a) \/ Killed(a)
         \/ \E s \in UserStatus : UpdateStatus(a, s)

Spec == Init /\ [][Next]_vars

\* A worker process is running, or is restarted, and requests run on: arq polls
\* the queue for ever, and every await of the coroutine is cut by job_timeout.
FairSpec ==
    /\ Spec
    /\ \A a \in App : WF_vars(Worker(a)) /\ WF_vars(ResultExpires(a))
    /\ \A r \in Req : WF_vars(Continue(r))

-----------------------------------------------------------------------------
(* Properties.                                                             *)

\* One enqueued job makes at most max_tries submissions, though the worker may die
\* at any point and arq runs the job again (tasks.py:216, WorkerSettings).
BoundedAttempts == \A a \in App : submits[a] <= MaxTries

\* Once the worker has committed APPLIED, no redelivery of the job submits again,
\* even if the worker died before arq knew of its success (tasks.py:186-189).
CompletedNotResubmitted ==
    \A a \in App : settled[a] => work[a].at \in {"none", "done"}

\* Of the applications to one job at most one is recorded APPLIED by the worker, in
\* whatever order rows are withdrawn, created anew, approved and worked on
\* (models/application.py:23-24).
OneAppliedPerJob ==
    \A a, b \in App : settled[a] /\ settled[b] /\ JobOf[a] = JobOf[b] => a = b

\* Every job that is queued ends, after retries, cancellations and kills.
JobsEnd == \A a \in App : queue[a] = "queued" ~> queue[a] \in {"result", "none"}

\* An application does not stay APPLYING for ever (tasks.py:217-218), unless a worker
\* was killed, or failed outside the submission, before it recorded an outcome.
ApplyingResolves ==
    \A a \in App : (status[a] = "applying" /\ ~lost) ~> (status[a] # "applying" \/ lost)
=============================================================================
