# SA Job Orchestrator: TLA+ verification project

Specifications, model checks and proofs for the backend under
`src/backend/app` (FastAPI, SQLAlchemy async sessions, Arq/Redis worker).
Paths below are relative to that directory.

## 1. Inventory

| Component | State it keeps | Operations | What is hard, and what makes it correct |
|---|---|---|---|
| Package review flow (`services/application_package.py`, `package_send.py`, `api/v1/packages.py`) | immutable package versions, `is_current`, QA verdict, send state, single-use approvals, application status | create/update, generate drafts, QA, approve, send, confirm manually | sessions hold rows across awaits, nothing is locked; only approved content is sent, success is never claimed without evidence, the newest version stays current |
| Package text and QA (`services/package_generation.py`, `package_facts.py`) | none of its own | generate, restore protected names, repair once, review | the model's text and verdict are checked by deterministic rules, in both directions |
| Application API and queue (`services/application.py`, `dispatch.py`) | application rows, partial unique index, Arq job ids and kept results | create, batch, dispatch, approve, bulk approve, set status | commit and enqueue are two steps; repeated requests; at most one recorded success per job |
| Apply worker (`workers/tasks.py`, `core/automation/runtime/apply.py`) | the coroutine, `job_try`, APPLYING marker | gate, mark, submit, retry, fail, record | at-least-once delivery, cancellation, kills; a recorded success is not repeated, no row stays APPLYING |
| Live submission (`services/submission_service.py`, `application_runner.py`, `api/v1/workflow.py`) | runs, approvals, status | prepare, answer, approve, submit | approval lock, stale answers, late preparation |
| CV tailoring (`services/tailoring.py`, `tailoring_merge.py`) | sessions, changes with review and decision, resumes | start, review, decide, revise, finalise | the review fails or is cancelled between two commits; overlapping finalisations; merge order |
| Opportunity intake and routes (`api/v1/opportunities.py`, `process_opportunity`, `_merge_application_routes`, `services/application_route_resolver.py`) | jobs, routes, queue | ingest, retry, process, merge, override, expire | duplicates, stale PROCESSING, one preferred route, the user's choice |
| Learning harness (`core/harness`) | trajectories, verdicts, skills, scores, issues | record, judge, diagnose, distil, score, retire, monitor | overlapping and repeated reviews, lost updates, version races |
| Authentication and accounts (`api/v1/auth.py`, `services/password_reset.py`, `services/account.py`) | refresh-token families, reset tokens, accounts | login, refresh, logout, reset, delete, purge | rotation races with logout, reset and deletion |
| LLM client and router (`core/llm`) | usage rows | complete, structured completion, repair | the chain of models, billing of unreadable answers, one repair |
| Matching and eligibility (`services/matching.py`, `eligibility.py`) | match fields of a job | analyse, validate, score, decide | credit only for the candidate's own evidence |
| ATS scoring (`core/ats`, `services/resume.py`) | none | score, suggest | quotients at empty sets, saying more never scores less |
| Question engine (`services/question_engine.py`) | the questions of a run | categorise, answer | what needs a human goes to the human |
| Resumes and profile drafts (`services/resume_text.py`, `core/documents/parser.py`, `api/v1/candidate_profile.py`, `api/v1/resumes.py`) | resumes, drafts | structure, render, import, edit | mangled text: nothing is dropped on the way |
| Job search (`services/job_search.py`, `posting_quality.py`) | jobs | search, register, evaluate, list | identities, one commit for a whole search, concurrent searches |
| Monitoring and discovery, workflow service, assisted login, browser platforms, Telegram, documents and credentials, web interface | see section 7 | | not modelled |

The components meet in the rows of the database: `applications.status` is
written by nearly all of them, `application_approvals` by the package flow and
the submission service, `application_runs` by the preparation and (as a bare
record) by `approve_package`; a search, an analysis and the intake all write
`jobs`. The API hands work to the worker through Arq. Whatever asks the language
model goes through `core/llm`.

## 2. Modules

| Module | Models |
|---|---|
| `ApplicationPackage` | the package review flow of one application |
| `ApprovalLedger` | abstract: what single-use approval promises (grant, spend, emit) |
| `ApplyPipeline` | application rows, Arq queue and apply worker |
| `Submission` | preparation, answers, approval and live submission of one application |
| `Tailoring` | tailoring sessions, their changes, the merge, the resumes they produce |
| `Routes`, `Intake` | resolution and merge of application routes; ingestion, queue and extraction task around them |
| `Sessions` | refresh-token families, reset tokens, the account |
| `Harness` | run reviews, skills, scores |
| `LlmClient` | one call of the language model, from the router to the usage row |
| `Matching`, `Questions`, `ProtectedFacts`, `Sums` | what the code makes of the model's answers, as operators |
| `Assessment` | composes `LlmClient` with these three: a match, a question, a text, a review |
| `ResumeText`, `Ats`, `ProfileDraft`, `JobBoard` | structuring, scoring, import and search, as operators |
| `ResumeWork` | adds their operations to `Assessment` |
| `ApplicationPackage_proofs`, `ApplyPipeline_proofs`, `Submission_proofs`, `Tailoring_proofs`, `Intake_proofs`, `Sessions_proofs`, `Harness_proofs`, `ResumeWork_proofs` | TLAPS proofs |
| `MC*` | instance values for TLC |

`EXTENDS` composes: `Intake` on `Routes`, `Assessment` on `LlmClient`,
`Matching`, `Questions` and `ProtectedFacts`, `ResumeWork` on `Assessment`,
`Ats`, `ProfileDraft` (on `ResumeText`) and `JobBoard`; `Matching` and `Ats` on
`Sums`. `ApplicationPackage` and `Submission` both refine `ApprovalLedger`.

### ApplicationPackage

A request is a coroutine with a database session of its own. Every handler is
split where it awaits something that lets other requests see or change the
rows: a *read* action loads rows into `req[r]`, a *commit* action writes what
the session computed from them. `async_session_factory` sets
`expire_on_commit=False`, so what a session has loaded stays as it was, and
SQLAlchemy writes an attribute only if its new value differs from the loaded
one (`Flush`). These two rules decide most interleavings here.

| Code | Actions |
|---|---|
| `create_or_update_package`, called by the endpoints | `EditRead`, `EditFlush` (the autoflush that takes the row locks), `EditCommit` |
| `gen_email` | `DraftRead`, `DraftDone` or `DraftUnused`, then as above |
| `approve_package`, `_ensure_prep_run` | `ApproveRead`, then `ApproveReuse` or `ApproveGrant` |
| `send_package_email` | `SendRead`, `SendConsume`, `SendCall`, `SendRecord` |
| `run_package_qa` | `QaRead`, `QaCommit` |
| `confirm_manual_submission` | `ConfirmRead`, `ConfirmCommit` |
| `update_status` and other components | `StatusWrittenElsewhere` |
| expiry of an approval, death of a request | `Expire`, `Crash` |

Contents are model values with a hash function: `apkg` is an e-mail package,
`wpkg` differs from it only by white space that
`compute_content_hash` removes, `ppkg` is a portal package. The e-mail provider
may report any verdict, and a failure also after the relay took the message.
`mailed`, `calls`, `accepted` and `confirmed` are history variables. Ownership
checks, texts and the route rows (which belong to the content) are abstracted.

`ApprovalLedger` is the promise: an approval is granted for one hash, is spent
at most once, and only a spent approval lets content of its hash out, once.
`ImplementsLedger` states the refinement. It holds when requests do not
overlap; `double_send` shows that it does not hold when they do.

### ApplyPipeline

`rows`, `mode` and `status` are the table; `queue[a]` is the state of the Arq
job `apply:<id>` (absent, queued, running, result kept), `tries[a]` its
`job_try`; `work[a]` the coroutine. The API actions are `Create`, `BatchRead`
and `BatchCommit`, `Dispatch`, `ApproveRead`, `ApproveCommit`, `Enqueue`,
`EnqueueApproved`, `UpdateStatus`; the worker's are `PickUp`, `GateFails`,
`MarkApplying`, `Submit`, `Succeeded`, `Retried`, `Failed`, `Finished`,
`Cancelled`, `CutShort`, `Killed`. Arq itself is external code: an enqueue
under an id that is queued, running or has a kept result is dropped; `job_try`
counts starts, and a job that was started `max_tries` times is ended without
calling the task; a retried, shut-down or killed job is queued again.
`Submit` counts every attempt as one that may have reached the employer.

### Submission

`status` and `runs` are rows; `ended` orders the completed runs by their
completion, which is how the code finds "the latest completed run"
(`LatestCompleted`), while the end of `runs` is the latest created one; both may
be a submission's own run. `excused` is a history: the claim that is now the
status (`applied`, `submitting`) is another component's, an accepted e-mail's,
or what a send that died has left.

| Code | Actions |
|---|---|
| `prepare_application`, `run_application_preparation` | `PrepareRead`, `PrepareCommit`; then, in the background, `PrepareDone` or `PrepareFails` |
| `update_application_questions` | `AnswerRead`, `AnswerCommit` |
| `approve_application` | `ApproveRead`, `ApproveLookup`, `ApproveCommit` |
| `approve_and_submit` | `SubmitRead`, `SubmitLock`, `SubmitRefused` (roll back) or `SubmitCommit` |
| `_execute_submission`, `_pw_submission_task` | `ExecuteLoad`, `BrowserGivesUp` or `BrowserClicks`, `ExecuteRecord` |
| `approve_package`, edits | `PackageApproved`, `PackageReapproved`, `PackageStored` (one step each: their interleavings are those of `ApplicationPackage`) |
| `send_package_email` | `SendRead`, `SendRefused` or `SendCommit` (the approval spent, SUBMITTING), `SendRecord` (APPLIED, SUBMISSION_UNKNOWN or SUBMISSION_BLOCKED) |
| `update_status`, `confirm_manual_submission`, the worker, the Telegram bot's reject button | `StatusWrittenElsewhere`: any status, `applied` and `submitting` included |

`SubmitLock` is `SELECT ... FOR UPDATE`: it waits while another request holds the
row and then looks at `used_at` again. The flow refines the same
`ApprovalLedger` as the package flow, here with preparation runs in the place of
hashes, and here also when requests overlap. Two sessions may nevertheless drive
two browsers (a late preparation makes the application reviewable again while
the first submission runs); what holds is that each had an approval of its own.
The lock protects the clicks only: a send reads the approval without a lock and
its commit does not look at `used_at` again (`SendRead`, `SendCommit`), so that
one approval may let a click and an e-mail out. A preparation's notification is
inside the same try block as its commit: an exception fails a run that is
completed, approved or submitted by then (`Preparing`, `PrepareFails`).
The flow is modelled with live submission enabled; switched off, every
submission ends in `SubmitRefused`.

### Tailoring

A request loads rows and commits later, as in `ApplicationPackage`, with the
same `Flush`. A document is a summary and a list of skills, which stand for a
field and a list of the structured resume; the text a change proposes is its
identity, so that a merged document shows what came from where.

| Code | Actions |
|---|---|
| `start_tailoring_session`, regeneration | `Start`, `Drafted` or `DraftFails`, `Reviewed` or `ReviewFails` |
| `open_resume_revision` | `OpenRead`, `OpenCommit` |
| decisions, `revise_change` | `DecideRead`, `DecideCommit`; `ReviseRead`, `ReviseCommit` |
| `finalize_session`, `merge_tailoring_changes`, `pdf_verifier` | `FinalizeRead`, `FinalizeUnchanged` or `FinalizeMerge`, `Rendered` or `VerificationFails` |
| cancellation or death of a request | `CutOff` |

`changes[c].review` is a history of what the review did (`awaited`, `passed`,
`blocked`, `skipped`), next to the severity the code stores. `UsedWasReviewed`
names the two ways an unreviewed change reaches a resume, section 4 describes
them. `MergeIsPointwise` says of every merge, insertions and removals included,
how long the list becomes and that it shows no text but the base's and accepted
ones; which item an index names after a shift it leaves open, as the code does,
and only without insertions and removals each text is at its own target.

### Routes and Intake

`Routes` has the resolver (`Resolve`), the merge and the override as operators
on sequences of routes; addresses stand for pages of an applicant tracking
system, of bayt.com, of another site, and a mail address. `Intake` is the rest:
requests find or insert the row (`IngestNew`, `IngestAgain`, `Insert`,
`InsertRefused`, the unique index), retry a failed or stale one, enqueue it or,
without a pool, mark it failed (`NoQueue`); the worker takes it, merges under
the row lock, analyses and stores, fails, or dies; `Age` and the two steps of
the expiry make a stale row failed; `OverrideRead` and `OverrideCommit` are the
user's choice. `raced` marks a row on which an override and a merge have
crossed: the code decides nothing then, the later commit wins.

### Sessions

Tokens are rows with a family; a refresh claims one by a conditional UPDATE
(`RefreshClaim`), reads the account (`RefreshAdmit`) and issues the next after
that (`RefreshIssue`), in one transaction, which other requests see at its commit: `Locked` makes them wait,
`Overtake` makes them see the result. Logout, reuse detection, reset and
deletion read the rows and revoke what they saw. A token inserted by a request
that was in flight at the time is a `survivor`; `CutFamiliesStayCut` says it is
the only kind there is, and `DeletedOnlyEnds` that after a deletion only the
logins and refreshes that had found the account active (`InFlight`) add tokens,
one each. A deletion waits for a refresh that holds the lock on a row it revokes;
one whose row was inserted after the deletion read the rows does not stop it,
and inserts its token when the account is deleted (`api/v1/auth.py:229-233`).

### Harness

A run ends with steps and perhaps an error (`Apply`), from which `SignalsOf`
and `Diagnose` derive the failure class; its review is judged, diagnosed,
distilled into a skill, and scores the skills the run was given. Two runs'
reviews interleave at every await of `record_skill` and `add_feedback`; a
worker's death (`WorkerDies`) repeats the review from the start, and its first
verdict and feedback stay. `NumberVersion` and `InsertSkill` race for the
unique version; `ReadSkill` and `WriteSkill` are the two halves of
`score += delta`, and `Rescored` is what the UPDATE writes.

### LlmClient and Assessment

A call walks the chain of its models (`ModelChain`): every exception moves it on,
an answer without choices included, which has been billed. Only the router
repairs, once, at the same model. `billed` and `lost` are history. `Assessment`
starts tasks, lets `LlmClient` carry out their calls and applies the rules to
whatever came back, in the order of the code: matches (by a search or by an
analysis) one after the other on one job, questions, letters with their one
repair, reviews. The answers are chosen from small sets: analyses that cite
foreign evidence, omit requirements or contradict the facts; drafts that damage
one of two similar names; findings that the facts confirm or overrule.

`Matching` takes a requirement as the record of what the code looks for in it
(marks, names, clusters). `ProtectedFacts` takes texts as words and letters as
the relation `Alike`; `Questions` a question as what its id and label contain.

### ResumeText, Ats, ProfileDraft, JobBoard and ResumeWork

`ResumeText` follows the passes of `normalize_resume_text` and
`build_resume_data` on sequences of lines of tokens: un-gluing of headings,
sections, the merging of split headings, salvage, the parsing of entries. Its
operators were compared with the Python functions on random documents while
they were written. `Ats` has the factors of the scorer in ten-thousandths;
texts are sequences of known terms and the tables of terms are constants. The
pattern of the tables finds a term only between word boundaries, which `c++`,
`c#` and `.net` do not have (`Bounded`). The similarity of a text and a posting
is an input of each score, and another one for the longer text.
`ProfileDraft` has the parser's contacts and skills and the draft made of them
and of the model's answer. `JobBoard` has the identities, the registration and
the one commit of a search, the state a card shows and the quality of a
posting. `ResumeWork` makes an operation of each, which ends in `result`: the
properties relate `result` to its inputs.

## 3. Runs

Bounds are in the `.cfg` files; a `.cfg` assigns constants and nothing else.

| Run | Instance | Shows |
|---|---|---|
| `package_concurrent` | 2 requests, 3 packages, 1 approval, an e-mail and a portal content, requests may die | `SentWasApproved`, `ClaimsHaveEvidence`, `NewestIsCurrent` in spite of overlaps |
| `package_serial` | 1 request, 3 packages, 2 approvals, contents `apkg`, `wpkg`, `ppkg`, QA may block, status may be rewritten | `OneCurrentVersion`, `UniqueLiveApproval`, `SentIsFinal`, `ImplementsLedger`: what the code relies on, true without overlaps |
| `package_progress` | 2 requests, 1 package, 2 approvals, no deaths, weak fairness of begun requests | `SendResolves` |
| `double_send` | 2 requests, 1 package | violation: two sends spend one approval |
| `apply_pipeline` | 1 request, 1 application, 2 tries, kills, user sets withdrawn or interview | `BoundedAttempts`, `CompletedNotResubmitted`, and under fairness `JobsEnd`, `ApplyingResolves` |
| `pipeline_index` | 2 applications to one job, 1 try, kills, withdrawals | `OneAppliedPerJob`: the partial unique index under every order of creation, batch, withdrawal, approval and work |
| `submission` | 2 requests, 2 approvals, 3 runs, 1 package, one send at a time, one preparation that fails or approval that expires, another component that writes APPLIED, requests may die | `ImplementsLedger` and `SpentIsAccounted`: single use of clicks thanks to the lock; `SubmittedWasPrepared`, `AppliedWasConfirmed`, `SubmittingIsWorkedOn` |
| `tailoring` | 2 requests, 1 session, 2 changes (modify and remove, modify and insert), 3 resumes, requests may be cut off | `UsedWasReviewed`, `UnfinishedIsWorkedOn`, `MergeIsPointwise` |
| `intake` | 2 requests, 1 worker, 2 rows, 2 jobs, 1 death, 1 override | `ProcessingIsServed`, `PreferredIsClear`, `OverrideKept` |
| `sessions` | 2 requests, 3 tokens, 2 families, 1 reset token that may be redeemed twice | `OneUsableTokenPerFamily`, `CutFamiliesStayCut`, `DeletedOnlyEnds` |
| `harness` | 2 runs, 2 skills at first, 2 tries, 1 death | `ActiveIsAboveThreshold`, `RetiredStaysRetired`, `FeedbackFollowsVerdict` |
| `assessment` | every operation of `Assessment` and `ResumeWork` on the inputs of `MCAssessment` and `MCResumeWork`; two tasks in a row on one job | `AnswersAreAccounted`, `CreditNeedsEvidence`, `FailsClosed`, `ExactNamesStay`, `ContentIsKept`, `ScoreFollowsEvidence`, `SearchKeepsListings` |

Why the bounds are enough. Every race found is between two requests over one
row, and a third package is needed for "edit and edit back". Two approvals let
one be spent and the other live. Two tries separate the last try from the
others; two applications are what the index separates. Two changes are what can
conflict, shift each other's index or be reviewed in part; the third resume is
what a second finalisation stores. Two rows are what a lost race of ingestion
can leave; a third token is the one a refresh of the refreshed token adds, and a
second family is the one a revocation must leave alone, and two resets let two
requests redeem the one reset token. One send at a time is enough next to the
clicks, for two sends race in `double_send`; `MaxMishaps` bounds expiries and
failed preparations together, and the proofs are without these bounds. The harness starts one
point above the retirement threshold, so that two overlapping scores cross it.
In `assessment` the inputs are sets, not bounds in time: each member is there
for a case of the code (the comments in the `MC` modules say which), operations
of `ResumeWork` begin on a fresh state because they share none, resumes are
built of lines that share no words so that a lost or doubled word is seen, up
to two headings or all of them are glued to their neighbours, and `Histories`
exercise the scorer beyond the service, which passes no history.
Identifiers that run out stop new requests only (`RoomForPackage`,
`RoomForApproval`, the guard of `BatchRead`, `Issue`). `CHECK_DEADLOCK FALSE` is
set where identifiers are used up or all tasks are done and nothing is left.

`TypeOK` of `Tailoring`, `Intake` and `Sessions` and `LlmTypeOK` are in no run's
list: they are proved (section 5).

Fairness: `FairSpec` of `ApplicationPackage` assumes only that a request that
has begun runs on (every await of the handlers ends; SMTP has a 30 s time-out)
and no request dies. `FairSpec` of `ApplyPipeline` assumes a worker process
that is running or restarted and polls, requests that run on and results that
expire; beginning a request is never fair, and kills are never forced.
`ApplyingResolves` excludes behaviours in which a worker died, or failed
outside the submission, before it recorded an outcome: `CutShort` shows the
code has them (an event-bus failure at `workers/tasks.py:209` leaves the row
APPLYING). Where the code promises no end (a session left rendering by a dead
request, a row left processing until somebody asks again) the invariants
`UnfinishedIsWorkedOn`, `ProcessingIsServed` and `SubmittingIsWorkedOn` say the
most that is true: whatever waits has somebody at work on it, or lost him.

## 4. Where code and documents disagree, and other observations

Shown by a run: single use is not enforced for overlapping sends
(`models/application.py:117`, `package_send.py:220`): `double_send`.

Met while modelling; the models follow the code:

- An approval is looked up by hash only (`package_send.py:88`, `220`), so it
  authorises another version with the same hash (`models/application.py:140-142`
  says it cannot: approve A, edit to B, edit back, send). A reused approval
  leaves the application approved after the next edit
  (`application_package.py:313`; the repository's `README.md:78` says any
  modification invalidates it).
- An idempotent create dispatches again and can apply twice
  (`services/application.py:102-103`, `dispatch.py:63`); a kept Arq result
  swallows an enqueue although nothing is pending (`dispatch.py:39-46`).
- A preparation that fails to notify is failed after its commit, over approvals
  and submissions made meanwhile (`application_runner.py:124-166`).
- No hash is compared before a live submission, which spends package approvals
  too (`submission_service.py:254`; the repository's `docs/ARCHITECTURE.md:381`).
- Tailoring: a revision for which the reviewer lists no verdict stays SAFE
  (`tailoring.py:580`; line 261 says a malformed review must fail closed), and
  changes are SAFE while their review is running. Merge order is that of random
  ids, so additions and removals shift the items others were meant for, and a
  text may replace another accepted one (`tailoring_merge.py:120`: "semantically
  they should be independent").
  A tailored resume's text is JSON, which a later session structures to an
  empty document.
- Intake: a lone e-mail route is never preferred; retrying a stale row whose
  `raw_data` is empty does not renew its time stamp, so it is stale at once.
- LLM: whatever is raised moves a call to the next model, after a billed answer
  without choices too, which has no usage row; the last error decides the type
  of the failure (the docstring at `client.py:166` says otherwise). A user's own
  key is used with the settings' models when the call comes through the router.
- Matching: nothing sets an eligibility constraint that can fail, so ineligible
  jobs come only from imported data; a stored score of 1 of 100 is read back as
  1.0 (`job_search.py:75`); a search stores a failed match as 0 and never
  evaluates it again. Without an analysis the score is the mean of the model's
  dimension scores, which nothing keeps within 0..100 (`schemas/matching.py:87`
  says so in a description only): `CreditNeedsEvidence` claims a percentage for
  analyses, not for that fallback.
- Questions: "first" and "last" are matched as substrings; an answer citing
  nothing counts as resting on the whole profile; confidence is swapped for
  rejected answers (`question_engine.py:137`).
- Texts: a finding "unsupported degree" is overruled by any degree
  (`package_facts.py:395`); a verdict BLOCKED of the model without a finding
  of its own is downgraded by any warning; one right mention hides later
  misspellings.
- Resumes: the guard "or a lowercase word follows" of a heading has no effect
  (`resume_text.py:115`); a repeated section replaces the earlier one; bullets
  before the first entry, cells of a job's line beyond three, a dated line of a
  project, a skill that reads like prose next to a summary or below a long line
  before the first heading, and unread sections (languages, awards, volunteering)
  are dropped, although `resume.py:232-235` says that all base sections are
  preserved; `ContentIsKept` names these losses and excludes any other. `generate_tailored_resume`
  hands the document generator a client it cannot call, swallows the error and
  never tailors; `generate_cover_letter` makes the same mistake and always fails.
- Search: a second listing without id and url, or a concurrent search with the
  same new listing, loses the whole search (`job_search.py:281`, `423`).
- Harness: overlapping scores lose a delta; overlapping recordings may store one
  text twice, and later lookups then raise; arq does not repeat a job that
  raised, although `tasks.py:307` relies on it.
- ATS: degree patterns match inside words; a skill the tables do not know stays
  missing however often the resume names it, and so do `c++` and `c#`, which they
  do know but no word boundary follows (`skill_matcher.py:62-63`, `236-240`). A
  resume that names one more skill may score less, if the language model finds
  the longer text less similar (`keyword_analyzer.py:285-292`).

## 5. Proofs

`ApplicationPackage_proofs` proves, for every number of requests, packages,
approvals and contents, and every value of the constants allowed by
`PackageAssumption` and `StatusAssumption`:

- `Invariance`: the inductive invariant `IInv`;
- `TypeCorrect`, `SentApproved`, `NewestStaysCurrent`: `TypeOK`,
  `SentWasApproved` and `NewestIsCurrent` are invariants of `Spec`;
- `ClaimsBacked`: `ClaimsHaveEvidence` is one if no other component writes
  `applied`.

None of the three safety properties is inductive by itself, because what a
session remembers decides what its next commit writes. `IInv` therefore says
what each suspended session knows: a send between its two commits holds a
granted, used approval of its package's hash and the row's send state has left
`none`; an edit that has flushed has a version above every row it will mark
not current, and while rows exist one of the highest version is current or
about to be replaced by such an edit; package contents and approval hashes
never change. The proof that `Next` preserves `IInv` has one lemma per action.

The other properties are true only as long as requests do not overlap, which is
what the code relies on: their theorems assume `Req = {self}` and nothing else
(requests may still die at any await, and approvals expire).

- `SerialInvariance`: next to `IInv`, what a suspended request remembers is what
  the tables hold (`OneAtATime`), and each spent approval has called once
  (`SpentOnce`);
- `OneIsCurrent`, `OneApprovalIsLive`, `SerialSingleUse`: `OneCurrentVersion`,
  `UniqueLiveApproval`, `SingleUse`;
- `SentStaysSent`: the action property `SentIsFinal`;
- `RefinesLedger`: the flow implements `ApprovalLedger`, action by action. The
  run `double_send` is the counterexample with two requests.

`Submission_proofs` proves every property of the `submission` run for every number
of requests, approvals, runs and packages, from `SubmissionAssumption`
and `OtherAssumption` (other components write statuses of the enumeration, any
of them):

- `Invariance`, `TypeCorrect`, `SpentAccounted`: the inductive invariant, with
  `TypeOK` and `SpentIsAccounted` among its conjuncts;
- `SingleUse`: the flow implements `ApprovalLedger` (`ImplementsLedger`); grants
  map to `GrantTo`, the two commits that spend to `Spend` (a send's to a stutter
  if its approval was spent meanwhile), the click to `Emit`, every other step to
  a stutter;
- `OnlyPrepared`, `ClaimsConfirmed`, `SubmittingIsSettled`:
  `SubmittedWasPrepared`, `AppliedWasConfirmed`, `SubmittingIsWorkedOn`.

The refinement alone is not inductive: that a click finds its approval unused so
far depends on who else may be about to click. The invariant says that a session
past the row lock holds a granted approval, unused until its commit and used
with no click after it (`SessionsSound`), and that two such sessions hold
different ones (`Exclusive`); `SubmitLock` keeps that because the lookup and the
lock exclude both the waiting and the spent. `Honest` strengthens the two
statements about outcomes by what a session has loaded (a run with questions is a
preparation's that has completed; only a session with complete questions clicks),
and `Working` the last one by where a session with a run can be, and by who has
marked the application as `excused` says.

`Harness_proofs` proves every property of the `harness` run for every number of
runs and skills, every set of contents and every limit, from
`ConstantsAssumption`:

- `Invariance`, `TypeCorrect`: the inductive invariant, with `TypeOK`;
- `ActiveAbove`, `RetiredStays`: no active skill at or below the threshold, and
  no way back from retirement;
- `FeedbackFollows`: scores come from verdicts of runs that used the skill.

The first two are about writes of stale scores: what matters is that the UPDATE
leaves out a status the session has not changed (`Rescored`), so that a stale
score may raise a retired skill's number but not revive it. The last needs what
a review remembers while it scores (`Sound`) and how far it has got
(`ScoredSoFar`): the skills it has not scored are in `left`, the others have
feedback of this attempt.

`ApplyPipeline_proofs` proves, from `PipelineAssumption` and `UserAssumption`,
for every set of applications and jobs, any number of requests and tries, with
or without kills: `Invariance`, `TypeCorrect`, `AttemptsAreBounded`
(`BoundedAttempts`), `CompletedStays` (`CompletedNotResubmitted`) and
`OneApplied` (`OneAppliedPerJob`). One success per job is not inductive: that
none is recorded twice rests on the partial index, i.e. on there being one
active row of a job (`OneActive`) among all rows, on rows not yet inserted being
untouched (`Uninserted`) and on what requests in progress may approve together
(`RequestsOnRows`). That tries are bounded rests on the coroutine's place:
`Counted` relates the submissions made to the tries begun, `Worked` the
coroutine to the queue and to the recorded success.

`Sessions_proofs` proves, from `SessionsAssumption`: `Invariance`,
`TypeCorrect`, `OneUsable` (`OneUsableTokenPerFamily`), `CutStaysCut`
(`CutFamiliesStayCut`) and `DeletedOnly` (the action property
`DeletedOnlyEnds`). The heart is the lock: a claim is on a usable row
(`ClaimIsUsable`), so no second token of its family is, and a claim on a row
that a revocation holds knows that it was overtaken (`OvertakenKnown`); what a
revocation under way concerns and does not hold was inserted after it began
(`RestSurvives`), which is the only way round a cut; what requests have read
stands until the purge (`ReadsStand`).

`Tailoring_proofs` proves, from `BoundsAssumption` and `InputsAssumption`, for
every number of requests, sessions, changes and resumes and every proposal:
`Invariance`, `TypeCorrect`, `OnlyReviewedIsUsed` (`UsedWasReviewed`),
`NoneIsLeftRendering` (`UnfinishedIsWorkedOn`) and `MergeHitsItsTargets`
(`MergeIsPointwise`). `RequestsSound` says that a finalisation loaded no blocked
change as accepted, and that what it renders is the merge of what it loaded;
`ChangesSound` that a blocked change says so in its severity. The merge is a
recursive function over the changes in order of their ids. That such a function
does what its step says, that each step counts once for the list and brings no
text of its own (`StepCounts`, on `ListsGrow` and `ListsShrink`), and that it
keeps a target as long as no other change hits it (`StepIsPointwise`), is induction over the natural numbers; the library's induction
theorems take operators, so the lemmas argue by the least counterexample, with
`WFMin` of `WellFoundedInduction` (lemmas `Least`, `Recursion` and their uses).

`Intake_proofs` proves, from `IntakeAssumption`: `Invariance`, `TypeCorrect`,
`RowsAreServed` (`ProcessingIsServed`), `OnePreference` (`PreferredIsClear`) and
`ChoiceIsKept` (the action property `OverrideKept`). `Served` strengthens the
first: a waiting row is lost, in the queue, or held by a worker or a request
that is still going to end it, none that is on its way out. `PreferredIsClear`
is a property of the merge whatever routes it is given, again by recursion over
the sequence of routes. The merge's order is abstract: the best route comes
first, the others keep their order, equally good routes are alike.

`ResumeWork_proofs` is about every operation of `Assessment` and `ResumeWork`,
for every set of candidates, postings, proposals, questions, drafts, findings,
uploads and boards, any chain of models and any answers, from `LlmAssumption`
(fallbacks are models) and `AssessmentAssumption` (confidences are numbers, an
analysis is a list of requirements, requirements are a list, drafts and names
are lists of words that have a folded form), `AtsAssumption` (no term stands for
two skills, a skill is a term of its own, weights are positive) and
`ResumeWorkAssumption` (platforms and what they list, texts and the skills of a
posting are lists, keywords and phrases finitely many, years of experience not
negative, similarities shares):

- `Invariance`, `CallsAreTyped`: the inductive invariant, with `LlmTypeOK`;
- `EveryAnswerHasItsRow`: `AnswersAreAccounted`. The invariant counts: each
  finished attempt of the router has one readable answer (`PaidPerAttempt`), and
  rows written and rows lost add up to the answers before the one being recorded
  (`RowsAccount`); `OneModel` keeps the router to one model;
- `EveryUseFailsClosed`: `FailsClosed`, from what the phase of a call says of
  its content (`CallSound`) and which operations wait for one (`TaskSound`);
- `CreditRestsOnEvidence`: `CreditNeedsEvidence`. An analysis that is completed
  (`Covered`, a recursive function) has every requirement of the posting; what
  `Grounded` leaves cites the candidate's own evidence or earns nothing; the
  weights' sum is positive, and the rounded sum is clamped. The operations
  leave the posting alone, so that it stays true of the last match;
- `ExactNamesKept`: `ExactNamesStay`. A span that is written over is near the
  name it is restored to, word for word; were it to overlap an occurrence of
  another name apart from that one, a word would be near both, and were it that
  occurrence, it could stand for two names, which `Unambiguous` refuses. By
  induction over the list of names (`Restored`, a recursive function) the
  occurrence outlives them all;
- `EveryListingIsKept`: `SearchKeepsListings`. By induction over the listings of
  a platform and over the platforms (`RegisterEach` and `RegisterAll`, recursive
  functions), what is shown has exactly the keys of what was listed, is stored or
  about to be, and is there once unless a listing has no key (`Registered`); two
  keys are equal exactly when the listings are the same (`SameKey`), so that the
  rows and the different listings are as many (`KeysTellApart`);
- `ScoresFollowEvidence`: `ScoreFollowsEvidence`, for any texts, postings,
  histories and tables. A share grows with its part and is at most the whole
  (`SharesGrow`); the skills found grow with the text, so fewer are missing
  (`MissingShrinks`, by induction over the skills wanted), and the weights summed
  grow term by term (`SumsGrow`); the factors then grow one by one, that of
  keywords as long as the similarity does (`ScorerGrows`, `FallbackGrows`,
  `ServiceGrows`). It is inductive because a
  score is of a text and a posting of the sets assumed (`TaskSound`) and no other
  operation returns one;
- `AssessmentIsWork`: `Assessment` alone is a special case.

`MaxResets`, `MaxChanges`, `MaxRows` and the other bounds are constants of the
theorems: they hold for every value, the runs' among them.

Only model-checked:

- `ContentIsKept`: it holds of texts like those checked, not of every text. A
  line that ends in the first word of a heading reads otherwise once the heading
  is glued to it (`Ran WORK` above `EXPERIENCE` becomes a work-experience
  section). Once such texts are excluded, what remains is induction over the
  folds of `ResumeText`, which select and join sequences through operators that
  no library lemma is about;
- all liveness (`SendResolves`, `JobsEnd`, `ApplyingResolves`): the prover
  handles neither fairness nor ENABLED.

## 6. Plan

Done: the package flow, the queue, submission, tailoring, intake, sessions,
harness, and the rules around the language model, resumes and searches.
What is left, in this order:

1. The texts for which `ContentIsKept` is true, as a condition, and its proof
   (section 5): first the partition of a resume's lines into sections, with the
   passes of `ResumeText` as recursive functions over sequences.
2. The update of a stored profile (two commits and a version counted up from
   what was read, `api/v1/candidate_profile.py:267`) with two requests.
3. The purge of what an account owns, table by table.
4. Monitoring, once its cycle can run (section 7).

Abstract specifications worth stating next: a token family for `Sessions`, and
a review-before-use ledger for `Tailoring`.

## 7. Not modelled

- Monitoring and discovery: `monitoring_service.py:118` and the orchestrator
  assign status strings that the validated enumeration refuses,
  `run_monitoring_cron` is registered with no worker, the orchestrator calls
  `evaluate_match`, which does not exist, and `prepare_application_run` returns
  when there is no run. A model would have no behaviour beyond the first
  exception. The locks have two hazards of their own: the Redis lock is deleted
  without a token (`locking.py:49`), and an exception of the guarded body is
  taken for a failure of Redis and yields a second time (`locking.py:55`).
- Telegram: the lookup of a link code is `where(False)`
  (`not TelegramLinkToken.used`) and the handlers import a module that does not
  exist; their one status write is `StatusWrittenElsewhere`.
- The workflow service: single model calls for a demonstration path.
- Browser automation, assisted login and connectors: the state is that of web
  pages; what they report is a nondeterministic input.
- Prompts, wording, document rendering, storage, encryption, password hashing,
  rate limits, metrics and the web interface. Embedding similarity, extracted
  facts and the single checks of a text are inputs.
- `record_external_route_opened` appends to an audit timeline;
  `normalize_current_package_for_route` changes only rows older than the code.
- The maintenance crons of the worker but the health monitor (`Monitor` in
  `Harness`), and the export of an account.

## Running

    tlc -workers 2 -config PackageConcurrent.cfg MCApplicationPackage
    tlc -workers 2 -config ApplyPipeline.cfg MCApplyPipeline
    tlc -workers 2 -config Submission.cfg MCSubmission
    tlc -workers 2 -config Tailoring.cfg MCTailoring
    tlc -workers 2 -config Intake.cfg MCIntake
    tlc -workers 2 -config Sessions.cfg MCSessions
    tlc -workers 2 -config Harness.cfg MCHarness
    tlc -workers 2 -config Assessment.cfg MCResumeWork
    tlapm ApplicationPackage_proofs.tla
    tlapm ApplyPipeline_proofs.tla
    tlapm Submission_proofs.tla
    tlapm Tailoring_proofs.tla
    tlapm Intake_proofs.tla
    tlapm Sessions_proofs.tla
    tlapm Harness_proofs.tla
    tlapm ResumeWork_proofs.tla
