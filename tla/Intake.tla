-------------------------------- MODULE Intake --------------------------------
(***************************************************************************)
(* Intake of a job posting (api/v1/opportunities.py, workers/tasks.py,      *)
(* services/job_search.py): the user gives a text or an address, a row is   *)
(* created or an old one taken up again, and a worker fetches the posting,  *)
(* extracts its fields by a model, resolves the routes of application and   *)
(* analyses the match.  Requests and workers overlap; workers die and their *)
(* jobs run again or are lost; rows that are processing for too long are    *)
(* given up.                                                                *)
(*                                                                         *)
(* All rows are of one user and of one source (type and text): it is the    *)
(* key by which the intake looks for an old row.                            *)
(***************************************************************************)
EXTENDS Routes, FiniteSets

CONSTANTS
    Req,         \* requests in flight at the same time
    Worker,      \* worker slots
    MaxRows,     \* bound on the rows of jobs
    MaxJobs,     \* bound on the process_opportunity jobs enqueued
    MaxDeaths,   \* bound on the deaths of workers and requests
    MaxOverrides, \* bound on the overrides of routes
    Postings,    \* what the extraction may make of the source
    Contents,    \* content hashes of what it makes of it
    Preferences      \* route types the user may prefer

ASSUME IntakeAssumption ==
    /\ Postings \subseteq Posting /\ Preferences \subseteq RouteType
    /\ MaxRows \in Nat \ {0} /\ MaxJobs \in Nat /\ MaxDeaths \in Nat /\ MaxOverrides \in Nat

\* platform_job_id of a row until the worker writes the hash of the content over it.
TextHash == "text"

VARIABLES
    rows,     \* jobs, in the order of creation
    routes,   \* application_routes of each row
    req,      \* the requests
    worker,   \* the worker slots
    queue,    \* process_opportunity jobs that wait: number of them for each row
    jobs,     \* jobs enqueued so far
    deaths,   \* workers and requests that have died
    overrides, \* overrides made
    lost      \* history: rows on which a request or a worker has died

vars == <<rows, routes, req, worker, queue, jobs, deaths, overrides, lost>>

Status == {"received", "processing", "ready", "failed"}

\* raw_data: empty, an error, or the outcome of the analysis (a match or match_error).
Data == {"empty", "error", "analysed"}

\* `old`: updated_at is further back than _STALE_PROCESSING.  History: `raced` since a
\* commit of routes wrote over routes it had not read.
Row == [status : Status, data : Data, pid : {TextHash} \cup Contents, old : BOOLEAN,
        raced : BOOLEAN]

Rows == DOMAIN rows
Stale(row) == row.status \in {"processing", "received"} /\ row.old

\* Of a request: the row it has found or created, what it has loaded of it, and the
\* routes it has read.
Request == [at : {"idle", "creating", "created", "retrying", "enqueueing", "expiring",
                   "overriding"},
            row : 0..MaxRows, status : Status, data : Data, choice : Preferences \cup {"none"},
            read : Seq(RouteRow)]
Idle == [at |-> "idle", row |-> 0, status |-> "received", data |-> "empty",
         choice |-> "none", read |-> << >>]

Slot == [at : {"idle", "extracting", "merging", "analysing", "storing", "failing"},
         row : 0..MaxRows, status : Status, data : Data, read : Seq(RouteRow)]
Free == [at |-> "idle", row |-> 0, status |-> "received", data |-> "empty",
         read |-> << >>]

Init ==
    /\ rows = << >> /\ routes = << >>
    /\ req = [r \in Req |-> Idle]
    /\ worker = [w \in Worker |-> Free]
    /\ queue = [j \in 1..MaxRows |-> 0]
    /\ jobs = 0 /\ deaths = 0 /\ overrides = 0 /\ lost = {}

\* A worker between its autoflush and its commit holds the row's lock: every other
\* UPDATE of the row waits.
Locked(j) == \E w \in Worker : worker[w].at = "merging" /\ worker[w].row = j

\* An UPDATE writes the attributes that differ from the loaded ones, and updated_at;
\* without such an attribute there is no UPDATE.
Flush(row, status, data, loaded) ==
    IF status = loaded.status /\ data = loaded.data THEN row
    ELSE [row EXCEPT !.status = IF status # loaded.status THEN status ELSE @,
                     !.data = IF data # loaded.data THEN data ELSE @,
                     !.old = FALSE]

-----------------------------------------------------------------------------
(* ingest_opportunity. *)

\* Rows of the same source.
Known == Rows

Oldest(js) == CHOOSE j \in js : \A k \in js : j <= k

Retryable(row) == row.status = "failed" \/ Stale(row)

\* The source is new.
IngestNew(r) ==
    /\ req[r].at = "idle" /\ Known = {} /\ jobs < MaxJobs
    /\ req' = [req EXCEPT ![r] = [Idle EXCEPT !.at = "creating"]]
    /\ UNCHANGED <<rows, routes, worker, queue, jobs, deaths, overrides, lost>>

\* A failed or stale row is taken up again; any other one is returned.
IngestAgain(r) ==
    /\ req[r].at = "idle" /\ Known # {} /\ jobs < MaxJobs
    /\ LET j == Oldest(Known) IN
         /\ Retryable(rows[j])
         /\ req' = [req EXCEPT ![r] = [Idle EXCEPT !.at = "retrying", !.row = j,
                                         !.status = rows[j].status, !.data = rows[j].data]]
    /\ UNCHANGED <<rows, routes, worker, queue, jobs, deaths, overrides, lost>>

\* The unique constraint on the platform id; a second INSERT of the text fails.
Insert(r) ==
    /\ req[r].at = "creating" /\ Len(rows) < MaxRows
    /\ \A j \in Rows : rows[j].pid # TextHash
    /\ rows' = Append(rows, [status |-> "received", data |-> "empty", pid |-> TextHash,
                             old |-> FALSE, raced |-> FALSE])
    /\ routes' = Append(routes, << >>)
    /\ req' = [req EXCEPT ![r].at = "created", ![r].row = Len(rows) + 1]
    /\ UNCHANGED <<worker, queue, jobs, deaths, overrides, lost>>

InsertRefused(r) ==
    /\ req[r].at = "creating"
    /\ \E j \in Rows : rows[j].pid = TextHash
    /\ req' = [req EXCEPT ![r] = Idle]
    /\ UNCHANGED <<rows, routes, worker, queue, jobs, deaths, overrides, lost>>

\* PROCESSING, and for an old row an empty raw_data, is committed.
Processing(r) ==
    /\ req[r].at \in {"created", "retrying"} /\ ~Locked(req[r].row)
    /\ rows' = [rows EXCEPT ![req[r].row] = Flush(@, "processing", "empty", req[r])]
    /\ req' = [req EXCEPT ![r].at = "enqueueing", ![r].status = "processing", ![r].data = "empty"]
    /\ UNCHANGED <<routes, worker, queue, jobs, deaths, overrides, lost>>

Enqueue(r) ==
    /\ req[r].at = "enqueueing" /\ jobs < MaxJobs
    /\ queue' = [queue EXCEPT ![req[r].row] = @ + 1]
    /\ jobs' = jobs + 1
    /\ req' = [req EXCEPT ![r] = Idle]
    /\ UNCHANGED <<rows, routes, worker, deaths, overrides, lost>>

\* Mutant of Unqueued: nothing is written.
UnqueuedSilently(r) == rows

\* What the request without a pool commits.
Unqueued(r) == [rows EXCEPT ![req[r].row] = Flush(@, "failed", "error", req[r])]

\* There is no arq pool.
NoQueue(r) ==
    /\ req[r].at = "enqueueing" /\ ~Locked(req[r].row)
    /\ rows' = Unqueued(r)
    /\ req' = [req EXCEPT ![r] = Idle]
    /\ UNCHANGED <<routes, worker, queue, jobs, deaths, overrides, lost>>

\* The request dies, or the enqueueing raises.
RequestDies(r) ==
    /\ req[r].at # "idle" /\ deaths < MaxDeaths
    /\ deaths' = deaths + 1
    /\ req' = [req EXCEPT ![r] = Idle]
    /\ lost' = IF req[r].at \in {"created", "enqueueing"} THEN lost \cup {req[r].row} ELSE lost
    /\ UNCHANGED <<rows, routes, worker, queue, jobs, overrides>>

-----------------------------------------------------------------------------
(* override_application_route. *)

OverrideRead(r) ==
    /\ req[r].at = "idle" /\ overrides < MaxOverrides
    /\ overrides' = overrides + 1
    /\ \E j \in Rows, type \in Preferences :
         req' = [req EXCEPT ![r] = [Idle EXCEPT !.at = "overriding", !.row = j,
                      !.choice = type, !.read = routes[j]]]
    /\ UNCHANGED <<rows, routes, worker, queue, jobs, deaths, lost>>

OverrideCommit(r) ==
    LET j == req[r].row IN
    /\ req[r].at = "overriding"
    /\ routes' = [routes EXCEPT ![j] = Written(@, req[r].read, Override(req[r].read, req[r].choice))]
    /\ rows' = [rows EXCEPT ![j].raced = @ \/ req[r].read # routes[j]]
    /\ req' = [req EXCEPT ![r] = Idle]
    /\ UNCHANGED <<worker, queue, jobs, deaths, overrides, lost>>

-----------------------------------------------------------------------------
(* process_opportunity. *)

Take(w) ==
    /\ worker[w].at = "idle"
    /\ \E j \in Rows :
         /\ queue[j] > 0
         /\ queue' = [queue EXCEPT ![j] = @ - 1]
         /\ worker' = [worker EXCEPT ![w] = [Free EXCEPT !.at = "extracting", !.row = j,
                         !.status = rows[j].status, !.data = rows[j].data]]
    /\ UNCHANGED <<rows, routes, req, jobs, deaths, overrides, lost>>

\* The posting is fetched, its fields extracted and its routes resolved; the first
\* query of the merge flushes the fields, which takes the row's lock, and reads.
MergeRead(w) ==
    /\ worker[w].at = "extracting" /\ ~Locked(worker[w].row)
    /\ worker' = [worker EXCEPT ![w].at = "merging", ![w].read = routes[worker[w].row]]
    /\ UNCHANGED <<rows, routes, req, queue, jobs, deaths, overrides, lost>>

\* Mutant of Merged: the user's choice is not looked at.
MergedAnew(old, p) ==
    Merge([i \in DOMAIN old |-> [old[i] EXCEPT !.overridden = FALSE]], Resolve(p))

Merged(old, p) == Merge(old, Resolve(p))

\* What the extraction found is committed: the content hash becomes the platform id, if
\* no other row has it, and the routes of the posting are merged into those read.
MergeCommit(w) ==
    LET j == worker[w].row IN
    /\ worker[w].at = "merging"
    /\ \E c \in Contents :
         /\ \A k \in Rows \ {j} : rows[k].pid # c
         /\ rows' = [rows EXCEPT ![j] =
                       [rows[j] EXCEPT !.pid = c, !.old = FALSE,
                          !.raced = rows[j].raced \/ worker[w].read # routes[j]]]
    /\ \E p \in Postings :
         routes' = [routes EXCEPT ![j] =
                      Written(@, worker[w].read, Merged(worker[w].read, p))]
    /\ worker' = [worker EXCEPT ![w].at = "analysing", ![w].read = << >>]
    /\ UNCHANGED <<req, queue, jobs, deaths, overrides, lost>>

\* The match, or match_error, is stored by analyze_job or with the status.
Analyse(w) ==
    /\ worker[w].at = "analysing" /\ ~Locked(worker[w].row)
    /\ \/ rows' = [rows EXCEPT ![worker[w].row] =
                      [@ EXCEPT !.data = "analysed", !.old = FALSE]]
          /\ worker' = [worker EXCEPT ![w].at = "storing", ![w].data = "analysed"]
       \/ /\ worker' = [worker EXCEPT ![w].at = "storing"]
          /\ UNCHANGED rows
    /\ UNCHANGED <<routes, req, queue, jobs, deaths, overrides, lost>>

Store(w) ==
    /\ worker[w].at = "storing" /\ ~Locked(worker[w].row)
    /\ rows' = [rows EXCEPT ![worker[w].row] = Flush(@, "ready", "analysed", worker[w])]
    /\ worker' = [worker EXCEPT ![w] = Free]
    /\ UNCHANGED <<routes, req, queue, jobs, deaths, overrides, lost>>

\* The fetch, the model, the merge (another row has the content) or a commit raises;
\* the session is rolled back and the row is read again.
Fails(w) ==
    LET j == worker[w].row IN
    /\ worker[w].at \in {"extracting", "merging", "storing"}
    /\ worker' = [worker EXCEPT ![w] = [Free EXCEPT !.at = "failing", !.row = j,
                    !.status = rows[j].status, !.data = rows[j].data]]
    /\ UNCHANGED <<rows, routes, req, queue, jobs, deaths, overrides, lost>>

\* arq does not repeat a job that has raised.
StoreFailure(w) ==
    /\ worker[w].at = "failing" /\ ~Locked(worker[w].row)
    /\ rows' = [rows EXCEPT ![worker[w].row] = Flush(@, "failed", "error", worker[w])]
    /\ worker' = [worker EXCEPT ![w] = Free]
    /\ UNCHANGED <<routes, req, queue, jobs, deaths, overrides, lost>>

\* The worker dies or the job times out: arq runs it again, or it is lost.
WorkerDies(w) ==
    LET j == worker[w].row IN
    /\ worker[w].at # "idle" /\ deaths < MaxDeaths
    /\ deaths' = deaths + 1
    /\ worker' = [worker EXCEPT ![w] = Free]
    /\ \/ queue' = [queue EXCEPT ![j] = @ + 1] /\ UNCHANGED lost
       \/ lost' = lost \cup {j} /\ UNCHANGED queue
    /\ UNCHANGED <<rows, routes, req, jobs, overrides>>

-----------------------------------------------------------------------------
(* Time, and the lists the user looks at. *)

\* updated_at becomes older than 900 seconds.
Age(j) ==
    /\ rows[j].status \in {"received", "processing"} /\ ~rows[j].old
    /\ rows' = [rows EXCEPT ![j].old = TRUE]
    /\ UNCHANGED <<routes, req, worker, queue, jobs, deaths, overrides, lost>>

\* _expire_stale_processing_jobs: by list_jobs, get_job and analyze_job.
ExpireRead(r) ==
    /\ req[r].at = "idle"
    /\ \E j \in Rows :
         /\ Stale(rows[j])
         /\ req' = [req EXCEPT ![r] = [Idle EXCEPT !.at = "expiring", !.row = j,
                                         !.status = rows[j].status, !.data = rows[j].data]]
    /\ UNCHANGED <<rows, routes, worker, queue, jobs, deaths, overrides, lost>>

ExpireCommit(r) ==
    /\ req[r].at = "expiring" /\ ~Locked(req[r].row)
    /\ rows' = [rows EXCEPT ![req[r].row] = Flush(@, "failed", "error", req[r])]
    /\ req' = [req EXCEPT ![r] = Idle]
    /\ UNCHANGED <<routes, worker, queue, jobs, deaths, overrides, lost>>

Ingest(r) == IngestNew(r) \/ IngestAgain(r) \/ Insert(r) \/ InsertRefused(r) \/ Processing(r)
             \/ Enqueue(r) \/ NoQueue(r) \/ RequestDies(r)
Overriding(r) == OverrideRead(r) \/ OverrideCommit(r)
Expire(r) == ExpireRead(r) \/ ExpireCommit(r)
Process(w) == Take(w) \/ MergeRead(w) \/ MergeCommit(w) \/ Analyse(w) \/ Store(w)
              \/ Fails(w) \/ StoreFailure(w) \/ WorkerDies(w)

Next ==
    \/ \E r \in Req : Ingest(r) \/ Overriding(r) \/ Expire(r)
    \/ \E w \in Worker : Process(w)
    \/ \E j \in Rows : Age(j)

Spec == Init /\ [][Next]_vars

-----------------------------------------------------------------------------
(* Properties. *)

TypeOK ==
    /\ rows \in Seq(Row) /\ Len(rows) <= MaxRows
    /\ routes \in Seq(Seq(RouteRow)) /\ Len(routes) = Len(rows)
    /\ req \in [Req -> Request]
    /\ worker \in [Worker -> Slot]
    /\ queue \in [1..MaxRows -> 0..(MaxJobs + MaxDeaths)]
    /\ jobs \in 0..MaxJobs /\ deaths \in 0..MaxDeaths
    /\ overrides \in 0..MaxOverrides /\ lost \subseteq 1..MaxRows

\* A row that is processing has a job, a worker or a request that goes on with it,
\* or one of them has died on it: nothing else makes the user wait for nothing.
ProcessingIsServed ==
    \A j \in Rows :
        rows[j].status \in {"received", "processing"} =>
            \/ j \in lost
            \/ queue[j] > 0
            \/ \E w \in Worker : worker[w].at # "idle" /\ worker[w].row = j
            \/ \E r \in Req : req[r].at \in {"created", "enqueueing"} /\ req[r].row = j

\* Unless an override and a merge have crossed, at most one route of a row is the
\* preferred one; after an override it may be several of the type the user chose.
\* However many times a source is processed, with whatever postings, a route
\* preferred before does not stay so beside the new one.
PreferredIsClear ==
    \A j \in Rows : ~rows[j].raced =>
        \A i, k \in DOMAIN routes[j] :
            routes[j][i].preferred /\ routes[j][k].preferred =>
                \/ i = k
                \/ routes[j][i].type = routes[j][k].type
                   /\ routes[j][i].overridden /\ routes[j][k].overridden

\* What the user has chosen stays preferred through every later processing of the row:
\* a step that does not cross a commit it has not read takes no choice away.
OverrideKept ==
    [][\A j \in Rows : UserPreferred(routes[j]) /\ ~rows'[j].raced
            => UserPreferred(routes'[j])]_vars
=============================================================================
