------------------------- MODULE ApplyPipeline_proofs -------------------------
(***************************************************************************)
(* The safety of the apply pipeline for every set of requests, rows and    *)
(* jobs, every max_tries and every set of statuses a user may write, with  *)
(* and without deaths.                                                     *)
(***************************************************************************)
EXTENDS ApplyPipeline, TLAPS

\* What the unique index is there for, over the rows as they stand.
OneActive ==
    \A a, b \in rows :
        /\ JobOf[a] = JobOf[b]
        /\ status[a] \notin Terminal /\ status[b] \notin Terminal
        => a = b

\* Nothing has happened to a row that is not inserted yet.
Uninserted ==
    \A a \in App \ rows : status[a] = "queued" /\ queue[a] = "none" /\ ~settled[a]

\* What the place of a request says of the rows it holds: inserted, and of different
\* jobs when they are to be approved together.
OnRows(session, inserted) ==
    /\ session.left \subseteq inserted
    /\ session.at = "enqueue" => session.app \in inserted
    /\ session.at = "approve" =>
         \A a, b \in session.left : JobOf[a] = JobOf[b] => a = b

RequestsOnRows == \A r \in Req : OnRows(req[r], rows)

\* A coroutine exists while its job runs, and works on no settled row.
Worked(a) ==
    /\ work[a].at # "none" <=> queue[a] = "running"
    /\ settled[a] => status[a] = "applied" /\ work[a].at \in {"none", "done"}

\* Each try makes one submission, later than its start.
Counted(a) ==
    /\ submits[a] <= tries[a] /\ submits[a] <= MaxTries
    /\ work[a].at # "none" => tries[a] <= MaxTries
    /\ work[a].at \in {"loaded", "applying"} => submits[a] < tries[a]

IInv ==
    /\ TypeOK
    /\ OneActive
    /\ Uninserted
    /\ RequestsOnRows
    /\ \A a \in App : Worked(a) /\ Counted(a)

-----------------------------------------------------------------------------
\* A request moves on to a session that is on the rows there are then.
LEMMA SessionKeeps ==
    ASSUME IInv, NEW r \in Req, NEW session \in Request, Goto(r, session),
           rows \subseteq rows', OnRows(session, rows')
    PROVE  req' \in [Req -> Request] /\ RequestsOnRows'
<1>1. req' \in [Req -> Request]
  BY DEF IInv, TypeOK, Goto
<1>2. ASSUME NEW o \in Req PROVE OnRows(req'[o], rows')
  <2>1. CASE o = r
    BY <2>1 DEF IInv, TypeOK, Goto
  <2>2. CASE o # r
    <3>1. req'[o] = req[o] /\ OnRows(req[o], rows)
      BY <2>2 DEF IInv, TypeOK, Goto, RequestsOnRows
    <3> QED
      BY <3>1 DEF OnRows
  <2> QED
    BY <2>1, <2>2
<1> QED
  BY <1>1, <1>2 DEF RequestsOnRows

LEMMA IdleIsRequest == Idle \in Request /\ OnRows(Idle, rows)
  BY DEF Idle, Request, Status, Terminal, OnRows

\* A row that the index lets have a status leaves one active row per job.
LEMMA IndexKeeps ==
    ASSUME IInv, NEW a \in rows, NEW s \in Status, MayBe(a, s), UNCHANGED rows,
           status'[a] = s, \A b \in App \ {a} : status'[b] = status[b]
    PROVE  OneActive'
<1> SUFFICES ASSUME NEW b \in rows, NEW c \in rows, JobOf[b] = JobOf[c],
                    status'[b] \notin Terminal, status'[c] \notin Terminal, b # c
             PROVE  FALSE
  BY DEF OneActive
<1>1. rows \subseteq App
  BY DEF IInv, TypeOK
<1>2. CASE b # a /\ c # a
  BY <1>1, <1>2 DEF IInv, OneActive
<1>3. CASE b = a \/ c = a
  BY <1>1, <1>3 DEF MayBe
<1> QED
  BY <1>2, <1>3

\* Rows are inserted, and the request goes on; nothing else happens.
LEMMA InsertKeeps ==
    ASSUME IInv, NEW new \in SUBSET (App \ rows), NEW m \in Mode, Insert(new, m),
           \A a \in new : ActiveRows(JobOf[a]) = {},
           \A a, b \in new : JobOf[a] = JobOf[b] => a = b,
           NEW r \in Req, NEW session \in Request, Goto(r, session),
           OnRows(session, rows'),
           UNCHANGED <<status, redisVars, work, historyVars>>
    PROVE  IInv'
<1>1. rows' = rows \cup new /\ rows' \subseteq App
  BY DEF IInv, TypeOK, Insert
<1>2. TypeOK'
  <2>1. req' \in [Req -> Request]
    BY <1>1, SessionKeeps
  <2>2. mode' \in [App -> Mode]
    BY DEF IInv, TypeOK, Insert
  <2> QED
    BY <1>1, <2>1, <2>2 DEF IInv, TypeOK, redisVars, historyVars
<1>3. OneActive'
  <2> SUFFICES ASSUME NEW a \in rows', NEW b \in rows', JobOf[a] = JobOf[b],
                      status[a] \notin Terminal, status[b] \notin Terminal
               PROVE  a = b
    BY DEF OneActive
  <2>1. CASE a \in rows /\ b \in rows
    BY <2>1 DEF IInv, OneActive
  <2>2. CASE a \in new /\ b \in new
    BY <2>2
  <2>3. CASE a \in new /\ b \in rows
    BY <2>3 DEF ActiveRows
  <2>4. CASE a \in rows /\ b \in new
    BY <2>4 DEF ActiveRows
  <2> QED
    BY <1>1, <2>1, <2>2, <2>3, <2>4
<1>4. Uninserted'
  BY <1>1 DEF IInv, Uninserted, redisVars, historyVars
<1>5. RequestsOnRows'
  BY <1>1, SessionKeeps
<1>6. \A a \in App : Worked(a)' /\ Counted(a)'
  BY DEF IInv, Worked, Counted, redisVars, historyVars
<1> QED
  BY <1>2, <1>3, <1>4, <1>5, <1>6 DEF IInv

\* A request moves on, and nothing else happens.
LEMMA GotoKeeps ==
    ASSUME IInv, NEW r \in Req, NEW session \in Request, Goto(r, session),
           OnRows(session, rows),
           UNCHANGED <<dbVars, redisVars, work, historyVars>>
    PROVE  IInv'
<1>1. req' \in [Req -> Request] /\ RequestsOnRows'
  BY SessionKeeps DEF dbVars
<1> QED
  BY <1>1 DEF IInv, TypeOK, OneActive, Uninserted, Worked, Counted, dbVars, redisVars,
     historyVars

\* A request ends, and nothing else happens.
LEMMA IdleKeeps ==
    ASSUME IInv, NEW r \in Req, Finish(r),
           UNCHANGED <<dbVars, redisVars, work, historyVars>>
    PROVE  IInv'
  BY IdleIsRequest, GotoKeeps DEF Finish

\* A status is written by a request or a user: the index has let it, and no
\* coroutine is disturbed.
LEMMA RewriteKeeps ==
    ASSUME IInv, NEW written, DOMAIN written \subseteq rows,
           \A a \in DOMAIN written : written[a] \in Status,
           Rewrite(written), OneActive',
           req' \in [Req -> Request], RequestsOnRows',
           UNCHANGED <<rows, mode, redisVars, work, submits, lost>>
    PROVE  IInv'
<1>1. status' \in [App -> Status] /\ settled' \in [App -> BOOLEAN]
  BY DEF IInv, TypeOK, Rewrite
<1>2. TypeOK'
  BY <1>1 DEF IInv, TypeOK, redisVars
<1>3. \A a \in App : settled'[a] => settled[a] /\ status'[a] = status[a]
  BY DEF Rewrite
<1>4. Uninserted'
  BY <1>3 DEF IInv, Uninserted, Rewrite, redisVars
<1>5. \A a \in App : Worked(a)' /\ Counted(a)'
  BY <1>3 DEF IInv, Worked, Counted, redisVars
<1> QED
  BY <1>2, <1>4, <1>5 DEF IInv

-----------------------------------------------------------------------------
\* The requests.
LEMMA CreateKeeps ==
    ASSUME IInv, NEW r \in Req, NEW j \in Job, NEW m \in Mode, Create(r, j, m)
    PROVE  IInv'
<1> DEFINE session(a, s) == [Idle EXCEPT !.at = "dispatch", !.left = {a}, !.seen = s]
<1>1. \A a \in App, s \in Status :
         session(a, s) \in Request /\ \A rs : a \in rs => OnRows(session(a, s), rs)
  BY DEF Idle, Request, OnRows
<1>2. ASSUME NEW a \in App \ rows, JobOf[a] = j, ActiveRows(j) = {}, Insert({a}, m),
             Goto(r, session(a, "queued")),
             UNCHANGED <<status, redisVars, work, historyVars>>
      PROVE  IInv'
  <2>1. a \in rows' /\ "queued" \in Status
    BY <1>2 DEF Insert, Status
  <2>2. {a} \in SUBSET (App \ rows) /\ \A b \in {a} : ActiveRows(JobOf[b]) = {}
    BY <1>2
  <2> HIDE DEF session
  <2>3. session(a, "queued") \in Request /\ OnRows(session(a, "queued"), rows')
    BY <1>1, <2>1
  <2> QED
    BY <1>2, <2>2, <2>3, InsertKeeps
<1>3. ASSUME NEW a \in ActiveRows(j), Goto(r, session(a, status[a])),
             UNCHANGED <<rows, mode, status, redisVars, work, historyVars>>
      PROVE  IInv'
  <2>1. a \in App /\ a \in rows /\ status[a] \in Status
    BY DEF ActiveRows, IInv, TypeOK
  <2> HIDE DEF session
  <2>2. session(a, status[a]) \in Request /\ OnRows(session(a, status[a]), rows)
    BY <1>1, <2>1
  <2> QED
    BY <1>3, <2>2, GotoKeeps DEF dbVars
<1> QED
  BY <1>2, <1>3 DEF Create

LEMMA BatchReadKeeps ==
    ASSUME IInv, NEW r \in Req, NEW js \in SUBSET Job, BatchRead(r, js)
    PROVE  IInv'
<1> DEFINE session ==
        [Idle EXCEPT !.at = "batch", !.jobs = {j \in js : ActiveRows(j) = {}}]
<1>1. session \in Request /\ OnRows(session, rows)
  BY DEF Idle, Request, OnRows, Status
<1> QED
  BY <1>1, GotoKeeps DEF BatchRead

LEMMA BatchCommitKeeps ==
    ASSUME IInv, NEW r \in Req, NEW m \in Mode, BatchCommit(r, m)
    PROVE  IInv'
<1>1. CASE Finish(r) /\ UNCHANGED <<rows, mode>>
  BY <1>1, IdleKeeps DEF BatchCommit, dbVars
<1>2. ASSUME NEW new \in SUBSET (App \ rows), NEW jobs,
             \A j \in jobs : ActiveRows(j) = {}, {JobOf[a] : a \in new} = jobs,
             \A a, b \in new : JobOf[a] = JobOf[b] => a = b, Insert(new, m),
             Goto(r, [Idle EXCEPT !.at = "dispatch", !.left = new]),
             UNCHANGED <<status, redisVars, work, historyVars>>
      PROVE  IInv'
  <2> DEFINE session == [Idle EXCEPT !.at = "dispatch", !.left = new]
  <2>1. session \in Request /\ OnRows(session, rows')
    BY <1>2 DEF Idle, Request, OnRows, Status, Insert
  <2>2. Goto(r, session) /\ \A a \in new : ActiveRows(JobOf[a]) = {}
    BY <1>2
  <2> HIDE DEF session
  <2> QED
    BY <1>2, <2>1, <2>2, InsertKeeps
<1> QED
  BY <1>1, <1>2 DEF BatchCommit

\* The next row of a batch is one it holds.
LEMMA NextRowIsSession ==
    ASSUME NEW r \in Req, NEW left \in SUBSET App, left \subseteq rows, NextRow(r, left)
    PROVE  \E session \in Request : Goto(r, session) /\ OnRows(session, rows)
<1> DEFINE session == IF left = {} THEN Idle
                      ELSE [Idle EXCEPT !.at = "dispatch", !.left = left]
<1>1. session \in Request /\ OnRows(session, rows)
  BY DEF Idle, Request, OnRows, Status
<1>2. Goto(r, session)
  BY DEF NextRow, Finish
<1> QED
  BY <1>1, <1>2

LEMMA DispatchKeeps ==
    ASSUME IInv, NEW r \in Req, Dispatch(r)
    PROVE  IInv'
<1>1. PICK a \in req[r].left :
        LET auto == mode[a] = "autonomous"
            to == IF auto THEN "queued" ELSE "pending_review"
            written == Flush(req[r].seen, to, status[a])
            left == req[r].left \ {a}
        IN \/ /\ MayBe(a, written)
              /\ Rewrite([b \in {a} |-> written])
              /\ IF auto
                 THEN Goto(r, [Idle EXCEPT !.at = "enqueue", !.app = a, !.left = left])
                 ELSE NextRow(r, left)
           \/ /\ ~MayBe(a, written)
              /\ Finish(r)
              /\ UNCHANGED <<status, settled>>
  BY DEF Dispatch
<1>2. UNCHANGED <<rows, mode, redisVars, work, submits, lost>>
  BY DEF Dispatch
<1> DEFINE to == IF mode[a] = "autonomous" THEN "queued" ELSE "pending_review"
           written == Flush(req[r].seen, to, status[a])
           left == req[r].left \ {a}
<1>3. /\ a \in App /\ a \in rows /\ left \in SUBSET App /\ left \subseteq rows
      /\ status \in [App -> Status]
  BY DEF IInv, TypeOK, RequestsOnRows, OnRows
<1>4. written \in Status
  BY <1>3 DEF Flush, Status
<1>5. CASE /\ MayBe(a, written)
           /\ Rewrite([b \in {a} |-> written])
           /\ IF mode[a] = "autonomous"
              THEN Goto(r, [Idle EXCEPT !.at = "enqueue", !.app = a, !.left = left])
              ELSE NextRow(r, left)
  <2>1. PICK session \in Request : Goto(r, session) /\ OnRows(session, rows)
    <3>1. CASE mode[a] = "autonomous"
      <4> DEFINE next == [Idle EXCEPT !.at = "enqueue", !.app = a, !.left = left]
      <4>1. next \in Request /\ OnRows(next, rows)
        BY <1>3 DEF Idle, Request, OnRows, Status
      <4> QED
        BY <1>5, <3>1, <4>1
    <3>2. CASE mode[a] # "autonomous"
      BY <1>3, <1>5, <3>2, NextRowIsSession
    <3> QED
      BY <3>1, <3>2
  <2>2. req' \in [Req -> Request] /\ RequestsOnRows'
    BY <1>2, <2>1, SessionKeeps
  <2> HIDE DEF written, left
  <2>3. status'[a] = written /\ \A b \in App \ {a} : status'[b] = status[b]
    BY <1>3, <1>5 DEF Rewrite
  <2>4. OneActive'
    BY <1>2, <1>3, <1>4, <1>5, <2>3, IndexKeeps
  <2> DEFINE writes == [b \in {a} |-> written]
  <2>5. /\ DOMAIN writes \subseteq rows /\ \A b \in DOMAIN writes : writes[b] \in Status
        /\ Rewrite(writes)
    BY <1>3, <1>4, <1>5
  <2> HIDE DEF writes
  <2> QED
    BY <1>2, <2>2, <2>4, <2>5, RewriteKeeps
<1>6. CASE Finish(r) /\ UNCHANGED <<status, settled>>
  BY <1>2, <1>6, IdleKeeps DEF dbVars, historyVars
<1> QED
  BY <1>1, <1>5, <1>6

LEMMA ApproveReadKeeps ==
    ASSUME IInv, NEW r \in Req, NEW s \in SUBSET rows, ApproveRead(r, s)
    PROVE  IInv'
<1> DEFINE session == [Idle EXCEPT !.at = "approve", !.left = s]
<1>1. \A a \in s : status[a] \notin Terminal
  BY DEF ApproveRead, Terminal
<1>2. \A a, b \in s : JobOf[a] = JobOf[b] => a = b
  BY <1>1 DEF IInv, OneActive
<1>3. session \in Request /\ OnRows(session, rows)
  BY <1>2 DEF Idle, Request, OnRows, Status, IInv, TypeOK
<1> QED
  BY <1>3, GotoKeeps DEF ApproveRead

\* Rows of different jobs, each of which the index lets be approved, may be approved
\* in one commit.
LEMMA ApproveCommitKeeps ==
    ASSUME IInv, NEW r \in Req, ApproveCommit(r)
    PROVE  IInv'
<1> DEFINE left == req[r].left
           session == [req[r] EXCEPT !.at = "enqueueAll"]
           writes == [a \in left |-> "approved"]
<1>1. /\ left \subseteq rows /\ rows \subseteq App
      /\ \A a, b \in left : JobOf[a] = JobOf[b] => a = b
  BY DEF IInv, TypeOK, RequestsOnRows, OnRows, ApproveCommit
<1>2. CASE /\ \A a \in left : MayBe(a, "approved")
           /\ Rewrite(writes) /\ Goto(r, session)
           /\ UNCHANGED <<rows, mode, redisVars, work, submits, lost>>
  <2>1. session \in Request /\ OnRows(session, rows)
    BY <1>1 DEF IInv, TypeOK, Request, OnRows
  <2>2. req' \in [Req -> Request] /\ RequestsOnRows'
    BY <1>2, <2>1, SessionKeeps
  <2>3. \A a \in App : status'[a] = IF a \in left THEN "approved" ELSE status[a]
    BY <1>1, <1>2 DEF Rewrite
  <2>4. OneActive'
    <3> SUFFICES ASSUME NEW a \in rows, NEW b \in rows, JobOf[a] = JobOf[b],
                        status'[a] \notin Terminal, status'[b] \notin Terminal, a # b
                 PROVE  FALSE
      BY <1>2 DEF OneActive
    <3>1. CASE a \in left
      BY <1>1, <1>2, <2>3, <3>1 DEF MayBe, Terminal
    <3>2. CASE b \in left
      BY <1>1, <1>2, <2>3, <3>2 DEF MayBe, Terminal
    <3>3. CASE a \notin left /\ b \notin left
      BY <1>1, <2>3, <3>3 DEF IInv, OneActive
    <3> QED
      BY <3>1, <3>2, <3>3
  <2>5. DOMAIN writes \subseteq rows /\ \A a \in DOMAIN writes : writes[a] \in Status
    BY <1>1 DEF Status
  <2> HIDE DEF writes
  <2> QED
    BY <1>2, <2>2, <2>4, <2>5, RewriteKeeps
<1>3. CASE /\ Finish(r) /\ UNCHANGED <<status, settled>>
           /\ UNCHANGED <<rows, mode, redisVars, work, submits, lost>>
  BY <1>3, IdleKeeps DEF dbVars, historyVars
<1> QED
  BY <1>2, <1>3 DEF ApproveCommit

\* A row is pushed to the queue by a request that goes on.
LEMMA PushKeeps ==
    ASSUME IInv, NEW a \in rows, Push(a),
           NEW r \in Req, NEW session \in Request, Goto(r, session),
           OnRows(session, rows), UNCHANGED <<dbVars, pool, work, settled, lost>>
    PROVE  IInv'
<1>1. req' \in [Req -> Request] /\ RequestsOnRows'
  BY SessionKeeps DEF dbVars
<1>2. a \in App /\ MaxTries \in Nat
  BY PipelineAssumption DEF IInv, TypeOK
<1>3. TypeOK'
  BY <1>1, <1>2 DEF IInv, TypeOK, Push, dbVars
<1>4. Uninserted' /\ OneActive'
  BY <1>2 DEF IInv, TypeOK, Uninserted, OneActive, Push, dbVars
<1>5. ASSUME NEW b \in App PROVE Worked(b)' /\ Counted(b)'
  <2>1. CASE b = a /\ queue[a] = "none" /\ pool
    BY <1>2, <2>1 DEF IInv, TypeOK, Worked, Counted, Push, dbVars
  <2>2. CASE b # a \/ ~(queue[a] = "none" /\ pool)
    BY <1>2, <2>2 DEF IInv, TypeOK, Worked, Counted, Push, dbVars
  <2> QED
    BY <2>1, <2>2
<1> QED
  BY <1>1, <1>3, <1>4, <1>5 DEF IInv

LEMMA EnqueueKeeps ==
    ASSUME IInv, NEW r \in Req, Enqueue(r)
    PROVE  IInv'
<1>1. /\ req[r].app \in rows /\ req[r].left \in SUBSET App /\ req[r].left \subseteq rows
  BY DEF IInv, TypeOK, Request, RequestsOnRows, OnRows, Enqueue
<1>2. PICK session \in Request : Goto(r, session) /\ OnRows(session, rows)
  BY <1>1, NextRowIsSession DEF Enqueue
<1> QED
  BY <1>1, <1>2, PushKeeps DEF Enqueue

LEMMA EnqueueApprovedKeeps ==
    ASSUME IInv, NEW r \in Req, EnqueueApproved(r)
    PROVE  IInv'
<1>1. PICK a \in req[r].left :
        /\ Push(a)
        /\ IF req[r].left = {a} THEN Finish(r)
           ELSE Goto(r, [req[r] EXCEPT !.left = @ \ {a}])
  BY DEF EnqueueApproved
<1>2. a \in rows /\ req[r].left \subseteq rows /\ req[r].at = "enqueueAll"
  BY DEF IInv, RequestsOnRows, OnRows, EnqueueApproved
<1>3. PICK session \in Request : Goto(r, session) /\ OnRows(session, rows)
  <2>1. CASE req[r].left = {a}
    BY <1>1, <2>1, IdleIsRequest DEF Finish
  <2>2. CASE req[r].left # {a}
    <3> DEFINE session == [req[r] EXCEPT !.left = @ \ {a}]
    <3>1. session \in Request /\ OnRows(session, rows)
      BY <1>2 DEF IInv, TypeOK, Request, OnRows
    <3> QED
      BY <1>1, <2>2, <3>1
  <2> QED
    BY <2>1, <2>2
<1> QED
  BY <1>1, <1>2, <1>3, PushKeeps DEF EnqueueApproved

LEMMA UpdateStatusKeeps ==
    ASSUME IInv, NEW a \in App, NEW s \in UserStatus, UpdateStatus(a, s)
    PROVE  IInv'
<1> DEFINE writes == [b \in {a} |-> s]
<1>1. a \in rows /\ MayBe(a, s) /\ s \in Status /\ Rewrite(writes)
  BY UserAssumption DEF UpdateStatus
<1>2. DOMAIN writes \subseteq rows /\ \A b \in DOMAIN writes : writes[b] \in Status
  BY <1>1
<1>3. status'[a] = s /\ \A b \in App \ {a} : status'[b] = status[b]
  BY <1>1 DEF Rewrite
<1>4. OneActive'
  BY <1>1, <1>3, IndexKeeps DEF UpdateStatus
<1>5. req' \in [Req -> Request] /\ RequestsOnRows'
  BY DEF UpdateStatus, IInv, TypeOK, RequestsOnRows
<1> HIDE DEF writes
<1> QED
  BY <1>1, <1>2, <1>4, <1>5, RewriteKeeps DEF UpdateStatus

-----------------------------------------------------------------------------
\* The worker.  A step of it concerns one row, whose job is queued, running or done.
LEMMA RowKeeps ==
    ASSUME IInv, NEW a \in App, queue[a] # "none", UNCHANGED <<rows, mode, pool, req>>,
           NEW q \in {"none", "queued", "running", "result"},
           NEW t \in 0..(MaxTries + 1), NEW c \in Coroutine, NEW n \in Nat,
           queue' = [queue EXCEPT ![a] = q], tries' = [tries EXCEPT ![a] = t],
           work' = [work EXCEPT ![a] = c], submits' = [submits EXCEPT ![a] = n],
           status' \in [App -> Status], settled' \in [App -> BOOLEAN], lost' \in BOOLEAN,
           \A b \in App \ {a} : status'[b] = status[b] /\ settled'[b] = settled[b],
           OneActive',
           c.at # "none" <=> q = "running",
           settled'[a] => status'[a] = "applied" /\ c.at \in {"none", "done"},
           n <= t, n <= MaxTries, c.at # "none" => t <= MaxTries,
           c.at \in {"loaded", "applying"} => n < t
    PROVE  IInv'
<1>1. TypeOK'
  BY DEF IInv, TypeOK
<1>2. a \in rows
  BY DEF IInv, Uninserted
<1>3. Uninserted' /\ RequestsOnRows'
  BY <1>2 DEF IInv, TypeOK, Uninserted, RequestsOnRows
<1>4. ASSUME NEW b \in App PROVE Worked(b)' /\ Counted(b)'
  <2>1. CASE b = a
    BY <2>1 DEF IInv, TypeOK, Worked, Counted
  <2>2. CASE b # a
    BY <2>2 DEF IInv, TypeOK, Worked, Counted
  <2> QED
    BY <2>1, <2>2
<1> QED
  BY <1>1, <1>3, <1>4 DEF IInv

\* The row of a coroutine, its counters and what it loaded.
LEMMA CoroutineRuns ==
    ASSUME IInv, NEW a \in App
    PROVE  /\ work[a] \in Coroutine /\ queue[a] \in {"none", "queued", "running", "result"}
           /\ tries[a] \in 0..(MaxTries + 1) /\ tries[a] \in Nat
           /\ submits[a] \in Nat /\ MaxTries \in Nat
           /\ work[a].at # "none" => queue[a] = "running" /\ tries[a] <= MaxTries
           /\ work[a].at \in {"loaded", "applying"} => submits[a] < tries[a]
           /\ submits[a] <= tries[a] /\ submits[a] <= MaxTries
           /\ settled[a] => status[a] = "applied" /\ work[a].at \in {"none", "done"}
           /\ Resting \in Coroutine /\ Resting.at = "none"
           /\ queue[a] # "none" => a \in rows
           /\ UNCHANGED queue => queue' = [queue EXCEPT ![a] = queue[a]]
           /\ UNCHANGED tries => tries' = [tries EXCEPT ![a] = tries[a]]
           /\ UNCHANGED submits => submits' = [submits EXCEPT ![a] = submits[a]]
  BY PipelineAssumption
     DEF IInv, TypeOK, Worked, Counted, Uninserted, Resting, Coroutine, Status

\* A commit of the worker that the index refuses changes no status, and one that it
\* lets pass settles the row only as applied.
LEMMA RecordKeeps ==
    ASSUME IInv, NEW a \in App, a \in rows, NEW s \in Status, Record(a, s)
    PROVE  /\ status' \in [App -> Status] /\ settled' \in [App -> BOOLEAN]
           /\ \A b \in App \ {a} : status'[b] = status[b] /\ settled'[b] = settled[b]
           /\ OneActive'
           /\ settled'[a] => status'[a] = "applied" /\ (s = "applied" \/ settled[a])
           /\ UNCHANGED <<rows, mode>>
<1>1. /\ status \in [App -> Status] /\ settled \in [App -> BOOLEAN]
      /\ work[a].seen \in Status /\ UNCHANGED <<rows, mode>>
  BY DEF IInv, TypeOK, Coroutine, Record
<1>2. Written(a, s) \in Status
  BY <1>1 DEF Written, Flush
<1>3. /\ status' \in [App -> Status]
      /\ \A b \in App \ {a} : status'[b] = status[b]
      /\ Recordable(a, s) => status'[a] = Written(a, s)
      /\ ~Recordable(a, s) => UNCHANGED status
  BY <1>1, <1>2 DEF Record
<1>4. OneActive'
  <2>1. CASE Recordable(a, s)
    BY <1>1, <1>2, <1>3, <2>1, IndexKeeps DEF Recordable
  <2>2. CASE ~Recordable(a, s)
    BY <1>1, <1>3, <2>2 DEF IInv, OneActive
  <2> QED
    BY <2>1, <2>2
<1>5. /\ settled' \in [App -> BOOLEAN]
      /\ \A b \in App \ {a} : settled'[b] = settled[b]
      /\ settled'[a] = (status'[a] = "applied" /\ (s = "applied" \/ settled[a]))
  BY <1>1 DEF Record
<1> QED
  BY <1>1, <1>3, <1>4, <1>5

LEMMA PickUpKeeps ==
    ASSUME IInv, NEW a \in App, PickUp(a)
    PROVE  IInv'
<1> DEFINE c == [Resting EXCEPT !.at = IF Completed(status[a]) THEN "done" ELSE "loaded",
                                !.seen = status[a]]
           t == IF tries[a] > MaxTries THEN tries[a] ELSE tries[a] + 1
<1>1. /\ queue[a] = "queued" /\ UNCHANGED <<rows, mode, pool, req, status, settled, lost>>
      /\ UNCHANGED submits
  BY DEF PickUp, dbVars, historyVars
<1>2. /\ t \in 0..(MaxTries + 1) /\ tries' = [tries EXCEPT ![a] = t]
      /\ submits' = [submits EXCEPT ![a] = submits[a]] /\ submits[a] <= t
  <2>1. /\ tries[a] \in 0..(MaxTries + 1) /\ tries[a] \in Nat /\ submits[a] \in Nat
        /\ MaxTries \in Nat /\ submits[a] <= tries[a]
    BY CoroutineRuns
  <2>2. t \in 0..(MaxTries + 1) /\ submits[a] <= t
    BY <2>1
  <2> QED
    BY <1>1, <2>2, CoroutineRuns DEF PickUp
<1>3. status \in [App -> Status] /\ settled \in [App -> BOOLEAN] /\ lost \in BOOLEAN
      /\ OneActive'
  BY <1>1 DEF IInv, TypeOK, OneActive
<1>4. c \in Coroutine /\ c.at \in {"done", "loaded"} /\ (settled[a] => c.at = "done")
  BY <1>3, CoroutineRuns DEF Coroutine, Resting, Completed
<1>5. CASE GivenUp(a)
  <2>1. /\ queue' = [queue EXCEPT ![a] = "result"]
        /\ work' = [work EXCEPT ![a] = Resting]
    BY <1>5 DEF PickUp, EndJob, Step
  <2> HIDE DEF c, t
  <2> QED
    BY <1>1, <1>2, <1>3, <2>1, CoroutineRuns, RowKeeps
<1>6. CASE ~GivenUp(a)
  <2>1. /\ queue' = [queue EXCEPT ![a] = "running"]
        /\ work' = [work EXCEPT ![a] = c]
    BY <1>6 DEF PickUp, Step
  <2>2. t <= MaxTries /\ submits[a] < t
    BY <1>6, CoroutineRuns DEF GivenUp
  <2> HIDE DEF c, t
  <2> QED
    BY <1>1, <1>2, <1>3, <1>4, <2>1, <2>2, CoroutineRuns, RowKeeps
<1> QED
  BY <1>5, <1>6

\* A step of a coroutine that leaves its row as it is.
LEMMA StepKeeps ==
    ASSUME IInv, NEW a \in App, work[a].at # "none" \/ queue[a] = "result",
           UNCHANGED <<dbVars, tries, pool, req, settled>>, lost' \in BOOLEAN,
           NEW q \in {"none", "queued", "running", "result"},
           NEW c \in Coroutine, NEW n \in Nat,
           queue' = [queue EXCEPT ![a] = q], work' = [work EXCEPT ![a] = c],
           submits' = [submits EXCEPT ![a] = n],
           c.at # "none" <=> q = "running",
           settled[a] => c.at \in {"none", "done"},
           n <= tries[a], n <= MaxTries, c.at # "none" => tries[a] <= MaxTries,
           c.at \in {"loaded", "applying"} => n < tries[a]
    PROVE  IInv'
<1>1. status \in [App -> Status] /\ settled \in [App -> BOOLEAN] /\ OneActive'
  BY DEF IInv, TypeOK, OneActive, dbVars
<1>2. queue[a] # "none" /\ tries' = [tries EXCEPT ![a] = tries[a]]
  BY CoroutineRuns
<1> QED
  BY <1>1, <1>2, CoroutineRuns, RowKeeps DEF dbVars

\* A coroutine that records s and ends, or works on if it is not settled.
LEMMA RecordStepKeeps ==
    ASSUME IInv, NEW a \in App, work[a].at # "none", NEW s \in Status, Record(a, s),
           UNCHANGED <<tries, pool, req>>, lost' \in BOOLEAN,
           NEW q \in {"queued", "running", "result"}, NEW c \in Coroutine, NEW n \in Nat,
           queue' = [queue EXCEPT ![a] = q], work' = [work EXCEPT ![a] = c],
           submits' = [submits EXCEPT ![a] = n],
           c.at # "none" <=> q = "running",
           c.at \in {"none", "done"} \/ (s # "applied" /\ ~settled[a]),
           n <= tries[a], n <= MaxTries, c.at \in {"loaded", "applying"} => n < tries[a]
    PROVE  IInv'
<1>1. queue[a] # "none" /\ tries' = [tries EXCEPT ![a] = tries[a]] /\ a \in rows
  BY CoroutineRuns
<1>2. /\ status' \in [App -> Status] /\ settled' \in [App -> BOOLEAN]
      /\ \A b \in App \ {a} : status'[b] = status[b] /\ settled'[b] = settled[b]
      /\ OneActive'
      /\ settled'[a] => status'[a] = "applied" /\ (s = "applied" \/ settled[a])
      /\ UNCHANGED <<rows, mode>>
  BY <1>1, RecordKeeps
<1> QED
  BY <1>1, <1>2, CoroutineRuns, RowKeeps

\* The coroutine of a has recorded s, and is done.
Recorded(a, s) ==
    /\ work[a].at # "none" /\ Record(a, s)
    /\ Step(a, [work[a] EXCEPT !.at = "done"])
    /\ UNCHANGED <<redisVars, req, submits, lost>>

LEMMA RecordedKeeps ==
    ASSUME IInv, NEW a \in App, NEW s \in Status, Recorded(a, s)
    PROVE  IInv'
<1> DEFINE c == [work[a] EXCEPT !.at = "done"]
<1>1. c \in Coroutine /\ c.at = "done" /\ work' = [work EXCEPT ![a] = c]
  BY CoroutineRuns DEF Coroutine, Recorded, Step
<1>2. /\ queue[a] = "running" /\ queue' = [queue EXCEPT ![a] = "running"]
      /\ submits' = [submits EXCEPT ![a] = submits[a]] /\ work[a].at # "none"
      /\ work[a].at \in {"loaded", "applying"} => submits[a] < tries[a]
      /\ submits[a] \in Nat /\ submits[a] <= tries[a] /\ submits[a] <= MaxTries
  BY CoroutineRuns DEF Recorded, redisVars
<1>3. lost' \in BOOLEAN /\ Record(a, s) /\ UNCHANGED <<tries, pool, req>>
  BY DEF IInv, TypeOK, Recorded, redisVars
<1> HIDE DEF c
<1>4. /\ a \in rows /\ tries' = [tries EXCEPT ![a] = tries[a]]
      /\ tries[a] \in 0..(MaxTries + 1) /\ tries[a] <= MaxTries
  BY <1>2, <1>3, CoroutineRuns
<1>5. /\ status' \in [App -> Status] /\ settled' \in [App -> BOOLEAN]
      /\ \A b \in App \ {a} : status'[b] = status[b] /\ settled'[b] = settled[b]
      /\ OneActive'
      /\ settled'[a] => status'[a] = "applied"
      /\ UNCHANGED <<rows, mode>>
  BY <1>3, <1>4, RecordKeeps
<1> QED
  BY <1>1, <1>2, <1>3, <1>4, <1>5, RowKeeps

LEMMA OutcomeKeeps ==
    ASSUME IInv, NEW a \in App, GateFails(a) \/ Succeeded(a) \/ Failed(a)
    PROVE  IInv'
<1>1. Recorded(a, "failed") \/ Recorded(a, "applied")
  BY DEF GateFails, Succeeded, Failed, Recorded
<1>2. "failed" \in Status /\ "applied" \in Status
  BY DEF Status, Terminal
<1> QED
  BY <1>1, <1>2, RecordedKeeps

LEMMA MarkApplyingKeeps ==
    ASSUME IInv, NEW a \in App, MarkApplying(a)
    PROVE  IInv'
<1> DEFINE c == IF Recordable(a, "applying")
                THEN [work[a] EXCEPT !.at = "applying", !.seen = "applying"]
                ELSE [work[a] EXCEPT !.at = "done"]
<1>1. c \in Coroutine /\ c.at \in {"applying", "done"} /\ work' = [work EXCEPT ![a] = c]
  BY CoroutineRuns DEF Coroutine, MarkApplying, Step, Status
<1>2. /\ work[a].at = "loaded" /\ queue[a] = "running"
      /\ queue' = [queue EXCEPT ![a] = "running"]
      /\ submits' = [submits EXCEPT ![a] = submits[a]] /\ submits[a] \in Nat
      /\ submits[a] < tries[a] /\ submits[a] <= tries[a] /\ submits[a] <= MaxTries
      /\ ~settled[a]
  BY CoroutineRuns DEF MarkApplying, redisVars
<1>3. lost' \in BOOLEAN /\ "applying" \in Status
  BY DEF IInv, TypeOK, MarkApplying, Status
<1> HIDE DEF c
<1> QED
  BY <1>1, <1>2, <1>3, RecordStepKeeps DEF MarkApplying, redisVars

LEMMA SubmitKeeps ==
    ASSUME IInv, NEW a \in App, Submit(a)
    PROVE  IInv'
<1>1. PICK report \in {"ok", "transient", "terminal"} :
        Step(a, [work[a] EXCEPT !.at = "answered", !.report = report])
  BY DEF Submit
<1> DEFINE c == [work[a] EXCEPT !.at = "answered", !.report = report]
<1>2. c \in Coroutine /\ c.at = "answered" /\ work' = [work EXCEPT ![a] = c]
  BY <1>1, CoroutineRuns DEF Coroutine, Step
<1>3. /\ work[a].at = "applying" /\ queue' = [queue EXCEPT ![a] = "running"]
      /\ submits' = [submits EXCEPT ![a] = submits[a] + 1]
      /\ submits[a] \in Nat /\ tries[a] \in Nat /\ MaxTries \in Nat
      /\ submits[a] < tries[a] /\ tries[a] <= MaxTries /\ ~settled[a]
  BY CoroutineRuns DEF Submit, redisVars
<1>4. lost' \in BOOLEAN
  BY DEF IInv, TypeOK, Submit
<1>5. submits[a] + 1 \in Nat /\ submits[a] + 1 <= tries[a] /\ submits[a] + 1 <= MaxTries
  BY <1>3
<1> DEFINE n == submits[a] + 1
<1> HIDE DEF c, n
<1> QED
  BY <1>2, <1>3, <1>4, <1>5, StepKeeps DEF Submit, redisVars

\* The job goes to the result or back to the queue, with the row as it is.
LEMMA JobLeavesKeeps ==
    ASSUME IInv, NEW a \in App, Retried(a) \/ Finished(a) \/ CutShort(a) \/ Killed(a)
    PROVE  IInv'
<1>1. work[a].at # "none" /\ UNCHANGED <<dbVars, tries, pool, req, settled>>
  BY DEF Retried, Finished, CutShort, Killed, historyVars
<1>2. lost' \in BOOLEAN /\ UNCHANGED submits
  BY DEF IInv, TypeOK, Retried, Finished, CutShort, Killed, historyVars
<1>3. PICK q \in {"queued", "result"} :
        queue' = [queue EXCEPT ![a] = q] /\ work' = [work EXCEPT ![a] = Resting]
  BY DEF Retried, Finished, CutShort, Killed, EndJob, Requeue, Step
<1> QED
  BY <1>1, <1>2, <1>3, CoroutineRuns, StepKeeps

LEMMA ResultExpiresKeeps ==
    ASSUME IInv, NEW a \in App, ResultExpires(a)
    PROVE  IInv'
<1>1. work[a].at = "none" /\ lost' \in BOOLEAN /\ UNCHANGED submits
  BY DEF IInv, TypeOK, Worked, ResultExpires, historyVars
<1>2. work' = [work EXCEPT ![a] = work[a]]
  BY DEF IInv, TypeOK, ResultExpires
<1> QED
  BY <1>1, <1>2, CoroutineRuns, StepKeeps DEF ResultExpires, historyVars

LEMMA CancelledKeeps ==
    ASSUME IInv, NEW a \in App, Cancelled(a)
    PROVE  IInv'
<1>1. PICK made \in {0, 1} : submits' = [submits EXCEPT ![a] = @ + made]
  BY DEF Cancelled
<1> DEFINE n == submits[a] + made
<1>2. /\ work[a].at = "applying" /\ ~settled[a] /\ n \in Nat /\ n <= tries[a]
      /\ n <= MaxTries /\ submits' = [submits EXCEPT ![a] = n]
  <2>1. /\ work[a].at = "applying" /\ ~settled[a] /\ MaxTries \in Nat
        /\ submits[a] \in Nat /\ tries[a] \in Nat
        /\ submits[a] < tries[a] /\ tries[a] <= MaxTries
    BY CoroutineRuns DEF Cancelled
  <2> QED
    BY <1>1, <2>1
<1>3. PICK q \in {"queued", "result"} :
        queue' = [queue EXCEPT ![a] = q] /\ work' = [work EXCEPT ![a] = Resting]
  BY DEF Cancelled, EndJob, Requeue, Step
<1>4. lost' \in BOOLEAN /\ "failed" \in Status /\ UNCHANGED <<tries, pool, req>>
  BY DEF IInv, TypeOK, Cancelled, Status, Terminal
<1> HIDE DEF n
<1>5. CASE Record(a, "failed")
  BY <1>2, <1>3, <1>4, <1>5, CoroutineRuns, RecordStepKeeps
<1>6. CASE UNCHANGED <<dbVars, settled>>
  BY <1>2, <1>3, <1>4, <1>6, CoroutineRuns, StepKeeps
<1> QED
  BY <1>5, <1>6 DEF Cancelled

-----------------------------------------------------------------------------
LEMMA InitHolds == Init => IInv
<1> SUFFICES ASSUME Init PROVE IInv
  OBVIOUS
<1>1. TypeOK
  <2>1. 0 \in 0..(MaxTries + 1)
    BY PipelineAssumption
  <2>2. "queued" \in Status /\ Idle \in Request /\ Resting \in Coroutine
    BY DEF Status, Request, Idle, Coroutine, Resting
  <2> QED
    BY <2>1, <2>2 DEF Init, TypeOK, Mode
<1>2. OneActive /\ Uninserted
  BY DEF Init, OneActive, Uninserted
<1>3. RequestsOnRows
  BY DEF Init, RequestsOnRows, OnRows, Idle
<1>4. \A a \in App : Worked(a) /\ Counted(a)
  BY PipelineAssumption DEF Init, Worked, Counted, Resting
<1> QED
  BY <1>1, <1>2, <1>3, <1>4 DEF IInv

LEMMA NextKeeps == IInv /\ [Next]_vars => IInv'
<1> SUFFICES ASSUME IInv, [Next]_vars PROVE IInv'
  OBVIOUS
<1>1. CASE UNCHANGED vars
  BY <1>1 DEF vars, dbVars, redisVars, historyVars, IInv, TypeOK, OneActive, Uninserted,
     RequestsOnRows, Worked, Counted
<1>2. ASSUME NEW r \in Req,
             \/ \E j \in Job, m \in Mode : Create(r, j, m)
             \/ \E js \in SUBSET Job \ {{}} : BatchRead(r, js)
             \/ \E s \in SUBSET rows \ {{}} : ApproveRead(r, s)
             \/ Continue(r) \/ RequestDies(r)
      PROVE  IInv'
  <2>1. ASSUME NEW j \in Job, NEW m \in Mode, Create(r, j, m) PROVE IInv'
    BY <2>1, CreateKeeps
  <2>2. ASSUME NEW js \in SUBSET Job, BatchRead(r, js) PROVE IInv'
    BY <2>2, BatchReadKeeps
  <2>3. ASSUME NEW s \in SUBSET rows, ApproveRead(r, s) PROVE IInv'
    BY <2>3, ApproveReadKeeps
  <2>4. CASE Continue(r)
    BY <2>4, BatchCommitKeeps, DispatchKeeps, EnqueueKeeps, ApproveCommitKeeps,
       EnqueueApprovedKeeps DEF Continue
  <2>5. CASE RequestDies(r)
    BY <2>5, IdleKeeps DEF RequestDies
  <2> QED
    BY <1>2, <2>1, <2>2, <2>3, <2>4, <2>5
<1>3. ASSUME NEW a \in App,
             \/ Worker(a) \/ ResultExpires(a) \/ Cancelled(a) \/ CutShort(a) \/ Killed(a)
             \/ \E s \in UserStatus : UpdateStatus(a, s)
      PROVE  IInv'
  <2>1. CASE Worker(a)
    BY <2>1, PickUpKeeps, OutcomeKeeps, MarkApplyingKeeps, SubmitKeeps, JobLeavesKeeps
       DEF Worker
  <2>2. CASE ResultExpires(a) \/ Cancelled(a) \/ CutShort(a) \/ Killed(a)
    BY <2>2, ResultExpiresKeeps, CancelledKeeps, JobLeavesKeeps
  <2>3. ASSUME NEW s \in UserStatus, UpdateStatus(a, s) PROVE IInv'
    BY <2>3, UpdateStatusKeeps
  <2> QED
    BY <1>3, <2>1, <2>2, <2>3
<1> QED
  BY <1>1, <1>2, <1>3 DEF Next

\* In every reachable state the invariant holds: the rows of a job are one active row
\* at most, a coroutine runs only for a running job, on a row that is not settled, and
\* its tries count its submissions.
THEOREM Invariance == Spec => []IInv
  BY InitHolds, NextKeeps, PTL DEF Spec

\* The type invariant of the pipeline (models/application.py, workers/tasks.py).
THEOREM TypeCorrect == Spec => []TypeOK
<1>1. IInv => TypeOK
  BY DEF IInv
<1> QED
  BY Invariance, <1>1, PTL

\* One enqueued job makes at most max_tries submissions, wherever its worker dies or
\* is cancelled (tasks.py, WorkerSettings).
THEOREM AttemptsAreBounded == Spec => []BoundedAttempts
<1>1. IInv => BoundedAttempts
  BY DEF IInv, Counted, BoundedAttempts
<1> QED
  BY Invariance, <1>1, PTL

\* A redelivered job whose row the worker has committed APPLIED submits no more
\* (_apply's idempotency check).
THEOREM CompletedStays == Spec => []CompletedNotResubmitted
<1>1. IInv => CompletedNotResubmitted
  BY DEF IInv, Worked, CompletedNotResubmitted
<1> QED
  BY Invariance, <1>1, PTL

\* Of the applications to a job the worker records at most one APPLIED, whatever is
\* withdrawn, created, approved and pushed meanwhile (uq_app_active_job).
THEOREM OneApplied == Spec => []OneAppliedPerJob
<1>1. IInv => OneAppliedPerJob
  BY DEF IInv, Worked, Uninserted, OneActive, OneAppliedPerJob, Terminal
<1> QED
  BY Invariance, <1>1, PTL
=============================================================================
