--------------------------- MODULE Submission_proofs ---------------------------
(***************************************************************************)
(* The row lock of approve_and_submit makes approvals single-use for every *)
(* number of requests, runs, packages and approvals: the live submission   *)
(* implements the approval ledger.                                         *)
(***************************************************************************)
EXTENDS Submission, SequenceTheorems, TLAPS

\* A session that is going to use its approval: nobody else is.
Holding(s) == s.at \in {"locked", "execute", "browser"}

\* What a session relies on is true of the rows as they are now.
Sound(s) ==
    /\ s.at \in {"approve", "grant", "answer"} => s.run \in 1..Len(runs)
    /\ s.at = "locked" => s.appr \in granted /\ ~used[s.appr]
    /\ s.at \in {"execute", "browser"} =>
           /\ s.appr \in granted /\ used[s.appr]
           /\ clicks[s.appr] = 0 /\ s.run = forRun[s.appr]
    /\ s.at \in {"execute", "browser", "answered"} => s.own \in 1..Len(runs)
    /\ s.at = "answered" => s.report # "none"
    /\ s.at \in {"mail", "mailing"} => s.appr \in granted /\ forHash[s.appr] # NoHash

SessionsSound == \A r \in Req : Sound(req[r])

Exclusive ==
    \A r, q \in Req : r # q /\ Holding(req[r]) /\ Holding(req[q]) =>
        req[r].appr # req[q].appr

NonEmpty == Len(runs) \in Nat \ {0}

Approvals ==
    /\ \A a \in granted : forRun[a] \in 1..Len(runs)
    /\ \A a \in ApprId \ granted : forRun[a] = 0 /\ ~used[a]
    /\ \A a \in ApprId : ~used[a] => clicks[a] = 0
    /\ \A i \in 1..Len(runs) : runs[i].appr \in granted \cup {NoAppr}

IInv ==
    /\ TypeOK
    /\ SessionsSound
    /\ Exclusive
    /\ NonEmpty
    /\ Approvals
    /\ SpentIsAccounted

-----------------------------------------------------------------------------
(* Facts about rows and sessions.                                          *)

\* A request that has ended relies on nothing.
LEMMA IdleFits == Idle \in Session /\ Sound(Idle) /\ ~Holding(Idle)
  BY SubmissionAssumption DEF Idle, Session, Sound, Holding, Questions

\* INSERT of a run.
LEMMA RunAppended ==
    ASSUME IInv, NEW row \in RunRow, runs' = Append(runs, row)
    PROVE  /\ runs' \in Seq(RunRow) /\ Len(runs') = Len(runs) + 1
           /\ \A i \in 1..Len(runs) : runs'[i] = runs[i]
           /\ runs'[Len(runs) + 1] = row
           /\ Len(runs) \in Nat
<1>1. runs \in Seq(RunRow)
  BY DEF IInv, TypeOK
<1> QED
  BY <1>1, AppendProperties, LenProperties

\* UPDATE of a run, whose approval stays what it is.
LEMMA RunUpdated ==
    ASSUME IInv, NEW i \in 1..Len(runs), NEW row \in RunRow, row.appr = runs[i].appr,
           runs' = [runs EXCEPT ![i] = row]
    PROVE  /\ runs' \in Seq(RunRow) /\ Len(runs') = Len(runs)
           /\ \A j \in 1..Len(runs) : runs'[j].appr = runs[j].appr
<1>1. runs \in Seq(RunRow)
  BY DEF IInv, TypeOK
<1> QED
  BY <1>1, ExceptSeq

\* A completed run is added to those the lookups order by completed_at.
LEMMA EndedAppended ==
    ASSUME IInv, NEW i \in 1..Len(runs), ended' = Append(ended, i)
    PROVE  ended' \in Seq(1..MaxRuns)
<1>1. ended \in Seq(1..MaxRuns) /\ i \in 1..MaxRuns /\ runs \in Seq(RunRow)
  BY SubmissionAssumption, LenProperties DEF IInv, TypeOK
<1> QED
  BY <1>1, AppendProperties

\* However a session writes the status, it is one of the application.
LEMMA WriteTyped ==
    ASSUME IInv, NEW loaded, NEW new \in Status,
           Write(loaded, new) \/ Overwrite(new) \/ Turn(new)
    PROVE  status' \in Status /\ excused' \in BOOLEAN
  BY DEF IInv, TypeOK, Write, Overwrite, Turn, Flush

\* Rows are only added, and none of them belongs to a submission.
LEMMA SameSubmissions ==
    ASSUME IInv, runs' \in Seq(RunRow), Len(runs') \in Len(runs)..MaxRuns,
           \A i \in 1..Len(runs) : runs'[i].appr = runs[i].appr,
           \A i \in 1..Len(runs') : i > Len(runs) => runs'[i].appr = NoAppr
    PROVE  /\ \A i \in 1..Len(runs') : runs'[i].appr \in granted \cup {NoAppr}
           /\ \A a \in ApprId : (\E i \in DOMAIN runs : runs[i].appr = a)
                            <=> (\E i \in DOMAIN runs' : runs'[i].appr = a)
<1>1. /\ DOMAIN runs = 1..Len(runs) /\ DOMAIN runs' = 1..Len(runs')
      /\ Len(runs) \in Nat /\ Len(runs') \in Nat
  BY LenProperties DEF IInv, TypeOK
<1>2. \A i \in 1..Len(runs) : i \in 1..Len(runs')
  BY <1>1, SubmissionAssumption
<1>3. \A i \in 1..Len(runs') : i \in 1..Len(runs) \/ runs'[i].appr = NoAppr
  BY <1>1
<1>4. \A i \in 1..Len(runs') : runs'[i].appr \in granted \cup {NoAppr}
  BY <1>3 DEF IInv, Approvals
<1>5. ASSUME NEW a \in ApprId
      PROVE  (\E i \in 1..Len(runs) : runs[i].appr = a)
         <=> (\E i \in 1..Len(runs') : runs'[i].appr = a)
  BY <1>2, <1>3, SubmissionAssumption
<1> QED
  BY <1>1, <1>4, <1>5

\* Request r goes on with session s, or none does.
Moved(r, s) == req' = [req EXCEPT ![r] = s]

\* Steps that change no approval: they keep the invariant if the runs keep their
\* approvals and no session takes hold of an approval that another one holds.
LEMMA FlowKeeps ==
    ASSUME IInv,
           \/ UNCHANGED req
           \/ \E r \in Req, s \in Session :
                /\ Moved(r, s) /\ Sound(s)
                /\ Holding(s) =>
                       \A q \in Req \ {r} : Holding(req[q]) => req[q].appr # s.appr,
           status' \in Status, excused' \in BOOLEAN,
           package' \in HashVal \cup {NoHash}, lost' \subseteq 1..MaxRuns,
           runs' \in Seq(RunRow), Len(runs') \in Len(runs)..MaxRuns,
           \A i \in 1..Len(runs) : runs'[i].appr = runs[i].appr,
           \A i \in 1..Len(runs') : i > Len(runs) => runs'[i].appr = NoAppr,
           ended' \in Seq(1..MaxRuns), UNCHANGED <<approvalVars, clicks>>
    PROVE  IInv'
<1> USE DEF approvalVars
<1>0. Len(runs) \in Nat /\ Len(runs') \in Nat /\ req \in [Req -> Session]
  BY LenProperties DEF IInv, TypeOK
<1>1. TypeOK'
  <2>1. req' \in [Req -> Session]
    BY <1>0 DEF Moved
  <2>2. Len(runs') <= MaxRuns
    BY <1>0, SubmissionAssumption
  <2> QED
    BY <2>1, <2>2 DEF IInv, TypeOK
<1>2. \A s \in Session : Sound(s) => Sound(s)'
  BY <1>0 DEF Sound
<1>3. SessionsSound' /\ Exclusive'
  <2>1. CASE UNCHANGED req
    BY <2>1, <1>0, <1>2 DEF IInv, SessionsSound, Exclusive, Sound
  <2>2. ASSUME NEW r \in Req, NEW s \in Session, Moved(r, s), Sound(s),
               Holding(s) =>
                   \A q \in Req \ {r} : Holding(req[q]) => req[q].appr # s.appr
        PROVE  SessionsSound' /\ Exclusive'
    <3>1. req'[r] = s /\ \A q \in Req : q # r => req'[q] = req[q]
      BY <1>0, <2>2 DEF Moved
    <3>2. \A q \in Req : Sound(req'[q])
      BY <3>1, <2>2 DEF IInv, SessionsSound
    <3>3. SessionsSound'
      BY <1>0, <3>2 DEF SessionsSound, Sound
    <3>4. Exclusive'
      BY <3>1, <2>2 DEF IInv, Exclusive, Holding
    <3> QED
      BY <3>3, <3>4
  <2> QED
    BY <2>1, <2>2
<1>4. Approvals' /\ NonEmpty'
  BY <1>0 DEF IInv, Approvals, NonEmpty
<1>5. SpentIsAccounted'
  BY SameSubmissions DEF IInv, SpentIsAccounted, TypeOK
<1> QED
  BY <1>1, <1>3, <1>4, <1>5 DEF IInv

-----------------------------------------------------------------------------
(* Steps that only move a session.                                         *)

\* A step that moves one session and writes no row but the application's.
LEMMA MoveKeeps ==
    ASSUME IInv, NEW r \in Req, NEW s \in Session, Moved(r, s), Sound(s),
           Holding(s) => \A q \in Req \ {r} : Holding(req[q]) => req[q].appr # s.appr,
           lost' \subseteq 1..MaxRuns, status' \in Status, excused' \in BOOLEAN,
           UNCHANGED <<runs, ended, approvalVars, package, clicks>>
    PROVE  IInv'
<1>1. /\ package \in HashVal \cup {NoHash}
      /\ runs \in Seq(RunRow) /\ Len(runs) \in Len(runs)..MaxRuns
      /\ ended \in Seq(1..MaxRuns)
  BY LenProperties DEF IInv, TypeOK
<1>2. \A i \in 1..Len(runs) : ~(i > Len(runs))
  BY <1>1
<1> QED
  BY <1>1, <1>2, FlowKeeps

\* What a request loads first is true of the rows at that moment.
LEMMA BeginKeeps ==
    ASSUME IInv, NEW r \in Req, Begin(r)
    PROVE  IInv'
<1>1. /\ status \in Status /\ Len(runs) \in Nat /\ runs \in Seq(RunRow)
      /\ Len(runs) <= MaxRuns /\ ended \in Seq(1..MaxRuns) /\ Len(ended) \in Nat
      /\ lost \subseteq 1..MaxRuns /\ excused \in BOOLEAN
      /\ \A values : Seen(values) \in Status \cup {"none"}
  BY LenProperties DEF IInv, TypeOK, Seen
<1>2. UNCHANGED <<status, excused, runs, ended, approvalVars, package, historyVars>>
  BY DEF Begin, PrepareRead, AnswerRead, ApproveRead, SubmitRead, SendRead
<1>3. \E s \in Session : Moved(r, s) /\ Sound(s) /\ ~Holding(s)
  <2>1. CASE PrepareRead(r)
    <3> DEFINE s == [Idle EXCEPT !.at = "prepare", !.seen = Seen({"preparing"})]
    <3>1. Moved(r, s)
      BY <2>1 DEF PrepareRead, Goto, Moved
    <3>2. s \in Session /\ s.at = "prepare"
      BY <1>1, IdleFits DEF Session, Idle
    <3> QED
      BY <3>1, <3>2 DEF Sound, Holding
  <2>2. CASE AnswerRead(r)
    <3>1. PICK row \in RunRow : row = Last(runs)
      BY <1>1 DEF IInv, NonEmpty, Last
    <3> DEFINE s == [Idle EXCEPT !.at = "answer", !.run = Len(runs),
                                 !.questions = row.questions]
    <3>2. Moved(r, s)
      BY <2>2, <3>1 DEF AnswerRead, Goto, Moved
    <3>3. Len(runs) \in 1..MaxRuns
      BY <1>1, SubmissionAssumption DEF IInv, NonEmpty
    <3>4. Len(runs) \in 1..Len(runs) /\ Len(runs) \in 0..MaxRuns /\ row.questions \in Questions
      BY <3>1, <3>3, SubmissionAssumption DEF RunRow
    <3>5. s \in Session /\ s.at = "answer" /\ s.run = Len(runs)
      BY <3>4, IdleFits DEF Session, Idle
    <3> HIDE DEF s
    <3> QED
      BY <3>2, <3>4, <3>5 DEF Sound, Holding
  <2>3. CASE ApproveRead(r)
    <3>2. PICK run \in LatestCompleted : Moved(r, [Idle EXCEPT !.at = "approve", !.run = run])
      BY <2>3 DEF ApproveRead, Goto, Moved
    <3>1. run \in 1..Len(runs)
      BY <1>1, LenProperties DEF LatestCompleted
    <3> DEFINE s == [Idle EXCEPT !.at = "approve", !.run = run]
    <3>3. Moved(r, s)
      BY <3>2
    <3>4. run \in 0..MaxRuns
      BY <1>1, <3>1, SubmissionAssumption
    <3>5. s \in Session /\ s.at = "approve" /\ s.run = run
      BY <3>4, IdleFits DEF Session, Idle
    <3> HIDE DEF s
    <3> QED
      BY <3>1, <3>3, <3>5 DEF Sound, Holding
  <2>4. CASE SubmitRead(r)
    <3> DEFINE s == [Idle EXCEPT !.at = "submit"]
    <3>1. Moved(r, s)
      BY <2>4 DEF SubmitRead, Goto, Moved
    <3>2. s \in Session /\ s.at = "submit"
      BY <1>1, IdleFits DEF Session, Idle
    <3> QED
      BY <3>1, <3>2 DEF Sound, Holding
  <2>5. CASE SendRead(r)
    <3> DEFINE seen == Seen({"submitting"} \cup Settled)
    <3>1. PICK a \in ApprId :
            /\ ForPackage = {a} /\ package # NoHash
            /\ Moved(r, [Idle EXCEPT !.at = "mail", !.appr = a, !.seen = seen])
      BY <2>5 DEF SendRead, Goto, Moved
    <3> DEFINE s == [Idle EXCEPT !.at = "mail", !.appr = a, !.seen = seen]
    <3>2. s \in Session /\ s.at = "mail" /\ s.appr = a
      BY <1>1, IdleFits DEF Session, Idle
    <3>3. a \in granted /\ forHash[a] # NoHash
      BY <3>1 DEF ForPackage, Live
    <3> HIDE DEF s
    <3>4. Moved(r, s)
      BY <3>1 DEF s
    <3> QED
      BY <3>2, <3>3, <3>4 DEF Sound, Holding
  <2> QED
    BY <2>1, <2>2, <2>3, <2>4, <2>5 DEF Begin
<1> QED
  BY <1>1, <1>2, <1>3, MoveKeeps DEF historyVars

\* Steps of a request that write no row of the database.
Moves(r) ==
    \/ ApproveLookup(r) \/ SubmitLock(r) \/ SubmitRefused(r) \/ ExecuteLoad(r)
    \/ BrowserGivesUp(r) \/ SendRefused(r) \/ Crash(r)

\* The row lock decides here: whoever passes SubmitLock finds the approval unused,
\* and nobody else can be holding it.
LEMMA MovesKeep ==
    ASSUME IInv, NEW r \in Req, Moves(r)
    PROVE  IInv'
<1> DEFINE Fits(s) == /\ s \in Session /\ Moved(r, s) /\ Sound(s)
                      /\ Holding(s) =>
                           \A q \in Req \ {r} : Holding(req[q]) => req[q].appr # s.appr
<1>1. /\ req[r] \in Session /\ Sound(req[r]) /\ package \in HashVal \cup {NoHash}
      /\ lost \subseteq 1..MaxRuns /\ used \in [ApprId -> BOOLEAN] /\ runs \in Seq(RunRow)
      /\ granted \subseteq ApprId
  BY DEF IInv, TypeOK, SessionsSound
<1>2. /\ UNCHANGED <<status, runs, ended, approvalVars, package, clicks>>
      /\ status' \in Status /\ excused' \in BOOLEAN
  BY DEF Moves, ApproveLookup, SubmitLock, SubmitRefused, ExecuteLoad, BrowserGivesUp,
         SendRefused, Crash, historyVars, IInv, TypeOK
<1>3. lost' \subseteq 1..MaxRuns
  <2>1. req[r].own \in 0..MaxRuns
    BY <1>1 DEF Session
  <2>2. (1..MaxRuns) \cup ({req[r].own} \ {0}) \subseteq 1..MaxRuns
    BY <2>1, SubmissionAssumption
  <2>3. UNCHANGED lost \/ lost' = lost \cup ({req[r].own} \ {0})
    BY DEF Moves, ApproveLookup, SubmitLock, SubmitRefused, ExecuteLoad, BrowserGivesUp,
           SendRefused, Crash, historyVars
  <2> QED
    BY <1>1, <2>2, <2>3
<1>4. CASE Finish(r)
  BY <1>2, <1>3, <1>4, IdleFits, MoveKeeps DEF Finish, Goto, Moved
<1>5. CASE ApproveLookup(r) /\ ~Finish(r)
  <2> DEFINE s == [req[r] EXCEPT !.at = "grant"]
  <2>1. Moved(r, s) /\ req[r].at = "approve"
    BY <1>5 DEF ApproveLookup, Goto, Moved, At
  <2>2. s \in Session /\ s.at = "grant" /\ s.run = req[r].run
    BY <1>1 DEF Session
  <2> HIDE DEF s
  <2>3. Fits(s)
    BY <1>1, <2>1, <2>2 DEF Sound, Holding
  <2> QED
    BY <1>2, <1>3, <2>3, MoveKeeps
<1>6. CASE SubmitLock(r)
  <2>1. PICK a \in ApprId :
          /\ Live = {a} /\ Unlocked(a)
          /\ Moved(r, [req[r] EXCEPT !.at = "locked", !.appr = a])
    BY <1>6 DEF SubmitLock, Goto, Moved
  <2> DEFINE s == [req[r] EXCEPT !.at = "locked", !.appr = a]
  <2>2. s \in Session /\ s.at = "locked" /\ s.appr = a
    BY <1>1 DEF Session
  <2>3. a \in granted /\ ~used[a]
    BY <2>1 DEF Live
  <2>4. ASSUME NEW q \in Req, Holding(req[q])
        PROVE  req[q].appr # a
    BY <2>1, <2>3, <2>4 DEF IInv, SessionsSound, Sound, Holding, Unlocked, At
  <2> HIDE DEF s
  <2>5. Fits(s)
    BY <2>1, <2>2, <2>3, <2>4 DEF Sound, s
  <2> QED
    BY <1>2, <1>3, <2>5, MoveKeeps
<1>7. CASE ExecuteLoad(r) \/ BrowserGivesUp(r)
  <2>1. /\ req[r].at \in {"execute", "browser"} /\ req[r].own \in 1..Len(runs)
        /\ req[r].appr \in granted /\ used[req[r].appr]
        /\ clicks[req[r].appr] = 0 /\ req[r].run = forRun[req[r].appr]
    BY <1>1, <1>7 DEF ExecuteLoad, BrowserGivesUp, At, Sound
  <2>2. runs[req[r].run].questions \in Questions
    <3>1. req[r].run \in 1..Len(runs)
      BY <2>1 DEF IInv, Approvals
    <3>2. runs[req[r].run] \in RunRow
      BY <1>1, <3>1, ElementOfSeq
    <3> QED
      BY <3>2 DEF RunRow
  <2>3. CASE Prepared(runs[req[r].run].questions) /\
             Goto(r, [req[r] EXCEPT !.at = "browser",
                                    !.questions = runs[req[r].run].questions])
    <3> DEFINE s == [req[r] EXCEPT !.at = "browser",
                                   !.questions = runs[req[r].run].questions]
    <3>1. Moved(r, s)
      BY <2>3 DEF Goto, Moved
    <3>2. /\ s \in Session /\ s.at = "browser" /\ s.run = req[r].run
          /\ s.own = req[r].own /\ s.appr = req[r].appr
      BY <1>1, <2>2 DEF Session
    <3>3. \A q \in Req \ {r} : Holding(req[q]) => req[q].appr # req[r].appr
      BY <2>1 DEF IInv, Exclusive, Holding
    <3> HIDE DEF s
    <3>4. Fits(s)
      BY <2>1, <3>1, <3>2, <3>3 DEF Sound
    <3> QED
      BY <1>2, <1>3, <3>4, MoveKeeps
  <2>4. CASE Goto(r, [req[r] EXCEPT !.at = "answered", !.report = "error"])
    <3> DEFINE s == [req[r] EXCEPT !.at = "answered", !.report = "error"]
    <3>1. Moved(r, s)
      BY <2>4 DEF Goto, Moved
    <3>2. /\ s \in Session /\ s.at = "answered" /\ s.own = req[r].own
          /\ s.report = "error"
      BY <1>1 DEF Session
    <3> HIDE DEF s
    <3>3. Fits(s)
      BY <2>1, <3>1, <3>2 DEF Sound, Holding
    <3> QED
      BY <1>2, <1>3, <3>3, MoveKeeps
  <2> QED
    BY <1>7, <2>3, <2>4 DEF ExecuteLoad, BrowserGivesUp
<1> QED
  BY <1>4, <1>5, <1>6, <1>7 DEF Moves, SubmitRefused, SendRefused, Crash

-----------------------------------------------------------------------------
(* Steps that write runs, the status or the package, and no approval.      *)

\* UPDATE of one run by a request that ends, or by the background task.
LEMMA UpdateKeeps ==
    ASSUME IInv, UNCHANGED req \/ (\E r \in Req : Finish(r)),
           NEW i \in 1..Len(runs), NEW row \in RunRow, row.appr = runs[i].appr,
           runs' = [runs EXCEPT ![i] = row],
           ended' = ended \/ ended' = Append(ended, i),
           status' \in Status, excused' \in BOOLEAN,
           UNCHANGED <<approvalVars, package, historyVars>>
    PROVE  IInv'
<1>1. /\ runs' \in Seq(RunRow) /\ Len(runs') = Len(runs)
      /\ \A j \in 1..Len(runs) : runs'[j].appr = runs[j].appr
  BY RunUpdated
<1>2. ended' \in Seq(1..MaxRuns)
  BY EndedAppended DEF IInv, TypeOK
<1>3. UNCHANGED req \/ \E r \in Req : Moved(r, Idle)
  BY DEF Finish, Goto, Moved
<1>4. /\ package' \in HashVal \cup {NoHash} /\ lost' \subseteq 1..MaxRuns
      /\ Len(runs) \in Nat /\ Len(runs) <= MaxRuns
      /\ UNCHANGED <<approvalVars, clicks>>
  BY LenProperties DEF IInv, TypeOK, historyVars
<1>5. Len(runs') \in Len(runs)..MaxRuns /\ \A j \in 1..Len(runs') : ~(j > Len(runs))
  BY <1>1, <1>4, SubmissionAssumption
<1> QED
  BY <1>1, <1>2, <1>3, <1>4, <1>5, IdleFits, FlowKeeps

\* The INSERT of prepare_application binds no approval.
LEMMA PrepareCommitKeeps ==
    ASSUME IInv, NEW r \in Req, PrepareCommit(r)
    PROVE  IInv'
<1> DEFINE row == [state |-> "running", questions |-> "none", appr |-> NoAppr]
<1>1. row \in RunRow /\ row.appr = NoAppr
  BY DEF RunRow, Questions
<1>2. /\ Len(runs) < MaxRuns /\ runs' = Append(runs, row) /\ Moved(r, Idle)
      /\ UNCHANGED <<ended, approvalVars, package, historyVars>>
  BY DEF PrepareCommit, Finish, Goto, Moved
<1>3. status' \in Status /\ excused' \in BOOLEAN
  BY WriteTyped DEF PrepareCommit, Status
<1> HIDE DEF row
<1>4. /\ runs' \in Seq(RunRow) /\ Len(runs') = Len(runs) + 1
      /\ \A i \in 1..Len(runs) : runs'[i] = runs[i]
      /\ runs'[Len(runs) + 1] = row /\ Len(runs) \in Nat
  BY <1>1, <1>2, RunAppended
<1>5. /\ Len(runs') \in Len(runs)..MaxRuns
      /\ \A i \in 1..Len(runs') : i > Len(runs) => runs'[i].appr = NoAppr
  BY <1>1, <1>2, <1>4, SubmissionAssumption
<1>6. /\ ended' \in Seq(1..MaxRuns) /\ lost' \subseteq 1..MaxRuns
      /\ package' \in HashVal \cup {NoHash} /\ UNCHANGED clicks
  BY <1>2 DEF IInv, TypeOK, historyVars
<1> QED
  BY <1>2, <1>3, <1>4, <1>5, <1>6, IdleFits, FlowKeeps

\* Answers are written back into the run that was loaded.
LEMMA AnswerCommitKeeps ==
    ASSUME IInv, NEW r \in Req, AnswerCommit(r)
    PROVE  IInv'
<1> DEFINE i == req[r].run
<1>1. /\ req[r] \in Session /\ Sound(req[r]) /\ At(r, "answer")
      /\ runs \in Seq(RunRow) /\ status \in Status /\ excused \in BOOLEAN
  BY DEF IInv, TypeOK, SessionsSound, AnswerCommit
<1>2. i \in 1..Len(runs) /\ req[r].questions \in Questions
  BY <1>1 DEF Sound, At, Session
<1>3. runs[i] \in RunRow
  BY <1>1, <1>2, ElementOfSeq
<1>4. PICK q \in {"complete", req[r].questions} :
        runs' = [runs EXCEPT ![i] = [runs[i] EXCEPT !.questions = q]]
  BY <1>1, <1>2 DEF AnswerCommit
<1> DEFINE row == [runs[i] EXCEPT !.questions = q]
<1>5. row \in RunRow /\ row.appr = runs[i].appr
  BY <1>2, <1>3, <1>4 DEF RunRow, Questions
<1>6. /\ Finish(r) /\ UNCHANGED <<status, excused, ended, approvalVars, package, historyVars>>
      /\ runs' = [runs EXCEPT ![i] = row]
  BY <1>4 DEF AnswerCommit
<1> HIDE DEF row, i
<1> QED
  BY <1>1, <1>2, <1>5, <1>6, UpdateKeeps

\* The outcome is written into the session's own submission run.
LEMMA ExecuteRecordKeeps ==
    ASSUME IInv, NEW r \in Req, ExecuteRecord(r)
    PROVE  IInv'
<1> DEFINE i == req[r].own
           new == Outcome(req[r].report)
<1>1. /\ req[r] \in Session /\ Sound(req[r]) /\ At(r, "answered") /\ runs \in Seq(RunRow)
  BY DEF IInv, TypeOK, SessionsSound, ExecuteRecord
<1>2. i \in 1..Len(runs) /\ req[r].report \in {"ok", "unconfirmed", "error"}
  BY <1>1 DEF Sound, At, Session
<1>3. runs[i] \in RunRow
  BY <1>1, <1>2, ElementOfSeq
<1>4. new.run \in {"completed", "unknown", "failed"} /\ new.app \in Status
  BY <1>2 DEF Outcome, Status
<1> DEFINE row == [runs[i] EXCEPT !.state = new.run]
<1>5. row \in RunRow /\ row.appr = runs[i].appr
  BY <1>3, <1>4 DEF RunRow
<1>6. /\ Finish(r) /\ UNCHANGED <<approvalVars, package, historyVars>>
      /\ Overwrite(new.app) /\ (ended' = ended \/ ended' = Append(ended, i))
      /\ runs' = [runs EXCEPT ![i].state = new.run]
  BY DEF ExecuteRecord
<1>8. status' \in Status /\ excused' \in BOOLEAN
  BY <1>4, <1>6, WriteTyped
<1>7. runs' = [runs EXCEPT ![i] = row]
  BY <1>6
<1> HIDE DEF row, i, new
<1> QED
  BY <1>2, <1>5, <1>6, <1>7, <1>8, UpdateKeeps

\* The background task ends a preparation, in either way.
LEMMA PreparationKeeps ==
    ASSUME IInv, NEW i \in 1..Len(runs),
           PrepareFails(i) \/ \E q \in {"open", "complete"} : PrepareDone(i, q)
    PROVE  IInv'
<1>1. runs[i] \in RunRow
  BY ElementOfSeq DEF IInv, TypeOK
<1>2. CASE PrepareFails(i)
  <2> DEFINE row == [runs[i] EXCEPT !.state = "failed"]
  <2>1. row \in RunRow /\ row.appr = runs[i].appr
    BY <1>1 DEF RunRow
  <2>2. runs' = [runs EXCEPT ![i] = row] /\ status' \in Status /\ excused' \in BOOLEAN
    BY <1>2, WriteTyped DEF PrepareFails, Status
  <2> HIDE DEF row
  <2> QED
    BY <1>2, <2>1, <2>2, UpdateKeeps DEF PrepareFails
<1>3. CASE \E q \in {"open", "complete"} : PrepareDone(i, q)
  <2>1. PICK q \in {"open", "complete"} : PrepareDone(i, q)
    BY <1>3
  <2> DEFINE row == [runs[i] EXCEPT !.state = "completed", !.questions = q]
  <2>2. row \in RunRow /\ row.appr = runs[i].appr
    BY <1>1, <2>1 DEF RunRow, Questions
  <2>3. runs' = [runs EXCEPT ![i] = row] /\ status' \in Status /\ excused' \in BOOLEAN
    BY <2>1, WriteTyped DEF PrepareDone, Status
  <2> HIDE DEF row
  <2> QED
    BY <2>1, <2>2, <2>3, UpdateKeeps DEF PrepareDone
<1> QED
  BY <1>2, <1>3

\* Edits and status writes of other components touch neither runs nor approvals.
LEMMA OutsideKeeps ==
    ASSUME IInv,
           \/ PackageReapproved
           \/ \E h \in HashVal : PackageStored(h)
           \/ \E s \in OtherStatus : StatusWrittenElsewhere(s)
           \/ UNCHANGED vars
    PROVE  IInv'
<1>1. UNCHANGED <<runs, ended, req, lost, clicks, approvalVars>>
  BY DEF PackageReapproved, PackageStored, StatusWrittenElsewhere, historyVars, vars,
         approvalVars
<1>2. status' \in Status /\ excused' \in BOOLEAN /\ package' \in HashVal \cup {NoHash}
  <2>1. status \in Status /\ excused \in BOOLEAN /\ package \in HashVal \cup {NoHash}
    BY DEF IInv, TypeOK
  <2>2. CASE PackageReapproved
    BY <2>1, <2>2, WriteTyped DEF PackageReapproved, Status
  <2>3. ASSUME NEW h \in HashVal, PackageStored(h)
        PROVE  status' \in Status /\ excused' \in BOOLEAN /\ package' \in HashVal \cup {NoHash}
    <3>1. PICK new \in {status, "pending_review"} : Turn(new)
      BY <2>3 DEF PackageStored
    <3>2. new \in Status
      BY <2>1 DEF Status
    <3> QED
      BY <2>3, <3>1, <3>2, WriteTyped DEF PackageStored
  <2>4. ASSUME NEW s \in OtherStatus, StatusWrittenElsewhere(s)
        PROVE  status' \in Status /\ excused' \in BOOLEAN /\ package' \in HashVal \cup {NoHash}
    BY <2>1, <2>4, OtherAssumption DEF StatusWrittenElsewhere
  <2>5. CASE UNCHANGED vars
    BY <2>1, <2>5 DEF vars
  <2> QED
    BY <2>2, <2>3, <2>4, <2>5
<1>3. Len(runs) \in Nat /\ Len(runs) <= MaxRuns /\ runs \in Seq(RunRow)
  BY LenProperties DEF IInv, TypeOK
<1>4. /\ Len(runs) \in Len(runs)..MaxRuns /\ \A i \in 1..Len(runs) : ~(i > Len(runs))
  BY <1>3, SubmissionAssumption
<1>5. ended' \in Seq(1..MaxRuns) /\ lost' \subseteq 1..MaxRuns
  BY <1>1 DEF IInv, TypeOK
<1> QED
  BY <1>1, <1>2, <1>3, <1>4, <1>5, FlowKeeps

-----------------------------------------------------------------------------
(* Steps that change approvals.                                            *)

\* Nothing the sessions rely on depends on expires_at once the lookup is passed.
LEMMA ExpireKeeps ==
    ASSUME IInv, NEW a \in ApprId, Expire(a)
    PROVE  IInv'
<1>1. expired' \in [ApprId -> BOOLEAN]
  BY DEF Expire, IInv, TypeOK
<1>2. UNCHANGED <<status, excused, runs, ended, granted, forRun, forHash, used, package, req,
                  clicks, lost>>
  BY DEF Expire, historyVars
<1> QED
  BY <1>1, <1>2 DEF IInv, TypeOK, SessionsSound, Sound, Exclusive, NonEmpty, Approvals,
                    SpentIsAccounted

\* The row lock: no session that has passed the lookup is waiting to spend it.
LEMMA SendCommitKeeps ==
    ASSUME IInv, NEW r \in Req, SendCommit(r)
    PROVE  IInv'
<1> DEFINE a == req[r].appr
           new == IF req[r].seen \in Settled THEN req[r].seen ELSE "submitting"
           s == [req[r] EXCEPT !.at = "mailing", !.seen = new]
<1>0. /\ req \in [Req -> Session] /\ req[r] \in Session /\ Sound(req[r])
      /\ req[r].at = "mail" /\ granted \subseteq ApprId /\ used \in [ApprId -> BOOLEAN]
  BY DEF IInv, TypeOK, SessionsSound, SendCommit, At
<1>1. /\ a \in granted /\ a \in ApprId /\ forHash[a] # NoHash
      /\ \A q \in Req : req[q].at = "locked" => req[q].appr # a
  BY <1>0 DEF Sound, SendCommit, Unlocked, At
<1>2. /\ used' = [used EXCEPT ![a] = TRUE] /\ req' = [req EXCEPT ![r] = s]
      /\ Write(req[r].seen, new)
      /\ UNCHANGED <<runs, ended, granted, forRun, forHash, expired, package, clicks, lost>>
  BY DEF SendCommit, Goto, historyVars
<1>3. /\ used' \in [ApprId -> BOOLEAN] /\ used'[a]
      /\ \A b \in ApprId : b # a => used'[b] = used[b]
  BY <1>0, <1>1, <1>2
<1>4. new \in Status
  BY DEF Settled, Status
<1>5. /\ s \in Session /\ s.at = "mailing" /\ s.appr = a
  BY <1>0, <1>4 DEF Session
<1>6. status' \in Status /\ excused' \in BOOLEAN
  BY <1>2, <1>4, WriteTyped
<1> HIDE DEF s, new
<1>7. /\ req' \in [Req -> Session] /\ req'[r] = s
      /\ \A q \in Req : q # r => req'[q] = req[q]
  BY <1>0, <1>2, <1>5
<1>8. TypeOK'
  BY <1>2, <1>3, <1>6, <1>7 DEF IInv, TypeOK
<1>9. SessionsSound'
  <2>1. Sound(req[r])'
    BY <1>1, <1>2, <1>5, <1>7 DEF Sound
  <2>2. ASSUME NEW q \in Req, q # r
        PROVE  Sound(req[q])'
    <3>1. Sound(req[q]) /\ req'[q] = req[q]
      BY <1>7, <2>2 DEF IInv, SessionsSound
    <3> QED
      BY <1>0, <1>1, <1>2, <1>3, <3>1 DEF Sound
  <2> QED
    BY <2>1, <2>2 DEF SessionsSound
<1>10. Approvals' /\ SpentIsAccounted'
  BY <1>0, <1>1, <1>2, <1>3 DEF IInv, Approvals, SpentIsAccounted
<1>11. Exclusive' /\ NonEmpty'
  BY <1>2, <1>5, <1>7 DEF IInv, Exclusive, NonEmpty, Holding
<1> QED
  BY <1>8, <1>9, <1>10, <1>11 DEF IInv

\* The verdict on an email is the application's status.
LEMMA SendRecordKeeps ==
    ASSUME IInv, NEW r \in Req, SendRecord(r)
    PROVE  IInv'
<1>1. PICK verdict \in {"sent", "unknown", "failed"} :
        /\ status' = Flush(req[r].seen, SentStatus(verdict), status)
        /\ excused' = IF SentStatus(verdict) = req[r].seen THEN excused ELSE verdict = "sent"
  BY DEF SendRecord
<1>2. status' \in Status /\ excused' \in BOOLEAN
  BY <1>1 DEF Flush, SentStatus, Status, IInv, TypeOK
<1>3. /\ Moved(r, Idle) /\ UNCHANGED <<runs, ended, approvalVars, package, clicks>>
      /\ lost' \subseteq 1..MaxRuns
  BY DEF SendRecord, Finish, Goto, Moved, historyVars, IInv, TypeOK
<1> QED
  BY <1>2, <1>3, IdleFits, MoveKeeps

\* INSERT of an approval, with the run it is bound to or after that run's INSERT.
LEMMA GrantKeeps ==
    ASSUME IInv, NEW a \in ApprId \ granted, NEW run \in 1..Len(runs'),
           NEW hash \in HashVal \cup {NoHash}, Grant(a, run, hash),
           UNCHANGED req \/ (\E r \in Req : Finish(r)),
           status' \in Status, excused' \in BOOLEAN,
           runs' \in Seq(RunRow), Len(runs') \in Len(runs)..MaxRuns,
           \A i \in 1..Len(runs) : runs'[i] = runs[i],
           \A i \in 1..Len(runs') : i > Len(runs) => runs'[i].appr = NoAppr,
           ended' \in Seq(1..MaxRuns), UNCHANGED <<package, historyVars>>
    PROVE  IInv'
<1>0. /\ Len(runs) \in Nat /\ Len(runs') \in Nat /\ Len(runs') <= MaxRuns
      /\ runs \in Seq(RunRow) /\ req \in [Req -> Session] /\ granted \subseteq ApprId
      /\ forRun \in [ApprId -> 0..MaxRuns]
      /\ \A i \in 1..Len(runs) : i \in 1..Len(runs')
  BY LenProperties, SubmissionAssumption DEF IInv, TypeOK
<1>1. /\ granted' = granted \cup {a} /\ UNCHANGED <<used, expired, clicks, lost, package>>
      /\ forRun' \in [ApprId -> 0..MaxRuns] /\ forRun'[a] = run
      /\ \A b \in ApprId : b # a => forRun'[b] = forRun[b]
  BY <1>0, SubmissionAssumption DEF Grant, historyVars
<1>2. /\ forHash' \in [ApprId -> HashVal \cup {NoHash}]
      /\ \A b \in ApprId : b # a => forHash'[b] = forHash[b]
  BY DEF Grant, IInv, TypeOK
<1>3. req' \in [Req -> Session] /\ \A r \in Req : req'[r] \in {req[r], Idle}
  BY <1>0, IdleFits DEF Finish, Goto
<1>4. TypeOK'
  BY <1>0, <1>1, <1>2, <1>3 DEF IInv, TypeOK
<1>5. \A s \in Session : Sound(s) => Sound(s)'
  BY <1>0, <1>1, <1>2 DEF Sound
<1>6. SessionsSound'
  <2>1. \A r \in Req : Sound(req'[r]) /\ req'[r] \in Session
    BY <1>3, IdleFits DEF IInv, SessionsSound
  <2> QED
    BY <1>0, <1>1, <1>2, <2>1 DEF SessionsSound, Sound
<1>7. Exclusive' /\ NonEmpty'
  BY <1>0, <1>3, IdleFits DEF IInv, Exclusive, NonEmpty, Holding
<1>8. Approvals'
  <2>1. \A b \in granted' : forRun'[b] \in 1..Len(runs')
    BY <1>0, <1>1 DEF IInv, Approvals
  <2>2. \A i \in 1..Len(runs') : runs'[i].appr \in granted' \cup {NoAppr}
    BY <1>1, SameSubmissions
  <2> QED
    BY <1>0, <1>1, <2>1, <2>2 DEF IInv, Approvals
<1>9. SpentIsAccounted'
  <2>1. ~used[a] /\ ~\E i \in DOMAIN runs : runs[i].appr = a
    BY <1>0, LenProperties, SubmissionAssumption DEF IInv, Approvals
  <2>2. \A b \in ApprId : (\E i \in DOMAIN runs : runs[i].appr = b)
                      <=> (\E i \in DOMAIN runs' : runs'[i].appr = b)
    BY SameSubmissions
  <2>3. ASSUME NEW b \in granted', forHash'[b] = NoHash
        PROVE  used'[b] <=> \E i \in DOMAIN runs' : runs'[i].appr = b
    <3>1. CASE b = a
      BY <1>1, <2>1, <2>2, <3>1
    <3>2. CASE b \in granted /\ b # a
      <4>1. b \in ApprId /\ forHash[b] = NoHash /\ (used'[b] <=> used[b])
        BY <1>0, <1>1, <1>2, <2>3, <3>2
      <4>2. used[b] <=> \E i \in DOMAIN runs : runs[i].appr = b
        BY <3>2, <4>1 DEF IInv, SpentIsAccounted
      <4> QED
        BY <2>2, <4>1, <4>2
    <3> QED
      BY <1>1, <2>3, <3>1, <3>2
  <2> QED
    BY <2>3 DEF SpentIsAccounted
<1> QED
  BY <1>4, <1>6, <1>7, <1>8, <1>9 DEF IInv

\* The new approval is bound to a run that was completed when it was read.
LEMMA ApproveCommitKeeps ==
    ASSUME IInv, NEW r \in Req, ApproveCommit(r)
    PROVE  IInv'
<1>1. PICK a \in ApprId \ granted : Grant(a, req[r].run, NoHash)
  BY DEF ApproveCommit
<1>2. Finish(r) /\ UNCHANGED <<status, excused, runs, ended, package, historyVars>>
  BY DEF ApproveCommit
<1>3. req[r].run \in 1..Len(runs)
  BY DEF ApproveCommit, At, IInv, SessionsSound, Sound
<1>4. /\ runs \in Seq(RunRow) /\ Len(runs) \in Nat /\ Len(runs) <= MaxRuns
      /\ status \in Status /\ excused \in BOOLEAN /\ ended \in Seq(1..MaxRuns)
  BY LenProperties DEF IInv, TypeOK
<1>5. /\ Len(runs) \in Len(runs)..MaxRuns /\ \A i \in 1..Len(runs) : ~(i > Len(runs))
  BY <1>4, SubmissionAssumption
<1> QED
  BY <1>1, <1>2, <1>3, <1>4, <1>5, GrantKeeps

\* The package flow binds its approval to the latest completed run, or to a bare one
\* that it inserts in the same step.
LEMMA PackageApprovedKeeps ==
    ASSUME IInv, NEW a \in ApprId, PackageApproved(a)
    PROVE  IInv'
<1>1. /\ a \in ApprId \ granted /\ UNCHANGED <<package, req, historyVars>>
      /\ package \in HashVal \cup {NoHash} /\ runs \in Seq(RunRow)
      /\ Len(runs) \in Nat /\ Len(runs) <= MaxRuns /\ DOMAIN runs = 1..Len(runs)
      /\ ended \in Seq(1..MaxRuns)
  BY LenProperties DEF PackageApproved, IInv, TypeOK
<1>2. status' \in Status /\ excused' \in BOOLEAN
  <2>1. (IF status \in Reviewable THEN "approved" ELSE status) \in Status
    BY DEF Status, IInv, TypeOK
  <2> QED
    BY <2>1, WriteTyped DEF PackageApproved
<1>3. CASE \E i \in LatestCompleted : Grant(a, i, package) /\ UNCHANGED <<runs, ended>>
  <2>1. PICK i \in LatestCompleted : Grant(a, i, package) /\ UNCHANGED <<runs, ended>>
    BY <1>3
  <2>2. i \in 1..Len(runs')
    BY <1>1, <2>1 DEF LatestCompleted
  <2>3. /\ Len(runs) \in Len(runs)..MaxRuns /\ \A k \in 1..Len(runs) : ~(k > Len(runs))
    BY <1>1, SubmissionAssumption
  <2> QED
    BY <1>1, <1>2, <2>1, <2>2, <2>3, GrantKeeps
<1>4. CASE ~\E i \in LatestCompleted : Grant(a, i, package) /\ UNCHANGED <<runs, ended>>
  <2> DEFINE row == [state |-> "completed", questions |-> "none", appr |-> NoAppr]
  <2>1. row \in RunRow /\ row.appr = NoAppr
    BY DEF RunRow, Questions
  <2>2. /\ Len(runs) < MaxRuns /\ runs' = Append(runs, row)
        /\ ended' = Append(ended, Len(runs) + 1) /\ Grant(a, Len(runs) + 1, package)
    BY <1>4 DEF PackageApproved
  <2> HIDE DEF row
  <2>3. /\ runs' \in Seq(RunRow) /\ Len(runs') = Len(runs) + 1
        /\ \A i \in 1..Len(runs) : runs'[i] = runs[i]
        /\ runs'[Len(runs) + 1] = row
    BY <2>1, <2>2, RunAppended
  <2>4. Len(runs) + 1 \in 1..MaxRuns /\ Len(runs) + 1 \in 1..Len(runs')
    BY <1>1, <2>2, <2>3, SubmissionAssumption
  <2>5. ended' \in Seq(1..MaxRuns)
    BY <1>1, <2>2, <2>4, AppendProperties
  <2>6. /\ Len(runs') \in Len(runs)..MaxRuns
        /\ \A i \in 1..Len(runs') : i > Len(runs) => runs'[i].appr = NoAppr
    BY <1>1, <2>1, <2>2, <2>3, SubmissionAssumption
  <2> QED
    BY <1>1, <1>2, <2>2, <2>3, <2>4, <2>5, <2>6, GrantKeeps
<1> QED
  BY <1>3, <1>4

\* The approval is spent together with the INSERT of the run that stands for it; the
\* other sessions hold other approvals.
LEMMA SubmitCommitKeeps ==
    ASSUME IInv, NEW r \in Req, SubmitCommit(r)
    PROVE  IInv'
<1> DEFINE a == req[r].appr
           row == [state |-> "submitting", questions |-> "none", appr |-> a]
           s == [req[r] EXCEPT !.at = "execute", !.own = Len(runs) + 1, !.run = forRun[a]]
<1>0. /\ req \in [Req -> Session] /\ req[r] \in Session /\ Sound(req[r])
      /\ req[r].at = "locked" /\ Holding(req[r])
      /\ runs \in Seq(RunRow) /\ Len(runs) \in Nat /\ granted \subseteq ApprId
      /\ used \in [ApprId -> BOOLEAN] /\ forRun \in [ApprId -> 0..MaxRuns]
  BY LenProperties DEF IInv, TypeOK, SessionsSound, SubmitCommit, At, Holding
<1>1. a \in granted /\ a \in ApprId /\ ~used[a] /\ clicks[a] = 0
  BY <1>0 DEF Sound, IInv, Approvals
<1>2. /\ Len(runs) < MaxRuns /\ runs' = Append(runs, row)
      /\ used' = [used EXCEPT ![a] = TRUE] /\ req' = [req EXCEPT ![r] = s]
      /\ UNCHANGED <<ended, granted, forRun, forHash, expired, package, clicks, lost>>
  BY DEF SubmitCommit, Goto, historyVars
<1>3. row \in RunRow /\ row.appr = a
  BY <1>1 DEF RunRow, Questions
<1>4. Len(runs) + 1 \in 0..MaxRuns /\ forRun[a] \in 0..MaxRuns
  BY <1>0, <1>1, <1>2, SubmissionAssumption
<1>5. /\ s \in Session /\ s.at = "execute" /\ s.appr = a /\ s.own = Len(runs) + 1
      /\ s.run = forRun[a]
  BY <1>0, <1>4 DEF Session
<1> HIDE DEF row, s
<1>6. /\ runs' \in Seq(RunRow) /\ Len(runs') = Len(runs) + 1
      /\ \A i \in 1..Len(runs) : runs'[i] = runs[i]
      /\ runs'[Len(runs) + 1] = row
  BY <1>2, <1>3, RunAppended
<1>7. /\ used' \in [ApprId -> BOOLEAN] /\ used'[a]
      /\ \A b \in ApprId : b # a => used'[b] = used[b]
  BY <1>0, <1>1, <1>2
<1>8. req'[r] = s /\ \A q \in Req : q # r => req'[q] = req[q]
  BY <1>0, <1>2
<1>9. TypeOK'
  <2>1. req' \in [Req -> Session]
    BY <1>0, <1>2, <1>5
  <2>2. status' \in Status /\ excused' \in BOOLEAN
    BY WriteTyped DEF SubmitCommit, Status
  <2>3. Len(runs') <= MaxRuns
    BY <1>2, <1>0, <1>6, SubmissionAssumption
  <2> QED
    BY <1>2, <1>6, <1>7, <2>1, <2>2, <2>3 DEF IInv, TypeOK
<1>10. SessionsSound'
  <2>1. Sound(req[r])'
    BY <1>0, <1>1, <1>2, <1>5, <1>6, <1>7, <1>8 DEF Sound
  <2>2. ASSUME NEW q \in Req, q # r
        PROVE  Sound(req[q])'
    <3>1. /\ Sound(req[q]) /\ req[q] \in Session /\ req'[q] = req[q]
          /\ req[q].at = "locked" => req[q].appr # a
      BY <1>0, <1>8, <2>2 DEF IInv, SessionsSound, Exclusive, Holding
    <3>2. \A i \in 1..Len(runs) : i \in 1..Len(runs')
      BY <1>0, <1>6
    <3> QED
      BY <1>0, <1>2, <1>7, <3>1, <3>2 DEF Sound
  <2> QED
    BY <2>1, <2>2 DEF SessionsSound
<1>11. Exclusive'
  BY <1>0, <1>5, <1>8 DEF IInv, Exclusive, Holding
<1>12. NonEmpty'
  BY <1>0, <1>2, <1>6 DEF IInv, NonEmpty
<1>13. Approvals'
  <2>1. \A b \in granted : forRun[b] \in 1..Len(runs')
    BY <1>0, <1>6 DEF IInv, Approvals
  <2>2. \A i \in 1..Len(runs') : runs'[i].appr \in granted \cup {NoAppr}
    BY <1>0, <1>1, <1>3, <1>6 DEF IInv, Approvals
  <2> QED
    BY <1>1, <1>2, <1>7, <2>1, <2>2 DEF IInv, Approvals
<1>14. SpentIsAccounted'
  <2>1. DOMAIN runs = 1..Len(runs) /\ DOMAIN runs' = 1..(Len(runs) + 1)
    BY <1>0, <1>6, LenProperties
  <2>2. \E i \in DOMAIN runs' : runs'[i].appr = a
    BY <1>0, <1>3, <1>6, <2>1
  <2>3. ASSUME NEW b \in granted, b # a
        PROVE  (\E i \in DOMAIN runs : runs[i].appr = b)
           <=> (\E i \in DOMAIN runs' : runs'[i].appr = b)
    <3>1. \A i \in DOMAIN runs' : i \in DOMAIN runs \/ i = Len(runs) + 1
      BY <1>0, <2>1
    <3>2. \A i \in DOMAIN runs : i \in DOMAIN runs' /\ runs'[i] = runs[i]
      BY <1>0, <1>6, <2>1
    <3> QED
      BY <1>3, <1>6, <2>3, <3>1, <3>2
  <2>4. ASSUME NEW b \in granted, forHash[b] = NoHash
        PROVE  used'[b] <=> \E i \in DOMAIN runs' : runs'[i].appr = b
    <3>1. CASE b = a
      BY <1>7, <2>2, <3>1
    <3>2. CASE b # a
      BY <1>0, <1>7, <2>3, <2>4, <3>2 DEF IInv, SpentIsAccounted
    <3> QED
      BY <3>1, <3>2
  <2> QED
    BY <1>2, <2>4 DEF SpentIsAccounted
<1> QED
  BY <1>9, <1>10, <1>11, <1>12, <1>13, <1>14 DEF IInv

\* A click counts for an approval that no other session holds.
LEMMA BrowserClicksKeeps ==
    ASSUME IInv, NEW r \in Req, BrowserClicks(r)
    PROVE  IInv'
<1> DEFINE a == req[r].appr
<1>0. /\ req \in [Req -> Session] /\ req[r] \in Session /\ Sound(req[r])
      /\ req[r].at = "browser" /\ Holding(req[r]) /\ clicks \in [ApprId -> Nat]
      /\ granted \subseteq ApprId
  BY DEF IInv, TypeOK, SessionsSound, BrowserClicks, At, Holding
<1>1. a \in granted /\ a \in ApprId /\ used[a] /\ req[r].own \in 1..Len(runs)
  BY <1>0 DEF Sound
<1>2. PICK report \in {"ok", "unconfirmed", "error"} :
        req' = [req EXCEPT ![r] = [req[r] EXCEPT !.at = "answered", !.report = report]]
  BY DEF BrowserClicks, Goto
<1> DEFINE s == [req[r] EXCEPT !.at = "answered", !.report = report]
<1>3. s \in Session /\ s.at = "answered" /\ s.own = req[r].own /\ s.report = report
  BY <1>0, <1>2 DEF Session
<1>4. /\ clicks' = [clicks EXCEPT ![a] = @ + 1] /\ req' = [req EXCEPT ![r] = s]
      /\ UNCHANGED <<status, excused, runs, ended, granted, forRun, forHash, used, expired,
                     package, lost>>
  BY <1>2 DEF BrowserClicks, approvalVars
<1> HIDE DEF s
<1>5. clicks' \in [ApprId -> Nat] /\ \A b \in ApprId : b # a => clicks'[b] = clicks[b]
  BY <1>0, <1>1, <1>4
<1>6. req'[r] = s /\ (\A q \in Req : q # r => req'[q] = req[q]) /\ req' \in [Req -> Session]
  BY <1>0, <1>3, <1>4
<1>7. TypeOK'
  BY <1>4, <1>5, <1>6 DEF IInv, TypeOK
<1>8. SessionsSound'
  <2>1. Sound(req[r])'
    BY <1>1, <1>2, <1>3, <1>4, <1>6 DEF Sound
  <2>2. ASSUME NEW q \in Req, q # r
        PROVE  Sound(req[q])'
    <3>1. /\ Sound(req[q]) /\ req[q] \in Session /\ req'[q] = req[q]
          /\ Holding(req[q]) => req[q].appr # a
      BY <1>0, <1>6, <2>2 DEF IInv, SessionsSound, Exclusive
    <3> QED
      BY <1>0, <1>4, <1>5, <3>1 DEF Sound, Holding
  <2> QED
    BY <2>1, <2>2 DEF SessionsSound
<1>9. Exclusive'
  BY <1>3, <1>6 DEF IInv, Exclusive, Holding
<1>10. Approvals'
  BY <1>1, <1>4, <1>5 DEF IInv, Approvals
<1>11. NonEmpty' /\ SpentIsAccounted'
  BY <1>4 DEF IInv, NonEmpty, SpentIsAccounted
<1> QED
  BY <1>7, <1>8, <1>9, <1>10, <1>11 DEF IInv

-----------------------------------------------------------------------------
(* The theorems.                                                           *)

\* The invariant holds at first.
LEMMA Begins == Init => IInv
<1> SUFFICES ASSUME Init
             PROVE  IInv
  OBVIOUS
<1> DEFINE row == [state |-> "running", questions |-> "none", appr |-> NoAppr]
<1>1. row \in RunRow /\ row.appr = NoAppr /\ runs = <<row>>
  BY DEF RunRow, Questions, Init
<1> HIDE DEF row
<1>2. /\ runs \in Seq(RunRow) /\ Len(runs) = 1 /\ runs[1] = row /\ DOMAIN runs = 1..1
      /\ ended = <<>> /\ ended \in Seq(1..MaxRuns)
  BY <1>1 DEF Init
<1>3. /\ req \in [Req -> Session] /\ \A r \in Req : req[r] = Idle
  BY IdleFits DEF Init
<1>4. TypeOK
  <2>1. status \in Status
    BY DEF Init, Status
  <2>2. clicks \in [ApprId -> Nat] /\ forRun \in [ApprId -> 0..MaxRuns] /\ Len(runs) <= MaxRuns
    BY <1>2, SubmissionAssumption DEF Init
  <2> QED
    BY <1>2, <1>3, <2>1, <2>2 DEF Init, TypeOK
<1>5. SessionsSound /\ Exclusive
  BY <1>3, IdleFits DEF SessionsSound, Exclusive
<1>6. NonEmpty
  BY <1>2 DEF NonEmpty
<1>7. Approvals /\ SpentIsAccounted
  BY <1>1, <1>2 DEF Init, Approvals, SpentIsAccounted
<1> QED
  BY <1>4, <1>5, <1>6, <1>7 DEF IInv

\* Every step keeps the invariant.
LEMMA StepKeeps == IInv /\ [Next]_vars => IInv'
<1> SUFFICES ASSUME IInv, [Next]_vars
             PROVE  IInv'
  OBVIOUS
<1>1. ASSUME NEW r \in Req, Begin(r)
      PROVE  IInv'
  BY <1>1, BeginKeeps
<1>2. ASSUME NEW r \in Req, Continue(r) \/ Crash(r)
      PROVE  IInv'
  BY <1>2, PrepareCommitKeeps, AnswerCommitKeeps, ApproveCommitKeeps, SubmitCommitKeeps,
     BrowserClicksKeeps, ExecuteRecordKeeps, SendCommitKeeps, SendRecordKeeps, MovesKeep
     DEF Continue, Moves
<1>3. ASSUME NEW i \in 1..Len(runs),
             PrepareFails(i) \/ \E q \in {"open", "complete"} : PrepareDone(i, q)
      PROVE  IInv'
  BY <1>3, PreparationKeeps
<1>4. ASSUME NEW a \in ApprId, Expire(a) \/ PackageApproved(a)
      PROVE  IInv'
  BY <1>4, ExpireKeeps, PackageApprovedKeeps
<1>5. CASE \/ PackageReapproved
           \/ \E h \in HashVal : PackageStored(h)
           \/ \E s \in OtherStatus : StatusWrittenElsewhere(s)
           \/ UNCHANGED vars
  BY <1>5, OutsideKeeps
<1> QED
  BY <1>1, <1>2, <1>3, <1>4, <1>5 DEF Next

\* In every reachable state the sessions agree with the rows they hold, and no two
\* sessions are going to use the same approval (submission_service.py:223-297).
THEOREM Invariance == Spec => []IInv
<1> QED
  BY Begins, StepKeeps, PTL DEF Spec

\* Every variable keeps its type: no write of submission_service.py or
\* application_runner.py stores a value another reader does not expect.
THEOREM TypeCorrect == Spec => []TypeOK
<1>1. IInv => TypeOK
  BY DEF IInv
<1> QED
  BY <1>1, Invariance, PTL

\* An approval of this flow is spent exactly if a submission run stands for it,
\* whatever is refused or dies (submission_service.py:268-297).
THEOREM SpentAccounted == Spec => []SpentIsAccounted
<1>1. IInv => SpentIsAccounted
  BY DEF IInv
<1> QED
  BY <1>1, Invariance, PTL

-----------------------------------------------------------------------------
(* The live submission implements the approval ledger.                     *)

\* A new approval is bound once, to a run.
LEMMA GrantImplements ==
    ASSUME IInv, IInv', NEW a \in ApprId \ granted, NEW run, NEW hash, Grant(a, run, hash),
           UNCHANGED historyVars
    PROVE  Ledger!LedgerNext
<1>1. forRun \in [ApprId -> 0..MaxRuns] /\ forRun[a] = 0
  BY DEF IInv, TypeOK, Approvals
<1>2. a \in granted' /\ forRun' = [forRun EXCEPT ![a] = run] /\ forRun'[a] = run
  BY <1>1 DEF Grant
<1>3. run \in 1..MaxRuns
  <2>1. forRun'[a] \in 1..Len(runs') /\ Len(runs') <= MaxRuns /\ runs' \in Seq(RunRow)
    BY <1>2 DEF IInv, Approvals, TypeOK
  <2>2. Len(runs') \in Nat
    BY <2>1, LenProperties
  <2> QED
    BY <1>2, <2>1, <2>2, SubmissionAssumption
<1>4. Ledger!GrantTo(a, run)
  BY <1>1, <1>2 DEF Grant, historyVars, Ledger!GrantTo
<1> QED
  BY <1>3, <1>4 DEF Ledger!LedgerNext

\* An approval that is spent was granted and not spent before.
LEMMA SpendImplements ==
    ASSUME IInv, NEW a \in granted, ~used[a], used' = [used EXCEPT ![a] = TRUE],
           UNCHANGED <<forRun, clicks, sent>>
    PROVE  Ledger!LedgerNext
<1>1. a \in ApprId /\ used \in [ApprId -> BOOLEAN] /\ forRun[a] # 0
  BY DEF IInv, TypeOK, Approvals
<1>2. used'[a] /\ \A b \in ApprId : b # a => used'[b] = used[b]
  BY <1>1
<1>3. {b \in ApprId : used'[b]} = {b \in ApprId : used[b]} \cup {a}
  BY <1>1, <1>2
<1>4. Ledger!Spend(a)
  BY <1>1, <1>3 DEF Ledger!Spend
<1> QED
  BY <1>1, <1>4 DEF Ledger!LedgerNext

\* A click uses a spent approval for the first time, for the run it is bound to.
LEMMA ClickImplements ==
    ASSUME IInv, NEW r \in Req, BrowserClicks(r)
    PROVE  Ledger!LedgerNext
<1>1. PICK b \in granted : b = req[r].appr
  BY DEF BrowserClicks, At, IInv, SessionsSound, Sound
<1>2. /\ b \in ApprId /\ used[b] /\ clicks[b] = 0 /\ req[r].run = forRun[b]
  BY <1>1 DEF BrowserClicks, At, IInv, TypeOK, SessionsSound, Sound
<1>3. PICK report :
        sent' = sent \cup {[appr |-> req[r].appr, run |-> req[r].run, own |-> req[r].own,
                            questions |-> req[r].questions, confirmed |-> report = "ok"]}
  BY DEF BrowserClicks
<1> DEFINE click == [appr |-> req[r].appr, run |-> req[r].run, own |-> req[r].own,
                     questions |-> req[r].questions, confirmed |-> report = "ok"]
<1>4. sent' = sent \cup {click} /\ click.appr = b /\ click.run = forRun[b]
  BY <1>1, <1>2, <1>3
<1> HIDE DEF click
<1>5. {<<s.appr, s.run>> : s \in sent'}
        = {<<s.appr, s.run>> : s \in sent} \cup {<<b, forRun[b]>>}
  BY <1>4
<1>6. clicks' = [clicks EXCEPT ![b] = 1]
  BY <1>1, <1>2 DEF BrowserClicks, IInv, TypeOK
<1>7. UNCHANGED <<forRun, used>>
  BY DEF BrowserClicks, approvalVars
<1>8. Ledger!Emit(b)
  BY <1>2, <1>5, <1>6, <1>7 DEF Ledger!Emit
<1> QED
  BY <1>2, <1>8 DEF Ledger!LedgerNext

\* What no other step touches.
LEMMA OthersStutter ==
    ASSUME UNCHANGED <<forRun, used, clicks, sent>>
    PROVE  UNCHANGED Ledger!ledgerVars
  BY DEF Ledger!ledgerVars

\* Every step is a step of the ledger or does not show in it.
LEMMA StepImplements ==
    IInv /\ IInv' /\ [Next]_vars => [Ledger!LedgerNext]_(Ledger!ledgerVars)
<1> SUFFICES ASSUME IInv, IInv', [Next]_vars
             PROVE  Ledger!LedgerNext \/ UNCHANGED Ledger!ledgerVars
  OBVIOUS
<1> USE DEF approvalVars, historyVars
<1>1. ASSUME NEW r \in Req, Begin(r)
      PROVE  UNCHANGED Ledger!ledgerVars
  BY <1>1, OthersStutter
     DEF Begin, PrepareRead, AnswerRead, ApproveRead, SubmitRead, SendRead
<1>2. ASSUME NEW r \in Req, Continue(r) \/ Crash(r)
      PROVE  Ledger!LedgerNext \/ UNCHANGED Ledger!ledgerVars
  <2>1. CASE \/ PrepareCommit(r) \/ AnswerCommit(r) \/ ExecuteRecord(r) \/ Moves(r)
             \/ SendRecord(r)
    BY <2>1, OthersStutter
       DEF PrepareCommit, AnswerCommit, ExecuteRecord, Moves, ApproveLookup, SubmitLock,
           SubmitRefused, ExecuteLoad, BrowserGivesUp, SendRefused, SendRecord, Crash
  <2>2. CASE ApproveCommit(r)
    BY <2>2, GrantImplements DEF ApproveCommit
  <2>3. CASE SubmitCommit(r)
    <3>1. req[r].appr \in granted /\ ~used[req[r].appr]
      BY <2>3 DEF SubmitCommit, At, IInv, SessionsSound, Sound
    <3> QED
      BY <2>3, <3>1, SpendImplements DEF SubmitCommit
  <2>4. CASE BrowserClicks(r)
    BY <2>4, ClickImplements
  <2>5. CASE SendCommit(r)
    <3> DEFINE a == req[r].appr
    <3>1. /\ a \in granted /\ used \in [ApprId -> BOOLEAN] /\ granted \subseteq ApprId
          /\ used' = [used EXCEPT ![a] = TRUE] /\ UNCHANGED <<forRun, clicks, sent>>
      BY <2>5 DEF SendCommit, At, IInv, TypeOK, SessionsSound, Sound
    <3> HIDE DEF a
    <3>2. CASE used[a]
      BY <3>1, <3>2, OthersStutter
    <3>3. CASE ~used[a]
      BY <3>1, <3>3, SpendImplements
    <3> QED
      BY <3>2, <3>3
  <2> QED
    BY <1>2, <2>1, <2>2, <2>3, <2>4, <2>5 DEF Continue, Moves
<1>3. ASSUME NEW i \in 1..Len(runs),
             PrepareFails(i) \/ \E q \in {"open", "complete"} : PrepareDone(i, q)
      PROVE  UNCHANGED Ledger!ledgerVars
  BY <1>3, OthersStutter DEF PrepareFails, PrepareDone
<1>4. ASSUME NEW a \in ApprId, Expire(a) \/ PackageApproved(a)
      PROVE  Ledger!LedgerNext \/ UNCHANGED Ledger!ledgerVars
  <2>1. CASE Expire(a)
    BY <2>1, OthersStutter DEF Expire
  <2>2. CASE PackageApproved(a)
    BY <2>2, GrantImplements DEF PackageApproved
  <2> QED
    BY <1>4, <2>1, <2>2
<1>5. CASE \/ PackageReapproved
           \/ \E h \in HashVal : PackageStored(h)
           \/ \E s \in OtherStatus : StatusWrittenElsewhere(s)
           \/ UNCHANGED vars
  BY <1>5, OthersStutter DEF PackageReapproved, PackageStored, StatusWrittenElsewhere, vars
<1> QED
  BY <1>1, <1>2, <1>3, <1>4, <1>5 DEF Next

\* Approvals are single-use for every number of requests, runs and packages: each is
\* bound to one run, spent once, and lets one click out with that run's answers
\* (submission_service.py:223-297, README.md "Approval Binding").
THEOREM SingleUse == Spec => ImplementsLedger
<1>1. Init => Ledger!LedgerInit
  <2> SUFFICES ASSUME Init
               PROVE  Ledger!LedgerInit
    OBVIOUS
  <2>1. {a \in ApprId : used[a]} = {} /\ {<<s.appr, s.run>> : s \in sent} = {}
    BY DEF Init
  <2> QED
    BY <2>1 DEF Init, Ledger!LedgerInit
<1>2. IInv /\ IInv' /\ [Next]_vars => [Ledger!LedgerNext]_(Ledger!ledgerVars)
  BY StepImplements
<1> QED
  BY <1>1, <1>2, Invariance, PTL DEF Spec, ImplementsLedger, Ledger!LedgerSpec

-----------------------------------------------------------------------------
(***************************************************************************)
(* What the live submission sends out and what it claims afterwards: only  *)
(* prepared answers are submitted, this flow claims a success only for a   *)
(* confirmed click, and nothing stays "submitting" unless a request died.  *)
(***************************************************************************)

-----------------------------------------------------------------------------
(* What is submitted was prepared, and what is claimed was confirmed.      *)

Confirmed(i) == \E c \in sent : c.own = i /\ c.confirmed

Ended(i) == \E k \in DOMAIN ended : ended[k] = i

\* Questions are those of a preparation that has completed, though it may have failed
\* since; a submission's run completes only with a confirmation.
RowSound(i) ==
    /\ runs[i].state = "running" => runs[i].appr = NoAppr
    /\ runs[i].questions # "none" => runs[i].appr = NoAppr /\ Ended(i)
    /\ runs[i].appr # NoAppr /\ runs[i].state = "completed" => Confirmed(i)

\* What a session has loaded or done.
Knows(s) ==
    /\ s.at = "answer" => s.questions # "none" /\ runs[s.run].questions # "none"
    /\ s.at = "browser" =>
           /\ s.questions = "complete"
           /\ s.run \in 1..Len(runs) /\ runs[s.run].questions # "none"
    /\ s.at \in {"execute", "browser", "answered"} => runs[s.own].appr # NoAppr
    /\ s.at = "answered" /\ s.report = "ok" => Confirmed(s.own)

Answers(c) ==
    c.questions = "complete" /\ c.run \in 1..Len(runs) /\ runs[c.run].questions # "none"

Honest ==
    /\ \A i \in 1..Len(runs) : RowSound(i)
    /\ \A r \in Req : Knows(req[r])
    /\ \A c \in sent : Answers(c)
    /\ status = "applied" /\ ~excused => \E c \in sent : c.confirmed

\* Who writes the status does not claim "applied" on behalf of a submission.
NoNewClaim == status' = "applied" /\ ~excused' => status = "applied" /\ ~excused

EndedGrows == ended' = ended \/ \E i \in 1..MaxRuns : ended' = Append(ended, i)

\* A run that has completed once stays among those that have.
LEMMA EndedLast ==
    ASSUME IInv, EndedGrows
    PROVE  \A i : Ended(i) => Ended(i)'
<1>1. ended \in Seq(1..MaxRuns) /\ Len(ended) \in Nat /\ DOMAIN ended = 1..Len(ended)
  BY LenProperties DEF IInv, TypeOK
<1>2. CASE ended' = ended
  BY <1>2 DEF Ended
<1>3. ASSUME NEW j \in 1..MaxRuns, ended' = Append(ended, j)
      PROVE  \A i : Ended(i) => Ended(i)'
  <2>1. /\ Len(ended') = Len(ended) + 1 /\ DOMAIN ended' = 1..Len(ended')
        /\ \A k \in 1..Len(ended) : ended'[k] = ended[k]
    BY <1>1, <1>3, AppendProperties, LenProperties
  <2>2. \A k \in DOMAIN ended : k \in DOMAIN ended' /\ ended'[k] = ended[k]
    BY <1>1, <2>1
  <2> QED
    BY <2>2 DEF Ended
<1> QED
  BY <1>2, <1>3 DEF EndedGrows

\* A run that completes is among them.
LEMMA EndedNow ==
    ASSUME IInv, NEW i \in 1..Len(runs), ended' = Append(ended, i)
    PROVE  Ended(i)' /\ EndedGrows
<1>1. /\ ended \in Seq(1..MaxRuns) /\ Len(ended) \in Nat
      /\ runs \in Seq(RunRow) /\ Len(runs) \in Nat /\ Len(runs) <= MaxRuns
  BY LenProperties DEF IInv, TypeOK
<1>2. i \in 1..MaxRuns
  BY <1>1, SubmissionAssumption
<1>3. /\ Len(ended') = Len(ended) + 1 /\ DOMAIN ended' = 1..Len(ended')
      /\ ended'[Len(ended) + 1] = i
  BY <1>1, <1>2, AppendProperties, LenProperties
<1>4. Len(ended) + 1 \in DOMAIN ended'
  BY <1>1, <1>3
<1> QED
  BY <1>2, <1>3, <1>4 DEF Ended, EndedGrows

\* Rows are never taken back, and the questions of a run are never removed.
RowsLast ==
    /\ Len(runs') \in Len(runs)..MaxRuns
    /\ \A i \in 1..Len(runs) :
         /\ runs'[i].appr = runs[i].appr
         /\ runs[i].questions # "none" => runs'[i].questions # "none"

\* Rows that last keep what sessions and earlier submissions know; what remains to
\* show of a step is about the run, the session and the submission it touches.
LEMMA HonestKeeps ==
    ASSUME IInv, Honest, RowsLast, \A i \in 1..Len(runs') : RowSound(i)',
           \/ UNCHANGED <<req, sent>>
           \/ \E r \in Req : (\A q \in Req \ {r} : req'[q] = req[q]) /\ Knows(req[r])',
           sent \subseteq sent', \A c \in sent' \ sent : Answers(c)',
           NoNewClaim \/ \E c \in sent' : c.confirmed
    PROVE  Honest'
<1>1. /\ Len(runs) \in Nat /\ req \in [Req -> Session]
      /\ \A i \in 1..Len(runs) : i \in 1..Len(runs')
  BY LenProperties, SubmissionAssumption DEF IInv, TypeOK, RowsLast
<1>2. \A c \in sent : Answers(c)'
  BY <1>1 DEF Honest, Answers, RowsLast
<1>3. \A i : Confirmed(i) => Confirmed(i)'
  BY DEF Confirmed
<1>4. ASSUME NEW s \in Session, Sound(s), Knows(s)
      PROVE  Knows(s)'
  BY <1>1, <1>3, <1>4 DEF Sound, Knows, RowsLast
<1>5. \A r \in Req : Sound(req[r]) /\ Knows(req[r]) /\ req[r] \in Session
  BY <1>1 DEF IInv, SessionsSound, Honest
<1>6. \A r \in Req : Knows(req[r])'
  <2>1. CASE UNCHANGED <<req, sent>>
    <3>1. \A r \in Req : req'[r] = req[r]
      BY <2>1
    <3> QED
      BY <1>4, <1>5, <3>1 DEF Knows, Confirmed
  <2>2. ASSUME NEW r \in Req, \A q \in Req \ {r} : req'[q] = req[q], Knows(req[r])'
        PROVE  \A q \in Req : Knows(req[q])'
    BY <1>4, <1>5, <2>2 DEF Knows, Confirmed
  <2> QED
    BY <2>1, <2>2
<1> QED
  BY <1>2, <1>6 DEF Honest, NoNewClaim

\* The runs are left alone.
LEMMA RowsUnchanged ==
    ASSUME IInv, Honest, UNCHANGED <<runs, ended>>, sent \subseteq sent'
    PROVE  RowsLast /\ \A i \in 1..Len(runs') : RowSound(i)'
<1>1. Len(runs) \in Nat /\ Len(runs) <= MaxRuns
  BY LenProperties DEF IInv, TypeOK
<1>2. Len(runs) \in Len(runs)..MaxRuns
  BY <1>1, SubmissionAssumption
<1> QED
  BY <1>2 DEF RowsLast, Honest, RowSound, Confirmed, Ended

\* A run is inserted that has no questions yet.
LEMMA RowsAppended ==
    ASSUME IInv, Honest, UNCHANGED sent, Len(runs) < MaxRuns, EndedGrows,
           NEW row \in RunRow, runs' = Append(runs, row), row.questions = "none",
           row.appr = NoAppr \/ row.state = "submitting"
    PROVE  RowsLast /\ \A i \in 1..Len(runs') : RowSound(i)'
<1>1. /\ Len(runs') = Len(runs) + 1 /\ runs'[Len(runs) + 1] = row /\ Len(runs) \in Nat
      /\ \A i \in 1..Len(runs) : runs'[i] = runs[i]
  BY RunAppended
<1>2. RowsLast
  BY <1>1, SubmissionAssumption DEF RowsLast
<1>3. ASSUME NEW i \in 1..Len(runs)
      PROVE  RowSound(i)'
  BY <1>1, EndedLast DEF Honest, RowSound, Confirmed
<1>4. ASSUME NEW i, i = Len(runs) + 1
      PROVE  RowSound(i)'
  BY <1>1, <1>4 DEF RowSound
<1>5. \A i \in 1..Len(runs') : i \in 1..Len(runs) \/ i = Len(runs) + 1
  BY <1>1
<1> QED
  BY <1>2, <1>3, <1>4, <1>5

\* A run is updated.
LEMMA RowsUpdated ==
    ASSUME IInv, Honest, UNCHANGED sent, EndedGrows,
           NEW i \in 1..Len(runs), NEW row \in RunRow, runs' = [runs EXCEPT ![i] = row],
           row.appr = runs[i].appr,
           runs[i].questions # "none" => row.questions # "none",
           row.state = "running" => row.appr = NoAppr,
           row.questions # "none" => row.appr = NoAppr /\ Ended(i)',
           row.appr # NoAppr /\ row.state = "completed" => Confirmed(i)
    PROVE  RowsLast /\ \A j \in 1..Len(runs') : RowSound(j)'
<1>1. /\ runs \in Seq(RunRow) /\ Len(runs) \in Nat /\ Len(runs) <= MaxRuns
  BY LenProperties DEF IInv, TypeOK
<1>2. /\ Len(runs') = Len(runs) /\ runs'[i] = row
      /\ \A j \in 1..Len(runs) : j # i => runs'[j] = runs[j]
  BY <1>1, ExceptSeq
<1>3. RowsLast
  BY <1>1, <1>2, SubmissionAssumption DEF RowsLast
<1>4. ASSUME NEW j \in 1..Len(runs)
      PROVE  RowSound(j)'
  <2>1. CASE j = i
    BY <1>2, <2>1 DEF RowSound, Confirmed
  <2>2. CASE j # i
    BY <1>2, <2>2, EndedLast DEF Honest, RowSound, Confirmed
  <2> QED
    BY <2>1, <2>2
<1> QED
  BY <1>2, <1>3, <1>4

\* A request that ends, or goes on with a session that has loaded nothing yet.
LEMMA NothingKnown ==
    ASSUME IInv, NEW r \in Req, NEW s, Goto(r, s),
           s.at \notin {"answer", "execute", "browser", "answered"}
    PROVE  (\A q \in Req \ {r} : req'[q] = req[q]) /\ Knows(req[r])'
<1>1. req'[r] = s /\ \A q \in Req \ {r} : req'[q] = req[q]
  BY DEF Goto, IInv, TypeOK
<1> QED
  BY <1>1 DEF Knows

\* A request that ends knows nothing.
LEMMA IdleHonest ==
    ASSUME IInv, NEW r \in Req, Finish(r)
    PROVE  (\A q \in Req \ {r} : req'[q] = req[q]) /\ Knows(req[r])'
  BY NothingKnown DEF Finish, Idle

\* Answers can only be loaded from a run that has questions.
LEMMA BeginHonest ==
    ASSUME IInv, Honest, NEW r \in Req, Begin(r)
    PROVE  Honest'
<1>1. UNCHANGED <<status, excused, runs, ended, sent>>
  BY DEF Begin, PrepareRead, AnswerRead, ApproveRead, SubmitRead, SendRead, historyVars
<1>2. RowsLast /\ \A i \in 1..Len(runs') : RowSound(i)'
  BY <1>1, RowsUnchanged
<1>3. (\A q \in Req \ {r} : req'[q] = req[q]) /\ Knows(req[r])'
  <2>1. CASE PrepareRead(r) \/ ApproveRead(r) \/ SubmitRead(r) \/ SendRead(r)
    <3>1. CASE PrepareRead(r) \/ SubmitRead(r) \/ SendRead(r)
      <4>1. PICK a, seen :
              \/ Goto(r, [Idle EXCEPT !.at = "prepare", !.seen = seen])
              \/ Goto(r, [Idle EXCEPT !.at = "submit"])
              \/ Goto(r, [Idle EXCEPT !.at = "mail", !.appr = a, !.seen = seen])
        BY <3>1 DEF PrepareRead, SubmitRead, SendRead
      <4>2. /\ [Idle EXCEPT !.at = "prepare", !.seen = seen].at = "prepare"
            /\ [Idle EXCEPT !.at = "submit"].at = "submit"
            /\ [Idle EXCEPT !.at = "mail", !.appr = a, !.seen = seen].at = "mail"
        BY DEF Idle
      <4> QED
        BY <4>1, <4>2, NothingKnown
    <3>2. CASE ApproveRead(r)
      <4>1. PICK run : Goto(r, [Idle EXCEPT !.at = "approve", !.run = run])
        BY <3>2 DEF ApproveRead
      <4>2. [Idle EXCEPT !.at = "approve", !.run = run].at = "approve"
        BY DEF Idle
      <4> QED
        BY <4>1, <4>2, NothingKnown
    <3> QED
      BY <2>1, <3>1, <3>2
  <2>2. CASE AnswerRead(r)
    <3>1. PICK q : q = Last(runs).questions
      OBVIOUS
    <3>2. q # "none" /\ q = runs[Len(runs)].questions
      BY <2>2, <3>1 DEF AnswerRead, Last
    <3>3. Goto(r, [Idle EXCEPT !.at = "answer", !.run = Len(runs), !.questions = q])
      BY <2>2, <3>1 DEF AnswerRead
    <3>4. req'[r].at = "answer" /\ req'[r].run = Len(runs) /\ req'[r].questions = q
      BY <3>3 DEF Goto, Idle, IInv, TypeOK
    <3>5. \A p \in Req \ {r} : req'[p] = req[p]
      BY <3>3 DEF Goto, IInv, TypeOK
    <3> QED
      BY <1>1, <3>2, <3>4, <3>5 DEF Knows
  <2> QED
    BY <2>1, <2>2 DEF Begin
<1> QED
  BY <1>1, <1>2, <1>3, HonestKeeps DEF NoNewClaim

\* ExecuteLoad lets nothing but complete questions through.
LEMMA MovesHonest ==
    ASSUME IInv, Honest, NEW r \in Req, Moves(r) \/ ApproveCommit(r)
    PROVE  Honest'
<1>1. UNCHANGED <<runs, ended, sent>> /\ NoNewClaim
  BY DEF Moves, ApproveLookup, SubmitLock, SubmitRefused, ExecuteLoad, BrowserGivesUp,
         SendRefused, Crash, ApproveCommit, historyVars, NoNewClaim, IInv, TypeOK
<1>2. RowsLast /\ \A i \in 1..Len(runs') : RowSound(i)'
  BY <1>1, RowsUnchanged
<1>3. req[r] \in Session /\ Sound(req[r]) /\ Knows(req[r])
  BY DEF IInv, TypeOK, SessionsSound, Honest
<1>4. (\A q \in Req \ {r} : req'[q] = req[q]) /\ Knows(req[r])'
  <2>1. CASE Finish(r)
    BY <2>1, IdleHonest
  <2>2. CASE \E s : Goto(r, s) /\ s.at \in {"grant", "locked"}
    BY <2>2, NothingKnown
  <2>3. CASE ExecuteLoad(r) \/ BrowserGivesUp(r)
    <3>1. /\ req[r].at \in {"execute", "browser"} /\ runs[req[r].own].appr # NoAppr
          /\ req[r].run \in 1..Len(runs)
      BY <1>3, <2>3
         DEF ExecuteLoad, BrowserGivesUp, At, Sound, Knows, IInv, Approvals
    <3>2. runs[req[r].run].questions \in Questions
      <4>1. runs[req[r].run] \in RunRow
        BY <3>1, ElementOfSeq DEF IInv, TypeOK
      <4> QED
        BY <4>1 DEF RunRow
    <3>3. CASE Goto(r, [req[r] EXCEPT !.at = "answered", !.report = "error"])
      <4>1. /\ req'[r].at = "answered" /\ req'[r].report = "error"
            /\ req'[r].own = req[r].own /\ \A q \in Req \ {r} : req'[q] = req[q]
        BY <1>3, <3>3 DEF Goto, IInv, TypeOK, Session
      <4> QED
        BY <1>1, <3>1, <4>1 DEF Knows
    <3>4. CASE Prepared(runs[req[r].run].questions) /\
               Goto(r, [req[r] EXCEPT !.at = "browser",
                                      !.questions = runs[req[r].run].questions])
      <4>1. runs[req[r].run].questions = "complete"
        BY <3>2, <3>4 DEF Prepared, Questions
      <4>2. /\ req'[r].at = "browser" /\ req'[r].questions = runs[req[r].run].questions
            /\ req'[r].own = req[r].own /\ req'[r].run = req[r].run
            /\ \A q \in Req \ {r} : req'[q] = req[q]
        BY <1>3, <3>4 DEF Goto, IInv, TypeOK, Session
      <4> QED
        BY <1>1, <3>1, <4>1, <4>2 DEF Knows
    <3> QED
      BY <2>3, <3>3, <3>4 DEF ExecuteLoad, BrowserGivesUp
  <2>4. CASE ApproveLookup(r) \/ SubmitLock(r)
    <3>1. \/ Finish(r)
          \/ Goto(r, [req[r] EXCEPT !.at = "grant"])
          \/ \E a \in ApprId :
               Goto(r, [req[r] EXCEPT !.at = "locked", !.appr = a])
      BY <2>4 DEF ApproveLookup, SubmitLock
    <3>2. [req[r] EXCEPT !.at = "grant"].at = "grant"
      BY <1>3 DEF Session
    <3>3. \A a \in ApprId :
            [req[r] EXCEPT !.at = "locked", !.appr = a].at = "locked"
      BY <1>3 DEF Session
    <3> QED
      BY <2>1, <2>2, <3>1, <3>2, <3>3
  <2> QED
    BY <2>1, <2>3, <2>4 DEF Moves, SubmitRefused, SendRefused, Crash, ApproveCommit
<1> QED
  BY <1>1, <1>2, <1>4, HonestKeeps

\* Editing the answers keeps a run's questions, and it is a preparation's run.
LEMMA AnswerHonest ==
    ASSUME IInv, Honest, NEW r \in Req, AnswerCommit(r)
    PROVE  Honest'
<1>0. PICK i : i = req[r].run
  OBVIOUS
<1>1. /\ i \in 1..Len(runs) /\ req[r] \in Session /\ runs[i] \in RunRow
      /\ req[r].questions # "none" /\ runs[i].questions # "none" /\ RowSound(i)
  BY <1>0, ElementOfSeq DEF AnswerCommit, At, IInv, TypeOK, SessionsSound, Sound, Honest, Knows
<1>2. PICK q \in {"complete", req[r].questions} : runs' = [runs EXCEPT ![i].questions = q]
  BY <1>0 DEF AnswerCommit
<1> DEFINE row == [runs[i] EXCEPT !.questions = q]
<1>3. /\ row \in RunRow /\ row.appr = runs[i].appr /\ row.questions # "none"
      /\ row.state = runs[i].state
  BY <1>1, <1>2 DEF RunRow, Session, Questions
<1>4. runs' = [runs EXCEPT ![i] = row]
  BY <1>2
<1>5. Finish(r) /\ UNCHANGED <<status, excused, ended, sent>>
  BY DEF AnswerCommit, historyVars
<1>6. row.appr = NoAppr /\ Ended(i)' /\ EndedGrows /\ (row.state = "running" => row.appr = NoAppr)
  BY <1>1, <1>3, <1>5 DEF RowSound, Ended, EndedGrows
<1> HIDE DEF row
<1>7. RowsLast /\ \A j \in 1..Len(runs') : RowSound(j)'
  BY <1>1, <1>3, <1>4, <1>5, <1>6, RowsUpdated
<1> QED
  BY <1>5, <1>7, IdleHonest, HonestKeeps DEF NoNewClaim

\* A run is recorded as completed, and the application as applied, only for a click
\* whose confirmation was seen.
LEMMA RecordHonest ==
    ASSUME IInv, Honest, NEW r \in Req, ExecuteRecord(r)
    PROVE  Honest'
<1> DEFINE i == req[r].own
           new == Outcome(req[r].report)
           row == [runs[i] EXCEPT !.state = new.run]
<1>1. /\ i \in 1..Len(runs) /\ runs[i] \in RunRow /\ RowSound(i)
      /\ runs[i].appr # NoAppr /\ (req[r].report = "ok" => Confirmed(i))
      /\ req[r] \in Session /\ req[r].report # "none"
  BY ElementOfSeq DEF ExecuteRecord, At, IInv, TypeOK, SessionsSound, Sound, Honest, Knows
<1>2. req[r].report \in {"ok", "unconfirmed", "error"}
  BY <1>1 DEF Session
<1>3. /\ new.run \in {"completed", "unknown", "failed"}
      /\ new.run = "completed" \/ new.app = "applied" => req[r].report = "ok"
  BY <1>2 DEF Outcome
<1>4. /\ row \in RunRow /\ row.appr = runs[i].appr /\ row.questions = runs[i].questions
      /\ row.state = new.run
  BY <1>1, <1>3 DEF RunRow
<1>5. /\ runs' = [runs EXCEPT ![i] = row] /\ status' = new.app /\ Finish(r) /\ UNCHANGED sent
      /\ ended' = ended \/ ended' = Append(ended, i)
  BY DEF ExecuteRecord, Overwrite, historyVars
<1>9. EndedGrows
  BY <1>1, <1>5, EndedNow DEF EndedGrows
<1>6. row.questions = "none"
  BY <1>1, <1>4 DEF RowSound
<1> HIDE DEF row, i, new
<1>7. RowsLast /\ \A j \in 1..Len(runs') : RowSound(j)'
  BY <1>1, <1>3, <1>4, <1>5, <1>6, <1>9, RowsUpdated
<1>8. NoNewClaim \/ \E c \in sent' : c.confirmed
  BY <1>1, <1>3, <1>5 DEF Confirmed, NoNewClaim
<1> QED
  BY <1>5, <1>7, <1>8, IdleHonest, HonestKeeps

\* Only a running preparation is given questions, when it completes; a late failure
\* leaves them.
LEMMA PreparationHonest ==
    ASSUME IInv, Honest, NEW i \in 1..Len(runs),
           PrepareFails(i) \/ \E q \in {"open", "complete"} : PrepareDone(i, q)
    PROVE  Honest'
<1>1. /\ runs[i] \in RunRow /\ runs[i].appr = NoAppr /\ UNCHANGED <<req, sent>>
      /\ runs[i].questions # "none" => Ended(i)
      /\ NoNewClaim
  BY ElementOfSeq
     DEF PrepareFails, PrepareDone, Preparing, Overwrite, NoNewClaim, IInv, TypeOK, Honest,
         RowSound, historyVars
<1>2. PICK row :
        /\ row \in RunRow /\ row.appr = NoAppr /\ EndedGrows
        /\ row.questions # "none" => Ended(i)'
        /\ runs[i].questions # "none" => row.questions # "none"
        /\ runs' = [runs EXCEPT ![i] = row]
  <2>1. CASE PrepareFails(i)
    <3> DEFINE row == [runs[i] EXCEPT !.state = "failed"]
    <3>1. row \in RunRow /\ row.appr = NoAppr /\ row.questions = runs[i].questions
      BY <1>1 DEF RunRow
    <3>2. runs' = [runs EXCEPT ![i] = row] /\ ended' = ended
      BY <2>1 DEF PrepareFails
    <3> HIDE DEF row
    <3>3. EndedGrows /\ (row.questions # "none" => Ended(i)')
      BY <1>1, <3>1, <3>2 DEF EndedGrows, Ended
    <3> QED
      BY <3>1, <3>2, <3>3
  <2>2. CASE \E q \in {"open", "complete"} : PrepareDone(i, q)
    <3>1. PICK q \in {"open", "complete"} : PrepareDone(i, q)
      BY <2>2
    <3> DEFINE row == [runs[i] EXCEPT !.state = "completed", !.questions = q]
    <3>2. row \in RunRow /\ row.appr = NoAppr /\ row.questions # "none"
      BY <1>1, <3>1 DEF RunRow, Questions
    <3>3. runs' = [runs EXCEPT ![i] = row] /\ ended' = Append(ended, i)
      BY <3>1 DEF PrepareDone
    <3> HIDE DEF row
    <3>4. EndedGrows /\ Ended(i)'
      BY <3>3, EndedNow
    <3> QED
      BY <3>2, <3>3, <3>4
  <2> QED
    BY <2>1, <2>2
<1>3. RowsLast /\ \A j \in 1..Len(runs') : RowSound(j)'
  BY <1>1, <1>2, RowsUpdated
<1> QED
  BY <1>1, <1>3, HonestKeeps

\* A run is inserted: of a preparation, of a submission, or bare.
LEMMA InsertHonest ==
    ASSUME IInv, Honest, NEW row \in RunRow, Len(runs) < MaxRuns, EndedGrows,
           runs' = Append(runs, row), row.questions = "none",
           row.appr = NoAppr \/ row.state = "submitting", UNCHANGED sent,
           \/ UNCHANGED req
           \/ \E r \in Req : (\A q \in Req \ {r} : req'[q] = req[q]) /\ Knows(req[r])',
           NoNewClaim
    PROVE  Honest'
<1>1. RowsLast /\ \A i \in 1..Len(runs') : RowSound(i)'
  BY RowsAppended
<1> QED
  BY <1>1, HonestKeeps

\* A new preparation run has no questions yet.
LEMMA PrepareCommitHonest ==
    ASSUME IInv, Honest, NEW r \in Req, PrepareCommit(r)
    PROVE  Honest'
<1> DEFINE row == [state |-> "running", questions |-> "none", appr |-> NoAppr]
<1>1. row \in RunRow /\ row.questions = "none" /\ row.appr = NoAppr
  BY DEF RunRow, Questions
<1>2. /\ Len(runs) < MaxRuns /\ runs' = Append(runs, row) /\ Finish(r) /\ UNCHANGED sent
      /\ EndedGrows /\ NoNewClaim
  BY DEF PrepareCommit, Write, Flush, EndedGrows, NoNewClaim, historyVars
<1> HIDE DEF row
<1> QED
  BY <1>1, <1>2, IdleHonest, InsertHonest

\* A submission run never has questions.
LEMMA SubmitCommitHonest ==
    ASSUME IInv, Honest, NEW r \in Req, SubmitCommit(r)
    PROVE  Honest'
<1> DEFINE a == req[r].appr
           row == [state |-> "submitting", questions |-> "none", appr |-> a]
<1>1. /\ a \in ApprId /\ req[r] \in Session
  BY DEF SubmitCommit, At, IInv, TypeOK, SessionsSound, Sound
<1>2. /\ row \in RunRow /\ row.questions = "none" /\ row.appr = a
      /\ row.state = "submitting" /\ row.appr # NoAppr
  BY <1>1, SubmissionAssumption DEF RunRow, Questions
<1>3. /\ Len(runs) < MaxRuns /\ runs' = Append(runs, row) /\ UNCHANGED sent
      /\ EndedGrows /\ NoNewClaim
  BY DEF SubmitCommit, Overwrite, EndedGrows, NoNewClaim, historyVars
<1>4. /\ req'[r].at = "execute" /\ req'[r].own = Len(runs) + 1
      /\ \A q \in Req \ {r} : req'[q] = req[q]
  BY <1>1 DEF SubmitCommit, Goto, IInv, TypeOK, Session
<1> HIDE DEF row, a
<1>5. runs'[Len(runs) + 1] = row
  BY <1>2, <1>3, RunAppended
<1>6. Knows(req[r])'
  BY <1>2, <1>4, <1>5 DEF Knows
<1> QED
  BY <1>2, <1>3, <1>4, <1>6, InsertHonest

\* A click submits the answers the session has loaded.
LEMMA ClickHonest ==
    ASSUME IInv, Honest, NEW r \in Req, BrowserClicks(r)
    PROVE  Honest'
<1>1. /\ req[r] \in Session /\ req[r].questions = "complete"
      /\ req[r].run \in 1..Len(runs) /\ runs[req[r].run].questions # "none"
      /\ runs[req[r].own].appr # NoAppr
  BY DEF BrowserClicks, At, IInv, TypeOK, Honest, Knows
<1>2. PICK report \in {"ok", "unconfirmed", "error"} :
        /\ sent' = sent \cup
                {[appr |-> req[r].appr, run |-> req[r].run, own |-> req[r].own,
                  questions |-> req[r].questions, confirmed |-> report = "ok"]}
        /\ Goto(r, [req[r] EXCEPT !.at = "answered", !.report = report])
  BY DEF BrowserClicks
<1> DEFINE click == [appr |-> req[r].appr, run |-> req[r].run, own |-> req[r].own,
                     questions |-> req[r].questions, confirmed |-> report = "ok"]
<1>3. /\ sent' = sent \cup {click} /\ click.run = req[r].run /\ click.own = req[r].own
      /\ click.questions = "complete" /\ (report = "ok" => click.confirmed)
  BY <1>1, <1>2
<1> HIDE DEF click
<1>4. /\ req'[r].at = "answered" /\ req'[r].report = report /\ req'[r].own = req[r].own
      /\ \A q \in Req \ {r} : req'[q] = req[q]
  BY <1>1, <1>2 DEF Goto, IInv, TypeOK, Session
<1>5. UNCHANGED <<runs, ended>> /\ NoNewClaim
  BY DEF BrowserClicks, NoNewClaim
<1>6. RowsLast /\ \A i \in 1..Len(runs') : RowSound(i)'
  BY <1>3, <1>5, RowsUnchanged
<1>7. Knows(req[r])'
  BY <1>1, <1>3, <1>4, <1>5 DEF Knows, Confirmed
<1>8. \A c \in sent' \ sent : Answers(c)'
  BY <1>1, <1>3, <1>5 DEF Answers
<1> QED
  BY <1>3, <1>4, <1>5, <1>6, <1>7, <1>8, HonestKeeps

\* An accepted email excuses the claim it writes.
LEMMA SendHonest ==
    ASSUME IInv, Honest, NEW r \in Req, SendCommit(r) \/ SendRecord(r)
    PROVE  Honest'
<1>1. UNCHANGED <<runs, ended, sent>>
  BY DEF SendCommit, SendRecord, historyVars
<1>2. RowsLast /\ \A i \in 1..Len(runs') : RowSound(i)'
  BY <1>1, RowsUnchanged
<1>3. CASE SendCommit(r)
  <2>1. PICK seen : Goto(r, [req[r] EXCEPT !.at = "mailing", !.seen = seen])
    BY <1>3 DEF SendCommit
  <2>2. [req[r] EXCEPT !.at = "mailing", !.seen = seen].at = "mailing"
    BY DEF IInv, TypeOK, Session
  <2>3. (\A q \in Req \ {r} : req'[q] = req[q]) /\ Knows(req[r])'
    BY <2>1, <2>2, NothingKnown
  <2>4. NoNewClaim
    BY <1>3 DEF SendCommit, Write, Flush, NoNewClaim
  <2> QED
    BY <1>1, <1>2, <2>3, <2>4, HonestKeeps
<1>4. CASE SendRecord(r)
  <2>1. Finish(r) /\ NoNewClaim
    BY <1>4 DEF SendRecord, SentStatus, Flush, NoNewClaim
  <2> QED
    BY <1>1, <1>2, <2>1, IdleHonest, HonestKeeps
<1> QED
  BY <1>3, <1>4

\* Whoever else claims a success is excused: the bare run of approve_package is no
\* submission's.
LEMMA OutsideHonest ==
    ASSUME IInv, Honest,
           \/ \E a \in ApprId : Expire(a) \/ PackageApproved(a)
           \/ PackageReapproved
           \/ \E h \in HashVal : PackageStored(h)
           \/ \E s \in OtherStatus : StatusWrittenElsewhere(s)
           \/ UNCHANGED vars
    PROVE  Honest'
<1>1. UNCHANGED <<req, sent>> /\ NoNewClaim
  <2>1. CASE (\E a \in ApprId : Expire(a)) \/ UNCHANGED vars
    BY <2>1 DEF Expire, NoNewClaim, vars, historyVars
  <2>2. CASE (\E a \in ApprId : PackageApproved(a)) \/ PackageReapproved
    BY <2>2 DEF PackageApproved, PackageReapproved, Turn, NoNewClaim, historyVars
  <2>3. CASE \E h \in HashVal : PackageStored(h)
    BY <2>3 DEF PackageStored, Turn, NoNewClaim, historyVars
  <2>4. CASE \E s \in OtherStatus : StatusWrittenElsewhere(s)
    BY <2>4 DEF StatusWrittenElsewhere, Claims, NoNewClaim, historyVars
  <2> QED
    BY <2>1, <2>2, <2>3, <2>4
<1>2. CASE UNCHANGED <<runs, ended>>
  BY <1>1, <1>2, RowsUnchanged, HonestKeeps
<1>3. CASE ~UNCHANGED <<runs, ended>>
  <2> DEFINE row == [state |-> "completed", questions |-> "none", appr |-> NoAppr]
  <2>1. row \in RunRow /\ row.questions = "none" /\ row.appr = NoAppr
    BY DEF RunRow, Questions
  <2>2. /\ Len(runs) < MaxRuns /\ runs' = Append(runs, row)
        /\ ended' = Append(ended, Len(runs) + 1)
    BY <1>3 DEF Expire, PackageApproved, PackageReapproved, PackageStored,
                StatusWrittenElsewhere, vars
  <2> HIDE DEF row
  <2>3. Len(runs) \in Nat
    BY LenProperties DEF IInv, TypeOK
  <2>4. Len(runs) + 1 \in 1..MaxRuns
    BY <2>2, <2>3, SubmissionAssumption
  <2>5. EndedGrows
    BY <2>2, <2>4 DEF EndedGrows
  <2> QED
    BY <1>1, <2>1, <2>2, <2>5, InsertHonest
<1> QED
  BY <1>2, <1>3

\* It holds at first.
LEMMA BeginsHonest == Init => Honest
<1> SUFFICES ASSUME Init
             PROVE  Honest
  OBVIOUS
<1> DEFINE row == [state |-> "running", questions |-> "none", appr |-> NoAppr]
<1>1. Len(runs) = 1 /\ runs[1] = row /\ sent = {} /\ status # "applied"
  BY DEF Init
<1>2. \A i \in 1..Len(runs) : RowSound(i)
  BY <1>1 DEF RowSound
<1>3. \A r \in Req : Knows(req[r])
  BY DEF Init, Idle, Knows
<1> QED
  BY <1>1, <1>2, <1>3 DEF Honest

\* Every step keeps it.
LEMMA StepHonest == IInv /\ Honest /\ [Next]_vars => Honest'
<1> SUFFICES ASSUME IInv, Honest, [Next]_vars
             PROVE  Honest'
  OBVIOUS
<1>1. ASSUME NEW r \in Req, Begin(r)
      PROVE  Honest'
  BY <1>1, BeginHonest
<1>2. ASSUME NEW r \in Req, Continue(r) \/ Crash(r)
      PROVE  Honest'
  BY <1>2, PrepareCommitHonest, AnswerHonest, SubmitCommitHonest, ClickHonest,
     RecordHonest, MovesHonest, SendHonest DEF Continue, Moves
<1>3. ASSUME NEW i \in 1..Len(runs),
             PrepareFails(i) \/ \E q \in {"open", "complete"} : PrepareDone(i, q)
      PROVE  Honest'
  BY <1>3, PreparationHonest
<1>4. CASE \/ \E a \in ApprId : Expire(a) \/ PackageApproved(a)
           \/ PackageReapproved
           \/ \E h \in HashVal : PackageStored(h)
           \/ \E s \in OtherStatus : StatusWrittenElsewhere(s)
           \/ UNCHANGED vars
  BY <1>4, OutsideHonest
<1> QED
  BY <1>1, <1>2, <1>3, <1>4 DEF Next

\* It holds in every reachable state.
LEMMA Honesty == Spec => []Honest
<1> QED
  BY BeginsHonest, StepHonest, Invariance, PTL DEF Spec

\* Only the answers of a preparation that had completed, without open questions, are
\* ever submitted (submission_service.py:317-332).
THEOREM OnlyPrepared == Spec => []SubmittedWasPrepared
<1>1. IInv /\ Honest => SubmittedWasPrepared
  BY DEF IInv, Honest, Answers, RowSound, Ended, SubmittedWasPrepared
<1> QED
  BY <1>1, Invariance, Honesty, PTL

\* Unless another component or an accepted email put it there, "applied" stands only
\* after a click whose confirmation was seen, and a submission's run completes only by
\* its own, whatever overlaps (submission_service.py:372-390, package_send.py:268-291).
THEOREM ClaimsConfirmed == Spec => []AppliedWasConfirmed
<1>1. IInv /\ Honest => AppliedWasConfirmed
  <2> SUFFICES ASSUME IInv, Honest
               PROVE  AppliedWasConfirmed
    OBVIOUS
  <2>1. DOMAIN runs = 1..Len(runs)
    BY LenProperties DEF IInv, TypeOK
  <2> QED
    BY <2>1 DEF Honest, RowSound, Confirmed, AppliedWasConfirmed
<1> QED
  BY <1>1, Invariance, Honesty, PTL

-----------------------------------------------------------------------------
(* Nothing stays "submitting" unless somebody is at work on it or has died. *)

AtWork == {"execute", "browser", "answered"}

\* A session that has marked the application as being submitted.
Marks(s) == s.own # 0 \/ (s.at = "mailing" /\ s.seen = "submitting")

Marked == status = "submitting" /\ ~excused

Working ==
    /\ \A r \in Req : req[r].own # 0 => req[r].at \in AtWork
    /\ \A i \in 1..Len(runs) : runs[i].state = "submitting" =>
           i \in lost \/ \E r \in Req : req[r].own = i
    /\ Marked => lost # {} \/ \E r \in Req : Marks(req[r])

\* A step keeps Working if whoever leaves a run settles it, and the status with it.
LEMMA WorkingKeeps ==
    ASSUME IInv, Working, lost \subseteq lost',
           \A r \in Req : req'[r].own # 0 => req'[r].at \in AtWork,
           \A r \in Req : req[r].own # 0 =>
               \/ req'[r].own = req[r].own \/ req[r].own \in lost'
               \/ runs'[req[r].own].state # "submitting",
           \A r \in Req : Marks(req[r]) => Marks(req'[r]) \/ lost' # {} \/ ~Marked',
           \A i \in 1..Len(runs') : runs'[i].state = "submitting" =>
               \/ i \in 1..Len(runs) /\ runs[i].state = "submitting"
               \/ \E r \in Req : req'[r].own = i,
           Marked' => Marked \/ \E r \in Req : Marks(req'[r])
    PROVE  Working'
<1>1. ASSUME NEW i \in 1..Len(runs'), runs'[i].state = "submitting"
      PROVE  i \in lost' \/ \E r \in Req : req'[r].own = i
  <2>1. CASE i \in 1..Len(runs) /\ runs[i].state = "submitting"
    <3>1. CASE i \in lost
      BY <3>1
    <3>2. CASE \E r \in Req : req[r].own = i
      <4>1. PICK r \in Req : req[r].own = i
        BY <3>2
      <4>2. i # 0
        OBVIOUS
      <4> QED
        BY <1>1, <4>1, <4>2
    <3> QED
      BY <2>1, <3>1, <3>2 DEF Working
  <2> QED
    BY <1>1, <2>1
<1>2. ASSUME Marked'
      PROVE  lost' # {} \/ \E r \in Req : Marks(req'[r])
  BY <1>2 DEF Working
<1> QED
  BY <1>1, <1>2 DEF Working, Marks

\* Steps of requests that have no run of their own, and that leave them without one.
LEMMA UnemployedKeeps ==
    ASSUME IInv, Working, NEW r \in Req, req[r].at \notin AtWork, lost \subseteq lost',
           NEW s, Goto(r, s), s.own \in {0, req[r].own}, Marks(req[r]) => ~Marked',
           \A i \in 1..Len(runs') : runs'[i].state = "submitting" =>
               i \in 1..Len(runs) /\ runs[i].state = "submitting",
           Marked' => Marked \/ Marks(s)
    PROVE  Working'
<1>1. req'[r] = s /\ \A q \in Req : q # r => req'[q] = req[q]
  BY DEF Goto, IInv, TypeOK
<1>2. req[r].own = 0 /\ s.own = 0
  BY DEF Working
<1>3. \A q \in Req : req'[q].own = req[q].own /\ (req'[q].own # 0 => req'[q].at \in AtWork)
  BY <1>1, <1>2 DEF Working
<1>4. \A q \in Req : Marks(req[q]) => Marks(req'[q]) \/ ~Marked'
  BY <1>1 DEF Marks
<1>5. Marked' => Marked \/ \E q \in Req : Marks(req'[q])
  BY <1>1
<1> QED
  BY <1>3, <1>4, <1>5, WorkingKeeps

\* Beginning a request takes up no run.
LEMMA BeginWorking ==
    ASSUME IInv, Working, NEW r \in Req, Begin(r)
    PROVE  Working'
<1>1. /\ UNCHANGED <<status, excused, runs, lost>> /\ req[r].at = "idle"
  BY DEF Begin, PrepareRead, AnswerRead, ApproveRead, SubmitRead, SendRead, historyVars, At
<1>2. PICK at, seen, run, q, a :
        \/ Goto(r, [Idle EXCEPT !.at = at])
        \/ Goto(r, [Idle EXCEPT !.at = at, !.seen = seen])
        \/ Goto(r, [Idle EXCEPT !.at = at, !.run = run])
        \/ Goto(r, [Idle EXCEPT !.at = at, !.run = run, !.questions = q])
        \/ Goto(r, [Idle EXCEPT !.at = at, !.appr = a, !.seen = seen])
  BY DEF Begin, PrepareRead, AnswerRead, ApproveRead, SubmitRead, SendRead
<1>3. /\ [Idle EXCEPT !.at = at].own = 0
      /\ [Idle EXCEPT !.at = at, !.seen = seen].own = 0
      /\ [Idle EXCEPT !.at = at, !.run = run].own = 0
      /\ [Idle EXCEPT !.at = at, !.run = run, !.questions = q].own = 0
      /\ [Idle EXCEPT !.at = at, !.appr = a, !.seen = seen].own = 0
  BY DEF Idle
<1>4. req[r].at \notin AtWork /\ ~Marks(req[r]) /\ (Marked' => Marked)
  BY <1>1 DEF AtWork, Marks, Marked, Working
<1> QED
  BY <1>1, <1>2, <1>3, <1>4, UnemployedKeeps

\* Before the commit of approve_and_submit there is no run to leave behind.
LEMMA MovesWorking ==
    ASSUME IInv, Working, NEW r \in Req,
           \/ ApproveLookup(r) \/ SubmitLock(r) \/ SubmitRefused(r) \/ ApproveCommit(r)
           \/ SendRefused(r)
    PROVE  Working'
<1>1. /\ UNCHANGED <<status, excused, runs, lost>> /\ req[r] \in Session
      /\ req[r].at \in {"approve", "submit", "locked", "grant", "mail"}
  BY DEF ApproveLookup, SubmitLock, SubmitRefused, ApproveCommit, SendRefused, historyVars,
         At, IInv, TypeOK
<1>2. \/ Finish(r)
      \/ Goto(r, [req[r] EXCEPT !.at = "grant"])
      \/ \E a \in ApprId :
           Goto(r, [req[r] EXCEPT !.at = "locked", !.appr = a])
  BY DEF ApproveLookup, SubmitLock, SubmitRefused, ApproveCommit, SendRefused
<1>3. /\ Idle.own = 0 /\ [req[r] EXCEPT !.at = "grant"].own = req[r].own
      /\ \A a \in ApprId :
           [req[r] EXCEPT !.at = "locked", !.appr = a].own = req[r].own
  BY <1>1 DEF Idle, Session
<1>4. req[r].at \notin AtWork /\ ~Marks(req[r]) /\ (Marked' => Marked)
  BY <1>1 DEF AtWork, Marks, Marked, Working
<1> QED
  BY <1>1, <1>2, <1>3, <1>4, UnemployedKeeps DEF Finish

\* Preparing again and answering write rows that are not a submission's.
LEMMA WritesWorking ==
    ASSUME IInv, Working, NEW r \in Req, PrepareCommit(r) \/ AnswerCommit(r)
    PROVE  Working'
<1>1. /\ UNCHANGED lost /\ req[r].at \in {"prepare", "answer"} /\ Finish(r)
      /\ runs \in Seq(RunRow) /\ Len(runs) \in Nat /\ (Marked' => Marked)
  BY LenProperties
     DEF PrepareCommit, AnswerCommit, historyVars, At, IInv, TypeOK, Write, Flush, Marked
<1>2. \A i \in 1..Len(runs') : runs'[i].state = "submitting" =>
          i \in 1..Len(runs) /\ runs[i].state = "submitting"
  <2>1. CASE PrepareCommit(r)
    <3> DEFINE row == [state |-> "running", questions |-> "none", appr |-> NoAppr]
    <3>1. row \in RunRow /\ row.state = "running" /\ runs' = Append(runs, row)
      BY <2>1 DEF RunRow, Questions, PrepareCommit
    <3> HIDE DEF row
    <3>2. /\ Len(runs') = Len(runs) + 1 /\ runs'[Len(runs) + 1] = row
          /\ \A i \in 1..Len(runs) : runs'[i] = runs[i]
      BY <3>1, RunAppended
    <3>3. \A i \in 1..Len(runs') : i \in 1..Len(runs) \/ i = Len(runs) + 1
      BY <1>1, <3>2
    <3> QED
      BY <3>1, <3>2, <3>3
  <2>2. CASE AnswerCommit(r)
    <3>1. req[r].run \in 1..Len(runs)
      BY <2>2 DEF AnswerCommit, At, IInv, SessionsSound, Sound
    <3>2. runs[req[r].run] \in RunRow
      BY <1>1, <3>1, ElementOfSeq
    <3>3. PICK q : runs' = [runs EXCEPT ![req[r].run].questions = q]
      BY <2>2 DEF AnswerCommit
    <3>4. [runs[req[r].run] EXCEPT !.questions = q].state = runs[req[r].run].state
      BY <3>2 DEF RunRow
    <3>5. DOMAIN runs = 1..Len(runs) /\ DOMAIN runs' = 1..Len(runs)
      BY <1>1, <3>3, LenProperties
    <3>6. Len(runs') = Len(runs)
      BY <1>1, <3>3
    <3> QED
      BY <3>1, <3>3, <3>4, <3>5, <3>6
  <2> QED
    BY <2>1, <2>2
<1>3. Idle.own = 0 /\ req[r].at \notin AtWork /\ ~Marks(req[r])
  BY <1>1 DEF Idle, AtWork, Marks, Working
<1> QED
  BY <1>1, <1>2, <1>3, UnemployedKeeps DEF Finish

\* A send marks the application as long as it does not know the verdict.
LEMMA SendWorking ==
    ASSUME IInv, Working, NEW r \in Req, SendCommit(r) \/ SendRecord(r)
    PROVE  Working'
<1>1. UNCHANGED <<runs, lost>> /\ req[r] \in Session /\ req[r].at \in {"mail", "mailing"}
  BY DEF SendCommit, SendRecord, At, historyVars, IInv, TypeOK
<1>2. req[r].at \notin AtWork /\ req[r].own = 0
  BY <1>1 DEF AtWork, Working
<1>3. CASE SendCommit(r)
  <2> DEFINE seen == req[r].seen
             new == IF seen \in Settled THEN seen ELSE "submitting"
             s == [req[r] EXCEPT !.at = "mailing", !.seen = new]
  <2>1. Goto(r, s) /\ req[r].at = "mail" /\ Write(seen, new)
    BY <1>3 DEF SendCommit, At
  <2>2. s.own = 0 /\ (new = "submitting" => Marks(s))
    BY <1>1, <1>2 DEF Session, Marks
  <2>3. ~Marks(req[r])
    BY <1>2, <2>1 DEF Marks
  <2>4. Marked' => Marked \/ new = "submitting"
    BY <2>1 DEF Write, Flush, Marked
  <2> HIDE DEF s, new
  <2> QED
    BY <1>1, <1>2, <2>1, <2>2, <2>3, <2>4, UnemployedKeeps
<1>4. CASE SendRecord(r)
  <2>1. PICK verdict \in {"sent", "unknown", "failed"} :
          /\ status' = Flush(req[r].seen, SentStatus(verdict), status)
          /\ excused' = IF SentStatus(verdict) = req[r].seen THEN excused
                        ELSE verdict = "sent"
    BY <1>4 DEF SendRecord
  <2>2. SentStatus(verdict) # "submitting"
    BY <2>1 DEF SentStatus
  <2>3. (Marks(req[r]) => ~Marked') /\ (Marked' => Marked)
    BY <1>2, <2>1, <2>2 DEF Flush, Marks, Marked
  <2>4. Goto(r, Idle) /\ Idle.own = 0
    BY <1>4 DEF SendRecord, Finish, Idle
  <2> QED
    BY <1>1, <1>2, <2>3, <2>4, UnemployedKeeps
<1> QED
  BY <1>3, <1>4

\* The browser session goes on with its run.
LEMMA EmployedWorking ==
    ASSUME IInv, Working, NEW r \in Req,
           ExecuteLoad(r) \/ BrowserGivesUp(r) \/ BrowserClicks(r)
    PROVE  Working'
<1>1. UNCHANGED <<status, excused, runs, lost>> /\ req[r] \in Session
  BY DEF ExecuteLoad, BrowserGivesUp, BrowserClicks, historyVars, IInv, TypeOK
<1>2. /\ req'[r].own = req[r].own /\ req'[r].at \in AtWork
      /\ \A q \in Req : q # r => req'[q] = req[q]
  <2>1. PICK report, q :
          \/ Goto(r, [req[r] EXCEPT !.at = "answered", !.report = report])
          \/ Goto(r, [req[r] EXCEPT !.at = "browser", !.questions = q])
    BY DEF ExecuteLoad, BrowserGivesUp, BrowserClicks
  <2>2. CASE Goto(r, [req[r] EXCEPT !.at = "answered", !.report = report])
    BY <1>1, <2>2 DEF Goto, Session, IInv, TypeOK, AtWork
  <2>3. CASE Goto(r, [req[r] EXCEPT !.at = "browser", !.questions = q])
    BY <1>1, <2>3 DEF Goto, Session, IInv, TypeOK, AtWork
  <2> QED
    BY <2>1, <2>2, <2>3
<1>3. \A q \in Req : req'[q].own = req[q].own /\ (req'[q].own # 0 => req'[q].at \in AtWork)
  BY <1>2 DEF Working
<1>4. req[r].at # "mailing" /\ (Marked' => Marked)
  BY <1>1 DEF ExecuteLoad, BrowserGivesUp, BrowserClicks, At, Marked
<1>5. \A q \in Req : Marks(req[q]) => Marks(req'[q])
  BY <1>2, <1>4 DEF Marks
<1> QED
  BY <1>1, <1>3, <1>4, <1>5, WorkingKeeps

\* A request that dies is accounted as lost, or its mark as excused.
LEMMA CrashWorking ==
    ASSUME IInv, Working, NEW r \in Req, Crash(r)
    PROVE  Working'
<1>1. /\ UNCHANGED <<status, runs>> /\ lost' = lost \cup ({req[r].own} \ {0})
      /\ excused' = (excused \/ (req[r].at = "mailing" /\ "submitting" = req[r].seen
                                /\ "submitting" = status))
      /\ req'[r] = Idle /\ \A q \in Req : q # r => req'[q] = req[q]
  BY DEF Crash, At, Finish, Goto, IInv, TypeOK
<1>2. Idle.own = 0
  BY DEF Idle
<1>3. \A q \in Req : req'[q].own # 0 => req'[q].at \in AtWork
  BY <1>1, <1>2 DEF Working
<1>4. \A q \in Req : req[q].own # 0 => req'[q].own = req[q].own \/ req[q].own \in lost'
  BY <1>1
<1>5. \A q \in Req : Marks(req[q]) => Marks(req'[q]) \/ lost' # {} \/ ~Marked'
  BY <1>1 DEF Marks, Marked
<1>6. Marked' => Marked
  BY <1>1 DEF Marked
<1> QED
  BY <1>1, <1>3, <1>4, <1>5, <1>6, WorkingKeeps

\* The submission run comes with the session that is at work on it.
LEMMA SubmitWorking ==
    ASSUME IInv, Working, NEW r \in Req, SubmitCommit(r)
    PROVE  Working'
<1> DEFINE row == [state |-> "submitting", questions |-> "none", appr |-> req[r].appr]
<1>1. req[r] \in Session /\ req[r].at = "locked" /\ req[r].own = 0 /\ Len(runs) \in Nat
  BY LenProperties DEF SubmitCommit, At, IInv, TypeOK, Working, AtWork
<1>2. row \in RunRow /\ UNCHANGED lost /\ runs' = Append(runs, row)
  BY <1>1 DEF SubmitCommit, RunRow, Questions, historyVars, IInv, SessionsSound, Session
<1> HIDE DEF row
<1>3. Len(runs') = Len(runs) + 1 /\ \A i \in 1..Len(runs) : runs'[i] = runs[i]
  BY <1>2, RunAppended
<1>4. /\ req'[r].at = "execute" /\ req'[r].own = Len(runs) + 1
      /\ \A q \in Req : q # r => req'[q] = req[q]
  BY <1>1 DEF SubmitCommit, Goto, IInv, TypeOK, Session
<1>5. \A q \in Req : req'[q].own # 0 => req'[q].at \in AtWork
  BY <1>4 DEF Working, AtWork
<1>6. \A q \in Req : req[q].own # 0 => req'[q].own = req[q].own
  BY <1>1, <1>4
<1>7. \A i \in 1..Len(runs') : i \in 1..Len(runs) \/ i = Len(runs) + 1
  BY <1>1, <1>3
<1>8. \E q \in Req : req'[q].own = Len(runs) + 1 /\ Marks(req'[q])
  BY <1>1, <1>4 DEF Marks
<1>9. \A q \in Req : Marks(req[q]) => Marks(req'[q])
  BY <1>1, <1>4 DEF Marks
<1> QED
  BY <1>2, <1>3, <1>5, <1>6, <1>7, <1>8, <1>9, WorkingKeeps

\* Every outcome settles the run and the status.
LEMMA RecordWorking ==
    ASSUME IInv, Working, NEW r \in Req, ExecuteRecord(r)
    PROVE  Working'
<1> DEFINE i == req[r].own
           new == Outcome(req[r].report)
<1>1. /\ i \in 1..Len(runs) /\ runs[i] \in RunRow /\ req[r] \in Session
      /\ req[r].report # "none" /\ runs \in Seq(RunRow)
  BY ElementOfSeq DEF ExecuteRecord, At, IInv, TypeOK, SessionsSound, Sound
<1>2. req[r].report \in {"ok", "unconfirmed", "error"}
  BY <1>1 DEF Session
<1>3. new.run # "submitting" /\ new.app # "submitting"
  BY <1>2 DEF Outcome
<1> DEFINE row == [runs[i] EXCEPT !.state = new.run]
<1>4. row.state = new.run
  BY <1>1 DEF RunRow
<1>5. runs' = [runs EXCEPT ![i] = row] /\ status' = new.app /\ UNCHANGED lost
  BY DEF ExecuteRecord, Overwrite, historyVars
<1>6. req'[r] = Idle /\ \A q \in Req : q # r => req'[q] = req[q]
  BY DEF ExecuteRecord, Finish, Goto, IInv, TypeOK
<1> HIDE DEF row, i, new
<1>7. /\ Len(runs') = Len(runs) /\ runs'[i] = row
      /\ \A j \in 1..Len(runs) : j # i => runs'[j] = runs[j]
  BY <1>1, <1>5, ExceptSeq
<1>8. \A q \in Req : req'[q].own # 0 => req'[q].at \in AtWork
  BY <1>6 DEF Working, Idle
<1>9. \A q \in Req : req[q].own # 0 =>
          req'[q].own = req[q].own \/ runs'[req[q].own].state # "submitting"
  BY <1>3, <1>4, <1>6, <1>7 DEF i
<1>10. \A j \in 1..Len(runs') : runs'[j].state = "submitting" =>
          j \in 1..Len(runs) /\ runs[j].state = "submitting"
  BY <1>3, <1>4, <1>7
<1>11. ~Marked'
  BY <1>3, <1>5 DEF Marked
<1> QED
  BY <1>3, <1>5, <1>8, <1>9, <1>10, <1>11, WorkingKeeps

\* Whoever else writes "submitting" is excused.
LEMMA OutsideWorking ==
    ASSUME IInv, Working,
           \/ \E i \in 1..Len(runs) :
                PrepareFails(i) \/ \E q \in {"open", "complete"} : PrepareDone(i, q)
           \/ \E a \in ApprId : Expire(a) \/ PackageApproved(a)
           \/ PackageReapproved
           \/ \E h \in HashVal : PackageStored(h)
           \/ \E s \in OtherStatus : StatusWrittenElsewhere(s)
           \/ UNCHANGED vars
    PROVE  Working'
<1>1. /\ UNCHANGED <<req, lost>> /\ runs \in Seq(RunRow) /\ Len(runs) \in Nat
      /\ Marked' => Marked
  BY LenProperties
     DEF PrepareFails, PrepareDone, Expire, PackageApproved, PackageReapproved,
         PackageStored, StatusWrittenElsewhere, Overwrite, Turn, Claims, Marked, vars,
         historyVars, IInv, TypeOK
<1>2. \A i \in 1..Len(runs') : runs'[i].state = "submitting" =>
          i \in 1..Len(runs) /\ runs[i].state = "submitting"
  <2>1. CASE UNCHANGED runs
    BY <2>1
  <2>2. ASSUME NEW i \in 1..Len(runs), NEW state \in {"failed", "completed"}, NEW q,
               \/ runs' = [runs EXCEPT ![i].state = state]
               \/ runs' = [runs EXCEPT ![i].state = state, ![i].questions = q]
        PROVE  \A j \in 1..Len(runs') : runs'[j].state = "submitting" =>
                   j \in 1..Len(runs) /\ runs[j].state = "submitting"
    <3>1. runs[i] \in RunRow
      BY <1>1, ElementOfSeq
    <3>2. Len(runs') = Len(runs) /\ DOMAIN runs' = 1..Len(runs)
      BY <1>1, <2>2
    <3>3. \A j \in 1..Len(runs) : j # i => runs'[j] = runs[j]
      BY <1>1, <2>2
    <3>4. runs'[i].state = state
      BY <1>1, <2>2, <3>1 DEF RunRow
    <3> QED
      BY <2>2, <3>2, <3>3, <3>4
  <2>3. ASSUME NEW row \in RunRow, row.state = "completed", runs' = Append(runs, row)
        PROVE  \A j \in 1..Len(runs') : runs'[j].state = "submitting" =>
                   j \in 1..Len(runs) /\ runs[j].state = "submitting"
    <3>1. /\ Len(runs') = Len(runs) + 1 /\ runs'[Len(runs) + 1] = row
          /\ \A j \in 1..Len(runs) : runs'[j] = runs[j]
      BY <2>3, RunAppended
    <3>2. \A j \in 1..Len(runs') : j \in 1..Len(runs) \/ j = Len(runs) + 1
      BY <1>1, <3>1
    <3> QED
      BY <2>3, <3>1, <3>2
  <2>4. \/ UNCHANGED runs
        \/ \E i \in 1..Len(runs) : runs' = [runs EXCEPT ![i].state = "failed"]
        \/ \E i \in 1..Len(runs), q \in {"open", "complete"} :
             runs' = [runs EXCEPT ![i].state = "completed", ![i].questions = q]
        \/ runs' = Append(runs, [state |-> "completed", questions |-> "none",
                                 appr |-> NoAppr])
    BY DEF PrepareFails, PrepareDone, Expire, PackageApproved, PackageReapproved,
           PackageStored, StatusWrittenElsewhere, vars
  <2>5. [state |-> "completed", questions |-> "none", appr |-> NoAppr] \in RunRow
    BY DEF RunRow, Questions
  <2> QED
    BY <2>1, <2>2, <2>3, <2>4, <2>5
<1>3. \A r \in Req : req'[r].own = req[r].own /\ (req'[r].own # 0 => req'[r].at \in AtWork)
  BY <1>1 DEF Working
<1> QED
  BY <1>1, <1>2, <1>3, WorkingKeeps

\* No error path leaves a run "submitting", or the application on account of one or of
\* a send, with nobody at work on it; only a request that died does, or another
\* component wrote it (submission_service.py:300-309, package_send.py:245-291).
THEOREM SubmittingIsSettled == Spec => []SubmittingIsWorkedOn
<1>1. Init => Working
  BY DEF Init, Idle, Working, Marked
<1>2. IInv /\ Working /\ [Next]_vars => Working'
  BY BeginWorking, MovesWorking, WritesWorking, EmployedWorking, CrashWorking,
     SubmitWorking, RecordWorking, SendWorking, OutsideWorking DEF Next, Continue
<1>3. IInv /\ Working => SubmittingIsWorkedOn
  <2> SUFFICES ASSUME IInv, Working
               PROVE  SubmittingIsWorkedOn
    OBVIOUS
  <2>1. DOMAIN runs = 1..Len(runs)
    BY LenProperties DEF IInv, TypeOK
  <2> QED
    BY <2>1 DEF Working, Marks, Marked, At, SubmittingIsWorkedOn
<1> QED
  BY <1>1, <1>2, <1>3, Invariance, PTL DEF Spec

=============================================================================
