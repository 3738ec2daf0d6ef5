----------------------- MODULE ApplicationPackage_proofs -----------------------
(***************************************************************************)
(* The safety of the package review flow for every number of requests,     *)
(* packages and approvals, with crashes at every await.                    *)
(***************************************************************************)
EXTENDS ApplicationPackage, TLAPS

\* What a session remembers of the rows it loaded is true of the rows as they
\* are now, because what it relies on never changes once written.
RowsLoaded ==
    \A r \in Req :
        /\ req[r].at \in {"approve", "send", "call", "answered", "qa", "confirm"}
               => req[r].pkg \in created
        /\ req[r].at \in {"edit", "flushed"}
               => req[r].content \in Content /\ req[r].prior \subseteq created
        /\ At(r, "flushed") => \A q \in req[r].prior : version[q] < req[r].version

ApprovalLoaded ==
    \A r \in Req :
        /\ req[r].at \in {"send", "call", "answered"}
               => /\ req[r].appr \in granted
                  /\ forHash[req[r].appr] = Hash[content[req[r].pkg]]
        /\ At(r, "send") /\ req[r].was # "none" => sendState[req[r].pkg] # "none"
        /\ req[r].at \in {"call", "answered"}
               => used[req[r].appr] /\ sendState[req[r].pkg] # "none"
        /\ At(r, "answered") => req[r].was \in {"sent", "failed", "unknown"}

MailedRows == \A m \in mailed : m[1] \in created

IInv ==
    /\ TypeOK
    /\ RowsLoaded
    /\ ApprovalLoaded
    /\ MailedRows
    /\ SentWasApproved
    /\ NewestIsCurrent

-----------------------------------------------------------------------------
\* A session that has just loaded rows as they are.
LoadedNow(s) ==
    /\ s \in Session
    /\ s.at \in {"approve", "send", "qa", "confirm"} => s.pkg \in created
    /\ s.at \in {"edit", "flushed"} => s.content \in Content /\ s.prior \subseteq created
    /\ s.at = "flushed" => \A q \in s.prior : version[q] < s.version
    /\ s.at = "send" => /\ s.appr \in granted
                        /\ forHash[s.appr] = Hash[content[s.pkg]]
                        /\ s.was # "none" => sendState[s.pkg] # "none"
    /\ s.at \notin {"call", "answered"}

\* What only loads rows keeps the invariant.
LEMMA LoadKeeps ==
    ASSUME IInv, NEW r \in Req, NEW s, LoadedNow(s), Goto(r, s),
           UNCHANGED <<status, prepRun, packageVars, approvalVars, historyVars>>
    PROVE  IInv'
<1> USE DEF packageVars, approvalVars, historyVars
<1>1. req' = [req EXCEPT ![r] = s] /\ req \in [Req -> Session] /\ s \in Session
  BY DEF Goto, IInv, TypeOK, LoadedNow
<1>2. /\ req' \in [Req -> Session]
      /\ req'[r] = s
      /\ \A o \in Req : o # r => req'[o] = req[o]
  BY <1>1
<1>3. TypeOK'
  BY <1>2 DEF IInv, TypeOK
<1>4. RowsLoaded'
  BY <1>2 DEF IInv, RowsLoaded, At, LoadedNow
<1>5. ApprovalLoaded'
  BY <1>2 DEF IInv, ApprovalLoaded, At, LoadedNow
<1>6. MailedRows' /\ SentWasApproved' /\ NewestIsCurrent'
  BY DEF IInv, MailedRows, SentWasApproved, NewestIsCurrent
<1> QED
  BY <1>3, <1>4, <1>5, <1>6 DEF IInv

LEMMA IdleIsSession ==
    /\ Idle \in Session /\ Idle.at = "idle" /\ Idle.seen = "none"
  BY DEF Idle, Session, Where, Status, Verdict, SendState

LEMMA EditFlushLoads ==
    ASSUME IInv, NEW r \in Req, EditFlush(r)
    PROVE  \E s : LoadedNow(s) /\ Goto(r, s) /\ s.seen = req[r].seen
<1>1. PICK n \in 1..(Cardinality(created) + 1) :
          IsNextVersion(n) /\ Goto(r, [req[r] EXCEPT !.at = "flushed", !.version = n])
  BY DEF EditFlush
<1> DEFINE s == [req[r] EXCEPT !.at = "flushed", !.version = n]
<1>2. req[r] \in Session /\ At(r, "edit") /\ n \in Nat
  BY DEF IInv, TypeOK, EditFlush
<1>3. s \in Session /\ s.at = "flushed" /\ s.version = n /\ s.seen = req[r].seen
      /\ s.content = req[r].content /\ s.prior = req[r].prior
  BY <1>2 DEF Session, Where
<1>4. s.content \in Content /\ s.prior \subseteq created
  BY <1>2, <1>3 DEF IInv, RowsLoaded, At
<1>5. \A q \in s.prior : version[q] < s.version
  BY <1>1, <1>3, <1>4 DEF IsNextVersion
<1> HIDE DEF s
<1>6. LoadedNow(s)
  BY <1>3, <1>4, <1>5 DEF LoadedNow
<1> QED
  BY <1>1, <1>3, <1>6 DEF s

\* Shared by EditRead and DraftDone.
LEMMA LoadForEditLoads ==
    ASSUME IInv, NEW r \in Req, NEW c \in Content, NEW held, NEW heldBound \in BOOLEAN,
           LoadForEdit(r, c, held, heldBound)
    PROVE  \E s : LoadedNow(s) /\ Goto(r, s) /\ s.seen = "none"
<1> DEFINE edit(p, bound) ==
        [Idle EXCEPT !.at = "edit", !.pkg = p, !.content = c, !.prior = CurrentRows,
                     !.moves = bound /\ status = "approved"]
<1>1. PICK p \in PkgId \cup {NoPkg}, bound \in BOOLEAN : Goto(r, edit(p, bound))
  <2>1. CASE CurrentRows = {} /\ Goto(r, edit(NoPkg, FALSE))
    BY <2>1
  <2>2. ASSUME NEW p \in Newest,
               Goto(r, edit(p, IF p = held THEN heldBound ELSE approvalId[p] # NoAppr))
        PROVE  \E q \in PkgId, bound \in BOOLEAN : Goto(r, edit(q, bound))
    <3>1. p \in PkgId
      BY DEF IInv, TypeOK, Newest, CurrentRows
    <3>2. (IF p = held THEN heldBound ELSE approvalId[p] # NoAppr) \in BOOLEAN
      OBVIOUS
    <3> QED
      BY <2>2, <3>1, <3>2
  <2> QED
    BY <2>1, <2>2 DEF LoadForEdit
<1>2. CurrentRows \subseteq created /\ CurrentRows \subseteq PkgId
  BY DEF IInv, TypeOK, CurrentRows
<1>3. /\ edit(p, bound) \in Session
      /\ edit(p, bound).at = "edit" /\ edit(p, bound).seen = "none"
      /\ edit(p, bound).content = c /\ edit(p, bound).prior = CurrentRows
  BY <1>2 DEF Session, Idle, Where, Status, Verdict, SendState
<1> HIDE DEF edit
<1>4. LoadedNow(edit(p, bound))
  BY <1>2, <1>3 DEF LoadedNow
<1> QED
  BY <1>1, <1>3, <1>4

\* The requests that load a row as it is now.
LEMMA BeginLoads ==
    ASSUME IInv, NEW r \in Req, Begin(r)
    PROVE  /\ \E s : LoadedNow(s) /\ Goto(r, s) /\ s.seen \in {"none", status}
           /\ UNCHANGED <<status, prepRun, packageVars, approvalVars, historyVars>>
<1>1. ASSUME NEW p \in Newest PROVE p \in PkgId /\ p \in created
  BY DEF IInv, TypeOK, Newest, CurrentRows
<1> DEFINE loads == \E s : LoadedNow(s) /\ Goto(r, s) /\ s.seen \in {"none", status}
<1>2. ASSUME NEW c \in Content, EditRead(r, c) PROVE loads
  BY <1>2, LoadForEditLoads DEF EditRead
<1>3. ASSUME DraftRead(r) PROVE loads
  <2>1. PICK p \in Newest :
            Goto(r, [Idle EXCEPT !.at = "draft", !.pkg = p, !.bound = approvalId[p] # NoAppr])
    BY <1>3 DEF DraftRead
  <2> DEFINE s == [Idle EXCEPT !.at = "draft", !.pkg = p, !.bound = approvalId[p] # NoAppr]
  <2>2. s \in Session /\ s.at = "draft" /\ s.seen = "none"
    BY <1>1 DEF Session, Idle, Where, Status, Verdict, SendState
  <2> HIDE DEF s
  <2> QED
    BY <2>1, <2>2 DEF LoadedNow, s
<1>4. ASSUME ApproveRead(r) PROVE loads
  <2> DEFINE s(p, a) == [Idle EXCEPT !.at = "approve", !.pkg = p, !.appr = a,
                                     !.moves = status \in Reviewable]
  <2>1. PICK p \in Newest, a \in ApprId \cup {NoAppr} : Goto(r, s(p, a))
    <3>1. PICK p \in Newest :
              \/ Goto(r, s(p, NoAppr))
              \/ \E a \in Live(Hash[content[p]]) : Goto(r, s(p, a))
      BY <1>4 DEF ApproveRead
    <3>2. Live(Hash[content[p]]) \subseteq ApprId
      BY DEF Live, IInv, TypeOK
    <3> QED
      BY <3>1, <3>2
  <2>2. s(p, a) \in Session /\ s(p, a).at = "approve" /\ s(p, a).pkg = p
      /\ s(p, a).seen = "none"
    BY <1>1, p \in PkgId, (status \in Reviewable) \in BOOLEAN
       DEF Session, Idle, Where, Status, Verdict, SendState
  <2> HIDE DEF s
  <2> QED
    BY <1>1, <2>1, <2>2 DEF LoadedNow
<1>5. ASSUME SendRead(r) PROVE loads
  <2> DEFINE s(p, a) == [Idle EXCEPT !.at = "send", !.pkg = p, !.appr = a,
                                     !.seen = status, !.was = sendState[p]]
  <2>1. PICK p \in Newest, a \in ApprId :
            Live(Hash[content[p]]) = {a} /\ Goto(r, s(p, a))
    BY <1>5 DEF SendRead
  <2>2. a \in granted /\ forHash[a] = Hash[content[p]]
    BY <2>1 DEF Live
  <2>3. status \in Status /\ sendState[p] \in SendState
    BY <1>1 DEF IInv, TypeOK
  <2>4. /\ s(p, a) \in Session /\ s(p, a).at = "send" /\ s(p, a).pkg = p
        /\ s(p, a).appr = a /\ s(p, a).was = sendState[p] /\ s(p, a).seen = status
    BY <1>1, <2>3 DEF Session, Idle, Where, Verdict, SendState
  <2> HIDE DEF s
  <2> QED
    BY <1>1, <2>1, <2>2, <2>4 DEF LoadedNow
<1>6. ASSUME QaRead(r) PROVE loads
  <2> DEFINE s(p) == [Idle EXCEPT !.at = "qa", !.pkg = p, !.was = qa[p],
                                  !.moves = approvalId[p] = NoAppr /\ status = "approved"]
  <2>1. PICK p \in Newest : Goto(r, s(p))
    BY <1>6 DEF QaRead
  <2>2. qa[p] \in Verdict
    BY <1>1 DEF IInv, TypeOK
  <2>3. s(p) \in Session /\ s(p).at = "qa" /\ s(p).pkg = p /\ s(p).seen = "none"
    BY <1>1, <2>2 DEF Session, Idle, Where, Status, SendState
  <2> HIDE DEF s
  <2> QED
    BY <1>1, <2>1, <2>3 DEF LoadedNow
<1>7. ASSUME ConfirmRead(r) PROVE loads
  <2> DEFINE s(p) == [Idle EXCEPT !.at = "confirm", !.pkg = p]
  <2>1. PICK p \in CurrentRows : Goto(r, s(p))
    BY <1>7 DEF ConfirmRead
  <2>2. p \in PkgId /\ p \in created
    BY DEF IInv, TypeOK, CurrentRows
  <2>3. s(p) \in Session /\ s(p).at = "confirm" /\ s(p).pkg = p /\ s(p).seen = "none"
    BY <2>2 DEF Session, Idle, Where, Status, Verdict, SendState
  <2> HIDE DEF s
  <2> QED
    BY <2>1, <2>2, <2>3 DEF LoadedNow
<1>8. UNCHANGED <<status, prepRun, packageVars, approvalVars, historyVars>>
  BY DEF Begin, EditRead, DraftRead, ApproveRead, SendRead, QaRead, ConfirmRead
<1> QED
  BY <1>2, <1>3, <1>4, <1>5, <1>6, <1>7, <1>8 DEF Begin

\* All the steps that write nothing.
LEMMA Loads ==
    ASSUME IInv, NEW r \in Req,
           \/ Begin(r) \/ EditFlush(r) \/ DraftUnused(r) \/ Crash(r)
           \/ \E c \in Content : DraftDone(r, c)
    PROVE  /\ \E s : /\ LoadedNow(s) /\ Goto(r, s)
                     /\ s.seen \in {"none", status, req[r].seen}
           /\ UNCHANGED <<status, prepRun, packageVars, approvalVars, historyVars>>
<1>1. CASE Begin(r)
  BY <1>1, BeginLoads
<1>2. CASE EditFlush(r)
  BY <1>2, EditFlushLoads DEF EditFlush
<1>3. CASE DraftUnused(r) \/ Crash(r)
  <2>1. LoadedNow(Idle)
    BY IdleIsSession DEF LoadedNow
  <2> QED
    BY <1>3, <2>1, IdleIsSession DEF DraftUnused, Crash, Finish
<1>4. ASSUME NEW c \in Content, DraftDone(r, c)
      PROVE  /\ \E s : LoadedNow(s) /\ Goto(r, s) /\ s.seen = "none"
             /\ UNCHANGED <<status, prepRun, packageVars, approvalVars, historyVars>>
  <2>1. req[r].bound \in BOOLEAN
    BY DEF IInv, TypeOK, Session
  <2> QED
    BY <1>4, <2>1, LoadForEditLoads DEF DraftDone
<1> QED
  BY <1>1, <1>2, <1>3, <1>4

-----------------------------------------------------------------------------
\* The requests that write.  Every one leaves its session idle or moves on to
\* the next await; the other sessions keep what they loaded.
LEMMA SessionOf ==
    ASSUME IInv, NEW r \in Req
    PROVE  /\ req[r] \in Session /\ req[r].at \in Where
           /\ req[r].pkg \in PkgId \cup {NoPkg} /\ req[r].appr \in ApprId \cup {NoAppr}
           /\ req[r].version \in Nat /\ req[r].prior \subseteq PkgId
           /\ req[r].seen \in Status \cup {"none"} /\ req[r].was \in Verdict \cup SendState
  BY DEF IInv, TypeOK, Session

LEMMA GotoReplaces ==
    ASSUME IInv, NEW r \in Req, NEW s \in Session, Goto(r, s)
    PROVE  /\ req' \in [Req -> Session]
           /\ req'[r] = s
           /\ \A o \in Req : o # r => req'[o] = req[o]
  BY DEF IInv, TypeOK, Goto

LEMMA CreatedNotSentinel ==
    ASSUME IInv
    PROVE  NoPkg \notin created /\ created \subseteq PkgId
           /\ NoAppr \notin granted /\ granted \subseteq ApprId
  BY PackageAssumption DEF IInv, TypeOK

LEMMA EditCommitKeeps ==
    ASSUME IInv, NEW r \in Req, EditCommit(r)
    PROVE  IInv'
<1>1. PICK p \in PkgId \ created :
        /\ created' = created \cup {p}
        /\ content' = [content EXCEPT ![p] = req[r].content]
        /\ version' = [version EXCEPT ![p] = req[r].version]
        /\ isCurrent' = CurrentAfter(req[r].prior, p)
  BY DEF EditCommit
<1>2. /\ At(r, "flushed") /\ Goto(r, Idle)
      /\ status' \in {status, "pending_review"}
      /\ UNCHANGED <<prepRun, approvalId, qa, sendState, granted, forPkg, forHash,
                     forRun, used, expired, mailed, calls, accepted, confirmed>>
  BY DEF EditCommit, Finish, approvalVars, historyVars
<1>3. /\ req' \in [Req -> Session] /\ req'[r] = Idle
      /\ \A o \in Req : o # r => req'[o] = req[o]
  BY <1>2, GotoReplaces, IdleIsSession
<1>4. /\ req[r].content \in Content /\ req[r].prior \subseteq created
      /\ \A q \in req[r].prior : version[q] < req[r].version
      /\ req[r].version \in Nat
  BY <1>2, SessionOf DEF IInv, RowsLoaded, At
<1>5. TypeOK'
  <2>1. created' \subseteq PkgId /\ status' \in Status
    BY <1>1, <1>2 DEF IInv, TypeOK, Status
  <2>2. /\ content' \in [PkgId -> Content \cup {NoContent}]
        /\ \A q \in created' : content'[q] \in Content
        /\ version' \in [PkgId -> Nat]
    BY <1>1, <1>4 DEF IInv, TypeOK
  <2>3. isCurrent' \in [PkgId -> BOOLEAN]
    BY <1>1 DEF IInv, TypeOK, CurrentAfter
  <2> QED
    BY <1>2, <1>3, <2>1, <2>2, <2>3 DEF IInv, TypeOK
<1>6. \A q \in created : q \in PkgId /\ q # p /\ content'[q] = content[q] /\ version'[q] = version[q]
  BY <1>1 DEF IInv, TypeOK
<1>7. RowsLoaded'
  <2> SUFFICES ASSUME NEW o \in Req, o # r
               PROVE  /\ req[o].at \in {"approve", "send", "call", "answered", "qa", "confirm"}
                            => req[o].pkg \in created'
                      /\ req[o].at \in {"edit", "flushed"}
                            => req[o].content \in Content /\ req[o].prior \subseteq created'
                      /\ At(o, "flushed") => \A q \in req[o].prior : version'[q] < req[o].version
    BY <1>3, IdleIsSession DEF RowsLoaded, At
  <2> QED
    BY <1>1, <1>6 DEF IInv, RowsLoaded, At
<1>8. ApprovalLoaded'
  <2> SUFFICES ASSUME NEW o \in Req, o # r,
                      req[o].at \in {"send", "call", "answered"}
               PROVE  content'[req[o].pkg] = content[req[o].pkg]
    BY <1>2, <1>3, IdleIsSession DEF IInv, ApprovalLoaded, At
  <2> QED
    BY <1>6 DEF IInv, RowsLoaded
<1>9. MailedRows' /\ SentWasApproved'
  BY <1>1, <1>2, <1>6 DEF IInv, MailedRows, SentWasApproved
<1>10. NewestIsCurrent'
  <2> SUFFICES ASSUME NEW q \in created', \A o \in created' : version'[o] <= version'[q]
               PROVE  isCurrent'[q]
    BY DEF NewestIsCurrent
  <2>1. CASE q = p
    BY <1>1, <2>1 DEF CurrentAfter
  <2>2. CASE q # p
    <3>1. q \in created /\ q \in PkgId
      BY <1>1, <1>6, <2>2
    <3>2. version'[p] = req[r].version /\ version'[p] <= version'[q]
      BY <1>1 DEF IInv, TypeOK
    <3>3. version'[q] = version[q] /\ version[q] \in Nat
      BY <1>6, <3>1 DEF IInv, TypeOK
    <3>4. q \notin req[r].prior
      BY <1>4, <3>2, <3>3
    <3>5. \A o \in created : version[o] <= version[q]
      BY <1>1, <1>6, <3>3
    <3>6. isCurrent[q]
      BY <3>1, <3>5 DEF IInv, NewestIsCurrent
    <3> QED
      BY <1>1, <3>1, <3>4, <3>6 DEF CurrentAfter
  <2> QED
    BY <2>1, <2>2
<1> QED
  BY <1>5, <1>7, <1>8, <1>9, <1>10 DEF IInv

\* A write that leaves the immutable columns alone, takes no approval back and
\* forgets no send, keeps what every session has loaded.
LEMMA WriteKeeps ==
    ASSUME IInv, NEW r \in Req, NEW s \in Session, Goto(r, s), TypeOK',
           UNCHANGED <<created, content, version, isCurrent>>,
           \A a \in granted : /\ a \in granted' /\ forHash'[a] = forHash[a]
                              /\ used[a] => used'[a],
           \A p \in created : sendState[p] # "none" => sendState'[p] # "none",
           s.at \in {"idle", "call", "answered"},
           s.at # "idle" =>
               /\ s.pkg \in created /\ s.appr \in granted
               /\ forHash[s.appr] = Hash[content[s.pkg]]
               /\ used'[s.appr] /\ sendState'[s.pkg] # "none",
           s.at = "answered" => s.was \in {"sent", "failed", "unknown"}
    PROVE  /\ RowsLoaded' /\ ApprovalLoaded' /\ NewestIsCurrent'
           /\ mailed' = mailed => MailedRows' /\ SentWasApproved'
<1>1. /\ req' \in [Req -> Session] /\ req'[r] = s
      /\ \A o \in Req : o # r => req'[o] = req[o]
  BY GotoReplaces
<1>2. RowsLoaded' /\ NewestIsCurrent'
  BY <1>1 DEF IInv, RowsLoaded, NewestIsCurrent, At
<1>3. ApprovalLoaded'
  <2> SUFFICES ASSUME NEW o \in Req, o # r
               PROVE  /\ req[o].at \in {"send", "call", "answered"}
                            => /\ req[o].appr \in granted'
                               /\ forHash'[req[o].appr] = Hash[content[req[o].pkg]]
                      /\ At(o, "send") /\ req[o].was # "none" => sendState'[req[o].pkg] # "none"
                      /\ req[o].at \in {"call", "answered"}
                            => used'[req[o].appr] /\ sendState'[req[o].pkg] # "none"
                      /\ At(o, "answered") => req[o].was \in {"sent", "failed", "unknown"}
    BY <1>1 DEF ApprovalLoaded, At
  <2>1. req[o].at \in {"send", "call", "answered"} => req[o].pkg \in created
    BY DEF IInv, RowsLoaded
  <2> QED
    BY <2>1 DEF IInv, ApprovalLoaded, At
<1>4. mailed' = mailed => MailedRows' /\ SentWasApproved'
  BY DEF IInv, MailedRows, SentWasApproved
<1> QED
  BY <1>2, <1>3, <1>4

LEMMA ApproveKeeps ==
    ASSUME IInv, NEW r \in Req, ApproveReuse(r) \/ ApproveGrant(r)
    PROVE  IInv'
<1> USE DEF packageVars, approvalVars, historyVars
<1>1. Idle \in Session /\ Idle.at = "idle" /\ Goto(r, Idle)
  BY IdleIsSession DEF ApproveReuse, ApproveGrant, Finish
<1>2. req' \in [Req -> Session]
  BY <1>1, GotoReplaces
<1>3. status' \in Status
  BY DEF ApproveReuse, ApproveGrant, StatusOnceApproved, IInv, TypeOK, Status
<1>4. CASE ApproveReuse(r)
  <2>1. TypeOK'
    BY <1>2, <1>3, <1>4 DEF ApproveReuse, IInv, TypeOK
  <2> QED
    BY <1>1, <1>4, <2>1, WriteKeeps DEF ApproveReuse, IInv
<1>5. CASE ApproveGrant(r)
  <2> DEFINE p == req[r].pkg
             run == IF prepRun = "none" THEN "bare" ELSE prepRun
  <2>1. PICK a \in ApprId \ granted :
            /\ granted' = granted \cup {a}
            /\ forPkg' = [forPkg EXCEPT ![a] = p]
            /\ forHash' = [forHash EXCEPT ![a] = Hash[content[p]]]
            /\ forRun' = [forRun EXCEPT ![a] = run]
            /\ approvalId' = [approvalId EXCEPT ![p] = a]
    BY <1>5 DEF ApproveGrant
  <2>2. p \in created /\ p \in PkgId /\ content[p] \in Content
    BY <1>5, CreatedNotSentinel DEF ApproveGrant, At, IInv, RowsLoaded, TypeOK
  <2>3. Hash[content[p]] \in HashVal /\ run \in Run
    BY <2>2, PackageAssumption DEF IInv, TypeOK, Run
  <2>4. /\ prepRun' = run
        /\ UNCHANGED <<used, expired, created, content, version, isCurrent, qa, sendState,
                       mailed, calls, accepted, confirmed>>
    BY <1>5 DEF ApproveGrant
  <2> HIDE DEF p, run
  <2>5. TypeOK'
    BY <1>2, <1>3, <2>1, <2>2, <2>3, <2>4 DEF IInv, TypeOK
  <2>6. \A b \in granted : b \in granted' /\ forHash'[b] = forHash[b]
    BY <2>1 DEF IInv, TypeOK
  <2> QED
    BY <1>1, <2>4, <2>5, <2>6, WriteKeeps DEF IInv
<1> QED
  BY <1>4, <1>5

LEMMA SendConsumeKeeps ==
    ASSUME IInv, NEW r \in Req, SendConsume(r)
    PROVE  IInv'
<1> USE DEF historyVars
<1> DEFINE p == req[r].pkg
           a == req[r].appr
           next == IF req[r].seen \in {"applied", "submission_unknown"} THEN req[r].seen
                   ELSE "submitting"
           s == [req[r] EXCEPT !.at = "call", !.seen = next, !.was = "none"]
<1>1. /\ At(r, "send") /\ Goto(r, s)
      /\ used' = [used EXCEPT ![a] = TRUE]
      /\ sendState' = [sendState EXCEPT ![p] = Flush(req[r].was, "pending", @)]
      /\ status' = Flush(req[r].seen, next, status)
      /\ UNCHANGED <<prepRun, created, content, version, isCurrent, approvalId, qa,
                     granted, forPkg, forHash, forRun, expired, mailed, calls, accepted,
                     confirmed>>
  BY DEF SendConsume
<1>2. /\ p \in created /\ p \in PkgId /\ a \in granted /\ a \in ApprId
      /\ forHash[a] = Hash[content[p]]
      /\ req[r].was # "none" => sendState[p] # "none"
  BY <1>1, CreatedNotSentinel DEF IInv, RowsLoaded, ApprovalLoaded, At
<1>3. /\ s \in Session /\ s.at = "call" /\ s.pkg = p /\ s.appr = a /\ next \in Status
  <2>1. next \in Status
    BY DEF Status
  <2>2. req[r] \in Session
    BY SessionOf
  <2> HIDE DEF next
  <2> QED
    BY <2>1, <2>2 DEF Session, Where, Verdict
<1> HIDE DEF s, p, a, next
<1>4. /\ sendState' \in [PkgId -> SendState] /\ sendState'[p] # "none"
      /\ \A q \in created : sendState[q] # "none" => sendState'[q] # "none"
  BY <1>1, <1>2 DEF IInv, TypeOK, SendState, Flush
<1>5. used' \in [ApprId -> BOOLEAN] /\ used'[a] /\ \A b \in granted : used[b] => used'[b]
  BY <1>1, <1>2, CreatedNotSentinel DEF IInv, TypeOK
<1>6. status' \in Status /\ req' \in [Req -> Session]
  BY <1>1, <1>3, GotoReplaces DEF Flush, IInv, TypeOK
<1>7. TypeOK'
  BY <1>1, <1>4, <1>5, <1>6 DEF IInv, TypeOK
<1> QED
  BY <1>1, <1>2, <1>3, <1>4, <1>5, <1>7, WriteKeeps DEF IInv

LEMMA SendCallKeeps ==
    ASSUME IInv, NEW r \in Req, SendCall(r)
    PROVE  IInv'
<1> USE DEF packageVars, approvalVars
<1> DEFINE p == req[r].pkg
           a == req[r].appr
           s(o) == [req[r] EXCEPT !.at = "answered", !.was = o.report]
<1>1. PICK o \in ProviderOutcome :
        /\ accepted' = IF o.delivered THEN accepted \cup {p} ELSE accepted
        /\ Goto(r, s(o))
  BY DEF SendCall
<1>2. /\ At(r, "call")
      /\ mailed' = mailed \cup {<<p, a>>}
      /\ calls' = [calls EXCEPT ![a] = @ + 1]
      /\ UNCHANGED <<status, prepRun, created, content, version, isCurrent, approvalId,
                     qa, sendState, granted, forPkg, forHash, forRun, used, expired,
                     confirmed>>
  BY DEF SendCall
<1>3. /\ p \in created /\ p \in PkgId /\ a \in granted /\ a \in ApprId
      /\ forHash[a] = Hash[content[p]] /\ used[a] /\ sendState[p] # "none"
  BY <1>2, CreatedNotSentinel DEF IInv, RowsLoaded, ApprovalLoaded, At
<1>4. o.report \in {"sent", "failed", "unknown"}
  BY DEF ProviderOutcome
<1>5. /\ s(o) \in Session /\ s(o).at = "answered" /\ s(o).pkg = p /\ s(o).appr = a
      /\ s(o).was \in {"sent", "failed", "unknown"}
  BY <1>4, SessionOf DEF Session, Where, SendState
<1> HIDE DEF s, p, a
<1>6. req' \in [Req -> Session]
  BY <1>1, <1>5, GotoReplaces
<1>7. TypeOK'
  BY <1>1, <1>2, <1>3, <1>6 DEF IInv, TypeOK
<1>8. MailedRows' /\ SentWasApproved'
  BY <1>2, <1>3 DEF IInv, MailedRows, SentWasApproved
<1>9. RowsLoaded' /\ ApprovalLoaded' /\ NewestIsCurrent'
  BY <1>1, <1>2, <1>3, <1>5, <1>7, WriteKeeps
<1> QED
  BY <1>7, <1>8, <1>9 DEF IInv

LEMMA SendRecordKeeps ==
    ASSUME IInv, NEW r \in Req, SendRecord(r)
    PROVE  IInv'
<1> USE DEF approvalVars, historyVars
<1> DEFINE p == req[r].pkg
           new == Recorded(req[r].was)
<1>1. /\ At(r, "answered") /\ Goto(r, Idle)
      /\ sendState' = [sendState EXCEPT ![p] = new.send]
      /\ status' = Flush(req[r].seen, new.app, status)
      /\ UNCHANGED <<prepRun, created, content, version, isCurrent, approvalId, qa,
                     granted, forPkg, forHash, forRun, used, expired, mailed, calls,
                     accepted, confirmed>>
  BY DEF SendRecord, Finish
<1>2. req[r].was \in {"sent", "failed", "unknown"}
  BY <1>1 DEF IInv, ApprovalLoaded
<1>3. new.send \in {"sent", "failed", "unknown"} /\ new.app \in Status
  BY <1>2 DEF Recorded, Status
<1> HIDE DEF p, new
<1>4. /\ sendState' \in [PkgId -> SendState]
      /\ \A q \in created : sendState[q] # "none" => sendState'[q] # "none"
  BY <1>1, <1>3 DEF IInv, TypeOK, SendState
<1>5. status' \in Status /\ req' \in [Req -> Session]
  BY <1>1, <1>3, GotoReplaces, IdleIsSession DEF Flush, IInv, TypeOK
<1>6. TypeOK'
  BY <1>1, <1>4, <1>5 DEF IInv, TypeOK
<1> QED
  BY <1>1, <1>4, <1>6, IdleIsSession, WriteKeeps DEF IInv

LEMMA QaCommitKeeps ==
    ASSUME IInv, NEW r \in Req, QaCommit(r)
    PROVE  IInv'
<1> USE DEF approvalVars, historyVars
<1>1. /\ Goto(r, Idle) /\ status' \in {status, "pending_review"}
      /\ UNCHANGED <<prepRun, created, content, version, isCurrent, approvalId, sendState,
                     granted, forPkg, forHash, forRun, used, expired, mailed, calls,
                     accepted, confirmed>>
  BY DEF QaCommit, Finish
<1>2. PICK v \in Verdict : qa' = [qa EXCEPT ![req[r].pkg] = Flush(req[r].was, v, @)]
  BY StatusAssumption DEF QaCommit, VerdictsFor, Verdict
<1>3. qa' \in [PkgId -> Verdict]
  BY <1>2 DEF IInv, TypeOK, Flush
<1>4. status' \in Status /\ req' \in [Req -> Session]
  BY <1>1, GotoReplaces, IdleIsSession DEF IInv, TypeOK, Status
<1>5. TypeOK'
  BY <1>1, <1>3, <1>4 DEF IInv, TypeOK
<1> QED
  BY <1>1, <1>5, IdleIsSession, WriteKeeps DEF IInv

LEMMA ConfirmCommitKeeps ==
    ASSUME IInv, NEW r \in Req, ConfirmCommit(r)
    PROVE  IInv'
<1> USE DEF packageVars, approvalVars
<1>1. /\ At(r, "confirm") /\ Goto(r, Idle) /\ status' = "applied"
      /\ confirmed' = confirmed \cup {req[r].pkg}
      /\ UNCHANGED <<prepRun, packageVars, approvalVars, mailed, calls, accepted>>
  BY DEF ConfirmCommit, Finish
<1>2. req[r].pkg \in created
  BY <1>1 DEF IInv, RowsLoaded, At
<1>3. status' \in Status /\ req' \in [Req -> Session]
  BY <1>1, GotoReplaces, IdleIsSession DEF IInv, TypeOK, Status
<1>4. TypeOK'
  BY <1>1, <1>2, <1>3 DEF IInv, TypeOK
<1> QED
  BY <1>1, <1>4, IdleIsSession, WriteKeeps DEF IInv

\* Time and the rest of the system touch expires_at and the status only.
LEMMA EnvironmentKeeps ==
    ASSUME IInv,
           \/ \E a \in ApprId : Expire(a)
           \/ \E s \in OtherStatus : StatusWrittenElsewhere(s)
    PROVE  IInv'
<1>1. /\ UNCHANGED <<prepRun, created, content, version, isCurrent, approvalId, qa,
                     sendState, granted, forPkg, forHash, forRun, used, req, mailed,
                     calls, accepted, confirmed>>
      /\ status' \in Status /\ expired' \in [ApprId -> BOOLEAN]
  BY StatusAssumption
     DEF Expire, StatusWrittenElsewhere, IInv, TypeOK, packageVars, approvalVars, historyVars
<1>2. TypeOK'
  BY <1>1 DEF IInv, TypeOK
<1>3. /\ RowsLoaded' /\ ApprovalLoaded' /\ MailedRows' /\ SentWasApproved'
      /\ NewestIsCurrent'
  BY <1>1 DEF IInv, RowsLoaded, ApprovalLoaded, MailedRows, SentWasApproved,
              NewestIsCurrent, At
<1> QED
  BY <1>2, <1>3 DEF IInv

-----------------------------------------------------------------------------
LEMMA InitIInv == Init => IInv
<1> SUFFICES ASSUME Init PROVE IInv
  OBVIOUS
<1>1. \A r \in Req : req[r] = Idle
  BY DEF Init
<1>2. TypeOK
  BY IdleIsSession, StatusAssumption
     DEF Init, TypeOK, Run, Verdict, SendState
<1>3. RowsLoaded /\ ApprovalLoaded
  BY <1>1, IdleIsSession DEF RowsLoaded, ApprovalLoaded, At
<1>4. MailedRows /\ SentWasApproved /\ NewestIsCurrent
  BY DEF Init, MailedRows, SentWasApproved, NewestIsCurrent
<1> QED
  BY <1>2, <1>3, <1>4 DEF IInv

LEMMA NextIInv == IInv /\ [Next]_vars => IInv'
<1> SUFFICES ASSUME IInv, [Next]_vars PROVE IInv'
  OBVIOUS
<1>1. ASSUME NEW r \in Req,
             \/ Begin(r) \/ EditFlush(r) \/ DraftUnused(r) \/ Crash(r)
             \/ \E c \in Content : DraftDone(r, c)
      PROVE  IInv'
  BY <1>1, Loads, LoadKeeps
<1>2. ASSUME NEW r \in Req, Continue(r) PROVE IInv'
  BY <1>1, <1>2, EditCommitKeeps, ApproveKeeps, SendConsumeKeeps, SendCallKeeps,
     SendRecordKeeps, QaCommitKeeps, ConfirmCommitKeeps DEF Continue
<1>3. CASE UNCHANGED vars
  BY <1>3 DEF vars, packageVars, approvalVars, historyVars, IInv, TypeOK, RowsLoaded,
              ApprovalLoaded, MailedRows, SentWasApproved, NewestIsCurrent, At
<1> QED
  BY <1>1, <1>2, <1>3, EnvironmentKeeps DEF Next

\* The inductive invariant holds in every reachable state, whatever the requests
\* and crashes: what a suspended request remembers of the immutable rows stays
\* true while others run.
THEOREM Invariance == Spec => []IInv
  BY InitIInv, NextIInv, PTL DEF Spec

\* Every column and every session keeps its type: no commit writes a status
\* outside ApplicationStatus, a verdict outside QAVerdict, or refers to a row
\* that does not exist.
THEOREM TypeCorrect == Spec => []TypeOK
<1>1. IInv => TypeOK
  BY DEF IInv
<1> QED
  BY <1>1, Invariance, PTL

\* Nothing reaches the e-mail provider that the user did not approve with this
\* very hash and that the database does not know of, even if two requests send
\* at once or the process dies at any await (package_send.py:196-200).
THEOREM SentApproved == Spec => []SentWasApproved
<1>1. IInv => SentWasApproved
  BY DEF IInv
<1> QED
  BY <1>1, Invariance, PTL

\* Overlapping edits never make get_current_package fall back to an older
\* version, though they may leave two current rows.
THEOREM NewestStaysCurrent == Spec => []NewestIsCurrent
<1>1. IInv => NewestIsCurrent
  BY DEF IInv
<1> QED
  BY <1>1, Invariance, PTL

-----------------------------------------------------------------------------
\* What a session knows of the outside is evidence too.
EvidenceLoaded ==
    \A r \in Req :
        /\ At(r, "answered") /\ req[r].was = "sent" => req[r].pkg \in accepted
        /\ req[r].seen = "applied" => accepted \cup confirmed # {}

EInv == ClaimsHaveEvidence /\ EvidenceLoaded

\* A step that claims nothing new, and loads nothing but the status as it is.
LEMMA NoClaim ==
    ASSUME IInv, EInv, NEW r \in Req, NEW s \in Session, Goto(r, s),
           UNCHANGED <<sendState, accepted, confirmed>>,
           status' \in {status, "pending_review", "approved"},
           s.seen \in {"none", status, req[r].seen}, s.at # "answered"
    PROVE  EInv'
<1>1. req' \in [Req -> Session] /\ req'[r] = s /\ \A o \in Req : o # r => req'[o] = req[o]
  BY GotoReplaces
<1> QED
  BY <1>1 DEF EInv, ClaimsHaveEvidence, EvidenceLoaded, At

LEMMA ContinueKeepsEvidence ==
    ASSUME IInv, EInv, NEW r \in Req, Continue(r)
    PROVE  EInv'
<1> USE DEF historyVars
<1>1. CASE EditFlush(r) \/ DraftUnused(r) \/ \E c \in Content : DraftDone(r, c)
  <2>1. PICK s : LoadedNow(s) /\ Goto(r, s) /\ s.seen \in {"none", status, req[r].seen}
    BY <1>1, Loads
  <2>2. UNCHANGED <<status, sendState, accepted, confirmed>>
    BY <1>1, Loads DEF packageVars
  <2> QED
    BY <2>1, <2>2, NoClaim DEF LoadedNow
<1>2. CASE EditCommit(r) \/ ApproveReuse(r) \/ ApproveGrant(r) \/ QaCommit(r)
  <2>1. /\ Goto(r, Idle) /\ UNCHANGED <<sendState, accepted, confirmed>>
        /\ status' \in {status, "pending_review", "approved"}
    BY <1>2 DEF EditCommit, ApproveReuse, ApproveGrant, QaCommit, Finish, packageVars,
                StatusOnceApproved
  <2> QED
    BY <2>1, IdleIsSession, NoClaim
<1>3. CASE SendConsume(r)
  <2> DEFINE next == IF req[r].seen \in {"applied", "submission_unknown"} THEN req[r].seen
                     ELSE "submitting"
  <2>1. /\ req' = [req EXCEPT ![r] = [req[r] EXCEPT !.at = "call", !.seen = next, !.was = "none"]]
        /\ sendState' = [sendState EXCEPT ![req[r].pkg] = Flush(req[r].was, "pending", @)]
        /\ status' = Flush(req[r].seen, next, status)
        /\ UNCHANGED <<accepted, confirmed>>
    BY <1>3 DEF SendConsume, Goto
  <2>2. req \in [Req -> Session] /\ req[r] \in Session /\ sendState \in [PkgId -> SendState]
    BY DEF IInv, TypeOK
  <2>3. /\ req'[r].at = "call" /\ req'[r].seen = next
        /\ \A o \in Req : o # r => req'[o] = req[o]
    BY <2>1, <2>2 DEF Session
  <2>4. \A p \in PkgId : sendState'[p] = "sent" => sendState[p] = "sent"
    BY <2>1, <2>2 DEF Flush
  <2>5. status' = "applied" => status = "applied"
    BY <2>1 DEF Flush
  <2> QED
    BY <2>1, <2>3, <2>4, <2>5 DEF EInv, ClaimsHaveEvidence, EvidenceLoaded, At
<1>4. CASE SendCall(r)
  <2>1. PICK o \in ProviderOutcome :
          /\ accepted' = IF o.delivered THEN accepted \cup {req[r].pkg} ELSE accepted
          /\ req' = [req EXCEPT ![r] = [req[r] EXCEPT !.at = "answered", !.was = o.report]]
    BY <1>4 DEF SendCall, Goto
  <2>2. req \in [Req -> Session] /\ req[r] \in Session
    BY DEF IInv, TypeOK
  <2>3. /\ req'[r].pkg = req[r].pkg /\ req'[r].seen = req[r].seen /\ req'[r].was = o.report
        /\ \A q \in Req : q # r => req'[q] = req[q]
    BY <2>1, <2>2 DEF Session
  <2>4. o.report = "sent" => o.delivered
    BY DEF ProviderOutcome
  <2>5. accepted \subseteq accepted' /\ (o.report = "sent" => req[r].pkg \in accepted')
    BY <2>1, <2>4
  <2>6. UNCHANGED <<status, sendState, confirmed>>
    BY <1>4 DEF SendCall, packageVars
  <2> QED
    BY <2>3, <2>5, <2>6 DEF EInv, ClaimsHaveEvidence, EvidenceLoaded, At
<1>5. CASE SendRecord(r)
  <2>1. /\ At(r, "answered") /\ Goto(r, Idle)
        /\ sendState' = [sendState EXCEPT ![req[r].pkg] = Recorded(req[r].was).send]
        /\ status' = Flush(req[r].seen, Recorded(req[r].was).app, status)
        /\ UNCHANGED <<accepted, confirmed>>
    BY <1>5 DEF SendRecord, Finish
  <2>2. req'[r] = Idle /\ \A o \in Req : o # r => req'[o] = req[o]
    BY <2>1, IdleIsSession, GotoReplaces
  <2>3. req[r].was \in {"sent", "failed", "unknown"}
    BY <2>1 DEF IInv, ApprovalLoaded
  <2>4. /\ Recorded(req[r].was).send = "sent" => req[r].pkg \in accepted
        /\ Recorded(req[r].was).app = "applied" => req[r].pkg \in accepted
    BY <2>1, <2>3 DEF Recorded, EInv, EvidenceLoaded, At
  <2>5. \A p \in PkgId : sendState'[p] = "sent" => p \in accepted
    BY <2>1, <2>4 DEF IInv, TypeOK, EInv, ClaimsHaveEvidence
  <2>6. status' = "applied" => accepted \cup confirmed # {}
    BY <2>1, <2>4 DEF Flush, EInv, ClaimsHaveEvidence
  <2> QED
    BY <2>1, <2>2, <2>5, <2>6, IdleIsSession DEF EInv, ClaimsHaveEvidence, EvidenceLoaded, At
<1>6. CASE ConfirmCommit(r)
  <2>1. /\ Goto(r, Idle) /\ status' = "applied" /\ confirmed' = confirmed \cup {req[r].pkg}
        /\ UNCHANGED <<sendState, accepted>>
    BY <1>6 DEF ConfirmCommit, Finish, packageVars
  <2>2. req'[r] = Idle /\ \A o \in Req : o # r => req'[o] = req[o]
    BY <2>1, IdleIsSession, GotoReplaces
  <2> QED
    BY <2>1, <2>2, IdleIsSession DEF EInv, ClaimsHaveEvidence, EvidenceLoaded, At
<1> QED
  BY <1>1, <1>2, <1>3, <1>4, <1>5, <1>6 DEF Continue

\* "sent" and "applied" are backed by a message the relay took or by the user's
\* confirmation, whatever overlaps or dies, as long as nothing outside this flow
\* declares the application applied (package_send.py:11-12).
THEOREM ClaimsBacked ==
    ASSUME "applied" \notin InitStatus \cup OtherStatus
    PROVE  Spec => []ClaimsHaveEvidence
<1>1. Init => EInv
  <2> SUFFICES ASSUME Init PROVE EInv
    OBVIOUS
  <2>1. \A r \in Req : req[r] = Idle
    BY DEF Init
  <2> QED
    BY <2>1, IdleIsSession DEF Init, EInv, ClaimsHaveEvidence, EvidenceLoaded, At
<1>2. IInv /\ EInv /\ [Next]_vars => EInv'
  <2> SUFFICES ASSUME IInv, EInv, [Next]_vars PROVE EInv'
    OBVIOUS
  <2>1. ASSUME NEW r \in Req, Begin(r) \/ Crash(r) PROVE EInv'
    <3>1. PICK s : LoadedNow(s) /\ Goto(r, s) /\ s.seen \in {"none", status, req[r].seen}
      BY <2>1, Loads
    <3>2. UNCHANGED <<status, sendState, accepted, confirmed>>
      BY <2>1, Loads DEF packageVars, historyVars
    <3> QED
      BY <3>1, <3>2, NoClaim DEF LoadedNow
  <2>2. ASSUME NEW r \in Req, Continue(r) PROVE EInv'
    BY <2>2, ContinueKeepsEvidence
  <2>3. CASE \/ UNCHANGED vars
             \/ \E a \in ApprId : Expire(a)
             \/ \E s \in OtherStatus : StatusWrittenElsewhere(s)
    <3>1. UNCHANGED <<sendState, req, accepted, confirmed>>
          /\ (status' = "applied" => status = "applied")
      BY <2>3 DEF vars, Expire, StatusWrittenElsewhere, packageVars, historyVars
    <3> QED
      BY <3>1 DEF EInv, ClaimsHaveEvidence, EvidenceLoaded, At
  <2> QED
    BY <2>1, <2>2, <2>3 DEF Next
<1>3. EInv => ClaimsHaveEvidence
  BY DEF EInv
<1> QED
  BY <1>1, <1>2, <1>3, Invariance, PTL DEF Spec

-----------------------------------------------------------------------------
(***************************************************************************)
(* One request at a time, for every number of packages, approvals and      *)
(* contents: requests still die at every await, approvals expire and the   *)
(* rest of the system writes the status.  PackageConcurrent.cfg and        *)
(* DoubleSend.cfg show that none of what follows survives a second request.*)
(***************************************************************************)

\* What the session of the only request remembers is what the tables hold:
\* nobody else writes the rows it has loaded.
UpToDate(s) ==
    /\ s.at \in {"edit", "flushed"} => s.prior = CurrentRows
    /\ s.at = "flushed" => \A p \in created : version[p] < s.version
    /\ s.at = "approve" /\ s.appr = NoAppr => Live(Hash[content[s.pkg]]) = {}
    /\ s.at = "send" => /\ ~used[s.appr]
                        /\ sendState[s.pkg] = s.was /\ s.was # "sent"
    /\ s.at \in {"call", "answered"} => sendState[s.pkg] = "pending"
    /\ s.at = "call" => calls[s.appr] = 0

OneAtATime == \A r \in Req : UpToDate(req[r])

\* An approval is bound, then spent, then used.
SpentOnce ==
    \A a \in ApprId :
        /\ a \in granted <=> forHash[a] # NoHash
        /\ used[a] => a \in granted
        /\ ~used[a] => calls[a] = 0

SInv ==
    /\ OneAtATime
    /\ SpentOnce
    /\ OneCurrentVersion
    /\ UniqueLiveApproval
    /\ SingleUse

-----------------------------------------------------------------------------
\* A session that has just loaded rows as they are.
LoadedAlone(s) == UpToDate(s) /\ s.at \notin {"call", "answered"}

\* Shared by EditRead and DraftDone.
LEMMA LoadForEditAlone ==
    ASSUME IInv, NEW r \in Req, NEW c \in Content, NEW held, NEW heldBound \in BOOLEAN,
           LoadForEdit(r, c, held, heldBound)
    PROVE  \E s \in Session : LoadedAlone(s) /\ Goto(r, s)
<1> DEFINE edit(p, bound) ==
        [Idle EXCEPT !.at = "edit", !.pkg = p, !.content = c, !.prior = CurrentRows,
                     !.moves = bound /\ status = "approved"]
<1>1. PICK p \in PkgId \cup {NoPkg}, bound \in BOOLEAN : Goto(r, edit(p, bound))
  <2>1. CASE CurrentRows = {} /\ Goto(r, edit(NoPkg, FALSE))
    BY <2>1
  <2>2. ASSUME NEW p \in Newest,
               Goto(r, edit(p, IF p = held THEN heldBound ELSE approvalId[p] # NoAppr))
        PROVE  \E q \in PkgId, bound \in BOOLEAN : Goto(r, edit(q, bound))
    <3>1. p \in PkgId
      BY DEF IInv, TypeOK, Newest, CurrentRows
    <3>2. (IF p = held THEN heldBound ELSE approvalId[p] # NoAppr) \in BOOLEAN
      OBVIOUS
    <3> QED
      BY <2>2, <3>1, <3>2
  <2> QED
    BY <2>1, <2>2 DEF LoadForEdit
<1>2. CurrentRows \subseteq PkgId
  BY DEF IInv, TypeOK, CurrentRows
<1>3. /\ edit(p, bound) \in Session /\ edit(p, bound).at = "edit"
      /\ edit(p, bound).prior = CurrentRows
  BY <1>2 DEF Session, Idle, Where, Status, Verdict, SendState
<1> HIDE DEF edit
<1> QED
  BY <1>1, <1>3 DEF LoadedAlone, UpToDate

\* All the steps that write nothing.
LEMMA LoadsAlone ==
    ASSUME IInv, SInv, NEW r \in Req,
           \/ Begin(r) \/ EditFlush(r) \/ DraftUnused(r) \/ Crash(r)
           \/ \E c \in Content : DraftDone(r, c)
    PROVE  \E s \in Session : LoadedAlone(s) /\ Goto(r, s)
<1>1. ASSUME NEW p \in Newest PROVE p \in PkgId /\ p \in created
  BY DEF IInv, TypeOK, Newest, CurrentRows
<1> DEFINE loads == \E s \in Session : LoadedAlone(s) /\ Goto(r, s)
<1>2. ASSUME NEW c \in Content, EditRead(r, c) PROVE loads
  BY <1>2, LoadForEditAlone DEF EditRead
<1>3. ASSUME NEW c \in Content, DraftDone(r, c) PROVE loads
  <2>1. req[r].bound \in BOOLEAN
    BY DEF IInv, TypeOK, Session
  <2> QED
    BY <1>3, <2>1, LoadForEditAlone DEF DraftDone
<1>4. ASSUME DraftUnused(r) \/ Crash(r) PROVE loads
  <2>1. LoadedAlone(Idle)
    BY IdleIsSession DEF LoadedAlone, UpToDate
  <2> QED
    BY <1>4, <2>1, IdleIsSession DEF DraftUnused, Crash, Finish
<1>5. ASSUME EditFlush(r) PROVE loads
  <2>1. PICK n \in 1..(Cardinality(created) + 1) :
            IsNextVersion(n) /\ Goto(r, [req[r] EXCEPT !.at = "flushed", !.version = n])
    BY <1>5 DEF EditFlush
  <2> DEFINE s == [req[r] EXCEPT !.at = "flushed", !.version = n]
  <2>2. req[r] \in Session /\ At(r, "edit") /\ n \in Nat
    <3>1. n \in Nat
      OBVIOUS
    <3> QED
      BY <1>5, <3>1, SessionOf DEF EditFlush
  <2>3. s \in Session /\ s.at = "flushed" /\ s.version = n /\ s.prior = req[r].prior
    BY <2>2 DEF Session, Where
  <2>4. req[r].prior = CurrentRows
    BY <2>2 DEF SInv, OneAtATime, UpToDate, At
  <2>5. \A p \in created : version[p] < n
    BY <2>1 DEF IsNextVersion
  <2> HIDE DEF s
  <2>6. LoadedAlone(s)
    BY <2>3, <2>4, <2>5 DEF LoadedAlone, UpToDate
  <2> QED
    BY <2>1, <2>3, <2>6 DEF s
<1>6. ASSUME DraftRead(r) PROVE loads
  <2> DEFINE s(p) == [Idle EXCEPT !.at = "draft", !.pkg = p, !.bound = approvalId[p] # NoAppr]
  <2>1. PICK p \in Newest : Goto(r, s(p))
    BY <1>6 DEF DraftRead
  <2>2. s(p) \in Session /\ s(p).at = "draft"
    BY <1>1 DEF Session, Idle, Where, Status, Verdict, SendState
  <2> HIDE DEF s
  <2> QED
    BY <2>1, <2>2 DEF LoadedAlone, UpToDate
<1>7. ASSUME ApproveRead(r) PROVE loads
  <2> DEFINE s(p, a) == [Idle EXCEPT !.at = "approve", !.pkg = p, !.appr = a,
                                     !.moves = status \in Reviewable]
  <2>1. PICK p \in Newest, a \in ApprId \cup {NoAppr} :
            Goto(r, s(p, a)) /\ (a = NoAppr => Live(Hash[content[p]]) = {})
    <3>1. PICK p \in Newest :
              \/ Goto(r, s(p, NoAppr)) /\ Live(Hash[content[p]]) = {}
              \/ \E a \in Live(Hash[content[p]]) : Goto(r, s(p, a))
      BY <1>7 DEF ApproveRead
    <3>2. Live(Hash[content[p]]) \subseteq ApprId /\ NoAppr \notin ApprId
      BY PackageAssumption DEF Live, IInv, TypeOK
    <3> QED
      BY <3>1, <3>2
  <2>2. s(p, a) \in Session /\ s(p, a).at = "approve" /\ s(p, a).pkg = p
      /\ s(p, a).appr = a
    BY <1>1, p \in PkgId, (status \in Reviewable) \in BOOLEAN
       DEF Session, Idle, Where, Status, Verdict, SendState
  <2> HIDE DEF s
  <2> QED
    BY <2>1, <2>2 DEF LoadedAlone, UpToDate
<1>8. ASSUME SendRead(r) PROVE loads
  <2> DEFINE s(p, a) == [Idle EXCEPT !.at = "send", !.pkg = p, !.appr = a,
                                     !.seen = status, !.was = sendState[p]]
  <2>1. PICK p \in Newest, a \in ApprId :
            Sendable(p) /\ Live(Hash[content[p]]) = {a} /\ Goto(r, s(p, a))
    BY <1>8 DEF SendRead
  <2>2. ~used[a] /\ sendState[p] # "sent"
    BY <2>1 DEF Live, Sendable
  <2>3. status \in Status /\ sendState[p] \in SendState
    BY <1>1 DEF IInv, TypeOK
  <2>4. /\ s(p, a) \in Session /\ s(p, a).at = "send" /\ s(p, a).pkg = p
        /\ s(p, a).appr = a /\ s(p, a).was = sendState[p]
    BY <1>1, <2>3 DEF Session, Idle, Where, Verdict, SendState
  <2> HIDE DEF s
  <2> QED
    BY <2>1, <2>2, <2>4 DEF LoadedAlone, UpToDate
<1>9. ASSUME QaRead(r) PROVE loads
  <2> DEFINE s(p) == [Idle EXCEPT !.at = "qa", !.pkg = p, !.was = qa[p],
                                  !.moves = approvalId[p] = NoAppr /\ status = "approved"]
  <2>1. PICK p \in Newest : Goto(r, s(p))
    BY <1>9 DEF QaRead
  <2>2. qa[p] \in Verdict
    BY <1>1 DEF IInv, TypeOK
  <2>3. s(p) \in Session /\ s(p).at = "qa"
    BY <1>1, <2>2 DEF Session, Idle, Where, Status, SendState
  <2> HIDE DEF s
  <2> QED
    BY <2>1, <2>3 DEF LoadedAlone, UpToDate
<1>10. ASSUME ConfirmRead(r) PROVE loads
  <2> DEFINE s(p) == [Idle EXCEPT !.at = "confirm", !.pkg = p]
  <2>1. PICK p \in CurrentRows : Goto(r, s(p))
    BY <1>10 DEF ConfirmRead
  <2>2. p \in PkgId
    BY DEF IInv, TypeOK, CurrentRows
  <2>3. s(p) \in Session /\ s(p).at = "confirm"
    BY <2>2 DEF Session, Idle, Where, Status, Verdict, SendState
  <2> HIDE DEF s
  <2> QED
    BY <2>1, <2>3 DEF LoadedAlone, UpToDate
<1> QED
  BY <1>2, <1>3, <1>4, <1>5, <1>6, <1>7, <1>8, <1>9, <1>10 DEF Begin

-----------------------------------------------------------------------------
\* The invariant under each action; every write but two leaves the session idle.
LEMMA LoadKeepsAlone ==
    ASSUME IInv, SInv, NEW r \in Req, Req = {r}, NEW s \in Session, LoadedAlone(s),
           Goto(r, s),
           UNCHANGED <<status, prepRun, packageVars, approvalVars, historyVars>>
    PROVE  SInv'
<1> USE DEF packageVars, approvalVars, historyVars
<1>1. req'[r] = s
  BY GotoReplaces
<1>2. OneAtATime'
  BY <1>1 DEF OneAtATime, LoadedAlone, UpToDate, CurrentRows, Live
<1>3. SpentOnce' /\ OneCurrentVersion' /\ UniqueLiveApproval' /\ SingleUse'
  BY DEF SInv, SpentOnce, OneCurrentVersion, UniqueLiveApproval, Live, SingleUse
<1> QED
  BY <1>2, <1>3 DEF SInv

LEMMA IdleIsUpToDate ==
    ASSUME IInv, NEW r \in Req, Req = {r}, Goto(r, Idle)
    PROVE  OneAtATime'
<1>1. req'[r] = Idle
  BY IdleIsSession, GotoReplaces
<1> QED
  BY <1>1, IdleIsSession DEF OneAtATime, UpToDate

LEMMA OtherWriteKeeps ==
    ASSUME IInv, SInv, NEW r \in Req, Req = {r}, Goto(r, Idle),
           UNCHANGED <<created, version, isCurrent, approvalVars, calls>>
    PROVE  SInv'
<1> USE DEF approvalVars
<1>1. SpentOnce' /\ OneCurrentVersion' /\ UniqueLiveApproval' /\ SingleUse'
  BY DEF SInv, SpentOnce, OneCurrentVersion, UniqueLiveApproval, Live, SingleUse
<1> QED
  BY <1>1, IdleIsUpToDate DEF SInv

LEMMA EditCommitAlone ==
    ASSUME IInv, SInv, NEW r \in Req, Req = {r}, EditCommit(r)
    PROVE  SInv'
<1> USE DEF approvalVars, historyVars
<1>1. PICK p \in PkgId \ created :
        /\ created' = created \cup {p}
        /\ version' = [version EXCEPT ![p] = req[r].version]
        /\ isCurrent' = CurrentAfter(req[r].prior, p)
  BY DEF EditCommit
<1>2. At(r, "flushed") /\ Goto(r, Idle) /\ UNCHANGED <<approvalVars, calls>>
  BY DEF EditCommit, Finish
<1>3. req[r].prior = CurrentRows /\ \A q \in created : version[q] < req[r].version
  BY <1>2 DEF SInv, OneAtATime, UpToDate, At
<1>4. /\ version'[p] = req[r].version /\ req[r].version \in Nat
      /\ \A q \in created : q # p /\ version'[q] = version[q] /\ version[q] \in Nat
  BY <1>1, SessionOf DEF IInv, TypeOK
<1>5. \A q \in created : ~isCurrent'[q]
  BY <1>1, <1>3, <1>4 DEF CurrentAfter, CurrentRows, IInv, TypeOK
<1>6. OneCurrentVersion'
  <2> SUFFICES ASSUME NEW q \in created', NEW o \in created', q # o
               PROVE  ~(isCurrent'[q] /\ isCurrent'[o]) /\ version'[q] # version'[o]
    BY DEF OneCurrentVersion
  <2>1. CASE q \in created /\ o \in created
    BY <1>4, <1>5, <2>1 DEF SInv, OneCurrentVersion
  <2>2. CASE q = p /\ o \in created
    BY <1>3, <1>4, <1>5, <2>2
  <2>3. CASE o = p /\ q \in created
    BY <1>3, <1>4, <1>5, <2>3
  <2> QED
    BY <1>1, <2>1, <2>2, <2>3
<1>7. SpentOnce' /\ UniqueLiveApproval' /\ SingleUse'
  BY <1>2 DEF SInv, SpentOnce, UniqueLiveApproval, Live, SingleUse
<1> QED
  BY <1>2, <1>6, <1>7, IdleIsUpToDate DEF SInv

LEMMA ApproveGrantAlone ==
    ASSUME IInv, SInv, NEW r \in Req, Req = {r}, ApproveGrant(r)
    PROVE  /\ SInv'
           /\ \E a \in ApprId, h \in HashVal :
                /\ forHash[a] = NoHash
                /\ forHash' = [forHash EXCEPT ![a] = h]
<1> USE DEF historyVars
<1> DEFINE h == Hash[content[req[r].pkg]]
<1>1. PICK a \in ApprId \ granted :
          granted' = granted \cup {a} /\ forHash' = [forHash EXCEPT ![a] = h]
  BY DEF ApproveGrant
<1>2. /\ At(r, "approve") /\ req[r].appr = NoAppr /\ Goto(r, Idle)
      /\ UNCHANGED <<used, expired, created, version, isCurrent, calls>>
  BY DEF ApproveGrant, Finish
<1>3. h \in HashVal
  <2>1. req[r].pkg \in created
    BY <1>2 DEF IInv, RowsLoaded, At
  <2> QED
    BY <2>1, PackageAssumption DEF IInv, TypeOK
<1>4. Live(h) = {}
  BY <1>2 DEF SInv, OneAtATime, UpToDate, At
<1> HIDE DEF h
<1>5. forHash'[a] = h /\ \A b \in ApprId : b # a => forHash'[b] = forHash[b]
  BY <1>1 DEF IInv, TypeOK
<1>6. SpentOnce'
  BY <1>1, <1>2, <1>3, <1>5, PackageAssumption DEF SInv, SpentOnce
<1>7. UniqueLiveApproval'
  <2> SUFFICES ASSUME NEW b \in granted', NEW c \in granted', forHash'[b] = forHash'[c],
                      ~used[b], ~expired[b], ~used[c], ~expired[c], b # c
               PROVE  FALSE
    BY <1>2 DEF UniqueLiveApproval, Live
  <2>1. granted \subseteq ApprId
    BY DEF IInv, TypeOK
  <2>2. CASE b # a /\ c # a
    BY <1>1, <1>5, <2>1, <2>2 DEF SInv, UniqueLiveApproval, Live
  <2>3. CASE b = a
    BY <1>1, <1>4, <1>5, <2>1, <2>3 DEF Live
  <2>4. CASE c = a
    BY <1>1, <1>4, <1>5, <2>1, <2>4 DEF Live
  <2> QED
    BY <2>2, <2>3, <2>4
<1>8. OneCurrentVersion' /\ SingleUse'
  BY <1>2 DEF SInv, OneCurrentVersion, SingleUse
<1>9. forHash[a] = NoHash
  BY <1>1 DEF SInv, SpentOnce
<1> QED
  BY <1>1, <1>2, <1>3, <1>6, <1>7, <1>8, <1>9, IdleIsUpToDate DEF SInv

LEMMA SendConsumeAlone ==
    ASSUME IInv, SInv, NEW r \in Req, Req = {r}, SendConsume(r)
    PROVE  /\ SInv'
           /\ req[r].appr \in ApprId /\ forHash[req[r].appr] # NoHash
           /\ ~used[req[r].appr] /\ sendState[req[r].pkg] # "sent"
<1> USE DEF historyVars
<1> DEFINE p == req[r].pkg
           a == req[r].appr
           next == IF req[r].seen \in {"applied", "submission_unknown"} THEN req[r].seen
                   ELSE "submitting"
           s == [req[r] EXCEPT !.at = "call", !.seen = next, !.was = "none"]
<1>1. /\ At(r, "send") /\ Goto(r, s)
      /\ used' = [used EXCEPT ![a] = TRUE]
      /\ sendState' = [sendState EXCEPT ![p] = Flush(req[r].was, "pending", @)]
      /\ UNCHANGED <<created, version, isCurrent, granted, forHash, expired, calls>>
  BY DEF SendConsume
<1>2. p \in PkgId /\ a \in granted /\ a \in ApprId
  BY <1>1, CreatedNotSentinel DEF IInv, RowsLoaded, ApprovalLoaded, At
<1>3. ~used[a] /\ sendState[p] = req[r].was /\ req[r].was # "sent"
  BY <1>1 DEF SInv, OneAtATime, UpToDate, At
<1>4. s \in Session /\ s.at = "call" /\ s.pkg = p /\ s.appr = a
  <2>1. next \in Status
    BY DEF Status
  <2>2. req[r] \in Session
    BY SessionOf
  <2> HIDE DEF next
  <2> QED
    BY <2>1, <2>2 DEF Session, Where, Verdict
<1> HIDE DEF s, p, a, next
<1>5. req'[r] = s
  BY <1>1, <1>4, GotoReplaces
<1>6. sendState'[p] = "pending" /\ calls[a] = 0
  BY <1>1, <1>2, <1>3 DEF IInv, TypeOK, SInv, SpentOnce, Flush
<1>7. OneAtATime'
  BY <1>1, <1>4, <1>5, <1>6 DEF OneAtATime, UpToDate
<1>8. \A b \in ApprId : used'[b] = (b = a \/ used[b])
  BY <1>1, <1>2 DEF IInv, TypeOK
<1>9. SpentOnce'
  BY <1>1, <1>2, <1>8 DEF SInv, SpentOnce
<1>10. UniqueLiveApproval'
  <2>1. granted \subseteq ApprId
    BY DEF IInv, TypeOK
  <2> QED
    BY <1>1, <1>8, <2>1 DEF SInv, UniqueLiveApproval, Live
<1>11. OneCurrentVersion' /\ SingleUse'
  BY <1>1 DEF SInv, OneCurrentVersion, SingleUse
<1>12. forHash[a] # NoHash
  BY <1>2 DEF SInv, SpentOnce
<1> QED
  BY <1>2, <1>3, <1>7, <1>9, <1>10, <1>11, <1>12 DEF SInv, a, p

LEMMA SendCallAlone ==
    ASSUME IInv, SInv, NEW r \in Req, Req = {r}, SendCall(r)
    PROVE  /\ SInv'
           /\ req[r].appr \in ApprId /\ used[req[r].appr] /\ calls[req[r].appr] = 0
           /\ calls' = [calls EXCEPT ![req[r].appr] = 1]
           /\ req[r].pkg \in created
           /\ forHash[req[r].appr] = Hash[content[req[r].pkg]]
           /\ sendState[req[r].pkg] = "pending"
<1> USE DEF packageVars, approvalVars
<1> DEFINE p == req[r].pkg
           a == req[r].appr
           s(o) == [req[r] EXCEPT !.at = "answered", !.was = o.report]
<1>1. PICK o \in ProviderOutcome : Goto(r, s(o))
  BY DEF SendCall
<1>2. /\ At(r, "call") /\ calls' = [calls EXCEPT ![a] = @ + 1]
      /\ UNCHANGED <<created, version, isCurrent, sendState, granted, forHash, used, expired>>
  BY DEF SendCall
<1>3. /\ p \in created /\ a \in granted /\ a \in ApprId
      /\ forHash[a] = Hash[content[p]] /\ used[a]
  BY <1>2, CreatedNotSentinel DEF IInv, RowsLoaded, ApprovalLoaded, At
<1>4. sendState[p] = "pending" /\ calls[a] = 0
  BY <1>2 DEF SInv, OneAtATime, UpToDate, At
<1>5. o.report \in {"sent", "failed", "unknown"}
  BY DEF ProviderOutcome
<1>6. s(o) \in Session /\ s(o).at = "answered" /\ s(o).pkg = p
  BY <1>5, SessionOf DEF Session, Where, SendState
<1> HIDE DEF s, p, a
<1>7. req'[r] = s(o)
  BY <1>1, <1>6, GotoReplaces
<1>8. OneAtATime'
  BY <1>2, <1>4, <1>6, <1>7 DEF OneAtATime, UpToDate
<1>9. calls' = [calls EXCEPT ![a] = 1]
  BY <1>2, <1>4
<1>10. calls'[a] = 1 /\ \A b \in ApprId : b # a => calls'[b] = calls[b]
  BY <1>3, <1>9 DEF IInv, TypeOK
<1>11. SpentOnce' /\ SingleUse'
  BY <1>2, <1>3, <1>10 DEF SInv, SpentOnce, SingleUse
<1>12. OneCurrentVersion' /\ UniqueLiveApproval'
  BY <1>2 DEF SInv, OneCurrentVersion, UniqueLiveApproval, Live
<1> QED
  BY <1>3, <1>4, <1>8, <1>9, <1>11, <1>12 DEF SInv, a, p

\* An approval that expires, or a status written elsewhere, touches nothing the
\* request relies on: a live approval can only stop being live.
LEMMA EnvironmentAlone ==
    ASSUME IInv, SInv,
           \/ \E a \in ApprId : Expire(a)
           \/ \E s \in OtherStatus : StatusWrittenElsewhere(s)
    PROVE  SInv'
<1>1. /\ UNCHANGED <<created, content, version, isCurrent, sendState, granted, forHash,
                     used, req, calls>>
      /\ \A b \in granted : expired[b] => expired'[b]
  BY DEF Expire, StatusWrittenElsewhere, IInv, TypeOK, packageVars, approvalVars, historyVars
<1>2. OneAtATime'
  BY <1>1 DEF SInv, OneAtATime, UpToDate, CurrentRows, Live
<1>3. SpentOnce' /\ OneCurrentVersion' /\ SingleUse'
  BY <1>1 DEF SInv, SpentOnce, OneCurrentVersion, SingleUse
<1>4. UniqueLiveApproval'
  BY <1>1 DEF SInv, UniqueLiveApproval, Live
<1> QED
  BY <1>2, <1>3, <1>4 DEF SInv

-----------------------------------------------------------------------------
LEMMA InitAlone == Init => SInv
<1> SUFFICES ASSUME Init PROVE SInv
  OBVIOUS
<1>1. OneAtATime
  BY IdleIsSession DEF Init, OneAtATime, UpToDate
<1> QED
  BY <1>1 DEF Init, SInv, SpentOnce, OneCurrentVersion, UniqueLiveApproval, SingleUse

LEMMA NextAlone ==
    ASSUME IInv, SInv, [Next]_vars, NEW self, Req = {self}
    PROVE  SInv'
<1>1. ASSUME NEW r \in Req,
             \/ Begin(r) \/ EditFlush(r) \/ DraftUnused(r) \/ Crash(r)
             \/ \E c \in Content : DraftDone(r, c)
      PROVE  SInv'
  <2>1. UNCHANGED <<status, prepRun, packageVars, approvalVars, historyVars>>
    BY <1>1, Loads
  <2>2. PICK s \in Session : LoadedAlone(s) /\ Goto(r, s)
    BY <1>1, LoadsAlone
  <2> QED
    BY <2>1, <2>2, LoadKeepsAlone
<1>2. ASSUME NEW r \in Req,
             ApproveReuse(r) \/ SendRecord(r) \/ QaCommit(r) \/ ConfirmCommit(r)
      PROVE  SInv'
  <2>1. Goto(r, Idle) /\ UNCHANGED <<created, version, isCurrent, approvalVars, calls>>
    BY <1>2 DEF ApproveReuse, SendRecord, QaCommit, ConfirmCommit, Finish, packageVars,
                historyVars
  <2> QED
    BY <2>1, OtherWriteKeeps
<1>3. ASSUME NEW r \in Req, Continue(r) PROVE SInv'
  BY <1>1, <1>2, <1>3, EditCommitAlone, ApproveGrantAlone, SendConsumeAlone, SendCallAlone
     DEF Continue
<1>4. CASE UNCHANGED vars
  BY <1>4 DEF vars, packageVars, approvalVars, historyVars, SInv, OneAtATime, UpToDate,
              CurrentRows, SpentOnce, OneCurrentVersion, UniqueLiveApproval, Live, SingleUse
<1> QED
  BY <1>1, <1>3, <1>4, EnvironmentAlone DEF Next

\* While requests do not overlap, what a suspended request remembers is what the
\* tables hold, though it may die at any await and approvals expire meanwhile.
THEOREM SerialInvariance ==
    ASSUME NEW self, Req = {self}
    PROVE  Spec => [](IInv /\ SInv)
<1>1. IInv /\ SInv /\ [Next]_vars => SInv'
  BY NextAlone
<1> QED
  BY <1>1, InitAlone, Invariance, PTL DEF Spec

\* One request at a time leaves one current row, and version numbers identify
\* rows (application_package.py:6-9): the rows an edit marks are all the current
\* ones.
THEOREM OneIsCurrent ==
    ASSUME NEW self, Req = {self}
    PROVE  Spec => []OneCurrentVersion
<1>1. SInv => OneCurrentVersion
  BY DEF SInv
<1> QED
  BY <1>1, SerialInvariance, PTL

\* One request at a time never leaves two live approvals of one hash: the
\* scalar_one_or_none of the approval and of the send cannot raise
\* (package_send.py:88-97, 220-229).
THEOREM OneApprovalIsLive ==
    ASSUME NEW self, Req = {self}
    PROVE  Spec => []UniqueLiveApproval
<1>1. SInv => UniqueLiveApproval
  BY DEF SInv
<1> QED
  BY <1>1, SerialInvariance, PTL

\* One request at a time makes an approval authorise one call of the provider,
\* as models/application.py:117 says; the run DoubleSend shows that two requests
\* break it.
THEOREM SerialSingleUse ==
    ASSUME NEW self, Req = {self}
    PROVE  Spec => []SingleUse
<1>1. SInv => SingleUse
  BY DEF SInv
<1> QED
  BY <1>1, SerialInvariance, PTL

-----------------------------------------------------------------------------
\* A package recorded as sent: no step rewrites the record or mails it again,
\* for a send that has begun finds its own "pending" there.
LEMMA SentStays ==
    ASSUME IInv, SInv, [Next]_vars, NEW self, Req = {self},
           NEW p \in PkgId, sendState[p] = "sent"
    PROVE  /\ sendState'[p] = "sent"
           /\ \A a \in ApprId : <<p, a>> \in mailed' => <<p, a>> \in mailed
<1>1. ASSUME NEW r \in Req, SendConsume(r) PROVE sendState'[p] = "sent" /\ mailed' = mailed
  <2>1. req[r].pkg # p
    BY <1>1, SendConsumeAlone
  <2>2. /\ sendState' = [sendState EXCEPT ![req[r].pkg] = Flush(req[r].was, "pending", @)]
        /\ mailed' = mailed
    BY <1>1 DEF SendConsume, historyVars
  <2> QED
    BY <2>1, <2>2 DEF IInv, TypeOK
<1>2. ASSUME NEW r \in Req, SendCall(r)
      PROVE  sendState' = sendState /\ \A a \in ApprId : <<p, a>> \in mailed' => <<p, a>> \in mailed
  <2>1. req[r].pkg # p
    BY <1>2, SendCallAlone
  <2>2. sendState' = sendState /\ mailed' = mailed \cup {<<req[r].pkg, req[r].appr>>}
    BY <1>2 DEF SendCall, packageVars
  <2> QED
    BY <2>1, <2>2
<1>3. ASSUME NEW r \in Req, SendRecord(r) PROVE sendState'[p] = "sent" /\ mailed' = mailed
  <2>1. sendState[req[r].pkg] = "pending"
    BY <1>3 DEF SendRecord, SInv, OneAtATime, UpToDate, At
  <2>2. /\ sendState' = [sendState EXCEPT ![req[r].pkg] = Recorded(req[r].was).send]
        /\ mailed' = mailed
    BY <1>3 DEF SendRecord, historyVars
  <2> QED
    BY <2>1, <2>2 DEF IInv, TypeOK
<1>4. ASSUME NEW r \in Req,
             \/ Begin(r) \/ Crash(r) \/ EditFlush(r) \/ DraftUnused(r)
             \/ \E c \in Content : DraftDone(r, c)
      PROVE  UNCHANGED <<sendState, mailed>>
  BY <1>4, Loads DEF packageVars, historyVars
<1>5. ASSUME NEW r \in Req, Continue(r)
      PROVE  /\ sendState'[p] = "sent"
             /\ \A a \in ApprId : <<p, a>> \in mailed' => <<p, a>> \in mailed
  <2>1. ASSUME EditCommit(r) \/ ApproveReuse(r) \/ ApproveGrant(r) \/ QaCommit(r)
               \/ ConfirmCommit(r)
        PROVE  UNCHANGED <<sendState, mailed>>
    BY <2>1 DEF EditCommit, ApproveReuse, ApproveGrant, QaCommit, ConfirmCommit,
                packageVars, historyVars
  <2> QED
    BY <1>1, <1>2, <1>3, <1>4, <1>5, <2>1 DEF Continue
<1>6. CASE \/ UNCHANGED vars
           \/ \E a \in ApprId : Expire(a)
           \/ \E s \in OtherStatus : StatusWrittenElsewhere(s)
  BY <1>6 DEF vars, Expire, StatusWrittenElsewhere, packageVars, historyVars
<1> QED
  BY <1>4, <1>5, <1>6 DEF Next

\* With one request at a time a package recorded as sent stays so, and is never
\* handed to the provider again (package_send.py:212-213).
THEOREM SentStaysSent ==
    ASSUME NEW self, Req = {self}
    PROVE  Spec => SentIsFinal
<1>1. IInv /\ SInv /\ [Next]_vars =>
        [\A p \in PkgId : sendState[p] = "sent" =>
           /\ sendState'[p] = "sent"
           /\ \A a \in ApprId : <<p, a>> \in mailed' => <<p, a>> \in mailed]_vars
  BY SentStays
<1> QED
  BY <1>1, SerialInvariance, PTL DEF Spec, SentIsFinal

-----------------------------------------------------------------------------
(* The refinement of ApprovalLedger.                                       *)

LEMMA LedgerStarts == Init => Ledger!LedgerInit
  BY DEF Init, Ledger!LedgerInit

\* A step that leaves the four mapped expressions alone.
LEMMA LedgerStutters ==
    ASSUME IInv, UNCHANGED <<forHash, used, calls, mailed>>,
           \A p \in created : content'[p] = content[p]
    PROVE  UNCHANGED Ledger!ledgerVars
<1>1. \A m \in mailed : Hash[content'[m[1]]] = Hash[content[m[1]]]
  BY DEF IInv, MailedRows
<1> QED
  BY <1>1 DEF Ledger!ledgerVars

LEMMA GrantIsLedgerStep ==
    ASSUME IInv, SInv, NEW r \in Req, Req = {r}, ApproveGrant(r)
    PROVE  Ledger!LedgerNext
<1>1. PICK a \in ApprId, h \in HashVal :
        forHash[a] = NoHash /\ forHash' = [forHash EXCEPT ![a] = h]
  BY ApproveGrantAlone
<1>2. UNCHANGED <<used, content, calls, mailed>>
  BY DEF ApproveGrant, historyVars
<1>3. Ledger!GrantTo(a, h)
  BY <1>1, <1>2 DEF Ledger!GrantTo
<1> QED
  BY <1>3 DEF Ledger!LedgerNext

LEMMA ConsumeIsLedgerStep ==
    ASSUME IInv, SInv, NEW r \in Req, Req = {r}, SendConsume(r)
    PROVE  Ledger!LedgerNext
<1>1. PICK a \in ApprId : a = req[r].appr /\ forHash[a] # NoHash /\ ~used[a]
  BY SendConsumeAlone
<1>2. used' = [used EXCEPT ![a] = TRUE] /\ UNCHANGED <<forHash, content, calls, mailed>>
  BY <1>1 DEF SendConsume, historyVars
<1>3. {b \in ApprId : used'[b]} = {b \in ApprId : used[b]} \cup {a}
  BY <1>1, <1>2 DEF IInv, TypeOK
<1>4. Ledger!Spend(a)
  BY <1>1, <1>2, <1>3 DEF Ledger!Spend
<1> QED
  BY <1>1, <1>4 DEF Ledger!LedgerNext

LEMMA CallIsLedgerStep ==
    ASSUME IInv, SInv, NEW r \in Req, Req = {r}, SendCall(r)
    PROVE  Ledger!LedgerNext
<1>1. PICK a \in ApprId, p \in created :
        /\ a = req[r].appr /\ p = req[r].pkg
        /\ used[a] /\ calls[a] = 0 /\ calls' = [calls EXCEPT ![a] = 1]
        /\ forHash[a] = Hash[content[p]]
  BY SendCallAlone
<1>2. mailed' = mailed \cup {<<p, a>>} /\ UNCHANGED <<forHash, used, content>>
  BY <1>1 DEF SendCall, packageVars, approvalVars
<1> DEFINE handed(m) == <<m[2], Hash[content[m[1]]]>>
<1>3. handed(<<p, a>>) = <<a, forHash[a]>>
  BY <1>1
<1>4. \A m : <<m[2], Hash[content'[m[1]]]>> = handed(m)
  BY <1>2
<1> HIDE DEF handed
<1>5. {handed(m) : m \in mailed'} = {handed(m) : m \in mailed} \cup {<<a, forHash[a]>>}
  BY <1>2, <1>3
<1>6. {<<m[2], Hash[content'[m[1]]]>> : m \in mailed'}
        = {<<m[2], Hash[content[m[1]]]>> : m \in mailed} \cup {<<a, forHash[a]>>}
  BY <1>4, <1>5 DEF handed
<1>7. Ledger!Emit(a)
  BY <1>1, <1>2, <1>6 DEF Ledger!Emit
<1> QED
  BY <1>1, <1>7 DEF Ledger!LedgerNext

\* Every step of the flow is a step of the ledger, or leaves the ledger alone.
LEMMA StepIsLedgerStep ==
    ASSUME IInv, SInv, [Next]_vars, NEW self, Req = {self}
    PROVE  [Ledger!LedgerNext]_(Ledger!ledgerVars)
<1>1. ASSUME NEW r \in Req,
             \/ Begin(r) \/ Crash(r) \/ EditFlush(r) \/ DraftUnused(r)
             \/ \E c \in Content : DraftDone(r, c)
      PROVE  UNCHANGED Ledger!ledgerVars
  <2>1. UNCHANGED <<forHash, used, calls, mailed, content>>
    BY <1>1, Loads DEF packageVars, approvalVars, historyVars
  <2> QED
    BY <2>1, LedgerStutters
<1>2. ASSUME NEW r \in Req, EditCommit(r) PROVE UNCHANGED Ledger!ledgerVars
  <2>1. /\ UNCHANGED <<forHash, used, calls, mailed>>
        /\ \E p \in PkgId \ created : content' = [content EXCEPT ![p] = req[r].content]
    BY <1>2 DEF EditCommit, approvalVars, historyVars
  <2>2. \A p \in created : content'[p] = content[p]
    BY <2>1 DEF IInv, TypeOK
  <2> QED
    BY <2>1, <2>2, LedgerStutters
<1>3. ASSUME NEW r \in Req,
             ApproveReuse(r) \/ SendRecord(r) \/ QaCommit(r) \/ ConfirmCommit(r)
      PROVE  UNCHANGED Ledger!ledgerVars
  <2>1. UNCHANGED <<forHash, used, calls, mailed, content>>
    BY <1>3 DEF ApproveReuse, SendRecord, QaCommit, ConfirmCommit, packageVars,
                approvalVars, historyVars
  <2> QED
    BY <2>1, LedgerStutters
<1>4. ASSUME NEW r \in Req, ApproveGrant(r) \/ SendConsume(r) \/ SendCall(r)
      PROVE  Ledger!LedgerNext
  BY <1>4, GrantIsLedgerStep, ConsumeIsLedgerStep, CallIsLedgerStep
<1>5. CASE \/ UNCHANGED vars
           \/ \E a \in ApprId : Expire(a)
           \/ \E s \in OtherStatus : StatusWrittenElsewhere(s)
  <2>1. UNCHANGED <<forHash, used, calls, mailed, content>>
    BY <1>5 DEF vars, Expire, StatusWrittenElsewhere, packageVars, approvalVars, historyVars
  <2> QED
    BY <2>1, LedgerStutters
<1> QED
  BY <1>1, <1>2, <1>3, <1>4, <1>5 DEF Next, Continue

\* With one request at a time the review flow implements the approval ledger of
\* the documents: an approval is bound once, spent before anything leaves, and
\* lets one message out, with the hash it is bound to.
THEOREM RefinesLedger ==
    ASSUME NEW self, Req = {self}
    PROVE  Spec => ImplementsLedger
<1>1. IInv /\ SInv /\ [Next]_vars => [Ledger!LedgerNext]_(Ledger!ledgerVars)
  BY StepIsLedgerStep
<1> QED
  BY <1>1, LedgerStarts, SerialInvariance, PTL DEF Spec, ImplementsLedger, Ledger!LedgerSpec

=============================================================================
