---------------------------- MODULE Sessions_proofs ----------------------------
(***************************************************************************)
(* The safety of the sessions for every set of requests, tokens, families  *)
(* and resets, and every number of password resets.                        *)
(***************************************************************************)
EXTENDS Sessions, TLAPS

\* A claim is on a usable row, which the requests that revoke it wait for.
ClaimIsUsable == \A r \in Req : req[r].at = "claimed" => Usable(req[r].token)

\* Until the purge, what a request has read of the rows is still there.
ReadsStand ==
    account # "purged" => \A r \in Req :
        /\ req[r].at \in {"refreshing", "claimed"} =>
             /\ req[r].token \in Rows
             /\ req[r].password = tokens[req[r].token].password
        /\ req[r].families \subseteq {tokens[t].family : t \in Rows}

\* A claim on a row that a revocation holds knows that it was overtaken.
OvertakenKnown ==
    \A r, q \in Req :
        req[r].at = "claimed" /\ req[r].token \in req[q].rows => req[r].overtaken

\* What a revocation under way concerns and does not hold was inserted after it began.
RestSurvives ==
    \A r \in Req, t \in Rows :
        /\ Usable(t) /\ t \notin req[r].rows
        /\ tokens[t].family \in req[r].families \/ req[r].at = "resetting"
        => tokens[t].survivor

IInv ==
    /\ TypeOK
    /\ OneUsableTokenPerFamily
    /\ ClaimIsUsable
    /\ ReadsStand
    /\ OvertakenKnown
    /\ RestSurvives
    /\ CutFamiliesStayCut

-----------------------------------------------------------------------------
\* A row is a row, and what is not one has never been inserted or is purged.
LEMMA RowsAreRows ==
    ASSUME TypeOK
    PROVE  /\ Rows \subseteq Token
           /\ \A t \in Rows : tokens[t] \in TokenRow
           /\ \A t \in Token \ Rows : tokens[t] = NoRow
           /\ NoRow \notin TokenRow
  BY SessionsAssumption DEF TypeOK, Rows, TokenRow, NoRow

LEMMA TokensStand ==
    ASSUME UNCHANGED tokens
    PROVE  Rows' = Rows /\ \A t \in Token : Usable(t)' = Usable(t)
  BY DEF Rows, Usable

LEMMA IdleIsRequest == Idle \in Request /\ Idle.rows = {} /\ Idle.families = {}
  BY SessionsAssumption DEF Idle, Request

\* A request moves on, with no claim and no revocation; the rows stand.
LEMMA GoesKeeps ==
    ASSUME IInv, NEW r \in Req, NEW session \in Request,
           session.rows = {}, session.families = {},
           session.at \notin {"claimed", "resetting"},
           account # "purged" /\ session.at = "refreshing" =>
               session.token \in Rows /\ session.password = tokens[session.token].password,
           req' = [req EXCEPT ![r] = session],
           resets' \in [Reset -> {"none", "unused", "used", "expired"}],
           UNCHANGED <<account, password, tokens, cut>>
    PROVE  IInv'
<1>1. /\ Rows' = Rows /\ \A t \in Token : Usable(t)' = Usable(t)
      /\ Rows \subseteq Token
  BY TokensStand DEF Rows
<1>2. /\ req' \in [Req -> Request] /\ req'[r] = session
      /\ \A o \in Req \ {r} : req'[o] = req[o]
  BY DEF IInv, TypeOK
<1>3. TypeOK'
  BY <1>2 DEF IInv, TypeOK
<1>4. OneUsableTokenPerFamily'
  BY <1>1, <1>2 DEF IInv, OneUsableTokenPerFamily
<1>5. ClaimIsUsable'
  BY <1>2 DEF IInv, ClaimIsUsable, Usable, Rows
<1>6. ReadsStand'
  <2> SUFFICES ASSUME account # "purged", NEW o \in Req
               PROVE  /\ req'[o].at \in {"refreshing", "claimed"} =>
                           /\ req'[o].token \in Rows
                           /\ req'[o].password = tokens[req'[o].token].password
                      /\ req'[o].families \subseteq {tokens[t].family : t \in Rows}
    BY <1>1 DEF ReadsStand
  <2>1. CASE o = r
    BY <1>2, <2>1
  <2>2. CASE o # r
    BY <1>2, <2>2 DEF IInv, ReadsStand
  <2> QED
    BY <2>1, <2>2
<1>7. OvertakenKnown'
  BY <1>2 DEF IInv, OvertakenKnown
<1>8. RestSurvives'
  <2> SUFFICES ASSUME NEW o \in Req, NEW t \in Rows, Usable(t), t \notin req'[o].rows,
                      tokens[t].family \in req'[o].families \/ req'[o].at = "resetting"
               PROVE  tokens[t].survivor
    BY <1>1 DEF RestSurvives
  <2> QED
    BY <1>2 DEF IInv, RestSurvives
<1>9. CutFamiliesStayCut'
  BY <1>1 DEF IInv, CutFamiliesStayCut
<1> QED
  BY <1>3, <1>4, <1>5, <1>6, <1>7, <1>8, <1>9 DEF IInv

\* Only reset tokens change.
LEMMA ResetsKeep ==
    ASSUME IInv, resets' \in [Reset -> {"none", "unused", "used", "expired"}],
           UNCHANGED <<account, password, tokens, req, cut>>
    PROVE  IInv'
  BY DEF IInv, TypeOK, OneUsableTokenPerFamily, ClaimIsUsable, ReadsStand, OvertakenKnown,
     RestSurvives, CutFamiliesStayCut, Usable, Rows

\* A request begins to revoke all the rows of a family, or of the account.
LEMMA RevokeKeeps ==
    ASSUME IInv, NEW r \in Req, NEW at \in {"revoking", "resetting", "deleting"},
           NEW rows \in SUBSET Rows, Revoke(r, at, rows),
           \A t \in Rows : (\E u \in rows : tokens[u].family = tokens[t].family) => t \in rows,
           at = "resetting" => rows = Rows,
           UNCHANGED <<account, password, tokens, resets, cut>>
    PROVE  IInv'
<1>1. /\ Rows' = Rows /\ \A t \in Token : Usable(t)' = Usable(t)
      /\ Rows \subseteq Token /\ \A t \in Rows : tokens[t].family \in Family
  BY RowsAreRows, TokensStand DEF IInv, TokenRow
<1> DEFINE families == {tokens[t].family : t \in rows}
<1>2. families \subseteq Family /\ rows \subseteq Token
  BY <1>1
<1>3. /\ Overtake(rows) \in [Req -> Request]
      /\ \A o \in Req :
           /\ Overtake(rows)[o].at = req[o].at /\ Overtake(rows)[o].token = req[o].token
           /\ Overtake(rows)[o].rows = req[o].rows
           /\ Overtake(rows)[o].families = req[o].families
           /\ Overtake(rows)[o].password = req[o].password
           /\ (req[o].at = "claimed" /\ req[o].token \in rows) \/ req[o].overtaken
                => Overtake(rows)[o].overtaken
  <2>1. ASSUME NEW o \in Req
        PROVE  /\ Overtake(rows)[o] \in Request
               /\ Overtake(rows)[o].at = req[o].at /\ Overtake(rows)[o].token = req[o].token
               /\ Overtake(rows)[o].rows = req[o].rows
               /\ Overtake(rows)[o].families = req[o].families
               /\ Overtake(rows)[o].password = req[o].password
               /\ (req[o].at = "claimed" /\ req[o].token \in rows) \/ req[o].overtaken
                    => Overtake(rows)[o].overtaken
    <3>1. req[o] \in Request
      BY DEF IInv, TypeOK
    <3>2. CASE req[o].at = "claimed" /\ req[o].token \in rows
      <4>1. Overtake(rows)[o] = [req[o] EXCEPT !.overtaken = TRUE]
        BY <3>2 DEF Overtake
      <4> QED
        BY <3>1, <4>1 DEF Request
    <3>3. CASE ~(req[o].at = "claimed" /\ req[o].token \in rows)
      <4>1. Overtake(rows)[o] = req[o]
        BY <3>3 DEF Overtake
      <4> QED
        BY <3>1, <3>3, <4>1
    <3> QED
      BY <3>2, <3>3
  <2>2. Overtake(rows) \in [Req -> Request]
    BY <2>1 DEF Overtake
  <2> QED
    BY <2>1, <2>2
<1>4. /\ req' \in [Req -> Request]
      /\ req'[r].at = at /\ req'[r].rows = rows /\ req'[r].families = families
      /\ \A o \in Req \ {r} : req'[o] = Overtake(rows)[o]
  <2> DEFINE over == Overtake(rows)
  <2>1. req' = [over EXCEPT ![r].at = at, ![r].rows = rows, ![r].families = families]
    BY DEF Revoke
  <2>2. over[r] \in Request /\ over \in [Req -> Request]
    BY <1>3
  <2> HIDE DEF over, families
  <2>3. req'[r] = [over[r] EXCEPT !.at = at, !.rows = rows, !.families = families]
        /\ \A o \in Req \ {r} : req'[o] = over[o]
    BY <2>1, <2>2
  <2>4. req'[r] \in Request /\ req'[r].at = at /\ req'[r].rows = rows
        /\ req'[r].families = families
    BY <1>2, <2>2, <2>3 DEF Request
  <2>5. req' \in [Req -> Request]
    BY <2>1, <2>2, <2>3, <2>4
  <2> QED
    BY <2>3, <2>4, <2>5 DEF over
<1>5. TypeOK'
  BY <1>4 DEF IInv, TypeOK
<1>6. /\ \A o \in Req : req'[o].at = "claimed" =>
           o # r /\ req[o].at = "claimed" /\ req'[o].token = req[o].token
      /\ \A o \in Req : req'[o].rows = IF o = r THEN rows ELSE req[o].rows
      /\ \A o \in Req \ {r} :
           /\ req'[o].at = req[o].at /\ req'[o].families = req[o].families
           /\ req'[o].token = req[o].token /\ req'[o].password = req[o].password
  BY <1>3, <1>4
<1> HIDE DEF families
<1>7. OneUsableTokenPerFamily' /\ ClaimIsUsable'
  <2>1. \A o, q \in Req : req'[o].at = "claimed" /\ req'[q].at = "claimed"
                            /\ req'[o].token = req'[q].token => o = q
    BY <1>6 DEF IInv, OneUsableTokenPerFamily
  <2>2. \A o \in Req : req'[o].at = "claimed" => Usable(req'[o].token)
    BY <1>6 DEF IInv, ClaimIsUsable
  <2> QED
    BY <1>1, <2>1, <2>2 DEF IInv, OneUsableTokenPerFamily, ClaimIsUsable, Usable, Rows
<1>8. ReadsStand'
  <2> SUFFICES ASSUME account # "purged", NEW o \in Req
               PROVE  /\ req'[o].at \in {"refreshing", "claimed"} =>
                           /\ req'[o].token \in Rows
                           /\ req'[o].password = tokens[req'[o].token].password
                      /\ req'[o].families \subseteq {tokens[t].family : t \in Rows}
    BY <1>1 DEF ReadsStand
  <2>1. CASE o = r
    BY <1>4, <2>1 DEF families
  <2>2. CASE o # r
    BY <1>6, <2>2 DEF IInv, ReadsStand
  <2> QED
    BY <2>1, <2>2
<1>9. OvertakenKnown'
  <2> SUFFICES ASSUME NEW o \in Req, NEW q \in Req, req'[o].at = "claimed",
                      req'[o].token \in req'[q].rows
               PROVE  req'[o].overtaken
    BY DEF OvertakenKnown
  <2>1. o # r /\ req[o].at = "claimed" /\ req'[o].token = req[o].token
        /\ req'[o] = Overtake(rows)[o]
    BY <1>4, <1>6
  <2>2. req[o].token \in rows \/ req[o].overtaken
    BY <1>6, <2>1 DEF IInv, OvertakenKnown
  <2> QED
    BY <1>3, <2>1, <2>2
<1>10. RestSurvives'
  <2> SUFFICES ASSUME NEW o \in Req, NEW t \in Rows, Usable(t), t \notin req'[o].rows,
                      tokens[t].family \in req'[o].families \/ req'[o].at = "resetting"
               PROVE  tokens[t].survivor
    BY <1>1 DEF RestSurvives
  <2>1. CASE o = r
    BY <1>4, <2>1 DEF families
  <2>2. CASE o # r
    BY <1>6, <2>2 DEF IInv, RestSurvives
  <2> QED
    BY <2>1, <2>2
<1>11. CutFamiliesStayCut'
  BY <1>1 DEF IInv, CutFamiliesStayCut
<1> QED
  BY <1>5, <1>7, <1>8, <1>9, <1>10, <1>11 DEF IInv

-----------------------------------------------------------------------------
\* The requests that read.
LEMMA LoginReadKeeps ==
    ASSUME IInv, NEW r \in Req, LoginRead(r)
    PROVE  IInv'
<1> DEFINE session == [Idle EXCEPT !.at = "logging_in", !.password = password]
<1>1. /\ session \in Request /\ session.rows = {} /\ session.families = {}
      /\ session.at = "logging_in"
  BY IdleIsRequest DEF IInv, TypeOK, Request, Idle
<1> HIDE DEF session
<1>2. /\ req' = [req EXCEPT ![r] = session]
      /\ resets' \in [Reset -> {"none", "unused", "used", "expired"}]
      /\ UNCHANGED <<account, password, tokens, cut>>
  BY DEF LoginRead, session, IInv, TypeOK
<1> QED
  BY <1>1, <1>2, GoesKeeps

LEMMA RefreshReadKeeps ==
    ASSUME IInv, NEW r \in Req, RefreshRead(r)
    PROVE  IInv'
<1>1. PICK t \in Rows :
        req' = [req EXCEPT ![r] = [Idle EXCEPT !.at = "refreshing", !.token = t,
                                               !.password = tokens[t].password]]
  BY DEF RefreshRead
<1> DEFINE session == [Idle EXCEPT !.at = "refreshing", !.token = t,
                                   !.password = tokens[t].password]
<1>2. t \in Token /\ tokens[t].password \in 0..MaxResets
  BY RowsAreRows DEF IInv, TokenRow
<1>3. /\ session \in Request /\ session.rows = {} /\ session.families = {}
      /\ session.at = "refreshing" /\ session.token = t
      /\ session.password = tokens[t].password
  BY <1>2 DEF Request, Idle
<1> HIDE DEF session
<1>4. /\ req' = [req EXCEPT ![r] = session]
      /\ resets' \in [Reset -> {"none", "unused", "used", "expired"}]
      /\ UNCHANGED <<account, password, tokens, cut>>
  BY <1>1 DEF RefreshRead, session, IInv, TypeOK
<1> QED
  BY <1>3, <1>4, GoesKeeps

LEMMA ResetReadKeeps ==
    ASSUME IInv, NEW r \in Req, ResetRead(r)
    PROVE  IInv'
<1>1. PICK x \in Reset :
        req' = [req EXCEPT ![r] = [Idle EXCEPT !.at = "redeeming", !.reset = {x}]]
  BY DEF ResetRead
<1> DEFINE session == [Idle EXCEPT !.at = "redeeming", !.reset = {x}]
<1>2. /\ session \in Request /\ session.rows = {} /\ session.families = {}
      /\ session.at = "redeeming"
  BY IdleIsRequest DEF Request, Idle
<1> HIDE DEF session
<1>3. /\ req' = [req EXCEPT ![r] = session]
      /\ resets' \in [Reset -> {"none", "unused", "used", "expired"}]
      /\ UNCHANGED <<account, password, tokens, cut>>
  BY <1>1 DEF ResetRead, session, IInv, TypeOK
<1> QED
  BY <1>2, <1>3, GoesKeeps

LEMMA AbandonKeeps ==
    ASSUME IInv, NEW r \in Req, Abandon(r)
    PROVE  IInv'
<1>1. Idle.at = "idle"
  BY DEF Idle
<1>2. /\ req' = [req EXCEPT ![r] = Idle]
      /\ resets' \in [Reset -> {"none", "unused", "used", "expired"}]
      /\ UNCHANGED <<account, password, tokens, cut>>
  BY DEF Abandon, IInv, TypeOK
<1> QED
  BY <1>1, <1>2, IdleIsRequest, GoesKeeps

\* All the rows of a family are revoked, or all of the account.
LEMMA RevokesKeep ==
    ASSUME IInv, NEW r \in Req,
           ReuseDetected(r) \/ LogoutRead(r) \/ ResetRevokes(r) \/ DeleteRead(r)
    PROVE  IInv'
<1>1. UNCHANGED <<account, password, tokens, resets, cut>>
  BY DEF ReuseDetected, LogoutRead, ResetRevokes, DeleteRead
<1>2. CASE ReuseDetected(r) \/ LogoutRead(r)
  <2>1. PICK t \in Rows : Revoke(r, "revoking", OfFamily(tokens[t].family))
    BY <1>2 DEF ReuseDetected, LogoutRead
  <2> DEFINE rows == OfFamily(tokens[t].family)
  <2>2. /\ rows \in SUBSET Rows
        /\ \A u \in Rows : (\E x \in rows : tokens[x].family = tokens[u].family) => u \in rows
    BY DEF OfFamily
  <2> HIDE DEF rows
  <2>3. Revoke(r, "revoking", rows)
    BY <2>1 DEF rows
  <2> QED
    BY <1>1, <2>2, <2>3, RevokeKeeps
<1>3. CASE ResetRevokes(r) \/ DeleteRead(r)
  <2>1. PICK at \in {"resetting", "deleting"} : Revoke(r, at, Rows)
    BY <1>3 DEF ResetRevokes, DeleteRead, OfUser
  <2> QED
    BY <1>1, <2>1, RevokeKeeps
<1> QED
  BY <1>2, <1>3

\* A usable token that no one holds is claimed; what revokes it is known.
LEMMA RefreshClaimKeeps ==
    ASSUME IInv, NEW r \in Req, RefreshClaim(r)
    PROVE  IInv'
<1> DEFINE over == \E q \in Req : req[r].token \in req[q].rows
<1>1. /\ Rows' = Rows /\ \A t \in Token : Usable(t)' = Usable(t)
      /\ Rows \subseteq Token /\ UNCHANGED <<account, password, tokens, resets, cut>>
  BY TokensStand DEF Rows, RefreshClaim
<1>2. /\ req' \in [Req -> Request]
      /\ req'[r].at = "claimed" /\ req'[r].overtaken = over
      /\ req'[r].token = req[r].token /\ req'[r].password = req[r].password
      /\ req'[r].rows = req[r].rows /\ req'[r].families = req[r].families
      /\ \A o \in Req \ {r} : req'[o] = req[o]
  <2>1. req[r] \in Request /\ over \in BOOLEAN /\ req \in [Req -> Request]
    BY DEF IInv, TypeOK
  <2>2. req' = [req EXCEPT ![r].at = "claimed", ![r].overtaken = over]
    BY DEF RefreshClaim
  <2> HIDE DEF over
  <2>3. req'[r] = [req[r] EXCEPT !.at = "claimed", !.overtaken = over]
        /\ \A o \in Req \ {r} : req'[o] = req[o]
    BY <2>1, <2>2
  <2>4. /\ req'[r] \in Request /\ req'[r].at = "claimed" /\ req'[r].overtaken = over
        /\ req'[r].token = req[r].token /\ req'[r].password = req[r].password
        /\ req'[r].rows = req[r].rows /\ req'[r].families = req[r].families
    BY <2>1, <2>3 DEF Request
  <2>5. req' \in [Req -> Request]
    BY <2>1, <2>2, <2>3, <2>4
  <2> QED
    BY <2>3, <2>4, <2>5
<1>3. /\ req[r].at = "refreshing" /\ Usable(req[r].token)
      /\ \A q \in Req : req[q].at = "claimed" => req[q].token # req[r].token
  BY DEF RefreshClaim, Claimable, Locked
<1>4. TypeOK'
  BY <1>1, <1>2 DEF IInv, TypeOK
<1>5. OneUsableTokenPerFamily'
  <2>1. \A o, q \in Req : req'[o].at = "claimed" /\ req'[q].at = "claimed"
                            /\ req'[o].token = req'[q].token => o = q
    BY <1>2, <1>3 DEF IInv, OneUsableTokenPerFamily
  <2> QED
    BY <1>1, <2>1 DEF IInv, OneUsableTokenPerFamily
<1>6. ClaimIsUsable'
  <2>1. \A o \in Req : req'[o].at = "claimed" => Usable(req'[o].token)
    BY <1>2, <1>3 DEF IInv, ClaimIsUsable
  <2> QED
    BY <1>1, <2>1 DEF ClaimIsUsable, Usable
<1> HIDE DEF over
<1>7. ReadsStand'
  <2> SUFFICES ASSUME account # "purged", NEW o \in Req
               PROVE  /\ req'[o].at \in {"refreshing", "claimed"} =>
                           /\ req'[o].token \in Rows
                           /\ req'[o].password = tokens[req'[o].token].password
                      /\ req'[o].families \subseteq {tokens[t].family : t \in Rows}
    BY <1>1 DEF ReadsStand
  <2> QED
    BY <1>2, <1>3 DEF IInv, ReadsStand
<1>8. OvertakenKnown'
  <2> SUFFICES ASSUME NEW o \in Req, NEW q \in Req, req'[o].at = "claimed",
                      req'[o].token \in req'[q].rows
               PROVE  req'[o].overtaken
    BY DEF OvertakenKnown
  <2>1. req'[o].token = req[o].token /\ req'[q].rows = req[q].rows
    BY <1>2
  <2>2. CASE o = r
    BY <1>2, <2>1, <2>2 DEF over
  <2>3. CASE o # r
    BY <1>2, <2>1, <2>3 DEF IInv, OvertakenKnown
  <2> QED
    BY <2>2, <2>3
<1>9. RestSurvives'
  <2> SUFFICES ASSUME NEW o \in Req, NEW t \in Rows, Usable(t), t \notin req'[o].rows,
                      tokens[t].family \in req'[o].families \/ req'[o].at = "resetting"
               PROVE  tokens[t].survivor
    BY <1>1 DEF RestSurvives
  <2> QED
    BY <1>2 DEF IInv, RestSurvives
<1>10. CutFamiliesStayCut'
  BY <1>1 DEF IInv, CutFamiliesStayCut
<1> QED
  BY <1>4, <1>5, <1>6, <1>7, <1>8, <1>9, <1>10 DEF IInv

-----------------------------------------------------------------------------
\* The requests that commit.  A request ends, and the others stay as they are.
LEMMA OthersStay ==
    ASSUME TypeOK, NEW r \in Req, req' = [req EXCEPT ![r] = Idle]
    PROVE  /\ req' \in [Req -> Request]
           /\ \A o \in Req : (req'[o] = req[o] /\ o # r) \/ req'[o] = Idle
           /\ \A o \in Req : req'[o].at # "idle" => req'[o] = req[o] /\ o # r
           /\ \A o \in Req : (req'[o].rows = req[o].rows /\ o # r) \/ req'[o].rows = {}
           /\ \A o \in Req : (req'[o].families = req[o].families /\ o # r)
                               \/ req'[o].families = {}
  BY IdleIsRequest DEF TypeOK, Idle

\* The rows of a revocation are revoked, which no claim holds; of what is left of
\* their families, every usable row is a survivor.
LEMMA RevokedKeeps ==
    ASSUME IInv, NEW r \in Req, Revoked(r),
           account' \in {"active", "deleted", "purged"},
           account = "purged" => account' = "purged",
           password' \in 0..MaxResets,
           password' = password \/ req[r].at = "resetting",
           resets' \in [Reset -> {"none", "unused", "used", "expired"}]
    PROVE  IInv'
<1> DEFINE rows == req[r].rows
<1>1. /\ Rows \subseteq Token /\ rows \subseteq Token
      /\ \A t \in Rows : tokens[t] \in TokenRow
      /\ \A t \in Token \ Rows : tokens[t] = NoRow
      /\ NoRow \notin TokenRow /\ req[r].families \subseteq Family
  BY RowsAreRows DEF IInv, TypeOK, Request
<1>2. ASSUME NEW t \in Rows
      PROVE  /\ tokens'[t] \in TokenRow /\ tokens'[t].family = tokens[t].family
             /\ tokens'[t].password = tokens[t].password
             /\ tokens'[t].survivor = tokens[t].survivor
             /\ tokens'[t].used = tokens[t].used
             /\ tokens'[t].revoked = (t \in rows \/ tokens[t].revoked)
  <2>1. tokens[t] \in TokenRow
    BY <1>1
  <2>2. CASE t \in rows
    <3>1. tokens'[t] = [tokens[t] EXCEPT !.revoked = TRUE]
      BY <1>1, <2>2 DEF Revoked
    <3> QED
      BY <2>1, <2>2, <3>1 DEF TokenRow
  <2>3. CASE t \notin rows
    <3>1. tokens'[t] = tokens[t]
      BY <1>1, <2>3 DEF Revoked
    <3> QED
      BY <2>1, <2>3, <3>1 DEF TokenRow
  <2> QED
    BY <2>2, <2>3
<1>3. \A t \in Token \ Rows : tokens'[t] = NoRow
  BY <1>1 DEF Revoked
<1>4. Rows' = Rows
  BY <1>1, <1>2, <1>3 DEF Rows
<1>5. \A t : Usable(t)' <=> Usable(t) /\ t \notin rows
  BY <1>2, <1>4 DEF Usable
<1>6. /\ req' \in [Req -> Request]
      /\ \A o \in Req : req'[o].at # "idle" => req'[o] = req[o] /\ o # r
      /\ \A o \in Req : (req'[o].rows = req[o].rows /\ o # r) \/ req'[o].rows = {}
      /\ \A o \in Req : (req'[o].families = req[o].families /\ o # r)
                          \/ req'[o].families = {}
  BY OthersStay DEF IInv, Revoked
<1>7. TypeOK'
  <2>1. tokens' \in [Token -> TokenRow \cup {NoRow}]
    BY <1>1, <1>2, <1>3 DEF Revoked
  <2>2. cut' \subseteq Family
    BY <1>1 DEF Revoked, IInv, TypeOK
  <2> QED
    BY <1>6, <2>1, <2>2 DEF TypeOK
<1>8. OneUsableTokenPerFamily'
  <2>1. \A t, u \in Rows : Usable(t)' /\ Usable(u)' /\ tokens'[t].family = tokens'[u].family
                             => t = u
    BY <1>2, <1>5 DEF IInv, OneUsableTokenPerFamily
  <2>2. \A o, q \in Req : req'[o].at = "claimed" /\ req'[q].at = "claimed"
                            /\ req'[o].token = req'[q].token => o = q
    BY <1>6 DEF IInv, OneUsableTokenPerFamily
  <2> QED
    BY <1>4, <2>1, <2>2 DEF OneUsableTokenPerFamily
<1>9. ClaimIsUsable'
  <2>1. ASSUME NEW o \in Req, req'[o].at = "claimed"
        PROVE  /\ req'[o] = req[o] /\ Usable(req[o].token)
               /\ req[o].token \notin rows
    BY <1>6, <2>1 DEF IInv, ClaimIsUsable, Revoked, Locked
  <2>2. ASSUME NEW o \in Req, req'[o].at = "claimed"
        PROVE  /\ req'[o].token \in Rows'
               /\ ~tokens'[req'[o].token].used /\ ~tokens'[req'[o].token].revoked
    <3>1. req'[o] = req[o] /\ req[o].token \in Rows /\ ~tokens[req[o].token].used
          /\ ~tokens[req[o].token].revoked /\ req[o].token \notin rows
      BY <2>1, <2>2 DEF Usable
    <3> QED
      BY <1>2, <1>4, <3>1
  <2> QED
    BY <2>2 DEF ClaimIsUsable, Usable
<1>10. ReadsStand'
  <2> SUFFICES ASSUME account # "purged", NEW o \in Req
               PROVE  /\ req'[o].at \in {"refreshing", "claimed"} =>
                           /\ req'[o].token \in Rows
                           /\ req'[o].password = tokens'[req'[o].token].password
                      /\ req'[o].families \subseteq {tokens'[t].family : t \in Rows}
    BY <1>4 DEF ReadsStand
  <2>1. {tokens'[t].family : t \in Rows} = {tokens[t].family : t \in Rows}
    BY <1>2
  <2>2. req'[o].families \subseteq {tokens'[t].family : t \in Rows}
    BY <1>6, <2>1 DEF IInv, ReadsStand
  <2>3. CASE req'[o].at \in {"refreshing", "claimed"}
    BY <1>2, <1>6, <2>2, <2>3 DEF IInv, ReadsStand
  <2> QED
    BY <2>2, <2>3
<1>11. OvertakenKnown'
  <2> SUFFICES ASSUME NEW o \in Req, NEW q \in Req, req'[o].at = "claimed",
                      req'[o].token \in req'[q].rows
               PROVE  req'[o].overtaken
    BY DEF OvertakenKnown
  <2> QED
    BY <1>6 DEF IInv, OvertakenKnown
<1>12. RestSurvives'
  <2> SUFFICES ASSUME NEW o \in Req, NEW t \in Rows, Usable(t)', t \notin req'[o].rows,
                      tokens'[t].family \in req'[o].families \/ req'[o].at = "resetting"
               PROVE  tokens'[t].survivor
    BY <1>4 DEF RestSurvives
  <2>1. req'[o] = req[o]
    BY OthersStay, IdleIsRequest DEF IInv, Revoked, Idle
  <2>2. /\ Usable(t) /\ t \notin req[o].rows
        /\ tokens[t].family \in req[o].families \/ req[o].at = "resetting"
    BY <1>2, <1>5, <2>1
  <2> QED
    BY <1>2, <2>2 DEF IInv, RestSurvives
<1>13. CutFamiliesStayCut'
  <2> SUFFICES ASSUME NEW t \in Rows, Usable(t)',
                      tokens'[t].family \in cut' \/ tokens'[t].password # password'
               PROVE  tokens'[t].survivor
    BY <1>4 DEF CutFamiliesStayCut
  <2>1. Usable(t) /\ t \notin rows
    BY <1>5
  <2>2. CASE tokens[t].family \in cut \/ tokens[t].password # password
    BY <1>2, <2>1, <2>2 DEF IInv, CutFamiliesStayCut
  <2>3. CASE tokens[t].family \in req[r].families \/ req[r].at = "resetting"
    BY <1>2, <2>1, <2>3 DEF IInv, RestSurvives
  <2>4. cut' = cut \cup req[r].families
    BY DEF Revoked
  <2> QED
    BY <1>2, <2>2, <2>3, <2>4
<1> QED
  BY <1>7, <1>8, <1>9, <1>10, <1>11, <1>12, <1>13 DEF IInv

LEMMA CommitsKeep ==
    ASSUME IInv, NEW r \in Req, RevokeCommit(r) \/ ResetCommit(r) \/ DeleteCommit(r)
    PROVE  IInv'
<1>1. /\ Revoked(r) /\ account' \in {"active", "deleted", "purged"}
      /\ account = "purged" => account' = "purged"
  BY DEF RevokeCommit, ResetCommit, DeleteCommit, IInv, TypeOK
<1>2. resets' \in [Reset -> {"none", "unused", "used", "expired"}]
  BY DEF RevokeCommit, ResetCommit, DeleteCommit, IInv, TypeOK
<1>3. password' \in 0..MaxResets /\ (password' = password \/ req[r].at = "resetting")
  BY SessionsAssumption DEF RevokeCommit, ResetCommit, DeleteCommit, IInv, TypeOK
<1> QED
  BY <1>1, <1>2, <1>3, RevokedKeeps

\* A row is inserted by a request that ends, and is a survivor if it must be.
LEMMA IssueKeeps ==
    ASSUME IInv, NEW r \in Req, NEW t \in Token, t \notin Rows, NEW row \in TokenRow,
           req[r].at = "logging_in" \/ req[r].at = "claimed",
           req' = [req EXCEPT ![r] = Idle], account # "purged",
           tokens' \in [Token -> TokenRow \cup {NoRow}], tokens'[t] = row,
           \A u \in Token \ Rows : u # t => tokens'[u] = NoRow,
           \A u \in Rows :
              /\ tokens'[u] \in TokenRow
              /\ tokens'[u].family = tokens[u].family
              /\ tokens'[u].password = tokens[u].password
              /\ tokens'[u].survivor = tokens[u].survivor
              /\ tokens'[u].revoked = tokens[u].revoked
              /\ req[r].at = "claimed" /\ u = req[r].token => tokens'[u].used
              /\ ~(req[r].at = "claimed" /\ u = req[r].token) =>
                   tokens'[u].used = tokens[u].used
              /\ Usable(u) /\ tokens[u].family = row.family =>
                   req[r].at = "claimed" /\ u = req[r].token,
           \A o \in Req \ {r} :
              row.family \in req[o].families \/ req[o].at = "resetting" => row.survivor,
           row.family \in cut \/ row.password # password => row.survivor,
           UNCHANGED <<account, password, resets, cut>>
    PROVE  IInv'
<1>1. /\ Rows \subseteq Token /\ \A u \in Rows : tokens[u] \in TokenRow
      /\ \A u \in Token \ Rows : tokens[u] = NoRow
      /\ NoRow \notin TokenRow
  BY RowsAreRows DEF IInv
<1>2. Rows' = Rows \cup {t}
  BY <1>1 DEF Rows
<1>3. \A u \in Rows :
         Usable(u)' <=> Usable(u) /\ ~(req[r].at = "claimed" /\ u = req[r].token)
  BY <1>2 DEF Usable
<1>4. /\ req' \in [Req -> Request]
      /\ \A o \in Req : (req'[o] = req[o] /\ o # r) \/ req'[o] = Idle
      /\ Idle.rows = {} /\ Idle.families = {} /\ Idle.at = "idle"
  BY OthersStay, IdleIsRequest DEF IInv, Idle
<1>5. TypeOK'
  BY <1>4 DEF IInv, TypeOK
<1>6. \A x, y \in Rows' : Usable(x)' /\ Usable(y)' /\ tokens'[x].family = tokens'[y].family
                             => x = y
  <2> TAKE x \in Rows', y \in Rows'
  <2>1. CASE x \in Rows /\ y \in Rows
    BY <1>3, <2>1 DEF IInv, OneUsableTokenPerFamily
  <2>2. CASE x = t \/ y = t
    BY <1>2, <1>3, <2>2
  <2> QED
    BY <1>2, <2>1, <2>2
<1>7. \A o, q \in Req : req'[o].at = "claimed" /\ req'[q].at = "claimed"
                          /\ req'[o].token = req'[q].token => o = q
  BY <1>4 DEF IInv, OneUsableTokenPerFamily
<1>8. \A o \in Req : req'[o].at = "claimed" =>
         /\ req'[o] = req[o] /\ req[o].token \in Rows /\ Usable(req[o].token)
         /\ ~(req[r].at = "claimed" /\ req[o].token = req[r].token)
  BY <1>4 DEF IInv, OneUsableTokenPerFamily, ClaimIsUsable, Usable
<1>9. ClaimIsUsable'
  <2>1. ASSUME NEW o \in Req, req'[o].at = "claimed"
        PROVE  /\ req'[o].token \in Rows'
               /\ ~tokens'[req'[o].token].used /\ ~tokens'[req'[o].token].revoked
    <3>1. /\ req'[o] = req[o] /\ req[o].token \in Rows
          /\ ~tokens[req[o].token].used /\ ~tokens[req[o].token].revoked
          /\ ~(req[r].at = "claimed" /\ req[o].token = req[r].token)
      BY <1>8, <2>1 DEF Usable
    <3> QED
      BY <1>2, <3>1
  <2> QED
    BY <2>1 DEF ClaimIsUsable, Usable
<1>10. ReadsStand'
  <2> SUFFICES ASSUME NEW o \in Req
               PROVE  /\ req'[o].at \in {"refreshing", "claimed"} =>
                           /\ req'[o].token \in Rows'
                           /\ req'[o].password = tokens'[req'[o].token].password
                      /\ req'[o].families \subseteq {tokens'[u].family : u \in Rows'}
    BY DEF ReadsStand
  <2>1. CASE req'[o] = Idle
    BY <1>4, <2>1
  <2>2. CASE req'[o] = req[o]
    <3>1. /\ req[o].families \subseteq {tokens[u].family : u \in Rows}
          /\ req[o].at \in {"refreshing", "claimed"} =>
               /\ req[o].token \in Rows
               /\ req[o].password = tokens[req[o].token].password
      BY DEF IInv, ReadsStand
    <3>2. {tokens[u].family : u \in Rows} \subseteq {tokens'[u].family : u \in Rows'}
      BY <1>2
    <3> QED
      BY <1>2, <2>2, <3>1, <3>2
  <2> QED
    BY <1>4, <2>1, <2>2
<1>11. OvertakenKnown'
  <2> SUFFICES ASSUME NEW o \in Req, NEW q \in Req, req'[o].at = "claimed",
                      req'[o].token \in req'[q].rows
               PROVE  req'[o].overtaken
    BY DEF OvertakenKnown
  <2> QED
    BY <1>4 DEF IInv, OvertakenKnown
<1>12. RestSurvives'
  <2> SUFFICES ASSUME NEW o \in Req, NEW u \in Rows', Usable(u)', u \notin req'[o].rows,
                      tokens'[u].family \in req'[o].families \/ req'[o].at = "resetting"
               PROVE  tokens'[u].survivor
    BY DEF RestSurvives
  <2>1. req'[o] = req[o] /\ o # r
    BY <1>4
  <2>2. CASE u = t
    BY <2>1, <2>2
  <2>3. CASE u \in Rows
    <3>1. Usable(u) /\ tokens'[u].family = tokens[u].family
      BY <1>3, <2>3
    <3> QED
      BY <2>1, <2>3, <3>1 DEF IInv, RestSurvives
  <2> QED
    BY <1>2, <2>2, <2>3
<1>13. CutFamiliesStayCut'
  <2> SUFFICES ASSUME NEW u \in Rows', Usable(u)',
                      tokens'[u].family \in cut \/ tokens'[u].password # password
               PROVE  tokens'[u].survivor
    BY DEF CutFamiliesStayCut
  <2>1. CASE u = t
    BY <2>1
  <2>2. CASE u \in Rows
    BY <1>3, <2>2 DEF IInv, CutFamiliesStayCut
  <2> QED
    BY <1>2, <2>1, <2>2
<1>14. OneUsableTokenPerFamily'
  BY <1>6, <1>7 DEF OneUsableTokenPerFamily
<1> QED
  BY <1>5, <1>9, <1>10, <1>11, <1>12, <1>13, <1>14 DEF IInv

\* A login inserts the first row of a family of its own.
LEMMA LoginCommitKeeps ==
    ASSUME IInv, NEW r \in Req, LoginCommit(r)
    PROVE  IInv'
<1> DEFINE late == req[r].password # password \/ \E q \in Req : req[q].at = "resetting"
<1>1. PICK t \in Token, f \in Family \ (cut \cup {tokens[x].family : x \in Rows}) :
         Issue(t, NewToken(f, req[r].password, late))
  BY DEF LoginCommit
<1>2. late \in BOOLEAN /\ req[r].password \in 0..MaxResets
  BY DEF IInv, TypeOK, Request
<1>3. (req[r].password # password => late)
      /\ \A q \in Req : req[q].at = "resetting" => late
  OBVIOUS
<1> HIDE DEF late
<1> DEFINE row == NewToken(f, req[r].password, late)
<1>4. /\ row \in TokenRow /\ row.family = f /\ row.password = req[r].password
      /\ row.survivor = late
  BY <1>2 DEF NewToken, TokenRow
<1>5. /\ Rows \subseteq Token /\ \A u \in Rows : tokens[u] \in TokenRow
      /\ \A u \in Token \ Rows : tokens[u] = NoRow
  BY RowsAreRows DEF IInv
<1>6. t \notin Rows /\ tokens' = [tokens EXCEPT ![t] = row]
  BY <1>1 DEF Issue
<1> HIDE DEF row
<1>7. /\ tokens' \in [Token -> TokenRow \cup {NoRow}] /\ tokens'[t] = row
      /\ \A u \in Token \ {t} : tokens'[u] = tokens[u]
  BY <1>4, <1>6 DEF IInv, TypeOK
<1>8. \A u \in Rows : tokens'[u] = tokens[u] /\ tokens[u].family # row.family
  BY <1>1, <1>4, <1>5, <1>6, <1>7
<1>9. account # "purged" /\ req[r].at = "logging_in" /\ req' = [req EXCEPT ![r] = Idle]
      /\ UNCHANGED <<account, password, resets, cut>>
  BY DEF LoginCommit
<1>10. \A o \in Req : row.family \notin req[o].families
  BY <1>1, <1>4, <1>9 DEF IInv, ReadsStand
<1>11. \A o \in Req \ {r} :
          row.family \in req[o].families \/ req[o].at = "resetting" => row.survivor
  BY <1>3, <1>4, <1>10
<1>12. row.family \in cut \/ row.password # password => row.survivor
  BY <1>1, <1>3, <1>4
<1>13. \A u \in Rows :
          /\ tokens'[u] \in TokenRow
          /\ tokens'[u].family = tokens[u].family
          /\ tokens'[u].password = tokens[u].password
          /\ tokens'[u].survivor = tokens[u].survivor
          /\ tokens'[u].revoked = tokens[u].revoked
          /\ req[r].at = "claimed" /\ u = req[r].token => tokens'[u].used
          /\ ~(req[r].at = "claimed" /\ u = req[r].token) =>
               tokens'[u].used = tokens[u].used
          /\ Usable(u) /\ tokens[u].family = row.family =>
               req[r].at = "claimed" /\ u = req[r].token
  BY <1>5, <1>8, <1>9
<1>14. \A u \in Token \ Rows : u # t => tokens'[u] = NoRow
  BY <1>5, <1>7
<1>15. /\ t \in Token /\ t \notin Rows /\ row \in TokenRow
       /\ tokens' \in [Token -> TokenRow \cup {NoRow}] /\ tokens'[t] = row
       /\ req[r].at = "logging_in" \/ req[r].at = "claimed"
  BY <1>4, <1>6, <1>7, <1>9
<1>16. /\ account # "purged" /\ req' = [req EXCEPT ![r] = Idle]
       /\ UNCHANGED <<account, password, resets, cut>>
  BY <1>9
<1> QED
  BY <1>11, <1>12, <1>13, <1>14, <1>15, <1>16, IssueKeeps, ZenonT(60)

\* The account is looked at and nothing is written.
LEMMA RefreshAdmitKeeps ==
    ASSUME IInv, NEW r \in Req, RefreshAdmit(r)
    PROVE  IInv'
<1>1. /\ Rows' = Rows /\ \A t \in Token : Usable(t)' = Usable(t)
      /\ Rows \subseteq Token /\ UNCHANGED <<account, password, tokens, resets, cut>>
  BY TokensStand DEF Rows, RefreshAdmit
<1>2. /\ req' \in [Req -> Request]
      /\ \A o \in Req :
           /\ req'[o].at = req[o].at /\ req'[o].token = req[o].token
           /\ req'[o].password = req[o].password /\ req'[o].overtaken = req[o].overtaken
           /\ req'[o].rows = req[o].rows /\ req'[o].families = req[o].families
  <2>1. req[r] \in Request /\ req \in [Req -> Request]
    BY DEF IInv, TypeOK
  <2>2. req' = [req EXCEPT ![r] = [req[r] EXCEPT !.admitted = TRUE]]
    BY DEF RefreshAdmit
  <2> DEFINE s == [req[r] EXCEPT !.admitted = TRUE]
  <2>3. /\ s \in Request /\ s.at = req[r].at /\ s.token = req[r].token
        /\ s.password = req[r].password /\ s.overtaken = req[r].overtaken
        /\ s.rows = req[r].rows /\ s.families = req[r].families
    BY <2>1 DEF Request
  <2> HIDE DEF s
  <2>4. req' = [req EXCEPT ![r] = s]
    BY <2>2 DEF s
  <2>5. req'[r] = s /\ \A o \in Req \ {r} : req'[o] = req[o]
    BY <2>1, <2>4
  <2> QED
    BY <2>1, <2>3, <2>4, <2>5
<1>3. TypeOK'
  BY <1>1, <1>2 DEF IInv, TypeOK
<1>4. OneUsableTokenPerFamily' /\ ClaimIsUsable'
  BY <1>1, <1>2 DEF IInv, OneUsableTokenPerFamily, ClaimIsUsable, Usable, Rows
<1>5. ReadsStand' /\ OvertakenKnown'
  BY <1>1, <1>2 DEF IInv, ReadsStand, OvertakenKnown
<1>6. RestSurvives' /\ CutFamiliesStayCut'
  BY <1>1, <1>2 DEF IInv, RestSurvives, CutFamiliesStayCut
<1> QED
  BY <1>3, <1>4, <1>5, <1>6 DEF IInv

\* A refresh uses the token it has claimed up, and inserts the next of its family.
LEMMA RefreshIssueKeeps ==
    ASSUME IInv, NEW r \in Req, RefreshIssue(r)
    PROVE  IInv'
<1> DEFINE old == req[r].token
           late == tokens[old].survivor \/ req[r].overtaken
           row == NewToken(tokens[old].family, req[r].password, late)
<1>1. PICK t \in Token \ Rows : tokens' = [tokens EXCEPT ![old].used = TRUE, ![t] = row]
  BY DEF RefreshIssue
<1>2. /\ req[r].at = "claimed" /\ account # "purged" /\ req' = [req EXCEPT ![r] = Idle]
      /\ UNCHANGED <<account, password, resets, cut>>
  BY DEF RefreshIssue
<1>3. /\ Rows \subseteq Token /\ \A u \in Rows : tokens[u] \in TokenRow
      /\ \A u \in Token \ Rows : tokens[u] = NoRow
  BY RowsAreRows DEF IInv
<1>4. Usable(old) /\ old \in Rows /\ old # t /\ tokens[old] \in TokenRow
      /\ req[r].password = tokens[old].password
  BY <1>2, <1>3 DEF IInv, ClaimIsUsable, Usable, ReadsStand
<1>5. late \in BOOLEAN
  BY <1>4 DEF TokenRow, IInv, TypeOK, Request
<1>6. (tokens[old].survivor => late) /\ (req[r].overtaken => late)
  OBVIOUS
<1> HIDE DEF late
<1>7. /\ row \in TokenRow /\ row.family = tokens[old].family
      /\ row.password = tokens[old].password /\ row.survivor = late
  BY <1>4, <1>5 DEF NewToken, TokenRow
<1> HIDE DEF row
<1>8. /\ tokens'[t] = row /\ tokens'[old] = [tokens[old] EXCEPT !.used = TRUE]
      /\ \A u \in Token \ {t, old} : tokens'[u] = tokens[u]
  BY <1>1, <1>3, <1>4 DEF IInv, TypeOK
<1>9. /\ tokens'[old] \in TokenRow /\ tokens'[old].family = tokens[old].family
      /\ tokens'[old].password = tokens[old].password
      /\ tokens'[old].survivor = tokens[old].survivor
      /\ tokens'[old].revoked = tokens[old].revoked /\ tokens'[old].used
  BY <1>4, <1>8 DEF TokenRow
<1>10. tokens' \in [Token -> TokenRow \cup {NoRow}]
  <2>1. \A u \in Token : tokens'[u] \in TokenRow \cup {NoRow}
    BY <1>7, <1>8, <1>9 DEF IInv, TypeOK
  <2> DEFINE held == [tokens EXCEPT ![old].used = TRUE]
  <2>2. DOMAIN tokens = Token /\ tokens' = [held EXCEPT ![t] = row]
    BY <1>1 DEF IInv, TypeOK
  <2>3. tokens' = [u \in Token |-> tokens'[u]]
    BY <2>2
  <2> QED
    BY <2>1, <2>3
<1>11. \A u \in Rows : Usable(u) /\ tokens[u].family = row.family => u = old
  BY <1>4, <1>7 DEF IInv, OneUsableTokenPerFamily
<1>12. \A o \in Req :
          row.family \in req[o].families \/ req[o].at = "resetting" => row.survivor
  <2> TAKE o \in Req
  <2>1. CASE old \in req[o].rows
    BY <1>2, <1>6, <1>7, <2>1 DEF IInv, OvertakenKnown
  <2>2. CASE old \notin req[o].rows
    BY <1>4, <1>6, <1>7, <2>2 DEF IInv, RestSurvives
  <2> QED
    BY <2>1, <2>2
<1>13. row.family \in cut \/ row.password # password => row.survivor
  BY <1>4, <1>6, <1>7 DEF IInv, CutFamiliesStayCut
<1>14. \A u \in Rows :
          /\ tokens'[u] \in TokenRow
          /\ tokens'[u].family = tokens[u].family
          /\ tokens'[u].password = tokens[u].password
          /\ tokens'[u].survivor = tokens[u].survivor
          /\ tokens'[u].revoked = tokens[u].revoked
          /\ req[r].at = "claimed" /\ u = req[r].token => tokens'[u].used
          /\ ~(req[r].at = "claimed" /\ u = req[r].token) =>
               tokens'[u].used = tokens[u].used
          /\ Usable(u) /\ tokens[u].family = row.family =>
               req[r].at = "claimed" /\ u = req[r].token
  <2> TAKE u \in Rows
  <2>1. CASE u = old
    BY <1>2, <1>9, <2>1
  <2>2. CASE u # old
    <3>1. tokens'[u] = tokens[u] /\ tokens[u] \in TokenRow
      BY <1>3, <1>8, <2>2
    <3> QED
      BY <1>11, <2>2, <3>1
  <2> QED
    BY <2>1, <2>2
<1>15. \A u \in Token \ Rows : u # t => tokens'[u] = NoRow
  BY <1>3, <1>4, <1>8
<1>16. t \in Token /\ t \notin Rows /\ account # "purged"
  BY <1>2
<1> QED
  BY <1>2, <1>16, <1>7, <1>8, <1>10, <1>12, <1>13, <1>14, <1>15, IssueKeeps, ZenonT(60)

-----------------------------------------------------------------------------
LEMMA TokenExpiresKeeps ==
    ASSUME IInv, NEW t \in Token, TokenExpires(t)
    PROVE  IInv'
<1>1. /\ Rows \subseteq Token /\ \A u \in Rows : tokens[u] \in TokenRow
      /\ \A u \in Token \ Rows : tokens[u] = NoRow
      /\ NoRow \notin TokenRow /\ t \in Rows
  BY RowsAreRows DEF IInv, TokenExpires
<1>2. /\ tokens'[t] = [tokens[t] EXCEPT !.expired = TRUE]
      /\ \A u \in Token \ {t} : tokens'[u] = tokens[u]
      /\ UNCHANGED <<account, password, resets, req, cut>>
  BY DEF IInv, TypeOK, TokenExpires
<1>3. \A u \in Rows :
         /\ tokens'[u] \in TokenRow
         /\ tokens'[u].family = tokens[u].family /\ tokens'[u].password = tokens[u].password
         /\ tokens'[u].survivor = tokens[u].survivor /\ tokens'[u].used = tokens[u].used
         /\ tokens'[u].revoked = tokens[u].revoked
  <2> TAKE u \in Rows
  <2>1. tokens[u] \in TokenRow
    BY <1>1
  <2>2. CASE u = t
    BY <1>2, <2>1, <2>2 DEF TokenRow
  <2>3. CASE u # t
    BY <1>1, <1>2, <2>1, <2>3
  <2> QED
    BY <2>2, <2>3
<1>4. Rows' = Rows
  BY <1>1, <1>2, <1>3 DEF Rows
<1>5. \A u : Usable(u)' <=> Usable(u)
  BY <1>3, <1>4 DEF Usable
<1>6. TypeOK'
  <2>1. tokens' \in [Token -> TokenRow \cup {NoRow}]
    BY <1>1, <1>2, <1>3 DEF IInv, TypeOK, TokenExpires
  <2> QED
    BY <1>2, <2>1 DEF IInv, TypeOK
<1>7. OneUsableTokenPerFamily'
  BY <1>2, <1>3, <1>4, <1>5 DEF IInv, OneUsableTokenPerFamily
<1>8. ClaimIsUsable'
  <2>1. ASSUME NEW o \in Req, req[o].at = "claimed"
        PROVE  /\ req[o].token \in Rows
               /\ ~tokens'[req[o].token].used /\ ~tokens'[req[o].token].revoked
    BY <1>3, <2>1 DEF IInv, ClaimIsUsable, Usable
  <2> QED
    BY <1>2, <1>4, <2>1 DEF ClaimIsUsable, Usable
<1>9. ReadsStand'
  <2>1. {tokens'[u].family : u \in Rows} = {tokens[u].family : u \in Rows}
    BY <1>3
  <2> QED
    BY <1>2, <1>3, <1>4, <2>1 DEF IInv, ReadsStand
<1>10. OvertakenKnown'
  BY <1>2 DEF IInv, OvertakenKnown
<1>11. RestSurvives'
  <2> SUFFICES ASSUME NEW o \in Req, NEW u \in Rows, Usable(u), u \notin req[o].rows,
                      tokens[u].family \in req[o].families \/ req[o].at = "resetting"
               PROVE  tokens'[u].survivor
    BY <1>2, <1>3, <1>4, <1>5 DEF RestSurvives
  <2> QED
    BY <1>3 DEF IInv, RestSurvives
<1>12. CutFamiliesStayCut'
  BY <1>2, <1>3, <1>4, <1>5 DEF IInv, CutFamiliesStayCut
<1> QED
  BY <1>6, <1>7, <1>8, <1>9, <1>10, <1>11, <1>12 DEF IInv

\* The purge waits for the claims, and leaves nothing.
LEMMA PurgeKeeps ==
    ASSUME IInv, Purge
    PROVE  IInv'
<1>1. \A o \in Req : req[o].at # "claimed"
  BY DEF IInv, ClaimIsUsable, Usable, Purge, Locked
<1>2. Rows' = {} /\ UNCHANGED <<password, req, cut>> /\ account' = "purged"
  BY DEF Rows, Purge
<1>3. TypeOK'
  BY <1>2 DEF IInv, TypeOK, Purge
<1> QED
  BY <1>1, <1>2, <1>3 DEF IInv, OneUsableTokenPerFamily, ClaimIsUsable, ReadsStand,
     OvertakenKnown, RestSurvives, CutFamiliesStayCut

-----------------------------------------------------------------------------
LEMMA InitHolds == Init => IInv
<1> SUFFICES ASSUME Init PROVE IInv
  OBVIOUS
<1>1. Rows = {} /\ \A r \in Req : req[r] = Idle
  BY DEF Init, Rows
<1>2. Idle.at = "idle" /\ Idle.rows = {} /\ Idle.families = {}
  BY DEF Idle
<1>3. TypeOK
  BY SessionsAssumption, IdleIsRequest DEF Init, TypeOK
<1> QED
  BY <1>1, <1>2, <1>3 DEF IInv, OneUsableTokenPerFamily, ClaimIsUsable, ReadsStand,
     OvertakenKnown, RestSurvives, CutFamiliesStayCut

LEMMA NextKeeps == IInv /\ [Next]_vars => IInv'
<1> SUFFICES ASSUME IInv, [Next]_vars PROVE IInv'
  OBVIOUS
<1>1. CASE UNCHANGED vars
  <2>1. UNCHANGED <<account, password, tokens, req, cut, resets>>
    BY <1>1 DEF vars
  <2> QED
    BY <2>1, ResetsKeep DEF IInv, TypeOK
<1>2. ASSUME NEW r \in Req,
             Login(r) \/ Refresh(r) \/ End(r) \/ ResetPassword(r) \/ Abandon(r)
      PROVE  IInv'
  <2>1. CASE Login(r)
    BY <2>1, LoginReadKeeps, LoginCommitKeeps DEF Login
  <2>2. CASE Refresh(r)
    BY <2>2, RefreshReadKeeps, RefreshClaimKeeps, RevokesKeep, RefreshAdmitKeeps,
       RefreshIssueKeeps DEF Refresh
  <2>3. CASE End(r)
    BY <2>3, RevokesKeep, CommitsKeep DEF End
  <2>4. CASE ResetPassword(r)
    BY <2>4, ResetReadKeeps, RevokesKeep, CommitsKeep DEF ResetPassword
  <2>5. CASE Abandon(r)
    BY <2>5, AbandonKeeps
  <2> QED
    BY <1>2, <2>1, <2>2, <2>3, <2>4, <2>5
<1>3. ASSUME NEW t \in Token, TokenExpires(t) PROVE IInv'
  BY <1>3, TokenExpiresKeeps
<1>4. ASSUME NEW x \in Reset, ResetRequested(x) \/ ResetExpires(x) PROVE IInv'
  <2>1. resets' \in [Reset -> {"none", "unused", "used", "expired"}]
    BY <1>4 DEF IInv, TypeOK, ResetRequested, ResetExpires
  <2> QED
    BY <1>4, <2>1, ResetsKeep DEF ResetRequested, ResetExpires
<1>5. CASE Purge
  BY <1>5, PurgeKeeps
<1> QED
  BY <1>1, <1>2, <1>3, <1>4, <1>5 DEF Next

\* In every reachable state the invariant holds: claims are on usable rows, and a
\* revocation under way knows its rows, the claims it overtakes, and nothing else
\* usable but survivors.
THEOREM Invariance == Spec => []IInv
  BY InitHolds, NextKeeps, PTL DEF Spec

\* The type invariant of the sessions (models/session.py, api/v1/auth.py).
THEOREM TypeCorrect == Spec => []TypeOK
<1>1. IInv => TypeOK
  BY DEF IInv
<1> QED
  BY Invariance, <1>1, PTL

\* A family has one token that can be refreshed at most, and a token one claim, however
\* refreshes, replays, logouts and resets overlap (refresh's claiming UPDATE).
THEOREM OneUsable == Spec => []OneUsableTokenPerFamily
<1>1. IInv => OneUsableTokenPerFamily
  BY DEF IInv
<1> QED
  BY Invariance, <1>1, PTL

\* A revoked family keeps no usable token, and an earlier password none, but what was
\* inserted by a refresh or a login in flight at the time (_revoke_family, reset_password).
THEOREM CutStaysCut == Spec => []CutFamiliesStayCut
<1>1. IInv => CutFamiliesStayCut
  BY DEF IInv
<1> QED
  BY Invariance, <1>1, PTL

\* A revocation that overtakes a claim leaves it in flight or not, as it was.
LEMMA OvertakeStays ==
    ASSUME TypeOK, NEW rows, NEW o \in Req
    PROVE  /\ Overtake(rows)[o] \in Request /\ Overtake(rows)[o].at = req[o].at
           /\ Overtake(rows)[o].admitted = req[o].admitted
<1>1. req[o] \in Request
  BY DEF TypeOK
<1>2. Overtake(rows)[o] \in {req[o], [req[o] EXCEPT !.overtaken = TRUE]}
  BY DEF Overtake
<1> QED
  BY <1>1, <1>2 DEF Request

\* A revocation begins.
LEMMA RevokeAdmitsNone ==
    ASSUME TypeOK, NEW r \in Req, NEW at, at # "logging_in", NEW rows, Revoke(r, at, rows)
    PROVE  InFlight' \subseteq InFlight
<1> DEFINE over == Overtake(rows)
           families == {tokens[t].family : t \in rows}
<1>1. \A o \in Req : /\ over[o] \in Request /\ over[o].at = req[o].at
                     /\ over[o].admitted = req[o].admitted
  BY OvertakeStays
<1>2. DOMAIN over = Req
  BY DEF Overtake
<1>3. req' = [over EXCEPT ![r].at = at, ![r].rows = rows, ![r].families = families]
  BY DEF Revoke
<1> HIDE DEF over, families
<1>4. req'[r] = [over[r] EXCEPT !.at = at, !.rows = rows, !.families = families]
  BY <1>2, <1>3
<1>5. \A o \in Req \ {r} : req'[o] = over[o]
  BY <1>2, <1>3
<1>6. req'[r].at = at /\ req'[r].admitted = req[r].admitted
  BY <1>1, <1>4 DEF Request
<1> QED
  BY <1>1, <1>5, <1>6 DEF InFlight

\* A request that ends, or begins with a session of its own, is in flight only if it
\* has found the account active.
LEMMA SessionAdmitsNone ==
    ASSUME TypeOK, NEW r \in Req, NEW s, req' = [req EXCEPT ![r] = s],
           s.at # "logging_in", s.admitted => req[r].admitted
    PROVE  InFlight' \subseteq InFlight
<1>1. req'[r] = s /\ \A o \in Req \ {r} : req'[o] = req[o]
  BY DEF TypeOK
<1> QED
  BY <1>1 DEF InFlight

\* Once the account is not active no request is admitted any more.
LEMMA FlightEnds ==
    ASSUME TypeOK, Next, account # "active"
    PROVE  InFlight' \subseteq InFlight
<1>1. Idle.at # "logging_in" /\ ~Idle.admitted
  BY DEF Idle
<1>2. ASSUME NEW r \in Req, req' = [req EXCEPT ![r] = Idle]
      PROVE  InFlight' \subseteq InFlight
  BY <1>1, <1>2, SessionAdmitsNone
<1>3. ASSUME UNCHANGED req
      PROVE  InFlight' \subseteq InFlight
  BY <1>3 DEF InFlight
<1>4. ASSUME NEW r \in Req, Login(r)
      PROVE  InFlight' \subseteq InFlight
  BY <1>2, <1>4 DEF Login, LoginRead, LoginCommit
<1>5. ASSUME NEW r \in Req, Refresh(r)
      PROVE  InFlight' \subseteq InFlight
  <2>1. CASE RefreshRead(r)
    <3>1. PICK t, pw : req' = [req EXCEPT ![r] =
                         [Idle EXCEPT !.at = "refreshing", !.token = t, !.password = pw]]
      BY <2>1 DEF RefreshRead
    <3>2. LET s == [Idle EXCEPT !.at = "refreshing", !.token = t, !.password = pw]
          IN  s.at # "logging_in" /\ ~s.admitted
      BY DEF Idle
    <3> QED
      BY <3>1, <3>2, SessionAdmitsNone
  <2>2. CASE RefreshClaim(r)
    <3>1. PICK late : req' = [req EXCEPT ![r] =
                        [req[r] EXCEPT !.at = "claimed", !.overtaken = late]]
      BY <2>2 DEF RefreshClaim
    <3>2. LET s == [req[r] EXCEPT !.at = "claimed", !.overtaken = late]
          IN  s.at # "logging_in" /\ s.admitted = req[r].admitted
      BY DEF TypeOK, Request
    <3> QED
      BY <3>1, <3>2, SessionAdmitsNone
  <2>3. CASE ReuseDetected(r)
    BY <2>3, RevokeAdmitsNone DEF ReuseDetected
  <2>4. CASE RefreshAdmit(r)
    BY <2>4 DEF RefreshAdmit, MaySignIn
  <2>5. CASE RefreshIssue(r)
    BY <1>2, <2>5 DEF RefreshIssue
  <2> QED
    BY <1>5, <2>1, <2>2, <2>3, <2>4, <2>5 DEF Refresh
<1>6. ASSUME NEW r \in Req, End(r)
      PROVE  InFlight' \subseteq InFlight
  BY <1>2, <1>6, RevokeAdmitsNone
     DEF End, LogoutRead, RevokeCommit, Revoked, DeleteRead, DeleteCommit
<1>7. ASSUME NEW r \in Req, ResetPassword(r)
      PROVE  InFlight' \subseteq InFlight
  BY <1>2, <1>7, RevokeAdmitsNone
     DEF ResetPassword, ResetRead, ResetRevokes, ResetCommit, Revoked
<1> QED
  BY <1>2, <1>3, <1>4, <1>5, <1>6, <1>7
     DEF Next, Abandon, TokenExpires, ResetRequested, ResetExpires, Purge

\* Whoever inserts a row was in flight, and is not any more.
LEMMA InsertsEndFlights ==
    ASSUME TypeOK, Next, account # "active", NEW t \in Token, tokens[t] = NoRow,
           tokens'[t] # NoRow
    PROVE  InFlight' # InFlight
<1>1. ASSUME NEW r \in Req, LoginCommit(r) \/ RefreshIssue(r)
      PROVE  r \in InFlight /\ r \notin InFlight'
  <2>1. req' = [req EXCEPT ![r] = Idle] /\ req'[r] = Idle
    BY <1>1 DEF LoginCommit, RefreshIssue, TypeOK
  <2> QED
    BY <1>1, <2>1 DEF LoginCommit, RefreshIssue, InFlight, Idle
<1>3. ASSUME NEW r \in Req, Revoked(r) PROVE FALSE
  BY <1>3 DEF Revoked, Rows
<1>4. ASSUME NEW u \in Token, TokenExpires(u) PROVE FALSE
  BY <1>4 DEF TokenExpires, TypeOK, Rows
<1>5. Purge => FALSE
  BY DEF Purge
<1>6. tokens' # tokens
  OBVIOUS
<1> QED
  BY <1>1, <1>3, <1>4, <1>5, <1>6 DEF Next, Login, Refresh, End, ResetPassword,
     LoginRead, RefreshRead, RefreshClaim, ReuseDetected, RefreshAdmit, LogoutRead,
     RevokeCommit, DeleteRead, DeleteCommit, ResetRead, ResetRevokes, ResetCommit, Abandon,
     ResetRequested, ResetExpires

\* After the deletion of the account each login and refresh that had found it active
\* adds one token at most, and no other request adds any: no session that they leave
\* behind is refreshed (MaySignIn, looked at after the claim).
THEOREM DeletedOnly == Spec => DeletedOnlyEnds
<1>1. TypeOK /\ [Next]_vars =>
        [account # "active" =>
            /\ InFlight' \subseteq InFlight
            /\ (\E t \in Token : tokens[t] = NoRow /\ tokens'[t] # NoRow) =>
                   InFlight' # InFlight]_vars
  BY FlightEnds, InsertsEndFlights
<1> QED
  BY TypeCorrect, <1>1, PTL DEF Spec, DeletedOnlyEnds
=============================================================================
