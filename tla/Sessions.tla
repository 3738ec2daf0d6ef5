------------------------------- MODULE Sessions -------------------------------
(***************************************************************************)
(* The login sessions of one account (api/v1/auth.py,                      *)
(* services/password_reset.py, services/account.py).  A session is a       *)
(* family of refresh tokens of which each is used once; logout, reuse of a *)
(* token, a password reset and the deletion of the account revoke families. *)
(*                                                                         *)
(* Requests overlap.  The claim of a token is a conditional UPDATE, whose  *)
(* row lock is held until the request commits or rolls back; a revoking    *)
(* UPDATE sees the rows committed when it begins, and waits for the locks  *)
(* on them (READ COMMITTED).                                               *)
(***************************************************************************)
EXTENDS Naturals, FiniteSets

CONSTANTS
    Req,        \* requests in flight at the same time
    Token,      \* refresh tokens: bound the rows of refresh_tokens
    Family,     \* families: bound the number of logins
    Reset,      \* reset tokens: bound the rows of password_reset_tokens
    MaxResets,  \* bound on the password resets carried out
    NoToken, NoFamily

ASSUME SessionsAssumption ==
    /\ NoToken \notin Token /\ NoFamily \notin Family /\ MaxResets \in Nat

VARIABLES
    account,   \* "active", "deleted" (deleted_at is set) or "purged"
    password,  \* number of the account's password: resets carried out
    tokens,    \* refresh_tokens
    resets,    \* password_reset_tokens: "none", "unused", "used" or "expired"
    req,       \* the requests
    cut        \* history: families revoked by a request that has committed

vars == <<account, password, tokens, resets, req, cut>>

\* A row of refresh_tokens.  History: `password` was verified for its family, and a
\* `survivor` descends from a claim that a revocation of its family overtook, or from
\* a login that a password reset overtook.
TokenRow == [family : Family, used : BOOLEAN, revoked : BOOLEAN, expired : BOOLEAN,
             password : 0..MaxResets, survivor : BOOLEAN]
NoRow == [family |-> NoFamily]

Rows == {t \in Token : tokens[t] # NoRow}
Usable(t) == t \in Rows /\ ~tokens[t].used /\ ~tokens[t].revoked
Live(t) == Usable(t) /\ ~tokens[t].expired
OfFamily(f) == {t \in Rows : tokens[t].family = f}

\* Of a request: the token it presents or has claimed, whether it has found that the
\* account may sign in since, the rows its UPDATE revokes and the families (history)
\* they make up, the reset token it redeems, the password it has verified, and
\* (history) whether a revocation overtook it.
Request == [at : {"idle", "logging_in", "refreshing", "claimed", "revoking", "resetting",
                  "redeeming", "deleting"},
            token : Token \cup {NoToken}, admitted : BOOLEAN,
            rows : SUBSET Token, families : SUBSET Family,
            reset : SUBSET Reset, password : 0..MaxResets, overtaken : BOOLEAN]

Idle == [at |-> "idle", token |-> NoToken, admitted |-> FALSE, rows |-> {},
         families |-> {}, reset |-> {}, password |-> 0, overtaken |-> FALSE]

Init ==
    /\ account = "active" /\ password = 0
    /\ tokens = [t \in Token |-> NoRow]
    /\ resets = [x \in Reset |-> "none"]
    /\ req = [r \in Req |-> Idle]
    /\ cut = {}

Locked(t) == \E r \in Req : req[r].at = "claimed" /\ req[r].token = t

\* Every claim in progress on a row of a revocation has been overtaken by it: what
\* it will insert is not among the rows.
Overtake(rows) ==
    [r \in Req |-> IF req[r].at = "claimed" /\ req[r].token \in rows
                   THEN [req[r] EXCEPT !.overtaken = TRUE] ELSE req[r]]

\* A request goes on with an UPDATE that revokes `rows`, as phase `at`.
Revoke(r, at, rows) ==
    req' = [Overtake(rows) EXCEPT ![r].at = at, ![r].rows = rows,
              ![r].families = {tokens[t].family : t \in rows}]

\* The revocation is committed once no row of it is locked any more.
Revoked(r) ==
    /\ \A t \in req[r].rows : ~Locked(t)
    /\ tokens' = [t \in Token |->
         IF t \in req[r].rows \cap Rows THEN [tokens[t] EXCEPT !.revoked = TRUE] ELSE tokens[t]]
    /\ cut' = cut \cup req[r].families
    /\ req' = [req EXCEPT ![r] = Idle]

-----------------------------------------------------------------------------
(* Logging in and refreshing. *)

\* login: the password is verified against the account as loaded.
LoginRead(r) ==
    /\ req[r].at = "idle" /\ account = "active"
    /\ req' = [req EXCEPT ![r] = [Idle EXCEPT !.at = "logging_in", !.password = password]]
    /\ UNCHANGED <<account, password, tokens, resets, cut>>

\* _issue_session: one row is inserted; without the account the insert fails.
Issue(t, row) == /\ t \in Token \ Rows
                 /\ tokens' = [tokens EXCEPT ![t] = row]

NewToken(f, pw, survivor) ==
    [family |-> f, used |-> FALSE, revoked |-> FALSE, expired |-> FALSE,
     password |-> pw, survivor |-> survivor]

LoginCommit(r) ==
    /\ req[r].at = "logging_in" /\ account # "purged"
    /\ \E t \in Token, f \in Family \ (cut \cup {tokens[x].family : x \in Rows}) :
         Issue(t, NewToken(f, req[r].password,
                    req[r].password # password \/ \E q \in Req : req[q].at = "resetting"))
    /\ req' = [req EXCEPT ![r] = Idle]
    /\ UNCHANGED <<account, password, resets, cut>>

\* refresh: the presented token is looked up; an expired one is refused.
RefreshRead(r) ==
    /\ req[r].at = "idle"
    /\ \E t \in Rows :
         /\ ~tokens[t].expired
         /\ req' = [req EXCEPT ![r] = [Idle EXCEPT !.at = "refreshing", !.token = t,
                      !.password = tokens[t].password]]
    /\ UNCHANGED <<account, password, tokens, resets, cut>>

\* Mutant of Claimable: the claim does not look at `revoked`.
ClaimableThoughRevoked(t) == t \in Rows /\ ~tokens[t].used

\* Mutant of Claimable: an UPDATE by primary key, whatever the row holds.
ClaimableAgain(t) == t \in Rows /\ ~tokens[t].revoked

\* The WHERE clause of the claiming UPDATE.
Claimable(t) == Usable(t)

RefreshClaim(r) ==
    /\ req[r].at = "refreshing"
    /\ Claimable(req[r].token) /\ ~Locked(req[r].token)
    /\ req' = [req EXCEPT ![r].at = "claimed",
                          ![r].overtaken = \E q \in Req : req[r].token \in req[q].rows]
    /\ UNCHANGED <<account, password, tokens, resets, cut>>

\* Nothing was claimed: the whole family of the token is revoked.
ReuseDetected(r) ==
    /\ req[r].at = "refreshing"
    /\ ~Claimable(req[r].token) /\ ~Locked(req[r].token)
    /\ req[r].token \in Rows
    /\ Revoke(r, "revoking", OfFamily(tokens[req[r].token].family))
    /\ UNCHANGED <<account, password, tokens, resets, cut>>

\* Mutant of MaySignIn: only a purged account is refused.
MaySignInUntilPurged == account # "purged"

\* is_active and deleted_at, looked at by login, refresh and the reset.
MaySignIn == account = "active"

\* After the claim the account is read, without a lock ...
RefreshAdmit(r) ==
    /\ req[r].at = "claimed" /\ ~req[r].admitted /\ MaySignIn
    /\ req' = [req EXCEPT ![r].admitted = TRUE]
    /\ UNCHANGED <<account, password, tokens, resets, cut>>

\* ... and then, whatever has become of it, the next token of the family is inserted,
\* in one transaction with the claim.
RefreshIssue(r) ==
    LET old == req[r].token IN
    /\ req[r].at = "claimed" /\ req[r].admitted /\ account # "purged"
    /\ \E t \in Token \ Rows :
         tokens' = [tokens EXCEPT ![old].used = TRUE,
                      ![t] = NewToken(tokens[old].family, req[r].password,
                                      tokens[old].survivor \/ req[r].overtaken)]
    /\ req' = [req EXCEPT ![r] = Idle]
    /\ UNCHANGED <<account, password, resets, cut>>

\* The account is gone, or the request dies: the claim is rolled back.
Abandon(r) ==
    /\ req[r].at # "idle"
    /\ req' = [req EXCEPT ![r] = Idle]
    /\ UNCHANGED <<account, password, tokens, resets, cut>>

-----------------------------------------------------------------------------
(* Ending sessions. *)

LogoutRead(r) ==
    /\ req[r].at = "idle"
    /\ \E t \in Rows : Revoke(r, "revoking", OfFamily(tokens[t].family))
    /\ UNCHANGED <<account, password, tokens, resets, cut>>

RevokeCommit(r) ==
    /\ req[r].at = "revoking"
    /\ Revoked(r)
    /\ UNCHANGED <<account, password, resets>>

\* request_password_reset
ResetRequested(x) ==
    /\ account = "active" /\ resets[x] = "none"
    /\ resets' = [resets EXCEPT ![x] = "unused"]
    /\ UNCHANGED <<account, password, tokens, req, cut>>

\* reset_password: an unused, unexpired token of an account that is not deleted.
ResetRead(r) ==
    /\ req[r].at = "idle" /\ account = "active" /\ password < MaxResets
    /\ \E x \in Reset :
         /\ resets[x] = "unused"
         /\ req' = [req EXCEPT ![r] = [Idle EXCEPT !.at = "redeeming", !.reset = {x}]]
    /\ UNCHANGED <<account, password, tokens, resets, cut>>

\* The rows of the account, which is the only one here.
OfUser == Rows

ResetRevokes(r) ==
    /\ req[r].at = "redeeming"
    /\ Revoke(r, "resetting", OfUser)
    /\ UNCHANGED <<account, password, tokens, resets, cut>>

\* Password, the token's used_at (written by primary key) and that of every other
\* unused token, and the revocation are one transaction.
ResetCommit(r) ==
    /\ req[r].at = "resetting" /\ account # "purged" /\ password < MaxResets
    /\ Revoked(r)
    /\ password' = password + 1
    /\ resets' = [x \in Reset |->
         IF resets[x] = "unused" \/ x \in req[r].reset THEN "used" ELSE resets[x]]
    /\ UNCHANGED account

\* delete_account: deleted_at and the revocation are one transaction.
DeleteRead(r) ==
    /\ req[r].at = "idle" /\ account = "active"
    /\ Revoke(r, "deleting", OfUser)
    /\ UNCHANGED <<account, password, tokens, resets, cut>>

DeleteCommit(r) ==
    /\ req[r].at = "deleting" /\ account # "purged"
    /\ Revoked(r)
    /\ account' = "deleted"
    /\ UNCHANGED <<password, resets>>

\* purge_deleted_accounts, delete_user_data: after the grace period every row goes.
Purge ==
    /\ account = "deleted"
    /\ \A t \in Rows : ~Locked(t)
    /\ account' = "purged"
    /\ tokens' = [t \in Token |-> NoRow]
    /\ resets' = [x \in Reset |-> "none"]
    /\ UNCHANGED <<password, req, cut>>

\* Time passes.
TokenExpires(t) ==
    /\ t \in Rows /\ ~tokens[t].expired
    /\ tokens' = [tokens EXCEPT ![t].expired = TRUE]
    /\ UNCHANGED <<account, password, resets, req, cut>>

ResetExpires(x) ==
    /\ resets[x] = "unused"
    /\ resets' = [resets EXCEPT ![x] = "expired"]
    /\ UNCHANGED <<account, password, tokens, req, cut>>

Login(r) == LoginRead(r) \/ LoginCommit(r)
Refresh(r) ==
    \/ RefreshRead(r) \/ RefreshClaim(r) \/ ReuseDetected(r)
    \/ RefreshAdmit(r) \/ RefreshIssue(r)
End(r) == LogoutRead(r) \/ RevokeCommit(r) \/ DeleteRead(r) \/ DeleteCommit(r)
ResetPassword(r) == ResetRead(r) \/ ResetRevokes(r) \/ ResetCommit(r)

Next ==
    \/ \E r \in Req : Login(r) \/ Refresh(r) \/ End(r) \/ ResetPassword(r) \/ Abandon(r)
    \/ \E t \in Token : TokenExpires(t)
    \/ \E x \in Reset : ResetRequested(x) \/ ResetExpires(x)
    \/ Purge

Spec == Init /\ [][Next]_vars

-----------------------------------------------------------------------------
(* Properties. *)

\* The state is well typed, and a claim holds a lock on one committed row.
TypeOK ==
    /\ account \in {"active", "deleted", "purged"}
    /\ password \in 0..MaxResets
    /\ tokens \in [Token -> TokenRow \cup {NoRow}]
    /\ resets \in [Reset -> {"none", "unused", "used", "expired"}]
    /\ req \in [Req -> Request]
    /\ cut \subseteq Family

\* However refreshes, replays, logouts and resets overlap, a family never has two
\* tokens that can be refreshed, and a token is claimed by one request at a time.
OneUsableTokenPerFamily ==
    /\ \A t, u \in Rows : Usable(t) /\ Usable(u) /\ tokens[t].family = tokens[u].family => t = u
    /\ \A r, q \in Req : req[r].at = "claimed" /\ req[q].at = "claimed"
                           /\ req[r].token = req[q].token => r = q

\* A family that a committed logout, reuse, reset or deletion has revoked has no
\* usable token, and no token is usable whose login verified an earlier password:
\* except for what a refresh or a login inserted that was in flight at the time.
CutFamiliesStayCut ==
    \A t \in Rows :
        Usable(t) /\ (tokens[t].family \in cut \/ tokens[t].password # password)
            => tokens[t].survivor

\* The requests that have found the account active and have not inserted yet.
InFlight == {r \in Req : req[r].at = "logging_in" \/ req[r].admitted}

\* A deleted account gets no new token but from the logins and refreshes that had
\* found it active before, one token from each: none is added to them, and no session
\* they leave behind is refreshed (auth.py:229-233).
DeletedOnlyEnds ==
    [][account # "active" =>
        /\ InFlight' \subseteq InFlight
        /\ (\E t \in Token : tokens[t] = NoRow /\ tokens'[t] # NoRow) =>
               InFlight' # InFlight]_vars
=============================================================================
