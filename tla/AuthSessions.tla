--------------------------- MODULE AuthSessions ---------------------------
(***************************************************************************)
(* Owner sessions: the users and refresh_tokens tables, the three auth     *)
(* handlers that work on them (session exchange, refresh, logout), the     *)
(* nightly clean-up job, and the environment: database errors, replies     *)
(* that never reach the client, restarts with another allowlist, operators *)
(* who delete a user, and the clock.                                       *)
(*                                                                         *)
(* Each handler is split where another one can get in between: after every *)
(* statement it sends to PostgreSQL.  RotateRefreshToken is a transaction: *)
(* its UPDATE takes the lock on the old row, which every other writer of   *)
(* that row has to wait for, and its effects are seen by nobody before the *)
(* commit.  The INSERT and the COMMIT are one step, because between them   *)
(* nothing can be observed.                                                *)
(***************************************************************************)
EXTENDS Naturals, FiniteSets

CONSTANTS
  Uids,        \* Firebase user ids
  Emails,      \* canonical (lower-case, trimmed) e-mail addresses
  UserIds,     \* primary keys uuid.New() can yield for users rows
  Tokens,      \* raw refresh tokens (and, one to one, their hashes)
  Requests,    \* handler goroutines
  None,        \* no user, no token, no uid
  RefreshTTL,  \* refreshTTL, in ticks of the clock
  MaxNow,      \* bound on the clock
  DevOrTest    \* the process runs with APP_ENV development or test

ASSUME AuthAssumption ==
  /\ None \notin Tokens \cup UserIds \cup Uids \cup Emails
  /\ RefreshTTL \in Nat \ {0}
  /\ MaxNow \in Nat
  /\ DevOrTest \in BOOLEAN

VARIABLES
  now,        \* the clock; the database's NOW() and the server's time.Now()
  allowed,    \* AuthService.allowedUIDs of the running process
  users,      \* the users table
  tokens,     \* the refresh_tokens table
  req,        \* the requests being handled
  held,       \* tokens some client has received in a reply
  lineage,    \* history: which exchange and which token a token descends from
  loggedOut   \* history: tokens a logout was carried out for, live or not

vars == <<now, allowed, users, tokens, req, held, lineage, loggedOut>>
tables == <<users, tokens>>
history == <<lineage, loggedOut>>
-----------------------------------------------------------------------------
\* An id is never handed out twice, so a row that was deleted stays distinct
\* from a row that was never inserted.
UserRow == [state : {"absent", "present", "deleted"},
            uid : Uids \cup {None}, email : Emails \cup {None}]

\* "live" is revoked_at IS NULL, whether or not the row has expired.
TokenRow == [status : {"absent", "live", "revoked", "deleted"},
             user : UserIds \cup {None}, expires : Nat]

Ancestry == [root : Tokens \cup {None}, parent : Tokens \cup {None},
             uid : Uids \cup {None}]

Request ==
  [pc : {"idle", "upsert", "create", "findUser", "begin", "revoke",
         "commit", "done"},
   cred : Tokens \cup {None},   \* the token a refresh presents
   user : UserIds \cup {None},  \* the userID the handler works with
   uid : Uids \cup {None},      \* the verified Firebase claims
   email : Emails \cup {None},
   mint : Tokens \cup {None},   \* the token in a 200 reply
   since : Nat,                 \* NOW() of the rotation's transaction
   reply : {"none", "200", "401", "403", "409", "500"}]

NoUser == [state |-> "absent", uid |-> None, email |-> None]
NoToken == [status |-> "absent", user |-> None, expires |-> 0]
NoAncestry == [root |-> None, parent |-> None, uid |-> None]
IdleRequest == [pc |-> "idle", cred |-> None, user |-> None, uid |-> None,
                email |-> None, mint |-> None, since |-> 0, reply |-> "none"]

TypeOK ==
  /\ now \in Nat
  /\ allowed \subseteq Uids
  /\ users \in [UserIds -> UserRow]
  /\ tokens \in [Tokens -> TokenRow]
  /\ req \in [Requests -> Request]
  /\ held \subseteq Tokens
  /\ lineage \in [Tokens -> Ancestry]
  /\ loggedOut \subseteq Tokens

Live(t) == tokens[t].status = "live"
Stored(t) == tokens[t].status \in {"live", "revoked"}
Present(u) == u \in UserIds /\ users[u].state = "present"
-----------------------------------------------------------------------------
\* ValidateFirebaseAuthConfig refuses to start staging or production without
\* an allowlist.
StartableWith(uids) == uids # {} \/ DevOrTest

AllowlistAllows(uid) == IF allowed = {} THEN DevOrTest ELSE uid \in allowed

Init ==
  /\ now = 0
  /\ allowed \in {a \in SUBSET Uids : StartableWith(a)}
  /\ users = [u \in UserIds |-> NoUser]
  /\ tokens = [t \in Tokens |-> NoToken]
  /\ req = [r \in Requests |-> IdleRequest]
  /\ held = {}
  /\ lineage = [t \in Tokens |-> NoAncestry]
  /\ loggedOut = {}

Answered(cred, code, mint) ==
  [IdleRequest EXCEPT !.pc = "done", !.cred = cred, !.reply = code, !.mint = mint]

Answer(r, code) ==
  req' = [req EXCEPT ![r] = Answered(req[r].cred, code, None)]

Grant(r, t) == req' = [req EXCEPT ![r] = Answered(req[r].cred, "200", t)]
-----------------------------------------------------------------------------
(* POST /auth/session: ExchangeFirebaseToken *)

\* No verifier, a token Firebase rejects, an unverified e-mail address: nothing
\* is written ("403" stands for 503, 401 and 403 alike).
ExchangeRejected(r) ==
  /\ req[r].pc = "idle"
  /\ Answer(r, "403")
  /\ UNCHANGED <<now, allowed, tables, held, history>>

Exchange(r, uid, email) ==
  /\ req[r].pc = "idle"
  /\ req' = [req EXCEPT ![r] =
       IF AllowlistAllows(uid)
       THEN [IdleRequest EXCEPT !.pc = "upsert", !.uid = uid, !.email = email]
       ELSE Answered(None, "403", None)]
  /\ UNCHANGED <<now, allowed, tables, held, history>>

RowsOf(uid) == {u \in UserIds : Present(u) /\ users[u].uid = uid}
UnusedIds == {u \in UserIds : users[u].state = "absent"}

\* Mutant: ON CONFLICT (email), which hands an existing row to another uid.
UpsertTargetsByEmail(uid, email) ==
  LET existing == {u \in UserIds : Present(u) /\ users[u].email = email}
  IN IF existing = {} THEN UnusedIds ELSE existing

\* ON CONFLICT (firebase_uid) DO UPDATE: the row of this uid, else a new one.
UpsertTargets(uid, email) == IF RowsOf(uid) = {} THEN UnusedIds ELSE RowsOf(uid)

\* users_email_key: another row already has this address.
EmailTaken(uid, email) ==
  \E u \in UserIds \ UpsertTargets(uid, email) :
    Present(u) /\ users[u].email = email

UpsertByFirebaseUID(r) ==
  /\ req[r].pc = "upsert"
  /\ LET uid == req[r].uid
         email == req[r].email
     IN \/ /\ EmailTaken(uid, email)
           /\ Answer(r, "409")
           /\ users' = users
        \/ /\ ~EmailTaken(uid, email)
           /\ \E u \in UpsertTargets(uid, email) :
                /\ users' = [users EXCEPT ![u] = [state |-> "present",
                                                  uid |-> uid, email |-> email]]
                /\ req' = [req EXCEPT ![r].pc = "create", ![r].user = u,
                                      ![r].email = None]
  /\ UNCHANGED <<now, allowed, tokens, held, history>>

\* newRefreshToken: 32 random bytes never repeat a token that is in use.
Fresh(t) == tokens[t].status = "absent"

\* mintSession.  The INSERT needs the users row (foreign key); its error may
\* arrive although the row was written.
CreateSession(r) ==
  /\ req[r].pc = "create"
  /\ Present(req[r].user)
  /\ \E t \in Tokens :
       /\ Fresh(t)
       /\ tokens' = [tokens EXCEPT ![t] = [status |-> "live",
                       user |-> req[r].user, expires |-> now + RefreshTTL]]
       /\ lineage' = [lineage EXCEPT ![t] = [root |-> t, parent |-> None,
                                             uid |-> req[r].uid]]
       /\ \/ Grant(r, t)
          \/ Answer(r, "500")
  /\ UNCHANGED <<now, allowed, users, held, loggedOut>>
-----------------------------------------------------------------------------
(* POST /auth/refresh: RefreshSession *)

\* LookupActiveUserID: WHERE token_hash = $1 AND revoked_at IS NULL AND
\* expires_at > NOW()
LookupFinds(t) == Live(t) /\ tokens[t].expires > now

\* Mutant: a database error is answered like a bad credential.
UnauthorizedReply == "401"

\* Every handler maps an error it does not know to 500.
StoreErrorReply == "500"

Refresh(r, t) ==
  /\ req[r].pc = "idle"
  /\ t \in held
  /\ \/ /\ LookupFinds(t)
        /\ req' = [req EXCEPT ![r] = [IdleRequest EXCEPT !.pc = "findUser",
                                        !.cred = t, !.user = tokens[t].user]]
     \/ /\ ~LookupFinds(t)
        /\ req' = [req EXCEPT ![r] = Answered(t, "401", None)]
     \/ req' = [req EXCEPT ![r] = Answered(t, StoreErrorReply, None)]
  /\ UNCHANGED <<now, allowed, tables, held, history>>

\* Mutant: the allowlist is not consulted again.
UserStillThere(u) == Present(u)

\* FindByID, then the allowlist, which may be another one since issuance.
MayRefresh(u) == Present(u) /\ AllowlistAllows(users[u].uid)

FindUser(r) ==
  /\ req[r].pc = "findUser"
  /\ \/ /\ MayRefresh(req[r].user)
        /\ req' = [req EXCEPT ![r].pc = "begin"]
     \/ /\ ~MayRefresh(req[r].user)
        /\ Answer(r, "401")
  /\ UNCHANGED <<now, allowed, tables, held, history>>

\* NOW() is fixed when the transaction begins, so a wait for the row lock does
\* not make the expiry check any stricter.
BeginRotation(r) ==
  /\ req[r].pc = "begin"
  /\ req' = [req EXCEPT ![r].pc = "revoke", ![r].since = now]
  /\ UNCHANGED <<now, allowed, tables, held, history>>

\* The row lock the UPDATE of an open rotation holds.
Locked(t) == \E r \in Requests : req[r].pc = "commit" /\ req[r].cred = t

\* Mutant: the UPDATE forgets revoked_at IS NULL.
RotationMatchesAnyStored(t, at) == Stored(t) /\ tokens[t].expires > at

\* WHERE token_hash = $1 AND revoked_at IS NULL AND expires_at > NOW()
RotationMatches(t, at) == Live(t) /\ tokens[t].expires > at

RevokeOld(r) ==
  /\ req[r].pc = "revoke"
  /\ ~Locked(req[r].cred)
  /\ \/ /\ RotationMatches(req[r].cred, req[r].since)
        /\ req' = [req EXCEPT ![r].pc = "commit"]
     \/ /\ ~RotationMatches(req[r].cred, req[r].since)
        /\ Answer(r, "401")
  /\ UNCHANGED <<now, allowed, tables, held, history>>

\* Mutant: the successor is inserted and the old row is left alone.
WithSuccessorOnly(old, new, row) == [tokens EXCEPT ![new] = row]

\* What the committed transaction did: old is revoked, new has its row.
Rotated(old, new, row) ==
  [tokens EXCEPT ![old].status = "revoked", ![new] = row]

CommitRotation(r) ==
  /\ req[r].pc = "commit"
  /\ Present(req[r].user)
  /\ \E t \in Tokens :
       /\ Fresh(t)
       /\ tokens' = Rotated(req[r].cred, t,
                      [status |-> "live", user |-> req[r].user,
                       expires |-> req[r].since + RefreshTTL])
       /\ lineage' = [lineage EXCEPT ![t] =
                        [lineage[req[r].cred] EXCEPT !.parent = req[r].cred]]
       /\ \/ Grant(r, t)
          \/ Answer(r, "500")  \* the commit went through, its reply did not
  /\ UNCHANGED <<now, allowed, users, held, loggedOut>>
-----------------------------------------------------------------------------
\* Mutant: the revocation is not part of the transaction that fails.
RevocationKept(r) ==
  IF req[r].pc = "commit"
  THEN [tokens EXCEPT ![req[r].cred].status = "revoked"] ELSE tokens

\* A failed statement writes nothing; an open transaction is rolled back.
AfterRollback(r) == tokens

DatabaseError(r) ==
  /\ req[r].pc \notin {"idle", "done"}
  /\ tokens' = AfterRollback(r)
  /\ Answer(r, StoreErrorReply)
  /\ UNCHANGED <<now, allowed, users, held, history>>

\* POST /auth/logout: RevokeByHash, WHERE token_hash = $1 AND revoked_at IS NULL.
\* The reply is 204 whether a row matched or not.  Here the statement ran; a
\* logout it failed for changes nothing and is answered 500.
Logout(t) ==
  /\ t \in held
  /\ ~Locked(t)
  /\ tokens' = IF Live(t) THEN [tokens EXCEPT ![t].status = "revoked"] ELSE tokens
  /\ loggedOut' = loggedOut \cup {t}
  /\ UNCHANGED <<now, allowed, users, req, held, lineage>>

WithoutRows(gone) ==
  [t \in Tokens |-> IF t \in gone THEN [tokens[t] EXCEPT !.status = "deleted"]
                    ELSE tokens[t]]

\* Mutant: the clean-up spares revoked rows.
ExpiredLiveRows == {t \in Tokens : Live(t) /\ tokens[t].expires < now}

ExpiredRows == {t \in Tokens : Stored(t) /\ tokens[t].expires < now}

\* The cleanup-expired-refresh-tokens subcommand.
DeleteExpired ==
  /\ ExpiredRows # {}
  /\ \A t \in ExpiredRows : ~Locked(t)
  /\ tokens' = WithoutRows(ExpiredRows)
  /\ UNCHANGED <<now, allowed, users, req, held, history>>

\* No code of the repository deletes a users row, but RefreshSession expects
\* that it happens; refresh_tokens rows go with it (ON DELETE CASCADE).
DeleteUser(u) ==
  LET owned == {t \in Tokens : Stored(t) /\ tokens[t].user = u}
  IN /\ Present(u)
     /\ \A t \in owned : ~Locked(t)
     /\ users' = [users EXCEPT ![u].state = "deleted"]
     /\ tokens' = WithoutRows(owned)
     /\ UNCHANGED <<now, allowed, req, held, history>>
-----------------------------------------------------------------------------
(* The environment *)

Deliver(r) ==
  /\ req[r].pc = "done"
  /\ req' = [req EXCEPT ![r] = IdleRequest]
  /\ held' = held \cup ({req[r].mint} \ {None})
  /\ UNCHANGED <<now, allowed, tables, history>>

LoseReply(r) ==
  /\ req[r].pc = "done"
  /\ req[r].reply = "200"
  /\ req' = [req EXCEPT ![r] = IdleRequest]
  /\ UNCHANGED <<now, allowed, tables, held, history>>

\* There is no graceful shutdown: requests in flight die with the process and
\* their transactions are rolled back.  The new process reads its own
\* ALLOWED_FIREBASE_UIDS.
Restart(uids) ==
  /\ StartableWith(uids)
  /\ allowed' = uids
  /\ req' = [r \in Requests |-> IdleRequest]
  /\ UNCHANGED <<now, tables, held, history>>

Tick ==
  /\ now < MaxNow
  /\ now' = now + 1
  /\ UNCHANGED <<allowed, tables, req, held, history>>

HandlerStep(r) ==
  \/ UpsertByFirebaseUID(r) \/ CreateSession(r)
  \/ FindUser(r) \/ BeginRotation(r) \/ RevokeOld(r) \/ CommitRotation(r)
  \/ DatabaseError(r)

Next ==
  \/ \E r \in Requests :
       \/ ExchangeRejected(r)
       \/ \E uid \in Uids, email \in Emails : Exchange(r, uid, email)
       \/ \E t \in Tokens : Refresh(r, t)
       \/ HandlerStep(r)
       \/ Deliver(r)
       \/ LoseReply(r)
  \/ \E t \in Tokens : Logout(t)
  \/ DeleteExpired
  \/ \E u \in UserIds : DeleteUser(u)
  \/ \E uids \in SUBSET Uids : Restart(uids)
  \/ Tick

Spec == Init /\ [][Next]_vars
-----------------------------------------------------------------------------
(* Properties *)

\* The chain of tokens an exchange started never has two unrevoked tokens,
\* however refreshes of it race: RotateRefreshToken revokes and inserts
\* in one transaction.
OneLiveTokenPerSession ==
  \A s, t \in Tokens :
    Live(s) /\ Live(t) /\ lineage[s].root = lineage[t].root => s = t

\* A refresh token buys one successor: of two refreshes that both passed
\* LookupActiveUserID, the UPDATE lets one through.
SingleSuccessor ==
  \A s, t \in Tokens :
    lineage[s].parent = lineage[t].parent /\ lineage[s].parent # None => s = t

\* A token is revoked because its owner logged out or because a successor was
\* stored: no failure between the UPDATE and the INSERT burns a credential.
RevocationAccountedFor ==
  \A t \in Tokens :
    tokens[t].status = "revoked" =>
      t \in loggedOut \/ \E s \in Tokens : lineage[s].parent = t

\* A logout is final for its token, whether it revoked the row or found it
\* revoked: a refresh that had already found the token active stores no
\* successor for it any more.
LogoutIsFinal ==
  [][\A s, t \in Tokens :
       lineage[s].parent # t /\ lineage'[s].parent = t => t \notin loggedOut]_vars

\* A refresh is answered 401 only if the token is not usable or its owner is
\* not allowed; trouble in the database never looks like a bad credential.
RefusalIsHonest ==
  \A r \in Requests :
    req[r].reply = "401" /\ req[r].cred # None =>
      ~LookupFinds(req[r].cred) \/ ~MayRefresh(tokens[req[r].cred].user)

\* Whatever e-mail changes, conflicts, deletions and rotations happen, a
\* stored token's user row carries the uid Firebase verified at the exchange
\* that started the chain.
SessionKeepsIdentity ==
  \A t \in Tokens :
    Stored(t) => /\ Present(tokens[t].user)
                 /\ users[tokens[t].user].uid = lineage[t].uid

\* No token is stored for a uid the running process does not allow, although
\* the allowlist is read steps before the token is stored.
NeverIssuedToDisallowed ==
  [][\A t \in Tokens :
       tokens[t].status = "absent" /\ tokens'[t].status # "absent" =>
         AllowlistAllows(lineage'[t].uid)]_vars

\* The tables implement one-time credentials.
Credentials == INSTANCE OneTimeCredentials WITH
  live <- {t \in Tokens : Live(t)},
  dead <- {t \in Tokens : tokens[t].status \in {"revoked", "deleted"}},
  session <- [t \in Tokens |-> lineage[t].root]

ImplementsOneTimeCredentials == Credentials!CredentialSpec

\* No row stays in the table for good, revoked or not: once its expiry has
\* passed, the clean-up removes it (rows that cannot expire before the clock's
\* bound are left out).
ExpiredRowsReclaimed ==
  \A t \in Tokens :
    (Stored(t) /\ tokens[t].expires < MaxNow) ~> ~Stored(t)
=============================================================================
