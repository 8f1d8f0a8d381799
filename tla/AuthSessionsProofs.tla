------------------------ MODULE AuthSessionsProofs ------------------------
(***************************************************************************)
(* The sessions for any number of users, tokens and requests, and, in the  *)
(* second part, the access tokens minted by them.  AuthInv says what each  *)
(* handler knows of the rows between two statements; the invariant of the  *)
(* access tokens adds what was signed, when, and under which list.         *)
(***************************************************************************)
EXTENDS AccessTokens, TLAPS

USE AuthAssumption

\* An answered request is a request, and is done.
LEMMA AnsweredTyped ==
  ASSUME NEW cred \in Tokens \cup {None}, NEW mint \in Tokens \cup {None},
         NEW code \in {"none", "200", "401", "403", "409", "500"}
  PROVE  /\ Answered(cred, code, mint) \in Request
         /\ Answered(cred, code, mint).pc = "done"
BY DEF Answered, IdleRequest, Request

\* What the handlers' updates of a request record do to it.
LEMMA RequestUpdates ==
  ASSUME NEW q \in Request
  PROVE  /\ [q EXCEPT !.pc = "begin"] \in Request
         /\ [q EXCEPT !.pc = "commit"] \in Request
         /\ \A n \in Nat : [q EXCEPT !.pc = "revoke", !.since = n] \in Request
         /\ \A u \in UserIds :
              [q EXCEPT !.pc = "create", !.user = u, !.email = None] \in Request
         /\ \A code \in {"401", "403", "409", "500"} :
              Answered(q.cred, code, None) \in Request
         /\ \A t \in Tokens : Answered(q.cred, "200", t) \in Request
<1>1. q.cred \in Tokens \cup {None}
  BY DEF Request
<1>2. \A u \in UserIds :
        [q EXCEPT !.pc = "create", !.user = u, !.email = None] \in Request
  BY DEF Request
<1>3. \A n \in Nat : [q EXCEPT !.pc = "revoke", !.since = n] \in Request
  BY DEF Request
<1>4. [q EXCEPT !.pc = "begin"] \in Request /\ [q EXCEPT !.pc = "commit"] \in Request
  BY DEF Request
<1>5. QED
  BY <1>1, <1>2, <1>3, <1>4, AnsweredTyped

\* A refresh that got past its first query works on a token.
RefreshHasToken ==
  \A r \in Requests :
    req[r].pc \in {"findUser", "begin", "revoke", "commit"} =>
      req[r].cred \in Tokens

\* The handlers never lose the token a refresh works on.
LEMMA RefreshKeepsToken ==
  ASSUME TypeOK, RefreshHasToken, Next PROVE RefreshHasToken'
<1> USE DEF RefreshHasToken, TypeOK
<1>1. ASSUME NEW r \in Requests, NEW q, q.pc \in {"idle", "done", "upsert"},
             req' = [req EXCEPT ![r] = q]
      PROVE RefreshHasToken'
  BY <1>1
<1>2. ASSUME NEW r \in Requests, req[r].cred \in Tokens, NEW q,
             q.cred = req[r].cred, req' = [req EXCEPT ![r] = q]
      PROVE RefreshHasToken'
  BY <1>2
<1>3. ASSUME NEW r \in Requests, NEW uid \in Uids, NEW email \in Emails,
             Exchange(r, uid, email)
      PROVE RefreshHasToken'
  <2>1. /\ [IdleRequest EXCEPT !.pc = "upsert", !.uid = uid, !.email = email].pc
             = "upsert"
        /\ Answered(None, "403", None).pc = "done"
    BY DEF IdleRequest, Answered
  <2>2. QED
    BY <1>3, <2>1, <1>1 DEF Exchange
<1>4. ASSUME NEW r \in Requests, NEW t \in Tokens, Refresh(r, t)
      PROVE RefreshHasToken'
  <2>1. /\ [IdleRequest EXCEPT !.pc = "findUser", !.cred = t,
                               !.user = tokens[t].user].cred = t
        /\ Answered(t, "401", None).pc = "done"
        /\ Answered(t, "500", None).pc = "done"
    BY DEF IdleRequest, Answered
  <2>2. QED
    BY <1>4, <2>1, <1>1 DEF Refresh, StoreErrorReply
<1>5. ASSUME NEW r \in Requests, NEW code, Answer(r, code)
      PROVE RefreshHasToken'
  <2>1. Answered(req[r].cred, code, None).pc = "done"
    BY DEF IdleRequest, Answered
  <2>2. QED
    BY <1>5, <2>1, <1>1 DEF Answer
<1>6. ASSUME NEW r \in Requests, NEW t, Grant(r, t)
      PROVE RefreshHasToken'
  <2>1. Answered(req[r].cred, "200", t).pc = "done"
    BY DEF IdleRequest, Answered
  <2>2. QED
    BY <1>6, <2>1, <1>1 DEF Grant
<1>7. ASSUME NEW r \in Requests, UpsertByFirebaseUID(r) PROVE RefreshHasToken'
  <2>1. ASSUME NEW u,
               req' = [req EXCEPT ![r].pc = "create", ![r].user = u,
                                  ![r].email = None]
        PROVE RefreshHasToken'
    <3>1. [req[r] EXCEPT !.pc = "create", !.user = u, !.email = None].pc = "create"
      BY DEF Request
    <3>2. QED
      BY <2>1, <3>1
  <2>2. QED
    BY <1>7, <1>5, <2>1 DEF UpsertByFirebaseUID
<1>8. ASSUME NEW r \in Requests, FindUser(r) PROVE RefreshHasToken'
  <2>1. [req[r] EXCEPT !.pc = "begin"].cred = req[r].cred
    BY DEF Request
  <2>2. QED
    BY <1>8, <2>1, <1>2, <1>5 DEF FindUser
<1>9. ASSUME NEW r \in Requests, BeginRotation(r) PROVE RefreshHasToken'
  <2>1. [req[r] EXCEPT !.pc = "revoke", !.since = now].cred = req[r].cred
    BY DEF Request
  <2>2. QED
    BY <1>9, <2>1, <1>2 DEF BeginRotation
<1>10. ASSUME NEW r \in Requests, RevokeOld(r) PROVE RefreshHasToken'
  <2>1. [req[r] EXCEPT !.pc = "commit"].cred = req[r].cred
    BY DEF Request
  <2>2. QED
    BY <1>10, <2>1, <1>2, <1>5 DEF RevokeOld
<1>11. ASSUME NEW r \in Requests,
              ExchangeRejected(r) \/ CreateSession(r) \/ CommitRotation(r)
              \/ DatabaseError(r)
       PROVE RefreshHasToken'
  BY <1>5, <1>6, <1>11 DEF ExchangeRejected, CreateSession, CommitRotation,
                           DatabaseError
<1>12. ASSUME NEW r \in Requests, Deliver(r) \/ LoseReply(r)
       PROVE RefreshHasToken'
  BY <1>1, <1>12 DEF Deliver, LoseReply, IdleRequest
<1>13. CASE \E uids \in SUBSET Uids : Restart(uids)
  BY <1>13 DEF Restart, IdleRequest
<1>14. CASE req' = req
  BY <1>14
<1>15. QED
  BY <1>3, <1>4, <1>7, <1>8, <1>9, <1>10, <1>11, <1>12, <1>13, <1>14
  DEF Next, HandlerStep, Logout, DeleteExpired, DeleteUser, Tick

\* A step of the sessions component keeps every variable in its type.
LEMMA TypeStep ==
  ASSUME TypeOK, RefreshHasToken, [Next]_vars PROVE TypeOK'
<1> USE DEF TypeOK, tables, history
<1>0. /\ IdleRequest \in Request /\ IdleRequest.pc = "idle"
      /\ \A r \in Requests : req[r].cred \in Tokens \cup {None}
      /\ \A r \in Requests : req[r].user \in UserIds \cup {None}
  BY DEF IdleRequest, Request
<1>1. ASSUME NEW r \in Requests, ExchangeRejected(r) PROVE TypeOK'
  BY <1>0, <1>1, AnsweredTyped DEF ExchangeRejected, Answer
<1>2. ASSUME NEW r \in Requests, NEW uid \in Uids, NEW email \in Emails,
             Exchange(r, uid, email)
      PROVE TypeOK'
  <2>1. /\ [IdleRequest EXCEPT !.pc = "upsert", !.uid = uid, !.email = email]
              \in Request
        /\ [IdleRequest EXCEPT !.pc = "upsert", !.uid = uid, !.email = email].pc
             = "upsert"
    BY DEF IdleRequest, Request
  <2>2. /\ Answered(None, "403", None) \in Request
        /\ Answered(None, "403", None).pc = "done"
    BY AnsweredTyped
  <2>3. QED
    BY <1>2, <2>1, <2>2 DEF Exchange
<1>3. ASSUME NEW r \in Requests, NEW t \in Tokens, Refresh(r, t) PROVE TypeOK'
  <2>1. [IdleRequest EXCEPT !.pc = "findUser", !.cred = t,
                            !.user = tokens[t].user] \in Request
    BY DEF IdleRequest, Request, TokenRow
  <2>2. Answered(t, "401", None) \in Request /\ Answered(t, "500", None) \in Request
    BY AnsweredTyped
  <2>3. QED
    BY <1>3, <2>1, <2>2 DEF Refresh, StoreErrorReply
<1>4. ASSUME NEW r \in Requests, UpsertByFirebaseUID(r) PROVE TypeOK'
  <2>1. Answered(req[r].cred, "409", None) \in Request
    BY <1>0, AnsweredTyped
  <2>2. ASSUME NEW u \in UserIds
        PROVE [req[r] EXCEPT !.pc = "create", !.user = u, !.email = None] \in Request
    BY RequestUpdates
  <2>3. [state |-> "present", uid |-> req[r].uid, email |-> req[r].email] \in UserRow
    BY DEF UserRow, Request
  <2>4. UpsertTargets(req[r].uid, req[r].email) \subseteq UserIds
    BY DEF UpsertTargets, RowsOf, UnusedIds
  <2>5. CASE Answer(r, "409") /\ users' = users
    BY <1>4, <2>1, <2>5 DEF UpsertByFirebaseUID, Answer
  <2>6. ASSUME NEW u \in UpsertTargets(req[r].uid, req[r].email),
               users' = [users EXCEPT ![u] = [state |-> "present",
                           uid |-> req[r].uid, email |-> req[r].email]],
               req' = [req EXCEPT ![r].pc = "create", ![r].user = u,
                                  ![r].email = None]
        PROVE TypeOK'
    BY <1>4, <2>2, <2>3, <2>4, <2>6 DEF UpsertByFirebaseUID
  <2>7. QED
    BY <1>4, <2>5, <2>6 DEF UpsertByFirebaseUID
<1>5. ASSUME NEW r \in Requests, CreateSession(r) PROVE TypeOK'
  <2>1. PICK t \in Tokens :
          /\ tokens' = [tokens EXCEPT ![t] = [status |-> "live",
                          user |-> req[r].user, expires |-> now + RefreshTTL]]
          /\ lineage' = [lineage EXCEPT ![t] = [root |-> t, parent |-> None,
                                                uid |-> req[r].uid]]
          /\ Grant(r, t) \/ Answer(r, "500")
    BY <1>5 DEF CreateSession
  <2>2. tokens' \in [Tokens -> TokenRow]
    BY <1>0, <2>1 DEF TokenRow
  <2>3. lineage' \in [Tokens -> Ancestry]
    BY <2>1 DEF Ancestry, Request
  <2>4. req' \in [Requests -> Request]
    <3>1. /\ Answered(req[r].cred, "200", t) \in Request
          /\ Answered(req[r].cred, "500", None) \in Request
      BY RequestUpdates
    <3>2. QED
      BY <2>1, <3>1 DEF Answer, Grant
  <2>5. QED
    BY <1>5, <2>2, <2>3, <2>4 DEF CreateSession
<1>6. ASSUME NEW r \in Requests, FindUser(r) PROVE TypeOK'
  <2>1. [req[r] EXCEPT !.pc = "begin"] \in Request
    BY DEF Request
  <2>2. Answered(req[r].cred, "401", None) \in Request
    BY RequestUpdates
  <2>3. QED
    BY <1>6, <2>1, <2>2 DEF FindUser, Answer
<1>7. ASSUME NEW r \in Requests, BeginRotation(r) PROVE TypeOK'
  <2>1. [req[r] EXCEPT !.pc = "revoke", !.since = now] \in Request
    BY RequestUpdates
  <2>2. QED
    BY <1>7, <2>1 DEF BeginRotation
<1>8. ASSUME NEW r \in Requests, RevokeOld(r) PROVE TypeOK'
  <2>1. [req[r] EXCEPT !.pc = "commit"] \in Request
    BY DEF Request
  <2>2. Answered(req[r].cred, "401", None) \in Request
    BY RequestUpdates
  <2>3. QED
    BY <1>8, <2>1, <2>2 DEF RevokeOld, Answer
<1>9. ASSUME NEW r \in Requests, CommitRotation(r) PROVE TypeOK'
  <2> DEFINE row == [status |-> "live", user |-> req[r].user,
                     expires |-> req[r].since + RefreshTTL]
  <2>1. PICK t \in Tokens :
          /\ tokens' = Rotated(req[r].cred, t, row)
          /\ lineage' = [lineage EXCEPT ![t] =
                           [lineage[req[r].cred] EXCEPT !.parent = req[r].cred]]
          /\ Grant(r, t) \/ Answer(r, "500")
    BY <1>9 DEF CommitRotation
  <2>2. row \in TokenRow
    BY DEF TokenRow, Request
  <2>3. tokens' \in [Tokens -> TokenRow]
    <3> HIDE DEF row
    <3> QED
      BY <2>1, <2>2 DEF Rotated, TokenRow
  <2>4. lineage' \in [Tokens -> Ancestry]
    BY <1>9, <2>1 DEF Ancestry, RefreshHasToken, CommitRotation
  <2>5. req' \in [Requests -> Request]
    <3>1. /\ Answered(req[r].cred, "200", t) \in Request
          /\ Answered(req[r].cred, "500", None) \in Request
      BY RequestUpdates
    <3>2. QED
      BY <2>1, <3>1 DEF Answer, Grant
  <2>6. QED
    BY <1>9, <2>3, <2>4, <2>5 DEF CommitRotation
<1>10. ASSUME NEW r \in Requests, DatabaseError(r) PROVE TypeOK'
  BY <1>0, <1>10, AnsweredTyped
  DEF DatabaseError, AfterRollback, Answer, StoreErrorReply
<1>11. ASSUME NEW r \in Requests, Deliver(r) PROVE TypeOK'
  <2>1. req[r].mint \in Tokens \cup {None}
    BY DEF Request
  <2>2. QED
    BY <1>0, <1>11, <2>1 DEF Deliver
<1>12. ASSUME NEW r \in Requests, LoseReply(r) PROVE TypeOK'
  BY <1>0, <1>12 DEF LoseReply
<1>13. ASSUME NEW t \in Tokens, Logout(t) PROVE TypeOK'
  BY <1>13 DEF Logout, TokenRow
<1>14. CASE DeleteExpired
  BY <1>14 DEF DeleteExpired, WithoutRows, TokenRow
<1>15. ASSUME NEW u \in UserIds, DeleteUser(u) PROVE TypeOK'
  <2>1. users' \in [UserIds -> UserRow]
    BY <1>15 DEF DeleteUser, UserRow
  <2>2. tokens' \in [Tokens -> TokenRow]
    BY <1>15 DEF DeleteUser, WithoutRows, TokenRow
  <2>3. QED
    BY <1>15, <2>1, <2>2 DEF DeleteUser
<1>16. ASSUME NEW uids \in SUBSET Uids, Restart(uids) PROVE TypeOK'
  BY <1>0, <1>16 DEF Restart, IdleRequest
<1>17. CASE Tick
  BY <1>17 DEF Tick
<1>18. CASE UNCHANGED vars
  BY <1>18 DEF vars
<1>19. QED
  BY <1>1, <1>2, <1>3, <1>4, <1>5, <1>6, <1>7, <1>8, <1>9, <1>10, <1>11,
     <1>12, <1>13, <1>14, <1>15, <1>16, <1>17, <1>18 DEF Next, HandlerStep

\* Every reachable state of the sessions component is well typed.
THEOREM TypeCorrect == Spec => []TypeOK
<1>1. Init => TypeOK /\ RefreshHasToken
  BY DEF Init, TypeOK, UserRow, TokenRow, Ancestry, Request, NoUser, NoToken,
         NoAncestry, IdleRequest, RefreshHasToken
<1>2. TypeOK /\ RefreshHasToken /\ [Next]_vars => (TypeOK /\ RefreshHasToken)'
  BY TypeStep, RefreshKeepsToken DEF vars, RefreshHasToken
<1>3. QED
  BY <1>1, <1>2, PTL DEF Spec
-----------------------------------------------------------------------------
(* The inductive invariant *)

\* The two tables and the history of the tokens.
TableInv ==
  /\ \A t \in Tokens : tokens[t].status = "absent" => lineage[t].parent = None
  /\ \A t \in held : tokens[t].status # "absent"
  /\ \A t \in Tokens : tokens[t].status # "absent" =>
       /\ tokens[t].user \in UserIds
       /\ users[tokens[t].user].state # "absent"
       /\ users[tokens[t].user].uid = lineage[t].uid
       /\ Stored(t) => Present(tokens[t].user)
       /\ lineage[t].root \in Tokens
       /\ tokens[lineage[t].root].status # "absent"
  /\ \A s, t \in Tokens : lineage[s].parent = t =>
       tokens[t].status \in {"revoked", "deleted"}
  /\ \A t \in loggedOut : tokens[t].status \in {"revoked", "deleted"}

\* What a handler has read is still true of what it is about to write.
RequestInv(r) ==
  /\ req[r].pc \in {"upsert", "create"} =>
       req[r].uid \in Uids /\ AllowlistAllows(req[r].uid)
  /\ req[r].pc = "create" =>
       /\ req[r].user \in UserIds
       /\ users[req[r].user].state # "absent"
       /\ users[req[r].user].uid = req[r].uid
  /\ req[r].pc \in {"findUser", "begin", "revoke", "commit"} =>
       /\ req[r].cred \in Tokens
       /\ tokens[req[r].cred].status # "absent"
       /\ req[r].user = tokens[req[r].cred].user
  /\ req[r].pc \in {"begin", "revoke", "commit"} =>
       AllowlistAllows(users[req[r].user].uid)
  /\ req[r].pc \in {"revoke", "commit"} => req[r].since <= now
  /\ req[r].pc = "commit" => Live(req[r].cred)
  /\ req[r].pc # "done" => req[r].reply = "none"
  /\ req[r].mint # None => tokens[req[r].mint].status # "absent"
  /\ req[r].reply = "401" /\ req[r].cred # None =>
       /\ tokens[req[r].cred].status # "absent"
       /\ ~LookupFinds(req[r].cred) \/ ~MayRefresh(tokens[req[r].cred].user)

\* Two transactions never hold the lock of one row.
LockInv ==
  \A q, r \in Requests :
    req[q].pc = "commit" /\ req[r].pc = "commit" /\ req[q].cred = req[r].cred
      => q = r

AuthInv ==
  /\ TypeOK
  /\ TableInv
  /\ OneLiveTokenPerSession
  /\ SingleSuccessor
  /\ RevocationAccountedFor
  /\ \A r \in Requests : RequestInv(r)
  /\ LockInv
-----------------------------------------------------------------------------
\* Rows never come back: this is what every step keeps of a row it may touch.
RowsMoveForward ==
  /\ now' >= now
  /\ \A t \in Tokens : tokens[t].status # "absent" =>
       /\ tokens'[t].status # "absent"
       /\ tokens'[t].user = tokens[t].user
       /\ tokens'[t].expires = tokens[t].expires
       /\ tokens[t].status # "live" => tokens'[t].status # "live"
  /\ \A u \in UserIds : users[u].state # "absent" =>
       /\ users'[u].state # "absent"
       /\ users'[u].uid = users[u].uid
       /\ users[u].state = "deleted" => users'[u].state = "deleted"

\* Every action moves rows forward only.
LEMMA StepsMoveForward ==
  ASSUME TypeOK, Next PROVE RowsMoveForward
<1> USE DEF TypeOK, RowsMoveForward, tables, history
<1>1. ASSUME NEW r \in Requests, UpsertByFirebaseUID(r) PROVE RowsMoveForward
  <2>1. CASE users' = users
    <3>1. tokens' = tokens /\ now' = now
      BY <1>1 DEF UpsertByFirebaseUID
    <3>2. QED
      BY <2>1, <3>1
  <2>2. CASE users' # users
    <3>1. PICK u \in UpsertTargets(req[r].uid, req[r].email) :
            users' = [users EXCEPT ![u] = [state |-> "present",
                        uid |-> req[r].uid, email |-> req[r].email]]
      BY <1>1, <2>2 DEF UpsertByFirebaseUID
    <3>2. /\ u \in UserIds
          /\ \/ users[u].state = "absent"
             \/ users[u].state = "present" /\ users[u].uid = req[r].uid
      BY DEF UpsertTargets, RowsOf, UnusedIds, Present
    <3>3. tokens' = tokens /\ now' = now
      BY <1>1 DEF UpsertByFirebaseUID
    <3>4. QED
      BY <3>1, <3>2, <3>3
  <2>3. QED
    BY <2>1, <2>2
<1>2. ASSUME NEW r \in Requests, CreateSession(r) PROVE RowsMoveForward
  BY <1>2 DEF CreateSession, Fresh
<1>3. ASSUME NEW r \in Requests, CommitRotation(r) PROVE RowsMoveForward
  <2> DEFINE row == [status |-> "live", user |-> req[r].user,
                     expires |-> req[r].since + RefreshTTL]
  <2>1. PICK t \in Tokens : Fresh(t) /\ tokens' = Rotated(req[r].cred, t, row)
    BY <1>3 DEF CommitRotation
  <2>2. now' = now /\ users' = users
    BY <1>3 DEF CommitRotation
  <2> HIDE DEF row
  <2>3. QED
    BY <2>1, <2>2 DEF Fresh, Rotated, TokenRow
<1>4. ASSUME NEW t \in Tokens, Logout(t) PROVE RowsMoveForward
  BY <1>4 DEF Logout, Live, TokenRow
<1>5. CASE DeleteExpired
  BY <1>5 DEF DeleteExpired, WithoutRows, TokenRow
<1>6. ASSUME NEW u \in UserIds, DeleteUser(u) PROVE RowsMoveForward
  BY <1>6 DEF DeleteUser, WithoutRows, TokenRow, UserRow
<1>7. CASE Tick
  BY <1>7 DEF Tick
<1>8. ASSUME NEW r \in Requests,
             \/ ExchangeRejected(r)
             \/ \E uid \in Uids, email \in Emails : Exchange(r, uid, email)
             \/ \E t \in Tokens : Refresh(r, t)
             \/ FindUser(r) \/ BeginRotation(r) \/ RevokeOld(r)
             \/ DatabaseError(r) \/ Deliver(r) \/ LoseReply(r)
      PROVE RowsMoveForward
  <2>1. tokens' = tokens /\ users' = users /\ now' = now
    BY <1>8 DEF ExchangeRejected, Exchange, Refresh, FindUser, BeginRotation,
                RevokeOld, DatabaseError, AfterRollback, Deliver, LoseReply
  <2>2. QED
    BY <2>1
<1>9. ASSUME NEW uids \in SUBSET Uids, Restart(uids) PROVE RowsMoveForward
  BY <1>9 DEF Restart
<1>10. QED
  BY <1>1, <1>2, <1>3, <1>4, <1>5, <1>6, <1>7, <1>8, <1>9 DEF Next, HandlerStep

\* A request that did not move keeps its invariant, if its lock was respected
\* and the process was not restarted with another allowlist.
LEMMA BystandersKept ==
  ASSUME TypeOK, TypeOK', TableInv, RowsMoveForward, allowed' = allowed,
         NEW q \in Requests, RequestInv(q), req'[q] = req[q],
         req[q].pc = "commit" => Live(req[q].cred)'
  PROVE RequestInv(q)'
<1> USE DEF TypeOK, RowsMoveForward, RequestInv, AllowlistAllows
<1>1. /\ req[q].pc \in {"upsert", "create"} =>
           req[q].uid \in Uids /\ AllowlistAllows(req[q].uid)'
      /\ req[q].pc = "create" =>
           /\ req[q].user \in UserIds
           /\ users'[req[q].user].state # "absent"
           /\ users'[req[q].user].uid = req[q].uid
  OBVIOUS
<1>2. req[q].pc \in {"findUser", "begin", "revoke", "commit"} =>
        /\ req[q].cred \in Tokens
        /\ tokens'[req[q].cred].status # "absent"
        /\ req[q].user = tokens'[req[q].cred].user
  OBVIOUS
<1>3. req[q].pc \in {"begin", "revoke", "commit"} =>
        AllowlistAllows(users[req[q].user].uid)'
  BY DEF TableInv
<1>4. req[q].pc \in {"revoke", "commit"} => req[q].since <= now'
  BY DEF Request
<1>5. req[q].mint # None => tokens'[req[q].mint].status # "absent"
  BY DEF Request
<1>6. req[q].reply = "401" /\ req[q].cred # None =>
       /\ tokens'[req[q].cred].status # "absent"
       /\ ~LookupFinds(req[q].cred)' \/ ~MayRefresh(tokens[req[q].cred].user)'
  <2> SUFFICES ASSUME req[q].reply = "401", req[q].cred # None
               PROVE /\ tokens'[req[q].cred].status # "absent"
                     /\ \/ ~LookupFinds(req[q].cred)'
                        \/ ~MayRefresh(tokens[req[q].cred].user)'
    OBVIOUS
  <2>1. req[q].cred \in Tokens
    BY DEF Request
  <2>2. tokens'[req[q].cred].status # "absent"
    BY <2>1
  <2>3. CASE ~LookupFinds(req[q].cred)
    BY <2>1, <2>3 DEF LookupFinds, Live, TokenRow
  <2>4. CASE ~MayRefresh(tokens[req[q].cred].user)
    BY <2>1, <2>2, <2>4 DEF MayRefresh, Present, TableInv, UserRow
  <2>5. QED
    BY <2>2, <2>3, <2>4
<1>7. QED
  BY <1>1, <1>2, <1>3, <1>4, <1>5, <1>6
-----------------------------------------------------------------------------
TokenInv ==
  TableInv /\ OneLiveTokenPerSession /\ SingleSuccessor /\ RevocationAccountedFor

\* Empty tables satisfy the token invariant.
LEMMA TokenInvInit == Init => TokenInv
BY DEF Init, TokenInv, TableInv, OneLiveTokenPerSession, SingleSuccessor,
       RevocationAccountedFor, Live, NoToken, NoAncestry

\* A session's first token starts a chain of its own.
LEMMA CreateSessionKeepsTokenInv ==
  ASSUME TypeOK, TokenInv, NEW r \in Requests, RequestInv(r), CreateSession(r)
  PROVE  TokenInv'
<1> USE DEF TypeOK, TokenInv
<1>1. PICK t \in Tokens :
        /\ Fresh(t)
        /\ tokens' = [tokens EXCEPT ![t] = [status |-> "live",
                        user |-> req[r].user, expires |-> now + RefreshTTL]]
        /\ lineage' = [lineage EXCEPT ![t] = [root |-> t, parent |-> None,
                                              uid |-> req[r].uid]]
  BY DEF CreateSession
<1>2. /\ users' = users /\ held' = held /\ loggedOut' = loggedOut
      /\ req[r].user \in UserIds /\ Present(req[r].user)
      /\ users[req[r].user].uid = req[r].uid
  BY DEF CreateSession, RequestInv, Present
<1>3. /\ tokens[t].status = "absent"
      /\ tokens'[t].status = "live" /\ tokens'[t].user = req[r].user
      /\ lineage'[t].parent = None /\ lineage'[t].root = t
      /\ lineage'[t].uid = req[r].uid
      /\ \A s \in Tokens \ {t} : tokens'[s] = tokens[s] /\ lineage'[s] = lineage[s]
  BY <1>1 DEF Fresh
<1>4. TableInv'
  BY <1>2, <1>3 DEF TableInv, Stored, Present
<1>5. OneLiveTokenPerSession'
  BY <1>3 DEF TableInv, OneLiveTokenPerSession, Live
<1>6. SingleSuccessor'
  BY <1>3 DEF SingleSuccessor
<1>7. RevocationAccountedFor'
  BY <1>2, <1>3 DEF TableInv, RevocationAccountedFor
<1>8. QED
  BY <1>4, <1>5, <1>6, <1>7

\* A committed rotation replaces the live token of a chain.
LEMMA CommitRotationKeepsTokenInv ==
  ASSUME TypeOK, TokenInv, NEW r \in Requests, RequestInv(r), CommitRotation(r)
  PROVE  TokenInv'
<1> USE DEF TypeOK, TokenInv
<1> DEFINE old == req[r].cred
           row == [status |-> "live", user |-> req[r].user,
                   expires |-> req[r].since + RefreshTTL]
<1>1. PICK t \in Tokens :
        /\ Fresh(t)
        /\ tokens' = Rotated(old, t, row)
        /\ lineage' = [lineage EXCEPT ![t] = [lineage[old] EXCEPT !.parent = old]]
  BY DEF CommitRotation
<1>2. /\ users' = users /\ held' = held /\ loggedOut' = loggedOut
      /\ old \in Tokens /\ Live(old)
      /\ req[r].user = tokens[old].user
  BY DEF CommitRotation, RequestInv
<1>3. /\ t # old /\ tokens[t].status = "absent" /\ tokens[old].status = "live"
      /\ tokens'[t].status = "live" /\ tokens'[t].user = tokens[old].user
      /\ tokens'[old].status = "revoked" /\ tokens'[old].user = tokens[old].user
      /\ \A s \in Tokens \ {t, old} : tokens'[s] = tokens[s]
  BY <1>1, <1>2 DEF Fresh, Live, Rotated, TokenRow
<1>4. /\ lineage'[t].parent = old /\ lineage'[t].root = lineage[old].root
      /\ lineage'[t].uid = lineage[old].uid
      /\ \A s \in Tokens \ {t} : lineage'[s] = lineage[s]
  BY <1>1, <1>2 DEF Ancestry
<1>5. TableInv'
  BY <1>2, <1>3, <1>4 DEF TableInv, Stored, Present
<1>6. OneLiveTokenPerSession'
  BY <1>2, <1>3, <1>4 DEF TableInv, OneLiveTokenPerSession, Live
<1>7. SingleSuccessor'
  BY <1>2, <1>3, <1>4 DEF TableInv, SingleSuccessor
<1>8. RevocationAccountedFor'
  BY <1>2, <1>3, <1>4 DEF TableInv, RevocationAccountedFor
<1>9. QED
  BY <1>5, <1>6, <1>7, <1>8

\* A logout leaves its token dead, and every other row alone.
LEMMA LogoutKeepsTokenInv ==
  ASSUME TypeOK, TokenInv, NEW t \in Tokens, Logout(t) PROVE TokenInv'
<1> USE DEF TypeOK, TokenInv
<1>1. /\ users' = users /\ held' = held /\ lineage' = lineage
      /\ loggedOut' = loggedOut \cup {t}
      /\ \/ tokens' = tokens /\ tokens[t].status # "live"
         \/ /\ tokens[t].status = "live" /\ tokens'[t].status = "revoked"
            /\ tokens'[t].user = tokens[t].user
            /\ \A s \in Tokens \ {t} : tokens'[s] = tokens[s]
      /\ tokens[t].status # "absent"
      /\ tokens[t].status \in {"absent", "live", "revoked", "deleted"}
  BY DEF Logout, Live, TokenRow, TableInv
<1>2. TableInv'
  BY <1>1 DEF TableInv, Stored, Present
<1>3. OneLiveTokenPerSession'
  BY <1>1 DEF OneLiveTokenPerSession, Live
<1>4. SingleSuccessor' /\ RevocationAccountedFor'
  BY <1>1 DEF SingleSuccessor, RevocationAccountedFor
<1>5. QED
  BY <1>2, <1>3, <1>4

\* Deleting rows, by clean-up or by cascade.
LEMMA DeletionKeepsTokenInv ==
  ASSUME TypeOK, TokenInv, NEW gone \in SUBSET {t \in Tokens : Stored(t)},
         tokens' = WithoutRows(gone), UNCHANGED <<held, lineage, loggedOut>>,
         users' \in [UserIds -> UserRow],
         \A u \in UserIds : users'[u] = users[u] \/
           /\ users'[u].state = "deleted" /\ users'[u].uid = users[u].uid
           /\ \A t \in Tokens : Stored(t) /\ tokens[t].user = u => t \in gone
  PROVE  TokenInv'
<1> USE DEF TypeOK, TokenInv
<1>1. /\ \A t \in gone : /\ tokens'[t].status = "deleted"
                         /\ tokens'[t].user = tokens[t].user
                         /\ tokens[t].status # "absent"
      /\ \A t \in Tokens \ gone : tokens'[t] = tokens[t]
  BY DEF WithoutRows, TokenRow, Stored
<1>2. TableInv'
  BY <1>1 DEF TableInv, Stored, Present
<1>3. OneLiveTokenPerSession'
  BY <1>1 DEF OneLiveTokenPerSession, Live
<1>4. SingleSuccessor' /\ RevocationAccountedFor'
  BY <1>1 DEF SingleSuccessor, RevocationAccountedFor
<1>5. QED
  BY <1>2, <1>3, <1>4

\* An upsert changes the e-mail of a row, or adds a row; never its uid.
LEMMA UpsertKeepsTokenInv ==
  ASSUME TypeOK, TokenInv, NEW r \in Requests, UpsertByFirebaseUID(r)
  PROVE  TokenInv'
<1> USE DEF TypeOK, TokenInv
<1>1. UNCHANGED <<tokens, held, lineage, loggedOut>>
  BY DEF UpsertByFirebaseUID, history
<1>2. \A u \in UserIds : users[u].state # "absent" =>
        /\ users'[u].state # "absent" /\ users'[u].uid = users[u].uid
        /\ Present(u) => Present(u)'
  <2>1. CASE users' = users
    BY <2>1 DEF Present
  <2>2. ASSUME NEW v \in UpsertTargets(req[r].uid, req[r].email),
               users' = [users EXCEPT ![v] = [state |-> "present",
                           uid |-> req[r].uid, email |-> req[r].email]]
        PROVE \A u \in UserIds : users[u].state # "absent" =>
                /\ users'[u].state # "absent" /\ users'[u].uid = users[u].uid
                /\ Present(u) => Present(u)'
    <3>1. \/ users[v].state = "absent"
          \/ users[v].uid = req[r].uid
      BY DEF UpsertTargets, RowsOf, UnusedIds
    <3>2. QED
      BY <2>2, <3>1 DEF Present
  <2>3. QED
    BY <2>1, <2>2 DEF UpsertByFirebaseUID
<1>3. TableInv'
  BY <1>1, <1>2 DEF TableInv, Stored, Present
<1>4. QED
  BY <1>1, <1>3 DEF OneLiveTokenPerSession, SingleSuccessor,
                    RevocationAccountedFor, Live

\* A client only ever holds tokens that were stored.
LEMMA DeliverKeepsTokenInv ==
  ASSUME TypeOK, TokenInv, NEW r \in Requests, RequestInv(r), Deliver(r)
  PROVE  TokenInv'
<1> USE DEF TypeOK, TokenInv
<1>1. UNCHANGED <<users, tokens, lineage, loggedOut>>
  BY DEF Deliver, tables, history
<1>2. \A t \in held' : tokens[t].status # "absent"
  BY DEF Deliver, RequestInv, TableInv, Request
<1>3. TableInv'
  BY <1>1, <1>2 DEF TableInv, Stored, Present
<1>4. QED
  BY <1>1, <1>3 DEF OneLiveTokenPerSession, SingleSuccessor,
                    RevocationAccountedFor, Live

\* Every step keeps the token invariant.
LEMMA TokenStep ==
  ASSUME TypeOK, TypeOK', TokenInv, \A r \in Requests : RequestInv(r), Next
  PROVE  TokenInv'
<1>1. ASSUME UNCHANGED <<users, tokens, held, lineage, loggedOut>>
      PROVE  TokenInv'
  BY <1>1 DEF TokenInv, TableInv, OneLiveTokenPerSession, SingleSuccessor,
              RevocationAccountedFor, Live, Stored, Present
<1>2. CASE DeleteExpired
  <2>1. /\ tokens' = WithoutRows(ExpiredRows)
        /\ ExpiredRows \in SUBSET {t \in Tokens : Stored(t)}
        /\ UNCHANGED <<users, held, lineage, loggedOut>>
    BY <1>2 DEF DeleteExpired, ExpiredRows, history
  <2>2. QED
    BY <2>1, DeletionKeepsTokenInv DEF TypeOK
<1>3. ASSUME NEW u \in UserIds, DeleteUser(u) PROVE TokenInv'
  <2> DEFINE owned == {t \in Tokens : Stored(t) /\ tokens[t].user = u}
  <2>1. /\ tokens' = WithoutRows(owned)
        /\ owned \in SUBSET {t \in Tokens : Stored(t)}
        /\ UNCHANGED <<held, lineage, loggedOut>>
        /\ users' = [users EXCEPT ![u].state = "deleted"]
    BY <1>3 DEF DeleteUser, history
  <2>2. \A v \in UserIds : users'[v] = users[v] \/
           /\ users'[v].state = "deleted" /\ users'[v].uid = users[v].uid
           /\ \A t \in Tokens : Stored(t) /\ tokens[t].user = v => t \in owned
    BY <2>1 DEF TypeOK, UserRow
  <2>3. users' \in [UserIds -> UserRow]
    BY DEF TypeOK
  <2> HIDE DEF owned
  <2>4. QED
    BY <2>1, <2>2, <2>3, DeletionKeepsTokenInv
<1>4. ASSUME NEW r \in Requests,
             \/ ExchangeRejected(r)
             \/ \E uid \in Uids, email \in Emails : Exchange(r, uid, email)
             \/ \E t \in Tokens : Refresh(r, t)
             \/ FindUser(r) \/ BeginRotation(r) \/ RevokeOld(r)
             \/ DatabaseError(r) \/ LoseReply(r)
      PROVE TokenInv'
  <2>1. UNCHANGED <<users, tokens, held, lineage, loggedOut>>
    BY <1>4 DEF ExchangeRejected, Exchange, Refresh, FindUser, BeginRotation,
                RevokeOld, DatabaseError, AfterRollback, LoseReply, tables, history
  <2>2. QED
    BY <1>1, <2>1
<1>5. ASSUME Tick \/ \E uids \in SUBSET Uids : Restart(uids) PROVE TokenInv'
  <2>1. UNCHANGED <<users, tokens, held, lineage, loggedOut>>
    BY <1>5 DEF Tick, Restart, tables, history
  <2>2. QED
    BY <1>1, <2>1
<1>6. QED
  BY <1>2, <1>3, <1>4, <1>5, CreateSessionKeepsTokenInv,
     CommitRotationKeepsTokenInv, LogoutKeepsTokenInv, UpsertKeepsTokenInv,
     DeliverKeepsTokenInv
  DEF Next, HandlerStep
-----------------------------------------------------------------------------
\* Whoever writes a row respects the lock an open rotation holds on it.
LEMMA LocksRespected ==
  ASSUME TypeOK, LockInv, Next, NEW q \in Requests, req[q].pc = "commit",
         req[q].cred \in Tokens, Live(req[q].cred), req'[q] = req[q]
  PROVE  Live(req[q].cred)'
<1> USE DEF TypeOK, Live, tables, history
<1>1. Locked(req[q].cred)
  BY DEF Locked
<1>2. ASSUME NEW r \in Requests, CreateSession(r) PROVE Live(req[q].cred)'
  BY <1>2 DEF CreateSession, Fresh
<1>3. ASSUME NEW r \in Requests, CommitRotation(r) PROVE Live(req[q].cred)'
  <2> DEFINE row == [status |-> "live", user |-> req[r].user,
                     expires |-> req[r].since + RefreshTTL]
  <2>1. PICK t \in Tokens : /\ Fresh(t)
                            /\ tokens' = Rotated(req[r].cred, t, row)
                            /\ Grant(r, t) \/ Answer(r, "500")
    BY <1>3 DEF CommitRotation
  <2>2. req'[r].pc = "done"
    <3>1. /\ Answered(req[r].cred, "200", t).pc = "done"
          /\ Answered(req[r].cred, "500", None).pc = "done"
      BY DEF Answered, IdleRequest
    <3>2. QED
      BY <2>1, <3>1 DEF Grant, Answer
  <2>3. r # q /\ req[r].pc = "commit"
    BY <1>3, <2>2 DEF CommitRotation
  <2>4. req[r].cred # req[q].cred
    BY <2>3 DEF LockInv
  <2> HIDE DEF row
  <2>5. QED
    BY <2>1, <2>4 DEF Rotated, Fresh
<1>4. ASSUME NEW t \in Tokens, Logout(t) PROVE Live(req[q].cred)'
  BY <1>1, <1>4 DEF Logout
<1>5. CASE DeleteExpired
  BY <1>1, <1>5 DEF DeleteExpired, WithoutRows
<1>6. ASSUME NEW u \in UserIds, DeleteUser(u) PROVE Live(req[q].cred)'
  BY <1>1, <1>6 DEF DeleteUser, WithoutRows
<1>7. CASE tokens' = tokens
  BY <1>7
<1>8. QED
  BY <1>2, <1>3, <1>4, <1>5, <1>6, <1>7
  DEF Next, HandlerStep, ExchangeRejected, Exchange, Refresh, FindUser,
      UpsertByFirebaseUID, BeginRotation, RevokeOld, DatabaseError,
      AfterRollback, Deliver, LoseReply, Restart, Tick
-----------------------------------------------------------------------------
\* An answer that refuses nothing, or refuses with reason, is in order.
LEMMA AnswerInOrder ==
  ASSUME TypeOK, TypeOK', NEW r \in Requests, NEW cred \in Tokens \cup {None},
         NEW code \in {"200", "401", "403", "409", "500"},
         NEW mint \in Tokens \cup {None},
         req'[r] = Answered(cred, code, mint),
         mint # None => tokens'[mint].status # "absent",
         code = "401" /\ cred # None =>
           /\ tokens'[cred].status # "absent"
           /\ ~LookupFinds(cred)' \/ ~MayRefresh(tokens[cred].user)'
  PROVE  RequestInv(r)'
<1>1. /\ req'[r].pc = "done" /\ req'[r].cred = cred
      /\ req'[r].reply = code /\ req'[r].mint = mint
  BY DEF Answered, IdleRequest
<1>2. QED
  BY <1>1 DEF RequestInv

\* An idle request has nothing to keep.
LEMMA IdleInOrder ==
  ASSUME NEW r \in Requests, req'[r] = IdleRequest PROVE RequestInv(r)'
BY DEF RequestInv, IdleRequest

\* The request that moves.
LEMMA ActorKept ==
  ASSUME TypeOK, TypeOK', TokenInv, TokenInv', RowsMoveForward,
         NEW r \in Requests, RequestInv(r), allowed' = allowed,
         \/ ExchangeRejected(r)
         \/ \E uid \in Uids, email \in Emails : Exchange(r, uid, email)
         \/ \E t \in Tokens : Refresh(r, t)
         \/ HandlerStep(r)
         \/ Deliver(r)
         \/ LoseReply(r)
  PROVE  RequestInv(r)'
<1> USE DEF TypeOK
<1>0. req[r].cred \in Tokens \cup {None} /\ req[r] \in Request
  BY DEF Request
<1>1. ASSUME NEW code \in {"403", "409", "500"}, Answer(r, code)
      PROVE RequestInv(r)'
  BY <1>0, <1>1, AnswerInOrder DEF Answer
<1>2. ASSUME NEW t \in Tokens, Grant(r, t), tokens'[t].status # "absent"
      PROVE RequestInv(r)'
  BY <1>0, <1>2, AnswerInOrder DEF Grant
<1>3. CASE ExchangeRejected(r)
  BY <1>1, <1>3 DEF ExchangeRejected
<1>4. ASSUME NEW uid \in Uids, NEW email \in Emails, Exchange(r, uid, email)
      PROVE RequestInv(r)'
  <2>1. CASE AllowlistAllows(uid)
    <3>1. req'[r] = [IdleRequest EXCEPT !.pc = "upsert", !.uid = uid,
                                        !.email = email]
      BY <1>4, <2>1 DEF Exchange
    <3>2. /\ req'[r].pc = "upsert" /\ req'[r].uid = uid /\ req'[r].mint = None
          /\ req'[r].reply = "none"
      BY <3>1 DEF IdleRequest
    <3>3. QED
      BY <2>1, <3>2 DEF RequestInv, AllowlistAllows
  <2>2. CASE ~AllowlistAllows(uid)
    BY <1>4, <2>2, AnswerInOrder DEF Exchange
  <2>3. QED
    BY <2>1, <2>2
<1>5. ASSUME NEW t \in Tokens, Refresh(r, t) PROVE RequestInv(r)'
  <2>1. tokens' = tokens /\ users' = users /\ now' = now /\ t \in held
    BY <1>5 DEF Refresh, tables
  <2>2. tokens[t].status # "absent"
    BY <2>1 DEF TokenInv, TableInv
  <2>3. CASE req' = [req EXCEPT ![r] = [IdleRequest EXCEPT !.pc = "findUser",
                                          !.cred = t, !.user = tokens[t].user]]
    <3>1. /\ req'[r].pc = "findUser" /\ req'[r].cred = t
          /\ req'[r].user = tokens[t].user
          /\ req'[r].mint = None /\ req'[r].reply = "none"
      BY <2>3 DEF IdleRequest
    <3>2. QED
      BY <2>1, <2>2, <3>1 DEF RequestInv
  <2>4. CASE ~LookupFinds(t) /\ req' = [req EXCEPT ![r] = Answered(t, "401", None)]
    <3>1. ~LookupFinds(t)'
      BY <2>1, <2>4 DEF LookupFinds, Live
    <3>2. QED
      BY <2>1, <2>2, <2>4, <3>1, AnswerInOrder
  <2>5. CASE req' = [req EXCEPT ![r] = Answered(t, "500", None)]
    BY <2>5, AnswerInOrder
  <2>6. QED
    BY <1>5, <2>3, <2>4, <2>5 DEF Refresh, StoreErrorReply
<1>6. CASE UpsertByFirebaseUID(r)
  <2>1. ASSUME NEW u \in UpsertTargets(req[r].uid, req[r].email),
               users' = [users EXCEPT ![u] = [state |-> "present",
                           uid |-> req[r].uid, email |-> req[r].email]],
               req' = [req EXCEPT ![r].pc = "create", ![r].user = u,
                                  ![r].email = None]
        PROVE RequestInv(r)'
    <3>1. u \in UserIds
      BY DEF UpsertTargets, RowsOf, UnusedIds
    <3>2. /\ req'[r].pc = "create" /\ req'[r].user = u
          /\ req'[r].uid = req[r].uid /\ req'[r].mint = req[r].mint
          /\ req'[r].reply = req[r].reply
      BY <2>1 DEF Request
    <3>3. users'[u].state = "present" /\ users'[u].uid = req[r].uid
      BY <2>1, <3>1
    <3>4. tokens' = tokens
      BY <1>6 DEF UpsertByFirebaseUID
    <3>5. QED
      BY <1>6, <3>1, <3>2, <3>3, <3>4
      DEF UpsertByFirebaseUID, RequestInv, AllowlistAllows
  <2>2. QED
    BY <1>1, <1>6, <2>1 DEF UpsertByFirebaseUID
<1>7. CASE CreateSession(r)
  <2>1. PICK t \in Tokens :
          /\ tokens' = [tokens EXCEPT ![t] = [status |-> "live",
                          user |-> req[r].user, expires |-> now + RefreshTTL]]
          /\ Grant(r, t) \/ Answer(r, "500")
    BY <1>7 DEF CreateSession
  <2>2. tokens'[t].status = "live"
    BY <2>1
  <2>3. QED
    BY <1>1, <1>2, <2>1, <2>2
<1>8. CASE FindUser(r)
  <2>1. /\ tokens' = tokens /\ users' = users /\ now' = now
        /\ req[r].pc = "findUser"
    BY <1>8 DEF FindUser, tables
  <2>2. CASE MayRefresh(req[r].user) /\ req' = [req EXCEPT ![r].pc = "begin"]
    <3>1. /\ req'[r].pc = "begin" /\ req'[r].cred = req[r].cred
          /\ req'[r].user = req[r].user /\ req'[r].mint = req[r].mint
          /\ req'[r].reply = req[r].reply
      BY <2>2 DEF Request
    <3>2. QED
      BY <2>1, <2>2, <3>1 DEF RequestInv, MayRefresh, AllowlistAllows
  <2>3. CASE ~MayRefresh(req[r].user) /\ Answer(r, "401")
    <3>1. PICK c \in Tokens : c = req[r].cred
      BY <2>1 DEF RequestInv
    <3>2. tokens'[c].status # "absent" /\ tokens'[c].user = req[r].user
      BY <2>1, <3>1 DEF RequestInv
    <3>3. ~MayRefresh(tokens[c].user)'
      BY <2>1, <2>3, <3>2 DEF MayRefresh, Present, AllowlistAllows
    <3>4. req'[r] = Answered(c, "401", None)
      BY <2>3, <3>1 DEF Answer
    <3>5. QED
      BY <3>2, <3>3, <3>4, AnswerInOrder
  <2>4. QED
    BY <1>8, <2>2, <2>3 DEF FindUser
<1>9. CASE BeginRotation(r)
  <2>1. /\ tokens' = tokens /\ users' = users /\ now' = now
        /\ req[r].pc = "begin"
        /\ req' = [req EXCEPT ![r].pc = "revoke", ![r].since = now]
    BY <1>9 DEF BeginRotation, tables
  <2>2. /\ req'[r].pc = "revoke" /\ req'[r].cred = req[r].cred
        /\ req'[r].user = req[r].user /\ req'[r].mint = req[r].mint
        /\ req'[r].reply = req[r].reply /\ req'[r].since = now
    BY <2>1 DEF Request
  <2>3. QED
    BY <2>1, <2>2 DEF RequestInv, AllowlistAllows
<1>10. CASE RevokeOld(r)
  <2>1. /\ tokens' = tokens /\ users' = users /\ now' = now
        /\ req[r].pc = "revoke"
    BY <1>10 DEF RevokeOld, tables
  <2>2. CASE /\ RotationMatches(req[r].cred, req[r].since)
             /\ req' = [req EXCEPT ![r].pc = "commit"]
    <3>1. /\ req'[r].pc = "commit" /\ req'[r].cred = req[r].cred
          /\ req'[r].user = req[r].user /\ req'[r].mint = req[r].mint
          /\ req'[r].reply = req[r].reply /\ req'[r].since = req[r].since
      BY <2>2 DEF Request
    <3>2. QED
      BY <2>1, <2>2, <3>1 DEF RequestInv, AllowlistAllows, RotationMatches, Live
  <2>3. CASE ~RotationMatches(req[r].cred, req[r].since) /\ Answer(r, "401")
    <3>1. PICK c \in Tokens : c = req[r].cred
      BY <2>1 DEF RequestInv
    <3>2. tokens'[c].status # "absent" /\ req[r].since <= now
      BY <2>1, <3>1 DEF RequestInv
    <3>3. tokens[c].expires \in Nat /\ req[r].since \in Nat
      BY <3>1 DEF TokenRow, Request
    <3>4. ~LookupFinds(c)'
      BY <2>1, <2>3, <3>1, <3>2, <3>3 DEF RotationMatches, LookupFinds, Live
    <3>5. req'[r] = Answered(c, "401", None)
      BY <2>3, <3>1 DEF Answer
    <3>6. QED
      BY <3>2, <3>4, <3>5, AnswerInOrder
  <2>4. QED
    BY <1>10, <2>2, <2>3 DEF RevokeOld
<1>11. CASE CommitRotation(r)
  <2> DEFINE row == [status |-> "live", user |-> req[r].user,
                     expires |-> req[r].since + RefreshTTL]
  <2>1. PICK t \in Tokens : /\ tokens' = Rotated(req[r].cred, t, row)
                            /\ Grant(r, t) \/ Answer(r, "500")
    BY <1>11 DEF CommitRotation
  <2>2. tokens'[t].status = "live"
    BY <2>1 DEF Rotated
  <2>3. QED
    BY <1>1, <1>2, <2>1, <2>2
<1>12. CASE DatabaseError(r)
  BY <1>1, <1>12 DEF DatabaseError, StoreErrorReply
<1>13. CASE Deliver(r) \/ LoseReply(r)
  BY <1>13, IdleInOrder DEF Deliver, LoseReply
<1>14. QED
  BY <1>3, <1>4, <1>5, <1>6, <1>7, <1>8, <1>9, <1>10, <1>11, <1>12, <1>13
  DEF HandlerStep

\* A step of one handler moves no other request.
ActorStep(r) ==
  \/ ExchangeRejected(r)
  \/ \E uid \in Uids, email \in Emails : Exchange(r, uid, email)
  \/ \E t \in Tokens : Refresh(r, t)
  \/ HandlerStep(r)
  \/ Deliver(r)
  \/ LoseReply(r)

\* A step of one handler leaves the other requests and the allowlist alone.
LEMMA OneRequestMoves ==
  ASSUME TypeOK, NEW r \in Requests, ActorStep(r)
  PROVE  /\ allowed' = allowed
         /\ \A q \in Requests : q # r => req'[q] = req[q]
<1> USE DEF TypeOK
<1>1. ASSUME NEW code, Answer(r, code)
      PROVE \A q \in Requests : q # r => req'[q] = req[q]
  BY <1>1 DEF Answer
<1>2. ASSUME NEW t, Grant(r, t)
      PROVE \A q \in Requests : q # r => req'[q] = req[q]
  BY <1>2 DEF Grant
<1>3. \A q \in Requests : q # r => req'[q] = req[q]
  <2>1. CASE HandlerStep(r)
    BY <1>1, <1>2, <2>1 DEF HandlerStep, UpsertByFirebaseUID, CreateSession,
       FindUser, BeginRotation, RevokeOld, CommitRotation, DatabaseError
  <2>2. CASE ExchangeRejected(r) \/ Deliver(r) \/ LoseReply(r)
    BY <1>1, <2>2 DEF ExchangeRejected, Deliver, LoseReply
  <2>3. CASE \/ \E uid \in Uids, email \in Emails : Exchange(r, uid, email)
             \/ \E t \in Tokens : Refresh(r, t)
    BY <2>3 DEF Exchange, Refresh
  <2>4. QED
    BY <2>1, <2>2, <2>3 DEF ActorStep
<1>4. allowed' = allowed
  BY DEF ActorStep, HandlerStep, ExchangeRejected, Exchange, Refresh,
         UpsertByFirebaseUID, CreateSession, FindUser, BeginRotation, RevokeOld,
         CommitRotation, DatabaseError, Deliver, LoseReply
<1>5. QED
  BY <1>3, <1>4

\* Every step keeps what each request relies on.
LEMMA RequestStep ==
  ASSUME TypeOK, TypeOK', TokenInv, TokenInv', LockInv,
         \A r \in Requests : RequestInv(r), Next, NEW q \in Requests
  PROVE  RequestInv(q)'
<1>1. RowsMoveForward
  BY StepsMoveForward
<1>2. ASSUME req'[q] = req[q], allowed' = allowed PROVE RequestInv(q)'
  <2>1. req[q].pc = "commit" => Live(req[q].cred)'
    BY <1>2, LocksRespected DEF RequestInv
  <2>2. QED
    BY <1>1, <1>2, <2>1, BystandersKept DEF TokenInv
<1>3. ASSUME NEW r \in Requests, ActorStep(r) PROVE RequestInv(q)'
  <2>1. CASE q # r
    BY <1>2, <1>3, <2>1, OneRequestMoves
  <2>2. CASE q = r
    <3>1. allowed' = allowed
      BY <1>3, OneRequestMoves
    <3>2. QED
      BY <1>1, <1>3, <2>2, <3>1, ActorKept DEF ActorStep
  <2>3. QED
    BY <2>1, <2>2
<1>4. ASSUME NEW uids \in SUBSET Uids, Restart(uids) PROVE RequestInv(q)'
  BY <1>4, IdleInOrder DEF Restart
<1>5. CASE req' = req /\ allowed' = allowed
  BY <1>2, <1>5
<1>6. QED
  BY <1>3, <1>4, <1>5
  DEF Next, ActorStep, Logout, DeleteExpired, DeleteUser, Tick

\* Two transactions never come to hold the lock of one row.
LEMMA LockStep ==
  ASSUME TypeOK, LockInv, Next PROVE LockInv'
<1> USE DEF TypeOK, LockInv
<1>1. ASSUME NEW r \in Requests, req'[r].pc # "commit",
             \A q \in Requests : q # r => req'[q] = req[q]
      PROVE LockInv'
  BY <1>1
<1>2. ASSUME NEW r \in Requests, ActorStep(r), ~RevokeOld(r)
      PROVE req'[r].pc # "commit"
  <2>1. \A c, code, m : Answered(c, code, m).pc = "done"
    BY DEF Answered, IdleRequest
  <2>2. ASSUME (\E code : Answer(r, code)) \/ (\E t : Grant(r, t))
        PROVE req'[r].pc # "commit"
    BY <2>1, <2>2 DEF Answer, Grant
  <2>3. CASE ExchangeRejected(r) \/ CreateSession(r) \/ CommitRotation(r)
             \/ DatabaseError(r)
    BY <2>2, <2>3 DEF ExchangeRejected, CreateSession, CommitRotation, DatabaseError
  <2>4. ASSUME NEW uid \in Uids, NEW email \in Emails, Exchange(r, uid, email)
        PROVE req'[r].pc # "commit"
    <3>1. [IdleRequest EXCEPT !.pc = "upsert", !.uid = uid, !.email = email].pc
            = "upsert"
      BY DEF IdleRequest
    <3>2. QED
      BY <2>1, <2>4, <3>1 DEF Exchange
  <2>5. ASSUME NEW t \in Tokens, Refresh(r, t) PROVE req'[r].pc # "commit"
    <3>1. [IdleRequest EXCEPT !.pc = "findUser", !.cred = t,
                              !.user = tokens[t].user].pc = "findUser"
      BY DEF IdleRequest
    <3>2. /\ Answered(t, "401", None).pc = "done"
          /\ Answered(t, "500", None).pc = "done"
      BY <2>1
    <3>3. QED
      BY <2>5, <3>1, <3>2 DEF Refresh, StoreErrorReply
  <2>6. CASE UpsertByFirebaseUID(r)
    <3>1. \A u : [req[r] EXCEPT !.pc = "create", !.user = u, !.email = None].pc
                  = "create"
      BY DEF Request
    <3>2. QED
      BY <2>2, <2>6, <3>1 DEF UpsertByFirebaseUID
  <2>7. CASE FindUser(r)
    <3>1. [req[r] EXCEPT !.pc = "begin"].pc = "begin"
      BY DEF Request
    <3>2. QED
      BY <2>2, <2>7, <3>1 DEF FindUser
  <2>8. CASE BeginRotation(r)
    <3>1. [req[r] EXCEPT !.pc = "revoke", !.since = now].pc = "revoke"
      BY DEF Request
    <3>2. QED
      BY <2>8, <3>1 DEF BeginRotation
  <2>9. CASE Deliver(r) \/ LoseReply(r)
    BY <2>9 DEF Deliver, LoseReply, IdleRequest
  <2>10. QED
    BY <1>2, <2>3, <2>4, <2>5, <2>6, <2>7, <2>8, <2>9 DEF ActorStep, HandlerStep
<1>3. ASSUME NEW r \in Requests, RevokeOld(r) PROVE LockInv'
  <2>1. CASE Answer(r, "401")
    <3>1. Answered(req[r].cred, "401", None).pc = "done"
      BY DEF Answered, IdleRequest
    <3>2. QED
      BY <1>1, <2>1, <3>1 DEF Answer
  <2>2. CASE req' = [req EXCEPT ![r].pc = "commit"]
    <3>1. req'[r].cred = req[r].cred
      BY <2>2 DEF Request
    <3>2. \A q \in Requests : q # r => req'[q] = req[q]
      BY <2>2
    <3>3. \A q \in Requests :
            q # r /\ req'[q].pc = "commit" => req'[q].cred # req'[r].cred
      BY <1>3, <3>1, <3>2 DEF RevokeOld, Locked
    <3>4. QED
      BY <3>2, <3>3
  <2>3. QED
    BY <1>3, <2>1, <2>2 DEF RevokeOld
<1>4. ASSUME NEW r \in Requests, ActorStep(r) PROVE LockInv'
  BY <1>1, <1>2, <1>3, <1>4, OneRequestMoves
<1>5. CASE \E uids \in SUBSET Uids : Restart(uids)
  BY <1>5 DEF Restart, IdleRequest
<1>6. CASE req' = req
  BY <1>6
<1>7. QED
  BY <1>4, <1>5, <1>6 DEF Next, ActorStep, Logout, DeleteExpired, DeleteUser, Tick
-----------------------------------------------------------------------------
(* The theorems *)

\* The inductive invariant holds in the initial states.
LEMMA AuthInvInit == Init => AuthInv /\ RefreshHasToken
<1>1. Init => TypeOK /\ RefreshHasToken
  BY DEF Init, TypeOK, UserRow, TokenRow, Ancestry, Request, NoUser, NoToken,
         NoAncestry, IdleRequest, RefreshHasToken
<1>2. Init => (\A r \in Requests : RequestInv(r)) /\ LockInv
  BY DEF Init, IdleRequest, RequestInv, LockInv
<1>3. QED
  BY <1>1, <1>2, TokenInvInit DEF AuthInv, TokenInv

\* Every step keeps the inductive invariant.
LEMMA AuthInvStep == AuthInv /\ RefreshHasToken /\ [Next]_vars
                       => (AuthInv /\ RefreshHasToken)'
<1> SUFFICES ASSUME AuthInv, RefreshHasToken, [Next]_vars
             PROVE (AuthInv /\ RefreshHasToken)'
  OBVIOUS
<1>1. CASE Next
  <2>1. TypeOK' /\ RefreshHasToken'
    BY <1>1, TypeStep, RefreshKeepsToken DEF AuthInv
  <2>2. TokenInv'
    BY <1>1, <2>1, TokenStep DEF AuthInv, TokenInv
  <2>3. (\A r \in Requests : RequestInv(r))'
    BY <1>1, <2>1, <2>2, RequestStep DEF AuthInv, TokenInv
  <2>4. LockInv'
    BY <1>1, LockStep DEF AuthInv
  <2>5. QED
    BY <2>1, <2>2, <2>3, <2>4 DEF AuthInv, TokenInv
<1>2. CASE UNCHANGED vars
  BY <1>2 DEF vars, AuthInv, RefreshHasToken, TypeOK, TableInv,
     OneLiveTokenPerSession, SingleSuccessor, RevocationAccountedFor,
     RequestInv, LockInv, Live, Stored, Present, AllowlistAllows, LookupFinds,
     MayRefresh
<1>3. QED
  BY <1>1, <1>2

\* The inductive invariant holds in every reachable state.
THEOREM AuthInvariant == Spec => []AuthInv
BY AuthInvInit, AuthInvStep, PTL DEF Spec

\* However many refreshes of a session race, with any failures, at most one of
\* the session's tokens is unrevoked.
THEOREM OneLiveToken == Spec => []OneLiveTokenPerSession
<1>1. AuthInv => OneLiveTokenPerSession
  BY DEF AuthInv
<1>2. QED
  BY <1>1, AuthInvariant, PTL

\* A refresh token is redeemed for at most one successor.
THEOREM RedeemedOnce == Spec => []SingleSuccessor
<1>1. AuthInv => SingleSuccessor
  BY DEF AuthInv
<1>2. QED
  BY <1>1, AuthInvariant, PTL

\* No failure revokes a token without storing its successor.
THEOREM NoCredentialBurnt == Spec => []RevocationAccountedFor
<1>1. AuthInv => RevocationAccountedFor
  BY DEF AuthInv
<1>2. QED
  BY <1>1, AuthInvariant, PTL

\* No successor of a token is stored after its logout.
THEOREM LogoutFinal == Spec => LogoutIsFinal
<1> DEFINE Final == \A s, t \in Tokens :
      lineage[s].parent # t /\ lineage'[s].parent = t => t \notin loggedOut
<1>1. AuthInv /\ [Next]_vars => [Final]_vars
  <2> SUFFICES ASSUME AuthInv, Next, NEW s \in Tokens, NEW t \in Tokens,
                      lineage[s].parent # t, lineage'[s].parent = t
               PROVE t \notin loggedOut
    OBVIOUS
  <2> USE DEF AuthInv, TypeOK
  <2>1. ASSUME NEW r \in Requests, CreateSession(r) PROVE FALSE
    <3>1. lineage'[s].parent \in {lineage[s].parent, None}
      BY <2>1 DEF CreateSession
    <3>2. QED
      BY <3>1
  <2>2. ASSUME NEW r \in Requests, CommitRotation(r) PROVE t \notin loggedOut
    <3>1. req[r].cred \in Tokens /\ Live(req[r].cred)
      BY <2>2 DEF CommitRotation, RequestInv
    <3>2. t = req[r].cred
      BY <2>2, <3>1 DEF CommitRotation, Ancestry
    <3>3. QED
      BY <3>1, <3>2 DEF TableInv, Live
  <2>3. CASE lineage' = lineage
    BY <2>3
  <2>4. QED
    BY <2>1, <2>2, <2>3
    DEF Next, HandlerStep, ExchangeRejected, Exchange, Refresh,
        UpsertByFirebaseUID, FindUser, BeginRotation, RevokeOld, DatabaseError,
        Logout, DeleteExpired, DeleteUser, Deliver, LoseReply, Restart, Tick,
        history
<1>2. QED
  BY <1>1, AuthInvariant, PTL DEF Spec, LogoutIsFinal

\* 401 answers to a refresh are never the database's fault.
THEOREM HonestRefusal == Spec => []RefusalIsHonest
<1>1. AuthInv => RefusalIsHonest
  BY DEF AuthInv, RequestInv, RefusalIsHonest
<1>2. QED
  BY <1>1, AuthInvariant, PTL

\* A stored token belongs to the uid that was verified when its session began.
THEOREM IdentityKept == Spec => []SessionKeepsIdentity
<1>1. AuthInv => SessionKeepsIdentity
  BY DEF AuthInv, TableInv, SessionKeepsIdentity, Stored
<1>2. QED
  BY <1>1, AuthInvariant, PTL

\* No token is ever stored for a uid outside the allowlist.
THEOREM AllowlistObeyed == Spec => NeverIssuedToDisallowed
<1> DEFINE Obeyed == \A t \in Tokens :
      tokens[t].status = "absent" /\ tokens'[t].status # "absent" =>
        AllowlistAllows(lineage'[t].uid)
<1>1. AuthInv /\ [Next]_vars => [Obeyed]_vars
  <2> SUFFICES ASSUME AuthInv, Next, NEW t \in Tokens,
                      tokens[t].status = "absent", tokens'[t].status # "absent"
               PROVE AllowlistAllows(lineage'[t].uid)
    OBVIOUS
  <2> USE DEF AuthInv, TypeOK
  <2>1. ASSUME NEW r \in Requests, CreateSession(r)
        PROVE AllowlistAllows(lineage'[t].uid)
    <3>1. lineage'[t].uid = req[r].uid
      BY <2>1 DEF CreateSession
    <3>2. QED
      BY <2>1, <3>1 DEF CreateSession, RequestInv
  <2>2. ASSUME NEW r \in Requests, CommitRotation(r)
        PROVE AllowlistAllows(lineage'[t].uid)
    <3> DEFINE row == [status |-> "live", user |-> req[r].user,
                       expires |-> req[r].since + RefreshTTL]
    <3>1. PICK s \in Tokens :
            /\ tokens' = Rotated(req[r].cred, s, row)
            /\ lineage' = [lineage EXCEPT ![s] =
                             [lineage[req[r].cred] EXCEPT !.parent = req[r].cred]]
      BY <2>2 DEF CommitRotation
    <3>2. req[r].cred \in Tokens /\ Live(req[r].cred) /\ req[r].pc = "commit"
      BY <2>2 DEF CommitRotation, RequestInv
    <3>3. s = t
      <4> HIDE DEF row
      <4> QED
        BY <3>1, <3>2 DEF Rotated, Live
    <3>4. lineage'[t].uid = lineage[req[r].cred].uid
      BY <3>1, <3>2, <3>3 DEF Ancestry
    <3>5. QED
      BY <3>2, <3>4 DEF RequestInv, TableInv
  <2>3. ASSUME NEW gone, gone \subseteq {s \in Tokens : Stored(s)},
               tokens' = WithoutRows(gone)
        PROVE FALSE
    BY <2>3 DEF WithoutRows, Stored
  <2>4. CASE DeleteExpired
    BY <2>3, <2>4 DEF DeleteExpired, ExpiredRows
  <2>5. ASSUME NEW u \in UserIds, DeleteUser(u) PROVE FALSE
    BY <2>3, <2>5 DEF DeleteUser
  <2>6. ASSUME NEW s \in Tokens, Logout(s) PROVE FALSE
    BY <2>6 DEF Logout, Live
  <2>7. CASE tokens' = tokens
    BY <2>7
  <2>8. QED
    BY <2>1, <2>2, <2>4, <2>5, <2>6, <2>7
    DEF Next, HandlerStep, ExchangeRejected, Exchange, Refresh,
        UpsertByFirebaseUID, FindUser, BeginRotation, RevokeOld, DatabaseError,
        AfterRollback, Deliver, LoseReply, Restart, Tick, tables
<1>2. QED
  BY <1>1, AuthInvariant, PTL DEF Spec, NeverIssuedToDisallowed

\* The tables, with all their handlers, clocks and failures, implement one-time
\* credentials: a session exchange issues, a rotation redeems, and logout,
\* clean-up and cascade withdraw.
THEOREM Refinement == Spec => ImplementsOneTimeCredentials
<1> DEFINE live == {t \in Tokens : Live(t)}
           dead == {t \in Tokens : tokens[t].status \in {"revoked", "deleted"}}
           session == [t \in Tokens |-> lineage[t].root]
<1>1. Init => Credentials!CredentialInit
  BY DEF Init, NoToken, NoAncestry, Live, Credentials!CredentialInit
<1>2. AuthInv /\ [Next]_vars => [Credentials!CredentialNext]_<<live, dead, session>>
  <2> SUFFICES ASSUME AuthInv, [Next]_vars
               PROVE Credentials!CredentialNext \/ UNCHANGED <<live, dead, session>>
    OBVIOUS
  <2> USE DEF AuthInv, TypeOK
  <2>1. ASSUME NEW r \in Requests, CreateSession(r)
        PROVE Credentials!CredentialNext
    <3>1. PICK t \in Tokens :
            /\ tokens[t].status = "absent"
            /\ tokens' = [tokens EXCEPT ![t] = [status |-> "live",
                            user |-> req[r].user, expires |-> now + RefreshTTL]]
            /\ lineage' = [lineage EXCEPT ![t] = [root |-> t, parent |-> None,
                                                  uid |-> req[r].uid]]
      BY <2>1 DEF CreateSession, Fresh
    <3>2. /\ t \notin live /\ t \notin dead
          /\ live' = live \cup {t} /\ dead' = dead
      BY <3>1 DEF Live
    <3>3. session' = [session EXCEPT ![t] = t]
      BY <3>1 DEF Ancestry
    <3>4. Credentials!Issue(t)
      BY <3>2, <3>3 DEF Credentials!Issue, Credentials!Unissued
    <3>5. QED
      BY <3>4 DEF Credentials!CredentialNext
  <2>2. ASSUME NEW r \in Requests, CommitRotation(r)
        PROVE Credentials!CredentialNext
    <3> DEFINE old == req[r].cred
               row == [status |-> "live", user |-> req[r].user,
                       expires |-> req[r].since + RefreshTTL]
    <3>1. PICK t \in Tokens :
            /\ tokens[t].status = "absent"
            /\ tokens' = Rotated(old, t, row)
            /\ lineage' = [lineage EXCEPT ![t] =
                             [lineage[old] EXCEPT !.parent = old]]
      BY <2>2 DEF CommitRotation, Fresh
    <3>2. old \in Tokens /\ tokens[old].status = "live"
      BY <2>2 DEF CommitRotation, RequestInv, Live
    <3>3. /\ tokens'[t].status = "live" /\ tokens'[old].status = "revoked"
          /\ \A s \in Tokens \ {old, t} : tokens'[s] = tokens[s]
      BY <3>1, <3>2 DEF Rotated, TokenRow
    <3> PICK c \in Tokens : c = old
      BY <3>2
    <3>4. /\ c \in live /\ t \notin live /\ t \notin dead
          /\ live' = (live \ {c}) \cup {t} /\ dead' = dead \cup {c}
      BY <3>1, <3>2, <3>3 DEF Live
    <3>5. session' = [session EXCEPT ![t] = session[c]]
      BY <3>1, <3>2 DEF Ancestry
    <3>6. Credentials!Redeem(c, t)
      BY <3>4, <3>5 DEF Credentials!Redeem, Credentials!Unissued
    <3>7. QED
      BY <3>6 DEF Credentials!CredentialNext
  <2>3. ASSUME NEW gone \in SUBSET {t \in Tokens : Stored(t)},
               tokens' = WithoutRows(gone), lineage' = lineage
        PROVE Credentials!CredentialNext
    <3>1. PICK g \in SUBSET live : g = live \cap gone
      OBVIOUS
    <3>2. live' = live \ g /\ dead' = dead \cup g /\ session' = session
      BY <2>3, <3>1 DEF WithoutRows, Live, Stored, TokenRow
    <3>3. Credentials!Withdraw(g)
      BY <3>2 DEF Credentials!Withdraw
    <3>4. QED
      BY <3>3 DEF Credentials!CredentialNext
  <2>4. CASE DeleteExpired
    <3>1. ExpiredRows \in SUBSET {t \in Tokens : Stored(t)}
      BY DEF ExpiredRows
    <3>2. QED
      BY <2>3, <2>4, <3>1 DEF DeleteExpired, history
  <2>5. ASSUME NEW u \in UserIds, DeleteUser(u) PROVE Credentials!CredentialNext
    BY <2>3, <2>5 DEF DeleteUser, history
  <2>6. ASSUME NEW t \in Tokens, Logout(t) PROVE Credentials!CredentialNext
    <3> DEFINE gone == live \cap {t}
    <3>1. live' = live \ gone /\ dead' = dead \cup gone /\ session' = session
      BY <2>6 DEF Logout, Live, TokenRow
    <3>2. PICK g \in SUBSET live : g = gone
      OBVIOUS
    <3>3. Credentials!Withdraw(g)
      BY <3>1, <3>2 DEF Credentials!Withdraw
    <3>4. QED
      BY <3>3 DEF Credentials!CredentialNext
  <2>7. CASE tokens' = tokens /\ lineage' = lineage
    BY <2>7 DEF Live
  <2>8. QED
    BY <2>1, <2>2, <2>4, <2>5, <2>6, <2>7
    DEF Next, HandlerStep, ExchangeRejected, Exchange, Refresh,
        UpsertByFirebaseUID, FindUser, BeginRotation, RevokeOld, DatabaseError,
        AfterRollback, Deliver, LoseReply, Restart, Tick, tables, history, vars
<1>3. QED
  BY <1>1, <1>2, AuthInvariant, PTL
  DEF Spec, ImplementsOneTimeCredentials, Credentials!CredentialSpec,
      Credentials!credentialVars

-----------------------------------------------------------------------------
(***************************************************************************)
(* What is signed is bounded by what the allowlist and the logouts allow.  *)
(* The invariant adds to AuthInv what the access tokens rest on: a reply   *)
(* that is still to be sent carries the one live token of a session nobody *)
(* can have logged out yet, and a session that was logged out has no token *)
(* left that a refresh could start from.                                   *)
(***************************************************************************)
USE AccessAssumption

RefreshPcs == {"findUser", "begin", "revoke", "commit"}

\* A refresh in progress presents a token its client holds.
PresentsHeld(r) == req[r].pc \in RefreshPcs => req[r].cred \in held

\* The end of a chain: every other token of it has a successor.
LastOfChain(t) ==
  \A s \in Tokens \ {t} :
    tokens[s].status # "absent" /\ lineage[s].root = lineage[t].root =>
      Superseded(s)

\* Only a 200 reply carries a token.  While it is still to be sent nobody has
\* it, it is the last of its chain, and its uid is allowed.
PendingOK(r) ==
  LET m == req[r].mint IN
  /\ m # None => req[r].reply = "200"
  /\ req[r].reply = "200" =>
       /\ m \in Tokens /\ m \notin held
       /\ lineage[m].uid \in Uids /\ AllowlistAllows(lineage[m].uid)
       /\ LastOfChain(m)

\* No token is in two replies.
PendingApart ==
  \A q, r \in Requests :
    (req[q].reply = "200" /\ req[r].reply = "200" /\ req[q].mint = req[r].mint)
      => q = r

ChainInv ==
  /\ \A r \in Requests : PresentsHeld(r) /\ PendingOK(r)
  /\ PendingApart
  /\ \A t \in Tokens : Live(t) => lineage[t].uid \in Uids /\ LastOfChain(t)

\* Claims that were signed are good for an hour from now at most, and no
\* longer than the allowlist justifies.
ClaimsOK(c) ==
  /\ c.uid \in Uids
  /\ c.expires <= now + AccessTTL
  /\ c.expires <= allowedUntil[c.uid]

SignedOK ==
  /\ \A uid \in Uids : AllowlistAllows(uid) => allowedUntil[uid] = now + AccessTTL
  /\ \A r \in Requests : minted[r] # NoClaims => ClaimsOK(minted[r])
  /\ \A a \in access : ClaimsOK(a.claims)

\* No token of the chain t belongs to is live.
ChainDead(t) == \A s \in Tokens : lineage[s].root = lineage[t].root => ~Live(s)

\* A logout that did not come late found the last token of its chain: it left
\* no live token, and no access token that lives longer than it allows.
EndedOK ==
  \A t \in Tokens : endsBy[t] # 0 =>
    /\ t \in held /\ t \in loggedOut
    /\ t \notin late =>
         /\ ~Superseded(t)
         /\ ChainDead(t)
         /\ \A a \in access : a.root = lineage[t].root => a.claims.expires <= endsBy[t]

AccessInv ==
  /\ AuthInv
  /\ RefreshHasToken
  /\ AccessTypeOK
  /\ ChainInv
  /\ SignedOK
  /\ EndedOK
-----------------------------------------------------------------------------
(* The steps of AuthSessions, as the chains of tokens see them *)

\* A request that neither has a token to give nor presents one from nowhere.
Quiet(r) ==
  /\ req'[r].reply # "200"
  /\ req'[r].mint = None
  /\ req'[r].pc \in RefreshPcs => req'[r].cred \in held

\* The step stores no token and hands none over.
NothingIssued ==
  /\ held' = held /\ lineage' = lineage
  /\ \A s \in Tokens :
       /\ Live(s)' => Live(s)
       /\ tokens[s].status = "absent" => tokens'[s].status = "absent"

\* Answers without a token are quiet.
LEMMA AnswerQuiet ==
  ASSUME NEW r \in Requests, TypeOK, NEW cred, NEW code, code # "200",
         req' = [req EXCEPT ![r] = Answered(cred, code, None)]
  PROVE  Quiet(r)
<1>1. /\ Answered(cred, code, None).reply = code
      /\ Answered(cred, code, None).mint = None
      /\ Answered(cred, code, None).pc = "done"
  BY DEF Answered, IdleRequest
<1>2. QED
  BY <1>1 DEF Quiet, TypeOK, RefreshPcs

\* Every handler step but the two that store a token is quiet.
LEMMA HandlerQuiet ==
  ASSUME TypeOK, NEW r \in Requests, RequestInv(r), PresentsHeld(r), PendingOK(r),
         ActorStep(r), ~CreateSession(r), ~CommitRotation(r)
  PROVE  Quiet(r)
<1> USE DEF TypeOK
<1>1. ASSUME NEW code, code # "200", Answer(r, code) PROVE Quiet(r)
  BY <1>1, AnswerQuiet DEF Answer
<1>2. CASE req' = [req EXCEPT ![r] = IdleRequest]
  BY <1>2 DEF Quiet, IdleRequest, RefreshPcs
<1>3. CASE ExchangeRejected(r) \/ DatabaseError(r)
  BY <1>1, <1>3 DEF ExchangeRejected, DatabaseError, StoreErrorReply
<1>4. ASSUME NEW uid \in Uids, NEW email \in Emails, Exchange(r, uid, email)
      PROVE  Quiet(r)
  <2> DEFINE new == [IdleRequest EXCEPT !.pc = "upsert", !.uid = uid, !.email = email]
  <2>1. new.pc = "upsert" /\ new.reply = "none" /\ new.mint = None
    BY DEF IdleRequest
  <2>2. CASE req' = [req EXCEPT ![r] = new]
    <3> HIDE DEF new
    <3> QED
      BY <2>1, <2>2 DEF Quiet, RefreshPcs
  <2>3. CASE req' = [req EXCEPT ![r] = Answered(None, "403", None)]
    BY <2>3, AnswerQuiet
  <2>4. QED
    BY <1>4, <2>2, <2>3 DEF Exchange
<1>5. ASSUME NEW t \in Tokens, Refresh(r, t) PROVE Quiet(r)
  <2> DEFINE new == [IdleRequest EXCEPT !.pc = "findUser", !.cred = t,
                                        !.user = tokens[t].user]
  <2>1. new.cred = t /\ new.reply = "none" /\ new.mint = None
    BY DEF IdleRequest
  <2>2. CASE req' = [req EXCEPT ![r] = new]
    <3>1. t \in held
      BY <1>5 DEF Refresh
    <3> HIDE DEF new
    <3> QED
      BY <2>1, <2>2, <3>1 DEF Quiet
  <2>3. ASSUME NEW code, code # "200",
               req' = [req EXCEPT ![r] = Answered(t, code, None)]
        PROVE  Quiet(r)
    BY <2>3, AnswerQuiet
  <2>4. QED
    BY <1>5, <2>2, <2>3 DEF Refresh, StoreErrorReply
<1>6. ASSUME req[r].pc # "done",
             req'[r].reply = req[r].reply, req'[r].mint = req[r].mint,
             req'[r].pc \in RefreshPcs => req[r].pc \in RefreshPcs,
             req'[r].cred = req[r].cred
      PROVE  Quiet(r)
  BY <1>6 DEF Quiet, RequestInv, PendingOK, PresentsHeld
<1>7. CASE UpsertByFirebaseUID(r)
  <2>1. ASSUME NEW u, req' = [req EXCEPT ![r].pc = "create", ![r].user = u,
                                         ![r].email = None]
        PROVE  Quiet(r)
    <3>1. /\ req'[r].reply = req[r].reply /\ req'[r].mint = req[r].mint
          /\ req'[r].pc = "create" /\ req'[r].cred = req[r].cred
      BY <2>1 DEF Request
    <3>2. QED
      BY <1>6, <1>7, <3>1 DEF UpsertByFirebaseUID, RefreshPcs
  <2>2. QED
    BY <1>1, <1>7, <2>1 DEF UpsertByFirebaseUID
<1>8. ASSUME NEW new, req[r].pc \in RefreshPcs, req' = [req EXCEPT ![r].pc = new]
      PROVE  Quiet(r)
  <2>1. /\ req'[r].reply = req[r].reply /\ req'[r].mint = req[r].mint
        /\ req'[r].cred = req[r].cred
    BY <1>8 DEF Request
  <2>2. QED
    BY <1>6, <1>8, <2>1 DEF RefreshPcs
<1>9. CASE FindUser(r)
  BY <1>1, <1>8, <1>9 DEF FindUser, RefreshPcs
<1>10. CASE BeginRotation(r)
  <2>1. /\ req'[r].reply = req[r].reply /\ req'[r].mint = req[r].mint
        /\ req'[r].cred = req[r].cred
    BY <1>10 DEF BeginRotation, Request
  <2>2. QED
    BY <1>6, <1>10, <2>1 DEF BeginRotation, RefreshPcs
<1>11. CASE RevokeOld(r)
  BY <1>1, <1>8, <1>11 DEF RevokeOld, RefreshPcs
<1>12. CASE Deliver(r) \/ LoseReply(r)
  BY <1>2, <1>12 DEF Deliver, LoseReply
<1>13. QED
  BY <1>3, <1>4, <1>5, <1>7, <1>9, <1>10, <1>11, <1>12
  DEF ActorStep, HandlerStep

\* Apart from the two, and from a delivery, no step issues anything.
LEMMA IssuedByTwo ==
  ASSUME TypeOK, NEW r \in Requests, ActorStep(r),
         ~CreateSession(r), ~CommitRotation(r), ~Deliver(r)
  PROVE  NothingIssued
BY DEF ActorStep, HandlerStep, NothingIssued, Live, ExchangeRejected, Exchange,
   Refresh, UpsertByFirebaseUID, FindUser, BeginRotation, RevokeOld,
   DatabaseError, AfterRollback, LoseReply, tables, history

\* Rows that disappear issue nothing.
LEMMA ShrinkingIssuesNothing ==
  ASSUME TypeOK,
         \/ DeleteExpired
         \/ \E u \in UserIds : DeleteUser(u)
  PROVE  NothingIssued /\ req' = req /\ allowed' = allowed /\ now' = now
BY DEF NothingIssued, Live, DeleteExpired, DeleteUser, WithoutRows, TypeOK,
   TokenRow, ExpiredRows, Stored, history
-----------------------------------------------------------------------------
(* The chains of tokens *)

\* Steps that issue nothing keep the pending replies what they are.
LEMMA QuietStepKeepsChains ==
  ASSUME ChainInv, NothingIssued,
         \A q \in Requests : Quiet(q) \/ (req'[q] = req[q] /\ allowed' = allowed)
  PROVE  ChainInv'
<1>1. ASSUME NEW q \in Requests, Quiet(q) PROVE PresentsHeld(q)' /\ PendingOK(q)'
  BY <1>1 DEF Quiet, PresentsHeld, PendingOK, NothingIssued
<1>0. ASSUME NEW m \in Tokens, LastOfChain(m) PROVE LastOfChain(m)'
  <2>1. \A s \in Tokens : Superseded(s) => Superseded(s)'
    BY DEF Superseded, NothingIssued
  <2>2. QED
    BY <1>0, <2>1 DEF LastOfChain, NothingIssued, Live
<1>2. ASSUME NEW q \in Requests, req'[q] = req[q], allowed' = allowed
      PROVE  PresentsHeld(q)' /\ PendingOK(q)'
  BY <1>0, <1>2 DEF ChainInv, PresentsHeld, PendingOK, NothingIssued, AllowlistAllows
<1>3. PendingApart'
  BY DEF ChainInv, PendingApart, Quiet
<1>4. \A t \in Tokens : Live(t)' => lineage'[t].uid \in Uids /\ LastOfChain(t)'
  <2> SUFFICES ASSUME NEW t \in Tokens, Live(t)'
               PROVE lineage'[t].uid \in Uids /\ LastOfChain(t)'
    OBVIOUS
  <2>1. Live(t) /\ lineage' = lineage
    BY DEF NothingIssued, Live
  <2>2. QED
    BY <1>0, <2>1 DEF ChainInv
<1>5. QED
  BY <1>1, <1>2, <1>3, <1>4 DEF ChainInv

\* Request r stores token t and answers it, or its answer fails: t starts a
\* chain, or it follows the live token of its chain, which a client holds.
Issued(r, t) ==
  /\ tokens[t].status = "absent"
  /\ held' = held /\ allowed' = allowed
  /\ req[r].pc # "done"
  /\ Grant(r, t) \/ Answer(r, "500")
  /\ \A s \in Tokens \ {t} : lineage'[s] = lineage[s]
  /\ \A s \in Tokens \ {t} :
       /\ Live(s)' => Live(s) /\ lineage[s].root # lineage'[t].root
       /\ tokens[s].status = "absent" => tokens'[s].status = "absent"
  /\ lineage'[t].uid \in Uids /\ AllowlistAllows(lineage'[t].uid)
  /\ lineage'[t].root \in Tokens
  /\ \/ lineage'[t].root = t /\ lineage'[t].parent = None
     \/ \E c \in held : /\ Live(c) /\ lineage[c].root = lineage'[t].root
                        /\ lineage'[t].parent = c

\* What has a successor keeps it.
LEMMA SupersededKept ==
  ASSUME TypeOK, TableInv, NEW t \in Tokens, tokens[t].status = "absent",
         \A s \in Tokens \ {t} : lineage'[s] = lineage[s],
         NEW u \in Tokens, Superseded(u)
  PROVE  Superseded(u)'
<1>1. PICK s \in Tokens : lineage[s].parent = u
  BY DEF Superseded
<1>2. s # t
  BY <1>1, AuthAssumption DEF TableInv
<1>3. QED
  BY <1>1, <1>2 DEF Superseded

\* A stored token is the last of its chain, and the other chains keep theirs.
LEMMA IssuedIsLast ==
  ASSUME TypeOK, TableInv, ChainInv, NEW r \in Requests, NEW t \in Tokens, Issued(r, t)
  PROVE  /\ LastOfChain(t)'
         /\ \A m \in Tokens \ {t} :
              LastOfChain(m) /\ lineage[m].root # lineage'[t].root => LastOfChain(m)'
<1> USE DEF Issued
<1>1. \A u \in Tokens : Superseded(u) => Superseded(u)'
  BY SupersededKept
<1>2. ASSUME NEW m \in Tokens \ {t}, LastOfChain(m), lineage[m].root # lineage'[t].root
      PROVE  LastOfChain(m)'
  BY <1>1, <1>2 DEF LastOfChain
<1>3. ASSUME NEW s \in Tokens \ {t}, tokens'[s].status # "absent",
             lineage'[s].root = lineage'[t].root
      PROVE  Superseded(s)'
  <2>1. tokens[s].status # "absent" /\ lineage[s].root = lineage'[t].root
    BY <1>3
  <2>2. lineage'[t].root # t
    BY <2>1 DEF TableInv
  <2>3. PICK c \in held : /\ Live(c) /\ lineage[c].root = lineage'[t].root
                          /\ lineage'[t].parent = c
    BY <2>2
  <2>4. c \in Tokens /\ Superseded(c)'
    BY <2>3 DEF TypeOK, Superseded
  <2>5. LastOfChain(c)
    BY <2>3, <2>4 DEF ChainInv
  <2>6. CASE s # c
    BY <1>1, <2>1, <2>3, <2>5, <2>6 DEF LastOfChain
  <2>7. QED
    BY <2>4, <2>6
<1>4. QED
  BY <1>2, <1>3 DEF LastOfChain

\* A session exchange and a rotation store a token that way.
LEMMA StoringIssues ==
  ASSUME AuthInv, ChainInv, NEW r \in Requests,
         CreateSession(r) \/ CommitRotation(r)
  PROVE  \E t \in Tokens : Issued(r, t)
<1> USE DEF AuthInv, TypeOK
<1>1. CASE CreateSession(r)
  <2>1. PICK t \in Tokens :
          /\ tokens[t].status = "absent"
          /\ tokens' = [tokens EXCEPT ![t] = [status |-> "live",
                          user |-> req[r].user, expires |-> now + RefreshTTL]]
          /\ lineage' = [lineage EXCEPT ![t] = [root |-> t, parent |-> None,
                                                uid |-> req[r].uid]]
          /\ Grant(r, t) \/ Answer(r, "500")
    BY <1>1 DEF CreateSession, Fresh
  <2>2. /\ lineage'[t].root = t /\ lineage'[t].uid = req[r].uid
        /\ lineage'[t].parent = None
        /\ \A s \in Tokens \ {t} : lineage'[s] = lineage[s]
        /\ \A s \in Tokens \ {t} :
             /\ Live(s)' => Live(s)
             /\ tokens[s].status = "absent" => tokens'[s].status = "absent"
    BY <2>1 DEF Live
  <2>3. req[r].uid \in Uids /\ AllowlistAllows(req[r].uid) /\ req[r].pc # "done"
    BY <1>1 DEF CreateSession, RequestInv
  <2>4. \A s \in Tokens : Live(s) => lineage[s].root # t
    BY <2>1 DEF TableInv, Live
  <2>5. held' = held /\ allowed' = allowed
    BY <1>1 DEF CreateSession
  <2>6. Issued(r, t)
    BY <2>1, <2>2, <2>3, <2>4, <2>5 DEF Issued
  <2>7. QED
    BY <2>6
<1>2. CASE CommitRotation(r)
  <2> DEFINE old == req[r].cred
             row == [status |-> "live", user |-> req[r].user,
                     expires |-> req[r].since + RefreshTTL]
  <2>1. PICK t \in Tokens :
          /\ tokens[t].status = "absent"
          /\ tokens' = Rotated(old, t, row)
          /\ lineage' = [lineage EXCEPT ![t] =
                           [lineage[old] EXCEPT !.parent = old]]
          /\ Grant(r, t) \/ Answer(r, "500")
    BY <1>2 DEF CommitRotation, Fresh
  <2>2. /\ req[r].pc # "done" /\ old \in Tokens /\ Live(old)
        /\ AllowlistAllows(users[tokens[old].user].uid)
    BY <1>2 DEF CommitRotation, RequestInv
  <2>3. old \in held
    BY <1>2 DEF CommitRotation, ChainInv, PresentsHeld, RefreshPcs
  <2>4. /\ tokens[old].user \in UserIds /\ users[tokens[old].user].uid = lineage[old].uid
        /\ Present(tokens[old].user) /\ lineage[old].root \in Tokens
    BY <2>2 DEF TableInv, Live, Stored
  <2>5. lineage[old].uid \in Uids
    BY <2>2 DEF ChainInv
  <2>6. /\ lineage'[t].root = lineage[old].root /\ lineage'[t].uid = lineage[old].uid
        /\ lineage'[t].parent = old
        /\ \A s \in Tokens \ {t} : lineage'[s] = lineage[s]
    BY <2>1, <2>2 DEF Ancestry
  <2>7. tokens'[old].status # "live" /\ \A s \in Tokens \ {old, t} : tokens'[s] = tokens[s]
    <3>1. tokens[old].status = "live" /\ tokens[t].status = "absent"
      BY <2>1, <2>2 DEF Live
    <3>2. /\ tokens'[old].status = "revoked"
          /\ \A s \in Tokens \ {old, t} : tokens'[s] = tokens[s]
      BY <2>1, <2>2, <3>1 DEF Rotated, TokenRow
    <3>3. QED
      BY <3>2
  <2>8. \A s \in Tokens \ {t} :
          /\ Live(s)' => Live(s) /\ lineage[s].root # lineage[old].root
          /\ tokens[s].status = "absent" => tokens'[s].status = "absent"
    BY <2>2, <2>7 DEF OneLiveTokenPerSession, Live
  <2>9. held' = held /\ allowed' = allowed
    BY <1>2 DEF CommitRotation
  <2>10. Issued(r, t)
    <3> HIDE DEF old
    <3> QED
      BY <2>1, <2>2, <2>3, <2>4, <2>5, <2>6, <2>8, <2>9 DEF Issued
  <2>11. QED
    BY <2>10
<1>3. QED
  BY <1>1, <1>2

\* The replies that are pending keep when t is stored, and t is the last token
\* of its chain.
LEMMA IssueKeepsChains ==
  ASSUME AuthInv, TypeOK', ChainInv,
         NEW r \in Requests, NEW t \in Tokens, Issued(r, t)
  PROVE  ChainInv'
<1> USE DEF AuthInv, TypeOK, Issued
<1>1. \A q \in Requests \ {r} : req'[q] = req[q]
  BY DEF Grant, Answer
<1>2. /\ LastOfChain(t)'
      /\ \A m \in Tokens \ {t} :
           LastOfChain(m) /\ lineage[m].root # lineage'[t].root => LastOfChain(m)'
  BY IssuedIsLast
<1>3. ASSUME NEW q \in Requests, req[q].reply = "200"
      PROVE  lineage[req[q].mint].root # lineage'[t].root
  <2>1. req[q].mint \in Tokens /\ tokens[req[q].mint].status # "absent"
    <3>1. req[q].mint \in Tokens
      BY <1>3 DEF ChainInv, PendingOK
    <3>2. RequestInv(q) /\ req[q].mint # None
      BY <3>1, AuthAssumption
    <3>3. QED
      BY <3>1, <3>2 DEF RequestInv
  <2>2. lineage[req[q].mint].root # t
    BY <2>1 DEF TableInv
  <2>3. ASSUME NEW c \in held, Live(c) PROVE lineage[c].root # lineage[req[q].mint].root
    <3>1. c \in Tokens \ {req[q].mint} /\ LastOfChain(req[q].mint)
      BY <1>3 DEF ChainInv, PendingOK
    <3>2. ~Superseded(c)
      BY <2>3, <3>1 DEF Superseded, TableInv, Live
    <3>3. QED
      BY <2>3, <3>1, <3>2 DEF LastOfChain, Live
  <2>4. QED
    BY <2>2, <2>3
<1>4. \A s \in Tokens : Live(s)' => lineage'[s].uid \in Uids /\ LastOfChain(s)'
  BY <1>2 DEF ChainInv
<1>5. ASSUME NEW q \in Requests \ {r} PROVE PresentsHeld(q)' /\ PendingOK(q)'
  <2>1. req'[q] = req[q]
    BY <1>1
  <2>2. PresentsHeld(q)'
    BY <2>1 DEF ChainInv, PresentsHeld
  <2>3. CASE req[q].reply # "200"
    <3>1. req[q].mint = None
      BY <2>3 DEF ChainInv, PendingOK
    <3>2. PendingOK(q)'
      BY <2>1, <2>3, <3>1 DEF PendingOK
    <3>3. QED
      BY <2>2, <3>2
  <2>4. CASE req[q].reply = "200"
    <3>1. req[q].mint \in Tokens
      BY <2>4 DEF ChainInv, PendingOK
    <3>2. PICK m \in Tokens : m = req[q].mint
      BY <3>1
    <3>3. /\ m \notin held /\ LastOfChain(m)
          /\ lineage[m].uid \in Uids /\ AllowlistAllows(lineage[m].uid)
      <4>1. PendingOK(q)
        BY DEF ChainInv
      <4>2. QED
        BY <2>4, <3>2, <4>1 DEF PendingOK, LastOfChain
    <3>4. m # t
      BY <2>4, <3>2, AuthAssumption DEF RequestInv
    <3>5. lineage'[m] = lineage[m]
      BY <3>4
    <3>6. LastOfChain(m)'
      <4>1. lineage[m].root # lineage'[t].root
        BY <1>3, <2>4, <3>2
      <4>2. QED
        BY <1>2, <3>3, <3>4, <4>1
    <3>7. req'[q].mint = m /\ req'[q].reply = "200"
      BY <2>1, <2>4, <3>2
    <3>8. m \notin held' /\ allowed' = allowed
      BY <3>3
    <3>9. PendingOK(q)'
      BY <3>3, <3>5, <3>6, <3>7, <3>8 DEF PendingOK, AllowlistAllows, LastOfChain
    <3>10. QED
      BY <2>2, <3>9
  <2>5. QED
    BY <2>2, <2>3, <2>4
<1>6. CASE Answer(r, "500")
  <2>1. Quiet(r)
    BY <1>6, AnswerQuiet DEF Answer
  <2>2. PresentsHeld(r)' /\ PendingOK(r)'
    BY <2>1 DEF Quiet, PresentsHeld, PendingOK
  <2>3. PendingApart'
    BY <1>1, <2>1 DEF ChainInv, PendingApart, Quiet
  <2>4. QED
    BY <1>5, <1>4, <2>2, <2>3 DEF ChainInv
<1>7. CASE Grant(r, t)
  <2>1. req'[r].reply = "200" /\ req'[r].mint = t /\ req'[r].pc = "done"
    <3>1. LET a == Answered(req[r].cred, "200", t)
          IN a.reply = "200" /\ a.mint = t /\ a.pc = "done"
      BY DEF Answered, IdleRequest
    <3>2. QED
      BY <1>7, <3>1 DEF Grant
  <2>2. t \notin held
    BY DEF TableInv
  <2>4. PresentsHeld(r)' /\ PendingOK(r)'
    BY <1>2, <2>1, <2>2 DEF PresentsHeld, PendingOK, RefreshPcs, AllowlistAllows
  <2>5. \A q \in Requests \ {r} : req'[q].reply = "200" => req'[q].mint # t
    BY <1>1, AuthAssumption DEF RequestInv
  <2>6. PendingApart'
    BY <1>1, <2>1, <2>5 DEF ChainInv, PendingApart
  <2>7. QED
    BY <1>5, <1>4, <2>4, <2>6 DEF ChainInv
<1>8. QED
  BY <1>6, <1>7
-----------------------------------------------------------------------------
(* The two parts of the invariant, step by step *)

\* Logouts store nothing.
LEMMA LogoutIssuesNothing ==
  ASSUME TypeOK, NEW t \in Tokens, Logout(t)
  PROVE  NothingIssued /\ req' = req /\ allowed' = allowed /\ now' = now
BY DEF NothingIssued, Live, Logout, TypeOK, TokenRow

\* Every step of the sessions component keeps the chains.
LEMMA ChainStep ==
  ASSUME AuthInv, AuthInv', ChainInv, Next
  PROVE  ChainInv'
<1> USE DEF AuthInv
<1>1. ASSUME NEW r \in Requests, CreateSession(r) \/ CommitRotation(r)
      PROVE  ChainInv'
  <2>1. PICK t \in Tokens : Issued(r, t)
    BY <1>1, StoringIssues
  <2>2. QED
    BY <2>1, IssueKeepsChains
<1>2. ASSUME NEW r \in Requests, Deliver(r) PROVE ChainInv'
  <2>1. /\ \A q \in Requests \ {r} : req'[q] = req[q]
        /\ allowed' = allowed /\ lineage' = lineage /\ tokens' = tokens
        /\ held' = held \cup ({req[r].mint} \ {None})
    BY <1>2 DEF Deliver, TypeOK, tables, history
  <2>2. Quiet(r)
    BY <1>2 DEF Deliver, Quiet, IdleRequest, RefreshPcs, TypeOK
  <2>7. ASSUME NEW m \in Tokens, LastOfChain(m) PROVE LastOfChain(m)'
    BY <2>1, <2>7 DEF LastOfChain, Superseded
  <2>3. ASSUME NEW q \in Requests \ {r} PROVE PresentsHeld(q)' /\ PendingOK(q)'
    <3>1. req[q].reply = "200" => req[q].mint \notin held'
      BY <2>1 DEF ChainInv, PendingOK, PendingApart
    <3>2. QED
      BY <2>1, <2>7, <3>1 DEF ChainInv, PresentsHeld, PendingOK, AllowlistAllows, Live
  <2>4. PresentsHeld(r)' /\ PendingOK(r)'
    BY <2>1, <2>2 DEF Quiet, PresentsHeld, PendingOK
  <2>5. PendingApart'
    BY <2>1, <2>2 DEF ChainInv, PendingApart, Quiet
  <2>6. \A t \in Tokens : Live(t)' => lineage'[t].uid \in Uids /\ LastOfChain(t)'
    BY <2>1, <2>7 DEF ChainInv, Live
  <2>8. QED
    BY <2>3, <2>4, <2>5, <2>6 DEF ChainInv
<1>3. ASSUME NEW r \in Requests, ActorStep(r),
             ~CreateSession(r), ~CommitRotation(r), ~Deliver(r)
      PROVE  ChainInv'
  <2>1. Quiet(r)
    BY <1>3, HandlerQuiet DEF ChainInv
  <2>2. NothingIssued
    BY <1>3, IssuedByTwo
  <2>3. QED
    BY <1>3, <2>1, <2>2, OneRequestMoves, QuietStepKeepsChains
<1>4. CASE \/ DeleteExpired \/ \E u \in UserIds : DeleteUser(u)
           \/ \E t \in Tokens : Logout(t)
  BY <1>4, ShrinkingIssuesNothing, LogoutIssuesNothing, QuietStepKeepsChains
<1>5. ASSUME NEW uids \in SUBSET Uids, Restart(uids) PROVE ChainInv'
  <2>1. \A q \in Requests : Quiet(q)
    BY <1>5 DEF Restart, Quiet, IdleRequest, RefreshPcs
  <2>2. NothingIssued
    BY <1>5 DEF Restart, NothingIssued, Live, tables, history
  <2>3. QED
    BY <2>1, <2>2, QuietStepKeepsChains
<1>6. CASE Tick
  <2>1. NothingIssued /\ req' = req /\ allowed' = allowed
    BY <1>6 DEF Tick, NothingIssued, Live, tables, history
  <2>2. QED
    BY <2>1, QuietStepKeepsChains
<1>7. QED
  BY <1>1, <1>2, <1>3, <1>4, <1>5, <1>6 DEF Next, ActorStep

\* The dead chain of a token that has no successor gets none and stays dead.
LEMMA DeadChainsStep ==
  ASSUME AuthInv, ChainInv, Next, NEW t \in Tokens,
         tokens[t].status # "absent", ~Superseded(t), ChainDead(t)
  PROVE  ~Superseded(t)' /\ ChainDead(t)' /\ lineage'[t] = lineage[t]
<1> USE DEF AuthInv
<1>1. ASSUME NothingIssued
      PROVE ~Superseded(t)' /\ ChainDead(t)' /\ lineage'[t] = lineage[t]
  <2>1. lineage' = lineage /\ \A s \in Tokens : Live(s)' => Live(s)
    BY <1>1 DEF NothingIssued, Live
  <2>2. ~Superseded(t)' /\ lineage'[t] = lineage[t]
    BY <2>1 DEF Superseded
  <2>3. ChainDead(t)'
    BY <2>1 DEF ChainDead
  <2>4. QED
    BY <2>2, <2>3
<1>2. ASSUME NEW r \in Requests, CreateSession(r) \/ CommitRotation(r)
      PROVE ~Superseded(t)' /\ ChainDead(t)' /\ lineage'[t] = lineage[t]
  <2>1. PICK s \in Tokens : Issued(r, s)
    BY <1>2, StoringIssues
  <2>2. /\ s # t /\ lineage'[t] = lineage[t]
        /\ lineage[t].root # s
    BY <2>1 DEF Issued, TableInv
  <2>3. ~Live(t)
    BY DEF ChainDead
  <2>4. lineage'[s].root # lineage[t].root /\ lineage'[s].parent # t
    <3>1. CASE lineage'[s].root = s /\ lineage'[s].parent = None
      BY <2>2, <3>1, AuthAssumption
    <3>2. ASSUME NEW c \in held, Live(c), lineage[c].root = lineage'[s].root,
                 lineage'[s].parent = c
          PROVE  lineage'[s].root # lineage[t].root /\ lineage'[s].parent # t
      BY <2>3, <3>2 DEF ChainDead, TypeOK
    <3>3. QED
      BY <2>1, <3>1, <3>2 DEF Issued
  <2>5. QED
    BY <2>1, <2>2, <2>4 DEF Issued, Superseded, ChainDead
<1>3. ASSUME NEW r \in Requests, Deliver(r)
      PROVE ~Superseded(t)' /\ ChainDead(t)' /\ lineage'[t] = lineage[t]
  BY <1>3 DEF Deliver, tables, history, Superseded, ChainDead, Live
<1>4. CASE (\E uids \in SUBSET Uids : Restart(uids)) \/ Tick
  BY <1>1, <1>4 DEF Restart, Tick, NothingIssued, Live, tables, history
<1>5. QED
  <2>1. ASSUME NEW r \in Requests, ActorStep(r)
        PROVE  ~Superseded(t)' /\ ChainDead(t)' /\ lineage'[t] = lineage[t]
    BY <1>1, <1>2, <1>3, <2>1, IssuedByTwo
  <2>2. QED
    BY <1>1, <1>4, <2>1, ShrinkingIssuesNothing, LogoutIssuesNothing
    DEF Next, ActorStep
-----------------------------------------------------------------------------
(* The access tokens *)

\* What clients hold and what was logged out is never forgotten.
LEMMA HistoryGrows ==
  ASSUME Next PROVE held \subseteq held' /\ loggedOut \subseteq loggedOut'
BY DEF Next, HandlerStep, ExchangeRejected, Exchange, Refresh,
   UpsertByFirebaseUID, CreateSession, FindUser, BeginRotation, RevokeOld,
   CommitRotation, DatabaseError, Logout, DeleteExpired, DeleteUser, Deliver,
   LoseReply, Restart, Tick, history

\* The steps that are the sessions component's, minting aside.
LEMMA AccessStepIsAuthStep ==
  AccessNext => Next \/ UNCHANGED vars
BY DEF AccessNext, OtherStep, MintingStep, MintForSession, MintForRefresh, Sign,
   StoreSession, RequestFails, DeliverTokens, LoseTokens, EndSession,
   RestartServer, TimePasses, TablesShrink, Next, HandlerStep

\* Claims that were OK stay OK while the clock and the justified times advance.
LEMMA ClaimsKept ==
  ASSUME TypeOK, TypeOK', allowedUntil \in [Uids -> Nat],
         allowedUntil' \in [Uids -> Nat], now' >= now,
         \A uid \in Uids : \/ allowedUntil'[uid] >= allowedUntil[uid]
                           \/ allowedUntil'[uid] >= now + AccessTTL,
         NEW c \in Claims, ClaimsOK(c)
  PROVE  ClaimsOK(c)'
BY AccessAssumption DEF ClaimsOK, Claims, TypeOK

\* What is added to a later time ends later.
LEMMA LaterExpiry ==
  \A m, n, ttl \in Nat :
    n >= m => m + ttl \in Nat /\ n + ttl \in Nat /\ n + ttl >= m + ttl
OBVIOUS

\* Minting signs for a uid that the allowlist has, and for an hour.
LEMMA SignStep ==
  ASSUME AccessInv, NEW r \in Requests, NEW user \in UserIds \cup {None},
         NEW uid \in Uids, AllowlistAllows(uid), Sign(r, user, uid)
  PROVE  AccessTypeOK' /\ SignedOK'
<1> USE DEF AccessInv, AccessTypeOK
<1>1. Expiry \in Nat
  BY AuthAssumption, AccessAssumption DEF Expiry, TypeOK
<1> DEFINE new == [user |-> user, expires |-> Expiry, uid |-> uid]
<1>2. /\ new \in Claims /\ new.uid = uid /\ new.expires = now + AccessTTL
      /\ minted' = [minted EXCEPT ![r] = new]
  BY <1>1 DEF Claims, Sign, Expiry
<1> HIDE DEF new
<1>3. AccessTypeOK'
  BY <1>2 DEF Sign, TypeOK, vars, ended
<1>4. ClaimsOK(new)
  BY <1>2 DEF ClaimsOK, SignedOK, TypeOK
<1>5. \A c : ClaimsOK(c)' <=> ClaimsOK(c)
  BY DEF Sign, vars, ClaimsOK
<1>6. SignedOK'
  BY <1>2, <1>4, <1>5 DEF Sign, vars, SignedOK, AllowlistAllows
<1>7. QED
  BY <1>3, <1>6

\* The clock and a restart let the process vouch anew for the uids it allows.
LEMMA VouchStep ==
  ASSUME AccessInv, TypeOK', Vouch, now' >= now, access' = access,
         minted' = minted \/ minted' = [r \in Requests |-> NoClaims]
  PROVE  allowedUntil' \in [Uids -> Nat] /\ SignedOK'
<1> USE DEF AccessInv, AccessTypeOK
<1>1. /\ now \in Nat /\ now' \in Nat /\ now + AccessTTL \in Nat
      /\ now' + AccessTTL \in Nat /\ now' + AccessTTL >= now + AccessTTL
  <2>1. now \in Nat /\ now' \in Nat /\ AccessTTL \in Nat /\ now' >= now
    BY AccessAssumption DEF TypeOK
  <2>2. QED
    BY <2>1, LaterExpiry
<1>2. allowedUntil' \in [Uids -> Nat]
  BY <1>1 DEF Vouch
<1>3. \A uid \in Uids : AllowlistAllows(uid)' => allowedUntil'[uid] = now' + AccessTTL
  BY DEF Vouch
<1>4. \A uid \in Uids : \/ allowedUntil'[uid] >= allowedUntil[uid]
                        \/ allowedUntil'[uid] >= now + AccessTTL
  BY <1>1 DEF Vouch
<1>5. ASSUME NEW c \in Claims, ClaimsOK(c) PROVE ClaimsOK(c)'
  BY <1>2, <1>4, <1>5, ClaimsKept
<1>6. \A r \in Requests : (minted[r] # NoClaims => ClaimsOK(minted[r]))'
  BY <1>5 DEF SignedOK
<1>7. \A a \in access' : ClaimsOK(a.claims)'
  BY <1>5 DEF SignedOK, AccessToken
<1>8. QED
  BY <1>2, <1>3, <1>6, <1>7 DEF SignedOK
-----------------------------------------------------------------------------
(* The theorems *)

\* The parts of the invariant hold in the initial states.
LEMMA AccessInvInit == AccessInit => AccessInv
<1> SUFFICES ASSUME AccessInit PROVE AccessInv
  OBVIOUS
<1> USE DEF AccessInit
<1>1. AuthInv /\ RefreshHasToken
  BY AuthInvInit
<1>2. AccessTypeOK
  <2>1. AccessTTL \in Nat
    BY AccessAssumption
  <2>2. NoClaims \in Claims
    BY DEF NoClaims, Claims
  <2>3. QED
    BY <1>1, <2>1, <2>2 DEF AccessTypeOK, AuthInv
<1>3. ChainInv
  BY AuthAssumption DEF Init, ChainInv, PresentsHeld, PendingOK, PendingApart, RefreshPcs,
     IdleRequest, NoToken, Live
<1>4. SignedOK
  BY <1>2, AccessAssumption DEF SignedOK, AccessTypeOK, Init
<1>5. EndedOK
  BY DEF EndedOK
<1>6. QED
  BY <1>1, <1>2, <1>3, <1>4, <1>5 DEF AccessInv

\* A logout's end is kept, if no access token is handed out.
LEMMA EndedKept ==
  ASSUME AccessInv, Next \/ UNCHANGED vars, access' = access, UNCHANGED ended
  PROVE  EndedOK'
<1> SUFFICES ASSUME NEW t \in Tokens, endsBy[t] # 0
             PROVE  /\ t \in held' /\ t \in loggedOut'
                    /\ t \notin late =>
                         /\ ~Superseded(t)' /\ ChainDead(t)'
                         /\ \A a \in access : a.root = lineage'[t].root =>
                              a.claims.expires <= endsBy[t]
  BY DEF EndedOK, ended
<1>1. t \in held /\ t \in loggedOut
  BY DEF AccessInv, EndedOK
<1>2. CASE Next
  <2>1. held \subseteq held' /\ loggedOut \subseteq loggedOut'
    BY <1>2, HistoryGrows
  <2>2. tokens[t].status # "absent"
    BY <1>1 DEF AccessInv, AuthInv, TableInv
  <2>3. QED
    BY <1>1, <1>2, <2>1, <2>2, DeadChainsStep DEF AccessInv, EndedOK
<1>3. CASE UNCHANGED vars
  BY <1>3 DEF AccessInv, EndedOK, vars, Live, Superseded, ChainDead
<1>4. QED
  BY <1>2, <1>3

\* Steps of the handlers that neither mint nor hand out a token; claims may be
\* dropped.
LEMMA AccessKept ==
  ASSUME AccessInv, Next, AuthInv',
         access' = access, UNCHANGED ended, allowedUntil' = allowedUntil,
         allowed' = allowed, now' = now,
         minted' \in [Requests -> Claims],
         \A r \in Requests : minted'[r] \in {minted[r], NoClaims}
  PROVE  AccessTypeOK' /\ ChainInv' /\ SignedOK' /\ EndedOK'
<1>1. AccessTypeOK'
  BY DEF AccessInv, AccessTypeOK, AuthInv, ended
<1>2. ChainInv'
  BY ChainStep DEF AccessInv
<1>3. SignedOK'
  BY DEF AccessInv, SignedOK, ClaimsOK, AllowlistAllows
<1>4. EndedOK'
  BY EndedKept
<1>5. QED
  BY <1>1, <1>2, <1>3, <1>4

\* The step that delivers tokens: the claims go out with the last token of a
\* chain, which no client has had and so none has logged out.
LEMMA DeliverStep ==
  ASSUME AccessInv, NEW r \in Requests, DeliverTokens(r), AuthInv'
  PROVE  AccessTypeOK' /\ ChainInv' /\ SignedOK' /\ EndedOK'
<1> USE DEF AccessInv, AccessTypeOK
<1> DEFINE root == lineage[req[r].mint].root
           new == [claims |-> minted[r], root |-> root]
<1>1. /\ Deliver(r) /\ Next /\ allowedUntil' = allowedUntil /\ UNCHANGED ended
      /\ minted' = [minted EXCEPT ![r] = NoClaims]
      /\ now' = now /\ allowed' = allowed
  BY DEF DeliverTokens, Deliver, Next, ended
<1>2. minted' \in [Requests -> Claims]
  BY <1>1 DEF NoClaims, Claims
<1>3. CASE req[r].reply # "200"
  <2>1. access' = access
    BY <1>3 DEF DeliverTokens
  <2>2. QED
    BY <1>1, <1>2, <2>1, AccessKept
<1>4. CASE req[r].reply = "200"
  <2>1. access' = access \cup {new} /\ minted[r] # NoClaims
    BY <1>4 DEF DeliverTokens
  <2>2. req[r].mint \in Tokens /\ req[r].mint \notin held /\ LastOfChain(req[r].mint)
    BY <1>4 DEF ChainInv, PendingOK
  <2>3. root \in Tokens
    <3>1. tokens[req[r].mint].status # "absent"
      BY <2>2, AuthAssumption DEF AuthInv, RequestInv
    <3>2. QED
      BY <2>2, <3>1 DEF AuthInv, TableInv
  <2>4. AccessTypeOK'
    BY <1>1, <1>2, <2>1, <2>3 DEF AuthInv, AccessToken, ended
  <2>5. ChainInv'
    BY <1>1, ChainStep
  <2>6. SignedOK'
    BY <1>1, <2>1 DEF SignedOK, ClaimsOK, AllowlistAllows
  <2>7. ASSUME NEW t \in Tokens, endsBy[t] # 0
        PROVE  /\ t \in held' /\ t \in loggedOut'
               /\ t \notin late =>
                    /\ ~Superseded(t)' /\ ChainDead(t)'
                    /\ \A a \in access' : a.root = lineage'[t].root =>
                         a.claims.expires <= endsBy[t]
    <3>1. /\ t \in held /\ t \in loggedOut /\ tokens[t].status # "absent"
          /\ held \subseteq held' /\ loggedOut \subseteq loggedOut'
      BY <1>1, <2>7, HistoryGrows DEF EndedOK, AuthInv, TableInv
    <3>2. ASSUME t \notin late
          PROVE  /\ ~Superseded(t)' /\ ChainDead(t)' /\ lineage'[t] = lineage[t]
                 /\ lineage[t].root # root
      <4>1. ~Superseded(t) /\ ChainDead(t)
        BY <2>7, <3>2 DEF EndedOK
      <4>2. lineage[t].root # root
        BY <2>2, <3>1, <4>1 DEF LastOfChain
      <4>3. QED
        BY <1>1, <3>1, <4>1, <4>2, DeadChainsStep
    <3>3. QED
      BY <2>1, <2>7, <3>1, <3>2 DEF EndedOK
  <2>8. EndedOK'
    BY <1>1, <2>7 DEF EndedOK, ended
  <2>9. QED
    BY <2>4, <2>5, <2>6, <2>8
<1>5. QED
  BY <1>3, <1>4

\* A logout of the last token of a chain leaves the chain dead.
LEMMA LastLogoutEnds ==
  ASSUME AuthInv, ChainInv, NEW t \in Tokens, Logout(t), ~Superseded(t)
  PROVE  ~Superseded(t)' /\ ChainDead(t)'
<1> USE DEF AuthInv
<1>1. /\ t \in held /\ lineage' = lineage
      /\ tokens' = IF Live(t) THEN [tokens EXCEPT ![t].status = "revoked"] ELSE tokens
  BY DEF Logout
<1>2. \A s \in Tokens : Live(s)' => Live(s) /\ s # t
  BY <1>1 DEF Live, TypeOK, TokenRow
<1>3. ASSUME NEW s \in Tokens, lineage[s].root = lineage[t].root, Live(s)' PROVE FALSE
  <2>1. Live(s) /\ s # t /\ tokens[t].status # "absent"
    BY <1>1, <1>2, <1>3 DEF TableInv
  <2>2. LastOfChain(s)
    BY <2>1 DEF ChainInv
  <2>3. QED
    BY <1>3, <2>1, <2>2 DEF LastOfChain
<1>4. QED
  BY <1>1, <1>3 DEF Superseded, ChainDead

\* A logout: unless it came late, the session has an end from now on, and what
\* was signed for it ends by then.
LEMMA EndSessionStep ==
  ASSUME AccessInv, NEW t \in Tokens, EndSession(t), AuthInv'
  PROVE  AccessTypeOK' /\ ChainInv' /\ SignedOK' /\ EndedOK'
<1> USE DEF AccessInv, AccessTypeOK
<1>1. /\ Logout(t) /\ Next /\ now' = now /\ allowed' = allowed
      /\ minted' = minted /\ access' = access /\ allowedUntil' = allowedUntil
      /\ endsBy' = [endsBy EXCEPT ![t] = IF endsBy[t] = 0 THEN now + AccessTTL
                                                         ELSE endsBy[t]]
      /\ late' = IF Superseded(t) THEN late \cup {t} ELSE late
  BY DEF EndSession, Logout, Next
<1>2. ChainInv'
  BY <1>1, ChainStep
<1>3. now + AccessTTL \in Nat
  BY AccessAssumption DEF TypeOK
<1>4. AccessTypeOK'
  <2>1. endsBy' \in [Tokens -> Nat] /\ late' \subseteq Tokens
    BY <1>1, <1>3
  <2>2. QED
    BY <1>1, <2>1 DEF AuthInv
<1>5. SignedOK'
  BY <1>1 DEF SignedOK, ClaimsOK, AllowlistAllows
<1>6. /\ t \in held' /\ t \in loggedOut'
      /\ held \subseteq held' /\ loggedOut \subseteq loggedOut'
  BY <1>1 DEF Logout
<1>7. ASSUME NEW u \in Tokens, endsBy[u] # 0, u \notin late
      PROVE  /\ ~Superseded(u)' /\ ChainDead(u)' /\ lineage'[u] = lineage[u]
             /\ \A a \in access : a.root = lineage[u].root => a.claims.expires <= endsBy[u]
  <2>1. u \in held /\ ~Superseded(u) /\ ChainDead(u) /\ tokens[u].status # "absent"
    BY <1>7 DEF EndedOK, AuthInv, TableInv
  <2>2. QED
    BY <1>1, <1>7, <2>1, DeadChainsStep DEF EndedOK
<1>8. ASSUME t \notin late', endsBy[t] = 0
      PROVE  /\ ~Superseded(t)' /\ ChainDead(t)' /\ lineage'[t] = lineage[t]
             /\ endsBy'[t] = now + AccessTTL
             /\ \A a \in access : a.claims.expires <= now + AccessTTL
  <2>1. ~Superseded(t)
    BY <1>1, <1>8
  <2>2. QED
    BY <1>1, <1>8, <2>1, LastLogoutEnds DEF SignedOK, ClaimsOK, Logout
<1>9. \A u \in Tokens \ {t} : endsBy'[u] = endsBy[u]
  BY <1>1
<1>10. endsBy[t] # 0 => endsBy'[t] = endsBy[t]
  BY <1>1
<1>11. late \subseteq late'
  BY <1>1
<1>12. ASSUME NEW u \in Tokens, endsBy'[u] # 0
       PROVE  /\ u \in held' /\ u \in loggedOut'
              /\ u \notin late' =>
                   /\ ~Superseded(u)' /\ ChainDead(u)'
                   /\ \A a \in access : a.root = lineage'[u].root =>
                        a.claims.expires <= endsBy'[u]
  <2>1. CASE u = t /\ endsBy[t] = 0
    BY <1>6, <1>8, <2>1
  <2>2. CASE endsBy[u] # 0
    BY <1>6, <1>7, <1>9, <1>10, <1>11, <2>2 DEF EndedOK
  <2>3. QED
    BY <1>9, <1>12, <2>1, <2>2
<1>13. EndedOK'
  BY <1>1, <1>12 DEF EndedOK
<1>14. QED
  BY <1>2, <1>4, <1>5, <1>13

\* Every step keeps the inductive invariant.
LEMMA AccessInvStep == AccessInv /\ [AccessNext]_accessVars => AccessInv'
<1> SUFFICES ASSUME AccessInv, [AccessNext]_accessVars PROVE AccessInv'
  OBVIOUS
<1>1. Next \/ UNCHANGED vars
  BY AccessStepIsAuthStep DEF accessVars
<1>2. AuthInv' /\ RefreshHasToken'
  BY <1>1, AuthInvStep DEF AccessInv
<1> DEFINE Kept == AccessTypeOK' /\ ChainInv' /\ SignedOK' /\ EndedOK'
<1> SUFFICES Kept
  BY <1>2 DEF AccessInv
<1> USE DEF AccessInv, AccessTypeOK
<1>3. NoClaims \in Claims
  BY DEF NoClaims, Claims
<1>4. ASSUME UNCHANGED vars PROVE ChainInv'
  BY <1>4 DEF ChainInv, vars, PresentsHeld, PendingOK, PendingApart, Live,
              AllowlistAllows, LastOfChain, Superseded
<1>5. ASSUME NEW r \in Requests, OtherStep(r) PROVE Kept
  <2>1. /\ Next /\ now' = now /\ allowed' = allowed
        /\ access' = access /\ UNCHANGED ended /\ allowedUntil' = allowedUntil
        /\ minted' = minted
    BY <1>5 DEF OtherStep, Next, HandlerStep, ExchangeRejected, Exchange, Refresh,
       UpsertByFirebaseUID, FindUser, BeginRotation, RevokeOld, CommitRotation,
       history
  <2>2. QED
    BY <1>2, <2>1, AccessKept
<1>6. ASSUME NEW r \in Requests, NEW user \in UserIds \cup {None},
             NEW uid \in Uids, AllowlistAllows(uid), Sign(r, user, uid)
      PROVE  Kept
  <2>1. AccessTypeOK' /\ SignedOK'
    BY <1>6, SignStep
  <2>2. ChainInv'
    BY <1>4, <1>6 DEF Sign
  <2>3. EndedOK'
    BY <1>6, EndedKept DEF Sign
  <2>4. QED
    BY <2>1, <2>2, <2>3
<1>7. ASSUME NEW r \in Requests, MintForSession(r) PROVE Kept
  <2>1. req[r].uid \in Uids /\ AllowlistAllows(req[r].uid)
    BY <1>7 DEF MintForSession, AuthInv, RequestInv
  <2>2. req[r].user \in UserIds \cup {None}
    BY DEF TypeOK, Request
  <2>3. QED
    BY <1>6, <1>7, <2>1, <2>2 DEF MintForSession
<1>8. ASSUME NEW r \in Requests, MintForRefresh(r) PROVE Kept
  <2> DEFINE t == req[r].mint
  <2>1. t \in Tokens /\ lineage[t].uid \in Uids /\ AllowlistAllows(lineage[t].uid)
    BY <1>8 DEF MintForRefresh, ChainInv, PendingOK
  <2>2. tokens[t].user \in UserIds \cup {None}
    BY <2>1 DEF TypeOK, TokenRow
  <2>3. Sign(r, tokens[t].user, lineage[t].uid)
    BY <1>8 DEF MintForRefresh
  <2> HIDE DEF t
  <2>4. QED
    BY <1>6, <2>1, <2>2, <2>3
<1>9. ASSUME NEW r \in Requests, StoreSession(r) PROVE Kept
  <2>1. /\ Next /\ now' = now /\ allowed' = allowed
        /\ access' = access /\ UNCHANGED ended /\ allowedUntil' = allowedUntil
    BY <1>9 DEF StoreSession, CreateSession, Next, HandlerStep
  <2>2. /\ minted' \in [Requests -> Claims]
        /\ \A q \in Requests : minted'[q] \in {minted[q], NoClaims}
    BY <1>3, <1>9 DEF StoreSession
  <2>3. QED
    BY <1>2, <2>1, <2>2, AccessKept
<1>10. ASSUME NEW r \in Requests, RequestFails(r) \/ LoseTokens(r) PROVE Kept
  <2>1. /\ Next /\ now' = now /\ allowed' = allowed
        /\ access' = access /\ UNCHANGED ended /\ allowedUntil' = allowedUntil
    BY <1>10 DEF RequestFails, LoseTokens, DatabaseError, LoseReply, Next,
                 HandlerStep, history
  <2>2. /\ minted' \in [Requests -> Claims]
        /\ \A q \in Requests : minted'[q] \in {minted[q], NoClaims}
    BY <1>3, <1>10 DEF RequestFails, LoseTokens
  <2>3. QED
    BY <1>2, <2>1, <2>2, AccessKept
<1>11. ASSUME NEW r \in Requests, DeliverTokens(r) PROVE Kept
  BY <1>2, <1>11, DeliverStep
<1>12. ASSUME NEW t \in Tokens, EndSession(t) PROVE Kept
  BY <1>2, <1>12, EndSessionStep
<1>13. CASE TablesShrink
  <2>1. /\ Next /\ now' = now /\ allowed' = allowed
        /\ access' = access /\ UNCHANGED ended /\ allowedUntil' = allowedUntil
        /\ minted' = minted
    BY <1>13 DEF TablesShrink, DeleteExpired, DeleteUser, Next, history
  <2>2. QED
    BY <1>2, <2>1, AccessKept
<1>14. ASSUME NEW uids \in SUBSET Uids, RestartServer(uids) PROVE Kept
  <2>1. /\ Next /\ now' = now /\ Vouch
        /\ access' = access /\ UNCHANGED ended
        /\ minted' = [r \in Requests |-> NoClaims]
    BY <1>14 DEF RestartServer, Restart, Next, history
  <2>2. now' >= now
    BY <2>1 DEF TypeOK
  <2>3. allowedUntil' \in [Uids -> Nat] /\ SignedOK'
    BY <1>2, <2>1, <2>2, VouchStep DEF AuthInv
  <2>4. AccessTypeOK'
    BY <1>2, <1>3, <2>1, <2>3 DEF AuthInv, ended
  <2>5. ChainInv' /\ EndedOK'
    BY <1>2, <2>1, ChainStep, EndedKept
  <2>6. QED
    BY <2>3, <2>4, <2>5
<1>15. CASE TimePasses
  <2>1. /\ Next /\ now' = now + 1 /\ Vouch
        /\ access' = access /\ UNCHANGED ended /\ minted' = minted
    BY <1>15 DEF TimePasses, Tick, Next, history
  <2>2. now' >= now
    BY <2>1 DEF TypeOK
  <2>3. allowedUntil' \in [Uids -> Nat] /\ SignedOK'
    BY <1>2, <2>1, <2>2, VouchStep DEF AuthInv
  <2>4. AccessTypeOK'
    BY <1>2, <2>1, <2>3 DEF AuthInv, ended
  <2>5. ChainInv' /\ EndedOK'
    BY <1>2, <2>1, ChainStep, EndedKept
  <2>6. QED
    BY <2>3, <2>4, <2>5
<1>16. CASE UNCHANGED accessVars
  <2>1. UNCHANGED vars /\ UNCHANGED ended /\ access' = access
        /\ minted' = minted /\ allowedUntil' = allowedUntil
    BY <1>16 DEF accessVars, ended
  <2>2. AccessTypeOK' /\ SignedOK'
    BY <1>2, <2>1 DEF AuthInv, SignedOK, ClaimsOK, AllowlistAllows, vars, ended
  <2>3. QED
    BY <1>4, <2>1, <2>2, EndedKept
<1>17. QED
  BY <1>5, <1>7, <1>8, <1>9, <1>10, <1>11, <1>12, <1>13, <1>14, <1>15, <1>16
  DEF AccessNext, MintingStep

\* The invariant of the access tokens holds in every reachable state.
THEOREM AccessInvariant == AccessSpec => []AccessInv
BY AccessInvInit, AccessInvStep, PTL DEF AccessSpec

\* Every reachable state of the access tokens is well typed.
THEOREM AccessTypeCorrect == AccessSpec => []AccessTypeOK
<1>1. AccessInv => AccessTypeOK
  BY DEF AccessInv
<1>2. QED
  BY <1>1, AccessInvariant, PTL

\* Whatever restarts and refreshes race: who is let in by an access token was
\* on the allowlist within the hour.
THEOREM AccessBoundByAllowlist == AccessSpec => []AccessFollowsAllowlist
<1>1. AccessInv => AccessFollowsAllowlist
  BY DEF AccessInv, AccessFollowsAllowlist, Validates, SignedOK, ClaimsOK,
         AccessTypeOK, AccessToken, Claims, AuthInv, TypeOK
<1>2. QED
  BY <1>1, AccessInvariant, PTL

\* For any number of users, tokens and requests: a logout ends all access of
\* its session within the hour, a refresh in flight or not, unless a refresh of
\* the token had committed before the logout.
THEOREM AccessBoundByLogout == AccessSpec => []LogoutEndsAccess
<1>1. AccessInv => LogoutEndsAccess
  BY DEF AccessInv, LogoutEndsAccess, Validates, EndedOK,
         AccessTypeOK, AccessToken, Claims, AuthInv, TypeOK
<1>2. QED
  BY <1>1, AccessInvariant, PTL
=============================================================================
