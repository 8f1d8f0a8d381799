--------------------------- MODULE AccessTokens ---------------------------
(***************************************************************************)
(* The access tokens that go with the refresh tokens of AuthSessions:      *)
(* signed, kept nowhere on the server, good for one hour, and checked by   *)
(* the Auth middleware without a look at the tables or at the allowlist.   *)
(* Whatever ends a session cuts off its access only within the hour, and   *)
(* only because nothing mints an access token for it afterwards.           *)
(*                                                                         *)
(* mintSession mints before it stores the refresh token, RefreshSession    *)
(* after the rotation has committed; both read the clock then, steps after *)
(* the allowlist was consulted.                                            *)
(***************************************************************************)
EXTENDS AuthSessions

CONSTANT AccessTTL  \* accessTTL, in ticks of the clock

ASSUME AccessAssumption == AccessTTL \in Nat \ {0}

VARIABLES
  minted,       \* minted[r]: the claims request r has signed so far
  access,       \* the access tokens some client has received
  allowedUntil, \* history: until when the allowlist justifies access, by uid
  endsBy,       \* history: when access has to have ended after the first
                \* logout of a token; 0 = not logged out
  late          \* history: tokens a refresh had replaced when they were logged out

accessVars == <<vars, minted, access, allowedUntil, endsBy, late>>
ended == <<endsBy, late>>

\* sub and exp; uid is history, the one Firebase verified.  expires = 0: none.
Claims == [user : UserIds \cup {None}, expires : Nat, uid : Uids \cup {None}]

NoClaims == [user |-> None, expires |-> 0, uid |-> None]

\* root is history: the exchange whose chain of tokens it came with.
AccessToken == [claims : Claims, root : Tokens]

AccessTypeOK ==
  /\ TypeOK
  /\ minted \in [Requests -> Claims]
  /\ access \subseteq AccessToken
  /\ allowedUntil \in [Uids -> Nat]
  /\ endsBy \in [Tokens -> Nat]
  /\ late \subseteq Tokens

AccessInit ==
  /\ Init
  /\ minted = [r \in Requests |-> NoClaims]
  /\ access = {}
  /\ allowedUntil = [uid \in Uids |-> IF AllowlistAllows(uid) THEN AccessTTL ELSE 0]
  /\ endsBy = [t \in Tokens |-> 0]
  /\ late = {}
-----------------------------------------------------------------------------
(* Minting: mintAccessToken *)

Expiry == now + AccessTTL

Sign(r, user, uid) ==
  /\ minted[r] = NoClaims
  /\ minted' = [minted EXCEPT ![r] = [user |-> user, expires |-> Expiry, uid |-> uid]]
  /\ UNCHANGED <<vars, access, allowedUntil, ended>>

\* For a new session, before tokenRepo.Create.
MintForSession(r) ==
  /\ req[r].pc = "create"
  /\ Sign(r, req[r].user, req[r].uid)

\* For a refresh, after RotateRefreshToken has returned.
MintForRefresh(r) ==
  /\ req[r].pc = "done"
  /\ req[r].reply = "200"
  /\ LET t == req[r].mint IN Sign(r, tokens[t].user, lineage[t].uid)

\* A session that was not stored, or a request that fails, drops its claims.
StoreSession(r) ==
  /\ minted[r] # NoClaims
  /\ CreateSession(r)
  /\ minted' = [minted EXCEPT ![r] = IF req'[r].reply = "200" THEN @ ELSE NoClaims]
  /\ UNCHANGED <<access, allowedUntil, ended>>

RequestFails(r) ==
  /\ DatabaseError(r)
  /\ minted' = [minted EXCEPT ![r] = NoClaims]
  /\ UNCHANGED <<access, allowedUntil, ended>>

\* A 200 reply carries a token of each kind.
DeliverTokens(r) ==
  /\ req[r].reply = "200" => minted[r] # NoClaims
  /\ access' = IF req[r].reply = "200"
               THEN access \cup {[claims |-> minted[r],
                                  root |-> lineage[req[r].mint].root]}
               ELSE access
  /\ Deliver(r)
  /\ minted' = [minted EXCEPT ![r] = NoClaims]
  /\ UNCHANGED <<allowedUntil, ended>>

LoseTokens(r) ==
  /\ LoseReply(r)
  /\ minted' = [minted EXCEPT ![r] = NoClaims]
  /\ UNCHANGED <<access, allowedUntil, ended>>
-----------------------------------------------------------------------------
(* The rest of AuthSessions, seen from here *)

\* A refresh of the token has committed.
Superseded(t) == \E s \in Tokens : lineage[s].parent = t

\* Logout takes the refresh token only; no list of access tokens exists.  The
\* token may be one that a refresh has already replaced.
EndSession(t) ==
  /\ Logout(t)
  /\ endsBy' = [endsBy EXCEPT ![t] = IF @ = 0 THEN now + AccessTTL ELSE @]
  /\ late' = IF Superseded(t) THEN late \cup {t} ELSE late
  /\ UNCHANGED <<minted, access, allowedUntil>>

\* Between two steps of the clock and at a restart the running process vouches
\* for the uids on its list.
Vouch ==
  allowedUntil' = [uid \in Uids |-> IF AllowlistAllows(uid)' THEN now' + AccessTTL
                                    ELSE allowedUntil[uid]]

RestartServer(uids) ==
  /\ Restart(uids)
  /\ Vouch
  /\ minted' = [r \in Requests |-> NoClaims]
  /\ UNCHANGED <<access, ended>>

TimePasses ==
  /\ Tick
  /\ Vouch
  /\ UNCHANGED <<minted, access, ended>>

\* Steps that neither mint nor deliver.
OtherStep(r) ==
  /\ \/ ExchangeRejected(r)
     \/ \E uid \in Uids, email \in Emails : Exchange(r, uid, email)
     \/ \E t \in Tokens : Refresh(r, t)
     \/ UpsertByFirebaseUID(r)
     \/ FindUser(r) \/ BeginRotation(r) \/ RevokeOld(r) \/ CommitRotation(r)
  /\ UNCHANGED <<minted, access, allowedUntil, ended>>

TablesShrink ==
  /\ DeleteExpired \/ \E u \in UserIds : DeleteUser(u)
  /\ UNCHANGED <<minted, access, allowedUntil, ended>>

MintingStep(r) ==
  MintForSession(r) \/ MintForRefresh(r) \/ StoreSession(r) \/ RequestFails(r)

AccessNext ==
  \/ \E r \in Requests :
       OtherStep(r) \/ MintingStep(r) \/ DeliverTokens(r) \/ LoseTokens(r)
  \/ \E t \in Tokens : EndSession(t)
  \/ \E uids \in SUBSET Uids : RestartServer(uids)
  \/ TablesShrink
  \/ TimePasses

AccessSpec == AccessInit /\ [][AccessNext]_accessVars

\* Handlers run on, cron runs the clean-up every night, and time passes.
AccessFairness ==
  /\ \A r \in Requests :
       /\ WF_accessVars(MintingStep(r))
       /\ WF_accessVars(HandlerStep(r) /\ OtherStep(r))
  /\ WF_accessVars(DeleteExpired /\ TablesShrink)
  /\ WF_accessVars(TimePasses)

FairAccessSpec == AccessSpec /\ AccessFairness
-----------------------------------------------------------------------------
(* Properties *)

\* ValidateToken, all the Auth middleware asks: the signature is ours and the
\* token has not expired.
Validates(a) == a.claims.user # None /\ now < a.claims.expires

\* Whoever an access token lets in was on the allowlist within the last hour,
\* although neither ValidateToken nor mintAccessToken looks at the list, and a
\* restart may change it between any two requests.
AccessFollowsAllowlist ==
  \A a \in access : Validates(a) => now < allowedUntil[a.claims.uid]

\* One hour after a logout nothing of the session is let in any more: neither
\* an earlier token of the chain nor a refresh that was in flight has left an
\* access token that lives longer.  The exception is a logout that came after
\* the commit of a refresh of its token: it is answered 204 like any other, and
\* the session goes on with the successor.
LogoutEndsAccess ==
  \A a \in access, t \in Tokens :
    Validates(a) /\ endsBy[t] # 0 /\ a.root = lineage[t].root =>
      now < endsBy[t] \/ t \in late
=============================================================================
