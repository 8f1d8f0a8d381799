------------------------ MODULE OneTimeCredentials ------------------------
(***************************************************************************)
(* What the refresh-token table promises, with no handlers, clocks or      *)
(* users in sight: a credential is issued once, which begins a session,    *)
(* may be redeemed for one fresh successor in the same session, may be     *)
(* withdrawn, and never becomes usable again.                              *)
(* AuthSessions implements this specification.                             *)
(***************************************************************************)
CONSTANTS Tokens, None

VARIABLES
  live,  \* credentials that have been issued and neither spent nor withdrawn
  dead,  \* credentials that were live once
  session  \* session[t]: the credential that began the session t belongs to

credentialVars == <<live, dead, session>>

Unissued == Tokens \ (live \cup dead)

CredentialInit ==
  /\ live = {}
  /\ dead = {}
  /\ session = [t \in Tokens |-> None]

Issue(t) ==
  /\ t \in Unissued
  /\ live' = live \cup {t}
  /\ dead' = dead
  /\ session' = [session EXCEPT ![t] = t]

\* The old credential dies in the very step in which its successor is born.
Redeem(t, successor) ==
  /\ t \in live
  /\ successor \in Unissued
  /\ live' = (live \ {t}) \cup {successor}
  /\ dead' = dead \cup {t}
  /\ session' = [session EXCEPT ![successor] = session[t]]

Withdraw(gone) ==
  /\ gone \subseteq live
  /\ live' = live \ gone
  /\ dead' = dead \cup gone
  /\ session' = session

CredentialNext ==
  \/ \E t \in Tokens : Issue(t)
  \/ \E t, s \in Tokens : Redeem(t, s)
  \/ \E gone \in SUBSET live : Withdraw(gone)

CredentialSpec == CredentialInit /\ [][CredentialNext]_credentialVars
=============================================================================
