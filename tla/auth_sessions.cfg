SPECIFICATION Spec
CONSTANTS
  Uids = {a, b}
  Emails = {x}
  UserIds = {u1}
  Tokens = {t1, t2, t3}
  Requests = {r1, r2}
  None = None
  RefreshTTL = 1
  MaxNow = 2
  DevOrTest = FALSE
SYMMETRY Interchangeable
INVARIANTS
  OneLiveTokenPerSession
  SingleSuccessor
  RevocationAccountedFor
  RefusalIsHonest
  SessionKeepsIdentity
PROPERTIES
  LogoutIsFinal
  NeverIssuedToDisallowed
  ImplementsOneTimeCredentials
