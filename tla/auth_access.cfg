SPECIFICATION FairAccessSpec
CONSTANTS
  Uids = {a, b}
  Emails = {x}
  UserIds = {u1}
  Tokens = {t1, t2}
  Requests = {r1}
  None = None
  RefreshTTL = 2
  AccessTTL = 1
  MaxNow = 3
  DevOrTest = FALSE
INVARIANTS
  AccessFollowsAllowlist
  LogoutEndsAccess
PROPERTIES
  ExpiredRowsReclaimed
