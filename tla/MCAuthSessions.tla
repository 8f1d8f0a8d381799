-------------------------- MODULE MCAuthSessions --------------------------
\* Small instances of AuthSessions for TLC.
EXTENDS AuthSessions, TLC

Interchangeable == Permutations(Tokens) \cup Permutations(Requests)
                   \cup Permutations(UserIds)
=============================================================================
