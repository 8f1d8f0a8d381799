-------------------------- MODULE MCAccessTokens --------------------------
\* Small instances of AccessTokens for TLC.
EXTENDS AccessTokens, TLC
=============================================================================
