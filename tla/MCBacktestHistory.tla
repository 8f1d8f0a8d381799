------------------------- MODULE MCBacktestHistory -------------------------
\* Small instances of BacktestHistory for TLC.
EXTENDS BacktestHistory, TLC

Interchangeable == Permutations(Runs) \cup Permutations(Owners)
=============================================================================
