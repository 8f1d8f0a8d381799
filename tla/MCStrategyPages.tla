---------------------------- MODULE MCStrategyPages ----------------------------
(* Two days of an index and its future: the files of a day may come without *)
(* the future and be corrected later.                                       *)
EXTENDS StrategyPages, TLC

Index == [inst |-> "index"]
Future == [inst |-> "future"]
MCDays == 1..2
MCBatches == [d \in MCDays |-> {{Index}, {Index, Future}}]
MCRuns == 1..2
Interchangeable == Permutations(Owners) \cup Permutations(Requests)
=============================================================================
