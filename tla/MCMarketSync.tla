---------------------------- MODULE MCMarketSync ----------------------------
(* Three days, the second of them a weekend day; one stock with a future    *)
(* that expires on day 1, the next one and an option, one stock without     *)
(* futures.  The first F&O file of day 1 misses the near contract; that of  *)
(* day 3 is empty, and the corrected one lists the expired contract still.  *)
(* The index file of day 3 has no row of an index that is kept.             *)
EXTENDS MarketSync

MCWeekend == {2}
Near == [kind |-> "future", under |-> "RELIANCE", expiry |-> 1]
Far == [kind |-> "future", under |-> "RELIANCE", expiry |-> 3]
Call == [kind |-> "option", under |-> "RELIANCE", expiry |-> 1]
MCContracts == {Near, Far, Call}
MCIndices == {"NIFTY"}
MCStocks == {"RELIANCE", "OTHER"}
MCFOListing ==
    [d \in Days |-> IF d = 3 THEN <<{}, {Near, Far}>>
                    ELSE <<{Far, Call}, {Near, Far, Call}>>]
MCIndexListing == [d \in Days |-> [v \in Versions |-> IF d = 3 THEN {} ELSE MCIndices]]
MCCMListing == [d \in Days |-> [v \in Versions |-> MCStocks]]
MCCorrected == {"fo"}
=============================================================================
