------------------------------ MODULE MCEngine ------------------------------
(* Prices on three levels, one half target and stop away from one another;  *)
(* bars that rise, fall, gap, and one that touches target and stop at once. *)
EXTENDS Engine

Bar(o, h, l, c) == [open |-> o, high |-> h, low |-> l, close |-> c]
MCBars == {Bar(400, 400, 400, 400), Bar(400, 600, 400, 600), Bar(400, 600, 200, 400),
           Bar(400, 400, 200, 200), Bar(600, 600, 600, 600), Bar(200, 200, 200, 200)}
MCRates == [brokerage |-> 100, cap |-> 5, exchange |-> 50, gst |-> 18, stt |-> 100, stamp |-> 50]
=============================================================================
