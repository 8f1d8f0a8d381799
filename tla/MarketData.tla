----------------------------- MODULE MarketData -----------------------------
(***************************************************************************)
(* What the candles table promises to those who read it: the candles of a  *)
(* day arrive as one batch made of all the files of the day, and a stored  *)
(* candle stays as it is.  A later batch of the same day only adds the     *)
(* instruments the day lacks.  MarketSync implements this specification,   *)
(* and StrategyPages reads a calendar that behaves like it.                *)
(***************************************************************************)
CONSTANTS
    Days,
    Batches   \* Batches[d]: what one sync of day d may offer, a set of sets of candles

VARIABLE calendar   \* calendar[d]: the candles stored for day d, records with an inst

CalendarInit == calendar = [d \in Days |-> {}]

Stores(c, d) == \E e \in calendar[d] : e.inst = c.inst

StoreBatch(d, batch) ==
    calendar' = [calendar EXCEPT ![d] = @ \cup {c \in batch : ~Stores(c, d)}]

CalendarNext == \E d \in Days : \E batch \in Batches[d] : StoreBatch(d, batch)

CalendarSpec == CalendarInit /\ [][CalendarNext]_calendar
=============================================================================
