--------------------------- MODULE MCIndicators ---------------------------
(* Prices are multiples of a unit that every division made within Horizon   *)
(* candles leaves whole: halves for RSI and the midpoint, thirds for ATR.   *)
EXTENDS Indicators

Unit == 7776   \* 2^5 * 3^5
Candle(h, l, c, v) == [high |-> h * Unit, low |-> l * Unit, close |-> c * Unit, volume |-> v]
MCBars == {Candle(3, 3, 3, 1), Candle(4, 2, 4, 2), Candle(4, 2, 2, 0),
           Candle(6, 5, 6, 1), Candle(1, 1, 1, 0), Candle(9, 3, 3, 1)}
=============================================================================
