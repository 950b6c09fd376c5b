--------------------------- MODULE MCCandleCache ---------------------------
\* Two readers of three candles in two months.
EXTENDS CandleCache
=============================================================================
