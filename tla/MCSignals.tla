------------------------------ MODULE MCSignals ------------------------------
(* Signals for model checking.                                              *)
EXTENDS Signals

\* No edge at Kalshi's own level; an edge and a phantom one at Polymarket's.  A
\* book without an ask (Dead) only hides the pair, which fits does as well.
TwoVenues == [p \in Platforms |-> IF p = "kalshi" THEN {0} ELSE {1, 2}]
=============================================================================
