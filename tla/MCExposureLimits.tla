-------------------------- MODULE MCExposureLimits --------------------------
(***************************************************************************)
(* Two canonical ids whose pairs share the Kalshi account.                 *)
(***************************************************************************)
EXTENDS ExposureLimits, TLC

CONSTANTS t1, t2, k1, k2, kalshi, polymarket_us, forecastex

MCFirst  == (k1 :> kalshi) @@ (k2 :> polymarket_us)
MCSecond == (k1 :> forecastex) @@ (k2 :> kalshi)

Symmetric == Permutations(Callers)

=============================================================================
