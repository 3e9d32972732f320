SPECIFICATION Spec
CONSTANTS
  t1 = t1
  t2 = t2
  k1 = k1
  k2 = k2
  kalshi = kalshi
  polymarket_us = polymarket_us
  forecastex = forecastex
  Callers = {t1, t2}
  Canonicals = {k1, k2}
  Platforms = {kalshi, polymarket_us, forecastex}
  Gated = {polymarket_us, forecastex}
  First <- MCFirst
  Second <- MCSecond
  Costs = {1}
  Slip = 1
  MaxPosition = 3
  MaxPlatform = 2
  MaxTotal = 2
  ManualIds = {1}
SYMMETRY Symmetric
INVARIANTS
  TypeOK
  MarketCap
  SharedCaps
  ArmStopsNew
