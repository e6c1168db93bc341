--------------------------- MODULE MCTradeReceipt ----------------------------
EXTENDS TradeReceipt, TLC

CONSTANTS s1, s2, t1, r1, r2, none, fan

MCKinds == {"verification_pending", "recorded"}

Symmetry == Permutations({s1, s2})
=============================================================================
