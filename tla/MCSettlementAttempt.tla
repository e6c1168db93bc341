------------------------- MODULE MCSettlementAttempt -------------------------
(* Two due runs of one source, one case.                                    *)
EXTENDS SettlementAttempt, TLC

CONSTANTS w1, w2

Symmetry == Permutations({w1, w2})
=============================================================================
