-------------------------- MODULE MCLifecycleOutbox --------------------------
(* Two intents, of one account or of two, and two dispatchers.              *)
EXTENDS LifecycleOutbox, TLC

CONSTANTS i1, i2, a1, a2, d1, d2

OneAccount  == (i1 :> a1) @@ (i2 :> a1)
TwoAccounts == (i1 :> a1) @@ (i2 :> a2)

\* Two rows are written at most, of two intents or of one and its compensation;
\* on a fan-out, whose children multiply the states, one row.
Written == {r \in Rows : row[r] # "none"}
Small == Cardinality(Written) <= (IF provider = "fanout" THEN 1 ELSE 2)

Symmetry == Permutations({d1, d2})
=============================================================================
