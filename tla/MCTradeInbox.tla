---------------------------- MODULE MCTradeInbox ----------------------------
(* Small instances of TradeInbox: payload sets chosen so that each judgement *)
(* of enqueue_trade_payload has a payload that provokes it.                  *)
EXTENDS TradeInbox, TLC

CONSTANTS none, w1, w2

P(econ, assoc, status, rev) ==
    [econ |-> econ, assoc |-> assoc, status |-> status, rev |-> rev]

\* An early push without the order, then its completion.
Late     == { P("e1", none, "ok", 0), P("e1", "o1", "ok", 0) }

\* The same execution told otherwise: without its order and with it in a newer
\* revision, with other economic values (a stock deal's), under another order,
\* with no deal status yet, cancelled.
Contrary == { P("e1", none, "ok", 1), P("e1", "o1", "ok", 2), P("e2", none, "ok", 1),
              P("e1", "o2", "ok", 1), P("e1", "o1", none, 1), P("e1", "o1", "cancelled", 1) }

\* A push whose status only a lookup or a later push supplies; the same of an
\* option that closes a position and of a stock.
Silent   == { P("e1", "o1", none, 0), P("e1", "o1", "ok", 0) }
Three    == Silent \cup { P("c1", "o1", "ok", 0), P("s1", "o1", "ok", 0) }

Symmetry == Permutations({w1, w2})

\* The surroundings of the operator run, which keep its three kinds of deal
\* small enough for liveness: the push tells the deal once and only lookups and
\* files add to it; a file repeats an opening deal that nobody has resumed; the
\* operator resumes an opening deal without a file line whose attempts are used
\* up, and not while the receipt thread holds an outdated listing of it.
Opening == row.pay.econ \notin Stocks \cup Closes
Surrounded ==
    /\ \A e \in evidence' \ evidence :
         /\ e.src = "push" => evidence = {}
         /\ e.src = "file" => Opening /\ e.pay = row.pay /\ resumes = 0
    /\ resumes' # resumes => /\ Opening /\ row.att = MaxAttempts
                             /\ \A e \in evidence : e.src # "file"
                             /\ obs = None \/ obs.row = row
=============================================================================
