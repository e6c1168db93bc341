------------------------------ MODULE MCServices ------------------------------
(***************************************************************************)
(* The small stores beside the trade inbox.  They share no state, so one    *)
(* behaviour runs one of them: the union of their state spaces is checked,  *)
(* not the product.                                                        *)
(***************************************************************************)
EXTENDS OperationStore, PortfolioRefresh, HistoryCursor, ConfigTransaction, PositionProjection

VARIABLE part

svars == <<part, opVars, refreshVars, cursorVars, configVars, projectionVars>>

MCAccountOf  == <<"a", "a">>
MCAccountFor == [e \in Executions |-> "a"]

\* Lot x is opened, closed twice and adjusted, and one closing
\* voided; lot y is opened, and another event opens a lot of the same name.
Event(kind, lot, size, target) == [kind |-> kind, lot |-> lot, size |-> size, target |-> target]
MCTrade ==
    <<Event("open", "x", 3, 0), Event("close", "x", 1, 0), Event("close", "x", 1, 0),
      Event("void", "x", 1, 3), Event("adjust", "x", 1, 0),
      Event("open", "y", 1, 0), Event("open", "y", 1, 0)>>
\* Written at once: two openings, two closings, a void and an opening in its place.
MCTogether == {<<1, 6>>, <<2, 3>>, <<4, 6>>}
MCLotAccount == [l \in {"x", "y"} |-> IF l = "x" THEN "a" ELSE "b"]

ServicesInit ==
    /\ part \in {"operations", "refresh", "cursor", "config", "projection"}
    /\ OpInit /\ (part = "operations" \/ op.kind = "manual")
    /\ RefreshInit /\ CursorInit /\ ConfigInit /\ ProjectionInit

RunsOperations == OpNext /\ UNCHANGED <<part, refreshVars, cursorVars, configVars, projectionVars>>
RunsRefresh(A) == part = "refresh" /\ A /\ UNCHANGED <<part, opVars, cursorVars, configVars, projectionVars>>
RunsCursor     == CursorNext /\ UNCHANGED <<part, opVars, refreshVars, configVars, projectionVars>>
RunsConfig     == ConfigNext /\ UNCHANGED <<part, opVars, refreshVars, cursorVars, projectionVars>>
RunsProjection == ProjectionNext /\ UNCHANGED <<part, opVars, refreshVars, cursorVars, configVars>>

ServicesNext ==
    \/ part = "operations" /\ RunsOperations
    \/ RunsRefresh(RefreshNext)
    \/ part = "cursor" /\ RunsCursor
    \/ part = "config" /\ RunsConfig
    \/ part = "projection" /\ RunsProjection

\* RefreshFairness, where the refresh runs.
ServicesFairness ==
    /\ WF_svars(RunsRefresh(LoopStep \/ Dispatch("loop")))
    /\ \A i \in RefreshRows \ Refused : SF_svars(RunsRefresh(Accepted("loop") /\ call["loop"].id = i))

ServicesSpec == ServicesInit /\ [][ServicesNext]_svars /\ ServicesFairness
=============================================================================
