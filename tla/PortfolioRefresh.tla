--------------------------- MODULE PortfolioRefresh ---------------------------
(***************************************************************************)
(* The hand-off of stock executions to portfolio management (PM): an        *)
(* execution saved in the trade inbox carries the intent to refresh its     *)
(* account's holdings; the intent is claimed, alone or with others of its   *)
(* account, under the request id of the first, sent to PM and confirmed     *)
(* (src/application/trades: inbox.py, auto_intake.py, backfill.py).         *)
(*                                                                         *)
(* Rows are numbered in the order in which they were received, and the      *)
(* request id of a row's intent is the row's number.  The claimers are the  *)
(* push callback, which claims its row, and the history backfill, which     *)
(* claims its batch account by account; the loop is the listener's recovery *)
(* cycle.  PM keeps a request it has answered, and does not take a request  *)
(* id twice.                                                                *)
(***************************************************************************)
EXTENDS Integers, FiniteSets

CONSTANTS
    RefreshCount,  \* rows of the inbox
    AccountOf,     \* the account of each row
    Claimers,      \* push callbacks and backfills
    PageLimit,     \* limit of list_pending_trade_payload_refresh_handoffs
    Refused,       \* request ids that PM refuses
    MaxFaults      \* bound: reopened, conflicting and reconciled rows, and crashes

RefreshRows == 1..RefreshCount

ASSUME RefreshAssumption ==
    /\ RefreshCount \in Nat /\ PageLimit \in Nat \ {0} /\ MaxFaults \in Nat
    /\ Refused \subseteq RefreshRows
    /\ "loop" \notin Claimers

VARIABLES
    intent,   \* intent[r]: the columns of row r this module is about
    pm,       \* pm[i]: rows with an intent when PM first took request i (ghost)
    call,     \* call[t]: local state of thread t
    cursor,   \* portfolio_refresh_cursor, 0 for None
    faults

refreshVars == <<intent, pm, call, cursor, faults>>

Callers == Claimers \cup {"loop"}

\* id: portfolio_refresh_handoff_request_id, set with attempted_at_ms; 0 for NULL.
\* reconciled: the stored result says that the operator took the row over from
\* the ledger.
Intents == [status : {"pending", "handled", "conflict"}, wanted : BOOLEAN,
            id : RefreshRows \cup {0}, accepted : BOOLEAN, reconciled : BOOLEAN]

\* back: where the thread goes on after a dispatch; todo, listed: what the loop
\* has listed and not yet come to, as handed off before, and as never claimed.
CallIdle == [pc |-> "idle", back |-> "idle", id |-> 0, todo |-> {}, listed |-> {}]
Calls == [pc : {"idle", "replay", "groups", "send", "accept"}, back : {"idle", "replay", "groups"},
          id : RefreshRows \cup {0}, todo : SUBSET RefreshRows, listed : SUBSET RefreshRows]

Calling(t, pc) == call[t].pc = pc
First(S) == CHOOSE r \in S : \A q \in S : r <= q
Last(S)  == CHOOSE r \in S : \A q \in S : q <= r

-----------------------------------------------------------------------------
(* The row's life in the inbox, as far as it matters here.                 *)

\* save_trade_payload_result: the intent is stored with the result.
SaveIntent(r) ==
    /\ intent[r].status = "pending"
    /\ intent' = [intent EXCEPT ![r].wanted = TRUE]
    /\ UNCHANGED <<pm, call, cursor, faults>>

SettleIntent(r) ==
    /\ intent[r].status = "pending" /\ intent[r].wanted
    /\ intent' = [intent EXCEPT ![r].status = "handled"]
    /\ UNCHANGED <<pm, call, cursor, faults>>

\* A later delivery reopens the row, or contradicts it.
Redeliver(r) ==
    /\ intent[r].status = "handled" /\ faults < MaxFaults
    /\ \E s \in {"pending", "conflict"} : intent' = [intent EXCEPT ![r].status = s]
    /\ faults' = faults + 1
    /\ UNCHANGED <<pm, call, cursor>>

\* settle_reconciled_trade_payload: the operator closes the row from the ledger,
\* once and for good.
ReconcileRow(r) ==
    /\ intent[r].status \in {"pending", "handled"} /\ ~intent[r].reconciled
    /\ faults < MaxFaults
    /\ intent' = [intent EXCEPT ![r].status = "handled", ![r].reconciled = TRUE]
    /\ faults' = faults + 1
    /\ UNCHANGED <<pm, call, cursor>>

-----------------------------------------------------------------------------
(* Claiming.                                                               *)

MayClaim(r) == /\ intent[r].status # "conflict" /\ ~intent[r].reconciled
               /\ intent[r].wanted /\ intent[r].id = 0

\* Mutant: the group goes under the id of its first row, claimed before or not.
BindToFirst(S, i) == [r \in RefreshRows |->
                        IF r \in S /\ MayClaim(r) THEN [intent[r] EXCEPT !.id = First(S)] ELSE intent[r]]
\* _bind_portfolio_refresh_handoff: rows S that may be claimed, under request i.
Bound(S, i) == [r \in RefreshRows |->
                  IF r \in S /\ MayClaim(r) THEN [intent[r] EXCEPT !.id = i] ELSE intent[r]]

\* claim_trade_payload_refresh_intent, and ..._intents of one account: the
\* first row that can be claimed, in the order the caller gives, names the request.
ClaimIntents(t) ==
    /\ Calling(t, "idle") /\ t \in Claimers
    /\ \E S \in SUBSET RefreshRows : \E i \in S :
         /\ \A r \in S : AccountOf[r] = AccountOf[i]
         /\ MayClaim(i)
         /\ intent' = Bound(S, i)
         /\ call' = [call EXCEPT ![t].pc = "send", ![t].id = intent'[i].id]
    /\ UNCHANGED <<pm, cursor, faults>>

-----------------------------------------------------------------------------
(* The recovery cycle.                                                     *)

Waiting(r) == /\ intent[r].status = "handled" /\ ~intent[r].reconciled
              /\ intent[r].id # 0 /\ ~intent[r].accepted

\* list_pending_trade_payload_refresh_handoffs: one row of each request.
Handoffs == {r \in RefreshRows : r > cursor /\ Waiting(r)
               /\ \A q \in RefreshRows : q > cursor /\ q < r /\ Waiting(q) => intent[q].id # intent[r].id}
Page == {r \in Handoffs : Cardinality({q \in Handoffs : q < r}) < PageLimit}

\* Mutant: every cycle starts with the first page.
CursorStuck(page) == 0
CursorAfter(page) == IF Cardinality(page) = PageLimit THEN Last(page) ELSE 0

ListPending ==
    /\ Calling("loop", "idle")
    /\ call' = [call EXCEPT !["loop"].pc = "replay", !["loop"].todo = Page]
    /\ cursor' = CursorAfter(Page)
    /\ UNCHANGED <<intent, pm, faults>>

Replay ==
    /\ Calling("loop", "replay") /\ call["loop"].todo # {}
    /\ LET r == First(call["loop"].todo)
       IN  call' = [call EXCEPT !["loop"].pc = "send", !["loop"].back = "replay", !["loop"].id = intent[r].id,
                                !["loop"].todo = @ \ {r}]
    /\ UNCHANGED <<intent, pm, cursor, faults>>

\* list_unclaimed_trade_payload_refresh_intents
ListUnclaimed ==
    /\ Calling("loop", "replay") /\ call["loop"].todo = {}
    /\ call' = [call EXCEPT !["loop"].pc = "groups",
                            !["loop"].listed = {r \in RefreshRows : intent[r].status = "handled" /\ MayClaim(r)}]
    /\ UNCHANGED <<intent, pm, cursor, faults>>

\* One account's listed rows, if any of them may still be claimed.
ClaimGroup ==
    /\ Calling("loop", "groups") /\ call["loop"].listed # {}
    /\ LET S == {r \in call["loop"].listed : AccountOf[r] = AccountOf[First(call["loop"].listed)]}
           C == {r \in S : MayClaim(r)}
       IN  /\ intent' = IF C = {} THEN intent ELSE Bound(S, First(C))
           /\ call' = [call EXCEPT !["loop"].listed = @ \ S, !["loop"].back = "groups",
                                   !["loop"].id = IF C = {} THEN 0 ELSE First(C),
                                   !["loop"].pc = IF C = {} THEN "groups" ELSE "send"]
    /\ UNCHANGED <<pm, cursor, faults>>

CycleEnds ==
    /\ Calling("loop", "groups") /\ call["loop"].listed = {}
    /\ call' = [call EXCEPT !["loop"] = CallIdle]
    /\ UNCHANGED <<intent, pm, cursor, faults>>

-----------------------------------------------------------------------------
(* _dispatch_portfolio_refresh_intent.                                     *)

Taken(i) == pm' = [pm EXCEPT ![i] = IF @ = {} THEN {r \in RefreshRows : intent[r].wanted} ELSE @]

\* PM takes the request and says so.
Accepted(t) ==
    /\ Calling(t, "send") /\ call[t].id \notin Refused
    /\ Taken(call[t].id)
    /\ call' = [call EXCEPT ![t].pc = "accept"]
    /\ UNCHANGED <<intent, cursor, faults>>

\* The request is refused or lost, or its answer is.
Unanswered(t) ==
    /\ Calling(t, "send")
    /\ \/ call[t].id \notin Refused /\ Taken(call[t].id)
       \/ UNCHANGED pm
    /\ call' = [call EXCEPT ![t].pc = call[t].back, ![t].id = 0]
    /\ UNCHANGED <<intent, cursor, faults>>

\* accept_trade_payload_refresh_handoff: every row under the request.
ConfirmHandoff(t) ==
    /\ Calling(t, "accept")
    /\ intent' = [r \in RefreshRows |->
                    IF intent[r].id = call[t].id THEN [intent[r] EXCEPT !.accepted = TRUE] ELSE intent[r]]
    /\ call' = [call EXCEPT ![t].pc = call[t].back, ![t].id = 0]
    /\ UNCHANGED <<pm, cursor, faults>>

\* The process dies, or only this call's thread fails to write its confirmation.
CrashCaller(t) ==
    /\ ~Calling(t, "idle") /\ faults < MaxFaults
    /\ call' = [call EXCEPT ![t] = CallIdle]
    /\ cursor' = IF t = "loop" THEN 0 ELSE cursor
    /\ faults' = faults + 1
    /\ UNCHANGED <<intent, pm>>

-----------------------------------------------------------------------------
RefreshInit ==
    /\ intent = [r \in RefreshRows |-> [status |-> "pending", wanted |-> FALSE, id |-> 0,
                                        accepted |-> FALSE, reconciled |-> FALSE]]
    /\ pm = [i \in RefreshRows |-> {}]
    /\ call = [t \in Callers |-> CallIdle]
    /\ cursor = 0 /\ faults = 0

LoopStep == ListPending \/ Replay \/ ListUnclaimed \/ ClaimGroup \/ CycleEnds
Dispatch(t) == Accepted(t) \/ Unanswered(t) \/ ConfirmHandoff(t)

RefreshNext ==
    \/ \E r \in RefreshRows : SaveIntent(r) \/ SettleIntent(r) \/ Redeliver(r) \/ ReconcileRow(r)
    \/ LoopStep
    \/ \E t \in Callers : ClaimIntents(t) \/ Dispatch(t) \/ CrashCaller(t)

\* The listener polls for as long as it runs, a request ends within its timeout,
\* and PM takes, sooner or later, what is sent to it again and again.
RefreshFairness ==
    /\ WF_refreshVars(LoopStep \/ Dispatch("loop"))
    /\ \A i \in RefreshRows \ Refused : SF_refreshVars(Accepted("loop") /\ call["loop"].id = i)

RefreshSpec == RefreshInit /\ [][RefreshNext]_refreshVars /\ RefreshFairness

-----------------------------------------------------------------------------
RefreshTypeOK ==
    /\ intent \in [RefreshRows -> Intents] /\ pm \in [RefreshRows -> SUBSET RefreshRows]
    /\ call \in [Callers -> Calls] /\ cursor \in RefreshRows \cup {0} /\ faults \in 0..MaxFaults

\* A row whose refresh counts as handed over was wanted before PM took the
\* request it goes under: PM's next reading of the account sees its execution.
AcceptedIsTrue ==
    \A r \in RefreshRows : intent[r].accepted => intent[r].id # 0 /\ r \in pm[intent[r].id]

\* The request of a row is the request of the row that names it, and covers the
\* row if PM has taken it.
RequestsCover ==
    \A r \in RefreshRows : intent[r].id # 0 =>
      /\ intent[r].wanted /\ intent[intent[r].id].id = intent[r].id
      /\ pm[intent[r].id] # {} => r \in pm[intent[r].id]

\* PM has taken only requests that their row has claimed; so has every thread
\* that sends one, and a thread confirms only what PM has taken.
TakenIsClaimed == \A i \in RefreshRows : pm[i] # {} => intent[i].id = i
Holds(c) ==
    /\ c.pc \in {"send", "accept"} => c.id # 0 /\ intent[c.id].id = c.id
    /\ c.pc = "accept" => pm[c.id] # {}
    /\ \A r \in c.todo : intent[r].id # 0
CallsHold == \A t \in Callers : Holds(call[t])

\* The inductive invariant of the proofs: a handed-over refresh is true, and what
\* this rests on.
RefreshInv == RefreshTypeOK /\ AcceptedIsTrue /\ RequestsCover /\ TakenIsClaimed /\ CallsHold

\* Every wanted refresh of a settled row is handed over in the end, whatever
\* becomes of the first attempt and however long PM refuses another request,
\* unless the operator reconciles the row with the ledger first: such a row is
\* neither listed nor claimed again, also if its hand-off was under way.
EveryHandoffEnds ==
    \A r \in RefreshRows :
      intent[r].status = "handled" /\ intent[r].wanted ~>
      \/ intent[r].accepted \/ intent[r].id \in Refused
      \/ intent[r].status # "handled" \/ intent[r].reconciled
=============================================================================
