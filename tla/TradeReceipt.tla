---------------------------- MODULE TradeReceipt -----------------------------
(***************************************************************************)
(* The receipts of ONE trade-inbox row: one frozen receipt per kind of     *)
(* result, of which only the current kind may be sent                      *)
(* (src/application/trades/inbox.py, receipt.py, auto_intake.py).          *)
(*                                                                         *)
(* A sender is a worker that announces the result of its own claim, or the *)
(* receipt thread, which sends without one.  Each inbox statement is one   *)
(* transaction and so one step; the provider is called in between.  A      *)
(* receipt goes straight to a target or through a notification fan-out;    *)
(* the fan-out appears here by its promise (OneShotDelivery, shown for     *)
(* NotificationFanout), and the rest of the row by what receipts see of    *)
(* it: its claim, whether it is held back and the kinds it results in.     *)
(***************************************************************************)
EXTENDS Integers, FiniteSets

CONSTANTS
    Senders,        \* workers and receipt threads
    Kinds,          \* the kinds of result this instance lets a row have
    Targets,        \* provider, channel and target of a direct route
    Fanout,         \* the route of a fan-out: {"fanout_id": ...}
    Recipients,     \* the recipients of a fan-out
    None,           \* no claim, no route
    Limit           \* direct notification attempts per receipt (20)

ASSUME ReceiptAssumption ==
    /\ Kinds \subseteq {"pending_retry", "recorded", "manual_required", "verification_pending"}
    /\ Fanout \notin Targets /\ None \notin Targets /\ None # Fanout
    /\ None \notin Senders
    /\ Recipients # {}
    /\ Limit \in Nat \ {0}

VARIABLES
    rcpt,       \* rcpt[k]: the receipt of kind k in receipt_json
    cur,        \* current_result_key, or "none" without an envelope
    claim,      \* holder of the row's economic claim, or None
    live,       \* the claim's lease still runs
    held,       \* a conflict or a reconciliation suppresses delivery
    route,      \* the route the configuration resolves to now
    child,      \* child[k][r]: the fan-out's delivery of kind k to r
    sender,     \* sender[s]: local state of sender s
    taken,      \* taken[k]: how often a target accepted k directly (ghost)
    tried       \* tried[k]: the routes the provider was called for with k (ghost)

row == <<claim, live, held>>
ghosts == <<taken, tried>>
vars == <<rcpt, cur, row, route, child, sender, ghosts>>

-----------------------------------------------------------------------------
\* "started": unknown without a result, in flight or crashed; "unknown": with
\* one.  by: whose attempt is in flight or crashed, which stands for attempt_id.
Receipts == [status : {"absent", "pending", "started", "unknown", "sent", "failed"},
             stop : {"none", "superseded", "exhausted", "moved"},
             count : 0..Limit, wait : 0..1,
             route : Targets \cup {Fanout, None}, by : Senders \cup {None}]
Absent == [status |-> "absent", stop |-> "none", count |-> 0, wait |-> 0,
           route |-> None, by |-> None]

\* A fan-out child, "spent" once refused for the last time.
ChildPhases == {"due", "out", "done", "spent"}

PCs == {"idle", "ready", "sending", "trying", "answered"}
Outs == {"sent", "failed", "unknown"}
Idle == [pc |-> "idle", key |-> "none", mine |-> FALSE, via |-> None,
         todo |-> {}, to |-> None, out |-> "unknown"]
Sendings == [pc : PCs, key : Kinds \cup {"none"}, mine : BOOLEAN,
             via : Targets \cup {Fanout, None}, todo : SUBSET Recipients,
             to : Recipients \cup {None}, out : Outs]

At(s, pc) == sender[s].pc = pc
Quit(s)   == sender' = [sender EXCEPT ![s] = Idle]

\* Mutant: a receipt of unknown fate is sent again.
DueUnknown(r) == r.status \in {"pending", "failed", "unknown"} /\ r.stop = "none"

Due(r) == r.status \in {"pending", "failed"} /\ r.stop = "none"

-----------------------------------------------------------------------------
(* _prepare_trade_receipt_result: the result's kind becomes current, and   *)
(* what was current is superseded; a recorded trade does not regress.      *)

Regresses(k) == cur = "recorded" /\ k \notin {"recorded", "verification_pending"}

\* A revisited kind keeps its attempts and may go on unless stopped otherwise.
Current(r) == [r EXCEPT !.status = IF @ = "absent" THEN "pending" ELSE @,
                        !.stop   = IF @ = "superseded" THEN "none" ELSE @]

Prepare(k) ==
    /\ ~Regresses(k)
    /\ cur' = k
    /\ rcpt' = [q \in Kinds |-> IF q = k THEN Current(rcpt[q])
                                ELSE IF q = cur THEN [rcpt[q] EXCEPT !.stop = "superseded"]
                                ELSE rcpt[q]]

\* The sender resolves its route, which may change before the attempt begins;
\* without one it begins nothing (Crash).
Ready(s, k, mine) ==
    sender' = [sender EXCEPT ![s] = [Idle EXCEPT !.pc = "ready", !.key = k, !.mine = mine,
                                                 !.via = route]]

\* A worker claims the row, and later saves the result of its claim.
TakeClaim(s) ==
    /\ At(s, "idle") /\ ~live /\ ~held
    /\ claim' = s /\ live' = TRUE
    /\ UNCHANGED <<rcpt, cur, held, route, child, sender, ghosts>>

Announce(s) ==
    /\ At(s, "idle") /\ claim = s
    /\ \E k \in Kinds : Prepare(k) /\ Ready(s, k, TRUE)
    /\ UNCHANGED <<row, route, child, ghosts>>

\* Mutant: a refused receipt is not listed again.
ListedOnce(r) ==
    /\ r.stop = "none" /\ r.wait = 0
    /\ r.status = "pending" \/ (r.status = "started" /\ r.route = Fanout)

\* list_trade_receipt_recovery_rows: a receipt that is due, or a fan-out whose
\* sender never finished.
Listed(r) ==
    /\ r.stop = "none" /\ r.wait = 0
    /\ r.status \in {"pending", "failed"} \/ (r.status = "started" /\ r.route = Fanout)

\* recover_trade_intake_receipts: list and prepare (one compare-and-set on the
\* whole observation), then send.  The row's result stands ...
RecoverDue(s) ==
    /\ At(s, "idle") /\ ~live /\ ~held
    /\ cur # "none" /\ Listed(rcpt[cur])
    /\ Prepare(cur) /\ Ready(s, cur, FALSE)
    /\ claim' = None
    /\ UNCHANGED <<live, held, route, child, ghosts>>

\* ... or a readback replaces it.
RecoverRead(s) ==
    /\ At(s, "idle") /\ ~live /\ ~held
    /\ \E k \in Kinds : Prepare(k) /\ Ready(s, k, FALSE)
    /\ claim' = None
    /\ UNCHANGED <<live, held, route, child, ghosts>>

-----------------------------------------------------------------------------
(* send_trade_intake_receipt.                                              *)

\* A fan-out that nobody finished may be continued.
Continues(r, via) == via = Fanout /\ r.route = Fanout /\ r.status = "started"

\* begin_trade_receipt_attempt: does the row still let this sender send?
Permitted(s) ==
    /\ IF sender[s].mine THEN claim = s ELSE ~live
    /\ ~held
    /\ sender[s].key = cur
    /\ rcpt[cur].stop = "none"
    /\ Due(rcpt[cur]) \/ Continues(rcpt[cur], sender[s].via)

\* Mutant: a receipt frozen for one target goes to whatever target is current.
MovedNever(r, via) == FALSE

Moved(r, via)     == r.route \notin {None, via}
Exhausted(r, via) == via # Fanout /\ r.count >= Limit

Refused(s) ==
    /\ At(s, "ready")
    /\ \/ ~Permitted(s)
       \/ LET r == rcpt[cur] IN r.wait > 0 /\ ~Moved(r, sender[s].via) /\ ~Exhausted(r, sender[s].via)
    /\ Quit(s)
    /\ UNCHANGED <<rcpt, cur, row, route, child, ghosts>>

\* A changed route and a spent budget stop the receipt for good.
Stopped(s) ==
    /\ At(s, "ready") /\ Permitted(s)
    /\ LET r == rcpt[cur] IN
         /\ Moved(r, sender[s].via) \/ Exhausted(r, sender[s].via)
         /\ rcpt' = [rcpt EXCEPT ![cur].stop = IF Moved(r, sender[s].via) THEN "moved"
                                                                       ELSE "exhausted"]
    /\ Quit(s)
    /\ UNCHANGED <<cur, row, route, child, ghosts>>

\* Otherwise the attempt is on record, as unknown, before the provider hears
\* of it, and the route is frozen with the message.
Begin(s) ==
    /\ At(s, "ready") /\ Permitted(s)
    /\ LET r == rcpt[cur]
           v == sender[s].via IN
         /\ ~Moved(r, v) /\ ~Exhausted(r, v) /\ r.wait = 0
         /\ rcpt' = [rcpt EXCEPT ![cur] =
                       [r EXCEPT !.status = "started", !.by = s, !.route = v,
                                 !.count = IF v = Fanout THEN @ ELSE @ + 1]]
    /\ sender' = [sender EXCEPT ![s].pc = "sending", ![s].mine = FALSE,
                    ![s].todo = IF sender[s].via = Fanout THEN Recipients ELSE {}]
    /\ UNCHANGED <<cur, row, route, child, ghosts>>

-----------------------------------------------------------------------------
(* The provider, and the fan-out by its promise.                           *)

\* A direct send.  The target is trusted as the fan-out trusts its own: what is
\* refused was not delivered, what is confirmed was.
Send(s) ==
    /\ At(s, "sending") /\ sender[s].via # Fanout
    /\ \E out \in Outs, took \in BOOLEAN :
         /\ out = "sent" => took
         /\ out = "failed" => ~took
         /\ sender' = [sender EXCEPT ![s].pc = "answered", ![s].out = out]
         /\ taken' = IF took THEN [taken EXCEPT ![sender[s].key] = @ + 1] ELSE taken
         /\ tried' = [tried EXCEPT ![sender[s].key] = @ \cup {sender[s].via}]
    /\ UNCHANGED <<rcpt, cur, row, route, child>>

\* The fan-out visits its children: one that is not due, or whose route or
\* retry delay forbids it now, is passed over.
Pass(s, r) ==
    /\ At(s, "sending") /\ r \in sender[s].todo
    /\ sender' = [sender EXCEPT ![s].todo = @ \ {r}]
    /\ UNCHANGED <<rcpt, cur, row, route, child, ghosts>>

\* Mutant: a recipient somebody else is asking is asked again.
TryOut(s, r) ==
    /\ At(s, "sending") /\ r \in sender[s].todo
    /\ child[sender[s].key][r] \in {"due", "out"}
    /\ child' = [child EXCEPT ![sender[s].key][r] = "out"]
    /\ sender' = [sender EXCEPT ![s].pc = "trying", ![s].todo = @ \ {r}, ![s].to = r]
    /\ tried' = [tried EXCEPT ![sender[s].key] = @ \cup {Fanout}]
    /\ UNCHANGED <<rcpt, cur, row, route, taken>>

Try(s, r) ==
    /\ At(s, "sending") /\ r \in sender[s].todo
    /\ child[sender[s].key][r] = "due"
    /\ child' = [child EXCEPT ![sender[s].key][r] = "out"]
    /\ sender' = [sender EXCEPT ![s].pc = "trying", ![s].todo = @ \ {r}, ![s].to = r]
    /\ tried' = [tried EXCEPT ![sender[s].key] = @ \cup {Fanout}]
    /\ UNCHANGED <<rcpt, cur, row, route, taken>>

Reply(s) ==
    /\ At(s, "trying")
    /\ \E p \in ChildPhases : child' = [child EXCEPT ![sender[s].key][sender[s].to] = p]
    /\ sender' = [sender EXCEPT ![s].pc = "sending", ![s].to = None]
    /\ UNCHANGED <<rcpt, cur, row, route, ghosts>>

\* Mutant: one recipient's confirmation counts for all.
SummaryAny(c) == IF \E r \in Recipients : c[r] = "done" THEN "sent" ELSE "unknown"

\* _snapshot of the fan-out, as finish_trade_receipt_attempt reads it.
Summary(c) ==
    CASE \A r \in Recipients : c[r] = "done" -> "sent"
      [] (\E r \in Recipients : c[r] = "due") \/ (\A r \in Recipients : c[r] = "spent") -> "failed"
      [] OTHER -> "unknown"

Snapshot(s) ==
    /\ At(s, "sending") /\ sender[s].via = Fanout /\ sender[s].todo = {}
    /\ sender' = [sender EXCEPT ![s].pc = "answered", ![s].out = Summary(child[sender[s].key])]
    /\ UNCHANGED <<rcpt, cur, row, route, child, ghosts>>

\* finish_trade_receipt_attempt: by attempt id, without looking at the claim or
\* the current kind; an earlier attempt's result only joins the history, and a
\* second result of one attempt is ignored.
Finish(s) ==
    /\ At(s, "answered")
    /\ LET k == sender[s].key
           r == rcpt[k]
           failed == sender[s].out = "failed" IN
         rcpt' = IF r.by = s
                   THEN [rcpt EXCEPT ![k] =
                          [r EXCEPT !.status = sender[s].out, !.by = None,
                                    !.wait = IF failed THEN 1 ELSE @,
                                    !.stop = IF failed /\ Exhausted(r, r.route)
                                               THEN "exhausted" ELSE @]]
                   ELSE rcpt
    /\ Quit(s)
    /\ UNCHANGED <<cur, row, route, child, ghosts>>

\* The process dies, or the callback is not called or raises.
Crash(s) ==
    /\ ~At(s, "idle")
    /\ Quit(s)
    /\ UNCHANGED <<rcpt, cur, row, route, child, ghosts>>

-----------------------------------------------------------------------------
(* The rest of the row, the configuration and the clock.                   *)

\* The claim ends: settled, fenced by a new version, resumed, reconciled.
Release ==
    /\ claim # None
    /\ claim' = None /\ live' = FALSE
    /\ UNCHANGED <<rcpt, cur, held, route, child, sender, ghosts>>

Expire ==
    /\ live
    /\ live' = FALSE
    /\ UNCHANGED <<rcpt, cur, claim, held, route, child, sender, ghosts>>

\* A conflict is registered, which fences the claim, or resolved.
Hold ==
    /\ held' = ~held
    /\ claim' = None /\ live' = FALSE
    /\ UNCHANGED <<rcpt, cur, route, child, sender, ghosts>>

Reconfigure ==
    /\ route' \in (Targets \cup {Fanout}) \ {route}
    /\ UNCHANGED <<rcpt, cur, row, child, sender, ghosts>>

Tick ==
    /\ \E k \in Kinds : rcpt[k].wait > 0
    /\ rcpt' = [k \in Kinds |-> [rcpt[k] EXCEPT !.wait = 0]]
    /\ UNCHANGED <<cur, row, route, child, sender, ghosts>>

-----------------------------------------------------------------------------
Init ==
    /\ rcpt = [k \in Kinds |-> Absent]
    /\ cur = "none"
    /\ claim = None /\ live = FALSE /\ held = FALSE
    /\ route \in Targets \cup {Fanout}
    /\ child = [k \in Kinds |-> [r \in Recipients |-> "due"]]
    /\ sender = [s \in Senders |-> Idle]
    /\ taken = [k \in Kinds |-> 0]
    /\ tried = [k \in Kinds |-> {}]

\* What a live sender does once it has something to send.
Deliver(s) ==
    \/ Refused(s) \/ Stopped(s) \/ Begin(s)
    \/ Send(s) \/ Reply(s) \/ Snapshot(s) \/ Finish(s)
    \/ \E r \in Recipients : Pass(s, r) \/ Try(s, r)

Next ==
    \/ \E s \in Senders : \/ TakeClaim(s) \/ Announce(s) \/ RecoverDue(s) \/ RecoverRead(s)
                          \/ Deliver(s) \/ Crash(s)
    \/ Release \/ Expire \/ Hold \/ Reconfigure \/ Tick

Spec == Init /\ [][Next]_vars

\* The clock runs, the receipt threads keep polling and a sender goes on, and
\* from some time on the surroundings rest: the row has its result, no claim
\* is live (attempts are limited) and the configured direct route stays.
Fairness ==
    /\ WF_vars(Tick)
    /\ \A s \in Senders : SF_vars(RecoverDue(s)) /\ SF_vars(Deliver(s))
    /\ <>[][UNCHANGED <<cur, held, route>>]_vars
    /\ <>[](~live /\ route \in Targets)

FairSpec == Spec /\ Fairness

-----------------------------------------------------------------------------
(* Properties.                                                             *)

TypeOK ==
    /\ rcpt \in [Kinds -> Receipts]
    /\ cur \in Kinds \cup {"none"}
    /\ claim \in Senders \cup {None} /\ live \in BOOLEAN /\ held \in BOOLEAN
    /\ route \in Targets \cup {Fanout}
    /\ child \in [Kinds -> [Recipients -> ChildPhases]]
    /\ sender \in [Senders -> Sendings]
    /\ taken \in [Kinds -> Nat]
    /\ tried \in [Kinds -> SUBSET (Targets \cup {Fanout})]

Direct(s) == sender[s].pc \in {"sending", "answered"} /\ sender[s].via # Fanout

\* A direct attempt in flight is the receipt's latest, whatever became of the
\* claim, the current kind and the route meanwhile: its result is never lost
\* and no second sender is at work on the same receipt.
AttemptsAreKept ==
    \A s \in Senders : Direct(s) =>
        LET r == rcpt[sender[s].key] IN
        r.status = "started" /\ r.by = s /\ r.route = sender[s].via

\* What a receipt says is what happened: "sent" has arrived (at every
\* recipient of a fan-out), what may be sent again has not.
ReceiptsAreTrue ==
    /\ \A k \in Kinds :
         /\ rcpt[k].status \in {"absent", "pending", "failed"} => taken[k] = 0
         /\ rcpt[k].status = "sent" =>
              IF rcpt[k].route = Fanout THEN \A r \in Recipients : child[k][r] = "done"
                                        ELSE taken[k] = 1
    /\ \A s \in Senders : At(s, "answered") =>
         LET k == sender[s].key IN
         /\ sender[s].out = "sent" =>
              IF sender[s].via = Fanout THEN \A r \in Recipients : child[k][r] = "done"
                                        ELSE taken[k] = 1
         /\ sender[s].out = "failed" /\ Direct(s) => taken[k] = 0

\* A frozen message is only ever handed to the route its receipt froze first,
\* whatever is configured when a later sender retries it: a receipt whose
\* route changes stops for review (FUTU_TRADE_HOLDINGS_SYNC:629).
OneTarget == \A k \in Kinds : tried[k] \subseteq {rcpt[k].route}

(* The rest of the inductive invariant behind TradeReceiptProofs.           *)

\* A sender past its lookup has a receipt and a route in hand, and the attempt
\* it began froze that route; only a fan-out asks recipients.
InHand ==
    \A s \in Senders :
        /\ ~At(s, "idle") => sender[s].key \in Kinds /\ sender[s].via # None
        /\ sender[s].pc \in {"sending", "trying", "answered"}
             => rcpt[sender[s].key].route = sender[s].via
        /\ At(s, "trying") \/ sender[s].todo # {} => sender[s].via = Fanout
        /\ At(s, "sending") /\ sender[s].via # Fanout => taken[sender[s].key] = 0

\* A recipient that is being asked is out, and nobody else asks it.
OneAsksEach ==
    /\ \A s \in Senders : At(s, "trying") =>
         sender[s].to \in Recipients /\ child[sender[s].key][sender[s].to] = "out"
    /\ \A s, e \in Senders : At(s, "trying") /\ At(e, "trying") /\ s # e =>
         sender[s].key # sender[e].key \/ sender[s].to # sender[e].to

\* Nothing of a fan-out's receipt is sent directly.
FanoutsUntaken == \A k \in Kinds : rcpt[k].route = Fanout => taken[k] = 0

ReceiptInv ==
    /\ TypeOK /\ AttemptsAreKept /\ ReceiptsAreTrue /\ OneTarget
    /\ InHand /\ OneAsksEach /\ FanoutsUntaken

\* Each receipt that goes to a target directly is sent as OneShotDelivery
\* promises: again only after a refusal, and taken at most once, through
\* takeovers, superseded and revisited kinds and crashes.
Phase == [k \in Kinds |->
            IF rcpt[k].route = Fanout \/ rcpt[k].status \in {"absent", "pending", "failed"}
              THEN "due" ELSE IF rcpt[k].status = "sent" THEN "done" ELSE "out"]
OneShot == INSTANCE OneShotDelivery WITH Messages <- Kinds, phase <- Phase, taken <- taken

SendsOnce == OneShot!Spec

\* A due receipt of the current kind does not stay due for ever: it is sent,
\* its fate becomes unknown, or it stops with a reason.
DueReceiptEnds ==
    \A k \in Kinds : (cur = k /\ ~held /\ Due(rcpt[k])) ~> ~(cur = k /\ ~held /\ Due(rcpt[k]))

=============================================================================
