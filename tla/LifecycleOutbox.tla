--------------------------- MODULE LifecycleOutbox ---------------------------
(***************************************************************************)
(* The outbox of lifecycle notifications of options-monitor: intents are   *)
(* written by the ledger's transactions, bound into delivery batches, and  *)
(* sent by dispatchers (src/application/ledger/notification_outbox.py,     *)
(* repository_lifecycle_notifications.py, trades/lifecycle_outbox.py,      *)
(* trades/lifecycle_batch_dispatcher.py).                                  *)
(*                                                                         *)
(* A dispatcher's poll is a row of SQLite transactions, each one step, with*)
(* one clock value read at its start; the provider is called outside them. *)
(* The listener's thread and an operator's `lifecycle receipts dispatch`   *)
(* are two dispatchers of one route.                                       *)
(***************************************************************************)
EXTENDS Integers, FiniteSets, Functions

CONSTANTS
    Intents,        \* transitions of lifecycle cases (transition_key)
    Accounts,
    AccountOf,      \* AccountOf[i]: the account of intent i
    Combos,         \* the intents that may be combo_pair_confirmed
    Providers,      \* "direct" (one target) and "fanout" (proactive routes)
    Recipients,     \* the recipients of a fan-out
    Dispatchers,
    MaxAttempts,    \* MAX_ATTEMPTS (3), for batches and for fan-out children
    Lease,          \* CLAIM_LEASE_MS (5 min) in ticks
    Interval,       \* TARGET_SEND_INTERVAL_MS (60 s)
    FirstBackoff,   \* BATCH_RETRY_BACKOFF_MS (60 s, then 5 min)
    LaterBackoff,
    MaxRevision,    \* bound: compensating intents per transition
    MaxTime         \* bound: the clock stops here

ASSUME OutboxAssumption ==
    /\ AccountOf \in [Intents -> Accounts]
    /\ Combos \subseteq Intents /\ Providers \subseteq {"direct", "fanout"}
    /\ MaxAttempts \in Nat \ {0} /\ MaxRevision \in Nat /\ MaxTime \in Nat \ {0}
    /\ Interval \in Nat \ {0} /\ Lease \in Nat /\ FirstBackoff \in Nat /\ LaterBackoff \in Nat
    /\ Interval <= Lease /\ Interval <= FirstBackoff /\ Interval <= LaterBackoff

VARIABLES
    provider,   \* the provider of the route
    combos,     \* the intents that are combo_pair_confirmed
    current,    \* the combos that validate_combo_pair still accepts
    now,        \* the clock
    row,        \* row[r]: status of outbox row r, "none" before it is written
    batch,      \* batch[m]: the delivery batch whose members are the rows m
    child,      \* child[m][c]: the fan-out child of batch m for recipient c
    disp,       \* disp[d]: local state of dispatcher d
    taken,      \* taken[m]: how often the provider accepted direct batch m (ghost)
    lastStart   \* latest send_started_at ever written (ghost)

vars == <<provider, combos, current, now, row, batch, child, disp, taken, lastStart>>
route == <<provider, combos>>

-----------------------------------------------------------------------------
\* (transition_key, delivery_revision) identifies a row, its members a batch:
\* batch_id is a hash of them.
Rows    == Intents \X (0..MaxRevision)
Batches == SUBSET Rows

RowStatuses == {"none", "pending", "batched", "confirmed", "accepted",
                "explicit_failed", "unknown", "partial", "suppressed"}
BatchStatuses == {"pending", "claimed", "send_started", "confirmed", "accepted",
                  "explicit_failed", "unknown", "partial", "suppressed"}
Outcomes == {"confirmed", "accepted", "explicit_failed", "unknown", "partial", "pending"}

\* claim numbers the claims of a batch: a fresh claim_id.  A time of 0 is NULL.
\* retry: the stored receipt says has_retryable_children; frozen: it holds the
\* fanout_id of an earlier start.
BatchRecords == [status : BatchStatuses, claim : Nat, claimed : Nat, started : Nat,
                 next : Nat, attempts : Nat, retry : BOOLEAN, frozen : BOOLEAN]
NewBatch(t) == [status |-> "pending", claim |-> 0, claimed |-> 0, started |-> 0,
                next |-> t, attempts |-> 0, retry |-> FALSE, frozen |-> FALSE]

ChildStatuses == {"pending", "send_started", "confirmed", "explicit_failed",
                  "accepted", "unknown"}
Children == [status : ChildStatuses, count : Nat, until : Nat, next : Nat]
NewChild == [status |-> "pending", count |-> 0, until |-> 0, next |-> 0]
Retryable(c) == c.status \in {"pending", "explicit_failed"} /\ c.count < MaxAttempts

PCs == {"idle", "plan", "claim", "mark", "send", "child", "reply"}
Idle == [pc |-> "idle", at |-> 0, accounts |-> {}, m |-> {}, claim |-> 0, todo |-> {},
         cur |-> {}, out |-> "unknown", retry |-> FALSE, next |-> 0]
Disps == [pc : PCs, at : Nat, accounts : SUBSET Accounts, m : Batches, claim : Nat,
          todo : SUBSET Recipients, cur : SUBSET Recipients, out : Outcomes, retry : BOOLEAN, next : Nat]

At(d, pc) == disp[d].pc = pc
Stop(d)   == disp' = [disp EXCEPT ![d] = Idle]
Go(d, pc) == disp' = [disp EXCEPT ![d].pc = pc]
Known     == DOMAIN batch
Delay(n)  == IF n <= 1 THEN FirstBackoff ELSE LaterBackoff

AccountsOf(m) == {AccountOf[r[1]] : r \in m}
Bound(r)      == \E m \in Known : r \in m

\* A batch of members all still waiting for its outcome: what the writes of an
\* outcome to the members count on ("member mismatch" otherwise).
Awaited(m) == \A r \in m : row[r] = "batched"
Settle(ms, s) == [r \in Rows |-> IF row[r] = "batched" /\ \E m \in ms : r \in m
                                   THEN s ELSE row[r]]

\* Mutant: only a send that is still in flight keeps the next one waiting.
RateLimitedInFlight(t) ==
    \E m \in Known : batch[m].status = "send_started" /\ t - batch[m].started < Interval

\* The latest send start of the route is less than the interval before t.
RateLimited(t) == \E m \in Known : batch[m].started > 0 /\ t - batch[m].started < Interval

-----------------------------------------------------------------------------
(* The ledger and the operator.                                            *)

\* insert_trade_lifecycle_notification_once, in the ledger's transaction.
Enqueue(i) ==
    /\ row[<<i, 0>>] = "none"
    /\ row' = [row EXCEPT ![<<i, 0>>] = "pending"]
    /\ UNCHANGED <<route, current, now, batch, child, disp, taken, lastStart>>

\* A combo is dissolved or confirmed anew: its old confirmation is void.
ComboChanges ==
    /\ \E i \in current : current' = current \ {i}
    /\ UNCHANGED <<route, now, row, batch, child, disp, taken, lastStart>>

\* reconcile_notification_batch: the operator settles an accepted or unknown
\* batch by hand, with the provider's evidence for the message.
Reconcile(m, s) ==
    /\ batch[m].status \in {"accepted", "unknown"}
    /\ s = "unknown" => batch[m].status = "accepted"
    /\ s = "confirmed" /\ provider = "direct" => taken[m] = 1
    /\ \A r \in m : row[r] = batch[m].status
    /\ batch' = [batch EXCEPT ![m].status = s]
    /\ row' = [r \in Rows |-> IF r \in m THEN s ELSE row[r]]
    /\ UNCHANGED <<route, current, now, child, disp, taken, lastStart>>

\* Its other choice for an unknown batch, which is not reopened: an intent of
\* the next delivery_revision for each of its transitions.
Compensating(m) ==
    {r \in Rows : /\ \E q \in m : q[1] = r[1]
                  /\ row[r] = "none" /\ r[2] > 0 /\ row[<<r[1], r[2] - 1>>] # "none"}
Resend(m) ==
    /\ batch[m].status = "unknown"
    /\ \A q, r \in m : q[1] = r[1] => q = r
    /\ \A q \in m : \E r \in Compensating(m) : r[1] = q[1]
    /\ row' = [r \in Rows |-> IF r \in Compensating(m) THEN "pending" ELSE row[r]]
    /\ UNCHANGED <<route, current, now, batch, child, disp, taken, lastStart>>

-----------------------------------------------------------------------------
(* One poll: dispatch_notification_batch_once.                             *)

Stale(at, t) == at > 0 /\ at + Lease <= t
Lost(m, t) == batch[m].status = "send_started" /\ Stale(batch[m].started, t)

\* Mutant: a direct send whose dispatcher is lost is free to be sent again.
RecoveredResend(m, t) ==
    CASE Lost(m, t) -> [batch[m] EXCEPT !.status = "pending", !.next = t]
      [] OTHER -> batch[m]

Recovered(m, t) ==
    CASE batch[m].status = "claimed" /\ batch[m].started = 0 /\ Stale(batch[m].claimed, t) ->
           [batch[m] EXCEPT !.status = "pending", !.claimed = 0, !.next = t]
      [] Lost(m, t) /\ provider = "fanout" ->
           [batch[m] EXCEPT !.status = "pending", !.next = t]
      [] Lost(m, t) /\ provider # "fanout" ->
           [batch[m] EXCEPT !.status = "unknown", !.next = 0]
      [] OTHER -> batch[m]

\* A poll begins: the clock and the authorised accounts (a fan-out checks its
\* routes when it sends) are read once for all of its steps, and any time may
\* pass before the first one, recover_stale_notification_batches: a lost direct
\* send is unknown, for the batch and its members; the children of a fan-out
\* know better and are asked again.
Poll(d) ==
    /\ At(d, "idle")
    /\ \E t \in 1..now, a \in (SUBSET Accounts) \ {{}} :
         /\ provider = "fanout" => a = Accounts
         /\ LET lost == {m \in Known : provider = "direct" /\ Lost(m, t)} IN
              /\ \A m \in lost : Awaited(m)
              /\ batch' = [m \in Known |-> Recovered(m, t)]
              /\ row' = Settle(lost, "unknown")
         /\ disp' = [disp EXCEPT ![d] = [Idle EXCEPT !.pc = "plan", !.at = t, !.accounts = a]]
    /\ UNCHANGED <<route, current, now, child, taken, lastStart>>

Active(b) ==
    \/ b.status \in {"pending", "claimed", "send_started"}
    \/ b.status = "partial" /\ b.retry
    \/ b.status = "explicit_failed" /\ b.attempts < MaxAttempts

\* _batch_combo_scope_matches; the route itself never changes here.
InScope(m, accounts) ==
    \A r \in m : r[1] \in combos => AccountOf[r[1]] \in accounts

Eligible(accounts) ==
    {r \in Rows : row[r] = "pending" /\ ~Bound(r) /\ AccountOf[r[1]] \in accounts}

\* The rows batched with the oldest one, r: a combo confirmation goes alone,
\* a fan-out batch holds one account.
Group(r, rs) ==
    IF r[1] \in combos THEN {r}
    ELSE {q \in rs : q[1] \notin combos /\
                     (provider = "fanout" => AccountOf[q[1]] = AccountOf[r[1]])}

\* plan_notification_batch.  The creation times are left out: any eligible row
\* may be the oldest, and the aggregation window may still be open.
Plan(d) ==
    /\ At(d, "plan")
    /\ LET t == disp[d].at
           rs == Eligible(disp[d].accounts)
           void == {r \in rs : r[1] \in combos \ current} IN
         IF provider # "fanout" /\ \E m \in Known : Active(batch[m])
                                                    /\ InScope(m, disp[d].accounts)
           THEN UNCHANGED <<row, batch, child>>
           ELSE \/ /\ row' = [r \in Rows |-> IF r \in void THEN "suppressed" ELSE row[r]]
                   /\ UNCHANGED <<batch, child>>
                \/ \E r \in rs \ void :
                     LET m == Group(r, rs \ void) IN
                       /\ ~RateLimited(t)
                       /\ row' = [q \in Rows |-> IF q \in void THEN "suppressed"
                                                 ELSE IF q \in m THEN "batched" ELSE row[q]]
                       /\ batch' = [n \in Known \cup {m} |-> IF n = m THEN NewBatch(t) ELSE batch[n]]
                       /\ child' = [n \in Known \cup {m} |-> IF n = m
                                      THEN [c \in Recipients |-> NewChild] ELSE child[n]]
    /\ Go(d, "claim")
    /\ UNCHANGED <<route, current, now, taken, lastStart>>

Claimable(m, t, accounts) ==
    /\ batch[m].status \in {"pending", "explicit_failed", "partial"}
    /\ AccountsOf(m) \subseteq accounts
    /\ provider = "fanout" \/ batch[m].attempts < MaxAttempts
    /\ batch[m].status = "partial" => batch[m].retry
    /\ batch[m].next <= t

\* claim_next_notification_batch.
Claim(d) ==
    /\ At(d, "claim")
    /\ LET t == disp[d].at
           due == {m \in Known : Claimable(m, t, disp[d].accounts) /\ ~RateLimited(t)} IN
         \/ \E m \in due :
              /\ batch' = [batch EXCEPT ![m] = [@ EXCEPT !.status = "claimed", !.next = 0,
                             !.claim = batch[m].claim + 1, !.claimed = t, !.started = 0]]
              /\ disp' = [disp EXCEPT ![d].pc = "mark", ![d].m = m, ![d].accounts = {},
                                      ![d].claim = batch[m].claim + 1]
         \/ due = {} /\ Stop(d) /\ UNCHANGED batch
    /\ UNCHANGED <<route, current, now, row, child, taken, lastStart>>

Holds(d, s) == batch[disp[d].m].status = s /\ batch[disp[d].m].claim = disp[d].claim

\* mark_notification_batch_send_started: the last look at the claim and at a
\* combo before the message leaves.
MarkStarted(d) ==
    /\ At(d, "mark")
    /\ LET m == disp[d].m
           b == batch[m]
           void == ~b.frozen /\ \E r \in m : r[1] \in combos \ current IN
         \/ /\ Holds(d, "claimed") /\ void
            /\ batch' = [batch EXCEPT ![m].status = "suppressed"]
            /\ row' = Settle({m}, "suppressed")
            /\ Stop(d) /\ UNCHANGED lastStart
         \/ /\ Holds(d, "claimed") /\ ~void
            /\ provider = "direct" => b.attempts < MaxAttempts
            /\ batch' = [batch EXCEPT ![m] = [@ EXCEPT !.status = "send_started",
                           !.started = disp[d].at, !.attempts = b.attempts + 1,
                           !.frozen = (provider = "fanout")]]
            /\ disp' = [disp EXCEPT ![d].pc = "send",
                          ![d].todo = IF provider = "fanout" THEN Recipients ELSE {}]
            /\ lastStart' = IF disp[d].at > lastStart THEN disp[d].at ELSE lastStart
            /\ UNCHANGED row
         \/ ~Holds(d, "claimed") /\ Stop(d) /\ UNCHANGED <<row, batch, lastStart>>
    /\ UNCHANGED <<route, current, now, child, taken>>

-----------------------------------------------------------------------------
(* send_fn.                                                                *)

\* The provider (external) is trusted: it delivers what it confirms and not
\* what it refuses.  An exception, a closed authorisation and any other reply
\* are "unknown".
SendDirect(d) ==
    /\ At(d, "send") /\ provider = "direct"
    /\ \E out \in {"confirmed", "accepted", "explicit_failed", "unknown"}, took \in BOOLEAN :
         /\ out = "confirmed" => took
         /\ out = "explicit_failed" => ~took
         /\ taken' = IF took THEN [taken EXCEPT ![disp[d].m] = @ + 1] ELSE taken
         /\ disp' = [disp EXCEPT ![d].pc = "reply", ![d].out = out]
    /\ UNCHANGED <<route, current, now, row, batch, child, lastStart>>

\* One locked visit of dispatch_notification_fanout to a child (see
\* NotificationFanout): a send whose lease ran out is unknown, a due child is
\* claimed if its route is still current.
Expired(c) == IF c.status = "send_started" /\ c.until <= now
                THEN [c EXCEPT !.status = "unknown", !.next = 0] ELSE c
Visit(d, c) ==
    /\ At(d, "send") /\ provider = "fanout" /\ c \in disp[d].todo
    /\ LET m == disp[d].m
           x == Expired(child[m][c]) IN
         \/ /\ Retryable(x) /\ x.next <= now
            /\ child' = [child EXCEPT ![m][c] = [status |-> "send_started",
                           count |-> x.count + 1, until |-> now + Lease, next |-> 0]]
            /\ disp' = [disp EXCEPT ![d].pc = "child", ![d].cur = {c}]
         \/ /\ child' = [child EXCEPT ![m][c] = x]
            /\ disp' = [disp EXCEPT ![d].todo = @ \ {c}]
    /\ UNCHANGED <<route, current, now, row, batch, taken, lastStart>>

\* The reply belongs to the child's latest attempt: NotificationFanout shows
\* that its attempt_id check never fails (RepliesAreKept).
Answer(d) ==
    /\ At(d, "child")
    /\ \E c \in disp[d].cur, out \in {"confirmed", "accepted", "explicit_failed", "unknown"} :
         LET m == disp[d].m
             x == [child[m][c] EXCEPT !.status = out, !.until = 0] IN
           /\ child' = [child EXCEPT ![m][c] =
                          [x EXCEPT !.next = IF Retryable(x) THEN now + Delay(x.count) ELSE 0]]
           /\ disp' = [disp EXCEPT ![d].pc = "send", ![d].todo = @ \ {c}, ![d].cur = {}]
    /\ UNCHANGED <<route, current, now, row, batch, taken, lastStart>>

\* _snapshot, in the words of dispatch_notification_batch_once: an
\* "in_progress" fan-out leaves its batch pending.
Verdict(ss) ==
    CASE ss = {"confirmed"}                -> "confirmed"
      [] ss = {"explicit_failed"}          -> "explicit_failed"
      [] ss \subseteq {"unknown", "accepted"}      -> "unknown"
      [] ss \subseteq {"pending", "send_started"}  -> "pending"
      [] OTHER                             -> "partial"

\* The fan-out's result, with the time of its first retry (no sooner than a
\* minute after the poll); or an exception, which leaves the batch pending.
Later(s, t) == IF s > t THEN s ELSE t
FanoutReturns(d) ==
    /\ At(d, "send") /\ provider = "fanout"
    /\ LET cs == Range(child[disp[d].m])
           again == {c \in cs : Retryable(c)}
           verdict == Verdict({c.status : c \in cs}) IN
         \/ /\ disp[d].todo = {} /\ again = {}
            /\ disp' = [disp EXCEPT ![d].pc = "reply", ![d].out = verdict]
         \/ /\ disp[d].todo = {}
            /\ \E c \in again :
                 /\ \A e \in again : c.next <= e.next
                 /\ disp' = [disp EXCEPT ![d].pc = "reply", ![d].out = verdict, ![d].retry = TRUE,
                               ![d].next = Later(c.next, disp[d].at + Interval)]
         \/ disp' = [disp EXCEPT ![d].pc = "reply", ![d].retry = TRUE, ![d].out = "pending",
                                 ![d].todo = {}]
    /\ UNCHANGED <<route, current, now, row, batch, child, taken, lastStart>>

-----------------------------------------------------------------------------
\* When a retry is due: at the time the fan-out named, or after the backoff.
RetryAt(d) == IF disp[d].next > 0 THEN disp[d].next
              ELSE disp[d].at + Delay(batch[disp[d].m].attempts)

\* Mutant: the outcome is written to the batch and not to its members.
CompleteBatchOnly(d) ==
    /\ At(d, "reply")
    /\ Holds(d, "send_started")
    /\ batch' = [batch EXCEPT ![disp[d].m].status = disp[d].out]
    /\ Stop(d)
    /\ UNCHANGED <<route, current, now, row, child, taken, lastStart>>

\* complete_notification_batch_attempt: the outcome, for the batch and, unless
\* it will be retried, for its members too.
Complete(d) ==
    /\ At(d, "reply")
    /\ LET m == disp[d].m
           out == disp[d].out
           again == disp[d].retry \/ (out = "explicit_failed" /\ batch[m].attempts < MaxAttempts) IN
         IF Holds(d, "send_started") /\ (again \/ Awaited(m))
           THEN /\ batch' = [batch EXCEPT ![m] = [@ EXCEPT !.status = out, !.retry = disp[d].retry,
                               !.next = IF again THEN RetryAt(d) ELSE 0]]
                /\ row' = IF again THEN row ELSE Settle({m}, out)
           ELSE UNCHANGED <<batch, row>>
    /\ Stop(d)
    /\ UNCHANGED <<route, current, now, child, taken, lastStart>>

\* The process dies, or its poll is cut short by a database error.
Crash(d) ==
    /\ ~At(d, "idle")
    /\ Stop(d)
    /\ UNCHANGED <<route, current, now, row, batch, child, taken, lastStart>>

Tick ==
    /\ now < MaxTime
    /\ now' = now + 1
    /\ UNCHANGED <<route, current, row, batch, child, disp, taken, lastStart>>

-----------------------------------------------------------------------------
Init ==
    /\ provider \in Providers
    /\ combos \in SUBSET Combos
    /\ current = combos
    /\ now = 1
    /\ row = [r \in Rows |-> "none"]
    /\ batch = [m \in {} |-> NewBatch(0)]
    /\ child = [m \in {} |-> [c \in Recipients |-> NewChild]]
    /\ disp = [d \in Dispatchers |-> Idle]
    /\ taken = [m \in Batches |-> 0]
    /\ lastStart = 0

Dispatcher(d) ==
    \/ Poll(d) \/ Plan(d) \/ Claim(d) \/ MarkStarted(d)
    \/ SendDirect(d) \/ (\E c \in Recipients : Visit(d, c)) \/ Answer(d)
    \/ FanoutReturns(d) \/ Complete(d) \/ Crash(d)

Next ==
    \/ \E i \in Intents : Enqueue(i)
    \/ ComboChanges
    \/ \E m \in Known : Resend(m) \/ \E s \in {"confirmed", "unknown"} : Reconcile(m, s)
    \/ \E d \in Dispatchers : Dispatcher(d)
    \/ Tick

Spec == Init /\ [][Next]_vars

-----------------------------------------------------------------------------
(* Properties.                                                             *)

TypeOK ==
    /\ provider \in Providers /\ combos \subseteq Combos /\ current \subseteq combos
    /\ now \in Nat /\ lastStart \in Nat
    /\ row \in [Rows -> RowStatuses]
    /\ Known \subseteq Batches
    /\ batch \in [Known -> BatchRecords]
    /\ child \in [Known -> [Recipients -> Children]]
    /\ disp \in [Dispatchers -> Disps]
    /\ taken \in [Batches -> Nat]

Busy(d) == disp[d].pc \in {"mark", "send", "child", "reply"}

\* A row is in one batch at most, and a dispatcher works on a batch of its own
\* claim, which no later claim repeats.
Claims ==
    /\ \A m, n \in Known : m \cap n # {} => m = n
    /\ \A d \in Dispatchers : Busy(d) =>
         /\ disp[d].m \in Known
         /\ disp[d].claim \in 1..batch[disp[d].m].claim
    /\ \A d, e \in Dispatchers :
         d # e /\ Busy(d) /\ Busy(e) /\ disp[d].m = disp[e].m => disp[d].claim # disp[e].claim

\* While a batch may still be sent, and while it is being sent, all its members
\* wait for its outcome: the "member mismatch" errors of recovery and
\* completion cannot happen.
MembersAwait == \A m \in Known : Active(batch[m]) => Awaited(m)

\* Afterwards the batch and all its members tell the same outcome.
MembersAgree ==
    \A m \in Known : ~Active(batch[m]) => \A r \in m : row[r] = batch[m].status

\* On a direct route what is recorded agrees with what the provider did, and a
\* message in flight is known to be in flight or unknown.
Truth ==
    /\ \A m \in Batches : taken[m] \in {0, 1}
    /\ \A m \in Batches : taken[m] = 1 =>
         m \in Known /\ batch[m].status \in {"send_started", "confirmed", "accepted", "unknown"}
    /\ \A m \in Known : batch[m].status = "confirmed" => taken[m] = 1
    /\ \A d \in Dispatchers : disp[d].pc \in {"send", "reply"} =>
         LET m == disp[d].m IN
           /\ batch[m].claim = disp[d].claim
           /\ At(d, "send") => taken[m] = 0 /\ batch[m].status \in {"send_started", "unknown"}
           /\ At(d, "reply") => batch[m].status \in {"send_started", "unknown", "confirmed"}
           /\ disp[d].out = "confirmed" => taken[m] = 1
           /\ disp[d].out = "explicit_failed" => taken[m] = 0

\* Only a dispatcher with a reply has an outcome and a retry in hand, and a
\* direct reply is one of the provider's.
Hands == \A d \in Dispatchers :
    /\ ~At(d, "reply") => disp[d].out = "unknown" /\ ~disp[d].retry /\ disp[d].next = 0
    /\ provider = "direct" => /\ ~At(d, "child") /\ ~disp[d].retry /\ disp[d].next = 0
                              /\ disp[d].out \notin {"partial", "pending"}

\* On a direct route without combo confirmations one batch at most is active.
\* The last start is remembered by its batch, or by an active batch that may
\* not start again within the interval: it waits for its retry, and a claim,
\* which forgets the start of the batch, is as late as the retry was due.
Due(t) == lastStart = 0 \/ t >= lastStart + Interval
Paced ==
    /\ \A m, n \in Known : Active(batch[m]) /\ Active(batch[n]) => m = n
    /\ lastStart > 0 => \E m \in Known : batch[m].started = lastStart \/ Active(batch[m])
    /\ \A m \in Known :
         /\ batch[m].status # "partial"
         /\ batch[m].status = "claimed" => Due(batch[m].claimed)
         /\ batch[m].status = "send_started" => batch[m].started = lastStart
         /\ batch[m].status \in {"pending", "explicit_failed"} /\ Active(batch[m]) => Due(batch[m].next)
    /\ \A d \in Dispatchers :
         /\ At(d, "mark") /\ Holds(d, "claimed") => batch[disp[d].m].claimed = disp[d].at
         /\ Busy(d) /\ Holds(d, "send_started") => batch[disp[d].m].started = disp[d].at

\* The inductive invariant of the proofs.
OutboxInv ==
    /\ TypeOK /\ Claims /\ Hands
    /\ provider = "direct" => MembersAwait /\ MembersAgree /\ Truth
    /\ provider = "direct" /\ combos = {} => Paced

\* On a direct route without combo confirmations, a send starts only when the
\* interval has passed since the last one the route started, whichever
\* dispatcher, batch, retry or recovery it comes from.
Starts(m) == batch'[m].status = "send_started" /\ batch[m].status # "send_started"
StartsAreSpaced ==
    [][provider = "direct" /\ combos = {} =>
         \A m \in Known : Starts(m) /\ lastStart > 0 => batch'[m].started - lastStart >= Interval]_vars

\* A direct batch keeps the promise of OneShotDelivery: it is attempted again
\* only after a refusal and the provider takes it at most once, through lost
\* dispatchers, expired claims, late replies and the operator's reconciling.
Phase(m) ==
    IF provider = "fanout" \/ m \notin Known THEN "due"
    ELSE CASE batch[m].status \in {"send_started", "accepted", "unknown"} -> "out"
           [] batch[m].status = "confirmed"                               -> "done"
           [] OTHER                                                       -> "due"
OneShot(m) == INSTANCE OneShotDelivery
                WITH Messages <- {m}, phase <- [n \in {m} |-> Phase(n)],
                     taken <- [n \in {m} |-> taken[n]]

BatchDeliversOnce ==
    /\ \A m \in Batches : OneShot(m)!Init
    /\ [][\A m \in Batches : UNCHANGED <<Phase(m), taken[m]>> \/ OneShot(m)!Next]_vars
=============================================================================
