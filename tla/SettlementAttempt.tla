-------------------------- MODULE SettlementAttempt --------------------------
(***************************************************************************)
(* The settlement attempts of options-monitor: a due run asks the broker   *)
(* about an expired option whose lifecycle case is still open, at most one *)
(* run at a time and every call under a durable invocation                 *)
(* (src/application/trades/lifecycle_runtime.py, the attempt table of      *)
(* trades/inbox.py, settlement_attempts.py, and the audit of               *)
(* ledger/repository_lifecycle_attempts.py).                               *)
(*                                                                         *)
(* One case and the provider batch lease of its account.  The control row  *)
(* is in the inbox database, the audit in the ledger: no transaction spans *)
(* both.  Workers are due runs of one source: the listener's and the ones  *)
(* of the command line.  Another case of the same account is only the call *)
(* a run makes for it before it comes to this one.                         *)
(***************************************************************************)
EXTENDS Integers, FiniteSets

CONSTANTS
    Workers,
    Lease,      \* _SETTLEMENT_CLAIM_LEASE_MS (120 s) in ticks
    Backoff,    \* backoff_delay_ms of an outcome that is tried again
    MaxClaims,  \* bound: reservations of the case
    MaxScope,   \* bound: changes of the facts of the case
    MaxCrashes  \* bound: workers that die

ASSUME AttemptAssumption ==
    /\ Lease \in Nat \ {0} /\ Backoff \in Nat
    /\ MaxClaims \in Nat /\ MaxScope \in Nat /\ MaxCrashes \in Nat

VARIABLES
    scope,    \* the fingerprint of the case's facts in the ledger
    row,      \* the control row of the case, NoRow before it is written
    lease,    \* the provider batch lease of the account
    claims,   \* how many claim ids and invocation ids were generated
    audit,    \* audit[i]: the outcome the ledger holds for invocation i
    work,     \* work[w]: local state of worker w
    oper,     \* what the operator of resolve-ambiguous has read
    crashes,
    begun,    \* invocations whose provider call was begun (ghost)
    counted,  \* invocations the control row has counted (ghost)
    undone    \* invocations resolved as not executed (ghost)

vars == <<scope, row, lease, claims, audit, work, oper, crashes, begun, counted, undone>>
ghosts == <<begun, counted, undone>>

-----------------------------------------------------------------------------
\* Times are what is left of them: 0 is over (or NULL).  A claim or an
\* invocation is the number of the reservation that generated its id, 0 none.
Ids      == 1..MaxClaims
Outcomes == {"observed", "failed", "stale"}
Classes  == {"provider", "local", "unclassified"}
States   == {"null", "reserved", "started", "finished", "committed", "ambiguous"}

Rows == [class : Classes, scope : 0..MaxScope, state : States, claim : {0} \cup Ids,
         until : 0..Lease, inv : {0} \cup Ids, pending : {"none"} \cup Outcomes, next : 0..Backoff]
NoRow == [class |-> "unclassified", scope |-> 0, state |-> "none", claim |-> 0, until |-> 0,
          inv |-> 0, pending |-> "none", next |-> 0]

Active(r)  == r.claim # 0 /\ r.until > 0
Cleared(r) == [r EXCEPT !.state = "null", !.inv = 0, !.pending = "none"]
Freed(r)   == [r EXCEPT !.claim = 0, !.until = 0]

\* settlement_attempt_updates_after_outcome: how the row goes on after outcome o.
After(r, o) == [r EXCEPT !.class = IF o = "stale" THEN "unclassified" ELSE "provider",
                         !.next = IF o = "stale" THEN 0 ELSE Backoff]

PCs == {"idle", "list", "listed", "reconcile", "sort", "plan", "pick", "batch", "other", "later",
        "prepare", "ready", "call", "finish", "commit", "replace", "settle", "close"}
Idle == [pc |-> "idle", fp |-> 0, seen |-> NoRow, found |-> "none", go |-> FALSE,
         id |-> 0, out |-> "failed", lapsed |-> FALSE]
Works == [pc : PCs, fp : 0..MaxScope, seen : Rows \cup {NoRow}, found : {"none"} \cup Outcomes,
          go : BOOLEAN, id : {0} \cup Ids, out : Outcomes, lapsed : BOOLEAN]

At(w, pc)  == work[w].pc = pc
Seen(w)    == work[w].seen
Go(w, pc)  == work' = [work EXCEPT ![w].pc = pc]
End(w)     == work' = [work EXCEPT ![w] = Idle]
Leave(w)   == work' = [work EXCEPT ![w] = [Idle EXCEPT !.pc = "close"]]
Fail(w)    == Leave(w) /\ UNCHANGED row

Mine(w)    == row.claim # 0 /\ row.claim = work[w].id
Invoked(w) == Mine(w) /\ row.inv = Seen(w).inv

NoOper == [inv |-> 0, found |-> "none"]

-----------------------------------------------------------------------------
(* A due run: what it reads, old invocations, planning.                    *)

\* list_trade_lifecycle_due_candidates
Survey(w) ==
    /\ At(w, "idle")
    /\ work' = [work EXCEPT ![w].pc = "list", ![w].fp = scope]
    /\ UNCHANGED <<scope, row, lease, claims, audit, oper, crashes, ghosts>>

\* list_settlement_attempt_states
List(w) ==
    /\ At(w, "list")
    /\ work' = [work EXCEPT ![w].pc = "listed", ![w].seen = row]
    /\ UNCHANGED <<scope, row, lease, claims, audit, oper, crashes, ghosts>>

\* An invocation without an active claim, by the listing, is an old one.
Old(w) == Seen(w).state \in {"reserved", "started", "finished"} /\ ~Active(Seen(w))

\* get_trade_lifecycle_attempt_audit_by_invocation
ReadAudit(w) ==
    /\ At(w, "listed") /\ Old(w)
    /\ work' = [work EXCEPT ![w].pc = "reconcile", ![w].found = audit[Seen(w).inv]]
    /\ UNCHANGED <<scope, row, lease, claims, audit, oper, crashes, ghosts>>

\* Mutant: an outcome without its audit is given up, and the case tried again.
ReconciledRetry(r, found) ==
    IF r.state = "started" THEN Freed([r EXCEPT !.state = "ambiguous"])
    ELSE IF r.state # "finished" THEN r
    ELSE IF found = r.pending THEN Freed([r EXCEPT !.state = "committed"])
    ELSE Freed(Cleared(r))

\* What reconcile_settlement_attempt_invocation makes of row r, given the audit
\* found: it looks at the state of the row and not at its claim.
Reconciled(r, found) ==
    IF r.state = "started" \/ (r.state = "finished" /\ found = "none")
    THEN Freed([r EXCEPT !.state = "ambiguous"])
    ELSE IF r.state = "finished" /\ found = r.pending
    THEN Freed([r EXCEPT !.state = "committed"])
    ELSE r

\* It raises on another invocation, on an audit that contradicts the row.
Contradicts(r, i, found) ==
    \/ r.inv # i
    \/ r.state = "reserved" /\ found # "none"
    \/ r.state \in {"finished", "committed"} /\ found \notin {"none", r.pending}

Counting == counted' = IF row.state # "committed" /\ row'.state = "committed"
                         THEN counted \cup {row.inv} ELSE counted

Reconcile(w) ==
    /\ At(w, "reconcile")
    /\ LET bad == Contradicts(row, Seen(w).inv, work[w].found)
       IN  /\ row' = IF bad THEN row ELSE Reconciled(row, work[w].found)
           /\ work' = [work EXCEPT ![w] =
                         IF bad THEN Idle
                         ELSE [@ EXCEPT !.pc = "sort", !.seen = row', !.found = "none"]]
    /\ Counting
    /\ UNCHANGED <<scope, lease, claims, audit, oper, crashes, begun, undone>>

\* The loop that sorts the candidates.
Replan(w) == LET s == Seen(w)
             IN  \/ s.state = "none" \/ s.scope # work[w].fp \/ s.class = "unclassified"
                 \/ s.class = "local" /\ s.next = 0
Sort(w) ==
    /\ At(w, "sort") \/ (At(w, "listed") /\ ~Old(w))
    /\ LET s == Seen(w)
       IN  \/ /\ Active(s) \/ s.state = "ambiguous"
                  \/ (~Replan(w) /\ s.class = "local")
              /\ End(w)
           \/ /\ ~Active(s) /\ s.state # "ambiguous" /\ Replan(w)
              /\ Go(w, "plan")
           \/ /\ ~Active(s) /\ s.state # "ambiguous" /\ ~Replan(w) /\ s.class = "provider"
              /\ Go(w, "pick")
    /\ UNCHANGED <<scope, row, lease, claims, audit, oper, crashes, ghosts>>

\* Mutant: the planning of a case respects a claim, not an open invocation.
RefusedByClaim(c) == Active(row) /\ row.claim # c
\* upsert_settlement_attempt_state of a payload with claim c is refused.
Refused(c) == \/ Active(row) /\ row.claim # c
              \/ row.state \notin {"none", "null", "committed"}

\* What the payload keeps of the row that was listed; its claim is kept with it.
Planned(s, class, again) ==
    [class |-> class, scope |-> scope, state |-> "null",
     claim |-> IF class = "provider" /\ again THEN s.claim ELSE 0,
     until |-> IF class = "provider" /\ again THEN s.until ELSE 0,
     inv |-> 0, pending |-> "none",
     next |-> IF class = "local" THEN Backoff ELSE IF again THEN s.next ELSE 0]

\* Local planning finds that the provider must be asked, or that it need not
\* be.  again: the provider's input and the collector are the same as before.
Plan(w) ==
    /\ At(w, "plan")
    /\ \E class \in {"provider", "local"}, again \in BOOLEAN :
         LET p == Planned(Seen(w), class, again)
         IN  /\ again => Seen(w).state # "none"
             /\ row' = IF Refused(p.claim) THEN row ELSE p
             /\ work' = [work EXCEPT ![w] =
                  IF Refused(p.claim) \/ class = "local" \/ Active(p) THEN Idle
                  ELSE [@ EXCEPT !.pc = "pick", !.seen = p, !.fp = scope]]
    /\ UNCHANGED <<scope, lease, claims, audit, oper, crashes, ghosts>>

-----------------------------------------------------------------------------
(* The provider batch, the reservation and what precedes the call.         *)

Eligible(w) == Seen(w).scope = work[w].fp /\ ~Active(Seen(w)) /\ Seen(w).next = 0

\* claim_settlement_provider_batch, renewed at once by the batch's guard.
ClaimBatch(w) ==
    /\ At(w, "pick")
    /\ IF Eligible(w) /\ lease.until = 0
       THEN /\ lease' = [owner |-> w, until |-> Lease]
            /\ Go(w, "batch")
       ELSE End(w) /\ UNCHANGED lease
    /\ UNCHANGED <<scope, row, claims, audit, oper, crashes, ghosts>>

\* What is written of the case as it was listed, before any reservation: that
\* the collector is disabled, or blocked for good, which ends the run; that it
\* has other capabilities, after which the run goes on; or, when the guard of
\* the batch cannot start, that the attempt failed.
Unattempted(w) ==
    LET p == [Freed(Cleared(Seen(w))) EXCEPT !.next = IF At(w, "pick") THEN 0 ELSE Backoff]
    IN  /\ row' = IF Refused(0) THEN row ELSE p
        /\ \/ At(w, "batch") /\ Leave(w)
           \/ /\ At(w, "pick") /\ Seen(w).scope = work[w].fp /\ ~Active(Seen(w))
              /\ \/ End(w)
                 \/ ~Refused(0) /\ work' = [work EXCEPT ![w].seen = p]
        /\ UNCHANGED <<scope, lease, claims, audit, oper, crashes, ghosts>>

\* renew_settlement_provider_batch_claim and renew_settlement_attempt_claim ask
\* for the claim's id, not whether it has run out.
HoldsBatch(w) == lease.owner = w
Renewed       == [lease EXCEPT !.until = Lease]
HoldsRow(w)   == Mine(w) /\ row.class = "provider" /\ row.scope = Seen(w).scope

\* reserve_settlement_attempt_invocation
Reservable(w) ==
    /\ row.class = "provider" /\ row.scope = Seen(w).scope
    /\ row.state \in {"null", "reserved", "committed"}
    /\ row.next = 0 /\ ~Active(row)

\* As the first case of the batch, or as a later one.
Reserve(w) ==
    /\ At(w, "batch") \/ At(w, "later")
    /\ IF Reservable(w)
       THEN /\ claims < MaxClaims
            /\ claims' = claims + 1
            /\ row' = [row EXCEPT !.claim = claims', !.until = Lease, !.state = "reserved",
                                  !.inv = IF row.state = "reserved" THEN @ ELSE claims',
                                  !.pending = "none"]
            /\ work' = [work EXCEPT ![w].pc = IF At(w, "batch") THEN "prepare" ELSE "ready",
                                    ![w].seen = row', ![w].id = claims']
       ELSE Fail(w) /\ UNCHANGED claims
    /\ UNCHANGED <<scope, lease, audit, oper, crashes, ghosts>>

\* Another case comes first: the batch is prepared with it, and its call is made.
OtherCase(w) ==
    /\ At(w, "batch")
    /\ IF HoldsBatch(w)
       THEN /\ lease' = Renewed
            /\ \E valid \in BOOLEAN :
                 work' = [work EXCEPT ![w].pc = "other", ![w].fp = scope,
                                      ![w].go = valid /\ scope = Seen(w).scope]
       ELSE Leave(w) /\ UNCHANGED lease
    /\ UNCHANGED <<scope, row, claims, audit, oper, crashes, ghosts>>

OtherDone(w) ==
    /\ At(w, "other")
    /\ IF HoldsBatch(w)
       THEN lease' = Renewed /\ Go(w, "later")
       ELSE Leave(w) /\ UNCHANGED lease
    /\ UNCHANGED <<scope, row, claims, audit, oper, crashes, ghosts>>

\* complete_settlement_attempt: the attempt ends before any provider call.
Completable(w) == Mine(w) /\ row.state \in {"null", "reserved"}
Completed(o, s) == Freed(Cleared([After(row, o) EXCEPT !.scope = s]))

\* The first case of the batch is prepared after its reservation: renewals,
\* and fresh facts against which the case is validated once more.
Prepare(w) ==
    /\ At(w, "prepare")
    /\ lease' = IF HoldsBatch(w) THEN Renewed ELSE lease
    /\ IF HoldsBatch(w) /\ HoldsRow(w)
       THEN \/ /\ row' = [row EXCEPT !.until = Lease]
               /\ \E valid \in BOOLEAN :
                    work' = [work EXCEPT ![w].pc = "ready", ![w].fp = scope,
                                         ![w].go = valid /\ scope = Seen(w).scope]
            \/ /\ row' = IF Completable(w) THEN Completed("failed", row.scope) ELSE row
               /\ Leave(w)
       ELSE /\ Leave(w)
            /\ row' = IF ~HoldsBatch(w) /\ Completable(w) THEN Completed("failed", row.scope) ELSE row
    /\ UNCHANGED <<scope, claims, audit, oper, crashes, ghosts>>

\* No call is made: the facts have changed, or the collector finds it has
\* nothing to ask; what is written of the former is the scope of now.
GiveUp(w) ==
    /\ At(w, "ready")
    /\ Leave(w)
    /\ \/ /\ ~work[w].go
          /\ row' = IF HoldsRow(w) /\ Completable(w) THEN Completed("stale", scope) ELSE row
       \/ /\ work[w].go
          /\ row' = IF HoldsRow(w) /\ Completable(w) THEN Completed("failed", row.scope) ELSE row
    /\ UNCHANGED <<scope, lease, claims, audit, oper, crashes, ghosts>>

-----------------------------------------------------------------------------
(* The call, its outcome, the ledger and the control row.                  *)

\* Mutant: the start of a call looks for the invocation, not for the claim.
StartableByAnyone(w) == row.inv = Seen(w).inv /\ row.state \in {"reserved", "started"}
\* mark_settlement_attempt_provider_started, just before the first provider I/O
Startable(w) == Invoked(w) /\ row.state = "reserved"

Start(w) ==
    /\ At(w, "ready") /\ work[w].go
    /\ IF Startable(w)
       THEN /\ row' = [row EXCEPT !.state = "started"]
            /\ begun' = begun \cup {row.inv}
            /\ Go(w, "call")
       ELSE Fail(w) /\ UNCHANGED begun
    /\ UNCHANGED <<scope, lease, claims, audit, oper, crashes, counted, undone>>

\* collect_outcome returns or raises; the claim is renewed and the facts are
\* read again: an outcome for other facts than were asked about is stale.
Collected(w) ==
    /\ At(w, "call")
    /\ IF HoldsRow(w)
       THEN /\ row' = [row EXCEPT !.until = Lease]
            /\ \E o \in {"observed", "failed"} :
                 work' = [work EXCEPT ![w].pc = "finish",
                                      ![w].out = IF scope # Seen(w).scope THEN "stale" ELSE o]
       ELSE Fail(w)
    /\ UNCHANGED <<scope, lease, claims, audit, oper, crashes, ghosts>>

\* finish_settlement_attempt_provider_invocation
Finish(w) ==
    /\ At(w, "finish")
    /\ IF Invoked(w) /\ row.state = "started"
       THEN /\ row' = [After(row, work[w].out) EXCEPT !.state = "finished", !.pending = work[w].out]
            /\ Go(w, "commit")
       ELSE Fail(w)
    /\ UNCHANGED <<scope, lease, claims, audit, oper, crashes, ghosts>>

\* The ledger's transaction: an observation is admitted with its audit if the
\* facts are the ones read at the preparation; of any other outcome only the
\* audit is recorded.  An observation that raises, be it before the commit or
\* after it, is taken for a failure; an audit that contradicts an earlier one
\* of the invocation is refused, and the run ends (Abort).
Commit(w) ==
    /\ At(w, "commit")
    /\ LET observed == work[w].out = "observed"
       IN  \/ /\ audit[Seen(w).inv] = "none" /\ (observed => scope = work[w].fp)
              /\ audit' = [audit EXCEPT ![Seen(w).inv] = work[w].out]
              /\ scope' \in IF observed THEN {scope, scope + 1} \cap (0..MaxScope) ELSE {scope}
              /\ Go(w, "settle") \/ (observed /\ Go(w, "replace"))
           \/ /\ observed /\ Go(w, "replace")
              /\ UNCHANGED <<scope, audit>>
    /\ UNCHANGED <<row, lease, claims, oper, crashes, ghosts>>

\* replace_finished_settlement_attempt_provider_invocation
Replace(w) ==
    /\ At(w, "replace")
    /\ IF Invoked(w) /\ row.state = "finished"
       THEN \E o \in {"failed", "stale"} :
              /\ row' = [After(row, o) EXCEPT !.pending = o]
              /\ work' = [work EXCEPT ![w].pc = "commit", ![w].out = o]
       ELSE Fail(w)
    /\ UNCHANGED <<scope, lease, claims, audit, oper, crashes, ghosts>>

\* The audit is read back and the row reconciled with it.
Settle(w) ==
    /\ At(w, "settle")
    /\ LET found == audit[Seen(w).inv]
       IN  row' = IF Contradicts(row, Seen(w).inv, found) THEN row ELSE Reconciled(row, found)
    /\ Leave(w)
    /\ Counting
    /\ UNCHANGED <<scope, lease, claims, audit, oper, crashes, begun, undone>>

\* Mutant: the lease is released by account, whoever holds it.
CloseAny(w) ==
    /\ At(w, "close")
    /\ lease' = [owner |-> "none", until |-> 0]
    /\ End(w)
    /\ UNCHANGED <<scope, row, claims, audit, oper, crashes, ghosts>>

\* release_settlement_provider_batch_claim, of the owner's lease only.
Close(w) ==
    /\ At(w, "close")
    /\ lease' = IF HoldsBatch(w) THEN [owner |-> "none", until |-> 0] ELSE lease
    /\ End(w)
    /\ UNCHANGED <<scope, row, claims, audit, oper, crashes, ghosts>>

-----------------------------------------------------------------------------
(* Guard threads, failures, the clock, the case, the operator.             *)

\* The guard threads renew the batch lease all along, and the claim while the
\* batch is prepared and the provider is asked.
Renew(w) ==
    /\ \/ /\ work[w].pc \in {"batch", "other", "later", "prepare", "ready", "call", "finish",
                             "commit", "replace", "settle"}
          /\ HoldsBatch(w)
          /\ lease' = Renewed /\ UNCHANGED row
       \/ /\ work[w].pc \in {"prepare", "call"}
          /\ HoldsRow(w)
          /\ row' = [row EXCEPT !.until = Lease] /\ UNCHANGED lease
    /\ UNCHANGED <<scope, claims, audit, work, oper, crashes, ghosts>>

\* An error of the control store, or any other, ends the run.
Abort(w) ==
    /\ work[w].pc \notin {"idle", "close"}
    /\ IF HoldsBatch(w) THEN Leave(w) ELSE End(w)
    /\ UNCHANGED <<scope, row, lease, claims, audit, oper, crashes, ghosts>>

\* The process dies: its lease belongs to nobody until it runs out.
Crash(w) ==
    /\ ~At(w, "idle") /\ crashes < MaxCrashes
    /\ crashes' = crashes + 1
    /\ End(w)
    /\ lease' = IF HoldsBatch(w) THEN [lease EXCEPT !.owner = "gone"] ELSE lease
    /\ UNCHANGED <<scope, row, claims, audit, oper, ghosts>>

Less(n) == IF n = 0 THEN 0 ELSE n - 1
Older(r) == [r EXCEPT !.until = Less(@), !.next = Less(@)]
Tick ==
    /\ row' = Older(row)
    /\ lease' = [lease EXCEPT !.until = Less(@)]
    /\ work' = [w \in Workers |-> [work[w] EXCEPT !.seen = Older(@),
                                     !.lapsed = @ \/ (HoldsBatch(w) /\ lease'.until = 0)]]
    /\ UNCHANGED <<scope, claims, audit, oper, crashes, ghosts>>

\* New evidence of the case.
Evidence ==
    /\ scope < MaxScope
    /\ scope' = scope + 1
    /\ UNCHANGED <<row, lease, claims, audit, work, oper, crashes, ghosts>>

\* `lifecycle resolve-ambiguous`: the audit is read, then the row is changed.
OperatorReads ==
    /\ oper = NoOper /\ row.state = "ambiguous"
    /\ oper' = [inv |-> row.inv, found |-> audit[row.inv]]
    /\ UNCHANGED <<scope, row, lease, claims, audit, work, crashes, ghosts>>

\* The operator vouches that no worker is still at the provider for the case.
Quiet == \A w \in Workers : ~At(w, "call")
OperatorResolves ==
    /\ oper # NoOper
    /\ oper' = NoOper
    /\ IF row.inv = oper.inv /\ row.state = "ambiguous"
       THEN \/ /\ oper.found # "none" /\ row.pending = oper.found
               /\ row' = Freed([row EXCEPT !.state = "committed"])
               /\ UNCHANGED undone
            \/ /\ oper.found = "none" /\ row.pending = "none" /\ Quiet
               /\ row' = Freed(Cleared(row))
               /\ undone' = undone \cup {row.inv}
            \/ UNCHANGED <<row, undone>>
       ELSE UNCHANGED <<row, undone>>
    /\ Counting
    /\ UNCHANGED <<scope, lease, claims, audit, work, crashes, begun>>

-----------------------------------------------------------------------------
Init ==
    /\ scope = 0 /\ row = NoRow /\ lease = [owner |-> "none", until |-> 0] /\ claims = 0
    /\ audit = [i \in Ids |-> "none"]
    /\ work = [w \in Workers |-> Idle]
    /\ oper = NoOper /\ crashes = 0
    /\ begun = {} /\ counted = {} /\ undone = {}

\* One step of a due run.
Step(w) ==
    \/ Survey(w) \/ List(w) \/ ReadAudit(w) \/ Reconcile(w) \/ Sort(w) \/ Plan(w)
    \/ ClaimBatch(w) \/ Unattempted(w) \/ Reserve(w) \/ OtherCase(w) \/ OtherDone(w) \/ Prepare(w) \/ GiveUp(w)
    \/ Start(w) \/ Collected(w) \/ Finish(w) \/ Commit(w) \/ Replace(w) \/ Settle(w) \/ Close(w)

Next ==
    \/ \E w \in Workers : Step(w) \/ Renew(w) \/ Abort(w) \/ Crash(w)
    \/ Tick \/ Evidence \/ OperatorReads \/ OperatorResolves

Spec == Init /\ [][Next]_vars

-----------------------------------------------------------------------------
TypeOK ==
    /\ scope \in 0..MaxScope /\ row \in Rows \cup {NoRow}
    /\ lease \in [owner : Workers \cup {"none", "gone"}, until : 0..Lease]
    /\ claims \in 0..MaxClaims /\ audit \in [Ids -> {"none"} \cup Outcomes]
    /\ work \in [Workers -> Works]
    /\ oper \in [inv : {0} \cup Ids, found : {"none"} \cup Outcomes]
    /\ crashes \in 0..MaxCrashes
    /\ begun \subseteq Ids /\ counted \subseteq Ids /\ undone \subseteq Ids

\* The two stores tell one story although no transaction spans them: an attempt
\* the ledger has audited was counted by the control row, or is still held there
\* with the same outcome, or, if an error followed the ledger's commit, with the
\* failure it was taken for; nothing is counted that the ledger does not have or
\* has otherwise, and nothing audited was ever resolved as not executed.
AuditsAgree ==
    /\ \A i \in Ids : audit[i] # "none" =>
         \/ i \in counted
         \/ /\ row.inv = i /\ row.state \in {"finished", "ambiguous"}
            /\ row.pending = audit[i] \/ (audit[i] = "observed" /\ row.pending \in {"failed", "stale"})
    /\ \A i \in counted : audit[i] # "none"
    /\ \A i \in undone : audit[i] = "none"
    /\ row.state = "committed" => row.inv \in counted /\ audit[row.inv] = row.pending

\* Two workers are never at the provider for the case at once, whatever claims
\* ran out, as long as the operator keeps his word.
OneCall == \A v, w \in Workers : At(v, "call") /\ At(w, "call") => v = w

\* Two workers are at the provider for the account at once only if the batch
\* lease of one of them ran out on the way.
Calling(w) == work[w].pc \in {"call", "other"}
OneBatch == \A v, w \in Workers :
    v # w /\ Calling(v) /\ Calling(w) => work[v].lapsed \/ work[w].lapsed

\* Every invocation in use was generated; an open one was neither counted nor
\* given up, and a reserved one not begun.
Open == {"reserved", "started", "finished", "ambiguous"}
InvocationsAreFresh ==
    /\ begun \cup counted \cup undone \subseteq 1..claims /\ row.inv <= claims
    /\ row.inv = 0 <=> row.state \in {"none", "null"}
    /\ row.state \in Open => row.inv \notin counted \cup undone
    /\ row.state = "reserved" => row.inv \notin begun
    /\ row.state \in {"none", "null", "reserved", "started"} => row.pending = "none"
    /\ row.state \in {"finished", "committed"} => row.pending # "none"

\* What was read of the ledger's audits is nothing or still true: none changes.
ReadingsHold ==
    /\ \A w \in Workers : Seen(w).inv = 0 <=> Seen(w).state \in {"none", "null"}
    /\ \A w \in Workers : At(w, "reconcile") =>
         Seen(w).inv # 0 /\ work[w].found \in {"none", audit[Seen(w).inv]}
    /\ oper # NoOper => oper.inv # 0 /\ oper.found \in {"none", audit[oper.inv]}

\* A call has one worker, who finds the row as he left it, except that others
\* may have called it ambiguous, until an audit of his is in the ledger.
Called(w) == work[w].pc \in {"call", "finish", "commit", "replace", "settle"}
OneCaller ==
    /\ \A w \in Workers : Called(w) => Seen(w).inv \in begun
    /\ \A v, w \in Workers : Called(v) /\ Called(w) /\ Seen(v).inv = Seen(w).inv => v = w
    /\ \A w \in Workers : At(w, "call") =>
         row.inv = Seen(w).inv /\ row.state \in {"started", "ambiguous"} /\ row.pending = "none"
    /\ \A w \in Workers : work[w].pc \in {"commit", "replace"} =>
         /\ audit[Seen(w).inv] \in {"none", "observed"}
         /\ At(w, "commit") /\ work[w].out = "observed" => audit[Seen(w).inv] = "none"
         /\ At(w, "commit") \/ audit[Seen(w).inv] = "none" =>
              /\ row.inv = Seen(w).inv /\ row.state \in {"finished", "ambiguous"}
              /\ row.pending = work[w].out

\* From the claim of the batch on its lease runs, or has run out on the way.
InBatch(w) == Called(w) \/ work[w].pc \in {"batch", "other", "later", "prepare", "ready"}
BatchIsHeld ==
    \A w \in Workers : InBatch(w) => work[w].lapsed \/ (HoldsBatch(w) /\ lease.until > 0)

\* The inductive invariant of the proofs.
AttemptInv == TypeOK /\ AuditsAgree /\ InvocationsAreFresh /\ ReadingsHold /\ OneCaller /\ BatchIsHeld

\* The call of an invocation is begun once, also when a second worker takes
\* over the reservation of one that is gone.
BegunOnce == [][\A w \in Workers : ~At(w, "call") /\ work'[w].pc = "call" => row.inv \notin begun]_vars

\* A call that was begun leaves the row only with its audit, by becoming
\* ambiguous, or, once ambiguous, on the operator's word.
NothingForgotten ==
    [][/\ row.state = "started" => row'.inv = row.inv /\ row'.state \in {"started", "finished", "ambiguous"}
       /\ row.state = "finished" => row'.inv = row.inv /\ row'.state \in {"finished", "committed", "ambiguous"}
       /\ row.state = "ambiguous" /\ row'.state # "ambiguous" =>
            row.inv \in counted' \cup undone']_vars
=============================================================================
