----------------------------- MODULE TradeInbox -----------------------------
(***************************************************************************)
(* The life of ONE broker execution in the trade inbox of options-monitor  *)
(* (src/application/trades/inbox.py, auto_intake.py, intake.py,            *)
(* resolver.py).  Every inbox statement is keyed by inbox_id, the hash of  *)
(* the execution's identity, so rows evolve independently and one row with *)
(* all its actors is the whole protocol.                                   *)
(*                                                                         *)
(* Actors: workers (listener callbacks, backfill, manual runs: every       *)
(* caller of _process_payload), the receipt-recovery thread, the operator  *)
(* and the clock.  Shared state: the inbox row and its evidence (SQLite,   *)
(* one transaction per step), the ledger's effect, the JSON state file,    *)
(* and the ledger-wide writer lock, which a worker holds over more than    *)
(* one step only in trade_payload_commit_scope.                            *)
(***************************************************************************)
EXTENDS Integers, FiniteSets

CONSTANTS
    Workers,        \* concurrent callers of _process_payload
    Payloads,       \* broker payloads that carry this execution's identity
    Stocks,         \* the economic values of a stock deal ...
    Closes,         \* ... and of an option deal that says it closes a position
    None,           \* an unknown value, no claim, no effect
    MaxAttempts,    \* economic claims per row (20 in the code)
    Lease,          \* claim lease, in clock ticks (120 s; a tick is 60 s)
    Sources,        \* where deliveries come from in this instance
    Reviews,        \* may a lookup contradict the configured underlying here?
    MaxResumes,     \* bound: operator resumes
    MaxVersion,     \* bound: payload versions a new delivery may reach
    MaxEvidence     \* bound: evidence rows a new delivery may reach

Statuses == {"ok", "cancelled", "changed", "unknown"}

ASSUME BoundsAssumption ==
    /\ MaxAttempts \in Nat \ {0}
    /\ Lease \in Nat \ {0}
    /\ MaxResumes \in Nat
    /\ MaxVersion \in Nat
    /\ MaxEvidence \in Nat
    /\ Sources \subseteq {"push", "backfill", "lookup", "file"}
    /\ Reviews \in BOOLEAN

ASSUME NoneAssumption ==
    /\ None \notin Workers
    /\ None \notin Statuses
    /\ None \notin [econ : {p.econ : p \in Payloads}, assoc : {p.assoc : p \in Payloads} \cup {None}]

\* A payload: its economic content, its order association (None: not yet
\* known), the broker's deal status and the source revision (0: none).
ASSUME PayloadAssumption ==
    \A p \in Payloads : /\ DOMAIN p = {"econ", "assoc", "status", "rev"}
                        /\ p.status \in Statuses \cup {None}
                        /\ p.rev \in Nat

ASSUME ClassAssumption ==
    /\ Stocks \cup Closes \subseteq {p.econ : p \in Payloads}
    /\ Stocks \cap Closes = {}

VARIABLES
    row,        \* the trade_inbox row
    evidence,   \* its trade_inbox_evidence: {[src, pay]}
    effect,     \* what the ledger has booked for the execution, or None
    entry,      \* the bucket of the execution in the intake state file
    lock,       \* holder of the ledger writer lock, or None
    work,       \* work[w]: local state of worker w
    obs,        \* the row and evidence the recovery thread listed, or None
    resumes     \* operator resumes so far

vars == <<row, evidence, effect, entry, lock, work, obs, resumes>>

-----------------------------------------------------------------------------
(* Results and their receipt policy.  A result is its end (status, and the *)
(* reason of a skip; "not_normalized": failed before there was a deal),    *)
(* its receipt kind ("null": saved without one), the retryable diagnostic  *)
(* and whether its reason is an exception.                                 *)

Kinds   == {"none", "null", "pending_retry", "recorded", "manual_required",
            "verification_pending"}
Ends    == {"none", "applied", "ledger_recorded", "duplicate_deal_id", "not_option_deal",
            "unresolved", "failed", "not_normalized"}
Result  == [st : Ends,
            kind : Kinds, retry : BOOLEAN, exc : BOOLEAN]
Mk(st, kind, retry, exc) == [st |-> st, kind |-> kind, retry |-> retry, exc |-> exc]
NoRes   == Mk("none", "none", FALSE, FALSE)

Failed(r) == r.st \in {"failed", "not_normalized"}
Open(r)   == Failed(r) \/ r.st = "unresolved"

\* Mutant: every closed result counts as recorded, a duplicate too.
PolicyClosed(att, r) ==
    [r EXCEPT !.kind = IF @ \notin {"none", "null"} THEN @
                       ELSE IF ~Open(r) THEN "recorded"
                       ELSE IF r.retry /\ att < MaxAttempts THEN "pending_retry"
                       ELSE "manual_required"]

\* A result that carries no kind yet gets one; a retry is only promised
\* while attempts remain.
Policy(att, r) ==
    LET kind == IF r.kind \notin {"none", "null"} THEN r.kind
                ELSE CASE r.st = "applied"                           -> "recorded"
                       [] Open(r) /\ r.retry /\ att < MaxAttempts    -> "pending_retry"
                       [] Open(r) /\ ~(r.retry /\ att < MaxAttempts) -> "manual_required"
                       [] OTHER                                      -> "null"
    IN [r EXCEPT !.kind = IF kind = "pending_retry" /\ att >= MaxAttempts
                            THEN "manual_required" ELSE kind]

Differ(a, b) == a # None /\ b # None /\ a # b

\* completed_ledger_execution_events: a booked execution whose content
\* contradicts the deal's is an error, not a confirmation.
Agrees(econ, assoc) == ~Differ(effect.econ, econ) /\ ~Differ(effect.assoc, assoc)

\* The readback leaves to the other owners of the ledger: every stock deal, and
\* a booked close.  A booked deal that contradicts the effect it refuses too.
Undecidable(econ, assoc) ==
    econ \in Stocks \/ (effect # None /\ (econ \in Closes \/ ~Agrees(econ, assoc)))

\* _readback_trade_receipt_result: the effect decides; what cannot be decided,
\* an effect that was reported and is gone, or an unreadable ledger leaves the
\* result to be verified.
Verify(r) == Mk(IF Open(r) THEN r.st ELSE "failed", "verification_pending",
                r.retry \/ r = NoRes, r.exc)
Readback(r, econ, assoc) ==
    CASE Undecidable(econ, assoc) -> Verify(r)
      [] ~Undecidable(econ, assoc) /\ effect # None -> Mk("applied", "recorded", FALSE, FALSE)
      [] OTHER -> IF r.kind = "recorded" \/ r.st = "applied" THEN Verify(r)
                  ELSE Mk("failed",
                          IF r.retry \/ r = NoRes THEN "pending_retry" ELSE "manual_required",
                          r.retry \/ r = NoRes, r.exc)

-----------------------------------------------------------------------------
(* The row.                                                                *)

RowStatuses == {"pending", "handled", "conflict", "identity_needs_review"}
Reasons     == {"none", "economic", "applied", "status", "missing", "stale", "underlying",
                "cleared"}
Rows == [status : RowStatuses, reason : Reasons, ver : Nat,
         claim : Workers \cup {None}, lease : 0..Lease, att : 0..MaxAttempts,
         wait : 0..1, note : {"none", "enrichment", "resumed"},
         allowed : BOOLEAN, muted : BOOLEAN, src : Sources, pay : Payloads,
         res : Result, env : Kinds \ {"null"}]

Blank(st, ver, s, p, allowed) ==
    [status |-> st, reason |-> "none", ver |-> ver, claim |-> None,
     lease |-> 0, att |-> 0, wait |-> 0, note |-> "none",
     allowed |-> allowed, muted |-> FALSE, src |-> s, pay |-> p, res |-> NoRes, env |-> "none"]
Absent == Blank("absent", 0, None, None, FALSE)

Unclaimed(r) == [r EXCEPT !.claim = None, !.lease = 0]
\* A new payload version fences every claim handed out before it.
Fenced(r)    == [Unclaimed(r) EXCEPT !.ver = @ + 1]
LiveClaim(r) == r.claim # None /\ r.lease > 0

\* _prepare_trade_receipt_result: the result to store, the envelope's current
\* semantic key, and the refusal to let a recorded receipt regress.
Enveloped(r, res) == /\ res.kind \notin {"none", "null"}
                     /\ ~r.muted
                     /\ r.allowed \/ r.env # "none"
Regresses(r, res) == /\ Enveloped(r, res)
                     /\ r.env = "recorded"
                     /\ res.kind \notin {"recorded", "verification_pending"}
Stored(r, res) == [r EXCEPT !.res = res, !.reason = "none",
                            !.env = IF Enveloped(r, res) THEN res.kind ELSE @]

-----------------------------------------------------------------------------
(* enqueue_trade_payload: persist the version, then judge it against all   *)
(* durable evidence.                                                       *)

\* Mutant: only the economic values are compared, not the order.
EconomicConflictOnly(ev, p) == \E e, f \in ev : Differ(e.pay.econ, f.pay.econ)

EconomicConflict(ev, p) ==
    \/ \E e, f \in ev : Differ(e.pay.econ, f.pay.econ)
    \/ \E e \in ev : Differ(e.pay.assoc, p.assoc)
AppliedConflict(p) == effect # None /\ Differ(effect.assoc, p.assoc)
StatusConflict(ev, p, new) ==
    new /\ (p.status \in Statuses \ {"ok"}
            \/ \E e \in ev : e.pay.status \notin {None, p.status})
StatusMissing(p, new) == new /\ p.status = None
StaleRevision(ev, p)  == p.rev > 0 /\ \E e \in ev : e.pay.rev > p.rev

ConflictReason(ev, p, new) ==
    CASE EconomicConflict(ev, p)    -> "economic"
      [] AppliedConflict(p) /\ ~EconomicConflict(ev, p) -> "applied"
      [] OTHER -> IF StatusConflict(ev, p, new) THEN "status"
                  ELSE IF StatusMissing(p, new) THEN "missing"
                  ELSE IF StaleRevision(ev, p) THEN "stale" ELSE "none"

\* First transition: a conflict is registered, or a missing status supplied,
\* which clears the columns of the last result although the result stays.
Judged(r, s, p, why, new) ==
    CASE why # "none" ->
           IF r.status # "conflict" \/ new \/ r.reason # why
             THEN [Fenced(r) EXCEPT !.status = "conflict", !.reason = why, !.note = "none"]
             ELSE r
      [] why = "none" /\ r.status = "conflict" /\ r.reason = "missing"
                      /\ p.status = "ok" /\ s # "file" /\ new ->
           [Fenced(r) EXCEPT !.status = "pending", !.reason = "cleared", !.note = "none",
                            !.src = s, !.pay = p]
      [] OTHER -> r

\* Second: an association nobody knew reopens the row for a new claim.
Enriched(r, r0, why, p, known) ==
    IF /\ why \notin {"economic", "applied"}
       /\ p.assoc # None /\ ~known
       /\ r.status \in {"pending", "handled"}
    THEN IF r.status = "pending" THEN Fenced(r)
         ELSE [Fenced(r) EXCEPT !.status = "pending", !.wait = 0, !.note = "enrichment",
                 !.allowed = @ /\ effect = None
                               /\ r0.res.st # "not_option_deal"]
    ELSE r

\* Third: a lookup that contradicts the configured underlying quarantines it.
Reviewed(r, r0) ==
    IF /\ r0.status # "handled"
       /\ \/ r.status = "pending"
          \/ r.status = "conflict" /\ r.reason = "missing"
    THEN [Fenced(r) EXCEPT !.status = "identity_needs_review", !.reason = "underlying",
                           !.note = "none"]
    ELSE r

Received(s, p, und) ==
    LET new   == [src |-> s, pay |-> p] \notin evidence
        ev    == evidence \cup {[src |-> s, pay |-> p]}
        first == row.status = "absent"
        r0    == IF first THEN Blank("pending", 1, s, p, effect = None) ELSE row
        why   == ConflictReason(ev, p, new)
        known == first \/ \E e \in evidence : e.pay.assoc # None
        r1    == Judged(r0, s, p, why, new)
        r2    == IF und /\ r0.status = "handled" THEN r1 ELSE Enriched(r1, r0, why, p, known)
    IN CASE r0.status = "identity_needs_review" /\ r0.reason = "underlying" -> r0
         [] und /\ r0.status = "conflict" /\ r0.reason # "missing"          -> r0
         [] und /\ r0.status = "handled" /\ why = "none"                    -> r0
         [] OTHER -> IF und THEN Reviewed(r2, r0) ELSE r2

\* Mutant: the evidence is stored outside the writer lock.
EnqueueUnlocked(s, p, und) ==
    /\ row' = Received(s, p, und)
    /\ evidence' = evidence \cup {[src |-> s, pay |-> p]}

Enqueue(s, p, und) ==
    /\ lock = None
    /\ row' = Received(s, p, und)
    /\ evidence' = evidence \cup {[src |-> s, pay |-> p]}

-----------------------------------------------------------------------------
(* _process_payload, one worker.                                           *)

Idle == [pc |-> "idle", src |-> None, pay |-> None, ver |-> 0, assoc |-> None,
         newA |-> FALSE, allowed |-> FALSE, again |-> FALSE, res |-> NoRes,
         verify |-> FALSE]
PCs == {"idle", "enqueued", "claimed", "commit", "resolved", "saved", "stated"}
Works == [pc : PCs, src : Sources \cup {None}, pay : Payloads \cup {None}, ver : Nat,
          assoc : {p.assoc : p \in Payloads} \cup {None}, newA : BOOLEAN,
          allowed : BOOLEAN, again : BOOLEAN, res : Result, verify : BOOLEAN]

Go(w, pc)   == work' = [work EXCEPT ![w].pc = pc]
Drop(w)     == work' = [work EXCEPT ![w] = Idle]

\* The claim check shared by commit_scope, save_trade_payload_result and settle.
Owns(w) == row.status = "pending" /\ row.claim = w /\ row.ver = work[w].ver

Bounded == row'.ver <= MaxVersion /\ Cardinality(evidence') <= MaxEvidence

\* enqueue_trade_payload on behalf of the worker's own delivery; a file line
\* is modelled for a row that live sources created.
Receive(w, s, p) ==
    /\ work[w].pc = "idle"
    /\ s = "file" => row.status # "absent"
    /\ Enqueue(s, p, FALSE) /\ Bounded
    /\ work' = [work EXCEPT ![w] = [Idle EXCEPT !.pc = "enqueued", !.src = s, !.pay = p]]
    /\ UNCHANGED <<effect, entry, lock, obs, resumes>>

\* Mutant: the attempt limit is not part of the claim.
ClaimableForever(r) ==
    /\ r.status = "pending" /\ ~LiveClaim(r) /\ r.wait = 0
    /\ r.res.kind \in {"none", "null", "pending_retry"}

\* list_retryable_trade_payloads: the retry loop feeds the stored payload back.
Claimable(r) ==
    /\ r.status = "pending" /\ r.att < MaxAttempts /\ ~LiveClaim(r) /\ r.wait = 0
    /\ \/ r.res.kind \in {"none", "null", "pending_retry"}
       \/ r.note = "enrichment" /\ r.res.kind \in {"recorded", "manual_required"}

Retry(w) ==
    /\ work[w].pc = "idle"
    /\ Claimable(row)
    /\ Enqueue(row.src, row.pay, FALSE)
    /\ work' = [work EXCEPT ![w] = [Idle EXCEPT !.pc = "enqueued", !.src = row.src,
                                                !.pay = row.pay]]
    /\ UNCHANGED <<effect, entry, lock, obs, resumes>>

\* A broker lookup records its own evidence: when a push left the status
\* missing, and again after the claim; a conflict ends the attempt unsettled.
LookupEvidence(w, p, und) ==
    /\ \/ work[w].pc = "enqueued" /\ work[w].src = "push" /\ row.reason = "missing"
       \/ work[w].pc = "claimed"
    /\ "lookup" \in Sources
    /\ Enqueue("lookup", p, und) /\ Bounded
    /\ IF und \/ row'.status = "conflict"
         THEN Drop(w)
         ELSE work' = [work EXCEPT ![w].pay = IF work[w].pc = "enqueued" THEN p ELSE @]
    /\ UNCHANGED <<effect, entry, lock, obs, resumes>>

\* mark_trade_payload_review: a file line with input errors goes to a human.
MarkReview(w) ==
    /\ work[w].pc = "enqueued" /\ work[w].src = "file" /\ lock = None
    /\ row' = IF row.status = "pending"
                THEN [Unclaimed(row) EXCEPT !.status = "identity_needs_review", !.note = "none"]
                ELSE row
    /\ Drop(w)
    /\ UNCHANGED <<evidence, effect, entry, lock, obs, resumes>>

\* claim_trade_payload; a refused claim returns without touching the row.
KnownAssoc(p) ==
    IF p.assoc # None THEN p.assoc
    ELSE IF \E e \in evidence : e.pay.assoc # None
         THEN CHOOSE a \in {e.pay.assoc : e \in evidence} : a # None
         ELSE None

Claim(w) ==
    /\ work[w].pc = "enqueued" /\ lock = None
    /\ IF Claimable(row)
         THEN /\ row' = [row EXCEPT !.claim = w, !.lease = Lease, !.att = @ + 1, !.wait = 1]
              /\ work' = [work EXCEPT ![w] = [@ EXCEPT !.pc = "claimed", !.ver = row.ver,
                    !.src = None, !.assoc = KnownAssoc(work[w].pay),
                    !.newA = row.pay.assoc = None /\ KnownAssoc(row.pay) # None,
                    !.allowed = row.allowed,
                    !.again = \/ row.note = "resumed"
                              \/ row.reason = "none" /\ Failed(row.res) /\ row.res.exc]]
         ELSE Drop(w) /\ UNCHANGED row
    /\ UNCHANGED <<evidence, effect, entry, lock, obs, resumes>>

\* What the worker keeps of its claim once the deal is resolved.
Resolved(k, res, verify) ==
    [Idle EXCEPT !.pc = "resolved", !.ver = k.ver, !.res = res, !.verify = verify,
                 !.pay = IF verify THEN k.pay ELSE None, !.assoc = IF verify THEN k.assoc ELSE None]

\* normalize_trade_deal raised, before any ledger access: to be tried again
\* only when SQLite was busy.
NormalizeFails(w) ==
    /\ work[w].pc = "claimed"
    /\ \E busy \in BOOLEAN :
         work' = [work EXCEPT ![w] = Resolved(@, Mk("not_normalized", "none", busy, TRUE), FALSE)]
    /\ UNCHANGED <<row, evidence, effect, entry, lock, obs, resumes>>

\* trade_payload_commit_scope: take the writer lock, then re-read the claim;
\* a lost claim (TradePayloadClaimLost) ends the attempt and leaves the row.
EnterCommit(w) ==
    /\ work[w].pc = "claimed" /\ lock = None
    /\ IF Owns(w) THEN lock' = w /\ Go(w, "commit")
                  ELSE UNCHANGED lock /\ Drop(w)
    /\ UNCHANGED <<row, evidence, effect, entry, obs, resumes>>

\* Does the state file's entry let the resolver judge the execution again?
MayRetryEntry(w) ==
    \/ entry \in {"none", "unresolved_retryable"}
    \/ entry \in {"failed", "unresolved_effect"} /\ work[w].again
    \/ entry \in {"failed", "unresolved_effect", "unresolved"} /\ work[w].newA

Booked(w) == [econ |-> work[w].pay.econ, assoc |-> work[w].assoc]

\* Mutant: the ledger is not asked whether it holds the execution already.
OutcomesBlind(w) == { <<Booked(w), Mk("applied", "none", FALSE, FALSE), FALSE>> }

\* resolve_trade_deal under the lock: <<effect', result, readback needed>>.
\* A deal the ledger does not hold yet it books, or books and finds the
\* projection wrong, or leaves unresolved, or raises with the write done or not.
Unresolved == { <<None, Mk("unresolved", "none", retry, FALSE), FALSE>> : retry \in BOOLEAN }
Raised(e)  == { <<e, Mk("failed", "none", retry, TRUE), TRUE>> : retry \in BOOLEAN }
FirstOutcomes(w) ==
    { <<Booked(w), Mk("applied", "none", FALSE, FALSE), FALSE>>,
      <<Booked(w), Mk("failed", "none", FALSE, FALSE), FALSE>> }
    \cup Unresolved \cup Raised(None) \cup Raised(Booked(w))

Outcomes(w) ==
    IF effect # None /\ ~Agrees(work[w].pay.econ, work[w].assoc)
      THEN { <<effect, Mk("unresolved", "none", FALSE, FALSE), FALSE>> }
    ELSE IF effect # None
      THEN { <<[effect EXCEPT !.assoc = IF @ = None THEN work[w].assoc ELSE @],
               Mk(IF work[w].allowed THEN "applied" ELSE "ledger_recorded", "none", FALSE, FALSE),
               FALSE>> }
    ELSE IF ~MayRetryEntry(w)
      THEN { <<None, Mk("duplicate_deal_id", "none", FALSE, FALSE), FALSE>> }
    ELSE FirstOutcomes(w)

LedgerWrite(w) ==
    /\ work[w].pc = "commit" /\ lock = w
    /\ \E o \in Outcomes(w) :
         /\ effect' = o[1]
         /\ work' = [work EXCEPT ![w] = Resolved(@, o[2], o[3])]
    /\ lock' = None
    /\ UNCHANGED <<row, evidence, entry, obs, resumes>>

\* A stock deal that nothing in the ledger claims: skipped, and remembered so.
SkipNonOption(w) ==
    /\ work[w].pc = "commit" /\ lock = w
    /\ work[w].pay.econ \in Stocks /\ effect = None /\ MayRetryEntry(w)
    /\ work' = [work EXCEPT ![w] = Resolved(@, Mk("not_option_deal", "none", FALSE, FALSE), FALSE)]
    /\ lock' = None
    /\ UNCHANGED <<row, evidence, effect, entry, obs, resumes>>

\* before_receipt: read an uncertain write back, then save_trade_payload_result
\* by compare-and-set on status, claim and version.
Save(w) ==
    /\ work[w].pc = "resolved"
    /\ \E r \in IF ~work[w].verify THEN {work[w].res}
               ELSE {Readback(work[w].res, work[w].pay.econ, work[w].assoc), Verify(work[w].res)} :
         LET res == Policy(row.att, r) IN
         IF Owns(w) /\ ~Regresses(row, res)
           THEN /\ row' = Stored(row, res)
                /\ work' = [work EXCEPT ![w] = [Resolved(@, res, FALSE) EXCEPT !.pc = "saved"]]
           ELSE Drop(w) /\ UNCHANGED row
    /\ UNCHANGED <<evidence, effect, entry, lock, obs, resumes>>

\* The bucket this result moves the execution to (unresolved_effect: it was
\* unclear whether the deal opens or closes); a processed entry is only
\* overwritten by a ledger confirmation, and a duplicate writes nothing.
\* Rejected source facts leave an existing entry alone.  A failure to normalise
\* is filed under the bare deal id, which nobody asks for the execution.
Buckets == {"none", "processed", "skipped", "unresolved", "unresolved_retryable",
            "unresolved_effect", "failed"}
NextEntries(r) ==
    CASE r.st \in {"applied", "ledger_recorded"} -> {"processed"}
      [] \/ r.st \in {"duplicate_deal_id", "not_normalized"}
         \/ r.st # "applied" /\ entry = "processed" -> {entry}
      [] r.st = "not_option_deal" -> {"skipped"}
      [] r.st = "unresolved" /\ r.retry  -> {"unresolved_retryable"}
      [] r.st = "unresolved" /\ ~r.retry -> {"unresolved", "unresolved_effect"}
                                              \cup ({entry} \ {"none"})
      [] OTHER -> {"failed"}

\* write_trade_intake_state inside a second commit scope, which re-checks the
\* claim; a result that writes no entry does not enter it.
WriteState(w) ==
    /\ work[w].pc = "saved"
    /\ \/ /\ work[w].res.st \in {"duplicate_deal_id", "not_normalized"}
          /\ Go(w, "stated") /\ UNCHANGED entry
       \/ /\ work[w].res.st # "duplicate_deal_id" /\ lock = None
          /\ IF Owns(w) THEN entry' \in NextEntries(work[w].res) /\ Go(w, "stated")
                        ELSE UNCHANGED entry /\ Drop(w)
    /\ UNCHANGED <<row, evidence, effect, lock, obs, resumes>>

\* Mutant: a result that still needs verification closes the row.
SettledEarly(r, res, retry, note) ==
    LET new == Policy(r.att, res)
    IN [Unclaimed(Stored(r, new)) EXCEPT
          !.status = IF new.kind = "pending_retry" THEN "pending" ELSE "handled",
          !.wait = 1, !.note = note]

\* _settle_trade_payload: compare-and-set on status, claim and version; a
\* verification stays pending, a recorded or manual result is handled.
Settled(r, res, retry, note) ==
    LET new == Policy(r.att, res)
    IN [Unclaimed(Stored(r, new)) EXCEPT
          !.status = CASE new.kind \in {"recorded", "manual_required"} -> "handled"
                       [] new.kind = "verification_pending"            -> "pending"
                       [] OTHER -> IF retry THEN "pending" ELSE "handled",
          !.wait = 1, !.note = note]

Settle(w) ==
    /\ work[w].pc = "stated"
    /\ row' = IF Owns(w) /\ ~Regresses(row, work[w].res)
                THEN Settled(row, work[w].res, work[w].res.retry, "none") ELSE row
    /\ Drop(w)
    /\ UNCHANGED <<evidence, effect, entry, lock, obs, resumes>>

\* Any other exception (lookup, audit, state file, receipt callback): settle
\* with what is stored, or with a verification of what may have happened.
Fail(w) ==
    /\ work[w].pc \in {"claimed", "resolved", "saved", "stated"}
    /\ LET res == IF row.res = NoRes
                    THEN Mk("unresolved", "verification_pending", FALSE, FALSE) ELSE row.res
       IN row' = IF Owns(w) /\ ~Regresses(row, Policy(row.att, res))
                   THEN Settled(row, res, TRUE, "none") ELSE row
    /\ Drop(w)
    /\ UNCHANGED <<evidence, effect, entry, lock, obs, resumes>>

\* The process dies anywhere; the file lock dies with it.
Crash(w) ==
    /\ work[w].pc # "idle"
    /\ lock' = IF lock = w THEN None ELSE lock
    /\ Drop(w)
    /\ UNCHANGED <<row, evidence, effect, entry, obs, resumes>>

-----------------------------------------------------------------------------
(* The other actors.                                                       *)

\* Mutant: only rows with a stored result are listed.
RecoverableStored(r) ==
    /\ r.allowed /\ r.src \in {"push", "backfill"} /\ r.res # NoRes
    /\ ~LiveClaim(r) /\ r.wait = 0 /\ r.status \in {"pending", "identity_needs_review"}

\* list_trade_receipt_recovery_rows: the rows the receipt thread may verify.
\* (A handled row is re-prepared unchanged: only its delivery moves.)
NeedsReadback(r) == /\ r.status = "pending"
                    /\ r.att > 0 \/ r.res.kind = "verification_pending"
Recoverable(r) ==
    /\ r.allowed /\ r.src \in {"push", "backfill"}
    /\ r.res # NoRes \/ r.att > 0
    /\ ~LiveClaim(r)
    /\ \/ NeedsReadback(r) /\ r.wait = 0
       \/ r.status = "identity_needs_review"

ListRecovery ==
    /\ obs = None /\ Recoverable(row)
    /\ obs' = [row |-> row, evidence |-> evidence]
    /\ UNCHANGED <<row, evidence, effect, entry, lock, work, resumes>>

\* Mutant: a retry that the readback promises closes the row.
RecoveredClosed(r, res) ==
    [Unclaimed(Stored(r, res)) EXCEPT
       !.status = IF res.kind = "verification_pending" THEN "pending" ELSE "handled",
       !.wait = IF res.kind = "verification_pending" THEN 1 ELSE @]

\* recover_trade_intake_receipts: under the writer lock, read back and prepare,
\* by compare-and-set on the whole observation.
Recovered(r, res) ==
    [Unclaimed(Stored(r, res)) EXCEPT
       !.status = IF res.kind \in {"pending_retry", "verification_pending"}
                    THEN "pending" ELSE "handled",
       !.wait = IF res.kind = "verification_pending" THEN 1 ELSE @]

RecoverWith(r) ==
    /\ obs # None /\ lock = None
    /\ obs' = None
    /\ LET res == Policy(row.att, r) IN
         row' = IF /\ row = obs.row /\ evidence = obs.evidence
                   /\ ~LiveClaim(row) /\ ~Regresses(row, res)
                  THEN Recovered(row, res) ELSE row
    /\ UNCHANGED <<evidence, effect, entry, lock, work, resumes>>

\* Only a pending row is read back; any other keeps its stored result.
RecoverReadable ==
    RecoverWith(IF obs # None /\ NeedsReadback(obs.row)
                  THEN Readback(row.res, row.pay.econ, row.pay.assoc) ELSE row.res)
RecoverUnreadable ==
    obs # None /\ NeedsReadback(obs.row) /\ RecoverWith(Verify(row.res))

\* _reconcile_source_completion: the operator closes a row whose effect the
\* ledger proves (once: a reconciled row is left alone); the state file
\* follows, unless the process dies first.
Reconciled == Mk("applied", "null", FALSE, FALSE)

Reconcile ==
    /\ lock = None /\ effect # None
    /\ entry \in {"unresolved", "unresolved_retryable", "unresolved_effect", "failed"}
    /\ row.status \in {"pending", "handled"} /\ ~LiveClaim(row)
    /\ Agrees(row.pay.econ, row.pay.assoc)
    /\ row' = IF row.muted THEN row
                ELSE [Unclaimed(row) EXCEPT !.status = "handled", !.allowed = FALSE,
                                            !.muted = TRUE, !.note = "none",
                                            !.reason = "none", !.res = Reconciled]
    /\ entry' \in {entry, "processed"}
    /\ UNCHANGED <<evidence, effect, lock, work, obs, resumes>>

\* Mutant: the operator's resume does not wait for the writer lock.
ResumeUnlocked ==
    /\ resumes < MaxResumes /\ row.status = "pending"
    /\ row' = [Unclaimed(row) EXCEPT !.att = 0, !.wait = 0, !.note = "resumed"]
    /\ resumes' = resumes + 1
    /\ UNCHANGED <<evidence, effect, entry, lock, work, obs>>

\* resume_trade_payload: the operator asks for another judgement.
Resume ==
    /\ lock = None /\ resumes < MaxResumes
    /\ \/ row.status = "pending"
       \/ row.status = "handled" /\ row.res.kind = "manual_required"
    /\ row' = [Unclaimed(row) EXCEPT !.status = "pending", !.att = 0, !.wait = 0,
                 !.note = "resumed",
                 !.res.kind = IF row.res = NoRes \/ @ = "verification_pending"
                                THEN @ ELSE "pending_retry"]
    /\ resumes' = resumes + 1
    /\ UNCHANGED <<evidence, effect, entry, lock, work, obs>>

Tick ==
    /\ row.lease > 0 \/ row.wait > 0
    /\ row' = [row EXCEPT !.lease = IF @ > 0 THEN @ - 1 ELSE 0, !.wait = 0]
    /\ UNCHANGED <<evidence, effect, entry, lock, work, obs, resumes>>

-----------------------------------------------------------------------------
\* The ledger may already hold the execution (an import, an older release).
Init ==
    /\ row = Absent
    /\ evidence = {}
    /\ effect \in {None} \cup {[econ |-> p.econ, assoc |-> p.assoc] : p \in Payloads}
    /\ entry = "none"
    /\ lock = None
    /\ work = [w \in Workers |-> Idle]
    /\ obs = None
    /\ resumes = 0

Step(w) ==
    \/ Claim(w) \/ NormalizeFails(w) \/ EnterCommit(w) \/ LedgerWrite(w) \/ SkipNonOption(w)
    \/ Save(w) \/ WriteState(w) \/ Settle(w)

Worker(w) ==
    \/ \E s \in Sources \ {"lookup"}, p \in Payloads : Receive(w, s, p)
    \/ \E p \in Payloads, und \in {FALSE, Reviews} : LookupEvidence(w, p, und)
    \/ Retry(w) \/ MarkReview(w) \/ Step(w) \/ Fail(w) \/ Crash(w)

Next ==
    \/ \E w \in Workers : Worker(w)
    \/ ListRecovery \/ RecoverReadable \/ RecoverUnreadable
    \/ Reconcile \/ Resume \/ Tick

Spec == Init /\ [][Next]_vars

\* Scheduling the code provides: the clock runs, the retry loop and the receipt
\* thread keep polling, a live worker goes on; strong where another actor may
\* keep taking the turn (the lock, a claim).  The one assumption about the
\* surroundings: from some time on the stored payload can be normalised and the
\* ledger file be read.
Fairness ==
    /\ WF_vars(Tick)
    /\ WF_vars(ListRecovery)
    /\ SF_vars(RecoverReadable)
    /\ \A w \in Workers : SF_vars(Retry(w)) /\ SF_vars(Step(w))
    /\ <>[][~RecoverUnreadable]_vars

FairSpec == Spec /\ Fairness

-----------------------------------------------------------------------------
(* Properties.                                                             *)

TypeOK ==
    /\ row \in Rows \cup {Absent}
    /\ evidence \subseteq [src : Sources, pay : Payloads]
    /\ effect \in {None} \cup [econ : {p.econ : p \in Payloads},
                               assoc : {p.assoc : p \in Payloads} \cup {None}]
    /\ entry \in Buckets
    /\ lock \in Workers \cup {None}
    /\ work \in [Workers -> Works]
    /\ obs \in {None} \cup [row : Rows, evidence : SUBSET [src : Sources, pay : Payloads]]
    /\ resumes \in 0..MaxResumes

(* The inductive invariant behind the theorems of TradeInboxProofs.         *)

\* A worker that has not yet resolved its deal holds the delivered payload.
PayloadInHand ==
    \A w \in Workers : work[w].pc \in {"enqueued", "claimed", "commit"}
                         => work[w].pay \in Payloads

\* The writer lock is held across steps exactly by the worker in the commit
\* scope, and all that time the row is pending under that worker's claim.
CommitOwnsRow ==
    /\ \A w \in Workers : work[w].pc = "commit" <=> lock = w
    /\ lock # None => Owns(lock)

\* No result in hand, stored or announced says more than the ledger holds.
Claims(res) == res.st \in {"applied", "ledger_recorded"} \/ res.kind = "recorded"
ResultsAreBooked ==
    effect = None => /\ ~Claims(row.res) /\ row.env # "recorded"
                     /\ entry # "processed"
                     /\ \A w \in Workers : ~Claims(work[w].res)

\* The receipt thread never holds the listing of a conflicting row.
ListingIsOpen == obs # None => obs.row.status \in {"pending", "identity_needs_review"}

\* A result that adds nothing to the state file was judged by its entry, and
\* whoever has written the entry finds it there.
EntriesStay ==
    /\ row.res.st = "duplicate_deal_id" => entry # "none"
    /\ \A w \in Workers :
         \/ work[w].res.st = "duplicate_deal_id"
         \/ work[w].pc = "stated" /\ work[w].res.st # "not_normalized"
         => entry # "none"

\* Who could not even normalise the deal lists nothing for the execution, but
\* tries again or asks for a person as soon as the attempt is counted.
FailuresTold ==
    \A w \in Workers : work[w].res.st = "not_normalized" =>
      IF work[w].pc = "resolved" THEN ~work[w].verify /\ work[w].res.kind = "none"
      ELSE \/ work[w].res.kind = "manual_required"
           \/ work[w].res.kind = "pending_retry" /\ work[w].res.retry

IInv == /\ TypeOK /\ PayloadInHand /\ CommitOwnsRow /\ ResultsAreBooked /\ ListingIsOpen
        /\ EntriesStay /\ FailuresTold

\* The ledger may change only for a worker that holds the writer lock and
\* whose claim and payload version are still the row's, on a pending row: a
\* conflict, a takeover or a resume stored first always stops an older claim
\* (trade_payload_commit_scope).
AdoptionIsFenced ==
    [][effect' # effect => /\ lock \in Workers
                           /\ Owns(lock)]_vars

\* What the ledger books agrees with the evidence stored by then: its economic
\* values with every source's, its order with that of every source which
\* confirmed the deal, and no source cancelled it (enqueue_trade_payload judges
\* before any economic use).
AdoptionMatchesEvidence ==
    [][effect' # effect =>
         \A e \in evidence :
           /\ ~Differ(e.pay.econ, effect'.econ)
           /\ e.pay.status \in {"ok", None}
           /\ e.pay.status = "ok" => ~Differ(e.pay.assoc, effect'.assoc)]_vars

\* A row never tells the customer "recorded" without an effect in the ledger,
\* through crashes between the ledger commit and the inbox write-back.
RecordedMeansBooked ==
    /\ row.res.kind = "recorded" \/ row.env = "recorded" => effect # None
    /\ entry = "processed" => effect # None

\* What the row and the ledger show of the execution, and the promise they
\* keep: every step of the inbox is a step of TradeAdoption or none of its.
Held == IF row.status # "conflict" THEN "no"
        ELSE IF row.reason = "missing" THEN "missing" ELSE "hard"
Told == row.res.kind = "recorded" \/ row.env = "recorded"

Promise == INSTANCE TradeAdoption WITH
    Economics <- {p.econ : p \in Payloads},
    Orders    <- {p.assoc : p \in Payloads} \ {None},
    held <- Held, booked <- effect, told <- Told

KeepsPromise == Promise!Spec

\* A judged trade the inbox has put away without an effect stays visible: the
\* row asks for a person or is a stock deal, or the state file lists it.
NoTradeVanishes ==
    row.status = "handled" /\ effect = None /\ row.res.st \notin {"none", "not_option_deal"}
      => row.res.kind = "manual_required" \/ entry # "none"

\* A live row the push or backfill source created, still entitled to receipt
\* recovery, does not stay pending for ever, whatever crashes, unless it ends
\* as a result to be verified by another owner of the ledger: the readback
\* refuses the deal, and neither the retry loop nor a resume takes it again.
PushedRowSettles ==
    (row.status = "pending" /\ row.allowed /\ row.src # "lookup")
      ~> \/ row.status # "pending"
         \/ /\ row.res.kind = "verification_pending"
            /\ Undecidable(row.pay.econ, row.pay.assoc)

(* The inductive invariant behind AdoptionMatchesEvidence, where no lookup   *)
(* contradicts the configured underlying (~Reviews).                        *)

Clean(ev) == /\ \A e, f \in ev : ~Differ(e.pay.econ, f.pay.econ)
             /\ \A e \in ev : e.pay.status \in {"ok", None}
Confirmed(ev) == \A e, f \in ev : e.pay.status = "ok" => ~Differ(e.pay.assoc, f.pay.assoc)

\* Outside a conflict the sources agree; a missing status is all that a
\* conflict which can still be lifted has against them.
EvidenceAgrees ==
    /\ row.status # "conflict" => Clean(evidence)
    /\ row.status # "conflict" \/ row.reason = "missing" => Confirmed(evidence)

\* Nothing a worker holds of the execution is its own invention.
WorkFromEvidence ==
    /\ \A w \in Workers : work[w].pc \in {"enqueued", "claimed", "commit"}
                             => \E e \in evidence : e.pay = work[w].pay
    /\ \A w \in Workers : work[w].assoc # None
                             => \E e \in evidence : e.pay.assoc = work[w].assoc

EvidenceInv == EvidenceAgrees /\ WorkFromEvidence /\ row.reason # "underlying"

-----------------------------------------------------------------------------
(* What the documents say and the code does not do: each is checked by a   *)
(* run that must find it violated.                                         *)

\* "If not yet committed, the original claim resumes" (LEDGER_ARCHITECTURE,
\* re-entry after a crash): without an operator, a handled row without an
\* effect is a manual case or a skipped stock deal.
InterruptedTradeIsJudged ==
    row.status = "handled" /\ effect = None /\ resumes = 0
      => row.res.kind = "manual_required" \/ entry = "skipped"

\* "Neither a retry without a lookup, nor a status supplied later, nor a new
\* association, nor a plain resume lifts this review" (FUTU_TRADE_HOLDINGS_SYNC,
\* on a lookup that contradicts the configured underlying): the row stays there.
ReviewStays ==
    [][row.status = "identity_needs_review" /\ row.reason = "underlying"
         => row'.status = row.status]_vars

\* "A handled execution's new association is reviewed as a new input version,
\* and only fills what is missing" (LEDGER_ARCHITECTURE): once the row is
\* handled as recorded, the effect carries the association its evidence knows.
AssociationReachesLedger ==
    row.status = "handled" /\ row.res.kind = "recorded"
      => \A e \in evidence : e.pay.assoc # None => effect.assoc = e.pay.assoc
=============================================================================
