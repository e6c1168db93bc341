---------------------------- MODULE OperationStore ----------------------------
(***************************************************************************)
(* The confirmed operations of options-monitor's bot: a chat command is     *)
(* previewed, edited, confirmed or cancelled, and then executed, by the     *)
(* handler of the confirming message or by a worker started for it          *)
(* (src/application/bot/control: operation_store.py, operation_lifecycle.py,*)
(* manual_trade_operations.py, monitor_run_operations.py,                   *)
(* upgrade_operations.py).                                                  *)
(*                                                                         *)
(* One operation of one kind.  "config" stands for the two kinds that       *)
(* confirm_and_apply_operation executes (models and monitored symbols),     *)
(* "manual" for trades written by hand.  Handlers are threads or processes  *)
(* that serve messages, workers the processes of `bot upgrade-worker`, which*)
(* the launch of an upgrade or an operator starts.                          *)
(***************************************************************************)
EXTENDS Integers

CONSTANTS
    Handlers, UpgradeWorkers,
    Ttl,       \* ticks until the preview expires
    StaleAge,  \* confirmed_timeout_seconds and running_timeout_seconds, in ticks
    BoxLease,  \* lease_seconds of claim_outbox, in ticks
    MaxEdits   \* bound: edits of the preview

ASSUME OperationAssumption ==
    Ttl \in Nat /\ StaleAge \in Nat /\ BoxLease \in Nat \ {0} /\ MaxEdits \in Nat

VARIABLES
    op,    \* the row of inbound_pending_operations
    box,   \* the row of inbound_operation_outbox: the upgrade's final receipt
    hand,  \* hand[h]: local state of handler h
    upg,   \* upg[w]: local state of worker w
    done,  \* versions of the payload that were executed, with how often (ghost)
    late   \* some sender of the receipt has outlived its lease (ghost)

opVars == <<op, box, hand, upg, done, late>>

-----------------------------------------------------------------------------
Kinds    == {"manual", "monitor", "config", "upgrade"}
Final    == {"applied", "failed", "skipped", "cancelled", "expired"}
Statuses == Final \cup {"previewed", "confirmed", "running"}

\* Times are what is left of them.
OpRows == [kind : Kinds, status : Statuses, ver : 0..MaxEdits, ttl : 0..Ttl, age : 0..StaleAge]
Boxes  == [status : {"none", "pending", "sending", "sent", "failed"}, left : 0..BoxLease,
           says : {"applied", "failed"}]

HandPCs == {"idle", "check", "mark", "launch", "run", "apply", "record", "cancel", "edit",
            "recover", "prove"}
HandIdle == [pc |-> "idle", ver |-> 0, was |-> "previewed", out |-> "failed"]
Hands == [pc : HandPCs, ver : 0..MaxEdits, was : Statuses, out : {"applied", "skipped", "failed"}]

UpgPCs == {"idle", "mark", "apply", "record", "look", "claim", "send", "answer"}
UpgIdle == [pc |-> "idle", out |-> "failed", ok |-> FALSE]
Upgs == [pc : UpgPCs, out : {"applied", "failed"}, ok : BOOLEAN]

Handing(h, pc)   == hand[h].pc = pc
HandGo(h, pc)    == hand' = [hand EXCEPT ![h].pc = pc]
HandEnd(h)       == hand' = [hand EXCEPT ![h] = HandIdle]
Upgrading(w, pc) == upg[w].pc = pc
UpgGo(w, pc)     == upg' = [upg EXCEPT ![w].pc = pc]
UpgEnd(w)        == upg' = [upg EXCEPT ![w] = UpgIdle]

\* A write of status s that expects one of the statuses in from, or none of them.
CAS(from, s) == op' = IF op.status \in from THEN [op EXCEPT !.status = s] ELSE op
Unfinished   == {"previewed", "confirmed", "running"}
Execute(v)   == done' = [ver |-> v, times |-> done.times + 1]

-----------------------------------------------------------------------------
(* The store's own sweep, and the messages.                                *)

\* reconcile_stale_operations, which precedes every listing and resolution.
Swept(r) == IF r.status = "previewed" /\ r.ttl = 0 THEN [r EXCEPT !.status = "expired"]
            ELSE IF r.status \in {"confirmed", "running"} /\ r.age = 0 /\ r.kind # "manual"
            THEN [r EXCEPT !.status = "failed"] ELSE r

Sweep == /\ op' = Swept(op) /\ op' # op
         /\ UNCHANGED <<box, hand, upg, done, late>>

\* A message is resolved to the operation; a confirmation of a trade also to
\* one that was confirmed before, or failed.
Ask(h) ==
    /\ Handing(h, "idle")
    /\ op' = Swept(op)
    /\ \E pc \in {"check", "cancel", "edit", "recover"} :
         /\ pc = "check"   => op'.status = "previewed"
         /\ pc = "cancel"  => op'.status \in {"previewed", "expired"}
         /\ pc = "edit"    => op'.status = "previewed" /\ op'.kind = "manual"
         /\ pc = "recover" => op'.status \in {"confirmed", "running", "failed"} /\ op'.kind = "manual"
         /\ hand' = [hand EXCEPT ![h] = [HandIdle EXCEPT !.pc = pc, !.ver = op'.ver, !.was = op'.status]]
    /\ UNCHANGED <<box, upg, done, late>>

\* Mutant: the preview is edited whatever has become of the operation.
EditAnyway(h) ==
    /\ Handing(h, "edit") /\ op.ver < MaxEdits
    /\ op' = [op EXCEPT !.ver = @ + 1]
    /\ HandEnd(h)
    /\ UNCHANGED <<box, upg, done, late>>

\* update_preview
Edit(h) ==
    /\ Handing(h, "edit") /\ op.ver < MaxEdits
    /\ op' = IF op.status = "previewed" THEN [op EXCEPT !.ver = @ + 1] ELSE op
    /\ HandEnd(h)
    /\ UNCHANGED <<box, upg, done, late>>

\* cancel_pending_operation_or_raise: mark_cancelled
Cancel(h) ==
    /\ Handing(h, "cancel")
    /\ CAS({"previewed"}, "cancelled")
    /\ HandEnd(h)
    /\ UNCHANGED <<box, upg, done, late>>

\* confirm_previewed_operation_or_raise: the clock, then mark_confirmed, which
\* expects the payload that was read.
CheckConfirm(h) ==
    /\ Handing(h, "check")
    /\ IF op.ttl = 0
       THEN CAS({"previewed"}, "expired") /\ HandEnd(h)
       ELSE HandGo(h, "mark") /\ UNCHANGED op
    /\ UNCHANGED <<box, upg, done, late>>

AfterConfirm == IF op.kind = "upgrade" THEN "launch" ELSE IF op.kind = "monitor" THEN "run" ELSE "apply"
Confirm(h) ==
    /\ Handing(h, "mark")
    /\ IF op.status = "previewed" /\ op.ver = hand[h].ver
       THEN /\ op' = [op EXCEPT !.status = "confirmed", !.age = StaleAge]
            /\ HandGo(h, AfterConfirm)
       ELSE HandEnd(h) /\ UNCHANGED op
    /\ UNCHANGED <<box, upg, done, late>>

\* The upgrade worker is launched, or that fails, or seems to (a timeout).
Launch(h) ==
    /\ Handing(h, "launch")
    /\ \/ UNCHANGED op
       \/ CAS(Unfinished, "failed")
    /\ HandEnd(h)
    /\ UNCHANGED <<box, upg, done, late>>

\* A monitor run marks itself running.
Run(h) ==
    /\ Handing(h, "run")
    /\ CAS({"confirmed"}, "running")
    /\ IF op.status = "confirmed" THEN HandGo(h, "apply") ELSE HandEnd(h)
    /\ UNCHANGED <<box, upg, done, late>>

\* The execution, or its failure: of a trade nothing is recorded then, since
\* the ledger may have been written; a failed preview of a trade wrote nothing.
Apply(h) ==
    /\ Handing(h, "apply")
    /\ \/ \E out \in {"applied", "skipped", "failed"} :
            /\ out = "skipped" => op.kind = "monitor"
            /\ out = "failed" => op.kind # "manual"
            /\ \/ out \in {"applied", "failed"} /\ Execute(hand[h].ver)
               \/ out \in {"skipped", "failed"} /\ UNCHANGED done
            /\ hand' = [hand EXCEPT ![h].pc = "record", ![h].out = out]
            /\ UNCHANGED op
       \/ /\ op.kind = "manual"
          /\ Execute(hand[h].ver) \/ UNCHANGED done
          /\ HandEnd(h) /\ UNCHANGED op
       \/ /\ op.kind = "manual"
          /\ CAS(Unfinished, "failed")
          /\ HandEnd(h) /\ UNCHANGED done
    /\ UNCHANGED <<box, upg, late>>

\* What is expected of the row when the outcome is recorded: the executors of
\* configurations and monitor runs expect nothing of it when they succeed.
Recorded(h) ==
    CASE hand[h].out = "failed"  -> CAS(Unfinished, "failed")
      [] hand[h].out = "skipped" -> CAS({"running"}, "skipped")
      [] hand[h].out = "applied" ->
           CAS(IF op.kind = "manual"
               THEN IF op.ver = hand[h].ver THEN {"confirmed"} ELSE {}
               ELSE Statuses, "applied")

Record(h) ==
    /\ Handing(h, "record")
    /\ Recorded(h)
    /\ HandEnd(h)
    /\ UNCHANGED <<box, upg, done, late>>

\* _recover_operation: the ledger holds the trade under the operation's id.
Recover(h) ==
    /\ Handing(h, "recover")
    /\ IF done.times > 0 THEN HandGo(h, "prove") ELSE HandEnd(h)
    /\ UNCHANGED <<op, box, upg, done, late>>

Prove(h) ==
    /\ Handing(h, "prove")
    /\ CAS(IF op.ver = hand[h].ver THEN {hand[h].was} ELSE {}, "applied")
    /\ HandEnd(h)
    /\ UNCHANGED <<box, upg, done, late>>

-----------------------------------------------------------------------------
(* The upgrade worker and the final receipt.                               *)

\* run_confirmed_upgrade_operation: a finished operation may still owe its receipt.
Fetch(w) ==
    /\ Upgrading(w, "idle") /\ op.kind = "upgrade"
    /\ \/ /\ op.status \in {"applied", "failed"} /\ box.status \notin {"none", "sent"}
          /\ UpgGo(w, "look")
       \/ /\ op.status = "confirmed"
          /\ UpgGo(w, "mark")
    /\ UNCHANGED <<op, box, hand, done, late>>

MarkRunning(w) ==
    /\ Upgrading(w, "mark")
    /\ CAS({"confirmed"}, "running")
    /\ IF op.status = "confirmed" THEN UpgGo(w, "apply") ELSE UpgEnd(w)
    /\ UNCHANGED <<box, hand, done, late>>

Upgrade(w) ==
    /\ Upgrading(w, "apply")
    /\ \E out \in {"applied", "failed"} :
         /\ \/ Execute(op.ver)
            \/ out = "failed" /\ UNCHANGED done
         /\ upg' = [upg EXCEPT ![w].pc = "record", ![w].out = out]
    /\ UNCHANGED <<op, box, hand, late>>

\* Mutant: the terminal status is written whatever the row says.
TerminalAnyway(w) ==
    /\ Upgrading(w, "record")
    /\ op' = [op EXCEPT !.status = upg[w].out]
    /\ box' = IF box.status = "none" THEN [status |-> "pending", left |-> 0, says |-> upg[w].out] ELSE box
    /\ UpgGo(w, "look")
    /\ UNCHANGED <<hand, done, late>>

\* mark_terminal_with_outbox: status and receipt in one transaction.
Terminal(w) ==
    /\ Upgrading(w, "record")
    /\ LET out == upg[w].out
       IN  IF op.status \in {"confirmed", "running", out}
           THEN /\ op' = [op EXCEPT !.status = out]
                /\ box' = IF box.status = "none" THEN [status |-> "pending", left |-> 0, says |-> out] ELSE box
                /\ UpgGo(w, "look")
           ELSE UpgEnd(w) /\ UNCHANGED <<op, box>>
    /\ UNCHANGED <<hand, done, late>>

\* _dispatch_final_receipt_outbox: the receipt is looked at; the channel may be off.
Look(w) ==
    /\ Upgrading(w, "look")
    /\ \/ box.status # "sent" /\ UpgGo(w, "claim")
       \/ UpgEnd(w)
    /\ UNCHANGED <<op, box, hand, done, late>>

\* Mutant: what was looked at is claimed.
ClaimableAnyway == box.status # "none"
\* claim_outbox
Claimable == box.status \in {"pending", "failed"} \/ (box.status = "sending" /\ box.left = 0)
ClaimBox(w) ==
    /\ Upgrading(w, "claim")
    /\ IF Claimable
       THEN box' = [box EXCEPT !.status = "sending", !.left = BoxLease] /\ UpgGo(w, "send")
       ELSE UpgEnd(w) /\ UNCHANGED box
    /\ UNCHANGED <<op, hand, done, late>>

SendReceipt(w) ==
    /\ Upgrading(w, "send")
    /\ \E ok \in BOOLEAN : upg' = [upg EXCEPT ![w].pc = "answer", ![w].ok = ok]
    /\ UNCHANGED <<op, box, hand, done, late>>

\* complete_outbox does not ask who has claimed the receipt.
CompleteBox(w) ==
    /\ Upgrading(w, "answer")
    /\ box' = [box EXCEPT !.status = IF upg[w].ok THEN "sent" ELSE "failed"]
    /\ UpgEnd(w)
    /\ UNCHANGED <<op, hand, done, late>>

-----------------------------------------------------------------------------
(* Crashes and the clock.                                                  *)

CrashHandler(h) == /\ ~Handing(h, "idle") /\ HandEnd(h)
                   /\ UNCHANGED <<op, box, upg, done, late>>
CrashUpgrade(w) == /\ ~Upgrading(w, "idle") /\ UpgEnd(w)
                   /\ UNCHANGED <<op, box, hand, done, late>>

Sender(w) == upg[w].pc \in {"send", "answer"}
Sooner(n) == IF n = 0 THEN 0 ELSE n - 1
TickOperation ==
    /\ op' = [op EXCEPT !.ttl = Sooner(@), !.age = Sooner(@)]
    /\ box' = [box EXCEPT !.left = Sooner(@)]
    /\ late' = (late \/ (box'.left = 0 /\ \E w \in UpgradeWorkers : Sender(w)))
    /\ UNCHANGED <<hand, upg, done>>

-----------------------------------------------------------------------------
OpInit ==
    /\ op \in [kind : Kinds, status : {"previewed"}, ver : {0}, ttl : {Ttl}, age : {0}]
    /\ box = [status |-> "none", left |-> 0, says |-> "failed"]
    /\ hand = [h \in Handlers |-> HandIdle]
    /\ upg = [w \in UpgradeWorkers |-> UpgIdle]
    /\ done = [ver |-> 0, times |-> 0] /\ late = FALSE

Handle(h) ==
    \/ Ask(h) \/ Edit(h) \/ Cancel(h) \/ CheckConfirm(h) \/ Confirm(h) \/ Launch(h) \/ Run(h)
    \/ Apply(h) \/ Record(h) \/ Recover(h) \/ Prove(h) \/ CrashHandler(h)
Work(w) ==
    \/ Fetch(w) \/ MarkRunning(w) \/ Upgrade(w) \/ Terminal(w) \/ Look(w) \/ ClaimBox(w)
    \/ SendReceipt(w) \/ CompleteBox(w) \/ CrashUpgrade(w)

OpNext ==
    \/ Sweep \/ TickOperation
    \/ \E h \in Handlers : Handle(h)
    \/ \E w \in UpgradeWorkers : Work(w)

OpSpec == OpInit /\ [][OpNext]_opVars

-----------------------------------------------------------------------------
OpTypeOK ==
    /\ op \in OpRows /\ box \in Boxes /\ late \in BOOLEAN
    /\ hand \in [Handlers -> Hands] /\ upg \in [UpgradeWorkers -> Upgs]
    /\ done \in [ver : 0..MaxEdits, times : Nat]

\* What the row says is what happened: an operation is executed once at most
\* and as it was confirmed; one that was never confirmed, cancelled, expired or
\* skipped was not executed, one that is applied was, a trade that failed is not
\* in the ledger, and a final receipt tells the status the row has.
StatusIsTrue ==
    /\ done.times <= 1 /\ (done.times = 1 => done.ver = op.ver)
    /\ op.status \in {"previewed", "cancelled", "expired", "skipped"} => done.times = 0
    /\ op.status = "applied" => done.times = 1
    /\ op.status = "failed" /\ op.kind = "manual" => done.times = 0
    /\ box.status # "none" => op.status = box.says

\* Handlers between the confirmation and the outcome, workers between their mark
\* and the outcome.
Executing(h) == hand[h].pc \in {"launch", "run", "apply", "record"}
Busy(w)      == upg[w].pc \in {"apply", "record"}

\* What a handler holds fits the operation, so does what a worker holds.
HandFits(c) ==
    /\ c.pc \in {"launch", "run", "apply", "record"} =>
         /\ op.status \notin {"previewed", "cancelled", "expired", "skipped"} /\ c.ver = op.ver
         /\ op.kind = "manual" /\ done.times = 0 => op.status = "confirmed"
         /\ c.pc = "launch" <=> op.kind = "upgrade"
    /\ c.pc = "run" => op.kind = "monitor" /\ done.times = 0
    /\ c.pc = "apply" => done.times = 0
    /\ c.pc = "record" =>
         /\ c.out = "applied" => done.times = 1
         /\ c.out = "skipped" => done.times = 0 /\ op.kind = "monitor"
         /\ c.out = "failed" => op.kind # "manual"
    /\ c.pc = "prove" => op.kind = "manual" /\ done.times = 1
    /\ c.pc \in {"edit", "recover"} => op.kind = "manual"
WorkFits(c) ==
    /\ c.pc # "idle" => op.kind = "upgrade"
    /\ c.pc \in {"apply", "record"} =>
         op.status \notin {"previewed", "confirmed", "cancelled", "expired"} /\ box.status = "none"
    /\ c.pc = "apply" => done.times = 0
    /\ c.pc = "record" /\ c.out = "applied" => done.times = 1
    /\ c.pc \in {"look", "claim", "send", "answer"} => box.status # "none"

\* Whoever confirmed executes alone, and so does whoever marked it as running.
HandsAgree ==
    /\ \A h, g \in Handlers : Executing(h) /\ Executing(g) => h = g
    /\ \A h \in Handlers : HandFits(hand[h])
WorkersAgree ==
    /\ \A w, v \in UpgradeWorkers : Busy(w) /\ Busy(v) => w = v
    /\ \A w \in UpgradeWorkers : WorkFits(upg[w])
    /\ box.status # "none" => op.kind = "upgrade"

\* While no sender has outlived its lease, the one sender holds the receipt.
SendersHold ==
    ~late =>
      /\ \A w, v \in UpgradeWorkers : Sender(w) /\ Sender(v) => w = v
      /\ \A w \in UpgradeWorkers : Sender(w) => box.status = "sending" /\ box.left > 0

\* An operation that still waits has not been executed; a trade that has been is
\* confirmed or applied, whatever its executor's fate.
WaitingIsUndone ==
    /\ op.status = "confirmed" /\ op.kind \in {"monitor", "upgrade"} => done.times = 0
    /\ op.status = "confirmed" /\ op.kind = "monitor" => \A h \in Handlers : hand[h].pc \notin {"apply", "record"}
    /\ op.kind = "manual" /\ done.times = 1 => op.status \in {"confirmed", "applied"}
    /\ op.kind # "monitor" => op.status # "skipped"
    /\ op.kind \in {"manual", "config"} => op.status # "running"

\* The inductive invariant of the proofs: the types, that an operation is
\* executed once at most and the row tells the truth about it, and what this
\* rests on.
OpInv == OpTypeOK /\ StatusIsTrue /\ HandsAgree /\ WorkersAgree /\ SendersHold /\ WaitingIsUndone

\* A final status stays, save that a late executor turns failed into applied
\* when it has in fact executed the operation.
FinalStays ==
    [][op.status \in Final /\ op'.status # op.status =>
         op.status = "failed" /\ op'.status = "applied" /\ done.times = 1 /\ op.kind \in {"config", "monitor"}]_opVars

\* A receipt recorded as sent stays so and is not sent again, unless some
\* sender has outlived its lease.
SentStays == [][box.status = "sent" /\ ~late => box'.status = "sent"]_opVars
=============================================================================
