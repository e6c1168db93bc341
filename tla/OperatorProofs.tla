------------------------------ MODULE OperatorProofs ------------------------------
(***************************************************************************)
(* Proofs about what an operator starts.  OperationStore, for any number of *)
(* handlers, workers and edits and any times: an operation is executed once *)
(* at most and as it was confirmed, and its row and its final receipt tell  *)
(* what happened.  ConfigTransaction, for any number of publishers and      *)
(* targets: publications are all or nothing, a committed generation is      *)
(* never taken back, and what was written by hand beside a waiting          *)
(* transaction stays.                                                       *)
(***************************************************************************)
EXTENDS OperationStore, ConfigTransaction, TLAPS

(***************************************************************************)
(* The operation store.                                                     *)
(***************************************************************************)

(* What a step makes of a handler, of a worker and of the row.             *)

LEMMA HandTo ==
    ASSUME OpTypeOK, NEW h \in Handlers, NEW z \in Hands, hand' = [hand EXCEPT ![h] = z]
    PROVE  /\ hand' \in [Handlers -> Hands] /\ hand'[h] = z
           /\ \A g \in Handlers \ {h} : hand'[g] = hand[g]
  BY DEF OpTypeOK

LEMMA HandGoes ==
    ASSUME OpTypeOK, NEW h \in Handlers, NEW pc \in HandPCs, HandGo(h, pc)
    PROVE  /\ hand' \in [Handlers -> Hands] /\ hand'[h].pc = pc
           /\ hand'[h].ver = hand[h].ver /\ hand'[h].was = hand[h].was /\ hand'[h].out = hand[h].out
           /\ \A g \in Handlers \ {h} : hand'[g] = hand[g]
  <1> DEFINE z == [hand[h] EXCEPT !.pc = pc]
  <1>1. z \in Hands /\ z.pc = pc /\ z.ver = hand[h].ver /\ z.was = hand[h].was /\ z.out = hand[h].out
    BY DEF OpTypeOK, Hands
  <1>2. hand' = [hand EXCEPT ![h] = z]
    BY DEF HandGo
  <1> HIDE DEF z
  <1>3. QED BY <1>1, <1>2, HandTo

LEMMA IdleHand == HandIdle \in Hands /\ HandIdle.pc = "idle"
  BY OperationAssumption DEF HandIdle, Hands, HandPCs, Statuses

LEMMA HandEnds ==
    ASSUME OpTypeOK, NEW h \in Handlers, HandEnd(h)
    PROVE  /\ hand' \in [Handlers -> Hands] /\ hand'[h].pc = "idle"
           /\ \A g \in Handlers \ {h} : hand'[g] = hand[g]
  BY IdleHand, HandTo DEF HandEnd

LEMMA UpgTo ==
    ASSUME OpTypeOK, NEW w \in UpgradeWorkers, NEW z \in Upgs, upg' = [upg EXCEPT ![w] = z]
    PROVE  /\ upg' \in [UpgradeWorkers -> Upgs] /\ upg'[w] = z
           /\ \A v \in UpgradeWorkers \ {w} : upg'[v] = upg[v]
  BY DEF OpTypeOK

LEMMA UpgGoes ==
    ASSUME OpTypeOK, NEW w \in UpgradeWorkers, NEW pc \in UpgPCs, UpgGo(w, pc)
    PROVE  /\ upg' \in [UpgradeWorkers -> Upgs] /\ upg'[w].pc = pc /\ upg'[w].out = upg[w].out
           /\ \A v \in UpgradeWorkers \ {w} : upg'[v] = upg[v]
  <1> DEFINE z == [upg[w] EXCEPT !.pc = pc]
  <1>1. z \in Upgs /\ z.pc = pc /\ z.out = upg[w].out
    BY DEF OpTypeOK, Upgs
  <1>2. upg' = [upg EXCEPT ![w] = z]
    BY DEF UpgGo
  <1> HIDE DEF z
  <1>3. QED BY <1>1, <1>2, UpgTo

LEMMA UpgEnds ==
    ASSUME OpTypeOK, NEW w \in UpgradeWorkers, UpgEnd(w)
    PROVE  /\ upg' \in [UpgradeWorkers -> Upgs] /\ upg'[w].pc = "idle"
           /\ \A v \in UpgradeWorkers \ {w} : upg'[v] = upg[v]
  <1>1. UpgIdle \in Upgs /\ UpgIdle.pc = "idle"
    BY DEF UpgIdle, Upgs, UpgPCs
  <1>2. QED BY <1>1, UpgTo DEF UpgEnd

LEMMA StatusTo ==
    ASSUME OpTypeOK, NEW s \in Statuses, op' = [op EXCEPT !.status = s]
    PROVE  op' \in OpRows /\ op'.status = s /\ op'.kind = op.kind /\ op'.ver = op.ver
  BY DEF OpTypeOK, OpRows

LEMMA StatusMoves ==
    ASSUME OpTypeOK, NEW from, NEW s \in Statuses, CAS(from, s)
    PROVE  /\ op' \in OpRows /\ op'.kind = op.kind /\ op'.ver = op.ver
           /\ op'.status = IF op.status \in from THEN s ELSE op.status
  BY StatusTo DEF CAS, OpTypeOK

-----------------------------------------------------------------------------
(* Kinds of steps.                                                         *)

\* One handler goes on or ends, in its place, and nothing else changes.
LEMMA HandMoves ==
    ASSUME OpInv, NEW h \in Handlers, hand' \in [Handlers -> Hands],
           \A g \in Handlers \ {h} : hand'[g] = hand[g],
           UNCHANGED <<op, box, upg, done, late>>,
           HandFits(hand[h])', Executing(h)' => Executing(h),
           Handing(h, "apply")' \/ Handing(h, "record")' => Handing(h, "apply") \/ Handing(h, "record")
    PROVE  OpInv'
  <1> USE DEF OpInv
  <1>1. OpTypeOK'
    BY DEF OpTypeOK
  <1>2. StatusIsTrue'
    BY DEF StatusIsTrue
  <1>3. HandsAgree'
    BY DEF HandsAgree, HandFits, Executing
  <1>4. WorkersAgree'
    BY DEF WorkersAgree, WorkFits, Busy
  <1>5. SendersHold'
    BY DEF SendersHold, Sender
  <1>6. WaitingIsUndone'
    BY DEF WaitingIsUndone, Handing
  <1>7. QED BY <1>1, <1>2, <1>3, <1>4, <1>5, <1>6

\* A handler ends, or goes where it holds nothing, and the status may change in
\* a way that suits all the others.
LEMMA StatusKeeps ==
    ASSUME OpInv, NEW h \in Handlers, hand' \in [Handlers -> Hands],
           \A g \in Handlers \ {h} : hand'[g] = hand[g],
           hand'[h].pc = "idle", UNCHANGED <<box, upg, done, late>>,
           op' \in OpRows, op'.kind = op.kind, op'.ver = op.ver,
           \/ op'.status = op.status
           \/ /\ op'.status \in {"failed", "applied", "skipped"}
              /\ Executing(h) \/ Handing(h, "prove")
              /\ op.status \notin {"previewed", "cancelled", "expired"}
              /\ op'.status = "applied" => done.times = 1
              /\ op'.status = "skipped" => done.times = 0 /\ op.kind = "monitor"
              /\ op'.status = "failed" => op.kind # "manual" \/ done.times = 0
              /\ box.status = "none"
           \/ op.status = "previewed" /\ op'.status \in {"cancelled", "expired"}
    PROVE  OpInv'
  <1> USE DEF OpInv
  <1>1. OpTypeOK'
    BY DEF OpTypeOK
  <1>2. StatusIsTrue'
    BY DEF StatusIsTrue, OpTypeOK, Boxes
  <1>3. HandsAgree'
    <2>1. \A g, k \in Handlers : Executing(g)' /\ Executing(k)' => g = k
      BY DEF HandsAgree, Executing
    <2>2. HandFits(hand[h])'
      BY DEF HandFits
    <2>3. ASSUME NEW g \in Handlers \ {h} PROVE HandFits(hand[g])'
      <3>1. HandFits(hand[g]) /\ hand'[g] = hand[g]
        BY DEF HandsAgree
      <3>2. CASE Executing(g)
        <4>1. ~Executing(h) /\ op.status \notin {"previewed", "cancelled", "expired", "skipped"}
          BY <3>1, <3>2 DEF HandsAgree, HandFits, Executing
        <4>2. op'.status \notin {"previewed", "cancelled", "expired", "skipped"}
          BY <4>1 DEF HandsAgree, HandFits, Handing
        <4>3. op.kind = "manual" /\ done.times = 0 => op'.status = "confirmed"
          <5>1. Handing(h, "prove") => done.times = 1
            BY DEF HandsAgree, HandFits, Handing
          <5>2. op.kind = "manual" /\ done.times = 0 => op.status = "confirmed"
            BY <3>1, <3>2 DEF HandFits, Executing
          <5>3. QED BY <4>1, <5>1, <5>2
        <4>4. QED BY <3>1, <4>2, <4>3 DEF HandFits
      <3>3. CASE ~Executing(g)
        BY <3>1, <3>3 DEF HandFits, Executing
      <3>4. QED BY <3>2, <3>3
    <2>4. QED BY <2>1, <2>2, <2>3 DEF HandsAgree
  <1>4. WorkersAgree'
    BY DEF WorkersAgree, WorkFits, Busy
  <1>5. SendersHold'
    BY DEF SendersHold, Sender
  <1>6. WaitingIsUndone'
    BY DEF WaitingIsUndone, Handing
  <1>7. QED BY <1>1, <1>2, <1>3, <1>4, <1>5, <1>6

-----------------------------------------------------------------------------
(* One step per action: the messages.                                      *)

LEMMA SweptRow ==
    ASSUME OpInv
    PROVE  /\ Swept(op) \in OpRows /\ Swept(op).kind = op.kind /\ Swept(op).ver = op.ver
           /\ \/ Swept(op) = op
              \/ op.status = "previewed" /\ Swept(op).status = "expired"
              \/ op.status \in {"confirmed", "running"} /\ op.kind # "manual" /\ Swept(op).status = "failed"
  <1>1. op \in OpRows /\ "expired" \in Statuses /\ "failed" \in Statuses
    BY DEF OpInv, OpTypeOK, Statuses, Final
  <1>2. ASSUME NEW s \in Statuses
        PROVE  LET r == [op EXCEPT !.status = s]
               IN  r \in OpRows /\ r.kind = op.kind /\ r.ver = op.ver /\ r.status = s
    BY <1>1 DEF OpRows
  <1>3. CASE op.status = "previewed" /\ op.ttl = 0
    BY <1>1, <1>2, <1>3 DEF Swept
  <1>4. CASE ~(op.status = "previewed" /\ op.ttl = 0)
    BY <1>1, <1>2, <1>4 DEF Swept
  <1>5. QED BY <1>3, <1>4

\* The store's own sweep may expire a preview, and fail what runs too long.
LEMMA SweepKeeps ==
    ASSUME OpInv, op' = Swept(op), hand' \in [Handlers -> Hands],
           NEW H \in SUBSET Handlers,
           \A g \in Handlers \ H : hand'[g] = hand[g],
           \A h \in H : ~Executing(h)' /\ HandFits(hand[h])',
           UNCHANGED <<box, upg, done, late>>
    PROVE  OpInv'
  <1> USE DEF OpInv
  <1> DEFINE row == Swept(op)
  <1>1. /\ row \in OpRows /\ row.kind = op.kind /\ row.ver = op.ver
        /\ \/ row = op
           \/ op.status = "previewed" /\ row.status = "expired"
           \/ op.status \in {"confirmed", "running"} /\ op.kind # "manual" /\ row.status = "failed"
    BY SweptRow
  <1>2. op' = row
    OBVIOUS
  <1> HIDE DEF row
  <1>3. /\ op' \in OpRows /\ op'.kind = op.kind /\ op'.ver = op.ver
        /\ \/ op'.status = op.status
           \/ op.status = "previewed" /\ op'.status = "expired"
           \/ op.status \in {"confirmed", "running"} /\ op.kind # "manual" /\ op'.status = "failed"
    BY <1>1, <1>2
  <1>4. OpTypeOK'
    BY <1>3 DEF OpTypeOK
  <1>5. StatusIsTrue'
    BY <1>3 DEF StatusIsTrue, OpTypeOK, Boxes
  <1>6. HandsAgree'
    <2>1. ASSUME NEW g \in Handlers \ H PROVE HandFits(hand[g])'
      <3>1. HandFits(hand[g]) /\ hand'[g] = hand[g]
        BY DEF HandsAgree
      <3>2. QED BY <1>3, <3>1 DEF HandFits
    <2>2. \A g, k \in Handlers : Executing(g)' /\ Executing(k)' => g = k
      BY DEF HandsAgree, Executing
    <2>3. QED BY <2>1, <2>2 DEF HandsAgree
  <1>7. WorkersAgree'
    BY <1>3 DEF WorkersAgree, WorkFits, Busy
  <1>8. SendersHold'
    BY DEF SendersHold, Sender
  <1>9. WaitingIsUndone'
    <2>1. op'.status = "confirmed" => op.status = "confirmed"
      BY <1>3
    <2>2. op'.status = "confirmed" /\ op'.kind = "monitor" =>
            \A g \in Handlers : hand'[g].pc \notin {"apply", "record"}
      <3>1. \A g \in H : hand'[g].pc \notin {"apply", "record"}
        BY DEF Executing
      <3>2. QED BY <1>3, <2>1, <3>1 DEF WaitingIsUndone
    <2>3. QED BY <1>3, <2>1, <2>2 DEF WaitingIsUndone
  <1>10. QED BY <1>4, <1>5, <1>6, <1>7, <1>8, <1>9

LEMMA SweepStepKeeps == ASSUME OpInv, Sweep PROVE OpInv'
  <1>1. hand' \in [Handlers -> Hands] /\ \A g \in Handlers : hand'[g] = hand[g]
    BY DEF Sweep, OpInv, OpTypeOK
  <1>2. op' = Swept(op) /\ UNCHANGED <<box, upg, done, late>>
    BY DEF Sweep
  <1>3. {} \in SUBSET Handlers /\ \A g \in Handlers \ {} : hand'[g] = hand[g]
    BY <1>1
  <1>4. \A h \in {} : ~Executing(h)' /\ HandFits(hand[h])'
    OBVIOUS
  <1>5. QED BY <1>1, <1>2, <1>3, <1>4, SweepKeeps

LEMMA AskKeeps == ASSUME OpInv, NEW h \in Handlers, Ask(h) PROVE OpInv'
  <1>1. PICK pc \in {"check", "cancel", "edit", "recover"} :
          /\ pc = "edit" => op'.kind = "manual"
          /\ pc = "recover" => op'.kind = "manual"
          /\ hand' = [hand EXCEPT ![h] = [HandIdle EXCEPT !.pc = pc, !.ver = op'.ver, !.was = op'.status]]
    BY DEF Ask
  <1>2. op' = Swept(op) /\ UNCHANGED <<box, upg, done, late>>
    BY DEF Ask
  <1>3. op'.ver \in 0..MaxEdits /\ op'.status \in Statuses
    BY <1>2, SweptRow DEF OpRows
  <1> DEFINE v == op'.ver
             s == op'.status
             x == [HandIdle EXCEPT !.pc = pc]
             y == [x EXCEPT !.ver = v]
             z == [y EXCEPT !.was = s]
  <1>4. hand' = [hand EXCEPT ![h] = z] /\ v \in 0..MaxEdits /\ s \in Statuses
    BY <1>1, <1>3
  <1> HIDE DEF v, s
  <1>5. x \in Hands /\ x.pc = pc
    BY IdleHand DEF Hands, HandPCs
  <1> HIDE DEF x
  <1>6. y \in Hands /\ y.pc = pc
    BY <1>4, <1>5 DEF Hands
  <1> HIDE DEF y
  <1>7. z \in Hands /\ z.pc = pc
    BY <1>4, <1>6 DEF Hands
  <1> HIDE DEF z
  <1>8. /\ hand' \in [Handlers -> Hands] /\ hand'[h].pc = pc
        /\ \A g \in Handlers \ {h} : hand'[g] = hand[g]
    BY <1>4, <1>7, HandTo DEF OpInv
  <1>9. ~Executing(h)' /\ HandFits(hand[h])'
    BY <1>1, <1>8 DEF Executing, HandFits
  <1>10. \A g \in {h} : ~Executing(g)' /\ HandFits(hand[g])'
    BY <1>9
  <1>11. {h} \in SUBSET Handlers
    OBVIOUS
  <1>12. /\ hand' \in [Handlers -> Hands]
         /\ \A g \in Handlers \ {h} : hand'[g] = hand[g]
    BY <1>8
  <1>13. op' = Swept(op) /\ UNCHANGED <<box, upg, done, late>>
    BY <1>2
  <1>14. QED BY <1>10, <1>11, <1>12, <1>13, SweepKeeps

LEMMA EditKeeps == ASSUME OpInv, NEW h \in Handlers, Edit(h) PROVE OpInv'
  <1> USE DEF OpInv
  <1>1. /\ hand' \in [Handlers -> Hands] /\ hand'[h].pc = "idle"
        /\ \A g \in Handlers \ {h} : hand'[g] = hand[g]
    BY HandEnds DEF Edit
  <1>2. UNCHANGED <<box, upg, done, late>>
    BY DEF Edit
  <1>3. CASE op.status = "previewed"
    <2> DEFINE v == op.ver + 1
    <2>1. v \in 0..MaxEdits
      BY OperationAssumption DEF Edit, OpTypeOK, OpRows
    <2>2. op' = [op EXCEPT !.ver = v]
      BY <1>3 DEF Edit
    <2> HIDE DEF v
    <2>3. op' \in OpRows /\ op'.status = "previewed" /\ op'.kind = op.kind
      BY <1>3, <2>1, <2>2 DEF OpTypeOK, OpRows
    <2>4. OpTypeOK'
      BY <1>1, <1>2, <2>3 DEF OpTypeOK
    <2>5. done.times = 0 /\ box.status = "none"
      BY <1>3 DEF StatusIsTrue, OpTypeOK, Boxes
    <2>6. StatusIsTrue'
      BY <1>2, <2>3, <2>5 DEF StatusIsTrue
    <2>7. HandsAgree'
      <3>1. \A g \in Handlers : ~Executing(g)
        BY <1>3 DEF HandsAgree, HandFits, Executing
      <3>2. \A g \in Handlers : HandFits(hand[g])'
        BY <1>1, <1>2, <2>3, <3>1 DEF HandsAgree, HandFits, Executing
      <3>3. QED BY <1>1, <3>1, <3>2 DEF HandsAgree, Executing
    <2>8. WorkersAgree'
      BY <1>2, <1>3, <2>3 DEF WorkersAgree, WorkFits, Busy
    <2>9. SendersHold'
      BY <1>2 DEF SendersHold, Sender
    <2>10. WaitingIsUndone'
      BY <1>2, <1>3, <2>3, <2>5 DEF WaitingIsUndone
    <2>11. QED BY <2>4, <2>6, <2>7, <2>8, <2>9, <2>10
  <1>4. CASE op.status # "previewed"
    <2>1. op' = op
      BY <1>4 DEF Edit
    <2>2. /\ HandFits(hand[h])' /\ ~Executing(h)'
          /\ ~(Handing(h, "apply")' \/ Handing(h, "record")')
      BY <1>1 DEF HandFits, Executing, Handing
    <2>3. QED BY <1>1, <1>2, <2>1, <2>2, HandMoves
  <1>5. QED BY <1>3, <1>4

\* A handler ends where it stood.
LEMMA HandEndKeeps ==
    ASSUME OpInv, NEW h \in Handlers, HandEnd(h), UNCHANGED <<op, box, upg, done, late>>
    PROVE  OpInv'
  <1>1. /\ hand' \in [Handlers -> Hands] /\ hand'[h].pc = "idle"
        /\ \A g \in Handlers \ {h} : hand'[g] = hand[g]
    BY HandEnds DEF OpInv
  <1>2. /\ HandFits(hand[h])' /\ ~Executing(h)'
        /\ ~(Handing(h, "apply")' \/ Handing(h, "record")')
    BY <1>1 DEF HandFits, Executing, Handing
  <1>3. QED BY <1>1, <1>2, HandMoves

\* A handler ends with a write of status s, expected or not.
LEMMA EndWithStatus ==
    ASSUME OpInv, NEW h \in Handlers, HandEnd(h), NEW from, NEW s \in Statuses, CAS(from, s),
           UNCHANGED <<box, upg, done, late>>,
           op.status \in from =>
             \/ op.status = "previewed" /\ s \in {"cancelled", "expired"}
             \/ /\ s \in {"failed", "applied", "skipped"}
                /\ Executing(h) \/ Handing(h, "prove")
                /\ op.status \notin {"previewed", "cancelled", "expired"}
                /\ s = "applied" => done.times = 1
                /\ s = "skipped" => done.times = 0 /\ op.kind = "monitor"
                /\ s = "failed" => op.kind # "manual" \/ done.times = 0
                /\ box.status = "none"
    PROVE  OpInv'
  <1>1. /\ hand' \in [Handlers -> Hands] /\ hand'[h].pc = "idle"
        /\ \A g \in Handlers \ {h} : hand'[g] = hand[g]
    BY HandEnds DEF OpInv
  <1>2. /\ op' \in OpRows /\ op'.kind = op.kind /\ op'.ver = op.ver
        /\ op'.status = IF op.status \in from THEN s ELSE op.status
    BY StatusMoves DEF OpInv
  <1>3. QED BY <1>1, <1>2, StatusKeeps

LEMMA CancelKeeps == ASSUME OpInv, NEW h \in Handlers, Cancel(h) PROVE OpInv'
  <1>1. "cancelled" \in Statuses /\ CAS({"previewed"}, "cancelled") /\ HandEnd(h) /\ UNCHANGED <<box, upg, done, late>>
    BY DEF Cancel, Statuses, Final
  <1>2. QED BY <1>1, EndWithStatus

LEMMA CheckConfirmKeeps == ASSUME OpInv, NEW h \in Handlers, CheckConfirm(h) PROVE OpInv'
  <1>1. CASE op.ttl = 0
    <2>1. "expired" \in Statuses /\ CAS({"previewed"}, "expired") /\ HandEnd(h) /\ UNCHANGED <<box, upg, done, late>>
      BY <1>1 DEF CheckConfirm, Statuses, Final
    <2>2. QED BY <2>1, EndWithStatus
  <1>2. CASE op.ttl # 0
    <2>1. HandGo(h, "mark") /\ UNCHANGED <<op, box, upg, done, late>>
      BY <1>2 DEF CheckConfirm
    <2>2. "mark" \in HandPCs
      BY DEF HandPCs
    <2>3. /\ hand' \in [Handlers -> Hands] /\ hand'[h].pc = "mark"
          /\ \A g \in Handlers \ {h} : hand'[g] = hand[g]
      BY <2>1, <2>2, HandGoes DEF OpInv
    <2>4. /\ HandFits(hand[h])' /\ ~Executing(h)'
          /\ ~(Handing(h, "apply")' \/ Handing(h, "record")')
      BY <2>3 DEF HandFits, Executing, Handing
    <2>5. QED BY <2>1, <2>3, <2>4, HandMoves
  <1>3. QED BY <1>1, <1>2

LEMMA ConfirmKeeps == ASSUME OpInv, NEW h \in Handlers, Confirm(h) PROVE OpInv'
  <1> USE DEF OpInv
  <1>1. CASE op.status = "previewed" /\ op.ver = hand[h].ver
    <2> DEFINE c == AfterConfirm
               x == [op EXCEPT !.status = "confirmed"]
               y == [x EXCEPT !.age = StaleAge]
    <2>1. op' = y /\ HandGo(h, c) /\ UNCHANGED <<box, upg, done, late>>
      BY <1>1 DEF Confirm
    <2>2. /\ c \in {"launch", "run", "apply"} /\ c \in HandPCs
          /\ c = "launch" <=> op.kind = "upgrade"
          /\ c = "run" <=> op.kind = "monitor"
      BY DEF AfterConfirm, HandPCs
    <2> HIDE DEF c
    <2>3. x \in OpRows /\ x.status = "confirmed" /\ x.kind = op.kind /\ x.ver = op.ver
      BY DEF OpTypeOK, OpRows, Statuses
    <2> HIDE DEF x
    <2>4. y \in OpRows /\ y.status = "confirmed" /\ y.kind = op.kind /\ y.ver = op.ver
      BY <2>3, OperationAssumption DEF OpRows
    <2> HIDE DEF y
    <2>5. op' \in OpRows /\ op'.status = "confirmed" /\ op'.kind = op.kind /\ op'.ver = op.ver
      BY <2>1, <2>4
    <2>6. /\ hand' \in [Handlers -> Hands] /\ hand'[h].pc = c /\ hand'[h].ver = hand[h].ver
          /\ \A g \in Handlers \ {h} : hand'[g] = hand[g]
      BY <2>1, <2>2, HandGoes
    <2>7. OpTypeOK'
      BY <2>1, <2>5, <2>6 DEF OpTypeOK
    <2>8. done.times = 0 /\ box.status = "none"
      BY <1>1 DEF StatusIsTrue, OpTypeOK, Boxes
    <2>9. StatusIsTrue'
      BY <2>1, <2>5, <2>8 DEF StatusIsTrue
    <2>10. HandsAgree'
      <3>1. \A g \in Handlers : ~Executing(g)
        BY <1>1 DEF HandsAgree, HandFits, Executing
      <3>2. \A g \in Handlers \ {h} : ~Executing(g)' /\ HandFits(hand[g])'
        BY <2>1, <2>5, <2>6, <3>1 DEF HandsAgree, HandFits, Executing
      <3>3. HandFits(hand[h])'
        BY <1>1, <2>1, <2>2, <2>5, <2>6, <2>8 DEF HandFits
      <3>4. QED BY <3>2, <3>3 DEF HandsAgree
    <2>11. WorkersAgree'
      BY <1>1, <2>1, <2>5 DEF WorkersAgree, WorkFits, Busy
    <2>12. SendersHold'
      BY <2>1 DEF SendersHold, Sender
    <2>13. WaitingIsUndone'
      <3>1. \A g \in Handlers : ~Executing(g)
        BY <1>1 DEF HandsAgree, HandFits, Executing
      <3>2. op.kind = "monitor" => \A g \in Handlers : hand'[g].pc \notin {"apply", "record"}
        BY <2>2, <2>6, <3>1 DEF Executing
      <3>3. QED BY <2>1, <2>5, <2>8, <3>2 DEF WaitingIsUndone
    <2>14. QED BY <2>7, <2>9, <2>10, <2>11, <2>12, <2>13
  <1>2. CASE ~(op.status = "previewed" /\ op.ver = hand[h].ver)
    <2>1. HandEnd(h) /\ UNCHANGED <<op, box, upg, done, late>>
      BY <1>2 DEF Confirm
    <2>2. QED BY <2>1, HandEndKeeps
  <1>3. QED BY <1>1, <1>2

-----------------------------------------------------------------------------
(* One step per action: execution by a handler.                            *)

\* Who is between confirmation and outcome.
LEMMA InHand ==
    ASSUME OpInv, NEW h \in Handlers, Executing(h)
    PROVE  /\ op.status \notin {"previewed", "cancelled", "expired", "skipped"} /\ hand[h].ver = op.ver
           /\ \A g \in Handlers \ {h} : ~Executing(g)
           /\ op.kind = "manual" /\ done.times = 0 => op.status = "confirmed"
           /\ Handing(h, "launch") <=> op.kind = "upgrade"
           /\ op.status \in Unfinished => box.status = "none"
           /\ op.kind # "upgrade" => box.status = "none"
  <1>1. HandFits(hand[h]) /\ \A g \in Handlers \ {h} : ~Executing(g)
    BY DEF OpInv, HandsAgree
  <1>2. op.status \in Unfinished => box.status = "none"
    BY DEF OpInv, StatusIsTrue, OpTypeOK, Boxes, Unfinished
  <1>3. op.kind # "upgrade" => box.status = "none"
    BY DEF OpInv, WorkersAgree
  <1>4. QED BY <1>1, <1>2, <1>3 DEF HandFits, Executing, Handing

LEMMA LaunchKeeps == ASSUME OpInv, NEW h \in Handlers, Launch(h) PROVE OpInv'
  <1>1. HandEnd(h) /\ UNCHANGED <<box, upg, done, late>> /\ Executing(h) /\ Handing(h, "launch")
    BY DEF Launch, Executing, Handing
  <1>2. CASE UNCHANGED op
    BY <1>1, <1>2, HandEndKeeps
  <1>3. CASE CAS(Unfinished, "failed")
    <2>1. "failed" \in Statuses
      BY DEF Statuses, Final
    <2>2. op.status \in Unfinished =>
            /\ op.status \notin {"previewed", "cancelled", "expired"} /\ op.kind # "manual" /\ box.status = "none"
      BY <1>1, InHand
    <2>3. QED BY <1>1, <1>3, <2>1, <2>2, EndWithStatus
  <1>4. QED BY <1>2, <1>3 DEF Launch

LEMMA RunKeeps == ASSUME OpInv, NEW h \in Handlers, Run(h) PROVE OpInv'
  <1> USE DEF OpInv
  <1>1. UNCHANGED <<box, upg, done, late>> /\ Executing(h) /\ Handing(h, "run")
    BY DEF Run, Executing, Handing
  <1>2. CASE op.status = "confirmed"
    <2>1. HandGo(h, "apply") /\ CAS({"confirmed"}, "running")
      BY <1>2 DEF Run
    <2>2. "apply" \in HandPCs /\ "running" \in Statuses
      BY DEF HandPCs, Statuses
    <2>3. /\ hand' \in [Handlers -> Hands] /\ hand'[h].pc = "apply" /\ hand'[h].ver = hand[h].ver
          /\ \A g \in Handlers \ {h} : hand'[g] = hand[g]
      BY <2>1, <2>2, HandGoes
    <2>4. op' \in OpRows /\ op'.kind = op.kind /\ op'.ver = op.ver /\ op'.status = "running"
      BY <1>2, <2>1, <2>2, StatusMoves
    <2>5. op.kind = "monitor" /\ done.times = 0 /\ box.status = "none" /\ hand[h].ver = op.ver
      BY <1>1, <1>2, InHand DEF HandsAgree, HandFits, Handing, Unfinished
    <2>6. OpTypeOK'
      BY <1>1, <2>3, <2>4 DEF OpTypeOK
    <2>7. StatusIsTrue'
      BY <1>1, <2>4, <2>5 DEF StatusIsTrue
    <2>8. HandsAgree'
      <3>1. \A g \in Handlers \ {h} : ~Executing(g)
        BY <1>1, InHand
      <3>2. \A g \in Handlers \ {h} : ~Executing(g)' /\ HandFits(hand[g])'
        BY <1>1, <2>3, <2>4, <3>1 DEF HandsAgree, HandFits, Executing
      <3>3. HandFits(hand[h])'
        BY <1>1, <2>3, <2>4, <2>5 DEF HandFits
      <3>4. QED BY <3>2, <3>3 DEF HandsAgree
    <2>9. WorkersAgree'
      BY <1>1, <2>4, <2>5 DEF WorkersAgree, WorkFits, Busy
    <2>10. SendersHold'
      BY <1>1 DEF SendersHold, Sender
    <2>11. WaitingIsUndone'
      BY <1>1, <2>4, <2>5 DEF WaitingIsUndone
    <2>12. QED BY <2>6, <2>7, <2>8, <2>9, <2>10, <2>11
  <1>3. CASE op.status # "confirmed"
    <2>1. HandEnd(h) /\ op' = op
      BY <1>3 DEF Run, CAS
    <2>2. QED BY <1>1, <2>1, HandEndKeeps
  <1>4. QED BY <1>2, <1>3

\* The operation is executed by the handler that has it.
LEMMA ExecutedInHand ==
    ASSUME OpInv, NEW h \in Handlers, Handing(h, "apply"), Execute(hand[h].ver),
           UNCHANGED <<op, box, upg, late>>, hand' \in [Handlers -> Hands],
           \A g \in Handlers \ {h} : hand'[g] = hand[g],
           \/ hand'[h].pc = "idle"
           \/ /\ hand'[h].pc = "record" /\ hand'[h].ver = hand[h].ver
              /\ hand'[h].out = "applied" \/ (hand'[h].out = "failed" /\ op.kind # "manual")
    PROVE  OpInv'
  <1> USE DEF OpInv
  <1>1. Executing(h) /\ done.times = 0 /\ op.kind # "upgrade"
    BY InHand DEF Executing, Handing, HandsAgree, HandFits
  <1>2. /\ op.status \notin {"previewed", "cancelled", "expired", "skipped"} /\ hand[h].ver = op.ver
        /\ op.kind = "manual" => op.status = "confirmed"
        /\ \A g \in Handlers \ {h} : ~Executing(g)
    BY <1>1, InHand
  <1>3. done' = [ver |-> op.ver, times |-> 1]
    BY <1>1, <1>2 DEF Execute
  <1>4. done'.times = 1 /\ done'.ver = op.ver
    BY <1>3
  <1>5. OpTypeOK'
    BY <1>3 DEF OpTypeOK, OpRows
  <1>6. StatusIsTrue'
    BY <1>2, <1>4 DEF StatusIsTrue
  <1>7. HandsAgree'
    <2>1. \A g \in Handlers \ {h} : ~Executing(g)' /\ HandFits(hand[g])'
      BY <1>1, <1>2, <1>4 DEF HandsAgree, HandFits, Executing
    <2>2. HandFits(hand[h])'
      BY <1>1, <1>2, <1>4 DEF HandFits
    <2>3. QED BY <2>1, <2>2 DEF HandsAgree
  <1>8. WorkersAgree'
    BY <1>1 DEF WorkersAgree, WorkFits, Busy
  <1>9. SendersHold'
    BY DEF SendersHold, Sender
  <1>10. WaitingIsUndone'
    BY <1>1, <1>2, <1>4 DEF WaitingIsUndone, Handing
  <1>11. QED BY <1>5, <1>6, <1>7, <1>8, <1>9, <1>10

LEMMA ApplyKeeps == ASSUME OpInv, NEW h \in Handlers, Apply(h) PROVE OpInv'
  <1>1. Handing(h, "apply") /\ Executing(h) /\ UNCHANGED <<box, upg, late>>
    BY DEF Apply, Executing, Handing
  <1>2. HandFits(hand[h])
    BY DEF OpInv, HandsAgree
  <1>3. ASSUME NEW out \in {"applied", "skipped", "failed"},
               out = "skipped" => op.kind = "monitor", out = "failed" => op.kind # "manual",
               \/ out \in {"applied", "failed"} /\ Execute(hand[h].ver)
               \/ out \in {"skipped", "failed"} /\ UNCHANGED done,
               hand' = [hand EXCEPT ![h].pc = "record", ![h].out = out], UNCHANGED op
        PROVE  OpInv'
    <2> DEFINE x == [hand[h] EXCEPT !.pc = "record"]
               z == [x EXCEPT !.out = out]
    <2>1. hand' = [hand EXCEPT ![h] = z]
      BY <1>3
    <2>2. x \in Hands /\ x.pc = "record" /\ x.ver = hand[h].ver
      BY DEF OpInv, OpTypeOK, Hands, HandPCs
    <2> HIDE DEF x
    <2>3. z \in Hands /\ z.pc = "record" /\ z.ver = hand[h].ver /\ z.out = out
      BY <2>2 DEF Hands
    <2> HIDE DEF z
    <2>4. /\ hand' \in [Handlers -> Hands] /\ hand'[h].pc = "record" /\ hand'[h].ver = hand[h].ver
          /\ hand'[h].out = out /\ \A g \in Handlers \ {h} : hand'[g] = hand[g]
      BY <2>1, <2>3, HandTo DEF OpInv
    <2>5. CASE out \in {"applied", "failed"} /\ Execute(hand[h].ver)
      <3>1. hand'[h].out = "applied" \/ (hand'[h].out = "failed" /\ op.kind # "manual")
        BY <1>3, <2>4, <2>5
      <3>2. QED BY <1>1, <1>3, <2>4, <2>5, <3>1, ExecutedInHand
    <2>6. CASE out \in {"skipped", "failed"} /\ UNCHANGED done
      <3>1. HandFits(hand[h])'
        BY <1>1, <1>2, <1>3, <2>4, <2>6 DEF HandFits, Handing
      <3>2. QED BY <1>1, <1>3, <2>4, <2>6, <3>1, HandMoves
    <2>7. QED BY <1>3, <2>5, <2>6
  <1>4. ASSUME Execute(hand[h].ver) \/ UNCHANGED done, HandEnd(h), UNCHANGED op
        PROVE  OpInv'
    <2>1. /\ hand' \in [Handlers -> Hands] /\ hand'[h].pc = "idle"
          /\ \A g \in Handlers \ {h} : hand'[g] = hand[g]
      BY <1>4, HandEnds DEF OpInv
    <2>2. CASE Execute(hand[h].ver)
      BY <1>1, <1>4, <2>1, <2>2, ExecutedInHand
    <2>3. CASE UNCHANGED done
      BY <1>1, <1>4, <2>3, HandEndKeeps
    <2>4. QED BY <1>4, <2>2, <2>3
  <1>5. ASSUME CAS(Unfinished, "failed"), HandEnd(h), UNCHANGED done, op.kind = "manual"
        PROVE  OpInv'
    <2>1. "failed" \in Statuses
      BY DEF Statuses, Final
    <2>2. op.status \in Unfinished =>
            /\ op.status \notin {"previewed", "cancelled", "expired"} /\ done.times = 0 /\ box.status = "none"
      BY <1>1, <1>2, InHand DEF HandFits, Handing
    <2>3. QED BY <1>1, <1>5, <2>1, <2>2, EndWithStatus
  <1>6. QED BY <1>3, <1>4, <1>5 DEF Apply

LEMMA RecordKeeps == ASSUME OpInv, NEW h \in Handlers, Record(h) PROVE OpInv'
  <1>1. HandEnd(h) /\ UNCHANGED <<box, upg, done, late>> /\ Executing(h) /\ Handing(h, "record")
    BY DEF Record, Executing, Handing
  <1>2. HandFits(hand[h]) /\ hand[h].out \in {"applied", "skipped", "failed"}
    BY DEF OpInv, HandsAgree, OpTypeOK, Hands
  <1>3. /\ op.status \notin {"previewed", "cancelled", "expired"} /\ box.status = "none"
        /\ "failed" \in Statuses /\ "skipped" \in Statuses /\ "applied" \in Statuses
    BY <1>1, InHand DEF Handing, Statuses, Final
  <1>4. CASE hand[h].out = "failed"
    <2>1. CAS(Unfinished, "failed") /\ op.kind # "manual"
      BY <1>1, <1>2, <1>4 DEF Record, Recorded, HandFits, Handing
    <2>2. QED BY <1>1, <1>3, <2>1, EndWithStatus
  <1>5. CASE hand[h].out = "skipped"
    <2>1. CAS({"running"}, "skipped") /\ done.times = 0 /\ op.kind = "monitor"
      BY <1>1, <1>2, <1>5 DEF Record, Recorded, HandFits, Handing
    <2>2. QED BY <1>1, <1>3, <2>1, EndWithStatus
  <1>6. CASE hand[h].out = "applied"
    <2> DEFINE from == IF op.kind = "manual" THEN IF op.ver = hand[h].ver THEN {"confirmed"} ELSE {} ELSE Statuses
    <2>1. CAS(from, "applied") /\ done.times = 1
      BY <1>1, <1>2, <1>6 DEF Record, Recorded, HandFits, Handing
    <2> HIDE DEF from
    <2>2. QED BY <1>1, <1>3, <2>1, EndWithStatus
  <1>7. QED BY <1>2, <1>4, <1>5, <1>6

LEMMA RecoverKeeps == ASSUME OpInv, NEW h \in Handlers, Recover(h) PROVE OpInv'
  <1>1. UNCHANGED <<op, box, upg, done, late>> /\ HandFits(hand[h]) /\ Handing(h, "recover")
    BY DEF Recover, OpInv, HandsAgree
  <1>2. CASE done.times > 0
    <2>1. HandGo(h, "prove") /\ "prove" \in HandPCs
      BY <1>2 DEF Recover, HandPCs
    <2>2. /\ hand' \in [Handlers -> Hands] /\ hand'[h].pc = "prove"
          /\ \A g \in Handlers \ {h} : hand'[g] = hand[g]
      BY <2>1, HandGoes DEF OpInv
    <2>3. done.times = 1 /\ op.kind = "manual"
      <3>1. done.times \in Nat /\ done.times <= 1
        BY DEF OpInv, OpTypeOK, StatusIsTrue
      <3>2. QED BY <1>1, <1>2, <3>1 DEF HandFits, Handing
    <2>4. /\ HandFits(hand[h])' /\ ~Executing(h)'
          /\ ~(Handing(h, "apply")' \/ Handing(h, "record")')
      BY <1>1, <2>2, <2>3 DEF HandFits, Executing, Handing
    <2>5. QED BY <1>1, <2>2, <2>4, HandMoves
  <1>3. CASE ~(done.times > 0)
    BY <1>1, <1>3, HandEndKeeps DEF Recover
  <1>4. QED BY <1>2, <1>3

LEMMA ProveKeeps == ASSUME OpInv, NEW h \in Handlers, Prove(h) PROVE OpInv'
  <1> DEFINE from == IF op.ver = hand[h].ver THEN {hand[h].was} ELSE {}
  <1>1. HandEnd(h) /\ UNCHANGED <<box, upg, done, late>> /\ Handing(h, "prove") /\ CAS(from, "applied")
    BY DEF Prove
  <1> HIDE DEF from
  <1>2. op.kind = "manual" /\ done.times = 1
    BY <1>1 DEF OpInv, HandsAgree, HandFits, Handing
  <1>3. op.status \in {"confirmed", "applied"} /\ box.status = "none" /\ "applied" \in Statuses
    BY <1>2 DEF OpInv, WaitingIsUndone, WorkersAgree, Statuses, Final
  <1>4. QED BY <1>1, <1>2, <1>3, EndWithStatus

LEMMA CrashHandlerKeeps == ASSUME OpInv, NEW h \in Handlers, CrashHandler(h) PROVE OpInv'
  BY HandEndKeeps DEF CrashHandler

-----------------------------------------------------------------------------
(* One step per action: the upgrade worker.                                *)

\* One worker goes on or ends, in its place, and nothing else changes.
LEMMA WorkMoves ==
    ASSUME OpInv, NEW w \in UpgradeWorkers, upg' \in [UpgradeWorkers -> Upgs],
           \A v \in UpgradeWorkers \ {w} : upg'[v] = upg[v],
           UNCHANGED <<op, box, hand, done, late>>,
           WorkFits(upg[w])', Busy(w)' => Busy(w), Sender(w)' => Sender(w)
    PROVE  OpInv'
  <1> USE DEF OpInv
  <1>1. OpTypeOK' /\ StatusIsTrue'
    BY DEF OpTypeOK, StatusIsTrue
  <1>2. HandsAgree'
    BY DEF HandsAgree, HandFits, Executing
  <1>3. WorkersAgree'
    BY DEF WorkersAgree, WorkFits, Busy
  <1>4. SendersHold'
    BY DEF SendersHold, Sender
  <1>5. WaitingIsUndone'
    BY DEF WaitingIsUndone, Handing
  <1>6. QED BY <1>1, <1>2, <1>3, <1>4, <1>5

LEMMA UpgEndKeeps ==
    ASSUME OpInv, NEW w \in UpgradeWorkers, UpgEnd(w), UNCHANGED <<op, box, hand, done, late>>
    PROVE  OpInv'
  <1>1. /\ upg' \in [UpgradeWorkers -> Upgs] /\ upg'[w].pc = "idle"
        /\ \A v \in UpgradeWorkers \ {w} : upg'[v] = upg[v]
    BY UpgEnds DEF OpInv
  <1>2. WorkFits(upg[w])' /\ ~Busy(w)' /\ ~Sender(w)'
    BY <1>1 DEF WorkFits, Busy, Sender
  <1>3. QED BY <1>1, <1>2, WorkMoves

LEMMA UpgGoKeeps ==
    ASSUME OpInv, NEW w \in UpgradeWorkers, NEW pc \in {"mark", "look", "claim"}, UpgGo(w, pc),
           op.kind = "upgrade", pc # "mark" => box.status # "none", UNCHANGED <<op, box, hand, done, late>>
    PROVE  OpInv'
  <1>1. pc \in UpgPCs
    BY DEF UpgPCs
  <1>2. /\ upg' \in [UpgradeWorkers -> Upgs] /\ upg'[w].pc = pc
        /\ \A v \in UpgradeWorkers \ {w} : upg'[v] = upg[v]
    BY <1>1, UpgGoes DEF OpInv
  <1>3. WorkFits(upg[w])' /\ ~Busy(w)' /\ ~Sender(w)'
    BY <1>2 DEF WorkFits, Busy, Sender
  <1>4. QED BY <1>2, <1>3, WorkMoves

LEMMA FetchKeeps == ASSUME OpInv, NEW w \in UpgradeWorkers, Fetch(w) PROVE OpInv'
  BY UpgGoKeeps DEF Fetch

LEMMA MarkRunningKeeps == ASSUME OpInv, NEW w \in UpgradeWorkers, MarkRunning(w) PROVE OpInv'
  <1> USE DEF OpInv
  <1>1. UNCHANGED <<box, hand, done, late>> /\ op.kind = "upgrade"
    BY DEF MarkRunning, Upgrading, WorkersAgree, WorkFits
  <1>2. CASE op.status = "confirmed"
    <2>1. UpgGo(w, "apply") /\ CAS({"confirmed"}, "running") /\ "apply" \in UpgPCs /\ "running" \in Statuses
      BY <1>2 DEF MarkRunning, UpgPCs, Statuses
    <2>2. /\ upg' \in [UpgradeWorkers -> Upgs] /\ upg'[w].pc = "apply"
          /\ \A v \in UpgradeWorkers \ {w} : upg'[v] = upg[v]
      BY <2>1, UpgGoes
    <2>3. op' \in OpRows /\ op'.kind = op.kind /\ op'.ver = op.ver /\ op'.status = "running"
      BY <1>2, <2>1, StatusMoves
    <2>4. done.times = 0 /\ box.status = "none"
      BY <1>1, <1>2 DEF WaitingIsUndone, StatusIsTrue, OpTypeOK, Boxes
    <2>5. OpTypeOK'
      BY <1>1, <2>2, <2>3 DEF OpTypeOK
    <2>6. StatusIsTrue'
      BY <1>1, <2>3, <2>4 DEF StatusIsTrue
    <2>7. HandsAgree'
      BY <1>1, <1>2, <2>3 DEF HandsAgree, HandFits, Executing
    <2>8. WorkersAgree'
      <3>1. \A v \in UpgradeWorkers : ~Busy(v)
        BY <1>2 DEF WorkersAgree, WorkFits, Busy
      <3>2. \A v \in UpgradeWorkers \ {w} : ~Busy(v)' /\ WorkFits(upg[v])'
        BY <1>1, <2>2, <2>3, <3>1 DEF WorkersAgree, WorkFits, Busy
      <3>3. WorkFits(upg[w])'
        BY <1>1, <2>2, <2>3, <2>4 DEF WorkFits
      <3>4. QED BY <1>1, <2>3, <3>2, <3>3 DEF WorkersAgree
    <2>9. SendersHold'
      BY <1>1, <2>2, <2>4 DEF SendersHold, Sender
    <2>10. WaitingIsUndone'
      BY <1>1, <2>3 DEF WaitingIsUndone
    <2>11. QED BY <2>5, <2>6, <2>7, <2>8, <2>9, <2>10
  <1>3. CASE op.status # "confirmed"
    <2>1. UpgEnd(w) /\ op' = op
      BY <1>3 DEF MarkRunning, CAS
    <2>2. QED BY <1>1, <2>1, UpgEndKeeps
  <1>4. QED BY <1>2, <1>3

LEMMA UpgradeKeeps == ASSUME OpInv, NEW w \in UpgradeWorkers, Upgrade(w) PROVE OpInv'
  <1> USE DEF OpInv
  <1>1. PICK out \in {"applied", "failed"} :
          /\ Execute(op.ver) \/ (out = "failed" /\ UNCHANGED done)
          /\ upg' = [upg EXCEPT ![w].pc = "record", ![w].out = out]
    BY DEF Upgrade
  <1>2. UNCHANGED <<op, box, hand, late>> /\ Upgrading(w, "apply")
    BY DEF Upgrade
  <1>3. /\ op.kind = "upgrade" /\ done.times = 0 /\ box.status = "none" /\ Busy(w)
        /\ op.status \notin {"previewed", "confirmed", "cancelled", "expired"}
    BY <1>2 DEF Upgrading, WorkersAgree, WorkFits, Busy
  <1> DEFINE x == [upg[w] EXCEPT !.pc = "record"]
             z == [x EXCEPT !.out = out]
  <1>4. upg' = [upg EXCEPT ![w] = z]
    BY <1>1
  <1>5. x \in Upgs /\ x.pc = "record"
    BY DEF OpTypeOK, Upgs, UpgPCs
  <1> HIDE DEF x
  <1>6. z \in Upgs /\ z.pc = "record" /\ z.out = out
    BY <1>5 DEF Upgs
  <1> HIDE DEF z
  <1>7. /\ upg' \in [UpgradeWorkers -> Upgs] /\ upg'[w].pc = "record" /\ upg'[w].out = out
        /\ \A v \in UpgradeWorkers \ {w} : upg'[v] = upg[v]
    BY <1>4, <1>6, UpgTo
  <1>8. CASE Execute(op.ver)
    <2>1. done' = [ver |-> op.ver, times |-> 1] /\ done'.times = 1 /\ done'.ver = op.ver
      BY <1>3, <1>8 DEF Execute
    <2>2. OpTypeOK'
      BY <1>2, <1>7, <2>1 DEF OpTypeOK, OpRows
    <2>3. StatusIsTrue'
      BY <1>2, <1>3, <2>1 DEF StatusIsTrue, WaitingIsUndone
    <2>4. HandsAgree'
      <3>1. \A h \in Handlers : HandFits(hand[h])'
        BY <1>2, <1>3, <2>1 DEF HandsAgree, HandFits
      <3>2. QED BY <1>2, <3>1 DEF HandsAgree, Executing
    <2>5. WorkersAgree'
      BY <1>2, <1>3, <1>7, <2>1 DEF WorkersAgree, WorkFits, Busy
    <2>6. SendersHold'
      BY <1>2, <1>7 DEF SendersHold, Sender
    <2>7. WaitingIsUndone'
      BY <1>2, <1>3, <2>1 DEF WaitingIsUndone
    <2>8. QED BY <2>2, <2>3, <2>4, <2>5, <2>6, <2>7
  <1>9. CASE out = "failed" /\ UNCHANGED done
    <2>1. WorkFits(upg[w])' /\ ~Sender(w)'
      BY <1>2, <1>3, <1>7, <1>9 DEF WorkFits, Sender
    <2>2. QED BY <1>2, <1>3, <1>7, <1>9, <2>1, WorkMoves
  <1>10. QED BY <1>1, <1>8, <1>9

LEMMA TerminalKeeps == ASSUME OpInv, NEW w \in UpgradeWorkers, Terminal(w) PROVE OpInv'
  <1> USE DEF OpInv
  <1> DEFINE out == upg[w].out
  <1>1. UNCHANGED <<hand, done, late>> /\ Upgrading(w, "record") /\ Busy(w)
    BY DEF Terminal, Upgrading, Busy
  <1>2. /\ op.kind = "upgrade" /\ box.status = "none"
        /\ out = "applied" => done.times = 1
        /\ out \in {"applied", "failed"} /\ out \in Statuses
    BY <1>1 DEF Upgrading, WorkersAgree, WorkFits, OpTypeOK, Upgs, Statuses, Final
  <1>3. CASE op.status \in {"confirmed", "running", out}
    <2>1. /\ op' = [op EXCEPT !.status = out] /\ UpgGo(w, "look") /\ "look" \in UpgPCs
          /\ box' = [status |-> "pending", left |-> 0, says |-> out]
      BY <1>2, <1>3 DEF Terminal, UpgPCs
    <2>2. /\ op' \in OpRows /\ op'.kind = op.kind /\ op'.ver = op.ver /\ op'.status = out
          /\ box' \in Boxes /\ box'.status = "pending" /\ box'.says = out
      BY <1>2, <2>1, StatusTo, OperationAssumption DEF Boxes
    <2>3. /\ upg' \in [UpgradeWorkers -> Upgs] /\ upg'[w].pc = "look"
          /\ \A v \in UpgradeWorkers \ {w} : upg'[v] = upg[v]
      BY <2>1, UpgGoes
    <2> HIDE DEF out
    <2>4. OpTypeOK'
      BY <1>1, <2>2, <2>3 DEF OpTypeOK
    <2>5. StatusIsTrue'
      BY <1>1, <1>2, <2>2 DEF StatusIsTrue
    <2>6. HandsAgree'
      <3>1. \A h \in Handlers : HandFits(hand[h])'
        BY <1>1, <1>2, <2>2 DEF HandsAgree, HandFits
      <3>2. QED BY <1>1, <3>1 DEF HandsAgree, Executing
    <2>7. WorkersAgree'
      <3>1. \A v \in UpgradeWorkers \ {w} : ~Busy(v)
        BY <1>1 DEF WorkersAgree
      <3>2. \A v \in UpgradeWorkers \ {w} : ~Busy(v)' /\ WorkFits(upg[v])'
        BY <1>1, <2>2, <2>3, <3>1 DEF WorkersAgree, WorkFits, Busy
      <3>3. WorkFits(upg[w])' /\ ~Busy(w)'
        BY <1>2, <2>2, <2>3 DEF WorkFits, Busy
      <3>4. QED BY <1>2, <2>2, <3>2, <3>3 DEF WorkersAgree
    <2>8. SendersHold'
      BY <1>1, <1>2, <2>3 DEF SendersHold, Sender
    <2>9. WaitingIsUndone'
      BY <1>1, <1>2, <2>2 DEF WaitingIsUndone
    <2>10. QED BY <2>4, <2>5, <2>6, <2>7, <2>8, <2>9
  <1>4. CASE op.status \notin {"confirmed", "running", out}
    <2>1. UpgEnd(w) /\ UNCHANGED <<op, box>>
      BY <1>4 DEF Terminal
    <2>2. QED BY <1>1, <2>1, UpgEndKeeps
  <1>5. QED BY <1>3, <1>4

LEMMA LookKeeps == ASSUME OpInv, NEW w \in UpgradeWorkers, Look(w) PROVE OpInv'
  <1>1. op.kind = "upgrade" /\ box.status # "none" /\ UNCHANGED <<op, box, hand, done, late>>
    BY DEF Look, Upgrading, OpInv, WorkersAgree, WorkFits
  <1>2. QED BY <1>1, UpgEndKeeps, UpgGoKeeps DEF Look

\* The receipt changes hands, or gets its answer: no worker is busy then.
LEMMA BoxKeeps ==
    ASSUME OpInv, NEW w \in UpgradeWorkers, upg' \in [UpgradeWorkers -> Upgs],
           \A v \in UpgradeWorkers \ {w} : upg'[v] = upg[v],
           upg'[w].pc \in {"idle", "send"}, box.status # "none",
           box' \in Boxes, box'.status # "none", box'.says = box.says,
           UNCHANGED <<op, hand, done, late>>,
           SendersHold'
    PROVE  OpInv'
  <1> USE DEF OpInv
  <1>1. OpTypeOK' /\ StatusIsTrue'
    BY DEF OpTypeOK, StatusIsTrue
  <1>2. HandsAgree'
    BY DEF HandsAgree, HandFits, Executing
  <1>3. WorkersAgree'
    <2>1. \A v \in UpgradeWorkers : ~Busy(v)
      BY DEF WorkersAgree, WorkFits, Busy
    <2>2. QED BY <2>1 DEF WorkersAgree, WorkFits, Busy
  <1>4. WaitingIsUndone'
    BY DEF WaitingIsUndone, Handing
  <1>5. QED BY <1>1, <1>2, <1>3, <1>4

LEMMA ClaimBoxKeeps == ASSUME OpInv, NEW w \in UpgradeWorkers, ClaimBox(w) PROVE OpInv'
  <1>1. UNCHANGED <<op, hand, done, late>> /\ Upgrading(w, "claim")
    BY DEF ClaimBox
  <1>2. CASE Claimable
    <2> DEFINE x == [box EXCEPT !.status = "sending"]
               z == [x EXCEPT !.left = BoxLease]
    <2>1. box' = z /\ UpgGo(w, "send") /\ "send" \in UpgPCs
      BY <1>2 DEF ClaimBox, UpgPCs
    <2>2. x \in Boxes /\ x.status = "sending" /\ x.says = box.says
      BY DEF OpInv, OpTypeOK, Boxes
    <2> HIDE DEF x
    <2>3. z \in Boxes /\ z.status = "sending" /\ z.says = box.says /\ z.left = BoxLease
      BY <2>2, OperationAssumption DEF Boxes
    <2> HIDE DEF z
    <2>4. /\ upg' \in [UpgradeWorkers -> Upgs] /\ upg'[w].pc = "send"
          /\ \A v \in UpgradeWorkers \ {w} : upg'[v] = upg[v]
      BY <2>1, UpgGoes DEF OpInv
    <2>5. box.status # "none"
      BY <1>2 DEF Claimable
    <2>6. BoxLease > 0
      BY OperationAssumption
    <2>7. SendersHold'
      <3>1. ~late => \A v \in UpgradeWorkers : ~Sender(v)
        BY <1>2 DEF Claimable, OpInv, SendersHold
      <3>2. QED BY <1>1, <2>1, <2>3, <2>4, <2>6, <3>1 DEF SendersHold, Sender
    <2>8. upg'[w].pc \in {"idle", "send"} /\ box' \in Boxes /\ box'.status # "none" /\ box'.says = box.says
      BY <2>1, <2>3, <2>4
    <2>9. QED BY <1>1, <2>4, <2>5, <2>7, <2>8, BoxKeeps
  <1>3. CASE ~Claimable
    BY <1>1, <1>3, UpgEndKeeps DEF ClaimBox
  <1>4. QED BY <1>2, <1>3

LEMMA SendReceiptKeeps == ASSUME OpInv, NEW w \in UpgradeWorkers, SendReceipt(w) PROVE OpInv'
  <1>1. PICK ok \in BOOLEAN : upg' = [upg EXCEPT ![w].pc = "answer", ![w].ok = ok]
    BY DEF SendReceipt
  <1> DEFINE x == [upg[w] EXCEPT !.pc = "answer"]
             z == [x EXCEPT !.ok = ok]
  <1>2. upg' = [upg EXCEPT ![w] = z]
    BY <1>1
  <1>3. x \in Upgs /\ x.pc = "answer"
    BY DEF OpInv, OpTypeOK, Upgs, UpgPCs
  <1> HIDE DEF x
  <1>4. z \in Upgs /\ z.pc = "answer"
    BY <1>3 DEF Upgs
  <1> HIDE DEF z
  <1>5. /\ upg' \in [UpgradeWorkers -> Upgs] /\ upg'[w].pc = "answer"
        /\ \A v \in UpgradeWorkers \ {w} : upg'[v] = upg[v]
    BY <1>2, <1>4, UpgTo DEF OpInv
  <1>6. UNCHANGED <<op, box, hand, done, late>> /\ Upgrading(w, "send")
    BY DEF SendReceipt
  <1>7. WorkFits(upg[w])' /\ ~Busy(w)' /\ Sender(w)
    BY <1>5, <1>6 DEF WorkFits, Busy, Sender, OpInv, WorkersAgree, Upgrading
  <1>8. QED BY <1>5, <1>6, <1>7, WorkMoves

LEMMA CompleteBoxKeeps == ASSUME OpInv, NEW w \in UpgradeWorkers, CompleteBox(w) PROVE OpInv'
  <1> DEFINE s == IF upg[w].ok THEN "sent" ELSE "failed"
  <1>1. /\ box' = [box EXCEPT !.status = s] /\ UpgEnd(w) /\ UNCHANGED <<op, hand, done, late>>
        /\ Upgrading(w, "answer") /\ s \in {"sent", "failed"}
    BY DEF CompleteBox
  <1> HIDE DEF s
  <1>2. box' \in Boxes /\ box'.status = s /\ box'.says = box.says /\ box'.status # "none"
    BY <1>1 DEF OpInv, OpTypeOK, Boxes
  <1>3. /\ upg' \in [UpgradeWorkers -> Upgs] /\ upg'[w].pc = "idle"
        /\ \A v \in UpgradeWorkers \ {w} : upg'[v] = upg[v]
    BY <1>1, UpgEnds DEF OpInv
  <1>4. box.status # "none" /\ Sender(w)
    BY <1>1 DEF OpInv, WorkersAgree, WorkFits, Upgrading, Sender
  <1>5. SendersHold'
    <2>1. ~late => \A v \in UpgradeWorkers \ {w} : ~Sender(v)
      BY <1>4 DEF OpInv, SendersHold
    <2>2. ~late => \A v \in UpgradeWorkers : ~Sender(v)'
      BY <1>3, <2>1 DEF Sender
    <2>3. QED BY <1>1, <2>2 DEF SendersHold
  <1>6. upg'[w].pc \in {"idle", "send"}
    BY <1>3
  <1>7. QED BY <1>1, <1>2, <1>3, <1>4, <1>5, <1>6, BoxKeeps

LEMMA CrashUpgradeKeeps == ASSUME OpInv, NEW w \in UpgradeWorkers, CrashUpgrade(w) PROVE OpInv'
  BY UpgEndKeeps DEF CrashUpgrade

LEMMA TickKeeps == ASSUME OpInv, TickOperation PROVE OpInv'
  <1> USE DEF OpInv
  <1> DEFINE t == Sooner(op.ttl)
             a == Sooner(op.age)
             b == Sooner(box.left)
             x == [op EXCEPT !.ttl = t]
             y == [x EXCEPT !.age = a]
             z == [box EXCEPT !.left = b]
             l == (late \/ (box'.left = 0 /\ \E w \in UpgradeWorkers : Sender(w)))
  <1>1. op' = y /\ box' = z /\ late' = l /\ UNCHANGED <<hand, upg, done>>
    BY DEF TickOperation
  <1>2. t \in 0..Ttl /\ a \in 0..StaleAge /\ b \in 0..BoxLease /\ l \in BOOLEAN
    BY OperationAssumption DEF OpTypeOK, OpRows, Boxes, Sooner
  <1>3. l = FALSE => ~late /\ (box'.left = 0 => \A w \in UpgradeWorkers : ~Sender(w))
    BY DEF OpTypeOK
  <1> HIDE DEF t, a, b, l
  <1>4. x \in OpRows /\ x.kind = op.kind /\ x.ver = op.ver /\ x.status = op.status
    BY <1>2 DEF OpTypeOK, OpRows
  <1> HIDE DEF x
  <1>5. y \in OpRows /\ y.kind = op.kind /\ y.ver = op.ver /\ y.status = op.status
    BY <1>2, <1>4 DEF OpRows
  <1>6. z \in Boxes /\ z.says = box.says /\ z.status = box.status
    BY <1>2 DEF OpTypeOK, Boxes
  <1> HIDE DEF y, z
  <1>7. OpTypeOK'
    BY <1>1, <1>2, <1>5, <1>6 DEF OpTypeOK
  <1>8. StatusIsTrue'
    BY <1>1, <1>5, <1>6 DEF StatusIsTrue
  <1>9. HandsAgree'
    BY <1>1, <1>5 DEF HandsAgree, HandFits, Executing
  <1>10. WorkersAgree'
    BY <1>1, <1>5, <1>6 DEF WorkersAgree, WorkFits, Busy
  <1>11. SendersHold'
    <2>1. ASSUME ~late', NEW w \in UpgradeWorkers, Sender(w)
          PROVE  ~late /\ box'.status = "sending" /\ box'.left > 0
      <3>1. ~late /\ box'.left # 0
        BY <1>1, <1>2, <1>3, <2>1
      <3>2. box'.left \in Nat
        BY <1>1, <1>6, OperationAssumption DEF Boxes
      <3>3. QED BY <1>1, <1>6, <2>1, <3>1, <3>2 DEF SendersHold
    <2>2. QED BY <1>1, <2>1 DEF SendersHold, Sender
  <1>12. WaitingIsUndone'
    BY <1>1, <1>5 DEF WaitingIsUndone, Handing
  <1>13. QED BY <1>7, <1>8, <1>9, <1>10, <1>11, <1>12

-----------------------------------------------------------------------------
LEMMA OpInitInv == ASSUME OpInit PROVE OpInv
  <1>1. /\ op.status = "previewed" /\ op.ver = 0 /\ op.ttl = Ttl /\ op.age = 0 /\ op.kind \in Kinds
        /\ op \in OpRows
    BY OperationAssumption DEF OpInit, OpRows, Statuses
  <1>2. /\ box.status = "none" /\ box \in Boxes /\ done.times = 0 /\ done \in [ver : 0..MaxEdits, times : Nat]
        /\ late = FALSE
    BY OperationAssumption DEF OpInit, Boxes
  <1>3. /\ hand \in [Handlers -> Hands] /\ \A h \in Handlers : hand[h].pc = "idle"
        /\ upg \in [UpgradeWorkers -> Upgs] /\ \A w \in UpgradeWorkers : upg[w].pc = "idle"
    BY IdleHand DEF OpInit, UpgIdle, Upgs, UpgPCs
  <1>4. OpTypeOK
    BY <1>1, <1>2, <1>3 DEF OpTypeOK
  <1>5. StatusIsTrue
    BY <1>1, <1>2 DEF StatusIsTrue
  <1>6. HandsAgree /\ WorkersAgree
    BY <1>2, <1>3 DEF HandsAgree, HandFits, Executing, WorkersAgree, WorkFits, Busy
  <1>7. SendersHold /\ WaitingIsUndone
    BY <1>1, <1>2, <1>3 DEF SendersHold, Sender, WaitingIsUndone
  <1>8. QED BY <1>4, <1>5, <1>6, <1>7 DEF OpInv

LEMMA OpStep == ASSUME OpInv, [OpNext]_opVars PROVE OpInv'
  <1>1. CASE UNCHANGED opVars
    <2>1. UNCHANGED <<op, box, hand, upg, done, late>>
      BY <1>1 DEF opVars
    <2>2. OpTypeOK' /\ StatusIsTrue'
      BY <2>1 DEF OpInv, OpTypeOK, StatusIsTrue
    <2>3. HandsAgree' /\ WorkersAgree'
      BY <2>1 DEF OpInv, HandsAgree, HandFits, Executing, WorkersAgree, WorkFits, Busy
    <2>4. SendersHold' /\ WaitingIsUndone'
      BY <2>1 DEF OpInv, SendersHold, Sender, WaitingIsUndone
    <2>5. QED BY <2>2, <2>3, <2>4 DEF OpInv
  <1>2. CASE Sweep \/ TickOperation
    BY <1>2, SweepStepKeeps, TickKeeps
  <1>3. ASSUME NEW h \in Handlers, Handle(h) PROVE OpInv'
    BY <1>3, AskKeeps, EditKeeps, CancelKeeps, CheckConfirmKeeps, ConfirmKeeps, LaunchKeeps, RunKeeps,
       ApplyKeeps, RecordKeeps, RecoverKeeps, ProveKeeps, CrashHandlerKeeps DEF Handle
  <1>4. ASSUME NEW w \in UpgradeWorkers, Work(w) PROVE OpInv'
    BY <1>4, FetchKeeps, MarkRunningKeeps, UpgradeKeeps, TerminalKeeps, LookKeeps, ClaimBoxKeeps,
       SendReceiptKeeps, CompleteBoxKeeps, CrashUpgradeKeeps DEF Work
  <1>5. QED BY <1>1, <1>2, <1>3, <1>4 DEF OpNext

\* An operation is executed once at most and as it was confirmed, and its row and
\* its final receipt tell what happened, however messages, sweeps, workers and
\* crashes interleave (OpInv).
THEOREM OperationsAreTrue == OpSpec => []OpInv
  <1>1. OpInit => OpInv
    BY OpInitInv
  <1>2. OpInv /\ [OpNext]_opVars => OpInv'
    BY OpStep
  <1>3. QED BY <1>1, <1>2, PTL DEF OpSpec

-----------------------------------------------------------------------------
(* What no step does.                                                      *)

StaysFinal ==
    op.status \in Final /\ op'.status # op.status =>
      op.status = "failed" /\ op'.status = "applied" /\ done.times = 1 /\ op.kind \in {"config", "monitor"}

\* A write of a status that expects one that is not final.
LEMMA UnfinishedMoves ==
    ASSUME OpInv, NEW from, from \cap Final = {}, NEW s \in Statuses, CAS(from, s)
    PROVE  StaysFinal
  <1>1. op'.status = IF op.status \in from THEN s ELSE op.status
    BY StatusMoves DEF OpInv
  <1>2. QED BY <1>1 DEF StaysFinal

LEMMA SweptStays == ASSUME OpInv, op' = Swept(op) PROVE StaysFinal
  <1> DEFINE row == Swept(op)
  <1>1. \/ row = op
        \/ op.status = "previewed"
        \/ op.status \in {"confirmed", "running"}
    BY SweptRow
  <1>2. op' = row
    OBVIOUS
  <1> HIDE DEF row
  <1>3. QED BY <1>1, <1>2 DEF StaysFinal, Final

LEMMA ConfirmStays == ASSUME NEW h \in Handlers, Edit(h) \/ Confirm(h) PROVE StaysFinal
  BY DEF Edit, Confirm, StaysFinal, Final

LEMMA RecordStays == ASSUME OpInv, NEW h \in Handlers, Record(h) PROVE StaysFinal
  <1>1. Executing(h) /\ Handing(h, "record") /\ HandFits(hand[h])
    BY DEF Record, Executing, Handing, OpInv, HandsAgree
  <1>2. /\ hand[h].out \in {"applied", "skipped", "failed"}
        /\ "failed" \in Statuses /\ "skipped" \in Statuses /\ "applied" \in Statuses
    BY DEF OpInv, OpTypeOK, Hands, Statuses, Final
  <1>3. CASE hand[h].out = "failed"
    <2>1. CAS(Unfinished, "failed") /\ Unfinished \cap Final = {}
      BY <1>3 DEF Record, Recorded, Unfinished, Final
    <2>2. QED BY <1>2, <2>1, UnfinishedMoves
  <1>4. CASE hand[h].out = "skipped"
    <2>1. CAS({"running"}, "skipped") /\ {"running"} \cap Final = {}
      BY <1>4 DEF Record, Recorded, Final
    <2>2. QED BY <1>2, <2>1, UnfinishedMoves
  <1>5. CASE hand[h].out = "applied" /\ op.kind = "manual"
    <2> DEFINE from == IF op.ver = hand[h].ver THEN {"confirmed"} ELSE {}
    <2>1. CAS(from, "applied") /\ from \cap Final = {}
      BY <1>5 DEF Record, Recorded, Final
    <2> HIDE DEF from
    <2>2. QED BY <1>2, <2>1, UnfinishedMoves
  <1>6. CASE hand[h].out = "applied" /\ op.kind # "manual"
    <2>1. CAS(Statuses, "applied")
      BY <1>6 DEF Record, Recorded
    <2>2. op.status \in Statuses /\ op.kind \in Kinds
      BY DEF OpInv, OpTypeOK, OpRows
    <2>3. op'.status = "applied"
      BY <1>2, <2>1, <2>2, StatusMoves DEF OpInv
    <2>4. done.times = 1 /\ op.kind # "upgrade"
      BY <1>1, <1>6 DEF HandFits, Handing
    <2>5. op.status \notin {"cancelled", "expired", "skipped"}
      BY <1>1, InHand
    <2>6. QED BY <1>6, <2>2, <2>3, <2>4, <2>5 DEF StaysFinal, Final, Kinds
  <1>7. QED BY <1>2, <1>3, <1>4, <1>5, <1>6

LEMMA ProveStays == ASSUME OpInv, NEW h \in Handlers, Prove(h) PROVE StaysFinal
  <1> DEFINE from == IF op.ver = hand[h].ver THEN {hand[h].was} ELSE {}
  <1>1. CAS(from, "applied") /\ Handing(h, "prove") /\ "applied" \in Statuses
    BY DEF Prove, Statuses, Final
  <1> HIDE DEF from
  <1>2. op.status \in {"confirmed", "applied"}
    BY <1>1 DEF OpInv, HandsAgree, HandFits, Handing, WaitingIsUndone
  <1>3. op'.status \in {op.status, "applied"}
    BY <1>1, StatusMoves DEF OpInv
  <1>4. QED BY <1>2, <1>3 DEF StaysFinal, Final

LEMMA ApplyStays == ASSUME OpInv, NEW h \in Handlers, Apply(h) PROVE StaysFinal
  <1>1. "failed" \in Statuses /\ Unfinished \cap Final = {}
    BY DEF Statuses, Unfinished, Final
  <1>2. CASE UNCHANGED op
    BY <1>2 DEF StaysFinal
  <1>3. CASE CAS(Unfinished, "failed")
    BY <1>1, <1>3, UnfinishedMoves
  <1>4. QED BY <1>2, <1>3 DEF Apply

LEMMA TerminalStays == ASSUME OpInv, NEW w \in UpgradeWorkers, Terminal(w) PROVE StaysFinal
  <1> DEFINE out == upg[w].out
  <1>1. out \in {"applied", "failed"} /\ out \in Statuses
    BY DEF OpInv, OpTypeOK, Upgs, Statuses, Final
  <1>2. op' = op \/ (op.status \in {"confirmed", "running", out} /\ op' = [op EXCEPT !.status = out])
    BY DEF Terminal
  <1> HIDE DEF out
  <1>3. op'.status = op.status \/ (op.status \in {"confirmed", "running", out} /\ op'.status = out)
    BY <1>1, <1>2, StatusTo DEF OpInv
  <1>4. QED BY <1>3 DEF StaysFinal, Final

\* A final status stays, but for a late executor that has in fact executed
\* (FinalStays).
THEOREM FinalStatusStays == OpSpec => FinalStays
  <1>1. ASSUME OpInv, OpNext PROVE StaysFinal
    <2>1. /\ "failed" \in Statuses /\ "cancelled" \in Statuses /\ "expired" \in Statuses
          /\ "running" \in Statuses /\ Unfinished \cap Final = {}
          /\ {"previewed"} \cap Final = {} /\ {"confirmed"} \cap Final = {}
      BY DEF Statuses, Unfinished, Final
    <2>2. CASE Sweep
      BY <1>1, <2>2, SweptStays DEF Sweep
    <2>3. CASE TickOperation
      <3>1. op'.status = op.status
        BY <1>1, <2>3 DEF TickOperation, OpInv, OpTypeOK, OpRows
      <3>2. QED BY <3>1 DEF StaysFinal
    <2>4. ASSUME NEW h \in Handlers, Handle(h) PROVE StaysFinal
      <3>1. CASE Ask(h)
        BY <1>1, <3>1, SweptStays DEF Ask
      <3>2. CASE Edit(h) \/ Confirm(h)
        BY <3>2, ConfirmStays
      <3>3. CASE Cancel(h)
        BY <1>1, <2>1, <3>3, UnfinishedMoves DEF Cancel
      <3>4. CASE CheckConfirm(h)
        <4>1. CASE UNCHANGED op
          BY <4>1 DEF StaysFinal
        <4>2. CASE CAS({"previewed"}, "expired")
          BY <1>1, <2>1, <4>2, UnfinishedMoves
        <4>3. QED BY <3>4, <4>1, <4>2 DEF CheckConfirm
      <3>5. CASE Launch(h)
        <4>1. CASE UNCHANGED op
          BY <4>1 DEF StaysFinal
        <4>2. CASE CAS(Unfinished, "failed")
          BY <1>1, <2>1, <4>2, UnfinishedMoves
        <4>3. QED BY <3>5, <4>1, <4>2 DEF Launch
      <3>6. CASE Run(h)
        BY <1>1, <2>1, <3>6, UnfinishedMoves DEF Run
      <3>7. CASE Apply(h)
        BY <1>1, <3>7, ApplyStays
      <3>8. CASE Record(h)
        BY <1>1, <3>8, RecordStays
      <3>9. CASE Recover(h) \/ CrashHandler(h)
        BY <3>9 DEF Recover, CrashHandler, StaysFinal
      <3>10. CASE Prove(h)
        BY <1>1, <3>10, ProveStays
      <3>11. QED BY <2>4, <3>1, <3>2, <3>3, <3>4, <3>5, <3>6, <3>7, <3>8, <3>9, <3>10 DEF Handle
    <2>5. ASSUME NEW w \in UpgradeWorkers, Work(w) PROVE StaysFinal
      <3>1. CASE MarkRunning(w)
        BY <1>1, <2>1, <3>1, UnfinishedMoves DEF MarkRunning
      <3>2. CASE Terminal(w)
        BY <1>1, <3>2, TerminalStays
      <3>3. CASE UNCHANGED op
        BY <3>3 DEF StaysFinal
      <3>4. QED BY <2>5, <3>1, <3>2, <3>3 DEF Work, Fetch, Upgrade, Look, ClaimBox, SendReceipt, CompleteBox, CrashUpgrade
    <2>6. QED BY <1>1, <2>2, <2>3, <2>4, <2>5 DEF OpNext
  <1>2. OpInv /\ [OpNext]_opVars => [StaysFinal]_opVars
    BY <1>1
  <1>3. [][StaysFinal]_opVars => FinalStays
    BY PTL DEF FinalStays, StaysFinal
  <1>4. QED BY <1>2, <1>3, OperationsAreTrue, PTL DEF OpSpec

StaysSent == box.status = "sent" /\ ~late => box'.status = "sent"

\* A receipt recorded as sent stays so, unless some sender has outlived its lease
\* (SentStays).
THEOREM SentReceiptStays == OpSpec => SentStays
  <1>1. ASSUME OpInv, OpNext PROVE StaysSent
    <2>1. CASE UNCHANGED box
      BY <2>1 DEF StaysSent
    <2>2. CASE TickOperation
      <3>1. box'.status = box.status
        BY <1>1, <2>2 DEF TickOperation, OpInv, OpTypeOK, Boxes
      <3>2. QED BY <3>1 DEF StaysSent
    <2>3. ASSUME NEW w \in UpgradeWorkers, Terminal(w) PROVE StaysSent
      <3>1. box.status = "none"
        BY <1>1, <2>3 DEF Terminal, Upgrading, OpInv, WorkersAgree, WorkFits
      <3>2. QED BY <3>1 DEF StaysSent
    <2>4. ASSUME NEW w \in UpgradeWorkers, ClaimBox(w) PROVE StaysSent
      BY <2>4 DEF ClaimBox, Claimable, StaysSent
    <2>5. ASSUME NEW w \in UpgradeWorkers, CompleteBox(w) PROVE StaysSent
      <3>1. ~late => box.status = "sending"
        BY <1>1, <2>5 DEF CompleteBox, Upgrading, OpInv, SendersHold, Sender
      <3>2. QED BY <3>1 DEF StaysSent
    <2>6. ASSUME NEW w \in UpgradeWorkers, Work(w) PROVE StaysSent
      BY <2>1, <2>3, <2>4, <2>5, <2>6
         DEF Work, Fetch, MarkRunning, Upgrade, Look, SendReceipt, CrashUpgrade
    <2>7. ASSUME NEW h \in Handlers, Handle(h) PROVE UNCHANGED box
      BY <2>7 DEF Handle, Ask, Edit, Cancel, CheckConfirm, Confirm, Launch, Run, Apply, Record, Recover,
                  Prove, CrashHandler
    <2>8. CASE Sweep
      BY <2>1, <2>8 DEF Sweep
    <2>9. QED BY <1>1, <2>1, <2>2, <2>6, <2>7, <2>8 DEF OpNext
  <1>2. OpInv /\ [OpNext]_opVars => [StaysSent]_opVars
    BY <1>1
  <1>3. [][StaysSent]_opVars => SentStays
    BY PTL DEF SentStays, StaysSent
  <1>4. QED BY <1>2, <1>3, OperationsAreTrue, PTL DEF OpSpec

(***************************************************************************)
(* The configuration transaction.                                           *)
(***************************************************************************)

others == <<file, last, txn, told, outside, edited>>

(* What a step makes of a publisher.                                        *)

LEMMA PubStep ==
    ASSUME ConfigTypeOK, NEW p \in Publishers, NEW z \in Pubs, pub' = [pub EXCEPT ![p] = z]
    PROVE  /\ pub' \in [Publishers -> Pubs] /\ pub'[p] = z
           /\ \A q \in Publishers \ {p} : pub'[q] = pub[q]
  BY DEF ConfigTypeOK

LEMMA IdlePub == PubIdle \in Pubs /\ PubIdle.pc = "idle" /\ PubIdle.todo = {}
  BY ConfigAssumption DEF PubIdle, Pubs, PubPCs, Versions

\* Whoever holds the lock is alone.
LEMMA Alone ==
    ASSUME ConfigTypeOK, LockKept, NEW p \in Publishers, pub[p].pc \notin {"idle", "wait"}
    PROVE  \A q \in Publishers \ {p} : pub[q].pc \in {"idle", "wait"}
  BY DEF LockKept, Holding

\* Past the check nothing was edited outside.
LEMMA NothingEdited ==
    ASSUME EditedIsNewer, NEW p \in Publishers, pub[p].pc \notin {"idle", "wait", "enter", "recover"}
    PROVE  edited = {}
  BY DEF EditedIsNewer

\* A publisher that gives up, or waits, leaves everything as it is.
LEMMA Quiet ==
    ASSUME ConfigInv, NEW p \in Publishers, NEW z \in Pubs, pub' = [pub EXCEPT ![p] = z],
           z.pc \in {"idle", "wait"}, UNCHANGED others
    PROVE  ConfigInv'
  <1> USE DEF ConfigInv, others
  <1>1. /\ pub' \in [Publishers -> Pubs] /\ pub'[p] = z
        /\ \A q \in Publishers \ {p} : pub'[q] = pub[q]
    BY PubStep
  <1>2. ConfigTypeOK' /\ AllOrNothing'
    BY <1>1 DEF ConfigTypeOK, AllOrNothing, OneGeneration
  <1>3. LockKept'
    BY <1>1 DEF LockKept, Holding, PubAt
  <1>4. VersionsGrow'
    BY <1>1 DEF VersionsGrow, PubAt
  <1>5. OldOrNew'
    BY <1>1 DEF OldOrNew, PubAt, OneGeneration, Restored
  <1>6. EditedIsNewer'
    BY <1>1 DEF EditedIsNewer
  <1>7. QED BY <1>2, <1>3, <1>4, <1>5, <1>6

LEMMA GivesUp ==
    ASSUME ConfigInv, NEW p \in Publishers, PubEnd(p), UNCHANGED others
    PROVE  ConfigInv'
  BY Quiet, IdlePub DEF PubEnd

\* A publisher that goes on, and has changed nothing yet.
LEMMA GoesOn ==
    ASSUME ConfigInv, NEW p \in Publishers, NEW z \in Pubs, pub' = [pub EXCEPT ![p] = z],
           UNCHANGED others, \A q \in Publishers \ {p} : pub[q].pc \in {"idle", "wait"},
           \/ z.pc = "enter"
           \/ z.pc = "check" /\ txn.phase = "none"
           \/ z.pc = "prepare" /\ txn.phase = "none" /\ (~outside => file[Source] = z.seen)
           \/ z.pc = "recover" /\ txn.phase \in {"prepared", "committing"}
           \/ /\ z.pc = "restore" /\ txn.phase \in {"prepared", "committing"} /\ edited = {}
              /\ z.todo = Files /\ z.forward = (file[Source] = txn.after)
           \/ /\ z.pc = "sweep" /\ txn.phase # "none" /\ edited = {}
              /\ ~outside => file[Source] = txn.after \/ file = txn.old
    PROVE  ConfigInv'
  <1> USE DEF ConfigInv, others
  <1>1. /\ pub' \in [Publishers -> Pubs] /\ pub'[p] = z
        /\ \A q \in Publishers \ {p} : pub'[q] = pub[q]
    BY PubStep
  <1>2. ConfigTypeOK' /\ AllOrNothing'
    BY <1>1 DEF ConfigTypeOK, AllOrNothing, OneGeneration
  <1>3. LockKept'
    BY <1>1 DEF LockKept, Holding, PubAt
  <1>4. VersionsGrow'
    BY <1>1 DEF VersionsGrow, PubAt
  <1>5. OldOrNew'
    BY <1>1 DEF OldOrNew, PubAt, OneGeneration, Restored
  <1>6. EditedIsNewer'
    BY <1>1 DEF EditedIsNewer
  <1>7. QED BY <1>2, <1>3, <1>4, <1>5, <1>6

-----------------------------------------------------------------------------
(* Taking the lock, and recovery.                                          *)

LEMMA LoadKeeps ==
    ASSUME ConfigInv, NEW p \in Publishers, LoadConfig(p) PROVE ConfigInv'
  <1> DEFINE z == [PubIdle EXCEPT !.pc = "wait", !.seen = file[Source]]
  <1>1. file[Source] \in Versions
    BY DEF ConfigInv, ConfigTypeOK, Files
  <1>2. z \in Pubs /\ z.pc = "wait"
    BY <1>1, IdlePub DEF Pubs, PubPCs
  <1>3. pub' = [pub EXCEPT ![p] = z] /\ UNCHANGED others
    BY DEF LoadConfig, others
  <1> HIDE DEF z
  <1>4. QED BY <1>2, <1>3, Quiet

LEMMA TakeLockKeeps ==
    ASSUME ConfigInv, NEW p \in Publishers, TakeLock(p) PROVE ConfigInv'
  <1> DEFINE z == [pub[p] EXCEPT !.pc = "enter"]
  <1>1. z \in Pubs /\ z.pc = "enter"
    BY DEF ConfigInv, ConfigTypeOK, Pubs, PubPCs
  <1>2. pub' = [pub EXCEPT ![p] = z] /\ UNCHANGED others
    BY DEF TakeLock, PubGo, others
  <1>3. \A q \in Publishers \ {p} : pub[q].pc \in {"idle", "wait"}
    BY DEF TakeLock, LockFree, Holding
  <1> HIDE DEF z
  <1>4. QED BY <1>1, <1>2, <1>3, GoesOn

LEMMA EnterKeeps ==
    ASSUME ConfigInv, NEW p \in Publishers, Enter(p) PROVE ConfigInv'
  <1> DEFINE c == AfterEnter
             x == [pub[p] EXCEPT !.pc = c]
             z == [x EXCEPT !.then = "check"]
  <1>1. pub' = [pub EXCEPT ![p] = z] /\ UNCHANGED others /\ pub[p].pc = "enter"
    BY DEF Enter, others, PubAt
  <1>2. /\ c \in PubPCs /\ (c = "check" => txn.phase = "none")
        /\ c = "sweep" => txn.phase = "committed"
        /\ c = "recover" => txn.phase \in {"prepared", "committing"}
        /\ c \in {"check", "sweep", "recover"}
    BY DEF AfterEnter, PubPCs, ConfigInv, ConfigTypeOK, Transactions
  <1> HIDE DEF c
  <1>3. x \in Pubs /\ x.pc = c
    BY <1>2 DEF ConfigInv, ConfigTypeOK, Pubs
  <1> HIDE DEF x
  <1>4. z \in Pubs /\ z.pc = c
    BY <1>3 DEF Pubs
  <1> HIDE DEF z
  <1>5. \A q \in Publishers \ {p} : pub[q].pc \in {"idle", "wait"}
    BY <1>1, Alone DEF ConfigInv
  <1>6. c = "sweep" => edited = {} /\ (~outside => file[Source] = txn.after)
    BY <1>2 DEF ConfigInv, EditedIsNewer, OldOrNew
  <1>7. QED BY <1>1, <1>2, <1>4, <1>5, <1>6, GoesOn

LEMMA RecoverPublicationKeeps ==
    ASSUME ConfigInv, NEW p \in Publishers, RecoverTxn(p) PROVE ConfigInv'
  <1>1. UNCHANGED others /\ pub[p].pc = "recover"
    BY DEF RecoverTxn, others, PubAt
  <1>2. CASE ~Recoverable
    BY <1>1, <1>2, GivesUp DEF RecoverTxn
  <1>3. CASE Recoverable
    <2> DEFINE w == (file[Source] = txn.after)
               x == [pub[p] EXCEPT !.pc = "restore"]
               y == [x EXCEPT !.todo = Files]
               z == [y EXCEPT !.forward = w]
    <2>1. pub' = [pub EXCEPT ![p] = z]
      BY <1>3 DEF RecoverTxn, Forward
    <2>2. x \in Pubs /\ x.pc = "restore"
      BY DEF ConfigInv, ConfigTypeOK, Pubs, PubPCs
    <2> HIDE DEF x
    <2>3. y \in Pubs /\ y.pc = "restore" /\ y.todo = Files
      BY <2>2 DEF Pubs
    <2> HIDE DEF y
    <2>4. w \in BOOLEAN
      OBVIOUS
    <2>5. z \in Pubs /\ z.pc = "restore" /\ z.todo = Files /\ z.forward = w
      <3> HIDE DEF w
      <3>1. QED BY <2>3, <2>4 DEF Pubs
    <2> HIDE DEF z
    <2>6. \A q \in Publishers \ {p} : pub[q].pc \in {"idle", "wait"}
      BY <1>1, Alone DEF ConfigInv
    <2>7. txn.phase \in {"prepared", "committing"}
      BY <1>1 DEF ConfigInv, LockKept, PubAt
    <2>8. edited = {}
      <3>1. \A f \in Files : /\ file[f] \in {txn.after, txn.old[f]} /\ txn.old[f] < txn.after
                             /\ txn.after \in Int /\ txn.old[f] \in Int
        BY <1>3, <2>7 DEF Recoverable, ConfigInv, VersionsGrow, ConfigTypeOK, Transactions, Versions
      <3>2. \A f \in Files : ~(file[f] > txn.after)
        BY <3>1
      <3>3. QED BY <3>2 DEF ConfigInv, EditedIsNewer, ConfigTypeOK
    <2>9. QED BY <1>1, <2>1, <2>5, <2>6, <2>7, <2>8, GoesOn
  <1>4. QED BY <1>2, <1>3

LEMMA RestoreKeeps ==
    ASSUME ConfigInv, NEW p \in Publishers, RestoreFile(p) PROVE ConfigInv'
  <1> USE DEF ConfigInv
  <1>1. UNCHANGED <<last, txn, told, outside, edited>> /\ pub[p].pc = "restore"
    BY DEF RestoreFile, PubAt
  <1>2. CASE PubEnd(p) /\ UNCHANGED file
    BY <1>1, <1>2, GivesUp DEF others
  <1>3. ASSUME NEW f \in Files, Turn(p, f), file' = [file EXCEPT ![f] = Restored(p, f)],
               pub' = [pub EXCEPT ![p].todo = @ \ {f}]
        PROVE  ConfigInv'
    <2> DEFINE z == [pub[p] EXCEPT !.todo = @ \ {f}]
               new == Restored(p, f)
    <2>1. /\ pub[p] \in Pubs /\ pub[p].todo \subseteq Files /\ pub[p].forward \in BOOLEAN
          /\ txn \in Transactions /\ Source \in Files
      BY DEF ConfigTypeOK, Pubs, Files
    <2>2. /\ z \in Pubs /\ z.pc = "restore" /\ z.todo = pub[p].todo \ {f} /\ z.forward = pub[p].forward
      BY <1>1, <2>1 DEF Pubs
    <2>3. pub' = [pub EXCEPT ![p] = z]
      BY <1>3
    <2> HIDE DEF z
    <2>4. /\ pub' \in [Publishers -> Pubs] /\ pub'[p] = z
          /\ \A q \in Publishers \ {p} : pub'[q] = pub[q]
      BY <2>2, <2>3, PubStep
    <2>5. \A q \in Publishers \ {p} : pub[q].pc \in {"idle", "wait"}
      BY <1>1, Alone
    <2>6. edited = {} /\ txn.phase \in {"prepared", "committing"}
      BY <1>1, NothingEdited DEF LockKept, PubAt
    <2>7. \A g \in Files : /\ told <= txn.old[g] /\ txn.old[g] < txn.after /\ txn.after <= last
                           /\ told < txn.after /\ txn.old[g] \in Versions
                           /\ told \in Int /\ last \in Int /\ txn.after \in Versions
      BY <2>1, <2>6 DEF VersionsGrow, ConfigTypeOK, Versions, Transactions
    <2>8. new = (IF pub[p].forward THEN txn.after ELSE txn.old[f]) /\ new \in Versions
      BY <2>7 DEF Restored
    <2>9. /\ file' \in [Files -> Versions] /\ file'[f] = new
          /\ \A g \in Files \ {f} : file'[g] = file[g]
      <3> HIDE DEF new
      <3>1. file' = [file EXCEPT ![f] = new]
        BY <1>3 DEF new
      <3>2. QED BY <2>8, <3>1 DEF ConfigTypeOK
    <2> HIDE DEF new
    <2>10. told <= new /\ new <= last
      BY <2>7, <2>8 DEF Versions
    <2>11. ConfigTypeOK'
      BY <1>1, <2>4, <2>9 DEF ConfigTypeOK
    <2>12. AllOrNothing'
      BY <1>1, <2>6, <2>9, <2>10 DEF AllOrNothing
    <2>13. LockKept'
      BY <1>1, <2>2, <2>4, <2>5 DEF LockKept, Holding, PubAt
    <2>14. VersionsGrow'
      BY <1>1, <2>2, <2>4, <2>5, <2>9, <2>10 DEF VersionsGrow, PubAt
    <2>15. OldOrNew'
      <3> SUFFICES ASSUME ~outside PROVE OldOrNew'
        BY <1>1 DEF OldOrNew
      <3>1. /\ OneGeneration(txn.old) /\ txn.old[Source] = txn.before
            /\ \A g \in Files : file[g] \in {txn.old[g], txn.after}
            /\ pub[p].forward = (file[Source] = txn.after)
            /\ \A g \in Files \ pub[p].todo : file[g] = IF pub[p].forward THEN txn.after ELSE txn.old[g]
            /\ file[Source] = txn.after => \A g \in Files : file[g] = txn.after
        BY <1>1, <2>6 DEF OldOrNew, PubAt, Restored
      <3>2. f = Source => pub[p].todo = {Source}
        BY <1>3 DEF Turn
      <3>3. txn.old[Source] # txn.after
        BY <2>1, <2>7 DEF Versions
      <3>4. \A g \in Files : file'[g] \in {txn.old[g], txn.after}
        BY <2>8, <2>9, <3>1
      <3>5. pub[p].forward = (file'[Source] = txn.after)
        BY <2>1, <2>8, <2>9, <3>1, <3>3
      <3>6. \A g \in Files \ (pub[p].todo \ {f}) :
              file'[g] = IF pub[p].forward THEN txn.after ELSE txn.old[g]
        BY <2>8, <2>9, <3>1
      <3>7. file'[Source] = txn.after => \A g \in Files : file'[g] = txn.after
        BY <2>1, <2>8, <2>9, <3>1, <3>5
      <3>8. QED
        BY <1>1, <2>2, <2>4, <2>5, <2>6, <3>1, <3>4, <3>5, <3>6, <3>7 DEF OldOrNew, PubAt, Restored, OneGeneration
    <2>16. EditedIsNewer'
      BY <1>1, <2>6 DEF EditedIsNewer
    <2>17. QED BY <2>11, <2>12, <2>13, <2>14, <2>15, <2>16
  <1>4. QED BY <1>2, <1>3 DEF RestoreFile

LEMMA ReadBackKeeps ==
    ASSUME ConfigInv, NEW p \in Publishers, ReadBack(p) PROVE ConfigInv'
  <1>1. UNCHANGED others /\ pub[p].pc = "restore" /\ pub[p].todo = {}
    BY DEF ReadBack, others, PubAt
  <1>2. CASE PubEnd(p)
    BY <1>1, <1>2, GivesUp
  <1>3. CASE PubGo(p, "sweep") /\ file[Source] = (IF pub[p].forward THEN txn.after ELSE txn.before)
    <2> DEFINE z == [pub[p] EXCEPT !.pc = "sweep"]
    <2>1. z \in Pubs /\ z.pc = "sweep"
      BY DEF ConfigInv, ConfigTypeOK, Pubs, PubPCs
    <2>2. pub' = [pub EXCEPT ![p] = z]
      BY <1>3 DEF PubGo
    <2>3. \A q \in Publishers \ {p} : pub[q].pc \in {"idle", "wait"}
      BY <1>1, Alone DEF ConfigInv
    <2>4. edited = {} /\ txn.phase # "none"
      BY <1>1, NothingEdited DEF ConfigInv, LockKept, PubAt
    <2>5. ASSUME ~outside PROVE file[Source] = txn.after \/ file = txn.old
      <3>1. CASE pub[p].forward
        BY <1>3, <3>1
      <3>2. CASE ~pub[p].forward
        <4>1. \A f \in Files : file[f] = txn.old[f]
          BY <1>1, <2>5, <3>2 DEF ConfigInv, OldOrNew, PubAt, Restored
        <4>2. file \in [Files -> Versions] /\ txn.old \in [Files -> Versions]
          BY DEF ConfigInv, ConfigTypeOK, Transactions
        <4>3. QED BY <4>1, <4>2
      <3>3. QED BY <3>1, <3>2
    <2> HIDE DEF z
    <2>6. QED BY <1>1, <2>1, <2>2, <2>3, <2>4, <2>5, GoesOn
  <1>4. QED BY <1>2, <1>3 DEF ReadBack

-----------------------------------------------------------------------------
(* Removing the journal, and publishing.                                   *)

LEMMA SweepUpKeeps ==
    ASSUME ConfigInv, NEW p \in Publishers, SweepDirectory(p) PROVE ConfigInv'
  <1> USE DEF ConfigInv
  <1>1. UNCHANGED <<file, last, told, outside, edited>> /\ pub[p].pc = "sweep"
    BY DEF SweepDirectory, PubAt
  <1>2. edited = {} /\ txn.phase # "none" /\ txn \in Transactions
    BY <1>1, NothingEdited DEF LockKept, PubAt, ConfigTypeOK
  <1>3. CASE txn' = NoTxn /\ pub' = [pub EXCEPT ![p].pc = pub[p].then]
    <2> DEFINE c == pub[p].then
               z == [pub[p] EXCEPT !.pc = c]
    <2>1. c \in {"idle", "check"} /\ pub[p] \in Pubs
      BY DEF ConfigTypeOK, Pubs
    <2>2. z \in Pubs /\ z.pc = c
      <3> HIDE DEF c
      <3>1. QED BY <2>1 DEF Pubs, PubPCs
    <2>3. pub' = [pub EXCEPT ![p] = z]
      BY <1>3
    <2> HIDE DEF z, c
    <2>4. /\ pub' \in [Publishers -> Pubs] /\ pub'[p] = z
          /\ \A q \in Publishers \ {p} : pub'[q] = pub[q]
      BY <2>2, <2>3, PubStep
    <2>5. \A q \in Publishers \ {p} : pub[q].pc \in {"idle", "wait"}
      BY <1>1, Alone
    <2>6. NoTxn \in Transactions /\ NoTxn.phase = "none"
      BY ConfigAssumption DEF NoTxn, Transactions, Versions
    <2>7. ~outside => OneGeneration(file)
      <3>1. ~outside => /\ OneGeneration(txn.old)
                        /\ file[Source] = txn.after => \A f \in Files : file[f] = txn.after
                        /\ file[Source] = txn.after \/ file = txn.old
        BY <1>1, <1>2 DEF OldOrNew, PubAt
      <3>2. Targets \subseteq Files /\ Source \in Files
        BY DEF Files
      <3>3. QED BY <3>1, <3>2 DEF OneGeneration
    <2>8. ConfigTypeOK' /\ AllOrNothing'
      BY <1>1, <1>3, <2>4, <2>6, <2>7 DEF ConfigTypeOK, AllOrNothing, OneGeneration
    <2>9. LockKept'
      BY <1>1, <1>3, <2>1, <2>2, <2>4, <2>5, <2>6 DEF LockKept, Holding, PubAt
    <2>10. VersionsGrow'
      BY <1>1, <1>3, <2>1, <2>2, <2>4, <2>5, <2>6 DEF VersionsGrow, PubAt
    <2>11. OldOrNew'
      BY <1>1, <1>3, <2>1, <2>2, <2>4, <2>5, <2>6 DEF OldOrNew, PubAt
    <2>12. EditedIsNewer'
      BY <1>1, <1>2 DEF EditedIsNewer
    <2>13. QED BY <2>8, <2>9, <2>10, <2>11, <2>12
  <1>4. CASE txn' = [txn EXCEPT !.whole = FALSE] /\ UNCHANGED pub
    <2>1. /\ txn' \in Transactions /\ txn'.phase = txn.phase /\ txn'.before = txn.before
          /\ txn'.after = txn.after /\ txn'.old = txn.old
      BY <1>2, <1>4 DEF Transactions
    <2>2. ConfigTypeOK' /\ AllOrNothing'
      BY <1>1, <1>4, <2>1 DEF ConfigTypeOK, AllOrNothing, OneGeneration
    <2>3. LockKept'
      BY <1>1, <1>4, <2>1 DEF LockKept, Holding, PubAt
    <2>4. VersionsGrow'
      BY <1>1, <1>4, <2>1 DEF VersionsGrow, PubAt
    <2>5. OldOrNew'
      BY <1>1, <1>4, <2>1 DEF OldOrNew, PubAt, OneGeneration, Restored
    <2>6. EditedIsNewer'
      BY <1>1, <1>2 DEF EditedIsNewer
    <2>7. QED BY <2>2, <2>3, <2>4, <2>5, <2>6
  <1>5. CASE PubEnd(p) /\ UNCHANGED txn
    BY <1>1, <1>5, GivesUp DEF others
  <1>6. QED BY <1>3, <1>4, <1>5 DEF SweepDirectory

LEMMA CheckKeeps ==
    ASSUME ConfigInv, NEW p \in Publishers, CheckSource(p) PROVE ConfigInv'
  <1>1. UNCHANGED others /\ pub[p].pc = "check"
    BY DEF CheckSource, others, PubAt
  <1>2. CASE PubEnd(p)
    BY <1>1, <1>2, GivesUp
  <1>3. CASE SourceIsSeen(p) /\ PubGo(p, "prepare")
    <2> DEFINE z == [pub[p] EXCEPT !.pc = "prepare"]
    <2>1. z \in Pubs /\ z.pc = "prepare" /\ z.seen = pub[p].seen
      BY DEF ConfigInv, ConfigTypeOK, Pubs, PubPCs
    <2>2. pub' = [pub EXCEPT ![p] = z] /\ file[Source] = pub[p].seen
      BY <1>3 DEF PubGo, SourceIsSeen
    <2> HIDE DEF z
    <2>3. \A q \in Publishers \ {p} : pub[q].pc \in {"idle", "wait"}
      BY <1>1, Alone DEF ConfigInv
    <2>4. txn.phase = "none"
      BY <1>1 DEF ConfigInv, LockKept, PubAt
    <2>5. QED BY <1>1, <2>1, <2>2, <2>3, <2>4, GoesOn
  <1>4. QED BY <1>2, <1>3 DEF CheckSource

LEMMA PrepareKeeps ==
    ASSUME ConfigInv, NEW p \in Publishers, PrepareTxn(p) PROVE ConfigInv'
  <1> USE DEF ConfigInv
  <1> DEFINE z == [pub[p] EXCEPT !.pc = "begin"]
             n == last + 1
             t == [phase |-> "prepared", before |-> pub[p].seen, after |-> n, old |-> file, whole |-> TRUE]
  <1>1. /\ UNCHANGED <<file, told, outside, edited>> /\ pub[p].pc = "prepare" /\ last < MaxVersion
        /\ last' = n /\ txn' = t /\ pub' = [pub EXCEPT ![p] = z]
    BY DEF PrepareTxn, PubAt, PubGo
  <1>2. z \in Pubs /\ z.pc = "begin" /\ z.seen = pub[p].seen /\ pub[p].seen \in Versions
    BY DEF ConfigTypeOK, Pubs, PubPCs
  <1> HIDE DEF z
  <1>3. /\ pub' \in [Publishers -> Pubs] /\ pub'[p] = z
        /\ \A q \in Publishers \ {p} : pub'[q] = pub[q]
    BY <1>1, <1>2, PubStep
  <1>4. \A q \in Publishers \ {p} : pub[q].pc \in {"idle", "wait"}
    BY <1>1, Alone
  <1>5. edited = {} /\ txn.phase = "none"
    BY <1>1, NothingEdited DEF LockKept, PubAt
  <1>6. n \in Versions /\ last < n /\ last \in Versions
    BY <1>1, ConfigAssumption DEF ConfigTypeOK, Versions
  <1> HIDE DEF n
  <1>7. /\ t \in Transactions /\ t.phase = "prepared" /\ t.before = pub[p].seen /\ t.after = n
        /\ t.old = file
    BY <1>2, <1>6 DEF Transactions, ConfigTypeOK
  <1> HIDE DEF t
  <1>8. \A f \in Files : file[f] \in Versions /\ told <= file[f] /\ file[f] <= last /\ told <= last
    BY DEF ConfigTypeOK, AllOrNothing, VersionsGrow
  <1>9. Source \in Files /\ told \in Versions
    BY DEF Files, ConfigTypeOK
  <1>10. ConfigTypeOK'
    BY <1>1, <1>3, <1>6, <1>7 DEF ConfigTypeOK
  <1>11. AllOrNothing'
    BY <1>1, <1>7 DEF AllOrNothing
  <1>12. LockKept'
    BY <1>1, <1>2, <1>3, <1>4, <1>7 DEF LockKept, Holding, PubAt
  <1>13. VersionsGrow'
    <2>1. told < n /\ \A f \in Files : file[f] < n /\ file[f] <= n
      BY <1>6, <1>8, <1>9 DEF Versions
    <2>2. told <= n
      BY <2>1, <1>6, <1>9 DEF Versions
    <2>3. n <= n
      BY <1>6 DEF Versions
    <2>4. QED BY <1>1, <1>2, <1>3, <1>4, <1>7, <1>8, <2>1, <2>2, <2>3 DEF VersionsGrow, PubAt
  <1>14. OldOrNew'
    <2> SUFFICES ASSUME ~outside PROVE OldOrNew'
      BY <1>1 DEF OldOrNew
    <2>1. OneGeneration(file)
      BY <1>5 DEF AllOrNothing
    <2>2. file[Source] = pub[p].seen
      BY <1>1 DEF OldOrNew, PubAt
    <2>3. file[Source] # n
      BY <1>6, <1>8, <1>9 DEF Versions
    <2>4. QED BY <1>1, <1>2, <1>3, <1>4, <1>7, <2>1, <2>2, <2>3 DEF OldOrNew, PubAt, OneGeneration
  <1>15. EditedIsNewer'
    BY <1>1, <1>5 DEF EditedIsNewer
  <1>16. QED BY <1>10, <1>11, <1>12, <1>13, <1>14, <1>15

\* A publisher that fails before the commit turns to the recovery.
LEMMA CompensateKeeps ==
    ASSUME ConfigInv, NEW p \in Publishers, pub[p].pc \in {"begin", "write"}, Compensate(p),
           UNCHANGED <<last, told, outside, edited>>
    PROVE  ConfigInv'
  <1> DEFINE x == [pub[p] EXCEPT !.pc = "recover"]
             z == [x EXCEPT !.then = "idle"]
  <1>1. pub' = [pub EXCEPT ![p] = z] /\ UNCHANGED others
    BY DEF Compensate, others
  <1>2. x \in Pubs /\ x.pc = "recover"
    BY DEF ConfigInv, ConfigTypeOK, Pubs, PubPCs
  <1> HIDE DEF x
  <1>3. z \in Pubs /\ z.pc = "recover"
    BY <1>2 DEF Pubs
  <1> HIDE DEF z
  <1>4. \A q \in Publishers \ {p} : pub[q].pc \in {"idle", "wait"}
    BY Alone DEF ConfigInv
  <1>5. txn.phase \in {"prepared", "committing"}
    BY DEF ConfigInv, LockKept, PubAt
  <1>6. QED BY <1>1, <1>3, <1>4, <1>5, GoesOn

LEMMA BeginKeeps ==
    ASSUME ConfigInv, NEW p \in Publishers, BeginCommit(p) PROVE ConfigInv'
  <1> USE DEF ConfigInv
  <1>1. UNCHANGED <<last, told, outside, edited>> /\ pub[p].pc = "begin"
    BY DEF BeginCommit, PubAt
  <1>2. CASE Compensate(p)
    BY <1>1, <1>2, CompensateKeeps
  <1>3. CASE /\ txn' = [txn EXCEPT !.phase = "committing"]
             /\ pub' = [pub EXCEPT ![p].pc = "write", ![p].todo = Files]
             /\ UNCHANGED file
    <2> DEFINE x == [pub[p] EXCEPT !.pc = "write"]
               z == [x EXCEPT !.todo = Files]
    <2>1. pub' = [pub EXCEPT ![p] = z]
      BY <1>3
    <2>2. x \in Pubs /\ x.pc = "write" /\ x.seen = pub[p].seen
      BY DEF ConfigTypeOK, Pubs, PubPCs
    <2> HIDE DEF x
    <2>3. z \in Pubs /\ z.pc = "write" /\ z.todo = Files /\ z.seen = pub[p].seen
      BY <2>2 DEF Pubs
    <2> HIDE DEF z
    <2>4. /\ pub' \in [Publishers -> Pubs] /\ pub'[p] = z
          /\ \A q \in Publishers \ {p} : pub'[q] = pub[q]
      BY <2>1, <2>3, PubStep
    <2>5. \A q \in Publishers \ {p} : pub[q].pc \in {"idle", "wait"}
      BY <1>1, Alone
    <2>6. edited = {} /\ txn.phase = "prepared"
      BY <1>1, NothingEdited DEF LockKept, PubAt
    <2>7. /\ txn' \in Transactions /\ txn'.phase = "committing" /\ txn'.before = txn.before
          /\ txn'.after = txn.after /\ txn'.old = txn.old
      BY <1>3 DEF Transactions, ConfigTypeOK
    <2>8. ConfigTypeOK' /\ AllOrNothing'
      BY <1>1, <1>3, <2>4, <2>6, <2>7 DEF ConfigTypeOK, AllOrNothing
    <2>9. LockKept'
      BY <1>1, <2>3, <2>4, <2>5, <2>7 DEF LockKept, Holding, PubAt
    <2>10. VersionsGrow'
      BY <1>1, <1>3, <2>3, <2>4, <2>5, <2>6, <2>7 DEF VersionsGrow, PubAt
    <2>11. OldOrNew'
      <3>1. Source \in Files
        BY DEF Files
      <3>2. ~outside => file = txn.old
        BY <1>1 DEF OldOrNew, PubAt
      <3>3. QED BY <1>1, <1>3, <2>3, <2>4, <2>5, <2>6, <2>7, <3>1, <3>2 DEF OldOrNew, PubAt, OneGeneration
    <2>12. EditedIsNewer'
      BY <1>1, <2>6 DEF EditedIsNewer
    <2>13. QED BY <2>8, <2>9, <2>10, <2>11, <2>12
  <1>4. QED BY <1>2, <1>3 DEF BeginCommit

LEMMA PublishKeeps ==
    ASSUME ConfigInv, NEW p \in Publishers, PublishFile(p) PROVE ConfigInv'
  <1> USE DEF ConfigInv
  <1>1. UNCHANGED <<last, told, outside, edited>> /\ pub[p].pc = "write"
    BY DEF PublishFile, PubAt
  <1>2. CASE Compensate(p)
    BY <1>1, <1>2, CompensateKeeps
  <1>3. ASSUME NEW f \in Files, Turn(p, f), file' = [file EXCEPT ![f] = txn.after],
               pub' = [pub EXCEPT ![p].todo = @ \ {f}], UNCHANGED txn
        PROVE  ConfigInv'
    <2> DEFINE z == [pub[p] EXCEPT !.todo = @ \ {f}]
    <2>1. pub[p] \in Pubs /\ txn \in Transactions /\ Source \in Files
      BY DEF ConfigTypeOK, Files
    <2>2. /\ z \in Pubs /\ z.pc = "write" /\ z.todo = pub[p].todo \ {f} /\ z.seen = pub[p].seen
      BY <1>1, <2>1 DEF Pubs
    <2>3. pub' = [pub EXCEPT ![p] = z]
      BY <1>3
    <2> HIDE DEF z
    <2>4. /\ pub' \in [Publishers -> Pubs] /\ pub'[p] = z
          /\ \A q \in Publishers \ {p} : pub'[q] = pub[q]
      BY <2>2, <2>3, PubStep
    <2>5. \A q \in Publishers \ {p} : pub[q].pc \in {"idle", "wait"}
      BY <1>1, Alone
    <2>6. edited = {} /\ txn.phase = "committing"
      BY <1>1, NothingEdited DEF LockKept, PubAt
    <2>7. /\ txn.after \in Versions /\ txn.after <= last /\ told < txn.after /\ told \in Versions
          /\ \A g \in Files : txn.old[g] < txn.after /\ txn.old[g] \in Versions
      BY <2>1, <2>6 DEF VersionsGrow, ConfigTypeOK, Transactions
    <2>8. /\ file' \in [Files -> Versions] /\ file'[f] = txn.after
          /\ \A g \in Files \ {f} : file'[g] = file[g]
      BY <1>3, <2>7 DEF ConfigTypeOK
    <2>9. told <= txn.after /\ txn.after <= txn.after
      BY <2>7 DEF Versions
    <2>10. ConfigTypeOK'
      BY <1>1, <1>3, <2>4, <2>8 DEF ConfigTypeOK
    <2>11. AllOrNothing'
      BY <1>1, <1>3, <2>6, <2>8, <2>9 DEF AllOrNothing
    <2>12. LockKept'
      BY <1>1, <1>3, <2>2, <2>4, <2>5 DEF LockKept, Holding, PubAt
    <2>13. VersionsGrow'
      BY <1>1, <1>3, <2>2, <2>4, <2>5, <2>7, <2>8, <2>9 DEF VersionsGrow, PubAt
    <2>14. OldOrNew'
      <3> SUFFICES ASSUME ~outside PROVE OldOrNew'
        BY <1>1 DEF OldOrNew
      <3>1. /\ OneGeneration(txn.old) /\ txn.old[Source] = txn.before
            /\ \A g \in Files : file[g] = IF g \in pub[p].todo THEN txn.old[g] ELSE txn.after
            /\ Source \in pub[p].todo \/ pub[p].todo = {}
        BY <1>1, <2>6 DEF OldOrNew, PubAt
      <3>2. f \in pub[p].todo /\ (f = Source => pub[p].todo = {Source})
        BY <1>3 DEF Turn
      <3>3. txn.old[Source] # txn.after
        BY <2>1, <2>7 DEF Versions
      <3>4. \A g \in Files : file'[g] = IF g \in pub[p].todo \ {f} THEN txn.old[g] ELSE txn.after
        BY <2>8, <3>1
      <3>5. Source \in pub[p].todo \ {f} \/ pub[p].todo \ {f} = {}
        BY <3>1, <3>2
      <3>6. file'[Source] = txn.after => \A g \in Files : file'[g] = txn.after
        BY <2>1, <3>3, <3>4, <3>5
      <3>7. QED
        BY <1>1, <1>3, <2>2, <2>4, <2>5, <2>6, <3>1, <3>4, <3>5, <3>6 DEF OldOrNew, PubAt, OneGeneration
    <2>15. EditedIsNewer'
      BY <1>1, <2>6 DEF EditedIsNewer
    <2>16. QED BY <2>10, <2>11, <2>12, <2>13, <2>14, <2>15
  <1>4. QED BY <1>2, <1>3 DEF PublishFile

LEMMA CommitKeeps ==
    ASSUME ConfigInv, NEW p \in Publishers, CommitTxn(p) PROVE ConfigInv'
  <1> USE DEF ConfigInv
  <1> DEFINE x == [pub[p] EXCEPT !.pc = "sweep"]
             z == [x EXCEPT !.then = "idle"]
  <1>1. /\ UNCHANGED <<file, last, outside, edited>> /\ pub[p].pc = "write" /\ pub[p].todo = {}
        /\ txn' = [txn EXCEPT !.phase = "committed"] /\ told' = txn.after
        /\ pub' = [pub EXCEPT ![p] = z]
    BY DEF CommitTxn, PubAt
  <1>2. x \in Pubs /\ x.pc = "sweep"
    BY DEF ConfigTypeOK, Pubs, PubPCs
  <1> HIDE DEF x
  <1>3. z \in Pubs /\ z.pc = "sweep"
    BY <1>2 DEF Pubs
  <1> HIDE DEF z
  <1>4. /\ pub' \in [Publishers -> Pubs] /\ pub'[p] = z
        /\ \A q \in Publishers \ {p} : pub'[q] = pub[q]
    BY <1>1, <1>3, PubStep
  <1>5. \A q \in Publishers \ {p} : pub[q].pc \in {"idle", "wait"}
    BY <1>1, Alone
  <1>6. edited = {} /\ txn.phase = "committing"
    BY <1>1, NothingEdited DEF LockKept, PubAt
  <1>7. /\ txn' \in Transactions /\ txn'.phase = "committed" /\ txn'.before = txn.before
        /\ txn'.after = txn.after /\ txn'.old = txn.old /\ txn.after \in Versions
    BY <1>1 DEF Transactions, ConfigTypeOK
  <1>8. Source \in Files
    BY DEF Files
  <1>9. \A f \in Files : file[f] >= txn.after
    BY <1>1 DEF VersionsGrow, PubAt
  <1>10. ConfigTypeOK'
    BY <1>1, <1>4, <1>7 DEF ConfigTypeOK
  <1>11. AllOrNothing'
    BY <1>1, <1>7, <1>9 DEF AllOrNothing
  <1>12. LockKept'
    BY <1>1, <1>3, <1>4, <1>5, <1>7 DEF LockKept, Holding, PubAt
  <1>13. VersionsGrow'
    BY <1>1, <1>3, <1>4, <1>5, <1>6, <1>7 DEF VersionsGrow, PubAt
  <1>14. OldOrNew'
    BY <1>1, <1>3, <1>4, <1>5, <1>6, <1>7, <1>8 DEF OldOrNew, PubAt, OneGeneration
  <1>15. EditedIsNewer'
    BY <1>1, <1>6 DEF EditedIsNewer
  <1>16. QED BY <1>10, <1>11, <1>12, <1>13, <1>14, <1>15

LEMMA OutsideKeeps ==
    ASSUME ConfigInv, NEW f \in Files, Outside(f) PROVE ConfigInv'
  <1> USE DEF ConfigInv
  <1> DEFINE n == last + 1
  <1>1. /\ UNCHANGED <<txn, pub, told>> /\ last < MaxVersion /\ file' = [file EXCEPT ![f] = n]
        /\ last' = n /\ outside' = TRUE
        /\ edited' = IF LockFree /\ txn.phase \in {"prepared", "committing"} THEN edited \cup {f} ELSE edited
    BY DEF Outside
  <1>2. n \in Versions /\ last < n /\ last \in Versions /\ told \in Versions
    BY <1>1, ConfigAssumption DEF ConfigTypeOK, Versions
  <1> HIDE DEF n
  <1>3. /\ file' \in [Files -> Versions] /\ file'[f] = n
        /\ \A g \in Files \ {f} : file'[g] = file[g]
    BY <1>1, <1>2 DEF ConfigTypeOK
  <1>4. told <= n /\ n <= n /\ \A g \in Files : file[g] <= n
    BY <1>2 DEF VersionsGrow, ConfigTypeOK, Versions
  <1>5. txn.phase # "none" => txn.after < n /\ txn.after <= n /\ n >= txn.after
    BY <1>2 DEF VersionsGrow, ConfigTypeOK, Transactions, Versions
  <1>6. ConfigTypeOK'
    BY <1>1, <1>2, <1>3 DEF ConfigTypeOK
  <1>7. AllOrNothing'
    BY <1>1, <1>2, <1>3, <1>4 DEF AllOrNothing, Versions
  <1>8. LockKept'
    BY <1>1 DEF LockKept, Holding, PubAt
  <1>9. VersionsGrow'
    <2>1. \A p \in Publishers : pub[p].pc = "write" => txn.phase # "none"
      BY DEF LockKept, PubAt
    <2>2. \A p \in Publishers : pub[p].pc = "write" =>
            \A g \in Files \ pub[p].todo : file'[g] >= txn.after
      BY <1>3, <1>5, <2>1 DEF VersionsGrow, PubAt
    <2>3. \A g \in Files : file'[g] <= n
      BY <1>3, <1>4
    <2>4. QED BY <1>1, <1>4, <1>5, <2>2, <2>3 DEF VersionsGrow, PubAt
  <1>10. OldOrNew'
    BY <1>1 DEF OldOrNew
  <1>11. EditedIsNewer'
    <2>1. CASE LockFree /\ txn.phase \in {"prepared", "committing"}
      <3>1. \A p \in Publishers : pub[p].pc \in {"idle", "wait"}
        BY <2>1 DEF LockFree, Holding
      <3>2. n > txn.after
        BY <1>2, <1>5, <2>1 DEF ConfigTypeOK, Transactions, Versions
      <3>3. \A g \in edited : file'[g] > txn.after
        BY <1>3, <3>2 DEF EditedIsNewer, ConfigTypeOK
      <3>4. QED BY <1>1, <1>3, <2>1, <3>1, <3>2, <3>3 DEF EditedIsNewer
    <2>2. CASE ~(LockFree /\ txn.phase \in {"prepared", "committing"})
      <3>1. edited' = edited
        BY <1>1, <2>2
      <3>2. edited # {} => n > txn.after
        BY <1>2, <1>5 DEF EditedIsNewer, ConfigTypeOK, Transactions, Versions
      <3>3. edited # {} => \A g \in edited : file'[g] > txn.after
        BY <1>3, <3>2 DEF EditedIsNewer, ConfigTypeOK
      <3>4. QED BY <1>1, <3>1, <3>3 DEF EditedIsNewer
    <2>3. QED BY <2>1, <2>2
  <1>12. QED BY <1>6, <1>7, <1>8, <1>9, <1>10, <1>11

-----------------------------------------------------------------------------
(* The theorems.                                                           *)

LEMMA ConfigStarts == ConfigInit => ConfigInv
  <1> SUFFICES ASSUME ConfigInit PROVE ConfigInv
    OBVIOUS
  <1>1. 0 \in Versions /\ 1 \in Versions
    BY ConfigAssumption DEF Versions
  <1>2. /\ file \in [Files -> Versions] /\ \A f \in Files : file[f] >= 0 /\ file[f] <= 1
        /\ Source \in Files /\ Targets \subseteq Files /\ file[Source] = 1
        /\ \A f \in Targets : file[f] = 1 \/ (file[f] = 0 /\ f \in Fresh)
    BY <1>1, ConfigAssumption DEF ConfigInit, Files
  <1>3. NoTxn \in Transactions /\ NoTxn.phase = "none"
    BY <1>1 DEF NoTxn, Transactions
  <1>4. pub \in [Publishers -> Pubs] /\ \A p \in Publishers : pub[p].pc = "idle"
    BY IdlePub DEF ConfigInit
  <1>5. ConfigTypeOK
    BY <1>1, <1>2, <1>3, <1>4 DEF ConfigInit, ConfigTypeOK
  <1>6. AllOrNothing
    BY <1>2 DEF ConfigInit, AllOrNothing, OneGeneration
  <1>7. LockKept /\ VersionsGrow
    BY <1>2, <1>3, <1>4 DEF ConfigInit, LockKept, VersionsGrow, Holding, PubAt
  <1>8. OldOrNew /\ EditedIsNewer
    BY <1>3, <1>4 DEF ConfigInit, OldOrNew, EditedIsNewer, PubAt
  <1>9. QED BY <1>5, <1>6, <1>7, <1>8 DEF ConfigInv

LEMMA ConfigKeeps == ConfigInv /\ [ConfigNext]_configVars => ConfigInv'
  <1> SUFFICES ASSUME ConfigInv, [ConfigNext]_configVars PROVE ConfigInv'
    OBVIOUS
  <1>1. CASE UNCHANGED configVars
    <2>1. UNCHANGED <<file, last, txn, pub, told, outside, edited>>
      BY <1>1 DEF configVars
    <2>2. ConfigTypeOK' /\ AllOrNothing' /\ LockKept' /\ VersionsGrow' /\ EditedIsNewer'
      BY <2>1 DEF ConfigInv, ConfigTypeOK, AllOrNothing, OneGeneration, LockKept, Holding, PubAt,
                  VersionsGrow, EditedIsNewer
    <2>3. OldOrNew'
      BY <2>1 DEF ConfigInv, OldOrNew, OneGeneration, PubAt, Restored
    <2>4. QED BY <2>2, <2>3 DEF ConfigInv
  <1>2. ASSUME NEW f \in Files, Outside(f) PROVE ConfigInv'
    BY <1>2, OutsideKeeps
  <1>3. ASSUME NEW p \in Publishers, Publish(p) PROVE ConfigInv'
    <2>1. CASE CrashPublisher(p)
      BY <2>1, GivesUp DEF CrashPublisher, others
    <2>2. CASE LoadConfig(p) \/ TakeLock(p) \/ Enter(p) \/ RecoverTxn(p) \/ RestoreFile(p) \/ ReadBack(p)
      BY <2>2, LoadKeeps, TakeLockKeeps, EnterKeeps, RecoverPublicationKeeps, RestoreKeeps, ReadBackKeeps
    <2>3. CASE SweepDirectory(p) \/ CheckSource(p) \/ PrepareTxn(p) \/ BeginCommit(p) \/ PublishFile(p)
               \/ CommitTxn(p)
      BY <2>3, SweepUpKeeps, CheckKeeps, PrepareKeeps, BeginKeeps, PublishKeeps, CommitKeeps
    <2>4. QED BY <1>3, <2>1, <2>2, <2>3 DEF Publish
  <1>4. QED BY <1>1, <1>2, <1>3 DEF ConfigNext

\* All or nothing, and a committed generation stays, for any number of targets
\* and publishers (_publish_yaml_config_generation, _recover_transaction).
THEOREM ConfigInvariant == ConfigSpec => []ConfigInv
  <1>1. QED BY ConfigStarts, ConfigKeeps, PTL DEF ConfigSpec

\* What was written by hand beside a waiting transaction is not overwritten
\* before the transaction is gone (_validate_recovery_target_states).
THEOREM HandWritingSurvives == ConfigSpec => OutsideWritesSurvive
  <1>1. ASSUME ConfigInv, [ConfigNext]_configVars
        PROVE  [\A f \in edited : file'[f] # file[f] => last' # last]_configVars
    <2>1. CASE UNCHANGED file
      BY <2>1
    <2>2. ASSUME NEW f \in Files, Outside(f) PROVE last' # last
      BY <1>1, <2>2, ConfigAssumption DEF Outside, ConfigInv, ConfigTypeOK, Versions
    <2>3. ASSUME NEW p \in Publishers, RestoreFile(p) \/ PublishFile(p) PROVE edited = {}
      BY <1>1, <2>3, NothingEdited DEF RestoreFile, PublishFile, PubAt, ConfigInv
    <2>4. QED
      BY <1>1, <2>1, <2>2, <2>3
         DEF ConfigNext, Publish, LoadConfig, TakeLock, Enter, RecoverTxn, ReadBack, SweepDirectory, CheckSource,
             PrepareTxn, BeginCommit, Compensate, CommitTxn, CrashPublisher, configVars
  <1>2. QED BY <1>1, ConfigInvariant, PTL DEF ConfigSpec, OutsideWritesSurvive

\* A publication replaces the source it was derived from.
THEOREM PublicationsAreBased == ConfigSpec => BasedOnSource
  <1>1. ASSUME ConfigInv
        PROVE  [\A p \in Publishers : PubAt(p, "write") /\ pub'[p].todo # pub[p].todo /\ ~outside =>
                  file[Source] \in {pub[p].seen, txn.after}]_configVars
    <2> SUFFICES ASSUME NEW p \in Publishers, PubAt(p, "write"), ~outside
                 PROVE  file[Source] \in {pub[p].seen, txn.after}
      OBVIOUS
    <2>1. txn.phase = "committing" /\ txn.before = pub[p].seen
      BY <1>1 DEF ConfigInv, LockKept, PubAt
    <2>2. QED BY <1>1, <2>1 DEF ConfigInv, OldOrNew, Files
  <1>2. QED BY <1>1, ConfigInvariant, PTL DEF ConfigSpec, BasedOnSource

===============================================================================
