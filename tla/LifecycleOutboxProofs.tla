------------------------ MODULE LifecycleOutboxProofs -------------------------
(***************************************************************************)
(* Proofs about LifecycleOutbox for any intents, accounts, dispatchers,    *)
(* recipients, attempt limit and times that meet its assumption: its       *)
(* inductive invariant, that sends of a direct route are spaced, and that  *)
(* a direct batch is delivered as OneShotDelivery promises.                *)
(***************************************************************************)
EXTENDS LifecycleOutbox, TLAPS

(* What the steps of a dispatcher make of its local state.                 *)

LEMMA IdleFacts ==
    /\ Idle \in Disps /\ Idle.pc = "idle" /\ Idle.out = "unknown"
    /\ Idle.retry = FALSE /\ Idle.next = 0
  BY DEF Idle, Disps, PCs, Outcomes, Batches

\* A step of one dispatcher: the others keep their local state.
LEMMA OwnStep ==
    ASSUME disp \in [Dispatchers -> Disps], NEW d \in Dispatchers, NEW z \in Disps,
           disp' = [disp EXCEPT ![d] = z]
    PROVE  /\ disp' \in [Dispatchers -> Disps] /\ disp'[d] = z
           /\ \A e \in Dispatchers \ {d} : disp'[e] = disp[e]
  OBVIOUS

LEMMA Stops ==
    ASSUME TypeOK, NEW d \in Dispatchers, Stop(d)
    PROVE  /\ disp' \in [Dispatchers -> Disps] /\ disp'[d] = Idle
           /\ \A e \in Dispatchers \ {d} : disp'[e] = disp[e]
  BY IdleFacts, OwnStep DEF Stop, TypeOK

\* What a step changes of a local state x, and nothing else.
PollTakes(z, t, a)     == z = [Idle EXCEPT !.pc = "plan", !.at = t, !.accounts = a]
Goes(z, x, pc)         == z = [x EXCEPT !.pc = pc]
ClaimTakes(z, x, m, k) == z = [x EXCEPT !.pc = "mark", !.m = m, !.accounts = {}, !.claim = k]
SendsTo(z, x, todo)    == z = [x EXCEPT !.pc = "send", !.todo = todo]
Hears(z, x, out)       == z = [x EXCEPT !.pc = "reply", !.out = out]
Tries(z, x, cur)       == z = [x EXCEPT !.pc = "child", !.cur = cur]
Passes(z, x, todo)     == z = [x EXCEPT !.todo = todo]
Answers(z, x, todo)    == z = [x EXCEPT !.pc = "send", !.todo = todo, !.cur = {}]
Returns(z, x, out, at) == z = [x EXCEPT !.pc = "reply", !.out = out, !.retry = TRUE, !.next = at]
Fails(z, x)            == z = [x EXCEPT !.pc = "reply", !.retry = TRUE, !.out = "pending", !.todo = {}]

\* The batch and the claim in hand, and the time of the poll, stay.
Same(z, x)     == z.m = x.m /\ z.claim = x.claim /\ z.at = x.at
NoReply(z, x)  == z.out = x.out /\ z.retry = x.retry /\ z.next = x.next

LEMMA PollTakesFacts ==
    ASSUME NEW t \in Nat, NEW a \in SUBSET Accounts, NEW z, PollTakes(z, t, a)
    PROVE  z \in Disps /\ z.pc = "plan" /\ z.at = t /\ NoReply(z, Idle)
  BY DEF PollTakes, Idle, Disps, PCs, Outcomes, Batches, NoReply

LEMMA GoesFacts ==
    ASSUME NEW x \in Disps, NEW pc \in PCs, NEW z, Goes(z, x, pc)
    PROVE  z \in Disps /\ z.pc = pc /\ Same(z, x) /\ NoReply(z, x)
  BY DEF Goes, Disps, Same, NoReply

LEMMA ClaimTakesFacts ==
    ASSUME NEW x \in Disps, NEW m \in Batches, NEW k \in Nat, NEW z, ClaimTakes(z, x, m, k)
    PROVE  /\ z \in Disps /\ z.pc = "mark" /\ z.m = m /\ z.claim = k /\ z.at = x.at
           /\ NoReply(z, x)
  BY DEF ClaimTakes, Disps, PCs, NoReply

LEMMA SendsToFacts ==
    ASSUME NEW x \in Disps, NEW todo \in SUBSET Recipients, NEW z, SendsTo(z, x, todo)
    PROVE  z \in Disps /\ z.pc = "send" /\ Same(z, x) /\ NoReply(z, x)
  BY DEF SendsTo, Disps, PCs, Same, NoReply

LEMMA HearsFacts ==
    ASSUME NEW x \in Disps, NEW out \in Outcomes, NEW z, Hears(z, x, out)
    PROVE  /\ z \in Disps /\ z.pc = "reply" /\ z.out = out /\ z.retry = x.retry /\ z.next = x.next
           /\ Same(z, x)
  BY DEF Hears, Disps, PCs, Same

LEMMA TriesFacts ==
    ASSUME NEW x \in Disps, NEW cur \in SUBSET Recipients, NEW z, Tries(z, x, cur)
    PROVE  z \in Disps /\ z.pc = "child" /\ Same(z, x) /\ NoReply(z, x)
  BY DEF Tries, Disps, PCs, Same, NoReply

LEMMA PassesFacts ==
    ASSUME NEW x \in Disps, NEW todo \in SUBSET Recipients, NEW z, Passes(z, x, todo)
    PROVE  z \in Disps /\ z.pc = x.pc /\ Same(z, x) /\ NoReply(z, x)
  BY DEF Passes, Disps, Same, NoReply

LEMMA AnswersFacts ==
    ASSUME NEW x \in Disps, NEW todo \in SUBSET Recipients, NEW z, Answers(z, x, todo)
    PROVE  z \in Disps /\ z.pc = "send" /\ Same(z, x) /\ NoReply(z, x)
  BY DEF Answers, Disps, PCs, Same, NoReply

LEMMA ReturnsFacts ==
    ASSUME NEW x \in Disps, NEW out \in Outcomes, NEW at \in Nat, NEW z, Returns(z, x, out, at)
    PROVE  z \in Disps /\ z.pc = "reply" /\ Same(z, x)
  BY DEF Returns, Disps, PCs, Same

LEMMA FailsFacts ==
    ASSUME NEW x \in Disps, NEW z, Fails(z, x)
    PROVE  z \in Disps /\ z.pc = "reply" /\ Same(z, x)
  BY DEF Fails, Disps, PCs, Outcomes, Same

-----------------------------------------------------------------------------
(* What the steps make of a batch.                                         *)

SetsStatus(z, x, s) == z = [x EXCEPT !.status = s]
Claimed(z, x, k, t) == z = [x EXCEPT !.status = "claimed", !.next = 0, !.claim = k,
                                     !.claimed = t, !.started = 0]
Started(z, x, t, k, f) == z = [x EXCEPT !.status = "send_started", !.started = t,
                                        !.attempts = k, !.frozen = f]
Completed(z, x, out, retry, next) == z = [x EXCEPT !.status = out, !.retry = retry, !.next = next]
Recovers(z, x, t)   == z = [x EXCEPT !.status = "pending", !.claimed = 0, !.next = t]
AsksAgain(z, x, t)  == z = [x EXCEPT !.status = "pending", !.next = t]
Forgets(z, x)       == z = [x EXCEPT !.status = "unknown", !.next = 0]

\* The times and attempts of a batch stay.
Keeps(z, x) == /\ z.claim = x.claim /\ z.claimed = x.claimed /\ z.started = x.started
               /\ z.attempts = x.attempts

LEMMA SetsStatusFacts ==
    ASSUME NEW x \in BatchRecords, NEW s \in BatchStatuses, NEW z, SetsStatus(z, x, s)
    PROVE  z \in BatchRecords /\ z.status = s /\ Keeps(z, x) /\ z.next = x.next /\ z.retry = x.retry
  BY DEF SetsStatus, BatchRecords, Keeps

LEMMA ClaimedFacts ==
    ASSUME NEW x \in BatchRecords, NEW k \in Nat, NEW t \in Nat, NEW z, Claimed(z, x, k, t)
    PROVE  /\ z \in BatchRecords /\ z.status = "claimed" /\ z.claim = k
           /\ z.claimed = t
  BY DEF Claimed, BatchRecords, BatchStatuses

LEMMA StartedFacts ==
    ASSUME NEW x \in BatchRecords, NEW t \in Nat, NEW k \in Nat, NEW f \in BOOLEAN, NEW z,
           Started(z, x, t, k, f)
    PROVE  /\ z \in BatchRecords /\ z.status = "send_started" /\ z.claim = x.claim
           /\ z.started = t
  BY DEF Started, BatchRecords, BatchStatuses

LEMMA CompletedFacts ==
    ASSUME NEW x \in BatchRecords, NEW out \in BatchStatuses, NEW retry \in BOOLEAN,
           NEW next \in Nat, NEW z, Completed(z, x, out, retry, next)
    PROVE  /\ z \in BatchRecords /\ z.status = out /\ z.retry = retry /\ z.next = next
           /\ Keeps(z, x)
  BY DEF Completed, BatchRecords, Keeps

LEMMA RecoversFacts ==
    ASSUME NEW x \in BatchRecords, NEW t \in Nat, NEW z, Recovers(z, x, t)
    PROVE  /\ z \in BatchRecords /\ z.status = "pending" /\ z.next = t
           /\ z.claim = x.claim /\ z.started = x.started /\ z.attempts = x.attempts
  BY DEF Recovers, BatchRecords, BatchStatuses

LEMMA AsksAgainFacts ==
    ASSUME NEW x \in BatchRecords, NEW t \in Nat, NEW z, AsksAgain(z, x, t)
    PROVE  z \in BatchRecords /\ z.status = "pending" /\ z.next = t /\ Keeps(z, x)
  BY DEF AsksAgain, BatchRecords, BatchStatuses, Keeps

LEMMA ForgetsFacts ==
    ASSUME NEW x \in BatchRecords, NEW z, Forgets(z, x)
    PROVE  z \in BatchRecords /\ z.status = "unknown" /\ Keeps(z, x)
  BY DEF Forgets, BatchRecords, BatchStatuses, Keeps

LEMMA NewBatchFacts ==
    ASSUME NEW t \in Nat
    PROVE  /\ NewBatch(t) \in BatchRecords /\ NewBatch(t).status = "pending"
           /\ NewBatch(t).claim = 0 /\ NewBatch(t).started = 0 /\ NewBatch(t).next = t
  BY DEF NewBatch, BatchRecords, BatchStatuses

\* Recovery, batch by batch.
LEMMA RecoveredFacts ==
    ASSUME TypeOK, NEW m \in Known, NEW t \in Nat
    PROVE  LET b == batch[m]  z == Recovered(m, t) IN
           /\ z \in BatchRecords /\ z.claim = b.claim /\ z.started = b.started
           /\ z.attempts = b.attempts
           /\ \/ z = b /\ (provider = "direct" => ~Lost(m, t))
              \/ /\ b.status = "claimed" /\ Stale(b.claimed, t)
                 /\ z.status = "pending" /\ z.next = t
              \/ provider = "fanout" /\ Lost(m, t) /\ z.status = "pending"
              \/ provider = "direct" /\ Lost(m, t) /\ z.status = "unknown"
  <1> DEFINE b == batch[m]
             z == Recovered(m, t)
  <1>1. b \in BatchRecords /\ provider \in {"direct", "fanout"}
    BY OutboxAssumption DEF TypeOK
  <1>2. CASE b.status = "claimed" /\ b.started = 0 /\ Stale(b.claimed, t)
    <2>1. PICK y : y = z
      OBVIOUS
    <2>2. ~Lost(m, t)
      BY <1>2 DEF Lost
    <2>3. Recovers(y, b, t)
      BY <1>2, <2>1, <2>2 DEF Recovered, Recovers
    <2>4. QED BY <1>1, <1>2, <2>1, <2>3, RecoversFacts
  <1>3. CASE Lost(m, t) /\ provider = "fanout"
    <2>1. PICK y : y = z
      OBVIOUS
    <2>2. ~(b.status = "claimed")
      BY <1>3 DEF Lost
    <2>3. AsksAgain(y, b, t)
      BY <1>3, <2>1, <2>2 DEF Recovered, AsksAgain
    <2>4. QED BY <1>1, <1>3, <2>1, <2>3, AsksAgainFacts DEF Keeps
  <1>4. CASE Lost(m, t) /\ provider # "fanout"
    <2>1. PICK y : y = z
      OBVIOUS
    <2>2. ~(b.status = "claimed")
      BY <1>4 DEF Lost
    <2>3. Forgets(y, b)
      BY <1>4, <2>1, <2>2 DEF Recovered, Forgets
    <2>4. QED BY <1>1, <1>4, <2>1, <2>3, ForgetsFacts DEF Keeps
  <1>5. CASE ~Lost(m, t) /\ ~(b.status = "claimed" /\ b.started = 0 /\ Stale(b.claimed, t))
    <2>1. z = b
      BY <1>5 DEF Recovered
    <2>2. QED BY <1>1, <1>5, <2>1
  <1>6. QED BY <1>1, <1>2, <1>3, <1>4, <1>5

\* A step that changes one batch.
LEMMA OwnBatch ==
    ASSUME TypeOK, NEW m \in Known, NEW z \in BatchRecords, batch' = [batch EXCEPT ![m] = z]
    PROVE  /\ Known' = Known /\ batch' \in [Known' -> BatchRecords] /\ batch'[m] = z
           /\ \A n \in Known \ {m} : batch'[n] = batch[n]
  BY DEF TypeOK, Known

LEMMA SettleFacts ==
    ASSUME TypeOK, NEW ms, NEW s \in RowStatuses, row' = Settle(ms, s)
    PROVE  /\ row' \in [Rows -> RowStatuses]
           /\ \A r \in Rows : row'[r] = IF row[r] = "batched" /\ \E m \in ms : r \in m
                                          THEN s ELSE row[r]
  BY DEF Settle, TypeOK

-----------------------------------------------------------------------------
(* The actions, field by field.                                            *)

Others(d) == \A e \in Dispatchers \ {d} : disp'[e] = disp[e]

\* The lost direct sends a recovery at time t settles.
LostAt(t) == {m \in Known : provider = "direct" /\ Lost(m, t)}

LEMMA PollShape ==
    ASSUME TypeOK, NEW d \in Dispatchers, Poll(d)
    PROVE  \E t \in Nat :
             /\ disp' \in [Dispatchers -> Disps] /\ Others(d)
             /\ disp'[d].pc = "plan" /\ NoReply(disp'[d], Idle)
             /\ Known' = Known /\ batch' \in [Known' -> BatchRecords]
             /\ \A m \in Known : batch'[m] = Recovered(m, t)
             /\ \A m \in LostAt(t) : Awaited(m)
             /\ row' \in [Rows -> RowStatuses]
             /\ \A r \in Rows : row'[r] = IF row[r] = "batched" /\ \E m \in LostAt(t) : r \in m
                                            THEN "unknown" ELSE row[r]
  <1>1. PICK t \in 1..now, a \in SUBSET Accounts :
          /\ \A m \in LostAt(t) : Awaited(m)
          /\ batch' = [m \in Known |-> Recovered(m, t)]
          /\ row' = Settle(LostAt(t), "unknown")
          /\ disp' = [disp EXCEPT ![d] = [Idle EXCEPT !.pc = "plan", !.at = t, !.accounts = a]]
    BY DEF Poll, LostAt
  <1>2. t \in Nat
    BY DEF TypeOK
  <1>3. /\ disp' \in [Dispatchers -> Disps] /\ Others(d)
        /\ disp'[d].pc = "plan" /\ NoReply(disp'[d], Idle)
    <2>1. PICK z : z = [Idle EXCEPT !.pc = "plan", !.at = t, !.accounts = a]
      OBVIOUS
    <2>2. PollTakes(z, t, a)
      BY <2>1 DEF PollTakes
    <2>3. z \in Disps /\ z.pc = "plan" /\ NoReply(z, Idle)
      BY <1>2, <2>2, PollTakesFacts
    <2>4. disp' = [disp EXCEPT ![d] = z]
      BY <1>1, <2>1, Zenon
    <2>5. QED BY <2>3, <2>4, OwnStep DEF Others, TypeOK
  <1>4. Known' = Known /\ \A m \in Known : batch'[m] = Recovered(m, t)
    BY <1>1, Zenon DEF Known
  <1>5. batch' \in [Known' -> BatchRecords]
    <2>1. \A m \in Known : Recovered(m, t) \in BatchRecords
      BY <1>2, RecoveredFacts
    <2>2. batch' \in [Known -> BatchRecords]
      BY <1>1, <2>1
    <2>3. QED BY <1>4, <2>2
  <1>6. "unknown" \in RowStatuses
    BY DEF RowStatuses
  <1>7. QED BY <1>1, <1>2, <1>3, <1>4, <1>5, <1>6, SettleFacts

LEMMA GoShape ==
    ASSUME TypeOK, NEW d \in Dispatchers, NEW pc \in PCs, Go(d, pc)
    PROVE  /\ disp' \in [Dispatchers -> Disps] /\ Others(d)
           /\ disp'[d].pc = pc /\ NoReply(disp'[d], disp[d])
  <1>1. PICK z : z = [disp[d] EXCEPT !.pc = pc]
    OBVIOUS
  <1>2. disp[d] \in Disps
    BY DEF TypeOK
  <1>3. Goes(z, disp[d], pc)
    BY <1>1 DEF Goes
  <1>4. z \in Disps /\ z.pc = pc /\ NoReply(z, disp[d])
    BY <1>2, <1>3, GoesFacts
  <1>5. disp' = [disp EXCEPT ![d] = z]
    BY <1>1, Zenon DEF Go
  <1>6. QED BY <1>4, <1>5, OwnStep DEF Others, TypeOK

\* A plan suppresses void rows, all unbound, and binds some other unbound rows
\* in a new batch, or none.
Voids(void) ==
    /\ row' = [r \in Rows |-> IF r \in void THEN "suppressed" ELSE row[r]]
    /\ UNCHANGED <<batch, child>>
Binds(void, m, t) ==
    /\ row' = [q \in Rows |-> IF q \in void THEN "suppressed"
                              ELSE IF q \in m THEN "batched" ELSE row[q]]
    /\ batch' = [n \in Known \cup {m} |-> IF n = m THEN NewBatch(t) ELSE batch[n]]
    /\ child' = [n \in Known \cup {m} |-> IF n = m
                   THEN [c \in Recipients |-> NewChild] ELSE child[n]]
Free(rs) == \A r \in rs : row[r] = "pending" /\ ~Bound(r)

LEMMA PlanShape ==
    ASSUME TypeOK, NEW d \in Dispatchers, Plan(d)
    PROVE  /\ disp' \in [Dispatchers -> Disps] /\ Others(d)
           /\ disp'[d].pc = "claim" /\ NoReply(disp'[d], disp[d])
           /\ \E void \in SUBSET Rows :
                /\ Free(void)
                /\ \/ Voids(void)
                   \/ \E m \in Batches :
                        /\ m # {} /\ m \cap void = {} /\ Free(m)
                        /\ ~RateLimited(disp[d].at)
                        /\ provider = "direct" /\ combos = {} =>
                             \A n \in Known : ~Active(batch[n])
                        /\ Binds(void, m, disp[d].at)
  <1> DEFINE a == disp[d].accounts
             rs == Eligible(a)
             t == disp[d].at
             void == {r \in rs : r[1] \in combos \ current}
             waits == provider # "fanout" /\ \E m \in Known : Active(batch[m]) /\ InScope(m, a)
  <1>1. /\ disp' \in [Dispatchers -> Disps] /\ Others(d)
        /\ disp'[d].pc = "claim" /\ NoReply(disp'[d], disp[d])
    <2>1. "claim" \in PCs
      BY DEF PCs
    <2>2. Go(d, "claim")
      BY DEF Plan
    <2>3. QED BY <2>1, <2>2, GoShape
  <1>2. rs \in SUBSET Rows /\ Free(rs)
    BY DEF Eligible, Free
  <1>3. void \in SUBSET Rows /\ Free(void)
    BY <1>2 DEF Free
  <1>4. ASSUME UNCHANGED <<row, batch, child>> PROVE Free({}) /\ Voids({})
    BY <1>4 DEF Free, Voids, TypeOK
  <1>5. ASSUME ~waits, NEW r \in rs \ void, NEW m, m = Group(r, rs \ void)
        PROVE  /\ m \in Batches /\ m # {} /\ m \cap void = {} /\ Free(m)
               /\ provider = "direct" /\ combos = {} => \A n \in Known : ~Active(batch[n])
    <2>1. r \in m /\ m \subseteq rs \ void
      BY <1>5 DEF Group
    <2>2. m \in Batches /\ m # {} /\ m \cap void = {} /\ Free(m)
      BY <1>2, <2>1 DEF Batches, Free
    <2>3. ASSUME provider = "direct", combos = {}, NEW n \in Known PROVE ~Active(batch[n])
      <3>1. InScope(n, a)
        BY <2>3 DEF InScope
      <3>2. QED BY <1>5, <2>3, <3>1
    <2>4. QED BY <2>2, <2>3
  <1>6. \/ UNCHANGED <<row, batch, child>>
        \/ Voids(void)
        \/ ~waits /\ \E r \in rs \ void : \E m :
             m = Group(r, rs \ void) /\ ~RateLimited(t) /\ Binds(void, m, t)
    BY DEF Plan, Voids, Binds
  <1> HIDE DEF void, rs, waits
  <1>7. QED BY <1>1, <1>3, <1>4, <1>5, <1>6

LEMMA ClaimShape ==
    ASSUME TypeOK, NEW d \in Dispatchers, Claim(d)
    PROVE  \/ Stop(d) /\ UNCHANGED batch
           \/ \E m \in Known :
                /\ Claimable(m, disp[d].at, disp[d].accounts)
                /\ Known' = Known /\ batch' \in [Known' -> BatchRecords]
                /\ \A n \in Known \ {m} : batch'[n] = batch[n]
                /\ batch'[m].status = "claimed" /\ batch'[m].claimed = disp[d].at
                /\ batch'[m].claim = batch[m].claim + 1
                /\ disp' \in [Dispatchers -> Disps] /\ Others(d)
                /\ disp'[d].pc = "mark" /\ disp'[d].m = m /\ disp'[d].at = disp[d].at
                /\ disp'[d].claim = batch[m].claim + 1 /\ NoReply(disp'[d], disp[d])
  <1>1. CASE Stop(d) /\ UNCHANGED batch
    BY <1>1
  <1>2. ASSUME NEW m \in Known, Claimable(m, disp[d].at, disp[d].accounts),
               batch' = [batch EXCEPT ![m] = [@ EXCEPT !.status = "claimed", !.next = 0,
                           !.claim = batch[m].claim + 1, !.claimed = disp[d].at,
                           !.started = 0]],
               disp' = [disp EXCEPT ![d].pc = "mark", ![d].m = m, ![d].accounts = {},
                                    ![d].claim = batch[m].claim + 1]
        PROVE  /\ Known' = Known /\ batch' \in [Known' -> BatchRecords]
               /\ \A n \in Known \ {m} : batch'[n] = batch[n]
               /\ batch'[m].status = "claimed" /\ batch'[m].claimed = disp[d].at
               /\ batch'[m].claim = batch[m].claim + 1
               /\ disp' \in [Dispatchers -> Disps] /\ Others(d)
               /\ disp'[d].pc = "mark" /\ disp'[d].m = m /\ disp'[d].at = disp[d].at
               /\ disp'[d].claim = batch[m].claim + 1 /\ NoReply(disp'[d], disp[d])
    <2>1. batch[m] \in BatchRecords /\ disp[d] \in Disps /\ m \in Batches
      BY DEF TypeOK
    <2>2. PICK k : k = batch[m].claim + 1
      OBVIOUS
    <2>3. k \in Nat /\ disp[d].at \in Nat
      BY <2>1, <2>2 DEF BatchRecords, Disps
    <2>4. PICK b : b = [batch[m] EXCEPT !.status = "claimed", !.next = 0, !.claim = k,
                                        !.claimed = disp[d].at, !.started = 0]
      OBVIOUS
    <2>5. Claimed(b, batch[m], k, disp[d].at)
      BY <2>4 DEF Claimed
    <2>6. b \in BatchRecords /\ b.status = "claimed" /\ b.claim = k /\ b.claimed = disp[d].at
      BY <2>1, <2>3, <2>5, ClaimedFacts
    <2>7. batch' = [batch EXCEPT ![m] = b]
      BY <1>2, <2>2, <2>4, Zenon
    <2>8. PICK z : z = [disp[d] EXCEPT !.pc = "mark", !.m = m, !.accounts = {}, !.claim = k]
      OBVIOUS
    <2>9. ClaimTakes(z, disp[d], m, k)
      BY <2>8 DEF ClaimTakes
    <2>10. /\ z \in Disps /\ z.pc = "mark" /\ z.m = m /\ z.claim = k /\ z.at = disp[d].at
           /\ NoReply(z, disp[d])
      BY <2>1, <2>3, <2>9, ClaimTakesFacts
    <2>11. disp' = [disp EXCEPT ![d] = z]
      BY <1>2, <2>2, <2>8
    <2>12. disp' \in [Dispatchers -> Disps] /\ disp'[d] = z /\ Others(d)
      BY <2>10, <2>11, OwnStep DEF Others, TypeOK
    <2>13. /\ Known' = Known /\ batch' \in [Known' -> BatchRecords] /\ batch'[m] = b
           /\ \A n \in Known \ {m} : batch'[n] = batch[n]
      BY <2>6, <2>7, OwnBatch
    <2>14. QED BY <2>2, <2>6, <2>10, <2>12, <2>13
  <1>3. QED BY <1>1, <1>2 DEF Claim

\* What a start makes of the batch, the dispatcher and the last start.
LEMMA MarkShape ==
    ASSUME TypeOK, NEW d \in Dispatchers, At(d, "mark"), disp[d].m \in Known, MarkStarted(d)
    PROVE  LET m == disp[d].m IN
           \/ /\ Holds(d, "claimed") /\ ~(combos \subseteq current)
              /\ Known' = Known /\ batch' \in [Known' -> BatchRecords]
              /\ \A n \in Known \ {m} : batch'[n] = batch[n]
              /\ batch'[m].status = "suppressed" /\ Keeps(batch'[m], batch[m])
              /\ row' = Settle({m}, "suppressed")
              /\ Stop(d) /\ UNCHANGED lastStart
           \/ /\ Holds(d, "claimed")
              /\ Known' = Known /\ batch' \in [Known' -> BatchRecords]
              /\ \A n \in Known \ {m} : batch'[n] = batch[n]
              /\ batch'[m].status = "send_started" /\ batch'[m].claim = batch[m].claim
              /\ batch'[m].started = disp[d].at
              /\ disp' \in [Dispatchers -> Disps] /\ Others(d)
              /\ disp'[d].pc = "send" /\ Same(disp'[d], disp[d]) /\ NoReply(disp'[d], disp[d])
              /\ lastStart' = IF disp[d].at > lastStart THEN disp[d].at ELSE lastStart
              /\ UNCHANGED row
           \/ ~Holds(d, "claimed") /\ Stop(d) /\ UNCHANGED <<row, batch, lastStart>>
  <1> DEFINE m == disp[d].m
             at == disp[d].at
             void == ~batch[m].frozen /\ \E r \in m : r[1] \in combos \ current
  <1>1. batch[m] \in BatchRecords /\ disp[d] \in Disps /\ m \in Batches
    BY DEF TypeOK
  <1>2. CASE /\ Holds(d, "claimed") /\ void
             /\ batch' = [batch EXCEPT ![m].status = "suppressed"]
             /\ row' = Settle({m}, "suppressed")
             /\ Stop(d) /\ UNCHANGED lastStart
    <2>1. ~(combos \subseteq current)
      BY <1>2
    <2>2. PICK b : b = [batch[m] EXCEPT !.status = "suppressed"]
      OBVIOUS
    <2>3. SetsStatus(b, batch[m], "suppressed") /\ "suppressed" \in BatchStatuses
      BY <2>2 DEF SetsStatus, BatchStatuses
    <2>4. b \in BatchRecords /\ b.status = "suppressed" /\ Keeps(b, batch[m])
      BY <1>1, <2>3, SetsStatusFacts
    <2>5. batch' = [batch EXCEPT ![m] = b]
      BY <1>2, <2>2, Zenon
    <2>6. /\ Known' = Known /\ batch' \in [Known' -> BatchRecords] /\ batch'[m] = b
          /\ \A n \in Known \ {m} : batch'[n] = batch[n]
      BY <2>4, <2>5, OwnBatch
    <2> HIDE DEF void
    <2>7. QED BY <1>2, <2>1, <2>4, <2>6
  <1>3. CASE /\ Holds(d, "claimed")
             /\ batch' = [batch EXCEPT ![m] = [@ EXCEPT !.status = "send_started",
                            !.started = at, !.attempts = batch[m].attempts + 1,
                            !.frozen = (provider = "fanout")]]
             /\ disp' = [disp EXCEPT ![d].pc = "send",
                           ![d].todo = IF provider = "fanout" THEN Recipients ELSE {}]
             /\ lastStart' = IF at > lastStart THEN at ELSE lastStart
             /\ UNCHANGED row
    <2>1. PICK k : k = batch[m].attempts + 1
      OBVIOUS
    <2>2. PICK f : f = (provider = "fanout")
      OBVIOUS
    <2>3. PICK todo : todo = IF provider = "fanout" THEN Recipients ELSE {}
      OBVIOUS
    <2>4. k \in Nat /\ at \in Nat /\ f \in BOOLEAN /\ todo \in SUBSET Recipients
      BY <1>1, <2>1, <2>2, <2>3 DEF BatchRecords, Disps
    <2>5. PICK b : b = [batch[m] EXCEPT !.status = "send_started", !.started = at,
                                        !.attempts = k, !.frozen = f]
      OBVIOUS
    <2>6. Started(b, batch[m], at, k, f)
      BY <2>5 DEF Started
    <2>7. /\ b \in BatchRecords /\ b.status = "send_started" /\ b.claim = batch[m].claim
          /\ b.started = at
      BY <1>1, <2>4, <2>6, StartedFacts
    <2>8. batch' = [batch EXCEPT ![m] = b]
      BY <1>3, <2>1, <2>2, <2>5, Zenon
    <2>9. PICK z : z = [disp[d] EXCEPT !.pc = "send", !.todo = todo]
      OBVIOUS
    <2>10. SendsTo(z, disp[d], todo)
      BY <2>9 DEF SendsTo
    <2>11. z \in Disps /\ z.pc = "send" /\ Same(z, disp[d]) /\ NoReply(z, disp[d])
      BY <1>1, <2>4, <2>10, SendsToFacts
    <2>12. disp' = [disp EXCEPT ![d] = z]
      BY <1>3, <2>3, <2>9
    <2>13. disp' \in [Dispatchers -> Disps] /\ disp'[d] = z /\ Others(d)
      BY <2>11, <2>12, OwnStep DEF Others, TypeOK
    <2>14. /\ Known' = Known /\ batch' \in [Known' -> BatchRecords] /\ batch'[m] = b
           /\ \A n \in Known \ {m} : batch'[n] = batch[n]
      BY <2>7, <2>8, OwnBatch
    <2>15. QED BY <1>3, <2>7, <2>11, <2>13, <2>14
  <1>4. QED BY <1>2, <1>3 DEF MarkStarted

LEMMA SendShape ==
    ASSUME TypeOK, NEW d \in Dispatchers, SendDirect(d)
    PROVE  /\ At(d, "send") /\ provider = "direct"
           /\ disp' \in [Dispatchers -> Disps] /\ Others(d)
           /\ disp'[d].pc = "reply" /\ Same(disp'[d], disp[d])
           /\ disp'[d].retry = disp[d].retry /\ disp'[d].next = disp[d].next
           /\ disp'[d].out \in {"confirmed", "accepted", "explicit_failed", "unknown"}
           /\ \/ taken' = [taken EXCEPT ![disp[d].m] = @ + 1] /\ disp'[d].out # "explicit_failed"
              \/ taken' = taken /\ disp'[d].out # "confirmed"
  <1>1. PICK out \in {"confirmed", "accepted", "explicit_failed", "unknown"}, took \in BOOLEAN :
          /\ out = "confirmed" => took
          /\ out = "explicit_failed" => ~took
          /\ taken' = IF took THEN [taken EXCEPT ![disp[d].m] = @ + 1] ELSE taken
          /\ disp' = [disp EXCEPT ![d].pc = "reply", ![d].out = out]
    BY DEF SendDirect
  <1>2. PICK z : z = [disp[d] EXCEPT !.pc = "reply", !.out = out]
    OBVIOUS
  <1>3. Hears(z, disp[d], out) /\ disp[d] \in Disps /\ out \in Outcomes
    BY <1>2 DEF Hears, TypeOK, Outcomes
  <1>4. /\ z \in Disps /\ z.pc = "reply" /\ z.out = out /\ z.retry = disp[d].retry
        /\ z.next = disp[d].next /\ Same(z, disp[d])
    BY <1>3, HearsFacts
  <1>5. disp' = [disp EXCEPT ![d] = z]
    BY <1>1, <1>2
  <1>6. disp' \in [Dispatchers -> Disps] /\ disp'[d] = z /\ Others(d)
    BY <1>4, <1>5, OwnStep DEF Others, TypeOK
  <1>7. \/ taken' = [taken EXCEPT ![disp[d].m] = @ + 1] /\ out # "explicit_failed"
        \/ taken' = taken /\ out # "confirmed"
    BY <1>1
  <1>8. QED BY <1>1, <1>4, <1>6, <1>7 DEF SendDirect

\* The children of a fan-out.
LEMMA OwnChild ==
    ASSUME TypeOK, NEW m \in Known, NEW c \in Recipients, NEW x \in Children,
           child' = [child EXCEPT ![m][c] = x]
    PROVE  child' \in [Known -> [Recipients -> Children]]
  <1>1. [child[m] EXCEPT ![c] = x] \in [Recipients -> Children]
    BY DEF TypeOK
  <1>2. PICK f : f = [child[m] EXCEPT ![c] = x]
    OBVIOUS
  <1>3. child' = [child EXCEPT ![m] = f]
    BY <1>2, Zenon
  <1>4. QED BY <1>1, <1>2, <1>3 DEF TypeOK

HearsChild(x, y, out) == x = [y EXCEPT !.status = out, !.until = 0]
LEMMA HearsChildType ==
    ASSUME NEW y \in Children, NEW out \in ChildStatuses, NEW x, HearsChild(x, y, out)
    PROVE  x \in Children
  BY DEF HearsChild, Children

WaitsUntil(x, y, n) == x = [y EXCEPT !.next = n]
LEMMA WaitsUntilType ==
    ASSUME NEW y \in Children, NEW n \in Nat, NEW x, WaitsUntil(x, y, n)
    PROVE  x \in Children
  BY DEF WaitsUntil, Children

LEMMA ExpiredType == ASSUME NEW x \in Children PROVE Expired(x) \in Children
  BY DEF Expired, Children, ChildStatuses

LEMMA VisitShape ==
    ASSUME TypeOK, NEW d \in Dispatchers, disp[d].m \in Known, NEW c \in Recipients, Visit(d, c)
    PROVE  /\ At(d, "send") /\ provider = "fanout"
           /\ child' \in [Known -> [Recipients -> Children]]
           /\ disp' \in [Dispatchers -> Disps] /\ Others(d)
           /\ disp'[d].pc \in {"send", "child"} /\ Same(disp'[d], disp[d])
           /\ NoReply(disp'[d], disp[d])
  <1> DEFINE m == disp[d].m
             x == Expired(child[m][c])
             again == [status |-> "send_started", count |-> x.count + 1, until |-> now + Lease, next |-> 0]
  <1>1. x \in Children /\ disp[d] \in Disps /\ now \in Nat
    BY ExpiredType DEF TypeOK
  <1>2. again \in Children
    <2> HIDE DEF x
    <2>1. x.count \in Nat /\ now + Lease \in Nat
      BY <1>1, OutboxAssumption DEF Children
    <2>2. QED BY <2>1 DEF Children, ChildStatuses
  <1> HIDE DEF again, x
  <1>3. At(d, "send") /\ provider = "fanout"
    BY DEF Visit
  <1>4. CASE /\ child' = [child EXCEPT ![m][c] = again]
             /\ disp' = [disp EXCEPT ![d].pc = "child", ![d].cur = {c}]
    <2>1. PICK z : z = [disp[d] EXCEPT !.pc = "child", !.cur = {c}]
      OBVIOUS
    <2>2. Tries(z, disp[d], {c}) /\ {c} \in SUBSET Recipients
      BY <2>1 DEF Tries
    <2>3. z \in Disps /\ z.pc = "child" /\ Same(z, disp[d]) /\ NoReply(z, disp[d])
      BY <1>1, <2>2, TriesFacts
    <2>4. disp' = [disp EXCEPT ![d] = z]
      BY <1>4, <2>1
    <2>5. child' \in [Known -> [Recipients -> Children]]
      BY <1>2, <1>4, OwnChild
    <2>6. QED BY <1>3, <2>3, <2>4, <2>5, OwnStep DEF Others, TypeOK
  <1>5. CASE /\ child' = [child EXCEPT ![m][c] = x]
             /\ disp' = [disp EXCEPT ![d].todo = @ \ {c}]
    <2>1. PICK todo : todo = disp[d].todo \ {c}
      OBVIOUS
    <2>2. PICK z : z = [disp[d] EXCEPT !.todo = todo]
      OBVIOUS
    <2>3. Passes(z, disp[d], todo) /\ todo \in SUBSET Recipients
      BY <1>1, <2>1, <2>2 DEF Passes, Disps
    <2>4. z \in Disps /\ z.pc = disp[d].pc /\ Same(z, disp[d]) /\ NoReply(z, disp[d])
      BY <1>1, <2>3, PassesFacts
    <2>5. disp' = [disp EXCEPT ![d] = z]
      BY <1>5, <2>1, <2>2, Zenon
    <2>6. child' \in [Known -> [Recipients -> Children]]
      BY <1>1, <1>5, OwnChild
    <2>7. QED BY <1>3, <2>4, <2>5, <2>6, OwnStep DEF Others, TypeOK, At
  <1>6. QED BY <1>4, <1>5 DEF Visit, again, x

LEMMA AnswerShape ==
    ASSUME TypeOK, NEW d \in Dispatchers, disp[d].m \in Known, Answer(d)
    PROVE  /\ At(d, "child")
           /\ child' \in [Known -> [Recipients -> Children]]
           /\ disp' \in [Dispatchers -> Disps] /\ Others(d)
           /\ disp'[d].pc = "send" /\ Same(disp'[d], disp[d]) /\ NoReply(disp'[d], disp[d])
  <1> DEFINE m == disp[d].m
  <1>1. disp[d] \in Disps /\ disp[d].cur \subseteq Recipients /\ now \in Nat
    BY DEF TypeOK, Disps
  <1>0. PICK c \in disp[d].cur, out \in {"confirmed", "accepted", "explicit_failed", "unknown"} :
          \E x :
            /\ x = [child[m][c] EXCEPT !.status = out, !.until = 0]
            /\ child' = [child EXCEPT ![m][c] =
                           [x EXCEPT !.next = IF Retryable(x) THEN now + Delay(x.count) ELSE 0]]
            /\ disp' = [disp EXCEPT ![d].pc = "send", ![d].todo = @ \ {c}, ![d].cur = {}]
    BY DEF Answer
  <1>2. PICK x :
          /\ x = [child[m][c] EXCEPT !.status = out, !.until = 0]
          /\ child' = [child EXCEPT ![m][c] =
                         [x EXCEPT !.next = IF Retryable(x) THEN now + Delay(x.count) ELSE 0]]
          /\ disp' = [disp EXCEPT ![d].pc = "send", ![d].todo = @ \ {c}, ![d].cur = {}]
    BY <1>0
  <1>3. child[m][c] \in Children /\ c \in Recipients
    BY <1>1 DEF TypeOK
  <1>4. x \in Children
    <2>1. HearsChild(x, child[m][c], out) /\ out \in ChildStatuses
      BY <1>2 DEF HearsChild, ChildStatuses
    <2>2. QED BY <1>3, <2>1, HearsChildType
  <1>5. PICK n : n = IF Retryable(x) THEN now + Delay(x.count) ELSE 0
    OBVIOUS
  <1>6. n \in Nat
    BY <1>1, <1>5, OutboxAssumption DEF Delay
  <1>7. PICK y : y = [x EXCEPT !.next = n]
    OBVIOUS
  <1>8. y \in Children
    <2>1. WaitsUntil(y, x, n)
      BY <1>7 DEF WaitsUntil
    <2>2. QED BY <1>4, <1>6, <2>1, WaitsUntilType
  <1>9. child' = [child EXCEPT ![m][c] = y]
    <2>1. child' = [child EXCEPT ![m][c] = [x EXCEPT !.next = n]]
      BY <1>2, <1>5
    <2>2. QED BY <1>7, <2>1
  <1>10. child' \in [Known -> [Recipients -> Children]]
    BY <1>3, <1>8, <1>9, OwnChild
  <1>11. PICK todo : todo = [disp[d] EXCEPT !.pc = "send"].todo \ {c}
    OBVIOUS
  <1>12. todo \in SUBSET Recipients
    BY <1>1, <1>11 DEF Disps
  <1>13. PICK z : z = [disp[d] EXCEPT !.pc = "send", !.todo = todo, !.cur = {}]
    OBVIOUS
  <1>14. Answers(z, disp[d], todo)
    BY <1>13 DEF Answers
  <1>15. z \in Disps /\ z.pc = "send" /\ Same(z, disp[d]) /\ NoReply(z, disp[d])
    BY <1>1, <1>12, <1>14, AnswersFacts
  <1>16. disp' = [disp EXCEPT ![d] = z]
    BY <1>2, <1>11, <1>13
  <1>17. disp' \in [Dispatchers -> Disps] /\ disp'[d] = z /\ Others(d)
    BY <1>15, <1>16, OwnStep DEF Others, TypeOK
  <1>18. At(d, "child")
    BY DEF Answer
  <1>19. QED BY <1>10, <1>15, <1>17, <1>18

LEMMA ReturnsShape ==
    ASSUME TypeOK, NEW d \in Dispatchers, disp[d].m \in Known, FanoutReturns(d)
    PROVE  /\ At(d, "send") /\ provider = "fanout"
           /\ disp' \in [Dispatchers -> Disps] /\ Others(d)
           /\ disp'[d].pc = "reply" /\ Same(disp'[d], disp[d])
  <1> DEFINE cs == Range(child[disp[d].m])
             again == {c \in cs : Retryable(c)}
             verdict == Verdict({c.status : c \in cs})
  <1>1. disp[d] \in Disps /\ At(d, "send") /\ provider = "fanout"
    BY DEF TypeOK, FanoutReturns
  <1>2. \A c \in again : c.next \in Nat
    BY DEF Range, TypeOK, Children
  <1>3. verdict \in Outcomes
    <2>1. \A ss : Verdict(ss) \in {"confirmed", "explicit_failed", "unknown", "pending", "partial"}
      BY DEF Verdict
    <2>2. QED BY <2>1 DEF Outcomes
  <1>4. ASSUME NEW z \in Disps, disp' = [disp EXCEPT ![d] = z], z.pc = "reply", Same(z, disp[d])
        PROVE  /\ disp' \in [Dispatchers -> Disps] /\ Others(d)
               /\ disp'[d].pc = "reply" /\ Same(disp'[d], disp[d])
    BY <1>4, OwnStep DEF Others, TypeOK
  <1> HIDE DEF verdict, again
  <1>5. CASE disp' = [disp EXCEPT ![d].pc = "reply", ![d].out = verdict]
    <2>1. PICK z : z = [disp[d] EXCEPT !.pc = "reply", !.out = verdict]
      OBVIOUS
    <2>2. Hears(z, disp[d], verdict)
      BY <2>1 DEF Hears
    <2>3. disp' = [disp EXCEPT ![d] = z]
      BY <1>5, <2>1
    <2>4. z \in Disps /\ z.pc = "reply" /\ Same(z, disp[d])
      BY <1>1, <1>3, <2>2, HearsFacts
    <2>5. QED BY <1>1, <1>4, <2>3, <2>4
  <1>6. ASSUME NEW c \in again,
               disp' = [disp EXCEPT ![d].pc = "reply", ![d].out = verdict, ![d].retry = TRUE,
                          ![d].next = Later(c.next, disp[d].at + Interval)]
        PROVE  /\ disp' \in [Dispatchers -> Disps] /\ Others(d)
               /\ disp'[d].pc = "reply" /\ Same(disp'[d], disp[d])
    <2>1. PICK n : n = Later(c.next, disp[d].at + Interval)
      OBVIOUS
    <2>2. n \in Nat
      <3>1. c.next \in Nat /\ disp[d].at + Interval \in Nat
        BY <1>1, <1>2, OutboxAssumption DEF Disps
      <3>2. QED BY <2>1, <3>1 DEF Later
    <2>3. PICK z : z = [disp[d] EXCEPT !.pc = "reply", !.out = verdict, !.retry = TRUE, !.next = n]
      OBVIOUS
    <2>4. Returns(z, disp[d], verdict, n)
      BY <2>3 DEF Returns
    <2>5. disp' = [disp EXCEPT ![d] = z]
      BY <1>6, <2>1, <2>3
    <2>6. z \in Disps /\ z.pc = "reply" /\ Same(z, disp[d])
      BY <1>1, <1>3, <2>2, <2>4, ReturnsFacts
    <2>7. QED BY <1>4, <2>5, <2>6
  <1>7. CASE disp' = [disp EXCEPT ![d].pc = "reply", ![d].retry = TRUE, ![d].out = "pending",
                                  ![d].todo = {}]
    <2>1. PICK z : z = [disp[d] EXCEPT !.pc = "reply", !.retry = TRUE, !.out = "pending", !.todo = {}]
      OBVIOUS
    <2>2. Fails(z, disp[d])
      BY <2>1 DEF Fails
    <2>3. disp' = [disp EXCEPT ![d] = z]
      BY <1>7, <2>1
    <2>4. z \in Disps /\ z.pc = "reply" /\ Same(z, disp[d])
      BY <1>1, <2>2, FailsFacts
    <2>5. QED BY <1>1, <1>4, <2>3, <2>4
  <1>8. \/ disp' = [disp EXCEPT ![d].pc = "reply", ![d].out = verdict]
        \/ \E c \in again :
             disp' = [disp EXCEPT ![d].pc = "reply", ![d].out = verdict, ![d].retry = TRUE,
                        ![d].next = Later(c.next, disp[d].at + Interval)]
        \/ disp' = [disp EXCEPT ![d].pc = "reply", ![d].retry = TRUE, ![d].out = "pending",
                                ![d].todo = {}]
    BY Zenon DEF FanoutReturns, again, verdict
  <1>9. QED BY <1>1, <1>5, <1>6, <1>7, <1>8

\* An outcome is recorded: it is to be tried again, or final.
Again(d) == disp[d].retry \/ (disp[d].out = "explicit_failed" /\ batch[disp[d].m].attempts < MaxAttempts)

LEMMA CompleteShape ==
    ASSUME TypeOK, NEW d \in Dispatchers, disp[d].m \in Known, Complete(d)
    PROVE  LET m == disp[d].m
               out == disp[d].out IN
           /\ At(d, "reply") /\ Stop(d)
           /\ \/ /\ Holds(d, "send_started") /\ (Again(d) \/ Awaited(m))
                 /\ Known' = Known /\ batch' \in [Known' -> BatchRecords]
                 /\ \A n \in Known \ {m} : batch'[n] = batch[n]
                 /\ batch'[m].status = out /\ batch'[m].retry = disp[d].retry
                 /\ Again(d) => batch'[m].next = RetryAt(d)
                 /\ Keeps(batch'[m], batch[m])
                 /\ row' = IF Again(d) THEN row ELSE Settle({m}, out)
              \/ UNCHANGED <<batch, row>>
  <1> DEFINE m == disp[d].m
             out == disp[d].out
             n == IF Again(d) THEN RetryAt(d) ELSE 0
             z == [batch[m] EXCEPT !.status = out, !.retry = disp[d].retry, !.next = n]
  <1>1. disp[d] \in Disps /\ batch[m] \in BatchRecords
    BY DEF TypeOK
  <1>2. At(d, "reply") /\ Stop(d)
    BY DEF Complete
  <1>3. CASE /\ Holds(d, "send_started") /\ (Again(d) \/ Awaited(m))
             /\ batch' = [batch EXCEPT ![m] = z]
             /\ row' = IF Again(d) THEN row ELSE Settle({m}, out)
    <2>1. out \in BatchStatuses /\ disp[d].retry \in BOOLEAN
      BY <1>1 DEF Disps, Outcomes, BatchStatuses
    <2>2. n \in Nat
      <3>1. disp[d].next \in Nat /\ disp[d].at \in Nat
        BY <1>1 DEF Disps
      <3>2. Delay(batch[m].attempts) \in Nat
        BY OutboxAssumption DEF Delay
      <3>3. QED BY <3>1, <3>2 DEF RetryAt
    <2>3. PICK b : b = z
      OBVIOUS
    <2>4. PICK k : k = n
      OBVIOUS
    <2>5. Completed(b, batch[m], out, disp[d].retry, k)
      BY <2>3, <2>4, Zenon DEF Completed
    <2>6. /\ b \in BatchRecords /\ b.status = out /\ b.retry = disp[d].retry /\ b.next = n
          /\ Keeps(b, batch[m])
      BY <1>1, <2>1, <2>2, <2>4, <2>5, CompletedFacts
    <2>7. batch' = [batch EXCEPT ![m] = b]
      BY <1>3, <2>3
    <2>8. /\ Known' = Known /\ batch' \in [Known' -> BatchRecords] /\ batch'[m] = b
          /\ \A q \in Known \ {m} : batch'[q] = batch[q]
      BY <2>6, <2>7, OwnBatch
    <2>9. Again(d) => b.next = RetryAt(d)
      BY <2>6
    <2> HIDE DEF z, n
    <2>10. QED BY <1>2, <1>3, <2>6, <2>8, <2>9
  <1>4. CASE UNCHANGED <<batch, row>>
    BY <1>2, <1>4
  <1>5. \/ /\ Holds(d, "send_started") /\ (Again(d) \/ Awaited(m))
           /\ batch' = [batch EXCEPT ![m] = z]
           /\ row' = IF Again(d) THEN row ELSE Settle({m}, out)
        \/ UNCHANGED <<batch, row>>
    BY Zenon DEF Complete, Again
  <1>6. QED BY <1>3, <1>4, <1>5

LEMMA ReconcileShape ==
    ASSUME TypeOK, NEW m \in Known, NEW s \in {"confirmed", "unknown"}, Reconcile(m, s)
    PROVE  /\ batch[m].status \in {"accepted", "unknown"}
           /\ s = "unknown" => batch[m].status = "accepted"
           /\ s = "confirmed" /\ provider = "direct" => taken[m] = 1
           /\ Known' = Known /\ batch' \in [Known' -> BatchRecords]
           /\ \A n \in Known \ {m} : batch'[n] = batch[n]
           /\ batch'[m].status = s /\ Keeps(batch'[m], batch[m])
           /\ row' \in [Rows -> RowStatuses]
           /\ \A r \in Rows : row'[r] = IF r \in m THEN s ELSE row[r]
  <1>1. PICK z : z = [batch[m] EXCEPT !.status = s]
    OBVIOUS
  <1>2. SetsStatus(z, batch[m], s) /\ batch[m] \in BatchRecords /\ s \in BatchStatuses
    BY <1>1 DEF SetsStatus, TypeOK, BatchStatuses
  <1>3. z \in BatchRecords /\ z.status = s /\ Keeps(z, batch[m])
    BY <1>2, SetsStatusFacts
  <1>4. batch' = [batch EXCEPT ![m] = z]
    BY <1>1, Zenon DEF Reconcile
  <1>5. /\ Known' = Known /\ batch' \in [Known' -> BatchRecords] /\ batch'[m] = z
        /\ \A n \in Known \ {m} : batch'[n] = batch[n]
    BY <1>3, <1>4, OwnBatch
  <1>6. row' = [r \in Rows |-> IF r \in m THEN s ELSE row[r]]
    BY DEF Reconcile
  <1>7. s \in RowStatuses
    BY DEF RowStatuses
  <1>8. row' \in [Rows -> RowStatuses] /\ \A r \in Rows : row'[r] = IF r \in m THEN s ELSE row[r]
    BY <1>6, <1>7 DEF TypeOK
  <1>9. QED BY <1>3, <1>5, <1>8 DEF Reconcile

LEMMA BindsType ==
    ASSUME TypeOK, NEW void \in SUBSET Rows, NEW m \in Batches, NEW t \in Nat, Binds(void, m, t)
    PROVE  /\ row' \in [Rows -> RowStatuses]
           /\ Known' = Known \cup {m}
           /\ batch' \in [Known' -> BatchRecords]
           /\ child' \in [Known' -> [Recipients -> Children]]
  <1>1. Known' = Known \cup {m}
    BY DEF Binds, Known
  <1>2. row' \in [Rows -> RowStatuses]
    BY DEF Binds, TypeOK, RowStatuses
  <1>3. batch' \in [Known \cup {m} -> BatchRecords]
    <2>1. batch' = [n \in Known \cup {m} |-> IF n = m THEN NewBatch(t) ELSE batch[n]]
      BY DEF Binds
    <2>2. NewBatch(t) \in BatchRecords
      BY NewBatchFacts
    <2>3. QED BY <2>1, <2>2 DEF TypeOK
  <1>4. child' \in [Known \cup {m} -> [Recipients -> Children]]
    <2>1. PICK f : f = [c \in Recipients |-> NewChild]
      OBVIOUS
    <2>2. f \in [Recipients -> Children]
      BY <2>1 DEF NewChild, Children, ChildStatuses
    <2>3. child' = [n \in Known \cup {m} |-> IF n = m THEN f ELSE child[n]]
      BY <2>1, Zenon DEF Binds
    <2>4. QED BY <2>2, <2>3 DEF TypeOK
  <1>5. QED BY <1>1, <1>2, <1>3, <1>4

-----------------------------------------------------------------------------
(* The type invariant.                                                     *)

LEMMA TypeInit == Init => TypeOK
  <1> SUFFICES ASSUME Init PROVE TypeOK
    OBVIOUS
  <1>1. row \in [Rows -> RowStatuses]
    BY DEF Init, RowStatuses
  <1>2. Known = {}
    BY DEF Init, Known
  <1>3. batch \in [Known -> BatchRecords] /\ child \in [Known -> [Recipients -> Children]]
    BY <1>2 DEF Init
  <1>4. disp \in [Dispatchers -> Disps]
    BY IdleFacts DEF Init
  <1>5. QED BY <1>1, <1>2, <1>3, <1>4, OutboxAssumption DEF Init, TypeOK

LEMMA PlanType ==
    ASSUME TypeOK, NEW d \in Dispatchers, Plan(d) PROVE TypeOK'
  <1>1. disp' \in [Dispatchers -> Disps] /\ disp[d].at \in Nat
    BY PlanShape DEF TypeOK, Disps
  <1>2. UNCHANGED <<provider, combos, current, now, taken, lastStart>>
    BY DEF Plan, route
  <1>3. PICK void \in SUBSET Rows :
          Voids(void) \/ \E m \in Batches : Binds(void, m, disp[d].at)
    BY PlanShape
  <1>4. CASE Voids(void)
    <2>1. row' \in [Rows -> RowStatuses]
      BY <1>4 DEF Voids, TypeOK, RowStatuses
    <2>2. UNCHANGED <<batch, child, Known>>
      BY <1>4 DEF Voids, Known
    <2>3. QED BY <1>1, <1>2, <2>1, <2>2 DEF TypeOK
  <1>5. ASSUME NEW m \in Batches, Binds(void, m, disp[d].at) PROVE TypeOK'
    <2>1. /\ row' \in [Rows -> RowStatuses] /\ Known' = Known \cup {m}
          /\ batch' \in [Known' -> BatchRecords]
          /\ child' \in [Known' -> [Recipients -> Children]]
      BY <1>1, <1>5, BindsType
    <2>2. QED BY <1>1, <1>2, <2>1 DEF TypeOK
  <1>6. QED BY <1>3, <1>4, <1>5

LEMMA TypeStep ==
    ASSUME TypeOK, Claims, [Next]_vars PROVE TypeOK'
  <1>1. ASSUME NEW i \in Intents, Enqueue(i) PROVE TypeOK'
    <2>1. row' \in [Rows -> RowStatuses]
      BY <1>1 DEF Enqueue, TypeOK, RowStatuses
    <2>2. QED BY <1>1, <2>1 DEF Enqueue, TypeOK, route, Known
  <1>2. CASE ComboChanges
    BY <1>2 DEF ComboChanges, TypeOK, route, Known
  <1>3. ASSUME NEW m \in Known, NEW s \in {"confirmed", "unknown"}, Reconcile(m, s) PROVE TypeOK'
    <2>1. /\ Known' = Known /\ batch' \in [Known' -> BatchRecords]
          /\ row' \in [Rows -> RowStatuses]
      BY <1>3, ReconcileShape
    <2>2. QED BY <1>3, <2>1 DEF Reconcile, TypeOK, route
  <1>4. ASSUME NEW m \in Known, Resend(m) PROVE TypeOK'
    <2>1. row' \in [Rows -> RowStatuses]
      BY <1>4 DEF Resend, TypeOK, RowStatuses
    <2>2. QED BY <1>4, <2>1 DEF Resend, TypeOK, route, Known
  <1>5. ASSUME NEW d \in Dispatchers, Dispatcher(d) PROVE TypeOK'
    <2>1. disp[d].pc \in {"mark", "send", "child", "reply"} => disp[d].m \in Known
      BY DEF Claims, Busy
    <2>2. disp[d] \in Disps
      BY DEF TypeOK
    <2>3. CASE Poll(d)
      BY <2>3, PollShape DEF Poll, TypeOK, route
    <2>4. CASE Plan(d)
      BY <2>4, PlanType
    <2>5. CASE Claim(d)
      <3>1. /\ Known' = Known /\ batch' \in [Known' -> BatchRecords]
            /\ disp' \in [Dispatchers -> Disps]
        BY <2>5, ClaimShape, Stops DEF TypeOK, Known
      <3>2. QED BY <2>5, <3>1 DEF Claim, TypeOK, route
    <2>6. CASE MarkStarted(d)
      <3>1. At(d, "mark") /\ disp[d].m \in Known
        BY <2>1, <2>6 DEF MarkStarted, At
      <3>2. /\ Known' = Known /\ batch' \in [Known' -> BatchRecords]
            /\ disp' \in [Dispatchers -> Disps]
        BY <2>6, <3>1, MarkShape, Stops DEF TypeOK, Known
      <3>3. row' = row \/ row' = Settle({disp[d].m}, "suppressed")
        BY <2>6, <3>1, MarkShape
      <3>4. row' \in [Rows -> RowStatuses]
        <4>1. "suppressed" \in RowStatuses
          BY DEF RowStatuses
        <4>2. QED BY <3>3, <4>1, SettleFacts DEF TypeOK
      <3>5. lastStart' \in Nat
        BY <2>2, <2>6, <3>1, MarkShape DEF TypeOK, Disps
      <3>6. QED BY <2>6, <3>2, <3>4, <3>5 DEF MarkStarted, TypeOK, route
    <2>7. CASE SendDirect(d)
      <3>1. disp' \in [Dispatchers -> Disps]
        BY <2>7, SendShape
      <3>2. taken' \in [Batches -> Nat]
        BY <2>7, SendShape DEF TypeOK
      <3>3. QED BY <2>7, <3>1, <3>2 DEF SendDirect, TypeOK, route, Known
    <2>8. ASSUME NEW c \in Recipients, Visit(d, c) PROVE TypeOK'
      <3>1. disp[d].m \in Known
        BY <2>1, <2>8 DEF Visit, At
      <3>2. disp' \in [Dispatchers -> Disps] /\ child' \in [Known -> [Recipients -> Children]]
        BY <2>8, <3>1, VisitShape
      <3>3. QED BY <2>8, <3>2 DEF Visit, TypeOK, route, Known
    <2>9. CASE Answer(d)
      <3>1. disp[d].m \in Known
        BY <2>1, <2>9 DEF Answer, At
      <3>2. disp' \in [Dispatchers -> Disps] /\ child' \in [Known -> [Recipients -> Children]]
        BY <2>9, <3>1, AnswerShape
      <3>3. QED BY <2>9, <3>2 DEF Answer, TypeOK, route, Known
    <2>10. CASE FanoutReturns(d)
      <3>1. disp[d].m \in Known
        BY <2>1, <2>10 DEF FanoutReturns, At
      <3>2. disp' \in [Dispatchers -> Disps]
        BY <2>10, <3>1, ReturnsShape
      <3>3. QED BY <2>10, <3>2 DEF FanoutReturns, TypeOK, route, Known
    <2>11. CASE Complete(d)
      <3>1. disp[d].m \in Known
        BY <2>1, <2>11 DEF Complete, At
      <3>2. disp' \in [Dispatchers -> Disps]
        BY <2>11, <3>1, CompleteShape, Stops
      <3>3. Known' = Known /\ batch' \in [Known' -> BatchRecords]
        BY <2>11, <3>1, CompleteShape DEF TypeOK, Known
      <3>4. row' = row \/ (row' = Settle({disp[d].m}, disp[d].out))
        BY <2>11, <3>1, CompleteShape
      <3>5. row' \in [Rows -> RowStatuses]
        <4>1. disp[d].out \in RowStatuses
          BY <2>2 DEF RowStatuses, Disps, Outcomes
        <4>2. QED BY <3>4, <4>1, SettleFacts DEF TypeOK
      <3>6. QED BY <2>11, <3>2, <3>3, <3>5 DEF Complete, TypeOK, route
    <2>12. CASE Crash(d)
      BY <2>12, Stops DEF Crash, TypeOK, route, Known
    <2>13. QED
      BY <1>5, <2>3, <2>4, <2>5, <2>6, <2>7, <2>8, <2>9, <2>10, <2>11, <2>12 DEF Dispatcher
  <1>6. CASE Tick
    BY <1>6 DEF Tick, TypeOK, route, Known
  <1>7. CASE UNCHANGED vars
    BY <1>7 DEF vars, TypeOK, Known
  <1>8. QED BY <1>1, <1>2, <1>3, <1>4, <1>5, <1>6, <1>7 DEF Next

-----------------------------------------------------------------------------
(* The rest of the invariant, in parts.                                    *)

Direct == provider = "direct" => MembersAwait /\ MembersAgree /\ Truth
Slow   == provider = "direct" /\ combos = {} => Paced
Rest   == Claims /\ Hands /\ Direct /\ Slow

LEMMA InvParts == OutboxInv <=> TypeOK /\ Rest
  BY DEF OutboxInv, Rest, Direct, Slow

\* Dispatchers that work on a batch keep the batch and the claim they had.
LEMMA ClaimsKept ==
    ASSUME TypeOK, Claims, Known' = Known,
           \A m \in Known : batch'[m].claim = batch[m].claim,
           \A e \in Dispatchers : Busy(e)' =>
             Busy(e) /\ disp'[e].m = disp[e].m /\ disp'[e].claim = disp[e].claim
    PROVE  Claims'
  BY DEF Claims

\* One batch and its members change.
LEMMA MembersKept ==
    ASSUME TypeOK, Claims, MembersAwait, MembersAgree,
           NEW m \in Known, Known' = Known,
           \A n \in Known \ {m} : batch'[n] = batch[n],
           \A r \in Rows \ m : row'[r] = row[r],
           Active(batch'[m]) => \A r \in m : row'[r] = "batched",
           ~Active(batch'[m]) => \A r \in m : row'[r] = batch'[m].status
    PROVE  MembersAwait' /\ MembersAgree'
  <1>1. ASSUME NEW n \in Known
        PROVE  /\ Active(batch'[n]) => \A r \in n : row'[r] = "batched"
               /\ ~Active(batch'[n]) => \A r \in n : row'[r] = batch'[n].status
    <2>1. CASE n = m
      BY <2>1
    <2>2. CASE n # m
      <3>1. n \in Batches /\ batch'[n] = batch[n]
        BY <2>2 DEF TypeOK
      <3>2. \A r \in n : r \in Rows \ m
        BY <2>2, <3>1 DEF Claims, Batches
      <3>3. \A r \in n : row'[r] = row[r]
        BY <3>2
      <3>4. QED BY <3>1, <3>3 DEF MembersAwait, MembersAgree, Awaited
    <2>3. QED BY <2>1, <2>2
  <1>2. QED BY <1>1 DEF MembersAwait, MembersAgree, Awaited

\* Nothing changes that the invariant speaks of, but the local state of one
\* dispatcher, which has no batch in hand any more.
LEMMA Leaves ==
    ASSUME TypeOK, Rest, NEW d \in Dispatchers,
           UNCHANGED <<provider, combos, row, batch, taken, lastStart>>, Others(d),
           disp'[d].pc \in {"idle", "plan", "claim"}, NoReply(disp'[d], Idle)
    PROVE  Rest'
  <1>1. Known' = Known
    BY DEF Known
  <1>2. \A e \in Dispatchers : Busy(e)' => e # d /\ disp'[e] = disp[e]
    BY DEF Busy, Others
  <1>3. Claims'
    BY <1>1, <1>2, ClaimsKept DEF Rest, Busy
  <1>4. Hands'
    <2>1. NoReply(disp'[d], Idle)
      OBVIOUS
    <2>2. QED BY <2>1, IdleFacts DEF Rest, Hands, At, NoReply, Others
  <1>5. Direct'
    <2>1. (provider = "direct") => MembersAwait' /\ MembersAgree'
      BY <1>1 DEF Rest, Direct, MembersAwait, MembersAgree, Awaited
    <2>2. ASSUME NEW e \in Dispatchers, disp'[e].pc \in {"send", "reply"}
          PROVE  e # d /\ disp'[e] = disp[e]
      BY <2>2 DEF Others
    <2>3. (provider = "direct") => Truth'
      BY <1>1, <2>2 DEF Rest, Direct, Truth, At
    <2>4. QED BY <2>1, <2>3 DEF Direct
  <1>6. Slow'
    <2>1. \A e \in Dispatchers : disp'[e].pc \in {"mark", "send", "child", "reply"} =>
            e # d /\ disp'[e] = disp[e]
      BY DEF Others
    <2>2. (provider = "direct" /\ combos = {}) => Paced'
      BY <1>1, <2>1 DEF Rest, Slow, Paced, Due, At, Busy, Holds
    <2>3. QED BY <2>2 DEF Slow
  <1>7. QED BY <1>3, <1>4, <1>5, <1>6 DEF Rest

LEMMA StopsWork ==
    ASSUME TypeOK, Rest, NEW d \in Dispatchers, Stop(d),
           UNCHANGED <<provider, combos, row, batch, taken, lastStart>>
    PROVE  Rest'
  <1>1. disp'[d] = Idle /\ Others(d)
    BY Stops DEF Others
  <1>2. NoReply(disp'[d], Idle) /\ disp'[d].pc = "idle"
    BY <1>1, IdleFacts DEF NoReply
  <1>3. QED BY <1>1, <1>2, Leaves

LEMMA Unseen ==
    ASSUME Rest, UNCHANGED <<provider, combos, row, batch, disp, taken, lastStart>>
    PROVE  Rest'
  BY DEF Rest, Claims, Hands, Direct, Slow, MembersAwait, MembersAgree, Truth, Paced,
         Known, Busy, At, Awaited, Due, Holds

\* Rows are written that were not there before.
LEMMA NewRows ==
    ASSUME TypeOK, Rest, UNCHANGED <<provider, combos, batch, disp, taken, lastStart>>,
           \A r \in Rows : row[r] # "none" => row'[r] = row[r]
    PROVE  Rest'
  <1>1. Known' = Known
    BY DEF Known
  <1>2. Claims' /\ Hands' /\ Slow'
    BY <1>1 DEF Rest, Claims, Hands, Slow, Paced, Busy, At, Due, Holds
  <1>3. ASSUME provider = "direct" PROVE MembersAwait' /\ MembersAgree'
    <2>1. ASSUME NEW m \in Known, NEW r \in m PROVE row'[r] = row[r]
      <3>1. r \in Rows /\ batch[m].status # "none"
        BY DEF TypeOK, Batches, BatchRecords, BatchStatuses
      <3>2. row[r] # "none"
        BY <1>3, <3>1 DEF Rest, Direct, MembersAwait, MembersAgree, Awaited
      <3>3. QED BY <3>1, <3>2
    <2>2. QED BY <1>1, <1>3, <2>1 DEF Rest, Direct, MembersAwait, MembersAgree, Awaited
  <1>4. (provider = "direct") => Truth'
    BY <1>1 DEF Rest, Direct, Truth, At
  <1>5. QED BY <1>2, <1>3, <1>4 DEF Rest, Direct

\* The steps of a fan-out.
LEMMA FanoutOnly ==
    ASSUME TypeOK, Rest, NEW d \in Dispatchers, provider = "fanout",
           UNCHANGED <<provider, batch>>, Others(d), Busy(d), Same(disp'[d], disp[d]),
           disp'[d].pc # "reply" => NoReply(disp'[d], disp[d]) /\ ~At(d, "reply")
    PROVE  Rest'
  <1>1. Known' = Known
    BY DEF Known
  <1>2. Claims'
    BY <1>1, ClaimsKept DEF Rest, Others, Same, Busy
  <1>3. Hands'
    BY DEF Rest, Hands, Others, At, NoReply
  <1>4. Direct' /\ Slow'
    BY DEF Direct, Slow
  <1>5. QED BY <1>2, <1>3, <1>4 DEF Rest

\* On a direct route one dispatcher at most is at the provider with a batch,
\* and none while the batch may be claimed or is claimed.
Out(d) == disp[d].pc \in {"send", "reply"}
LEMMA OneSender ==
    ASSUME Rest, provider = "direct", NEW d \in Dispatchers, Out(d)
    PROVE  /\ disp[d].m \in Known /\ batch[disp[d].m].claim = disp[d].claim
           /\ batch[disp[d].m].status \in {"send_started", "unknown", "confirmed"}
           /\ \A e \in Dispatchers \ {d} : Out(e) => disp[e].m # disp[d].m
  <1>1. \A e \in Dispatchers : Out(e) =>
          Busy(e) /\ disp[e].m \in Known /\ batch[disp[e].m].claim = disp[e].claim
    BY DEF Rest, Claims, Direct, Truth, Out, Busy
  <1>2. batch[disp[d].m].status \in {"send_started", "unknown", "confirmed"}
    BY DEF Rest, Direct, Truth, Out, At
  <1>3. ASSUME NEW e \in Dispatchers \ {d}, Out(e), disp[e].m = disp[d].m PROVE FALSE
    BY <1>1, <1>3 DEF Rest, Claims
  <1>4. QED BY <1>1, <1>2, <1>3

LEMMA SendKeeps ==
    ASSUME TypeOK, Rest, NEW d \in Dispatchers, SendDirect(d) PROVE Rest'
  <1> DEFINE m == disp[d].m
  <1>1. /\ At(d, "send") /\ provider = "direct" /\ Others(d)
        /\ disp'[d].pc = "reply" /\ Same(disp'[d], disp[d])
        /\ disp'[d].retry = disp[d].retry /\ disp'[d].next = disp[d].next
        /\ disp'[d].out \in {"confirmed", "accepted", "explicit_failed", "unknown"}
        /\ \/ taken' = [taken EXCEPT ![m] = @ + 1] /\ disp'[d].out # "explicit_failed"
           \/ taken' = taken /\ disp'[d].out # "confirmed"
    BY SendShape
  <1>2. UNCHANGED <<provider, combos, row, batch, lastStart>> /\ Known' = Known
    BY DEF SendDirect, route, Known
  <1>3. Claims'
    BY <1>1, <1>2, ClaimsKept DEF Rest, Others, Same, Busy, At
  <1>4. Hands'
    BY <1>1, <1>2 DEF Rest, Hands, Others, At
  <1>5. MembersAwait' /\ MembersAgree'
    BY <1>1, <1>2 DEF Rest, Direct, MembersAwait, MembersAgree, Awaited
  <1>6. /\ m \in Known /\ m \in Batches /\ batch[m].claim = disp[d].claim
        /\ batch[m].status \in {"send_started", "unknown"} /\ taken[m] = 0
        /\ \A e \in Dispatchers \ {d} : Out(e) => disp[e].m # m
    BY <1>1, OneSender DEF Rest, Direct, Truth, Out, At, TypeOK
  <1>7. /\ taken' \in [Batches -> Nat] /\ \A n \in Batches \ {m} : taken'[n] = taken[n]
        /\ \/ taken'[m] = 1 /\ disp'[d].out # "explicit_failed"
           \/ taken'[m] = 0 /\ disp'[d].out # "confirmed"
    BY <1>1, <1>6 DEF TypeOK
  <1>8. Truth'
    <2>1. /\ \A n \in Batches : taken'[n] \in {0, 1}
          /\ \A n \in Batches : taken'[n] = 1 =>
               n \in Known /\ batch[n].status \in {"send_started", "confirmed", "accepted", "unknown"}
          /\ \A n \in Known : batch[n].status = "confirmed" => taken'[n] = 1
      BY <1>1, <1>6, <1>7 DEF Rest, Direct, Truth, TypeOK
    <2>2. ASSUME NEW e \in Dispatchers, disp'[e].pc \in {"send", "reply"}
          PROVE  /\ batch[disp'[e].m].claim = disp'[e].claim
                 /\ At(e, "send")' => taken'[disp'[e].m] = 0 /\ batch[disp'[e].m].status \in {"send_started", "unknown"}
                 /\ At(e, "reply")' => batch[disp'[e].m].status \in {"send_started", "unknown", "confirmed"}
                 /\ disp'[e].out = "confirmed" => taken'[disp'[e].m] = 1
                 /\ disp'[e].out = "explicit_failed" => taken'[disp'[e].m] = 0
      <3>1. CASE e = d
        BY <1>1, <1>6, <1>7, <3>1 DEF Same, At
      <3>2. CASE e # d
        <4>1. disp'[e] = disp[e] /\ Out(e)
          BY <1>1, <2>2, <3>2 DEF Others, Out
        <4>2. disp[e].m # m /\ disp[e].m \in Batches
          BY <1>1, <1>6, <3>2, <4>1, OneSender DEF TypeOK
        <4>3. taken'[disp[e].m] = taken[disp[e].m]
          BY <1>7, <4>2
        <4>4. QED BY <1>1, <4>1, <4>3 DEF Rest, Direct, Truth, At, Out
      <3>3. QED BY <3>1, <3>2
    <2>3. QED BY <1>2, <2>1, <2>2 DEF Truth
  <1>9. Slow'
    <2>1. \A e \in Dispatchers : /\ ~At(e, "mark")' \/ disp'[e] = disp[e]
                                 /\ Busy(e)' => Busy(e) /\ Same(disp'[e], disp[e])
      BY <1>1 DEF Others, Same, Busy, At
    <2>2. combos = {} => Paced'
      BY <1>1, <1>2, <2>1 DEF Rest, Slow, Paced, Due, At, Busy, Holds, Same
    <2>3. QED BY <1>2, <2>2 DEF Slow
  <1>10. QED BY <1>2, <1>3, <1>4, <1>5, <1>8, <1>9 DEF Rest, Direct

LEMMA ReconcileKeeps ==
    ASSUME TypeOK, Rest, NEW m \in Known, NEW s \in {"confirmed", "unknown"}, Reconcile(m, s)
    PROVE  Rest'
  <1>1. /\ batch[m].status \in {"accepted", "unknown"}
        /\ s = "unknown" => batch[m].status = "accepted"
        /\ s = "confirmed" /\ provider = "direct" => taken[m] = 1
        /\ Known' = Known
        /\ \A n \in Known \ {m} : batch'[n] = batch[n]
        /\ batch'[m].status = s /\ Keeps(batch'[m], batch[m])
        /\ \A r \in Rows : row'[r] = IF r \in m THEN s ELSE row[r]
    BY ReconcileShape
  <1>2. UNCHANGED <<provider, combos, disp, taken, lastStart>>
    BY DEF Reconcile, route
  <1>3. \A n \in Known : batch'[n].claim = batch[n].claim /\ batch'[n].started = batch[n].started
                         /\ batch'[n].claimed = batch[n].claimed
    BY <1>1 DEF Keeps
  <1>4. Claims'
    BY <1>1, <1>2, <1>3, ClaimsKept DEF Rest, Busy
  <1>5. Hands'
    BY <1>2 DEF Rest, Hands, At
  <1>6. ~Active(batch[m]) /\ ~Active(batch'[m])
    BY <1>1 DEF Active
  <1>7. ASSUME provider = "direct" PROVE MembersAwait' /\ MembersAgree'
    <2>1. \A r \in m : r \in Rows
      BY DEF TypeOK, Batches
    <2>2. (\A r \in m : row'[r] = batch'[m].status) /\ \A r \in Rows \ m : row'[r] = row[r]
      BY <1>1, <2>1
    <2>3. QED BY <1>1, <1>6, <1>7, <2>2, MembersKept DEF Rest, Direct
  <1>8. ASSUME provider = "direct" PROVE Truth'
    <2>1. /\ \A n \in Batches : taken[n] = 1 =>
               n \in Known /\ batch'[n].status \in {"send_started", "confirmed", "accepted", "unknown"}
          /\ \A n \in Known : batch'[n].status = "confirmed" => taken[n] = 1
      BY <1>1, <1>8 DEF Rest, Direct, Truth
    <2>2. ASSUME NEW e \in Dispatchers, Out(e)
          PROVE  /\ At(e, "send") => batch'[disp[e].m].status \in {"send_started", "unknown"}
                 /\ At(e, "reply") => batch'[disp[e].m].status \in {"send_started", "unknown", "confirmed"}
      <3>1. disp[e].m \in Known
        BY <1>8, <2>2, OneSender
      <3>2. CASE disp[e].m = m
        BY <1>1, <1>8, <2>2, <3>2 DEF Rest, Direct, Truth, Out, At
      <3>3. CASE disp[e].m # m
        BY <1>1, <1>8, <2>2, <3>1, <3>3 DEF Rest, Direct, Truth, Out, At
      <3>4. QED BY <3>2, <3>3
    <2>3. \A e \in Dispatchers : Out(e) => disp[e].m \in Known
      BY <1>8, OneSender
    <2>4. QED BY <1>1, <1>2, <1>3, <1>8, <2>1, <2>2, <2>3 DEF Rest, Direct, Truth, Out, At
  <1>9. ASSUME provider = "direct", combos = {} PROVE Paced'
    <2>1. \A n \in Known : (Active(batch'[n]) <=> Active(batch[n])) /\ (Active(batch[n]) => batch'[n] = batch[n])
      BY <1>1, <1>6
    <2>2. batch'[m].status \in {"confirmed", "unknown"}
      BY <1>1
    <2>3. \A n \in Known : batch'[n].status \notin {"confirmed", "unknown"} => batch'[n] = batch[n]
      BY <1>1, <2>2
    <2>4. \A n, k \in Known : Active(batch'[n]) /\ Active(batch'[k]) => n = k
      BY <1>9, <2>1 DEF Rest, Slow, Paced
    <2>5. lastStart > 0 => \E n \in Known : batch'[n].started = lastStart \/ Active(batch'[n])
      BY <1>3, <1>9, <2>1 DEF Rest, Slow, Paced
    <2>6. ASSUME NEW n \in Known
          PROVE  /\ batch'[n].status # "partial"
                 /\ batch'[n].status = "claimed" => Due(batch'[n].claimed)
                 /\ batch'[n].status = "send_started" => batch'[n].started = lastStart
                 /\ batch'[n].status \in {"pending", "explicit_failed"} /\ Active(batch'[n]) => Due(batch'[n].next)
      <3>1. CASE batch'[n] = batch[n]
        BY <1>9, <3>1 DEF Rest, Slow, Paced
      <3>2. CASE batch'[n] # batch[n]
        BY <2>3, <3>2
      <3>3. QED BY <3>1, <3>2
    <2>7. ASSUME NEW e \in Dispatchers, Busy(e)
          PROVE  /\ At(e, "mark") /\ Holds(e, "claimed")' => batch'[disp[e].m].claimed = disp[e].at
                 /\ Holds(e, "send_started")' => batch'[disp[e].m].started = disp[e].at
      <3>1. disp[e].m \in Known
        BY <2>7 DEF Rest, Claims
      <3>2. Holds(e, "claimed")' \/ Holds(e, "send_started")' => batch'[disp[e].m] = batch[disp[e].m]
        BY <1>2, <2>3, <3>1 DEF Holds
      <3>3. QED BY <1>2, <1>9, <2>7, <3>2 DEF Rest, Slow, Paced, Holds, At
    <2>8. QED BY <1>1, <1>2, <2>4, <2>5, <2>6, <2>7 DEF Paced, Due, At, Busy
  <1>10. QED BY <1>2, <1>4, <1>5, <1>7, <1>8, <1>9 DEF Rest, Direct, Slow

LEMMA ClaimKeeps ==
    ASSUME TypeOK, Rest, NEW d \in Dispatchers, Claim(d) PROVE Rest'
  <1>1. UNCHANGED <<provider, combos, row, taken, lastStart>> /\ At(d, "claim")
    BY DEF Claim, route
  <1>2. CASE Stop(d) /\ UNCHANGED batch
    BY <1>1, <1>2, StopsWork
  <1>3. ASSUME NEW m \in Known,
               Claimable(m, disp[d].at, disp[d].accounts),
               Known' = Known,
               \A n \in Known \ {m} : batch'[n] = batch[n],
               batch'[m].status = "claimed", batch'[m].claimed = disp[d].at,
               batch'[m].claim = batch[m].claim + 1,
               Others(d),
               disp'[d].pc = "mark", disp'[d].m = m, disp'[d].at = disp[d].at,
               disp'[d].claim = batch[m].claim + 1, NoReply(disp'[d], disp[d])
        PROVE  Rest'
    <2>1. /\ m \in Batches /\ batch[m].claim \in Nat /\ disp[d].at \in Nat /\ batch[m].next \in Nat
          /\ batch[m] \in BatchRecords
      BY DEF TypeOK, BatchRecords, Disps
    <2>2. ASSUME NEW e \in Dispatchers \ {d}, Busy(e)'
          PROVE  Busy(e) /\ disp'[e] = disp[e] /\ disp[e].m \in Known
                 /\ disp[e].claim \in 1..batch[disp[e].m].claim
      BY <1>3, <2>2 DEF Busy, Others, Rest, Claims
    <2>3. Claims'
      <3>1. ASSUME NEW e \in Dispatchers, Busy(e)'
            PROVE  disp'[e].m \in Known /\ disp'[e].claim \in 1..batch'[disp'[e].m].claim
        <4>1. CASE e = d
          BY <1>3, <2>1, <4>1
        <4>2. CASE e # d
          <5>1. disp'[e] = disp[e] /\ disp[e].m \in Known
                /\ disp[e].claim \in 1..batch[disp[e].m].claim
            BY <2>2, <3>1, <4>2
          <5>2. CASE disp[e].m = m
            BY <1>3, <2>1, <5>1, <5>2
          <5>3. CASE disp[e].m # m
            BY <1>3, <5>1, <5>3
          <5>4. QED BY <5>2, <5>3
        <4>3. QED BY <4>1, <4>2
      <3>2. ASSUME NEW e \in Dispatchers \ {d}, Busy(e)', disp'[e].m = m
            PROVE  disp'[e].claim # disp'[d].claim
        BY <1>3, <2>1, <2>2, <3>2
      <3>3. ASSUME NEW e \in Dispatchers, NEW f \in Dispatchers, e # f, Busy(e)', Busy(f)',
                   disp'[e].m = disp'[f].m
            PROVE  disp'[e].claim # disp'[f].claim
        <4>1. CASE e = d \/ f = d
          BY <1>3, <3>2, <3>3, <4>1
        <4>2. CASE e # d /\ f # d
          BY <2>2, <3>3, <4>2 DEF Rest, Claims
        <4>3. QED BY <4>1, <4>2
      <3>4. QED BY <1>3, <3>1, <3>3 DEF Rest, Claims
    <2>4. Hands'
      BY <1>1, <1>3 DEF Rest, Hands, Others, At, NoReply
    <2>5. ASSUME provider = "direct" PROVE Active(batch[m])
      BY <1>3, <2>1, <2>5, OutboxAssumption DEF Claimable, Active, BatchRecords
    <2>6. ASSUME provider = "direct" PROVE MembersAwait' /\ MembersAgree'
      <3>1. Active(batch'[m])
        BY <1>3 DEF Active
      <3>2. \A r \in m : row'[r] = "batched"
        BY <1>1, <2>5, <2>6 DEF Rest, Direct, MembersAwait, Awaited
      <3>3. QED BY <1>1, <1>3, <2>6, <3>1, <3>2, MembersKept DEF Rest, Direct
    <2>7. ASSUME NEW e \in Dispatchers, provider = "direct", Out(e)'
          PROVE  e # d /\ disp'[e] = disp[e] /\ Out(e) /\ disp[e].m \in Known \ {m}
      <3>1. e # d /\ disp'[e] = disp[e] /\ Out(e)
        BY <1>3, <2>7 DEF Out, Others
      <3>2. disp[e].m # m
        BY <1>3, <2>7, <3>1, OneSender DEF Claimable
      <3>3. QED BY <2>7, <3>1, <3>2, OneSender
    <2>8. ASSUME provider = "direct" PROVE Truth'
      <3>1. taken[m] # 1
        BY <1>3, <2>1, <2>8 DEF Claimable, Rest, Direct, Truth
      <3>2. /\ \A n \in Batches : taken[n] = 1 =>
                 n \in Known /\ batch'[n].status \in {"send_started", "confirmed", "accepted", "unknown"}
            /\ \A n \in Known : batch'[n].status = "confirmed" => taken[n] = 1
        BY <1>3, <2>8, <3>1 DEF Rest, Direct, Truth
      <3>3. QED BY <1>1, <1>3, <2>7, <2>8, <3>2 DEF Rest, Direct, Truth, Out, At
    <2>9. ASSUME provider = "direct", combos = {} PROVE Paced'
      <3>1. /\ Paced /\ Active(batch[m]) /\ Active(batch'[m])
            /\ \A n \in Known \ {m} : ~Active(batch[n])
        BY <1>3, <2>5, <2>9 DEF Rest, Slow, Paced, Active
      <3>2. \A n \in Known : Active(batch'[n]) => n = m
        BY <1>3, <3>1
      <3>3. Due(disp[d].at)
        <4>1. batch[m].status \in {"pending", "explicit_failed"} /\ batch[m].next <= disp[d].at
          BY <1>3, <3>1 DEF Claimable, Paced
        <4>2. Due(batch[m].next)
          BY <3>1, <4>1 DEF Paced
        <4>3. QED BY <2>1, <4>1, <4>2, OutboxAssumption DEF Due, TypeOK
      <3>4. ASSUME NEW n \in Known
            PROVE  /\ batch'[n].status # "partial"
                   /\ batch'[n].status = "claimed" => Due(batch'[n].claimed)
                   /\ batch'[n].status = "send_started" => batch'[n].started = lastStart
                   /\ batch'[n].status \in {"pending", "explicit_failed"} /\ Active(batch'[n])
                        => Due(batch'[n].next)
        BY <1>3, <3>1, <3>3 DEF Paced
      <3>5. ASSUME NEW e \in Dispatchers
            PROVE  /\ At(e, "mark")' /\ Holds(e, "claimed")' => batch'[disp'[e].m].claimed = disp'[e].at
                   /\ Busy(e)' /\ Holds(e, "send_started")' => batch'[disp'[e].m].started = disp'[e].at
        <4>1. CASE e = d
          BY <1>3, <4>1 DEF Holds
        <4>2. CASE e # d /\ Busy(e)'
          <5>1. /\ Busy(e) /\ disp'[e] = disp[e] /\ disp[e].m \in Known
                /\ disp[e].claim \in 1..batch[disp[e].m].claim
            BY <2>2, <4>2
          <5>2. CASE disp[e].m = m
            BY <1>3, <2>1, <5>1, <5>2 DEF Holds
          <5>3. CASE disp[e].m # m
            BY <1>3, <3>1, <5>1, <5>3 DEF Holds, Paced, At
          <5>4. QED BY <5>2, <5>3
        <4>3. QED BY <4>1, <4>2 DEF At, Busy
      <3>6. QED BY <1>1, <1>3, <3>1, <3>2, <3>4, <3>5 DEF Paced, Due
    <2>10. QED BY <1>1, <2>3, <2>4, <2>6, <2>8, <2>9 DEF Rest, Direct, Slow
  <1>4. QED BY <1>2, <1>3, ClaimShape

LEMMA MarkKeeps ==
    ASSUME TypeOK, Rest, NEW d \in Dispatchers, MarkStarted(d) PROVE Rest'
  <1> DEFINE m == disp[d].m
             at == disp[d].at
  <1>1. /\ UNCHANGED <<provider, combos, taken>> /\ At(d, "mark") /\ Busy(d)
        /\ m \in Known /\ m \in Batches /\ batch[m] \in BatchRecords /\ disp[d] \in Disps
    BY DEF MarkStarted, route, At, Busy, Rest, Claims, TypeOK
  <1>2. CASE ~Holds(d, "claimed") /\ Stop(d) /\ UNCHANGED <<row, batch, lastStart>>
    BY <1>1, <1>2, StopsWork
  \* While d holds its claim nobody else works on the batch as d does.
  <1>3. ASSUME Holds(d, "claimed"), NEW e \in Dispatchers \ {d}, Busy(e)
        PROVE  /\ disp[e].m \in Known
               /\ disp[e].m = m => disp[e].claim # batch[m].claim
               /\ provider = "direct" /\ Out(e) => disp[e].m # m
    <2>1. disp[e].m \in Known /\ (disp[e].m = m => disp[e].claim # disp[d].claim)
      BY <1>1, <1>3 DEF Rest, Claims
    <2>2. provider = "direct" /\ Out(e) => disp[e].m # m
      BY <1>3, OneSender DEF Holds
    <2>3. QED BY <1>3, <2>1, <2>2 DEF Holds
  <1>4. ASSUME Holds(d, "claimed"), provider = "direct"
        PROVE  /\ Active(batch[m]) /\ (\A r \in m : row[r] = "batched") /\ taken[m] = 0
               /\ combos = {} => Due(at) /\ batch[m].claimed = at
                                 /\ \A n \in Known \ {m} : ~Active(batch[n])
    <2>1. Active(batch[m])
      BY <1>4 DEF Holds, Active
    <2>2. taken[m] # 1 /\ taken[m] \in {0, 1}
      BY <1>1, <1>4 DEF Holds, Rest, Direct, Truth
    <2>3. \A r \in m : row[r] = "batched"
      BY <1>1, <1>4, <2>1 DEF Rest, Direct, MembersAwait, Awaited
    <2>4. ASSUME combos = {}
          PROVE  Due(at) /\ batch[m].claimed = at /\ \A n \in Known \ {m} : ~Active(batch[n])
      BY <1>1, <1>4, <2>1, <2>4 DEF Rest, Slow, Paced, Holds
    <2>5. QED BY <2>1, <2>2, <2>3, <2>4
  <1>5. ASSUME Holds(d, "claimed"), ~(combos \subseteq current),
               Known' = Known,
               \A n \in Known \ {m} : batch'[n] = batch[n],
               batch'[m].status = "suppressed", Keeps(batch'[m], batch[m]),
               row' = Settle({m}, "suppressed"),
               Stop(d), UNCHANGED lastStart
        PROVE  Rest'
    <2>1. /\ disp'[d] = Idle /\ Others(d) /\ combos # {}
      BY <1>5, Stops DEF Others
    <2>2. \A e \in Dispatchers : disp'[e].pc # "idle" => e # d /\ disp'[e] = disp[e]
      BY <2>1, IdleFacts DEF Others
    <2>3. Claims'
      BY <1>5, <2>2, ClaimsKept DEF Rest, Busy, Keeps
    <2>4. Hands'
      BY <1>1, <2>1, IdleFacts DEF Rest, Hands, Others, At
    <2>5. ASSUME provider = "direct" PROVE MembersAwait' /\ MembersAgree'
      <3>1. ~Active(batch'[m])
        BY <1>5 DEF Active
      <3>2. \A r \in Rows : row'[r] = IF row[r] = "batched" /\ r \in m THEN "suppressed" ELSE row[r]
        BY <1>5 DEF Settle
      <3>3. (\A r \in m : r \in Rows /\ row'[r] = "suppressed") /\ \A r \in Rows \ m : row'[r] = row[r]
        BY <1>1, <1>4, <1>5, <2>5, <3>2 DEF Batches
      <3>4. QED BY <1>1, <1>5, <2>5, <3>1, <3>3, MembersKept DEF Rest, Direct
    <2>6. ASSUME provider = "direct" PROVE Truth'
      <3>1. /\ \A n \in Batches : taken[n] = 1 =>
                 n \in Known /\ batch'[n].status \in {"send_started", "confirmed", "accepted", "unknown"}
            /\ \A n \in Known : batch'[n].status = "confirmed" => taken[n] = 1
        BY <1>4, <1>5, <2>6 DEF Rest, Direct, Truth
      <3>2. ASSUME NEW e \in Dispatchers, Out(e)'
            PROVE  disp'[e] = disp[e] /\ Out(e) /\ disp[e].m \in Known \ {m}
        BY <1>3, <1>5, <2>2, <2>6, <3>2 DEF Out, Busy
      <3>3. QED BY <1>1, <1>5, <2>6, <3>1, <3>2 DEF Rest, Direct, Truth, Out, At
    <2>7. QED BY <1>1, <2>1, <2>3, <2>4, <2>5, <2>6 DEF Rest, Direct, Slow
  <1>6. ASSUME Holds(d, "claimed"), Known' = Known,
               \A n \in Known \ {m} : batch'[n] = batch[n],
               batch'[m].status = "send_started", batch'[m].claim = batch[m].claim,
               batch'[m].started = at,
               Others(d),
               disp'[d].pc = "send", Same(disp'[d], disp[d]), NoReply(disp'[d], disp[d]),
               lastStart' = IF at > lastStart THEN at ELSE lastStart,
               UNCHANGED row
        PROVE  Rest'
    <2>1. \A n \in Known : batch'[n].claim = batch[n].claim
      BY <1>6
    <2>2. Claims'
      BY <1>1, <1>6, <2>1, ClaimsKept DEF Rest, Others, Same, Busy
    <2>3. Hands'
      BY <1>1, <1>6 DEF Rest, Hands, Others, At, NoReply
    <2>4. ASSUME provider = "direct" PROVE MembersAwait' /\ MembersAgree'
      <3>1. Active(batch'[m])
        BY <1>6 DEF Active
      <3>2. QED BY <1>1, <1>4, <1>6, <2>4, <3>1, MembersKept DEF Rest, Direct
    <2>5. ASSUME provider = "direct" PROVE Truth'
      <3>1. /\ \A n \in Batches : taken[n] = 1 =>
                 n \in Known /\ batch'[n].status \in {"send_started", "confirmed", "accepted", "unknown"}
            /\ \A n \in Known : batch'[n].status = "confirmed" => taken[n] = 1
        BY <1>4, <1>6, <2>5 DEF Rest, Direct, Truth
      <3>2. ASSUME NEW e \in Dispatchers \ {d}, Out(e)'
            PROVE  disp'[e] = disp[e] /\ Out(e) /\ disp[e].m \in Known \ {m}
        BY <1>3, <1>6, <2>5, <3>2 DEF Out, Busy, Others
      <3>3. /\ disp'[d].m = m /\ disp'[d].claim = batch'[m].claim
            /\ disp'[d].out = "unknown" /\ taken[m] = 0
        BY <1>1, <1>4, <1>6, <2>5 DEF Same, NoReply, Holds, Rest, Hands, At
      <3>4. ASSUME NEW e \in Dispatchers, Out(e)'
            PROVE  /\ batch'[disp'[e].m].claim = disp'[e].claim
                   /\ At(e, "send")' => taken[disp'[e].m] = 0 /\ batch'[disp'[e].m].status \in {"send_started", "unknown"}
                   /\ At(e, "reply")' => batch'[disp'[e].m].status \in {"send_started", "unknown", "confirmed"}
                   /\ disp'[e].out = "confirmed" => taken[disp'[e].m] = 1
                   /\ disp'[e].out = "explicit_failed" => taken[disp'[e].m] = 0
        <4>1. CASE e = d
          BY <1>6, <3>3, <4>1 DEF At
        <4>2. CASE e # d
          BY <1>6, <2>5, <3>2, <3>4, <4>2 DEF Rest, Direct, Truth, Out, At
        <4>3. QED BY <4>1, <4>2
      <3>5. QED BY <1>1, <1>6, <2>5, <3>1, <3>4 DEF Rest, Direct, Truth, Out
    <2>6. ASSUME provider = "direct", combos = {} PROVE Paced'
      <3>1. /\ Paced /\ Due(at) /\ batch[m].claimed = at /\ Active(batch'[m])
            /\ \A n \in Known \ {m} : ~Active(batch[n])
        BY <1>4, <1>6, <2>6 DEF Rest, Slow, Active
      <3>2. lastStart' = at
        <4>1. at \in Nat /\ lastStart \in Nat
          BY <1>1 DEF Disps, TypeOK
        <4>2. QED BY <1>6, <3>1, <4>1, OutboxAssumption DEF Due
      <3>3. \A n \in Known : Active(batch'[n]) => n = m
        BY <1>6, <3>1
      <3>4. ASSUME NEW n \in Known
            PROVE  (/\ batch[n].status # "partial"
                    /\ batch[n].status = "claimed" => Due(batch[n].claimed)
                    /\ batch[n].status = "send_started" => batch[n].started = lastStart
                    /\ batch[n].status \in {"pending", "explicit_failed"} /\ Active(batch[n])
                         => Due(batch[n].next))'
        <4>1. CASE n = m
          BY <1>6, <3>2, <4>1
        <4>2. CASE n # m
          <5>1. batch'[n] = batch[n] /\ ~Active(batch[n])
            BY <1>6, <3>1, <4>2
          <5>2. batch[n].status \notin {"claimed", "send_started"}
            BY <5>1 DEF Active
          <5>3. QED BY <3>1, <5>1, <5>2 DEF Paced
        <4>3. QED BY <4>1, <4>2
      <3>5. ASSUME NEW e \in Dispatchers, Busy(e)'
            PROVE  /\ At(e, "mark")' /\ Holds(e, "claimed")' => batch'[disp'[e].m].claimed = disp'[e].at
                   /\ Holds(e, "send_started")' => batch'[disp'[e].m].started = disp'[e].at
        <4>1. CASE e = d
          BY <1>6, <4>1 DEF Same, At
        <4>2. CASE e # d
          <5>1. /\ disp'[e] = disp[e] /\ Busy(e) /\ disp[e].m \in Known
                /\ disp[e].m = m => disp[e].claim # batch[m].claim
            BY <1>3, <1>6, <3>5, <4>2 DEF Busy, Others
          <5>2. CASE disp[e].m = m
            BY <1>6, <5>1, <5>2 DEF Holds
          <5>3. CASE disp[e].m # m
            BY <1>6, <3>1, <5>1, <5>3 DEF Holds, Paced, At
          <5>4. QED BY <5>2, <5>3
        <4>3. QED BY <4>1, <4>2
      <3>6. \E n \in Known : batch'[n].started = lastStart' \/ Active(batch'[n])
        BY <1>1, <3>1
      <3>7. QED BY <1>1, <1>6, <3>3, <3>4, <3>5, <3>6 DEF Paced, At, Busy
    <2>7. QED BY <1>1, <2>2, <2>3, <2>4, <2>5, <2>6 DEF Rest, Direct, Slow
  <1>7. QED BY <1>1, <1>2, <1>5, <1>6, MarkShape

LEMMA CompleteKeeps ==
    ASSUME TypeOK, Rest, NEW d \in Dispatchers, Complete(d) PROVE Rest'
  <1> DEFINE m == disp[d].m
             out == disp[d].out
  <1>1. /\ UNCHANGED <<provider, combos, taken, lastStart>> /\ At(d, "reply") /\ Busy(d)
        /\ m \in Known /\ m \in Batches /\ batch[m] \in BatchRecords /\ disp[d] \in Disps
        /\ Stop(d) /\ disp'[d] = Idle /\ Others(d)
    BY Stops DEF Complete, route, At, Busy, Rest, Claims, TypeOK, Others
  <1>2. CASE UNCHANGED <<batch, row>>
    BY <1>1, <1>2, StopsWork
  <1>3. ASSUME Holds(d, "send_started"), Again(d) \/ Awaited(m),
               Known' = Known,
               \A n \in Known \ {m} : batch'[n] = batch[n],
               batch'[m].status = out, batch'[m].retry = disp[d].retry,
               Again(d) => batch'[m].next = RetryAt(d),
               Keeps(batch'[m], batch[m]),
               row' = IF Again(d) THEN row ELSE Settle({m}, out)
        PROVE  Rest'
    <2>1. \A e \in Dispatchers : disp'[e].pc # "idle" => e # d /\ disp'[e] = disp[e]
      BY <1>1, IdleFacts DEF Others
    <2>2. Claims'
      BY <1>1, <1>3, <2>1, ClaimsKept DEF Rest, Busy, Keeps
    <2>3. Hands'
      BY <1>1, IdleFacts DEF Rest, Hands, Others, At
    \* On a direct route the batch is tried again only after a refusal.
    <2>4. ASSUME provider = "direct"
          PROVE  /\ out \in {"confirmed", "accepted", "explicit_failed", "unknown"}
                 /\ Again(d) <=> out = "explicit_failed" /\ batch[m].attempts < MaxAttempts
                 /\ Again(d) <=> Active(batch'[m])
                 /\ \A r \in m : row[r] = "batched"
                 /\ out = "confirmed" => taken[m] = 1
                 /\ out = "explicit_failed" => taken[m] = 0
      <3>1. out \in Outcomes /\ out \notin {"partial", "pending"} /\ ~disp[d].retry
        BY <1>1, <2>4 DEF Rest, Hands, Disps
      <3>2. Again(d) <=> out = "explicit_failed" /\ batch[m].attempts < MaxAttempts
        BY <3>1 DEF Again
      <3>3. batch'[m].attempts = batch[m].attempts
        BY <1>3 DEF Keeps
      <3>4. out \in {"confirmed", "accepted", "explicit_failed", "unknown"}
        BY <3>1 DEF Outcomes
      <3>5. Again(d) <=> Active(batch'[m])
        BY <1>3, <3>2, <3>3, <3>4 DEF Active
      <3>6. Active(batch[m])
        BY <1>3 DEF Holds, Active
      <3>7. \A r \in m : row[r] = "batched"
        BY <1>1, <2>4, <3>6 DEF Rest, Direct, MembersAwait, Awaited
      <3>8. (out = "confirmed" => taken[m] = 1) /\ (out = "explicit_failed" => taken[m] = 0)
        BY <1>1, <2>4 DEF Rest, Direct, Truth, At
      <3>9. QED BY <3>2, <3>4, <3>5, <3>7, <3>8
    <2>5. ASSUME provider = "direct" PROVE MembersAwait' /\ MembersAgree'
      <3>1. CASE Again(d)
        BY <1>1, <1>3, <2>4, <2>5, <3>1, MembersKept DEF Rest, Direct
      <3>2. CASE ~Again(d)
        <4>1. \A r \in Rows : row'[r] = IF row[r] = "batched" /\ r \in m THEN out ELSE row[r]
          BY <1>3, <3>2 DEF Settle
        <4>2. (\A r \in m : r \in Rows /\ row'[r] = out) /\ \A r \in Rows \ m : row'[r] = row[r]
          BY <1>1, <2>4, <2>5, <4>1 DEF Batches
        <4>3. QED BY <1>1, <1>3, <2>4, <2>5, <3>2, <4>2, MembersKept DEF Rest, Direct
      <3>3. QED BY <3>1, <3>2
    <2>6. ASSUME provider = "direct" PROVE Truth'
      <3>1. /\ \A n \in Batches : taken[n] = 1 =>
                 n \in Known /\ batch'[n].status \in {"send_started", "confirmed", "accepted", "unknown"}
            /\ \A n \in Known : batch'[n].status = "confirmed" => taken[n] = 1
        BY <1>1, <1>3, <2>4, <2>6 DEF Rest, Direct, Truth
      <3>2. ASSUME NEW e \in Dispatchers, Out(e)'
            PROVE  disp'[e] = disp[e] /\ Out(e) /\ disp[e].m \in Known \ {m}
        <4>1. e # d /\ disp'[e] = disp[e] /\ Out(e) /\ Out(d)
          BY <1>1, <2>1, <3>2 DEF Out, At
        <4>2. QED BY <2>6, <4>1, OneSender
      <3>3. QED BY <1>1, <1>3, <2>6, <3>1, <3>2 DEF Rest, Direct, Truth, Out, At
    <2>7. ASSUME provider = "direct", combos = {} PROVE Paced'
      <3>1. /\ Paced /\ \A n \in Known \ {m} : ~Active(batch[n])
        BY <1>1, <1>3, <2>7 DEF Rest, Slow, Paced, Holds, Active
      <3>2. \A n \in Known : Active(batch'[n]) => n = m
        BY <1>3, <3>1
      <3>3. /\ batch[m].started = disp[d].at /\ batch[m].started = lastStart
            /\ batch'[m].started = batch[m].started
        BY <1>1, <1>3, <3>1 DEF Paced, Holds, Keeps
      <3>4. Again(d) => Due(batch'[m].next)
        <4>1. disp[d].next = 0 /\ disp[d].at \in Nat
          BY <1>1, <2>7 DEF Rest, Hands, Disps
        <4>2. RetryAt(d) = disp[d].at + Delay(batch[m].attempts)
          BY <4>1 DEF RetryAt
        <4>3. Delay(batch[m].attempts) \in Nat /\ Delay(batch[m].attempts) >= Interval /\ Interval \in Nat
          BY OutboxAssumption DEF Delay
        <4>4. disp[d].at + Delay(batch[m].attempts) >= lastStart + Interval
          BY <3>3, <4>1, <4>3
        <4>5. QED BY <1>3, <4>2, <4>4 DEF Due
      <3>5. ASSUME NEW n \in Known
            PROVE  /\ batch'[n].status # "partial"
                   /\ batch'[n].status = "claimed" => Due(batch'[n].claimed)
                   /\ batch'[n].status = "send_started" => batch'[n].started = lastStart
                   /\ batch'[n].status \in {"pending", "explicit_failed"} /\ Active(batch'[n])
                        => Due(batch'[n].next)
        <4>1. CASE n = m
          BY <1>3, <2>4, <2>7, <3>4, <4>1
        <4>2. CASE n # m
          BY <1>3, <3>1, <4>2 DEF Paced
        <4>3. QED BY <4>1, <4>2
      <3>6. ASSUME NEW e \in Dispatchers, Busy(e)'
            PROVE  /\ At(e, "mark")' /\ Holds(e, "claimed")' => batch'[disp'[e].m].claimed = disp'[e].at
                   /\ Holds(e, "send_started")' => batch'[disp'[e].m].started = disp'[e].at
        <4>1. e # d /\ disp'[e] = disp[e] /\ Busy(e) /\ disp[e].m \in Known
          BY <2>1, <3>6 DEF Busy, Rest, Claims
        <4>2. CASE disp[e].m = m
          BY <1>3, <2>4, <2>7, <4>1, <4>2 DEF Holds
        <4>3. CASE disp[e].m # m
          BY <1>3, <3>1, <4>1, <4>3 DEF Holds, Paced, At
        <4>4. QED BY <4>2, <4>3
      <3>7. \E n \in Known : batch'[n].started = lastStart \/ Active(batch'[n])
        BY <1>1, <3>3
      <3>8. QED BY <1>1, <1>3, <3>2, <3>5, <3>6, <3>7 DEF Paced, Due, At, Busy
    <2>8. QED BY <1>1, <2>2, <2>3, <2>5, <2>6, <2>7 DEF Rest, Direct, Slow
  <1>4. QED BY <1>1, <1>2, <1>3, CompleteShape

LEMMA PollKeeps ==
    ASSUME TypeOK, Rest, NEW d \in Dispatchers, Poll(d) PROVE Rest'
  <1>1. UNCHANGED <<provider, combos, taken, lastStart>>
    BY DEF Poll, route
  <1>2. PICK t \in Nat :
          /\ Others(d) /\ disp'[d].pc = "plan" /\ NoReply(disp'[d], Idle)
          /\ Known' = Known
          /\ \A m \in Known : batch'[m] = Recovered(m, t)
          /\ \A m \in LostAt(t) : Awaited(m)
          /\ \A r \in Rows : row'[r] = IF row[r] = "batched" /\ \E m \in LostAt(t) : r \in m
                                         THEN "unknown" ELSE row[r]
    BY PollShape
  <1>3. \A m \in Known :
          /\ batch'[m].claim = batch[m].claim /\ batch'[m].started = batch[m].started
          /\ batch'[m].attempts = batch[m].attempts
    BY <1>2, RecoveredFacts
  <1>4. \A e \in Dispatchers : disp'[e].pc # "plan" => e # d /\ disp'[e] = disp[e]
    BY <1>2 DEF Others
  <1>5. Claims'
    BY <1>2, <1>3, <1>4, ClaimsKept DEF Rest, Busy
  <1>6. Hands'
    BY <1>1, <1>2, IdleFacts DEF Rest, Hands, Others, At, NoReply
  <1>7. ASSUME provider = "direct", NEW m \in Known
        PROVE  \/ batch'[m] = batch[m] /\ m \notin LostAt(t)
               \/ /\ batch[m].status = "claimed" /\ Stale(batch[m].claimed, t)
                  /\ batch'[m].status = "pending" /\ batch'[m].next = t /\ m \notin LostAt(t)
               \/ batch[m].status = "send_started" /\ batch'[m].status = "unknown" /\ m \in LostAt(t)
    <2>1. batch'[m] = Recovered(m, t) /\ (m \in LostAt(t) <=> Lost(m, t))
      BY <1>2, <1>7 DEF LostAt
    <2>2. Lost(m, t) => batch[m].status = "send_started"
      BY DEF Lost
    <2>3. QED BY <1>7, <2>1, <2>2, RecoveredFacts
  <1>8. ASSUME provider = "direct" PROVE MembersAwait' /\ MembersAgree'
    <2>1. ASSUME NEW m \in Known
          PROVE  /\ Active(batch'[m]) => \A r \in m : row'[r] = "batched"
                 /\ ~Active(batch'[m]) => \A r \in m : row'[r] = batch'[m].status
      <3>1. \A r \in m : r \in Rows
        BY DEF TypeOK, Batches
      <3>2. CASE m \in LostAt(t)
        <4>1. batch'[m].status = "unknown"
          BY <1>7, <1>8, <3>2
        <4>2. \A r \in m : row'[r] = "unknown"
          BY <1>2, <3>1, <3>2 DEF Awaited
        <4>3. QED BY <4>1, <4>2 DEF Active
      <3>3. CASE m \notin LostAt(t)
        <4>1. \A n \in LostAt(t) : m \cap n = {}
          BY <3>3 DEF Rest, Claims, LostAt
        <4>2. \A r \in m : row'[r] = row[r]
          BY <1>2, <3>1, <4>1
        <4>3. Active(batch'[m]) <=> Active(batch[m])
          BY <1>7, <1>8, <3>3 DEF Active
        <4>4. ~Active(batch[m]) => batch'[m].status = batch[m].status
          BY <1>7, <1>8, <3>3 DEF Active
        <4>5. QED BY <1>8, <4>2, <4>3, <4>4 DEF Rest, Direct, MembersAwait, MembersAgree, Awaited
      <3>4. QED BY <3>2, <3>3
    <2>2. QED BY <1>2, <2>1 DEF MembersAwait, MembersAgree, Awaited
  <1>9. ASSUME provider = "direct" PROVE Truth'
    <2>1. /\ \A n \in Batches : taken[n] = 1 =>
               n \in Known /\ batch'[n].status \in {"send_started", "confirmed", "accepted", "unknown"}
          /\ \A n \in Known : batch'[n].status = "confirmed" => taken[n] = 1
      BY <1>7, <1>9 DEF Rest, Direct, Truth
    <2>2. ASSUME NEW e \in Dispatchers, Out(e)'
          PROVE  /\ disp'[e] = disp[e] /\ Out(e) /\ disp[e].m \in Known
                 /\ batch'[disp[e].m].status = batch[disp[e].m].status \/
                      (batch[disp[e].m].status = "send_started" /\ batch'[disp[e].m].status = "unknown")
      <3>1. disp'[e] = disp[e] /\ Out(e)
        BY <1>4, <2>2 DEF Out
      <3>2. disp[e].m \in Known /\ batch[disp[e].m].status # "claimed"
        BY <1>9, <3>1, OneSender
      <3>3. QED BY <1>7, <1>9, <3>1, <3>2
    <2>3. ASSUME NEW e \in Dispatchers, Out(e)'
          PROVE  /\ At(e, "send") => batch'[disp[e].m].status \in {"send_started", "unknown"}
                 /\ At(e, "reply") => batch'[disp[e].m].status \in {"send_started", "unknown", "confirmed"}
      BY <1>9, <2>2, <2>3 DEF Rest, Direct, Truth, Out, At
    <2>4. QED BY <1>1, <1>2, <1>3, <1>9, <2>1, <2>2, <2>3 DEF Rest, Direct, Truth, Out, At
  <1>10. ASSUME provider = "direct", combos = {} PROVE Paced'
    <2>1. Paced
      BY <1>10 DEF Rest, Slow
    <2>2. \A n \in Known : Active(batch'[n]) => Active(batch[n])
      BY <1>7, <1>10 DEF Active
    <2>3. \A n, k \in Known : Active(batch'[n]) /\ Active(batch'[k]) => n = k
      BY <2>1, <2>2 DEF Paced
    <2>4. lastStart > 0 => \E n \in Known : batch'[n].started = lastStart \/ Active(batch'[n])
      <3>1. ASSUME NEW n \in Known, Active(batch[n])
            PROVE  batch'[n].started = lastStart \/ Active(batch'[n])
        <4>1. CASE batch[n].status = "send_started" /\ batch'[n].status = "unknown"
          BY <1>3, <2>1, <4>1 DEF Paced
        <4>2. CASE batch'[n].status = "pending"
          BY <4>2 DEF Active
        <4>3. CASE batch'[n] = batch[n]
          BY <3>1, <4>3
        <4>4. QED BY <1>7, <1>10, <4>1, <4>2, <4>3
      <3>2. QED BY <1>3, <2>1, <3>1 DEF Paced
    <2>5. ASSUME NEW n \in Known
          PROVE  /\ batch'[n].status # "partial"
                 /\ batch'[n].status = "claimed" => Due(batch'[n].claimed)
                 /\ batch'[n].status = "send_started" => batch'[n].started = lastStart
                 /\ batch'[n].status \in {"pending", "explicit_failed"} /\ Active(batch'[n])
                      => Due(batch'[n].next)
      <3>1. CASE batch'[n] = batch[n]
        BY <2>1, <3>1 DEF Paced
      <3>2. CASE batch[n].status = "send_started" /\ batch'[n].status = "unknown"
        BY <3>2
      <3>3. CASE /\ batch[n].status = "claimed" /\ Stale(batch[n].claimed, t)
                 /\ batch'[n].status = "pending" /\ batch'[n].next = t
        <4>1. Due(batch[n].claimed) /\ batch[n].claimed \in Nat /\ batch[n].claimed + Lease <= t
          BY <2>1, <3>3 DEF Paced, Stale, TypeOK, BatchRecords
        <4>2. Due(t)
          BY <4>1, OutboxAssumption DEF Due, TypeOK
        <4>3. QED BY <3>3, <4>2
      <3>4. QED BY <1>7, <1>10, <3>1, <3>2, <3>3
    <2>6. ASSUME NEW e \in Dispatchers, Busy(e)'
          PROVE  /\ At(e, "mark")' /\ Holds(e, "claimed")' => batch'[disp'[e].m].claimed = disp'[e].at
                 /\ Holds(e, "send_started")' => batch'[disp'[e].m].started = disp'[e].at
      <3>1. disp'[e] = disp[e] /\ Busy(e) /\ disp[e].m \in Known
        BY <1>4, <2>6 DEF Busy, Rest, Claims
      <3>2. CASE batch'[disp[e].m] = batch[disp[e].m]
        BY <2>1, <3>1, <3>2 DEF Holds, Paced, At
      <3>3. CASE batch'[disp[e].m].status \in {"pending", "unknown"}
        BY <3>1, <3>3 DEF Holds
      <3>4. QED BY <1>7, <1>10, <3>1, <3>2, <3>3
    <2>7. QED BY <1>1, <1>2, <2>3, <2>4, <2>5, <2>6 DEF Paced, Due, At, Busy
  <1>11. QED BY <1>1, <1>5, <1>6, <1>8, <1>9, <1>10 DEF Rest, Direct, Slow

\* Free rows of a batch that is not empty belong to no batch, so it is new.
LEMMA FreeIsNew ==
    ASSUME NEW m, m # {}, Free(m)
    PROVE  m \notin Known /\ \A n \in Known : n \cap m = {}
  BY DEF Free, Bound

LEMMA PlanKeeps ==
    ASSUME TypeOK, Rest, NEW d \in Dispatchers, Plan(d) PROVE Rest'
  <1> DEFINE t == disp[d].at
  <1>1. /\ UNCHANGED <<provider, combos, taken, lastStart>> /\ At(d, "plan") /\ t \in Nat
        /\ Others(d) /\ disp'[d].pc = "claim" /\ NoReply(disp'[d], disp[d])
    BY PlanShape DEF Plan, route, TypeOK, Disps
  <1>2. NoReply(disp'[d], Idle)
    <2>1. disp[d].retry \in BOOLEAN
      BY DEF TypeOK, Disps
    <2>2. disp[d].out = "unknown" /\ disp[d].retry = FALSE /\ disp[d].next = 0
      BY <1>1, <2>1 DEF Rest, Hands, At
    <2>3. QED BY <1>1, <2>2, IdleFacts DEF NoReply
  <1>3. PICK void \in SUBSET Rows :
          /\ Free(void)
          /\ \/ Voids(void)
             \/ \E m \in Batches :
                  /\ m # {} /\ m \cap void = {} /\ Free(m)
                  /\ ~RateLimited(t)
                  /\ provider = "direct" /\ combos = {} => \A n \in Known : ~Active(batch[n])
                  /\ Binds(void, m, t)
    BY PlanShape
  \* The members of the known batches are not touched.
  <1>4. ASSUME NEW n \in Known, NEW r \in n PROVE r \in Rows /\ r \notin void
    BY <1>3 DEF Free, Bound, TypeOK, Batches
  <1>5. \A e \in Dispatchers : Busy(e)' => e # d /\ disp'[e] = disp[e] /\ Busy(e) /\ disp[e].m \in Known
    BY <1>1 DEF Others, Busy, Rest, Claims
  <1>6. Hands'
    BY <1>1, <1>2, IdleFacts DEF Rest, Hands, Others, At, NoReply
  <1>7. CASE Voids(void)
    <2>1. UNCHANGED batch /\ Known' = Known
      BY <1>7 DEF Voids, Known
    <2>2. \A r \in Rows : row'[r] = IF r \in void THEN "suppressed" ELSE row[r]
      BY <1>7 DEF Voids
    <2>3. \A n \in Known : \A r \in n : row'[r] = row[r]
      BY <1>4, <2>2
    <2>4. Claims'
      BY <1>5, <2>1, ClaimsKept DEF Rest
    <2>5. (provider = "direct") => MembersAwait' /\ MembersAgree'
      BY <2>1, <2>3 DEF Rest, Direct, MembersAwait, MembersAgree, Awaited
    <2>6. (provider = "direct") => Truth'
      BY <1>1, <1>5, <2>1 DEF Rest, Direct, Truth, At, Busy
    <2>7. (provider = "direct" /\ combos = {}) => Paced'
      BY <1>1, <1>5, <2>1 DEF Rest, Slow, Paced, Due, At, Busy, Holds
    <2>8. QED BY <1>1, <1>6, <2>4, <2>5, <2>6, <2>7 DEF Rest, Direct, Slow
  <1>8. ASSUME NEW m \in Batches, m # {}, m \cap void = {}, Free(m), ~RateLimited(t),
               provider = "direct" /\ combos = {} => \A n \in Known : ~Active(batch[n]),
               Binds(void, m, t)
        PROVE  Rest'
    <2>1. m \notin Known /\ \A n \in Known : n \cap m = {}
      BY <1>8, FreeIsNew
    <2>2. /\ \A r \in Rows : row'[r] = IF r \in void THEN "suppressed"
                                       ELSE IF r \in m THEN "batched" ELSE row[r]
          /\ Known' = Known \cup {m} /\ batch'[m] = NewBatch(t)
          /\ \A n \in Known : batch'[n] = batch[n]
      <3>1. \A r \in Rows : row'[r] = IF r \in void THEN "suppressed"
                                      ELSE IF r \in m THEN "batched" ELSE row[r]
        BY <1>8 DEF Binds
      <3>2. Known' = Known \cup {m}
        BY <1>8 DEF Binds, Known
      <3>3. batch'[m] = NewBatch(t) /\ \A n \in Known : batch'[n] = batch[n]
        BY <1>8, <2>1 DEF Binds
      <3>4. QED BY <3>1, <3>2, <3>3
    <2>3. /\ batch'[m].status = "pending" /\ batch'[m].claim = 0 /\ batch'[m].started = 0
          /\ batch'[m].next = t
      BY <1>1, <2>2, NewBatchFacts
    <2>4. \A n \in Known : \A r \in n : row'[r] = row[r]
      BY <1>4, <2>1, <2>2
    <2>5. Claims'
      <3>1. \A n, k \in Known' : n \cap k # {} => n = k
        BY <2>1, <2>2 DEF Rest, Claims
      <3>2. ASSUME NEW e \in Dispatchers, Busy(e)'
            PROVE  disp'[e].m \in Known' /\ disp'[e].claim \in 1..batch'[disp'[e].m].claim
        BY <1>5, <2>2, <3>2 DEF Rest, Claims
      <3>3. ASSUME NEW e \in Dispatchers, NEW f \in Dispatchers, e # f, Busy(e)', Busy(f)',
                   disp'[e].m = disp'[f].m
            PROVE  disp'[e].claim # disp'[f].claim
        BY <1>5, <3>3 DEF Rest, Claims
      <3>4. QED BY <3>1, <3>2, <3>3 DEF Claims
    <2>6. ASSUME provider = "direct" PROVE MembersAwait' /\ MembersAgree'
      <3>1. Active(batch'[m]) /\ \A r \in m : row'[r] = "batched"
        BY <1>8, <2>2, <2>3 DEF Active, Batches
      <3>2. ASSUME NEW n \in Known
            PROVE  /\ Active(batch'[n]) => \A r \in n : row'[r] = "batched"
                   /\ ~Active(batch'[n]) => \A r \in n : row'[r] = batch'[n].status
        BY <2>2, <2>4, <2>6 DEF Rest, Direct, MembersAwait, MembersAgree, Awaited
      <3>3. QED BY <2>2, <3>1, <3>2 DEF MembersAwait, MembersAgree, Awaited
    <2>7. ASSUME provider = "direct" PROVE Truth'
      <3>1. /\ \A n \in Batches : taken[n] = 1 =>
                 n \in Known' /\ batch'[n].status \in {"send_started", "confirmed", "accepted", "unknown"}
            /\ \A n \in Known' : batch'[n].status = "confirmed" => taken[n] = 1
        BY <2>1, <2>2, <2>3, <2>7 DEF Rest, Direct, Truth
      <3>2. ASSUME NEW e \in Dispatchers, Out(e)'
            PROVE  disp'[e] = disp[e] /\ Out(e) /\ disp[e].m \in Known
        BY <1>5, <3>2 DEF Out, Busy
      <3>3. QED BY <1>1, <2>2, <2>7, <3>1, <3>2 DEF Rest, Direct, Truth, Out, At
    <2>8. ASSUME provider = "direct", combos = {} PROVE Paced'
      <3>1. Paced /\ \A n \in Known : ~Active(batch[n])
        BY <1>8, <2>8 DEF Rest, Slow
      <3>2. Due(t)
        <4>1. CASE lastStart > 0
          <5>1. PICK n \in Known : batch[n].started = lastStart
            BY <3>1, <4>1 DEF Paced
          <5>2. ~(t - lastStart < Interval)
            BY <1>8, <4>1, <5>1 DEF RateLimited
          <5>3. QED BY <1>1, <5>2, OutboxAssumption DEF Due, TypeOK
        <4>2. CASE ~(lastStart > 0)
          BY <4>2 DEF Due, TypeOK
        <4>3. QED BY <4>1, <4>2
      <3>3. \A n \in Known' : Active(batch'[n]) => n = m
        BY <2>2, <3>1
      <3>4. ASSUME NEW n \in Known'
            PROVE  /\ batch'[n].status # "partial"
                   /\ batch'[n].status = "claimed" => Due(batch'[n].claimed)
                   /\ batch'[n].status = "send_started" => batch'[n].started = lastStart
                   /\ batch'[n].status \in {"pending", "explicit_failed"} /\ Active(batch'[n])
                        => Due(batch'[n].next)
        <4>1. CASE n = m
          BY <2>3, <3>2, <4>1
        <4>2. CASE n # m
          BY <2>2, <3>1, <4>2 DEF Paced
        <4>3. QED BY <4>1, <4>2
      <3>5. ASSUME NEW e \in Dispatchers, Busy(e)'
            PROVE  /\ At(e, "mark")' /\ Holds(e, "claimed")' => batch'[disp'[e].m].claimed = disp'[e].at
                   /\ Holds(e, "send_started")' => batch'[disp'[e].m].started = disp'[e].at
        BY <1>5, <2>2, <3>1, <3>5 DEF Paced, Holds, At
      <3>6. \E n \in Known' : batch'[n].started = lastStart \/ Active(batch'[n])
        BY <2>2, <2>3 DEF Active
      <3>7. QED BY <1>1, <3>3, <3>4, <3>5, <3>6 DEF Paced, Due, At, Busy
    <2>9. QED BY <1>1, <1>6, <2>5, <2>6, <2>7, <2>8 DEF Rest, Direct, Slow
  <1>9. QED BY <1>3, <1>7, <1>8

-----------------------------------------------------------------------------
LEMMA RestInit == Init => Rest
  <1> SUFFICES ASSUME Init PROVE Rest
    OBVIOUS
  <1>1. Known = {} /\ taken = [m \in Batches |-> 0] /\ lastStart = 0
    BY DEF Init, Known
  <1>2. \A d \in Dispatchers : disp[d].pc = "idle" /\ NoReply(disp[d], Idle)
    BY IdleFacts DEF Init, NoReply
  <1>3. Claims /\ Hands
    BY <1>1, <1>2, IdleFacts DEF Claims, Hands, Busy, At, NoReply
  <1>4. MembersAwait /\ MembersAgree /\ Truth /\ Paced
    BY <1>1, <1>2 DEF MembersAwait, MembersAgree, Truth, Paced, At, Busy
  <1>5. QED BY <1>3, <1>4 DEF Rest, Direct, Slow

LEMMA RestStep ==
    ASSUME TypeOK, Rest, [Next]_vars PROVE Rest'
  <1>1. ASSUME NEW i \in Intents, Enqueue(i) PROVE Rest'
    <2>1. \A r \in Rows : row[r] # "none" => row'[r] = row[r]
      BY <1>1 DEF Enqueue, TypeOK
    <2>2. QED BY <1>1, <2>1, NewRows DEF Enqueue, route
  <1>2. CASE ComboChanges \/ Tick \/ UNCHANGED vars
    BY <1>2, Unseen DEF ComboChanges, Tick, vars, route
  <1>3. ASSUME NEW m \in Known, NEW s \in {"confirmed", "unknown"}, Reconcile(m, s) PROVE Rest'
    BY <1>3, ReconcileKeeps
  <1>4. ASSUME NEW m \in Known, Resend(m) PROVE Rest'
    <2>1. \A r \in Rows : row[r] # "none" => row'[r] = row[r]
      BY <1>4 DEF Resend, Compensating
    <2>2. QED BY <1>4, <2>1, NewRows DEF Resend, route
  <1>5. ASSUME NEW d \in Dispatchers, Dispatcher(d) PROVE Rest'
    <2>1. Busy(d) => disp[d].m \in Known
      BY DEF Rest, Claims
    <2>2. ASSUME NEW c \in Recipients, Visit(d, c) PROVE Rest'
      <3>1. Busy(d) /\ ~At(d, "reply") /\ UNCHANGED <<provider, batch>>
        BY <2>2 DEF Visit, At, Busy, route
      <3>2. QED BY <2>1, <2>2, <3>1, VisitShape, FanoutOnly
    <2>3. CASE Answer(d)
      <3>1. Busy(d) /\ ~At(d, "reply") /\ At(d, "child") /\ UNCHANGED <<provider, batch>>
        BY <2>3 DEF Answer, At, Busy, route
      <3>2. provider = "fanout"
        BY <3>1, OutboxAssumption DEF Rest, Hands, TypeOK
      <3>3. QED BY <2>1, <2>3, <3>1, <3>2, AnswerShape, FanoutOnly
    <2>4. CASE FanoutReturns(d)
      <3>1. Busy(d) /\ UNCHANGED <<provider, batch>>
        BY <2>4 DEF FanoutReturns, At, Busy, route
      <3>2. QED BY <2>1, <2>4, <3>1, ReturnsShape, FanoutOnly
    <2>5. CASE Crash(d)
      BY <2>5, StopsWork DEF Crash, route
    <2>6. QED
      BY <1>5, <2>2, <2>3, <2>4, <2>5, PollKeeps, PlanKeeps, ClaimKeeps, MarkKeeps, SendKeeps,
         CompleteKeeps DEF Dispatcher
  <1>6. QED BY <1>1, <1>2, <1>3, <1>4, <1>5 DEF Next

\* For any intents, dispatchers, limits and times: dispatchers work on batches
\* of their own claim, a direct batch and its members tell one outcome, which
\* is what the provider did, and one batch at most is active when no combo
\* confirmation waits (src/application/ledger/notification_outbox.py).
THEOREM OutboxIsConsistent == Spec => []OutboxInv
  <1>1. Init => OutboxInv
    BY TypeInit, RestInit, InvParts
  <1>2. OutboxInv /\ [Next]_vars => OutboxInv'
    <2> SUFFICES ASSUME OutboxInv, [Next]_vars PROVE OutboxInv'
      OBVIOUS
    <2>1. TypeOK /\ Rest
      BY InvParts
    <2>2. TypeOK'
      BY <2>1, TypeStep DEF Rest
    <2>3. Rest'
      BY <2>1, RestStep
    <2>4. QED BY <2>2, <2>3 DEF OutboxInv, Rest, Direct, Slow
  <1>3. QED BY <1>1, <1>2, PTL DEF Spec

-----------------------------------------------------------------------------
(* Sends are spaced.                                                       *)

SpacedStep ==
    provider = "direct" /\ combos = {} =>
      \A m \in Known : Starts(m) /\ lastStart > 0 => batch'[m].started - lastStart >= Interval

LEMMA NoStart ==
    ASSUME \A m \in Known : batch'[m].status = "send_started" => batch[m].status = "send_started"
    PROVE  SpacedStep
  BY DEF SpacedStep, Starts

LEMMA SpacedDispatch ==
    ASSUME TypeOK, Rest, NEW d \in Dispatchers, Dispatcher(d) PROVE SpacedStep
  <1> DEFINE m == disp[d].m
  <1>1. Busy(d) => m \in Known
    BY DEF Rest, Claims
  <1>2. ASSUME UNCHANGED batch PROVE SpacedStep
    BY <1>2, NoStart
  <1>3. CASE Poll(d)
    <2>1. PICK t \in Nat : \A n \in Known : batch'[n] = Recovered(n, t)
      BY <1>3, PollShape
    <2>2. QED BY <2>1, RecoveredFacts, NoStart
  <1>4. CASE Plan(d)
    <2>1. PICK void \in SUBSET Rows : Voids(void) \/ \E n \in Batches : n # {} /\ Free(n) /\ Binds(void, n, disp[d].at)
      BY <1>4, PlanShape
    <2>2. CASE Voids(void)
      BY <1>2, <2>2 DEF Voids
    <2>3. ASSUME NEW n \in Batches, n # {}, Free(n), Binds(void, n, disp[d].at) PROVE SpacedStep
      <3>1. \A k \in Known : batch'[k] = batch[k]
        BY <2>3, FreeIsNew DEF Binds
      <3>2. QED BY <3>1, NoStart
    <2>4. QED BY <2>1, <2>2, <2>3
  <1>5. CASE Claim(d)
    <2>1. \/ UNCHANGED batch
          \/ \E n \in Known : (\A k \in Known \ {n} : batch'[k] = batch[k]) /\ batch'[n].status = "claimed"
      BY <1>5, ClaimShape
    <2>2. QED BY <1>2, <2>1, NoStart
  <1>6. CASE Complete(d)
    <2>1. m \in Known /\ disp[d].out # "send_started"
      BY <1>1, <1>6 DEF Complete, At, Busy, TypeOK, Disps, Outcomes
    <2>2. \/ UNCHANGED batch
          \/ (\A k \in Known \ {m} : batch'[k] = batch[k]) /\ batch'[m].status = disp[d].out
      BY <1>6, <2>1, CompleteShape
    <2>3. QED BY <1>2, <2>1, <2>2, NoStart
  <1>7. CASE MarkStarted(d)
    <2>1. At(d, "mark") /\ m \in Known
      BY <1>1, <1>7 DEF MarkStarted, At, Busy
    <2>2. \/ UNCHANGED batch
          \/ (\A k \in Known \ {m} : batch'[k] = batch[k]) /\ batch'[m].status = "suppressed"
          \/ /\ Holds(d, "claimed") /\ batch'[m].started = disp[d].at
             /\ \A k \in Known \ {m} : batch'[k] = batch[k]
      BY <1>7, <2>1, MarkShape
    <2>3. CASE (\A k \in Known \ {m} : batch'[k] = batch[k]) /\ batch'[m].status = "suppressed"
      BY <2>3, NoStart
    <2>4. CASE /\ Holds(d, "claimed") /\ batch'[m].started = disp[d].at
               /\ \A k \in Known \ {m} : batch'[k] = batch[k]
      <3>1. ASSUME provider = "direct", combos = {}, lastStart > 0
            PROVE  batch'[m].started - lastStart >= Interval
        <4>1. Paced
          BY <3>1 DEF Rest, Slow
        <4>2. Due(batch[m].claimed) /\ batch[m].claimed = disp[d].at
          BY <2>1, <2>4, <4>1 DEF Paced, Holds
        <4>3. disp[d].at \in Nat /\ lastStart \in Nat /\ disp[d].at >= lastStart + Interval
          BY <3>1, <4>2 DEF Due, TypeOK, Disps
        <4>4. QED BY <2>4, <4>3, OutboxAssumption
      <3>2. QED BY <2>4, <3>1 DEF SpacedStep, Starts
    <2>5. QED BY <1>2, <2>2, <2>3, <2>4
  <1>8. CASE SendDirect(d) \/ (\E c \in Recipients : Visit(d, c)) \/ Answer(d)
             \/ FanoutReturns(d) \/ Crash(d)
    BY <1>2, <1>8 DEF SendDirect, Visit, Answer, FanoutReturns, Crash
  <1>9. QED BY <1>3, <1>4, <1>5, <1>6, <1>7, <1>8 DEF Dispatcher

LEMMA Spaced == OutboxInv /\ [Next]_vars => SpacedStep
  <1> SUFFICES ASSUME OutboxInv, [Next]_vars PROVE SpacedStep
    OBVIOUS
  <1>1. TypeOK /\ Rest
    BY InvParts
  <1>2. ASSUME NEW m \in Known, NEW s \in {"confirmed", "unknown"}, Reconcile(m, s) PROVE SpacedStep
    BY <1>1, <1>2, ReconcileShape, NoStart
  <1>3. ASSUME UNCHANGED batch PROVE SpacedStep
    BY <1>3, NoStart
  <1>4. ASSUME NEW i \in Intents, Enqueue(i) PROVE SpacedStep
    BY <1>3, <1>4 DEF Enqueue
  <1>5. ASSUME NEW m \in Known, Resend(m) PROVE SpacedStep
    BY <1>3, <1>5 DEF Resend
  <1>6. CASE ComboChanges \/ Tick \/ UNCHANGED vars
    BY <1>3, <1>6 DEF ComboChanges, Tick, vars
  <1>7. QED BY <1>1, <1>2, <1>4, <1>5, <1>6, SpacedDispatch DEF Next

\* On a direct route without combo confirmations a send starts only when the
\* interval has passed since the last start, for any number of dispatchers and
\* batches and any lease and backoffs not shorter than the interval
\* (TARGET_SEND_INTERVAL_MS, plan_ and claim_next_notification_batch).
THEOREM SendsAreSpaced == Spec => StartsAreSpaced
  <1>1. OutboxInv /\ [Next]_vars =>
          [provider = "direct" /\ combos = {} =>
             \A m \in Known : Starts(m) /\ lastStart > 0 => batch'[m].started - lastStart >= Interval]_vars
    BY Spaced DEF SpacedStep
  <1>2. QED BY <1>1, OutboxIsConsistent, PTL DEF Spec, StartsAreSpaced

-----------------------------------------------------------------------------
(* The refinement: what a step does to a direct batch is a step of its     *)
(* OneShotDelivery, or changes nothing that speaks of.                     *)

LEMMA AttemptIs ==
    ASSUME NEW m, Phase(m) = "due", Phase(m)' = "out", taken'[m] = taken[m]
    PROVE  OneShot(m)!Next
  BY DEF OneShot!Next, OneShot!Attempt

LEMMA TakeIs ==
    ASSUME NEW m, Phase(m) = "out", Phase(m)' = "out", taken[m] = 0, taken'[m] = 1
    PROVE  OneShot(m)!Next
  BY DEF OneShot!Next, OneShot!Take

LEMMA RefuseIs ==
    ASSUME NEW m, Phase(m) = "out", Phase(m)' = "due", taken[m] = 0, taken'[m] = taken[m]
    PROVE  OneShot(m)!Next
  BY DEF OneShot!Next, OneShot!Refuse

LEMMA ConfirmIs ==
    ASSUME NEW m, Phase(m) = "out", Phase(m)' = "done", taken[m] = 1, taken'[m] = taken[m]
    PROVE  OneShot(m)!Next
  BY DEF OneShot!Next, OneShot!Confirm

Abstractly(m) == UNCHANGED <<Phase(m), taken[m]>> \/ OneShot(m)!Next

PhaseOf(s) == IF s \in {"send_started", "accepted", "unknown"} THEN "out"
              ELSE IF s = "confirmed" THEN "done" ELSE "due"

LEMMA PhaseFacts ==
    ASSUME NEW m
    PROVE  /\ provider = "fanout" \/ m \notin Known => Phase(m) = "due"
           /\ (provider = "fanout" \/ m \notin Known)' => Phase(m)' = "due"
           /\ provider = "direct" /\ m \in Known => Phase(m) = PhaseOf(batch[m].status)
           /\ (provider = "direct" /\ m \in Known)' => Phase(m)' = PhaseOf(batch'[m].status)
  BY DEF Phase, PhaseOf

\* What a step that leaves the count of the provider alone may do to a batch.
LEMMA MovesAbstractly ==
    ASSUME NEW m, provider = "direct", provider' = provider, m \in Known, m \in Known',
           taken'[m] = taken[m],
           LET p == PhaseOf(batch[m].status)
               q == PhaseOf(batch'[m].status) IN
             \/ p = q
             \/ p = "due" /\ q = "out"
             \/ p = "out" /\ q = "due" /\ taken[m] = 0
             \/ p = "out" /\ q = "done" /\ taken[m] = 1
    PROVE  Abstractly(m)
  <1> DEFINE p == PhaseOf(batch[m].status)
             q == PhaseOf(batch'[m].status)
  <1>1. Phase(m) = p /\ Phase(m)' = q
    BY PhaseFacts
  <1> HIDE DEF p, q
  <1>2. \/ p = q
        \/ p = "due" /\ q = "out"
        \/ p = "out" /\ q = "due" /\ taken[m] = 0
        \/ p = "out" /\ q = "done" /\ taken[m] = 1
    BY DEF p, q
  <1>3. CASE p = q
    BY <1>1, <1>3 DEF Abstractly
  <1>4. CASE p = "due" /\ q = "out"
    BY <1>1, <1>4, AttemptIs DEF Abstractly
  <1>5. CASE p = "out" /\ q = "due" /\ taken[m] = 0
    BY <1>1, <1>5, RefuseIs DEF Abstractly
  <1>6. CASE p = "out" /\ q = "done" /\ taken[m] = 1
    BY <1>1, <1>6, ConfirmIs DEF Abstractly
  <1>7. QED BY <1>2, <1>3, <1>4, <1>5, <1>6

LEMMA Keeping ==
    ASSUME NEW m, UNCHANGED <<provider, batch>>, taken'[m] = taken[m]
    PROVE  Abstractly(m)
  <1>1. Phase(m)' = Phase(m)
    BY DEF Phase, Known
  <1>2. QED BY <1>1 DEF Abstractly

\* A fan-out is not the matter of this promise.
LEMMA FanoutKeeping ==
    ASSUME NEW m, provider = "fanout", UNCHANGED <<provider, taken>>
    PROVE  Abstractly(m)
  BY PhaseFacts DEF Abstractly

\* A step that changes one known batch of a direct route.
LEMMA OneMoves ==
    ASSUME NEW k \in Known, provider = "direct", UNCHANGED <<provider, taken>>, Known' = Known,
           \A n \in Known \ {k} : batch'[n] = batch[n],
           Abstractly(k), NEW m
    PROVE  Abstractly(m)
  <1>1. CASE m = k
    BY <1>1
  <1>2. CASE m # k /\ m \in Known
    BY <1>2, MovesAbstractly
  <1>3. CASE m \notin Known
    BY <1>3, PhaseFacts DEF Abstractly
  <1>4. QED BY <1>1, <1>2, <1>3

LEMMA SendAbstractly ==
    ASSUME TypeOK, Rest, NEW d \in Dispatchers, SendDirect(d), NEW m \in Batches
    PROVE  Abstractly(m)
  <1> DEFINE k == disp[d].m
  <1>1. /\ At(d, "send") /\ provider = "direct"
        /\ taken' = [taken EXCEPT ![k] = @ + 1] \/ taken' = taken
    BY SendShape
  <1>2. UNCHANGED <<provider, batch>> /\ Known' = Known
    BY DEF SendDirect, route, Known
  <1>3. /\ k \in Known /\ k \in Batches /\ taken[k] = 0
        /\ batch[k].status \in {"send_started", "unknown"}
    BY <1>1, OneSender DEF Rest, Direct, Truth, Out, At, TypeOK
  <1>4. CASE m # k \/ taken' = taken
    <2>1. taken'[m] = taken[m]
      BY <1>1, <1>4 DEF TypeOK
    <2>2. QED BY <1>2, <2>1, Keeping
  <1>5. CASE m = k /\ taken' = [taken EXCEPT ![k] = @ + 1]
    <2>1. taken'[m] = 1 /\ taken[m] = 0
      BY <1>3, <1>5 DEF TypeOK
    <2>2. Phase(m) = "out" /\ Phase(m)' = "out"
      BY <1>1, <1>2, <1>3, <1>5, PhaseFacts DEF PhaseOf
    <2>3. QED BY <2>1, <2>2, TakeIs DEF Abstractly
  <1>6. QED BY <1>1, <1>4, <1>5

LEMMA DispatchAbstractly ==
    ASSUME TypeOK, Rest, NEW d \in Dispatchers, Dispatcher(d), NEW m \in Batches
    PROVE  Abstractly(m)
  <1> DEFINE k == disp[d].m
  <1>1. Busy(d) => k \in Known
    BY DEF Rest, Claims
  <1>2. CASE SendDirect(d)
    BY <1>2, SendAbstractly
  <1>3. CASE UNCHANGED <<provider, batch, taken>>
    BY <1>3, Keeping
  <1>4. CASE (\E c \in Recipients : Visit(d, c)) \/ Answer(d) \/ FanoutReturns(d) \/ Crash(d)
    BY <1>3, <1>4 DEF Visit, Answer, FanoutReturns, Crash, route
  <1>5. CASE Poll(d) \/ Plan(d) \/ Claim(d) \/ MarkStarted(d) \/ Complete(d)
    <2>1. UNCHANGED <<provider, taken>>
      BY <1>5 DEF Poll, Plan, Claim, MarkStarted, Complete, route
    <2>2. CASE provider = "fanout"
      BY <2>1, <2>2, FanoutKeeping
    <2>3. CASE provider = "direct" /\ Poll(d)
      <3>1. PICK t \in Nat : Known' = Known /\ \A n \in Known : batch'[n] = Recovered(n, t)
        BY <2>3, PollShape
      <3>2. CASE m \in Known
        <4>1. \/ batch'[m] = batch[m]
              \/ batch[m].status = "claimed" /\ batch'[m].status = "pending"
              \/ batch[m].status = "send_started" /\ batch'[m].status = "unknown"
          BY <2>3, <3>1, <3>2, RecoveredFacts DEF Lost
        <4>2. PhaseOf(batch'[m].status) = PhaseOf(batch[m].status)
          BY <4>1 DEF PhaseOf
        <4>3. QED BY <2>1, <2>3, <3>1, <3>2, <4>2, MovesAbstractly
      <3>3. CASE m \notin Known
        BY <2>1, <3>1, <3>3, PhaseFacts DEF Abstractly
      <3>4. QED BY <3>2, <3>3
    <2>4. CASE provider = "direct" /\ Plan(d)
      <3>1. PICK void \in SUBSET Rows : Voids(void) \/ \E n \in Batches : n # {} /\ Free(n) /\ Binds(void, n, disp[d].at)
        BY <2>4, PlanShape
      <3>2. CASE Voids(void)
        BY <2>1, <3>2, Keeping DEF Voids
      <3>3. ASSUME NEW n \in Batches, n # {}, Free(n), Binds(void, n, disp[d].at)
            PROVE  Abstractly(m)
        <4>1. n \notin Known
          BY <3>3, FreeIsNew
        <4>2. Known' = Known \cup {n}
          BY <3>3 DEF Binds, Known
        <4>3. batch'[n].status = "pending" /\ \A q \in Known : batch'[q] = batch[q]
          <5>1. batch'[n] = NewBatch(disp[d].at) /\ \A q \in Known : batch'[q] = batch[q]
            BY <3>3, <4>1 DEF Binds
          <5>2. NewBatch(disp[d].at).status = "pending"
            BY DEF NewBatch
          <5>3. QED BY <5>1, <5>2
        <4>4. CASE m \in Known
          BY <2>1, <2>4, <4>2, <4>3, <4>4, MovesAbstractly
        <4>5. CASE m = n
          <5>1. Phase(m) = "due" /\ Phase(m)' = PhaseOf("pending")
            BY <2>1, <2>4, <4>1, <4>2, <4>3, <4>5, PhaseFacts
          <5>2. QED BY <2>1, <5>1 DEF PhaseOf, Abstractly
        <4>6. CASE m \notin Known /\ m # n
          BY <2>1, <4>2, <4>6, PhaseFacts DEF Abstractly
        <4>7. QED BY <4>4, <4>5, <4>6
      <3>4. QED BY <3>1, <3>2, <3>3
    <2>5. CASE provider = "direct" /\ Claim(d)
      <3>1. CASE UNCHANGED batch
        BY <1>3, <2>1, <3>1
      <3>2. ASSUME NEW n \in Known, batch[n].status \in {"pending", "explicit_failed", "partial"},
                   Known' = Known, \A q \in Known \ {n} : batch'[q] = batch[q],
                   batch'[n].status = "claimed"
            PROVE  Abstractly(m)
        <4>1. PhaseOf(batch'[n].status) = PhaseOf(batch[n].status)
          BY <3>2 DEF PhaseOf
        <4>2. Abstractly(n)
          BY <2>1, <2>5, <3>2, <4>1, MovesAbstractly
        <4>3. QED BY <2>1, <2>5, <3>2, <4>2, OneMoves
      <3>3. QED BY <2>5, <3>1, <3>2, ClaimShape DEF Claimable
    <2>6. CASE provider = "direct" /\ MarkStarted(d)
      <3>1. At(d, "mark") /\ k \in Known
        BY <1>1, <2>6 DEF MarkStarted, At, Busy
      <3>2. CASE UNCHANGED batch
        BY <1>3, <2>1, <3>2
      <3>3. CASE /\ Holds(d, "claimed") /\ Known' = Known
                 /\ \A n \in Known \ {k} : batch'[n] = batch[n]
                 /\ batch'[k].status \in {"suppressed", "send_started"}
        <4>1. PICK n \in Known : n = k
          BY <3>1
        <4>2. /\ PhaseOf(batch[n].status) = "due"
              /\ PhaseOf(batch'[n].status) \in {"due", "out"}
              /\ \A q \in Known \ {n} : batch'[q] = batch[q]
          BY <3>3, <4>1 DEF PhaseOf, Holds
        <4>3. Abstractly(n)
          BY <2>1, <2>6, <3>3, <4>2, MovesAbstractly
        <4>4. QED BY <2>1, <2>6, <3>3, <4>2, <4>3, OneMoves
      <3>4. QED BY <2>6, <3>1, <3>2, <3>3, MarkShape
    <2>7. CASE provider = "direct" /\ Complete(d)
      <3>1. /\ At(d, "reply") /\ k \in Known /\ k \in Batches
            /\ disp[d].out \in Outcomes /\ disp[d].out \notin {"partial", "pending"}
            /\ disp[d].out = "confirmed" => taken[k] = 1
            /\ disp[d].out = "explicit_failed" => taken[k] = 0
        BY <1>1, <2>7 DEF Complete, At, Busy, TypeOK, Disps, Rest, Hands, Direct, Truth
      <3>2. CASE UNCHANGED batch
        BY <1>3, <2>1, <3>2
      <3>3. CASE /\ Holds(d, "send_started") /\ Known' = Known
                 /\ \A n \in Known \ {k} : batch'[n] = batch[n]
                 /\ batch'[k].status = disp[d].out
        <4>1. PICK n \in Known : n = k
          BY <3>1
        <4>2. /\ PhaseOf(batch[n].status) = "out"
              /\ \/ PhaseOf(batch'[n].status) = "out"
                 \/ PhaseOf(batch'[n].status) = "due" /\ taken[n] = 0
                 \/ PhaseOf(batch'[n].status) = "done" /\ taken[n] = 1
              /\ \A q \in Known \ {n} : batch'[q] = batch[q]
          BY <3>1, <3>3, <4>1 DEF PhaseOf, Holds, Outcomes
        <4>3. Abstractly(n)
          BY <2>1, <2>7, <3>3, <4>2, MovesAbstractly
        <4>4. QED BY <2>1, <2>7, <3>3, <4>2, <4>3, OneMoves
      <3>4. QED BY <2>7, <3>1, <3>2, <3>3, CompleteShape
    <2>8. QED BY <1>5, <2>2, <2>3, <2>4, <2>5, <2>6, <2>7, OutboxAssumption DEF TypeOK
  <1>6. QED BY <1>2, <1>4, <1>5 DEF Dispatcher

LEMMA OneShotStep ==
    ASSUME OutboxInv, [Next]_vars, NEW m \in Batches PROVE Abstractly(m)
  <1>1. TypeOK /\ Rest
    BY InvParts
  <1>2. ASSUME UNCHANGED <<provider, batch, taken>> PROVE Abstractly(m)
    BY <1>2, Keeping
  <1>3. ASSUME NEW k \in Known, NEW s \in {"confirmed", "unknown"}, Reconcile(k, s)
        PROVE  Abstractly(m)
    <2>1. /\ batch[k].status \in {"accepted", "unknown"}
          /\ s = "confirmed" /\ provider = "direct" => taken[k] = 1
          /\ Known' = Known /\ \A n \in Known \ {k} : batch'[n] = batch[n]
          /\ batch'[k].status = s
      BY <1>1, <1>3, ReconcileShape
    <2>2. UNCHANGED <<provider, taken>>
      BY <1>3 DEF Reconcile, route
    <2>3. CASE provider = "fanout"
      BY <2>2, <2>3, FanoutKeeping
    <2>4. CASE provider = "direct"
      <3>1. /\ PhaseOf(batch[k].status) = "out"
            /\ \/ PhaseOf(batch'[k].status) = "out"
               \/ PhaseOf(batch'[k].status) = "done" /\ taken[k] = 1
        BY <2>1, <2>4 DEF PhaseOf
      <3>2. Abstractly(k)
        BY <2>1, <2>2, <2>4, <3>1, MovesAbstractly
      <3>3. QED BY <2>1, <2>2, <2>4, <3>2, OneMoves
    <2>5. QED BY <1>1, <2>3, <2>4, OutboxAssumption DEF TypeOK
  <1>4. ASSUME NEW i \in Intents, Enqueue(i) PROVE Abstractly(m)
    BY <1>2, <1>4 DEF Enqueue, route
  <1>5. ASSUME NEW k \in Known, Resend(k) PROVE Abstractly(m)
    BY <1>2, <1>5 DEF Resend, route
  <1>6. CASE ComboChanges \/ Tick \/ UNCHANGED vars
    BY <1>2, <1>6 DEF ComboChanges, Tick, vars, route
  <1>7. QED BY <1>1, <1>3, <1>4, <1>5, <1>6, DispatchAbstractly DEF Next

\* Every direct batch implements OneShotDelivery: through lost dispatchers,
\* expired claims, late replies and the operator's reconciling it is attempted
\* again only after a refusal and taken at most once (complete_notification_
\* batch_attempt, recover_stale_notification_batches).
THEOREM BatchesDeliverOnce == Spec => BatchDeliversOnce
  <1>1. Init => \A m \in Batches : OneShot(m)!Init
    <2> SUFFICES ASSUME Init, NEW m \in Batches PROVE OneShot(m)!Init
      OBVIOUS
    <2>1. Phase(m) = "due" /\ taken[m] = 0
      BY DEF Init, Phase, Known
    <2>2. QED BY <2>1 DEF OneShot!Init
  <1>2. OutboxInv /\ [Next]_vars =>
          [\A m \in Batches : UNCHANGED <<Phase(m), taken[m]>> \/ OneShot(m)!Next]_vars
    BY OneShotStep DEF Abstractly
  <1>3. QED BY <1>1, <1>2, OutboxIsConsistent, PTL DEF Spec, BatchDeliversOnce
==============================================================================
