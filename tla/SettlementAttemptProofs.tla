----------------------- MODULE SettlementAttemptProofs -----------------------
(***************************************************************************)
(* Proofs about SettlementAttempt for any number of due runs, reservations, *)
(* changes of facts and crashes: one call per invocation, one caller per    *)
(* case, one batch per live lease, and two stores that tell one story.      *)
(***************************************************************************)
EXTENDS SettlementAttempt, TLAPS

MaybeRow == Rows \cup {NoRow}

-----------------------------------------------------------------------------
(* What the row's helpers return.                                          *)

LEMMA NoRowFacts ==
    /\ NoRow.class = "unclassified" /\ NoRow.state = "none" /\ NoRow.claim = 0 /\ NoRow.until = 0
    /\ NoRow.inv = 0 /\ NoRow.pending = "none" /\ NoRow.next = 0 /\ NoRow.scope = 0
  BY DEF NoRow

LEMMA RowFields ==
    ASSUME NEW r \in Rows
    PROVE  /\ r.class \in Classes /\ r.scope \in 0..MaxScope /\ r.state \in States
           /\ r.claim \in {0} \cup Ids /\ r.until \in 0..Lease /\ r.inv \in {0} \cup Ids
           /\ r.pending \in {"none"} \cup Outcomes /\ r.next \in 0..Backoff
  BY DEF Rows

\* A row of a known state is no NoRow.
LEMMA RealRow ==
    ASSUME NEW r \in MaybeRow, r.state \in States \/ r.class \in {"provider", "local"}
    PROVE  r \in Rows
  BY NoRowFacts DEF MaybeRow, States

LEMMA RenewedRow ==
    ASSUME NEW r \in Rows
    PROVE  LET x == [r EXCEPT !.until = Lease]
           IN  /\ x \in Rows /\ x.inv = r.inv /\ x.state = r.state /\ x.pending = r.pending
               /\ x.class = r.class /\ x.scope = r.scope /\ x.claim = r.claim
  BY AttemptAssumption DEF Rows

LEMMA FreedRow ==
    ASSUME NEW r \in Rows
    PROVE  /\ Freed(r) \in Rows /\ Freed(r).inv = r.inv /\ Freed(r).state = r.state
           /\ Freed(r).pending = r.pending
  <1> DEFINE x == [r EXCEPT !.claim = 0]
  <1>1. x \in Rows /\ x.inv = r.inv /\ x.state = r.state /\ x.pending = r.pending
    BY DEF Rows
  <1>2. 0 \in 0..Lease
    BY AttemptAssumption
  <1>3. LET y == [x EXCEPT !.until = 0]
        IN  y \in Rows /\ y.inv = x.inv /\ y.state = x.state /\ y.pending = x.pending
    BY <1>1, <1>2 DEF Rows
  <1>4. Freed(r) = [x EXCEPT !.until = 0]
    BY DEF Freed
  <1>5. QED BY <1>1, <1>3, <1>4

LEMMA FreedAs ==
    ASSUME NEW r \in Rows, NEW s \in States
    PROVE  LET x == Freed([r EXCEPT !.state = s])
           IN  x \in Rows /\ x.inv = r.inv /\ x.state = s /\ x.pending = r.pending
  <1> DEFINE y == [r EXCEPT !.state = s]
  <1>1. y \in Rows /\ y.inv = r.inv /\ y.state = s /\ y.pending = r.pending
    BY DEF Rows
  <1>2. QED BY <1>1, FreedRow

LEMMA AfterRow ==
    ASSUME NEW r \in Rows, NEW o \in Outcomes
    PROVE  /\ After(r, o) \in Rows /\ After(r, o).inv = r.inv /\ After(r, o).state = r.state
           /\ After(r, o).pending = r.pending
  <1> DEFINE c == IF o = "stale" THEN "unclassified" ELSE "provider"
             n == IF o = "stale" THEN 0 ELSE Backoff
             x == [r EXCEPT !.class = c]
  <1>1. c \in Classes /\ n \in 0..Backoff
    BY AttemptAssumption DEF Classes
  <1>2. x \in Rows /\ x.inv = r.inv /\ x.state = r.state /\ x.pending = r.pending
    BY <1>1 DEF Rows
  <1>3. LET y == [x EXCEPT !.next = n]
        IN  y \in Rows /\ y.inv = x.inv /\ y.state = x.state /\ y.pending = x.pending
    BY <1>1, <1>2 DEF Rows
  <1>4. After(r, o) = [x EXCEPT !.next = n]
    BY DEF After
  <1>5. QED BY <1>2, <1>3, <1>4

LEMMA CompletedRow ==
    ASSUME NEW r \in Rows, row = r, NEW o \in Outcomes, NEW s \in 0..MaxScope
    PROVE  /\ Completed(o, s) \in Rows /\ Completed(o, s).inv = 0
           /\ Completed(o, s).state = "null" /\ Completed(o, s).pending = "none"
  <1> DEFINE x == [After(r, o) EXCEPT !.scope = s]
  <1>1. x \in Rows
    BY AfterRow DEF Rows
  <1>2. Cleared(x) \in Rows /\ Cleared(x).inv = 0 /\ Cleared(x).state = "null"
        /\ Cleared(x).pending = "none"
    BY <1>1 DEF Rows, Cleared, States
  <1>3. QED BY <1>2, FreedRow DEF Completed

LEMMA OlderRow ==
    ASSUME NEW r \in MaybeRow
    PROVE  /\ Older(r) \in MaybeRow /\ Older(r).inv = r.inv /\ Older(r).state = r.state
           /\ Older(r).pending = r.pending /\ Older(r).scope = r.scope
  <1>1. CASE r = NoRow
    <2>1. Older(r) = NoRow
      BY <1>1 DEF Older, Less, NoRow
    <2>2. QED BY <1>1, <2>1
  <1>2. CASE r \in Rows
    <2>1. Less(r.until) \in 0..Lease /\ Less(r.next) \in 0..Backoff
      BY <1>2, AttemptAssumption DEF Rows, Less
    <2>2. QED BY <1>2, <2>1 DEF Rows, Older, MaybeRow
  <1>3. QED BY <1>1, <1>2 DEF MaybeRow

LEMMA PlannedRow ==
    ASSUME NEW s \in MaybeRow, NEW class \in {"provider", "local"}, NEW again \in BOOLEAN,
           scope \in 0..MaxScope
    PROVE  LET p == Planned(s, class, again)
           IN  p \in Rows /\ p.inv = 0 /\ p.state = "null" /\ p.pending = "none"
  <1>1. /\ s.claim \in {0} \cup Ids /\ s.until \in 0..Lease /\ s.next \in 0..Backoff
    BY NoRowFacts, AttemptAssumption DEF MaybeRow, Rows
  <1>2. QED BY <1>1, AttemptAssumption DEF Planned, Rows, Classes, States

\* Reconciling keeps the invocation and its outcome.
LEMMA ReconciledRow ==
    ASSUME NEW r \in MaybeRow, NEW found
    PROVE  LET x == Reconciled(r, found)
           IN  /\ x \in MaybeRow /\ x.inv = r.inv /\ x.pending = r.pending
               /\ \/ x.state = r.state
                  \/ r.state \in {"started", "finished"} /\ x.state = "ambiguous"
                  \/ r.state = "finished" /\ found = r.pending /\ x.state = "committed"
  <1>1. CASE r.state \in {"started", "finished"}
    <2>1. r \in Rows
      BY <1>1, RealRow DEF States
    <2>2. QED BY <1>1, <2>1, FreedAs DEF Reconciled, States, MaybeRow
  <1>2. CASE r.state \notin {"started", "finished"}
    BY <1>2 DEF Reconciled
  <1>3. QED BY <1>1, <1>2

-----------------------------------------------------------------------------
(* Steps that do not concern a call.                                       *)

Leases == [owner : Workers \cup {"none", "gone"}, until : 0..Lease]

\* The row still tells the same of its invocation, or has none any more.
SameCall == row'.inv = row.inv /\ row'.state = row.state /\ row'.pending = row.pending
Dropped  == /\ row.state \in {"none", "null", "reserved", "committed"}
            /\ row'.inv = 0 /\ row'.state = "null" /\ row'.pending = "none"

SeenFits(z) == /\ z.seen.inv = 0 <=> z.seen.state \in {"none", "null"}
               /\ z.pc = "reconcile" => z.seen.inv # 0 /\ z.found \in {"none", audit[z.seen.inv]}

\* Step z of worker w keeps the lease he works under, and those of the others.
LeaseFits(w, z) ==
    /\ lease' \in Leases
    /\ z.pc \in {"batch", "other", "later", "prepare", "ready", "call", "finish", "commit",
                 "replace", "settle"} => z.lapsed \/ (lease'.owner = w /\ lease'.until > 0)
    /\ \A v \in Workers \ {w} : HoldsBatch(v) /\ lease.until > 0 =>
                                  lease'.owner = v /\ lease'.until > 0

LEMMA TypeKept ==
    ASSUME AttemptInv, NEW w \in Workers, NEW z \in Works, work' = [work EXCEPT ![w] = z],
           scope' \in 0..MaxScope, crashes' \in 0..MaxCrashes, row' \in MaybeRow, LeaseFits(w, z),
           claims' \in 0..MaxClaims, audit' \in [Ids -> {"none"} \cup Outcomes], oper' = oper,
           begun' \subseteq Ids, counted' \subseteq Ids, undone' = undone
    PROVE  TypeOK' /\ BatchIsHeld'
  <1>1. TypeOK'
    BY DEF AttemptInv, TypeOK, MaybeRow, LeaseFits, Leases
  <1>2. ASSUME NEW v \in Workers, InBatch(v)' PROVE work'[v].lapsed \/ (HoldsBatch(v)' /\ lease'.until > 0)
    <2>1. CASE v = w
      BY <1>2, <2>1 DEF AttemptInv, TypeOK, LeaseFits, InBatch, Called, HoldsBatch
    <2>2. CASE v # w
      <3>1. work'[v] = work[v] /\ InBatch(v)
        BY <1>2, <2>2 DEF AttemptInv, TypeOK, InBatch, Called
      <3>2. QED BY <2>2, <3>1 DEF AttemptInv, BatchIsHeld, LeaseFits, HoldsBatch
    <2>3. QED BY <2>1, <2>2
  <1>3. QED BY <1>1, <1>2 DEF BatchIsHeld

LEMMA QuietStep ==
    ASSUME AttemptInv, NEW w \in Workers, NEW z \in Works, work' = [work EXCEPT ![w] = z],
           scope' \in 0..MaxScope, crashes' \in 0..MaxCrashes, row' \in MaybeRow,
           SameCall \/ Dropped, SeenFits(z), LeaseFits(w, z),
           UNCHANGED <<claims, audit, oper, begun, counted, undone>>,
           z.pc \in {"call", "commit", "replace"} => z = work[w],
           z.pc \in {"finish", "settle"} => Called(w) /\ z.seen.inv = Seen(w).inv
    PROVE  AttemptInv'
  <1> USE DEF AttemptInv
  <1>1. TypeOK' /\ BatchIsHeld'
    BY TypeKept DEF TypeOK
  <1>2. AuditsAgree' /\ InvocationsAreFresh'
    BY DEF SameCall, Dropped, AuditsAgree, InvocationsAreFresh, Open, TypeOK
  <1>3. /\ work'[w] = z
        /\ \A v \in Workers \ {w} : work'[v] = work[v]
    BY DEF TypeOK
  <1>4. ReadingsHold'
    BY <1>3 DEF ReadingsHold, SeenFits, At, Seen
  <1>5. \A v \in Workers : Called(v)' => Called(v) /\ Seen(v)'.inv = Seen(v).inv
    BY <1>3 DEF Called, Seen
  <1>6. ASSUME NEW v \in Workers, work'[v].pc \in {"call", "commit", "replace"}
        PROVE  /\ work'[v] = work[v]
               /\ SameCall \/ (work[v].pc = "replace" /\ audit[Seen(v).inv] = "observed")
    BY <1>3, <1>6 DEF OneCaller, Dropped, At
  <1>7. OneCaller'
    <2>1. \A v \in Workers : Called(v)' => Seen(v)'.inv \in begun'
      BY <1>5 DEF OneCaller
    <2>2. \A u, v \in Workers : Called(u)' /\ Called(v)' /\ Seen(u)'.inv = Seen(v)'.inv => u = v
      BY <1>5 DEF OneCaller
    <2>3. \A v \in Workers : At(v, "call")' =>
            row'.inv = Seen(v)'.inv /\ row'.state \in {"started", "ambiguous"} /\ row'.pending = "none"
      BY <1>6 DEF OneCaller, SameCall, At, Seen
    <2>4. ASSUME NEW v \in Workers, work'[v].pc \in {"commit", "replace"}
          PROVE  /\ audit'[Seen(v)'.inv] \in {"none", "observed"}
                 /\ At(v, "commit")' /\ work'[v].out = "observed" => audit'[Seen(v)'.inv] = "none"
                 /\ At(v, "commit")' \/ audit'[Seen(v)'.inv] = "none" =>
                      /\ row'.inv = Seen(v)'.inv /\ row'.state \in {"finished", "ambiguous"}
                      /\ row'.pending = work'[v].out
      BY <1>6, <2>4 DEF OneCaller, SameCall, At, Seen
    <2>5. QED BY <2>1, <2>2, <2>3, <2>4 DEF OneCaller
  <1>8. QED BY <1>1, <1>2, <1>4, <1>7

\* The lease stays, is renewed by its owner, or goes.
LEMMA LeaseMoves ==
    ASSUME TypeOK, NEW w \in Workers,
           \/ lease' = lease
           \/ HoldsBatch(w) /\ lease' \in {Renewed, [owner |-> "none", until |-> 0],
                                           [lease EXCEPT !.owner = "gone"]}
    PROVE  /\ lease' \in Leases
           /\ \A v \in Workers \ {w} : HoldsBatch(v) /\ lease.until > 0 =>
                                          lease'.owner = v /\ lease'.until > 0
           /\ lease' = Renewed /\ HoldsBatch(w) => lease'.owner = w /\ lease'.until > 0
  <1>1. lease \in Leases /\ 0 \in 0..Lease /\ Lease \in 0..Lease /\ Lease > 0
    BY AttemptAssumption DEF TypeOK, Leases
  <1>2. /\ Renewed \in Leases /\ Renewed.owner = lease.owner /\ Renewed.until = Lease
        /\ [owner |-> "none", until |-> 0] \in Leases /\ [lease EXCEPT !.owner = "gone"] \in Leases
    BY <1>1 DEF Leases, Renewed
  <1>3. lease' \in Leases
    BY <1>1, <1>2
  <1>4. ASSUME NEW v \in Workers \ {w}, HoldsBatch(v), lease.until > 0
        PROVE  lease'.owner = v /\ lease'.until > 0
    <2>1. lease' = lease
      BY <1>4 DEF HoldsBatch
    <2>2. QED BY <1>4, <2>1 DEF HoldsBatch
  <1>5. lease' = Renewed /\ HoldsBatch(w) => lease'.owner = w /\ lease'.until > 0
    BY <1>1, <1>2 DEF HoldsBatch
  <1>6. QED BY <1>3, <1>4, <1>5

\* Several fields of a worker are set at once.
SeenAndFp(z, x, pc, r, fp) == z = [x EXCEPT !.pc = pc, !.seen = r, !.fp = fp]
FpAndGo(z, x, pc, fp, go) == z = [x EXCEPT !.pc = pc, !.fp = fp, !.go = go]
SeenAndId(z, x, pc, r, i) == z = [x EXCEPT !.pc = pc, !.seen = r, !.id = i]
PcAndOut(z, x, pc, o) == z = [x EXCEPT !.pc = pc, !.out = o]
SeenAndLapsed(z, x, r, b) == z = [x EXCEPT !.seen = r, !.lapsed = b]
SeenAndFound(z, x, pc, r, f) == z = [x EXCEPT !.pc = pc, !.seen = r, !.found = f]

LEMMA PcSet ==
    ASSUME NEW x \in Works, NEW pc \in PCs,
           NEW z, z = [x EXCEPT !.pc = pc]
    PROVE  z \in Works /\ z.pc = pc /\ z.seen = x.seen /\ z.lapsed = x.lapsed
           /\ z.found = x.found /\ z.out = x.out
  BY DEF Works

LEMMA SeenAndFpSet ==
    ASSUME NEW x \in Works, NEW pc \in PCs, NEW r \in MaybeRow, NEW fp \in 0..MaxScope,
           NEW z, SeenAndFp(z, x, pc, r, fp)
    PROVE  z \in Works /\ z.pc = pc /\ z.seen = r /\ z.lapsed = x.lapsed
  BY DEF SeenAndFp, Works, MaybeRow

LEMMA FpAndGoSet ==
    ASSUME NEW x \in Works, NEW pc \in PCs, NEW fp \in 0..MaxScope, NEW go \in BOOLEAN,
           NEW z, FpAndGo(z, x, pc, fp, go)
    PROVE  z \in Works /\ z.pc = pc /\ z.seen = x.seen /\ z.lapsed = x.lapsed
  BY DEF FpAndGo, Works

LEMMA SeenAndIdSet ==
    ASSUME NEW x \in Works, NEW pc \in PCs, NEW r \in MaybeRow, NEW i \in Ids,
           NEW z, SeenAndId(z, x, pc, r, i)
    PROVE  z \in Works /\ z.pc = pc /\ z.seen = r /\ z.lapsed = x.lapsed
  BY DEF SeenAndId, Works, MaybeRow

LEMMA SeenAndFoundSet ==
    ASSUME NEW x \in Works, NEW pc \in PCs, NEW r \in MaybeRow, NEW f \in {"none"} \cup Outcomes,
           NEW z, SeenAndFound(z, x, pc, r, f)
    PROVE  z \in Works /\ z.pc = pc /\ z.seen = r /\ z.lapsed = x.lapsed
  BY DEF SeenAndFound, Works, MaybeRow

LEMMA OutSet ==
    ASSUME NEW x \in Works, NEW pc \in PCs, NEW o \in Outcomes,
           NEW z, PcAndOut(z, x, pc, o)
    PROVE  z \in Works /\ z.pc = pc /\ z.out = o /\ z.seen = x.seen /\ z.lapsed = x.lapsed
  BY DEF PcAndOut, Works

LEMMA SeenAndLapsedSet ==
    ASSUME NEW x \in Works, NEW r \in MaybeRow, NEW b \in BOOLEAN,
           NEW z, SeenAndLapsed(z, x, r, b)
    PROVE  z \in Works /\ z.pc = x.pc /\ z.out = x.out /\ z.seen = r /\ z.lapsed = b
           /\ z.found = x.found
  BY DEF SeenAndLapsed, Works, MaybeRow

LEMMA IdleWork ==
    /\ Idle \in Works /\ [Idle EXCEPT !.pc = "close"] \in Works
    /\ Idle.pc = "idle" /\ Idle.seen = NoRow
  <1>1. Idle \in Works /\ Idle.pc = "idle" /\ Idle.seen = NoRow
    BY AttemptAssumption DEF Idle, Works, PCs, Outcomes
  <1>2. "close" \in PCs
    BY DEF PCs
  <1>3. QED BY <1>1, <1>2, PcSet

\* A run that ends, or leaves the batch to end.
LEMMA EndStep ==
    ASSUME AttemptInv, NEW w \in Workers, End(w) \/ Leave(w),
           scope' \in 0..MaxScope, crashes' \in 0..MaxCrashes, row' \in MaybeRow,
           SameCall \/ Dropped, lease' \in Leases,
           \A v \in Workers \ {w} : HoldsBatch(v) /\ lease.until > 0 =>
                                      lease'.owner = v /\ lease'.until > 0,
           UNCHANGED <<claims, audit, oper, begun, counted, undone>>
    PROVE  AttemptInv'
  <1>1. PICK z \in {Idle, [Idle EXCEPT !.pc = "close"]} : work' = [work EXCEPT ![w] = z]
    BY DEF End, Leave
  <1>2. z \in Works /\ z.pc \in {"idle", "close"} /\ z.seen = NoRow
    BY <1>1, IdleWork DEF Idle
  <1>3. SeenFits(z) /\ LeaseFits(w, z)
    BY <1>2, NoRowFacts DEF SeenFits, LeaseFits
  <1>4. QED BY <1>1, <1>2, <1>3, QuietStep

\* A step of a run that keeps its lease and has no call.
LEMMA WalkStep ==
    ASSUME AttemptInv, NEW w \in Workers, NEW z \in Works, work' = [work EXCEPT ![w] = z],
           row' \in MaybeRow, SameCall \/ Dropped, SeenFits(z),
           UNCHANGED <<scope, claims, audit, oper, crashes, begun, counted, undone>>,
           z.pc \notin {"call", "commit", "replace", "finish", "settle"},
           \/ lease' = lease
           \/ HoldsBatch(w) /\ lease' = Renewed,
           \/ z.pc \in {"batch", "other", "later", "prepare", "ready"} =>
                InBatch(w) /\ z.lapsed = work[w].lapsed
           \/ HoldsBatch(w) /\ lease' = Renewed
    PROVE  AttemptInv'
  <1>1. TypeOK /\ BatchIsHeld
    BY DEF AttemptInv
  <1>2. /\ lease' \in Leases
        /\ \A v \in Workers \ {w} : HoldsBatch(v) /\ lease.until > 0 =>
                                      lease'.owner = v /\ lease'.until > 0
        /\ lease' = Renewed /\ HoldsBatch(w) => lease'.owner = w /\ lease'.until > 0
    BY <1>1, LeaseMoves
  <1>3. LeaseFits(w, z)
    <2>1. CASE HoldsBatch(w) /\ lease' = Renewed
      BY <1>2, <2>1 DEF LeaseFits
    <2>2. CASE lease' = lease /\ (z.pc \in {"batch", "other", "later", "prepare", "ready"} =>
                                    InBatch(w) /\ z.lapsed = work[w].lapsed)
      BY <1>1, <1>2, <2>2 DEF LeaseFits, BatchIsHeld, HoldsBatch
    <2>3. QED BY <2>1, <2>2
  <1>4. QED BY <1>1, <1>3, QuietStep DEF TypeOK

LEMMA SurveyKeeps ==
    ASSUME AttemptInv, NEW w \in Workers, Survey(w) PROVE AttemptInv'
  <1> DEFINE z == [work[w] EXCEPT !.pc = "list", !.fp = scope]
  <1>1. z \in Works /\ z.pc = "list" /\ z.seen = Seen(w)
    BY DEF AttemptInv, TypeOK, Works, PCs, Seen
  <1>2. work' = [work EXCEPT ![w] = z]
    BY DEF Survey, AttemptInv, TypeOK
  <1>3. SeenFits(z)
    BY <1>1 DEF SeenFits, AttemptInv, ReadingsHold
  <1>4. row' \in MaybeRow /\ SameCall
    BY DEF Survey, SameCall, AttemptInv, TypeOK, MaybeRow
  <1>5. QED BY <1>1, <1>2, <1>3, <1>4, WalkStep DEF Survey, ghosts

LEMMA ListKeeps ==
    ASSUME AttemptInv, NEW w \in Workers, List(w) PROVE AttemptInv'
  <1> DEFINE z == [work[w] EXCEPT !.pc = "listed", !.seen = row]
  <1>1. z \in Works /\ z.pc = "listed" /\ z.seen = row
    BY DEF AttemptInv, TypeOK, Works, PCs
  <1>2. work' = [work EXCEPT ![w] = z]
    BY DEF List, AttemptInv, TypeOK
  <1>3. SeenFits(z)
    BY <1>1 DEF SeenFits, AttemptInv, InvocationsAreFresh
  <1>4. row' \in MaybeRow /\ SameCall
    BY DEF List, SameCall, AttemptInv, TypeOK, MaybeRow
  <1>5. QED BY <1>1, <1>2, <1>3, <1>4, WalkStep DEF List, ghosts

\* What a worker has seen of an invocation is one of the generated ones.
LEMMA SeenInvocation ==
    ASSUME AttemptInv, NEW w \in Workers
    PROVE  /\ Seen(w) \in MaybeRow /\ Seen(w).inv \in {0} \cup Ids
           /\ Seen(w).state \in States => Seen(w) \in Rows
           /\ Seen(w).state \in {"reserved", "started", "finished", "committed", "ambiguous"} =>
                Seen(w).inv \in Ids
  <1>1. Seen(w) \in MaybeRow
    BY DEF AttemptInv, TypeOK, Works, Seen, MaybeRow
  <1>2. QED BY <1>1, RealRow, RowFields, NoRowFacts DEF AttemptInv, ReadingsHold, MaybeRow

LEMMA ReadAuditKeeps ==
    ASSUME AttemptInv, NEW w \in Workers, ReadAudit(w) PROVE AttemptInv'
  <1> DEFINE z == [work[w] EXCEPT !.pc = "reconcile", !.found = audit[Seen(w).inv]]
  <1>1. Seen(w).inv \in Ids
    BY SeenInvocation DEF ReadAudit, Old
  <1>2. z \in Works /\ z.pc = "reconcile" /\ z.seen = Seen(w) /\ z.found = audit[Seen(w).inv]
    BY <1>1 DEF AttemptInv, TypeOK, Works, PCs, Seen
  <1>3. work' = [work EXCEPT ![w] = z]
    BY DEF ReadAudit, AttemptInv, TypeOK
  <1>4. SeenFits(z)
    BY <1>1, <1>2, AttemptAssumption DEF SeenFits, AttemptInv, ReadingsHold, Ids
  <1>5. row' \in MaybeRow /\ SameCall
    BY DEF ReadAudit, SameCall, AttemptInv, TypeOK, MaybeRow
  <1>6. QED BY <1>2, <1>3, <1>4, <1>5, WalkStep DEF ReadAudit, ghosts

LEMMA SortKeeps ==
    ASSUME AttemptInv, NEW w \in Workers, Sort(w) PROVE AttemptInv'
  <1>1. row' \in MaybeRow /\ SameCall
    BY DEF Sort, SameCall, AttemptInv, TypeOK, MaybeRow
  <1>2. CASE End(w)
    BY <1>1, <1>2, EndStep, LeaseMoves DEF Sort, ghosts, AttemptInv, TypeOK
  <1>3. ASSUME NEW pc \in {"plan", "pick"}, Go(w, pc) PROVE AttemptInv'
    <2> DEFINE z == [work[w] EXCEPT !.pc = pc]
    <2>1. z \in Works /\ z.pc = pc /\ z.seen = Seen(w)
      BY DEF AttemptInv, TypeOK, Works, PCs, Seen
    <2>2. work' = [work EXCEPT ![w] = z]
      BY <1>3 DEF Go, AttemptInv, TypeOK
    <2>3. SeenFits(z)
      BY <2>1 DEF SeenFits, AttemptInv, ReadingsHold
    <2>4. QED BY <1>1, <2>1, <2>2, <2>3, WalkStep DEF Sort, ghosts
  <1>4. QED BY <1>2, <1>3 DEF Sort

LEMMA PlanKeeps ==
    ASSUME AttemptInv, NEW w \in Workers, Plan(w) PROVE AttemptInv'
  <1>1. PICK class \in {"provider", "local"}, again \in BOOLEAN :
          LET p == Planned(Seen(w), class, again)
          IN  /\ row' = IF Refused(p.claim) THEN row ELSE p
              /\ work' = [work EXCEPT ![w] =
                   IF Refused(p.claim) \/ class = "local" \/ Active(p) THEN Idle
                   ELSE [@ EXCEPT !.pc = "pick", !.seen = p, !.fp = scope]]
    BY DEF Plan
  <1> DEFINE p == Planned(Seen(w), class, again)
             z == [work[w] EXCEPT !.pc = "pick", !.seen = p, !.fp = scope]
  <1>2. p \in Rows /\ p.inv = 0 /\ p.state = "null" /\ p.pending = "none"
    BY PlannedRow, SeenInvocation DEF AttemptInv, TypeOK
  <1>3. row' \in MaybeRow /\ (SameCall \/ Dropped)
    <2>1. CASE row' = row
      BY <2>1 DEF SameCall, AttemptInv, TypeOK, MaybeRow
    <2>2. CASE ~Refused(p.claim) /\ row' = p
      BY <1>2, <2>2 DEF Refused, Dropped, MaybeRow
    <2>3. QED BY <1>1, <2>1, <2>2
  <1>4. CASE End(w)
    BY <1>3, <1>4, EndStep, LeaseMoves DEF Plan, ghosts, AttemptInv, TypeOK
  <1>5. CASE work' = [work EXCEPT ![w] = z]
    <2>1. z \in Works /\ z.pc = "pick" /\ z.seen = p
      <3>1. work[w] \in Works /\ p \in MaybeRow /\ scope \in 0..MaxScope /\ "pick" \in PCs
        BY <1>2 DEF AttemptInv, TypeOK, MaybeRow, PCs
      <3>2. PICK y : y = z
        OBVIOUS
      <3>3. SeenAndFp(y, work[w], "pick", p, scope)
        BY <3>2 DEF SeenAndFp
      <3>4. y \in Works /\ y.pc = "pick" /\ y.seen = p
        BY <3>1, <3>3, SeenAndFpSet
      <3>5. QED BY <3>2, <3>4
    <2>2. SeenFits(z)
      BY <1>2, <2>1 DEF SeenFits
    <2>3. QED BY <1>3, <1>5, <2>1, <2>2, WalkStep DEF Plan, ghosts
  <1>6. QED BY <1>1, <1>4, <1>5 DEF End, AttemptInv, TypeOK

LEMMA OtherDoneKeeps ==
    ASSUME AttemptInv, NEW w \in Workers, OtherDone(w) PROVE AttemptInv'
  <1>1. row' \in MaybeRow /\ SameCall
    BY DEF OtherDone, SameCall, AttemptInv, TypeOK, MaybeRow
  <1>2. CASE Leave(w) /\ lease' = lease
    BY <1>1, <1>2, EndStep, LeaseMoves DEF OtherDone, ghosts, AttemptInv, TypeOK
  <1>3. CASE HoldsBatch(w) /\ lease' = Renewed /\ Go(w, "later")
    <2> DEFINE z == [work[w] EXCEPT !.pc = "later"]
    <2>1. z \in Works /\ z.pc = "later" /\ z.seen = Seen(w)
      BY DEF AttemptInv, TypeOK, Works, PCs, Seen
    <2>2. work' = [work EXCEPT ![w] = z]
      BY <1>3 DEF Go, AttemptInv, TypeOK
    <2>3. SeenFits(z)
      BY <2>1 DEF SeenFits, AttemptInv, ReadingsHold
    <2>4. QED BY <1>1, <1>3, <2>1, <2>2, <2>3, WalkStep DEF OtherDone, ghosts
  <1>4. QED BY <1>2, <1>3 DEF OtherDone

LEMMA OtherCaseKeeps ==
    ASSUME AttemptInv, NEW w \in Workers, OtherCase(w) PROVE AttemptInv'
  <1>1. row' \in MaybeRow /\ SameCall
    BY DEF OtherCase, SameCall, AttemptInv, TypeOK, MaybeRow
  <1>2. CASE Leave(w) /\ lease' = lease
    BY <1>1, <1>2, EndStep, LeaseMoves DEF OtherCase, ghosts, AttemptInv, TypeOK
  <1>3. ASSUME HoldsBatch(w), lease' = Renewed, NEW go \in BOOLEAN,
               work' = [work EXCEPT ![w].pc = "other", ![w].fp = scope, ![w].go = go]
        PROVE  AttemptInv'
    <2> DEFINE z == [work[w] EXCEPT !.pc = "other", !.fp = scope, !.go = go]
    <2>1. z \in Works /\ z.pc = "other" /\ z.seen = Seen(w)
      <3>1. work[w] \in Works /\ scope \in 0..MaxScope /\ "other" \in PCs
        BY DEF AttemptInv, TypeOK, PCs
      <3>2. PICK y : y = z
        OBVIOUS
      <3>3. FpAndGo(y, work[w], "other", scope, go)
        BY <3>2 DEF FpAndGo
      <3>4. y \in Works /\ y.pc = "other" /\ y.seen = Seen(w)
        BY <3>1, <3>3, FpAndGoSet DEF Seen
      <3>5. QED BY <3>2, <3>4
    <2>2. work' = [work EXCEPT ![w] = z]
      BY <1>3 DEF AttemptInv, TypeOK
    <2>3. SeenFits(z)
      BY <2>1 DEF SeenFits, AttemptInv, ReadingsHold
    <2>4. QED BY <1>1, <1>3, <2>1, <2>2, <2>3, WalkStep DEF OtherCase, ghosts
  <1>4. QED
    <2>1. ASSUME NEW valid \in BOOLEAN PROVE (valid /\ scope = Seen(w).scope) \in BOOLEAN
      OBVIOUS
    <2>2. QED BY <1>2, <1>3, <2>1 DEF OtherCase

LEMMA LeaseStays ==
    ASSUME AttemptInv, NEW w \in Workers, NEW z, lease' = lease, InBatch(w), z.lapsed = work[w].lapsed
    PROVE  LeaseFits(w, z)
  BY LeaseMoves DEF LeaseFits, AttemptInv, BatchIsHeld, HoldsBatch

LEMMA ClaimBatchKeeps ==
    ASSUME AttemptInv, NEW w \in Workers, ClaimBatch(w) PROVE AttemptInv'
  <1>1. row' \in MaybeRow /\ SameCall
    BY DEF ClaimBatch, SameCall, AttemptInv, TypeOK, MaybeRow
  <1>2. CASE End(w) /\ lease' = lease
    BY <1>1, <1>2, EndStep, LeaseMoves DEF ClaimBatch, ghosts, AttemptInv, TypeOK
  <1>3. CASE lease.until = 0 /\ lease' = [owner |-> w, until |-> Lease] /\ Go(w, "batch")
    <2> DEFINE z == [work[w] EXCEPT !.pc = "batch"]
    <2>1. z \in Works /\ z.pc = "batch" /\ z.seen = Seen(w)
      BY DEF AttemptInv, TypeOK, Works, PCs, Seen
    <2>2. work' = [work EXCEPT ![w] = z]
      BY <1>3 DEF Go, AttemptInv, TypeOK
    <2>3. SeenFits(z)
      BY <2>1 DEF SeenFits, AttemptInv, ReadingsHold
    <2>4. LeaseFits(w, z)
      BY <1>3, AttemptAssumption DEF LeaseFits, Leases
    <2>5. QED BY <1>1, <2>1, <2>2, <2>3, <2>4, QuietStep DEF ClaimBatch, ghosts, AttemptInv, TypeOK
  <1>4. QED BY <1>2, <1>3 DEF ClaimBatch

LEMMA UnattemptedRow ==
    ASSUME NEW s \in MaybeRow, NEW n \in 0..Backoff
    PROVE  LET p == [Freed(Cleared(s)) EXCEPT !.next = n]
           IN  p \in Rows /\ p.inv = 0 /\ p.state = "null" /\ p.pending = "none"
  <1>1. Cleared(s) \in Rows /\ Cleared(s).inv = 0 /\ Cleared(s).state = "null"
        /\ Cleared(s).pending = "none"
    <2>1. CASE s = NoRow
      <3> DEFINE x == [s EXCEPT !.state = "null"]
      <3>1. x = [class |-> "unclassified", scope |-> 0, state |-> "null", claim |-> 0,
                 until |-> 0, inv |-> 0, pending |-> "none", next |-> 0]
        BY <2>1 DEF NoRow
      <3>2. 0 \in 0..MaxScope /\ 0 \in 0..Lease /\ 0 \in 0..Backoff
        BY AttemptAssumption
      <3>3. x \in Rows /\ x.state = "null"
        BY <3>1, <3>2 DEF Rows, Classes, States
      <3>4. LET y == [x EXCEPT !.inv = 0]
            IN  y \in Rows /\ y.inv = 0 /\ y.state = "null"
        BY <3>3 DEF Rows
      <3>5. LET y == [[x EXCEPT !.inv = 0] EXCEPT !.pending = "none"]
            IN  y \in Rows /\ y.inv = 0 /\ y.state = "null" /\ y.pending = "none"
        BY <3>4 DEF Rows
      <3>6. QED BY <3>5 DEF Cleared
    <2>2. CASE s \in Rows
      BY <2>2 DEF Cleared, Rows, States
    <2>3. QED BY <2>1, <2>2 DEF MaybeRow
  <1> DEFINE x == Freed(Cleared(s))
  <1>2. x \in Rows /\ x.inv = 0 /\ x.state = "null" /\ x.pending = "none"
    BY <1>1, FreedRow
  <1>3. LET y == [x EXCEPT !.next = n]
        IN  y \in Rows /\ y.inv = x.inv /\ y.state = x.state /\ y.pending = x.pending
    BY <1>2 DEF Rows
  <1>4. QED BY <1>2, <1>3

LEMMA UnattemptedKeeps ==
    ASSUME AttemptInv, NEW w \in Workers, Unattempted(w) PROVE AttemptInv'
  <1> DEFINE n == IF At(w, "pick") THEN 0 ELSE Backoff
             p == [Freed(Cleared(Seen(w))) EXCEPT !.next = n]
             z == [work[w] EXCEPT !.seen = p]
  <1>1. /\ row' = IF Refused(0) THEN row ELSE p
        /\ \/ Leave(w)
           \/ End(w)
           \/ At(w, "pick") /\ ~Refused(0) /\ work' = [work EXCEPT ![w].seen = p]
        /\ UNCHANGED <<scope, lease, claims, audit, oper, crashes, ghosts>>
    BY DEF Unattempted
  <1>2. p \in Rows /\ p.inv = 0 /\ p.state = "null" /\ p.pending = "none"
    <2>1. Seen(w) \in MaybeRow /\ n \in 0..Backoff
      BY AttemptAssumption DEF AttemptInv, TypeOK, Works, Seen, MaybeRow
    <2>2. QED BY <2>1, UnattemptedRow
  <1>3. row' \in MaybeRow /\ (SameCall \/ Dropped)
    <2>1. CASE row' = row
      BY <2>1 DEF SameCall, AttemptInv, TypeOK, MaybeRow
    <2>2. CASE ~Refused(0) /\ row' = p
      BY <1>2, <2>2 DEF Refused, Dropped, MaybeRow
    <2>3. QED BY <1>1, <2>1, <2>2
  <1>4. CASE Leave(w) \/ End(w)
    BY <1>1, <1>3, <1>4, EndStep, LeaseMoves DEF ghosts, AttemptInv, TypeOK
  <1>5. CASE At(w, "pick") /\ work' = [work EXCEPT ![w].seen = p]
    <2>1. work[w] \in Works /\ p \in MaybeRow
      BY <1>2 DEF AttemptInv, TypeOK, MaybeRow
    <2>2. z \in Works /\ z.pc = "pick" /\ z.seen = p
      BY <1>5, <2>1 DEF Works, MaybeRow, At
    <2>3. work' = [work EXCEPT ![w] = z]
      BY <1>5 DEF AttemptInv, TypeOK
    <2>4. SeenFits(z)
      BY <1>2, <2>2 DEF SeenFits
    <2>5. QED BY <1>1, <1>3, <2>2, <2>3, <2>4, WalkStep DEF ghosts
  <1>6. QED BY <1>1, <1>4, <1>5

\* Completing an attempt drops its invocation, if it had no call.
LEMMA Completing ==
    ASSUME AttemptInv, NEW o \in Outcomes, NEW s \in 0..MaxScope, row.state \in {"null", "reserved"},
           row' = Completed(o, s)
    PROVE  row' \in MaybeRow /\ Dropped
  <1>1. row \in Rows
    BY RealRow DEF AttemptInv, TypeOK, MaybeRow, States
  <1>2. QED BY <1>1, CompletedRow DEF Dropped, MaybeRow

LEMMA PrepareKeeps ==
    ASSUME AttemptInv, NEW w \in Workers, Prepare(w) PROVE AttemptInv'
  <1>1. \/ lease' = lease
        \/ HoldsBatch(w) /\ lease' = Renewed
    BY DEF Prepare
  <1>2. CASE Leave(w) /\ (row' = row \/ (Completable(w) /\ row' = Completed("failed", row.scope)))
    <2>1. row' \in MaybeRow /\ (SameCall \/ Dropped)
      <3>1. CASE row' = row
        BY <3>1 DEF SameCall, AttemptInv, TypeOK, MaybeRow
      <3>2. CASE Completable(w) /\ row' = Completed("failed", row.scope)
        <4>1. row.scope \in 0..MaxScope
          BY <3>2, RealRow, RowFields DEF AttemptInv, TypeOK, MaybeRow, Completable, States
        <4>2. QED BY <3>2, <4>1, Completing DEF Completable, Outcomes
      <3>3. QED BY <1>2, <3>1, <3>2
    <2>2. QED BY <1>1, <1>2, <2>1, EndStep, LeaseMoves DEF Prepare, ghosts, AttemptInv, TypeOK
  <1>3. ASSUME HoldsBatch(w), HoldsRow(w), row' = [row EXCEPT !.until = Lease], NEW go \in BOOLEAN,
               work' = [work EXCEPT ![w].pc = "ready", ![w].fp = scope, ![w].go = go]
        PROVE  AttemptInv'
    <2> DEFINE z == [work[w] EXCEPT !.pc = "ready", !.fp = scope, !.go = go]
    <2>1. z \in Works /\ z.pc = "ready" /\ z.seen = Seen(w)
      <3>1. work[w] \in Works /\ scope \in 0..MaxScope /\ "ready" \in PCs
        BY DEF AttemptInv, TypeOK, PCs
      <3>2. PICK y : y = z
        OBVIOUS
      <3>3. FpAndGo(y, work[w], "ready", scope, go)
        BY <3>2 DEF FpAndGo
      <3>4. y \in Works /\ y.pc = "ready" /\ y.seen = Seen(w)
        BY <3>1, <3>3, FpAndGoSet DEF Seen
      <3>5. QED BY <3>2, <3>4
    <2>2. work' = [work EXCEPT ![w] = z]
      BY <1>3 DEF AttemptInv, TypeOK
    <2>3. SeenFits(z)
      BY <2>1 DEF SeenFits, AttemptInv, ReadingsHold
    <2>4. row' \in MaybeRow /\ SameCall
      BY <1>3, RealRow, RenewedRow DEF SameCall, AttemptInv, TypeOK, MaybeRow, HoldsRow
    <2>5. lease' = Renewed
      BY <1>3 DEF Prepare
    <2>6. QED BY <1>3, <2>1, <2>2, <2>3, <2>4, <2>5, WalkStep DEF Prepare, ghosts
  <1>4. QED
    <2>1. ASSUME NEW valid \in BOOLEAN PROVE (valid /\ scope = Seen(w).scope) \in BOOLEAN
      OBVIOUS
    <2>2. QED BY <1>2, <1>3, <2>1 DEF Prepare

LEMMA GiveUpKeeps ==
    ASSUME AttemptInv, NEW w \in Workers, GiveUp(w) PROVE AttemptInv'
  <1>1. PICK o \in {"stale", "failed"}, s \in {scope, row.scope} :
          row' = IF HoldsRow(w) /\ Completable(w) THEN Completed(o, s) ELSE row
    BY DEF GiveUp
  <1>2. row' \in MaybeRow /\ (SameCall \/ Dropped)
    <2>1. CASE row' = row
      BY <2>1 DEF SameCall, AttemptInv, TypeOK, MaybeRow
    <2>2. CASE Completable(w) /\ row' = Completed(o, s)
      <3>1. s \in 0..MaxScope /\ o \in Outcomes
        BY <2>2, RealRow, RowFields DEF AttemptInv, TypeOK, MaybeRow, Completable, States, Outcomes
      <3>2. QED BY <2>2, <3>1, Completing DEF Completable
    <2>3. QED BY <1>1, <2>1, <2>2
  <1>3. QED BY <1>2, EndStep, LeaseMoves DEF GiveUp, ghosts, AttemptInv, TypeOK

LEMMA CollectedKeeps ==
    ASSUME AttemptInv, NEW w \in Workers, Collected(w) PROVE AttemptInv'
  <1>1. CASE Fail(w)
    <2>1. row' \in MaybeRow /\ SameCall
      BY <1>1 DEF Fail, SameCall, AttemptInv, TypeOK, MaybeRow
    <2>2. QED BY <1>1, <2>1, EndStep, LeaseMoves DEF Collected, Fail, ghosts, AttemptInv, TypeOK
  <1>2. ASSUME HoldsRow(w), row' = [row EXCEPT !.until = Lease], NEW o \in Outcomes,
               work' = [work EXCEPT ![w].pc = "finish", ![w].out = o]
        PROVE  AttemptInv'
    <2> DEFINE z == [work[w] EXCEPT !.pc = "finish", !.out = o]
    <2>1. z \in Works /\ z.pc = "finish" /\ z.seen = Seen(w) /\ z.lapsed = work[w].lapsed
      BY DEF AttemptInv, TypeOK, Works, PCs, Seen
    <2>2. work' = [work EXCEPT ![w] = z]
      BY <1>2 DEF AttemptInv, TypeOK
    <2>3. SeenFits(z)
      BY <2>1 DEF SeenFits, AttemptInv, ReadingsHold
    <2>4. row' \in MaybeRow /\ SameCall
      BY <1>2, RealRow, RenewedRow DEF SameCall, AttemptInv, TypeOK, MaybeRow, HoldsRow
    <2>5. Called(w) /\ InBatch(w)
      BY DEF Collected, At, Called, InBatch
    <2>6. LeaseFits(w, z)
      BY <2>1, <2>5, LeaseStays DEF Collected
    <2>7. QED BY <2>1, <2>2, <2>3, <2>4, <2>5, <2>6, QuietStep
              DEF Collected, ghosts, AttemptInv, TypeOK
  <1>3. QED BY <1>1, <1>2 DEF Collected, Outcomes

LEMMA CloseKeeps ==
    ASSUME AttemptInv, NEW w \in Workers, Close(w) PROVE AttemptInv'
  <1>1. row' \in MaybeRow /\ SameCall
    BY DEF Close, SameCall, AttemptInv, TypeOK, MaybeRow
  <1>2. \/ lease' = lease
        \/ HoldsBatch(w) /\ lease' = [owner |-> "none", until |-> 0]
    BY DEF Close
  <1>3. QED BY <1>1, <1>2, EndStep, LeaseMoves DEF Close, ghosts, AttemptInv, TypeOK

LEMMA AbortKeeps ==
    ASSUME AttemptInv, NEW w \in Workers, Abort(w) PROVE AttemptInv'
  <1>1. row' \in MaybeRow /\ SameCall /\ (End(w) \/ Leave(w))
    BY DEF Abort, SameCall, AttemptInv, TypeOK, MaybeRow
  <1>2. QED BY <1>1, EndStep, LeaseMoves DEF Abort, ghosts, AttemptInv, TypeOK

LEMMA CrashKeeps ==
    ASSUME AttemptInv, NEW w \in Workers, Crash(w) PROVE AttemptInv'
  <1>1. row' \in MaybeRow /\ SameCall
    BY DEF Crash, SameCall, AttemptInv, TypeOK, MaybeRow
  <1>2. \/ lease' = lease
        \/ HoldsBatch(w) /\ lease' = [lease EXCEPT !.owner = "gone"]
    BY DEF Crash
  <1>3. crashes' \in 0..MaxCrashes
    BY AttemptAssumption DEF Crash, AttemptInv, TypeOK
  <1>4. QED BY <1>1, <1>2, <1>3, EndStep, LeaseMoves DEF Crash, ghosts, AttemptInv, TypeOK

LEMMA RenewKeeps ==
    ASSUME AttemptInv, NEW w \in Workers, Renew(w) PROVE AttemptInv'
  <1> DEFINE z == work[w]
  <1>1. z \in Works /\ work' = [work EXCEPT ![w] = z] /\ SeenFits(z)
    BY DEF Renew, AttemptInv, TypeOK, ReadingsHold, SeenFits, Seen, At
  <1>2. row' \in MaybeRow /\ SameCall
    <2>1. CASE row' = row
      BY <2>1 DEF SameCall, AttemptInv, TypeOK, MaybeRow
    <2>2. CASE HoldsRow(w) /\ row' = [row EXCEPT !.until = Lease]
      BY <2>2, RealRow, RenewedRow DEF SameCall, AttemptInv, TypeOK, MaybeRow, HoldsRow
    <2>3. QED BY <2>1, <2>2 DEF Renew
  <1>3. InBatch(w)
    BY DEF Renew, InBatch, Called
  <1>4. LeaseFits(w, z)
    <2>1. CASE lease' = lease
      BY <1>3, <2>1, LeaseStays
    <2>2. CASE HoldsBatch(w) /\ lease' = Renewed
      BY <2>2, LeaseMoves DEF LeaseFits, AttemptInv
    <2>3. QED BY <2>1, <2>2 DEF Renew
  <1>5. z.pc \in {"finish", "settle"} => Called(w) /\ z.seen.inv = Seen(w).inv
    BY DEF Called, Seen
  <1>6. QED BY <1>1, <1>2, <1>4, <1>5, QuietStep DEF Renew, ghosts, AttemptInv, TypeOK

-----------------------------------------------------------------------------
(* The steps of a call.                                                    *)

Calls == {"call", "finish", "commit", "replace", "settle"}

\* The row of after the step is as a worker with local state x expects it.
CallFits(x) ==
    /\ x.pc = "call" =>
         row'.inv = x.seen.inv /\ row'.state \in {"started", "ambiguous"} /\ row'.pending = "none"
    /\ x.pc \in {"commit", "replace"} =>
         /\ audit'[x.seen.inv] \in {"none", "observed"}
         /\ x.pc = "commit" /\ x.out = "observed" => audit'[x.seen.inv] = "none"
         /\ x.pc = "commit" \/ audit'[x.seen.inv] = "none" =>
              /\ row'.inv = x.seen.inv /\ row'.state \in {"finished", "ambiguous"}
              /\ row'.pending = x.out

\* A worker whose observation is in the ledger already does not need the row.
AuditedCall(v) == work[v].pc = "replace" /\ audit[Seen(v).inv] = "observed"

LEMMA OthersStay ==
    ASSUME AttemptInv, NEW w \in Workers, NEW z \in Works, work' = [work EXCEPT ![w] = z]
    PROVE  work'[w] = z /\ \A v \in Workers \ {w} : work'[v] = work[v]
  BY DEF AttemptInv, TypeOK

\* What the others read is still true when audits are only added.
LEMMA ReadingsKept ==
    ASSUME AttemptInv, NEW w \in Workers, NEW z \in Works, work' = [work EXCEPT ![w] = z],
           z.seen.inv = 0 <=> z.seen.state \in {"none", "null"}, z.pc # "reconcile",
           oper' = oper, \A i \in Ids : audit[i] # "none" => audit'[i] = audit[i]
    PROVE  ReadingsHold'
  <1>1. \A v \in Workers : work'[v].pc = "reconcile" => v # w
    BY OthersStay
  <1>2. \A v \in Workers : Seen(v)'.inv = 0 <=> Seen(v)'.state \in {"none", "null"}
    BY OthersStay DEF AttemptInv, ReadingsHold, Seen
  <1>3. ASSUME NEW v \in Workers, At(v, "reconcile")'
        PROVE  Seen(v)'.inv # 0 /\ work'[v].found \in {"none", audit'[Seen(v)'.inv]}
    <2>1. work'[v] = work[v] /\ At(v, "reconcile")
      BY <1>1, <1>3, OthersStay DEF At
    <2>2. Seen(v).inv # 0 /\ work[v].found \in {"none", audit[Seen(v).inv]}
      BY <2>1 DEF AttemptInv, ReadingsHold
    <2>3. Seen(v).inv \in Ids
      BY <2>2, RowFields, NoRowFacts DEF AttemptInv, TypeOK, Works, Seen
    <2>4. QED BY <2>1, <2>2, <2>3 DEF Seen
  <1>4. oper' # NoOper => oper'.inv # 0 /\ oper'.found \in {"none", audit'[oper'.inv]}
    <2>1. oper.inv \in {0} \cup Ids
      BY DEF AttemptInv, TypeOK
    <2>2. QED BY <2>1 DEF AttemptInv, ReadingsHold
  <1>5. QED BY <1>2, <1>3, <1>4 DEF ReadingsHold

LEMMA CallersKept ==
    ASSUME AttemptInv, NEW w \in Workers, NEW z \in Works, work' = [work EXCEPT ![w] = z],
           begun \subseteq begun',
           z.pc \in Calls => /\ z.seen.inv \in begun'
                             /\ \A v \in Workers \ {w} : Called(v) => Seen(v).inv # z.seen.inv,
           CallFits(z), \A v \in Workers \ {w} : CallFits(work[v])
    PROVE  OneCaller'
  <1>1. \A v \in Workers : Called(v)' =>
          \/ v = w /\ z.pc \in Calls /\ Seen(v)' = z.seen
          \/ v # w /\ Called(v) /\ Seen(v)' = Seen(v)
    <2>1. work'[w] = z /\ \A v \in Workers \ {w} : work'[v] = work[v]
      BY OthersStay
    <2>2. QED BY <2>1 DEF Called, Calls, Seen
  <1>2. \A v \in Workers : Called(v)' => Seen(v)'.inv \in begun'
    BY <1>1 DEF AttemptInv, OneCaller
  <1>3. \A u, v \in Workers : Called(u)' /\ Called(v)' /\ Seen(u)'.inv = Seen(v)'.inv => u = v
    BY <1>1 DEF AttemptInv, OneCaller
  <1>4. \A v \in Workers : CallFits(work'[v])
    BY OthersStay
  <1>5. QED BY <1>2, <1>3, <1>4 DEF OneCaller, CallFits, At, Seen

\* A worker before his call is no caller, and the row need not fit him.
LEMMA NobodyCalls ==
    ASSUME AttemptInv, row.state \in {"none", "null", "reserved", "committed"}, audit' = audit
    PROVE  \A v \in Workers : CallFits(work[v])
  BY DEF AttemptInv, OneCaller, CallFits, At, Seen

\* The one whose invocation the row carries is alone with it.
LEMMA AloneWithTheRow ==
    ASSUME AttemptInv, NEW w \in Workers, Called(w), row.inv = Seen(w).inv
    PROVE  /\ Seen(w).inv \in begun
           /\ \A v \in Workers \ {w} : Called(v) => Seen(v).inv # Seen(w).inv
           /\ \A v \in Workers \ {w} :
                work[v].pc \in {"call", "commit", "replace"} => AuditedCall(v)
  <1>1. /\ Seen(w).inv \in begun
        /\ \A v \in Workers \ {w} : Called(v) => Seen(v).inv # Seen(w).inv
    BY DEF AttemptInv, OneCaller
  <1>2. ASSUME NEW v \in Workers \ {w}, work[v].pc \in {"call", "commit", "replace"}
        PROVE  AuditedCall(v)
    <2>1. Called(v) /\ Seen(v).inv # row.inv
      BY <1>1, <1>2 DEF Called
    <2>2. QED BY <1>2, <2>1 DEF AttemptInv, OneCaller, At, AuditedCall
  <1>3. QED BY <1>1, <1>2

LEMMA OthersFit ==
    ASSUME AttemptInv, NEW w \in Workers, Called(w), row.inv = Seen(w).inv,
           \A i \in Ids : i # row.inv => audit'[i] = audit[i]
    PROVE  \A v \in Workers \ {w} : CallFits(work[v])
  <1>1. ASSUME NEW v \in Workers \ {w}, work[v].pc \in {"call", "commit", "replace"}
        PROVE  /\ work[v].pc = "replace" /\ audit'[work[v].seen.inv] = "observed"
    <2>1. AuditedCall(v) /\ Called(v) /\ Seen(v).inv # row.inv
      BY <1>1, AloneWithTheRow DEF Called
    <2>2. Seen(v).inv \in Ids
      BY <2>1 DEF AttemptInv, OneCaller, TypeOK
    <2>3. QED BY <2>1, <2>2 DEF AuditedCall, Seen
  <1>2. QED BY <1>1 DEF CallFits

LEMMA ReserveKeeps ==
    ASSUME AttemptInv, NEW w \in Workers, Reserve(w) PROVE AttemptInv'
  <1>1. CASE Fail(w) /\ claims' = claims
    <2>1. row' \in MaybeRow /\ SameCall
      BY <1>1 DEF Fail, SameCall, AttemptInv, TypeOK, MaybeRow
    <2>2. QED BY <1>1, <2>1, EndStep, LeaseMoves DEF Reserve, Fail, ghosts, AttemptInv, TypeOK
  <1>2. CASE Reservable(w)
    <2> DEFINE i == IF row.state = "reserved" THEN row.inv ELSE claims'
               pc == IF At(w, "batch") THEN "prepare" ELSE "ready"
    <2>1a. /\ claims < MaxClaims /\ claims' = claims + 1
           /\ row' = [row EXCEPT !.claim = claims', !.until = Lease, !.state = "reserved",
                                 !.inv = i, !.pending = "none"]
           /\ work' = [work EXCEPT ![w].pc = pc, ![w].seen = row', ![w].id = claims']
      BY <1>2 DEF Reserve
    <2>1b. pc \in {"prepare", "ready"} /\ i = IF row.state = "reserved" THEN row.inv ELSE claims'
      OBVIOUS
    <2> HIDE DEF i, pc
    <2>1. /\ claims < MaxClaims /\ claims' = claims + 1 /\ pc \in {"prepare", "ready"}
          /\ i = IF row.state = "reserved" THEN row.inv ELSE claims'
          /\ row' = [row EXCEPT !.claim = claims', !.until = Lease, !.state = "reserved",
                                !.inv = i, !.pending = "none"]
          /\ work' = [work EXCEPT ![w].pc = pc, ![w].seen = row', ![w].id = claims']
      BY <2>1a, <2>1b
    <2>2. /\ claims \in 0..MaxClaims /\ claims' \in Ids /\ claims' \in 1..MaxClaims
          /\ row \in Rows /\ i \in Ids /\ i \in 1..claims'
      <3>1. claims' \in Ids /\ row \in Rows
        BY <1>2, <2>1, RealRow, AttemptAssumption DEF AttemptInv, TypeOK, MaybeRow, Ids, Reservable
      <3>2. row.state = "reserved" => row.inv \in Ids /\ row.inv <= claims
        BY <3>1, RowFields DEF AttemptInv, InvocationsAreFresh
      <3>3. QED BY <2>1, <3>1, <3>2, AttemptAssumption DEF Ids, AttemptInv, TypeOK
    <2>3. row' \in Rows /\ row'.inv = i /\ row'.state = "reserved" /\ row'.pending = "none"
      <3>1. PICK a : a = [row EXCEPT !.claim = claims']
        OBVIOUS
      <3>2. a \in Rows
        BY <2>2, <3>1 DEF Rows
      <3>3. PICK b : b = [a EXCEPT !.until = Lease]
        OBVIOUS
      <3>4. b \in Rows
        BY <3>2, <3>3, RenewedRow
      <3>5. PICK c : c = [b EXCEPT !.state = "reserved"]
        OBVIOUS
      <3>6. c \in Rows /\ c.state = "reserved"
        BY <3>4, <3>5 DEF Rows, States
      <3>7. PICK d : d = [c EXCEPT !.inv = i]
        OBVIOUS
      <3>8. d \in Rows /\ d.inv = i /\ d.state = "reserved"
        BY <2>2, <3>6, <3>7 DEF Rows
      <3>9. row' = [d EXCEPT !.pending = "none"]
        BY <2>1, <3>1, <3>3, <3>5, <3>7
      <3>10. QED BY <3>8, <3>9 DEF Rows
    <2>4. PICK z \in Works :
            /\ work' = [work EXCEPT ![w] = z]
            /\ z.pc = pc /\ z.seen = row' /\ z.lapsed = work[w].lapsed
      <3>1. work[w] \in Works /\ row' \in MaybeRow /\ claims' \in Ids /\ pc \in PCs
        BY <2>1, <2>2, <2>3 DEF AttemptInv, TypeOK, PCs, MaybeRow
      <3>2. PICK y : y = [work[w] EXCEPT !.pc = pc, !.seen = row', !.id = claims']
        OBVIOUS
      <3>3. SeenAndId(y, work[w], pc, row', claims')
        BY <3>2 DEF SeenAndId
      <3>4. y \in Works /\ y.pc = pc /\ y.seen = row' /\ y.lapsed = work[w].lapsed
        BY <3>1, <3>3, SeenAndIdSet
      <3>5. work' = [work EXCEPT ![w] = y]
        BY <2>1, <3>2 DEF AttemptInv, TypeOK
      <3>6. QED BY <3>4, <3>5
    <2>5. /\ claims' = claims + 1 /\ row.state \in {"null", "reserved", "committed"}
          /\ i = IF row.state = "reserved" THEN row.inv ELSE claims'
          /\ begun \cup counted \cup undone \subseteq 1..claims
          /\ UNCHANGED <<audit, oper, begun, counted, undone>>
      BY <1>2, <2>1 DEF AttemptInv, InvocationsAreFresh, Reservable, Reserve, ghosts
    <2>6. LeaseFits(w, z)
      BY <2>4, LeaseStays DEF Reserve, InBatch, At
    <2>7. TypeOK' /\ BatchIsHeld'
      <3>1. /\ scope' \in 0..MaxScope /\ crashes' \in 0..MaxCrashes /\ row' \in MaybeRow
            /\ claims' \in 0..MaxClaims /\ audit' \in [Ids -> {"none"} \cup Outcomes]
            /\ begun' \subseteq Ids /\ counted' \subseteq Ids
        BY <2>2, <2>3, <2>5, AttemptAssumption DEF Reserve, AttemptInv, TypeOK, MaybeRow, Ids
      <3>2. QED BY <2>4, <2>5, <2>6, <3>1, TypeKept
    <2>8. AuditsAgree'
      BY <2>3, <2>5 DEF AttemptInv, AuditsAgree
    <2>9. i \notin begun \cup counted \cup undone
      <3>1. CASE row.state = "reserved"
        <4>1. i = row.inv
          BY <2>5, <3>1
        <4>2. QED BY <3>1, <4>1 DEF AttemptInv, InvocationsAreFresh, Open
      <3>2. CASE row.state # "reserved"
        <4>1. i = claims + 1 /\ claims \in Nat
          BY <2>2, <2>5, <3>2, AttemptAssumption
        <4>2. claims + 1 \notin 1..claims
          BY <4>1
        <4>3. QED BY <2>5, <4>1, <4>2
      <3>3. QED BY <3>1, <3>2
    <2>10. InvocationsAreFresh'
      <3>1. 1..claims \subseteq 1..claims'
        BY <2>2, <2>5
      <3>2. i # 0 /\ i <= claims'
        BY <2>2, AttemptAssumption DEF Ids
      <3>3. QED BY <2>3, <2>5, <2>9, <3>1, <3>2 DEF InvocationsAreFresh
    <2>11. i # 0
      BY <2>2, AttemptAssumption DEF Ids
    <2>12. ReadingsHold'
      BY <2>1, <2>3, <2>4, <2>5, <2>11, ReadingsKept
    <2>13. OneCaller'
      <3>1. z.pc \notin Calls /\ CallFits(z)
        BY <2>1, <2>4 DEF Calls, CallFits
      <3>2. QED BY <2>4, <2>5, <3>1, CallersKept, NobodyCalls
    <2>14. QED BY <2>7, <2>8, <2>10, <2>12, <2>13 DEF AttemptInv
  <1>3. QED BY <1>1, <1>2 DEF Reserve

LEMMA StartKeeps ==
    ASSUME AttemptInv, NEW w \in Workers, Start(w) PROVE AttemptInv'
  <1>1. CASE Fail(w) /\ begun' = begun
    <2>1. row' \in MaybeRow /\ SameCall
      BY <1>1 DEF Fail, SameCall, AttemptInv, TypeOK, MaybeRow
    <2>2. QED BY <1>1, <2>1, EndStep, LeaseMoves DEF Start, Fail, AttemptInv, TypeOK
  <1>2. CASE Startable(w)
    <2>1. /\ row' = [row EXCEPT !.state = "started"] /\ begun' = begun \cup {row.inv}
          /\ Go(w, "call")
      BY <1>2 DEF Start
    <2>2. /\ row.inv = Seen(w).inv /\ row.state = "reserved" /\ row \in Rows /\ row.inv \in Ids
      BY <1>2, RealRow, RowFields DEF Startable, Invoked, AttemptInv, TypeOK, InvocationsAreFresh, MaybeRow, States
    <2>3. /\ row' \in MaybeRow /\ row'.inv = row.inv /\ row'.state = "started"
          /\ row'.pending = row.pending /\ row.pending = "none"
      BY <2>1, <2>2 DEF Rows, States, MaybeRow, AttemptInv, InvocationsAreFresh
    <2>4. PICK z \in Works :
            /\ work' = [work EXCEPT ![w] = z]
            /\ z.pc = "call" /\ z.seen = Seen(w) /\ z.lapsed = work[w].lapsed
      <3>1. work[w] \in Works /\ "call" \in PCs
        BY DEF AttemptInv, TypeOK, PCs
      <3>2. PICK y : y = [work[w] EXCEPT !.pc = "call"]
        OBVIOUS
      <3>3. work' = [work EXCEPT ![w] = y]
        BY <2>1, <3>2 DEF Go, AttemptInv, TypeOK
      <3>4. y \in Works /\ y.pc = "call" /\ y.seen = Seen(w) /\ y.lapsed = work[w].lapsed
        BY <3>1, <3>2, PcSet DEF Seen
      <3>5. QED BY <3>3, <3>4
    <2>5. UNCHANGED <<scope, claims, audit, oper, crashes, counted, undone>>
      BY DEF Start
    <2>6. LeaseFits(w, z)
      BY <2>4, LeaseStays DEF Start, InBatch, At
    <2>7. TypeOK' /\ BatchIsHeld'
      BY <2>1, <2>2, <2>3, <2>4, <2>5, <2>6, TypeKept DEF AttemptInv, TypeOK
    <2>8. AuditsAgree'
      BY <2>2, <2>3, <2>5 DEF AttemptInv, AuditsAgree
    <2>9. InvocationsAreFresh'
      <3>1. row.inv \in 1..claims
        BY <2>2, AttemptAssumption DEF AttemptInv, InvocationsAreFresh, TypeOK, Ids
      <3>2. QED BY <2>1, <2>2, <2>3, <2>5, <3>1 DEF AttemptInv, InvocationsAreFresh, Open
    <2>10. ReadingsHold'
      <3>1. Seen(w).inv = 0 <=> Seen(w).state \in {"none", "null"}
        BY DEF AttemptInv, ReadingsHold
      <3>2. QED BY <2>4, <2>5, <3>1, ReadingsKept
    <2>11. OneCaller'
      <3>1. z.seen.inv \in begun' /\ begun \subseteq begun' /\ CallFits(z)
        BY <2>1, <2>2, <2>3, <2>4 DEF CallFits
      <3>2. \A v \in Workers \ {w} : Called(v) => Seen(v).inv # z.seen.inv
        BY <2>2, <2>4 DEF AttemptInv, OneCaller, InvocationsAreFresh
      <3>3. QED BY <2>2, <2>4, <2>5, <3>1, <3>2, CallersKept, NobodyCalls
    <2>12. QED BY <2>7, <2>8, <2>9, <2>10, <2>11 DEF AttemptInv
  <1>3. QED BY <1>1, <1>2 DEF Start

LEMMA FinishKeeps ==
    ASSUME AttemptInv, NEW w \in Workers, Finish(w) PROVE AttemptInv'
  <1>1. CASE Fail(w)
    <2>1. row' \in MaybeRow /\ SameCall
      BY <1>1 DEF Fail, SameCall, AttemptInv, TypeOK, MaybeRow
    <2>2. QED BY <1>1, <2>1, EndStep, LeaseMoves DEF Finish, Fail, ghosts, AttemptInv, TypeOK
  <1>2. CASE Invoked(w) /\ row.state = "started"
    <2>1. PICK o : o = work[w].out
      OBVIOUS
    <2>2. /\ row' = [After(row, o) EXCEPT !.state = "finished", !.pending = o] /\ Go(w, "commit")
          /\ o \in Outcomes /\ Called(w)
      BY <1>2, <2>1 DEF Finish, AttemptInv, TypeOK, Works, Called, At
    <2>3. /\ row.inv = Seen(w).inv /\ row \in Rows /\ row.inv \in Ids
      BY <1>2, RealRow, RowFields DEF Invoked, AttemptInv, TypeOK, InvocationsAreFresh, MaybeRow, States
    <2>4. row' \in MaybeRow /\ row'.inv = row.inv /\ row'.state = "finished" /\ row'.pending = o
      <3>1. PICK a : a = After(row, o)
        OBVIOUS
      <3>2. a \in Rows /\ a.inv = row.inv
        BY <2>2, <2>3, <3>1, AfterRow
      <3>3. row' = [a EXCEPT !.state = "finished", !.pending = o]
        BY <2>2, <3>1
      <3>4. QED BY <2>2, <3>2, <3>3 DEF Rows, States, MaybeRow
    <2>5. PICK z \in Works :
            /\ work' = [work EXCEPT ![w] = z]
            /\ z.pc = "commit" /\ z.seen = Seen(w) /\ z.lapsed = work[w].lapsed /\ z.out = o
      <3>1. work[w] \in Works /\ "commit" \in PCs
        BY DEF AttemptInv, TypeOK, PCs
      <3>2. PICK y : y = [work[w] EXCEPT !.pc = "commit"]
        OBVIOUS
      <3>3. work' = [work EXCEPT ![w] = y]
        BY <2>2, <3>2 DEF Go, AttemptInv, TypeOK
      <3>4. y \in Works /\ y.pc = "commit" /\ y.seen = Seen(w) /\ y.lapsed = work[w].lapsed /\ y.out = o
        BY <2>1, <3>1, <3>2, PcSet DEF Seen
      <3>5. QED BY <3>3, <3>4
    <2>6. UNCHANGED <<scope, lease, claims, audit, oper, crashes, begun, counted, undone>>
      BY DEF Finish, ghosts
    <2>7. LeaseFits(w, z)
      BY <2>2, <2>5, <2>6, LeaseStays DEF InBatch
    <2>8. TypeOK' /\ BatchIsHeld'
      BY <2>4, <2>5, <2>6, <2>7, TypeKept DEF AttemptInv, TypeOK
    <2>9. AuditsAgree' /\ audit[row.inv] = "none"
      BY <1>2, <2>3, <2>4, <2>6 DEF AttemptInv, AuditsAgree, InvocationsAreFresh, Open
    <2>10. InvocationsAreFresh'
      BY <1>2, <2>2, <2>4, <2>6 DEF AttemptInv, InvocationsAreFresh, Open, Outcomes
    <2>11. ReadingsHold'
      <3>1. Seen(w).inv = 0 <=> Seen(w).state \in {"none", "null"}
        BY DEF AttemptInv, ReadingsHold
      <3>2. QED BY <2>5, <2>6, <3>1, ReadingsKept
    <2>12. OneCaller'
      <3>1. Seen(w).inv \in begun /\ \A v \in Workers \ {w} : Called(v) => Seen(v).inv # Seen(w).inv
        BY <2>2 DEF AttemptInv, OneCaller
      <3>2. CallFits(z)
        BY <2>3, <2>4, <2>5, <2>6, <2>9 DEF CallFits
      <3>3. \A v \in Workers \ {w} : CallFits(work[v])
        BY <2>2, <2>3, <2>6, OthersFit
      <3>4. QED BY <2>5, <2>6, <3>1, <3>2, <3>3, CallersKept
    <2>13. QED BY <2>8, <2>9, <2>10, <2>11, <2>12 DEF AttemptInv
  <1>3. QED BY <1>1, <1>2 DEF Finish

\* At the commit the row is the caller's alone.
LEMMA AtCommit ==
    ASSUME AttemptInv, NEW w \in Workers, work[w].pc = "commit"
    PROVE  /\ row.inv = Seen(w).inv /\ row.state \in {"finished", "ambiguous"}
           /\ row.pending = work[w].out /\ audit[row.inv] \in {"none", "observed"}
           /\ work[w].out = "observed" => audit[row.inv] = "none"
           /\ row.inv \in Ids /\ row.inv \notin counted \cup undone /\ row \in Rows
           /\ Called(w) /\ InBatch(w)
  <1>1. /\ row.inv = Seen(w).inv /\ row.state \in {"finished", "ambiguous"}
        /\ row.pending = work[w].out /\ audit[row.inv] \in {"none", "observed"}
        /\ work[w].out = "observed" => audit[row.inv] = "none"
    BY DEF AttemptInv, OneCaller, At
  <1>2. row \in Rows
    BY <1>1, RealRow DEF AttemptInv, TypeOK, MaybeRow, States
  <1>3. row.inv \in Ids /\ row.inv \notin counted \cup undone
    BY <1>1, <1>2, RowFields DEF AttemptInv, InvocationsAreFresh, Open
  <1>4. QED BY <1>1, <1>2, <1>3 DEF Called, InBatch

LEMMA CommitKeeps ==
    ASSUME AttemptInv, NEW w \in Workers, Commit(w) PROVE AttemptInv'
  <1>1. work[w].pc = "commit"
    BY DEF Commit, At
  <1>2. UNCHANGED <<row, lease, claims, oper, crashes, begun, counted, undone>>
    BY DEF Commit, ghosts
  <1>3. PICK o : o = work[w].out
    OBVIOUS
  <1>4. /\ o \in Outcomes /\ row.inv = Seen(w).inv /\ row.state \in {"finished", "ambiguous"}
        /\ row.pending = o /\ audit[row.inv] \in {"none", "observed"} /\ row.inv \in Ids
        /\ row.inv \notin counted \cup undone /\ Called(w) /\ InBatch(w) /\ row \in Rows
        /\ o = "observed" => audit[row.inv] = "none"
    BY <1>1, <1>3, AtCommit DEF AttemptInv, TypeOK, Works
  <1>5. /\ scope' \in 0..MaxScope
        /\ \/ audit' = audit
           \/ audit[row.inv] = "none" /\ audit' = [audit EXCEPT ![row.inv] = o]
        /\ Go(w, "settle") \/ (o = "observed" /\ Go(w, "replace"))
    BY <1>3, <1>4 DEF Commit, AttemptInv, TypeOK
  <1>6. PICK pc \in {"settle", "replace"} : Go(w, pc) /\ (pc = "replace" => o = "observed")
    BY <1>5
  <1>7. PICK z \in Works :
          /\ work' = [work EXCEPT ![w] = z]
          /\ z.pc = pc /\ z.seen = Seen(w) /\ z.lapsed = work[w].lapsed /\ z.out = o
    <2>1. work[w] \in Works /\ pc \in PCs
      BY <1>6 DEF AttemptInv, TypeOK, PCs
    <2>2. PICK y : y = [work[w] EXCEPT !.pc = pc]
      OBVIOUS
    <2>3. work' = [work EXCEPT ![w] = y]
      BY <1>6, <2>2 DEF Go, AttemptInv, TypeOK
    <2>4. y \in Works /\ y.pc = pc /\ y.seen = Seen(w) /\ y.lapsed = work[w].lapsed /\ y.out = o
      BY <1>3, <2>1, <2>2, PcSet DEF Seen
    <2>5. QED BY <2>3, <2>4
  <1>8. LeaseFits(w, z)
    BY <1>2, <1>4, <1>7, LeaseStays
  <1>9. /\ audit' \in [Ids -> {"none"} \cup Outcomes]
        /\ \A i \in Ids : audit'[i] = audit[i] \/ (i = row.inv /\ audit[i] = "none" /\ audit'[i] = o)
    BY <1>4, <1>5 DEF AttemptInv, TypeOK
  <1>10. TypeOK' /\ BatchIsHeld'
    BY <1>2, <1>4, <1>5, <1>7, <1>8, <1>9, TypeKept DEF AttemptInv, TypeOK, MaybeRow
  <1>11. AuditsAgree'
    <2>1. \A i \in Ids : audit'[i] # "none" =>
            \/ i \in counted
            \/ /\ row.inv = i /\ row.state \in {"finished", "ambiguous"}
               /\ row.pending = audit'[i] \/ (audit'[i] = "observed" /\ row.pending \in {"failed", "stale"})
      BY <1>4, <1>9 DEF AttemptInv, AuditsAgree
    <2>2. \A i \in counted : audit'[i] # "none"
      BY <1>4, <1>9 DEF AttemptInv, AuditsAgree, TypeOK
    <2>3. \A i \in undone : audit'[i] = "none"
      BY <1>4, <1>9 DEF AttemptInv, AuditsAgree, TypeOK
    <2>4. QED BY <1>2, <1>4, <2>1, <2>2, <2>3 DEF AuditsAgree
  <1>12. InvocationsAreFresh'
    BY <1>2 DEF AttemptInv, InvocationsAreFresh
  <1>13. ReadingsHold'
    <2>1. Seen(w).inv = 0 <=> Seen(w).state \in {"none", "null"}
      BY DEF AttemptInv, ReadingsHold
    <2>2. \A i \in Ids : audit[i] # "none" => audit'[i] = audit[i]
      BY <1>4, <1>9
    <2>3. QED BY <1>2, <1>6, <1>7, <2>1, <2>2, ReadingsKept
  <1>14. OneCaller'
    <2>1. CallFits(z)
      <3>1. z.pc = "replace" => o = "observed" /\ audit'[row.inv] \in {"none", "observed"}
        BY <1>4, <1>6, <1>7, <1>9
      <3>2. z.pc # "call" /\ z.pc # "commit" /\ z.seen.inv = row.inv /\ z.out = o
        BY <1>4, <1>7
      <3>3. QED BY <1>2, <1>4, <3>1, <3>2 DEF CallFits
    <2>2. \A v \in Workers \ {w} : CallFits(work[v])
      BY <1>4, <1>9, OthersFit
    <2>3. z.seen.inv \in begun' /\ \A v \in Workers \ {w} : Called(v) => Seen(v).inv # z.seen.inv
      BY <1>2, <1>4, <1>7, AloneWithTheRow
    <2>4. QED BY <1>2, <1>7, <2>1, <2>2, <2>3, CallersKept
  <1>15. QED BY <1>10, <1>11, <1>12, <1>13, <1>14 DEF AttemptInv

LEMMA ReplaceKeeps ==
    ASSUME AttemptInv, NEW w \in Workers, Replace(w) PROVE AttemptInv'
  <1>1. CASE Fail(w)
    <2>1. row' \in MaybeRow /\ SameCall
      BY <1>1 DEF Fail, SameCall, AttemptInv, TypeOK, MaybeRow
    <2>2. QED BY <1>1, <2>1, EndStep, LeaseMoves DEF Replace, Fail, ghosts, AttemptInv, TypeOK
  <1>2. ASSUME Invoked(w), row.state = "finished", NEW o \in {"failed", "stale"},
               row' = [After(row, o) EXCEPT !.pending = o],
               work' = [work EXCEPT ![w].pc = "commit", ![w].out = o]
        PROVE  AttemptInv'
    <2>1. work[w].pc \in {"commit", "replace"} /\ o \in Outcomes
      BY DEF Replace, At, Outcomes
    <2>2. /\ row.inv = Seen(w).inv /\ audit[row.inv] \in {"none", "observed"} /\ row.inv \in Ids
          /\ row.inv \notin counted \cup undone /\ Called(w) /\ InBatch(w) /\ row \in Rows
      <3>1. row.inv = Seen(w).inv /\ audit[row.inv] \in {"none", "observed"} /\ Called(w) /\ InBatch(w)
        BY <1>2, <2>1 DEF Invoked, AttemptInv, OneCaller, Called, InBatch
      <3>2. row \in Rows
        BY <1>2, RealRow DEF AttemptInv, TypeOK, MaybeRow, States
      <3>3. row.inv \in Ids /\ row.inv \notin counted \cup undone
        BY <1>2, <3>2, RowFields DEF AttemptInv, InvocationsAreFresh, Open
      <3>4. QED BY <3>1, <3>2, <3>3
    <2>3. row' \in MaybeRow /\ row'.inv = row.inv /\ row'.state = "finished" /\ row'.pending = o
      <3>1. PICK a : a = After(row, o)
        OBVIOUS
      <3>2. a \in Rows /\ a.inv = row.inv /\ a.state = "finished"
        BY <1>2, <2>1, <2>2, <3>1, AfterRow
      <3>3. row' = [a EXCEPT !.pending = o]
        BY <1>2, <3>1
      <3>4. QED BY <2>1, <3>2, <3>3 DEF Rows, MaybeRow
    <2>4. PICK z \in Works :
            /\ work' = [work EXCEPT ![w] = z]
            /\ z.pc = "commit" /\ z.seen = Seen(w) /\ z.lapsed = work[w].lapsed /\ z.out = o
      <3>1. work[w] \in Works /\ "commit" \in PCs
        BY DEF AttemptInv, TypeOK, PCs
      <3>2. PICK y : y = [work[w] EXCEPT !.pc = "commit", !.out = o]
        OBVIOUS
      <3>3. work' = [work EXCEPT ![w] = y]
        BY <1>2, <3>2 DEF AttemptInv, TypeOK
      <3>4. PcAndOut(y, work[w], "commit", o)
        BY <3>2 DEF PcAndOut
      <3>5. y \in Works /\ y.pc = "commit" /\ y.seen = Seen(w) /\ y.lapsed = work[w].lapsed /\ y.out = o
        BY <2>1, <3>1, <3>4, OutSet DEF Seen
      <3>6. QED BY <3>3, <3>5
    <2>5. UNCHANGED <<scope, lease, claims, audit, oper, crashes, begun, counted, undone>>
      BY DEF Replace, ghosts
    <2>6. LeaseFits(w, z)
      BY <2>2, <2>4, <2>5, LeaseStays
    <2>7. TypeOK' /\ BatchIsHeld'
      BY <2>3, <2>4, <2>5, <2>6, TypeKept DEF AttemptInv, TypeOK
    <2>8. AuditsAgree'
      BY <1>2, <2>2, <2>3, <2>5 DEF AttemptInv, AuditsAgree
    <2>9. InvocationsAreFresh'
      BY <1>2, <2>3, <2>5 DEF AttemptInv, InvocationsAreFresh, Open
    <2>10. ReadingsHold'
      <3>1. Seen(w).inv = 0 <=> Seen(w).state \in {"none", "null"}
        BY DEF AttemptInv, ReadingsHold
      <3>2. QED BY <2>4, <2>5, <3>1, ReadingsKept
    <2>11. OneCaller'
      <3>1. CallFits(z)
        BY <2>2, <2>3, <2>4, <2>5 DEF CallFits
      <3>2. \A v \in Workers \ {w} : CallFits(work[v])
        BY <2>2, <2>5, OthersFit
      <3>3. z.seen.inv \in begun' /\ \A v \in Workers \ {w} : Called(v) => Seen(v).inv # z.seen.inv
        BY <2>2, <2>4, <2>5, AloneWithTheRow
      <3>4. QED BY <2>4, <2>5, <3>1, <3>2, <3>3, CallersKept
    <2>12. QED BY <2>7, <2>8, <2>9, <2>10, <2>11 DEF AttemptInv
  <1>3. QED BY <1>1, <1>2 DEF Replace

-----------------------------------------------------------------------------
(* Reconciling, the clock, the case, the operator.                         *)

\* What is found true of an invocation leaves the two stores in agreement.
LEMMA RowReconciled ==
    ASSUME AttemptInv, NEW found \in {"none", audit[row.inv]}, row' = Reconciled(row, found),
           Counting, UNCHANGED <<claims, audit, oper, begun, undone>>
    PROVE  /\ row' \in MaybeRow /\ row'.inv = row.inv /\ counted' \subseteq Ids
           /\ row'.inv = 0 <=> row'.state \in {"none", "null"}
           /\ AuditsAgree' /\ InvocationsAreFresh' /\ \A v \in Workers : CallFits(work[v])
  <1>1. row \in MaybeRow
    BY DEF AttemptInv, TypeOK, MaybeRow
  <1>2. /\ row' \in MaybeRow /\ row'.inv = row.inv /\ row'.pending = row.pending
        /\ \/ row'.state = row.state
           \/ row.state \in {"started", "finished"} /\ row'.state = "ambiguous"
           \/ row.state = "finished" /\ found = row.pending /\ row'.state = "committed"
    BY <1>1, ReconciledRow
  <1>3. CASE row'.state # "committed" \/ row.state = "committed"
    <2>1. counted' = counted
      BY <1>3 DEF Counting
    <2>2. /\ row'.inv = row.inv /\ row'.pending = row.pending
          /\ row'.state = row.state \/ (row.state \in {"started", "finished"} /\ row'.state = "ambiguous")
      BY <1>2, <1>3
    <2>3. AuditsAgree'
      BY <2>1, <2>2 DEF AttemptInv, AuditsAgree
    <2>4. InvocationsAreFresh'
      BY <2>1, <2>2 DEF AttemptInv, InvocationsAreFresh, Open
    <2>5. \A v \in Workers : CallFits(work[v])
      BY <2>2 DEF AttemptInv, OneCaller, CallFits, At, Seen
    <2>6. QED BY <1>2, <2>1, <2>3, <2>4, <2>5 DEF AttemptInv, TypeOK, InvocationsAreFresh
  <1>4. CASE row'.state = "committed" /\ row.state # "committed"
    <2>1. row.state = "finished" /\ found = row.pending /\ counted' = counted \cup {row.inv}
      BY <1>2, <1>4 DEF Counting
    <2>2. row \in Rows
      BY <1>1, <2>1, RealRow DEF States
    <2>3. row.pending # "none" /\ row.inv \in Ids /\ row.inv \notin counted \cup undone /\ row.inv # 0
      BY <2>1, <2>2, RowFields DEF AttemptInv, InvocationsAreFresh, Open
    <2>4. audit[row.inv] = row.pending
      BY <2>1, <2>3
    <2>5. AuditsAgree'
      BY <1>2, <1>4, <2>1, <2>3, <2>4 DEF AttemptInv, AuditsAgree
    <2>6. InvocationsAreFresh'
      <3>1. row.inv \in 1..claims
        BY <2>3, AttemptAssumption DEF AttemptInv, InvocationsAreFresh, TypeOK, Ids
      <3>2. QED BY <1>2, <1>4, <2>1, <2>3, <3>1 DEF AttemptInv, InvocationsAreFresh, Open
    <2>7. \A v \in Workers : CallFits(work[v])
      BY <2>1, <2>3, <2>4 DEF AttemptInv, OneCaller, CallFits, At, Seen
    <2>8. QED BY <1>2, <1>4, <2>1, <2>3, <2>5, <2>6, <2>7 DEF AttemptInv, TypeOK
  <1>5. QED BY <1>3, <1>4

LEMMA ReconcileKeeps ==
    ASSUME AttemptInv, NEW w \in Workers, Reconcile(w) PROVE AttemptInv'
  <1>1. CASE Contradicts(row, Seen(w).inv, work[w].found)
    <2>1. row' = row /\ End(w) /\ counted' = counted
      BY <1>1 DEF Reconcile, End, Counting
    <2>2. row' \in MaybeRow /\ SameCall
      BY <2>1 DEF SameCall, AttemptInv, TypeOK, MaybeRow
    <2>3. QED BY <2>1, <2>2, EndStep, LeaseMoves DEF Reconcile, AttemptInv, TypeOK
  <1>2. CASE ~Contradicts(row, Seen(w).inv, work[w].found)
    <2>1. /\ row' = Reconciled(row, work[w].found) /\ Counting
          /\ UNCHANGED <<scope, lease, claims, audit, oper, crashes, begun, undone>>
          /\ work' = [work EXCEPT ![w] = [@ EXCEPT !.pc = "sort", !.seen = row', !.found = "none"]]
      BY <1>2 DEF Reconcile
    <2>2. row.inv = Seen(w).inv /\ work[w].found \in {"none", audit[row.inv]}
      BY <1>2 DEF Contradicts, Reconcile, AttemptInv, ReadingsHold
    <2>3. /\ row' \in MaybeRow /\ row'.inv = row.inv /\ counted' \subseteq Ids
          /\ row'.inv = 0 <=> row'.state \in {"none", "null"}
          /\ AuditsAgree' /\ InvocationsAreFresh' /\ \A v \in Workers : CallFits(work[v])
      BY <2>1, <2>2, RowReconciled
    <2>4. PICK z \in Works :
            /\ work' = [work EXCEPT ![w] = z]
            /\ z.pc = "sort" /\ z.seen = row' /\ z.lapsed = work[w].lapsed
      <3>1. work[w] \in Works /\ "sort" \in PCs
        BY DEF AttemptInv, TypeOK, PCs
      <3>2. PICK y : y = [work[w] EXCEPT !.pc = "sort", !.seen = row', !.found = "none"]
        OBVIOUS
      <3>3. work' = [work EXCEPT ![w] = y]
        BY <2>1, <3>2 DEF AttemptInv, TypeOK
      <3>4. SeenAndFound(y, work[w], "sort", row', "none")
        BY <3>2 DEF SeenAndFound
      <3>5. y \in Works /\ y.pc = "sort" /\ y.seen = row' /\ y.lapsed = work[w].lapsed
        BY <2>3, <3>1, <3>4, SeenAndFoundSet
      <3>6. QED BY <3>3, <3>5
    <2>5. LeaseFits(w, z)
      BY <2>1, <2>4, LeaseMoves DEF LeaseFits, AttemptInv
    <2>6. TypeOK' /\ BatchIsHeld'
      BY <2>1, <2>3, <2>4, <2>5, TypeKept DEF AttemptInv, TypeOK
    <2>7. ReadingsHold'
      BY <2>1, <2>3, <2>4, ReadingsKept
    <2>8. OneCaller'
      <3>1. z.pc \notin Calls /\ CallFits(z)
        BY <2>4 DEF Calls, CallFits
      <3>2. QED BY <2>1, <2>3, <2>4, <3>1, CallersKept
    <2>9. QED BY <2>3, <2>6, <2>7, <2>8 DEF AttemptInv
  <1>3. QED BY <1>1, <1>2

LEMMA SettleKeeps ==
    ASSUME AttemptInv, NEW w \in Workers, Settle(w) PROVE AttemptInv'
  <1>1. PICK found : found = audit[Seen(w).inv]
    OBVIOUS
  <1>2. CASE Contradicts(row, Seen(w).inv, found)
    <2>1. row' = row /\ Leave(w) /\ counted' = counted
      BY <1>1, <1>2 DEF Settle, Counting
    <2>2. row' \in MaybeRow /\ SameCall
      BY <2>1 DEF SameCall, AttemptInv, TypeOK, MaybeRow
    <2>3. QED BY <2>1, <2>2, EndStep, LeaseMoves DEF Settle, AttemptInv, TypeOK
  <1>3. CASE ~Contradicts(row, Seen(w).inv, found)
    <2>1. /\ row' = Reconciled(row, found) /\ Counting /\ Leave(w)
          /\ UNCHANGED <<scope, lease, claims, audit, oper, crashes, begun, undone>>
      BY <1>1, <1>3 DEF Settle
    <2>2. row.inv = Seen(w).inv /\ found \in {"none", audit[row.inv]}
      BY <1>1, <1>3 DEF Contradicts
    <2>3. /\ row' \in MaybeRow /\ row'.inv = row.inv /\ counted' \subseteq Ids
          /\ row'.inv = 0 <=> row'.state \in {"none", "null"}
          /\ AuditsAgree' /\ InvocationsAreFresh' /\ \A v \in Workers : CallFits(work[v])
      BY <2>1, <2>2, RowReconciled
    <2>4. PICK z \in Works : work' = [work EXCEPT ![w] = z] /\ z.pc = "close" /\ z.seen = NoRow
      <3>1. PICK y : y = [Idle EXCEPT !.pc = "close"]
        OBVIOUS
      <3>2. y \in Works /\ y.pc = "close" /\ y.seen = NoRow /\ work' = [work EXCEPT ![w] = y]
        BY <2>1, <3>1, IdleWork DEF Leave, Idle
      <3>3. QED BY <3>2
    <2>5. LeaseFits(w, z)
      BY <2>1, <2>4, LeaseMoves DEF LeaseFits, AttemptInv
    <2>6. TypeOK' /\ BatchIsHeld'
      BY <2>1, <2>3, <2>4, <2>5, TypeKept DEF AttemptInv, TypeOK
    <2>7. ReadingsHold'
      BY <2>1, <2>4, NoRowFacts, ReadingsKept
    <2>8. OneCaller'
      <3>1. z.pc \notin Calls /\ CallFits(z)
        BY <2>4 DEF Calls, CallFits
      <3>2. QED BY <2>1, <2>3, <2>4, <3>1, CallersKept
    <2>9. QED BY <2>3, <2>6, <2>7, <2>8 DEF AttemptInv
  <1>4. QED BY <1>2, <1>3

\* A worker a tick later.
Lapsed(v) == work[v].lapsed \/ (HoldsBatch(v) /\ lease'.until = 0)
Ticked(v) == [work[v] EXCEPT !.seen = Older(Seen(v)), !.lapsed = Lapsed(v)]

LEMMA TickKeeps ==
    ASSUME AttemptInv, Tick PROVE AttemptInv'
  <1>0. /\ row' = Older(row) /\ lease' = [lease EXCEPT !.until = Less(lease.until)]
        /\ work' = [v \in Workers |-> Ticked(v)]
        /\ UNCHANGED <<scope, claims, audit, oper, crashes, ghosts>>
    BY Zenon DEF Tick, Ticked, Lapsed, Seen
  <1>1. UNCHANGED <<scope, claims, audit, oper, crashes, begun, counted, undone>>
    BY <1>0 DEF ghosts
  <1>2. /\ row' \in MaybeRow /\ row'.inv = row.inv /\ row'.state = row.state
        /\ row'.pending = row.pending
    BY <1>0, OlderRow DEF AttemptInv, TypeOK, MaybeRow
  <1>3. /\ lease' \in Leases /\ lease'.owner = lease.owner
        /\ lease'.until = 0 \/ lease'.until > 0
    <2>1. lease \in Leases /\ lease' = [lease EXCEPT !.until = Less(lease.until)]
      BY <1>0 DEF AttemptInv, TypeOK, Leases
    <2>2. Less(lease.until) \in 0..Lease
      BY <2>1, AttemptAssumption DEF Leases, Less
    <2>3. QED BY <2>1, <2>2, AttemptAssumption DEF Leases
  <1>4. ASSUME NEW v \in Workers
        PROVE  /\ work'[v] \in Works /\ work'[v].pc = work[v].pc /\ work'[v].out = work[v].out
               /\ work'[v].found = work[v].found /\ work'[v].seen.inv = Seen(v).inv
               /\ work'[v].seen.state = Seen(v).state /\ work'[v].lapsed = Lapsed(v)
    <2>1. work[v] \in Works /\ Seen(v) \in MaybeRow
      BY DEF AttemptInv, TypeOK, Works, Seen, MaybeRow
    <2>2. Older(Seen(v)) \in MaybeRow /\ Lapsed(v) \in BOOLEAN
          /\ Older(Seen(v)).inv = Seen(v).inv /\ Older(Seen(v)).state = Seen(v).state
      BY <2>1, OlderRow DEF Works, Lapsed
    <2>3. SeenAndLapsed(work'[v], work[v], Older(Seen(v)), Lapsed(v))
      <3>1. work'[v] = Ticked(v)
        BY <1>0
      <3>2. QED BY Zenon, <3>1 DEF Ticked, SeenAndLapsed
    <2>4. QED BY <2>1, <2>2, <2>3, SeenAndLapsedSet
  <1>5. TypeOK'
    <2>1. work' = [v \in Workers |-> work'[v]]
      BY <1>0
    <2>2. work' \in [Workers -> Works]
      BY <1>4, <2>1
    <2>3. QED BY <1>1, <1>2, <1>3, <2>2 DEF AttemptInv, TypeOK, MaybeRow, Leases
  <1>6. AuditsAgree' /\ InvocationsAreFresh'
    BY <1>1, <1>2 DEF AttemptInv, AuditsAgree, InvocationsAreFresh
  <1>7. ReadingsHold'
    BY <1>1, <1>4 DEF AttemptInv, ReadingsHold, Seen, At
  <1>8. OneCaller'
    BY <1>1, <1>2, <1>4 DEF AttemptInv, OneCaller, Called, Seen, At
  <1>9. BatchIsHeld'
    BY <1>3, <1>4 DEF AttemptInv, BatchIsHeld, InBatch, Called, HoldsBatch, Lapsed
  <1>10. QED BY <1>5, <1>6, <1>7, <1>8, <1>9 DEF AttemptInv

\* Steps that leave every row, audit, worker and lease alone.
LEMMA OutsideStep ==
    ASSUME AttemptInv, scope' \in 0..MaxScope,
           UNCHANGED <<row, lease, claims, audit, work, crashes, ghosts>>,
           \/ oper' = oper
           \/ oper' = NoOper
           \/ /\ oper' \in [inv : {0} \cup Ids, found : {"none"} \cup Outcomes]
              /\ oper'.inv # 0 /\ oper'.found \in {"none", audit[oper'.inv]}
    PROVE  AttemptInv'
  <1>1. NoOper \in [inv : {0} \cup Ids, found : {"none"} \cup Outcomes]
    BY DEF NoOper
  <1>2. UNCHANGED <<row, lease, claims, audit, work, crashes, begun, counted, undone>>
    BY DEF ghosts
  <1>3. TypeOK'
    BY <1>1, <1>2 DEF AttemptInv, TypeOK
  <1>4. AuditsAgree' /\ InvocationsAreFresh'
    BY <1>2 DEF AttemptInv, AuditsAgree, InvocationsAreFresh
  <1>5. ReadingsHold'
    BY <1>2 DEF AttemptInv, ReadingsHold, Seen, At
  <1>6. OneCaller' /\ BatchIsHeld'
    BY <1>2 DEF AttemptInv, OneCaller, BatchIsHeld, Called, InBatch, Seen, At, HoldsBatch
  <1>7. QED BY <1>3, <1>4, <1>5, <1>6 DEF AttemptInv

LEMMA EvidenceKeeps ==
    ASSUME AttemptInv, Evidence PROVE AttemptInv'
  <1>1. scope' \in 0..MaxScope
    BY AttemptAssumption DEF Evidence, AttemptInv, TypeOK
  <1>2. QED BY <1>1, OutsideStep DEF Evidence

LEMMA OperatorReadsKeeps ==
    ASSUME AttemptInv, OperatorReads PROVE AttemptInv'
  <1>1. row \in Rows /\ row.inv \in Ids /\ row.inv # 0
    BY RealRow, RowFields DEF OperatorReads, AttemptInv, TypeOK, InvocationsAreFresh, MaybeRow, States
  <1>2. /\ oper' \in [inv : {0} \cup Ids, found : {"none"} \cup Outcomes]
        /\ oper'.inv # 0 /\ oper'.found \in {"none", audit[oper'.inv]}
    BY <1>1 DEF OperatorReads, AttemptInv, TypeOK
  <1>3. QED BY <1>2, OutsideStep DEF OperatorReads, AttemptInv, TypeOK

LEMMA OperatorResolvesKeeps ==
    ASSUME AttemptInv, OperatorResolves PROVE AttemptInv'
  <1>1. /\ oper' = NoOper /\ UNCHANGED <<scope, lease, claims, audit, work, crashes, begun>>
        /\ oper.inv # 0 /\ oper.found \in {"none", audit[oper.inv]}
    BY DEF OperatorResolves, AttemptInv, ReadingsHold
  <1>2. CASE row' = row /\ undone' = undone
    <2>1. counted' = counted
      BY <1>2 DEF OperatorResolves, Counting
    <2>2. QED BY <1>1, <1>2, <2>1, OutsideStep DEF ghosts, AttemptInv, TypeOK
  <1>3. ASSUME row.state = "ambiguous", row' \in Rows,
               counted' \subseteq Ids, undone' \subseteq Ids, AuditsAgree', InvocationsAreFresh',
               \A v \in Workers : CallFits(work[v])
        PROVE  AttemptInv'
    <2>1. NoOper \in [inv : {0} \cup Ids, found : {"none"} \cup Outcomes]
      BY DEF NoOper
    <2>2. TypeOK'
      BY <1>1, <1>3, <2>1 DEF AttemptInv, TypeOK
    <2>3. ReadingsHold'
      BY <1>1 DEF AttemptInv, ReadingsHold, Seen, At
    <2>4. OneCaller'
      BY <1>1, <1>3 DEF AttemptInv, OneCaller, CallFits, Called, Seen, At
    <2>5. BatchIsHeld'
      BY <1>1 DEF AttemptInv, BatchIsHeld, Called, InBatch, HoldsBatch
    <2>6. QED BY <1>3, <2>2, <2>3, <2>4, <2>5 DEF AttemptInv
  <1>4. ASSUME row.state = "ambiguous"
        PROVE  row \in Rows /\ row.inv \in Ids /\ row.inv \notin counted \cup undone /\ row.inv \in 1..claims
    <2>1. row \in Rows /\ row.inv \in Ids
      BY <1>4, RealRow, RowFields DEF AttemptInv, TypeOK, InvocationsAreFresh, MaybeRow, States
    <2>2. QED BY <1>4, <2>1, AttemptAssumption DEF AttemptInv, InvocationsAreFresh, Open, TypeOK, Ids
  <1>5. CASE /\ row.inv = oper.inv /\ row.state = "ambiguous"
             /\ oper.found # "none" /\ row.pending = oper.found
             /\ row' = Freed([row EXCEPT !.state = "committed"]) /\ undone' = undone
    <2>1. audit[row.inv] = row.pending /\ row.pending # "none"
      BY <1>1, <1>5
    <2>2. /\ row' \in Rows /\ row'.inv = row.inv /\ row'.state = "committed"
          /\ row'.pending = row.pending
      BY <1>4, <1>5, FreedAs DEF States
    <2>3. counted' = counted \cup {row.inv}
      BY <1>5, <2>2 DEF OperatorResolves, Counting
    <2>4. AuditsAgree'
      BY <1>1, <1>4, <1>5, <2>1, <2>2, <2>3 DEF AttemptInv, AuditsAgree
    <2>5. InvocationsAreFresh'
      BY <1>1, <1>4, <1>5, <2>1, <2>2, <2>3 DEF AttemptInv, InvocationsAreFresh, Open
    <2>6. \A v \in Workers : CallFits(work[v])
      BY <1>1, <1>5, <2>1 DEF AttemptInv, OneCaller, CallFits, At, Seen
    <2>7. QED BY <1>3, <1>4, <1>5, <2>2, <2>3, <2>4, <2>5, <2>6 DEF AttemptInv, TypeOK
  <1>6. CASE /\ row.state = "ambiguous" /\ row.pending = "none" /\ Quiet
             /\ row' = Freed(Cleared(row)) /\ undone' = undone \cup {row.inv}
    <2>1. /\ row' \in Rows /\ row'.inv = 0 /\ row'.state = "null" /\ row'.pending = "none"
      <3>1. PICK a : a = Cleared(row)
        OBVIOUS
      <3>2. a \in Rows /\ a.inv = 0 /\ a.state = "null" /\ a.pending = "none"
        BY <1>4, <1>6, <3>1 DEF Cleared, Rows, States
      <3>3. QED BY <1>6, <3>1, <3>2, FreedRow
    <2>2. counted' = counted
      BY <2>1 DEF OperatorResolves, Counting
    <2>3. audit[row.inv] = "none"
      BY <1>4, <1>6 DEF AttemptInv, AuditsAgree
    <2>4. AuditsAgree'
      BY <1>1, <1>4, <1>6, <2>1, <2>2, <2>3 DEF AttemptInv, AuditsAgree
    <2>5. InvocationsAreFresh'
      BY <1>1, <1>4, <1>6, <2>1, <2>2 DEF AttemptInv, InvocationsAreFresh, Open, TypeOK
    <2>6. \A v \in Workers : CallFits(work[v])
      <3>1. \A v \in Workers : work[v].out # "none"
        BY DEF AttemptInv, TypeOK, Works, Outcomes
      <3>2. QED BY <1>1, <1>6, <3>1 DEF AttemptInv, OneCaller, CallFits, At, Seen, Quiet
    <2>7. QED BY <1>3, <1>4, <1>6, <2>1, <2>2, <2>4, <2>5, <2>6 DEF AttemptInv, TypeOK
  <1>7. QED BY <1>2, <1>5, <1>6 DEF OperatorResolves

-----------------------------------------------------------------------------
(* The theorems.                                                           *)

LEMMA StepKeeps ==
    ASSUME AttemptInv, NEW w \in Workers, Step(w) PROVE AttemptInv'
  BY SurveyKeeps, ListKeeps, ReadAuditKeeps, ReconcileKeeps, SortKeeps, PlanKeeps, ClaimBatchKeeps,
     UnattemptedKeeps, ReserveKeeps, OtherCaseKeeps, OtherDoneKeeps, PrepareKeeps, GiveUpKeeps, StartKeeps,
     CollectedKeeps, FinishKeeps, CommitKeeps, ReplaceKeeps, SettleKeeps, CloseKeeps DEF Step

LEMMA InitHolds == Init => AttemptInv
  <1> SUFFICES ASSUME Init PROVE AttemptInv
    OBVIOUS
  <1>1. /\ scope = 0 /\ row = NoRow /\ lease = [owner |-> "none", until |-> 0] /\ claims = 0
        /\ audit = [i \in Ids |-> "none"] /\ work = [w \in Workers |-> Idle]
        /\ oper = NoOper /\ crashes = 0 /\ begun = {} /\ counted = {} /\ undone = {}
    BY DEF Init
  <1>2. \A w \in Workers : work[w] = Idle /\ Idle \in Works /\ Idle.pc = "idle" /\ Idle.seen = NoRow
    BY <1>1, IdleWork
  <1>3. TypeOK
    <2>1. NoOper \in [inv : {0} \cup Ids, found : {"none"} \cup Outcomes]
      BY DEF NoOper
    <2>2. work \in [Workers -> Works] /\ audit \in [Ids -> {"none"} \cup Outcomes]
      BY <1>1, <1>2
    <2>3. QED BY <1>1, <2>1, <2>2, AttemptAssumption DEF TypeOK
  <1>4. AuditsAgree /\ InvocationsAreFresh
    BY <1>1, NoRowFacts DEF AuditsAgree, InvocationsAreFresh, Open
  <1>5. ReadingsHold
    BY <1>1, <1>2, NoRowFacts DEF ReadingsHold, Seen, At
  <1>6. OneCaller /\ BatchIsHeld
    BY <1>2 DEF OneCaller, BatchIsHeld, Called, InBatch, At
  <1>7. QED BY <1>3, <1>4, <1>5, <1>6 DEF AttemptInv

LEMMA StutterKeeps ==
    ASSUME AttemptInv, UNCHANGED vars PROVE AttemptInv'
  <1>1. UNCHANGED <<scope, row, lease, claims, audit, work, oper, crashes, ghosts>>
    BY DEF vars, ghosts
  <1>2. scope' \in 0..MaxScope
    BY <1>1 DEF AttemptInv, TypeOK
  <1>3. QED BY <1>1, <1>2, OutsideStep

LEMMA NextKeeps ==
    ASSUME AttemptInv, [Next]_vars PROVE AttemptInv'
  BY StepKeeps, RenewKeeps, AbortKeeps, CrashKeeps, TickKeeps, EvidenceKeeps, OperatorReadsKeeps,
     OperatorResolvesKeeps, StutterKeeps DEF Next

\* The two stores agree, invocations are used once and an open call has one
\* owner, for any number of due runs, claims, crashes and changes of the facts.
THEOREM AttemptsAreConsistent == Spec => []AttemptInv
  <1>1. AttemptInv /\ [Next]_vars => AttemptInv'
    BY NextKeeps
  <1>2. QED BY <1>1, InitHolds, PTL DEF Spec

\* No two workers ask the provider about the case at once
\* (mark_settlement_attempt_provider_started), given the operator's word.
THEOREM OneCallAtATime == Spec => []OneCall
  <1>1. AttemptInv => OneCall
    <2> SUFFICES ASSUME AttemptInv, NEW v \in Workers, NEW w \in Workers, At(v, "call"), At(w, "call")
                 PROVE  v = w
      BY DEF OneCall
    <2>1. Called(v) /\ Called(w) /\ Seen(v).inv = Seen(w).inv
      BY DEF AttemptInv, OneCaller, Called, At
    <2>2. QED BY <2>1 DEF AttemptInv, OneCaller
  <1>2. QED BY <1>1, AttemptsAreConsistent, PTL

\* Two workers ask the provider about the account at once only when the batch
\* lease of one ran out on the way (claim_settlement_provider_batch).
THEOREM OneBatchAtATime == Spec => []OneBatch
  <1>1. AttemptInv => OneBatch
    <2> SUFFICES ASSUME AttemptInv, NEW v \in Workers, NEW w \in Workers,
                        v # w, Calling(v), Calling(w)
                 PROVE  work[v].lapsed \/ work[w].lapsed
      BY DEF OneBatch
    <2>1. InBatch(v) /\ InBatch(w)
      BY DEF Calling, InBatch, Called
    <2>2. QED BY <2>1 DEF AttemptInv, BatchIsHeld, HoldsBatch
  <1>2. QED BY <1>1, AttemptsAreConsistent, PTL

\* A worker's step leaves the others alone, and only Start begins a call.
LEMMA CallsStart ==
    ASSUME AttemptInv, NEW w \in Workers, Step(w) \/ Renew(w) \/ Abort(w) \/ Crash(w)
    PROVE  /\ \A v \in Workers \ {w} : work'[v] = work[v]
           /\ work'[w].pc = "call" => At(w, "call") \/ (Start(w) /\ Startable(w))
  <1>1. work \in [Workers -> Works] /\ work[w] \in Works
    BY DEF AttemptInv, TypeOK
  <1>2. CASE Survey(w)
    BY <1>1, <1>2 DEF Survey, Works
  <1>3. CASE List(w)
    BY <1>1, <1>3 DEF List, Works
  <1>4. CASE ReadAudit(w)
    BY <1>1, <1>4 DEF ReadAudit, Works
  <1>5. CASE Reconcile(w)
    BY <1>1, <1>5 DEF Reconcile, Works, Idle
  <1>6. CASE Sort(w)
    BY <1>1, <1>6 DEF Sort, End, Go, Works, Idle
  <1>7. CASE Plan(w)
    BY <1>1, <1>7 DEF Plan, Works, Idle, At
  <1>8. CASE ClaimBatch(w)
    BY <1>1, <1>8 DEF ClaimBatch, End, Go, Works, Idle
  <1>9. CASE Reserve(w)
    BY <1>1, <1>9 DEF Reserve, Fail, Leave, Works, Idle
  <1>10. CASE OtherCase(w)
    BY <1>1, <1>10 DEF OtherCase, Leave, Works, Idle
  <1>11. CASE OtherDone(w)
    BY <1>1, <1>11 DEF OtherDone, Leave, Go, Works, Idle
  <1>12. CASE Prepare(w)
    BY <1>1, <1>12 DEF Prepare, Leave, Works, Idle
  <1>13. CASE GiveUp(w)
    BY <1>1, <1>13 DEF GiveUp, Leave, Works, Idle
  <1>14. CASE Start(w)
    BY <1>1, <1>14 DEF Start, Fail, Leave, Go, Works, Idle
  <1>15. CASE Collected(w)
    BY <1>1, <1>15 DEF Collected, Fail, Leave, Works, Idle
  <1>16. CASE Finish(w)
    BY <1>1, <1>16 DEF Finish, Fail, Leave, Go, Works, Idle
  <1>17. CASE Commit(w)
    BY <1>1, <1>17 DEF Commit, Go, Works
  <1>18. CASE Replace(w)
    BY <1>1, <1>18 DEF Replace, Fail, Leave, Works, Idle
  <1>19. CASE Settle(w)
    BY <1>1, <1>19 DEF Settle, Leave, Works, Idle
  <1>20. CASE Close(w)
    BY <1>1, <1>20 DEF Close, End, Works, Idle
  <1>21. CASE Renew(w)
    BY <1>1, <1>21 DEF Renew, At
  <1>22. CASE Abort(w)
    BY <1>1, <1>22 DEF Abort, Leave, End, Works, Idle
  <1>23. CASE Crash(w)
    BY <1>1, <1>23 DEF Crash, End, Works, Idle
  <1>24. CASE Unattempted(w)
    BY <1>1, <1>24 DEF Unattempted, End, Leave, Works, Idle, At
  <1>25. QED
    BY <1>2, <1>3, <1>4, <1>5, <1>6, <1>7, <1>8, <1>9, <1>10, <1>11, <1>12, <1>13, <1>14, <1>15,
       <1>16, <1>17, <1>18, <1>19, <1>20, <1>21, <1>22, <1>23, <1>24 DEF Step

\* No invocation is used for two calls, also not by a second worker who takes
\* over the reservation of a dead one (reserve_settlement_attempt_invocation).
THEOREM CallsAreBegunOnce == Spec => BegunOnce
  <1>1. ASSUME AttemptInv, [Next]_vars, NEW w \in Workers, ~At(w, "call"), work'[w].pc = "call"
        PROVE  row.inv \notin begun
    <2>1. ASSUME NEW v \in Workers, Step(v) \/ Renew(v) \/ Abort(v) \/ Crash(v)
          PROVE  row.inv \notin begun
      <3>1. v = w /\ Startable(w)
        BY <1>1, <2>1, CallsStart DEF At
      <3>2. QED BY <1>1, <3>1 DEF Startable, AttemptInv, InvocationsAreFresh
    <2>2. CASE Tick
      <3>1. work' = [v \in Workers |-> Ticked(v)]
        BY <2>2, Zenon DEF Tick, Ticked, Lapsed, Seen
      <3>2. Ticked(w).pc = work[w].pc
        <4>1. work[w] \in Works /\ Older(Seen(w)) \in MaybeRow /\ Lapsed(w) \in BOOLEAN
          BY <1>1, OlderRow DEF AttemptInv, TypeOK, Works, Seen, MaybeRow, Lapsed
        <4>2. SeenAndLapsed(Ticked(w), work[w], Older(Seen(w)), Lapsed(w))
          BY Zenon DEF Ticked, SeenAndLapsed
        <4>3. QED BY <4>1, <4>2, SeenAndLapsedSet
      <3>3. QED BY <1>1, <3>1, <3>2 DEF At
    <2>3. CASE UNCHANGED work
      BY <1>1, <2>3 DEF At
    <2>4. QED
      BY <1>1, <2>1, <2>2, <2>3 DEF Next, vars, Evidence, OperatorReads, OperatorResolves
  <1>2. AttemptInv /\ [Next]_vars =>
          [\A w \in Workers : ~At(w, "call") /\ work'[w].pc = "call" => row.inv \notin begun]_vars
    BY <1>1
  <1>3. QED BY <1>2, AttemptsAreConsistent, PTL DEF Spec, BegunOnce

\* Where a row with a call begun may go in a step.
Followed ==
    /\ row.state = "started" => row'.inv = row.inv /\ row'.state \in {"started", "finished", "ambiguous"}
    /\ row.state = "finished" => row'.inv = row.inv /\ row'.state \in {"finished", "committed", "ambiguous"}
    /\ row.state = "ambiguous" /\ row'.state # "ambiguous" => row.inv \in counted' \cup undone'

LEMMA SameRow == ASSUME row'.inv = row.inv, row'.state = row.state PROVE Followed
  BY DEF Followed

LEMMA ReconciledFollows ==
    ASSUME AttemptInv, NEW found, row' = Reconciled(row, found) PROVE Followed
  <1>1. row \in MaybeRow
    BY DEF AttemptInv, TypeOK, MaybeRow
  <1>2. QED BY <1>1, ReconciledRow DEF Followed

\* The row of a call that was begun is nobody's to plan, reserve or complete.
LEMMA RowFollows ==
    ASSUME AttemptInv, [Next]_vars, row.state \in {"started", "finished", "ambiguous"}
    PROVE  Followed
  <1>1. row \in Rows
    BY RealRow DEF AttemptInv, TypeOK, MaybeRow, States
  <1>2. row' = row \/ row' = [row EXCEPT !.until = Lease] => Followed
    BY <1>1, RenewedRow, SameRow
  <1>3. ASSUME NEW w \in Workers, Step(w) \/ Renew(w) \/ Abort(w) \/ Crash(w) PROVE Followed
    <2>1. CASE Reconcile(w)
      <3>1. row' = row \/ row' = Reconciled(row, work[w].found)
        BY <2>1 DEF Reconcile
      <3>2. QED BY <1>2, <3>1, ReconciledFollows
    <2>2. CASE Settle(w)
      <3>1. row' = row \/ \E found : row' = Reconciled(row, found)
        BY <2>2 DEF Settle
      <3>2. QED BY <1>2, <3>1, ReconciledFollows
    <2>3. CASE Finish(w)
      <3>1. CASE Fail(w)
        BY <1>2, <3>1 DEF Fail
      <3>2. CASE row.state = "started"
        <4>1. PICK o : o = work[w].out
          OBVIOUS
        <4>2. PICK a : a = After(row, o)
          OBVIOUS
        <4>3. o \in Outcomes
          BY <4>1 DEF AttemptInv, TypeOK, Works
        <4>4. a \in Rows /\ a.inv = row.inv
          BY <1>1, <4>2, <4>3, AfterRow
        <4>5. row' = [a EXCEPT !.state = "finished", !.pending = o] \/ row' = row
          BY <2>3, <4>1, <4>2 DEF Finish, Fail
        <4>6. QED BY <1>2, <3>2, <4>4, <4>5 DEF Followed, Rows
      <3>3. QED BY <2>3, <3>1, <3>2 DEF Finish
    <2>4. CASE Replace(w)
      <3>1. CASE Fail(w)
        BY <1>2, <3>1 DEF Fail
      <3>2. ASSUME row.state = "finished", NEW o \in {"failed", "stale"},
                   row' = [After(row, o) EXCEPT !.pending = o]
            PROVE  Followed
        <4>1. PICK a : a = After(row, o)
          OBVIOUS
        <4>2. a \in Rows /\ a.inv = row.inv /\ a.state = row.state
          BY <1>1, <4>1, AfterRow DEF Outcomes
        <4>3. row' = [a EXCEPT !.pending = o]
          BY <3>2, <4>1
        <4>4. row'.inv = row.inv /\ row'.state = row.state
          BY <4>2, <4>3 DEF Rows
        <4>5. QED BY <4>4, SameRow
      <3>3. QED BY <2>4, <3>1, <3>2 DEF Replace
    <2>5. CASE Plan(w) \/ Unattempted(w)
      <3>1. row' = row
        BY <2>5 DEF Plan, Unattempted, Refused
      <3>2. QED BY <1>2, <3>1
    <2>6. CASE Reserve(w) \/ Start(w)
      <3>1. row' = row
        BY <2>6 DEF Reserve, Reservable, Start, Startable, Fail
      <3>2. QED BY <1>2, <3>1
    <2>7. CASE Prepare(w) \/ GiveUp(w)
      <3>1. row' = row \/ row' = [row EXCEPT !.until = Lease]
        BY <2>7 DEF Prepare, GiveUp, Completable
      <3>2. QED BY <1>2, <3>1
    <2>8. CASE Collected(w) \/ Renew(w)
      <3>1. row' = row \/ row' = [row EXCEPT !.until = Lease]
        BY <2>8 DEF Collected, Renew, Fail
      <3>2. QED BY <1>2, <3>1
    <2>9. CASE row' = row
      BY <1>2, <2>9
    <2>10. QED
      BY <1>3, <2>1, <2>2, <2>3, <2>4, <2>5, <2>6, <2>7, <2>8, <2>9
         DEF Step, Survey, List, ReadAudit, Sort, ClaimBatch, OtherCase, OtherDone, Commit, Close,
             Abort, Crash
  <1>4. CASE Tick
    <2>1. row' = Older(row)
      BY <1>4, Zenon DEF Tick
    <2>2. QED BY <1>1, <2>1, OlderRow, SameRow DEF MaybeRow
  <1>5. CASE OperatorResolves
    <2>1. CASE row' = row
      BY <1>2, <2>1
    <2>2. CASE row.state = "ambiguous" /\ row' = Freed([row EXCEPT !.state = "committed"])
      <3>1. row'.state = "committed"
        BY <1>1, <2>2, FreedAs DEF States
      <3>2. QED BY <1>5, <2>2, <3>1 DEF OperatorResolves, Counting, Followed
    <2>3. CASE row.state = "ambiguous" /\ undone' = undone \cup {row.inv}
      BY <2>3 DEF Followed
    <2>4. QED BY <1>5, <2>1, <2>2, <2>3 DEF OperatorResolves
  <1>6. CASE row' = row
    BY <1>2, <1>6
  <1>7. QED BY <1>3, <1>4, <1>5, <1>6 DEF Next, vars, Evidence, OperatorReads

\* No call that was begun is lost from the row without its audit or the
\* operator's word (upsert_settlement_attempt_state, the reconciler).
THEOREM CallsAreNotForgotten == Spec => NothingForgotten
  <1>1. AttemptInv /\ [Next]_vars => Followed
    BY RowFollows DEF Followed
  <1>2. AttemptInv /\ [Next]_vars => [Followed]_vars
    BY <1>1
  <1>3. NothingForgotten <=> [][Followed]_vars
    BY PTL DEF NothingForgotten, Followed
  <1>4. QED BY <1>2, <1>3, AttemptsAreConsistent, PTL DEF Spec
==============================================================================
