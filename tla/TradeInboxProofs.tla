-------------------------- MODULE TradeInboxProofs --------------------------
(***************************************************************************)
(* Theorems about TradeInbox for every set of workers and payloads, every  *)
(* bound and every set of sources:                                         *)
(*   TypeCorrect       the variables keep their types;                     *)
(*   InvariantHolds    the inductive invariant behind the others;          *)
(*   RecordedIsBooked  nothing is called recorded that is not booked;      *)
(*   TradesStayVisible nothing is put away without an effect and unseen;   *)
(*   AdoptionFenced    only the holder of the writer lock whose claim and  *)
(*                     version are still the row's changes the ledger;     *)
(*   EvidenceIsJudged, AdoptionFollowsEvidence                             *)
(*                     where no lookup contradicts the configured          *)
(*                     underlying, the ledger books what the evidence says;*)
(*   InboxKeepsPromise every behaviour of the inbox is one of              *)
(*                     TradeAdoption.                                      *)
(***************************************************************************)
EXTENDS TradeInbox, TLAPS

-----------------------------------------------------------------------------
(* What the operators return.                                              *)

LEMMA MkType ==
    ASSUME NEW st \in Ends, NEW kind \in Kinds, NEW retry \in BOOLEAN, NEW exc \in BOOLEAN
    PROVE  Mk(st, kind, retry, exc) \in Result
  BY DEF Mk, Result

LEMMA PolicyType ==
    ASSUME NEW r \in Result, NEW att \in Nat
    PROVE  Policy(att, r) \in Result
  BY DEF Policy, Result, Kinds, Ends

LEMMA VerifyType ==
    ASSUME NEW r \in Result
    PROVE  Verify(r) \in Result
  BY DEF Verify, Result, Mk, Kinds, Ends, Open, NoRes

LEMMA ReadbackType ==
    ASSUME NEW r \in Result, NEW econ, NEW assoc
    PROVE  Readback(r, econ, assoc) \in Result
  <1>1. Verify(r) \in Result BY VerifyType
  <1>2. QED BY <1>1, MkType DEF Readback, Kinds, Ends, Result, NoRes, Mk

\* A row stays a row under every update of one field.
LEMMA RowUpdates ==
    ASSUME NEW r \in Rows
    PROVE  /\ \A x \in RowStatuses : [r EXCEPT !.status = x] \in Rows
           /\ \A x \in Reasons : [r EXCEPT !.reason = x] \in Rows
           /\ \A x \in Nat : [r EXCEPT !.ver = x] \in Rows
           /\ \A x \in Workers \cup {None} : [r EXCEPT !.claim = x] \in Rows
           /\ \A x \in 0..Lease : [r EXCEPT !.lease = x] \in Rows
           /\ \A x \in 0..MaxAttempts : [r EXCEPT !.att = x] \in Rows
           /\ \A x \in 0..1 : [r EXCEPT !.wait = x] \in Rows
           /\ \A x \in {"none", "enrichment", "resumed"} : [r EXCEPT !.note = x] \in Rows
           /\ \A x \in BOOLEAN : [r EXCEPT !.allowed = x] \in Rows
           /\ \A x \in BOOLEAN : [r EXCEPT !.muted = x] \in Rows
           /\ \A x \in Sources : [r EXCEPT !.src = x] \in Rows
           /\ \A x \in Payloads : [r EXCEPT !.pay = x] \in Rows
           /\ \A x \in Result : [r EXCEPT !.res = x] \in Rows
           /\ \A x \in Kinds \ {"null"} : [r EXCEPT !.env = x] \in Rows
  BY DEF Rows

LEMMA FencedType ==
    ASSUME NEW r \in Rows
    PROVE  Unclaimed(r) \in Rows /\ Fenced(r) \in Rows
  <1>1. None \in Workers \cup {None} /\ 0 \in 0..Lease
    BY BoundsAssumption
  <1>2. [r EXCEPT !.claim = None] \in Rows
    BY <1>1, RowUpdates
  <1>3. Unclaimed(r) \in Rows
    BY <1>1, <1>2, RowUpdates DEF Unclaimed
  <1>4. Unclaimed(r).ver + 1 \in Nat
    BY <1>3 DEF Rows
  <1>5. Fenced(r) \in Rows
    BY <1>3, <1>4, RowUpdates DEF Fenced
  <1>6. QED BY <1>3, <1>5

LEMMA StoredType ==
    ASSUME NEW r \in Rows, NEW res \in Result
    PROVE  Stored(r, res) \in Rows
  <1> DEFINE a == [r EXCEPT !.res = res]
             b == [a EXCEPT !.reason = "none"]
             e == IF Enveloped(r, res) THEN res.kind ELSE r.env
  <1>1. a \in Rows BY RowUpdates
  <1>2. b \in Rows BY <1>1, RowUpdates DEF Reasons
  <1>3. e \in Kinds \ {"null"} BY DEF Rows, Enveloped, Result
  <1>4. [b EXCEPT !.env = e] \in Rows BY <1>2, <1>3, RowUpdates
  <1>5. Stored(r, res) = [b EXCEPT !.env = e] BY DEF Stored
  <1>6. QED BY <1>4, <1>5

LEMMA SettledType ==
    ASSUME NEW r \in Rows, NEW res \in Result, NEW retry \in BOOLEAN
    PROVE  Settled(r, res, retry, "none") \in Rows
  <1> DEFINE new == Policy(r.att, res)
             u == Unclaimed(Stored(r, new))
             st == CASE new.kind \in {"recorded", "manual_required"} -> "handled"
                     [] new.kind = "verification_pending"            -> "pending"
                     [] OTHER -> IF retry THEN "pending" ELSE "handled"
  <1>1. new \in Result BY PolicyType DEF Rows
  <1>2. u \in Rows BY <1>1, StoredType, FencedType
  <1>3. st \in RowStatuses BY DEF RowStatuses
  <1>4. [u EXCEPT !.status = st] \in Rows BY <1>2, <1>3, RowUpdates
  <1>5. [[u EXCEPT !.status = st] EXCEPT !.wait = 1] \in Rows
    <2>1. 1 \in 0..1 OBVIOUS
    <2>2. QED BY <1>4, <2>1, RowUpdates
  <1>6. [[[u EXCEPT !.status = st] EXCEPT !.wait = 1] EXCEPT !.note = "none"] \in Rows
    BY <1>5, RowUpdates
  <1>7. QED BY <1>6 DEF Settled

LEMMA RecoveredType ==
    ASSUME NEW r \in Rows, NEW res \in Result
    PROVE  Recovered(r, res) \in Rows
  <1> DEFINE u == Unclaimed(Stored(r, res))
             st == IF res.kind \in {"pending_retry", "verification_pending"}
                     THEN "pending" ELSE "handled"
             wt == IF res.kind = "verification_pending" THEN 1 ELSE u.wait
  <1>1. u \in Rows BY StoredType, FencedType
  <1>2. st \in RowStatuses BY DEF RowStatuses
  <1>3. [u EXCEPT !.status = st] \in Rows BY <1>1, <1>2, RowUpdates
  <1>4. wt \in 0..1 BY <1>1 DEF Rows
  <1>5. [[u EXCEPT !.status = st] EXCEPT !.wait = wt] \in Rows BY <1>3, <1>4, RowUpdates
  <1>6. Recovered(r, res) = [[u EXCEPT !.status = st] EXCEPT !.wait = wt]
    BY DEF Recovered
  <1>7. QED BY <1>5, <1>6

LEMMA ReasonType ==
    ASSUME NEW ev, NEW p \in Payloads, NEW new \in BOOLEAN
    PROVE  ConflictReason(ev, p, new) \in Reasons
  BY DEF ConflictReason, Reasons

LEMMA JudgedType ==
    ASSUME NEW r \in Rows, NEW s \in Sources, NEW p \in Payloads, NEW why \in Reasons,
           NEW new \in BOOLEAN
    PROVE  Judged(r, s, p, why, new) \in Rows
  <1> DEFINE f == Fenced(r)
             c1 == [f EXCEPT !.status = "conflict"]
             c2 == [c1 EXCEPT !.reason = why]
             c3 == [c2 EXCEPT !.note = "none"]
             p1 == [f EXCEPT !.status = "pending"]
             p2 == [p1 EXCEPT !.reason = "cleared"]
             p3 == [p2 EXCEPT !.note = "none"]
             p4 == [p3 EXCEPT !.src = s]
             p5 == [p4 EXCEPT !.pay = p]
  <1>1. f \in Rows BY FencedType
  <1>2. c1 \in Rows /\ p1 \in Rows BY <1>1, RowUpdates DEF RowStatuses
  <1>3. c2 \in Rows /\ p2 \in Rows BY <1>2, RowUpdates DEF Reasons
  <1>4. c3 \in Rows /\ p3 \in Rows BY <1>3, RowUpdates
  <1>5. p4 \in Rows BY <1>4, RowUpdates
  <1>6. p5 \in Rows BY <1>5, RowUpdates
  <1>7. Judged(r, s, p, why, new) \in {c3, p5, r} BY DEF Judged
  <1>8. QED BY <1>4, <1>6, <1>7

LEMMA EnrichedType ==
    ASSUME NEW r \in Rows, NEW r0 \in Rows, NEW why, NEW p, NEW known
    PROVE  Enriched(r, r0, why, p, known) \in Rows
  <1> DEFINE f  == Fenced(r)
             e1 == [f EXCEPT !.status = "pending"]
             e2 == [e1 EXCEPT !.wait = 0]
             e3 == [e2 EXCEPT !.note = "enrichment"]
             al == f.allowed /\ effect = None /\ r0.res.st # "not_option_deal"
             e4 == [e3 EXCEPT !.allowed = al]
  <1>1. f \in Rows BY FencedType
  <1>2. e1 \in Rows BY <1>1, RowUpdates DEF RowStatuses
  <1>3. e2 \in Rows
    <2>1. 0 \in 0..1 OBVIOUS
    <2>2. QED BY <1>2, <2>1, RowUpdates
  <1>4. e3 \in Rows BY <1>3, RowUpdates
  <1>5. al \in BOOLEAN OBVIOUS
  <1>6. e4 \in Rows BY <1>4, <1>5, RowUpdates
  <1>7. Enriched(r, r0, why, p, known) \in {r, f, e4} BY DEF Enriched
  <1>8. QED BY <1>1, <1>6, <1>7

LEMMA ReviewedType ==
    ASSUME NEW r \in Rows, NEW r0
    PROVE  Reviewed(r, r0) \in Rows
  <1> DEFINE f  == Fenced(r)
             q1 == [f EXCEPT !.status = "identity_needs_review"]
             q2 == [q1 EXCEPT !.reason = "underlying"]
             q3 == [q2 EXCEPT !.note = "none"]
  <1>1. f \in Rows BY FencedType
  <1>2. q1 \in Rows BY <1>1, RowUpdates DEF RowStatuses
  <1>3. q2 \in Rows BY <1>2, RowUpdates DEF Reasons
  <1>4. q3 \in Rows BY <1>3, RowUpdates
  <1>5. Reviewed(r, r0) \in {r, q3} BY DEF Reviewed
  <1>6. QED BY <1>4, <1>5

LEMMA BlankType ==
    ASSUME NEW s \in Sources, NEW p \in Payloads, NEW al \in BOOLEAN
    PROVE  Blank("pending", 1, s, p, al) \in Rows
  <1>1. 0 \in 0..Lease /\ 0 \in 0..MaxAttempts /\ 0 \in 0..1
    BY BoundsAssumption
  <1>2. NoRes \in Result
    BY DEF NoRes, Mk, Result, Ends, Kinds
  <1>3. QED
    BY <1>1, <1>2 DEF Blank, Rows, RowStatuses, Reasons, Kinds

LEMMA ReceivedType ==
    ASSUME row \in Rows \cup {Absent}, NEW s \in Sources, NEW p \in Payloads,
           NEW und \in BOOLEAN
    PROVE  Received(s, p, und) \in Rows
  <1> DEFINE new   == [src |-> s, pay |-> p] \notin evidence
             ev    == evidence \cup {[src |-> s, pay |-> p]}
             first == row.status = "absent"
             fresh == Blank("pending", 1, s, p, effect = None)
             r0    == IF first THEN fresh ELSE row
             why   == ConflictReason(ev, p, new)
             known == first \/ \E e \in evidence : e.pay.assoc # None
             r1    == Judged(r0, s, p, why, new)
             r2    == IF und /\ r0.status = "handled" THEN r1 ELSE Enriched(r1, r0, why, p, known)
  <1>1. fresh \in Rows BY BlankType
  <1>2. row = Absent => first BY DEF Absent, Blank
  <1>3. r0 \in Rows BY <1>1, <1>2
  <1>4. why \in Reasons BY ReasonType
  <1>5. r1 \in Rows BY <1>3, <1>4, JudgedType
  <1>6. r2 \in Rows BY <1>3, <1>5, EnrichedType
  <1>7. Reviewed(r2, r0) \in Rows BY <1>6, ReviewedType
  <1>8. Received(s, p, und) \in {r0, r2, Reviewed(r2, r0)} BY DEF Received
  <1>9. QED BY <1>3, <1>6, <1>7, <1>8

LEMMA IdleType == Idle \in Works
  BY DEF Idle, Works, PCs, NoRes, Mk, Result, Ends, Kinds

LEMMA WorkUpdates ==
    ASSUME NEW k \in Works
    PROVE  /\ \A x \in PCs : [k EXCEPT !.pc = x] \in Works
           /\ \A x \in Sources \cup {None} : [k EXCEPT !.src = x] \in Works
           /\ \A x \in Payloads \cup {None} : [k EXCEPT !.pay = x] \in Works
           /\ \A x \in Nat : [k EXCEPT !.ver = x] \in Works
           /\ \A x \in {p.assoc : p \in Payloads} \cup {None} : [k EXCEPT !.assoc = x] \in Works
           /\ \A x \in BOOLEAN : [k EXCEPT !.newA = x] \in Works
           /\ \A x \in BOOLEAN : [k EXCEPT !.allowed = x] \in Works
           /\ \A x \in BOOLEAN : [k EXCEPT !.again = x] \in Works
           /\ \A x \in Result : [k EXCEPT !.res = x] \in Works
           /\ \A x \in BOOLEAN : [k EXCEPT !.verify = x] \in Works
  BY DEF Works

LEMMA ResolvedType ==
    ASSUME NEW k \in Works, NEW res \in Result, NEW verify \in BOOLEAN
    PROVE  Resolved(k, res, verify) \in Works
  <1> DEFINE i1 == [Idle EXCEPT !.pc = "resolved"]
             i2 == [i1 EXCEPT !.ver = k.ver]
             i3 == [i2 EXCEPT !.res = res]
             i4 == [i3 EXCEPT !.verify = verify]
             pay == IF verify THEN k.pay ELSE None
             assoc == IF verify THEN k.assoc ELSE None
             i5 == [i4 EXCEPT !.pay = pay]
             i6 == [i5 EXCEPT !.assoc = assoc]
  <1>1. i1 \in Works BY IdleType, WorkUpdates DEF PCs
  <1>2. k.ver \in Nat /\ pay \in Payloads \cup {None}
        /\ assoc \in {p.assoc : p \in Payloads} \cup {None}
    BY DEF Works
  <1>3. i2 \in Works BY <1>1, <1>2, WorkUpdates
  <1>4. i3 \in Works BY <1>3, WorkUpdates
  <1>5. i4 \in Works BY <1>4, WorkUpdates
  <1>6. i5 \in Works BY <1>2, <1>5, WorkUpdates
  <1>7. i6 \in Works BY <1>2, <1>6, WorkUpdates
  <1>8. Resolved(k, res, verify) = i6 BY DEF Resolved
  <1>9. QED BY <1>7, <1>8

LEMMA ResolvedFields ==
    ASSUME NEW k, NEW res, NEW verify
    PROVE  /\ Resolved(k, res, verify).pc = "resolved"
           /\ Resolved(k, res, verify).res = res
           /\ Resolved(k, res, verify).ver = k.ver
  BY DEF Resolved, Idle

LEMMA KnownAssocType ==
    ASSUME NEW p \in Payloads, evidence \subseteq [src : Sources, pay : Payloads]
    PROVE  KnownAssoc(p) \in {q.assoc : q \in Payloads} \cup {None}
  <1>1. CASE p.assoc # None
    BY <1>1 DEF KnownAssoc
  <1>2. CASE p.assoc = None /\ \E e \in evidence : e.pay.assoc # None
    <2> DEFINE A == {e.pay.assoc : e \in evidence}
    <2>1. \E a \in A : a # None BY <1>2
    <2>2. (CHOOSE a \in A : a # None) \in A BY <2>1
    <2>3. A \subseteq {q.assoc : q \in Payloads} OBVIOUS
    <2>4. QED BY <1>2, <2>2, <2>3 DEF KnownAssoc
  <1>3. CASE p.assoc = None /\ ~(\E e \in evidence : e.pay.assoc # None)
    BY <1>3 DEF KnownAssoc
  <1>4. QED BY <1>1, <1>2, <1>3

\* Whether a lookup contradicts the configured underlying is yes or no.
LEMMA UndIsBoolean == {FALSE, Reviews} \subseteq BOOLEAN
  BY BoundsAssumption

-----------------------------------------------------------------------------
(* Type correctness.                                                       *)

TypeInv == TypeOK /\ PayloadInHand

AbsEffects == [econ : {p.econ : p \in Payloads}, assoc : {p.assoc : p \in Payloads} \cup {None}]

LEMMA PendingIsRow ==
    ASSUME TypeOK, row.status # "absent"
    PROVE  row \in Rows
  BY DEF TypeOK, Absent, Blank

LEMMA BookedType ==
    ASSUME TypeInv, NEW w \in Workers, work[w].pc = "commit"
    PROVE  Booked(w) \in AbsEffects
  <1>1. work[w] \in Works BY DEF TypeInv, TypeOK
  <1>2. work[w].pay \in Payloads BY DEF TypeInv, PayloadInHand
  <1>3. QED BY <1>1, <1>2 DEF Booked, AbsEffects, Works

\* A deal the ledger does not hold: what the attempt to book it can end as.
LEMMA FirstOutcome ==
    ASSUME NEW w, NEW o \in FirstOutcomes(w)
    PROVE  \E b \in {None, Booked(w)}, st \in {"applied", "unresolved", "failed"},
              retry \in BOOLEAN, exc \in BOOLEAN, verify \in BOOLEAN :
             /\ o = <<b, Mk(st, "none", retry, exc), verify>>
             /\ st = "applied" => b = Booked(w)
  <1>1. CASE o = <<Booked(w), Mk("applied", "none", FALSE, FALSE), FALSE>> BY <1>1
  <1>2. CASE o = <<Booked(w), Mk("failed", "none", FALSE, FALSE), FALSE>> BY <1>2
  <1>3. ASSUME NEW retry \in BOOLEAN, o = <<None, Mk("unresolved", "none", retry, FALSE), FALSE>>
        PROVE  \E b \in {None, Booked(w)}, st \in {"applied", "unresolved", "failed"},
                  r \in BOOLEAN, exc \in BOOLEAN, verify \in BOOLEAN :
                 /\ o = <<b, Mk(st, "none", r, exc), verify>>
                 /\ st = "applied" => b = Booked(w)
    BY <1>3
  <1>4. ASSUME NEW b \in {None, Booked(w)}, NEW retry \in BOOLEAN,
               o = <<b, Mk("failed", "none", retry, TRUE), TRUE>>
        PROVE  \E c \in {None, Booked(w)}, st \in {"applied", "unresolved", "failed"},
                  r \in BOOLEAN, exc \in BOOLEAN, verify \in BOOLEAN :
                 /\ o = <<c, Mk(st, "none", r, exc), verify>>
                 /\ st = "applied" => c = Booked(w)
    BY <1>4
  <1>5. ASSUME NEW e, o \in Raised(e)
        PROVE  \E retry \in BOOLEAN : o = <<e, Mk("failed", "none", retry, TRUE), TRUE>>
    BY <1>5, Zenon DEF Raised
  <1>6. ASSUME o \in Unresolved
        PROVE  \E retry \in BOOLEAN : o = <<None, Mk("unresolved", "none", retry, FALSE), FALSE>>
    BY <1>6, Zenon DEF Unresolved
  <1>7. CASE o \in Raised(None)
    <2>1. PICK retry \in BOOLEAN : o = <<None, Mk("failed", "none", retry, TRUE), TRUE>>
      BY <1>5, <1>7
    <2>2. QED BY <1>4, <2>1
  <1>8. CASE o \in Raised(Booked(w))
    <2>1. PICK retry \in BOOLEAN : o = <<Booked(w), Mk("failed", "none", retry, TRUE), TRUE>>
      BY <1>5, <1>8
    <2>2. QED BY <1>4, <2>1
  <1>9. CASE o \in Unresolved
    <2>1. PICK retry \in BOOLEAN : o = <<None, Mk("unresolved", "none", retry, FALSE), FALSE>>
      BY <1>6, <1>9
    <2>2. QED BY <1>3, <2>1
  <1>10. \/ o = <<Booked(w), Mk("applied", "none", FALSE, FALSE), FALSE>>
         \/ o = <<Booked(w), Mk("failed", "none", FALSE, FALSE), FALSE>>
         \/ o \in Unresolved \/ o \in Raised(None) \/ o \in Raised(Booked(w))
    BY DEF FirstOutcomes
  <1>11. QED BY <1>1, <1>2, <1>7, <1>8, <1>9, <1>10

LEMMA OutcomesType ==
    ASSUME TypeInv, NEW w \in Workers, work[w].pc = "commit", NEW o \in Outcomes(w)
    PROVE  /\ o[1] \in {None} \cup AbsEffects
           /\ o[2] \in Result
           /\ o[3] \in BOOLEAN
  <1> DEFINE e == [effect EXCEPT !.assoc = IF @ = None THEN work[w].assoc ELSE @]
  <1>1. Booked(w) \in AbsEffects BY BookedType
  <1>2. work[w] \in Works /\ effect \in {None} \cup AbsEffects
    BY DEF TypeInv, TypeOK, AbsEffects
  <1>3. effect # None => e \in AbsEffects BY <1>2 DEF AbsEffects, Works
  <1>4. CASE effect # None /\ ~Agrees(work[w].pay.econ, work[w].assoc)
    <2>1. o = <<effect, Mk("unresolved", "none", FALSE, FALSE), FALSE>>
      BY <1>4 DEF Outcomes
    <2>2. QED BY <1>2, <2>1, MkType DEF Ends, Kinds
  <1>5. CASE effect # None /\ Agrees(work[w].pay.econ, work[w].assoc)
    <2> DEFINE st == IF work[w].allowed THEN "applied" ELSE "ledger_recorded"
    <2>1. o = <<e, Mk(st, "none", FALSE, FALSE), FALSE>>
      BY <1>5 DEF Outcomes
    <2>2. st \in Ends BY DEF Ends
    <2>3. QED BY <1>3, <1>5, <2>1, <2>2, MkType DEF Kinds
  <1>6. CASE effect = None
    <2>1. \E b \in {None, Booked(w)}, st \in Ends, retry \in BOOLEAN, exc \in BOOLEAN,
             again \in BOOLEAN : o = <<b, Mk(st, "none", retry, exc), again>>
      <3>1. CASE ~MayRetryEntry(w)
        <4>1. o = <<None, Mk("duplicate_deal_id", "none", FALSE, FALSE), FALSE>>
          BY <1>6, <3>1 DEF Outcomes
        <4>2. QED BY <4>1 DEF Ends
      <3>2. CASE MayRetryEntry(w)
        <4>1. o \in FirstOutcomes(w) BY <1>6, <3>2 DEF Outcomes
        <4>2. QED BY <4>1, FirstOutcome DEF Ends
      <3>3. QED BY <3>1, <3>2
    <2>2. QED BY <1>1, <2>1, MkType DEF Kinds
  <1>7. QED BY <1>4, <1>5, <1>6

\* A step that gives worker w a new, well-typed local state.
LEMMA WorkStep ==
    ASSUME TypeInv, NEW w \in Workers, NEW k \in Works,
           k.pc \in {"enqueued", "claimed", "commit"} => k.pay \in Payloads,
           work' = [work EXCEPT ![w] = k]
    PROVE  work' \in [Workers -> Works] /\ PayloadInHand'
  <1>1. work \in [Workers -> Works] BY DEF TypeInv, TypeOK
  <1>2. work' \in [Workers -> Works] BY <1>1
  <1>3. ASSUME NEW v \in Workers
        PROVE  work'[v] = IF v = w THEN k ELSE work[v]
    BY <1>1
  <1>4. PayloadInHand' BY <1>3 DEF TypeInv, PayloadInHand
  <1>5. QED BY <1>2, <1>4

LEMMA GoStep ==
    ASSUME TypeInv, NEW w \in Workers, NEW pc \in PCs, Go(w, pc),
           pc \in {"enqueued", "claimed", "commit"} => work[w].pay \in Payloads
    PROVE  work' \in [Workers -> Works] /\ PayloadInHand'
  <1> DEFINE k == [work[w] EXCEPT !.pc = pc]
  <1>1. work[w] \in Works BY DEF TypeInv, TypeOK
  <1>2. k \in Works BY <1>1, WorkUpdates
  <1>3. k.pc = pc /\ k.pay = work[w].pay BY <1>1 DEF Works
  <1>4. work' = [work EXCEPT ![w] = k] BY DEF Go
  <1>5. QED BY <1>2, <1>3, <1>4, WorkStep

LEMMA DropStep ==
    ASSUME TypeInv, NEW w \in Workers, Drop(w)
    PROVE  work' \in [Workers -> Works] /\ PayloadInHand'
  <1>1. Idle \in Works /\ Idle.pc = "idle" BY IdleType DEF Idle
  <1>2. QED BY <1>1, WorkStep DEF Drop

LEMMA EnqueueType ==
    ASSUME TypeOK, NEW s \in Sources, NEW p \in Payloads, NEW und \in BOOLEAN,
           Enqueue(s, p, und)
    PROVE  row' \in Rows /\ evidence' \subseteq [src : Sources, pay : Payloads]
  BY ReceivedType DEF TypeOK, Enqueue

\* The delivery a worker takes on.
LEMMA TakeStep ==
    ASSUME TypeInv, NEW w \in Workers, NEW s \in Sources, NEW p \in Payloads,
           work' = [work EXCEPT ![w] = [Idle EXCEPT !.pc = "enqueued", !.src = s, !.pay = p]]
    PROVE  work' \in [Workers -> Works] /\ PayloadInHand'
  <1> DEFINE k1 == [Idle EXCEPT !.pc = "enqueued"]
             k2 == [k1 EXCEPT !.src = s]
             k3 == [k2 EXCEPT !.pay = p]
  <1>1. k1 \in Works BY IdleType, WorkUpdates DEF PCs
  <1>2. k2 \in Works BY <1>1, WorkUpdates
  <1>3. k3 \in Works BY <1>2, WorkUpdates
  <1>4. k3.pay = p BY DEF Idle
  <1>5. work' = [work EXCEPT ![w] = k3] OBVIOUS
  <1>6. QED BY <1>3, <1>4, <1>5, WorkStep

LEMMA TypeInit == Init => TypeInv
  <1> SUFFICES ASSUME Init PROVE TypeInv OBVIOUS
  <1>1. work \in [Workers -> Works] BY IdleType DEF Init
  <1>2. PayloadInHand BY DEF Init, PayloadInHand, Idle
  <1>3. effect \in {None} \cup AbsEffects BY DEF Init, AbsEffects
  <1>4. resumes \in 0..MaxResumes BY BoundsAssumption DEF Init
  <1>5. QED BY <1>1, <1>2, <1>3, <1>4 DEF Init, TypeInv, TypeOK, AbsEffects, Buckets

LEMMA TypeStep == TypeInv /\ [Next]_vars => TypeInv'
  <1> SUFFICES ASSUME TypeInv, [Next]_vars PROVE TypeInv' OBVIOUS
  <1> USE DEF TypeInv
  <1>0. ASSUME NEW w \in Workers PROVE work[w] \in Works
    BY DEF TypeOK
  <1>1. ASSUME NEW w \in Workers, NEW s \in Sources \ {"lookup"}, NEW p \in Payloads,
               Receive(w, s, p)
        PROVE  TypeInv'
    <2>1. row' \in Rows /\ evidence' \subseteq [src : Sources, pay : Payloads]
      BY <1>1, EnqueueType DEF Receive
    <2>2. work' \in [Workers -> Works] /\ PayloadInHand'
      BY <1>1, TakeStep DEF Receive
    <2>3. QED BY <1>1, <2>1, <2>2 DEF Receive, TypeOK
  <1>2. ASSUME NEW w \in Workers, Retry(w) PROVE TypeInv'
    <2>1. row \in Rows BY <1>2, PendingIsRow DEF Retry, Claimable
    <2>2. row.src \in Sources /\ row.pay \in Payloads BY <2>1 DEF Rows
    <2>3. row' \in Rows /\ evidence' \subseteq [src : Sources, pay : Payloads]
      BY <1>2, <2>2, EnqueueType DEF Retry
    <2>4. work' \in [Workers -> Works] /\ PayloadInHand'
      BY <1>2, <2>2, TakeStep DEF Retry
    <2>5. QED BY <1>2, <2>3, <2>4 DEF Retry, TypeOK
  <1>3. ASSUME NEW w \in Workers, NEW p \in Payloads, NEW und \in BOOLEAN,
               LookupEvidence(w, p, und)
        PROVE  TypeInv'
    <2>1. row' \in Rows /\ evidence' \subseteq [src : Sources, pay : Payloads]
      BY <1>3, EnqueueType DEF LookupEvidence
    <2>2. work' \in [Workers -> Works] /\ PayloadInHand'
      <3>1. CASE Drop(w) BY <3>1, DropStep
      <3>2. CASE work' = [work EXCEPT ![w].pay = IF work[w].pc = "enqueued" THEN p ELSE @]
        <4> DEFINE x == IF work[w].pc = "enqueued" THEN p ELSE work[w].pay
                   k == [work[w] EXCEPT !.pay = x]
        <4>1. x \in Payloads
          BY <1>3 DEF LookupEvidence, PayloadInHand
        <4>2. k \in Works BY <1>0, <4>1, WorkUpdates
        <4>3. k.pay = x BY <1>0 DEF Works
        <4>4. work' = [work EXCEPT ![w] = k] BY <3>2
        <4>5. QED BY <4>1, <4>2, <4>3, <4>4, WorkStep
      <3>3. QED BY <1>3, <3>1, <3>2 DEF LookupEvidence
    <2>3. QED BY <1>3, <2>1, <2>2 DEF LookupEvidence, TypeOK
  <1>4. ASSUME NEW w \in Workers, MarkReview(w) PROVE TypeInv'
    <2>1. work' \in [Workers -> Works] /\ PayloadInHand'
      BY <1>4, DropStep DEF MarkReview
    <2>2. row' \in Rows \cup {Absent}
      <3>1. CASE row.status = "pending"
        <4> DEFINE u == Unclaimed(row)
                   q == [u EXCEPT !.status = "identity_needs_review"]
        <4>1. u \in Rows BY <3>1, PendingIsRow, FencedType
        <4>2. q \in Rows BY <4>1, RowUpdates DEF RowStatuses
        <4>3. [q EXCEPT !.note = "none"] \in Rows BY <4>2, RowUpdates
        <4>4. row' = [q EXCEPT !.note = "none"] BY <1>4, <3>1 DEF MarkReview
        <4>5. QED BY <4>3, <4>4
      <3>2. CASE row.status # "pending"
        BY <1>4, <3>2 DEF MarkReview, TypeOK
      <3>3. QED BY <3>1, <3>2
    <2>3. QED BY <1>4, <2>1, <2>2 DEF MarkReview, TypeOK
  <1>5. ASSUME NEW w \in Workers, NormalizeFails(w) PROVE TypeInv'
    <2>1. PICK busy \in BOOLEAN :
            work' = [work EXCEPT ![w] = Resolved(work[w],
                                          Mk("not_normalized", "none", busy, TRUE), FALSE)]
      BY <1>5 DEF NormalizeFails
    <2> DEFINE k == Resolved(work[w], Mk("not_normalized", "none", busy, TRUE), FALSE)
    <2>2. k \in Works
      <3>1. Mk("not_normalized", "none", busy, TRUE) \in Result BY MkType DEF Ends, Kinds
      <3>2. QED BY <1>0, <3>1, ResolvedType
    <2>3. k.pc = "resolved" BY DEF Resolved, Idle
    <2>4. work' = [work EXCEPT ![w] = k] BY <2>1
    <2>5. work' \in [Workers -> Works] /\ PayloadInHand'
      BY <2>2, <2>3, <2>4, WorkStep
    <2>6. QED BY <1>5, <2>5 DEF NormalizeFails, TypeOK
  <1>6. ASSUME NEW w \in Workers, EnterCommit(w) PROVE TypeInv'
    <2>1. work[w].pay \in Payloads BY <1>6 DEF EnterCommit, PayloadInHand
    <2>2. work' \in [Workers -> Works] /\ PayloadInHand'
      BY <1>6, <2>1, GoStep, DropStep DEF EnterCommit, PCs
    <2>3. QED BY <1>6, <2>2 DEF EnterCommit, TypeOK
  <1>7. ASSUME NEW w \in Workers, LedgerWrite(w) PROVE TypeInv'
    <2>1. PICK o \in Outcomes(w) : /\ effect' = o[1]
                                   /\ work' = [work EXCEPT ![w] = Resolved(work[w], o[2], o[3])]
      BY <1>7 DEF LedgerWrite
    <2>2. o[1] \in {None} \cup AbsEffects /\ o[2] \in Result /\ o[3] \in BOOLEAN
      BY <1>7, OutcomesType DEF LedgerWrite
    <2>3. Resolved(work[w], o[2], o[3]) \in Works
      BY <1>0, <2>2, ResolvedType
    <2>4. Resolved(work[w], o[2], o[3]).pc = "resolved" BY ResolvedFields
    <2>5. work' \in [Workers -> Works] /\ PayloadInHand'
      BY <2>1, <2>3, <2>4, WorkStep
    <2>6. QED BY <1>7, <2>1, <2>2, <2>5 DEF LedgerWrite, TypeOK, AbsEffects
  <1>8. ASSUME NEW w \in Workers, SkipNonOption(w) PROVE TypeInv'
    <2> DEFINE k == Resolved(work[w], Mk("not_option_deal", "none", FALSE, FALSE), FALSE)
    <2>1. Mk("not_option_deal", "none", FALSE, FALSE) \in Result BY MkType DEF Ends, Kinds
    <2>2. k \in Works BY <1>0, <2>1, ResolvedType
    <2>3. k.pc = "resolved" BY DEF Resolved, Idle
    <2>4. work' = [work EXCEPT ![w] = k] BY <1>8 DEF SkipNonOption
    <2>5. work' \in [Workers -> Works] /\ PayloadInHand'
      BY <2>2, <2>3, <2>4, WorkStep
    <2>6. QED BY <1>8, <2>5 DEF SkipNonOption, TypeOK
  <1>9. ASSUME NEW w \in Workers, Claim(w) PROVE TypeInv'
    <2>1. CASE Claimable(row)
      <3>1. row \in Rows BY <2>1, PendingIsRow DEF Claimable
      <3> DEFINE r1 == [row EXCEPT !.claim = w]
                 r2 == [r1 EXCEPT !.lease = Lease]
                 r3 == [r2 EXCEPT !.att = row.att + 1]
                 r4 == [r3 EXCEPT !.wait = 1]
                 k1 == [work[w] EXCEPT !.pc = "claimed"]
                 k2 == [k1 EXCEPT !.ver = row.ver]
                 k3 == [k2 EXCEPT !.src = None]
                 k4 == [k3 EXCEPT !.assoc = KnownAssoc(work[w].pay)]
                 na == row.pay.assoc = None /\ KnownAssoc(row.pay) # None
                 k5 == [k4 EXCEPT !.newA = na]
                 k6 == [k5 EXCEPT !.allowed = row.allowed]
                 ag == \/ row.note = "resumed"
                       \/ row.reason = "none" /\ Failed(row.res) /\ row.res.exc
                 k7 == [k6 EXCEPT !.again = ag]
      <3>2. Lease \in 0..Lease /\ row.att + 1 \in 0..MaxAttempts /\ 1 \in 0..1
        BY <2>1, <3>1, BoundsAssumption DEF Claimable, Rows
      <3>3. r1 \in Rows BY <3>1, RowUpdates
      <3>4. r2 \in Rows BY <3>2, <3>3, RowUpdates
      <3>5. r3 \in Rows BY <3>2, <3>4, RowUpdates
      <3>6. r4 \in Rows BY <3>2, <3>5, RowUpdates
      <3>7. work[w].pay \in Payloads BY <1>9 DEF Claim, PayloadInHand
      <3>8. KnownAssoc(work[w].pay) \in {q.assoc : q \in Payloads} \cup {None}
        BY <3>7, KnownAssocType DEF TypeOK
      <3>9. k1 \in Works BY <1>0, WorkUpdates DEF PCs
      <3>10. k2 \in Works BY <3>1, <3>9, WorkUpdates DEF Rows
      <3>11. k3 \in Works BY <3>10, WorkUpdates
      <3>12. k4 \in Works BY <3>8, <3>11, WorkUpdates
      <3>13. na \in BOOLEAN /\ ag \in BOOLEAN /\ row.allowed \in BOOLEAN
        BY <3>1 DEF Rows
      <3>14. k5 \in Works BY <3>12, <3>13, WorkUpdates
      <3>15. k6 \in Works BY <3>13, <3>14, WorkUpdates
      <3>16. k7 \in Works BY <3>13, <3>15, WorkUpdates
      <3>17. row' = r4 BY <1>9, <2>1 DEF Claim
      <3>18. work' = [work EXCEPT ![w] = k7] BY <1>9, <2>1 DEF Claim
      <3>19. k7.pay = work[w].pay BY <1>0 DEF Works
      <3>20. work' \in [Workers -> Works] /\ PayloadInHand'
        BY <3>7, <3>16, <3>18, <3>19, WorkStep
      <3>21. QED BY <1>9, <3>6, <3>17, <3>20 DEF Claim, TypeOK
    <2>2. CASE ~Claimable(row)
      <3>1. work' \in [Workers -> Works] /\ PayloadInHand'
        BY <1>9, <2>2, DropStep DEF Claim
      <3>2. QED BY <1>9, <2>2, <3>1 DEF Claim, TypeOK
    <2>3. QED BY <2>1, <2>2
  <1>10. ASSUME NEW w \in Workers, Save(w) PROVE TypeInv'
    <2> DEFINE S == IF ~work[w].verify THEN {work[w].res}
                    ELSE {Readback(work[w].res, work[w].pay.econ, work[w].assoc),
                          Verify(work[w].res)}
    <2>1. PICK r \in S :
            LET res == Policy(row.att, r) IN
            IF Owns(w) /\ ~Regresses(row, res)
              THEN /\ row' = Stored(row, res)
                   /\ work' = [work EXCEPT ![w] = [Resolved(work[w], res, FALSE) EXCEPT !.pc = "saved"]]
              ELSE Drop(w) /\ UNCHANGED row
      BY <1>10 DEF Save
    <2>2. r \in Result BY <1>0, ReadbackType, VerifyType DEF Works
    <2> DEFINE res == Policy(row.att, r)
    <2>3. CASE Owns(w) /\ ~Regresses(row, res)
      <3>1. row \in Rows BY <2>3, PendingIsRow DEF Owns
      <3>2. res \in Result BY <2>2, <3>1, PolicyType DEF Rows
      <3>3. row' \in Rows BY <2>1, <2>3, <3>1, <3>2, StoredType
      <3> DEFINE k0 == Resolved(work[w], res, FALSE)
                 k == [k0 EXCEPT !.pc = "saved"]
      <3>4. k0 \in Works BY <1>0, <3>2, ResolvedType
      <3>5. k \in Works BY <3>4, WorkUpdates DEF PCs
      <3>6. k.pc = "saved" BY <3>4 DEF Works
      <3>7. work' = [work EXCEPT ![w] = k] BY <2>1, <2>3
      <3>8. work' \in [Workers -> Works] /\ PayloadInHand'
        BY <3>5, <3>6, <3>7, WorkStep
      <3>9. QED BY <1>10, <3>3, <3>8 DEF Save, TypeOK
    <2>4. CASE ~(Owns(w) /\ ~Regresses(row, res))
      <3>1. work' \in [Workers -> Works] /\ PayloadInHand'
        BY <2>1, <2>4, DropStep
      <3>2. QED BY <1>10, <2>1, <2>4, <3>1 DEF Save, TypeOK
    <2>5. QED BY <2>3, <2>4
  <1>11. ASSUME NEW w \in Workers, WriteState(w) PROVE TypeInv'
    <2>1. work' \in [Workers -> Works] /\ PayloadInHand'
      BY <1>11, GoStep, DropStep DEF WriteState, PCs
    <2>2. NextEntries(work[w].res) \subseteq Buckets
      BY DEF NextEntries, Buckets, TypeOK
    <2>3. entry' \in Buckets
      BY <1>11, <2>2 DEF WriteState, TypeOK
    <2>4. QED BY <1>11, <2>1, <2>3 DEF WriteState, TypeOK
  <1>12. ASSUME NEW w \in Workers, Settle(w) PROVE TypeInv'
    <2>1. work' \in [Workers -> Works] /\ PayloadInHand'
      BY <1>12, DropStep DEF Settle
    <2>2. ASSUME Owns(w) PROVE Settled(row, work[w].res, work[w].res.retry, "none") \in Rows
      <3>1. row \in Rows BY <2>2, PendingIsRow DEF Owns
      <3>2. work[w].res \in Result /\ work[w].res.retry \in BOOLEAN BY <1>0 DEF Works, Result
      <3>3. QED BY <3>1, <3>2, SettledType
    <2>3. row' \in Rows \cup {Absent}
      BY <1>12, <2>2 DEF Settle, TypeOK
    <2>4. QED BY <1>12, <2>1, <2>3 DEF Settle, TypeOK
  <1>13. ASSUME NEW w \in Workers, Fail(w) PROVE TypeInv'
    <2> DEFINE res == IF row.res = NoRes
                        THEN Mk("unresolved", "verification_pending", FALSE, FALSE) ELSE row.res
    <2>1. work' \in [Workers -> Works] /\ PayloadInHand'
      BY <1>13, DropStep DEF Fail
    <2>2. ASSUME Owns(w) PROVE Settled(row, res, TRUE, "none") \in Rows
      <3>1. row \in Rows BY <2>2, PendingIsRow DEF Owns
      <3>2. res \in Result BY <3>1, MkType DEF Rows, Ends, Kinds
      <3>3. QED BY <3>1, <3>2, SettledType
    <2>3. row' \in Rows \cup {Absent}
      BY <1>13, <2>2 DEF Fail, TypeOK
    <2>4. QED BY <1>13, <2>1, <2>3 DEF Fail, TypeOK
  <1>14. ASSUME NEW w \in Workers, Crash(w) PROVE TypeInv'
    BY <1>14, DropStep DEF Crash, TypeOK
  <1>15. CASE ListRecovery
    <2>1. row \in Rows BY <1>15 DEF ListRecovery, Recoverable, TypeOK, Absent, Blank
    <2>2. obs' \in [row : Rows, evidence : SUBSET [src : Sources, pay : Payloads]]
      BY <1>15, <2>1 DEF ListRecovery, TypeOK
    <2>3. QED BY <1>15, <2>2 DEF ListRecovery, TypeOK, PayloadInHand
  <1>16. ASSUME NEW r \in Result, RecoverWith(r) PROVE TypeInv'
    <2> DEFINE res == Policy(row.att, r)
    <2>1. row = obs.row => row \in Rows
      BY <1>16 DEF RecoverWith, TypeOK
    <2>2. row = obs.row => Recovered(row, res) \in Rows
      BY <2>1, PolicyType, RecoveredType DEF Rows
    <2>3. row' \in Rows \cup {Absent}
      BY <1>16, <2>2 DEF RecoverWith, TypeOK
    <2>4. QED BY <1>16, <2>3 DEF RecoverWith, TypeOK, PayloadInHand
  <1>17. CASE RecoverReadable \/ RecoverUnreadable
    <2>1. row.res \in Result
      <3>1. CASE row \in Rows BY <3>1 DEF Rows
      <3>2. CASE row = Absent
        <4>1. row.res = NoRes BY <3>2 DEF Absent, Blank
        <4>2. QED BY <4>1, MkType DEF NoRes, Ends, Kinds
      <3>3. QED BY <3>1, <3>2 DEF TypeOK
    <2>2. QED BY <1>16, <1>17, <2>1, ReadbackType, VerifyType
             DEF RecoverReadable, RecoverUnreadable
  <1>18. CASE Reconcile
    <2>1. row \in Rows BY <1>18, PendingIsRow DEF Reconcile
    <2> DEFINE u == Unclaimed(row)
               r1 == [u EXCEPT !.status = "handled"]
               ra == [r1 EXCEPT !.allowed = FALSE]
               r2 == [ra EXCEPT !.muted = TRUE]
               r3 == [r2 EXCEPT !.note = "none"]
               rb == [r3 EXCEPT !.reason = "none"]
               r4 == [rb EXCEPT !.res = Reconciled]
    <2>2. u \in Rows BY <2>1, FencedType
    <2>3. r1 \in Rows BY <2>2, RowUpdates DEF RowStatuses
    <2>4. r2 \in Rows
      <3>1. ra \in Rows BY <2>3, RowUpdates
      <3>2. QED BY <3>1, RowUpdates
    <2>5. r3 \in Rows BY <2>4, RowUpdates
    <2>6. Reconciled \in Result BY MkType DEF Reconciled, Ends, Kinds
    <2>7. r4 \in Rows
      <3>1. rb \in Rows BY <2>5, RowUpdates DEF Reasons
      <3>2. QED BY <2>6, <3>1, RowUpdates
    <2>8. row' \in {row, r4} BY <1>18 DEF Reconcile
    <2>9. entry' \in Buckets BY <1>18 DEF Reconcile, TypeOK, Buckets
    <2>10. QED BY <1>18, <2>1, <2>7, <2>8, <2>9 DEF Reconcile, TypeOK, PayloadInHand
  <1>19. CASE Resume
    <2>1. row \in Rows BY <1>19, PendingIsRow DEF Resume
    <2> DEFINE u == Unclaimed(row)
               r1 == [u EXCEPT !.status = "pending"]
               r2 == [r1 EXCEPT !.att = 0]
               r3 == [r2 EXCEPT !.wait = 0]
               r4 == [r3 EXCEPT !.note = "resumed"]
               kd == IF row.res = NoRes \/ r4.res.kind = "verification_pending"
                       THEN r4.res.kind ELSE "pending_retry"
               rs == [r4.res EXCEPT !.kind = kd]
               r5 == [r4 EXCEPT !.res = rs]
    <2>2. u \in Rows BY <2>1, FencedType
    <2>3. r1 \in Rows BY <2>2, RowUpdates DEF RowStatuses
    <2>4. 0 \in 0..MaxAttempts /\ 0 \in 0..1 BY BoundsAssumption
    <2>5. r2 \in Rows BY <2>3, <2>4, RowUpdates
    <2>6. r3 \in Rows BY <2>4, <2>5, RowUpdates
    <2>7. r4 \in Rows BY <2>6, RowUpdates
    <2>8. r4.res \in Result BY <2>7 DEF Rows
    <2>9. kd \in Kinds BY <2>8 DEF Result, Kinds
    <2>10. rs \in Result BY <2>8, <2>9 DEF Result
    <2>11. r5 \in Rows BY <2>7, <2>10, RowUpdates
    <2>12. row' = r5 BY <1>19 DEF Resume
    <2>13. resumes' \in 0..MaxResumes
      BY <1>19, BoundsAssumption DEF Resume, TypeOK
    <2>14. QED BY <1>19, <2>11, <2>12, <2>13 DEF Resume, TypeOK, PayloadInHand
  <1>20. CASE Tick
    <2>1. row \in Rows BY <1>20 DEF Tick, TypeOK, Absent, Blank
    <2> DEFINE l == IF row.lease > 0 THEN row.lease - 1 ELSE 0
               r1 == [row EXCEPT !.lease = l]
    <2>2. l \in 0..Lease /\ 0 \in 0..1 BY <2>1, BoundsAssumption DEF Rows
    <2>3. r1 \in Rows BY <2>1, <2>2, RowUpdates
    <2>4. [r1 EXCEPT !.wait = 0] \in Rows BY <2>2, <2>3, RowUpdates
    <2>5. row' = [r1 EXCEPT !.wait = 0] BY <1>20 DEF Tick
    <2>6. QED BY <1>20, <2>4, <2>5 DEF Tick, TypeOK, PayloadInHand
  <1>21. CASE UNCHANGED vars
    BY <1>21 DEF vars, TypeOK, PayloadInHand
  <1>22. QED
    BY <1>1, <1>2, <1>3, <1>4, <1>5, <1>6, <1>7, <1>8, <1>9, <1>10, <1>11, <1>12, <1>13,
       <1>14, <1>15, <1>17, <1>18, <1>19, <1>20, <1>21, UndIsBoolean
       DEF Next, Worker, Step

\* The variables always keep their types, whatever workers crash, retry or
\* race: for every set of workers, payloads and sources.
THEOREM TypeCorrect == Spec => []TypeOK
  <1>1. Spec => []TypeInv
    BY TypeInit, TypeStep, PTL DEF Spec
  <1>2. TypeInv => TypeOK
    BY DEF TypeInv
  <1>3. QED BY <1>1, <1>2, PTL

-----------------------------------------------------------------------------
(* The commit scope.                                                       *)

\* A step of a worker outside the commit scope: it may change the row only
\* when the row is its own or nobody is in the commit scope.
LEMMA OutsideStep ==
    ASSUME TypeInv, CommitOwnsRow, NEW w \in Workers, NEW k \in Works,
           work' = [work EXCEPT ![w] = k], work[w].pc # "commit", k.pc # "commit",
           lock' = lock, row' = row \/ Owns(w) \/ lock = None
    PROVE  CommitOwnsRow'
  <1>1. ASSUME NEW v \in Workers PROVE work'[v] = IF v = w THEN k ELSE work[v]
    BY DEF TypeInv, TypeOK
  <1>2. lock # w BY DEF CommitOwnsRow
  <1>3. \A v \in Workers : work'[v].pc = "commit" <=> lock' = v
    BY <1>1, <1>2 DEF CommitOwnsRow
  <1>4. ASSUME lock' # None PROVE Owns(lock)'
    <2>1. lock \in Workers /\ lock # None BY <1>4 DEF TypeInv, TypeOK
    <2>2. Owns(lock) BY <2>1 DEF CommitOwnsRow
    <2>3. row' = row BY <1>2, <2>1, <2>2 DEF Owns
    <2>4. work'[lock] = work[lock] BY <1>1, <1>2, <2>1
    <2>5. QED BY <2>2, <2>3, <2>4 DEF Owns
  <1>5. QED BY <1>3, <1>4 DEF CommitOwnsRow

\* A step that leaves the commit scope, or crashes in or out of it.
LEMMA LeavingStep ==
    ASSUME TypeInv, CommitOwnsRow, NEW w \in Workers, NEW k \in Works,
           work' = [work EXCEPT ![w] = k], k.pc # "commit",
           lock' = IF lock = w THEN None ELSE lock, row' = row
    PROVE  CommitOwnsRow'
  <1>1. CASE lock = w
    <2>1. ASSUME NEW v \in Workers PROVE work'[v] = IF v = w THEN k ELSE work[v]
      BY DEF TypeInv, TypeOK
    <2>2. \A v \in Workers : work'[v].pc = "commit" <=> lock' = v
      BY <1>1, <2>1, NoneAssumption DEF CommitOwnsRow
    <2>3. QED BY <1>1, <2>2 DEF CommitOwnsRow
  <1>2. CASE lock # w
    BY <1>2, OutsideStep DEF CommitOwnsRow
  <1>3. QED BY <1>1, <1>2

\* A step of another actor.
LEMMA IdleStep ==
    ASSUME CommitOwnsRow, UNCHANGED <<lock, work>>,
           lock = None \/ (row'.status = row.status /\ row'.claim = row.claim /\ row'.ver = row.ver)
    PROVE  CommitOwnsRow'
  BY DEF CommitOwnsRow, Owns

LEMMA CommitStep == TypeInv /\ CommitOwnsRow /\ [Next]_vars => CommitOwnsRow'
  <1> SUFFICES ASSUME TypeInv, CommitOwnsRow, [Next]_vars PROVE CommitOwnsRow' OBVIOUS
  <1>0. ASSUME NEW w \in Workers PROVE work[w] \in Works
    BY DEF TypeInv, TypeOK
  <1>a. work' \in [Workers -> Works]
    BY TypeStep DEF TypeInv, TypeOK
  <1>b. ASSUME NEW w \in Workers, NEW k, work' = [work EXCEPT ![w] = k]
        PROVE  k \in Works
    <2>1. work'[w] = k BY <1>b DEF TypeInv, TypeOK
    <2>2. QED BY <1>a, <2>1
  <1>1. ASSUME NEW w \in Workers, NEW s, NEW p, Receive(w, s, p) PROVE CommitOwnsRow'
    <2> DEFINE k == [Idle EXCEPT !.pc = "enqueued", !.src = s, !.pay = p]
    <2>1. work' = [work EXCEPT ![w] = k] BY <1>1 DEF Receive
    <2>2. k.pc = "enqueued" BY DEF Idle
    <2>3. k \in Works BY <1>b, <2>1
    <2>4. QED BY <1>1, <2>1, <2>2, <2>3, OutsideStep DEF Receive, Enqueue
  <1>2. ASSUME NEW w \in Workers, Retry(w) PROVE CommitOwnsRow'
    <2> DEFINE k == [Idle EXCEPT !.pc = "enqueued", !.src = row.src, !.pay = row.pay]
    <2>1. work' = [work EXCEPT ![w] = k] BY <1>2 DEF Retry
    <2>2. k.pc = "enqueued" BY DEF Idle
    <2>3. k \in Works BY <1>b, <2>1
    <2>4. QED BY <1>2, <2>1, <2>2, <2>3, OutsideStep DEF Retry, Enqueue
  <1>3. ASSUME NEW w \in Workers, NEW p, NEW und, LookupEvidence(w, p, und)
        PROVE  CommitOwnsRow'
    <2>1. lock = None /\ lock' = lock /\ work[w].pc # "commit"
      BY <1>3 DEF LookupEvidence, Enqueue
    <2>2. CASE Drop(w)
      BY <2>1, <2>2, IdleType, OutsideStep DEF Drop, Idle
    <2>3. CASE work' = [work EXCEPT ![w].pay = IF work[w].pc = "enqueued" THEN p ELSE @]
      <3> DEFINE x == IF work[w].pc = "enqueued" THEN p ELSE work[w].pay
                 k == [work[w] EXCEPT !.pay = x]
      <3>1. work' = [work EXCEPT ![w] = k] BY <2>3
      <3>2. k.pc = work[w].pc BY <1>0 DEF Works
      <3>3. k \in Works BY <1>b, <3>1
      <3>4. QED BY <2>1, <3>1, <3>2, <3>3, OutsideStep
    <2>4. QED BY <1>3, <2>2, <2>3 DEF LookupEvidence
  <1>4. ASSUME NEW w \in Workers, MarkReview(w) PROVE CommitOwnsRow'
    BY <1>4, IdleType, OutsideStep DEF MarkReview, Drop, Idle
  <1>5. ASSUME NEW w \in Workers, Claim(w) PROVE CommitOwnsRow'
    <2>1. CASE Drop(w)
      BY <1>5, <2>1, IdleType, OutsideStep DEF Claim, Drop, Idle
    <2>2. CASE Claimable(row)
      <3> DEFINE k == [work[w] EXCEPT !.pc = "claimed", !.ver = row.ver,
                    !.src = None, !.assoc = KnownAssoc(work[w].pay),
                    !.newA = row.pay.assoc = None /\ KnownAssoc(row.pay) # None,
                    !.allowed = row.allowed,
                    !.again = \/ row.note = "resumed"
                              \/ row.reason = "none" /\ Failed(row.res) /\ row.res.exc]
      <3>1. work' = [work EXCEPT ![w] = k] BY <1>5, <2>2 DEF Claim
      <3>2. k.pc = "claimed" BY <1>0 DEF Works
      <3>3. k \in Works BY <1>b, <3>1
      <3>4. QED BY <1>5, <3>1, <3>2, <3>3, OutsideStep DEF Claim
    <2>3. QED BY <1>5, <2>1, <2>2 DEF Claim
  <1>6. ASSUME NEW w \in Workers, NormalizeFails(w) PROVE CommitOwnsRow'
    <2>1. PICK r : work' = [work EXCEPT ![w] = Resolved(work[w], r, FALSE)]
      BY <1>6 DEF NormalizeFails
    <2> DEFINE k == Resolved(work[w], r, FALSE)
    <2>2. k.pc = "resolved" BY DEF Resolved, Idle
    <2>3. k \in Works BY <1>b, <2>1
    <2>4. QED BY <1>6, <2>1, <2>2, <2>3, OutsideStep DEF NormalizeFails
  <1>7. ASSUME NEW w \in Workers, EnterCommit(w) PROVE CommitOwnsRow'
    <2>1. CASE Owns(w)
      <3> DEFINE k == [work[w] EXCEPT !.pc = "commit"]
      <3>1. work' = [work EXCEPT ![w] = k] /\ lock' = w /\ row' = row
        BY <1>7, <2>1 DEF EnterCommit, Go
      <3>2. k.pc = "commit" /\ k.ver = work[w].ver BY <1>0 DEF Works
      <3>3. ASSUME NEW v \in Workers PROVE work'[v] = IF v = w THEN k ELSE work[v]
        BY <3>1 DEF TypeInv, TypeOK
      <3>4. lock = None BY <1>7 DEF EnterCommit
      <3>5. \A v \in Workers : work'[v].pc = "commit" <=> lock' = v
        BY <3>1, <3>2, <3>3, <3>4, NoneAssumption DEF CommitOwnsRow
      <3>6. Owns(w)' BY <2>1, <3>1, <3>2, <3>3 DEF Owns
      <3>7. QED BY <3>1, <3>5, <3>6 DEF CommitOwnsRow
    <2>2. CASE ~Owns(w)
      BY <1>7, <2>2, IdleType, OutsideStep DEF EnterCommit, Drop, Idle
    <2>3. QED BY <2>1, <2>2
  <1>8. ASSUME NEW w \in Workers, LedgerWrite(w) PROVE CommitOwnsRow'
    <2>1. PICK o \in Outcomes(w) : work' = [work EXCEPT ![w] = Resolved(work[w], o[2], o[3])]
      BY <1>8 DEF LedgerWrite
    <2> DEFINE k == Resolved(work[w], o[2], o[3])
    <2>2. k.pc = "resolved" BY DEF Resolved, Idle
    <2>3. k \in Works BY <1>b, <2>1
    <2>4. QED BY <1>8, <2>1, <2>2, <2>3, LeavingStep DEF LedgerWrite
  <1>9. ASSUME NEW w \in Workers, SkipNonOption(w) PROVE CommitOwnsRow'
    <2> DEFINE k == Resolved(work[w], Mk("not_option_deal", "none", FALSE, FALSE), FALSE)
    <2>1. work' = [work EXCEPT ![w] = k] BY <1>9 DEF SkipNonOption
    <2>2. k.pc = "resolved" BY DEF Resolved, Idle
    <2>3. k \in Works BY <1>b, <2>1
    <2>4. QED BY <1>9, <2>1, <2>2, <2>3, LeavingStep DEF SkipNonOption
  <1>10. ASSUME NEW w \in Workers, Save(w) PROVE CommitOwnsRow'
    <2>1. CASE Drop(w) /\ row' = row
      BY <1>10, <2>1, IdleType, OutsideStep DEF Save, Drop, Idle
    <2>2. CASE Owns(w) /\ \E res : work' = [work EXCEPT ![w] =
                                           [Resolved(work[w], res, FALSE) EXCEPT !.pc = "saved"]]
      <3>1. PICK res : work' = [work EXCEPT ![w] =
                                  [Resolved(work[w], res, FALSE) EXCEPT !.pc = "saved"]]
        BY <2>2
      <3> DEFINE k == [Resolved(work[w], res, FALSE) EXCEPT !.pc = "saved"]
      <3>2. k.pc = "saved" BY DEF Resolved, Idle
      <3>3. k \in Works BY <1>b, <3>1
      <3>4. QED BY <1>10, <2>2, <3>1, <3>2, <3>3, OutsideStep DEF Save
    <2>3. QED BY <1>10, <2>1, <2>2 DEF Save
  <1>11. ASSUME NEW w \in Workers, WriteState(w) PROVE CommitOwnsRow'
    <2>1. CASE Drop(w)
      BY <1>11, <2>1, IdleType, OutsideStep DEF WriteState, Drop, Idle
    <2>2. CASE Go(w, "stated")
      <3> DEFINE k == [work[w] EXCEPT !.pc = "stated"]
      <3>1. work' = [work EXCEPT ![w] = k] BY <2>2 DEF Go
      <3>2. k.pc = "stated" BY <1>0 DEF Works
      <3>3. k \in Works BY <1>b, <3>1
      <3>4. QED BY <1>11, <3>1, <3>2, <3>3, OutsideStep DEF WriteState
    <2>3. QED BY <1>11, <2>1, <2>2 DEF WriteState
  <1>12. ASSUME NEW w \in Workers, Settle(w) \/ Fail(w) PROVE CommitOwnsRow'
    <2>1. Drop(w) /\ work[w].pc # "commit" /\ lock' = lock BY <1>12 DEF Settle, Fail
    <2>2. row' = row \/ Owns(w) BY <1>12 DEF Settle, Fail
    <2>3. QED BY <2>1, <2>2, IdleType, OutsideStep DEF Drop, Idle
  <1>13. ASSUME NEW w \in Workers, Crash(w) PROVE CommitOwnsRow'
    BY <1>13, IdleType, LeavingStep DEF Crash, Drop, Idle
  <1>14. CASE ListRecovery \/ RecoverReadable \/ RecoverUnreadable \/ Reconcile \/ Resume
    BY <1>14, IdleStep
       DEF ListRecovery, RecoverReadable, RecoverUnreadable, RecoverWith, Reconcile, Resume
  <1>15. CASE Tick
    <2>1. row \in Rows BY <1>15 DEF Tick, TypeInv, TypeOK, Absent, Blank
    <2>2. row'.status = row.status /\ row'.claim = row.claim /\ row'.ver = row.ver
      BY <1>15, <2>1 DEF Tick, Rows
    <2>3. QED BY <1>15, <2>2, IdleStep DEF Tick
  <1>16. CASE UNCHANGED vars
    BY <1>16, IdleStep DEF vars
  <1>17. QED
    BY <1>1, <1>2, <1>3, <1>4, <1>5, <1>6, <1>7, <1>8, <1>9, <1>10, <1>11, <1>12, <1>13,
       <1>14, <1>15, <1>16 DEF Next, Worker, Step

-----------------------------------------------------------------------------
(* What the results claim.                                                 *)

LEMMA PolicyClaims ==
    ASSUME NEW r \in Result, NEW att \in Nat, ~Claims(r)
    PROVE  ~Claims(Policy(att, r))
  BY DEF Policy, Claims, Result

LEMMA ReadbackClaims ==
    ASSUME NEW r \in Result, NEW econ, NEW assoc, effect = None
    PROVE  ~Claims(Readback(r, econ, assoc)) /\ ~Claims(Verify(r))
  <1>1. ~Claims(Verify(r)) BY DEF Verify, Claims, Mk, Open, Failed
  <1>2. QED BY <1>1 DEF Readback, Claims, Mk

LEMMA StoredClaims ==
    ASSUME NEW r \in Rows, NEW res \in Result, ~Claims(res), r.env # "recorded"
    PROVE  Stored(r, res).res = res /\ Stored(r, res).env # "recorded"
  BY DEF Stored, Rows, Claims, Enveloped

LEMMA SettledClaims ==
    ASSUME NEW r \in Rows, NEW res \in Result, NEW retry \in BOOLEAN, ~Claims(res),
           r.env # "recorded"
    PROVE  /\ ~Claims(Settled(r, res, retry, "none").res)
           /\ Settled(r, res, retry, "none").env # "recorded"
  <1> DEFINE new == Policy(r.att, res)
             d == Stored(r, new)
  <1>1. new \in Result /\ ~Claims(new) BY PolicyType, PolicyClaims DEF Rows
  <1>2. d \in Rows /\ d.res = new /\ d.env # "recorded" BY <1>1, StoredType, StoredClaims
  <1>3. Settled(r, res, retry, "none").res = d.res /\ Settled(r, res, retry, "none").env = d.env
    BY <1>2 DEF Settled, Unclaimed, Rows
  <1>4. QED BY <1>1, <1>2, <1>3

LEMMA RecoveredClaims ==
    ASSUME NEW r \in Rows, NEW res \in Result, ~Claims(res), r.env # "recorded"
    PROVE  ~Claims(Recovered(r, res).res) /\ Recovered(r, res).env # "recorded"
  <1> DEFINE d == Stored(r, res)
  <1>1. d \in Rows /\ d.res = res /\ d.env # "recorded" BY StoredType, StoredClaims
  <1>2. Recovered(r, res).res = d.res /\ Recovered(r, res).env = d.env
    BY <1>1 DEF Recovered, Unclaimed, Rows
  <1>3. QED BY <1>1, <1>2

\* Receiving a delivery never touches the stored result.
LEMMA ReceivedKeeps ==
    ASSUME row \in Rows \cup {Absent}, NEW s \in Sources, NEW p \in Payloads,
           NEW und \in BOOLEAN
    PROVE  Received(s, p, und).res = row.res /\ Received(s, p, und).env = row.env
  <1> DEFINE K(a, b) == a.res = b.res /\ a.env = b.env
             new   == [src |-> s, pay |-> p] \notin evidence
             ev    == evidence \cup {[src |-> s, pay |-> p]}
             first == row.status = "absent"
             fresh == Blank("pending", 1, s, p, effect = None)
             r0    == IF first THEN fresh ELSE row
             why   == ConflictReason(ev, p, new)
             known == first \/ \E e \in evidence : e.pay.assoc # None
             r1    == Judged(r0, s, p, why, new)
             r2    == IF und /\ r0.status = "handled" THEN r1 ELSE Enriched(r1, r0, why, p, known)
  <1>1. row.status # "absent" => row \in Rows BY DEF Absent, Blank
  <1>2. fresh \in Rows BY BlankType
  <1>3. r0 \in Rows /\ K(r0, row)
    BY <1>1, <1>2 DEF Absent, Blank, Rows, RowStatuses
  <1>4. ASSUME NEW r \in Rows PROVE K(Fenced(r), r) /\ Fenced(r) \in Rows
    BY FencedType DEF Fenced, Unclaimed, Rows
  <1>5. why \in Reasons BY ReasonType
  <1>6. r1 \in Rows /\ K(r1, r0)
    <2> DEFINE f == Fenced(r0)
    <2>1. f \in Rows /\ K(f, r0) BY <1>3, <1>4
    <2>2. K([f EXCEPT !.status = "conflict", !.reason = why, !.note = "none"], r0)
      BY <2>1 DEF Rows
    <2>3. K([f EXCEPT !.status = "pending", !.reason = "cleared", !.note = "none",
                      !.src = s, !.pay = p], r0)
      BY <2>1 DEF Rows
    <2>4. r1 \in {[f EXCEPT !.status = "conflict", !.reason = why, !.note = "none"],
                  [f EXCEPT !.status = "pending", !.reason = "cleared", !.note = "none",
                            !.src = s, !.pay = p], r0}
      BY DEF Judged
    <2>5. K(r1, r0) BY <2>2, <2>3, <2>4
    <2>6. r1 \in Rows BY <1>3, <1>5, JudgedType
    <2>7. QED BY <2>5, <2>6
  <1>7. r2 \in Rows /\ K(r2, r1)
    <2> DEFINE f == Fenced(r1)
               al == f.allowed /\ effect = None /\ r0.res.st # "not_option_deal"
               e == [f EXCEPT !.status = "pending", !.wait = 0, !.note = "enrichment",
                              !.allowed = al]
    <2>1. f \in Rows /\ K(f, r1) BY <1>4, <1>6
    <2>2. K(e, r1) BY <2>1 DEF Rows
    <2>3. r2 \in {r1, f, e} BY DEF Enriched
    <2>4. K(r2, r1) BY <2>1, <2>2, <2>3
    <2>5. r2 \in Rows BY <1>3, <1>6, EnrichedType
    <2>6. QED BY <2>4, <2>5
  <1>8. K(Reviewed(r2, r0), r2) BY <1>4, <1>7 DEF Reviewed, Rows
  <1>9. Received(s, p, und) \in {r0, r2, Reviewed(r2, r0)} BY DEF Received
  <1>10. QED BY <1>3, <1>6, <1>7, <1>8, <1>9

LEMMA OutcomesClaims ==
    ASSUME TypeInv, NEW w \in Workers, work[w].pc = "commit", NEW o \in Outcomes(w),
           o[1] = None
    PROVE  effect = None /\ ~Claims(o[2])
  <1>1. Booked(w) # None BY BookedType, NoneAssumption DEF AbsEffects
  <1>2. effect = None
    <2> DEFINE e == [effect EXCEPT !.assoc = IF @ = None THEN work[w].assoc ELSE @]
    <2>1. SUFFICES ASSUME effect # None PROVE FALSE OBVIOUS
    <2>2. effect \in AbsEffects /\ work[w] \in Works
      BY <2>1 DEF TypeInv, TypeOK, AbsEffects
    <2>3. e \in AbsEffects BY <2>2 DEF AbsEffects, Works
    <2>4. o[1] \in {effect, e}
      <3>1. CASE ~Agrees(work[w].pay.econ, work[w].assoc)
        <4>1. o = <<effect, Mk("unresolved", "none", FALSE, FALSE), FALSE>>
          BY <2>1, <3>1 DEF Outcomes
        <4>2. QED BY <4>1
      <3>2. CASE Agrees(work[w].pay.econ, work[w].assoc)
        <4> DEFINE st == IF work[w].allowed THEN "applied" ELSE "ledger_recorded"
        <4>1. o = <<e, Mk(st, "none", FALSE, FALSE), FALSE>>
          BY <2>1, <3>2 DEF Outcomes
        <4>2. QED BY <4>1
      <3>3. QED BY <3>1, <3>2
    <2>5. QED BY <2>2, <2>3, <2>4, NoneAssumption DEF AbsEffects
  <1>3. CASE ~MayRetryEntry(w)
    <2>1. o = <<None, Mk("duplicate_deal_id", "none", FALSE, FALSE), FALSE>>
      BY <1>2, <1>3 DEF Outcomes
    <2>2. QED BY <1>2, <2>1 DEF Claims, Mk
  <1>4. CASE MayRetryEntry(w)
    <2>1. o \in FirstOutcomes(w) BY <1>2, <1>4 DEF Outcomes
    <2>2. PICK b \in {None, Booked(w)}, st \in {"applied", "unresolved", "failed"},
               retry \in BOOLEAN, exc \in BOOLEAN, verify \in BOOLEAN :
            /\ o = <<b, Mk(st, "none", retry, exc), verify>>
            /\ st = "applied" => b = Booked(w)
      BY <2>1, FirstOutcome
    <2>3. st # "applied" BY <1>1, <2>2
    <2>4. o[2] = Mk(st, "none", retry, exc) BY <2>2
    <2>5. ~Claims(o[2]) BY <2>2, <2>3, <2>4 DEF Claims, Mk
    <2>6. QED BY <1>2, <2>5
  <1>5. QED BY <1>3, <1>4

\* No step unbooks an execution.
LEMMA BookedStays == TypeInv /\ [Next]_vars /\ effect # None => effect' # None
  <1> SUFFICES ASSUME TypeInv, [Next]_vars, effect # None, effect' = None PROVE FALSE
    OBVIOUS
  <1>1. ASSUME NEW w \in Workers, LedgerWrite(w) PROVE FALSE
    <2>1. PICK o \in Outcomes(w) : effect' = o[1] BY <1>1 DEF LedgerWrite
    <2>2. QED BY <1>1, <2>1, OutcomesClaims DEF LedgerWrite
  <1>2. CASE UNCHANGED effect BY <1>2
  <1>3. QED
    BY <1>1, <1>2
       DEF Next, Worker, Step, vars, Receive, Retry, LookupEvidence, MarkReview, Claim,
           NormalizeFails, EnterCommit, SkipNonOption, Save, WriteState, Settle, Fail, Crash,
           ListRecovery, RecoverReadable, RecoverUnreadable, RecoverWith, Reconcile, Resume, Tick

LEMMA IdleClaims == ~Claims(Idle.res)
  BY DEF Idle, Claims, NoRes, Mk

\* A step of one worker whose next result claims nothing.
LEMMA WorkClaims ==
    ASSUME TypeInv, NEW w \in Workers, NEW k, work' = [work EXCEPT ![w] = k],
           ~Claims(k.res), \A v \in Workers : ~Claims(work[v].res)
    PROVE  \A v \in Workers : ~Claims(work'[v].res)
  BY DEF TypeInv, TypeOK

LEMMA ResultsStep == TypeInv /\ ResultsAreBooked /\ [Next]_vars => ResultsAreBooked'
  <1> SUFFICES ASSUME TypeInv, ResultsAreBooked, [Next]_vars, effect' = None
               PROVE  /\ ~Claims(row'.res) /\ row'.env # "recorded" /\ entry' # "processed"
                      /\ \A v \in Workers : ~Claims(work'[v].res)
    BY DEF ResultsAreBooked, Claims
  <1> DEFINE RowFine  == ~Claims(row'.res) /\ row'.env # "recorded"
             WorkFine == \A v \in Workers : ~Claims(work'[v].res)
  <1>1. effect = None BY BookedStays
  <1>2. /\ ~Claims(row.res) /\ row.env # "recorded" /\ entry # "processed"
        /\ \A v \in Workers : ~Claims(work[v].res)
    BY <1>1 DEF ResultsAreBooked
  <1>3. ASSUME NEW w \in Workers PROVE work[w] \in Works
    BY DEF TypeInv, TypeOK
  <1>4. row.res \in Result
    <2>1. CASE row \in Rows BY <2>1 DEF Rows
    <2>2. CASE row = Absent
      <3>1. row.res = NoRes BY <2>2 DEF Absent, Blank
      <3>2. QED BY <3>1, MkType DEF NoRes, Ends, Kinds
    <2>3. QED BY <2>1, <2>2 DEF TypeInv, TypeOK
  <1>5. ASSUME NEW s \in Sources, NEW p \in Payloads, NEW und \in BOOLEAN, Enqueue(s, p, und)
        PROVE  RowFine
    BY <1>2, <1>5, ReceivedKeeps DEF Enqueue, TypeInv, TypeOK
  <1>6. ASSUME NEW w \in Workers, Drop(w) PROVE WorkFine
    BY <1>2, <1>6, IdleClaims, WorkClaims DEF Drop
  <1>7. ASSUME NEW w \in Workers, NEW s, NEW p,
               work' = [work EXCEPT ![w] = [Idle EXCEPT !.pc = "enqueued", !.src = s, !.pay = p]]
        PROVE  WorkFine
    <2> DEFINE k == [Idle EXCEPT !.pc = "enqueued", !.src = s, !.pay = p]
    <2>1. k.res = Idle.res BY DEF Idle
    <2>2. QED BY <1>2, <1>7, <2>1, IdleClaims, WorkClaims
  <1>8. ASSUME NEW w \in Workers, NEW s \in Sources, NEW p \in Payloads, Receive(w, s, p)
        PROVE  RowFine /\ WorkFine /\ UNCHANGED entry
    BY <1>5, <1>7, <1>8 DEF Receive
  <1>9. ASSUME NEW w \in Workers, Retry(w) PROVE RowFine /\ WorkFine /\ UNCHANGED entry
    <2>1. row \in Rows BY <1>9, PendingIsRow DEF Retry, Claimable, TypeInv
    <2>2. QED BY <1>5, <1>7, <1>9, <2>1 DEF Retry, Rows
  <1>10. ASSUME NEW w \in Workers, NEW p \in Payloads, NEW und \in BOOLEAN,
                LookupEvidence(w, p, und)
         PROVE  RowFine /\ WorkFine /\ UNCHANGED entry
    <2>1. RowFine BY <1>5, <1>10 DEF LookupEvidence
    <2>2. CASE work' = [work EXCEPT ![w].pay = IF work[w].pc = "enqueued" THEN p ELSE @]
      <3> DEFINE k == [work[w] EXCEPT !.pay = IF work[w].pc = "enqueued" THEN p ELSE @]
      <3>1. k.res = work[w].res BY <1>3 DEF Works
      <3>2. work' = [work EXCEPT ![w] = k] BY <2>2
      <3>3. WorkFine BY <1>2, <3>1, <3>2, WorkClaims
      <3>4. QED BY <1>10, <2>1, <3>3 DEF LookupEvidence
    <2>3. QED BY <1>6, <1>10, <2>1, <2>2 DEF LookupEvidence
  <1>11. ASSUME NEW w \in Workers, MarkReview(w) PROVE RowFine /\ WorkFine /\ UNCHANGED entry
    <2>1. CASE row.status = "pending"
      <3>1. row \in Rows BY <2>1, PendingIsRow DEF TypeInv
      <3>2. row'.res = row.res /\ row'.env = row.env
        BY <1>11, <2>1, <3>1 DEF MarkReview, Unclaimed, Rows
      <3>3. QED BY <1>2, <1>6, <1>11, <3>2 DEF MarkReview
    <2>2. CASE row.status # "pending"
      BY <1>2, <1>6, <1>11, <2>2 DEF MarkReview
    <2>3. QED BY <2>1, <2>2
  <1>12. ASSUME NEW w \in Workers, Claim(w) PROVE RowFine /\ WorkFine /\ UNCHANGED entry
    <2>1. CASE Claimable(row)
      <3>1. row \in Rows BY <2>1, PendingIsRow DEF TypeInv, Claimable
      <3>2. row'.res = row.res /\ row'.env = row.env
        BY <1>12, <2>1, <3>1 DEF Claim, Rows
      <3> DEFINE k == [work[w] EXCEPT !.pc = "claimed", !.ver = row.ver,
                    !.src = None, !.assoc = KnownAssoc(work[w].pay),
                    !.newA = row.pay.assoc = None /\ KnownAssoc(row.pay) # None,
                    !.allowed = row.allowed,
                    !.again = \/ row.note = "resumed"
                              \/ row.reason = "none" /\ Failed(row.res) /\ row.res.exc]
      <3>3. work' = [work EXCEPT ![w] = k] BY <1>12, <2>1 DEF Claim
      <3>4. k.res = work[w].res BY <1>3 DEF Works
      <3>5. WorkFine BY <1>2, <3>3, <3>4, WorkClaims
      <3>6. QED BY <1>2, <1>12, <3>2, <3>5 DEF Claim
    <2>2. CASE ~Claimable(row)
      BY <1>2, <1>6, <1>12, <2>2 DEF Claim
    <2>3. QED BY <2>1, <2>2
  <1>13. ASSUME NEW w \in Workers, NormalizeFails(w) \/ SkipNonOption(w)
         PROVE  RowFine /\ WorkFine /\ UNCHANGED entry
    <2>1. PICK st \in {"not_normalized", "not_option_deal"}, retry \in BOOLEAN, exc \in BOOLEAN :
            work' = [work EXCEPT ![w] = Resolved(work[w], Mk(st, "none", retry, exc), FALSE)]
      BY <1>13 DEF NormalizeFails, SkipNonOption
    <2> DEFINE k == Resolved(work[w], Mk(st, "none", retry, exc), FALSE)
    <2>2. k.res = Mk(st, "none", retry, exc) BY DEF Resolved, Idle
    <2>3. ~Claims(Mk(st, "none", retry, exc)) BY DEF Claims, Mk
    <2>4. ~Claims(k.res) BY <2>2, <2>3
    <2>5. WorkFine BY <1>2, <2>1, <2>4, WorkClaims
    <2>6. QED BY <1>2, <1>13, <2>5 DEF NormalizeFails, SkipNonOption
  <1>14. ASSUME NEW w \in Workers, EnterCommit(w) PROVE RowFine /\ WorkFine /\ UNCHANGED entry
    <2>1. CASE Go(w, "commit")
      <3> DEFINE k == [work[w] EXCEPT !.pc = "commit"]
      <3>1. work' = [work EXCEPT ![w] = k] /\ k.res = work[w].res
        BY <1>3, <2>1 DEF Go, Works
      <3>2. WorkFine BY <1>2, <3>1, WorkClaims
      <3>3. QED BY <1>2, <1>14, <3>2 DEF EnterCommit
    <2>2. QED BY <1>2, <1>6, <1>14, <2>1 DEF EnterCommit
  <1>15. ASSUME NEW w \in Workers, LedgerWrite(w) PROVE RowFine /\ WorkFine /\ UNCHANGED entry
    <2>1. PICK o \in Outcomes(w) : /\ effect' = o[1]
                                   /\ work' = [work EXCEPT ![w] = Resolved(work[w], o[2], o[3])]
      BY <1>15 DEF LedgerWrite
    <2> DEFINE k == Resolved(work[w], o[2], o[3])
    <2>2. k.res = o[2] BY DEF Resolved, Idle
    <2>3. ~Claims(k.res) BY <1>15, <2>1, <2>2, OutcomesClaims DEF LedgerWrite
    <2>4. WorkFine BY <1>2, <2>1, <2>3, WorkClaims
    <2>5. QED BY <1>2, <1>15, <2>4 DEF LedgerWrite
  <1>16. ASSUME NEW w \in Workers, Save(w) PROVE RowFine /\ WorkFine /\ UNCHANGED entry
    <2> DEFINE S == IF ~work[w].verify THEN {work[w].res}
                    ELSE {Readback(work[w].res, work[w].pay.econ, work[w].assoc),
                          Verify(work[w].res)}
    <2>1. PICK r \in S :
            LET res == Policy(row.att, r) IN
            IF Owns(w) /\ ~Regresses(row, res)
              THEN /\ row' = Stored(row, res)
                   /\ work' = [work EXCEPT ![w] = [Resolved(work[w], res, FALSE) EXCEPT !.pc = "saved"]]
              ELSE Drop(w) /\ UNCHANGED row
      BY <1>16 DEF Save
    <2>2. work[w].res \in Result BY <1>3 DEF Works
    <2>3. r \in Result /\ ~Claims(r)
      BY <1>1, <1>2, <2>2, ReadbackType, VerifyType, ReadbackClaims
    <2> DEFINE res == Policy(row.att, r)
    <2>4. CASE Owns(w) /\ ~Regresses(row, res)
      <3>1. row \in Rows BY <2>4, PendingIsRow DEF Owns, TypeInv
      <3>2. res \in Result /\ ~Claims(res) BY <2>3, <3>1, PolicyType, PolicyClaims DEF Rows
      <3>3. RowFine BY <1>2, <2>1, <2>4, <3>1, <3>2, StoredClaims
      <3> DEFINE k == [Resolved(work[w], res, FALSE) EXCEPT !.pc = "saved"]
      <3>4. k.res = res BY DEF Resolved, Idle
      <3>5. ~Claims(k.res) BY <3>2, <3>4
      <3>6. work' = [work EXCEPT ![w] = k] BY <2>1, <2>4
      <3>7. WorkFine BY <1>2, <3>5, <3>6, WorkClaims
      <3>8. QED BY <1>16, <3>3, <3>7 DEF Save
    <2>5. CASE ~(Owns(w) /\ ~Regresses(row, res))
      BY <1>2, <1>6, <1>16, <2>1, <2>5 DEF Save
    <2>6. QED BY <2>4, <2>5
  <1>17. ASSUME NEW w \in Workers, WriteState(w)
         PROVE  RowFine /\ WorkFine /\ entry' # "processed"
    <2>1. ASSUME NEW x \in NextEntries(work[w].res) PROVE x # "processed"
      BY <1>2 DEF NextEntries, Claims
    <2>2. entry' # "processed" BY <1>2, <1>17, <2>1 DEF WriteState
    <2>3. CASE Go(w, "stated")
      <3> DEFINE k == [work[w] EXCEPT !.pc = "stated"]
      <3>1. work' = [work EXCEPT ![w] = k] /\ k.res = work[w].res
        BY <1>3, <2>3 DEF Go, Works
      <3>2. WorkFine BY <1>2, <3>1, WorkClaims
      <3>3. QED BY <1>2, <1>17, <2>2, <3>2 DEF WriteState
    <2>4. QED BY <1>2, <1>6, <1>17, <2>2, <2>3 DEF WriteState
  <1>18. ASSUME NEW w \in Workers, Settle(w) PROVE RowFine /\ WorkFine /\ UNCHANGED entry
    <2>1. ASSUME Owns(w)
          PROVE  /\ ~Claims(Settled(row, work[w].res, work[w].res.retry, "none").res)
                 /\ Settled(row, work[w].res, work[w].res.retry, "none").env # "recorded"
      <3>1. row \in Rows BY <2>1, PendingIsRow DEF Owns, TypeInv
      <3>2. work[w].res \in Result /\ work[w].res.retry \in BOOLEAN BY <1>3 DEF Works, Result
      <3>3. QED BY <1>2, <3>1, <3>2, SettledClaims
    <2>2. RowFine BY <1>2, <1>18, <2>1 DEF Settle
    <2>3. QED BY <1>6, <1>18, <2>2 DEF Settle
  <1>19. ASSUME NEW w \in Workers, Fail(w) PROVE RowFine /\ WorkFine /\ UNCHANGED entry
    <2> DEFINE lost == Mk("unresolved", "verification_pending", FALSE, FALSE)
               res == IF row.res = NoRes THEN lost ELSE row.res
    <2>1. lost \in Result BY MkType DEF Ends, Kinds
    <2>2. ~Claims(lost) BY DEF Claims, Mk
    <2>3. res \in Result /\ ~Claims(res) BY <1>2, <1>4, <2>1, <2>2
    <2>4. ASSUME Owns(w)
          PROVE  /\ ~Claims(Settled(row, res, TRUE, "none").res)
                 /\ Settled(row, res, TRUE, "none").env # "recorded"
      <3>1. row \in Rows BY <2>4, PendingIsRow DEF Owns, TypeInv
      <3>2. QED BY <1>2, <2>3, <3>1, SettledClaims
    <2>5. RowFine BY <1>2, <1>19, <2>4 DEF Fail
    <2>6. QED BY <1>6, <1>19, <2>5 DEF Fail
  <1>20. ASSUME NEW w \in Workers, Crash(w) PROVE RowFine /\ WorkFine /\ UNCHANGED entry
    BY <1>2, <1>6, <1>20 DEF Crash
  <1>21. CASE RecoverReadable \/ RecoverUnreadable
    <2>1. PICK r : /\ RecoverWith(r)
                   /\ r \in {row.res, Readback(row.res, row.pay.econ, row.pay.assoc), Verify(row.res)}
      BY <1>21 DEF RecoverReadable, RecoverUnreadable
    <2>2. r \in Result /\ ~Claims(r)
      BY <1>1, <1>2, <1>4, <2>1, ReadbackType, VerifyType, ReadbackClaims
    <2> DEFINE res == Policy(row.att, r)
    <2>3. ASSUME row = obs.row
          PROVE  ~Claims(Recovered(row, res).res) /\ Recovered(row, res).env # "recorded"
      <3>1. row \in Rows BY <2>1, <2>3 DEF RecoverWith, TypeInv, TypeOK
      <3>2. res \in Result /\ ~Claims(res) BY <2>2, <3>1, PolicyType, PolicyClaims DEF Rows
      <3>3. QED BY <1>2, <3>1, <3>2, RecoveredClaims
    <2>4. RowFine BY <1>2, <2>1, <2>3 DEF RecoverWith
    <2>5. QED BY <1>2, <2>1, <2>4 DEF RecoverWith
  <1>22. CASE Reconcile
    BY <1>1, <1>22 DEF Reconcile
  <1>23. CASE Resume
    <2>1. row \in Rows BY <1>23, PendingIsRow DEF Resume, TypeInv
    <2> DEFINE u == [Unclaimed(row) EXCEPT !.status = "pending", !.att = 0, !.wait = 0,
                                           !.note = "resumed"]
               kd == IF row.res = NoRes \/ u.res.kind = "verification_pending"
                       THEN u.res.kind ELSE "pending_retry"
               r5 == [u EXCEPT !.res = [u.res EXCEPT !.kind = kd]]
    <2>2. row' = r5 BY <1>23 DEF Resume
    <2>3. u.res = row.res /\ u.env = row.env BY <2>1 DEF Unclaimed, Rows
    <2>4. r5.env = row.env /\ r5.res = [row.res EXCEPT !.kind = kd]
      BY <2>1, <2>3 DEF Unclaimed, Rows
    <2>5. kd # "recorded" BY <1>2, <2>3 DEF Claims
    <2>6. ~Claims(r5.res) BY <1>2, <1>4, <2>4, <2>5 DEF Claims, Result
    <2>7. QED BY <1>2, <1>23, <2>2, <2>4, <2>6 DEF Resume
  <1>24. CASE Tick
    <2>1. row \in Rows BY <1>24 DEF Tick, TypeInv, TypeOK, Absent, Blank
    <2>2. row'.res = row.res /\ row'.env = row.env BY <1>24, <2>1 DEF Tick, Rows
    <2>3. QED BY <1>2, <1>24, <2>2 DEF Tick
  <1>25. CASE ListRecovery \/ UNCHANGED vars
    BY <1>2, <1>25 DEF ListRecovery, vars
  <1>26. QED
    BY <1>2, <1>8, <1>9, <1>10, <1>11, <1>12, <1>13, <1>14, <1>15, <1>16, <1>17, <1>18,
       <1>19, <1>20, <1>21, <1>22, <1>23, <1>24, <1>25, UndIsBoolean DEF Next, Worker, Step

-----------------------------------------------------------------------------
(* The state file's entry.                                                 *)

\* A worker whose result is no duplicate and who has not written the entry.
NoEntryYet(k) == /\ k.res.st # "duplicate_deal_id"
                 /\ k.pc = "stated" => k.res.st = "not_normalized"

LEMMA PolicyEnd ==
    ASSUME NEW r \in Result, NEW att
    PROVE  Policy(att, r).st = r.st
  BY DEF Policy, Result

LEMMA ReadbackEnd ==
    ASSUME NEW r, NEW econ, NEW assoc
    PROVE  /\ Readback(r, econ, assoc).st # "duplicate_deal_id"
           /\ Verify(r).st # "duplicate_deal_id"
  <1>1. Verify(r).st # "duplicate_deal_id" BY DEF Verify, Mk, Open, Failed
  <1>2. QED BY <1>1 DEF Readback, Mk

LEMMA StoredResult ==
    ASSUME NEW r \in Rows, NEW res
    PROVE  Stored(r, res).res = res
  BY DEF Stored, Rows

LEMMA SettledResult ==
    ASSUME NEW r \in Rows, NEW res \in Result, NEW retry
    PROVE  Settled(r, res, retry, "none").res = Policy(r.att, res)
  <1> DEFINE new == Policy(r.att, res)
             d == Stored(r, new)
  <1>1. new \in Result BY PolicyType DEF Rows
  <1>2. d \in Rows /\ d.res = new BY <1>1, StoredType, StoredResult
  <1>3. Settled(r, res, retry, "none").res = d.res
    BY <1>2 DEF Settled, Unclaimed, Rows
  <1>4. QED BY <1>2, <1>3

LEMMA RecoveredResult ==
    ASSUME NEW r \in Rows, NEW res \in Result
    PROVE  Recovered(r, res).res = res
  <1> DEFINE d == Stored(r, res)
  <1>1. d \in Rows /\ d.res = res BY StoredType, StoredResult
  <1>2. Recovered(r, res).res = d.res BY <1>1 DEF Recovered, Unclaimed, Rows
  <1>3. QED BY <1>1, <1>2

LEMMA ReadbackDeal ==
    ASSUME NEW r, NEW econ, NEW assoc, r.st # "not_normalized"
    PROVE  /\ Readback(r, econ, assoc).st # "not_normalized"
           /\ Verify(r).st # "not_normalized"
  <1>1. Verify(r).st # "not_normalized" BY DEF Verify, Mk
  <1>2. QED BY <1>1 DEF Readback, Mk

\* Only an execution the state file lists is a duplicate to the resolver, and
\* what it judges was normalised.
LEMMA OutcomesEnd ==
    ASSUME NEW w \in Workers, NEW o \in Outcomes(w)
    PROVE  /\ o[2].st # "not_normalized"
           /\ entry = "none" => o[2].st # "duplicate_deal_id"
  <1> DEFINE e == [effect EXCEPT !.assoc = IF @ = None THEN work[w].assoc ELSE @]
             st == IF work[w].allowed THEN "applied" ELSE "ledger_recorded"
  <1>1. entry = "none" => MayRetryEntry(w) BY DEF MayRetryEntry
  <1>2. CASE effect # None /\ ~Agrees(work[w].pay.econ, work[w].assoc)
    <2>1. o = <<effect, Mk("unresolved", "none", FALSE, FALSE), FALSE>>
      BY <1>2 DEF Outcomes
    <2>2. QED BY <2>1 DEF Mk
  <1>3. CASE effect # None /\ Agrees(work[w].pay.econ, work[w].assoc)
    <2>1. o = <<e, Mk(st, "none", FALSE, FALSE), FALSE>>
      BY <1>3 DEF Outcomes
    <2>2. o[2].st = st BY <2>1 DEF Mk
    <2>3. QED BY <2>2
  <1>4. CASE effect = None
    <2>1. CASE MayRetryEntry(w)
      <3>1. o \in FirstOutcomes(w) BY <1>4, <2>1 DEF Outcomes
      <3>2. PICK b \in {None, Booked(w)}, end \in {"applied", "unresolved", "failed"},
                 retry \in BOOLEAN, exc \in BOOLEAN, verify \in BOOLEAN :
              o = <<b, Mk(end, "none", retry, exc), verify>>
        BY <3>1, FirstOutcome
      <3>3. o[2] = Mk(end, "none", retry, exc) BY <3>2
      <3>4. QED BY <3>2, <3>3 DEF Mk
    <2>2. CASE ~MayRetryEntry(w)
      <3>1. o = <<None, Mk("duplicate_deal_id", "none", FALSE, FALSE), FALSE>>
        BY <1>4, <2>2 DEF Outcomes
      <3>2. QED BY <1>1, <2>2, <3>1 DEF Mk
    <2>3. QED BY <2>1, <2>2
  <1>5. QED BY <1>2, <1>3, <1>4

\* The state file never loses the execution, and a result never leaves it out.
LEMMA EntryKept ==
    ASSUME NEW r, entry # "none" \/ r.st \notin {"duplicate_deal_id", "not_normalized"},
           NEW x \in NextEntries(r)
    PROVE  x # "none"
  BY DEF NextEntries

LEMMA ListedStays == [Next]_vars /\ entry # "none" => entry' # "none"
  <1> SUFFICES ASSUME [Next]_vars, entry # "none" PROVE entry' # "none" OBVIOUS
  <1>1. ASSUME NEW w \in Workers, WriteState(w) PROVE entry' # "none"
    BY <1>1, EntryKept DEF WriteState
  <1>2. CASE Reconcile BY <1>2 DEF Reconcile
  <1>3. CASE UNCHANGED entry BY <1>3
  <1>4. QED
    BY <1>1, <1>2, <1>3
       DEF Next, Worker, Step, vars, Receive, Retry, LookupEvidence, MarkReview, Claim,
           NormalizeFails, EnterCommit, LedgerWrite, SkipNonOption, Save, Settle, Fail, Crash,
           ListRecovery, RecoverReadable, RecoverUnreadable, RecoverWith, Resume, Tick

\* A step of one worker whose next state still has no entry to answer for.
LEMMA WorkEntries ==
    ASSUME TypeInv, NEW w \in Workers, NEW k, work' = [work EXCEPT ![w] = k],
           NoEntryYet(k), \A v \in Workers : NoEntryYet(work[v])
    PROVE  \A v \in Workers : NoEntryYet(work'[v])
  BY DEF TypeInv, TypeOK

LEMMA EntriesStep == TypeInv /\ EntriesStay /\ [Next]_vars => EntriesStay'
  <1> DEFINE RowFine  == row'.res.st # "duplicate_deal_id"
             WorkFine == \A v \in Workers : NoEntryYet(work'[v])
  <1> SUFFICES ASSUME TypeInv, EntriesStay, [Next]_vars, entry' = "none"
               PROVE  RowFine /\ WorkFine
    BY DEF EntriesStay, NoEntryYet
  <1>1. entry = "none" BY ListedStays
  <1>2. row.res.st # "duplicate_deal_id" /\ \A v \in Workers : NoEntryYet(work[v])
    BY <1>1 DEF EntriesStay, NoEntryYet
  <1>3. ASSUME NEW w \in Workers PROVE work[w] \in Works
    BY DEF TypeInv, TypeOK
  <1>4. row.res \in Result
    <2>1. CASE row \in Rows BY <2>1 DEF Rows
    <2>2. CASE row = Absent
      <3>1. row.res = NoRes BY <2>2 DEF Absent, Blank
      <3>2. QED BY <3>1, MkType DEF NoRes, Ends, Kinds
    <2>3. QED BY <2>1, <2>2 DEF TypeInv, TypeOK
  <1>5. ASSUME NEW s \in Sources, NEW p \in Payloads, NEW und \in BOOLEAN, Enqueue(s, p, und)
        PROVE  RowFine
    BY <1>2, <1>5, ReceivedKeeps DEF Enqueue, TypeInv, TypeOK
  <1>6. ASSUME NEW w \in Workers, Drop(w) PROVE WorkFine
    <2>1. NoEntryYet(Idle) BY DEF Idle, NoEntryYet, NoRes, Mk
    <2>2. QED BY <1>2, <1>6, <2>1, WorkEntries DEF Drop
  <1>7. ASSUME NEW w \in Workers, NEW s, NEW p,
               work' = [work EXCEPT ![w] = [Idle EXCEPT !.pc = "enqueued", !.src = s, !.pay = p]]
        PROVE  WorkFine
    <2> DEFINE k == [Idle EXCEPT !.pc = "enqueued", !.src = s, !.pay = p]
    <2>1. NoEntryYet(k) BY DEF Idle, NoEntryYet, NoRes, Mk
    <2>2. QED BY <1>2, <1>7, <2>1, WorkEntries
  <1>8. ASSUME NEW w \in Workers, NEW s \in Sources, NEW p \in Payloads, Receive(w, s, p)
        PROVE  RowFine /\ WorkFine
    BY <1>5, <1>7, <1>8 DEF Receive
  <1>9. ASSUME NEW w \in Workers, Retry(w) PROVE RowFine /\ WorkFine
    <2>1. row \in Rows BY <1>9, PendingIsRow DEF Retry, Claimable, TypeInv
    <2>2. QED BY <1>5, <1>7, <1>9, <2>1 DEF Retry, Rows
  <1>10. ASSUME NEW w \in Workers, NEW p \in Payloads, NEW und \in BOOLEAN,
                LookupEvidence(w, p, und)
         PROVE  RowFine /\ WorkFine
    <2>1. RowFine BY <1>5, <1>10 DEF LookupEvidence
    <2>2. CASE work' = [work EXCEPT ![w].pay = IF work[w].pc = "enqueued" THEN p ELSE @]
      <3> DEFINE k == [work[w] EXCEPT !.pay = IF work[w].pc = "enqueued" THEN p ELSE @]
      <3>1. k.res = work[w].res /\ k.pc = work[w].pc BY <1>3 DEF Works
      <3>2. work' = [work EXCEPT ![w] = k] BY <2>2
      <3>3. NoEntryYet(k) BY <1>2, <3>1 DEF NoEntryYet
      <3>4. WorkFine BY <1>2, <3>2, <3>3, WorkEntries
      <3>5. QED BY <2>1, <3>4
    <2>3. QED BY <1>6, <1>10, <2>1, <2>2 DEF LookupEvidence
  <1>11. ASSUME NEW w \in Workers, MarkReview(w) PROVE RowFine /\ WorkFine
    <2>1. CASE row.status = "pending"
      <3>1. row \in Rows BY <2>1, PendingIsRow DEF TypeInv
      <3>2. row'.res = row.res
        BY <1>11, <2>1, <3>1 DEF MarkReview, Unclaimed, Rows
      <3>3. QED BY <1>2, <1>6, <1>11, <3>2 DEF MarkReview
    <2>2. CASE row.status # "pending"
      BY <1>2, <1>6, <1>11, <2>2 DEF MarkReview
    <2>3. QED BY <2>1, <2>2
  <1>12. ASSUME NEW w \in Workers, Claim(w) PROVE RowFine /\ WorkFine
    <2>1. CASE Claimable(row)
      <3>1. row \in Rows BY <2>1, PendingIsRow DEF TypeInv, Claimable
      <3>2. row'.res = row.res BY <1>12, <2>1, <3>1 DEF Claim, Rows
      <3> DEFINE k == [work[w] EXCEPT !.pc = "claimed", !.ver = row.ver,
                    !.src = None, !.assoc = KnownAssoc(work[w].pay),
                    !.newA = row.pay.assoc = None /\ KnownAssoc(row.pay) # None,
                    !.allowed = row.allowed,
                    !.again = \/ row.note = "resumed"
                              \/ row.reason = "none" /\ Failed(row.res) /\ row.res.exc]
      <3>3. work' = [work EXCEPT ![w] = k] BY <1>12, <2>1 DEF Claim
      <3>4. k.res = work[w].res /\ k.pc = "claimed" BY <1>3 DEF Works
      <3>5. NoEntryYet(k) BY <1>2, <3>4 DEF NoEntryYet
      <3>6. WorkFine BY <1>2, <3>3, <3>5, WorkEntries
      <3>7. QED BY <1>2, <3>2, <3>6
    <2>2. CASE ~Claimable(row)
      BY <1>2, <1>6, <1>12, <2>2 DEF Claim
    <2>3. QED BY <2>1, <2>2
  <1>13. ASSUME NEW w \in Workers, NormalizeFails(w) \/ SkipNonOption(w)
         PROVE  RowFine /\ WorkFine
    <2>1. PICK st \in {"not_normalized", "not_option_deal"}, retry \in BOOLEAN, exc \in BOOLEAN :
            work' = [work EXCEPT ![w] = Resolved(work[w], Mk(st, "none", retry, exc), FALSE)]
      BY <1>13 DEF NormalizeFails, SkipNonOption
    <2> DEFINE k == Resolved(work[w], Mk(st, "none", retry, exc), FALSE)
    <2>2. k.res = Mk(st, "none", retry, exc) /\ k.pc = "resolved" BY DEF Resolved, Idle
    <2>a. Mk(st, "none", retry, exc).st = st BY DEF Mk
    <2>3. NoEntryYet(k) BY <2>2, <2>a DEF NoEntryYet
    <2>4. WorkFine BY <1>2, <2>1, <2>3, WorkEntries
    <2>5. QED BY <1>2, <1>13, <2>4 DEF NormalizeFails, SkipNonOption
  <1>14. ASSUME NEW w \in Workers, EnterCommit(w) PROVE RowFine /\ WorkFine
    <2>1. CASE Go(w, "commit")
      <3> DEFINE k == [work[w] EXCEPT !.pc = "commit"]
      <3>1. work' = [work EXCEPT ![w] = k] /\ k.res = work[w].res /\ k.pc = "commit"
        BY <1>3, <2>1 DEF Go, Works
      <3>2. NoEntryYet(k) BY <1>2, <3>1 DEF NoEntryYet
      <3>3. WorkFine BY <1>2, <3>1, <3>2, WorkEntries
      <3>4. QED BY <1>2, <1>14, <3>3 DEF EnterCommit
    <2>2. QED BY <1>2, <1>6, <1>14, <2>1 DEF EnterCommit
  <1>15. ASSUME NEW w \in Workers, LedgerWrite(w) PROVE RowFine /\ WorkFine
    <2>1. PICK o \in Outcomes(w) : work' = [work EXCEPT ![w] = Resolved(work[w], o[2], o[3])]
      BY <1>15 DEF LedgerWrite
    <2> DEFINE k == Resolved(work[w], o[2], o[3])
    <2>2. k.res = o[2] /\ k.pc = "resolved" BY ResolvedFields
    <2>3. NoEntryYet(k) BY <1>1, <2>1, <2>2, OutcomesEnd DEF NoEntryYet
    <2>4. WorkFine BY <1>2, <2>1, <2>3, WorkEntries
    <2>5. QED BY <1>2, <1>15, <2>4 DEF LedgerWrite
  <1>16. ASSUME NEW w \in Workers, Save(w) PROVE RowFine /\ WorkFine
    <2> DEFINE S == IF ~work[w].verify THEN {work[w].res}
                    ELSE {Readback(work[w].res, work[w].pay.econ, work[w].assoc),
                          Verify(work[w].res)}
    <2>1. PICK r \in S :
            LET res == Policy(row.att, r) IN
            IF Owns(w) /\ ~Regresses(row, res)
              THEN /\ row' = Stored(row, res)
                   /\ work' = [work EXCEPT ![w] = [Resolved(work[w], res, FALSE) EXCEPT !.pc = "saved"]]
              ELSE Drop(w) /\ UNCHANGED row
      BY <1>16 DEF Save
    <2>2. work[w].res \in Result BY <1>3 DEF Works
    <2>3. r \in Result /\ r.st # "duplicate_deal_id"
      BY <1>2, <2>2, ReadbackType, VerifyType, ReadbackEnd DEF NoEntryYet
    <2> DEFINE res == Policy(row.att, r)
    <2>4. CASE Owns(w) /\ ~Regresses(row, res)
      <3>1. row \in Rows BY <2>4, PendingIsRow DEF Owns, TypeInv
      <3>e. res.st = r.st BY <2>3, PolicyEnd
      <3>2. res \in Result /\ res.st # "duplicate_deal_id"
        BY <2>3, <3>1, <3>e, PolicyType DEF Rows
      <3>3. RowFine BY <2>1, <2>4, <3>1, <3>2, StoredResult
      <3> DEFINE k == [Resolved(work[w], res, FALSE) EXCEPT !.pc = "saved"]
      <3>4. k.res = res /\ k.pc = "saved" BY DEF Resolved, Idle
      <3>5. NoEntryYet(k) BY <3>2, <3>4 DEF NoEntryYet
      <3>6. work' = [work EXCEPT ![w] = k] BY <2>1, <2>4
      <3>7. WorkFine BY <1>2, <3>5, <3>6, WorkEntries
      <3>8. QED BY <3>3, <3>7
    <2>5. CASE ~(Owns(w) /\ ~Regresses(row, res))
      BY <1>2, <1>6, <2>1, <2>5
    <2>6. QED BY <2>4, <2>5
  <1>17. ASSUME NEW w \in Workers, WriteState(w) PROVE RowFine /\ WorkFine
    <2>1. work[w].res.st # "duplicate_deal_id" BY <1>2 DEF NoEntryYet
    <2>2. CASE Drop(w) BY <1>2, <1>6, <1>17, <2>2 DEF WriteState
    <2>3. CASE ~Drop(w)
      <3>1. Go(w, "stated") /\ (entry' = entry \/ entry' \in NextEntries(work[w].res))
        BY <1>17, <2>3 DEF WriteState
      <3>2. work[w].res.st = "not_normalized"
        <4>1. SUFFICES ASSUME work[w].res.st # "not_normalized" PROVE FALSE OBVIOUS
        <4>2. entry' \in NextEntries(work[w].res) BY <1>17, <2>1, <2>3, <4>1 DEF WriteState
        <4>3. QED BY <2>1, <4>1, <4>2, EntryKept
      <3> DEFINE k == [work[w] EXCEPT !.pc = "stated"]
      <3>3. work' = [work EXCEPT ![w] = k] /\ k.res = work[w].res /\ k.pc = "stated"
        BY <1>3, <3>1 DEF Go, Works
      <3>4. NoEntryYet(k) BY <2>1, <3>2, <3>3 DEF NoEntryYet
      <3>5. WorkFine BY <1>2, <3>3, <3>4, WorkEntries
      <3>6. QED BY <1>2, <1>17, <3>5 DEF WriteState
    <2>4. QED BY <2>2, <2>3
  <1>18. ASSUME NEW w \in Workers, Settle(w) PROVE RowFine /\ WorkFine
    <2> DEFINE res == work[w].res
    <2>1. res \in Result /\ res.st # "duplicate_deal_id" BY <1>2, <1>3 DEF NoEntryYet, Works
    <2>2. ASSUME Owns(w)
          PROVE  Settled(row, res, res.retry, "none").res.st # "duplicate_deal_id"
      <3>1. row \in Rows BY <2>2, PendingIsRow DEF Owns, TypeInv
      <3>2. Settled(row, res, res.retry, "none").res = Policy(row.att, res)
        BY <2>1, <3>1, SettledResult
      <3>3. QED BY <2>1, <3>2, PolicyEnd
    <2>3. RowFine BY <1>2, <1>18, <2>2 DEF Settle
    <2>4. QED BY <1>6, <1>18, <2>3 DEF Settle
  <1>19. ASSUME NEW w \in Workers, Fail(w) PROVE RowFine /\ WorkFine
    <2> DEFINE lost == Mk("unresolved", "verification_pending", FALSE, FALSE)
               res == IF row.res = NoRes THEN lost ELSE row.res
    <2>1. lost \in Result BY MkType DEF Ends, Kinds
    <2>2. lost.st = "unresolved" BY DEF Mk
    <2>3. res \in Result /\ res.st # "duplicate_deal_id" BY <1>2, <1>4, <2>1, <2>2
    <2>4. ASSUME Owns(w)
          PROVE  Settled(row, res, TRUE, "none").res.st # "duplicate_deal_id"
      <3>1. row \in Rows BY <2>4, PendingIsRow DEF Owns, TypeInv
      <3>2. Settled(row, res, TRUE, "none").res = Policy(row.att, res)
        BY <2>3, <3>1, SettledResult
      <3>3. QED BY <2>3, <3>2, PolicyEnd
    <2>5. RowFine BY <1>2, <1>19, <2>4 DEF Fail
    <2>6. QED BY <1>6, <1>19, <2>5 DEF Fail
  <1>20. ASSUME NEW w \in Workers, Crash(w) PROVE RowFine /\ WorkFine
    BY <1>2, <1>6, <1>20 DEF Crash
  <1>21. CASE RecoverReadable \/ RecoverUnreadable
    <2>1. PICK r : /\ RecoverWith(r)
                   /\ r \in {row.res, Readback(row.res, row.pay.econ, row.pay.assoc), Verify(row.res)}
      BY <1>21 DEF RecoverReadable, RecoverUnreadable
    <2>2. r \in Result /\ r.st # "duplicate_deal_id"
      BY <1>2, <1>4, <2>1, ReadbackType, VerifyType, ReadbackEnd
    <2> DEFINE res == Policy(row.att, r)
    <2>3. ASSUME row = obs.row
          PROVE  Recovered(row, res).res.st # "duplicate_deal_id"
      <3>1. row \in Rows BY <2>1, <2>3 DEF RecoverWith, TypeInv, TypeOK
      <3>e. res.st = r.st BY <2>2, PolicyEnd
      <3>2. res \in Result /\ res.st # "duplicate_deal_id"
        BY <2>2, <3>1, <3>e, PolicyType DEF Rows
      <3>3. QED BY <3>1, <3>2, RecoveredResult
    <2>4. RowFine BY <1>2, <2>1, <2>3 DEF RecoverWith
    <2>5. QED BY <1>2, <2>1, <2>4 DEF RecoverWith
  <1>22. CASE Reconcile
    BY <1>1, <1>22 DEF Reconcile
  <1>23. CASE Resume
    <2>1. row \in Rows BY <1>23, PendingIsRow DEF Resume, TypeInv
    <2> DEFINE u == [Unclaimed(row) EXCEPT !.status = "pending", !.att = 0, !.wait = 0,
                                           !.note = "resumed"]
               kd == IF row.res = NoRes \/ u.res.kind = "verification_pending"
                       THEN u.res.kind ELSE "pending_retry"
               r5 == [u EXCEPT !.res = [u.res EXCEPT !.kind = kd]]
    <2>2. row' = r5 BY <1>23 DEF Resume
    <2>3. u.res = row.res BY <2>1 DEF Unclaimed, Rows
    <2>4. r5.res = [row.res EXCEPT !.kind = kd]
      BY <2>1, <2>3 DEF Unclaimed, Rows
    <2>5. r5.res.st = row.res.st BY <1>4, <2>4 DEF Result
    <2>6. QED BY <1>2, <1>23, <2>2, <2>5 DEF Resume
  <1>24. CASE Tick
    <2>1. row \in Rows BY <1>24 DEF Tick, TypeInv, TypeOK, Absent, Blank
    <2>2. row'.res = row.res BY <1>24, <2>1 DEF Tick, Rows
    <2>3. QED BY <1>2, <1>24, <2>2 DEF Tick
  <1>25. CASE ListRecovery \/ UNCHANGED vars
    BY <1>2, <1>25 DEF ListRecovery, vars
  <1>26. QED
    BY <1>8, <1>9, <1>10, <1>11, <1>12, <1>13, <1>14, <1>15, <1>16, <1>17, <1>18,
       <1>19, <1>20, <1>21, <1>22, <1>23, <1>24, <1>25, UndIsBoolean DEF Next, Worker, Step

\* A worker whose failure to normalise is told, or whose result is no such
\* failure.
FailureTold(k) == k.res.st = "not_normalized" =>
    IF k.pc = "resolved" THEN ~k.verify /\ k.res.kind = "none"
    ELSE k.res.kind = "manual_required" \/ (k.res.kind = "pending_retry" /\ k.res.retry)

LEMMA PolicyTells ==
    ASSUME NEW r \in Result, NEW att, Open(r),
           \/ r.kind \in {"none", "manual_required"}
           \/ r.kind = "pending_retry" /\ r.retry
    PROVE  \/ Policy(att, r).kind = "manual_required"
           \/ Policy(att, r).kind = "pending_retry" /\ Policy(att, r).retry
  BY DEF Policy, Result, Open, Kinds

LEMMA WorkFailures ==
    ASSUME TypeInv, FailuresTold, NEW w \in Workers, NEW k, work' = [work EXCEPT ![w] = k],
           FailureTold(k)
    PROVE  FailuresTold'
  BY DEF TypeInv, TypeOK, FailuresTold, FailureTold

LEMMA FailuresStep == TypeInv /\ FailuresTold /\ [Next]_vars => FailuresTold'
  <1> SUFFICES ASSUME TypeInv, FailuresTold, [Next]_vars PROVE FailuresTold' OBVIOUS
  <1>1. ASSUME NEW w \in Workers PROVE work[w] \in Works /\ FailureTold(work[w])
    BY DEF TypeInv, TypeOK, FailuresTold, FailureTold
  <1>2. CASE UNCHANGED work BY <1>2 DEF FailuresTold
  <1>3. ASSUME NEW w \in Workers, NEW k, work' = [work EXCEPT ![w] = k],
               k.res.st # "not_normalized"
        PROVE  FailuresTold'
    BY <1>3, WorkFailures DEF FailureTold
  <1>4. ASSUME NEW w \in Workers, Drop(w) PROVE FailuresTold'
    BY <1>3, <1>4 DEF Drop, Idle, NoRes, Mk
  <1>5. ASSUME NEW w \in Workers, NEW s, NEW p,
               work' = [work EXCEPT ![w] = [Idle EXCEPT !.pc = "enqueued", !.src = s, !.pay = p]]
        PROVE  FailuresTold'
    <2> DEFINE k == [Idle EXCEPT !.pc = "enqueued", !.src = s, !.pay = p]
    <2>1. k.res.st # "not_normalized" BY DEF Idle, NoRes, Mk
    <2>2. QED BY <1>3, <1>5, <2>1
  <1>6. ASSUME NEW w \in Workers, NEW k \in Works, work' = [work EXCEPT ![w] = k],
               k.res = work[w].res, work[w].pc # "resolved", k.pc # "resolved"
        PROVE  FailuresTold'
    <2>1. FailureTold(k) BY <1>1, <1>6 DEF FailureTold
    <2>2. QED BY <1>6, <2>1, WorkFailures
  <1>7. ASSUME NEW w \in Workers, NEW pc \in PCs, Go(w, pc), work[w].pc # "resolved",
               pc # "resolved"
        PROVE  FailuresTold'
    <2> DEFINE k == [work[w] EXCEPT !.pc = pc]
    <2>1. k \in Works BY <1>1, WorkUpdates
    <2>2. k.res = work[w].res /\ k.pc = pc /\ work' = [work EXCEPT ![w] = k]
      BY <1>1, <1>7 DEF Go, Works
    <2>3. QED BY <1>6, <1>7, <2>1, <2>2
  <1>8. ASSUME NEW w \in Workers, NEW p \in Payloads, NEW und, LookupEvidence(w, p, und)
        PROVE  FailuresTold'
    <2> DEFINE q == IF work[w].pc = "enqueued" THEN p ELSE work[w].pay
               k == [work[w] EXCEPT !.pay = q]
    <2>1. CASE Drop(w) BY <1>4, <2>1
    <2>2. CASE work' = [work EXCEPT ![w] = k]
      <3>1. q \in Payloads \cup {None} BY <1>1 DEF Works
      <3>2. k \in Works BY <1>1, <3>1, WorkUpdates
      <3>3. k.res = work[w].res /\ k.pc = work[w].pc BY <1>1 DEF Works
      <3>4. QED BY <1>6, <1>8, <2>2, <3>2, <3>3 DEF LookupEvidence
    <2>3. QED BY <1>8, <2>1, <2>2 DEF LookupEvidence
  <1>9. ASSUME NEW w \in Workers, Claim(w) PROVE FailuresTold'
    <2>1. CASE Drop(w) BY <1>4, <2>1
    <2>2. CASE Claimable(row)
      <3> DEFINE k == [work[w] EXCEPT !.pc = "claimed", !.ver = row.ver,
                    !.src = None, !.assoc = KnownAssoc(work[w].pay),
                    !.newA = row.pay.assoc = None /\ KnownAssoc(row.pay) # None,
                    !.allowed = row.allowed,
                    !.again = \/ row.note = "resumed"
                              \/ row.reason = "none" /\ Failed(row.res) /\ row.res.exc]
      <3>1. work' = [work EXCEPT ![w] = k] BY <1>9, <2>2 DEF Claim
      <3>2. k.res = work[w].res /\ k.pc = "claimed" BY <1>1 DEF Works
      <3>3. FailureTold(k) BY <1>1, <1>9, <3>2 DEF Claim, FailureTold
      <3>4. QED BY <3>1, <3>3, WorkFailures
    <2>3. QED BY <1>9, <2>1, <2>2 DEF Claim
  <1>10. ASSUME NEW w \in Workers, NEW res, NEW verify, FailureTold(Resolved(work[w], res, verify)),
                work' = [work EXCEPT ![w] = Resolved(work[w], res, verify)]
         PROVE  FailuresTold'
    BY <1>10, WorkFailures
  <1>11. ASSUME NEW w \in Workers, NormalizeFails(w) PROVE FailuresTold'
    <2>1. PICK busy \in BOOLEAN :
            work' = [work EXCEPT ![w] = Resolved(work[w],
                                          Mk("not_normalized", "none", busy, TRUE), FALSE)]
      BY <1>11 DEF NormalizeFails
    <2>2. FailureTold(Resolved(work[w], Mk("not_normalized", "none", busy, TRUE), FALSE))
      BY DEF FailureTold, Resolved, Idle, Mk
    <2>3. QED BY <1>10, <2>1, <2>2
  <1>12. ASSUME NEW w \in Workers, SkipNonOption(w) PROVE FailuresTold'
    <2>1. FailureTold(Resolved(work[w], Mk("not_option_deal", "none", FALSE, FALSE), FALSE))
      BY DEF FailureTold, Resolved, Idle, Mk
    <2>2. QED BY <1>10, <1>12, <2>1 DEF SkipNonOption
  <1>13. ASSUME NEW w \in Workers, LedgerWrite(w) PROVE FailuresTold'
    <2>1. PICK o \in Outcomes(w) : work' = [work EXCEPT ![w] = Resolved(work[w], o[2], o[3])]
      BY <1>13 DEF LedgerWrite
    <2>2. Resolved(work[w], o[2], o[3]).res = o[2] BY ResolvedFields
    <2>3. o[2].st # "not_normalized" BY OutcomesEnd
    <2>4. QED BY <1>3, <2>1, <2>2, <2>3
  <1>14. ASSUME NEW w \in Workers, Save(w) PROVE FailuresTold'
    <2> DEFINE S == IF ~work[w].verify THEN {work[w].res}
                    ELSE {Readback(work[w].res, work[w].pay.econ, work[w].assoc),
                          Verify(work[w].res)}
    <2>1. PICK r \in S :
            LET res == Policy(row.att, r) IN
            IF Owns(w) /\ ~Regresses(row, res)
              THEN /\ row' = Stored(row, res)
                   /\ work' = [work EXCEPT ![w] = [Resolved(work[w], res, FALSE) EXCEPT !.pc = "saved"]]
              ELSE Drop(w) /\ UNCHANGED row
      BY <1>14 DEF Save
    <2>2. r \in Result BY <1>1, ReadbackType, VerifyType DEF Works
    <2> DEFINE res == Policy(row.att, r)
               k == [Resolved(work[w], res, FALSE) EXCEPT !.pc = "saved"]
    <2>3. CASE Drop(w) BY <1>4, <2>3
    <2>4. CASE work' = [work EXCEPT ![w] = k]
      <3>1. k.res = res BY DEF Resolved, Idle
      <3>2. res.st = r.st BY <2>2, PolicyEnd
      <3>3. CASE r.st # "not_normalized" BY <1>3, <2>4, <3>1, <3>2, <3>3
      <3>4. CASE r.st = "not_normalized"
        <4>1. \/ r.kind \in {"none", "manual_required"}
              \/ r.kind = "pending_retry" /\ r.retry
          <5>1. CASE ~work[w].verify
            <6>1. r = work[w].res BY <5>1
            <6>2. QED BY <1>1, <1>14, <3>4, <6>1 DEF Save, FailureTold
          <5>2. CASE work[w].verify
            <6>1. work[w].res.st # "not_normalized" BY <1>1, <1>14, <5>2 DEF Save, FailureTold
            <6>2. r.st # "not_normalized" BY <5>2, <6>1, ReadbackDeal
            <6>3. QED BY <3>4, <6>2
          <5>3. QED BY <5>1, <5>2
        <4>2. Open(r) BY <3>4 DEF Open, Failed
        <4>3. k.pc = "saved" BY DEF Resolved, Idle
        <4>t. \/ res.kind = "manual_required"
              \/ res.kind = "pending_retry" /\ res.retry
          BY <2>2, <4>1, <4>2, PolicyTells
        <4>f. FailureTold(k) BY <3>1, <4>3, <4>t DEF FailureTold
        <4>4. QED BY <2>4, <4>f, WorkFailures
      <3>5. QED BY <3>3, <3>4
    <2>5. QED BY <2>1, <2>3, <2>4
  <1>15. ASSUME NEW w \in Workers, WriteState(w) PROVE FailuresTold'
    <2>1. Drop(w) \/ Go(w, "stated") BY <1>15 DEF WriteState
    <2>2. QED BY <1>4, <1>7, <1>15, <2>1 DEF WriteState, PCs
  <1>16. ASSUME NEW w \in Workers, EnterCommit(w) PROVE FailuresTold'
    <2>1. Drop(w) \/ Go(w, "commit") BY <1>16 DEF EnterCommit
    <2>2. QED BY <1>4, <1>7, <1>16, <2>1 DEF EnterCommit, PCs
  <1>17. QED
    BY <1>2, <1>4, <1>5, <1>8, <1>9, <1>11, <1>12, <1>13, <1>14, <1>15, <1>16
       DEF Next, Worker, Step, vars, Receive, Retry, MarkReview, Settle, Fail, Crash,
           ListRecovery, RecoverReadable, RecoverUnreadable, RecoverWith, Reconcile, Resume, Tick

-----------------------------------------------------------------------------
(* The invariant and what follows from it.                                 *)

LEMMA ListingStep == ListingIsOpen /\ [Next]_vars => ListingIsOpen'
  <1> SUFFICES ASSUME ListingIsOpen, [Next]_vars PROVE ListingIsOpen' OBVIOUS
  <1>1. CASE ListRecovery
    BY <1>1 DEF ListRecovery, Recoverable, NeedsReadback, ListingIsOpen
  <1>2. CASE obs' = None BY <1>2 DEF ListingIsOpen
  <1>3. CASE UNCHANGED obs BY <1>3 DEF ListingIsOpen
  <1>4. QED
    BY <1>1, <1>2, <1>3
       DEF Next, Worker, Step, vars, Receive, Retry, LookupEvidence, MarkReview, Claim,
           NormalizeFails, EnterCommit, LedgerWrite, SkipNonOption, Save, WriteState, Settle,
           Fail, Crash, RecoverReadable, RecoverUnreadable, RecoverWith, Reconcile, Resume, Tick

LEMMA InvInit == Init => IInv
  <1> SUFFICES ASSUME Init PROVE IInv OBVIOUS
  <1>1. TypeInv BY TypeInit
  <1>2. CommitOwnsRow BY NoneAssumption DEF Init, CommitOwnsRow, Idle
  <1>3. ~Claims(NoRes) BY DEF Claims, NoRes, Mk
  <1>4. \A w \in Workers : ~Claims(work[w].res) BY <1>3 DEF Init, Idle
  <1>5. ~Claims(row.res) /\ row.env # "recorded"
    BY <1>3 DEF Init, Absent, Blank
  <1>6. ResultsAreBooked BY <1>4, <1>5 DEF Init, ResultsAreBooked
  <1>7. ListingIsOpen BY DEF Init, ListingIsOpen
  <1>8. EntriesStay BY DEF Init, EntriesStay, Absent, Blank, Idle, NoRes, Mk
  <1>9. FailuresTold BY DEF Init, FailuresTold, Idle, NoRes, Mk
  <1>10. QED BY <1>1, <1>2, <1>6, <1>7, <1>8, <1>9 DEF IInv, TypeInv

LEMMA InvStep == IInv /\ [Next]_vars => IInv'
  BY TypeStep, CommitStep, ResultsStep, ListingStep, EntriesStep, FailuresStep DEF IInv, TypeInv

\* The inductive invariant: the types, the payload a worker holds, the commit
\* scope as ownership of the row, results backed by the ledger, open listings,
\* and an entry behind every duplicate and every written state.
THEOREM InvariantHolds == Spec => []IInv
  BY InvInit, InvStep, PTL DEF Spec

\* Nothing the inbox stores or has told about the execution says "recorded"
\* while the ledger has no effect, wherever a process dies
\* (save_trade_payload_result, prepare_trade_receipt_result).
THEOREM RecordedIsBooked == Spec => []RecordedMeansBooked
  <1>1. IInv => RecordedMeansBooked
    BY DEF IInv, ResultsAreBooked, Claims, RecordedMeansBooked
  <1>2. QED BY <1>1, InvariantHolds, PTL

\* A judged trade without an effect, out of the manual queue and off the state
\* file's lists: what a step must never leave in a handled row.
Lost(r) == /\ r.status = "handled"
           /\ r.res.st \notin {"none", "not_option_deal"}
           /\ r.res.kind # "manual_required"

LEMMA FencedFields ==
    ASSUME NEW r \in Rows
    PROVE  Fenced(r).status = r.status /\ Fenced(r).reason = r.reason
  BY DEF Fenced, Unclaimed, Rows

\* A new delivery never puts a row away.
LEMMA ReceivedHandled ==
    ASSUME row \in Rows \cup {Absent}, NEW s \in Sources, NEW p \in Payloads,
           NEW und \in BOOLEAN, Received(s, p, und).status = "handled"
    PROVE  row.status = "handled"
  <1> DEFINE new   == [src |-> s, pay |-> p] \notin evidence
             ev    == evidence \cup {[src |-> s, pay |-> p]}
             first == row.status = "absent"
             fresh == Blank("pending", 1, s, p, effect = None)
             r0    == IF first THEN fresh ELSE row
             why   == ConflictReason(ev, p, new)
             known == first \/ \E e \in evidence : e.pay.assoc # None
             r1    == Judged(r0, s, p, why, new)
             r2    == IF und /\ r0.status = "handled" THEN r1 ELSE Enriched(r1, r0, why, p, known)
  <1>1. SUFFICES ASSUME row.status # "handled" PROVE FALSE OBVIOUS
  <1>2. fresh \in Rows /\ fresh.status = "pending" BY BlankType DEF Blank
  <1>3. r0 \in Rows /\ r0.status # "handled"
    BY <1>1, <1>2 DEF Absent, Blank
  <1>4. r1 \in Rows /\ r1.status # "handled"
    <2> DEFINE f == Fenced(r0)
    <2>1. f \in Rows BY <1>3, FencedType
    <2>2. [f EXCEPT !.status = "conflict", !.reason = why, !.note = "none"].status = "conflict"
      BY <2>1 DEF Rows
    <2>3. [f EXCEPT !.status = "pending", !.reason = "cleared", !.note = "none",
                    !.src = s, !.pay = p].status = "pending"
      BY <2>1 DEF Rows
    <2>4. r1 \in {[f EXCEPT !.status = "conflict", !.reason = why, !.note = "none"],
                  [f EXCEPT !.status = "pending", !.reason = "cleared", !.note = "none",
                            !.src = s, !.pay = p], r0}
      BY DEF Judged
    <2>5. r1.status # "handled" BY <1>3, <2>2, <2>3, <2>4
    <2>6. r1 \in Rows BY <1>3, ReasonType, JudgedType
    <2>7. QED BY <2>5, <2>6
  <1>5. r2 \in Rows /\ r2.status # "handled"
    <2> DEFINE f == Fenced(r1)
               al == f.allowed /\ effect = None /\ r0.res.st # "not_option_deal"
               e == [f EXCEPT !.status = "pending", !.wait = 0, !.note = "enrichment",
                              !.allowed = al]
    <2>1. f \in Rows /\ f.status = r1.status
      BY <1>4, FencedType, FencedFields
    <2>2. e.status = "pending" BY <2>1 DEF Rows
    <2>3. r2 \in {r1, f, e} BY DEF Enriched
    <2>4. e.status # "handled" /\ f.status # "handled" BY <1>4, <2>1, <2>2
    <2>e. r2.status # "handled" BY <1>4, <2>3, <2>4
    <2>5. r2 \in Rows BY <1>3, <1>4, EnrichedType
    <2>6. QED BY <2>e, <2>5
  <1>6. Reviewed(r2, r0).status # "handled"
    <2> DEFINE f == Fenced(r2)
    <2>1. f \in Rows BY <1>5, FencedType
    <2>2. [f EXCEPT !.status = "identity_needs_review", !.reason = "underlying",
                    !.note = "none"].status = "identity_needs_review"
      BY <2>1 DEF Rows
    <2>3. QED BY <1>5, <2>2 DEF Reviewed
  <1>7. Received(s, p, und) \in {r0, r2, Reviewed(r2, r0)} BY DEF Received
  <1>8. QED BY <1>3, <1>5, <1>6, <1>7

LEMMA PolicyOpen ==
    ASSUME NEW r \in Result, NEW att, Open(r)
    PROVE  Policy(att, r).kind \in {"pending_retry", "recorded", "manual_required",
                                    "verification_pending"}
  BY DEF Policy, Result, Open, Kinds

\* What a failed attempt puts away it hands to a person or reports as recorded.
LEMMA SettledStatus ==
    ASSUME NEW r \in Rows, NEW res \in Result,
           Settled(r, res, TRUE, "none").status = "handled"
    PROVE  Policy(r.att, res).kind \in {"recorded", "manual_required"}
  <1> DEFINE new == Policy(r.att, res)
             u == Unclaimed(Stored(r, new))
             st == CASE new.kind \in {"recorded", "manual_required"} -> "handled"
                     [] new.kind = "verification_pending"            -> "pending"
                     [] OTHER -> "pending"
  <1>1. new \in Result BY PolicyType DEF Rows
  <1>2. u \in Rows BY <1>1, StoredType, FencedType
  <1>3. Settled(r, res, TRUE, "none").status = st BY <1>2 DEF Settled, Rows
  <1>4. QED BY <1>3

LEMMA RecoveredStatus ==
    ASSUME NEW r \in Rows, NEW res \in Result, Recovered(r, res).status = "handled"
    PROVE  res.kind \notin {"pending_retry", "verification_pending"}
  <1> DEFINE u == Unclaimed(Stored(r, res))
             st == IF res.kind \in {"pending_retry", "verification_pending"}
                     THEN "pending" ELSE "handled"
  <1>1. u \in Rows BY StoredType, FencedType
  <1>2. Recovered(r, res).status = st BY <1>1 DEF Recovered, Rows
  <1>3. QED BY <1>2

LEMMA VisibleStep == IInv /\ NoTradeVanishes /\ [Next]_vars => NoTradeVanishes'
  <1> SUFFICES ASSUME IInv, NoTradeVanishes, [Next]_vars, effect' = None, entry' = "none",
                      Lost(row')
               PROVE  FALSE
    BY DEF NoTradeVanishes, Lost
  <1>1. TypeInv /\ IInv' BY InvStep DEF IInv, TypeInv
  <1>2. effect = None /\ entry = "none" BY <1>1, BookedStays, ListedStays
  <1>3. ~Lost(row) BY <1>2 DEF NoTradeVanishes, Lost
  <1>4. row' \in Rows BY <1>1 DEF IInv, TypeOK, Lost, Absent, Blank
  <1>5. Open(row'.res) /\ row'.res.kind \notin {"recorded", "manual_required"}
    <2>1. ~Claims(row'.res) BY <1>1 DEF IInv, ResultsAreBooked
    <2>2. row'.res.st # "duplicate_deal_id" BY <1>1 DEF IInv, EntriesStay
    <2>3. QED BY <1>4, <2>1, <2>2 DEF Lost, Claims, Open, Failed, Rows, Result, Ends
  <1>6. ASSUME row'.res = row.res, row'.status = "handled" => row.status = "handled" PROVE FALSE
    BY <1>3, <1>6 DEF Lost
  <1>7. ASSUME row'.status = "pending" PROVE FALSE BY <1>7 DEF Lost
  <1>8. ASSUME NEW s \in Sources, NEW p \in Payloads, NEW und \in BOOLEAN, Enqueue(s, p, und)
        PROVE  FALSE
    BY <1>6, <1>8, ReceivedKeeps, ReceivedHandled DEF Enqueue, IInv, TypeOK
  <1>9. ASSUME NEW w \in Workers, Worker(w) PROVE FALSE
    <2>1. ASSUME NEW s \in Sources \ {"lookup"}, NEW p \in Payloads, Receive(w, s, p) PROVE FALSE
      BY <1>8, <2>1 DEF Receive
    <2>2. ASSUME NEW p \in Payloads, NEW und \in BOOLEAN, LookupEvidence(w, p, und) PROVE FALSE
      BY <1>8, <2>2 DEF LookupEvidence
    <2>3. CASE Retry(w)
      <3>1. row \in Rows BY <1>1, <2>3, PendingIsRow DEF Retry, Claimable, TypeInv
      <3>2. QED BY <1>8, <2>3, <3>1 DEF Retry, Rows
    <2>4. CASE MarkReview(w)
      <3>1. CASE row.status = "pending"
        <4>1. row \in Rows BY <1>1, <3>1, PendingIsRow DEF TypeInv
        <4>2. row'.status = "identity_needs_review"
          BY <2>4, <3>1, <4>1 DEF MarkReview, Unclaimed, Rows
        <4>3. QED BY <4>2 DEF Lost
      <3>2. CASE row.status # "pending" BY <1>6, <2>4, <3>2 DEF MarkReview
      <3>3. QED BY <3>1, <3>2
    <2>5. CASE Claim(w)
      <3>1. CASE Claimable(row)
        <4>1. row \in Rows BY <1>1, <3>1, PendingIsRow DEF Claimable, TypeInv
        <4>2. row'.status = "pending"
          BY <2>5, <3>1, <4>1 DEF Claim, Claimable, Rows
        <4>3. QED BY <1>7, <4>2
      <3>2. CASE ~Claimable(row) BY <1>6, <2>5, <3>2 DEF Claim
      <3>3. QED BY <3>1, <3>2
    <2>6. CASE NormalizeFails(w) \/ EnterCommit(w) \/ LedgerWrite(w) \/ SkipNonOption(w)
               \/ WriteState(w) \/ Crash(w)
      BY <1>6, <2>6
         DEF NormalizeFails, EnterCommit, LedgerWrite, SkipNonOption, WriteState, Crash
    <2>7. work[w] \in Works BY DEF IInv, TypeOK
    <2>8. CASE Save(w)
      <3>1. CASE row' = row BY <1>6, <3>1
      <3>2. CASE row' # row
        <4>1. PICK res : Owns(w) /\ row' = Stored(row, res)
          BY <2>8, <3>2 DEF Save
        <4>2. row \in Rows BY <1>1, <4>1, PendingIsRow DEF Owns, TypeInv
        <4>3. row'.status = "pending" BY <4>1, <4>2 DEF Stored, Owns, Rows
        <4>4. QED BY <1>7, <4>3
      <3>3. QED BY <3>1, <3>2
    <2>9. CASE Settle(w)
      <3> DEFINE res == work[w].res
      <3>1. CASE row' = row BY <1>6, <3>1
      <3>2. CASE row' # row
        <4>1. Owns(w) /\ row' = Settled(row, res, res.retry, "none") BY <2>9, <3>2 DEF Settle
        <4>2. row \in Rows BY <1>1, <4>1, PendingIsRow DEF Owns, TypeInv
        <4>3. res \in Result BY <2>7 DEF Works
        <4>4. res.st = "not_normalized" BY <1>2, <2>9 DEF Settle, IInv, EntriesStay
        <4>5. \/ res.kind = "manual_required"
              \/ res.kind = "pending_retry" /\ res.retry
          BY <2>9, <4>4 DEF Settle, IInv, FailuresTold
        <4>6. row'.res = Policy(row.att, res) BY <4>1, <4>2, <4>3, SettledResult
        <4>7. CASE res.kind = "manual_required"
          <5>1. Policy(row.att, res).kind = "manual_required"
            BY <4>3, <4>7 DEF Policy, Result
          <5>2. QED BY <1>5, <4>6, <5>1
        <4>8. CASE res.retry
          <5>1. Settled(row, res, TRUE, "none").status = "handled"
            <6>1. res.retry = TRUE BY <4>3, <4>8 DEF Result
            <6>2. QED BY <4>1, <6>1 DEF Lost
          <5>2. row'.res.kind \in {"recorded", "manual_required"}
            BY <4>2, <4>3, <4>6, <5>1, SettledStatus
          <5>3. QED BY <1>5, <5>2
        <4>9. QED BY <4>5, <4>7, <4>8
      <3>3. QED BY <3>1, <3>2
    <2>10. CASE Fail(w)
      <3> DEFINE res == IF row.res = NoRes
                          THEN Mk("unresolved", "verification_pending", FALSE, FALSE) ELSE row.res
      <3>1. CASE row' = row BY <1>6, <3>1
      <3>2. CASE row' # row
        <4>1. Owns(w) /\ row' = Settled(row, res, TRUE, "none") BY <2>10, <3>2 DEF Fail
        <4>2. row \in Rows BY <1>1, <4>1, PendingIsRow DEF Owns, TypeInv
        <4>3. res \in Result BY <4>2, MkType DEF Rows, Ends, Kinds
        <4>4. row'.res = Policy(row.att, res) BY <4>1, <4>2, <4>3, SettledResult
        <4>5. row'.res.kind \in {"recorded", "manual_required"}
          BY <4>1, <4>2, <4>3, <4>4, SettledStatus DEF Lost
        <4>6. QED BY <1>5, <4>5
      <3>3. QED BY <3>1, <3>2
    <2>11. QED
      BY <1>9, <2>1, <2>2, <2>3, <2>4, <2>5, <2>6, <2>8, <2>9, <2>10, UndIsBoolean
         DEF Worker, Step
  <1>10. CASE RecoverReadable \/ RecoverUnreadable
    <2>1. PICK r \in {row.res, Readback(row.res, row.pay.econ, row.pay.assoc), Verify(row.res)} :
            RecoverWith(r)
      BY <1>10 DEF RecoverReadable, RecoverUnreadable
    <2>2. CASE row' = row BY <1>6, <2>2
    <2>3. CASE row' # row
      <3> DEFINE res == Policy(row.att, r)
      <3>1. row = obs.row /\ obs # None /\ row' = Recovered(row, res)
        BY <2>1, <2>3 DEF RecoverWith
      <3>2. row \in Rows BY <3>1 DEF IInv, TypeOK
      <3>3. r \in Result BY <2>1, <3>2, ReadbackType, VerifyType DEF Rows
      <3>4. res \in Result BY <3>2, <3>3, PolicyType DEF Rows
      <3>5. row'.res = res BY <3>1, <3>2, <3>4, RecoveredResult
      <3>6. res.kind \notin {"pending_retry", "verification_pending"}
        BY <3>1, <3>2, <3>4, RecoveredStatus DEF Lost
      <3>7. res.st = r.st BY <3>3, PolicyEnd
      <3>8. Open(r) BY <1>5, <3>5, <3>7 DEF Open, Failed
      <3>9. QED BY <1>5, <3>3, <3>5, <3>6, <3>8, PolicyOpen
    <2>4. QED BY <2>2, <2>3
  <1>11. CASE Reconcile BY <1>2, <1>11 DEF Reconcile
  <1>12. CASE Resume
    <2>1. row \in Rows BY <1>1, <1>12, PendingIsRow DEF Resume, TypeInv
    <2>2. row'.status = "pending" BY <1>12, <2>1 DEF Resume, Unclaimed, Rows
    <2>3. QED BY <1>7, <2>2
  <1>13. CASE Tick
    <2>1. row \in Rows BY <1>13 DEF Tick, IInv, TypeOK, Absent, Blank
    <2>2. row'.status = row.status /\ row'.res = row.res
      BY <1>13, <2>1 DEF Tick, Rows
    <2>3. QED BY <1>6, <2>2
  <1>14. CASE ListRecovery \/ UNCHANGED vars
    BY <1>6, <1>14 DEF ListRecovery, vars
  <1>15. QED BY <1>9, <1>10, <1>11, <1>12, <1>13, <1>14 DEF Next

\* A trade that was judged and put away without reaching the ledger is never
\* lost from sight: it waits for a person, was skipped as a stock deal, or the
\* state file lists it (_settle_trade_payload, prepare_trade_receipt_result,
\* write_trade_intake_state).
THEOREM TradesStayVisible == Spec => []NoTradeVanishes
  <1>1. Init => NoTradeVanishes
    BY DEF Init, NoTradeVanishes, Absent, Blank
  <1>2. IInv /\ NoTradeVanishes /\ [Next]_vars => NoTradeVanishes'
    BY VisibleStep
  <1>3. QED BY <1>1, <1>2, InvariantHolds, PTL DEF Spec

\* Only the ledger write of the commit scope touches the effect.
LEMMA OnlyLedgerWrite ==
    ASSUME [Next]_vars, effect' # effect
    PROVE  \E w \in Workers : LedgerWrite(w)
  BY DEF Next, Worker, Step, vars, Receive, Retry, LookupEvidence, MarkReview, Claim,
         NormalizeFails, EnterCommit, SkipNonOption, Save, WriteState, Settle, Fail, Crash,
         ListRecovery, RecoverReadable, RecoverUnreadable, RecoverWith, Reconcile, Resume, Tick

\* The ledger changes only for the holder of the writer lock whose claim and
\* payload version are still the row's (trade_payload_commit_scope).
THEOREM AdoptionFenced == Spec => AdoptionIsFenced
  <1>1. ASSUME IInv, [Next]_vars, effect' # effect
        PROVE  lock \in Workers /\ Owns(lock)
    <2>1. PICK w \in Workers : LedgerWrite(w) BY <1>1, OnlyLedgerWrite
    <2>2. lock = w BY <2>1 DEF LedgerWrite
    <2>3. QED BY <1>1, <2>2, NoneAssumption DEF IInv, CommitOwnsRow
  <1>2. IInv /\ [Next]_vars => [effect' # effect => lock \in Workers /\ Owns(lock)]_vars
    BY <1>1
  <1>3. QED BY <1>2, InvariantHolds, PTL DEF Spec, AdoptionIsFenced

-----------------------------------------------------------------------------
(* The evidence, where no lookup contradicts the configured underlying.    *)

\* What the evidence and a row of it must show of each other.
RowAgrees(ev, r) ==
    /\ r.status # "conflict" => Clean(ev)
    /\ r.status # "conflict" \/ r.reason = "missing" => Confirmed(ev)
    /\ r.reason # "underlying"

\* A delivery without an economic conflict leaves confirmed orders unopposed.
LEMMA ConfirmedGrows ==
    ASSUME NEW ev, NEW s, NEW p, Confirmed(ev),
           ~EconomicConflict(ev \cup {[src |-> s, pay |-> p]}, p)
    PROVE  Confirmed(ev \cup {[src |-> s, pay |-> p]})
  <1> DEFINE d == [src |-> s, pay |-> p]
             ev2 == ev \cup {d}
  <1> SUFFICES ASSUME NEW e \in ev2, NEW f \in ev2, e.pay.status = "ok",
                      Differ(e.pay.assoc, f.pay.assoc)
               PROVE  FALSE
    BY DEF Confirmed
  <1>1. \A g \in ev2 : ~Differ(g.pay.assoc, p.assoc) BY DEF EconomicConflict
  <1>2. d.pay = p OBVIOUS
  <1>3. CASE e = d BY <1>1, <1>2, <1>3 DEF Differ
  <1>4. CASE f = d BY <1>1, <1>2, <1>4 DEF Differ
  <1>5. CASE e \in ev /\ f \in ev BY <1>5 DEF Confirmed
  <1>6. QED BY <1>3, <1>4, <1>5

\* A new delivery that is judged free of conflict leaves the evidence clean.
LEMMA CleanGrows ==
    ASSUME NEW ev, NEW p \in Payloads, ConflictReason(ev, p, TRUE) = "none"
    PROVE  Clean(ev)
  <1>1. ~EconomicConflict(ev, p) /\ ~StatusConflict(ev, p, TRUE) /\ ~StatusMissing(p, TRUE)
    BY DEF ConflictReason
  <1>2. p.status = "ok"
    BY <1>1, PayloadAssumption DEF StatusConflict, StatusMissing, Statuses
  <1>3. \A e \in ev : e.pay.status \in {"ok", None}
    BY <1>1, <1>2 DEF StatusConflict
  <1>4. \A e, f \in ev : ~Differ(e.pay.econ, f.pay.econ)
    BY <1>1 DEF EconomicConflict
  <1>5. QED BY <1>3, <1>4 DEF Clean

\* Only a status nobody confirms is missing.
LEMMA MissingIsUnconfirmed ==
    ASSUME NEW ev, NEW p \in Payloads, NEW new \in BOOLEAN,
           ConflictReason(ev, p, new) = "missing"
    PROVE  Confirmed(ev)
  <1>1. ~StatusConflict(ev, p, new) /\ StatusMissing(p, new)
    BY DEF ConflictReason
  <1>2. new /\ p.status = None BY <1>1 DEF StatusMissing
  <1>3. \A e \in ev : e.pay.status = None BY <1>1, <1>2 DEF StatusConflict
  <1>4. QED BY <1>3, NoneAssumption DEF Confirmed, Statuses

\* The judgement keeps the row true to the evidence.
LEMMA ReceivedAgrees ==
    ASSUME row \in Rows \cup {Absent}, RowAgrees(evidence, row),
           NEW s \in Sources, NEW p \in Payloads
    PROVE  RowAgrees(evidence \cup {[src |-> s, pay |-> p]}, Received(s, p, FALSE))
  <1> DEFINE d     == [src |-> s, pay |-> p]
             new   == d \notin evidence
             ev    == evidence \cup {d}
             first == row.status = "absent"
             fresh == Blank("pending", 1, s, p, effect = None)
             r0    == IF first THEN fresh ELSE row
             why   == ConflictReason(ev, p, new)
             known == first \/ \E e \in evidence : e.pay.assoc # None
             r1    == Judged(r0, s, p, why, new)
             r2    == Enriched(r1, r0, why, p, known)
             f0    == Fenced(r0)
             held  == [f0 EXCEPT !.status = "conflict", !.reason = why, !.note = "none"]
             freed == [f0 EXCEPT !.status = "pending", !.reason = "cleared", !.note = "none",
                                 !.src = s, !.pay = p]
  <1>1. fresh \in Rows /\ fresh.status = "pending" /\ fresh.reason = "none"
    BY BlankType DEF Blank
  <1>2. r0 \in Rows /\ RowAgrees(evidence, r0)
    BY <1>1 DEF Absent, Blank, RowAgrees
  <1>3. why \in Reasons /\ why # "underlying" BY DEF ConflictReason, Reasons
  <1>4. f0 \in Rows BY <1>2, FencedType
  <1>5. held.status = "conflict" /\ held.reason = why BY <1>4 DEF Rows
  <1>6. freed.status = "pending" /\ freed.reason = "cleared" BY <1>4 DEF Rows
  <1>7. RowAgrees(ev, r1)
    <2>1. CASE why # "none"
      <3>1. r1.status = "conflict" /\ r1.reason = why
        <4>1. CASE r0.status # "conflict" \/ new \/ r0.reason # why
          <5>1. r1 = held BY <2>1, <4>1 DEF Judged
          <5>2. QED BY <1>5, <5>1
        <4>2. CASE ~(r0.status # "conflict" \/ new \/ r0.reason # why)
          <5>1. r1 = r0 BY <2>1, <4>2 DEF Judged
          <5>2. QED BY <4>2, <5>1
        <4>3. QED BY <4>1, <4>2
      <3>2. why = "missing" => Confirmed(ev) BY MissingIsUnconfirmed
      <3>3. QED BY <1>3, <3>1, <3>2 DEF RowAgrees
    <2>2. CASE why = "none"
      <3>1. ~EconomicConflict(ev, p) BY <2>2 DEF ConflictReason
      <3>2. Confirmed(evidence) => Confirmed(ev) BY <3>1, ConfirmedGrows
      <3>3. new => Clean(ev)
        <4>1. ASSUME new PROVE ConflictReason(ev, p, TRUE) = "none"
          <5>1. new = TRUE BY <4>1
          <5>2. QED BY <2>2, <5>1
        <4>2. QED BY <4>1, CleanGrows
      <3>4. ~new => ev = evidence OBVIOUS
      <3>5. CASE r1 = r0
        BY <1>2, <3>2, <3>3, <3>4, <3>5 DEF RowAgrees
      <3>6. CASE r1 # r0
        <4>1. r1 = freed /\ new /\ r0.status = "conflict" /\ r0.reason = "missing"
          BY <2>2, <3>6 DEF Judged
        <4>2. Confirmed(evidence) BY <1>2, <4>1 DEF RowAgrees
        <4>3. QED BY <1>6, <3>2, <3>3, <4>1, <4>2 DEF RowAgrees
      <3>7. QED BY <3>5, <3>6
    <2>3. QED BY <2>1, <2>2
  <1>8. r1 \in Rows BY <1>2, <1>3, JudgedType
  <1>9. RowAgrees(ev, r2)
    <2> DEFINE f1 == Fenced(r1)
               al == f1.allowed /\ effect = None /\ r0.res.st # "not_option_deal"
               e1 == [f1 EXCEPT !.status = "pending", !.wait = 0, !.note = "enrichment",
                                !.allowed = al]
    <2>1. f1 \in Rows /\ f1.status = r1.status /\ f1.reason = r1.reason
      BY <1>8, FencedType, FencedFields
    <2>2. e1.status = "pending" /\ e1.reason = r1.reason BY <2>1 DEF Rows
    <2>3. CASE r2 = r1 BY <1>7, <2>3
    <2>4. CASE r2 # r1
      <3>1. r1.status \in {"pending", "handled"} /\ r2 \in {f1, e1}
        BY <2>4 DEF Enriched
      <3> HIDE DEF r1, r2, f1, e1
      <3>2. r2.status # "conflict" /\ r2.reason = r1.reason BY <2>1, <2>2, <3>1
      <3>3. QED BY <1>7, <3>1, <3>2 DEF RowAgrees
    <2>5. QED BY <2>3, <2>4
  <1>10. Received(s, p, FALSE) = r2
    <2>1. r0.reason # "underlying" BY <1>2 DEF RowAgrees
    <2>2. QED BY <2>1 DEF Received
  <1>11. QED BY <1>9, <1>10

\* A step that delivers nothing: it may move a row that is not held back, but
\* neither holds it back nor lets it go.
LEMMA QuietRow ==
    ASSUME RowAgrees(evidence, row), evidence' = evidence,
           \/ row.status # "conflict" /\ row'.status # "conflict"
           \/ row'.status = row.status,
           row'.reason \in {row.reason, "none"},
           row.status = "conflict" => row'.reason = row.reason
    PROVE  RowAgrees(evidence, row)'
  BY DEF RowAgrees

LEMMA RowAgreesStep ==
    ~Reviews /\ IInv /\ RowAgrees(evidence, row) /\ [Next]_vars => RowAgrees(evidence, row)'
  <1> SUFFICES ASSUME ~Reviews, IInv, RowAgrees(evidence, row), [Next]_vars
               PROVE  RowAgrees(evidence, row)'
    OBVIOUS
  <1>1. ASSUME NEW s \in Sources, NEW p \in Payloads, Enqueue(s, p, FALSE)
        PROVE  RowAgrees(evidence, row)'
    <2>1. RowAgrees(evidence \cup {[src |-> s, pay |-> p]}, Received(s, p, FALSE))
      BY ReceivedAgrees DEF IInv, TypeOK
    <2>2. row' = Received(s, p, FALSE) /\ evidence' = evidence \cup {[src |-> s, pay |-> p]}
      BY <1>1 DEF Enqueue
    <2>3. QED BY <2>1, <2>2 DEF RowAgrees, Clean, Confirmed
  <1>2. ASSUME row' = row, evidence' = evidence PROVE RowAgrees(evidence, row)'
    BY <1>2 DEF RowAgrees
  <1>3. ASSUME row.status # "conflict", row'.status # "conflict", evidence' = evidence,
               row'.reason \in {row.reason, "none"}
        PROVE  RowAgrees(evidence, row)'
    BY <1>3, QuietRow
  <1>4. ASSUME NEW w \in Workers, Worker(w) PROVE RowAgrees(evidence, row)'
    <2>1. ASSUME NEW s \in Sources \ {"lookup"}, NEW p \in Payloads, Receive(w, s, p)
          PROVE  RowAgrees(evidence, row)'
      BY <1>1, <2>1 DEF Receive
    <2>2. ASSUME NEW p \in Payloads, NEW und \in {FALSE, Reviews}, LookupEvidence(w, p, und)
          PROVE  RowAgrees(evidence, row)'
      <3>1. und = FALSE BY BoundsAssumption
      <3>2. QED BY <1>1, <2>2, <3>1 DEF LookupEvidence
    <2>3. CASE Retry(w)
      <3>1. row \in Rows BY <2>3, PendingIsRow DEF Retry, Claimable, IInv
      <3>2. QED BY <1>1, <2>3, <3>1 DEF Retry, Rows
    <2>4. CASE MarkReview(w)
      <3>1. CASE row.status = "pending"
        <4>1. row \in Rows BY <3>1, PendingIsRow DEF IInv
        <4>2. row'.status = "identity_needs_review" /\ row'.reason = row.reason
          BY <2>4, <3>1, <4>1 DEF MarkReview, Unclaimed, Rows
        <4>3. QED BY <1>3, <2>4, <3>1, <4>2 DEF MarkReview
      <3>2. CASE row.status # "pending" BY <1>2, <2>4, <3>2 DEF MarkReview
      <3>3. QED BY <3>1, <3>2
    <2>5. CASE Claim(w)
      <3>1. CASE Claimable(row)
        <4>1. row \in Rows BY <3>1, PendingIsRow DEF Claimable, IInv
        <4>2. row.status = "pending" /\ row'.status = row.status /\ row'.reason = row.reason
          BY <2>5, <3>1, <4>1 DEF Claim, Claimable, Rows
        <4>3. QED BY <1>3, <2>5, <4>2 DEF Claim
      <3>2. CASE ~Claimable(row) BY <1>2, <2>5, <3>2 DEF Claim
      <3>3. QED BY <3>1, <3>2
    <2>6. CASE NormalizeFails(w) \/ EnterCommit(w) \/ LedgerWrite(w) \/ SkipNonOption(w)
               \/ WriteState(w) \/ Crash(w)
      BY <1>2, <2>6
         DEF NormalizeFails, EnterCommit, LedgerWrite, SkipNonOption, WriteState, Crash
    <2>7. ASSUME Owns(w), NEW res \in Result, row' = Stored(row, res), evidence' = evidence
          PROVE  RowAgrees(evidence, row)'
      <3>1. row \in Rows BY <2>7, PendingIsRow DEF Owns, IInv
      <3>2. row'.status = "pending" /\ row'.reason = "none"
        BY <2>7, <3>1 DEF Stored, Owns, Rows
      <3>3. QED BY <1>3, <2>7, <3>2 DEF Owns
    <2>8. ASSUME Owns(w), NEW res \in Result, NEW retry, row' = Settled(row, res, retry, "none"),
                 evidence' = evidence
          PROVE  RowAgrees(evidence, row)'
      <3> DEFINE u == Unclaimed(Stored(row, Policy(row.att, res)))
      <3>1. row \in Rows BY <2>8, PendingIsRow DEF Owns, IInv
      <3>2. Policy(row.att, res) \in Result BY <2>8, <3>1, PolicyType DEF Rows
      <3>3. Stored(row, Policy(row.att, res)) \in Rows
            /\ Stored(row, Policy(row.att, res)).reason = "none"
        BY <3>1, <3>2, StoredType DEF Stored, Rows
      <3>4. u \in Rows /\ u.reason = "none" BY <3>3, FencedType DEF Unclaimed, Rows
      <3>5. row'.status # "conflict" /\ row'.reason = u.reason
        BY <2>8, <3>4 DEF Settled, Rows
      <3>6. QED BY <1>3, <2>8, <3>4, <3>5 DEF Owns
    <2>9. work[w] \in Works BY DEF IInv, TypeOK
    <2>10. CASE Save(w)
      <3>1. CASE row' = row BY <1>2, <2>10, <3>1 DEF Save
      <3>2. CASE row' # row
        <4>1. PICK r \in {work[w].res, Verify(work[w].res),
                          Readback(work[w].res, work[w].pay.econ, work[w].assoc)} :
                Owns(w) /\ row' = Stored(row, Policy(row.att, r))
          BY <2>10, <3>2 DEF Save
        <4>2. r \in Result BY <2>9, ReadbackType, VerifyType DEF Works
        <4>3. row.att \in Nat BY <4>1, PendingIsRow DEF Owns, IInv, Rows
        <4>4. evidence' = evidence BY <2>10 DEF Save
        <4>5. QED BY <2>7, <4>1, <4>2, <4>3, <4>4, PolicyType
      <3>3. QED BY <3>1, <3>2
    <2>11. CASE Settle(w)
      BY <1>2, <2>8, <2>9, <2>11 DEF Settle, Works
    <2>12. CASE Fail(w)
      <3>1. CASE Owns(w)
        <4>1. row.res \in Result BY <3>1, PendingIsRow DEF Owns, IInv, Rows
        <4>2. Mk("unresolved", "verification_pending", FALSE, FALSE) \in Result
          BY MkType DEF Ends, Kinds
        <4>3. QED BY <1>2, <2>8, <2>12, <3>1, <4>1, <4>2 DEF Fail
      <3>2. CASE ~Owns(w) BY <1>2, <2>12, <3>2 DEF Fail
      <3>3. QED BY <3>1, <3>2
    <2>13. QED
      BY <1>4, <2>1, <2>2, <2>3, <2>4, <2>5, <2>6, <2>10, <2>11, <2>12 DEF Worker, Step
  <1>5. CASE RecoverReadable \/ RecoverUnreadable
    <2>1. PICK r \in {row.res, Readback(row.res, row.pay.econ, row.pay.assoc), Verify(row.res)} :
            RecoverWith(r)
      BY <1>5 DEF RecoverReadable, RecoverUnreadable
    <2>2. CASE row' = row BY <1>2, <2>1, <2>2 DEF RecoverWith
    <2>3. CASE row' # row
      <3> DEFINE d == Stored(row, Policy(row.att, r))
                 u == Unclaimed(d)
      <3>1. row = obs.row /\ obs # None /\ row' = Recovered(row, Policy(row.att, r))
        BY <2>1, <2>3 DEF RecoverWith
      <3>2. row \in Rows /\ row.status # "conflict"
        BY <3>1 DEF IInv, TypeOK, ListingIsOpen
      <3>3. r \in Result BY <2>1, <3>2, ReadbackType, VerifyType DEF Rows
      <3>4. d \in Rows BY <3>2, <3>3, PolicyType, StoredType DEF Rows
      <3>5. d.reason = "none" BY <3>2 DEF Stored, Rows
      <3>6. u \in Rows /\ u.reason = "none" BY <3>4, <3>5, FencedType DEF Unclaimed, Rows
      <3>7. row'.status # "conflict" /\ row'.reason = u.reason
        BY <3>1, <3>6 DEF Recovered, Rows
      <3>8. evidence' = evidence BY <2>1 DEF RecoverWith
      <3>9. QED BY <1>3, <3>2, <3>6, <3>7, <3>8
    <2>4. QED BY <2>2, <2>3
  <1>6. CASE Reconcile
    <2>1. CASE row' = row BY <1>2, <1>6, <2>1 DEF Reconcile
    <2>2. CASE row' # row
      <3>1. row \in Rows /\ row.status # "conflict"
        BY <1>6 DEF Reconcile, IInv, TypeOK, Absent, Blank
      <3>2. row'.status = "handled" /\ row'.reason = "none"
        BY <1>6, <2>2, <3>1 DEF Reconcile, Unclaimed, Rows
      <3>3. QED BY <1>3, <1>6, <3>1, <3>2 DEF Reconcile
    <2>3. QED BY <2>1, <2>2
  <1>7. CASE Resume
    <2>1. row \in Rows /\ row.status # "conflict"
      BY <1>7 DEF Resume, IInv, TypeOK, Absent, Blank
    <2>2. row'.status = "pending" /\ row'.reason = row.reason
      BY <1>7, <2>1 DEF Resume, Unclaimed, Rows
    <2>3. QED BY <1>3, <1>7, <2>1, <2>2 DEF Resume
  <1>8. CASE Tick
    <2>1. row \in Rows BY <1>8 DEF Tick, IInv, TypeOK, Absent, Blank
    <2>2. row'.status = row.status /\ row'.reason = row.reason
      BY <1>8, <2>1 DEF Tick, Rows
    <2>3. QED BY <1>8, <2>2, QuietRow DEF Tick
  <1>9. CASE ListRecovery \/ UNCHANGED vars
    BY <1>2, <1>9 DEF ListRecovery, vars
  <1>10. QED BY <1>4, <1>5, <1>6, <1>7, <1>8, <1>9 DEF Next

\* What a worker in the state k holds comes from the evidence ev.
FromEvidence(k, ev) ==
    /\ k.pc \in {"enqueued", "claimed", "commit"} => \E e \in ev : e.pay = k.pay
    /\ k.assoc # None => \E e \in ev : e.pay.assoc = k.assoc

LEMMA EvidenceGrows == [Next]_vars => evidence \subseteq evidence'
  <1> SUFFICES ASSUME [Next]_vars PROVE evidence \subseteq evidence' OBVIOUS
  <1>1. CASE UNCHANGED evidence BY <1>1
  <1>2. ASSUME NEW s, NEW p, NEW und, Enqueue(s, p, und) PROVE evidence \subseteq evidence'
    BY <1>2 DEF Enqueue
  <1>3. QED
    BY <1>1, <1>2
       DEF Next, Worker, Step, vars, Receive, Retry, LookupEvidence, MarkReview, Claim,
           NormalizeFails, EnterCommit, LedgerWrite, SkipNonOption, Save, WriteState, Settle,
           Fail, Crash, ListRecovery, RecoverReadable, RecoverUnreadable, RecoverWith, Reconcile,
           Resume, Tick

\* A step of one worker: the others keep what they hold.
LEMMA WorkFromStep ==
    ASSUME TypeInv, WorkFromEvidence, evidence \subseteq evidence',
           NEW w \in Workers, NEW k, work' = [work EXCEPT ![w] = k],
           FromEvidence(k, evidence')
    PROVE  WorkFromEvidence'
  <1>1. ASSUME NEW v \in Workers PROVE work'[v] = IF v = w THEN k ELSE work[v]
    BY DEF TypeInv, TypeOK
  <1>2. \A v \in Workers : FromEvidence(work[v], evidence')
    BY DEF WorkFromEvidence, FromEvidence
  <1>3. ASSUME NEW v \in Workers
        PROVE  /\ work'[v].pc \in {"enqueued", "claimed", "commit"}
                    => \E e \in evidence' : e.pay = work'[v].pay
               /\ work'[v].assoc # None => \E e \in evidence' : e.pay.assoc = work'[v].assoc
    <2>1. CASE v = w BY <1>1, <2>1 DEF FromEvidence
    <2>2. CASE v # w BY <1>1, <1>2, <2>2 DEF FromEvidence
    <2>3. QED BY <2>1, <2>2
  <1>4. QED BY <1>3 DEF WorkFromEvidence

\* The association a claim merges is one the evidence knows.
LEMMA KnownAssocFrom ==
    ASSUME NEW p, \E e \in evidence : e.pay = p, KnownAssoc(p) # None
    PROVE  \E e \in evidence : e.pay.assoc = KnownAssoc(p)
  <1>1. CASE p.assoc # None BY <1>1 DEF KnownAssoc
  <1>2. CASE p.assoc = None /\ \E e \in evidence : e.pay.assoc # None
    <2> DEFINE A == {e.pay.assoc : e \in evidence}
    <2>1. \E a \in A : a # None BY <1>2
    <2>2. (CHOOSE a \in A : a # None) \in A BY <2>1
    <2>3. KnownAssoc(p) \in A BY <1>2, <2>2 DEF KnownAssoc
    <2>4. QED BY <2>3
  <1>3. CASE p.assoc = None /\ ~(\E e \in evidence : e.pay.assoc # None)
    BY <1>3 DEF KnownAssoc
  <1>4. QED BY <1>1, <1>2, <1>3

LEMMA WorkFromEvidenceStep ==
    TypeInv /\ WorkFromEvidence /\ [Next]_vars => WorkFromEvidence'
  <1> SUFFICES ASSUME TypeInv, WorkFromEvidence, [Next]_vars PROVE WorkFromEvidence' OBVIOUS
  <1>0. evidence \subseteq evidence' BY EvidenceGrows
  <1>1. ASSUME NEW w \in Workers
        PROVE  work[w] \in Works /\ FromEvidence(work[w], evidence)
    BY DEF TypeInv, TypeOK, WorkFromEvidence, FromEvidence
  <1>2. ASSUME work' = work PROVE WorkFromEvidence'
    BY <1>0, <1>2 DEF WorkFromEvidence
  <1>3. ASSUME NEW w \in Workers, Drop(w) PROVE WorkFromEvidence'
    <2>1. FromEvidence(Idle, evidence') BY DEF Idle, FromEvidence
    <2>2. QED BY <1>0, <1>3, <2>1, WorkFromStep DEF Drop
  <1>4. ASSUME NEW w \in Workers, NEW s, NEW p, NEW und, Enqueue(s, p, und),
               work' = [work EXCEPT ![w] = [Idle EXCEPT !.pc = "enqueued", !.src = s, !.pay = p]]
        PROVE  WorkFromEvidence'
    <2> DEFINE k == [Idle EXCEPT !.pc = "enqueued", !.src = s, !.pay = p]
    <2>1. k.pay = p /\ k.assoc = None BY DEF Idle
    <2>2. [src |-> s, pay |-> p] \in evidence' BY <1>4 DEF Enqueue
    <2>3. FromEvidence(k, evidence') BY <2>1, <2>2 DEF FromEvidence
    <2>4. QED BY <1>0, <1>4, <2>3, WorkFromStep
  <1>5. ASSUME NEW w \in Workers, NEW p, NEW und, LookupEvidence(w, p, und)
        PROVE  WorkFromEvidence'
    <2>1. CASE work' = [work EXCEPT ![w].pay = IF work[w].pc = "enqueued" THEN p ELSE @]
      <3> DEFINE x == IF work[w].pc = "enqueued" THEN p ELSE work[w].pay
                 k == [work[w] EXCEPT !.pay = x]
      <3>1. k.pc = work[w].pc /\ k.pay = x /\ k.assoc = work[w].assoc BY <1>1 DEF Works
      <3>2. \E e \in evidence' : e.pay = x
        <4>1. CASE work[w].pc = "enqueued"
          <5>1. [src |-> "lookup", pay |-> p] \in evidence' BY <1>5 DEF LookupEvidence, Enqueue
          <5>2. QED BY <4>1, <5>1
        <4>2. CASE work[w].pc # "enqueued"
          <5>1. work[w].pc = "claimed" BY <1>5, <4>2 DEF LookupEvidence
          <5>2. QED BY <1>0, <1>1, <4>2, <5>1 DEF FromEvidence
        <4>3. QED BY <4>1, <4>2
      <3>3. work[w].assoc # None => \E e \in evidence' : e.pay.assoc = work[w].assoc
        BY <1>0, <1>1 DEF FromEvidence
      <3>4. FromEvidence(k, evidence') BY <3>1, <3>2, <3>3 DEF FromEvidence
      <3>5. work' = [work EXCEPT ![w] = k] BY <2>1
      <3>6. QED BY <1>0, <3>4, <3>5, WorkFromStep
    <2>2. QED BY <1>3, <1>5, <2>1 DEF LookupEvidence
  <1>6. ASSUME NEW w \in Workers, Claim(w) PROVE WorkFromEvidence'
    <2>1. CASE Claimable(row)
      <3> DEFINE k == [work[w] EXCEPT !.pc = "claimed", !.ver = row.ver,
                    !.src = None, !.assoc = KnownAssoc(work[w].pay),
                    !.newA = row.pay.assoc = None /\ KnownAssoc(row.pay) # None,
                    !.allowed = row.allowed,
                    !.again = \/ row.note = "resumed"
                              \/ row.reason = "none" /\ Failed(row.res) /\ row.res.exc]
      <3>1. work' = [work EXCEPT ![w] = k] BY <1>6, <2>1 DEF Claim
      <3>2. k.pay = work[w].pay /\ k.assoc = KnownAssoc(work[w].pay) BY <1>1 DEF Works
      <3>3. \E e \in evidence : e.pay = work[w].pay BY <1>1, <1>6 DEF Claim, FromEvidence
      <3>4. k.assoc # None => \E e \in evidence : e.pay.assoc = k.assoc
        BY <3>2, <3>3, KnownAssocFrom
      <3>5. \E e \in evidence : e.pay = k.pay BY <3>2, <3>3
      <3> HIDE DEF k
      <3>6. FromEvidence(k, evidence') BY <1>0, <3>4, <3>5 DEF FromEvidence
      <3>7. QED BY <1>0, <3>1, <3>6, WorkFromStep
    <2>2. CASE ~Claimable(row) BY <1>3, <1>6, <2>2 DEF Claim
    <2>3. QED BY <2>1, <2>2
  <1>7. ASSUME NEW w \in Workers, NEW pc \in PCs, Go(w, pc),
               pc = "commit" => work[w].pc = "claimed", pc \notin {"enqueued", "claimed"}
        PROVE  WorkFromEvidence'
    <2> DEFINE k == [work[w] EXCEPT !.pc = pc]
    <2>1. work' = [work EXCEPT ![w] = k] BY <1>7 DEF Go
    <2>2. k.pc = pc /\ k.pay = work[w].pay /\ k.assoc = work[w].assoc BY <1>1 DEF Works
    <2> HIDE DEF k
    <2>3. FromEvidence(k, evidence') BY <1>0, <1>1, <1>7, <2>2 DEF FromEvidence
    <2>4. QED BY <1>0, <2>1, <2>3, WorkFromStep
  <1>8. ASSUME NEW w \in Workers, NEW res, NEW verify, NEW k,
               k = Resolved(work[w], res, verify)
                 \/ k = [Resolved(work[w], res, FALSE) EXCEPT !.pc = "saved"],
               work' = [work EXCEPT ![w] = k]
        PROVE  WorkFromEvidence'
    <2>1. k.pc \in {"resolved", "saved"} BY <1>8 DEF Resolved, Idle
    <2>2. k.assoc \in {None, work[w].assoc} BY <1>8 DEF Resolved, Idle
    <2>3. FromEvidence(k, evidence') BY <1>0, <1>1, <2>1, <2>2 DEF FromEvidence
    <2>4. QED BY <1>0, <1>8, <2>3, WorkFromStep
  <1>9. ASSUME NEW w \in Workers, Worker(w) PROVE WorkFromEvidence'
    <2>1. ASSUME NEW s, NEW p, Receive(w, s, p) PROVE WorkFromEvidence'
      BY <1>4, <2>1 DEF Receive
    <2>2. CASE Retry(w) BY <1>4, <2>2 DEF Retry
    <2>3. CASE MarkReview(w) \/ Settle(w) \/ Fail(w) \/ Crash(w)
      BY <1>3, <2>3 DEF MarkReview, Settle, Fail, Crash
    <2>4. CASE EnterCommit(w) BY <1>3, <1>7, <2>4 DEF EnterCommit, PCs
    <2>5. CASE WriteState(w) BY <1>3, <1>7, <2>5 DEF WriteState, PCs
    <2>6. CASE NormalizeFails(w) \/ LedgerWrite(w) \/ SkipNonOption(w)
      <3>1. PICK res, verify : work' = [work EXCEPT ![w] = Resolved(work[w], res, verify)]
        BY <2>6 DEF NormalizeFails, LedgerWrite, SkipNonOption
      <3>2. QED BY <1>8, <3>1
    <2>7. CASE Save(w)
      <3>1. CASE Drop(w) BY <1>3, <3>1
      <3>2. CASE \E res : work' = [work EXCEPT ![w] =
                                     [Resolved(work[w], res, FALSE) EXCEPT !.pc = "saved"]]
        BY <1>8, <3>2
      <3>3. QED BY <2>7, <3>1, <3>2 DEF Save
    <2>8. QED
      BY <1>5, <1>6, <1>9, <2>1, <2>2, <2>3, <2>4, <2>5, <2>6, <2>7 DEF Worker, Step
  <1>10. CASE \/ ListRecovery \/ RecoverReadable \/ RecoverUnreadable \/ Reconcile \/ Resume
              \/ Tick \/ UNCHANGED vars
    BY <1>2, <1>10
       DEF ListRecovery, RecoverReadable, RecoverUnreadable, RecoverWith, Reconcile, Resume,
           Tick, vars
  <1>11. QED BY <1>9, <1>10 DEF Next

LEMMA EvidenceInvShape == EvidenceInv <=> RowAgrees(evidence, row) /\ WorkFromEvidence
  BY DEF EvidenceInv, EvidenceAgrees, RowAgrees

LEMMA EvidenceInit == Init => EvidenceInv
  <1> SUFFICES ASSUME Init PROVE EvidenceInv OBVIOUS
  <1>1. RowAgrees(evidence, row)
    BY DEF Init, RowAgrees, Clean, Confirmed, Absent, Blank
  <1>2. WorkFromEvidence BY DEF Init, WorkFromEvidence, Idle
  <1>3. QED BY <1>1, <1>2, EvidenceInvShape

LEMMA EvidenceStep == ~Reviews /\ IInv /\ EvidenceInv /\ [Next]_vars => EvidenceInv'
  <1> SUFFICES ASSUME ~Reviews, IInv, EvidenceInv, [Next]_vars PROVE EvidenceInv' OBVIOUS
  <1>1. RowAgrees(evidence, row) /\ WorkFromEvidence BY EvidenceInvShape
  <1>2. RowAgrees(evidence, row)' BY <1>1, RowAgreesStep
  <1>3. WorkFromEvidence' BY <1>1, WorkFromEvidenceStep DEF IInv, TypeInv
  <1>4. QED
    BY <1>2, <1>3 DEF EvidenceInv, EvidenceAgrees, RowAgrees

\* Where no lookup contradicts the configured underlying, a row outside a
\* conflict has nothing but agreeing, uncancelled evidence behind it, and no
\* worker holds a payload or an order that no source delivered
\* (enqueue_trade_payload, claim_trade_payload).
THEOREM EvidenceIsJudged == ASSUME ~Reviews PROVE Spec => []EvidenceInv
  <1>1. IInv /\ EvidenceInv /\ [Next]_vars => EvidenceInv'
    BY EvidenceStep
  <1>2. QED BY <1>1, EvidenceInit, InvariantHolds, PTL DEF Spec

\* What a ledger write does to the effect: nothing, a first booking, or the
\* missing association filled in.
LEMMA OutcomeEffects ==
    ASSUME TypeInv, NEW w \in Workers, work[w].pc = "commit", NEW o \in Outcomes(w)
    PROVE  \/ o[1] = effect
           \/ effect = None /\ o[1] = Booked(w) /\ o[1] \in AbsEffects
           \/ /\ effect # None /\ effect.assoc = None
              /\ Agrees(work[w].pay.econ, work[w].assoc)
              /\ work[w].assoc \in {p.assoc : p \in Payloads} \ {None}
              /\ o[1] = [effect EXCEPT !.assoc = work[w].assoc]
  <1>1. Booked(w) \in AbsEffects BY BookedType
  <1>2. CASE effect = None
    <2>1. CASE ~MayRetryEntry(w)
      <3>1. o = <<None, Mk("duplicate_deal_id", "none", FALSE, FALSE), FALSE>>
        BY <1>2, <2>1 DEF Outcomes
      <3>2. QED BY <1>2, <3>1
    <2>2. CASE MayRetryEntry(w)
      <3>1. o \in FirstOutcomes(w) BY <1>2, <2>2 DEF Outcomes
      <3>2. PICK b \in {None, Booked(w)} : o[1] = b
        BY <3>1, FirstOutcome
      <3>3. QED BY <1>1, <1>2, <3>2
    <2>3. QED BY <2>1, <2>2
  <1>3. CASE effect # None
    <2> DEFINE a == work[w].assoc
               e == [effect EXCEPT !.assoc = IF @ = None THEN a ELSE @]
    <2>1. effect \in AbsEffects /\ work[w] \in Works
      BY <1>3 DEF TypeInv, TypeOK, AbsEffects
    <2>2. a \in {p.assoc : p \in Payloads} \cup {None} BY <2>1 DEF Works
    <2>3. CASE ~Agrees(work[w].pay.econ, work[w].assoc)
      <3>1. o = <<effect, Mk("unresolved", "none", FALSE, FALSE), FALSE>>
        BY <1>3, <2>3 DEF Outcomes
      <3>2. QED BY <3>1
    <2>4. CASE Agrees(work[w].pay.econ, work[w].assoc)
      <3> DEFINE st == IF work[w].allowed THEN "applied" ELSE "ledger_recorded"
      <3>1. o = <<e, Mk(st, "none", FALSE, FALSE), FALSE>>
        BY <1>3, <2>4 DEF Outcomes
      <3>2. o[1] = e BY <3>1
      <3>3. CASE effect.assoc = None /\ a # None
        <4>1. e = [effect EXCEPT !.assoc = a] BY <3>3
        <4>2. QED BY <1>3, <2>2, <2>4, <3>2, <3>3, <4>1
      <3>4. CASE effect.assoc # None \/ a = None
        <4>1. e = effect BY <2>1, <3>4 DEF AbsEffects
        <4>2. QED BY <3>2, <4>1
      <3>5. QED BY <3>3, <3>4
    <2>5. QED BY <2>3, <2>4
  <1>4. QED BY <1>2, <1>3

\* Every payload carries its economic values.  The resolver books no other
\* (resolve_trade_deal leaves a deal with a missing field unresolved).
Complete == \A p \in Payloads : p.econ # None

LEMMA AdoptionStep ==
    ASSUME Complete, IInv, EvidenceInv, [Next]_vars, effect' # effect, NEW e \in evidence
    PROVE  /\ ~Differ(e.pay.econ, effect'.econ)
           /\ e.pay.status \in {"ok", None}
           /\ e.pay.status = "ok" => ~Differ(e.pay.assoc, effect'.assoc)
  <1>1. PICK w \in Workers : LedgerWrite(w) BY OnlyLedgerWrite
  <1>2. TypeInv /\ work[w].pc = "commit" BY <1>1 DEF IInv, TypeInv, LedgerWrite
  <1>3. Owns(w) BY <1>1, NoneAssumption DEF IInv, CommitOwnsRow, LedgerWrite
  <1>4. Clean(evidence) /\ Confirmed(evidence)
    BY <1>3 DEF EvidenceInv, EvidenceAgrees, Owns
  <1>5. PICK d \in evidence : d.pay = work[w].pay
    BY <1>2 DEF EvidenceInv, WorkFromEvidence
  <1>6. ~Differ(e.pay.econ, work[w].pay.econ) BY <1>4, <1>5 DEF Clean
  <1>7. e.pay.status = "ok" => ~Differ(e.pay.assoc, work[w].assoc)
    <2>1. CASE work[w].assoc = None BY <2>1 DEF Differ
    <2>2. CASE work[w].assoc # None
      <3>1. PICK f \in evidence : f.pay.assoc = work[w].assoc
        BY <2>2 DEF EvidenceInv, WorkFromEvidence
      <3>2. QED BY <1>4, <3>1 DEF Confirmed
    <2>3. QED BY <2>1, <2>2
  <1>8. PICK o \in Outcomes(w) : effect' = o[1] BY <1>1 DEF LedgerWrite
  <1>9. CASE effect' = Booked(w)
    <2>1. effect'.econ = work[w].pay.econ /\ effect'.assoc = work[w].assoc
      BY <1>9 DEF Booked
    <2>2. QED BY <1>4, <1>6, <1>7, <2>1 DEF Clean
  <1>10. CASE /\ effect # None /\ Agrees(work[w].pay.econ, work[w].assoc)
              /\ effect' = [effect EXCEPT !.assoc = work[w].assoc]
    <2>1. effect \in AbsEffects BY <1>2, <1>10 DEF TypeInv, TypeOK, AbsEffects
    <2>2. effect'.econ = effect.econ /\ effect'.assoc = work[w].assoc
      BY <1>10, <2>1 DEF AbsEffects
    <2>3. work[w].pay \in Payloads BY <1>2 DEF TypeInv, PayloadInHand
    <2>4. work[w].pay.econ # None BY <2>3 DEF Complete
    <2>5. ~Differ(effect.econ, work[w].pay.econ) BY <1>10 DEF Agrees
    <2>6. ~Differ(e.pay.econ, effect.econ) BY <1>6, <2>4, <2>5 DEF Differ
    <2>7. QED BY <1>4, <1>7, <2>2, <2>6 DEF Clean
  <1>11. QED BY <1>2, <1>8, <1>9, <1>10, OutcomeEffects

\* Where no lookup contradicts the configured underlying and payloads carry
\* their economic values, the ledger never books against the evidence stored
\* by then: every source agrees with the booked values, none cancelled the
\* deal, and none that confirmed it names another order
\* (enqueue_trade_payload, claim_trade_payload, resolve_trade_deal).
THEOREM AdoptionFollowsEvidence ==
    ASSUME ~Reviews, Complete
    PROVE  Spec => AdoptionMatchesEvidence
  <1>1. IInv /\ EvidenceInv /\ [Next]_vars =>
          [effect' # effect => \A e \in evidence :
             /\ ~Differ(e.pay.econ, effect'.econ)
             /\ e.pay.status \in {"ok", None}
             /\ e.pay.status = "ok" => ~Differ(e.pay.assoc, effect'.assoc)]_vars
    BY AdoptionStep
  <1>2. QED
    BY <1>1, EvidenceIsJudged, InvariantHolds, PTL DEF Spec, AdoptionMatchesEvidence

-----------------------------------------------------------------------------
(* The inbox implements TradeAdoption.                                     *)

\* A step that leaves the effect alone.  Either what is held back or what is
\* told may change, and a conflict other than a missing status stays one.
LEMMA QuietStep ==
    ASSUME effect' = effect, ResultsAreBooked',
           \/ Held' = Held
           \/ Told' = Told /\ (Held = "hard" => Held' # "no")
    PROVE  [Promise!Next]_(Promise!absVars)
  <1>1. Told' => effect' # None
    BY DEF ResultsAreBooked, Claims, Told
  <1>2. Told \in BOOLEAN /\ Told' \in BOOLEAN BY DEF Told
  <1>3. Held \in {"no", "missing", "hard"} /\ Held' \in {"no", "missing", "hard"} BY DEF Held
  <1>4. CASE Held' = Held /\ Told' # Told
    <2>1. CASE Told'
      BY <1>1, <1>2, <1>4, <2>1 DEF Promise!Next, Promise!Confirm
    <2>2. CASE ~Told'
      BY <1>2, <1>4, <2>2 DEF Promise!Next, Promise!Reopen
    <2>3. QED BY <2>1, <2>2
  <1>5. CASE Held' # Held /\ Told' = Told
    <2>1. CASE Held' = "no"
      BY <1>3, <1>5, <2>1 DEF Promise!Next, Promise!Supply
    <2>2. CASE Held' # "no"
      BY <1>3, <1>5, <2>2 DEF Promise!Next, Promise!Hold
    <2>3. QED BY <2>1, <2>2
  <1>6. CASE Held' = Held /\ Told' = Told
    BY <1>6 DEF Promise!absVars
  <1>7. QED BY <1>4, <1>5, <1>6

\* A new delivery never lifts a conflict other than a missing status.
LEMMA HardStays ==
    ASSUME TypeOK, NEW s, NEW p, NEW und \in BOOLEAN, Held = "hard"
    PROVE  Received(s, p, und).status = "conflict"
  <1> DEFINE new   == [src |-> s, pay |-> p] \notin evidence
             ev    == evidence \cup {[src |-> s, pay |-> p]}
             why   == ConflictReason(ev, p, new)
             known == \E e \in evidence : e.pay.assoc # None
             r1    == Judged(row, s, p, why, new)
  <1>1. row.status = "conflict" /\ row.reason # "missing" /\ row \in Rows
    BY DEF Held, TypeOK, Absent, Blank
  <1>2. r1.status = "conflict"
    <2> DEFINE u == [row EXCEPT !.claim = None]
               v == [u EXCEPT !.lease = 0]
               f == [v EXCEPT !.ver = @ + 1]
    <2>1. r1 \in {[Fenced(row) EXCEPT !.status = "conflict", !.reason = why, !.note = "none"], row}
      BY <1>1 DEF Judged
    <2>2. Fenced(row) \in Rows BY <1>1, FencedType
    <2>3. [Fenced(row) EXCEPT !.status = "conflict", !.reason = why, !.note = "none"].status
            = "conflict"
      BY <2>2 DEF Rows
    <2>4. QED BY <1>1, <2>1, <2>3
  <1>3. Enriched(r1, row, why, p, known) = r1
    BY <1>2 DEF Enriched
  <1>4. Received(s, p, und) \in {row, r1}
    BY <1>1, <1>3 DEF Received
  <1>5. QED BY <1>1, <1>2, <1>4

\* The ledger write books the execution once or completes it, and only while
\* nothing holds it back.
LEMMA WriteStep ==
    ASSUME IInv, NEW w \in Workers, LedgerWrite(w)
    PROVE  [Promise!Next]_(Promise!absVars)
  <1>1. PICK o \in Outcomes(w) : effect' = o[1] BY DEF LedgerWrite
  <1>2. TypeInv /\ work[w].pc = "commit" BY DEF IInv, TypeInv, LedgerWrite
  <1>3. Owns(w) BY NoneAssumption DEF IInv, CommitOwnsRow, LedgerWrite
  <1>4. Held = "no" BY <1>3 DEF Held, Owns
  <1>5. Held' = Held /\ Told' = Told BY DEF Held, Told, LedgerWrite
  <1>6. CASE effect' = effect
    BY <1>5, <1>6 DEF Promise!absVars
  <1>7. CASE effect = None /\ effect' \in AbsEffects
    <2>1. effect' \in Promise!Effects
      BY <1>7 DEF AbsEffects, Promise!Effects
    <2>2. QED BY <1>4, <1>5, <1>7, <2>1 DEF Promise!Next, Promise!Adopt
  <1>8. CASE /\ effect # None /\ effect.assoc = None
             /\ \E a \in {p.assoc : p \in Payloads} \ {None} : effect' = [effect EXCEPT !.assoc = a]
    BY <1>4, <1>5, <1>8 DEF Promise!Next, Promise!Complete
  <1>9. QED BY <1>1, <1>2, <1>6, <1>7, <1>8, OutcomeEffects

LEMMA PromiseInit == Init => Promise!Init
  <1> SUFFICES ASSUME Init PROVE Promise!Init OBVIOUS
  <1>1. Held = "no" BY DEF Init, Absent, Blank, Held
  <1>2. Told = FALSE BY DEF Init, Absent, Blank, Told, NoRes, Mk
  <1>3. effect \in {None} \cup Promise!Effects BY DEF Init, Promise!Effects
  <1>4. QED BY <1>1, <1>2, <1>3 DEF Promise!Init

LEMMA PromiseStep == IInv /\ [Next]_vars => [Promise!Next]_(Promise!absVars)
  <1> SUFFICES ASSUME IInv, [Next]_vars PROVE [Promise!Next]_(Promise!absVars) OBVIOUS
  <1>1. ResultsAreBooked' BY InvStep DEF IInv
  <1>2. CASE effect' # effect BY <1>2, OnlyLedgerWrite, WriteStep
  <1> DEFINE Quiet == Held' = Held \/ (Told' = Told /\ (Held = "hard" => Held' # "no"))
  <1>3. ASSUME row' = row PROVE Quiet BY <1>3 DEF Held
  <1>4. ASSUME row.status # "conflict", row'.status # "conflict" PROVE Quiet
    BY <1>4 DEF Held
  <1>5. ASSUME NEW s \in Sources, NEW p \in Payloads, NEW und \in BOOLEAN, Enqueue(s, p, und)
        PROVE  Quiet
    <2>1. Told' = Told BY <1>5, ReceivedKeeps DEF IInv, TypeOK, Enqueue, Told
    <2>2. Held = "hard" => Held' # "no"
      BY <1>5, HardStays DEF IInv, Enqueue, Held
    <2>3. QED BY <2>1, <2>2
  <1>6. ASSUME NEW w \in Workers, Worker(w), effect' = effect PROVE Quiet
    <2>1. ASSUME NEW s \in Sources \ {"lookup"}, NEW p \in Payloads, Receive(w, s, p) PROVE Quiet
      BY <1>5, <2>1 DEF Receive
    <2>2. ASSUME NEW p \in Payloads, NEW und \in BOOLEAN, LookupEvidence(w, p, und) PROVE Quiet
      BY <1>5, <2>2 DEF LookupEvidence
    <2>3. CASE Retry(w)
      <3>1. row \in Rows BY <2>3, PendingIsRow DEF Retry, Claimable, IInv, TypeInv
      <3>2. QED BY <1>5, <2>3, <3>1 DEF Retry, Rows
    <2>4. CASE MarkReview(w)
      <3>1. CASE row.status = "pending"
        <4>1. row \in Rows BY <3>1, PendingIsRow DEF IInv, TypeInv
        <4>2. row'.status = "identity_needs_review"
          BY <2>4, <3>1, <4>1 DEF MarkReview, Unclaimed, Rows
        <4>3. QED BY <1>4, <3>1, <4>2
      <3>2. CASE row.status # "pending" BY <1>3, <2>4, <3>2 DEF MarkReview
      <3>3. QED BY <3>1, <3>2
    <2>5. CASE Claim(w)
      <3>1. CASE Claimable(row)
        <4>1. row \in Rows BY <3>1, PendingIsRow DEF Claimable, IInv, TypeInv
        <4>2. row.status = "pending" /\ row'.status = row.status
          BY <2>5, <3>1, <4>1 DEF Claim, Claimable, Rows
        <4>3. QED BY <1>4, <4>2
      <3>2. CASE ~Claimable(row) BY <1>3, <2>5, <3>2 DEF Claim
      <3>3. QED BY <3>1, <3>2
    <2>6. CASE NormalizeFails(w) \/ EnterCommit(w) \/ LedgerWrite(w) \/ SkipNonOption(w)
               \/ WriteState(w) \/ Crash(w)
      BY <1>3, <2>6
         DEF NormalizeFails, EnterCommit, LedgerWrite, SkipNonOption, WriteState, Crash
    <2>7. ASSUME Owns(w), NEW res \in Result, row' = Stored(row, res) PROVE Quiet
      <3>1. row \in Rows BY <2>7, PendingIsRow DEF Owns, IInv, TypeInv
      <3>2. row'.status = "pending" BY <2>7, <3>1 DEF Stored, Owns, Rows
      <3>3. QED BY <1>4, <2>7, <3>2 DEF Owns
    <2>8. ASSUME Owns(w), NEW res \in Result, NEW retry, row' = Settled(row, res, retry, "none")
          PROVE  Quiet
      <3>1. row \in Rows BY <2>8, PendingIsRow DEF Owns, IInv, TypeInv
      <3>2. Policy(row.att, res) \in Result BY <2>8, <3>1, PolicyType DEF Rows
      <3>3. Stored(row, Policy(row.att, res)) \in Rows BY <3>1, <3>2, StoredType
      <3>4. row'.status # "conflict"
        BY <2>8, <3>3 DEF Settled, Unclaimed, Rows
      <3>5. QED BY <1>4, <2>8, <3>4 DEF Owns
    <2>9. work[w] \in Works BY DEF IInv, TypeOK
    <2>10. CASE Save(w)
      <3>1. CASE row' = row BY <1>3, <3>1
      <3>2. CASE row' # row
        <4>1. PICK r \in {work[w].res, Verify(work[w].res),
                          Readback(work[w].res, work[w].pay.econ, work[w].assoc)} :
                Owns(w) /\ row' = Stored(row, Policy(row.att, r))
          BY <2>10, <3>2 DEF Save
        <4>2. r \in Result BY <2>9, ReadbackType, VerifyType DEF Works
        <4>3. row.att \in Nat
          BY <4>1, PendingIsRow DEF Owns, IInv, TypeInv, Rows
        <4>4. QED BY <2>7, <4>1, <4>2, <4>3, PolicyType
      <3>3. QED BY <3>1, <3>2
    <2>11. CASE Settle(w)
      BY <1>3, <2>8, <2>9, <2>11 DEF Settle, Works
    <2>12. CASE Fail(w)
      <3>1. CASE Owns(w)
        <4>1. row.res \in Result BY <3>1, PendingIsRow DEF Owns, IInv, TypeInv, Rows
        <4>2. Mk("unresolved", "verification_pending", FALSE, FALSE) \in Result
          BY MkType DEF Ends, Kinds
        <4>3. QED BY <1>3, <2>8, <2>12, <3>1, <4>1, <4>2 DEF Fail
      <3>2. CASE ~Owns(w) BY <1>3, <2>12, <3>2 DEF Fail
      <3>3. QED BY <3>1, <3>2
    <2>13. QED
      BY <1>6, <2>1, <2>2, <2>3, <2>4, <2>5, <2>6, <2>10, <2>11, <2>12, UndIsBoolean
         DEF Worker, Step
  <1>7. ASSUME RecoverReadable \/ RecoverUnreadable PROVE Quiet
    <2>1. PICK r \in {row.res, Readback(row.res, row.pay.econ, row.pay.assoc), Verify(row.res)} :
            RecoverWith(r)
      BY <1>7 DEF RecoverReadable, RecoverUnreadable
    <2>2. CASE row' = row BY <1>3, <2>2
    <2>3. CASE row' # row
      <3>1. row = obs.row /\ obs # None /\ row' = Recovered(row, Policy(row.att, r))
        BY <2>1, <2>3 DEF RecoverWith
      <3>2. row \in Rows /\ row.status # "conflict"
        BY <3>1 DEF IInv, TypeOK, ListingIsOpen
      <3>3. r \in Result BY <2>1, <3>2, ReadbackType, VerifyType DEF Rows
      <3>4. Stored(row, Policy(row.att, r)) \in Rows
        BY <3>2, <3>3, PolicyType, StoredType DEF Rows
      <3>5. row'.status # "conflict"
        BY <3>1, <3>4 DEF Recovered, Unclaimed, Rows
      <3>6. QED BY <1>4, <3>2, <3>5
    <2>4. QED BY <2>2, <2>3
  <1>8. ASSUME Reconcile PROVE Quiet
    <2>1. CASE row' = row BY <1>3, <2>1
    <2>2. CASE row' # row
      <3>1. row \in Rows /\ row.status # "conflict"
        BY <1>8 DEF Reconcile, IInv, TypeOK, Absent, Blank
      <3>2. row'.status = "handled" BY <1>8, <2>2, <3>1 DEF Reconcile, Unclaimed, Rows
      <3>3. QED BY <1>4, <3>1, <3>2
    <2>3. QED BY <2>1, <2>2
  <1>9. ASSUME Resume PROVE Quiet
    <2>1. row \in Rows /\ row.status # "conflict"
      BY <1>9 DEF Resume, IInv, TypeOK, Absent, Blank
    <2>2. row'.status = "pending" BY <1>9, <2>1 DEF Resume, Unclaimed, Rows
    <2>3. QED BY <1>4, <2>1, <2>2
  <1>10. ASSUME Tick PROVE Quiet
    <2>1. row \in Rows BY <1>10 DEF Tick, IInv, TypeOK, Absent, Blank
    <2>2. row'.status = row.status /\ row'.reason = row.reason
      BY <1>10, <2>1 DEF Tick, Rows
    <2>3. QED BY <2>2 DEF Held
  <1>11. ASSUME ListRecovery \/ UNCHANGED vars PROVE Quiet
    BY <1>3, <1>11 DEF ListRecovery, vars
  <1>12. CASE effect' = effect
    <2>1. Quiet BY <1>6, <1>7, <1>8, <1>9, <1>10, <1>11, <1>12 DEF Next, vars
    <2>2. QED BY <1>1, <1>12, <2>1, QuietStep
  <1>13. QED BY <1>2, <1>12

\* Every behaviour of the inbox is one of TradeAdoption: an execution is
\* booked at most once and later at most completed, never while a conflict
\* holds it back; no conflict but a missing status is ever lifted; and the
\* inbox vouches only for what is booked.
THEOREM InboxKeepsPromise == Spec => KeepsPromise
  <1>1. Spec => Promise!Init /\ [][Promise!Next]_(Promise!absVars)
    BY PromiseInit, PromiseStep, InvariantHolds, PTL DEF Spec
  <1>2. QED BY <1>1 DEF KeepsPromise, Promise!Spec
=============================================================================
