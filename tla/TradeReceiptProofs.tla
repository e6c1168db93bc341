------------------------- MODULE TradeReceiptProofs --------------------------
(***************************************************************************)
(* Proofs about TradeReceipt for any senders, kinds, targets, recipients   *)
(* and attempt limit: its inductive invariant, and that a receipt which    *)
(* goes straight to a target is delivered as OneShotDelivery promises.     *)
(***************************************************************************)
EXTENDS TradeReceipt, TLAPS

(* Updates keep the records well formed.                                   *)

LEMMA SenderUpdates ==
    ASSUME NEW x \in Sendings
    PROVE  /\ \A v \in PCs : [x EXCEPT !.pc = v] \in Sendings
           /\ \A v \in Kinds : [x EXCEPT !.key = v] \in Sendings
           /\ \A v \in BOOLEAN : [x EXCEPT !.mine = v] \in Sendings
           /\ \A v \in Targets \cup {Fanout} : [x EXCEPT !.via = v] \in Sendings
           /\ \A v \in SUBSET Recipients : [x EXCEPT !.todo = v] \in Sendings
           /\ \A v \in Recipients \cup {None} : [x EXCEPT !.to = v] \in Sendings
           /\ \A v \in Outs : [x EXCEPT !.out = v] \in Sendings
  BY DEF Sendings

LEMMA ReceiptUpdates ==
    ASSUME NEW r \in Receipts
    PROVE  /\ \A v \in {"absent", "pending", "started", "unknown", "sent", "failed"} :
                 [r EXCEPT !.status = v] \in Receipts
           /\ \A v \in {"none", "superseded", "exhausted", "moved"} :
                 [r EXCEPT !.stop = v] \in Receipts
           /\ \A v \in 0..1 : [r EXCEPT !.wait = v] \in Receipts
  BY DEF Receipts

LEMMA IdleType == Idle \in Sendings
  BY DEF Idle, Sendings, PCs, Outs

LEMMA QuitType ==
    ASSUME TypeOK, NEW s \in Senders, Quit(s)
    PROVE  sender' \in [Senders -> Sendings]
  BY IdleType DEF TypeOK, Quit

LEMMA ReadyType ==
    ASSUME TypeOK, NEW s \in Senders, NEW k \in Kinds, NEW m \in BOOLEAN, Ready(s, k, m)
    PROVE  /\ sender' \in [Senders -> Sendings]
           /\ sender'[s].pc = "ready" /\ sender'[s].key = k /\ sender'[s].via = route
           /\ sender'[s].todo = {}
           /\ \A e \in Senders \ {s} : sender'[e] = sender[e]
  <1> DEFINE x == [Idle EXCEPT !.pc = "ready", !.key = k, !.mine = m, !.via = route]
  <1>1. x \in Sendings BY IdleType DEF TypeOK, Idle, Sendings, PCs, Outs
  <1>2. sender' = [sender EXCEPT ![s] = x] BY DEF Ready
  <1>3. x.pc = "ready" /\ x.key = k /\ x.via = route /\ x.todo = {} BY DEF Idle
  <1> HIDE DEF x
  <1>4. sender \in [Senders -> Sendings] BY DEF TypeOK
  <1>5. QED BY <1>1, <1>2, <1>3, <1>4

\* Becoming current keeps what was sent, to whom and how often.
LEMMA CurrentFacts ==
    ASSUME NEW r \in Receipts
    PROVE  /\ Current(r) \in Receipts
           /\ Current(r).status = IF r.status = "absent" THEN "pending" ELSE r.status
           /\ Current(r).route = r.route
           /\ Current(r).by = r.by
  BY DEF Current, Receipts

LEMMA SupersededFacts ==
    ASSUME NEW r \in Receipts
    PROVE  /\ [r EXCEPT !.stop = "superseded"] \in Receipts
           /\ [r EXCEPT !.stop = "superseded"].status = r.status
           /\ [r EXCEPT !.stop = "superseded"].route = r.route
           /\ [r EXCEPT !.stop = "superseded"].by = r.by
  BY DEF Receipts

LEMMA PrepareFacts ==
    ASSUME TypeOK, NEW k \in Kinds, Prepare(k)
    PROVE  /\ rcpt' \in [Kinds -> Receipts]
           /\ cur' \in Kinds
           /\ \A q \in Kinds :
                /\ \/ rcpt'[q].status = rcpt[q].status
                   \/ rcpt[q].status = "absent" /\ rcpt'[q].status = "pending"
                /\ rcpt'[q].route = rcpt[q].route
                /\ rcpt'[q].by = rcpt[q].by
  <1>1. rcpt \in [Kinds -> Receipts] BY DEF TypeOK
  <1> DEFINE f(q) == IF q = k THEN Current(rcpt[q])
                     ELSE IF q = cur THEN [rcpt[q] EXCEPT !.stop = "superseded"]
                     ELSE rcpt[q]
  <1>2. ASSUME NEW q \in Kinds
        PROVE  /\ f(q) \in Receipts
               /\ \/ f(q).status = rcpt[q].status
                  \/ rcpt[q].status = "absent" /\ f(q).status = "pending"
               /\ f(q).route = rcpt[q].route
               /\ f(q).by = rcpt[q].by
    <2>1. rcpt[q] \in Receipts BY <1>1
    <2>2. QED BY <2>1, CurrentFacts, SupersededFacts
  <1>3. rcpt' = [q \in Kinds |-> f(q)] /\ cur' = k BY DEF Prepare
  <1> HIDE DEF f
  <1>4. rcpt' \in [Kinds -> Receipts] BY <1>2, <1>3
  <1>5. ASSUME NEW q \in Kinds PROVE rcpt'[q] = f(q) BY <1>3
  <1>6. QED BY <1>2, <1>3, <1>4, <1>5

\* A step of one sender: the others keep their local state.
LEMMA OwnStep ==
    ASSUME TypeOK, NEW s \in Senders, NEW x \in Sendings, sender' = [sender EXCEPT ![s] = x]
    PROVE  /\ sender' \in [Senders -> Sendings]
           /\ sender'[s] = x
           /\ \A e \in Senders \ {s} : sender'[e] = sender[e]
  BY DEF TypeOK

-----------------------------------------------------------------------------
(* The type invariant.                                                     *)

\* What the steps of the sending need to know of their sender.
KeyInHand == \A s \in Senders : ~At(s, "idle") => sender[s].key \in Kinds /\ sender[s].via # None

LEMMA BeginType ==
    ASSUME TypeOK, KeyInHand, NEW s \in Senders, Begin(s)
    PROVE  /\ cur \in Kinds /\ sender[s].key = cur
           /\ rcpt' \in [Kinds -> Receipts]
           /\ rcpt'[cur].status = "started" /\ rcpt'[cur].by = s
           /\ rcpt'[cur].route = sender[s].via
           /\ \A q \in Kinds \ {cur} : rcpt'[q] = rcpt[q]
           /\ sender' \in [Senders -> Sendings]
           /\ sender'[s].pc = "sending" /\ sender'[s].key = cur
           /\ sender'[s].via = sender[s].via
           /\ sender'[s].todo = IF sender[s].via = Fanout THEN Recipients ELSE {}
           /\ \A e \in Senders \ {s} : sender'[e] = sender[e]
  <1> DEFINE v == sender[s].via
             n == IF v = Fanout THEN rcpt[cur].count ELSE rcpt[cur].count + 1
             c == [rcpt[cur] EXCEPT !.status = "started", !.by = s, !.route = v, !.count = n]
             t == IF v = Fanout THEN Recipients ELSE {}
             x == [sender[s] EXCEPT !.pc = "sending", !.mine = FALSE, !.todo = t]
  <1>1. sender[s].key = cur /\ cur \in Kinds BY DEF Begin, Permitted, KeyInHand, At
  <1>2. rcpt[cur] \in Receipts /\ sender[s] \in Sendings /\ v \in Targets \cup {Fanout}
    BY <1>1 DEF TypeOK, KeyInHand, Begin, At, Sendings
  <1>3. n \in 0..Limit
    <2>1. rcpt[cur].count \in 0..Limit BY <1>2 DEF Receipts
    <2>2. v # Fanout => ~(rcpt[cur].count >= Limit) BY DEF Begin, Exhausted
    <2>3. QED BY <2>1, <2>2, ReceiptAssumption
  <1>4. c \in Receipts /\ c.status = "started" /\ c.by = s /\ c.route = v
    <2> HIDE DEF n, v
    <2>1. QED BY <1>2, <1>3 DEF Receipts
  <1>5. x \in Sendings /\ x.pc = "sending" /\ x.key = cur /\ x.via = v /\ x.todo = t
    <2>1. t \subseteq Recipients OBVIOUS
    <2> HIDE DEF t
    <2>2. QED BY <1>1, <1>2, <2>1 DEF Sendings, PCs
  <1>6. rcpt' = [rcpt EXCEPT ![cur] = c] BY DEF Begin
  <1>7. sender' = [sender EXCEPT ![s] = x] BY DEF Begin
  <1> HIDE DEF c, x
  <1>8. rcpt' \in [Kinds -> Receipts] /\ rcpt'[cur] = c
        /\ \A q \in Kinds \ {cur} : rcpt'[q] = rcpt[q]
    BY <1>1, <1>4, <1>6 DEF TypeOK
  <1>9. QED BY <1>1, <1>4, <1>5, <1>7, <1>8, OwnStep

\* What a step of a sender changes of its local state.
SameHand(s) == sender'[s].key = sender[s].key /\ sender'[s].via = sender[s].via
OthersStay(s) == \A e \in Senders \ {s} : sender'[e] = sender[e]

LEMMA SendFacts ==
    ASSUME TypeOK, KeyInHand, NEW s \in Senders, Send(s)
    PROVE  /\ sender' \in [Senders -> Sendings] /\ OthersStay(s) /\ SameHand(s)
           /\ sender'[s].pc = "answered" /\ sender'[s].todo = sender[s].todo
           /\ taken' \in [Kinds -> Nat]
           /\ \A k \in Kinds \ {sender[s].key} : taken'[k] = taken[k]
           /\ taken'[sender[s].key] \in {taken[sender[s].key], taken[sender[s].key] + 1}
           /\ sender'[s].out = "sent" => taken'[sender[s].key] = taken[sender[s].key] + 1
           /\ sender'[s].out = "failed" => taken'[sender[s].key] = taken[sender[s].key]
           /\ tried' \in [Kinds -> SUBSET (Targets \cup {Fanout})]
           /\ \A k \in Kinds \ {sender[s].key} : tried'[k] = tried[k]
           /\ tried'[sender[s].key] = tried[sender[s].key] \cup {sender[s].via}
  <1>1. PICK out \in Outs, took \in BOOLEAN :
          /\ out = "sent" => took
          /\ out = "failed" => ~took
          /\ sender' = [sender EXCEPT ![s].pc = "answered", ![s].out = out]
          /\ taken' = IF took THEN [taken EXCEPT ![sender[s].key] = @ + 1] ELSE taken
          /\ tried' = [tried EXCEPT ![sender[s].key] = @ \cup {sender[s].via}]
    BY DEF Send
  <1> DEFINE x == [sender[s] EXCEPT !.pc = "answered", !.out = out]
  <1>2. sender[s] \in Sendings /\ sender[s].key \in Kinds
        /\ sender[s].via \in Targets \cup {Fanout}
    BY DEF TypeOK, Sendings, KeyInHand, Send, At
  <1>3. x \in Sendings /\ x.pc = "answered" /\ x.out = out /\ x.key = sender[s].key
        /\ x.via = sender[s].via /\ x.todo = sender[s].todo
    BY <1>2 DEF Sendings, PCs
  <1>4. sender' = [sender EXCEPT ![s] = x] BY <1>1
  <1> HIDE DEF x
  <1>5. sender' \in [Senders -> Sendings] /\ OthersStay(s) /\ sender'[s] = x
    BY <1>3, <1>4, OwnStep DEF OthersStay
  <1>6. /\ taken' \in [Kinds -> Nat]
        /\ \A k \in Kinds \ {sender[s].key} : taken'[k] = taken[k]
        /\ took => taken'[sender[s].key] = taken[sender[s].key] + 1
        /\ ~took => taken'[sender[s].key] = taken[sender[s].key]
    BY <1>1, <1>2 DEF TypeOK
  <1>7. /\ tried' \in [Kinds -> SUBSET (Targets \cup {Fanout})]
        /\ \A k \in Kinds \ {sender[s].key} : tried'[k] = tried[k]
        /\ tried'[sender[s].key] = tried[sender[s].key] \cup {sender[s].via}
    BY <1>1, <1>2 DEF TypeOK
  <1>8. QED BY <1>1, <1>3, <1>5, <1>6, <1>7 DEF SameHand

LEMMA PassFacts ==
    ASSUME TypeOK, NEW s \in Senders, NEW r \in Recipients, Pass(s, r)
    PROVE  /\ sender' \in [Senders -> Sendings] /\ OthersStay(s) /\ SameHand(s)
           /\ sender'[s].pc = "sending" /\ sender'[s].todo = sender[s].todo \ {r}
  <1> DEFINE t == sender[s].todo \ {r}
             x == [sender[s] EXCEPT !.todo = t]
  <1>1. sender[s] \in Sendings /\ t \subseteq Recipients BY DEF TypeOK, Sendings
  <1>2. x \in Sendings /\ x.pc = "sending" /\ x.key = sender[s].key
        /\ x.via = sender[s].via /\ x.todo = t
    <2>1. sender[s].pc = "sending" BY DEF Pass, At
    <2> HIDE DEF t
    <2>2. QED BY <1>1, <2>1 DEF Sendings
  <1>3. sender' = [sender EXCEPT ![s] = x] BY DEF Pass
  <1> HIDE DEF x
  <1>4. QED BY <1>2, <1>3, OwnStep DEF OthersStay, SameHand

LEMMA TryFacts ==
    ASSUME TypeOK, KeyInHand, NEW s \in Senders, NEW r \in Recipients, Try(s, r)
    PROVE  /\ sender' \in [Senders -> Sendings] /\ OthersStay(s) /\ SameHand(s)
           /\ sender'[s].pc = "trying" /\ sender'[s].to = r
           /\ child' \in [Kinds -> [Recipients -> ChildPhases]]
           /\ \A k \in Kinds, q \in Recipients :
                child'[k][q] = IF k = sender[s].key /\ q = r THEN "out" ELSE child[k][q]
           /\ tried' \in [Kinds -> SUBSET (Targets \cup {Fanout})]
           /\ \A k \in Kinds \ {sender[s].key} : tried'[k] = tried[k]
           /\ tried'[sender[s].key] = tried[sender[s].key] \cup {Fanout}
  <1> DEFINE t == sender[s].todo \ {r}
             x == [sender[s] EXCEPT !.pc = "trying", !.todo = t, !.to = r]
             k0 == sender[s].key
  <1>1. sender[s] \in Sendings /\ t \subseteq Recipients BY DEF TypeOK, Sendings
  <1>2. x \in Sendings /\ x.pc = "trying" /\ x.to = r /\ x.key = k0 /\ x.via = sender[s].via
    <2> HIDE DEF t
    <2>1. QED BY <1>1 DEF Sendings, PCs
  <1>3. sender' = [sender EXCEPT ![s] = x] BY DEF Try
  <1>4. k0 \in Kinds BY DEF Try, At, KeyInHand
  <1>5. child \in [Kinds -> [Recipients -> ChildPhases]]
        /\ child' = [child EXCEPT ![k0] = [child[k0] EXCEPT ![r] = "out"]]
        /\ "out" \in ChildPhases
    BY DEF TypeOK, Try, ChildPhases
  <1>6. tried \in [Kinds -> SUBSET (Targets \cup {Fanout})]
        /\ tried' = [tried EXCEPT ![k0] = tried[k0] \cup {Fanout}]
    BY DEF TypeOK, Try
  <1>7. sender' \in [Senders -> Sendings] /\ OthersStay(s) /\ SameHand(s)
        /\ sender'[s].pc = "trying" /\ sender'[s].to = r
    <2> HIDE DEF x
    <2>1. QED BY <1>2, <1>3, OwnStep DEF OthersStay, SameHand
  <1> HIDE DEF x
  <1>8. child' \in [Kinds -> [Recipients -> ChildPhases]]
        /\ \A k \in Kinds, q \in Recipients :
             child'[k][q] = IF k = k0 /\ q = r THEN "out" ELSE child[k][q]
    BY <1>4, <1>5
  <1>9. tried' \in [Kinds -> SUBSET (Targets \cup {Fanout})]
        /\ (\A k \in Kinds \ {k0} : tried'[k] = tried[k])
        /\ tried'[k0] = tried[k0] \cup {Fanout}
    BY <1>4, <1>6
  <1>10. QED BY <1>7, <1>8, <1>9

LEMMA ReplyFacts ==
    ASSUME TypeOK, KeyInHand, NEW s \in Senders, Reply(s), sender[s].to \in Recipients
    PROVE  /\ sender' \in [Senders -> Sendings] /\ OthersStay(s) /\ SameHand(s)
           /\ sender'[s].pc = "sending" /\ sender'[s].todo = sender[s].todo
           /\ child' \in [Kinds -> [Recipients -> ChildPhases]]
           /\ \A k \in Kinds, q \in Recipients :
                k # sender[s].key \/ q # sender[s].to => child'[k][q] = child[k][q]
  <1> DEFINE x == [sender[s] EXCEPT !.pc = "sending", !.to = None]
             k0 == sender[s].key
             r0 == sender[s].to
  <1>1. PICK p \in ChildPhases : child' = [child EXCEPT ![k0] = [child[k0] EXCEPT ![r0] = p]]
    BY DEF Reply
  <1>2. sender[s] \in Sendings BY DEF TypeOK
  <1>3. x \in Sendings /\ x.pc = "sending" /\ x.key = k0 /\ x.via = sender[s].via
        /\ x.todo = sender[s].todo
    BY <1>2 DEF Sendings, PCs
  <1>4. sender' = [sender EXCEPT ![s] = x] BY DEF Reply
  <1> HIDE DEF x
  <1>5. k0 \in Kinds BY DEF Reply, At, KeyInHand
  <1>6. child \in [Kinds -> [Recipients -> ChildPhases]] BY DEF TypeOK
  <1>7. child' \in [Kinds -> [Recipients -> ChildPhases]]
        /\ \A k \in Kinds, q \in Recipients : k # k0 \/ q # r0 => child'[k][q] = child[k][q]
    BY <1>1, <1>5, <1>6
  <1>8. QED BY <1>3, <1>4, <1>7, OwnStep DEF OthersStay, SameHand

LEMMA SnapshotFacts ==
    ASSUME TypeOK, NEW s \in Senders, Snapshot(s)
    PROVE  /\ sender' \in [Senders -> Sendings] /\ OthersStay(s) /\ SameHand(s)
           /\ sender'[s].pc = "answered" /\ sender'[s].todo = sender[s].todo
           /\ sender'[s].out = Summary(child[sender[s].key])
  <1> DEFINE o == Summary(child[sender[s].key])
             x == [sender[s] EXCEPT !.pc = "answered", !.out = o]
  <1>1. sender[s] \in Sendings BY DEF TypeOK
  <1>2. o \in Outs BY DEF Summary, Outs
  <1>3. x \in Sendings /\ x.pc = "answered" /\ x.out = o /\ x.key = sender[s].key
        /\ x.via = sender[s].via /\ x.todo = sender[s].todo
    <2> HIDE DEF o
    <2>1. QED BY <1>1, <1>2 DEF Sendings, PCs
  <1>4. sender' = [sender EXCEPT ![s] = x] BY DEF Snapshot
  <1> HIDE DEF x
  <1>5. QED BY <1>3, <1>4, OwnStep DEF OthersStay, SameHand

LEMMA FinishFacts ==
    ASSUME TypeOK, KeyInHand, NEW s \in Senders, Finish(s)
    PROVE  /\ sender[s].key \in Kinds
           /\ rcpt' \in [Kinds -> Receipts]
           /\ \A k \in Kinds \ {sender[s].key} : rcpt'[k] = rcpt[k]
           /\ rcpt'[sender[s].key].route = rcpt[sender[s].key].route
           /\ \/ rcpt[sender[s].key].by = s
                 /\ rcpt'[sender[s].key].status = sender[s].out
              \/ rcpt[sender[s].key].by # s /\ rcpt'[sender[s].key] = rcpt[sender[s].key]
  <1> DEFINE k0 == sender[s].key
             r == rcpt[k0]
             w == IF sender[s].out = "failed" THEN 1 ELSE r.wait
             t == IF sender[s].out = "failed" /\ Exhausted(r, r.route) THEN "exhausted" ELSE r.stop
             c == [r EXCEPT !.status = sender[s].out, !.by = None, !.wait = w, !.stop = t]
  <1>1. k0 \in Kinds BY DEF Finish, At, KeyInHand
  <1>2. r \in Receipts /\ sender[s] \in Sendings BY <1>1 DEF TypeOK
  <1>3. w \in 0..1 /\ t \in {"none", "superseded", "exhausted", "moved"}
    BY <1>2 DEF Receipts
  <1>4. c \in Receipts /\ c.status = sender[s].out /\ c.route = r.route
    <2>1. sender[s].out \in Outs BY <1>2 DEF Sendings
    <2> HIDE DEF w, t
    <2>2. QED BY <1>2, <1>3, <2>1 DEF Receipts, Outs
  <1>5. rcpt' = IF r.by = s THEN [rcpt EXCEPT ![k0] = c] ELSE rcpt BY DEF Finish
  <1>6. rcpt \in [Kinds -> Receipts] BY DEF TypeOK
  <1> HIDE DEF c
  <1>7. QED BY <1>1, <1>4, <1>5, <1>6

LEMMA TypeStep == ReceiptInv /\ [Next]_vars => TypeOK'
  <1> SUFFICES ASSUME ReceiptInv, [Next]_vars PROVE TypeOK'
    OBVIOUS
  <1>1. TypeOK /\ KeyInHand BY DEF ReceiptInv, InHand, KeyInHand
  <1> USE <1>1
  <1>2. ASSUME NEW s \in Senders, TakeClaim(s) PROVE TypeOK'
    BY <1>2 DEF TypeOK, TakeClaim, ghosts
  <1>3. ASSUME NEW s \in Senders, NEW k \in Kinds, NEW m \in BOOLEAN, Prepare(k), Ready(s, k, m),
               claim' \in {claim, None}, UNCHANGED <<live, held, route, child, ghosts>>
        PROVE TypeOK'
    <2>1. rcpt' \in [Kinds -> Receipts] /\ cur' \in Kinds BY <1>3, PrepareFacts
    <2>2. sender' \in [Senders -> Sendings] BY <1>3, ReadyType
    <2>3. QED BY <1>3, <2>1, <2>2 DEF TypeOK, ghosts
  <1>4. ASSUME NEW s \in Senders, Announce(s) PROVE TypeOK'
    BY <1>3, <1>4 DEF Announce, row
  <1>5. ASSUME NEW s \in Senders, RecoverDue(s) PROVE TypeOK'
    <2>1. cur \in Kinds BY <1>5 DEF RecoverDue, TypeOK
    <2>2. QED BY <1>3, <1>5, <2>1 DEF RecoverDue
  <1>6. ASSUME NEW s \in Senders, RecoverRead(s) PROVE TypeOK'
    BY <1>3, <1>6 DEF RecoverRead
  <1>7. ASSUME NEW s \in Senders, Refused(s) \/ Crash(s) PROVE TypeOK'
    <2>1. Quit(s) /\ UNCHANGED <<rcpt, cur, row, route, child, ghosts>>
      BY <1>7 DEF Refused, Crash
    <2>2. QED BY <2>1, QuitType DEF TypeOK, row, ghosts
  <1>8. ASSUME NEW s \in Senders, Stopped(s) PROVE TypeOK'
    <2> DEFINE v == IF Moved(rcpt[cur], sender[s].via) THEN "moved" ELSE "exhausted"
    <2>1. cur \in Kinds BY <1>8 DEF Stopped, Permitted, KeyInHand, At
    <2>2. rcpt' = [rcpt EXCEPT ![cur] = [rcpt[cur] EXCEPT !.stop = v]] BY <1>8 DEF Stopped
    <2>3. v \in {"none", "superseded", "exhausted", "moved"} OBVIOUS
    <2> HIDE DEF v
    <2>4. rcpt[cur] \in Receipts BY <2>1 DEF TypeOK
    <2>5. [rcpt[cur] EXCEPT !.stop = v] \in Receipts BY <2>3, <2>4, ReceiptUpdates
    <2>6. rcpt' \in [Kinds -> Receipts] BY <2>2, <2>5 DEF TypeOK
    <2>7. Quit(s) /\ UNCHANGED <<cur, row, route, child, ghosts>> BY <1>8 DEF Stopped
    <2>8. QED BY <2>6, <2>7, QuitType DEF TypeOK, row, ghosts
  <1>9. ASSUME NEW s \in Senders, Begin(s) PROVE TypeOK'
    <2>1. rcpt' \in [Kinds -> Receipts] /\ sender' \in [Senders -> Sendings]
      BY <1>9, BeginType
    <2>2. QED BY <1>9, <2>1 DEF TypeOK, Begin, row, ghosts
  <1>10. ASSUME NEW s \in Senders, Send(s) PROVE TypeOK'
    <2>1. /\ sender' \in [Senders -> Sendings] /\ taken' \in [Kinds -> Nat]
          /\ tried' \in [Kinds -> SUBSET (Targets \cup {Fanout})]
      BY <1>10, SendFacts
    <2>2. QED BY <1>10, <2>1 DEF TypeOK, Send, row
  <1>11. ASSUME NEW s \in Senders, Reply(s) PROVE TypeOK'
    <2>1. sender[s].to \in Recipients BY <1>11 DEF ReceiptInv, OneAsksEach, Reply
    <2>2. sender' \in [Senders -> Sendings] /\ child' \in [Kinds -> [Recipients -> ChildPhases]]
      BY <1>11, <2>1, ReplyFacts
    <2>3. QED BY <1>11, <2>2 DEF TypeOK, Reply, row, ghosts
  <1>12. ASSUME NEW s \in Senders, Snapshot(s) PROVE TypeOK'
    <2>1. sender' \in [Senders -> Sendings] BY <1>12, SnapshotFacts
    <2>2. QED BY <1>12, <2>1 DEF TypeOK, Snapshot, row, ghosts
  <1>13. ASSUME NEW s \in Senders, Finish(s) PROVE TypeOK'
    <2>1. rcpt' \in [Kinds -> Receipts] BY <1>13, FinishFacts
    <2>2. Quit(s) /\ UNCHANGED <<cur, row, route, child, ghosts>> BY <1>13 DEF Finish
    <2>3. QED BY <2>1, <2>2, QuitType DEF TypeOK, row, ghosts
  <1>14. ASSUME NEW s \in Senders, NEW r \in Recipients, Pass(s, r) PROVE TypeOK'
    <2>1. sender' \in [Senders -> Sendings] BY <1>14, PassFacts
    <2>2. QED BY <1>14, <2>1 DEF TypeOK, Pass, row, ghosts
  <1>15. ASSUME NEW s \in Senders, NEW r \in Recipients, Try(s, r) PROVE TypeOK'
    <2>1. /\ sender' \in [Senders -> Sendings] /\ child' \in [Kinds -> [Recipients -> ChildPhases]]
          /\ tried' \in [Kinds -> SUBSET (Targets \cup {Fanout})]
      BY <1>15, TryFacts
    <2>2. QED BY <1>15, <2>1 DEF TypeOK, Try, row
  <1>16. CASE Release \/ Expire \/ Hold BY <1>16 DEF TypeOK, Release, Expire, Hold, ghosts
  <1>17. CASE Reconfigure BY <1>17 DEF TypeOK, Reconfigure, row, ghosts
  <1>18. CASE Tick
    <2>1. ASSUME NEW k \in Kinds PROVE [rcpt[k] EXCEPT !.wait = 0] \in Receipts
      <3>1. rcpt[k] \in Receipts /\ 0 \in 0..1 BY DEF TypeOK
      <3>2. QED BY <3>1, ReceiptUpdates
    <2>2. rcpt' \in [Kinds -> Receipts] BY <1>18, <2>1 DEF Tick
    <2>3. QED BY <1>18, <2>2 DEF TypeOK, Tick, row, ghosts
  <1>19. CASE UNCHANGED vars BY <1>19 DEF TypeOK, vars, row, ghosts
  <1>20. QED
    BY <1>2, <1>4, <1>5, <1>6, <1>7, <1>8, <1>9, <1>10, <1>11, <1>12, <1>13, <1>14, <1>15,
       <1>16, <1>17, <1>18, <1>19 DEF Next, Deliver

-----------------------------------------------------------------------------
(* The inductive invariant, part by part.                                  *)

Rest == AttemptsAreKept /\ ReceiptsAreTrue /\ OneTarget
        /\ InHand /\ OneAsksEach /\ FanoutsUntaken

\* A step that calls no provider, keeps every receipt's evidence and at most
\* starts or ends a sending keeps everything said about sendings.
LEMMA QuietStep ==
    ASSUME ReceiptInv, UNCHANGED <<child, taken, tried>>,
           \A k \in Kinds :
             /\ \/ rcpt'[k].status = rcpt[k].status
                \/ rcpt[k].status = "absent" /\ rcpt'[k].status = "pending"
             /\ rcpt'[k].route = rcpt[k].route
             /\ rcpt'[k].by = rcpt[k].by,
           \A e \in Senders :
             \/ sender'[e] = sender[e]
             \/ /\ sender'[e].pc \in {"idle", "ready"} /\ sender'[e].todo = {}
                /\ sender'[e].pc = "ready" => sender'[e].key \in Kinds /\ sender'[e].via # None
    PROVE  Rest'
  <1>1. InHand' BY DEF ReceiptInv, InHand, At
  <1>2. \A e \in Senders : sender'[e].pc \notin {"idle", "ready"} => sender'[e] = sender[e]
    OBVIOUS
  <1>3. \A e \in Senders : sender'[e].pc \notin {"idle", "ready"} => sender[e].key \in Kinds
    BY <1>2 DEF ReceiptInv, InHand, At
  <1>4. AttemptsAreKept' BY <1>2, <1>3 DEF ReceiptInv, AttemptsAreKept, Direct
  <1>5. ReceiptsAreTrue'
    <2>1. ASSUME NEW k \in Kinds
          PROVE  /\ rcpt'[k].status \in {"absent", "pending", "failed"} => taken'[k] = 0
                 /\ rcpt'[k].status = "sent" =>
                      IF rcpt'[k].route = Fanout THEN \A r \in Recipients : child'[k][r] = "done"
                                                 ELSE taken'[k] = 1
      BY DEF ReceiptInv, ReceiptsAreTrue
    <2>2. ASSUME NEW e \in Senders, sender'[e].pc = "answered"
          PROVE  sender'[e] = sender[e] /\ At(e, "answered")
      BY <1>2, <2>2 DEF At
    <2>3. ASSUME NEW e \in Senders, sender'[e].pc = "answered"
          PROVE  /\ sender'[e].out = "sent" =>
                      IF sender'[e].via = Fanout
                        THEN \A r \in Recipients : child'[sender'[e].key][r] = "done"
                        ELSE taken'[sender'[e].key] = 1
                 /\ sender'[e].out = "failed" /\ Direct(e)' => taken'[sender'[e].key] = 0
      BY <2>2, <2>3 DEF ReceiptInv, ReceiptsAreTrue, Direct
    <2>4. QED BY <2>1, <2>3 DEF ReceiptsAreTrue, At
  <1>6. OneTarget' BY DEF ReceiptInv, OneTarget
  <1>7. OneAsksEach' BY <1>2 DEF ReceiptInv, OneAsksEach, At
  <1>8. FanoutsUntaken' BY DEF ReceiptInv, FanoutsUntaken
  <1>9. QED BY <1>1, <1>4, <1>5, <1>6, <1>7, <1>8 DEF Rest

\* Another sender's direct attempt is on a receipt that is no fan-out's and has
\* begun: nobody else begins, sends or finishes it.
LEMMA DirectAlone ==
    ASSUME ReceiptInv, NEW s \in Senders, Direct(s)
    PROVE  /\ sender[s].key \in Kinds
           /\ rcpt[sender[s].key].status = "started"
           /\ rcpt[sender[s].key].route = sender[s].via /\ sender[s].via # Fanout
           /\ rcpt[sender[s].key].by = s
           /\ \A e \in Senders \ {s} : Direct(e) => sender[e].key # sender[s].key
  BY DEF ReceiptInv, AttemptsAreKept, Direct, InHand, At

\* What an attempt may begin with.
LEMMA BeginRight ==
    ASSUME ReceiptInv, NEW s \in Senders, Begin(s)
    PROVE  /\ cur \in Kinds /\ sender[s].key = cur /\ sender[s].via # None
           /\ rcpt[cur].route \in {None, sender[s].via}
           /\ \/ rcpt[cur].status \in {"pending", "failed"} /\ taken[cur] = 0
              \/ /\ rcpt[cur].status = "started" /\ taken[cur] = 0
                 /\ rcpt[cur].route = Fanout /\ sender[s].via = Fanout
  <1>1. cur \in Kinds /\ sender[s].key = cur /\ sender[s].via # None
    BY DEF Begin, Permitted, ReceiptInv, InHand, At
  <1>2. rcpt[cur].route \in {None, sender[s].via} BY DEF Begin, Moved
  <1>3. Due(rcpt[cur]) \/ Continues(rcpt[cur], sender[s].via) BY DEF Begin, Permitted
  <1>4. CASE Due(rcpt[cur]) BY <1>1, <1>2, <1>4 DEF Due, ReceiptInv, ReceiptsAreTrue
  <1>5. CASE Continues(rcpt[cur], sender[s].via)
    BY <1>1, <1>2, <1>5 DEF Continues, ReceiptInv, FanoutsUntaken
  <1>6. QED BY <1>3, <1>4, <1>5

LEMMA BeginStep == ASSUME ReceiptInv, NEW s \in Senders, Begin(s) PROVE Rest'
  <1>1. TypeOK /\ KeyInHand BY DEF ReceiptInv, InHand, KeyInHand
  <1>2. UNCHANGED <<child, taken, tried>> BY DEF Begin, ghosts
  <1>3. /\ cur \in Kinds /\ sender[s].key = cur
        /\ rcpt'[cur].status = "started" /\ rcpt'[cur].by = s
        /\ rcpt'[cur].route = sender[s].via
        /\ \A q \in Kinds \ {cur} : rcpt'[q] = rcpt[q]
        /\ sender'[s].pc = "sending" /\ sender'[s].key = cur
        /\ sender'[s].via = sender[s].via
        /\ sender'[s].todo = IF sender[s].via = Fanout THEN Recipients ELSE {}
        /\ \A e \in Senders \ {s} : sender'[e] = sender[e]
    BY <1>1, BeginType
  <1>4. \A e \in Senders \ {s} : Direct(e) => sender[e].key # cur
    BY <1>3, DirectAlone, BeginRight
  <1>5. taken[cur] = 0 BY BeginRight
  <1>6. AttemptsAreKept'
    <2>1. ASSUME NEW e \in Senders \ {s}, Direct(e)'
          PROVE  /\ rcpt'[sender'[e].key].status = "started" /\ rcpt'[sender'[e].key].by = e
                 /\ rcpt'[sender'[e].key].route = sender'[e].via
      <3>1. sender'[e] = sender[e] /\ Direct(e) BY <1>3, <2>1 DEF Direct
      <3>2. QED BY <1>3, <1>4, <3>1, DirectAlone
    <2>2. QED BY <1>3, <2>1 DEF AttemptsAreKept, Direct
  <1>7. ReceiptsAreTrue'
    <2>1. ASSUME NEW k \in Kinds
          PROVE  /\ rcpt'[k].status \in {"absent", "pending", "failed"} => taken'[k] = 0
                 /\ rcpt'[k].status = "sent" =>
                      IF rcpt'[k].route = Fanout THEN \A r \in Recipients : child'[k][r] = "done"
                                                 ELSE taken'[k] = 1
      BY <1>2, <1>3 DEF ReceiptInv, ReceiptsAreTrue
    <2>2. ASSUME NEW e \in Senders, sender'[e].pc = "answered"
          PROVE  /\ sender'[e].out = "sent" =>
                      IF sender'[e].via = Fanout
                        THEN \A r \in Recipients : child'[sender'[e].key][r] = "done"
                        ELSE taken'[sender'[e].key] = 1
                 /\ sender'[e].out = "failed" /\ Direct(e)' => taken'[sender'[e].key] = 0
      <3>1. sender'[e] = sender[e] /\ At(e, "answered") BY <1>3, <2>2 DEF At
      <3>2. QED BY <1>2, <3>1 DEF ReceiptInv, ReceiptsAreTrue, Direct
    <2>3. QED BY <2>1, <2>2 DEF ReceiptsAreTrue, At
  <1>8. OneTarget'
    <2>1. ASSUME NEW k \in Kinds PROVE tried'[k] \subseteq {rcpt'[k].route}
      <3>1. CASE k # cur BY <1>2, <1>3, <3>1 DEF ReceiptInv, OneTarget
      <3>2. CASE k = cur
        <4>1. tried[cur] \subseteq {rcpt[cur].route} BY <1>3 DEF ReceiptInv, OneTarget
        <4>2. None \notin tried[cur] BY <1>1, <1>3, ReceiptAssumption DEF TypeOK
        <4>3. QED BY <1>2, <1>3, <3>2, <4>1, <4>2, BeginRight
      <3>3. QED BY <3>1, <3>2
    <2>2. QED BY <2>1 DEF OneTarget
  <1>9. InHand'
    <2>1. ASSUME NEW e \in Senders
          PROVE  /\ sender'[e].pc # "idle" => sender'[e].key \in Kinds /\ sender'[e].via # None
                 /\ sender'[e].pc \in {"sending", "trying", "answered"}
                      => rcpt'[sender'[e].key].route = sender'[e].via
                 /\ sender'[e].pc = "trying" \/ sender'[e].todo # {} => sender'[e].via = Fanout
                 /\ sender'[e].pc = "sending" /\ sender'[e].via # Fanout
                      => taken'[sender'[e].key] = 0
      <3>1. CASE e = s BY <1>2, <1>3, <1>5, <3>1, BeginRight
      <3>2. CASE e # s
        <4>1. sender'[e] = sender[e] BY <1>3, <3>2
        <4>2. sender[e].pc \in {"sending", "trying", "answered"} /\ sender[e].key = cur
                => sender[e].via = sender[s].via
          <5>1. ASSUME sender[e].pc \in {"sending", "trying", "answered"}, sender[e].key = cur
                PROVE  rcpt[cur].route = sender[e].via /\ sender[e].via # None
            BY <5>1 DEF ReceiptInv, InHand, At
          <5>2. QED BY <5>1, BeginRight
        <4>3. QED BY <1>2, <1>3, <4>1, <4>2 DEF ReceiptInv, InHand, At
      <3>3. QED BY <3>1, <3>2
    <2>2. QED BY <2>1 DEF InHand, At
  <1>10. OneAsksEach' BY <1>2, <1>3 DEF ReceiptInv, OneAsksEach, At
  <1>11. FanoutsUntaken' BY <1>2, <1>3, <1>5 DEF ReceiptInv, FanoutsUntaken
  <1>12. QED BY <1>6, <1>7, <1>8, <1>9, <1>10, <1>11 DEF Rest

(* The parts of the invariant, said of one kind and of one sender.          *)

KindTrue(k) ==
    /\ rcpt[k].status \in {"absent", "pending", "failed"} => taken[k] = 0
    /\ rcpt[k].status = "sent" =>
         IF rcpt[k].route = Fanout THEN \A r \in Recipients : child[k][r] = "done"
                                   ELSE taken[k] = 1

AnswerTrue(e) ==
    sender[e].pc = "answered" =>
      /\ sender[e].out = "sent" =>
           IF sender[e].via = Fanout THEN \A r \in Recipients : child[sender[e].key][r] = "done"
                                     ELSE taken[sender[e].key] = 1
      /\ sender[e].out = "failed" /\ sender[e].via # Fanout => taken[sender[e].key] = 0

Kept(e) ==
    Direct(e) => /\ rcpt[sender[e].key].status = "started" /\ rcpt[sender[e].key].by = e
                 /\ rcpt[sender[e].key].route = sender[e].via

Hand(e) ==
    /\ sender[e].pc # "idle" => sender[e].key \in Kinds /\ sender[e].via # None
    /\ sender[e].pc \in {"sending", "trying", "answered"}
         => rcpt[sender[e].key].route = sender[e].via
    /\ sender[e].pc = "trying" \/ sender[e].todo # {} => sender[e].via = Fanout
    /\ sender[e].pc = "sending" /\ sender[e].via # Fanout => taken[sender[e].key] = 0

Asks(e) ==
    /\ sender[e].pc = "trying" =>
         sender[e].to \in Recipients /\ child[sender[e].key][sender[e].to] = "out"
    /\ \A f \in Senders : sender[e].pc = "trying" /\ sender[f].pc = "trying" /\ e # f =>
         sender[e].key # sender[f].key \/ sender[e].to # sender[f].to

LEMMA Parts ==
    /\ AttemptsAreKept <=> \A e \in Senders : Kept(e)
    /\ ReceiptsAreTrue <=> (\A k \in Kinds : KindTrue(k)) /\ (\A e \in Senders : AnswerTrue(e))
    /\ InHand <=> \A e \in Senders : Hand(e)
    /\ OneAsksEach <=> \A e \in Senders : Asks(e)
  <1>1. AttemptsAreKept <=> \A e \in Senders : Kept(e) BY DEF AttemptsAreKept, Kept
  <1>2. \A e \in Senders : sender[e].pc = "answered" => (Direct(e) <=> sender[e].via # Fanout)
    BY DEF Direct
  <1>3. ReceiptsAreTrue <=> (\A k \in Kinds : KindTrue(k)) /\ (\A e \in Senders : AnswerTrue(e))
    BY <1>2 DEF ReceiptsAreTrue, KindTrue, AnswerTrue, At
  <1>4. InHand <=> \A e \in Senders : Hand(e) BY DEF InHand, Hand, At
  <1>5. OneAsksEach <=> \A e \in Senders : Asks(e) BY DEF OneAsksEach, Asks, At
  <1>6. QED BY <1>1, <1>3, <1>4, <1>5

LEMMA PartsNext ==
    ASSUME \A e \in Senders : Kept(e)' /\ AnswerTrue(e)' /\ Hand(e)' /\ Asks(e)',
           \A k \in Kinds : KindTrue(k)',
           OneTarget', FanoutsUntaken'
    PROVE  Rest'
  <1>1. (/\ AttemptsAreKept <=> \A e \in Senders : Kept(e)
         /\ ReceiptsAreTrue <=> (\A k \in Kinds : KindTrue(k)) /\ (\A e \in Senders : AnswerTrue(e))
         /\ InHand <=> \A e \in Senders : Hand(e)
         /\ OneAsksEach <=> \A e \in Senders : Asks(e))'
    BY Parts, PTL
  <1>2. QED BY <1>1 DEF Rest

LEMMA PartsNow ==
    ASSUME ReceiptInv
    PROVE  /\ TypeOK /\ KeyInHand /\ OneTarget /\ FanoutsUntaken
           /\ \A e \in Senders : Kept(e) /\ AnswerTrue(e) /\ Hand(e) /\ Asks(e)
           /\ \A k \in Kinds : KindTrue(k)
  BY Parts DEF ReceiptInv, InHand, KeyInHand

LEMMA SendStep == ASSUME ReceiptInv, NEW s \in Senders, Send(s) PROVE Rest'
  <1> DEFINE k0 == sender[s].key
  <1>1. TypeOK /\ KeyInHand BY PartsNow
  <1>2. UNCHANGED <<rcpt, child>> /\ sender[s].pc = "sending" /\ sender[s].via # Fanout
    BY DEF Send, At
  <1>3. Direct(s) /\ k0 \in Kinds /\ rcpt[k0].status = "started" /\ rcpt[k0].route = sender[s].via
        /\ taken[k0] = 0
    BY <1>2, DirectAlone, PartsNow DEF Direct, Hand
  <1>4. \A e \in Senders \ {s} : Direct(e) => sender[e].key # k0 BY <1>3, DirectAlone
  <1>5. /\ OthersStay(s) /\ SameHand(s)
        /\ sender'[s].pc = "answered" /\ sender'[s].todo = sender[s].todo
        /\ \A k \in Kinds \ {k0} : taken'[k] = taken[k]
        /\ sender'[s].out = "sent" => taken'[k0] = 1
        /\ sender'[s].out = "failed" => taken'[k0] = 0
        /\ \A k \in Kinds \ {k0} : tried'[k] = tried[k]
        /\ tried'[k0] = tried[k0] \cup {sender[s].via}
    BY <1>1, <1>3, SendFacts
  <1>6. ASSUME NEW k \in Kinds PROVE KindTrue(k)'
    BY <1>2, <1>3, <1>5, PartsNow DEF KindTrue
  <1>7. Kept(s)' /\ AnswerTrue(s)' /\ Hand(s)' /\ Asks(s)'
    <2>1. Kept(s) /\ Hand(s) BY PartsNow
    <2>2. QED BY <1>2, <1>3, <1>5, <2>1 DEF Kept, Direct, AnswerTrue, Hand, Asks, SameHand
  <1>8. ASSUME NEW e \in Senders \ {s} PROVE Kept(e)' /\ AnswerTrue(e)' /\ Hand(e)' /\ Asks(e)'
    <2>1. Kept(e) /\ AnswerTrue(e) /\ Hand(e) /\ Asks(e) BY PartsNow
    <2>2. sender'[e] = sender[e] BY <1>5 DEF OthersStay
    <2>3. Kept(e)' BY <1>2, <2>1, <2>2 DEF Kept, Direct
    <2>4. Direct(e) => taken'[sender[e].key] = taken[sender[e].key]
      BY <1>4, <1>5, <2>1 DEF Hand, Direct
    <2>5. AnswerTrue(e)' BY <1>2, <2>1, <2>2, <2>4 DEF AnswerTrue, Direct
    <2>6. Hand(e)' BY <1>2, <2>1, <2>2, <2>4 DEF Hand, Direct
    <2>7. Asks(e)' BY <1>2, <1>5, <2>1, <2>2 DEF Asks, OthersStay
    <2>8. QED BY <2>3, <2>5, <2>6, <2>7
  <1>9. OneTarget' BY <1>2, <1>3, <1>5, PartsNow DEF OneTarget
  <1>10. FanoutsUntaken' BY <1>2, <1>3, <1>5, PartsNow DEF FanoutsUntaken
  <1>11. QED BY <1>6, <1>7, <1>8, <1>9, <1>10, PartsNext

\* A step of a fan-out: only s moves, and of the children only those of its
\* receipt, none of which was done and changed, or was being asked by another.
LEMMA FanoutStep ==
    ASSUME ReceiptInv, NEW s \in Senders,
           sender[s].pc \in {"sending", "trying"}, sender[s].via = Fanout,
           UNCHANGED <<rcpt, taken>>, OthersStay(s), SameHand(s),
           sender'[s].pc \in {"sending", "trying", "answered"},
           \A k \in Kinds, r \in Recipients : child[k][r] = "done" => child'[k][r] = "done",
           AnswerTrue(s)', Asks(s)',
           \A e \in Senders \ {s} : Asks(e)',
           OneTarget'
    PROVE  Rest'
  <1>1. sender[s].key \in Kinds /\ rcpt[sender[s].key].route = Fanout /\ Fanout # None
    BY PartsNow, ReceiptAssumption DEF Hand
  <1>2. ASSUME NEW k \in Kinds PROVE KindTrue(k)' BY PartsNow DEF KindTrue
  <1>3. Kept(s)' /\ Hand(s)' BY <1>1 DEF Kept, Direct, Hand, SameHand
  <1>4. ASSUME NEW e \in Senders \ {s} PROVE Kept(e)' /\ AnswerTrue(e)' /\ Hand(e)'
    <2>1. Kept(e) /\ AnswerTrue(e) /\ Hand(e) BY PartsNow
    <2>2. sender'[e] = sender[e] BY DEF OthersStay
    <2>3. Kept(e)' BY <2>1, <2>2 DEF Kept, Direct
    <2>4. AnswerTrue(e)' BY <2>1, <2>2 DEF AnswerTrue, Hand
    <2>5. Hand(e)' BY <2>1, <2>2 DEF Hand
    <2>6. QED BY <2>3, <2>4, <2>5
  <1>5. FanoutsUntaken' BY PartsNow DEF FanoutsUntaken
  <1>6. QED BY <1>2, <1>3, <1>4, <1>5, PartsNext

LEMMA PassStep == ASSUME ReceiptInv, NEW s \in Senders, NEW r \in Recipients, Pass(s, r) PROVE Rest'
  <1>1. UNCHANGED <<rcpt, child, taken, tried>> /\ sender[s].pc = "sending" /\ sender[s].todo # {}
    BY DEF Pass, At, ghosts
  <1>2. OthersStay(s) /\ SameHand(s) /\ sender'[s].pc = "sending" BY PassFacts, PartsNow
  <1>3. sender[s].via = Fanout BY <1>1, PartsNow DEF Hand
  <1>4. AnswerTrue(s)' /\ Asks(s)' BY <1>2 DEF AnswerTrue, Asks
  <1>5. ASSUME NEW e \in Senders \ {s} PROVE Asks(e)'
    BY <1>1, <1>2, PartsNow DEF Asks, OthersStay
  <1>6. OneTarget' BY <1>1, PartsNow DEF OneTarget
  <1>7. QED BY <1>1, <1>2, <1>3, <1>4, <1>5, <1>6, FanoutStep

LEMMA TryStep == ASSUME ReceiptInv, NEW s \in Senders, NEW r \in Recipients, Try(s, r) PROVE Rest'
  <1> DEFINE k0 == sender[s].key
  <1>1. UNCHANGED <<rcpt, taken>> /\ sender[s].pc = "sending" /\ sender[s].todo # {}
        /\ child[k0][r] = "due"
    BY DEF Try, At
  <1>2. /\ OthersStay(s) /\ SameHand(s) /\ sender'[s].pc = "trying" /\ sender'[s].to = r
        /\ \A k \in Kinds, q \in Recipients :
             child'[k][q] = IF k = k0 /\ q = r THEN "out" ELSE child[k][q]
        /\ \A k \in Kinds \ {k0} : tried'[k] = tried[k]
        /\ tried'[k0] = tried[k0] \cup {Fanout}
    BY TryFacts, PartsNow
  <1>3. sender[s].via = Fanout /\ k0 \in Kinds /\ rcpt[k0].route = Fanout
    BY <1>1, PartsNow DEF Hand
  <1>4. ASSUME NEW e \in Senders \ {s}, sender'[e].pc = "trying"
        PROVE  /\ sender'[e] = sender[e] /\ sender[e].key \in Kinds /\ sender[e].to \in Recipients
               /\ child[sender[e].key][sender[e].to] = "out"
               /\ sender[e].key # k0 \/ sender[e].to # r
    <2>1. sender'[e] = sender[e] BY <1>2 DEF OthersStay
    <2>2. Asks(e) /\ Hand(e) BY PartsNow
    <2>3. QED BY <1>1, <1>4, <2>1, <2>2 DEF Asks, Hand
  <1>5. Asks(s)'
    BY <1>2, <1>3, <1>4 DEF Asks, SameHand
  <1>6. ASSUME NEW e \in Senders \ {s} PROVE Asks(e)'
    <2>1. ASSUME sender'[e].pc = "trying"
          PROVE  sender'[e].to \in Recipients /\ child'[sender'[e].key][sender'[e].to] = "out"
      BY <1>2, <1>4, <2>1
    <2>2. ASSUME NEW f \in Senders, sender'[e].pc = "trying", sender'[f].pc = "trying", e # f
          PROVE  sender'[e].key # sender'[f].key \/ sender'[e].to # sender'[f].to
      <3>1. CASE f = s BY <1>2, <1>4, <2>2, <3>1 DEF SameHand
      <3>2. CASE f # s BY <1>4, <2>2, <3>2, PartsNow DEF Asks
      <3>3. QED BY <3>1, <3>2
    <2>3. QED BY <2>1, <2>2 DEF Asks
  <1>7. AnswerTrue(s)' BY <1>2 DEF AnswerTrue
  <1>8. OneTarget' BY <1>1, <1>2, <1>3, PartsNow DEF OneTarget
  <1>9. \A k \in Kinds, q \in Recipients : child[k][q] = "done" => child'[k][q] = "done"
    BY <1>1, <1>2
  <1>10. QED BY <1>1, <1>2, <1>3, <1>5, <1>6, <1>7, <1>8, <1>9, FanoutStep

LEMMA ReplyStep == ASSUME ReceiptInv, NEW s \in Senders, Reply(s) PROVE Rest'
  <1> DEFINE k0 == sender[s].key
             r0 == sender[s].to
  <1>1. UNCHANGED <<rcpt, taken, tried>> /\ sender[s].pc = "trying" BY DEF Reply, At, ghosts
  <1>2. r0 \in Recipients /\ child[k0][r0] = "out" /\ k0 \in Kinds /\ sender[s].via = Fanout
    BY <1>1, PartsNow DEF Asks, Hand
  <1>3. /\ OthersStay(s) /\ SameHand(s) /\ sender'[s].pc = "sending"
        /\ \A k \in Kinds, q \in Recipients : k # k0 \/ q # r0 => child'[k][q] = child[k][q]
    BY <1>2, ReplyFacts, PartsNow
  <1>4. AnswerTrue(s)' /\ Asks(s)' BY <1>3 DEF AnswerTrue, Asks
  <1>5. ASSUME NEW e \in Senders \ {s} PROVE Asks(e)'
    <2>1. sender'[e] = sender[e] BY <1>3 DEF OthersStay
    <2>2. Asks(e) /\ Hand(e) BY PartsNow
    <2>3. sender'[e].pc = "trying" => sender[e].key \in Kinds /\ sender[e].to \in Recipients
                                       /\ (sender[e].key # k0 \/ sender[e].to # r0)
      BY <1>1, <2>1, <2>2 DEF Asks, Hand
    <2>4. sender'[e].pc = "trying" => child'[sender[e].key][sender[e].to] = "out"
      BY <1>3, <2>1, <2>2, <2>3 DEF Asks
    <2>5. QED BY <1>3, <2>1, <2>2, <2>3, <2>4 DEF Asks, OthersStay
  <1>6. OneTarget' BY <1>1, PartsNow DEF OneTarget
  <1>7. \A k \in Kinds, q \in Recipients : child[k][q] = "done" => child'[k][q] = "done"
    BY <1>2, <1>3
  <1>8. QED BY <1>1, <1>2, <1>3, <1>4, <1>5, <1>6, <1>7, FanoutStep

LEMMA SnapshotStep == ASSUME ReceiptInv, NEW s \in Senders, Snapshot(s) PROVE Rest'
  <1>1. UNCHANGED <<rcpt, child, taken, tried>> /\ sender[s].pc = "sending" /\ sender[s].via = Fanout
    BY DEF Snapshot, At, ghosts
  <1>2. /\ OthersStay(s) /\ SameHand(s) /\ sender'[s].pc = "answered"
        /\ sender'[s].out = Summary(child[sender[s].key])
    BY SnapshotFacts, PartsNow
  <1>3. sender'[s].out = "sent" => \A r \in Recipients : child[sender[s].key][r] = "done"
    BY <1>2 DEF Summary
  <1>4. AnswerTrue(s)' /\ Asks(s)' BY <1>1, <1>2, <1>3 DEF AnswerTrue, Asks, SameHand
  <1>5. ASSUME NEW e \in Senders \ {s} PROVE Asks(e)'
    BY <1>1, <1>2, PartsNow DEF Asks, OthersStay
  <1>6. OneTarget' BY <1>1, PartsNow DEF OneTarget
  <1>7. QED BY <1>1, <1>2, <1>4, <1>5, <1>6, FanoutStep

LEMMA QuitFacts ==
    ASSUME TypeOK, NEW s \in Senders, Quit(s)
    PROVE  OthersStay(s) /\ sender'[s].pc = "idle" /\ sender'[s].todo = {}
  BY DEF TypeOK, Quit, OthersStay, Idle

LEMMA FinishStep == ASSUME ReceiptInv, NEW s \in Senders, Finish(s) PROVE Rest'
  <1> DEFINE k0 == sender[s].key
  <1>1. UNCHANGED <<child, taken, tried>> /\ sender[s].pc = "answered" /\ Quit(s)
    BY DEF Finish, At, ghosts
  <1>2. OthersStay(s) /\ sender'[s].pc = "idle" /\ sender'[s].todo = {}
    BY <1>1, QuitFacts, PartsNow
  <1>3. /\ k0 \in Kinds
        /\ \A k \in Kinds \ {k0} : rcpt'[k] = rcpt[k]
        /\ rcpt'[k0].route = rcpt[k0].route
        /\ \/ rcpt[k0].by = s /\ rcpt'[k0].status = sender[s].out
           \/ rcpt[k0].by # s /\ rcpt'[k0] = rcpt[k0]
    BY FinishFacts, PartsNow
  <1>4. rcpt[k0].route = sender[s].via BY <1>1, PartsNow DEF Hand
  <1>5. sender[s].out \in Outs BY PartsNow DEF TypeOK, Sendings
  <1>6. ASSUME NEW k \in Kinds PROVE KindTrue(k)'
    <2>1. KindTrue(k) /\ AnswerTrue(s) /\ (rcpt[k].route = Fanout => taken[k] = 0)
      BY PartsNow DEF FanoutsUntaken
    <2>2. CASE rcpt'[k] = rcpt[k] BY <1>1, <2>1, <2>2 DEF KindTrue
    <2>3. CASE k = k0 /\ rcpt'[k].status = sender[s].out
      BY <1>1, <1>3, <1>4, <1>5, <2>1, <2>3 DEF KindTrue, AnswerTrue, Outs
    <2>4. QED BY <1>3, <2>2, <2>3
  <1>7. Kept(s)' /\ AnswerTrue(s)' /\ Hand(s)' /\ Asks(s)'
    BY <1>2 DEF Kept, Direct, AnswerTrue, Hand, Asks
  <1>8. ASSUME NEW e \in Senders \ {s} PROVE Kept(e)' /\ AnswerTrue(e)' /\ Hand(e)' /\ Asks(e)'
    <2>1. Kept(e) /\ AnswerTrue(e) /\ Hand(e) /\ Asks(e) BY PartsNow
    <2>2. sender'[e] = sender[e] BY <1>2 DEF OthersStay
    <2>3. Kept(e)'
      <3>1. Direct(e) => sender[e].key \in Kinds /\ rcpt[sender[e].key].by = e
        BY <2>1 DEF Kept, Hand, Direct
      <3>2. Direct(e) => rcpt'[sender[e].key] = rcpt[sender[e].key] BY <1>3, <3>1
      <3>3. QED BY <2>1, <2>2, <3>2 DEF Kept, Direct
    <2>4. AnswerTrue(e)' BY <1>1, <2>1, <2>2 DEF AnswerTrue
    <2>5. Hand(e)'
      <3>1. sender[e].pc # "idle" => rcpt'[sender[e].key].route = rcpt[sender[e].key].route
        BY <1>3, <2>1 DEF Hand
      <3>2. QED BY <1>1, <2>1, <2>2, <3>1 DEF Hand
    <2>6. Asks(e)' BY <1>1, <1>2, <2>1, <2>2 DEF Asks, OthersStay
    <2>7. QED BY <2>3, <2>4, <2>5, <2>6
  <1>9. \A k \in Kinds : rcpt'[k].route = rcpt[k].route BY <1>3
  <1>10. OneTarget' /\ FanoutsUntaken'
    BY <1>1, <1>9, PartsNow DEF OneTarget, FanoutsUntaken
  <1>11. QED BY <1>6, <1>7, <1>8, <1>10, PartsNext

-----------------------------------------------------------------------------
(* The invariant.                                                          *)

LEMMA RestStep == ReceiptInv /\ [Next]_vars => Rest'
  <1> SUFFICES ASSUME ReceiptInv, [Next]_vars PROVE Rest'
    OBVIOUS
  <1>1. TypeOK BY PartsNow
  <1>2. ASSUME NEW s \in Senders, NEW k \in Kinds, NEW m \in BOOLEAN, Prepare(k), Ready(s, k, m),
               UNCHANGED <<child, taken, tried>>
        PROVE  Rest'
    <2>1. route # None BY <1>1, ReceiptAssumption DEF TypeOK
    <2>2. \A e \in Senders :
             \/ sender'[e] = sender[e]
             \/ /\ sender'[e].pc \in {"idle", "ready"} /\ sender'[e].todo = {}
                /\ sender'[e].pc = "ready" => sender'[e].key \in Kinds /\ sender'[e].via # None
      BY <1>1, <1>2, <2>1, ReadyType
    <2>3. QED BY <1>1, <1>2, <2>2, PrepareFacts, QuietStep
  <1>3. ASSUME NEW s \in Senders, Quit(s), UNCHANGED <<child, taken, tried>>,
               \A k \in Kinds : /\ rcpt'[k].status = rcpt[k].status
                                /\ rcpt'[k].route = rcpt[k].route /\ rcpt'[k].by = rcpt[k].by
        PROVE  Rest'
    BY <1>1, <1>3, QuitFacts, QuietStep DEF OthersStay
  <1>4. ASSUME UNCHANGED <<child, sender, taken, tried>>,
               \A k \in Kinds : /\ rcpt'[k].status = rcpt[k].status
                                /\ rcpt'[k].route = rcpt[k].route /\ rcpt'[k].by = rcpt[k].by
        PROVE  Rest'
    BY <1>4, QuietStep
  <1>5. ASSUME NEW s \in Senders, TakeClaim(s) PROVE Rest'
    BY <1>4, <1>5 DEF TakeClaim, ghosts
  <1>6. ASSUME NEW s \in Senders, Announce(s) PROVE Rest'
    BY <1>2, <1>6 DEF Announce, ghosts
  <1>7. ASSUME NEW s \in Senders, RecoverDue(s) PROVE Rest'
    <2>1. cur \in Kinds BY <1>1, <1>7 DEF RecoverDue, TypeOK
    <2>2. QED BY <1>2, <1>7, <2>1 DEF RecoverDue, ghosts
  <1>8. ASSUME NEW s \in Senders, RecoverRead(s) PROVE Rest'
    BY <1>2, <1>8 DEF RecoverRead, ghosts
  <1>9. ASSUME NEW s \in Senders, Refused(s) \/ Crash(s) PROVE Rest'
    BY <1>3, <1>9 DEF Refused, Crash, ghosts
  <1>10. ASSUME NEW s \in Senders, Stopped(s) PROVE Rest'
    <2> DEFINE v == IF Moved(rcpt[cur], sender[s].via) THEN "moved" ELSE "exhausted"
    <2>1. rcpt' = [rcpt EXCEPT ![cur] = [rcpt[cur] EXCEPT !.stop = v]] BY <1>10 DEF Stopped
    <2> HIDE DEF v
    <2>2. ASSUME NEW k \in Kinds
          PROVE  /\ rcpt'[k].status = rcpt[k].status
                 /\ rcpt'[k].route = rcpt[k].route /\ rcpt'[k].by = rcpt[k].by
      <3>1. rcpt[k] \in Receipts /\ rcpt \in [Kinds -> Receipts] BY <1>1 DEF TypeOK
      <3>2. QED BY <2>1, <3>1 DEF Receipts
    <2>3. QED BY <1>3, <1>10, <2>2 DEF Stopped, ghosts
  <1>11. ASSUME Tick PROVE Rest'
    <2>1. ASSUME NEW k \in Kinds
          PROVE  /\ rcpt'[k].status = rcpt[k].status
                 /\ rcpt'[k].route = rcpt[k].route /\ rcpt'[k].by = rcpt[k].by
      <3>1. rcpt[k] \in Receipts BY <1>1 DEF TypeOK
      <3>2. QED BY <1>11, <3>1 DEF Tick, Receipts
    <2>2. QED BY <1>4, <1>11, <2>1 DEF Tick, ghosts
  <1>12. CASE Release \/ Expire \/ Hold \/ Reconfigure
    BY <1>4, <1>12 DEF Release, Expire, Hold, Reconfigure, ghosts
  <1>13. CASE UNCHANGED vars BY <1>4, <1>13 DEF vars, ghosts
  <1>14. QED
    BY <1>5, <1>6, <1>7, <1>8, <1>9, <1>10, <1>11, <1>12, <1>13, BeginStep, SendStep, ReplyStep,
       SnapshotStep, FinishStep, PassStep, TryStep DEF Next, Deliver

LEMMA InvInit == Init => ReceiptInv
  <1> SUFFICES ASSUME Init PROVE ReceiptInv
    OBVIOUS
  <1> USE ReceiptAssumption DEF Init
  <1>1. TypeOK
    <2>1. Absent \in Receipts BY DEF Absent, Receipts
    <2>2. rcpt \in [Kinds -> Receipts] BY <2>1
    <2>3. sender \in [Senders -> Sendings] BY IdleType
    <2>4. child \in [Kinds -> [Recipients -> ChildPhases]] BY DEF ChildPhases
    <2>5. taken \in [Kinds -> Nat] /\ tried \in [Kinds -> SUBSET (Targets \cup {Fanout})] OBVIOUS
    <2>6. QED BY <2>2, <2>3, <2>4, <2>5 DEF TypeOK
  <1>2. \A e \in Senders : sender[e].pc = "idle" /\ sender[e].todo = {} BY DEF Idle
  <1>3. \A k \in Kinds : rcpt[k].status = "absent" /\ rcpt[k].route = None BY DEF Absent
  <1>4. AttemptsAreKept /\ InHand /\ OneAsksEach
    BY <1>2 DEF AttemptsAreKept, Direct, InHand, OneAsksEach, At
  <1>5. ReceiptsAreTrue BY <1>2, <1>3 DEF ReceiptsAreTrue, At
  <1>6. OneTarget /\ FanoutsUntaken BY <1>3 DEF OneTarget, FanoutsUntaken
  <1>7. QED BY <1>1, <1>4, <1>5, <1>6 DEF ReceiptInv

\* ReceiptInv is inductive: for any number of senders, kinds, targets and
\* recipients, attempts find their results, statuses are true and a receipt has
\* one target (begin_ and finish_trade_receipt_attempt, _prepare_trade_receipt_result).
THEOREM ReceiptsAreSound == Spec => []ReceiptInv
  <1>1. ReceiptInv /\ [Next]_vars => ReceiptInv'
    BY TypeStep, RestStep DEF ReceiptInv, Rest
  <1>2. QED BY InvInit, <1>1, PTL DEF Spec

\* What a receipt tells of its delivery is what happened to it, for any number
\* of senders that crash, time out or overtake each other: "sent" arrived, and
\* what may be sent again did not (finish_trade_receipt_attempt).
THEOREM ReceiptsTellTheTruth == Spec => []ReceiptsAreTrue
  <1>1. ReceiptInv => ReceiptsAreTrue BY DEF ReceiptInv
  <1>2. QED BY <1>1, ReceiptsAreSound, PTL

\* A frozen message is handed only to the route its receipt froze first,
\* whatever is configured when it is retried (begin_trade_receipt_attempt).
THEOREM ReceiptsKeepTheirTarget == Spec => []OneTarget
  <1>1. ReceiptInv => OneTarget BY DEF ReceiptInv
  <1>2. QED BY <1>1, ReceiptsAreSound, PTL

-----------------------------------------------------------------------------
(* The refinement: under the phase of each receipt, every step is a step   *)
(* of OneShotDelivery or changes nothing it speaks of.                     *)

PhaseOf(r) ==
    IF r.route = Fanout \/ r.status \in {"absent", "pending", "failed"} THEN "due"
    ELSE IF r.status = "sent" THEN "done" ELSE "out"

LEMMA PhaseFacts ==
    /\ \A k \in Kinds : Phase[k] = PhaseOf(rcpt[k])
    /\ \A k \in Kinds : Phase'[k] = PhaseOf(rcpt'[k])
    /\ Phase = [k \in Kinds |-> PhaseOf(rcpt[k])]
    /\ Phase' = [k \in Kinds |-> PhaseOf(rcpt'[k])]
  BY DEF Phase, PhaseOf

\* Receipts that map alike look alike.
LEMMA SamePhase ==
    ASSUME \A k \in Kinds : PhaseOf(rcpt'[k]) = PhaseOf(rcpt[k])
    PROVE  Phase' = Phase
  BY PhaseFacts

\* Keeping status and route keeps the phase, and so does a first preparation.
LEMMA KeptPhase ==
    ASSUME \A k \in Kinds :
             /\ \/ rcpt'[k].status = rcpt[k].status
                \/ rcpt[k].status = "absent" /\ rcpt'[k].status = "pending"
             /\ rcpt'[k].route = rcpt[k].route
    PROVE  Phase' = Phase
  BY SamePhase DEF PhaseOf

\* A step that gives one receipt a new phase.
LEMMA NewPhase ==
    ASSUME NEW k \in Kinds, \A q \in Kinds \ {k} : rcpt'[q] = rcpt[q]
    PROVE  Phase' = [Phase EXCEPT ![k] = PhaseOf(rcpt'[k])]
  <1> DEFINE p == PhaseOf(rcpt'[k])
  <1>1. \A q \in Kinds : Phase'[q] = (IF q = k THEN p ELSE Phase[q]) BY PhaseFacts
  <1>2. Phase' = [q \in Kinds |-> Phase'[q]] BY DEF Phase
  <1>3. Phase = [q \in Kinds |-> Phase[q]] BY DEF Phase
  <1>4. [Phase EXCEPT ![k] = p] = [q \in Kinds |-> IF q = k THEN p ELSE Phase[q]]
    <2> HIDE DEF p
    <2>1. QED BY <1>3
  <1>5. QED BY <1>1, <1>2, <1>4

Abstractly == OneShot!Next \/ (Phase' = Phase /\ taken' = taken)

LEMMA OneShotBegin == ASSUME ReceiptInv, NEW s \in Senders, Begin(s) PROVE Abstractly
  <1>1. taken' = taken BY DEF Begin, ghosts
  <1>2. /\ cur \in Kinds
        /\ rcpt'[cur].status = "started" /\ rcpt'[cur].route = sender[s].via
        /\ \A q \in Kinds \ {cur} : rcpt'[q] = rcpt[q]
    BY BeginType, PartsNow
  <1>3. PhaseOf(rcpt[cur]) = "due" BY BeginRight DEF PhaseOf
  <1>4. CASE sender[s].via = Fanout
    <2>1. PhaseOf(rcpt'[cur]) = "due" BY <1>2, <1>4 DEF PhaseOf
    <2>2. \A q \in Kinds : PhaseOf(rcpt'[q]) = PhaseOf(rcpt[q]) BY <1>2, <1>3, <2>1
    <2>3. QED BY <1>1, <2>2, SamePhase DEF Abstractly
  <1>5. CASE sender[s].via # Fanout
    <2>1. PhaseOf(rcpt'[cur]) = "out" BY <1>2, <1>5 DEF PhaseOf
    <2>2. Phase' = [Phase EXCEPT ![cur] = "out"] BY <1>2, <2>1, NewPhase
    <2>3. Phase[cur] = "due" BY <1>2, <1>3, PhaseFacts
    <2>4. OneShot!Attempt(cur) BY <1>1, <2>2, <2>3 DEF OneShot!Attempt
    <2>5. QED BY <1>2, <2>4 DEF OneShot!Next, Abstractly
  <1>6. QED BY <1>4, <1>5

LEMMA OneShotSend == ASSUME ReceiptInv, NEW s \in Senders, Send(s) PROVE Abstractly
  <1> DEFINE k == sender[s].key
  <1>1. rcpt' = rcpt /\ sender[s].pc = "sending" /\ sender[s].via # Fanout
    BY DEF Send, At
  <1>2. k \in Kinds /\ rcpt[k].status = "started" /\ rcpt[k].route # Fanout /\ taken[k] = 0
    BY <1>1, DirectAlone, PartsNow DEF Direct, Hand
  <1>3. Phase[k] = "out" BY <1>2, PhaseFacts DEF PhaseOf
  <1>4. Phase' = Phase BY <1>1, SamePhase
  <1>5. PICK took \in BOOLEAN : taken' = IF took THEN [taken EXCEPT ![k] = @ + 1] ELSE taken
    BY DEF Send
  <1>6. CASE took
    <2>1. taken' = [taken EXCEPT ![k] = 1] BY <1>2, <1>5, <1>6
    <2>2. OneShot!Take(k) BY <1>2, <1>3, <1>4, <2>1 DEF OneShot!Take
    <2>3. QED BY <1>2, <2>2 DEF OneShot!Next, Abstractly
  <1>7. CASE ~took BY <1>4, <1>5, <1>7 DEF Abstractly
  <1>8. QED BY <1>6, <1>7

LEMMA OneShotFinish == ASSUME ReceiptInv, NEW s \in Senders, Finish(s) PROVE Abstractly
  <1> DEFINE k == sender[s].key
             out == sender[s].out
  <1>1. taken' = taken /\ sender[s].pc = "answered" BY DEF Finish, At, ghosts
  <1>2. /\ k \in Kinds
        /\ \A q \in Kinds \ {k} : rcpt'[q] = rcpt[q]
        /\ rcpt'[k].route = rcpt[k].route
        /\ \/ rcpt[k].by = s /\ rcpt'[k].status = out
           \/ rcpt[k].by # s /\ rcpt'[k] = rcpt[k]
    BY FinishFacts, PartsNow
  <1>3. rcpt[k].route = sender[s].via /\ AnswerTrue(s) BY <1>1, PartsNow DEF Hand
  <1>4. CASE sender[s].via = Fanout \/ rcpt[k].by # s
    <2>1. PhaseOf(rcpt'[k]) = PhaseOf(rcpt[k]) BY <1>2, <1>3, <1>4 DEF PhaseOf
    <2>2. \A q \in Kinds : PhaseOf(rcpt'[q]) = PhaseOf(rcpt[q]) BY <1>2, <2>1
    <2>3. QED BY <1>1, <2>2, SamePhase DEF Abstractly
  <1>5. CASE sender[s].via # Fanout /\ rcpt[k].by = s
    <2>1. rcpt[k].status = "started" /\ rcpt[k].route # Fanout
      BY <1>1, <1>5, DirectAlone DEF Direct
    <2>2. Phase[k] = "out" BY <1>2, <2>1, PhaseFacts DEF PhaseOf
    <2>3. Phase' = [Phase EXCEPT ![k] = PhaseOf(rcpt'[k])] BY <1>2, NewPhase
    <2>4. out \in Outs BY PartsNow DEF TypeOK, Sendings
    <2>5. rcpt'[k].status = out /\ rcpt'[k].route # Fanout BY <1>2, <1>5, <2>1
    <2>6. CASE out = "sent"
      <3>1. taken[k] = 1 BY <1>1, <1>3, <1>5, <2>6 DEF AnswerTrue
      <3>2. PhaseOf(rcpt'[k]) = "done" BY <2>5, <2>6 DEF PhaseOf
      <3>3. OneShot!Confirm(k) BY <1>1, <2>2, <2>3, <3>1, <3>2 DEF OneShot!Confirm
      <3>4. QED BY <1>2, <3>3 DEF OneShot!Next, Abstractly
    <2>7. CASE out = "failed"
      <3>1. taken[k] = 0 BY <1>1, <1>3, <1>5, <2>7 DEF AnswerTrue
      <3>2. PhaseOf(rcpt'[k]) = "due" BY <2>5, <2>7 DEF PhaseOf
      <3>3. OneShot!Refuse(k) BY <1>1, <2>2, <2>3, <3>1, <3>2 DEF OneShot!Refuse
      <3>4. QED BY <1>2, <3>3 DEF OneShot!Next, Abstractly
    <2>8. CASE out = "unknown"
      <3>1. PhaseOf(rcpt'[k]) = PhaseOf(rcpt[k]) BY <2>1, <2>5, <2>8 DEF PhaseOf
      <3>2. \A q \in Kinds : PhaseOf(rcpt'[q]) = PhaseOf(rcpt[q]) BY <1>2, <3>1
      <3>3. QED BY <1>1, <3>2, SamePhase DEF Abstractly
    <2>9. QED BY <2>4, <2>6, <2>7, <2>8 DEF Outs
  <1>6. QED BY <1>4, <1>5

LEMMA OneShotStep == ReceiptInv /\ [Next]_vars => Abstractly
  <1> SUFFICES ASSUME ReceiptInv, [Next]_vars PROVE Abstractly
    OBVIOUS
  <1>1. TypeOK BY PartsNow
  <1>2. ASSUME rcpt' = rcpt, taken' = taken PROVE Abstractly
    BY <1>2, SamePhase DEF Abstractly
  <1>3. ASSUME NEW k \in Kinds, Prepare(k), taken' = taken PROVE Abstractly
    BY <1>1, <1>3, PrepareFacts, KeptPhase DEF Abstractly
  <1>4. ASSUME NEW s \in Senders, TakeClaim(s) \/ Refused(s) \/ Crash(s) \/ Snapshot(s) \/ Reply(s)
        PROVE  Abstractly
    BY <1>2, <1>4 DEF TakeClaim, Refused, Crash, Snapshot, Reply, ghosts
  <1>5. ASSUME NEW s \in Senders, NEW r \in Recipients, Pass(s, r) \/ Try(s, r) PROVE Abstractly
    BY <1>2, <1>5 DEF Pass, Try, ghosts
  <1>6. ASSUME NEW s \in Senders, Announce(s) \/ RecoverDue(s) \/ RecoverRead(s) PROVE Abstractly
    <2>1. PICK q \in Kinds : Prepare(q)
      BY <1>1, <1>6 DEF Announce, RecoverDue, RecoverRead, TypeOK
    <2>3. QED BY <1>3, <1>6, <2>1 DEF Announce, RecoverDue, RecoverRead, ghosts
  <1>7. ASSUME NEW s \in Senders, Stopped(s) PROVE Abstractly
    <2> DEFINE v == IF Moved(rcpt[cur], sender[s].via) THEN "moved" ELSE "exhausted"
    <2>1. rcpt' = [rcpt EXCEPT ![cur] = [rcpt[cur] EXCEPT !.stop = v]] BY <1>7 DEF Stopped
    <2> HIDE DEF v
    <2>2. ASSUME NEW k \in Kinds
          PROVE  rcpt'[k].status = rcpt[k].status /\ rcpt'[k].route = rcpt[k].route
      <3>1. rcpt[k] \in Receipts /\ rcpt \in [Kinds -> Receipts] BY <1>1 DEF TypeOK
      <3>2. QED BY <2>1, <3>1 DEF Receipts
    <2>3. QED BY <1>7, <2>2, KeptPhase DEF Stopped, ghosts, Abstractly
  <1>8. CASE Tick
    <2>1. ASSUME NEW k \in Kinds
          PROVE  rcpt'[k].status = rcpt[k].status /\ rcpt'[k].route = rcpt[k].route
      <3>1. rcpt[k] \in Receipts BY <1>1 DEF TypeOK
      <3>2. QED BY <1>8, <3>1 DEF Tick, Receipts
    <2>2. QED BY <1>8, <2>1, KeptPhase DEF Tick, ghosts, Abstractly
  <1>9. CASE Release \/ Expire \/ Hold \/ Reconfigure
    BY <1>2, <1>9 DEF Release, Expire, Hold, Reconfigure, ghosts
  <1>10. CASE UNCHANGED vars BY <1>2, <1>10 DEF vars, ghosts
  <1>11. QED
    BY <1>4, <1>5, <1>6, <1>7, <1>8, <1>9, <1>10, OneShotBegin, OneShotSend, OneShotFinish
    DEF Next, Deliver

\* Every behaviour of a row's receipts implements OneShotDelivery for those
\* sent straight to a target: superseded and revisited kinds, takeovers and
\* crashes included, a target takes a receipt at most once
\* (begin_ and finish_trade_receipt_attempt).
THEOREM ReceiptSendsOnce == Spec => SendsOnce
  <1>1. Init => OneShot!Init
    <2> SUFFICES ASSUME Init PROVE OneShot!Init
      OBVIOUS
    <2>1. \A k \in Kinds : PhaseOf(rcpt[k]) = "due" BY DEF Init, Absent, PhaseOf
    <2>2. Phase = [k \in Kinds |-> "due"] BY <2>1, PhaseFacts
    <2>3. QED BY <2>2 DEF Init, OneShot!Init
  <1>2. ReceiptInv /\ [Next]_vars => [OneShot!Next]_(OneShot!absVars)
    BY OneShotStep DEF OneShot!absVars, Abstractly
  <1>3. QED BY <1>1, <1>2, ReceiptsAreSound, PTL DEF Spec, SendsOnce, OneShot!Spec
=============================================================================
