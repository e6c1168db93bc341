---------------------- MODULE NotificationFanoutProofs ----------------------
(***************************************************************************)
(* Proofs about NotificationFanout for any number of recipients and        *)
(* dispatchers, any attempt limit and any lease: its inductive invariant,  *)
(* the frozen plan, and that every child is delivered at most once in the  *)
(* sense of OneShotDelivery.                                               *)
(***************************************************************************)
EXTENDS NotificationFanout, TLAPS

(* Updates keep the records well formed.                                   *)

LEMMA DispUpdates ==
    ASSUME NEW x \in Disps
    PROVE  /\ \A v \in PCs : [x EXCEPT !.pc = v] \in Disps
           /\ \A v \in SUBSET Recipients : [x EXCEPT !.specs = v] \in Disps
           /\ \A v \in SUBSET Recipients : [x EXCEPT !.todo = v] \in Disps
           /\ \A v \in Recipients : [x EXCEPT !.cur = v] \in Disps
           /\ \A v \in BOOLEAN : [x EXCEPT !.allowed = v] \in Disps
           /\ \A v \in 0..MaxAttempts : [x EXCEPT !.att = v] \in Disps
           /\ \A v \in Outcomes : [x EXCEPT !.out = v] \in Disps
  BY DEF Disps

LEMMA ChildUpdates ==
    ASSUME NEW c \in Children
    PROVE  /\ \A v \in ChildStatuses : [c EXCEPT !.status = v] \in Children
           /\ \A v \in 0..Lease : [c EXCEPT !.lease = v] \in Children
           /\ \A v \in 0..1 : [c EXCEPT !.wait = v] \in Children
  BY DEF Children

LEMMA IdleType == Idle \in Disps
  BY FanoutAssumption DEF Idle, Disps, PCs, Outcomes

LEMMA OnwardType ==
    ASSUME TypeOK, NEW d \in Dispatchers, Onward(d)
    PROVE  disp' \in [Dispatchers -> Disps]
  <1> DEFINE x == [Idle EXCEPT !.pc = "next"]
             y == [x EXCEPT !.todo = disp[d].todo \ {disp[d].cur}]
  <1>1. disp[d].todo \subseteq Recipients BY DEF TypeOK, Disps
  <1>2. "next" \in PCs BY DEF PCs
  <1>3. x \in Disps BY <1>2, IdleType, DispUpdates
  <1>4. y \in Disps
    <2> HIDE DEF x
    <2>1. QED BY <1>1, <1>3, DispUpdates
  <1>5. disp' = [disp EXCEPT ![d] = y] BY DEF Onward
  <1>6. QED BY <1>4, <1>5 DEF TypeOK

LEMMA NewChildType == NewChild \in Children
  BY FanoutAssumption DEF NewChild, Children, ChildStatuses

LEMMA ExpiredType ==
    ASSUME NEW c \in Children
    PROVE  /\ Expired(c) \in Children
           /\ Expired(c).count = c.count
           /\ c.status # "send_started" => Expired(c) = c
           /\ c.status = "send_started" => Expired(c).status \in {"send_started", "unknown"}
  <1> DEFINE u == [c EXCEPT !.status = "unknown"]
             v == [u EXCEPT !.wait = 0]
  <1>1. "unknown" \in ChildStatuses /\ 0 \in 0..1 BY DEF ChildStatuses
  <1>2. u \in Children BY <1>1, ChildUpdates
  <1>3. v \in Children
    <2> HIDE DEF u
    <2>1. QED BY <1>1, <1>2, ChildUpdates
  <1>4. v.count = c.count /\ v.status = "unknown" BY DEF Children
  <1>5. Expired(c) = IF c.status = "send_started" /\ c.lease = 0 THEN v ELSE c
    BY DEF Expired
  <1>6. QED
    <2> HIDE DEF v
    <2>1. QED BY <1>3, <1>4, <1>5

-----------------------------------------------------------------------------
(* The type invariant.                                                     *)

LEMMA TypeStep == TypeOK /\ Aimed /\ [Next]_vars => TypeOK'
  <1> SUFFICES ASSUME TypeOK, Aimed, [Next]_vars PROVE TypeOK'
    OBVIOUS
  <1> USE FanoutAssumption
  <1>1. ASSUME NEW d \in Dispatchers, Start(d) PROVE TypeOK'
    <2>1. disp[d] \in Disps /\ routes \subseteq Recipients BY DEF TypeOK
    <2>2. [disp[d] EXCEPT !.pc = "observe"] \in Disps
          /\ [disp[d] EXCEPT !.pc = "prepare", !.specs = routes] \in Disps
      BY <2>1 DEF Disps, PCs
    <2>3. disp' \in [Dispatchers -> Disps] BY <1>1, <2>2 DEF TypeOK, Start
    <2>4. QED BY <1>1, <2>3 DEF TypeOK, Start
  <1>2. ASSUME NEW d \in Dispatchers, Prepare(d) PROVE TypeOK'
    <2>1. disp[d].specs \subseteq Recipients BY DEF TypeOK, Disps
    <2>2. [Idle EXCEPT !.pc = "observe"] \in Disps
      BY IdleType, DispUpdates DEF PCs
    <2>3. disp' \in [Dispatchers -> Disps]
      BY <1>2, <2>2, IdleType DEF TypeOK, Prepare, Stop
    <2>4. QED BY <1>2, <2>1, <2>3 DEF TypeOK, Prepare
  <1>3. ASSUME NEW d \in Dispatchers, Observe(d) PROVE TypeOK'
    <2> DEFINE T == {r \in plan : child[r].status
                                    \in {"pending", "explicit_failed", "send_started"}}
    <2>1. disp[d] \in Disps /\ T \subseteq Recipients BY DEF TypeOK
    <2>2. [disp[d] EXCEPT !.pc = "next", !.todo = T] \in Disps BY <2>1 DEF Disps, PCs
    <2>3. disp' \in [Dispatchers -> Disps] BY <1>3, <2>2 DEF TypeOK, Observe
    <2>4. QED BY <1>3, <2>3 DEF TypeOK, Observe
  <1>4. ASSUME NEW d \in Dispatchers, Check(d) PROVE TypeOK'
    <2>1. PICK r \in disp[d].todo :
            disp' = [disp EXCEPT ![d].pc = "checked", ![d].cur = r, ![d].allowed = (r \in routes)]
      BY <1>4 DEF Check
    <2>2. disp[d] \in Disps /\ r \in Recipients BY DEF TypeOK, Disps
    <2> DEFINE ok == (r \in routes)
               x == [disp[d] EXCEPT !.pc = "checked"]
               y == [x EXCEPT !.cur = r]
               z == [y EXCEPT !.allowed = ok]
    <2>3. z \in Disps
      <3>1. x \in Disps BY <2>2, DispUpdates DEF PCs
      <3>2. y \in Disps
        <4> HIDE DEF x
        <4>1. QED BY <2>2, <3>1, DispUpdates
      <3>3. ok \in BOOLEAN OBVIOUS
      <3>4. QED
        <4> HIDE DEF y, ok
        <4>1. QED BY <3>2, <3>3, DispUpdates
    <2>4. disp' = [disp EXCEPT ![d] = z] BY <2>1
    <2>5. disp' \in [Dispatchers -> Disps]
      <3> HIDE DEF z
      <3>1. QED BY <2>3, <2>4 DEF TypeOK
    <2>6. QED BY <1>4, <2>5 DEF TypeOK, Check
  <1>5. ASSUME NEW d \in Dispatchers, Begin(d) PROVE TypeOK'
    <2> DEFINE r == disp[d].cur
               c == Expired(child[r])
               n == [status |-> "send_started", count |-> c.count + 1, lease |-> Lease, wait |-> 0]
    <2>1. r \in Recipients /\ child[r] \in Children /\ disp[d] \in Disps
      BY <1>5 DEF TypeOK, Aimed, Begin, At
    <2>2. c \in Children BY <2>1, ExpiredType
    <2>3. CASE disp[d].allowed /\ Retryable(c) /\ c.wait = 0
      <3>1. c.count + 1 \in 0..MaxAttempts BY <2>2, <2>3 DEF Retryable, Children
      <3>2. n \in Children BY <3>1 DEF Children, ChildStatuses
      <3>3. child' = [child EXCEPT ![r] = n] BY <1>5, <2>3 DEF Begin
      <3>4. child' \in [Recipients -> Children] BY <3>2, <3>3 DEF TypeOK
      <3>5. disp' = [disp EXCEPT ![d].pc = "sending", ![d].att = c.count + 1]
        BY <1>5, <2>3 DEF Begin
      <3>6. [disp[d] EXCEPT !.pc = "sending", !.att = c.count + 1] \in Disps
        BY <2>1, <3>1 DEF Disps, PCs
      <3>7. disp' \in [Dispatchers -> Disps] BY <3>5, <3>6 DEF TypeOK
      <3>8. QED BY <1>5, <3>4, <3>7 DEF TypeOK, Begin
    <2>4. CASE ~(disp[d].allowed /\ Retryable(c) /\ c.wait = 0)
      <3>1. child' = [child EXCEPT ![r] = c] /\ Onward(d) BY <1>5, <2>4 DEF Begin
      <3>2. child' \in [Recipients -> Children] BY <3>1, <2>2 DEF TypeOK
      <3>3. disp' \in [Dispatchers -> Disps] BY <3>1, OnwardType
      <3>4. QED BY <1>5, <3>2, <3>3 DEF TypeOK, Begin
    <2>5. QED BY <2>3, <2>4
  <1>6. ASSUME NEW d \in Dispatchers, Send(d) PROVE TypeOK'
    <2>1. PICK y \in Replies, took \in BOOLEAN :
            /\ taken' = IF took THEN [taken EXCEPT ![disp[d].cur] = @ + 1] ELSE taken
            /\ disp' = [disp EXCEPT ![d].pc = "answered", ![d].out = Outcome(y)]
      BY <1>6 DEF Send
    <2>2. disp[d] \in Disps /\ disp[d].cur \in Recipients BY <1>6 DEF TypeOK, Aimed, Send, At
    <2>3. Outcome(y) \in Outcomes BY DEF Outcome, Outcomes, Replies
    <2>4. [disp[d] EXCEPT !.pc = "answered", !.out = Outcome(y)] \in Disps
      BY <2>2, <2>3 DEF Disps, PCs
    <2>5. disp' \in [Dispatchers -> Disps] BY <2>1, <2>4 DEF TypeOK
    <2>6. taken' \in [Recipients -> Nat] BY <2>1, <2>2 DEF TypeOK
    <2>7. QED BY <1>6, <2>5, <2>6 DEF TypeOK, Send
  <1>7. ASSUME NEW d \in Dispatchers, Finish(d) PROVE TypeOK'
    <2> DEFINE r == disp[d].cur
               c == [child[r] EXCEPT !.status = disp[d].out, !.lease = 0]
               n == [c EXCEPT !.wait = IF Retryable(c) THEN 1 ELSE @]
    <2>1. r \in Recipients /\ child[r] \in Children /\ disp[d] \in Disps
      BY <1>7 DEF TypeOK, Aimed, Finish, At
    <2>2. c \in Children
      <3> DEFINE u == [child[r] EXCEPT !.status = disp[d].out]
      <3>1. disp[d].out \in ChildStatuses BY <2>1 DEF Disps, ChildStatuses, Outcomes
      <3>2. u \in Children BY <2>1, <3>1, ChildUpdates
      <3>3. [u EXCEPT !.lease = 0] \in Children
        <4> HIDE DEF u
        <4>1. 0 \in 0..Lease BY DEF Children
        <4>2. QED BY <3>2, <4>1, ChildUpdates
      <3>4. QED BY <3>3
    <2>3. n \in Children
      <3> DEFINE w == IF Retryable(c) THEN 1 ELSE c.wait
      <3> HIDE DEF c
      <3>1. w \in 0..1 BY <2>2 DEF Children
      <3> HIDE DEF w
      <3>2. [c EXCEPT !.wait = w] \in Children BY <2>2, <3>1, ChildUpdates
      <3>3. QED BY <3>2 DEF w
    <2>4. child' \in [Recipients -> Children] BY <1>7, <2>3 DEF TypeOK, Finish
    <2>5. disp' \in [Dispatchers -> Disps]
      BY <1>7, OnwardType, IdleType DEF TypeOK, Finish, Stop
    <2>6. QED BY <1>7, <2>4, <2>5 DEF TypeOK, Finish
  <1>8. ASSUME NEW d \in Dispatchers, Return(d) PROVE TypeOK'
    BY <1>8, IdleType DEF TypeOK, Return, Stop
  <1>9. ASSUME NEW d \in Dispatchers, Crash(d) PROVE TypeOK'
    BY <1>9, IdleType DEF TypeOK, Crash, Stop
  <1>10. CASE Reconfigure BY <1>10 DEF TypeOK, Reconfigure
  <1>11. CASE Tick
    <2>1. ASSUME NEW r \in Recipients
          PROVE  [child[r] EXCEPT !.lease = IF @ > 0 THEN @ - 1 ELSE 0, !.wait = 0] \in Children
      <3> DEFINE l == IF child[r].lease > 0 THEN child[r].lease - 1 ELSE 0
                 u == [child[r] EXCEPT !.lease = l]
      <3>1. child[r] \in Children BY DEF TypeOK
      <3>2. l \in 0..Lease BY <3>1 DEF Children
      <3>3. u \in Children
        <4> HIDE DEF l
        <4>1. QED BY <3>1, <3>2, ChildUpdates
      <3>4. [u EXCEPT !.wait = 0] \in Children
        <4> HIDE DEF u
        <4>1. 0 \in 0..1 OBVIOUS
        <4>2. QED BY <3>3, <4>1, ChildUpdates
      <3>5. QED BY <3>4
    <2>2. child' \in [Recipients -> Children] BY <1>11, <2>1 DEF Tick
    <2>3. QED BY <1>11, <2>2 DEF TypeOK, Tick
  <1>12. CASE UNCHANGED vars BY <1>12 DEF TypeOK, vars
  <1>13. QED
    BY <1>1, <1>2, <1>3, <1>4, <1>5, <1>6, <1>7, <1>8, <1>9, <1>10, <1>11, <1>12
       DEF Next, Dispatcher

-----------------------------------------------------------------------------
(* The inductive invariant, part by part.                                  *)

\* Every step gives at most one dispatcher a new local state.
LEMMA OthersStay ==
    ASSUME TypeOK, NEW d \in Dispatchers, Dispatcher(d), NEW e \in Dispatchers \ {d}
    PROVE  disp'[e] = disp[e]
  <1> USE DEF TypeOK
  <1>1. CASE Start(d) BY <1>1 DEF Start
  <1>2. CASE Prepare(d) BY <1>2 DEF Prepare, Stop
  <1>3. CASE Observe(d) BY <1>3 DEF Observe
  <1>4. CASE Check(d) BY <1>4 DEF Check
  <1>5. CASE Begin(d) BY <1>5 DEF Begin, Onward
  <1>6. CASE Send(d) BY <1>6 DEF Send
  <1>7. CASE Finish(d) BY <1>7 DEF Finish, Onward, Stop
  <1>8. CASE Return(d) BY <1>8 DEF Return, Stop
  <1>9. CASE Crash(d) BY <1>9 DEF Crash, Stop
  <1>10. QED
    BY <1>1, <1>2, <1>3, <1>4, <1>5, <1>6, <1>7, <1>8, <1>9 DEF Dispatcher

\* A step that keeps children and deliveries and ends outside a send keeps
\* everything said about sends.
LEMMA QuietStep ==
    ASSUME FanoutInv, NEW d \in Dispatchers,
           child' = child, taken' = taken,
           \A e \in Dispatchers \ {d} : disp'[e] = disp[e],
           disp'[d].pc \notin {"sending", "answered"}
    PROVE  RepliesAreKept' /\ OneSenderEach' /\ Truth'
  <1>1. ASSUME NEW e \in Dispatchers, InFlight(e)' PROVE e # d /\ disp'[e] = disp[e] /\ InFlight(e)
    BY <1>1 DEF InFlight
  <1>2. RepliesAreKept' BY <1>1 DEF FanoutInv, RepliesAreKept
  <1>3. OneSenderEach' BY <1>1 DEF FanoutInv, OneSenderEach
  <1>4. Truth' BY <1>1 DEF FanoutInv, Truth, InFlight, At
  <1>5. QED BY <1>2, <1>3, <1>4

\* Dispatchers in flight have recipients of their own.
LEMMA InFlightFacts ==
    ASSUME FanoutInv, NEW d \in Dispatchers, InFlight(d)
    PROVE  /\ disp[d].cur \in Recipients
           /\ child[disp[d].cur] \in Children
           /\ child[disp[d].cur].count = disp[d].att
           /\ child[disp[d].cur].status \in {"send_started", "unknown"}
           /\ \A e \in Dispatchers \ {d} : InFlight(e) => disp[e].cur # disp[d].cur
  <1>1. disp[d].cur \in Recipients BY DEF FanoutInv, Aimed, InFlight
  <1>2. QED BY <1>1 DEF FanoutInv, TypeOK, RepliesAreKept, OneSenderEach

\* The move to the next recipient, and the end of a call.
LEMMA OnwardEffect ==
    ASSUME TypeOK, NEW d \in Dispatchers, Onward(d)
    PROVE  disp'[d].pc = "next"
  BY DEF TypeOK, Onward, Idle

LEMMA StopEffect ==
    ASSUME TypeOK, NEW d \in Dispatchers, Stop(d)
    PROVE  disp'[d].pc = "idle"
  BY DEF TypeOK, Stop, Idle

LEMMA StartEffect ==
    ASSUME TypeOK, NEW d \in Dispatchers, Start(d)
    PROVE  \/ plan # {} /\ disp'[d].pc = "observe"
           \/ disp'[d].pc = "prepare" /\ disp'[d].specs # {}
  <1>1. disp[d] \in Disps BY DEF TypeOK
  <1>2. CASE disp' = [disp EXCEPT ![d].pc = "observe"] /\ plan # {} BY <1>2 DEF TypeOK, Disps
  <1>3. CASE disp' = [disp EXCEPT ![d].pc = "prepare", ![d].specs = routes] /\ routes # {}
    BY <1>1, <1>3 DEF TypeOK, Disps
  <1>4. QED BY <1>2, <1>3 DEF Start

LEMMA PlannedStep == FanoutInv /\ [Next]_vars => Planned' /\ Aimed'
  <1> SUFFICES ASSUME FanoutInv, [Next]_vars PROVE Planned' /\ Aimed'
    OBVIOUS
  <1>0. TypeOK BY DEF FanoutInv
  <1>1. ASSUME NEW d \in Dispatchers, Dispatcher(d) PROVE Planned' /\ Aimed'
    <2>1. \A e \in Dispatchers \ {d} : disp'[e] = disp[e] BY <1>0, <1>1, OthersStay
    <2>2. plan # {} => plan' # {}
      BY <1>1 DEF FanoutInv, Planned, Dispatcher, Start, Prepare, Observe, Check, Begin,
                  Send, Finish, Return, Crash
    <2>3. /\ disp'[d].pc = "prepare" => disp'[d].specs # {}
          /\ disp'[d].pc \notin {"idle", "prepare"} => plan' # {}
          /\ disp'[d].pc \in {"checked", "sending", "answered"} => disp'[d].cur \in Recipients
      <3>1. CASE Start(d) BY <1>0, <3>1, StartEffect DEF Start
      <3>2. CASE Prepare(d)
        <4>1. disp[d].specs # {} BY <3>2 DEF FanoutInv, Planned, Prepare
        <4>2. CASE plan' = disp[d].specs
          BY <1>0, <3>2, <4>1, <4>2 DEF Prepare, TypeOK, Idle
        <4>3. CASE plan' # disp[d].specs BY <1>0, <3>2, <4>3, StopEffect DEF Prepare
        <4>4. QED BY <4>2, <4>3
      <3>3. CASE Observe(d) BY <1>0, <3>3 DEF Observe, TypeOK, FanoutInv, Planned, At
      <3>4. CASE Check(d)
        <4>1. disp[d].todo \subseteq Recipients /\ plan # {} /\ plan' = plan
          BY <1>0, <3>4 DEF TypeOK, Disps, FanoutInv, Planned, At, Check
        <4>2. disp'[d].pc = "checked" /\ disp'[d].cur \in disp[d].todo
          BY <1>0, <3>4 DEF Check, TypeOK
        <4>3. QED BY <4>1, <4>2
      <3>5. CASE Begin(d)
        <4>1. plan # {} /\ plan' = plan /\ disp[d].cur \in Recipients
          BY <3>5 DEF Begin, FanoutInv, Planned, Aimed, At
        <4>2. CASE Onward(d) BY <1>0, <4>1, <4>2, OnwardEffect
        <4>3. CASE ~Onward(d)
          <5> DEFINE k == Expired(child[disp[d].cur]).count + 1
          <5>1. disp' = [disp EXCEPT ![d].pc = "sending", ![d].att = k]
            BY <3>5, <4>3 DEF Begin
          <5>2. disp'[d].pc = "sending" /\ disp'[d].cur = disp[d].cur
            <6> HIDE DEF k
            <6>1. QED BY <1>0, <5>1 DEF TypeOK, Disps
          <5>3. QED BY <4>1, <5>2
        <4>4. QED BY <4>2, <4>3
      <3>6. CASE Send(d)
        <4>1. plan # {} /\ plan' = plan /\ disp[d].cur \in Recipients
          BY <3>6 DEF Send, FanoutInv, Planned, Aimed, At
        <4>2. disp'[d].pc = "answered" /\ disp'[d].cur = disp[d].cur
          BY <1>0, <3>6 DEF Send, TypeOK
        <4>3. QED BY <4>1, <4>2
      <3>7. CASE Finish(d)
        <4>1. plan # {} /\ plan' = plan BY <3>7 DEF Finish, FanoutInv, Planned, At
        <4>2. disp'[d].pc \in {"next", "idle"}
          BY <1>0, <3>7, OnwardEffect, StopEffect DEF Finish
        <4>3. QED BY <4>1, <4>2
      <3>8. CASE Return(d) BY <1>0, <3>8, StopEffect DEF Return
      <3>9. CASE Crash(d) BY <1>0, <3>9, StopEffect DEF Crash
      <3>10. QED
        BY <1>1, <3>1, <3>2, <3>3, <3>4, <3>5, <3>6, <3>7, <3>8, <3>9 DEF Dispatcher
    <2>4. Planned' BY <2>1, <2>2, <2>3 DEF FanoutInv, Planned, At
    <2>5. Aimed' BY <2>1, <2>3 DEF FanoutInv, Aimed
    <2>6. QED BY <2>4, <2>5
  <1>2. CASE Reconfigure BY <1>2 DEF Reconfigure, FanoutInv, Planned, Aimed, At
  <1>3. CASE Tick BY <1>3 DEF Tick, FanoutInv, Planned, Aimed, At
  <1>4. CASE UNCHANGED vars BY <1>4 DEF vars, FanoutInv, Planned, Aimed, At
  <1>5. QED BY <1>1, <1>2, <1>3, <1>4 DEF Next

LEMMA SendingStep == FanoutInv /\ [Next]_vars => RepliesAreKept' /\ OneSenderEach' /\ Truth'
  <1> SUFFICES ASSUME FanoutInv, [Next]_vars
               PROVE  RepliesAreKept' /\ OneSenderEach' /\ Truth'
    OBVIOUS
  <1>0. TypeOK BY DEF FanoutInv
  <1>1. ASSUME NEW d \in Dispatchers, Dispatcher(d)
        PROVE  RepliesAreKept' /\ OneSenderEach' /\ Truth'
    <2>1. \A e \in Dispatchers \ {d} : disp'[e] = disp[e] BY <1>0, <1>1, OthersStay
    <2>2. CASE Start(d)
      <3>1. disp'[d].pc \notin {"sending", "answered"} BY <1>0, <2>2, StartEffect
      <3>2. QED BY <2>1, <2>2, <3>1, QuietStep DEF Start
    <2>3. CASE Prepare(d)
      <3>1. disp'[d].pc \in {"observe", "idle"}
        BY <1>0, <2>3, StopEffect DEF Prepare, TypeOK, Idle
      <3>2. QED BY <2>1, <2>3, <3>1, QuietStep DEF Prepare
    <2>4. CASE Observe(d)
      <3>1. disp'[d].pc = "next" BY <1>0, <2>4 DEF Observe, TypeOK
      <3>2. QED BY <2>1, <2>4, <3>1, QuietStep DEF Observe
    <2>5. CASE Check(d)
      <3>1. disp'[d].pc = "checked" BY <1>0, <2>5 DEF Check, TypeOK
      <3>2. QED BY <2>1, <2>5, <3>1, QuietStep DEF Check
    <2>8. CASE Return(d) BY <1>0, <2>1, <2>8, StopEffect, QuietStep DEF Return
    <2>9. CASE Crash(d) BY <1>0, <2>1, <2>9, StopEffect, QuietStep DEF Crash
    <2>10. CASE Begin(d)
      <3> DEFINE r == disp[d].cur
                 c == Expired(child[r])
      <3>1. r \in Recipients /\ child[r] \in Children
        BY <1>0, <2>10 DEF Begin, At, FanoutInv, Aimed, TypeOK
      <3>2. c.count = child[r].count
            /\ (child[r].status # "send_started" => c = child[r])
            /\ (child[r].status = "send_started" => c.status \in {"send_started", "unknown"})
        BY <3>1, ExpiredType
      <3>3. taken' = taken BY <2>10 DEF Begin
      <3>4. CASE disp[d].allowed /\ Retryable(c) /\ c.wait = 0
        <4>1. child[r].status \in {"pending", "explicit_failed"} BY <3>2, <3>4 DEF Retryable
        <4>2. taken[r] = 0 BY <3>1, <4>1 DEF FanoutInv, Truth
        <4>3. \A e \in Dispatchers : InFlight(e) => disp[e].cur # r
          BY <4>1 DEF FanoutInv, RepliesAreKept
        <4>4. /\ child' = [child EXCEPT ![r] = [status |-> "send_started",
                              count |-> c.count + 1, lease |-> Lease, wait |-> 0]]
              /\ disp' = [disp EXCEPT ![d].pc = "sending", ![d].att = c.count + 1]
          BY <2>10, <3>4 DEF Begin
        <4>5. disp'[d].pc = "sending" /\ disp'[d].cur = r /\ disp'[d].att = c.count + 1
          BY <1>0, <4>4 DEF TypeOK, Disps
        <4>6. child'[r].status = "send_started" /\ child'[r].count = c.count + 1
              /\ \A q \in Recipients \ {r} : child'[q] = child[q]
          BY <1>0, <3>1, <4>4 DEF TypeOK
        <4>7. \A e \in Dispatchers \ {d} : InFlight(e)' =>
                InFlight(e) /\ disp[e].cur \in Recipients \ {r}
          BY <2>1, <4>3, InFlightFacts DEF InFlight
        <4>8. RepliesAreKept' BY <2>1, <4>5, <4>6, <4>7 DEF FanoutInv, RepliesAreKept
        <4>9. OneSenderEach' BY <2>1, <4>5, <4>7 DEF FanoutInv, OneSenderEach
        <4>10. Truth'
          BY <2>1, <3>3, <4>2, <4>5, <4>6, <4>7 DEF FanoutInv, Truth, At, InFlight
        <4>11. QED BY <4>8, <4>9, <4>10
      <3>5. CASE ~(disp[d].allowed /\ Retryable(c) /\ c.wait = 0)
        <4>1. child' = [child EXCEPT ![r] = c] /\ disp'[d].pc = "next"
          BY <1>0, <2>10, <3>5, OnwardEffect DEF Begin
        <4>2. /\ \A q \in Recipients : child'[q].count = child[q].count
              /\ \A q \in Recipients : \/ child'[q].status = child[q].status
                                       \/ /\ child[q].status = "send_started"
                                          /\ child'[q].status = "unknown"
          BY <1>0, <3>1, <3>2, <4>1 DEF TypeOK
        <4>3. \A e \in Dispatchers : InFlight(e)' =>
                e # d /\ disp'[e] = disp[e] /\ InFlight(e) /\ disp[e].cur \in Recipients
          BY <2>1, <4>1, InFlightFacts DEF InFlight
        <4>4. RepliesAreKept' BY <4>2, <4>3 DEF FanoutInv, RepliesAreKept
        <4>5. OneSenderEach' BY <4>3 DEF FanoutInv, OneSenderEach
        <4>6. Truth' BY <3>3, <4>2, <4>3 DEF FanoutInv, Truth, At, InFlight
        <4>7. QED BY <4>4, <4>5, <4>6
      <3>6. QED BY <3>4, <3>5
    <2>11. CASE Send(d)
      <3> DEFINE r == disp[d].cur
      <3>1. PICK y \in Replies, took \in BOOLEAN :
              /\ Truthful(y, took)
              /\ taken' = IF took THEN [taken EXCEPT ![r] = @ + 1] ELSE taken
              /\ disp' = [disp EXCEPT ![d].pc = "answered", ![d].out = Outcome(y)]
        BY <2>11 DEF Send
      <3>2. InFlight(d) /\ taken[r] = 0 /\ child' = child
        BY <2>11 DEF Send, At, InFlight, FanoutInv, Truth
      <3>3. /\ r \in Recipients
            /\ child[r].status \in {"send_started", "unknown"}
            /\ \A e \in Dispatchers \ {d} : InFlight(e) => disp[e].cur # r
        BY <3>2, InFlightFacts
      <3>4. disp'[d].pc = "answered" /\ disp'[d].out = Outcome(y) /\ disp'[d].cur = r
            /\ disp'[d].att = disp[d].att
        BY <1>0, <3>1 DEF TypeOK, Disps
      <3>5. taken'[r] = (IF took THEN 1 ELSE 0) /\ \A q \in Recipients \ {r} : taken'[q] = taken[q]
        BY <1>0, <3>1, <3>2, <3>3 DEF TypeOK
      <3>6. /\ Outcome(y) = "confirmed" => took
            /\ Outcome(y) = "explicit_failed" => ~took
        BY <3>1 DEF Outcome, Truthful, Replies
      <3>7. \A e \in Dispatchers \ {d} : InFlight(e)' =>
              InFlight(e) /\ disp[e].cur \in Recipients \ {r}
        BY <2>1, <3>3, InFlightFacts DEF InFlight
      <3>8. RepliesAreKept'
        BY <2>1, <3>2, <3>4, <3>7 DEF FanoutInv, RepliesAreKept
      <3>9. OneSenderEach' BY <2>1, <3>4, <3>7 DEF FanoutInv, OneSenderEach
      <3>10. Truth'
        BY <2>1, <3>2, <3>3, <3>4, <3>5, <3>6, <3>7 DEF FanoutInv, Truth, At, InFlight
      <3>11. QED BY <3>8, <3>9, <3>10
    <2>12. CASE Finish(d)
      <3> DEFINE r == disp[d].cur
                 c == [child[r] EXCEPT !.status = disp[d].out, !.lease = 0]
                 n == [c EXCEPT !.wait = IF Retryable(c) THEN 1 ELSE @]
      <3>1. InFlight(d) /\ taken' = taken BY <2>12 DEF Finish, At, InFlight
      <3>2. /\ r \in Recipients /\ child[r] \in Children
            /\ child[r].count = disp[d].att
            /\ \A e \in Dispatchers \ {d} : InFlight(e) => disp[e].cur # r
        BY <3>1, InFlightFacts
      <3>3. child' = [child EXCEPT ![r] = n] /\ Onward(d) BY <2>12, <3>2 DEF Finish
      <3>4. n.status = disp[d].out BY <3>2 DEF Children
      <3>5. child'[r].status = disp[d].out /\ \A q \in Recipients \ {r} : child'[q] = child[q]
        <4> HIDE DEF n
        <4>1. QED BY <1>0, <3>2, <3>3, <3>4 DEF TypeOK
      <3>6. disp'[d].pc = "next" BY <1>0, <3>3, OnwardEffect
      <3>7. \A e \in Dispatchers : InFlight(e)' =>
              e # d /\ disp'[e] = disp[e] /\ InFlight(e) /\ disp[e].cur \in Recipients \ {r}
        BY <2>1, <3>2, <3>6, InFlightFacts DEF InFlight
      <3>8. RepliesAreKept' BY <3>5, <3>7 DEF FanoutInv, RepliesAreKept
      <3>9. OneSenderEach' BY <3>7 DEF FanoutInv, OneSenderEach
      <3>10. disp[d].out \in Outcomes
             /\ (disp[d].out = "confirmed" => taken[r] = 1)
             /\ (disp[d].out = "explicit_failed" => taken[r] = 0)
        BY <1>0, <2>12 DEF TypeOK, Disps, FanoutInv, Truth, Finish
      <3>11. Truth'
        BY <3>1, <3>5, <3>7, <3>10 DEF FanoutInv, Truth, At, InFlight, Outcomes
      <3>12. QED BY <3>8, <3>9, <3>11
    <2>13. QED
      BY <1>1, <2>2, <2>3, <2>4, <2>5, <2>8, <2>9, <2>10, <2>11, <2>12 DEF Dispatcher
  <1>2. CASE Reconfigure
    BY <1>2 DEF Reconfigure, FanoutInv, RepliesAreKept, OneSenderEach, Truth, InFlight, At
  <1>3. CASE Tick
    <2>1. \A q \in Recipients : child'[q].status = child[q].status
                                /\ child'[q].count = child[q].count
      BY <1>0, <1>3 DEF Tick, TypeOK, Children
    <2>2. \A e \in Dispatchers : InFlight(e) => disp[e].cur \in Recipients
      BY InFlightFacts
    <2>3. disp' = disp /\ taken' = taken BY <1>3 DEF Tick
    <2>4. RepliesAreKept' BY <2>1, <2>2, <2>3 DEF FanoutInv, RepliesAreKept, InFlight
    <2>5. OneSenderEach' BY <2>3 DEF FanoutInv, OneSenderEach, InFlight
    <2>6. Truth' BY <2>1, <2>2, <2>3 DEF FanoutInv, Truth, At
    <2>7. QED BY <2>4, <2>5, <2>6
  <1>4. CASE UNCHANGED vars
    BY <1>4 DEF vars, FanoutInv, RepliesAreKept, OneSenderEach, Truth, InFlight, At
  <1>5. QED BY <1>1, <1>2, <1>3, <1>4 DEF Next

LEMMA InvInit == Init => FanoutInv
  <1> SUFFICES ASSUME Init PROVE FanoutInv
    OBVIOUS
  <1>1. TypeOK BY NewChildType, IdleType DEF Init, TypeOK
  <1>2. \A d \in Dispatchers : disp[d].pc = "idle" BY DEF Init, Idle
  <1>3. Planned /\ Aimed /\ RepliesAreKept /\ OneSenderEach
    BY <1>2 DEF Planned, Aimed, RepliesAreKept, OneSenderEach, InFlight, At
  <1>4. Truth BY <1>2 DEF Init, Truth, NewChild, At
  <1>5. QED BY <1>1, <1>3, <1>4 DEF FanoutInv

\* The inductive invariant holds: among the rest, no reply is ever lost to a
\* later attempt and no two dispatchers have one recipient's message in
\* flight (the child's status under the file lock is the only guard).
THEOREM FanoutIsSound == Spec => []FanoutInv
  <1>1. Init => FanoutInv BY InvInit
  <1>2. FanoutInv /\ [Next]_vars => FanoutInv'
    <2> SUFFICES ASSUME FanoutInv, [Next]_vars PROVE FanoutInv'
      OBVIOUS
    <2>1. TypeOK' BY TypeStep DEF FanoutInv
    <2>2. Planned' /\ Aimed' BY PlannedStep
    <2>3. RepliesAreKept' /\ OneSenderEach' /\ Truth' BY SendingStep
    <2>4. QED BY <2>1, <2>2, <2>3 DEF FanoutInv
  <1>3. QED BY <1>1, <1>2, PTL DEF Spec

\* The recipients frozen first are the recipients for ever (prepare: "frozen
\* plan changed" is an error).
THEOREM PlanStaysFrozen == Spec => PlanIsFrozen
  <1>1. [Next]_vars => (plan # {} => plan' = plan)
    BY DEF Next, Dispatcher, Start, Prepare, Observe, Check, Begin, Send, Finish, Return,
           Crash, Reconfigure, Tick, vars
  <1>2. [Next]_vars => [plan # {} => plan' = plan]_vars BY <1>1
  <1>3. QED BY <1>2, PTL DEF Spec, PlanIsFrozen

-----------------------------------------------------------------------------
(* The refinement of OneShotDelivery.                                      *)

PhaseOf(st) ==
    CASE st \in {"pending", "explicit_failed"} -> "due"
      [] st = "confirmed"                      -> "done"
      [] OTHER                                 -> "out"

LEMMA PhaseFacts ==
    /\ \A r \in Recipients : Phase[r] = PhaseOf(child[r].status)
    /\ \A r \in Recipients : Phase'[r] = PhaseOf(child'[r].status)
    /\ Phase = [r \in Recipients |-> PhaseOf(child[r].status)]
    /\ Phase' = [r \in Recipients |-> PhaseOf(child'[r].status)]
  BY DEF Phase, PhaseOf

\* Children whose statuses map alike look alike.
LEMMA SamePhase ==
    ASSUME \A r \in Recipients : PhaseOf(child'[r].status) = PhaseOf(child[r].status)
    PROVE  Phase' = Phase
  BY PhaseFacts

\* A step that gives one child a new phase.
LEMMA NewPhase ==
    ASSUME NEW r \in Recipients,
           \A q \in Recipients \ {r} : child'[q] = child[q]
    PROVE  Phase' = [Phase EXCEPT ![r] = PhaseOf(child'[r].status)]
  <1> DEFINE p == PhaseOf(child'[r].status)
  <1>1. \A q \in Recipients : Phase'[q] = (IF q = r THEN p ELSE Phase[q]) BY PhaseFacts
  <1>2. Phase' = [q \in Recipients |-> Phase'[q]] BY DEF Phase
  <1>3. Phase = [q \in Recipients |-> Phase[q]] BY DEF Phase
  <1>4. [Phase EXCEPT ![r] = p] = [q \in Recipients |-> IF q = r THEN p ELSE Phase[q]]
    <2> HIDE DEF p
    <2>1. QED BY <1>3
  <1>5. QED BY <1>1, <1>2, <1>4

LEMMA OneShotStep ==
    FanoutInv /\ [Next]_vars => OneShot!Next \/ (Phase' = Phase /\ taken' = taken)
  <1> SUFFICES ASSUME FanoutInv, [Next]_vars
               PROVE  OneShot!Next \/ (Phase' = Phase /\ taken' = taken)
    OBVIOUS
  <1>0. TypeOK BY DEF FanoutInv
  <1>1. ASSUME child' = child PROVE Phase' = Phase BY <1>1, SamePhase
  <1>2. ASSUME NEW d \in Dispatchers, Dispatcher(d)
        PROVE  OneShot!Next \/ (Phase' = Phase /\ taken' = taken)
    <2> DEFINE r == disp[d].cur
    <2>1. CASE Begin(d)
      <3> DEFINE c == Expired(child[r])
      <3>1. r \in Recipients /\ child[r] \in Children
        BY <1>0, <2>1 DEF Begin, At, FanoutInv, Aimed, TypeOK
      <3>2. taken' = taken BY <2>1 DEF Begin
      <3>3. CASE disp[d].allowed /\ Retryable(c) /\ c.wait = 0
        <4> DEFINE n == [status |-> "send_started", count |-> c.count + 1,
                         lease |-> Lease, wait |-> 0]
        <4>1. child' = [child EXCEPT ![r] = n] BY <2>1, <3>3 DEF Begin
        <4>2. n.status = "send_started" OBVIOUS
        <4>3. child'[r].status = "send_started" /\ \A q \in Recipients \ {r} : child'[q] = child[q]
          <5> HIDE DEF n
          <5>1. QED BY <1>0, <3>1, <4>1, <4>2 DEF TypeOK
        <4>4. Phase' = [Phase EXCEPT ![r] = "out"]
          BY <3>1, <4>3, NewPhase DEF PhaseOf
        <4>5. child[r].status \in {"pending", "explicit_failed"}
          BY <3>1, <3>3, ExpiredType DEF Retryable
        <4>6. Phase[r] = "due" BY <3>1, <4>5, PhaseFacts DEF PhaseOf
        <4>7. OneShot!Attempt(r) BY <3>2, <4>4, <4>6 DEF OneShot!Attempt
        <4>8. QED BY <3>1, <4>7 DEF OneShot!Next
      <3>4. CASE ~(disp[d].allowed /\ Retryable(c) /\ c.wait = 0)
        <4>1. child' = [child EXCEPT ![r] = c] BY <2>1, <3>4 DEF Begin
        <4>2. PhaseOf(c.status) = PhaseOf(child[r].status)
          BY <3>1, ExpiredType DEF PhaseOf
        <4>3. \A q \in Recipients : PhaseOf(child'[q].status) = PhaseOf(child[q].status)
          <5> HIDE DEF c
          <5>1. QED BY <1>0, <3>1, <4>1, <4>2 DEF TypeOK
        <4>4. QED BY <3>2, <4>3, SamePhase
      <3>5. QED BY <3>3, <3>4
    <2>2. CASE Send(d)
      <3>1. InFlight(d) /\ taken[r] = 0 /\ child' = child
        BY <2>2 DEF Send, At, InFlight, FanoutInv, Truth
      <3>2. r \in Recipients /\ child[r].status \in {"send_started", "unknown"}
        BY <3>1, InFlightFacts
      <3>3. Phase[r] = "out" BY <3>2, PhaseFacts DEF PhaseOf
      <3>4. PICK took \in BOOLEAN :
              taken' = IF took THEN [taken EXCEPT ![r] = @ + 1] ELSE taken
        BY <2>2 DEF Send
      <3>5. Phase' = Phase BY <1>1, <3>1
      <3>6. CASE took
        <4>1. taken' = [taken EXCEPT ![r] = 1] BY <1>0, <3>1, <3>2, <3>4, <3>6 DEF TypeOK
        <4>2. OneShot!Take(r) BY <3>1, <3>3, <3>5, <4>1 DEF OneShot!Take
        <4>3. QED BY <3>2, <4>2 DEF OneShot!Next
      <3>7. CASE ~took BY <3>4, <3>5, <3>7
      <3>8. QED BY <3>6, <3>7
    <2>3. CASE Finish(d)
      <3> DEFINE c == [child[r] EXCEPT !.status = disp[d].out, !.lease = 0]
                 n == [c EXCEPT !.wait = IF Retryable(c) THEN 1 ELSE @]
      <3>1. InFlight(d) /\ taken' = taken BY <2>3 DEF Finish, At, InFlight
      <3>2. /\ r \in Recipients /\ child[r] \in Children
            /\ child[r].count = disp[d].att
            /\ child[r].status \in {"send_started", "unknown"}
        BY <3>1, InFlightFacts
      <3>3. child' = [child EXCEPT ![r] = n] BY <2>3, <3>2 DEF Finish
      <3>4. n.status = disp[d].out BY <3>2 DEF Children
      <3>5. child'[r].status = disp[d].out /\ \A q \in Recipients \ {r} : child'[q] = child[q]
        <4> HIDE DEF n
        <4>1. QED BY <1>0, <3>2, <3>3, <3>4 DEF TypeOK
      <3>6. Phase' = [Phase EXCEPT ![r] = PhaseOf(disp[d].out)] BY <3>2, <3>5, NewPhase
      <3>7. Phase[r] = "out" BY <3>2, PhaseFacts DEF PhaseOf
      <3>8. disp[d].out \in Outcomes
            /\ (disp[d].out = "confirmed" => taken[r] = 1)
            /\ (disp[d].out = "explicit_failed" => taken[r] = 0)
        BY <1>0, <2>3 DEF TypeOK, Disps, FanoutInv, Truth, Finish
      <3>9. CASE disp[d].out = "confirmed"
        <4>1. OneShot!Confirm(r)
          BY <3>1, <3>6, <3>7, <3>8, <3>9 DEF OneShot!Confirm, PhaseOf
        <4>2. QED BY <3>2, <4>1 DEF OneShot!Next
      <3>10. CASE disp[d].out = "explicit_failed"
        <4>1. OneShot!Refuse(r)
          BY <3>1, <3>6, <3>7, <3>8, <3>10 DEF OneShot!Refuse, PhaseOf
        <4>2. QED BY <3>2, <4>1 DEF OneShot!Next
      <3>11. CASE disp[d].out \in {"accepted", "unknown"}
        <4>1. \A q \in Recipients : PhaseOf(child'[q].status) = PhaseOf(child[q].status)
          BY <3>2, <3>5, <3>11 DEF PhaseOf
        <4>2. QED BY <3>1, <4>1, SamePhase
      <3>12. QED BY <3>8, <3>9, <3>10, <3>11 DEF Outcomes
    <2>4. CASE Start(d) \/ Prepare(d) \/ Observe(d) \/ Check(d) \/ Return(d) \/ Crash(d)
      BY <1>1, <2>4 DEF Start, Prepare, Observe, Check, Return, Crash
    <2>5. QED BY <1>2, <2>1, <2>2, <2>3, <2>4 DEF Dispatcher
  <1>3. CASE Reconfigure BY <1>1, <1>3 DEF Reconfigure
  <1>4. CASE Tick
    <2>1. \A q \in Recipients : child'[q].status = child[q].status
      BY <1>0, <1>4 DEF Tick, TypeOK, Children
    <2>2. QED BY <1>4, <2>1, SamePhase DEF Tick
  <1>5. CASE UNCHANGED vars BY <1>1, <1>5 DEF vars
  <1>6. QED BY <1>2, <1>3, <1>4, <1>5 DEF Next

\* Every behaviour of a fan-out implements OneShotDelivery for each of its
\* recipients: a message goes out again only after a refusal, and the
\* provider takes it at most once.
THEOREM FanoutDeliversOnce == Spec => DeliversOnce
  <1>1. Init => OneShot!Init
    <2> SUFFICES ASSUME Init PROVE OneShot!Init
      OBVIOUS
    <2>1. \A r \in Recipients : child[r].status = "pending" BY DEF Init, NewChild
    <2>2. Phase = [r \in Recipients |-> "due"] BY <2>1, PhaseFacts DEF PhaseOf
    <2>3. QED BY <2>2 DEF Init, OneShot!Init
  <1>2. FanoutInv /\ [Next]_vars => [OneShot!Next]_(OneShot!absVars)
    BY OneShotStep DEF OneShot!absVars
  <1>3. QED BY <1>1, <1>2, FanoutIsSound, PTL DEF Spec, DeliversOnce, OneShot!Spec
=============================================================================
