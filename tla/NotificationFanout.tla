------------------------- MODULE NotificationFanout --------------------------
(***************************************************************************)
(* One notification fan-out of options-monitor: a frozen plan of           *)
(* recipients, one durable child per recipient, and the processes that     *)
(* dispatch it (src/application/notification_fanout.py and its bridge      *)
(* notification_fanout_delivery.py).  Trade receipts, lifecycle batches,   *)
(* scan reports, maintenance receipts and alerts all send through it.      *)
(*                                                                         *)
(* The state file is read and written under a file lock, so each locked    *)
(* section is one step; the provider is called outside the lock.  Nothing  *)
(* keeps two dispatchers from working on one fan-out at the same time.     *)
(***************************************************************************)
EXTENDS Integers, FiniteSets

CONSTANTS
    Recipients,     \* routes, numbered in plan order (sorted by route_id)
    Dispatchers,    \* concurrent callers of send_notification_fanout
    MaxAttempts,    \* retry_policy.max_attempts (20 for trade receipts)
    Lease           \* claim lease in clock ticks (5 min; a tick is 60 s)

ASSUME FanoutAssumption ==
    /\ Recipients \subseteq Nat /\ IsFiniteSet(Recipients)
    /\ MaxAttempts \in Nat \ {0}
    /\ Lease \in Nat \ {0}

VARIABLES
    routes,     \* the recipients the configuration enables now
    plan,       \* the recipients frozen in the state file; {}: no file yet
    child,      \* child[r]: the durable child of recipient r
    disp,       \* disp[d]: local state of dispatcher d
    taken       \* taken[r]: how often the provider accepted r's message (ghost)

vars == <<routes, plan, child, disp, taken>>

-----------------------------------------------------------------------------
ChildStatuses == {"pending", "send_started", "confirmed", "explicit_failed",
                  "accepted", "unknown"}
Outcomes == {"confirmed", "explicit_failed", "accepted", "unknown"}

\* attempt_id is fresh for every attempt, as is the attempt count that goes up
\* with it: count stands for both.  wait: the retry delay still runs.
Children == [status : ChildStatuses, count : 0..MaxAttempts, lease : 0..Lease, wait : 0..1]
NewChild == [status |-> "pending", count |-> 0, lease |-> 0, wait |-> 0]

Retryable(c) == c.status \in {"pending", "explicit_failed"} /\ c.count < MaxAttempts

PCs == {"idle", "prepare", "observe", "next", "checked", "sending", "answered"}
Idle == [pc |-> "idle", specs |-> {}, todo |-> {}, cur |-> 0, allowed |-> FALSE,
         att |-> 0, out |-> "unknown"]
Disps == [pc : PCs, specs : SUBSET Recipients, todo : SUBSET Recipients,
          cur : Recipients \cup {0}, allowed : BOOLEAN, att : 0..MaxAttempts,
          out : Outcomes]

At(d, pc)  == disp[d].pc = pc
Stop(d)    == disp' = [disp EXCEPT ![d] = Idle]
\* On to the recipients after the current one.
Onward(d)  == disp' = [disp EXCEPT ![d] = [Idle EXCEPT !.pc = "next",
                         !.todo = disp[d].todo \ {disp[d].cur}]]

-----------------------------------------------------------------------------
(* send_notification_fanout: find the frozen plan, or freeze the current   *)
(* routes into one.                                                        *)

\* The plan is read without the lock; without routes nothing is stored.
Start(d) ==
    /\ At(d, "idle")
    /\ \/ plan # {} /\ disp' = [disp EXCEPT ![d].pc = "observe"]
       \/ /\ plan = {} /\ routes # {}
          /\ disp' = [disp EXCEPT ![d].pc = "prepare", ![d].specs = routes]
    /\ UNCHANGED <<routes, plan, child, taken>>

\* Mutant: the later plan replaces the earlier one.
PrepareAnew(d) ==
    /\ At(d, "prepare")
    /\ plan' = disp[d].specs
    /\ disp' = [disp EXCEPT ![d] = [Idle EXCEPT !.pc = "observe"]]
    /\ UNCHANGED <<routes, child, taken>>

\* prepare_notification_fanout: under the lock, the first plan wins; another
\* plan for the same message is an error that ends the call.
Prepare(d) ==
    /\ At(d, "prepare")
    /\ plan' = IF plan = {} THEN disp[d].specs ELSE plan
    /\ IF plan' = disp[d].specs
         THEN disp' = [disp EXCEPT ![d] = [Idle EXCEPT !.pc = "observe"]]
         ELSE Stop(d)
    /\ UNCHANGED <<routes, child, taken>>

-----------------------------------------------------------------------------
(* dispatch_notification_fanout.                                           *)

\* The children to visit are those of one unlocked snapshot.
Observe(d) ==
    /\ At(d, "observe")
    /\ disp' = [disp EXCEPT ![d].pc = "next",
                  ![d].todo = {r \in plan : child[r].status
                                              \in {"pending", "explicit_failed", "send_started"}}]
    /\ UNCHANGED <<routes, plan, child, taken>>

\* can_send_fn, outside the lock: is the recipient's route still current?
Check(d) ==
    /\ At(d, "next")
    /\ \E r \in disp[d].todo :
         /\ \A q \in disp[d].todo : r <= q
         /\ disp' = [disp EXCEPT ![d].pc = "checked", ![d].cur = r,
                                 ![d].allowed = (r \in routes)]
    /\ UNCHANGED <<routes, plan, child, taken>>

\* Mutant: a send whose lease ran out is free to be sent again.
ExpiredAgain(c) == IF c.status = "send_started" /\ c.lease = 0
                     THEN [c EXCEPT !.status = "explicit_failed", !.wait = 0] ELSE c

\* A send whose lease ran out has an unknown fate from now on.
Expired(c) == IF c.status = "send_started" /\ c.lease = 0
                THEN [c EXCEPT !.status = "unknown", !.wait = 0] ELSE c

Begin(d) ==
    /\ At(d, "checked")
    /\ LET r == disp[d].cur
           c == Expired(child[r]) IN
         IF disp[d].allowed /\ Retryable(c) /\ c.wait = 0
           THEN /\ child' = [child EXCEPT ![r] =
                     [status |-> "send_started", count |-> c.count + 1,
                      lease |-> Lease, wait |-> 0]]
                /\ disp' = [disp EXCEPT ![d].pc = "sending", ![d].att = c.count + 1]
           ELSE /\ child' = [child EXCEPT ![r] = c]
                /\ Onward(d)
    /\ UNCHANGED <<routes, plan, taken>>

\* A provider's reply: whom it says it reached, and whether it is doubtful,
\* confirms, refuses before acceptance (a 4xx, a local error) or just returns.
Replies == [to : {"nobody", "recipient", "other"}, doubt : BOOLEAN,
            confirms : BOOLEAN, refuses : BOOLEAN, returns : BOOLEAN]

\* Mutant: any reply that is no confirmation is taken for a refusal.
OutcomeHasty(y) ==
    IF y.confirms /\ y.to = "recipient" THEN "confirmed" ELSE "explicit_failed"

\* _outcome.
Outcome(y) ==
    CASE y.to = "other" \/ y.doubt                     -> "unknown"
      [] y.to # "other" /\ ~y.doubt /\ y.confirms      -> IF y.to = "recipient" THEN "confirmed"
                                                                                ELSE "unknown"
      [] OTHER -> IF y.refuses THEN "explicit_failed"
                  ELSE IF y.returns THEN "accepted" ELSE "unknown"

\* The provider (external) is trusted in two things, where its reply is not
\* doubtful: what it refuses it does not deliver, and what it confirms to this
\* recipient it did deliver.
Truthful(y, took) ==
    ~y.doubt /\ y.to # "other" =>
        /\ y.refuses /\ ~y.confirms => ~took
        /\ y.confirms /\ y.to = "recipient" => took

\* An exception of the adapter is the reply that says nothing.
Send(d) ==
    /\ At(d, "sending")
    /\ \E y \in Replies, took \in BOOLEAN :
         /\ Truthful(y, took)
         /\ taken' = IF took THEN [taken EXCEPT ![disp[d].cur] = @ + 1] ELSE taken
         /\ disp' = [disp EXCEPT ![d].pc = "answered", ![d].out = Outcome(y)]
    /\ UNCHANGED <<routes, plan, child>>

\* The reply is stored if the attempt is still the child's; else it is an error.
Finish(d) ==
    /\ At(d, "answered")
    /\ LET r == disp[d].cur
           c == [child[r] EXCEPT !.status = disp[d].out, !.lease = 0] IN
         IF child[r].count = disp[d].att
           THEN /\ child' = [child EXCEPT ![r] =
                              [c EXCEPT !.wait = IF Retryable(c) THEN 1 ELSE @]]
                /\ Onward(d)
           ELSE Stop(d) /\ UNCHANGED child
    /\ UNCHANGED <<routes, plan, taken>>

\* Every observed child has been visited: the caller gets a snapshot.
Return(d) ==
    /\ At(d, "next") /\ disp[d].todo = {}
    /\ Stop(d)
    /\ UNCHANGED <<routes, plan, child, taken>>

\* The process dies; a message may be with the provider already.
Crash(d) ==
    /\ disp[d].pc # "idle"
    /\ Stop(d)
    /\ UNCHANGED <<routes, plan, child, taken>>

Dispatcher(d) ==
    \/ Start(d) \/ Prepare(d) \/ Observe(d) \/ Check(d) \/ Begin(d)
    \/ Send(d) \/ Finish(d) \/ Return(d) \/ Crash(d)

-----------------------------------------------------------------------------
\* The configuration changes: routes are enabled, disabled or moved.
Reconfigure ==
    /\ routes' \in SUBSET Recipients
    /\ UNCHANGED <<plan, child, disp, taken>>

Tick ==
    /\ \E r \in Recipients : child[r].lease > 0 \/ child[r].wait > 0
    /\ child' = [r \in Recipients |->
                   [child[r] EXCEPT !.lease = IF @ > 0 THEN @ - 1 ELSE 0, !.wait = 0]]
    /\ UNCHANGED <<routes, plan, disp, taken>>

Init ==
    /\ routes \in SUBSET Recipients
    /\ plan = {}
    /\ child = [r \in Recipients |-> NewChild]
    /\ disp = [d \in Dispatchers |-> Idle]
    /\ taken = [r \in Recipients |-> 0]

Next == (\E d \in Dispatchers : Dispatcher(d)) \/ Reconfigure \/ Tick

Spec == Init /\ [][Next]_vars

-----------------------------------------------------------------------------
(* Properties.                                                             *)

TypeOK ==
    /\ routes \subseteq Recipients
    /\ plan \subseteq Recipients
    /\ child \in [Recipients -> Children]
    /\ disp \in [Dispatchers -> Disps]
    /\ taken \in [Recipients -> Nat]

\* Nobody looks at children before a plan is frozen, and no plan is empty.
Planned ==
    \A d \in Dispatchers :
        /\ At(d, "prepare") => disp[d].specs # {}
        /\ ~At(d, "idle") /\ ~At(d, "prepare") => plan # {}

\* A dispatcher past its lookup works on a recipient.
Aimed ==
    \A d \in Dispatchers :
        disp[d].pc \in {"checked", "sending", "answered"} => disp[d].cur \in Recipients

InFlight(d) == disp[d].pc \in {"sending", "answered"}

\* A reply in flight always belongs to the child's latest attempt, however
\* long ago its lease ran out: the attempt_id check of dispatch never fails,
\* so no reply is ever thrown away.
RepliesAreKept ==
    \A d \in Dispatchers : InFlight(d) =>
        /\ child[disp[d].cur].count = disp[d].att
        /\ child[disp[d].cur].status \in {"send_started", "unknown"}

\* Two dispatchers never have the same recipient's message in flight, though
\* nothing but the child's status keeps them apart.
OneSenderEach ==
    \A d, e \in Dispatchers : InFlight(d) /\ InFlight(e) /\ d # e => disp[d].cur # disp[e].cur

\* What is stored and what is answered agree with what the provider did.
Truth ==
    /\ \A r \in Recipients :
         /\ child[r].status \in {"pending", "explicit_failed"} => taken[r] = 0
         /\ child[r].status = "confirmed" => taken[r] = 1
         /\ taken[r] <= 1
    /\ \A d \in Dispatchers :
         /\ At(d, "sending") => taken[disp[d].cur] = 0
         /\ At(d, "answered") /\ disp[d].out = "confirmed" => taken[disp[d].cur] = 1
         /\ At(d, "answered") /\ disp[d].out = "explicit_failed" => taken[disp[d].cur] = 0

FanoutInv == TypeOK /\ Planned /\ Aimed /\ RepliesAreKept /\ OneSenderEach /\ Truth

\* The set of recipients never changes once frozen, whatever two processes
\* that start at the same time read from a configuration that changes.
PlanIsFrozen == [][plan # {} => plan' = plan]_vars

\* Each child keeps the promise of OneShotDelivery: its message is attempted
\* again only after a refusal, and the provider takes it at most once, through
\* crashes, expired leases and late replies of concurrent dispatchers.
Phase == [r \in Recipients |->
            CASE child[r].status \in {"pending", "explicit_failed"} -> "due"
              [] child[r].status = "confirmed"                      -> "done"
              [] OTHER                                              -> "out"]
OneShot == INSTANCE OneShotDelivery WITH Messages <- Recipients, phase <- Phase, taken <- taken

DeliversOnce == OneShot!Spec
=============================================================================
