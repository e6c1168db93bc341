-------------------------- MODULE PositionProjection --------------------------
(***************************************************************************)
(* The read model of positions: the lots that are published beside the      *)
(* ledger's trade events, either replayed from all of them or resumed from  *)
(* a checkpoint of the open lots and the events since                       *)
(* (src/application/ledger: position_projection_runtime.py,                 *)
(* position_projection_publication.py, repository_projection_tail.py, the   *)
(* triggers of repository_projection_schema.py; domain/domain/ledger:       *)
(* projection.py, lots.py).                                                 *)
(*                                                                         *)
(* Every action is one SQLite transaction under the ledger's writer lock: a *)
(* crash or an error rolls it back and changes nothing.  What is hard is    *)
(* not their interleaving but their history: events that arrive late,       *)
(* control events, events rewritten in place, operators who switch the      *)
(* checkpoints on and off, and programs of two builds on one ledger.        *)
(***************************************************************************)
EXTENDS Integers, FiniteSets, Sequences, Folds

CONSTANTS
    Trade,        \* Trade[e]: what event e records, if it comes
    LotAccount,   \* LotAccount[l]: the account of lot l
    Builds,       \* projector implementations that run, by their fingerprints
    RotateAfter,  \* CHECKPOINT_ROTATE_EVENT_COUNT (100)
    MaxTradeTime, \* bound: times of events
    Together,     \* the pairs of events that are written in one transaction
    MaxGeneration \* bound: inserted and rewritten events

Lots     == DOMAIN LotAccount
Accounts == {LotAccount[l] : l \in Lots}

\* target: the event a void is about.  Its contract is that of its target.
TradeRecords == [kind : {"open", "close", "adjust", "void"}, lot : Lots, size : Nat, target : Nat]
Trades == DOMAIN Trade

ASSUME ProjectionAssumption ==
    /\ Trade \in Seq(TradeRecords)
    /\ \A e \in Trades : Trade[e].kind \in {"open", "close"} => Trade[e].size > 0  \* validate_trade_event
    /\ Builds # {}
    /\ RotateAfter \in Nat \ {0} /\ MaxTradeTime \in Nat \ {0} /\ MaxGeneration \in Nat
    /\ Together \subseteq Trades \X Trades

VARIABLES
    ledger, \* what the database holds, described below
    blind   \* the last writer could not tell its own implementation (ghost)

projectionVars == <<ledger, blind>>

-----------------------------------------------------------------------------
\* A lot, by the events it was made of.  by: the builds that computed it; what
\* two builds compute is taken to differ.
NoLot == [open |-> 0, left |-> 0, closes |-> <<>>, adjust |-> 0, by |-> {}]
LotValue(v) == /\ v.open \in Nat /\ v.left \in Nat /\ v.adjust \in Nat /\ v.by \subseteq Builds
               /\ v.closes \in Seq(Nat)
OpenLots(lots) == [l \in Lots |-> IF lots[l].left > 0 THEN lots[l] ELSE NoLot]
AccountsOfLots(lots) == {LotAccount[l] : l \in {k \in Lots : lots[k] # NoLot}}

\* stored: the time of each stored event, 0 if it is not.  gen: source_generation.
\* dirty: lots_generation differs from built_lots_generation.  Checkpoints are
\* the trusted ones: nothing reads the others.  prefix stands for the event
\* count and the hash chain of a checkpoint, end for its last (time, id).
Heads == [status : {"none", "uninitialized", "trusted"}, gen : 0..MaxGeneration,
          build : Builds \cup {"none"}, dirty : BOOLEAN]
NewHead == [status |-> "none", gen |-> 0, build |-> "none", dirty |-> FALSE]

Stored(d) == {e \in Trades : d.stored[e] > 0}
Upto(d, end) == {e \in Stored(d) : d.stored[e] < end[1] \/ (d.stored[e] = end[1] /\ e <= end[2])}
EventsAfter(d, k) == Stored(d) \ Upto(d, k.end)

-----------------------------------------------------------------------------
(* Replay.                                                                 *)

\* _validated_events: by time, openings first.
ReplayedBefore(d, x, y) ==
    \/ d.stored[x] < d.stored[y]
    \/ d.stored[x] = d.stored[y] /\ (Trade[x].kind = "open" /\ Trade[y].kind # "open")
    \/ d.stored[x] = d.stored[y] /\ (Trade[x].kind = "open" <=> Trade[y].kind = "open") /\ x < y
LastReplayed(d, S) == CHOOSE x \in S : \A y \in S \ {x} : ReplayedBefore(d, y, x)

\* _apply_open_event, _apply_close_event, _apply_adjust_event: whether lot v takes
\* event e, and what build b makes of it.  Changes of quantity by an adjustment
\* are left out.
Takes(v, e) ==
    \/ Trade[e].kind = "open" /\ v = NoLot
    \/ Trade[e].kind = "close" /\ Trade[e].size <= v.left
    \/ Trade[e].kind = "adjust" /\ v # NoLot
After(v, e, b) ==
    CASE Trade[e].kind = "open"  -> [v EXCEPT !.open = e, !.left = Trade[e].size, !.by = {b}]
      [] Trade[e].kind = "close" -> [v EXCEPT !.left = @ - Trade[e].size, !.closes = Append(@, e),
                                             !.by = @ \cup {b}]
      [] OTHER                   -> [v EXCEPT !.adjust = e, !.by = @ \cup {b}]

\* _apply_event_transition.  touched holds the last value of what was changed
\* (retained_by_id); any diagnostic is ~ok; a tail evicts the lots it finishes.
Applied(acc, e, b, tail) ==
    LET lot == Trade[e].lot
        v == After(acc.lots[lot], e, b)
    IN IF Takes(acc.lots[lot], e)
       THEN [acc EXCEPT !.lots[lot] = IF tail /\ v.left = 0 THEN NoLot ELSE v, !.touched[lot] = v]
       ELSE [acc EXCEPT !.ok = FALSE]

\* project_resumable_trade_events: events S applied to lots.
Replayed(d, lots, S, b, tail) ==
    LET Step(e, acc) == Applied(acc, e, b, tail)
    IN MapThenFoldSet(Step, [lots |-> lots, touched |-> [l \in Lots |-> NoLot], ok |-> TRUE],
                      LAMBDA e : e, LAMBDA s : LastReplayed(d, s), S)

\* Voided events are skipped; a void must name a stored event that is no void
\* and not later.
Voids(d) == {e \in Stored(d) : Trade[e].kind = "void"}
VoidsFit(d) == \A v \in Voids(d) : /\ Trade[v].target \in Stored(d) \ Voids(d)
                                   /\ d.stored[Trade[v].target] <= d.stored[v]
Effective(d) == Stored(d) \ (Voids(d) \cup {Trade[v].target : v \in Voids(d)})

\* entry_mode "full"
FullReplay(d, b) ==
    LET r == Replayed(d, [l \in Lots |-> NoLot], Effective(d), b, FALSE)
    IN [lots |-> r.lots, ok |-> r.ok /\ VoidsFit(d)]

\* entry_mode "tail", from open lots: control events are refused.
TailReplay(d, state, tail, b) ==
    LET r == Replayed(d, state, tail, b, TRUE)
    IN [r EXCEPT !.ok = @ /\ \A e \in tail : Trade[e].kind \in {"open", "close"}]

-----------------------------------------------------------------------------
(* Triggers of trade_events and position_lots.                             *)

\* Mutant: of events of one time every one counts as later.
SurvivesLater(k, e, t) == Trade[e].kind # "void" /\ k.end[1] <= t

\* trg_trade_events_source_insert: a checkpoint is no longer trusted when a
\* control event arrives, or one that sorts into its prefix.
Survives(k, e, t) ==
    /\ Trade[e].kind # "void"
    /\ k.end[1] < t \/ (k.end[1] = t /\ k.end[2] < e)

WithHead(d, a) == [d EXCEPT !.head[a].status = IF @ = "none" THEN "uninitialized" ELSE @]
Inserted(d, e, t) ==
    WithHead([d EXCEPT !.stored[e] = t, !.gen = @ + 1,
                       !.checkpoints = {k \in @ : Survives(k, e, t)}], LotAccount[Trade[e].lot])

\* trg_trade_events_source_update
Updated(d, e, t) == [d EXCEPT !.stored[e] = t, !.gen = @ + 1, !.checkpoints = {}]

\* apply_position_lot_diff and the trg_position_lots_generation triggers.
LotsWritten(d, lots) ==
    LET changed == {LotAccount[l] : l \in {k \in Lots : d.lots[k] # lots[k]}}
        Marked(h) == [h EXCEPT !.dirty = TRUE, !.status = IF @ = "none" THEN "uninitialized" ELSE @]
    IN [d EXCEPT !.lots = lots,
          !.head = [a \in Accounts |-> IF a \in changed THEN Marked(d.head[a]) ELSE d.head[a]]]

-----------------------------------------------------------------------------
(* Publication.                                                            *)

\* publish_full_position_projection_heads, for the accounts it is called with.
HeadsPublished(d, b, accounts) ==
    [d EXCEPT !.head = [a \in Accounts |-> IF @[a].status = "none" \/ a \notin accounts THEN @[a]
                          ELSE [status |-> "trusted", gen |-> d.gen, build |-> b, dirty |-> FALSE]]]

\* prune_position_projection_checkpoints: the two newest stay, and the newest
\* that came from a full replay.
NewerThan(j, k) ==
    \/ Cardinality(j.prefix) > Cardinality(k.prefix)
    \/ Cardinality(j.prefix) = Cardinality(k.prefix) /\ j.gen > k.gen
Newest(ks) == CHOOSE k \in ks : \A j \in ks \ {k} : NewerThan(k, j)
Pruned(ks) ==
    {k \in ks : \/ Cardinality({j \in ks : NewerThan(j, k)}) < 2
                \/ k.full /\ ~\E j \in ks : j.full /\ NewerThan(j, k)}

\* A new checkpoint, or none and no more of them when its state is too large
\* (~fits).  One of the same id is replaced by the one of a full replay.
Checkpointed(d, b, state, full, fits) ==
    LET last == CHOOSE e \in Stored(d) : \A x \in Stored(d) : x \in Upto(d, <<d.stored[e], e>>)
        k == [prefix |-> Stored(d), gen |-> d.gen, build |-> b, state |-> state, full |-> full,
              end |-> IF Stored(d) = {} THEN <<0, 0>> ELSE <<d.stored[last], last>>]
    IN IF fits THEN [d EXCEPT !.checkpoints = Pruned({j \in @ : [j EXCEPT !.full = full] # k} \cup {k})]
       ELSE [d EXCEPT !.checkpoints = {}, !.mode = "untrusted"]

\* _run_full_path once its replay gave lots.  Without a known implementation
\* the lots are written and no head.
FullPath(d, lots, b, known, seed, fits) ==
    LET written == LotsWritten(d, lots)
        published == [HeadsPublished(written, b, Accounts) EXCEPT !.build = b]
    IN IF ~known THEN written
       ELSE IF seed THEN Checkpointed(published, b, OpenLots(lots), TRUE, fits)
       ELSE published

-----------------------------------------------------------------------------
(* The fast path.                                                          *)

\* read_current_position_projection: account a as a reader of build b gets it.
Readable(d, a, b) ==
    /\ d.build = b
    /\ d.head[a].status = "trusted" /\ d.head[a].build = b /\ ~d.head[a].dirty
    /\ d.head[a].gen = d.gen

\* _head_invariant_problem
HeadFits(d, k, a, b) ==
    CASE d.head[a].status = "none" -> TRUE
      [] d.head[a].status = "trusted" ->
           d.head[a].build = b /\ k.gen <= d.head[a].gen /\ ~d.head[a].dirty
      [] OTHER ->
           /\ a \in {LotAccount[Trade[e].lot] : e \in EventsAfter(d, k)} /\ a \notin AccountsOfLots(k.state)
           /\ ~d.head[a].dirty /\ a \notin AccountsOfLots(d.lots)

\* _decode_checkpoint: checkpoint and lots are of the reader's own build.
Decodes(d, k, b) == k.build = b /\ d.build = b

\* A new lot must not meet an open one, nor one published for an older event.
Collides(d, k) ==
    LET opens == {e \in EventsAfter(d, k) : Trade[e].kind = "open"} IN
    \/ \E x, y \in opens : x # y /\ Trade[x].lot = Trade[y].lot
    \/ \E x \in opens : k.state[Trade[x].lot] # NoLot
    \/ \E x \in opens : d.lots[Trade[x].lot] # NoLot
                        /\ ~\E e \in EventsAfter(d, k) : e = d.lots[Trade[x].lot].open

StrictAppendOf(d, k) == d.gen = k.gen + Cardinality(EventsAfter(d, k))

\* What preview and commit ask before they resume: the first half of _try_fast_path.
Resumable(d, k, b) ==
    /\ Decodes(d, k, b) /\ StrictAppendOf(d, k)
    /\ \A a \in Accounts : HeadFits(d, k, a, b)
    /\ TailReplay(d, k.state, EventsAfter(d, k), b).ok

\* The rest of _try_fast_path: only the lots that the tail touches are written.
Resumed(d, k, b, fits, accounts) ==
    LET r == TailReplay(d, k.state, EventsAfter(d, k), b)
        lots == [l \in Lots |-> IF r.touched[l] = NoLot THEN d.lots[l] ELSE r.touched[l]]
        published == HeadsPublished(LotsWritten(d, lots), b, accounts)
    IN IF Cardinality(EventsAfter(d, k)) < RotateAfter THEN published
       ELSE Checkpointed(published, b, r.lots, FALSE, fits)

\* Mutant: only the heads of the accounts that the tail touches follow.
FastTouched(d, k, b, fits) ==
    Resumed(d, k, b, fits, {LotAccount[Trade[e].lot] : e \in EventsAfter(d, k)})

FastPath(d, k, b, fits) == Resumed(d, k, b, fits, Accounts)

-----------------------------------------------------------------------------
(* Transactions.                                                           *)

\* _run_position_projection_in_transaction_impl, after its event was written:
\* mode fast_if_safe (fast) or forced_full.
CheckpointsOn(d) == d.mode = "enabled" /\ d.checkpoints # {}
AllCurrent(d, b) == /\ \E a \in Accounts : d.head[a].status # "none"
                   /\ \A a \in Accounts : d.head[a].status # "none" => Readable(d, a, b)
ProjectionRun(d, b, known, fast, created, fits) ==
    LET k == Newest(d.checkpoints)
        replay == FullReplay(d, b)
        unread == known /\ fast /\ CheckpointsOn(d) /\ ~Decodes(d, k, b)
        base == IF unread THEN [d EXCEPT !.checkpoints = @ \ {k}, !.mode = "untrusted"] ELSE d
    IN /\ IF known /\ fast /\ ~created /\ AllCurrent(d, b) THEN ledger' = d
          ELSE IF known /\ fast /\ CheckpointsOn(d) /\ Resumable(d, k, b) /\ ~Collides(d, k)
          THEN ledger' = FastPath(d, k, b, fits)
          ELSE /\ replay.ok
               /\ ledger' = FullPath(base, replay.lots, b, known, base.mode = "enabled" /\ fast, fits)
       /\ blind' = IF ledger' = ledger THEN blind ELSE ~known

\* A writer has stored events new, which gave database d: forced_full for a
\* void (and then for others, too, by interventions and repairs).  Of choices
\* that come to the same only one is taken.
Wrote(d, new, b, known, fast, fits) ==
    /\ fast => known /\ ledger.mode = "enabled" /\ \A e \in new : Trade[e].kind # "void"
    /\ fast \/ fits
    /\ ProjectionRun(d, b, known, fast, TRUE, fits)

\* One event e at time t.
Write(b, known, e, t, fast, fits) ==
    /\ ledger.gen < MaxGeneration /\ ledger.stored[e] = 0
    /\ Wrote(Inserted(ledger, e, t), {e}, b, known, fast, fits)

\* Two at once: a closing over two lots, a void and what takes the event's place.
WriteBoth(b, known, e, t, f, u, fast, fits) ==
    /\ e # f /\ ledger.gen + 1 < MaxGeneration /\ ledger.stored[e] = 0 /\ ledger.stored[f] = 0
    /\ Wrote(Inserted(Inserted(ledger, e, t), f, u), {e, f}, b, known, fast, fits)

\* A writer that is called again finds its event stored.  (forced_full: Rebuild)
Repeat(b, fits) ==
    /\ Stored(ledger) # {}
    /\ ProjectionRun(ledger, b, TRUE, TRUE, FALSE, fits)

\* rebuild_position_lots
Rebuild(b, known) == ProjectionRun(ledger, b, known, FALSE, FALSE, TRUE)

\* A stored event is bound to its order (the time stays), or its time repaired;
\* both want the lots to be current and replay everything.
Rewrite(b, e, t) ==
    /\ ledger.gen < MaxGeneration /\ ledger.stored[e] > 0
    /\ ledger.lots = FullReplay(ledger, b).lots
    /\ ProjectionRun(Updated(ledger, e, t), b, TRUE, FALSE, TRUE, TRUE)

-----------------------------------------------------------------------------
(* The operator.                                                           *)

\* apply_position_projection_migration
Migrate(b) ==
    /\ LET replay == FullReplay(ledger, b)
           empty == [ledger EXCEPT !.checkpoints = {}]
       IN /\ replay.ok
          /\ ledger' = [FullPath(empty, replay.lots, b, TRUE, TRUE, TRUE) EXCEPT !.mode = "disabled"]
    /\ blind' = FALSE

\* activate_position_projection_checkpoints, with what it verifies.
Activate(b) ==
    /\ ledger.mode = "disabled" /\ ledger.checkpoints # {}
    /\ ledger.build = b /\ ledger.lots = FullReplay(ledger, b).lots
    /\ \A a \in Accounts : ledger.head[a].status # "none" => Readable(ledger, a, b)
    /\ \A k \in ledger.checkpoints : Decodes(ledger, k, b) /\ StrictAppendOf(ledger, k)
    /\ LET k == Newest(ledger.checkpoints)
           r == TailReplay(ledger, k.state, EventsAfter(ledger, k), b)
       IN r.ok /\ r.lots = OpenLots(ledger.lots)
    /\ ledger' = [ledger EXCEPT !.mode = "enabled"]
    /\ UNCHANGED blind

\* deactivate_position_projection_checkpoints
Deactivate ==
    /\ ledger.mode = "enabled"
    /\ ledger' = [ledger EXCEPT !.mode = "disabled"]
    /\ UNCHANGED blind

-----------------------------------------------------------------------------
(* Preview, which writes nothing.                                          *)

\* Mutant: the previewed event may sort anywhere.
AppendsAnyTime(e, t) == TRUE

\* preview_position_projection_append: event e at time t by build b, where it
\* resumes from a checkpoint; the event must sort after all stored ones.
AppendsLast(e, t) == \A x \in Stored(ledger) :
    ledger.stored[x] < t \/ (ledger.stored[x] = t /\ x < e)
PreviewLots(b, e, t) ==
    LET k == Newest(ledger.checkpoints)
        now == TailReplay(ledger, k.state, EventsAfter(ledger, k), b)
    IN TailReplay([ledger EXCEPT !.stored[e] = t], now.lots, {e}, b)
PreviewResumes(b, e, t) ==
    /\ Resumable(ledger, Newest(ledger.checkpoints), b)
    /\ AppendsLast(e, t) /\ PreviewLots(b, e, t).ok

-----------------------------------------------------------------------------
ProjectionInit ==
    /\ ledger = [stored |-> [e \in Trades |-> 0], gen |-> 0, mode |-> "disabled", build |-> "none",
                 checkpoints |-> {}, head |-> [a \in Accounts |-> NewHead],
                 lots |-> [l \in Lots |-> NoLot]]
    /\ blind = FALSE

ProjectionNext ==
    \/ \E b \in Builds, known, fast, fits \in BOOLEAN :
         \/ \E e \in Trades, t \in 1..MaxTradeTime : Write(b, known, e, t, fast, fits)
         \/ \E p \in Together, t, u \in 1..MaxTradeTime : WriteBoth(b, known, p[1], t, p[2], u, fast, fits)
    \/ \E b \in Builds, fits \in BOOLEAN : Repeat(b, fits)
    \/ \E b \in Builds, known \in BOOLEAN : Rebuild(b, known)
    \/ \E b \in Builds, e \in Trades, t \in 1..MaxTradeTime : Rewrite(b, e, t)
    \/ \E b \in Builds : Migrate(b) \/ Activate(b)
    \/ Deactivate

ProjectionSpec == ProjectionInit /\ [][ProjectionNext]_projectionVars

-----------------------------------------------------------------------------
ProjectionTypeOK ==
    /\ ledger.stored \in [Trades -> 0..MaxTradeTime] /\ ledger.gen \in 0..MaxGeneration
    /\ ledger.mode \in {"disabled", "enabled", "untrusted"} /\ ledger.build \in Builds \cup {"none"}
    /\ ledger.head \in [Accounts -> Heads] /\ \A l \in Lots : LotValue(ledger.lots[l])
    /\ blind \in BOOLEAN

\* Whichever path published them, the lots in the database are what a full
\* replay of all stored events gives, by one build: no lot is stale and no two
\* lots come from different programs.
PublishedIsReplay ==
    \E b \in Builds : LET replay == FullReplay(ledger, b) IN replay.ok /\ ledger.lots = replay.lots

\* A trusted checkpoint stands for exactly the stored events up to its end, and
\* the generation counts exactly the events after it: whatever was stored,
\* rewritten or voided since, no event hides in front of it.
HoldsPrefix(d, k) == k.prefix = Upto(d, k.end) /\ StrictAppendOf(d, k)
CheckpointsHoldPrefix == \A k \in ledger.checkpoints : HoldsPrefix(ledger, k)

\* What it holds of these events is what their replay gives.
CheckpointIsTrue(k) ==
    LET past == [ledger EXCEPT !.stored = [e \in Trades |-> IF e \in k.prefix THEN @[e] ELSE 0]]
        replay == FullReplay(past, k.build)
    IN
    /\ replay.ok /\ k.state = OpenLots(replay.lots)
    /\ \A j \in ledger.checkpoints \ {k} : NewerThan(j, k) \/ NewerThan(k, j)
CheckpointsAreTrue == \A k \in ledger.checkpoints : CheckpointIsTrue(k)

\* A reader that trusts an account's head gets what its own build would replay.
ReadersGetReplay ==
    \A b \in Builds :
      LET lots == FullReplay(ledger, b).lots IN
      \A l \in Lots : Readable(ledger, LotAccount[l], b) => ledger.lots[l] = lots[l]

\* What the publication, the triggers and the checkpoints owe their readers.
ProjectionInv == /\ ProjectionTypeOK /\ PublishedIsReplay /\ ReadersGetReplay
                 /\ CheckpointsHoldPrefix /\ CheckpointsAreTrue

\* After a write that knows its implementation every account can be read by
\* that build, also the accounts it did not touch: the generation is the
\* ledger's, so every head must follow every event.
AllReadable ==
    ~blind => \A a \in Accounts : ledger.head[a].status # "none" => Readable(ledger, a, ledger.build)

\* A preview that was resumed shows the open lots that the commit of the event
\* publishes, if the ledger takes it.
PreviewIsHonest ==
    CheckpointsOn(ledger) => \A b \in Builds, e \in Trades \ Stored(ledger), t \in 1..MaxTradeTime :
      LET committed == FullReplay([ledger EXCEPT !.stored[e] = t], b) IN
      PreviewResumes(b, e, t) /\ committed.ok =>
        PreviewLots(b, e, t).lots = OpenLots(committed.lots)
=============================================================================
