----------------------------- MODULE HistoryCursor -----------------------------
(***************************************************************************)
(* The cursors of the history backfill                                      *)
(* (src/application/trades/backfill.py): a run asks the broker for the      *)
(* executions since a little before the oldest cursor of its accounts,      *)
(* queues them in the trade inbox, and moves the cursor of each account     *)
(* whose answer was complete and durably queued to the end of its window.   *)
(* Runs of the listener and of the command line overlap.                    *)
(*                                                                         *)
(* Time is counted in hours.  Executions are independent of each other, so  *)
(* a few that happen at any time stand for all; the failure of another one  *)
(* is the failure of its account.                                           *)
(***************************************************************************)
EXTENDS Integers

CONSTANTS
    CursorAccounts, Runs,
    Executions,   \* executions that are followed
    AccountFor,   \* the account of each
    Lookback,     \* lookback_hours
    Overlap,      \* what a window adds to the time since the cursor: one hour
    Delay,        \* hours after which the broker's history shows an execution
    MaxRun,       \* hours a run takes at most
    MaxTime       \* bound: hours

\* A run ends well within the configured lookback, six hours unless configured.
ASSUME CursorAssumption ==
    /\ Lookback \in Nat /\ Overlap \in Nat /\ Delay \in Nat /\ MaxRun \in Nat /\ MaxTime \in Nat
    /\ 0 < Delay /\ Delay <= Overlap /\ MaxRun + Overlap <= Lookback
    /\ AccountFor \in [Executions -> CursorAccounts]

VARIABLES
    clock,
    mark,    \* mark[a]: the checkpoint of account a's scope
    base,    \* base[a]: where the window began that first set it (ghost)
    exec,    \* exec[e]: when e happened, whether the history shows it and the inbox holds it
    run      \* run[r]: local state of run r

cursorVars == <<clock, mark, base, exec, run>>

Marks == [set : BOOLEAN, end : 0..MaxTime]
Execs == [stage : {"none", "hidden", "shown", "queued"}, at : 0..MaxTime]
RunPCs == {"idle", "query", "queue"}
BackfillRuns == [pc : RunPCs, now : 0..MaxTime, from : Int, got : SUBSET Executions,
                 sound : SUBSET CursorAccounts]
RunIdle == [pc |-> "idle", now |-> 0, from |-> 0, got |-> {}, sound |-> {}]
Running(r, pc) == run[r].pc = pc

-----------------------------------------------------------------------------
\* _effective_lookback_hours
LookbackOf(a) ==
    IF mark[a].set /\ clock - mark[a].end > 0 /\ clock - mark[a].end + Overlap > Lookback
    THEN clock - mark[a].end + Overlap ELSE Lookback

\* The checkpoint is read, and the window is the longest of its accounts'.
BeginRun(r) ==
    /\ Running(r, "idle")
    /\ \E a \in CursorAccounts :
         /\ \A b \in CursorAccounts : LookbackOf(b) <= LookbackOf(a)
         /\ run' = [run EXCEPT ![r] = [RunIdle EXCEPT !.pc = "query", !.now = clock,
                                                      !.from = clock - LookbackOf(a)]]
    /\ UNCHANGED <<clock, mark, base, exec>>

Window(r) == {e \in Executions : exec[e].stage \in {"shown", "queued"} /\ run[r].from <= exec[e].at
                                   /\ exec[e].at <= run[r].now}

\* The broker's answer, complete for some of the accounts, or an error.
QueryHistory(r) ==
    /\ Running(r, "query")
    /\ \/ \E C \in SUBSET CursorAccounts : \E G \in SUBSET Window(r) :
            /\ {e \in Window(r) : AccountFor[e] \in C} \subseteq G
            /\ run' = [run EXCEPT ![r].pc = "queue", ![r].got = G, ![r].sound = C]
       \/ run' = [run EXCEPT ![r] = RunIdle]
    /\ UNCHANGED <<clock, mark, base, exec>>

\* One payload is queued; or it is not, and its account, or every account when
\* the payload does not tell, is not durable.
QueuePayload(r) ==
    /\ Running(r, "queue")
    /\ \E e \in run[r].got :
         \/ /\ exec' = [exec EXCEPT ![e].stage = "queued"]
            /\ run' = [run EXCEPT ![r].got = @ \ {e}]
         \/ /\ \E F \in {{AccountFor[e]}, CursorAccounts} :
                 run' = [run EXCEPT ![r].got = @ \ {e}, ![r].sound = @ \ F]
            /\ UNCHANGED exec
    /\ UNCHANGED <<clock, mark, base>>

\* Mutant: the last run to finish has its way.
NewerAlways(r, a) == TRUE
\* _advance_history_checkpoints: the checkpoint as it is now, under the file's lock.
Newer(r, a) == ~mark[a].set \/ mark[a].end < run[r].now

\* Mutant: a window is done once it has been asked for.
MovesAsked(r) == {a \in CursorAccounts : Newer(r, a)}
Moves(r) == {a \in run[r].sound : Newer(r, a)}

Advance(r) ==
    /\ Running(r, "queue") /\ run[r].got = {}
    /\ mark' = [a \in CursorAccounts |-> IF a \in Moves(r) THEN [set |-> TRUE, end |-> run[r].now] ELSE mark[a]]
    /\ base' = [a \in CursorAccounts |-> IF a \in Moves(r) /\ ~mark[a].set THEN run[r].from ELSE base[a]]
    /\ run' = [run EXCEPT ![r] = RunIdle]
    /\ UNCHANGED <<clock, exec>>

CrashRun(r) ==
    /\ ~Running(r, "idle")
    /\ run' = [run EXCEPT ![r] = RunIdle]
    /\ UNCHANGED <<clock, mark, base, exec>>

-----------------------------------------------------------------------------
(* The market and the clock.                                               *)

Happen(e) ==
    /\ exec[e].stage = "none"
    /\ exec' = [exec EXCEPT ![e] = [stage |-> "hidden", at |-> clock]]
    /\ UNCHANGED <<clock, mark, base, run>>

Show(e) ==
    /\ exec[e].stage = "hidden"
    /\ exec' = [exec EXCEPT ![e].stage = "shown"]
    /\ UNCHANGED <<clock, mark, base, run>>

PassHour ==
    /\ clock < MaxTime
    /\ \A e \in Executions : exec[e].stage = "hidden" => clock + 1 < exec[e].at + Delay
    /\ \A r \in Runs : ~Running(r, "idle") => clock + 1 <= run[r].now + MaxRun
    /\ clock' = clock + 1
    /\ UNCHANGED <<mark, base, exec, run>>

-----------------------------------------------------------------------------
CursorInit ==
    /\ clock = 0
    /\ mark = [a \in CursorAccounts |-> [set |-> FALSE, end |-> 0]]
    /\ base = [a \in CursorAccounts |-> 0]
    /\ exec = [e \in Executions |-> [stage |-> "none", at |-> 0]]
    /\ run = [r \in Runs |-> RunIdle]

Backfill(r) == BeginRun(r) \/ QueryHistory(r) \/ QueuePayload(r) \/ Advance(r) \/ CrashRun(r)
CursorNext ==
    \/ PassHour
    \/ \E e \in Executions : Happen(e) \/ Show(e)
    \/ \E r \in Runs : Backfill(r)

CursorSpec == CursorInit /\ [][CursorNext]_cursorVars

-----------------------------------------------------------------------------
CursorTypeOK ==
    /\ clock \in 0..MaxTime /\ mark \in [CursorAccounts -> Marks] /\ base \in [CursorAccounts -> Int]
    /\ exec \in [Executions -> Execs] /\ run \in [Runs -> BackfillRuns]

\* No execution is left behind a cursor: whatever happened since the account's
\* first window began, long enough before the cursor to have been shown, is in
\* the inbox.
CursorCovers ==
    \A e \in Executions :
      LET a == AccountFor[e]
      IN  /\ exec[e].stage # "none" /\ mark[a].set
          /\ base[a] <= exec[e].at /\ exec[e].at + Delay <= mark[a].end
          => exec[e].stage = "queued"

\* A hidden execution is recent, a run is young, and its window begins before
\* every cursor there is, or that another run may set.
WindowsOverlap ==
    /\ \A e \in Executions : exec[e].stage # "none" =>
         exec[e].at <= clock /\ (exec[e].stage = "hidden" => clock < exec[e].at + Delay)
    /\ \A a \in CursorAccounts : mark[a].set => mark[a].end <= clock
    /\ \A r \in Runs : ~Running(r, "idle") =>
         /\ run[r].now <= clock /\ clock <= run[r].now + MaxRun /\ run[r].from <= run[r].now - Lookback
         /\ \A a \in CursorAccounts : mark[a].set => run[r].from <= mark[a].end - Overlap

\* What a run has still to queue, or has queued, of the accounts it vouches for.
SoundMeansQueued ==
    \A r \in Runs : Running(r, "queue") =>
      \A e \in Executions :
        /\ e \in run[r].got => exec[e].stage \in {"shown", "queued"}
        /\ AccountFor[e] \in run[r].sound /\ exec[e].stage # "none"
           /\ run[r].from <= exec[e].at /\ exec[e].at + Delay <= run[r].now
           => e \in run[r].got \/ exec[e].stage = "queued"

\* The inductive invariant of the proofs.
CursorInv == CursorTypeOK /\ CursorCovers /\ WindowsOverlap /\ SoundMeansQueued

\* A cursor never moves back, whichever run is the last to write it.
CursorForward ==
    [][\A a \in CursorAccounts : mark[a].set => mark'[a].set /\ mark[a].end <= mark'[a].end]_cursorVars
=============================================================================
