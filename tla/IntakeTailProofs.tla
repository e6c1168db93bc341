----------------------------- MODULE IntakeTailProofs -----------------------------
(***************************************************************************)
(* Proofs about what follows the intake of a trade: the backfill of         *)
(* HistoryCursor (no execution is left behind a cursor, and no cursor moves *)
(* back, for any accounts, runs, executions, lookback and delay that meet   *)
(* its assumption), and the portfolio refresh of PortfolioRefresh (a        *)
(* refresh counts as handed over only if portfolio management took a        *)
(* request that covers its execution, for any number of rows, accounts,     *)
(* claimers and any limit of a page).                                       *)
(***************************************************************************)
EXTENDS HistoryCursor, PortfolioRefresh, FiniteSetTheorems, WellFoundedInduction, TLAPS

(***************************************************************************)
(* The backfill.                                                            *)
(***************************************************************************)

(* What a step makes of one run, and of one execution.                      *)

LEMMA IdleRun == RunIdle \in BackfillRuns /\ RunIdle.pc = "idle"
  BY CursorAssumption DEF RunIdle, BackfillRuns, RunPCs

LEMMA RunEnds ==
    ASSUME CursorTypeOK, NEW r \in Runs, run' = [run EXCEPT ![r] = RunIdle]
    PROVE  /\ run' \in [Runs -> BackfillRuns]
           /\ \A q \in Runs : ~Running(q, "idle")' => q # r /\ run'[q] = run[q]
           /\ \A q \in Runs : Running(q, "queue")' => q # r /\ run'[q] = run[q]
  BY IdleRun DEF CursorTypeOK, Running

LEMMA LookbackBounds ==
    ASSUME CursorTypeOK, WindowsOverlap, NEW a \in CursorAccounts
    PROVE  /\ LookbackOf(a) \in Int /\ Lookback <= LookbackOf(a)
           /\ mark[a].set => clock - LookbackOf(a) <= mark[a].end - Overlap
  <1>1. clock \in Nat /\ mark[a].end \in Nat /\ Lookback \in Nat /\ Overlap \in Nat /\ MaxRun \in Nat
        /\ MaxRun + Overlap <= Lookback
    BY CursorAssumption DEF CursorTypeOK, Marks
  <1>2. mark[a].set => mark[a].end <= clock
    BY DEF WindowsOverlap
  <1>3. QED BY <1>1, <1>2 DEF LookbackOf

-----------------------------------------------------------------------------
(* One step per action.                                                    *)

LEMMA BeginRunKeeps ==
    ASSUME CursorInv, NEW r \in Runs, BeginRun(r) PROVE CursorInv'
  <1> USE CursorAssumption DEF CursorInv
  <1>1. PICK a \in CursorAccounts :
          /\ \A b \in CursorAccounts : LookbackOf(b) <= LookbackOf(a)
          /\ run' = [run EXCEPT ![r] = [RunIdle EXCEPT !.pc = "query", !.now = clock,
                                                       !.from = clock - LookbackOf(a)]]
    BY DEF BeginRun
  <1> DEFINE z == [RunIdle EXCEPT !.pc = "query", !.now = clock, !.from = clock - LookbackOf(a)]
  <1>2. run' = [run EXCEPT ![r] = z]
    BY <1>1
  <1>3. LookbackOf(a) \in Int /\ clock \in 0..MaxTime
    BY LookbackBounds DEF CursorTypeOK
  <1>4. z \in BackfillRuns /\ z.pc = "query" /\ z.now = clock /\ z.from = clock - LookbackOf(a)
    <2> DEFINE n == clock - LookbackOf(a)
    <2>1. n \in Int
      BY <1>3
    <2> HIDE DEF n
    <2>2. ASSUME NEW f, f = n PROVE [RunIdle EXCEPT !.pc = "query", !.now = clock, !.from = f] \in BackfillRuns
      BY <1>3, <2>1, <2>2, IdleRun DEF BackfillRuns, RunPCs
    <2>3. z \in BackfillRuns
      BY <2>2 DEF n
    <2>4. QED BY <2>3 DEF RunIdle
  <1>5. /\ run' \in [Runs -> BackfillRuns] /\ run'[r] = z
        /\ \A q \in Runs \ {r} : run'[q] = run[q]
    <2> HIDE DEF z
    <2>1. QED BY <1>2, <1>4 DEF CursorTypeOK
  <1>6. UNCHANGED <<clock, mark, base, exec>>
    BY DEF BeginRun
  <1> HIDE DEF z
  <1>7. CursorTypeOK'
    BY <1>5, <1>6 DEF CursorTypeOK
  <1>8. CursorCovers'
    BY <1>6 DEF CursorCovers
  <1>9. WindowsOverlap'
    <2>1. ASSUME NEW b \in CursorAccounts, mark[b].set
          PROVE  clock - LookbackOf(a) <= mark[b].end - Overlap
      <3>1. LookbackOf(b) <= LookbackOf(a) /\ LookbackOf(b) \in Int
            /\ clock - LookbackOf(b) <= mark[b].end - Overlap
        BY <1>1, <2>1, LookbackBounds
      <3>2. mark[b].end \in Int
        BY DEF CursorTypeOK, Marks
      <3>3. QED BY <1>3, <3>1, <3>2
    <2>2. clock <= clock + MaxRun /\ clock - LookbackOf(a) <= clock - Lookback
      BY <1>3, LookbackBounds
    <2>3. QED BY <1>3, <1>4, <1>5, <1>6, <2>1, <2>2 DEF WindowsOverlap, Running
  <1>10. SoundMeansQueued'
    BY <1>4, <1>5, <1>6 DEF SoundMeansQueued, Running
  <1>11. QED BY <1>7, <1>8, <1>9, <1>10

LEMMA QueryKeeps ==
    ASSUME CursorInv, NEW r \in Runs, QueryHistory(r) PROVE CursorInv'
  <1> USE DEF CursorInv
  <1>1. UNCHANGED <<clock, mark, base, exec>> /\ run[r].pc = "query"
    BY DEF QueryHistory, Running
  <1>2. CASE run' = [run EXCEPT ![r] = RunIdle]
    <2>1. CursorTypeOK' /\ CursorCovers'
      BY <1>1, <1>2, RunEnds DEF CursorTypeOK, CursorCovers
    <2>2. WindowsOverlap'
      BY <1>1, <1>2, RunEnds DEF WindowsOverlap, Running
    <2>3. SoundMeansQueued'
      BY <1>1, <1>2, RunEnds DEF SoundMeansQueued, Running
    <2>4. QED BY <2>1, <2>2, <2>3
  <1>3. ASSUME NEW C \in SUBSET CursorAccounts, NEW G \in SUBSET Window(r),
               {e \in Window(r) : AccountFor[e] \in C} \subseteq G,
               run' = [run EXCEPT ![r].pc = "queue", ![r].got = G, ![r].sound = C]
        PROVE  CursorInv'
    <2> DEFINE z == [run[r] EXCEPT !.pc = "queue", !.got = G, !.sound = C]
    <2>1. run[r] \in BackfillRuns /\ G \subseteq Executions
      BY DEF CursorTypeOK, Window
    <2>2. /\ z \in BackfillRuns /\ z.pc = "queue" /\ z.now = run[r].now /\ z.from = run[r].from
          /\ z.got = G /\ z.sound = C
      BY <2>1 DEF BackfillRuns, RunPCs
    <2>3. /\ run' \in [Runs -> BackfillRuns] /\ run'[r] = z
          /\ \A q \in Runs \ {r} : run'[q] = run[q]
      <3>1. run' = [run EXCEPT ![r] = z]
        BY <1>3
      <3> HIDE DEF z
      <3>2. QED BY <2>2, <3>1 DEF CursorTypeOK
    <2> HIDE DEF z
    <2>4. CursorTypeOK' /\ CursorCovers'
      BY <1>1, <2>3 DEF CursorTypeOK, CursorCovers
    <2>5. WindowsOverlap'
      BY <1>1, <2>2, <2>3 DEF WindowsOverlap, Running
    <2>6. SoundMeansQueued'
      <3>1. ASSUME NEW e \in Executions, e \in G PROVE exec[e].stage \in {"shown", "queued"}
        BY <3>1 DEF Window
      <3>2. ASSUME NEW e \in Executions, AccountFor[e] \in C, exec[e].stage # "none",
                   run[r].from <= exec[e].at, exec[e].at + Delay <= run[r].now
            PROVE  e \in G
        <4>1. exec[e] \in Execs /\ run[r].now \in Nat /\ clock \in Nat /\ Delay \in Nat
          BY <2>1, CursorAssumption DEF CursorTypeOK, BackfillRuns
        <4>2. run[r].now <= clock
          BY <1>1 DEF WindowsOverlap, Running
        <4>3. exec[e].stage # "hidden"
          BY <3>2, <4>1, <4>2 DEF WindowsOverlap, Execs
        <4>4. exec[e].stage \in {"shown", "queued"} /\ exec[e].at <= run[r].now
          BY <3>2, <4>1, <4>3 DEF Execs
        <4>5. QED BY <1>3, <3>2, <4>4 DEF Window
      <3>3. QED BY <1>1, <2>2, <2>3, <3>1, <3>2 DEF SoundMeansQueued, Running
    <2>7. QED BY <2>4, <2>5, <2>6
  <1>4. QED BY <1>2, <1>3 DEF QueryHistory

LEMMA QueueKeeps ==
    ASSUME CursorInv, NEW r \in Runs, QueuePayload(r) PROVE CursorInv'
  <1> USE DEF CursorInv
  <1>1. PICK e \in run[r].got :
          \/ /\ exec' = [exec EXCEPT ![e].stage = "queued"]
             /\ run' = [run EXCEPT ![r].got = @ \ {e}]
          \/ /\ \E F \in {{AccountFor[e]}, CursorAccounts} :
                  run' = [run EXCEPT ![r].got = @ \ {e}, ![r].sound = @ \ F]
             /\ UNCHANGED exec
    BY DEF QueuePayload
  <1>2. run[r] \in BackfillRuns /\ run[r].pc = "queue" /\ UNCHANGED <<clock, mark, base>>
    BY DEF QueuePayload, Running, CursorTypeOK
  <1>3. e \in Executions
    BY <1>2 DEF BackfillRuns
  <1>4. CASE /\ exec' = [exec EXCEPT ![e].stage = "queued"]
             /\ run' = [run EXCEPT ![r].got = @ \ {e}]
    <2> DEFINE z == [run[r] EXCEPT !.got = @ \ {e}]
               x == [exec[e] EXCEPT !.stage = "queued"]
    <2>1. z \in BackfillRuns /\ z.pc = run[r].pc /\ z.now = run[r].now /\ z.from = run[r].from
          /\ z.sound = run[r].sound /\ z.got = run[r].got \ {e}
      BY <1>2 DEF BackfillRuns
    <2>2. exec[e] \in Execs
      BY <1>3 DEF CursorTypeOK
    <2>3. x \in Execs /\ x.at = exec[e].at /\ x.stage = "queued"
      BY <2>2 DEF Execs
    <2>4. /\ run' \in [Runs -> BackfillRuns] /\ run'[r] = z
          /\ \A q \in Runs \ {r} : run'[q] = run[q]
      <3>1. run' = [run EXCEPT ![r] = z] BY <1>4
      <3> HIDE DEF z
      <3>2. QED BY <2>1, <3>1 DEF CursorTypeOK
    <2>5. /\ exec' \in [Executions -> Execs] /\ exec'[e] = x
          /\ \A d \in Executions \ {e} : exec'[d] = exec[d]
      <3>1. exec' = [exec EXCEPT ![e] = x] BY <1>4
      <3> HIDE DEF x
      <3>2. QED BY <1>3, <2>3, <3>1 DEF CursorTypeOK
    <2> HIDE DEF z, x
    <2>6. exec[e].stage # "none"
      BY <1>1, <1>2, <1>3 DEF SoundMeansQueued, Running
    <2>7. CursorTypeOK' /\ CursorCovers'
      BY <1>2, <2>3, <2>4, <2>5 DEF CursorTypeOK, CursorCovers
    <2>8. WindowsOverlap'
      BY <1>2, <2>1, <2>3, <2>4, <2>5, <2>6 DEF WindowsOverlap, Running
    <2>9. SoundMeansQueued'
      BY <1>2, <2>1, <2>3, <2>4, <2>5, <2>6 DEF SoundMeansQueued, Running
    <2>10. QED BY <2>7, <2>8, <2>9
  <1>5. ASSUME NEW F \in {{AccountFor[e]}, CursorAccounts},
               run' = [run EXCEPT ![r].got = @ \ {e}, ![r].sound = @ \ F], UNCHANGED exec
        PROVE  CursorInv'
    <2> DEFINE z == [run[r] EXCEPT !.got = @ \ {e}, !.sound = @ \ F]
    <2>1. /\ z \in BackfillRuns /\ z.pc = "queue" /\ z.now = run[r].now /\ z.from = run[r].from
          /\ z.got = run[r].got \ {e} /\ z.sound = run[r].sound \ F
      BY <1>2 DEF BackfillRuns
    <2>2. /\ run' \in [Runs -> BackfillRuns] /\ run'[r] = z
          /\ \A q \in Runs \ {r} : run'[q] = run[q]
      <3>1. run' = [run EXCEPT ![r] = z]
        BY <1>5
      <3> HIDE DEF z
      <3>2. QED BY <2>1, <3>1 DEF CursorTypeOK
    <2> HIDE DEF z
    <2>3. AccountFor[e] \in F
      BY <1>3, <1>5, CursorAssumption
    <2>4. CursorTypeOK' /\ CursorCovers'
      BY <1>2, <1>5, <2>2 DEF CursorTypeOK, CursorCovers
    <2>5. WindowsOverlap'
      BY <1>2, <1>5, <2>1, <2>2 DEF WindowsOverlap, Running
    <2>6. SoundMeansQueued'
      BY <1>2, <1>5, <2>1, <2>2, <2>3 DEF SoundMeansQueued, Running
    <2>7. QED BY <2>4, <2>5, <2>6
  <1>6. QED BY <1>1, <1>4, <1>5

LEMMA AdvanceKeeps ==
    ASSUME CursorInv, NEW r \in Runs, Advance(r) PROVE CursorInv'
  <1> USE DEF CursorInv
  <1>1. /\ run[r] \in BackfillRuns /\ run[r].pc = "queue" /\ run[r].got = {}
        /\ mark' = [a \in CursorAccounts |->
                      IF a \in Moves(r) THEN [set |-> TRUE, end |-> run[r].now] ELSE mark[a]]
        /\ base' = [a \in CursorAccounts |->
                      IF a \in Moves(r) /\ ~mark[a].set THEN run[r].from ELSE base[a]]
        /\ run' = [run EXCEPT ![r] = RunIdle] /\ UNCHANGED <<clock, exec>>
    BY DEF Advance, Running, CursorTypeOK
  <1>2. /\ run[r].now \in 0..MaxTime /\ run[r].from \in Int /\ clock \in Int
        /\ Delay \in Nat /\ Overlap \in Nat /\ Lookback \in Nat /\ MaxRun \in Nat
        /\ Delay <= Overlap /\ MaxRun + Overlap <= Lookback
    BY <1>1, CursorAssumption DEF BackfillRuns, CursorTypeOK
  <1>3. run[r].now <= clock /\ clock <= run[r].now + MaxRun
    BY <1>1 DEF WindowsOverlap, Running
  <1>4. /\ run' \in [Runs -> BackfillRuns]
        /\ \A q \in Runs : ~Running(q, "idle")' => q # r /\ run'[q] = run[q]
        /\ \A q \in Runs : Running(q, "queue")' => q # r /\ run'[q] = run[q]
    BY <1>1, RunEnds
  <1>5. CursorTypeOK'
    <2>1. [set |-> TRUE, end |-> run[r].now] \in Marks
      BY <1>2 DEF Marks
    <2>2. mark' \in [CursorAccounts -> Marks]
      BY <1>1, <2>1 DEF CursorTypeOK
    <2>3. base' \in [CursorAccounts -> Int]
      BY <1>1, <1>2 DEF CursorTypeOK
    <2>4. QED BY <1>1, <1>4, <2>2, <2>3 DEF CursorTypeOK
  <1>6. CursorCovers'
    <2> SUFFICES ASSUME NEW e \in Executions, NEW a, a = AccountFor[e],
                        exec[e].stage # "none", mark'[a].set,
                        base'[a] <= exec[e].at, exec[e].at + Delay <= mark'[a].end
                 PROVE  exec[e].stage = "queued"
      BY <1>1 DEF CursorCovers
    <2>1. a \in CursorAccounts /\ exec[e].at \in Nat /\ mark[a].end \in Nat
      BY CursorAssumption DEF CursorTypeOK, Execs, Marks
    <2>2. CASE a \notin Moves(r)
      <3>1. mark'[a] = mark[a] /\ base'[a] = base[a]
        BY <1>1, <2>1, <2>2
      <3>2. QED BY <3>1 DEF CursorCovers
    <2>3. CASE a \in Moves(r) /\ run[r].from <= exec[e].at
      <3>1. mark'[a].end = run[r].now /\ a \in run[r].sound
        BY <1>1, <2>1, <2>3 DEF Moves
      <3>2. QED BY <1>1, <2>3, <3>1 DEF SoundMeansQueued, Running
    <2>4. CASE a \in Moves(r) /\ ~(run[r].from <= exec[e].at)
      <3>1. mark[a].set /\ base[a] <= exec[e].at
        BY <1>1, <1>2, <2>1, <2>4
      <3>2. run[r].from <= mark[a].end - Overlap
        BY <1>1, <2>1, <3>1 DEF WindowsOverlap, Running
      <3>3. exec[e].at + Delay <= mark[a].end
        BY <1>2, <2>1, <2>4, <3>2
      <3>4. QED BY <3>1, <3>3 DEF CursorCovers
    <2>5. QED BY <2>2, <2>3, <2>4
  <1>7. WindowsOverlap'
    <2>1. ASSUME NEW a \in CursorAccounts, mark'[a].set PROVE mark'[a].end <= clock
      BY <1>1, <1>3, <2>1 DEF WindowsOverlap
    <2>2. ASSUME NEW q \in Runs, run'[q].pc # "idle", NEW a \in CursorAccounts, mark'[a].set
          PROVE  run[q].from <= mark'[a].end - Overlap
      <3>1. run'[q] = run[q] /\ run[q].pc # "idle"
        BY <1>4, <2>2 DEF Running
      <3>2. run[q].from \in Int /\ run[q].now \in Int
        BY DEF CursorTypeOK, BackfillRuns
      <3>3. run[q].now <= clock /\ run[q].from <= run[q].now - Lookback
        BY <3>1 DEF WindowsOverlap, Running
      <3>4. CASE a \in Moves(r)
        BY <1>1, <1>2, <1>3, <3>2, <3>3, <3>4
      <3>5. CASE a \notin Moves(r)
        BY <1>1, <2>2, <3>1, <3>5 DEF WindowsOverlap, Running
      <3>6. QED BY <3>4, <3>5
    <2>3. QED BY <1>1, <1>4, <2>1, <2>2 DEF WindowsOverlap, Running
  <1>8. SoundMeansQueued'
    BY <1>1, <1>4 DEF SoundMeansQueued, Running
  <1>9. QED BY <1>5, <1>6, <1>7, <1>8

LEMMA CrashRunKeeps ==
    ASSUME CursorInv, NEW r \in Runs, CrashRun(r) PROVE CursorInv'
  <1>1. CursorTypeOK' /\ CursorCovers'
    BY RunEnds DEF CursorInv, CrashRun, CursorTypeOK, CursorCovers
  <1>2. WindowsOverlap' /\ SoundMeansQueued'
    BY RunEnds DEF CursorInv, CrashRun, WindowsOverlap, SoundMeansQueued, Running
  <1>3. QED BY <1>1, <1>2 DEF CursorInv

LEMMA HappenKeeps ==
    ASSUME CursorInv, NEW e \in Executions, Happen(e) PROVE CursorInv'
  <1> USE DEF CursorInv
  <1> DEFINE x == [stage |-> "hidden", at |-> clock]
  <1>1. exec[e].stage = "none" /\ exec' = [exec EXCEPT ![e] = x] /\ UNCHANGED <<clock, mark, base, run>>
    BY DEF Happen
  <1>2. x \in Execs /\ clock \in Nat /\ Delay \in Nat /\ 0 < Delay
    BY CursorAssumption DEF Execs, CursorTypeOK
  <1>3. exec' \in [Executions -> Execs] /\ exec'[e] = x
        /\ \A d \in Executions \ {e} : exec'[d] = exec[d]
    BY <1>1, <1>2 DEF CursorTypeOK
  <1>4. CursorTypeOK'
    BY <1>1, <1>3 DEF CursorTypeOK
  <1>5. CursorCovers'
    <2>1. AccountFor[e] \in CursorAccounts
      BY CursorAssumption
    <2>2. ~(mark[AccountFor[e]].set /\ clock + Delay <= mark[AccountFor[e]].end)
      BY <1>2, <2>1 DEF WindowsOverlap, CursorTypeOK, Marks
    <2>3. QED BY <1>1, <1>3, <2>2 DEF CursorCovers
  <1>6. WindowsOverlap'
    BY <1>1, <1>2, <1>3 DEF WindowsOverlap, Running
  <1>7. SoundMeansQueued'
    <2>1. ASSUME NEW r \in Runs, Running(r, "queue")
          PROVE  e \notin run[r].got /\ ~(clock + Delay <= run[r].now)
      <3>1. run[r].now <= clock /\ run[r].now \in Nat
        BY <2>1 DEF WindowsOverlap, Running, CursorTypeOK, BackfillRuns
      <3>2. e \notin run[r].got
        BY <1>1, <2>1 DEF SoundMeansQueued
      <3>3. QED BY <1>2, <3>1, <3>2
    <2>2. QED BY <1>1, <1>3, <2>1 DEF SoundMeansQueued, Running
  <1>8. QED BY <1>4, <1>5, <1>6, <1>7

LEMMA ShowKeeps ==
    ASSUME CursorInv, NEW e \in Executions, Show(e) PROVE CursorInv'
  <1> USE DEF CursorInv
  <1> DEFINE x == [exec[e] EXCEPT !.stage = "shown"]
  <1>1. exec[e] \in Execs /\ exec[e].stage = "hidden" /\ UNCHANGED <<clock, mark, base, run>>
    BY DEF Show, CursorTypeOK
  <1>2. exec' = [exec EXCEPT ![e] = x]
    BY DEF Show
  <1>3. x \in Execs /\ x.at = exec[e].at /\ x.stage = "shown"
    BY <1>1 DEF Execs
  <1> HIDE DEF x
  <1>4. exec' \in [Executions -> Execs] /\ exec'[e] = x
        /\ \A d \in Executions \ {e} : exec'[d] = exec[d]
    BY <1>2, <1>3 DEF CursorTypeOK
  <1>5. CursorTypeOK' /\ CursorCovers'
    BY <1>1, <1>3, <1>4 DEF CursorTypeOK, CursorCovers
  <1>6. WindowsOverlap'
    BY <1>1, <1>3, <1>4 DEF WindowsOverlap, Running
  <1>7. SoundMeansQueued'
    BY <1>1, <1>3, <1>4 DEF SoundMeansQueued, Running
  <1>8. QED BY <1>5, <1>6, <1>7

LEMMA PassHourKeeps ==
    ASSUME CursorInv, PassHour PROVE CursorInv'
  <1> USE DEF CursorInv
  <1>1. clock \in 0..MaxTime /\ clock < MaxTime /\ clock' = clock + 1 /\ UNCHANGED <<mark, base, exec, run>>
        /\ MaxTime \in Nat
    BY CursorAssumption DEF PassHour, CursorTypeOK
  <1>2. CursorTypeOK' /\ CursorCovers' /\ SoundMeansQueued'
    BY <1>1 DEF CursorTypeOK, CursorCovers, SoundMeansQueued, Running
  <1>3. WindowsOverlap'
    <2>1. ASSUME NEW e \in Executions, exec[e].stage # "none"
          PROVE  exec[e].at <= clock + 1 /\ (exec[e].stage = "hidden" => clock + 1 < exec[e].at + Delay)
      BY <1>1, <2>1 DEF WindowsOverlap, PassHour, CursorTypeOK, Execs
    <2>2. ASSUME NEW a \in CursorAccounts, mark[a].set PROVE mark[a].end <= clock + 1
      BY <1>1, <2>2 DEF WindowsOverlap, CursorTypeOK, Marks
    <2>3. ASSUME NEW r \in Runs, run[r].pc # "idle"
          PROVE  run[r].now <= clock + 1 /\ clock + 1 <= run[r].now + MaxRun
      BY <1>1, <2>3 DEF WindowsOverlap, PassHour, Running, CursorTypeOK, BackfillRuns
    <2>4. QED BY <1>1, <2>1, <2>2, <2>3 DEF WindowsOverlap, Running
  <1>4. QED BY <1>2, <1>3

-----------------------------------------------------------------------------
(* The theorems.                                                           *)

LEMMA CursorStarts == CursorInit => CursorInv
  <1> SUFFICES ASSUME CursorInit PROVE CursorInv
    OBVIOUS
  <1>1. CursorTypeOK
    BY CursorAssumption, IdleRun DEF CursorInit, CursorTypeOK, Marks, Execs
  <1>2. CursorCovers /\ WindowsOverlap /\ SoundMeansQueued
    BY IdleRun, CursorAssumption DEF CursorInit, CursorCovers, WindowsOverlap, SoundMeansQueued, Running
  <1>3. QED BY <1>1, <1>2 DEF CursorInv

LEMMA CursorKeeps == CursorInv /\ [CursorNext]_cursorVars => CursorInv'
  <1> SUFFICES ASSUME CursorInv, [CursorNext]_cursorVars PROVE CursorInv'
    OBVIOUS
  <1>1. CASE UNCHANGED cursorVars
    BY <1>1 DEF cursorVars, CursorInv, CursorTypeOK, CursorCovers, WindowsOverlap, SoundMeansQueued, Running
  <1>2. CASE PassHour
    BY <1>2, PassHourKeeps
  <1>3. ASSUME NEW e \in Executions, Happen(e) \/ Show(e) PROVE CursorInv'
    BY <1>3, HappenKeeps, ShowKeeps
  <1>4. ASSUME NEW r \in Runs, Backfill(r) PROVE CursorInv'
    BY <1>4, BeginRunKeeps, QueryKeeps, QueueKeeps, AdvanceKeeps, CrashRunKeeps DEF Backfill
  <1>5. QED BY <1>1, <1>2, <1>3, <1>4 DEF CursorNext

\* No execution is left behind a cursor, for any number of accounts, runs and
\* executions, provided a run ends within the lookback less the overlap.
THEOREM CursorInvariant == CursorSpec => []CursorInv
  <1>1. QED BY CursorStarts, CursorKeeps, PTL DEF CursorSpec

\* No cursor moves back, whichever of two overlapping runs is the last to write
\* it (_advance_history_checkpoints).
THEOREM CursorsMoveForward == CursorSpec => CursorForward
  <1>1. ASSUME CursorInv, [CursorNext]_cursorVars
        PROVE  [\A a \in CursorAccounts : mark[a].set => mark'[a].set /\ mark[a].end <= mark'[a].end]_cursorVars
    <2>1. \A a \in CursorAccounts : mark[a].end \in Nat
      BY <1>1 DEF CursorInv, CursorTypeOK, Marks
    <2>2. CASE UNCHANGED mark
      BY <2>1, <2>2
    <2>3. ASSUME NEW r \in Runs, Advance(r)
          PROVE  \A a \in CursorAccounts : mark[a].set => mark'[a].set /\ mark[a].end <= mark'[a].end
      <3>1. run[r].now \in Nat
        BY <1>1 DEF CursorInv, CursorTypeOK, BackfillRuns
      <3>2. QED BY <2>1, <2>3, <3>1 DEF Advance, Moves, Newer
    <2>4. QED
      BY <1>1, <2>2, <2>3 DEF CursorNext, Backfill, PassHour, Happen, Show, BeginRun, QueryHistory,
                              QueuePayload, CrashRun, cursorVars
  <1>2. QED BY <1>1, CursorInvariant, PTL DEF CursorSpec, CursorForward

(***************************************************************************)
(* The portfolio refresh.                                                   *)
(***************************************************************************)

(* The first and the last row of a set.                                    *)

Less == {p \in Nat \X Nat : p[1] < p[2]}

LEMMA LessIsWellFounded == IsWellFoundedOn(Less, Nat)
  <1>1. Less = OpToRel(<, Nat)
    BY DEF Less, OpToRel
  <1>2. QED BY <1>1, NatLessThanWellFounded

LEMMA FirstIsLeast ==
    ASSUME NEW S \in SUBSET Nat, S # {}
    PROVE  First(S) \in S /\ \A q \in S : First(S) <= q
  <1>1. PICK x \in S : \A y \in S : ~ (<<y, x>> \in Less)
    BY LessIsWellFounded, WFMin
  <1>2. ASSUME NEW y \in S PROVE x <= y
    <2>1. x \in Nat /\ y \in Nat /\ <<y, x>> \notin Less
      BY <1>1
    <2>2. ~(y < x)
      BY <2>1 DEF Less
    <2>3. QED BY <2>1, <2>2
  <1>3. QED BY <1>2 DEF First

LEMMA LastIsGreatest ==
    ASSUME NEW S \in SUBSET RefreshRows, S # {} PROVE Last(S) \in S
  <1> DEFINE T == {RefreshCount - x : x \in S}
  <1>1. T \in SUBSET Nat /\ T # {}
    <2>1. ASSUME NEW x \in S PROVE RefreshCount - x \in Nat
      BY RefreshAssumption DEF RefreshRows
    <2>2. QED BY <2>1
  <1>2. First(T) \in T /\ \A q \in T : First(T) <= q
    BY <1>1, FirstIsLeast
  <1>3. PICK x \in S : First(T) = RefreshCount - x
    BY <1>2
  <1>4. ASSUME NEW q \in S PROVE q <= x
    <2>1. RefreshCount - x <= RefreshCount - q
      BY <1>2, <1>3
    <2>2. q \in Nat /\ x \in Nat /\ RefreshCount \in Nat
      BY RefreshAssumption DEF RefreshRows
    <2>3. QED BY <2>1, <2>2
  <1>5. QED BY <1>4 DEF Last

LEMMA CursorIsARow ==
    ASSUME NEW S \in SUBSET RefreshRows PROVE CursorAfter(S) \in RefreshRows \cup {0}
  <1>1. CASE S = {}
    <2>1. Cardinality(S) # PageLimit
      BY <1>1, FS_EmptySet, RefreshAssumption
    <2>2. QED BY <2>1 DEF CursorAfter
  <1>2. CASE S # {}
    BY <1>2, LastIsGreatest DEF CursorAfter
  <1>3. QED BY <1>1, <1>2

-----------------------------------------------------------------------------
(* Kinds of steps.                                                         *)

LEMMA IdleCall == CallIdle \in Calls /\ CallIdle.pc = "idle" /\ CallIdle.todo = {}
  BY DEF CallIdle, Calls

\* The rows change, but not what was claimed or handed over.
LEMMA RowsKeep ==
    ASSUME RefreshInv, intent' \in [RefreshRows -> Intents], faults' \in 0..MaxFaults,
           UNCHANGED <<pm, call, cursor>>,
           \A r \in RefreshRows : /\ intent'[r].id = intent[r].id
                                  /\ intent'[r].accepted = intent[r].accepted
                                  /\ intent[r].wanted => intent'[r].wanted
    PROVE  RefreshInv'
  <1> USE DEF RefreshInv
  <1>1. \A r \in RefreshRows : intent[r].id \in RefreshRows \cup {0}
    BY DEF RefreshTypeOK, Intents
  <1>2. RefreshTypeOK'
    BY DEF RefreshTypeOK
  <1>3. AcceptedIsTrue'
    BY <1>1 DEF AcceptedIsTrue
  <1>4. RequestsCover' /\ TakenIsClaimed'
    BY <1>1 DEF RequestsCover, TakenIsClaimed
  <1>5. CallsHold'
    <2>1. \A t \in Callers : /\ call[t].id \in RefreshRows \cup {0}
                             /\ call[t].todo \subseteq RefreshRows
      BY DEF RefreshTypeOK, Calls
    <2>2. QED BY <2>1 DEF CallsHold, Holds
  <1>6. QED BY <1>2, <1>3, <1>4, <1>5

\* One thread goes on, with a request that it holds.
LEMMA CallKeeps ==
    ASSUME RefreshInv, NEW t \in Callers, NEW z \in Calls, call' = [call EXCEPT ![t] = z],
           Holds(z), UNCHANGED <<intent, pm>>, cursor' \in RefreshRows \cup {0}, faults' \in 0..MaxFaults
    PROVE  RefreshInv'
  <1> USE DEF RefreshInv
  <1>1. /\ call' \in [Callers -> Calls] /\ call'[t] = z
        /\ \A u \in Callers \ {t} : call'[u] = call[u]
    BY DEF RefreshTypeOK
  <1>2. RefreshTypeOK'
    BY <1>1 DEF RefreshTypeOK
  <1>3. AcceptedIsTrue' /\ RequestsCover' /\ TakenIsClaimed'
    BY DEF AcceptedIsTrue, RequestsCover, TakenIsClaimed
  <1>4. CallsHold'
    BY <1>1 DEF CallsHold, Holds
  <1>5. QED BY <1>2, <1>3, <1>4

LEMMA FaultCounts == ASSUME RefreshTypeOK, faults < MaxFaults PROVE faults + 1 \in 0..MaxFaults
  BY RefreshAssumption DEF RefreshTypeOK

\* Rows of S are claimed under the request of one of them.
LEMMA ClaimKeeps ==
    ASSUME RefreshInv, NEW S \in SUBSET RefreshRows, NEW i \in S, MayClaim(i), intent' = Bound(S, i),
           NEW t \in Callers, NEW z \in Calls, call' = [call EXCEPT ![t] = z],
           z.pc = "send", z.id = i, z.todo \subseteq call[t].todo, UNCHANGED <<pm, cursor, faults>>
    PROVE  RefreshInv'
  <1> USE DEF RefreshInv
  <1>1. /\ call' \in [Callers -> Calls] /\ call'[t] = z
        /\ \A u \in Callers \ {t} : call'[u] = call[u]
    BY DEF RefreshTypeOK
  <1>2. /\ intent \in [RefreshRows -> Intents]
        /\ \A r \in RefreshRows : intent[r].id \in RefreshRows \cup {0}
    BY DEF RefreshTypeOK, Intents
  <1>3. \A r \in RefreshRows : i \in RefreshRows /\ i # 0 /\ (MayClaim(r) => intent[r].wanted /\ intent[r].id = 0)
    <2>1. i \in RefreshRows /\ \A r \in RefreshRows : MayClaim(r) => intent[r].wanted /\ intent[r].id = 0
      BY DEF MayClaim
    <2>2. i # 0
      BY <2>1, RefreshAssumption DEF RefreshRows
    <2>3. QED BY <2>1, <2>2
  <1>4. ASSUME NEW r \in RefreshRows
        PROVE  /\ intent'[r] \in Intents
               /\ intent'[r].id = IF r \in S /\ MayClaim(r) THEN i ELSE intent[r].id
               /\ intent'[r].accepted = intent[r].accepted /\ intent'[r].wanted = intent[r].wanted
    <2>1. CASE r \in S /\ MayClaim(r)
      <3>1. intent'[r] = [intent[r] EXCEPT !.id = i]
        BY <2>1 DEF Bound
      <3>2. QED BY <1>2, <1>3, <2>1, <3>1 DEF Intents
    <2>2. CASE ~(r \in S /\ MayClaim(r))
      <3>1. intent'[r] = intent[r]
        BY <2>2 DEF Bound
      <3>2. QED BY <1>2, <2>2, <3>1
    <2>3. QED BY <2>1, <2>2
  <1>5. intent' = [r \in RefreshRows |-> intent'[r]]
    BY DEF Bound
  <1>6. \A r \in RefreshRows : intent[r].id # 0 => intent'[r].id = intent[r].id
    BY <1>3, <1>4
  <1>7. pm[i] = {}
    BY <1>3 DEF TakenIsClaimed
  <1>8. RefreshTypeOK'
    BY <1>1, <1>4, <1>5 DEF RefreshTypeOK
  <1>9. AcceptedIsTrue'
    BY <1>2, <1>4, <1>6 DEF AcceptedIsTrue
  <1>10. RequestsCover'
    BY <1>2, <1>3, <1>4, <1>6, <1>7 DEF RequestsCover
  <1>11. TakenIsClaimed'
    <2>1. \A j \in RefreshRows : j # 0
      BY RefreshAssumption DEF RefreshRows
    <2>2. QED BY <1>6, <2>1 DEF TakenIsClaimed
  <1>12. CallsHold'
    <2>1. \A u \in Callers : call[u].id \in RefreshRows \cup {0} /\ call[u].todo \subseteq RefreshRows
      BY DEF RefreshTypeOK, Calls
    <2>2. \A u \in Callers \ {t} : Holds(call[u])'
      BY <1>1, <1>6, <2>1 DEF CallsHold, Holds
    <2>3. Holds(call[t])'
      <3>1. \A r \in z.todo : intent'[r].id # 0
        BY <1>6, <2>1 DEF CallsHold, Holds
      <3>2. intent'[i].id = i
        BY <1>3, <1>4
      <3>3. QED BY <1>1, <1>3, <3>1, <3>2 DEF Holds
    <2>4. QED BY <2>2, <2>3 DEF CallsHold
  <1>13. QED BY <1>8, <1>9, <1>10, <1>11, <1>12

\* PM takes a request, which then covers every row that goes under it.
LEMMA TakenKeeps ==
    ASSUME RefreshInv, NEW t \in Callers, call[t].pc = "send", Taken(call[t].id),
           NEW z \in Calls, call' = [call EXCEPT ![t] = z],
           z.pc # "send", z.pc = "accept" => z.id = call[t].id, z.todo = call[t].todo,
           UNCHANGED <<intent, cursor, faults>>
    PROVE  RefreshInv'
  <1> USE DEF RefreshInv
  <1> DEFINE i == call[t].id
             W == {r \in RefreshRows : intent[r].wanted}
  <1>1. /\ call' \in [Callers -> Calls] /\ call'[t] = z
        /\ \A u \in Callers \ {t} : call'[u] = call[u]
    BY DEF RefreshTypeOK
  <1>2. i \in RefreshRows /\ i # 0 /\ intent[i].id = i /\ i \in W
    BY DEF RefreshTypeOK, Calls, CallsHold, Holds, RequestsCover
  <1>3. /\ pm' \in [RefreshRows -> SUBSET RefreshRows]
        /\ \A j \in RefreshRows \ {i} : pm'[j] = pm[j]
        /\ pm'[i] = IF pm[i] = {} THEN W ELSE pm[i]
    BY <1>2 DEF Taken, RefreshTypeOK
  <1>4. \A j \in RefreshRows : pm[j] # {} => pm'[j] = pm[j]
    BY <1>3
  <1>5. RefreshTypeOK'
    BY <1>1, <1>3 DEF RefreshTypeOK
  <1>6. \A r \in RefreshRows : intent[r].id \in RefreshRows \cup {0}
    BY DEF RefreshTypeOK, Intents
  <1>7. AcceptedIsTrue'
    BY <1>4, <1>6 DEF AcceptedIsTrue
  <1>8. RequestsCover'
    <2>1. ASSUME NEW r \in RefreshRows, intent[r].id = i PROVE r \in pm'[i]
      BY <1>2, <1>3, <2>1 DEF RequestsCover
    <2>2. QED BY <1>3, <1>6, <2>1 DEF RequestsCover
  <1>9. TakenIsClaimed'
    BY <1>2, <1>3 DEF TakenIsClaimed
  <1>10. CallsHold'
    <2>1. \A u \in Callers : call[u].id \in RefreshRows \cup {0}
      BY DEF RefreshTypeOK, Calls
    <2>2. \A u \in Callers \ {t} : Holds(call[u])'
      BY <1>1, <1>4, <2>1 DEF CallsHold, Holds
    <2>3. pm'[i] # {}
      BY <1>2, <1>3
    <2>4. Holds(call[t])'
      BY <1>1, <1>2, <2>3 DEF CallsHold, Holds
    <2>5. QED BY <2>2, <2>4 DEF CallsHold
  <1>11. QED BY <1>5, <1>7, <1>8, <1>9, <1>10

-----------------------------------------------------------------------------
(* One step per action.                                                    *)

LEMMA RowLifeKeeps ==
    ASSUME RefreshInv, NEW r \in RefreshRows,
           SaveIntent(r) \/ SettleIntent(r) \/ Redeliver(r) \/ ReconcileRow(r)
    PROVE  RefreshInv'
  <1>1. PICK z : /\ intent' = [intent EXCEPT ![r] = z]
                 /\ \/ z = [intent[r] EXCEPT !.wanted = TRUE]
                    \/ \E s \in {"handled", "pending", "conflict"} : z = [intent[r] EXCEPT !.status = s]
                    \/ z = [intent[r] EXCEPT !.status = "handled", !.reconciled = TRUE]
    <2>1. CASE SaveIntent(r)
      BY <2>1 DEF SaveIntent
    <2>2. CASE SettleIntent(r)
      BY <2>2 DEF SettleIntent
    <2>3. CASE Redeliver(r)
      BY <2>3 DEF Redeliver
    <2>4. CASE ReconcileRow(r)
      BY <2>4 DEF ReconcileRow
    <2>5. QED BY <2>1, <2>2, <2>3, <2>4
  <1>2. intent \in [RefreshRows -> Intents] /\ faults \in 0..MaxFaults
    BY DEF RefreshInv, RefreshTypeOK
  <1>3. /\ z \in Intents /\ z.id = intent[r].id /\ z.accepted = intent[r].accepted
        /\ intent[r].wanted => z.wanted
    BY <1>1, <1>2 DEF Intents
  <1>4. faults' \in 0..MaxFaults /\ UNCHANGED <<pm, call, cursor>>
    BY <1>2, FaultCounts DEF SaveIntent, SettleIntent, Redeliver, ReconcileRow, RefreshInv
  <1>5. QED BY <1>1, <1>2, <1>3, <1>4, RowsKeep

LEMMA ClaimIntentsKeeps ==
    ASSUME RefreshInv, NEW t \in Callers, ClaimIntents(t) PROVE RefreshInv'
  <1>1. PICK S \in SUBSET RefreshRows : \E i \in S :
          /\ MayClaim(i) /\ intent' = Bound(S, i)
          /\ call' = [call EXCEPT ![t].pc = "send", ![t].id = intent'[i].id]
    BY DEF ClaimIntents
  <1>2. PICK i \in S : /\ MayClaim(i) /\ intent' = Bound(S, i)
                       /\ call' = [call EXCEPT ![t].pc = "send", ![t].id = intent'[i].id]
    BY <1>1
  <1>3. intent[i] \in Intents /\ i \in RefreshRows
    BY DEF RefreshInv, RefreshTypeOK
  <1>4. intent'[i] = [intent[i] EXCEPT !.id = i]
    BY <1>2, <1>3 DEF Bound
  <1>5. intent'[i].id = i
    BY <1>3, <1>4 DEF Intents
  <1> DEFINE x == [call[t] EXCEPT !.pc = "send"]
             z == [x EXCEPT !.id = i]
  <1>6. call' = [call EXCEPT ![t] = z]
    BY <1>2, <1>5
  <1>7. x \in Calls /\ x.pc = "send" /\ x.todo = call[t].todo
    BY DEF RefreshInv, RefreshTypeOK, Calls
  <1> HIDE DEF x
  <1>8. z \in Calls /\ z.pc = "send" /\ z.id = i /\ z.todo = call[t].todo
    BY <1>3, <1>7 DEF Calls
  <1> HIDE DEF z
  <1>9. UNCHANGED <<pm, cursor, faults>>
    BY DEF ClaimIntents
  <1>10. z.todo \subseteq call[t].todo
    BY <1>8
  <1>11. S \in SUBSET RefreshRows /\ i \in S /\ MayClaim(i) /\ intent' = Bound(S, i)
    BY <1>2
  <1>12. QED BY <1>6, <1>8, <1>9, <1>10, <1>11, ClaimKeeps

LEMMA ListPendingKeeps == ASSUME RefreshInv, "loop" \in Callers, ListPending PROVE RefreshInv'
  <1> DEFINE x == [call["loop"] EXCEPT !.pc = "replay"]
             z == [x EXCEPT !.todo = Page]
  <1>1. Page \subseteq RefreshRows /\ \A r \in Page : intent[r].id # 0
    BY DEF Page, Handoffs, Waiting
  <1>2. x \in Calls /\ x.pc = "replay"
    BY DEF RefreshInv, RefreshTypeOK, Calls
  <1>3. call' = [call EXCEPT !["loop"] = z]
    BY DEF ListPending
  <1> HIDE DEF x
  <1>4. z \in Calls /\ z.pc = "replay" /\ z.todo = Page
    BY <1>1, <1>2 DEF Calls
  <1> HIDE DEF z
  <1>5. Holds(z)
    BY <1>1, <1>4 DEF Holds
  <1>6. UNCHANGED <<intent, pm>> /\ cursor' \in RefreshRows \cup {0} /\ faults' \in 0..MaxFaults
    BY <1>1, CursorIsARow DEF ListPending, RefreshInv, RefreshTypeOK
  <1>7. QED BY <1>3, <1>4, <1>5, <1>6, CallKeeps

LEMMA ReplayKeeps == ASSUME RefreshInv, "loop" \in Callers, Replay PROVE RefreshInv'
  <1> DEFINE r == First(call["loop"].todo)
             w == [call["loop"] EXCEPT !.pc = "send"]
             x == [w EXCEPT !.back = "replay"]
             y == [x EXCEPT !.id = intent[r].id]
             z == [y EXCEPT !.todo = @ \ {r}]
  <1>1. call["loop"] \in Calls /\ call["loop"].todo \subseteq RefreshRows /\ call["loop"].todo # {}
    BY DEF RefreshInv, RefreshTypeOK, Calls, Replay
  <1>2. call["loop"].todo \in SUBSET Nat
    BY <1>1 DEF RefreshRows
  <1>3. r \in call["loop"].todo
    BY <1>1, <1>2, FirstIsLeast
  <1>4. call' = [call EXCEPT !["loop"] = z]
    BY DEF Replay
  <1> HIDE DEF r
  <1>5. w \in Calls /\ w.pc = "send" /\ w.todo = call["loop"].todo
    BY <1>1 DEF Calls
  <1> HIDE DEF w
  <1>6. x \in Calls /\ x.pc = "send" /\ x.todo = call["loop"].todo
    BY <1>5 DEF Calls
  <1> HIDE DEF x
  <1>7. /\ intent[r].id \in RefreshRows \cup {0} /\ intent[r].id # 0
        /\ intent[intent[r].id].id = intent[r].id
    BY <1>1, <1>3 DEF RefreshInv, RefreshTypeOK, Intents, CallsHold, Holds, RequestsCover
  <1>8. y \in Calls /\ y.pc = "send" /\ y.todo = call["loop"].todo /\ y.id = intent[r].id
    BY <1>6, <1>7 DEF Calls
  <1> HIDE DEF y
  <1>9. z \in Calls /\ z.pc = "send" /\ z.todo \subseteq call["loop"].todo /\ z.id = intent[r].id
    BY <1>8 DEF Calls
  <1> HIDE DEF z
  <1>10. Holds(z)
    BY <1>7, <1>9 DEF Holds, RefreshInv, CallsHold
  <1>11. UNCHANGED <<intent, pm>> /\ cursor' \in RefreshRows \cup {0} /\ faults' \in 0..MaxFaults
    BY DEF Replay, RefreshInv, RefreshTypeOK
  <1>12. QED BY <1>4, <1>9, <1>10, <1>11, CallKeeps

LEMMA ListUnclaimedKeeps == ASSUME RefreshInv, "loop" \in Callers, ListUnclaimed PROVE RefreshInv'
  <1> DEFINE L == {r \in RefreshRows : intent[r].status = "handled" /\ MayClaim(r)}
             x == [call["loop"] EXCEPT !.pc = "groups"]
             z == [x EXCEPT !.listed = L]
  <1>1. x \in Calls /\ x.pc = "groups" /\ x.todo = call["loop"].todo
    BY DEF RefreshInv, RefreshTypeOK, Calls
  <1>2. call' = [call EXCEPT !["loop"] = z]
    BY DEF ListUnclaimed
  <1>3. L \subseteq RefreshRows
    OBVIOUS
  <1> HIDE DEF x, L
  <1>4. z \in Calls /\ z.pc = "groups" /\ z.todo = call["loop"].todo
    BY <1>1, <1>3 DEF Calls
  <1> HIDE DEF z
  <1>5. Holds(z)
    BY <1>4 DEF Holds, RefreshInv, CallsHold
  <1>6. UNCHANGED <<intent, pm>> /\ cursor' \in RefreshRows \cup {0} /\ faults' \in 0..MaxFaults
    BY DEF ListUnclaimed, RefreshInv, RefreshTypeOK
  <1>7. QED BY <1>2, <1>4, <1>5, <1>6, CallKeeps

LEMMA ClaimGroupKeeps == ASSUME RefreshInv, "loop" \in Callers, ClaimGroup PROVE RefreshInv'
  <1> DEFINE S == {r \in call["loop"].listed : AccountOf[r] = AccountOf[First(call["loop"].listed)]}
             C == {r \in S : MayClaim(r)}
             id == IF C = {} THEN 0 ELSE First(C)
             pc == IF C = {} THEN "groups" ELSE "send"
             w == [call["loop"] EXCEPT !.listed = @ \ S]
             x == [w EXCEPT !.back = "groups"]
             y == [x EXCEPT !.id = id]
             z == [y EXCEPT !.pc = pc]
  <1>1. call' = [call EXCEPT !["loop"] = z] /\ intent' = IF C = {} THEN intent ELSE Bound(S, First(C))
    BY DEF ClaimGroup
  <1>2. call["loop"] \in Calls /\ S \in SUBSET RefreshRows /\ C \subseteq S /\ \A r \in C : MayClaim(r)
    BY DEF RefreshInv, RefreshTypeOK, Calls
  <1>3. UNCHANGED <<pm, cursor, faults>>
    BY DEF ClaimGroup
  <1> HIDE DEF S, C
  <1>4. C # {} => First(C) \in C
    <2>1. C \in SUBSET Nat
      BY <1>2 DEF RefreshRows
    <2>2. QED BY <2>1, FirstIsLeast
  <1>5. /\ id \in RefreshRows \cup {0} /\ pc \in {"groups", "send"}
        /\ C = {} => pc = "groups"
        /\ C # {} => pc = "send" /\ id = First(C)
    BY <1>2, <1>4
  <1> HIDE DEF id, pc
  <1>6. w \in Calls /\ w.todo = call["loop"].todo
    BY <1>2 DEF Calls
  <1> HIDE DEF w
  <1>7. x \in Calls /\ x.todo = call["loop"].todo
    BY <1>6 DEF Calls
  <1> HIDE DEF x
  <1>8. y \in Calls /\ y.todo = call["loop"].todo /\ y.id = id
    BY <1>5, <1>7 DEF Calls
  <1> HIDE DEF y
  <1>9. z \in Calls /\ z.todo = call["loop"].todo /\ z.id = id /\ z.pc = pc
    BY <1>5, <1>8 DEF Calls
  <1> HIDE DEF z
  <1>10. CASE C = {}
    <2>1. Holds(z)
      BY <1>5, <1>9, <1>10 DEF Holds, RefreshInv, CallsHold
    <2>2. UNCHANGED <<intent, pm>> /\ cursor' \in RefreshRows \cup {0} /\ faults' \in 0..MaxFaults
      BY <1>1, <1>3, <1>10 DEF RefreshInv, RefreshTypeOK
    <2>3. QED BY <1>1, <1>9, <2>1, <2>2, CallKeeps
  <1>11. CASE C # {}
    <2>1. First(C) \in S /\ MayClaim(First(C)) /\ intent' = Bound(S, First(C))
      BY <1>1, <1>2, <1>4, <1>11
    <2>2. z.pc = "send" /\ z.id = First(C) /\ z.todo \subseteq call["loop"].todo
      BY <1>5, <1>9, <1>11
    <2>3. QED BY <1>1, <1>2, <1>3, <1>9, <2>1, <2>2, ClaimKeeps
  <1>12. QED BY <1>10, <1>11

\* A call that ends, or begins anew, holds nothing.
LEMMA CallEnds ==
    ASSUME RefreshInv, NEW t \in Callers, call' = [call EXCEPT ![t] = CallIdle], UNCHANGED <<intent, pm>>,
           cursor' \in RefreshRows \cup {0}, faults' \in 0..MaxFaults
    PROVE  RefreshInv'
  <1>1. Holds(CallIdle)
    BY IdleCall DEF Holds
  <1>2. QED BY <1>1, IdleCall, CallKeeps

LEMMA CycleEndsKeeps == ASSUME RefreshInv, "loop" \in Callers, CycleEnds PROVE RefreshInv'
  BY CallEnds DEF CycleEnds, RefreshInv, RefreshTypeOK

LEMMA CrashCallerKeeps == ASSUME RefreshInv, NEW t \in Callers, CrashCaller(t) PROVE RefreshInv'
  <1>1. call' = [call EXCEPT ![t] = CallIdle] /\ UNCHANGED <<intent, pm>> /\ faults' \in 0..MaxFaults
    BY FaultCounts DEF CrashCaller, RefreshInv
  <1>2. cursor' \in RefreshRows \cup {0}
    BY DEF CrashCaller, RefreshInv, RefreshTypeOK
  <1>3. QED BY <1>1, <1>2, CallEnds

-----------------------------------------------------------------------------
(* The dispatch.                                                           *)

LEMMA AcceptedKeeps == ASSUME RefreshInv, NEW t \in Callers, Accepted(t) PROVE RefreshInv'
  <1> DEFINE z == [call[t] EXCEPT !.pc = "accept"]
  <1>1. z \in Calls /\ z.pc = "accept" /\ z.id = call[t].id /\ z.todo = call[t].todo
    BY DEF RefreshInv, RefreshTypeOK, Calls
  <1>2. /\ call[t].pc = "send" /\ Taken(call[t].id) /\ call' = [call EXCEPT ![t] = z]
        /\ UNCHANGED <<intent, cursor, faults>>
    BY DEF Accepted, Calling
  <1> HIDE DEF z
  <1>3. z.pc # "send"
    BY <1>1
  <1>4. QED BY <1>1, <1>2, <1>3, TakenKeeps

\* A thread goes back to where its dispatch began.
LEMMA GoesBack ==
    ASSUME RefreshInv, NEW t \in Callers, call' = [call EXCEPT ![t].pc = call[t].back, ![t].id = 0]
    PROVE  \E z \in Calls : /\ call' = [call EXCEPT ![t] = z] /\ z.todo = call[t].todo
                            /\ z.pc \notin {"send", "accept"} /\ Holds(z)
  <1> DEFINE b == call[t].back
             x == [call[t] EXCEPT !.pc = b]
             z == [x EXCEPT !.id = 0]
  <1>1. call[t] \in Calls /\ b \in {"idle", "replay", "groups"}
    BY DEF RefreshInv, RefreshTypeOK, Calls
  <1>2. call' = [call EXCEPT ![t] = z]
    OBVIOUS
  <1> HIDE DEF b
  <1>3. x \in Calls /\ x.pc = b /\ x.todo = call[t].todo
    BY <1>1 DEF Calls
  <1> HIDE DEF x
  <1>4. z \in Calls /\ z.pc = b /\ z.todo = call[t].todo
    BY <1>3 DEF Calls
  <1> HIDE DEF z
  <1>5. z.pc \notin {"send", "accept"}
    BY <1>1, <1>4
  <1>6. Holds(z)
    BY <1>4, <1>5 DEF Holds, RefreshInv, CallsHold
  <1>7. QED BY <1>2, <1>4, <1>5, <1>6

LEMMA UnansweredKeeps == ASSUME RefreshInv, NEW t \in Callers, Unanswered(t) PROVE RefreshInv'
  <1>1. PICK z \in Calls : /\ call' = [call EXCEPT ![t] = z] /\ z.todo = call[t].todo
                           /\ z.pc \notin {"send", "accept"} /\ Holds(z)
    BY GoesBack DEF Unanswered
  <1>2. call[t].pc = "send" /\ UNCHANGED <<intent, cursor, faults>>
    BY DEF Unanswered, Calling
  <1>3. z.pc # "send" /\ z.pc # "accept"
    BY <1>1
  <1>4. CASE Taken(call[t].id)
    BY <1>1, <1>2, <1>3, <1>4, TakenKeeps
  <1>5. CASE UNCHANGED pm
    <2>1. cursor' \in RefreshRows \cup {0} /\ faults' \in 0..MaxFaults
      BY <1>2 DEF RefreshInv, RefreshTypeOK
    <2>2. QED BY <1>1, <1>2, <1>5, <2>1, CallKeeps
  <1>6. QED BY <1>4, <1>5 DEF Unanswered

LEMMA ConfirmHandoffKeeps == ASSUME RefreshInv, NEW t \in Callers, ConfirmHandoff(t) PROVE RefreshInv'
  <1> USE DEF RefreshInv
  <1>1. PICK z \in Calls : /\ call' = [call EXCEPT ![t] = z] /\ z.todo = call[t].todo
                           /\ z.pc \notin {"send", "accept"} /\ Holds(z)
    BY GoesBack DEF ConfirmHandoff
  <1>2. /\ call' \in [Callers -> Calls] /\ call'[t] = z
        /\ \A u \in Callers \ {t} : call'[u] = call[u]
    BY <1>1 DEF RefreshTypeOK
  <1>3. call[t].id \in RefreshRows /\ pm[call[t].id] # {} /\ UNCHANGED <<pm, cursor, faults>>
    BY DEF ConfirmHandoff, Calling, CallsHold, Holds, RefreshTypeOK, Calls
  <1>4. \A r \in RefreshRows : intent[r] \in Intents /\ intent[r].id \in RefreshRows \cup {0}
    BY DEF RefreshTypeOK, Intents
  <1>5. ASSUME NEW r \in RefreshRows
        PROVE  /\ intent'[r] \in Intents /\ intent'[r].id = intent[r].id
               /\ intent'[r].wanted = intent[r].wanted
               /\ intent'[r].accepted = (intent[r].accepted \/ intent[r].id = call[t].id)
    <2>1. CASE intent[r].id = call[t].id
      <3>1. intent'[r] = [intent[r] EXCEPT !.accepted = TRUE]
        BY <2>1 DEF ConfirmHandoff
      <3>2. QED BY <1>4, <2>1, <3>1 DEF Intents
    <2>2. CASE intent[r].id # call[t].id
      <3>1. intent'[r] = intent[r]
        BY <2>2 DEF ConfirmHandoff
      <3>2. intent[r].accepted \in BOOLEAN
        BY <1>4 DEF Intents
      <3>3. QED BY <1>4, <2>2, <3>1, <3>2
    <2>3. QED BY <2>1, <2>2
  <1>6. intent' = [r \in RefreshRows |-> intent'[r]]
    BY DEF ConfirmHandoff
  <1>7. RefreshTypeOK'
    BY <1>2, <1>3, <1>5, <1>6 DEF RefreshTypeOK
  <1>8. AcceptedIsTrue'
    <2>1. call[t].id # 0
      BY <1>3 DEF RefreshRows
    <2>2. ASSUME NEW r \in RefreshRows, intent'[r].accepted PROVE intent[r].id # 0 /\ r \in pm[intent[r].id]
      <3>1. CASE intent[r].accepted
        BY <3>1 DEF AcceptedIsTrue
      <3>2. CASE intent[r].id = call[t].id
        BY <1>3, <2>1, <3>2 DEF RequestsCover
      <3>3. QED BY <1>5, <2>2, <3>1, <3>2
    <2>3. QED BY <1>3, <1>5, <2>2 DEF AcceptedIsTrue
  <1>9. RequestsCover' /\ TakenIsClaimed'
    BY <1>3, <1>4, <1>5 DEF RequestsCover, TakenIsClaimed
  <1>10. CallsHold'
    <2>1. \A u \in Callers : call[u].id \in RefreshRows \cup {0} /\ call[u].todo \subseteq RefreshRows
      BY DEF RefreshTypeOK, Calls
    <2>2. \A u \in Callers \ {t} : Holds(call[u])'
      BY <1>2, <1>3, <1>5, <2>1 DEF CallsHold, Holds
    <2>3. z.todo \subseteq RefreshRows
      BY <1>1, <2>1
    <2>4. Holds(call[t])'
      BY <1>1, <1>2, <1>5, <2>3 DEF Holds
    <2>5. QED BY <2>2, <2>4 DEF CallsHold
  <1>11. QED BY <1>7, <1>8, <1>9, <1>10

-----------------------------------------------------------------------------
LEMMA RefreshInitInv == ASSUME RefreshInit PROVE RefreshInv
  <1>1. RefreshTypeOK
    BY RefreshAssumption, IdleCall DEF RefreshInit, RefreshTypeOK, Intents
  <1>2. AcceptedIsTrue /\ RequestsCover /\ TakenIsClaimed
    BY DEF RefreshInit, AcceptedIsTrue, RequestsCover, TakenIsClaimed
  <1>3. CallsHold
    BY IdleCall DEF RefreshInit, CallsHold, Holds
  <1>4. QED BY <1>1, <1>2, <1>3 DEF RefreshInv

LEMMA RefreshStep == ASSUME RefreshInv, [RefreshNext]_refreshVars PROVE RefreshInv'
  <1>1. "loop" \in Callers
    BY DEF Callers
  <1>2. CASE UNCHANGED refreshVars
    <2>1. UNCHANGED <<pm, call, cursor>> /\ intent' \in [RefreshRows -> Intents] /\ faults' \in 0..MaxFaults
      BY <1>2 DEF refreshVars, RefreshInv, RefreshTypeOK
    <2>2. intent' = intent
      BY <1>2 DEF refreshVars
    <2>3. QED BY <2>1, <2>2, RowsKeep
  <1>3. CASE \E r \in RefreshRows : SaveIntent(r) \/ SettleIntent(r) \/ Redeliver(r) \/ ReconcileRow(r)
    BY <1>3, RowLifeKeeps
  <1>4. CASE LoopStep
    BY <1>1, <1>4, ListPendingKeeps, ReplayKeeps, ListUnclaimedKeeps, ClaimGroupKeeps, CycleEndsKeeps DEF LoopStep
  <1>5. CASE \E t \in Callers : ClaimIntents(t) \/ Dispatch(t) \/ CrashCaller(t)
    BY <1>5, ClaimIntentsKeeps, AcceptedKeeps, UnansweredKeeps, ConfirmHandoffKeeps, CrashCallerKeeps DEF Dispatch
  <1>6. QED BY <1>2, <1>3, <1>4, <1>5 DEF RefreshNext

\* A refresh counts as handed over only if portfolio management took the request
\* it goes under after the refresh was wanted: whatever is claimed, replayed,
\* grouped, lost, reopened or interrupted in between (RefreshInv).
THEOREM HandoffsAreTrue == RefreshSpec => []RefreshInv
  <1>1. RefreshInit => RefreshInv
    BY RefreshInitInv
  <1>2. RefreshInv /\ [RefreshNext]_refreshVars => RefreshInv'
    BY RefreshStep
  <1>3. QED BY <1>1, <1>2, PTL DEF RefreshSpec

===============================================================================
