--------------------------- MODULE ConfigTransaction ---------------------------
(***************************************************************************)
(* The publication of a configuration generation                           *)
(* (src/application/config_authoring_transaction.py): config.yaml and the   *)
(* files generated from it are replaced one by one under a lock and a       *)
(* journal; whoever takes the lock next finishes or undoes what a failed    *)
(* or killed publisher left behind.  Files may also be written by hand, or  *)
(* by a build that does not take the lock.                                  *)
(*                                                                         *)
(* Contents are version numbers: the files of one generation carry its      *)
(* number, a file written outside carries one of its own, 0 is no file.     *)
(***************************************************************************)
EXTENDS Integers

CONSTANTS
    Publishers,
    Targets,     \* generated files
    Fresh,       \* those of them that do not exist yet
    MaxVersion   \* bound: publications and outside writes

Source == "config.yaml"
Files  == Targets \cup {Source}

ASSUME ConfigAssumption == Fresh \subseteq Targets /\ Source \notin Targets /\ MaxVersion \in Nat \ {0}

VARIABLES
    file,     \* file[f]: the version in place
    last,     \* the last version number given out
    txn,      \* the transaction directory
    pub,      \* pub[p]: local state of publisher p
    told,     \* the last generation that was committed (ghost)
    outside,  \* some file was written outside (ghost)
    edited    \* those written outside while a transaction waited for its recovery (ghost)

configVars == <<file, last, txn, pub, told, outside, edited>>

Versions == 0..MaxVersion

\* whole: the journal's copies of the files are all there.
Transactions == [phase : {"none", "prepared", "committing", "committed"}, before : Versions, after : Versions,
                 old : [Files -> Versions], whole : BOOLEAN]
NoTxn == [phase |-> "none", before |-> 0, after |-> 0, old |-> [f \in Files |-> 0], whole |-> TRUE]

\* seen: the source the new configuration was derived from; then: what follows a recovery.
PubPCs == {"idle", "wait", "enter", "recover", "restore", "sweep", "check", "prepare", "begin", "write"}
PubIdle == [pc |-> "idle", seen |-> 0, todo |-> {}, forward |-> FALSE, then |-> "idle"]
Pubs == [pc : PubPCs, seen : Versions, todo : SUBSET Files, forward : BOOLEAN, then : {"idle", "check"}]

PubAt(p, pc) == pub[p].pc = pc
PubGo(p, pc) == pub' = [pub EXCEPT ![p].pc = pc]
PubEnd(p)    == pub' = [pub EXCEPT ![p] = PubIdle]
Holding(p)   == pub[p].pc \notin {"idle", "wait"}
LockFree     == \A p \in Publishers : ~Holding(p)

-----------------------------------------------------------------------------
\* The command loads config.yaml and waits for the lock.
LoadConfig(p) ==
    /\ PubAt(p, "idle")
    /\ pub' = [pub EXCEPT ![p] = [PubIdle EXCEPT !.pc = "wait", !.seen = file[Source]]]
    /\ UNCHANGED <<file, last, txn, told, outside, edited>>

TakeLock(p) ==
    /\ PubAt(p, "wait") /\ LockFree
    /\ PubGo(p, "enter")
    /\ UNCHANGED <<file, last, txn, told, outside, edited>>

\* _recover_incomplete_transactions
AfterEnter == IF txn.phase = "none" THEN "check" ELSE IF txn.phase = "committed" THEN "sweep" ELSE "recover"

Enter(p) ==
    /\ PubAt(p, "enter")
    /\ pub' = [pub EXCEPT ![p].pc = AfterEnter, ![p].then = "check"]
    /\ UNCHANGED <<file, last, txn, told, outside, edited>>

-----------------------------------------------------------------------------
(* _recover_transaction, of the one left behind or of one's own.           *)

\* Mutant: only the source tells whether somebody else has written.
SourceKnown == file[Source] \in {txn.after, txn.before} /\ txn.whole
\* The source, the journal and every target are as the transaction knows them.
Recoverable == /\ file[Source] \in {txn.after, txn.before} /\ txn.whole
               /\ \A f \in Files : file[f] \in {txn.after, txn.old[f]}

\* The source is written last: once it is new, everything is.
Forward == file[Source] = txn.after

RecoverTxn(p) ==
    /\ PubAt(p, "recover")
    /\ IF Recoverable
       THEN pub' = [pub EXCEPT ![p].pc = "restore", ![p].todo = Files, ![p].forward = Forward]
       ELSE PubEnd(p)
    /\ UNCHANGED <<file, last, txn, told, outside, edited>>

\* The files in the order of the manifest, the source last.
Turn(p, f) == f \in pub[p].todo /\ (f = Source => pub[p].todo = {Source})

\* Mutant: undoing writes back what was there, and deletes nothing.
RestoredExisting(p, f) == IF pub[p].forward THEN txn.after ELSE IF txn.old[f] = 0 THEN file[f] ELSE txn.old[f]
Restored(p, f) == IF pub[p].forward THEN txn.after ELSE txn.old[f]

RestoreFile(p) ==
    /\ PubAt(p, "restore")
    /\ \/ \E f \in Files :
            /\ Turn(p, f)
            /\ file' = [file EXCEPT ![f] = Restored(p, f)]
            /\ pub' = [pub EXCEPT ![p].todo = @ \ {f}]
       \/ /\ pub[p].todo # {}
          /\ PubEnd(p) /\ UNCHANGED file
    /\ UNCHANGED <<last, txn, told, outside, edited>>

ReadBack(p) ==
    /\ PubAt(p, "restore") /\ pub[p].todo = {}
    /\ IF file[Source] = (IF pub[p].forward THEN txn.after ELSE txn.before)
       THEN PubGo(p, "sweep") ELSE PubEnd(p)
    /\ UNCHANGED <<file, last, txn, told, outside, edited>>

\* rmtree: the journal goes before the manifest, or after it, or the removal fails.
SweepDirectory(p) ==
    /\ PubAt(p, "sweep")
    /\ \/ txn' = NoTxn /\ pub' = [pub EXCEPT ![p].pc = pub[p].then]
       \/ txn.whole /\ txn' = [txn EXCEPT !.whole = FALSE] /\ UNCHANGED pub
       \/ PubEnd(p) /\ UNCHANGED txn
    /\ UNCHANGED <<file, last, told, outside, edited>>

-----------------------------------------------------------------------------
(* _publish_yaml_config_generation.                                        *)

\* Mutant: the source is compared before the lock is taken, not under it.
SourceUnread(p) == TRUE
SourceIsSeen(p) == file[Source] = pub[p].seen

CheckSource(p) ==
    /\ PubAt(p, "check")
    /\ IF SourceIsSeen(p) THEN PubGo(p, "prepare") ELSE PubEnd(p)
    /\ UNCHANGED <<file, last, txn, told, outside, edited>>

\* _prepare_transaction_manifest: the files as they are now, and the new ones.
PrepareTxn(p) ==
    /\ PubAt(p, "prepare") /\ last < MaxVersion
    /\ txn' = [phase |-> "prepared", before |-> pub[p].seen, after |-> last + 1, old |-> file, whole |-> TRUE]
    /\ last' = last + 1
    /\ PubGo(p, "begin")
    /\ UNCHANGED <<file, told, outside, edited>>

\* A failure from here on makes the publisher recover its own transaction.
Compensate(p) == /\ pub' = [pub EXCEPT ![p].pc = "recover", ![p].then = "idle"]
                 /\ UNCHANGED <<file, txn>>

BeginCommit(p) ==
    /\ PubAt(p, "begin")
    /\ \/ /\ txn' = [txn EXCEPT !.phase = "committing"]
          /\ pub' = [pub EXCEPT ![p].pc = "write", ![p].todo = Files]
          /\ UNCHANGED file
       \/ Compensate(p)
    /\ UNCHANGED <<last, told, outside, edited>>

PublishFile(p) ==
    /\ PubAt(p, "write")
    /\ \/ \E f \in Files :
            /\ Turn(p, f)
            /\ file' = [file EXCEPT ![f] = txn.after]
            /\ pub' = [pub EXCEPT ![p].todo = @ \ {f}]
            /\ UNCHANGED txn
       \/ Compensate(p)
    /\ UNCHANGED <<last, told, outside, edited>>

CommitTxn(p) ==
    /\ PubAt(p, "write") /\ pub[p].todo = {}
    /\ txn' = [txn EXCEPT !.phase = "committed"]
    /\ pub' = [pub EXCEPT ![p].pc = "sweep", ![p].then = "idle"]
    /\ told' = txn.after
    /\ UNCHANGED <<file, last, outside, edited>>

CrashPublisher(p) ==
    /\ PubEnd(p) /\ ~PubAt(p, "idle")
    /\ UNCHANGED <<file, last, txn, told, outside, edited>>

-----------------------------------------------------------------------------
Outside(f) ==
    /\ last < MaxVersion
    /\ file' = [file EXCEPT ![f] = last + 1]
    /\ last' = last + 1 /\ outside' = TRUE
    /\ edited' = IF LockFree /\ txn.phase \in {"prepared", "committing"} THEN edited \cup {f} ELSE edited
    /\ UNCHANGED <<txn, pub, told>>

ConfigInit ==
    /\ file = [f \in Files |-> IF f \in Fresh THEN 0 ELSE 1]
    /\ last = 1 /\ txn = NoTxn /\ pub = [p \in Publishers |-> PubIdle]
    /\ told = 0 /\ outside = FALSE /\ edited = {}

Publish(p) ==
    \/ LoadConfig(p) \/ TakeLock(p) \/ Enter(p) \/ RecoverTxn(p) \/ RestoreFile(p) \/ ReadBack(p)
    \/ SweepDirectory(p) \/ CheckSource(p) \/ PrepareTxn(p) \/ BeginCommit(p) \/ PublishFile(p)
    \/ CommitTxn(p) \/ CrashPublisher(p)

ConfigNext == (\E p \in Publishers : Publish(p)) \/ (\E f \in Files : Outside(f))

ConfigSpec == ConfigInit /\ [][ConfigNext]_configVars

-----------------------------------------------------------------------------
ConfigTypeOK ==
    /\ file \in [Files -> Versions] /\ last \in Versions /\ told \in Versions
    /\ txn \in Transactions /\ pub \in [Publishers -> Pubs]
    /\ outside \in BOOLEAN /\ edited \in SUBSET Files

\* The files in fn are one generation: that of the source, or the first one,
\* in which the fresh files are missing.
OneGeneration(fn) ==
    \A f \in Targets : fn[f] = fn[Source] \/ (fn[f] = 0 /\ fn[Source] = 1 /\ f \in Fresh)

\* All or nothing: with no transaction open, the files are of one generation,
\* unless somebody wrote them outside; and a committed generation is never
\* taken back, whoever recovers what.
AllOrNothing ==
    /\ txn.phase = "none" /\ ~outside => OneGeneration(file)
    /\ \A f \in Files : file[f] >= told

\* The lock: one publisher holds it, and what it is at tells where the
\* transaction is.
LockKept ==
    /\ \A p, q \in Publishers : Holding(p) /\ Holding(q) => p = q
    /\ \A p \in Publishers :
         /\ pub[p].pc \in {"check", "prepare"} => txn.phase = "none"
         /\ PubAt(p, "begin") => txn.phase = "prepared"
         /\ PubAt(p, "write") => txn.phase = "committing"
         /\ pub[p].pc \in {"begin", "write"} => txn.before = pub[p].seen
         /\ pub[p].pc \in {"recover", "restore"} => txn.phase \in {"prepared", "committing"}
         /\ PubAt(p, "sweep") => txn.phase # "none"

\* Version numbers only grow: the new generation's lies above the committed one
\* and above all it replaces.
VersionsGrow ==
    /\ told <= last /\ (\A f \in Files : file[f] <= last)
    /\ txn.phase # "none" =>
         /\ txn.after <= last
         /\ \A f \in Files : told <= txn.old[f] \/ txn.phase = "committed"
         /\ \A f \in Files : txn.old[f] < txn.after
    /\ txn.phase \in {"prepared", "committing"} => told < txn.after
    /\ txn.phase = "committed" => told = txn.after
    /\ \A p \in Publishers : \A f \in Files \ pub[p].todo :
         PubAt(p, "write") => file[f] >= txn.after

\* While nobody writes outside, every file is the old or the new one, the new
\* source is in place only when all new files are, and a publisher finds the
\* files it has been at as it left them.
OldOrNew ==
    ~outside =>
      /\ txn.phase # "none" =>
           /\ OneGeneration(txn.old) /\ txn.old[Source] = txn.before
           /\ \A f \in Files : file[f] \in {txn.old[f], txn.after}
           /\ file[Source] = txn.after => \A f \in Files : file[f] = txn.after
      /\ txn.phase = "committed" => file[Source] = txn.after
      /\ \A p \in Publishers :
           /\ PubAt(p, "prepare") => file[Source] = pub[p].seen
           /\ PubAt(p, "begin") => file = txn.old
           /\ PubAt(p, "write") => \A f \in Files :
                file[f] = IF f \in pub[p].todo THEN txn.old[f] ELSE txn.after
           /\ PubAt(p, "write") => Source \in pub[p].todo \/ pub[p].todo = {}
           /\ PubAt(p, "restore") => pub[p].forward = (file[Source] = txn.after)
           /\ PubAt(p, "restore") => \A f \in Files \ pub[p].todo : file[f] = Restored(p, f)
           /\ PubAt(p, "sweep") => file[Source] = txn.after \/ file = txn.old

\* What was written outside beside a waiting transaction is newer than all it
\* knows, so nobody gets past the check.
EditedIsNewer ==
    edited # {} =>
      /\ txn.phase \in {"prepared", "committing"}
      /\ \A p \in Publishers : pub[p].pc \in {"idle", "wait", "enter", "recover"}
      /\ \A f \in edited : file[f] > txn.after

\* The inductive invariant of the proofs.
ConfigInv == ConfigTypeOK /\ AllOrNothing /\ LockKept /\ VersionsGrow /\ OldOrNew /\ EditedIsNewer

\* What was written by hand while a dead publisher's transaction waited is not
\* overwritten by its recovery, nor by anyone before the transaction is gone.
OutsideWritesSurvive ==
    [][\A f \in edited : file'[f] # file[f] => last' # last]_configVars

\* A publication replaces the configuration it was derived from, unless that
\* was written by hand in the meantime.
BasedOnSource ==
    [][\A p \in Publishers : PubAt(p, "write") /\ pub'[p].todo # pub[p].todo /\ ~outside =>
         file[Source] \in {pub[p].seen, txn.after}]_configVars
=============================================================================
