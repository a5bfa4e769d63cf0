-------------------------- MODULE UpdateTransaction ---------------------------
(***************************************************************************)
(* The updater's file transaction (update_ext.c, updater_helper.c): the    *)
(* game stages a release and writes a journal; once it has closed, the     *)
(* helper moves each file aside, moves its replacement in, commits the     *)
(* journal and deletes the backups.  Both recover first what an earlier    *)
(* attempt left.                                                           *)
(*                                                                         *)
(* One action is one file operation, which may fail; the process may stop  *)
(* between any two.  Moves are atomic and write through.  The Install      *)
(* mutex lets one operation run at a time, op; a process that stops        *)
(* abandons it.  A file that a running game has mapped can be moved but    *)
(* not deleted.                                                            *)
(***************************************************************************)
EXTENDS Naturals, Sequences, SequencesExt

CONSTANTS
    Files,              \* files of the release; the first carries its version
    Installed,          \* what may be installed before: functions on 1 .. Files
    MaxFaults,          \* bound: file operations that fail
    MaxCrashes,         \* bound: processes that stop inside an operation
    MaxStrangers,       \* bound: files somebody else installs meanwhile
    MaxDamage           \* bound: installed files damaged before the commit ends

VARIABLES
    disk,               \* per file: target, its backup, quarantine, staged copy,
                        \* and which of them a running game has mapped
    journal,            \* mods/update_staging/transaction.journal
    op,                 \* the operation that holds the Install mutex
    game,               \* the running game's view of the update
    report,             \* what the helper's last run reported
    base,               \* the installation the update started from
    env                 \* what is left of the bounds

vars == <<disk, journal, op, game, report, base, env>>

File == 1 .. Files
None == "none"
Content == {None, "old", "new", "other", "bad"}

\* What is installed may be of any release, and none of it need be there, but
\* it is not damaged.
ASSUME UpdateAssumption ==
    /\ Files \in Nat
    /\ Installed \subseteq [File -> Content \ {"bad"}]
    /\ MaxFaults \in Nat /\ MaxCrashes \in Nat
    /\ MaxStrangers \in Nat /\ MaxDamage \in Nat

Slot == {"target", "backup", "quarantine", "staged"}

\* An entry names a file, or the quarantine an earlier recovery left of it.
Entry == [file : File, kind : {"file", "quarantine"}]
AllEntries == [f \in File |-> [file |-> f, kind |-> "file"]]

\* A journal of version 3 lists the whole release with the integrity of both
\* versions, one of version 2 what a recovery left undone, without.
NoJournal == [version |-> 0, committed |-> FALSE, entries |-> <<>>, original |-> <<>>]
NoOp == [who |-> None, pc |-> "idle", todo |-> <<>>, unresolved |-> <<>>,
         cleanup |-> <<>>, quarantined |-> FALSE, whole |-> TRUE,
         good |-> None, bad |-> None]
Closed == [up |-> FALSE, old |-> FALSE, phase |-> "check", restart |-> FALSE]

Init ==
    /\ base \in Installed
    /\ disk = [f \in File |-> [s \in Slot \cup {"mapped"} |->
                 IF s = "target" THEN base[f] ELSE None]]
    /\ journal = NoJournal
    /\ op = NoOp
    /\ game = Closed
    /\ report = None
    /\ env = [faults |-> MaxFaults, crashes |-> MaxCrashes,
              strangers |-> MaxStrangers, damage |-> MaxDamage]

-----------------------------------------------------------------------------
(* What the code asks of the disk. *)

Has(f, s) == disk[f][s] # None
Is(f, s, c) == disk[f][s] = c

AllNew == \A f \in File : Is(f, "target", "new")
AllBase == \A f \in File : Is(f, "target", base[f])

Put(f, s, c) == disk' = [disk EXCEPT ![f][s] = c]
Move(f, s, t) ==
    disk' = [disk EXCEPT ![f] = [u \in Slot \cup {"mapped"} |->
                IF u = t THEN disk[f][s]
                ELSE IF u = s THEN None
                ELSE IF u = "mapped" /\ disk[f][u] = s THEN t
                ELSE disk[f][u]]]
Drop(f, s) == Put(f, s, None)

\* The whole release is installed exactly as the journal declares it.
TargetsAreComplete ==
    journal.version = 3 /\ \A f \in File : Is(f, "target", "new") /\ ~Has(f, "quarantine")

HadOriginal(f) == journal.original[f] # None

\* Evidence that the installation was touched.
Mutated ==
    \E f \in File : \/ Has(f, "backup") \/ Has(f, "quarantine")
                    \/ ~Has(f, "staged") /\ Is(f, "target", "new")

Pristine == \A f \in File : Is(f, "staged", "new") /\ Is(f, "target", journal.original[f])

Staged ==
    IF journal = NoJournal THEN "none"
    ELSE IF journal.version < 3 \/ journal.committed \/ Mutated THEN "interrupted"
    ELSE IF Pristine THEN "pristine" ELSE "stale"

\* An operation fails: one of the bounded faults, or a deletion of a file that
\* a running game has mapped.
Fault == env.faults > 0 /\ env' = [env EXCEPT !.faults = env.faults - 1]
Works == UNCHANGED env
Mapped(f, s) == Is(f, "mapped", s)
Undeletable(f, s) == Fault \/ (Mapped(f, s) /\ UNCHANGED env)
Delete(f, s) == ~Mapped(f, s) /\ Works /\ Drop(f, s)

-----------------------------------------------------------------------------
(* How an operation goes on. *)

By(who) == op.who = who
At(pc) == op.who # None /\ op.pc = pc
Goto(pc) == op' = [op EXCEPT !.pc = pc]

\* The operation ends.  A check or a staging tells the game, the helper
\* reports.
End(result) ==
    /\ op' = NoOp
    /\ IF op.who \in {"check", "stage"}
       THEN /\ game' = [game EXCEPT !.phase = result]
            /\ UNCHANGED report
       ELSE /\ report' = result
            /\ UNCHANGED game

Succeed == End(op.good)
Fail == End(op.bad)

\* Files moved: the game that did so wants a restart.
Touched == game' = [game EXCEPT !.restart = game.restart \/ op.who \in {"check", "stage"}]

\* update_recover_journal returned success to its caller.
Recovered ==
    IF By("check") /\ game.restart THEN End("restart")
    ELSE IF By("stage") /\ game.restart THEN Fail
    ELSE /\ Goto(IF By("apply") THEN "sweep" ELSE "reconcile")
         /\ UNCHANGED <<game, report>>

-----------------------------------------------------------------------------
(* Who starts an operation. *)

\* The game starts.  The version it runs is its first file's.
GameStart ==
    /\ ~game.up
    /\ Has(1, "target")
    /\ game' = [Closed EXCEPT !.up = TRUE, !.old = ~Is(1, "target", "new")]
    /\ disk' = [f \in File |->
          [disk[f] EXCEPT !["mapped"] = IF Has(f, "target") THEN "target" ELSE None]]
    /\ UNCHANGED <<journal, op, report, base, env>>

Unmapped == disk' = [f \in File |-> [disk[f] EXCEPT !["mapped"] = None]]

GameExit ==
    /\ game.up /\ op.who \notin {"check", "stage"}
    /\ game' = Closed
    /\ Unmapped
    /\ UNCHANGED <<journal, op, report, base, env>>

\* update_run_check: recovery first.
Check ==
    /\ game.up /\ game.phase = "check" /\ op = NoOp
    /\ report' = None
    /\ IF Staged = "pristine"
       THEN /\ game' = [game EXCEPT !.restart = TRUE, !.phase = "restart"]
            /\ UNCHANGED op
       ELSE /\ op' = [NoOp EXCEPT !.who = "check", !.bad = "check",
                        !.pc = IF Staged = "stale" THEN "reconcile" ELSE "journal",
                        !.good = IF game.old THEN "offered" ELSE "latest"]
            /\ UNCHANGED game
    /\ UNCHANGED <<disk, journal, base, env>>

\* update_run_apply: the newer release the check found is staged.
Apply ==
    /\ game.up /\ game.phase = "offered" /\ op = NoOp
    /\ op' = [NoOp EXCEPT !.who = "stage", !.pc = "journal", !.good = "restart", !.bad = "check"]
    /\ report' = None
    /\ UNCHANGED <<disk, journal, game, base, env>>

\* Mutant: the flag alone tells how an interrupted update will end.
HelperOpByFlag ==
    IF Staged = "pristine"
    THEN [NoOp EXCEPT !.who = "apply", !.pc = "aside", !.todo = AllEntries,
                      !.good = "UPDATED", !.bad = "BLOCKED"]
    ELSE [NoOp EXCEPT !.who = "helper", !.bad = "BLOCKED",
                      !.pc = IF Staged = "interrupted" THEN "journal" ELSE "reconcile",
                      !.good = IF Staged # "interrupted" THEN "READY"
                               ELSE IF journal.committed THEN "UPDATED" ELSE "ROLLED_BACK"]

\* update_ext_helper_service, once no game runs from this directory.
HelperOp ==
    CASE Staged = "pristine" ->
            [NoOp EXCEPT !.who = "apply", !.pc = "aside", !.todo = AllEntries,
                         !.good = "UPDATED", !.bad = "BLOCKED"]
      [] Staged = "interrupted" ->
            [NoOp EXCEPT !.who = "helper", !.pc = "journal", !.bad = "BLOCKED",
                         !.good = IF TargetsAreComplete THEN "UPDATED" ELSE "ROLLED_BACK"]
      [] OTHER ->
            [NoOp EXCEPT !.who = "helper", !.pc = "reconcile",
                         !.good = "READY", !.bad = "BLOCKED"]

Service ==
    /\ op = NoOp
    /\ op' = HelperOp
    /\ report' = None
    /\ UNCHANGED <<journal, base, env>>

\* The installer's recovery pass, or the handoff of a game that wants a restart.
RecoverOnly == ~game.up /\ Service /\ UNCHANGED <<disk, game>>
Handoff == game.up /\ game.phase = "restart" /\ Service /\ game' = Closed /\ Unmapped

-----------------------------------------------------------------------------
(* update_recover_journal. *)

\* The journal is read; a complete set is completed forward.
ReadJournal ==
    /\ At("journal")
    /\ \/ /\ journal = NoJournal
          /\ Recovered
          /\ UNCHANGED <<journal, env>>
       \/ /\ journal # NoJournal
          /\ journal.committed
          /\ Goto("committed")
          /\ UNCHANGED <<journal, game, report, env>>
       \/ /\ journal # NoJournal
          /\ ~journal.committed /\ ~TargetsAreComplete
          /\ op' = [op EXCEPT !.pc = "walk", !.todo = Reverse(journal.entries)]
          /\ UNCHANGED <<journal, game, report, env>>
       \/ /\ journal # NoJournal
          /\ ~journal.committed /\ TargetsAreComplete
          /\ \/ /\ Works
                /\ journal' = [journal EXCEPT !.committed = TRUE]
                /\ Goto("committed")
                /\ Touched
                /\ UNCHANGED report
             \/ Fault /\ Fail /\ UNCHANGED journal
    /\ UNCHANGED <<disk, base>>

RollbackPossible == \A f \in File : HadOriginal(f) <=> Has(f, "backup")

\* The committed set is verified before any backup is deleted; a damaged one
\* is rolled back if every original is there.
VerifyCommitted ==
    /\ At("committed")
    /\ \/ /\ AllNew
          /\ op' = [op EXCEPT !.pc = "backups", !.todo = Reverse(journal.entries)]
          /\ UNCHANGED <<journal, game, report, env>>
       \/ /\ ~AllNew /\ ~RollbackPossible
          /\ Fail
          /\ UNCHANGED <<journal, env>>
       \/ /\ ~AllNew /\ RollbackPossible
          /\ \/ /\ Works
                /\ journal' = [journal EXCEPT !.committed = FALSE]
                /\ op' = [op EXCEPT !.pc = "walk", !.todo = Reverse(journal.entries)]
                /\ UNCHANGED <<game, report>>
             \/ Fault /\ Fail /\ UNCHANGED journal
    /\ UNCHANGED <<disk, base>>

\* Mutant: a backup that an earlier attempt deleted is an error.
DeleteBackupOnce ==
    /\ At("backups") /\ op.todo # <<>>
    /\ LET f == Head(op.todo).file IN
       \/ /\ IF Has(f, "backup") THEN Undeletable(f, "backup") ELSE HadOriginal(f) /\ Works
          /\ Fail
          /\ UNCHANGED disk
       \/ /\ HadOriginal(f) => Has(f, "backup")
          /\ Delete(f, "backup")
          /\ op' = [op EXCEPT !.todo = Tail(op.todo)]
          /\ UNCHANGED <<game, report>>
    /\ UNCHANGED <<journal, base>>

\* One backup of the verified set is deleted; the journal goes last.
DeleteBackup ==
    /\ At("backups") /\ op.todo # <<>>
    /\ LET f == Head(op.todo).file IN
       \/ /\ Has(f, "backup") /\ Undeletable(f, "backup")
          /\ Fail
          /\ UNCHANGED disk
       \/ /\ Delete(f, "backup")
          /\ op' = [op EXCEPT !.todo = Tail(op.todo)]
          /\ UNCHANGED <<game, report>>
    /\ UNCHANGED <<journal, base>>

DeleteJournal ==
    /\ At("backups") /\ op.todo = <<>>
    /\ \/ Fault /\ Fail /\ UNCHANGED journal
       \/ Works /\ journal' = NoJournal /\ Recovered
    /\ UNCHANGED <<disk, base>>

-----------------------------------------------------------------------------
(* The reverse walk over an interrupted transaction. *)

Current == Head(op.todo)

\* The walk passes to the next entry, which goes into the reduced journal if it
\* is unresolved, or its quarantine could not be deleted.
Past(o) == [o EXCEPT !.pc = "walk", !.todo = Tail(o.todo), !.quarantined = FALSE]
Resolved == op' = Past(op)
Unresolved == op' = [Past(op) EXCEPT !.unresolved = Append(op.unresolved, Current)]
Cleanup ==
    op' = [Past(op) EXCEPT !.cleanup = Append(op.cleanup, [Current EXCEPT !.kind = "quarantine"])]

\* A released quarantine is deleted, or that of an earlier attempt.
WalkQuarantine ==
    /\ At("walk") /\ op.todo # <<>> /\ Has(Current.file, "quarantine")
    /\ \/ Undeletable(Current.file, "quarantine") /\ Unresolved /\ UNCHANGED disk
       \/ Delete(Current.file, "quarantine") /\ UNCHANGED op
    /\ UNCHANGED <<journal, game, report, base>>

\* Mutant: whatever stands at the target goes into quarantine.
DisplacesAny(f) == Has(f, "target")

\* A backup is put back; what stands in its place goes into quarantine first,
\* and so does a file the release added.
Displaces(f) == Has(f, "target") /\ (HadOriginal(f) => Has(f, "backup"))

WalkTarget ==
    /\ At("walk") /\ op.todo # <<>> /\ ~Has(Current.file, "quarantine")
    /\ LET f == Current.file IN
       \/ /\ \/ Current.kind = "quarantine"
             \/ HadOriginal(f) /\ ~Has(f, "backup") /\ Has(f, "target")
             \/ ~HadOriginal(f) /\ ~Has(f, "target")
          /\ Resolved
          /\ UNCHANGED <<disk, game, env>>
       \/ /\ Current.kind = "file" /\ HadOriginal(f) /\ ~Has(f, "backup") /\ ~Has(f, "target")
          /\ Unresolved
          /\ UNCHANGED <<disk, game, env>>
       \/ /\ Current.kind = "file" /\ Displaces(f)
          /\ \/ Fault /\ Unresolved /\ UNCHANGED <<disk, game>>
             \/ /\ Works
                /\ Move(f, "target", "quarantine")
                /\ Touched
                /\ op' = [op EXCEPT !.quarantined = TRUE,
                            !.pc = IF HadOriginal(f) THEN "restore" ELSE "release"]
       \/ /\ Current.kind = "file" /\ HadOriginal(f) /\ Has(f, "backup") /\ ~Has(f, "target")
          /\ Goto("restore")
          /\ UNCHANGED <<disk, game, env>>
    /\ UNCHANGED <<journal, report, base>>

\* The backup returns; if it cannot, the quarantined file does.
WalkRestore ==
    /\ At("restore")
    /\ LET f == Current.file IN
       \/ /\ Works
          /\ Move(f, "backup", "target")
          /\ Touched
          /\ IF op.quarantined THEN Goto("release") ELSE Resolved
       \/ /\ Fault
          /\ IF op.quarantined THEN Goto("unquarantine") ELSE Unresolved
          /\ UNCHANGED <<disk, game>>
    /\ UNCHANGED <<journal, report, base>>

\* If that fails too, no reduced journal can describe the disk.
WalkUnquarantine ==
    /\ At("unquarantine")
    /\ \/ Works /\ Move(Current.file, "quarantine", "target") /\ Unresolved
       \/ Fault /\ op' = [Past(op) EXCEPT !.whole = FALSE] /\ UNCHANGED disk
    /\ UNCHANGED <<journal, game, report, base>>

WalkRelease ==
    /\ At("release")
    /\ \/ Delete(Current.file, "quarantine") /\ Resolved
       \/ Undeletable(Current.file, "quarantine") /\ Cleanup /\ UNCHANGED disk
    /\ UNCHANGED <<journal, game, report, base>>

\* What is left undone is written as a reduced journal, which no later pass may
\* complete forward; without it, the journal is deleted.
Reduced == op.unresolved \o op.cleanup

Publish ==
    /\ At("walk") /\ op.todo = <<>>
    /\ \/ /\ op.whole /\ Works
          /\ IF Reduced = <<>> THEN journal' = NoJournal
             ELSE journal' = [journal EXCEPT !.version = 2, !.committed = FALSE,
                                             !.entries = Reduced]
          /\ IF op.unresolved = <<>> THEN Recovered ELSE Fail
       \/ /\ IF op.whole THEN Fault ELSE UNCHANGED env
          /\ IF op.cleanup = <<>> THEN Fail
             ELSE /\ op' = [op EXCEPT !.pc = "revert", !.todo = Reverse(op.cleanup)]
                  /\ UNCHANGED <<game, report>>
          /\ UNCHANGED journal
    /\ UNCHANGED <<disk, base>>

\* Without the reduced journal the old one must describe the disk again.
Reverted ==
    IF Len(op.todo) = 1 THEN Fail
    ELSE op' = [op EXCEPT !.pc = "revert", !.todo = Tail(op.todo)] /\ UNCHANGED <<game, report>>

Revert ==
    /\ At("revert")
    /\ LET f == Current.file IN
       IF HadOriginal(f)
       THEN \/ Works /\ Move(f, "target", "backup") /\ Goto("reinstate") /\ UNCHANGED <<game, report>>
            \/ Fault /\ Fail /\ UNCHANGED disk
       ELSE \/ Works /\ Move(f, "quarantine", "target") /\ Reverted
            \/ Fault /\ Fail /\ UNCHANGED disk
    /\ UNCHANGED <<journal, base>>

Reinstate ==
    /\ At("reinstate")
    /\ \/ Works /\ Move(Current.file, "quarantine", "target") /\ Reverted
       \/ /\ Fault
          /\ \/ Move(Current.file, "backup", "target")
             \/ UNCHANGED disk
          /\ Fail
    /\ UNCHANGED <<journal, base>>

-----------------------------------------------------------------------------
(* update_helper_apply_pristine and update_rollback. *)

Undo == op' = [op EXCEPT !.pc = "undo", !.todo = Reverse(AllEntries)]

\* A file moves aside, then its replacement moves in.
MoveAside ==
    /\ At("aside") /\ op.todo # <<>>
    /\ \/ ~HadOriginal(Current.file) /\ Goto("install") /\ UNCHANGED <<disk, env>>
       \/ /\ HadOriginal(Current.file)
          /\ \/ Works /\ Move(Current.file, "target", "backup") /\ Goto("install")
             \/ Fault /\ Undo /\ UNCHANGED disk
    /\ UNCHANGED <<journal, game, report, base>>

Install ==
    /\ At("install")
    /\ \/ /\ Works
          /\ Move(Current.file, "staged", "target")
          /\ op' = [op EXCEPT !.pc = "aside", !.todo = Tail(op.todo)]
       \/ Fault /\ Undo /\ UNCHANGED disk
    /\ UNCHANGED <<journal, game, report, base>>

\* The installed set is verified and committed; recovery ends the transaction,
\* forward also if the commit could not be written.
Commit ==
    /\ At("aside") /\ op.todo = <<>>
    /\ \/ AllNew /\ Works /\ journal' = [journal EXCEPT !.committed = TRUE] /\ Goto("journal")
       \/ AllNew /\ Fault /\ UNCHANGED journal /\ Goto("journal")
       \/ ~AllNew /\ Undo /\ UNCHANGED <<journal, env>>
    /\ UNCHANGED <<disk, game, report, base>>

\* Each file is put back, the last one first; one that fails is passed over.
Swapped(f) == ~Has(f, "staged")
Undone(whole) ==
    op' = [op EXCEPT !.pc = "undo", !.todo = Tail(op.todo), !.whole = op.whole /\ whole]

UndoTarget ==
    /\ At("undo") /\ op.todo # <<>>
    /\ LET f == Current.file
           displaces == IF HadOriginal(f) THEN Has(f, "backup") ELSE Swapped(f)
           Goes == IF HadOriginal(f) THEN Goto("return") ELSE Undone(TRUE)
       IN \/ ~displaces /\ Undone(TRUE) /\ UNCHANGED <<disk, env>>
          \/ displaces /\ Delete(f, "target") /\ Goes
          \/ /\ displaces /\ Has(f, "target") /\ Undeletable(f, "target")
             /\ Undone(FALSE)
             /\ UNCHANGED disk
    /\ UNCHANGED <<journal, game, report, base>>

UndoReturn ==
    /\ At("return")
    /\ \/ Works /\ Move(Current.file, "backup", "target") /\ Undone(TRUE)
       \/ Fault /\ Undone(FALSE) /\ UNCHANGED disk
    /\ UNCHANGED <<journal, game, report, base>>

\* Mutant: the journal goes though some file could not be put back.
UndoEndsAnyway ==
    /\ At("undo") /\ op.todo = <<>>
    /\ \/ Works /\ journal' = NoJournal
       \/ Fault /\ UNCHANGED journal
    /\ op' = [op EXCEPT !.pc = "sweep", !.good = "ROLLED_BACK", !.bad = "ROLLED_BACK"]
    /\ UNCHANGED <<disk, game, report, base>>

\* Nobody waits for the journal's deletion, or the staging tree's.
UndoEnds ==
    /\ At("undo") /\ op.todo = <<>>
    /\ \/ ~op.whole /\ Fail /\ UNCHANGED <<journal, env>>
       \/ /\ op.whole
          /\ \/ Works /\ journal' = NoJournal
             \/ Fault /\ UNCHANGED journal
          /\ op' = [op EXCEPT !.pc = "sweep", !.good = "ROLLED_BACK", !.bad = "ROLLED_BACK"]
          /\ UNCHANGED <<game, report>>
    /\ UNCHANGED <<disk, base>>

-----------------------------------------------------------------------------
(* Cleaning, and staging the next release. *)

\* update_reconcile_legacy_backups: a backup nobody accounts for is deleted, or
\* put back where its file is missing.
Reconcile ==
    /\ At("reconcile")
    /\ Works
    /\ disk' = [f \in File |->
          IF ~Has(f, "backup") THEN disk[f]
          ELSE [disk[f] EXCEPT !["backup"] = None,
                               !["target"] = IF @ = None THEN disk[f]["backup"] ELSE @]]
    /\ IF By("stage") /\ AllNew /\ \A f \in File : ~Has(f, "quarantine") THEN Succeed
       ELSE Goto("sweep") /\ UNCHANGED <<game, report>>
    /\ UNCHANGED <<journal, base>>

\* update_remove_tree takes the staged files and the journal one by one.
SweepOne ==
    /\ At("sweep")
    /\ \/ /\ Works
          /\ \/ \E f \in File : Has(f, "staged") /\ Drop(f, "staged") /\ UNCHANGED journal
             \/ journal # NoJournal /\ journal' = NoJournal /\ UNCHANGED disk
          /\ UNCHANGED <<op, game, report>>
       \/ Fault /\ Fail /\ UNCHANGED <<disk, journal>>
    /\ UNCHANGED base

SweepEnds ==
    /\ At("sweep") /\ journal = NoJournal /\ \A f \in File : ~Has(f, "staged")
    /\ IF By("stage") /\ op.good = "restart" THEN Goto("staging") /\ UNCHANGED <<game, report>>
       ELSE Succeed
    /\ UNCHANGED <<disk, journal, base, env>>

Discard == op' = [op EXCEPT !.pc = "sweep", !.good = op.bad]

\* update_apply_manifest: every file is downloaded and verified.  A quarantine
\* in the way refuses the update.
Stage ==
    /\ At("staging")
    /\ \/ /\ \A f \in File : ~Has(f, "quarantine")
          /\ Works
          /\ disk' = [f \in File |-> [disk[f] EXCEPT !["staged"] = "new"]]
          /\ Goto("write")
       \/ /\ \/ Fault
             \/ UNCHANGED env /\ \E f \in File : Has(f, "quarantine")
          /\ Discard
          /\ UNCHANGED disk
    /\ UNCHANGED <<journal, game, report, base>>

WriteJournal ==
    /\ At("write")
    /\ \/ /\ Works
          /\ journal' = [version |-> 3, committed |-> FALSE, entries |-> AllEntries,
                         original |-> [f \in File |-> disk[f]["target"]]]
          /\ base' = [f \in File |-> disk[f]["target"]]
          /\ Succeed
       \/ Fault /\ Discard /\ UNCHANGED <<journal, game, report, base>>
    /\ UNCHANGED disk

-----------------------------------------------------------------------------
(* What happens to the updater. *)

\* The process stops inside an operation.
Crash ==
    /\ op # NoOp /\ env.crashes > 0
    /\ env' = [env EXCEPT !.crashes = env.crashes - 1]
    /\ op' = NoOp
    /\ IF op.who \in {"check", "stage"} THEN game' = Closed /\ Unmapped
       ELSE UNCHANGED <<disk, game>>
    /\ UNCHANGED <<journal, report, base>>

\* Somebody else installs a file, while no transaction is under way.
Stranger(f) ==
    /\ op = NoOp /\ ~game.up /\ Staged # "interrupted" /\ env.strangers > 0
    /\ env' = [env EXCEPT !.strangers = env.strangers - 1]
    /\ Put(f, "target", "other")
    /\ base' = [g \in File |-> IF g = f THEN "other" ELSE disk[g]["target"]]
    /\ report' = None
    /\ UNCHANGED <<journal, op, game>>

\* An installed file is damaged before the transaction ends.
Damage(f) ==
    /\ env.damage > 0 /\ Is(f, "target", "new") /\ Has(f, "backup")
    /\ \/ op = NoOp /\ journal.committed
       \/ op.pc \in {"aside", "install"}
    /\ env' = [env EXCEPT !.damage = env.damage - 1]
    /\ Put(f, "target", "bad")
    /\ report' = None
    /\ UNCHANGED <<journal, op, game, base>>

OpStep ==
    \/ ReadJournal \/ VerifyCommitted \/ DeleteBackup \/ DeleteJournal
    \/ WalkQuarantine \/ WalkTarget \/ WalkRestore \/ WalkUnquarantine \/ WalkRelease
    \/ Publish \/ Revert \/ Reinstate
    \/ MoveAside \/ Install \/ Commit \/ UndoTarget \/ UndoReturn \/ UndoEnds
    \/ Reconcile \/ SweepOne \/ SweepEnds \/ Stage \/ WriteJournal

Next ==
    \/ GameStart \/ GameExit \/ Check \/ Apply \/ RecoverOnly \/ Handoff
    \/ OpStep \/ Crash
    \/ \E f \in File : Stranger(f) \/ Damage(f)

Spec == Init /\ [][Next]_vars

\* A game whose library is missing does not start: the installer's pass helps.
Repair == ~Has(1, "target") /\ RecoverOnly

\* Operations go on; players start the game again and leave it again; it looks
\* for updates by itself and hands over by itself: only leaving first, each
\* time, avoids that.
Fairness ==
    /\ WF_vars(OpStep) /\ WF_vars(GameStart) /\ WF_vars(Repair)
    /\ SF_vars(GameExit) /\ SF_vars(Check) /\ SF_vars(Handoff)

FairSpec == Spec /\ Fairness

-----------------------------------------------------------------------------
\* Without a journal the installation is one version, whole: the new one, or
\* what was there before.  Whatever stops or fails, a journal is given up only
\* when nothing is left to complete or to undo.
WholeWithoutJournal == journal = NoJournal => AllNew \/ AllBase

\* Until the new version is whole, every original file is in its place or in
\* its backup.  Also between any two moves of an update, a rollback or a recovery.
OriginalsKept ==
    env.damage = MaxDamage =>
        \/ AllNew
        \/ \A f \in File : base[f] \in {None, disk[f]["target"], disk[f]["backup"]}

\* The helper's report is true: the launcher starts the game on it.
ReportIsTrue ==
    /\ report = "UPDATED" => AllNew
    /\ report = "ROLLED_BACK" => AllBase
    /\ report = "READY" => journal = NoJournal /\ (AllNew \/ AllBase)

\* A backup or quarantine is accounted for by the journal whenever nobody works
\* on it, so a later pass will clean it up.
DebrisIsJournaled ==
    op = NoOp => \A f \in File : Has(f, "backup") \/ Has(f, "quarantine") =>
        \E i \in 1 .. Len(journal.entries) : journal.entries[i].file = f

\* A transaction ends, once the game has been restarted often enough.
TransactionEnds ==
    journal # NoJournal ~> (journal = NoJournal \/ env.damage < MaxDamage)
=============================================================================
