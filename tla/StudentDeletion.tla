--------------------------- MODULE StudentDeletion ---------------------------
(* acs/education_progress_transaction.py: a student is deleted in two stores,   *)
(* first the reviews, then the classroom, and a journal beside the workspace    *)
(* carries the intent across a crash.  Other processes save to the same stores  *)
(* meanwhile.  A workspace is the students with a tombstone and the operations  *)
(* committed to its ledger; the progress is a set of reviews.  Digests and      *)
(* revisions are compared by comparing contents.                                *)
EXTENDS Integers, FiniteSets

CONSTANTS
    Coordinators,   \* processes that delete students and recover deletions
    Writers,        \* processes that save other changes to the stores
    Students,
    None,
    MaxOps,         \* bound on the deletions and other changes
    MaxCrashes,     \* bound on the processes that die
    MaxFailures     \* bound on the writes that fail

ASSUME DeletionAssumption ==
    /\ None \notin Coordinators \cup Writers \cup Students
    /\ MaxOps \in Nat /\ MaxCrashes \in Nat /\ MaxFailures \in Nat

Procs == Coordinators \cup Writers

VARIABLES
    workspace, wexists, wowner, wsaves,   \* the workspace and its store
    progress, pexists, powner, psaves,    \* the review progress and its store
    journal,   \* the intent on disk, None when there is none
    task,      \* what each process is doing, and what it has read
    ops,       \* operations begun so far
    faults,    \* processes that have died, and writes that have failed, so far
    intents,   \* every intent ever published
    unlinked   \* those that a process carrying another one has taken from the disk

wstore == <<workspace, wexists, wowner, wsaves>>
pstore == <<progress, pexists, powner, psaves>>
vars == <<wstore, pstore, journal, task, ops, faults, intents, unlinked>>

W == INSTANCE CasFile WITH file <- workspace, exists <- wexists, owner <- wowner,
                           saves <- wsaves, Lock <- "directory"
P == INSTANCE CasFile WITH file <- progress, exists <- pexists, owner <- powner,
                           saves <- psaves, Lock <- "marked_file"

Review    == [id : Nat, student : Students]
Workspace == [deleted : SUBSET Students, ledger : SUBSET Nat]
Intent    == [student : Students, op : Nat, oldW : Workspace, newW : Workspace,
              oldP : SUBSET Review, newP : SUBSET Review]

ASSUME NoneIsNoIntent == None \notin Intent

Stages == {"idle", "load_workspace", "load_progress", "publish", "save_only_workspace",
           "save_progress", "save_workspace", "read_journal", "read_workspace",
           "read_progress", "complete_progress", "complete_workspace",
           "verify_workspace", "verify_progress", "remove_journal", "other_save"}

NoTask == [at |-> "idle", student |-> None, op |-> 0, seen |-> None, intent |-> None]

TypeOK ==
    /\ workspace \in Workspace /\ W!FileTypeOK
    /\ progress = None \/ progress \subseteq Review
    /\ P!FileTypeOK
    /\ journal \in Intent \cup {None}
    /\ \A p \in Procs : task[p].at \in Stages /\ task[p].intent \in Intent \cup {None}
    /\ ops \in 0..MaxOps /\ faults.crashes \in 0..MaxCrashes /\ faults.failures \in 0..MaxFailures
    /\ intents \subseteq Intent /\ unlinked \subseteq intents

\* Each student has one review, or there has never been a progress file.
Init ==
    /\ workspace = [deleted |-> {}, ledger |-> {}]
    /\ progress \in {None, {[id |-> 0, student |-> s] : s \in Students}}
    /\ W!FileInit /\ P!FileInit
    /\ journal = None
    /\ task = [p \in Procs |-> NoTask]
    /\ ops = 0 /\ faults = [crashes |-> 0, failures |-> 0]
    /\ intents = {} /\ unlinked = {}

-----------------------------------------------------------------------------
(* The transition, and what recovery derives again from the journal *)

Purged(reviews, s) == {r \in reviews : r.student # s}

TombstonedSwapped(w, s, op) ==             \* variant: the arguments are swapped
    [deleted |-> w.deleted \cup {op}, ledger |-> w.ledger \cup {s}]

Tombstoned(w, s, op) == [deleted |-> w.deleted \cup {s}, ledger |-> w.ledger \cup {op}]

IntentOf(t, reviews) ==
    [student |-> t.student, op |-> t.op,
     oldW |-> t.seen, newW |-> Tombstoned(t.seen, t.student, t.op),
     oldP |-> reviews, newP |-> Purged(reviews, t.student)]

\* _state: the new content counts before the old revision.
State(content, old, new) ==
    IF content = new THEN "new" ELSE IF content = old THEN "old" ELSE "other"

WorkspaceState(d) == State(workspace, d.oldW, d.newW)
ProgressState(d)  == State(progress, d.oldP, d.newP)

-----------------------------------------------------------------------------
(* delete_student_and_purge_reviews_durable *)

Goto(p, stage) == task' = [task EXCEPT ![p].at = stage]
Give_up(p)     == task' = [task EXCEPT ![p] = NoTask]

Is(p, stage) == task[p].at = stage

\* Only while no deletion is pending.
BeginDelete(p) ==
    /\ Is(p, "idle") /\ journal = None /\ ops < MaxOps
    /\ \E s \in Students :
          task' = [task EXCEPT ![p] = [NoTask EXCEPT !.at = "load_workspace", !.student = s,
                                                     !.op = ops + 1]]
    /\ ops' = ops + 1
    /\ UNCHANGED <<wstore, pstore, journal, faults, intents, unlinked>>

LoadWorkspace(p) ==
    /\ Is(p, "load_workspace")
    /\ task' = [task EXCEPT ![p].at = "load_progress", ![p].seen = workspace]
    /\ UNCHANGED <<wstore, pstore, journal, ops, faults, intents, unlinked>>

\* With no progress on disk one save of the workspace is the whole deletion.
\* The domain may refuse the transition as stale.
LoadProgress(p) ==
    /\ Is(p, "load_progress")
    /\ \/ /\ progress = None
          /\ W!Save(p, task[p].seen, Tombstoned(task[p].seen, task[p].student, task[p].op))
          /\ Goto(p, "save_only_workspace")
       \/ /\ progress # None
          /\ task' = [task EXCEPT ![p].at = "publish", ![p].intent = IntentOf(task[p], progress)]
          /\ UNCHANGED wstore
       \/ Give_up(p) /\ UNCHANGED wstore
    /\ UNCHANGED <<pstore, journal, ops, faults, intents, unlinked>>

\* The journal is linked into place only where there is none.
PublishJournal(p) ==
    /\ Is(p, "publish")
    /\ LET d == task[p].intent IN
       IF journal = None
       THEN /\ journal' = d
            /\ intents' = intents \cup {d}
            /\ P!Save(p, d.oldP, d.newP)
            /\ Goto(p, "save_progress")
       ELSE Give_up(p) /\ UNCHANGED <<journal, intents, pstore>>
    /\ UNCHANGED <<wstore, ops, faults, unlinked>>

\* The answer of a store to the process that waits for it.
Saved(p, saves)   == saves[p].at = "done" /\ saves[p].outcome = "saved"
Refused(p, saves) == saves[p].at = "done" /\ saves[p].outcome # "saved"

ProgressSaved(p) ==
    /\ Is(p, "save_progress") /\ Saved(p, psaves)
    /\ P!Return(p)
    /\ W!Save(p, task[p].intent.oldW, task[p].intent.newW)
    /\ Goto(p, "save_workspace")
    /\ UNCHANGED <<journal, ops, faults, intents, unlinked>>

WorkspaceSaved(p) ==
    /\ Is(p, "save_workspace") /\ Saved(p, wsaves)
    /\ W!Return(p)
    /\ Goto(p, "read_journal")
    /\ UNCHANGED <<pstore, journal, ops, faults, intents, unlinked>>

RefusedAndForgotten(p) ==                  \* variant: the failed deletion is dropped
    /\ task[p].at = "save_workspace"
    /\ Refused(p, wsaves) /\ W!Return(p) /\ UNCHANGED pstore
    /\ journal' = None
    /\ Give_up(p)
    /\ UNCHANGED <<ops, faults, intents, unlinked>>

\* RecoveryRequired, a conflict or a store's own error: the journal stays.
SaveRefused(p) ==
    /\ \/ task[p].at \in {"save_progress", "complete_progress"}
          /\ Refused(p, psaves) /\ P!Return(p) /\ UNCHANGED wstore
       \/ task[p].at \in {"save_workspace", "complete_workspace"}
          /\ Refused(p, wsaves) /\ W!Return(p) /\ UNCHANGED pstore
    /\ Give_up(p)
    /\ UNCHANGED <<journal, ops, faults, intents, unlinked>>

OnlyWorkspaceSaved(p) ==
    /\ Is(p, "save_only_workspace") /\ wsaves[p].at = "done"
    /\ W!Return(p)
    /\ Give_up(p)
    /\ UNCHANGED <<pstore, journal, ops, faults, intents, unlinked>>

-----------------------------------------------------------------------------
(* _complete_pending, after a deletion and in recover_pending_student_deletion *)

BeginRecover(p) ==
    /\ Is(p, "idle") /\ journal # None
    /\ Goto(p, "read_journal")
    /\ UNCHANGED <<wstore, pstore, journal, ops, faults, intents, unlinked>>

ReadJournal(p) ==
    /\ Is(p, "read_journal")
    /\ IF journal = None THEN Give_up(p)
       ELSE task' = [task EXCEPT ![p] = [NoTask EXCEPT !.at = "read_workspace", !.intent = journal]]
    /\ UNCHANGED <<wstore, pstore, journal, ops, faults, intents, unlinked>>

ReadWorkspace(p) ==
    /\ Is(p, "read_workspace")
    /\ task' = [task EXCEPT ![p].at = "read_progress", ![p].seen = workspace]
    /\ UNCHANGED <<wstore, pstore, journal, ops, faults, intents, unlinked>>

CompletesTombstoneFirst(p) ==              \* variant: the workspace is saved first
    /\ Is(p, "read_progress")
    /\ W!Save(p, task[p].seen, task[p].intent.newW)
    /\ Goto(p, "complete_workspace")
    /\ UNCHANGED <<pstore, journal, ops, faults, intents, unlinked>>

ResumesNothing(p) ==                       \* variant: only finished work is confirmed
    /\ Is(p, "read_progress")
    /\ IF ProgressState(task[p].intent) = "new" THEN Goto(p, "verify_workspace") ELSE Give_up(p)
    /\ UNCHANGED <<wstore, pstore, journal, ops, faults, intents, unlinked>>

\* The classification decides what is still to be saved, reviews first.
ReadProgress(p) ==
    /\ Is(p, "read_progress")
    /\ LET d      == task[p].intent
           wstate == State(task[p].seen, d.oldW, d.newW)
           pstate == ProgressState(d)
       IN  CASE "other" \in {wstate, pstate} ->
                  Give_up(p) /\ UNCHANGED <<wstore, pstore>>
             [] pstate = "old" /\ wstate # "other" ->
                  P!Save(p, progress, d.newP) /\ Goto(p, "complete_progress") /\ UNCHANGED wstore
             [] pstate = "new" /\ wstate = "old" ->
                  W!Save(p, task[p].seen, d.newW) /\ Goto(p, "complete_workspace") /\ UNCHANGED pstore
             [] OTHER ->
                  Goto(p, "verify_workspace") /\ UNCHANGED <<wstore, pstore>>
    /\ UNCHANGED <<journal, ops, faults, intents, unlinked>>

ProgressCompleted(p) ==
    /\ Is(p, "complete_progress") /\ Saved(p, psaves)
    /\ P!Return(p)
    /\ LET d == task[p].intent IN
       IF State(task[p].seen, d.oldW, d.newW) = "old"
       THEN W!Save(p, task[p].seen, d.newW) /\ Goto(p, "complete_workspace")
       ELSE Goto(p, "verify_workspace") /\ UNCHANGED wstore
    /\ UNCHANGED <<journal, ops, faults, intents, unlinked>>

WorkspaceCompleted(p) ==
    /\ Is(p, "complete_workspace") /\ Saved(p, wsaves)
    /\ W!Return(p)
    /\ Goto(p, "verify_workspace")
    /\ UNCHANGED <<pstore, journal, ops, faults, intents, unlinked>>

VerifyWorkspace(p) ==
    /\ Is(p, "verify_workspace")
    /\ IF workspace = task[p].intent.newW THEN Goto(p, "verify_progress") ELSE Give_up(p)
    /\ UNCHANGED <<wstore, pstore, journal, ops, faults, intents, unlinked>>

VerifyProgress(p) ==
    /\ Is(p, "verify_progress")
    /\ IF progress = task[p].intent.newP THEN Goto(p, "remove_journal") ELSE Give_up(p)
    /\ UNCHANGED <<wstore, pstore, journal, ops, faults, intents, unlinked>>

\* The path is unlinked, whatever it is by now.
RemoveJournal(p) ==
    /\ Is(p, "remove_journal")
    /\ journal' = None
    /\ unlinked' = unlinked \cup ({journal} \ {None, task[p].intent})
    /\ Give_up(p)
    /\ UNCHANGED <<wstore, pstore, ops, faults, intents>>

-----------------------------------------------------------------------------
(* Other saves, which do not look at the journal *)

Commit(w) ==
    /\ Is(w, "idle") /\ ops < MaxOps
    /\ ops' = ops + 1
    /\ W!Save(w, workspace, [workspace EXCEPT !.ledger = @ \cup {ops + 1}])
    /\ Goto(w, "other_save")
    /\ UNCHANGED <<pstore, journal, faults, intents, unlinked>>

AddReview(w) ==
    /\ Is(w, "idle") /\ ops < MaxOps
    /\ ops' = ops + 1
    /\ \E s \in Students :
          P!Save(w, progress,
                 (IF progress = None THEN {} ELSE progress) \cup {[id |-> ops + 1, student |-> s]})
    /\ Goto(w, "other_save")
    /\ UNCHANGED <<wstore, journal, faults, intents, unlinked>>

OtherSaveEnds(w) ==
    /\ Is(w, "other_save")
    /\ \/ wsaves[w].at = "done" /\ W!Return(w) /\ UNCHANGED pstore
       \/ psaves[w].at = "done" /\ P!Return(w) /\ UNCHANGED wstore
    /\ Give_up(w)
    /\ UNCHANGED <<journal, ops, faults, intents, unlinked>>

-----------------------------------------------------------------------------
(* The system *)

StoreStep(p) ==
    /\ \/ W!StoreStep(p) /\ UNCHANGED pstore
       \/ P!StoreStep(p) /\ UNCHANGED wstore
    /\ UNCHANGED <<journal, task, ops, faults, intents, unlinked>>

DiskFails(p) ==
    /\ faults.failures < MaxFailures
    /\ faults' = [faults EXCEPT !.failures = @ + 1]
    /\ \/ W!DiskFails(p) /\ UNCHANGED pstore
       \/ P!DiskFails(p) /\ UNCHANGED wstore
    /\ UNCHANGED <<journal, task, ops, intents, unlinked>>

Crash(p) ==
    /\ ~ Is(p, "idle") /\ faults.crashes < MaxCrashes
    /\ faults' = [faults EXCEPT !.crashes = @ + 1]
    /\ W!Die(p) /\ P!Die(p)
    /\ Give_up(p)
    /\ UNCHANGED <<journal, ops, intents, unlinked>>

DeleteStep(p) ==
    \/ LoadWorkspace(p) \/ LoadProgress(p) \/ PublishJournal(p) \/ ProgressSaved(p)
    \/ WorkspaceSaved(p) \/ SaveRefused(p) \/ OnlyWorkspaceSaved(p)

CompleteStep(p) ==
    \/ ReadJournal(p) \/ ReadWorkspace(p) \/ ReadProgress(p) \/ ProgressCompleted(p)
    \/ WorkspaceCompleted(p) \/ VerifyWorkspace(p) \/ VerifyProgress(p) \/ RemoveJournal(p)

\* What a running process does by itself, once an operation has begun.
Running(p) == DeleteStep(p) \/ CompleteStep(p) \/ StoreStep(p) \/ OtherSaveEnds(p)

Next ==
    \/ \E p \in Coordinators : BeginDelete(p) \/ BeginRecover(p)
    \/ \E w \in Writers : Commit(w) \/ AddReview(w)
    \/ \E p \in Procs : Running(p) \/ DiskFails(p) \/ Crash(p)

Spec == Init /\ [][Next]_vars

\* A process that runs goes on, and a pending deletion is recovered, as the
\* contract of delete_student_and_purge_reviews_durable asks of its callers.
FairSpec ==
    /\ Spec
    /\ \A p \in Procs : WF_vars(Running(p))
    /\ \A p \in Coordinators : WF_vars(BeginRecover(p))

-----------------------------------------------------------------------------
(* Properties *)

\* A deletion is pending, with its intent on disk, until both stores show it: a
\* crash never leaves the tombstone and the reviews split for good.  Two processes
\* that complete the same deletion are the exception: the later of them may unlink
\* the intent of the next deletion.
IntentUntilPublished ==
    \A d \in intents \ unlinked :
        journal = d \/ (d.op \in workspace.ledger /\ (d.oldP \ d.newP) \cap progress = {})

\* The reviews are purged before the tombstone is published.
PurgedBeforeTombstone ==
    \A d \in intents :
        d.op \in workspace.ledger => (d.oldP \ d.newP) \cap progress = {}

\* At every step, and so after every crash, the two stores and the journal tell how
\* far the deletion is.
DeletionInOrder == TypeOK /\ IntentUntilPublished /\ PurgedBeforeTombstone

\* No save, whoever makes it and whenever it read the file, undoes an operation
\* or revives a student.
OperationsKept ==
    [][workspace.ledger \subseteq workspace'.ledger
       /\ workspace.deleted \subseteq workspace'.deleted]_vars

\* Reviews disappear only while an intent to delete their student is on disk, or was
\* until another deletion's process unlinked it.
PurgeOnlyUnderIntent ==
    [][\A r \in IF progress = None THEN {} ELSE progress :
          r \notin progress' =>
              \E d \in {journal} \cup unlinked : d # None /\ d.student = r.student]_vars

\* Neither another process's work nor another student's reviews are lost.
NothingElseLost == OperationsKept /\ PurgeOnlyUnderIntent

\* Both stores are registers that change only from what was expected.
StoresAreRegisters == W!R!Spec /\ P!R!Spec

Diverged ==
    journal # None /\ "other" \in {WorkspaceState(journal), ProgressState(journal)}

\* A pending deletion is rolled forward, unless somebody else's save has
\* overtaken it or a dead process has left a lock behind.
PendingDeletionEnds ==
    journal # None ~> (journal = None \/ Diverged \/ W!Stale \/ P!Stale)
=============================================================================
