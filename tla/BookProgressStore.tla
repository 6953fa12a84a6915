--------------------------- MODULE BookProgressStore ---------------------------
(* acs/book_progress_store.py: the reading progress of every book in one file   *)
(* with a rolling backup.  Cooperating processes share a locked file; any other *)
(* program may change, damage or remove the files at any moment.  A content is  *)
(* a payload, or bytes that do not decode; a mark stands for a reader's         *)
(* snapshot.  The file identities, which catch a file replaced by an equal one, *)
(* are abstracted to the contents.                                              *)
EXTENDS Integers, FiniteSets

CONSTANTS
    Apps,           \* the processes that use the store
    Books, None,
    Damaged,        \* contents that do not decode
    Future,         \* a content of a later schema
    MaxMark,        \* bound on the marks
    MaxGeneration   \* MAX_BOOK_PROGRESS_GENERATION

ASSUME StoreAssumption ==
    /\ None \notin Apps \cup Books \cup Damaged \cup {Future}
    /\ Future \notin Damaged
    /\ MaxMark \in Nat \ {0} /\ MaxGeneration \in Nat

VARIABLES
    primary, backup,   \* the two files
    lockfile,          \* the lock's file: absent, empty (not marked yet) or ready
    holder,            \* the process that has it locked, None when nobody does
    calls,             \* the call each process is in
    raced,             \* the files changed between a check and the replacement it allows
    trail              \* the last two contents published, oldest first

svars == <<primary, backup, lockfile, holder, calls, raced, trail>>

Payload == [gen : 0..MaxGeneration, legacy : BOOLEAN, marks : [Books -> 0..MaxMark]]
Content == Payload \cup Damaged \cup {None, Future}

Valid(c) == c \notin Damaged \cup {None, Future}
Empty == [gen |-> 0, legacy |-> FALSE, marks |-> [b \in Books |-> 0]]

Ops    == {"save", "remove", "restore", "restore_primary", "offer", "recover"}
Stages == {"idle", "open", "mark", "lock", "read", "read_backup", "check_backup",
           "replace_backup", "confirm_backup", "check_primary", "replace_primary",
           "confirm_primary", "unlock", "done"}
Results == {"none", "ok", "missing", "corrupt", "unsupported", "limit", "io", "stale", "unknown"}

NoCall == [at |-> "idle", op |-> "save", book |-> None, mark |-> 0, base |-> None,
           bbase |-> None, new |-> None, result |-> "none", value |-> 0]

StoreTypeOK ==
    /\ {primary, backup} \subseteq Content
    /\ lockfile \in {"absent", "empty", "ready"} /\ holder \in Apps \cup {None}
    /\ \A p \in Apps :
          /\ calls[p].at \in Stages /\ calls[p].op \in Ops /\ calls[p].result \in Results
          /\ {calls[p].base, calls[p].bbase, calls[p].new} \subseteq Content
    /\ raced \subseteq {"primary", "backup"}

\* A first run, or the two files of an older version, whose payloads have no
\* generation.
Legacy(n) == [gen |-> 0, legacy |-> TRUE, marks |-> [b \in Books |-> n]]

StoreInit ==
    /\ \/ primary = None /\ backup = None /\ trail = <<None, None>>
       \/ primary = Legacy(1) /\ backup = Legacy(0) /\ trail = <<backup, primary>>
    /\ lockfile = "absent" /\ holder = None
    /\ calls = [p \in Apps |-> NoCall]
    /\ raced = {}

At(p, stage)   == calls[p].at = stage
Move(p, stage) == calls' = [calls EXCEPT ![p].at = stage]

\* The call ends with a result; whoever holds the lock gives it up on the way.
Finish(p, result) ==
    calls' = [calls EXCEPT ![p].at = IF holder = p THEN "unlock" ELSE "done",
                           ![p].result = result]

Answer(p, value) ==
    calls' = [calls EXCEPT ![p].at = "unlock", ![p].result = "ok", ![p].value = value]

-----------------------------------------------------------------------------
(* _exclusive_access *)

Call(p, op, book, mark, base, new) ==
    /\ At(p, "idle")
    /\ calls' = [calls EXCEPT ![p] = [NoCall EXCEPT !.at = "open", !.op = op, !.book = book,
                                          !.mark = mark, !.base = base, !.new = new]]
    /\ UNCHANGED <<primary, backup, lockfile, holder, raced, trail>>

\* One process creates the lock's file; the others wait for its marker.
OpenLock(p) ==
    /\ At(p, "open")
    /\ \/ lockfile = "absent" /\ lockfile' = "empty" /\ Move(p, "mark")
       \/ lockfile = "ready"  /\ UNCHANGED lockfile  /\ Move(p, "lock")
    /\ UNCHANGED <<primary, backup, holder, raced, trail>>

\* The marker did not come in time.
NotInitialized(p) ==
    /\ At(p, "open") /\ lockfile = "empty"
    /\ Finish(p, "io")
    /\ UNCHANGED <<primary, backup, lockfile, holder, raced, trail>>

MarkLock(p) ==
    /\ At(p, "mark")
    /\ lockfile' = "ready" /\ Move(p, "lock")
    /\ UNCHANGED <<primary, backup, holder, raced, trail>>

\* A marker that cannot be written takes its file with it.
MarkFails(p) ==
    /\ At(p, "mark")
    /\ lockfile' = "absent" /\ Finish(p, "io")
    /\ UNCHANGED <<primary, backup, holder, raced, trail>>

LocksAlways(p) ==                          \* variant: the lock is not exclusive
    /\ At(p, "lock")
    /\ holder' = p /\ Move(p, "read")
    /\ UNCHANGED <<primary, backup, lockfile, raced, trail>>

TakeLock(p) ==
    /\ At(p, "lock") /\ holder = None
    /\ holder' = p /\ Move(p, "read")
    /\ UNCHANGED <<primary, backup, lockfile, raced, trail>>

\* The C runtime of Windows waits for a lock ten seconds.
LockTimesOut(p) ==
    /\ At(p, "lock") /\ holder # None
    /\ Finish(p, "io")
    /\ UNCHANGED <<primary, backup, lockfile, holder, raced, trail>>

Unlock(p) ==
    /\ At(p, "unlock")
    /\ holder' = None /\ Move(p, "done")
    /\ UNCHANGED <<primary, backup, lockfile, raced, trail>>

Return(p) ==
    /\ At(p, "done")
    /\ calls' = [calls EXCEPT ![p] = NoCall]
    /\ UNCHANGED <<primary, backup, lockfile, holder, raced, trail>>

-----------------------------------------------------------------------------
(* Reading *)

\* The error of a file that is not valid.
Code(c) == IF c = Future THEN "unsupported" ELSE IF c = None THEN "io" ELSE "corrupt"

\* What restore() reads: the backup stands in for a primary that is damaged or gone.
ReadWithFallback(p) ==
    /\ At(p, "read") /\ calls[p].op = "restore"
    /\ LET source == IF primary \in Damaged \cup {None} /\ Valid(backup) THEN backup ELSE primary
           found  == source.marks[calls[p].book]
       IN  IF Valid(source) THEN IF found > 0 THEN Answer(p, found) ELSE Finish(p, "missing")
           ELSE IF source # None THEN Finish(p, Code(source))
           ELSE Finish(p, IF backup = None THEN "missing" ELSE Code(backup))
    /\ UNCHANGED <<primary, backup, lockfile, holder, raced, trail>>

ReadPrimary(p) ==
    /\ At(p, "read") /\ calls[p].op = "restore_primary"
    /\ IF ~ Valid(primary) THEN Finish(p, Code(primary))
       ELSE IF primary.marks[calls[p].book] = 0 THEN Finish(p, "missing")
       ELSE Answer(p, primary.marks[calls[p].book])
    /\ UNCHANGED <<primary, backup, lockfile, holder, raced, trail>>

\* validated_recovery_revisions: the pair of files that the user is asked about.
ReadOffer(p) ==
    /\ At(p, "read") /\ calls[p].op = "offer"
    /\ IF Valid(primary) THEN Finish(p, "stale")
       ELSE IF primary = Future THEN Finish(p, "unsupported")
       ELSE IF ~ Valid(backup) THEN Finish(p, Code(backup))
       ELSE IF backup.marks[calls[p].book] = 0 THEN Finish(p, "missing")
       ELSE Answer(p, <<primary, backup>>)
    /\ UNCHANGED <<primary, backup, lockfile, holder, raced, trail>>

\* _load_state_unlocked for a change, and the change itself.
Loaded == IF primary = None THEN Empty ELSE primary

ChangedTwice(c) ==                         \* variant: a generation is skipped
    [gen |-> Loaded.gen + 2, legacy |-> FALSE,
     marks |-> [Loaded.marks EXCEPT ![c.book] = c.mark]]

Changed(c) ==
    [gen |-> Loaded.gen + 1, legacy |-> FALSE,
     marks |-> [Loaded.marks EXCEPT ![c.book] = c.mark]]

ReadForChange(p) ==
    /\ At(p, "read") /\ calls[p].op \in {"save", "remove"}
    /\ CASE primary # None /\ ~ Valid(primary) -> Finish(p, Code(primary))
         [] primary = None /\ backup # None ->
               Finish(p, IF backup = Future THEN "unsupported" ELSE "corrupt")
         [] calls[p].op = "remove" /\ Loaded.marks[calls[p].book] = 0 -> Finish(p, "missing")
         [] Loaded.gen >= MaxGeneration -> Finish(p, "limit")
         [] OTHER ->
               calls' = [calls EXCEPT ![p].base = primary, ![p].new = Changed(calls[p]),
                            ![p].at = IF primary = None THEN "check_primary" ELSE "read_backup"]
    /\ UNCHANGED <<primary, backup, lockfile, holder, raced, trail>>

RecoversWhatIsThere(p) ==                  \* variant: what the user saw is not compared
    /\ At(p, "read") /\ calls[p].op = "recover"
    /\ calls' = [calls EXCEPT ![p].base = primary, ![p].new = backup, ![p].at = "check_primary"]
    /\ UNCHANGED <<primary, backup, lockfile, holder, raced, trail>>

\* recover_from_backup, bound to the pair that the user has agreed to.
ReadForRecovery(p) ==
    /\ At(p, "read") /\ calls[p].op = "recover"
    /\ IF primary = calls[p].base /\ backup = calls[p].new
       THEN Move(p, "check_primary")
       ELSE Finish(p, "stale")
    /\ UNCHANGED <<primary, backup, lockfile, holder, raced, trail>>

-----------------------------------------------------------------------------
(* _write_payload_unlocked and _atomic_publish_bytes_unlocked *)

\* A backup that is newer than the primary, or differs from it within one
\* generation, is not replaced.
Ahead(b, c) ==
    /\ Valid(b)
    /\ \/ b.gen > c.gen
       \/ b.gen = c.gen /\ b # c /\ ~ (b.legacy /\ c.legacy)

TakesAnyBackup(p) ==                       \* variant: a newer backup is replaced
    /\ At(p, "read_backup")
    /\ calls' = [calls EXCEPT ![p].bbase = backup, ![p].at = "check_backup"]
    /\ UNCHANGED <<primary, backup, lockfile, holder, raced, trail>>

ReadBackup(p) ==
    /\ At(p, "read_backup")
    /\ IF backup = Future THEN Finish(p, "unsupported")
       ELSE IF Ahead(backup, calls[p].base) THEN Finish(p, "stale")
       ELSE calls' = [calls EXCEPT ![p].bbase = backup, ![p].at = "check_backup"]
    /\ UNCHANGED <<primary, backup, lockfile, holder, raced, trail>>

\* With the new bytes in a temporary file both files are compared once more.
CheckBackup(p) ==
    /\ At(p, "check_backup")
    /\ IF backup = calls[p].bbase /\ primary = calls[p].base
       THEN Move(p, "replace_backup") ELSE Finish(p, "stale")
    /\ UNCHANGED <<primary, backup, lockfile, holder, raced, trail>>

BacksUpTheNew(p) ==                        \* variant: the new payload goes to the backup
    /\ At(p, "replace_backup")
    /\ backup' = calls[p].new
    /\ raced' = {}
    /\ Move(p, "confirm_backup")
    /\ UNCHANGED <<primary, lockfile, holder, trail>>

ReplaceBackup(p) ==
    /\ At(p, "replace_backup")
    /\ backup' = calls[p].base
    /\ raced' = {}
    /\ Move(p, "confirm_backup")
    /\ UNCHANGED <<primary, lockfile, holder, trail>>

ConfirmBackup(p) ==
    /\ At(p, "confirm_backup")
    /\ IF backup = calls[p].base /\ primary = calls[p].base
       THEN Move(p, "check_primary") ELSE Finish(p, "unknown")
    /\ UNCHANGED <<primary, backup, lockfile, holder, raced, trail>>

\* The backup that authorises the change of the primary.
Guard(c) == IF c.op = "recover" THEN c.new ELSE c.base

ChecksNothing(p) ==                        \* variant: the primary is not compared again
    /\ At(p, "check_primary")
    /\ Move(p, "replace_primary")
    /\ UNCHANGED <<primary, backup, lockfile, holder, raced, trail>>

CheckPrimary(p) ==
    /\ At(p, "check_primary")
    /\ IF primary # calls[p].base THEN Finish(p, "stale")
       ELSE IF backup = Guard(calls[p]) THEN Move(p, "replace_primary")
       ELSE IF calls[p].base = None /\ calls[p].op = "save"
            THEN Finish(p, IF backup = Future THEN "unsupported" ELSE "corrupt")
       ELSE Finish(p, "stale")
    /\ UNCHANGED <<primary, backup, lockfile, holder, raced, trail>>

ReplacePrimary(p) ==
    /\ At(p, "replace_primary")
    /\ primary' = calls[p].new
    /\ trail' = <<trail[2], calls[p].new>>
    /\ raced' = {}
    /\ Move(p, "confirm_primary")
    /\ UNCHANGED <<backup, lockfile, holder>>

ConfirmPrimary(p) ==
    /\ At(p, "confirm_primary")
    /\ IF primary = calls[p].new /\ backup = Guard(calls[p])
       THEN Answer(p, calls[p].mark) ELSE Finish(p, "unknown")
    /\ UNCHANGED <<primary, backup, lockfile, holder, raced, trail>>

\* A temporary file that cannot be written, or a sync that fails after the
\* replacement.
DiskFails(p) ==
    /\ \/ calls[p].at \in {"check_backup", "check_primary"} /\ Finish(p, "io")
       \/ calls[p].at \in {"confirm_backup", "confirm_primary"} /\ Finish(p, "unknown")
    /\ UNCHANGED <<primary, backup, lockfile, holder, raced, trail>>

StoreStep(p) ==
    \/ OpenLock(p) \/ NotInitialized(p) \/ MarkLock(p) \/ TakeLock(p) \/ LockTimesOut(p)
    \/ ReadWithFallback(p) \/ ReadPrimary(p) \/ ReadOffer(p) \/ ReadForChange(p)
    \/ ReadForRecovery(p) \/ ReadBackup(p) \/ CheckBackup(p) \/ ReplaceBackup(p)
    \/ ConfirmBackup(p) \/ CheckPrimary(p) \/ ReplacePrimary(p) \/ ConfirmPrimary(p)
    \/ Unlock(p)

StoreFails(p) == MarkFails(p) \/ DiskFails(p)

\* The process dies: the kernel drops its lock, the files stay as they are.
Die(p) ==
    /\ calls' = [calls EXCEPT ![p] = NoCall]
    /\ holder' = IF holder = p THEN None ELSE holder
    /\ raced' = IF holder = p THEN {} ELSE raced
    /\ UNCHANGED <<primary, backup, lockfile, trail>>

\* Another program changes a file, without the lock.
Racing(path) ==
    raced' = IF \E p \in Apps : calls[p].at \in {"replace_backup", "replace_primary"}
             THEN raced \cup {path} ELSE raced

WritePrimary(c) ==
    /\ primary' = c /\ c # primary
    /\ Racing("primary")
    /\ UNCHANGED <<backup, lockfile, holder, calls, trail>>

WriteBackup(c) ==
    /\ backup' = c /\ c # backup
    /\ Racing("backup")
    /\ UNCHANGED <<primary, lockfile, holder, calls, trail>>
=============================================================================
