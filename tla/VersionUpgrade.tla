---------------------------- MODULE VersionUpgrade ----------------------------
(* acs/version2_upgrade_base.py: the upgrade of a user's settings and library   *)
(* from Version 1 to Version 2, with a backup, a journal and the recovery of an *)
(* interrupted run.  A coordinator holds the kernel's lock on the upgrade, so   *)
(* there is one; it may crash or lose the lock at any step, and is started      *)
(* again with the program.  Version 1 and other programs do not take that lock: *)
(* they may write the same files, in place or by replacing them, at any moment. *)
(*                                                                              *)
(* A content is its schema and the number of the last write by the user: a      *)
(* migration changes the schema only.  Backups are the two tracked files and    *)
(* one file that stands for everything else the user keeps.  The branch of      *)
(* _restore for a file that did not exist at the snapshot is left out: no       *)
(* migration creates one.                                                       *)
EXTENDS Naturals, FiniteSets

CONSTANTS
    None,
    MaxWrites,   \* bound on the writes by other programs
    MaxFaults    \* bound on the crashes and the failing operations

ASSUME UpgradeAssumption == MaxWrites \in Nat /\ MaxFaults \in Nat

Files   == {"settings", "library"}       \* in the order they are migrated
Schemas == {"old", "new"}
Content == [schema : Schemas, rev : 0..MaxWrites]

VARIABLES
    file,      \* the content of each tracked file
    other,     \* the last write to the files that are only preserved
    kept,      \* for each tracked file, the contents left in publication guards
    journal,   \* the upgrade journal and the backup its upgrade_id names
    up,        \* the running coordinator
    latest,    \* the last write of the user to each tracked file
    raced,     \* the files written in a moment the file system cannot guard
    undoing,   \* a migration is being rolled back whose journal has ended
    writes, faults

vars == <<file, other, kept, journal, up, latest, raced, undoing, writes, faults>>

\* guard holds what the guarded inode contains; linked says that the file's own
\* name still leads to that inode.
Off == [at |-> "off", mode |-> "migrate", recovered |-> FALSE, file |-> "settings",
        base |-> [f \in Files |-> None], other |-> 0, guard |-> None, linked |-> FALSE]

Stages == {"off", "recover", "authorize", "need", "copy", "prepared", "migrating", "choose",
           "plan", "guard", "replace", "recheck", "drop", "verifying", "verify", "committed",
           "readback", "restored"}

Phases   == {"prepared", "migrating", "verifying", "committed", "rolled_back"}
Terminal == {"committed", "rolled_back"}
Journal  == [phase : Phases, owned : [Files -> Content \cup {None}],
             backup : [Files -> Content], other : 0..MaxWrites]

\* None stands for no content, no guard and no journal.
ASSUME NoneAssumption == None \notin Content \cup Journal

\* Every content has its place, and only a running coordinator holds a guard.
TypeOK ==
    /\ file \in [Files -> Content] /\ other \in 0..MaxWrites
    /\ kept \in [Files -> SUBSET Content]
    /\ journal \in Journal \cup {None}
    /\ up.at \in Stages /\ up.mode \in {"migrate", "restore"} /\ up.file \in Files
    /\ up.base \in [Files -> Content \cup {None}] /\ up.guard \in Content \cup {None}
    /\ up.guard # None <=> up.at \in {"replace", "recheck", "drop"}
    /\ latest \in [Files -> 0..MaxWrites] /\ raced \subseteq Files /\ undoing \in BOOLEAN
    /\ writes \in 0..MaxWrites /\ faults \in 0..MaxFaults

Init ==
    /\ \E s \in [Files -> Schemas] : file = [f \in Files |-> [schema |-> s[f], rev |-> 0]]
    /\ other = 0 /\ kept = [f \in Files |-> {}]
    /\ journal = None /\ up = Off
    /\ latest = [f \in Files |-> 0] /\ raced = {} /\ undoing = FALSE
    /\ writes = 0 /\ faults = 0

Pending     == journal # None /\ journal.phase \notin Terminal
Migrated(c) == [c EXCEPT !.schema = "new"]

\* What the running publication puts in the place of file f.
Target(f) == IF up.mode = "migrate" THEN Migrated(up.base[f]) ELSE journal.backup[f]

data  == <<file, kept>>
users == <<other, latest, raced, writes>>
world == <<users, undoing, faults>>

-----------------------------------------------------------------------------
(* run: recovery first, then an upgrade if the files need one *)

Start ==
    /\ up.at = "off"
    /\ up' = [Off EXCEPT !.at = "recover"]
    /\ UNCHANGED <<data, journal, world>>

IgnoresJournal ==                          \* variant: a pending journal is not looked at
    /\ up.at = "recover"
    /\ up' = [up EXCEPT !.at = "need"]
    /\ UNCHANGED <<data, journal, world>>

\* _recover_locked
Recover ==
    /\ up.at = "recover"
    /\ up' = IF Pending THEN [up EXCEPT !.at = "authorize", !.mode = "restore", !.recovered = TRUE]
                        ELSE [up EXCEPT !.at = "need"]
    /\ UNCHANGED <<data, journal, world>>

\* A migration that fails is rolled back; a rollback that fails ends the run and
\* leaves its journal pending.  A guard whose inode lost its name stays.
GivesUp ==
    /\ kept' = IF up.guard # None /\ ~up.linked
               THEN [kept EXCEPT ![up.file] = @ \cup {up.guard}] ELSE kept
    /\ up' = IF up.mode = "migrate"
             THEN [Off EXCEPT !.at = "authorize", !.mode = "restore"] ELSE Off

NeedsSettingsOnly ==                       \* variant: the library is not asked
    /\ up.at = "need"
    /\ up' = IF file["settings"].schema = "old"
             THEN [up EXCEPT !.at = "copy", !.mode = "migrate", !.file = "settings"] ELSE Off
    /\ UNCHANGED <<data, journal, world>>

\* _needs_upgrade
Needed ==
    /\ up.at = "need"
    /\ up' = IF \E f \in Files : file[f].schema = "old"
             THEN [up EXCEPT !.at = "copy", !.mode = "migrate", !.file = "settings"] ELSE Off
    /\ UNCHANGED <<data, journal, world>>

\* _create_backup, one tracked file after the other.
Copy ==
    /\ up.at = "copy"
    /\ up' = [up EXCEPT !.base[up.file] = file[up.file], !.other = other,
                        !.at = IF up.file = "settings" THEN "copy" ELSE "prepared",
                        !.file = "library"]
    /\ UNCHANGED <<data, journal, world>>

Prepared ==
    /\ up.at = "prepared"
    /\ journal' = [phase |-> "prepared", owned |-> [f \in Files |-> None],
                   backup |-> up.base, other |-> up.other]
    /\ up' = [up EXCEPT !.at = "migrating"]
    /\ undoing' = FALSE
    /\ UNCHANGED <<data, users, faults>>

\* _write_phase for the other phases of a migration.
Phase(phase, next) ==
    /\ up.at = phase
    /\ journal' = [journal EXCEPT !.phase = phase]
    /\ up' = IF next = "off" THEN Off ELSE [up EXCEPT !.at = next, !.file = "settings"]
    /\ UNCHANGED <<data, world>>

-----------------------------------------------------------------------------
(* Publishing a file: _migrate_settings, _migrate_library and _restore *)

AfterFile ==
    IF up.file = "settings"
    THEN [up EXCEPT !.at = IF up.mode = "migrate" THEN "choose" ELSE "guard",
                    !.file = "library", !.guard = None, !.linked = FALSE]
    ELSE [up EXCEPT !.at = IF up.mode = "migrate" THEN "verifying" ELSE "readback",
                    !.guard = None, !.linked = FALSE]

\* A file that is up to date by now is not migrated.
Choose ==
    /\ up.at = "choose"
    /\ up' = IF file[up.file].schema = "new" THEN AfterFile ELSE [up EXCEPT !.at = "plan"]
    /\ UNCHANGED <<data, journal, world>>

PlansNothing ==                            \* variant: the journal does not name the new state
    /\ up.at = "plan" /\ file[up.file] = up.base[up.file]
    /\ up' = [up EXCEPT !.at = "guard"]
    /\ UNCHANGED <<data, journal, world>>

\* _assert_tracked_original and _plan_owned_state
Plan ==
    /\ up.at = "plan" /\ file[up.file] = up.base[up.file]
    /\ journal' = [journal EXCEPT !.owned[up.file] = Target(up.file)]
    /\ up' = [up EXCEPT !.at = "guard"]
    /\ UNCHANGED <<data, world>>

\* A second name for the inode of the file, whose state is the authorized one.
Guard ==
    /\ up.at = "guard" /\ file[up.file] = up.base[up.file]
    /\ up' = [up EXCEPT !.at = "replace", !.guard = file[up.file], !.linked = TRUE]
    /\ UNCHANGED <<data, journal, world>>

\* The file is not what it was when it was copied, or authorized.
Changed ==
    /\ up.at \in {"plan", "guard"} /\ file[up.file] # up.base[up.file]
    /\ GivesUp
    /\ UNCHANGED <<file, journal, world>>

Replace ==
    /\ up.at = "replace"
    /\ file' = [file EXCEPT ![up.file] = Target(up.file)]
    /\ up' = [up EXCEPT !.at = "recheck", !.linked = FALSE]
    /\ UNCHANGED <<kept, journal, world>>

DropsUnseen ==                             \* variant: a write to the old inode is not looked for
    /\ up.at = "recheck" /\ file[up.file] = Target(up.file)
    /\ up' = [up EXCEPT !.at = "drop"]
    /\ UNCHANGED <<data, journal, world>>

Published ==
    /\ up.at = "recheck" /\ up.guard = up.base[up.file] /\ file[up.file] = Target(up.file)
    /\ up' = [up EXCEPT !.at = "drop"]
    /\ UNCHANGED <<data, journal, world>>

\* A program wrote to the old inode: what it wrote wins over the publication, and over
\* what is written to the published file after the look at it, or in its place.
PutBack ==
    /\ up.at = "recheck" /\ up.guard # up.base[up.file]
    /\ file' = [file EXCEPT ![up.file] = up.guard]
    /\ up' = IF up.mode = "migrate" THEN [Off EXCEPT !.at = "authorize", !.mode = "restore"] ELSE Off
    /\ UNCHANGED <<kept, journal, world>>

\* A program replaced what was just published: the file is looked at first, so that the
\* guard is kept whatever it holds.
Ambiguous ==
    /\ up.at = "recheck" /\ file[up.file] # Target(up.file)
    /\ GivesUp
    /\ UNCHANGED <<file, journal, world>>

KeepsGuard ==                              \* variant: the guard of a published file stays
    /\ up.at = "drop"
    /\ up' = [AfterFile EXCEPT !.guard = up.guard]
    /\ UNCHANGED <<data, journal, world>>

Drop ==
    /\ up.at = "drop"
    /\ up' = AfterFile
    /\ UNCHANGED <<data, journal, world>>

\* _verify
Verified == (\A f \in Files : file[f].schema = "new") /\ other = journal.other

Verify ==
    /\ up.at = "verify"
    /\ IF Verified THEN up' = [up EXCEPT !.at = "committed"] /\ UNCHANGED kept ELSE GivesUp
    /\ UNCHANGED <<file, journal, world>>

-----------------------------------------------------------------------------
(* _restore *)

Ours(f) == file[f] \in {journal.backup[f], journal.owned[f]}

RollsBackFirst ==                          \* variant: the journal ends before the files are back
    /\ up.at = "authorize" /\ \A f \in Files : Ours(f)
    /\ journal' = [journal EXCEPT !.phase = "rolled_back"]
    /\ up' = Off
    /\ UNCHANGED <<data, world>>

\* Both files are the original or the upgrade's own before either is touched.
Authorize ==
    /\ up.at = "authorize" /\ \A f \in Files : Ours(f)
    /\ up' = [up EXCEPT !.at = "guard", !.base = file, !.file = "settings"]
    /\ UNCHANGED <<data, journal, world>>

Refuse ==
    /\ up.at = "authorize" /\ \E f \in Files : ~Ours(f)
    /\ GivesUp
    /\ UNCHANGED <<file, journal, world>>

Readback ==
    /\ up.at = "readback"
    /\ IF file["library"].schema = journal.backup["library"].schema
       THEN up' = [up EXCEPT !.at = "restored"] /\ UNCHANGED kept ELSE GivesUp
    /\ UNCHANGED <<file, journal, world>>

\* The recovery of an earlier run goes on with an upgrade of its own.
RolledBack ==
    /\ up.at = "restored"
    /\ journal' = [journal EXCEPT !.phase = "rolled_back"]
    /\ up' = IF up.recovered THEN [up EXCEPT !.at = "need"] ELSE Off
    /\ undoing' = FALSE
    /\ UNCHANGED <<data, users, faults>>

-----------------------------------------------------------------------------
(* What happens to a run *)

MayFail == up.at # "off" /\ faults < MaxFaults /\ faults' = faults + 1

\* The process dies, or the lock was taken from it: the run stops where it is.
Crash ==
    /\ MayFail
    /\ kept' = IF up.guard = None THEN kept ELSE [kept EXCEPT ![up.file] = @ \cup {up.guard}]
    /\ up' = Off
    /\ UNCHANGED <<file, journal, users, undoing>>

\* An operation of the file system fails.  Before the journal is prepared there
\* is nothing to roll back.
Fails ==
    /\ MayFail
    /\ IF up.at \in {"recover", "need", "copy", "prepared"}
       THEN up' = Off /\ UNCHANGED kept ELSE GivesUp
    /\ UNCHANGED <<file, journal, users, undoing>>

\* The write of a phase fails after it replaced the journal, or the listener to
\* the phases does.
FailsLate ==
    /\ MayFail
    /\ up.at \in {"migrating", "verifying", "committed"}
    /\ journal' = [journal EXCEPT !.phase = up.at]
    /\ undoing' = (up.at = "committed")
    /\ GivesUp
    /\ UNCHANGED <<file, users>>

-----------------------------------------------------------------------------
(* Other programs *)

Handling(f) == up.guard # None /\ up.file = f

\* A write after the last look and before the step that look allows, or writes to
\* the old and the new inode at once.
Unguarded(f, stale, inplace) ==
    /\ Handling(f)
    /\ \/ up.at = "replace" /\ ~stale /\ ~(inplace /\ up.linked)
       \/ up.at = "drop" /\ stale
       \/ up.at = "recheck" /\ (stale \/ up.guard # up.base[f])
             /\ (~stale \/ file[f] # Target(f))

Written(f, new, stale, inplace) ==
    /\ writes < MaxWrites /\ writes' = writes + 1
    /\ latest' = [latest EXCEPT ![f] = new.rev]
    /\ raced' = IF Unguarded(f, stale, inplace) THEN raced \cup {f} ELSE raced
    /\ UNCHANGED <<kept, journal, other, undoing, faults>>

ReplacedOutside(f, s) ==
    LET new == [schema |-> s, rev |-> writes + 1]
    IN  /\ Written(f, new, FALSE, FALSE)
        /\ file' = [file EXCEPT ![f] = new]
        /\ up' = IF Handling(f) THEN [up EXCEPT !.linked = FALSE] ELSE up

WrittenInPlace(f) ==
    LET new == [file[f] EXCEPT !.rev = writes + 1]
    IN  /\ Written(f, new, FALSE, TRUE)
        /\ file' = [file EXCEPT ![f] = new]
        /\ up' = IF Handling(f) /\ up.linked THEN [up EXCEPT !.guard = new] ELSE up

\* A program that opened the file before it was replaced.
WrittenToOldInode(f) ==
    /\ Handling(f) /\ ~up.linked
    /\ LET new == [up.guard EXCEPT !.rev = writes + 1]
       IN  Written(f, new, TRUE, TRUE) /\ up' = [up EXCEPT !.guard = new]
    /\ UNCHANGED file

OtherWritten ==
    /\ writes < MaxWrites /\ writes' = writes + 1 /\ other' = writes + 1
    /\ UNCHANGED <<data, journal, up, latest, raced, undoing, faults>>

-----------------------------------------------------------------------------
Step ==
    \/ Recover \/ Needed \/ Copy \/ Prepared
    \/ Phase("migrating", "choose") \/ Phase("verifying", "verify") \/ Phase("committed", "off")
    \/ Choose \/ Plan \/ Guard \/ Changed \/ Replace \/ Published \/ PutBack \/ Ambiguous
    \/ Drop \/ Verify \/ Authorize \/ Refuse \/ Readback \/ RolledBack

Outside ==
    \/ OtherWritten
    \/ \E f \in Files : WrittenInPlace(f) \/ WrittenToOldInode(f)
                        \/ \E s \in Schemas : ReplacedOutside(f, s)

Next == Start \/ Step \/ Crash \/ Fails \/ FailsLate \/ Outside

\* The program is started again, and its start runs the upgrade to its end.
Spec     == Init /\ [][Next]_vars
FairSpec == Spec /\ WF_vars(Start) /\ WF_vars(Step)

-----------------------------------------------------------------------------
\* What the user wrote last is in the file, or next to it in a guard that was
\* left there, through every crash, rollback and recovery; except a write in the
\* moments the file system cannot guard.
LatestWriteSurvives ==
    \A f \in Files \ raced :
        \/ file[f].rev = latest[f]
        \/ \E c \in kept[f] : c.rev = latest[f]
        \/ Handling(f) /\ up.guard.rev = latest[f]

\* A journal that ended says the truth about both files at once: of what the user
\* has not written since the backup, all is migrated or all is as it was.  The one
\* exception is a commit that failed after its journal was written: _restore then
\* works under a journal that calls the upgrade committed.
AllOrNothing ==
    journal # None /\ ~Pending /\ ~undoing =>
        \A f \in Files :
            file[f].rev = journal.backup[f].rev =>
                IF journal.phase = "committed" THEN file[f].schema = "new"
                ELSE file[f] = journal.backup[f]

\* A run can stop anywhere: what the journal and the backup name is enough to
\* tell the upgrade's own work from the user's.
RecoveryCanAuthenticate ==
    Pending => \A f \in Files : file[f].rev = journal.backup[f].rev => Ours(f)

\* What a start of the program finds on disk can be recovered from.
Recoverable == TypeOK /\ RecoveryCanAuthenticate

\* An interrupted upgrade is taken to an end, unless the user wrote a file that
\* the recovery would have to overwrite.
PendingEnds ==
    Pending ~> \/ ~Pending
               \/ \E f \in Files : file[f].rev # journal.backup[f].rev

\* In the end both files are migrated, whatever crashed or failed on the way and
\* whatever the journal says, unless the user wrote one of them meanwhile.
UpgradeCompletes ==
    (\A f \in Files : latest[f] = 0) ~> \/ \A f \in Files : file[f].schema = "new"
                                       \/ \E f \in Files : latest[f] > 0

\* A start that runs to its end leaves no half-done upgrade and a migrated profile.
UpgradeEnds == PendingEnds /\ UpgradeCompletes
=============================================================================
