------------------------- MODULE VersionUpgradeProofs -------------------------
(* What VersionUpgrade promises of the user's files and of the journal, proved   *)
(* for any number of writes by other programs and of crashes and failures.       *)
(*                                                                              *)
(* UpgradeInv says where a coordinator is between its journal and its end, what *)
(* it works from there, and which files it has been through; the truth of a     *)
(* journal that ended, and that a recovery can tell the upgrade's own work from *)
(* the user's, follow.  LatestSaved adds where the user's last write is while a *)
(* file is being published.                                                     *)
EXTENDS VersionUpgrade, TLAPS

-----------------------------------------------------------------------------
(* The inductive invariant *)

UpRecord ==
    [at : Stages, mode : {"migrate", "restore"}, recovered : BOOLEAN, file : Files,
     base : [Files -> Content \cup {None}], other : 0..MaxWrites,
     guard : Content \cup {None}, linked : BOOLEAN]

Typed == TypeOK /\ up \in UpRecord

\* Where a coordinator is between its journal and its end.
Publishing == up.at \in {"guard", "replace", "recheck", "drop"}

Migrating ==
    \/ up.at \in {"migrating", "choose", "plan", "verifying", "verify", "committed"}
    \/ Publishing /\ up.mode = "migrate"

Restoring ==
    \/ up.at \in {"authorize", "readback", "restored"}
    \/ Publishing /\ up.mode = "restore"

\* The user's writes are numbered: what was read, copied or written before the next
\* one has an earlier number.
Numbered ==
    /\ \A f \in Files : file[f].rev <= writes
    /\ \A f \in Files : up.base[f] # None => up.base[f].rev <= writes
    /\ up.guard # None => up.guard.rev <= writes
    /\ journal # None => \A f \in Files : journal.backup[f].rev <= writes

\* A journal names the backup and the migration of it.
JournalSound ==
    /\ journal # None =>
          \A f \in Files : journal.owned[f] \in {None, Migrated(journal.backup[f])}
    /\ undoing => journal # None /\ journal.phase = "committed"

PhaseNow ==
    CASE up.at = "migrating"                -> "prepared"
      [] up.at \in {"verify", "committed"}  -> "verifying"
      [] OTHER                              -> "migrating"

\* What a running coordinator works from.
MigrationSound ==
    Migrating => /\ journal # None /\ ~undoing
                 /\ up.base = journal.backup /\ journal.phase = PhaseNow
                 /\ Publishing => journal.owned[up.file] = Target(up.file)

RestoreSound ==
    Restoring => /\ journal # None /\ (Pending \/ undoing)
                 /\ up.at # "authorize" => \A f \in Files : up.base[f] # None /\
                       up.base[f] \in {journal.backup[f], journal.owned[f]}

StageSound ==
    /\ up.at \in {"copy", "prepared", "migrating", "choose", "plan", "verifying", "verify",
                  "committed"} => up.mode = "migrate"
    /\ up.at \in {"authorize", "readback", "restored"} => up.mode = "restore"
    /\ up.at \in {"need", "copy", "prepared"} => ~Pending

\* The copies are of the files as they still are, unless the user wrote them since.
CopySound ==
    \A f \in Files :
        up.at = "prepared" \/ (up.at = "copy" /\ up.file = "library" /\ f = "settings") =>
            /\ up.base[f] # None
            /\ file[f].rev = up.base[f].rev => file[f] = up.base[f]

\* A guard holds what the file held, or what the user wrote through it.
GuardSound ==
    /\ up.linked => up.at = "replace" /\ up.guard = file[up.file]
    /\ up.guard # None /\ up.guard.rev = journal.backup[up.file].rev =>
          up.guard \in {journal.backup[up.file], journal.owned[up.file]}

IsBack(f) == file[f].rev = journal.backup[f].rev => file[f] = journal.backup[f]

\* The files a rollback has been through are back.
RestoredSoFar ==
    Restoring =>
        /\ up.at \in {"readback", "restored"} \/ (Publishing /\ up.file = "library") =>
              IsBack("settings")
        /\ up.at \in {"readback", "restored"} => IsBack("library")
        /\ up.at = "drop" => IsBack(up.file)

VerifiedSound ==
    up.at = "committed" =>
        \A f \in Files : file[f].rev = journal.backup[f].rev => file[f].schema = "new"

UpgradeInv ==
    /\ Typed /\ Numbered /\ JournalSound /\ MigrationSound /\ RestoreSound /\ StageSound
    /\ CopySound /\ GuardSound /\ RestoredSoFar /\ VerifiedSound
    /\ RecoveryCanAuthenticate /\ AllOrNothing

InKept(f) == \E c \in kept[f] : c.rev = latest[f]

Saved(f) == file[f].rev = latest[f] \/ InKept(f)

\* Where the user's last write is while a publication goes on.
LatestSaved ==
    \A f \in Files \ raced :
        /\ ~Handling(f) \/ up.at \in {"replace", "drop"} => Saved(f)
        /\ Handling(f) /\ up.at = "replace" => up.linked
        /\ Handling(f) /\ up.at = "recheck" =>
              /\ file[f] = Target(f) \/ up.guard = up.base[f]
              /\ up.guard # up.base[f] => up.guard.rev = latest[f] \/ InKept(f)
              /\ Saved(f) \/ up.guard.rev = latest[f]

-----------------------------------------------------------------------------
(* Contents and the records of the coordinator *)

\* A content is given by its schema and its last write; a migration changes the
\* first only.
LEMMA ContentFields ==
    /\ \A c \in Content : /\ c.schema \in Schemas /\ c.rev \in 0..MaxWrites /\ c # None
                          /\ Migrated(c) \in Content
                          /\ Migrated(c).schema = "new" /\ Migrated(c).rev = c.rev
    /\ \A c \in Content, n \in 0..MaxWrites :
          [c EXCEPT !.rev = n] \in Content /\ [c EXCEPT !.rev = n].rev = n
    /\ \A s \in Schemas, n \in 0..MaxWrites :
          [schema |-> s, rev |-> n] \in Content /\ [schema |-> s, rev |-> n].rev = n
  BY NoneAssumption DEF Content, Migrated, Schemas

\* A journal is something, and its fields are of their types.
LEMMA JournalFields ==
    /\ \A j \in Journal : /\ j # None /\ j.phase \in Phases /\ j.other \in 0..MaxWrites
                          /\ j.owned \in [Files -> Content \cup {None}]
                          /\ j.backup \in [Files -> Content]
    /\ \A p \in Phases, j \in Journal :
          /\ [j EXCEPT !.phase = p] \in Journal
          /\ [j EXCEPT !.phase = p].phase = p
          /\ [j EXCEPT !.phase = p].owned = j.owned
          /\ [j EXCEPT !.phase = p].backup = j.backup
          /\ [j EXCEPT !.phase = p].other = j.other
  BY NoneAssumption DEF Journal

\* The fields of a coordinator are of their types.
LEMMA UpFields ==
    \A u \in UpRecord : /\ u.at \in Stages /\ u.mode \in {"migrate", "restore"}
                        /\ u.recovered \in BOOLEAN /\ u.file \in Files
                        /\ u.base \in [Files -> Content \cup {None}]
                        /\ u.other \in 0..MaxWrites
                        /\ u.guard \in Content \cup {None} /\ u.linked \in BOOLEAN
  BY DEF UpRecord

\* A coordinator that is not running holds nothing.
LEMMA OffFields ==
  /\ Off \in UpRecord /\ Off.at = "off" /\ Off.mode = "migrate" /\ Off.file = "settings"
  /\ Off.guard = None /\ Off.linked = FALSE /\ \A f \in Files : Off.base[f] = None
<1>1. [f \in Files |-> None] \in [Files -> Content \cup {None}]
  OBVIOUS
<1>2. 0 \in 0..MaxWrites
  BY UpgradeAssumption
<1>3. "off" \in Stages /\ "settings" \in Files
  BY DEF Stages, Files
<1> QED
  BY <1>1, <1>2, <1>3 DEF Off, UpRecord

\* Where a coordinator goes after a file, and that it holds no guard by then.
LEMMA AfterFileFields ==
  ASSUME up \in UpRecord
  PROVE  /\ AfterFile \in UpRecord /\ AfterFile.mode = up.mode /\ AfterFile.base = up.base
         /\ AfterFile.guard = None /\ AfterFile.linked = FALSE /\ AfterFile.file = "library"
         /\ AfterFile.at = IF up.file = "settings"
                           THEN IF up.mode = "migrate" THEN "choose" ELSE "guard"
                           ELSE IF up.mode = "migrate" THEN "verifying" ELSE "readback"
<1>1. {"choose", "guard", "verifying", "readback"} \subseteq Stages /\ "library" \in Files
  BY DEF Stages, Files
<1>2. CASE up.file = "settings"
  <2> DEFINE s == IF up.mode = "migrate" THEN "choose" ELSE "guard"
  <2>1. s \in Stages
    BY <1>1
  <2>2. AfterFile = [up EXCEPT !.at = s, !.file = "library", !.guard = None, !.linked = FALSE]
    BY <1>2 DEF AfterFile
  <2>3. s = IF up.mode = "migrate" THEN "choose" ELSE "guard"
    OBVIOUS
  <2> HIDE DEF s
  <2>4. /\ AfterFile \in UpRecord /\ AfterFile.mode = up.mode /\ AfterFile.base = up.base
        /\ AfterFile.guard = None /\ AfterFile.linked = FALSE /\ AfterFile.file = "library"
        /\ AfterFile.at = s
    BY <1>1, <2>1, <2>2 DEF UpRecord
  <2> QED
    BY <1>2, <2>3, <2>4
<1>3. CASE up.file # "settings"
  <2> DEFINE s == IF up.mode = "migrate" THEN "verifying" ELSE "readback"
  <2>1. s \in Stages
    BY <1>1
  <2>2. AfterFile = [up EXCEPT !.at = s, !.guard = None, !.linked = FALSE]
    BY <1>3 DEF AfterFile
  <2>3. s = IF up.mode = "migrate" THEN "verifying" ELSE "readback"
    OBVIOUS
  <2>4. up.file = "library"
    BY <1>3 DEF UpRecord, Files
  <2> HIDE DEF s
  <2>5. /\ AfterFile \in UpRecord /\ AfterFile.mode = up.mode /\ AfterFile.base = up.base
        /\ AfterFile.guard = None /\ AfterFile.linked = FALSE /\ AfterFile.file = up.file
        /\ AfterFile.at = s
    BY <2>1, <2>2 DEF UpRecord
  <2> QED
    BY <1>3, <2>3, <2>4, <2>5
<1> QED
  BY <1>2, <1>3

\* A coordinator that does not run, or is about to authorize a rollback.
Stopped ==
    /\ up \in UpRecord /\ up.at \in {"off", "authorize"}
    /\ up.at = "authorize" => up.mode = "restore"
    /\ up.guard = None /\ up.linked = FALSE /\ \A f \in Files : up.base[f] = None

\* A coordinator that begins a rollback holds nothing.
LEMMA RollbackFields ==
  ASSUME up' = [Off EXCEPT !.at = "authorize", !.mode = "restore"]
  PROVE  Stopped' /\ up'.at = "authorize"
<1>1. "authorize" \in Stages
  BY DEF Stages
<1>2. /\ up' \in UpRecord /\ up'.at = "authorize" /\ up'.mode = "restore"
      /\ up'.guard = None /\ up'.linked = FALSE /\ up'.base = Off.base
  BY <1>1, OffFields DEF UpRecord
<1> QED
  BY <1>2, OffFields DEF Stopped

\* A run that gives up stops, or rolls back the migration it was in.
LEMMA GivesUpFields ==
  ASSUME Typed, GivesUp
  PROVE  /\ Stopped' /\ (up'.at = "authorize" => up.mode = "migrate")
         /\ kept' \in [Files -> SUBSET Content]
         /\ \A f \in Files : kept[f] \subseteq kept'[f]
         /\ up.guard # None /\ up.linked = FALSE => up.guard \in kept'[up.file]
<1>1. kept \in [Files -> SUBSET Content] /\ up.file \in Files /\ up.guard \in Content \cup {None}
  BY DEF Typed, TypeOK, UpRecord
<1>2. /\ kept' \in [Files -> SUBSET Content]
      /\ \A f \in Files : kept[f] \subseteq kept'[f]
      /\ up.guard # None /\ up.linked = FALSE => up.guard \in kept'[up.file]
  BY <1>1 DEF GivesUp
<1>3. CASE up.mode = "migrate"
  BY <1>2, <1>3, RollbackFields DEF GivesUp
<1>4. CASE up.mode # "migrate"
  BY <1>2, <1>4, OffFields DEF GivesUp, Stopped
<1> QED
  BY <1>3, <1>4

-----------------------------------------------------------------------------
(* The invariant: the steps of a run *)

\* A run may stop wherever it is.
LEMMA Stops ==
  ASSUME UpgradeInv, Stopped', up'.at = "authorize" => Migrating,
         kept' \in [Files -> SUBSET Content], faults' \in 0..MaxFaults,
         UNCHANGED <<file, journal, other, latest, raced, writes, undoing>>
  PROVE  UpgradeInv'
<1>1. Typed'
  BY UpFields DEF UpgradeInv, Typed, TypeOK, Stopped
<1>2. Numbered' /\ JournalSound' /\ GuardSound'
  BY DEF UpgradeInv, Numbered, JournalSound, GuardSound, Stopped
<1>3. MigrationSound' /\ StageSound' /\ CopySound' /\ VerifiedSound'
  BY DEF Stopped, MigrationSound, Migrating, Publishing, StageSound, CopySound, VerifiedSound
<1>4. RestoreSound'
  <2>1. Migrating => journal # None /\ Pending
    BY DEF UpgradeInv, MigrationSound, PhaseNow, Pending, Terminal
  <2> QED
    BY <2>1 DEF Stopped, RestoreSound, Restoring, Publishing, Pending
<1>5. RestoredSoFar'
  BY DEF Stopped, RestoredSoFar, Restoring, Publishing
<1>6. RecoveryCanAuthenticate' /\ AllOrNothing'
  BY DEF UpgradeInv, RecoveryCanAuthenticate, AllOrNothing, Pending, Ours
<1> QED
  BY <1>1, <1>2, <1>3, <1>4, <1>5, <1>6 DEF UpgradeInv

\* What a step keeps that only moves the coordinator on.
LEMMA Moves ==
  ASSUME UpgradeInv, up' \in UpRecord, UNCHANGED <<data, journal, world>>,
         up'.guard # None <=> up'.at \in {"replace", "recheck", "drop"},
         \A f \in Files : up'.base[f] \in {None, up.base[f], file[f]},
         up'.guard \in {None, up.guard, file[up.file]}
  PROVE  Typed' /\ Numbered' /\ JournalSound' /\ RecoveryCanAuthenticate' /\ AllOrNothing'
<1>1. up.file \in Files
  BY UpFields DEF UpgradeInv, Typed
<1>2. Typed'
  BY UpFields DEF UpgradeInv, Typed, TypeOK, data, world, users
<1>3. Numbered' /\ JournalSound'
  BY <1>1 DEF UpgradeInv, Numbered, JournalSound, data, world, users
<1>4. RecoveryCanAuthenticate' /\ AllOrNothing'
  BY DEF UpgradeInv, RecoveryCanAuthenticate, AllOrNothing, Pending, Ours, data, world, users
<1> QED
  BY <1>2, <1>3, <1>4

\* A coordinator is started: it holds nothing yet.
LEMMA StartStep ==
  ASSUME UpgradeInv, Start
  PROVE  UpgradeInv'
<1>1. /\ up' \in UpRecord /\ up'.at = "recover" /\ up'.guard = None /\ up'.linked = FALSE
      /\ \A f \in Files : up'.base[f] = None
  <2>1. "recover" \in Stages
    BY DEF Stages
  <2>2. up' = [Off EXCEPT !.at = "recover"]
    BY DEF Start
  <2> QED
    BY <2>1, <2>2, OffFields DEF UpRecord
<1>2. UNCHANGED <<data, journal, world>>
  BY DEF Start
<1>3. Typed' /\ Numbered' /\ JournalSound' /\ RecoveryCanAuthenticate' /\ AllOrNothing'
  BY <1>1, <1>2, Moves
<1>4. /\ MigrationSound' /\ RestoreSound' /\ StageSound' /\ CopySound' /\ GuardSound'
      /\ RestoredSoFar' /\ VerifiedSound'
  BY <1>1 DEF MigrationSound, RestoreSound, Migrating, Restoring, Publishing, StageSound,
              CopySound, GuardSound, RestoredSoFar, VerifiedSound
<1> QED
  BY <1>3, <1>4 DEF UpgradeInv

\* The recovery looks at the journal.
LEMMA RecoverStep ==
  ASSUME UpgradeInv, Recover
  PROVE  UpgradeInv'
<1>1. /\ up' \in UpRecord /\ up'.guard = None /\ up'.linked = FALSE /\ up'.base = up.base
      /\ Pending => up'.at = "authorize" /\ up'.mode = "restore"
      /\ ~Pending => up'.at = "need"
  <2>1. {"authorize", "need"} \subseteq Stages
    BY DEF Stages
  <2>2. up \in UpRecord /\ up.guard = None /\ up.linked = FALSE
    BY UpFields DEF UpgradeInv, Typed, TypeOK, GuardSound, Recover
  <2>3. CASE Pending
    <3>1. up' = [up EXCEPT !.at = "authorize", !.mode = "restore", !.recovered = TRUE]
      BY <2>3 DEF Recover
    <3> QED
      BY <2>1, <2>2, <2>3, <3>1 DEF UpRecord
  <2>4. CASE ~Pending
    <3>1. up' = [up EXCEPT !.at = "need"]
      BY <2>4 DEF Recover
    <3> QED
      BY <2>1, <2>2, <2>4, <3>1 DEF UpRecord
  <2> QED
    BY <2>3, <2>4
<1>2. UNCHANGED <<data, journal, world>>
  BY DEF Recover
<1>3. Typed' /\ Numbered' /\ JournalSound' /\ RecoveryCanAuthenticate' /\ AllOrNothing'
  BY <1>1, <1>2, Moves
<1>4. Pending' = Pending /\ (Pending => journal # None)
  BY <1>2 DEF Pending
<1>5. MigrationSound' /\ RestoreSound' /\ StageSound'
  BY <1>1, <1>2, <1>4 DEF MigrationSound, RestoreSound, Migrating, Restoring, Publishing,
                          StageSound
<1>6. CopySound' /\ GuardSound' /\ RestoredSoFar' /\ VerifiedSound'
  BY <1>1 DEF CopySound, GuardSound, RestoredSoFar, Restoring, Publishing, VerifiedSound
<1> QED
  BY <1>3, <1>5, <1>6 DEF UpgradeInv

\* The run ends here if no file needs an upgrade.
LEMMA NeededStep ==
  ASSUME UpgradeInv, Needed
  PROVE  UpgradeInv'
<1>1. UNCHANGED <<data, journal, world>>
  BY DEF Needed
<1>2. CASE up' = Off
  BY <1>1, <1>2, OffFields, Stops DEF UpgradeInv, Typed, TypeOK, data, world, users, Stopped
<1>3. CASE up' = [up EXCEPT !.at = "copy", !.mode = "migrate", !.file = "settings"]
  <2>1. "copy" \in Stages /\ "settings" \in Files
    BY DEF Stages, Files
  <2>2. up \in UpRecord /\ up.guard = None /\ up.linked = FALSE /\ ~Pending
    BY UpFields DEF UpgradeInv, Typed, TypeOK, GuardSound, StageSound, Needed
  <2>3. /\ up' \in UpRecord /\ up'.at = "copy" /\ up'.mode = "migrate" /\ up'.file = "settings"
        /\ up'.guard = None /\ up'.linked = FALSE /\ up'.base = up.base
    BY <1>3, <2>1, <2>2 DEF UpRecord
  <2>4. Typed' /\ Numbered' /\ JournalSound' /\ RecoveryCanAuthenticate' /\ AllOrNothing'
    BY <1>1, <2>3, Moves
  <2>5. /\ MigrationSound' /\ RestoreSound' /\ StageSound' /\ CopySound' /\ GuardSound'
        /\ RestoredSoFar' /\ VerifiedSound'
    BY <1>1, <2>2, <2>3 DEF MigrationSound, RestoreSound, Migrating, Restoring, Publishing,
       StageSound, Pending, CopySound, GuardSound, RestoredSoFar, VerifiedSound
  <2> QED
    BY <2>4, <2>5 DEF UpgradeInv
<1> QED
  BY <1>2, <1>3 DEF Needed

\* The backup takes one tracked file after the other.
LEMMA CopyStep ==
  ASSUME UpgradeInv, Copy
  PROVE  UpgradeInv'
<1> DEFINE base == [up.base EXCEPT ![up.file] = file[up.file]]
           stage == IF up.file = "settings" THEN "copy" ELSE "prepared"
<1>1. /\ up \in UpRecord /\ up.at = "copy" /\ up.file \in Files /\ up.guard = None
      /\ up.linked = FALSE /\ up.mode = "migrate" /\ ~Pending
      /\ file \in [Files -> Content] /\ other \in 0..MaxWrites
  BY UpFields DEF UpgradeInv, Typed, TypeOK, GuardSound, StageSound, Copy
<1>2. UNCHANGED <<data, journal, world>>
  BY DEF Copy
<1>3. /\ base \in [Files -> Content \cup {None}]
      /\ \A f \in Files : base[f] = IF f = up.file THEN file[f] ELSE up.base[f]
      /\ stage \in Stages /\ "library" \in Files
      /\ up.file = "settings" => stage = "copy"
      /\ up.file # "settings" => stage = "prepared"
  BY <1>1, UpFields DEF Stages, Files
<1>4. up' = [up EXCEPT !.base = base, !.other = other, !.at = stage, !.file = "library"]
  BY DEF Copy
<1> HIDE DEF base, stage
<1>5. /\ up' \in UpRecord /\ up'.at = stage /\ up'.mode = "migrate" /\ up'.file = "library"
      /\ up'.guard = None /\ up'.linked = FALSE /\ up'.base = base
  BY <1>1, <1>3, <1>4 DEF UpRecord
<1>6. Typed' /\ Numbered' /\ JournalSound' /\ RecoveryCanAuthenticate' /\ AllOrNothing'
  <2>1. stage \notin {"replace", "recheck", "drop"}
    BY <1>3
  <2> QED
    BY <1>2, <1>3, <1>5, <2>1, Moves
<1>7. CopySound'
  <2> SUFFICES ASSUME NEW f \in Files,
                      stage = "prepared" \/ (stage = "copy" /\ f = "settings")
               PROVE  base[f] # None /\ (file[f].rev = base[f].rev => file[f] = base[f])
    BY <1>2, <1>5 DEF CopySound, data
  <2>1. CASE f = up.file
    BY <1>1, <1>3, <2>1, ContentFields
  <2>2. CASE f # up.file
    <3>1. up.file = "library" /\ f = "settings"
      BY <1>1, <1>3, <2>2 DEF Files
    <3> QED
      BY <1>1, <1>3, <2>2, <3>1 DEF UpgradeInv, CopySound
  <2> QED
    BY <2>1, <2>2
<1>8. MigrationSound' /\ RestoreSound' /\ StageSound'
  <2>1. ~Pending' /\ stage \in {"copy", "prepared"}
    BY <1>1, <1>2, <1>3 DEF Pending
  <2> QED
    BY <1>5, <2>1 DEF MigrationSound, RestoreSound, Migrating, Restoring, Publishing, StageSound
<1>9. GuardSound' /\ RestoredSoFar' /\ VerifiedSound'
  <2>1. stage \in {"copy", "prepared"}
    BY <1>3
  <2> QED
    BY <1>5, <2>1 DEF GuardSound, RestoredSoFar, Restoring, Publishing, VerifiedSound
<1> QED
  BY <1>6, <1>7, <1>8, <1>9 DEF UpgradeInv

\* The journal is written with the backup it names: from here on a run that stops
\* is rolled back.
LEMMA PreparedStep ==
  ASSUME UpgradeInv, Prepared
  PROVE  UpgradeInv'
<1>1. /\ up \in UpRecord /\ up.at = "prepared" /\ up.guard = None /\ up.linked = FALSE
      /\ up.mode = "migrate" /\ file \in [Files -> Content]
      /\ \A f \in Files : /\ up.base[f] # None
                          /\ file[f].rev = up.base[f].rev => file[f] = up.base[f]
      /\ up.base \in [Files -> Content] /\ up.other \in 0..MaxWrites
  <2>1. /\ up \in UpRecord /\ up.at = "prepared" /\ up.guard = None /\ up.linked = FALSE
        /\ up.mode = "migrate" /\ file \in [Files -> Content]
        /\ \A f \in Files : /\ up.base[f] # None
                            /\ file[f].rev = up.base[f].rev => file[f] = up.base[f]
    BY DEF UpgradeInv, Typed, TypeOK, GuardSound, StageSound, CopySound, Prepared
  <2>2. up.base \in [Files -> Content \cup {None}] /\ up.other \in 0..MaxWrites
    BY <2>1, UpFields
  <2> QED
    BY <2>1, <2>2
<1>2. /\ journal' \in Journal /\ journal'.phase = "prepared" /\ journal'.backup = up.base
      /\ \A f \in Files : journal'.owned[f] = None
  <2>1. [f \in Files |-> None] \in [Files -> Content \cup {None}]
    OBVIOUS
  <2>2. journal' = [phase |-> "prepared", owned |-> [f \in Files |-> None],
                    backup |-> up.base, other |-> up.other]
    BY DEF Prepared
  <2> QED
    BY <1>1, <2>1, <2>2 DEF Journal, Phases
<1>3. /\ up' \in UpRecord /\ up'.at = "migrating" /\ up'.mode = "migrate"
      /\ up'.base = up.base /\ up'.guard = None /\ up'.linked = FALSE
  <2>1. "migrating" \in Stages /\ up' = [up EXCEPT !.at = "migrating"]
    BY DEF Prepared, Stages
  <2> QED
    BY <1>1, <2>1 DEF UpRecord
<1>4. UNCHANGED <<data, users, faults>> /\ undoing' = FALSE
  BY DEF Prepared
<1>5. journal' # None /\ Pending'
  BY <1>2, JournalFields DEF Pending, Terminal
<1>6. Typed'
  BY <1>2, <1>3, <1>4, UpFields DEF UpgradeInv, Typed, TypeOK, data, users
<1>7. Numbered' /\ JournalSound'
  BY <1>1, <1>2, <1>3, <1>4 DEF UpgradeInv, Numbered, JournalSound, data, users
<1>8. RecoveryCanAuthenticate' /\ AllOrNothing'
  BY <1>1, <1>2, <1>4, <1>5 DEF RecoveryCanAuthenticate, AllOrNothing, Ours, data
<1>9. MigrationSound' /\ RestoreSound' /\ StageSound'
  BY <1>2, <1>3, <1>4, <1>5 DEF MigrationSound, RestoreSound, Migrating, Restoring,
     Publishing, PhaseNow, StageSound
<1>10. CopySound' /\ GuardSound' /\ RestoredSoFar' /\ VerifiedSound'
  BY <1>3 DEF CopySound, GuardSound, RestoredSoFar, Restoring, Publishing, VerifiedSound
<1> QED
  BY <1>6, <1>7, <1>8, <1>9, <1>10 DEF UpgradeInv

\* The journal tells the phases of a migration; the last one is told when both files
\* are verified.
LEMMA PhaseStep ==
  ASSUME UpgradeInv,
         Phase("migrating", "choose") \/ Phase("verifying", "verify")
             \/ Phase("committed", "off")
  PROVE  UpgradeInv'
<1> DEFINE phase == up.at
<1>1. /\ up \in UpRecord /\ phase \in {"migrating", "verifying", "committed"} /\ up.guard = None
      /\ up.linked = FALSE /\ up.mode = "migrate"
      /\ journal' = [journal EXCEPT !.phase = phase]
      /\ UNCHANGED <<data, world>>
  BY DEF Phase, UpgradeInv, Typed, TypeOK, GuardSound, StageSound
<1>2. journal \in Journal /\ ~undoing /\ up.base = journal.backup
  BY <1>1 DEF UpgradeInv, Typed, TypeOK, MigrationSound, Migrating
<1>3. /\ journal' \in Journal /\ journal' # None /\ journal'.phase = phase
      /\ journal'.owned = journal.owned
      /\ journal'.backup = journal.backup
  BY <1>1, <1>2, JournalFields DEF Phases
<1>4. \/ phase = "committed" /\ Stopped' /\ up'.at = "off"
      \/ /\ up' \in UpRecord /\ up'.mode = "migrate" /\ up'.base = up.base
         /\ up'.guard = None /\ up'.linked = FALSE
         /\ \/ phase = "migrating" /\ up'.at = "choose"
            \/ phase = "verifying" /\ up'.at = "verify"
  <2>1. {"choose", "verify"} \subseteq Stages /\ "settings" \in Files
    BY DEF Stages, Files
  <2>2. CASE Phase("committed", "off")
    BY <2>2, OffFields DEF Phase, Stopped
  <2>3. CASE Phase("migrating", "choose")
    <3>1. up' = [up EXCEPT !.at = "choose", !.file = "settings"] /\ phase = "migrating"
      BY <2>3 DEF Phase
    <3> QED
      BY <1>1, <2>1, <3>1 DEF UpRecord
  <2>4. CASE Phase("verifying", "verify")
    <3>1. up' = [up EXCEPT !.at = "verify", !.file = "settings"] /\ phase = "verifying"
      BY <2>4 DEF Phase
    <3> QED
      BY <1>1, <2>1, <3>1 DEF UpRecord
  <2> QED
    BY <2>2, <2>3, <2>4
<1>5. up'.guard = None /\ up'.linked = FALSE /\ up' \in UpRecord
      /\ up'.at \in {"off", "choose", "verify"} /\ \A f \in Files : up'.base[f] \in {None, up.base[f]}
  BY <1>4 DEF Stopped
<1>6. Typed'
  BY <1>1, <1>3, <1>5, UpFields DEF UpgradeInv, Typed, TypeOK, data, users, world
<1>7. Numbered' /\ JournalSound'
  BY <1>1, <1>2, <1>3, <1>5, JournalFields
     DEF UpgradeInv, Numbered, JournalSound, data, users, world
<1>8. RecoveryCanAuthenticate'
  BY <1>1, <1>2, <1>3, JournalFields
     DEF UpgradeInv, RecoveryCanAuthenticate, MigrationSound, Migrating, PhaseNow, Pending,
         Terminal, Ours, data
<1>9. AllOrNothing'
  <2>1. CASE phase = "committed"
    BY <1>1, <1>3, <2>1 DEF UpgradeInv, VerifiedSound, AllOrNothing, data
  <2>2. CASE phase # "committed"
    BY <1>1, <1>3, <2>2 DEF AllOrNothing, Pending, Terminal
  <2> QED
    BY <2>1, <2>2
<1>10. MigrationSound' /\ RestoreSound' /\ StageSound'
  BY <1>1, <1>2, <1>3, <1>4 DEF MigrationSound, RestoreSound, Migrating, Restoring,
     Publishing, PhaseNow, StageSound, world
<1>11. CopySound' /\ GuardSound' /\ RestoredSoFar' /\ VerifiedSound'
  BY <1>5 DEF CopySound, GuardSound, RestoredSoFar, Restoring, Publishing, VerifiedSound
<1> QED
  BY <1>6, <1>7, <1>8, <1>9, <1>10, <1>11 DEF UpgradeInv

\* A file that needs no migration by now is left.
LEMMA ChooseStep ==
  ASSUME UpgradeInv, Choose
  PROVE  UpgradeInv'
<1>1. /\ up \in UpRecord /\ up.at = "choose" /\ up.guard = None /\ up.linked = FALSE
      /\ up.mode = "migrate" /\ up.file \in Files
  BY UpFields DEF UpgradeInv, Typed, TypeOK, GuardSound, StageSound, Choose
<1>2. UNCHANGED <<data, journal, world>>
  BY DEF Choose
<1>3. /\ up' \in UpRecord /\ up'.at \in {"choose", "plan", "verifying"} /\ up'.guard = None
      /\ up'.linked = FALSE /\ up'.mode = "migrate" /\ up'.base = up.base
  <2>1. "plan" \in Stages
    BY DEF Stages
  <2>2. CASE up' = AfterFile
    BY <1>1, <2>2, AfterFileFields
  <2>3. CASE up' = [up EXCEPT !.at = "plan"]
    BY <1>1, <2>1, <2>3 DEF UpRecord
  <2> QED
    BY <2>2, <2>3 DEF Choose
<1>4. Typed' /\ Numbered' /\ JournalSound' /\ RecoveryCanAuthenticate' /\ AllOrNothing'
  BY <1>2, <1>3, Moves
<1>5. MigrationSound' /\ RestoreSound' /\ StageSound'
  BY <1>1, <1>2, <1>3 DEF UpgradeInv, MigrationSound, RestoreSound, Migrating, Restoring,
     Publishing, PhaseNow, StageSound, world
<1>6. CopySound' /\ GuardSound' /\ RestoredSoFar' /\ VerifiedSound'
  BY <1>3 DEF CopySound, GuardSound, RestoredSoFar, Restoring, Publishing, VerifiedSound
<1> QED
  BY <1>4, <1>5, <1>6 DEF UpgradeInv

\* The journal names what a file will be before the file is touched.
LEMMA PlanStep ==
  ASSUME UpgradeInv, Plan
  PROVE  UpgradeInv'
<1>1. /\ up \in UpRecord /\ up.at = "plan" /\ up.guard = None /\ up.linked = FALSE
      /\ up.file \in Files /\ up.mode = "migrate"
      /\ file[up.file] = up.base[up.file]
  BY UpFields DEF UpgradeInv, Typed, TypeOK, GuardSound, StageSound, Plan
<1>2. /\ journal \in Journal /\ ~undoing /\ up.base = journal.backup
      /\ journal.phase = "migrating"
  BY <1>1 DEF UpgradeInv, Typed, TypeOK, MigrationSound, Migrating, PhaseNow
<1>3. UNCHANGED <<data, world>>
  BY DEF Plan
<1>4. Target(up.file) = Migrated(journal.backup[up.file])
  BY <1>1, <1>2 DEF Target
<1>5. /\ journal' \in Journal /\ journal'.phase = "migrating" /\ journal'.backup = journal.backup
      /\ \A f \in Files : journal'.owned[f] = IF f = up.file THEN Target(f) ELSE journal.owned[f]
  <2> DEFINE owned == [journal.owned EXCEPT ![up.file] = Target(up.file)]
  <2>1. Target(up.file) \in Content /\ journal.owned \in [Files -> Content \cup {None}]
    BY <1>1, <1>2, <1>4, ContentFields, JournalFields
  <2>2. /\ owned \in [Files -> Content \cup {None}]
        /\ \A f \in Files : owned[f] = IF f = up.file THEN Target(f) ELSE journal.owned[f]
    BY <1>1, <2>1
  <2>3. journal' = [journal EXCEPT !.owned = owned]
    BY DEF Plan
  <2> HIDE DEF owned
  <2> QED
    BY <1>2, <2>2, <2>3 DEF Journal
<1>6. /\ up' \in UpRecord /\ up'.at = "guard" /\ up'.mode = "migrate" /\ up'.file = up.file
      /\ up'.base = up.base /\ up'.guard = None /\ up'.linked = FALSE
  <2>1. "guard" \in Stages /\ up' = [up EXCEPT !.at = "guard"]
    BY DEF Plan, Stages
  <2> QED
    BY <1>1, <2>1 DEF UpRecord
<1>7. journal' # None /\ Pending' /\ Pending
  BY <1>2, <1>5, JournalFields DEF Pending, Terminal
<1>8. Typed'
  BY <1>3, <1>5, <1>6, UpFields DEF UpgradeInv, Typed, TypeOK, data, users, world
<1>9. Numbered' /\ JournalSound'
  BY <1>2, <1>3, <1>4, <1>5, <1>6, <1>7, JournalFields
     DEF UpgradeInv, Numbered, JournalSound, data, users, world
<1>10. RecoveryCanAuthenticate' /\ AllOrNothing'
  <2>1. ASSUME NEW f \in Files, file[f].rev = journal.backup[f].rev
        PROVE  file[f] \in {journal'.backup[f], journal'.owned[f]}
    BY <1>1, <1>2, <1>5, <1>7, <2>1 DEF UpgradeInv, RecoveryCanAuthenticate, Ours
  <2> QED
    BY <1>3, <1>5, <1>7, <2>1 DEF RecoveryCanAuthenticate, AllOrNothing, Ours, data
<1>11. MigrationSound'
  <2>1. Target(up.file)' = Target(up.file)
    BY <1>1, <1>6 DEF Target
  <2> QED
    BY <1>1, <1>2, <1>3, <1>5, <1>6, <1>7, <2>1
       DEF MigrationSound, Migrating, Publishing, PhaseNow, world
<1>12. RestoreSound' /\ StageSound' /\ RestoredSoFar'
  BY <1>6 DEF RestoreSound, Restoring, Publishing, StageSound, RestoredSoFar
<1>13. CopySound' /\ GuardSound' /\ VerifiedSound'
  BY <1>6 DEF CopySound, GuardSound, VerifiedSound
<1> QED
  BY <1>8, <1>9, <1>10, <1>11, <1>12, <1>13 DEF UpgradeInv

\* A file is guarded while it is what was copied, or authorized.
LEMMA GuardStep ==
  ASSUME UpgradeInv, Guard
  PROVE  UpgradeInv'
<1>1. /\ up \in UpRecord /\ up.at = "guard" /\ up.file \in Files
      /\ file[up.file] = up.base[up.file] /\ file[up.file] \in Content
  BY UpFields DEF UpgradeInv, Typed, TypeOK, Guard
<1>2. UNCHANGED <<data, journal, world>>
  BY DEF Guard
<1>3. /\ up' \in UpRecord /\ up'.at = "replace" /\ up'.guard = file[up.file]
      /\ up'.linked = TRUE /\ up'.mode = up.mode /\ up'.file = up.file /\ up'.base = up.base
  <2>1. "replace" \in Stages
    BY DEF Stages
  <2>2. up' = [up EXCEPT !.at = "replace", !.guard = file[up.file], !.linked = TRUE]
    BY DEF Guard
  <2> QED
    BY <1>1, <2>1, <2>2 DEF UpRecord
<1>4. Typed' /\ Numbered' /\ JournalSound' /\ RecoveryCanAuthenticate' /\ AllOrNothing'
  BY <1>1, <1>2, <1>3, ContentFields, Moves
<1>5. Target(up.file)' = Target(up.file)
  BY <1>1, <1>2, <1>3 DEF Target
<1>6. MigrationSound' /\ RestoreSound' /\ StageSound'
  BY <1>1, <1>2, <1>3, <1>5 DEF UpgradeInv, MigrationSound, RestoreSound, Migrating, Restoring,
     Publishing, PhaseNow, Pending, StageSound, world
<1>7. CopySound' /\ RestoredSoFar' /\ VerifiedSound'
  BY <1>1, <1>2, <1>3 DEF UpgradeInv, CopySound, RestoredSoFar, Restoring, Publishing, IsBack,
     VerifiedSound, data
<1>8. GuardSound'
  <2>1. up.base[up.file] \in {journal.backup[up.file], journal.owned[up.file]}
    BY <1>1 DEF UpgradeInv, MigrationSound, RestoreSound, Migrating, Restoring, Publishing,
       Typed, TypeOK
  <2> QED
    BY <1>1, <1>2, <1>3, <2>1 DEF GuardSound, data
<1> QED
  BY <1>4, <1>6, <1>7, <1>8 DEF UpgradeInv

\* A step that finds a file changed, a publication ambiguous, a file that is not
\* the upgrade's own, or that fails, gives the run up.
LEMMA GivesUpStep ==
  ASSUME UpgradeInv, GivesUp, up.at \notin {"off", "recover", "need", "copy", "prepared"},
         UNCHANGED <<file, journal, users, undoing>>, faults' \in 0..MaxFaults
  PROVE  UpgradeInv'
<1>1. Typed
  BY DEF UpgradeInv
<1>2. /\ Stopped' /\ (up'.at = "authorize" => up.mode = "migrate")
      /\ kept' \in [Files -> SUBSET Content]
  BY <1>1, GivesUpFields
<1>3. up.mode = "migrate" => Migrating
  <2>1. up.at \in Stages
    BY <1>1, UpFields DEF Typed
  <2> QED
    BY <2>1 DEF UpgradeInv, StageSound, Migrating, Publishing, Stages
<1> QED
  BY <1>2, <1>3, Stops DEF users

\* The new state takes the file's name; the guard keeps the old inode.
LEMMA ReplaceStep ==
  ASSUME UpgradeInv, Replace
  PROVE  UpgradeInv'
<1> DEFINE f == up.file
<1>1. /\ up \in UpRecord /\ up.at = "replace" /\ f \in Files /\ file \in [Files -> Content]
      /\ up.guard # None /\ up.guard \in Content /\ up.mode \in {"migrate", "restore"}
      /\ up.base \in [Files -> Content \cup {None}]
  BY UpFields DEF UpgradeInv, Typed, TypeOK, Replace
<1>2. /\ journal \in Journal
      /\ Pending \/ undoing
      /\ up.mode = "migrate" => /\ up.base = journal.backup /\ ~undoing
                                /\ journal.owned[f] = Target(f)
  BY <1>1 DEF UpgradeInv, Typed, TypeOK, MigrationSound, RestoreSound, Migrating, Restoring,
     Publishing, PhaseNow, Pending, Terminal
<1>3. UNCHANGED <<kept, journal, world>> /\ file' = [file EXCEPT ![f] = Target(f)]
  BY DEF Replace
<1>4. /\ up' \in UpRecord /\ up'.at = "recheck" /\ up'.guard = up.guard
      /\ up'.linked = FALSE /\ up'.mode = up.mode /\ up'.file = up.file /\ up'.base = up.base
  <2>1. "recheck" \in Stages /\ up' = [up EXCEPT !.at = "recheck", !.linked = FALSE]
    BY DEF Replace, Stages
  <2> QED
    BY <1>1, <2>1 DEF UpRecord
<1>5. /\ Target(f) \in Content /\ Target(f).rev = journal.backup[f].rev
      /\ Target(f) \in {journal.backup[f], journal.owned[f]}
      /\ up.mode = "restore" => Target(f) = journal.backup[f]
  BY <1>1, <1>2, ContentFields, JournalFields DEF Target
<1>6. /\ file' \in [Files -> Content] /\ file'[f] = Target(f)
      /\ \A g \in Files : g # f => file'[g] = file[g]
  BY <1>1, <1>3, <1>5
<1>7. Typed'
  BY <1>3, <1>4, <1>6, <1>1, UpFields DEF UpgradeInv, Typed, TypeOK, users, world
<1>8. Numbered' /\ JournalSound'
  BY <1>1, <1>2, <1>3, <1>4, <1>5, <1>6, JournalFields
     DEF UpgradeInv, Numbered, JournalSound, users, world
<1>9. RecoveryCanAuthenticate'
  BY <1>1, <1>3, <1>5, <1>6 DEF UpgradeInv, RecoveryCanAuthenticate, Pending, Ours
<1>10. AllOrNothing'
  BY <1>2, <1>3 DEF AllOrNothing, Pending, world
<1>11. MigrationSound' /\ RestoreSound' /\ StageSound'
  <2>1. Target(up.file)' = Target(up.file)
    BY <1>1, <1>3, <1>4 DEF Target
  <2> QED
    BY <1>1, <1>3, <1>4, <2>1 DEF UpgradeInv, MigrationSound, RestoreSound, Migrating,
       Restoring, Publishing, PhaseNow, Pending, StageSound, world
<1>12. CopySound' /\ GuardSound' /\ VerifiedSound'
  BY <1>1, <1>3, <1>4 DEF UpgradeInv, CopySound, GuardSound, VerifiedSound
<1>13. RestoredSoFar'
  <2>1. "settings" \in Files /\ "settings" # "library"
    BY DEF Files
  <2> QED
    BY <1>1, <1>3, <1>4, <1>6, <2>1
       DEF UpgradeInv, RestoredSoFar, Restoring, Publishing, IsBack
<1> QED
  BY <1>7, <1>8, <1>9, <1>10, <1>11, <1>12, <1>13 DEF UpgradeInv

\* The publication stands: nobody wrote to the old inode and the name leads to the
\* new one.
LEMMA PublishedStep ==
  ASSUME UpgradeInv, Published
  PROVE  UpgradeInv'
<1>1. /\ up \in UpRecord /\ up.at = "recheck" /\ up.file \in Files /\ up.guard # None
      /\ up.linked = FALSE /\ file[up.file] = Target(up.file)
  BY UpFields DEF UpgradeInv, Typed, TypeOK, GuardSound, Published
<1>2. UNCHANGED <<data, journal, world>>
  BY DEF Published
<1>3. /\ up' \in UpRecord /\ up'.at = "drop" /\ up'.guard = up.guard /\ up'.linked = FALSE
      /\ up'.mode = up.mode /\ up'.file = up.file /\ up'.base = up.base
  <2>1. "drop" \in Stages /\ up' = [up EXCEPT !.at = "drop"]
    BY DEF Published, Stages
  <2> QED
    BY <1>1, <2>1 DEF UpRecord
<1>4. Typed' /\ Numbered' /\ JournalSound' /\ RecoveryCanAuthenticate' /\ AllOrNothing'
  BY <1>1, <1>2, <1>3, Moves
<1>5. Target(up.file)' = Target(up.file)
  BY <1>1, <1>2, <1>3 DEF Target
<1>6. MigrationSound' /\ RestoreSound' /\ StageSound'
  BY <1>1, <1>2, <1>3, <1>5 DEF UpgradeInv, MigrationSound, RestoreSound, Migrating, Restoring,
     Publishing, PhaseNow, Pending, StageSound, world
<1>7. CopySound' /\ GuardSound' /\ VerifiedSound'
  BY <1>1, <1>2, <1>3 DEF UpgradeInv, CopySound, GuardSound, VerifiedSound, data
<1>8. RestoredSoFar'
  BY <1>1, <1>2, <1>3 DEF UpgradeInv, RestoredSoFar, Restoring, Publishing, IsBack, Target, data
<1> QED
  BY <1>4, <1>6, <1>7, <1>8 DEF UpgradeInv

\* What the user wrote to the old inode is put back under the file's name.
LEMMA PutBackStep ==
  ASSUME UpgradeInv, PutBack
  PROVE  UpgradeInv'
<1> DEFINE f == up.file
<1>1. /\ up \in UpRecord /\ up.at = "recheck" /\ f \in Files /\ file \in [Files -> Content]
      /\ up.guard # None /\ up.guard \in Content /\ up.mode \in {"migrate", "restore"}
  BY UpFields DEF UpgradeInv, Typed, TypeOK, PutBack
<1>2. /\ journal \in Journal /\ (Pending \/ undoing)
      /\ up.mode = "migrate" => Pending
  BY <1>1 DEF UpgradeInv, Typed, TypeOK, MigrationSound, RestoreSound, Migrating, Restoring,
     Publishing, PhaseNow, Pending, Terminal
<1>3. UNCHANGED <<kept, journal, world>> /\ file' = [file EXCEPT ![f] = up.guard]
  BY DEF PutBack
<1>4. Stopped' /\ (up'.at = "authorize" => up.mode = "migrate")
  <2>1. CASE up.mode = "migrate"
    BY <2>1, OffFields, RollbackFields DEF PutBack
  <2>2. CASE up.mode # "migrate"
    BY <2>2, OffFields DEF PutBack, Stopped
  <2> QED
    BY <2>1, <2>2
<1>5. /\ file' \in [Files -> Content] /\ file'[f] = up.guard
      /\ \A g \in Files : g # f => file'[g] = file[g]
  BY <1>1, <1>3
<1>6. Typed'
  BY <1>1, <1>3, <1>4, <1>5, UpFields DEF UpgradeInv, Typed, TypeOK, Stopped, users, world
<1>7. Numbered' /\ JournalSound'
  BY <1>1, <1>3, <1>4, <1>5 DEF UpgradeInv, Numbered, JournalSound, Stopped, users, world
<1>8. RecoveryCanAuthenticate'
  BY <1>1, <1>3, <1>5 DEF UpgradeInv, GuardSound, RecoveryCanAuthenticate, Pending, Ours
<1>9. AllOrNothing'
  BY <1>2, <1>3 DEF AllOrNothing, Pending, world
<1>10. MigrationSound' /\ RestoreSound' /\ StageSound'
  <2>1. Pending' = Pending /\ Pending => journal # None
    BY <1>3 DEF Pending
  <2> QED
    BY <1>2, <1>3, <1>4, <2>1, JournalFields DEF MigrationSound, RestoreSound, Migrating,
       Restoring, Publishing, StageSound, Stopped, Pending
<1>11. CopySound' /\ GuardSound' /\ VerifiedSound' /\ RestoredSoFar'
  BY <1>4 DEF CopySound, GuardSound, VerifiedSound, RestoredSoFar, Restoring, Publishing, Stopped
<1> QED
  BY <1>6, <1>7, <1>8, <1>9, <1>10, <1>11 DEF UpgradeInv

\* The guard of a published file goes; a file that was restored is back by then.
LEMMA DropStep ==
  ASSUME UpgradeInv, Drop
  PROVE  UpgradeInv'
<1>1. /\ up \in UpRecord /\ up.at = "drop" /\ up.file \in Files
      /\ up.mode \in {"migrate", "restore"}
  BY UpFields DEF UpgradeInv, Typed, TypeOK, Drop
<1>2. UNCHANGED <<data, journal, world>> /\ up' = AfterFile
  BY DEF Drop
<1>3. /\ up' \in UpRecord /\ up'.guard = None /\ up'.linked = FALSE /\ up'.file = "library"
      /\ up'.mode = up.mode /\ up'.base = up.base
      /\ up.mode = "migrate" => up'.at \in {"choose", "verifying"}
      /\ up.mode = "restore" => \/ up'.at = "guard" /\ up.file = "settings"
                                \/ up'.at = "readback" /\ up.file = "library"
  BY <1>1, <1>2, AfterFileFields DEF Files
<1>4. Typed' /\ Numbered' /\ JournalSound' /\ RecoveryCanAuthenticate' /\ AllOrNothing'
  BY <1>1, <1>2, <1>3, Moves
<1>5. MigrationSound' /\ RestoreSound' /\ StageSound'
  BY <1>1, <1>2, <1>3 DEF UpgradeInv, MigrationSound, RestoreSound, Migrating, Restoring,
     Publishing, PhaseNow, Pending, StageSound, world
<1>6. CopySound' /\ GuardSound' /\ VerifiedSound'
  BY <1>1, <1>3 DEF CopySound, GuardSound, VerifiedSound
<1>7. RestoredSoFar'
  BY <1>1, <1>2, <1>3 DEF UpgradeInv, RestoredSoFar, Restoring, Publishing, IsBack, data
<1> QED
  BY <1>4, <1>5, <1>6, <1>7 DEF UpgradeInv

\* A migration is committed once both files are migrated, and rolled back otherwise.
LEMMA VerifyStep ==
  ASSUME UpgradeInv, Verify
  PROVE  UpgradeInv'
<1>1. CASE Verified
  <2>1. /\ up \in UpRecord /\ up.at = "verify" /\ up.guard = None /\ up.linked = FALSE
        /\ up.mode = "migrate"
    BY DEF UpgradeInv, Typed, TypeOK, GuardSound, StageSound, Verify
  <2>2. UNCHANGED <<data, journal, world>>
    BY <1>1 DEF Verify, data
  <2>3. /\ up' \in UpRecord /\ up'.at = "committed" /\ up'.guard = None /\ up'.linked = FALSE
        /\ up'.mode = "migrate" /\ up'.base = up.base
    <3>1. "committed" \in Stages /\ up' = [up EXCEPT !.at = "committed"]
      BY <1>1 DEF Verify, Stages
    <3> QED
      BY <2>1, <3>1 DEF UpRecord
  <2>4. Typed' /\ Numbered' /\ JournalSound' /\ RecoveryCanAuthenticate' /\ AllOrNothing'
    BY <2>2, <2>3, Moves
  <2>5. MigrationSound' /\ RestoreSound' /\ StageSound'
    BY <2>1, <2>2, <2>3 DEF UpgradeInv, MigrationSound, RestoreSound, Migrating, Restoring,
       Publishing, PhaseNow, StageSound, world
  <2>6. CopySound' /\ GuardSound' /\ RestoredSoFar'
    BY <2>3 DEF CopySound, GuardSound, RestoredSoFar, Restoring, Publishing
  <2>7. VerifiedSound'
    BY <1>1, <2>2 DEF VerifiedSound, Verified, data
  <2> QED
    BY <2>4, <2>5, <2>6, <2>7 DEF UpgradeInv
<1>2. CASE ~Verified
  BY <1>2, GivesUpStep DEF Verify, world, UpgradeInv, Typed, TypeOK
<1> QED
  BY <1>1, <1>2

\* A rollback goes on from files that are all the original or the upgrade's own.
LEMMA AuthorizeStep ==
  ASSUME UpgradeInv, Authorize
  PROVE  UpgradeInv'
<1>1. /\ up \in UpRecord /\ up.at = "authorize" /\ up.guard = None /\ up.linked = FALSE
      /\ up.mode = "restore" /\ file \in [Files -> Content]
      /\ \A f \in Files : file[f] \in {journal.backup[f], journal.owned[f]}
  BY DEF UpgradeInv, Typed, TypeOK, GuardSound, StageSound, Authorize, Ours
<1>2. UNCHANGED <<data, journal, world>>
  BY DEF Authorize
<1>3. /\ up' \in UpRecord /\ up'.at = "guard" /\ up'.guard = None /\ up'.linked = FALSE
      /\ up'.mode = "restore" /\ up'.base = file /\ up'.file = "settings"
  <2>1. "guard" \in Stages /\ "settings" \in Files /\ file \in [Files -> Content \cup {None}]
    BY <1>1 DEF Stages, Files
  <2>2. up' = [up EXCEPT !.at = "guard", !.base = file, !.file = "settings"]
    BY DEF Authorize
  <2> QED
    BY <1>1, <2>1, <2>2 DEF UpRecord
<1>4. Typed' /\ Numbered' /\ JournalSound' /\ RecoveryCanAuthenticate' /\ AllOrNothing'
  BY <1>2, <1>3, Moves
<1>5. MigrationSound' /\ StageSound'
  BY <1>3 DEF MigrationSound, Migrating, Publishing, StageSound
<1>6. RestoreSound'
  <2>1. \A f \in Files : file[f] # None
    BY <1>1, ContentFields
  <2> QED
    BY <1>1, <1>2, <1>3, <2>1 DEF UpgradeInv, RestoreSound, Restoring, Publishing, Pending, world
<1>7. CopySound' /\ GuardSound' /\ RestoredSoFar' /\ VerifiedSound'
  BY <1>3 DEF CopySound, GuardSound, RestoredSoFar, Restoring, Publishing, VerifiedSound
<1> QED
  BY <1>4, <1>5, <1>6, <1>7 DEF UpgradeInv

\* Both files are back before the journal says so.
LEMMA ReadbackStep ==
  ASSUME UpgradeInv, Readback
  PROVE  UpgradeInv'
<1>1. CASE up' = [up EXCEPT !.at = "restored"] /\ UNCHANGED kept
  <2>1. /\ up \in UpRecord /\ up.at = "readback" /\ up.guard = None /\ up.linked = FALSE
        /\ up.mode = "restore"
    BY DEF UpgradeInv, Typed, TypeOK, GuardSound, StageSound, Readback
  <2>2. UNCHANGED <<data, journal, world>>
    BY <1>1 DEF Readback, data
  <2>3. /\ up' \in UpRecord /\ up'.at = "restored" /\ up'.guard = None /\ up'.linked = FALSE
        /\ up'.mode = "restore" /\ up'.base = up.base
    <3>1. "restored" \in Stages
      BY DEF Stages
    <3> QED
      BY <1>1, <2>1, <3>1 DEF UpRecord
  <2>4. Typed' /\ Numbered' /\ JournalSound' /\ RecoveryCanAuthenticate' /\ AllOrNothing'
    BY <2>2, <2>3, Moves
  <2>5. MigrationSound' /\ RestoreSound' /\ StageSound'
    BY <2>1, <2>2, <2>3 DEF UpgradeInv, MigrationSound, RestoreSound, Migrating, Restoring,
       Publishing, Pending, StageSound, world
  <2>6. CopySound' /\ GuardSound' /\ VerifiedSound'
    BY <2>3 DEF CopySound, GuardSound, VerifiedSound
  <2>7. RestoredSoFar'
    BY <2>1, <2>2, <2>3 DEF UpgradeInv, RestoredSoFar, Restoring, Publishing, IsBack, data
  <2> QED
    BY <2>4, <2>5, <2>6, <2>7 DEF UpgradeInv
<1>2. CASE GivesUp
  BY <1>2, GivesUpStep DEF Readback, world, UpgradeInv, Typed, TypeOK
<1> QED
  BY <1>1, <1>2 DEF Readback

\* The journal of a rollback ends with both files back.
LEMMA RolledBackStep ==
  ASSUME UpgradeInv, RolledBack
  PROVE  UpgradeInv'
<1>1. /\ up \in UpRecord /\ up.at = "restored" /\ up.guard = None /\ up.linked = FALSE
      /\ journal \in Journal /\ IsBack("settings") /\ IsBack("library")
  <2>1. up \in UpRecord /\ up.at = "restored" /\ up.guard = None /\ up.linked = FALSE
    BY DEF UpgradeInv, Typed, TypeOK, GuardSound, RolledBack
  <2>2. journal \in Journal
    BY <2>1 DEF UpgradeInv, Typed, TypeOK, RestoreSound, Restoring
  <2>3. IsBack("settings") /\ IsBack("library")
    BY <2>1 DEF UpgradeInv, RestoredSoFar, Restoring
  <2> QED
    BY <2>1, <2>2, <2>3
<1>2. /\ journal' \in Journal /\ journal' # None /\ journal'.phase = "rolled_back"
      /\ journal'.owned = journal.owned /\ journal'.backup = journal.backup
      /\ journal # None
  BY <1>1, JournalFields DEF RolledBack, Phases
<1>3. /\ up' \in UpRecord /\ up'.at \in {"off", "need"} /\ up'.guard = None
      /\ up'.linked = FALSE /\ \A f \in Files : up'.base[f] \in {None, up.base[f]}
  <2>1. CASE up' = Off
    BY <2>1, OffFields
  <2>2. CASE up' = [up EXCEPT !.at = "need"]
    <3>1. "need" \in Stages
      BY DEF Stages
    <3> QED
      BY <1>1, <2>2, <3>1 DEF UpRecord
  <2> QED
    BY <2>1, <2>2 DEF RolledBack
<1>4. UNCHANGED <<data, users, faults>> /\ undoing' = FALSE
  BY DEF RolledBack
<1>5. ~Pending'
  BY <1>2 DEF Pending, Terminal
<1>6. Typed'
  BY <1>2, <1>3, <1>4, UpFields DEF UpgradeInv, Typed, TypeOK, data, users
<1>7. Numbered' /\ JournalSound'
  BY <1>2, <1>3, <1>4 DEF UpgradeInv, Numbered, JournalSound, data, users
<1>8. RecoveryCanAuthenticate' /\ AllOrNothing'
  BY <1>1, <1>2, <1>4, <1>5 DEF RecoveryCanAuthenticate, AllOrNothing, IsBack, Files, data
<1>9. MigrationSound' /\ RestoreSound' /\ StageSound'
  BY <1>3, <1>5 DEF MigrationSound, RestoreSound, Migrating, Restoring, Publishing, StageSound
<1>10. CopySound' /\ GuardSound' /\ RestoredSoFar' /\ VerifiedSound'
  BY <1>3 DEF CopySound, GuardSound, RestoredSoFar, Restoring, Publishing, VerifiedSound
<1> QED
  BY <1>6, <1>7, <1>8, <1>9, <1>10 DEF UpgradeInv

-----------------------------------------------------------------------------
(* The invariant: crashes and failures *)

\* A fault is counted, and comes while a coordinator runs.
LEMMA FaultFields ==
  ASSUME UpgradeInv, MayFail
  PROVE  faults' \in 0..MaxFaults /\ up.at # "off"
  BY UpgradeAssumption DEF UpgradeInv, Typed, TypeOK, MayFail

\* A crash leaves the files and the journal as they are.
LEMMA CrashStep ==
  ASSUME UpgradeInv, Crash
  PROVE  UpgradeInv'
<1>1. Stopped' /\ up'.at = "off"
  BY OffFields DEF Crash, Stopped
<1>2. kept' \in [Files -> SUBSET Content]
  <2>1. kept \in [Files -> SUBSET Content] /\ up.file \in Files /\ up.guard \in Content \cup {None}
    BY UpFields DEF UpgradeInv, Typed, TypeOK
  <2> QED
    BY <2>1 DEF Crash
<1> QED
  BY <1>1, <1>2, FaultFields, Stops DEF Crash, users

\* A failing operation ends the run, or the migration it was in.
LEMMA FailsStep ==
  ASSUME UpgradeInv, Fails
  PROVE  UpgradeInv'
<1>1. CASE up' = Off /\ UNCHANGED kept
  BY <1>1, OffFields, FaultFields, Stops
     DEF Fails, Stopped, users, UpgradeInv, Typed, TypeOK
<1>2. CASE GivesUp /\ up.at \notin {"recover", "need", "copy", "prepared"}
  BY <1>2, FaultFields, GivesUpStep DEF Fails
<1> QED
  BY <1>1, <1>2 DEF Fails

\* A phase that is told twice over, in the journal and by a failure, is rolled back.
LEMMA FailsLateStep ==
  ASSUME UpgradeInv, FailsLate
  PROVE  UpgradeInv'
<1> DEFINE phase == up.at
<1>1. /\ phase \in {"migrating", "verifying", "committed"}
      /\ journal' = [journal EXCEPT !.phase = phase]
      /\ undoing' = (phase = "committed")
      /\ UNCHANGED <<file, users>> /\ faults' \in 0..MaxFaults
  BY FaultFields DEF FailsLate
<1>2. /\ Stopped' /\ kept' \in [Files -> SUBSET Content]
  BY GivesUpFields DEF FailsLate, UpgradeInv
<1>3. journal \in Journal /\ Pending
  BY <1>1, JournalFields DEF UpgradeInv, Typed, TypeOK, MigrationSound, Migrating, PhaseNow,
     Pending, Terminal
<1>4. /\ journal' \in Journal /\ journal' # None /\ journal'.phase = phase
      /\ journal'.owned = journal.owned /\ journal'.backup = journal.backup /\ journal # None
  BY <1>1, <1>3, JournalFields DEF Phases
<1>5. Pending' \/ undoing'
  BY <1>1, <1>4 DEF Pending, Terminal
<1>6. Typed'
  BY <1>1, <1>2, <1>4, UpFields DEF UpgradeInv, Typed, TypeOK, Stopped, users
<1>7. Numbered' /\ JournalSound'
  BY <1>1, <1>2, <1>4 DEF UpgradeInv, Numbered, JournalSound, Stopped, users
<1>8. RecoveryCanAuthenticate' /\ AllOrNothing'
  BY <1>1, <1>3, <1>4, <1>5 DEF UpgradeInv, RecoveryCanAuthenticate, AllOrNothing, Ours
<1>9. MigrationSound' /\ RestoreSound' /\ StageSound'
  BY <1>2, <1>4, <1>5 DEF MigrationSound, RestoreSound, Migrating, Restoring, Publishing,
     StageSound, Stopped
<1>10. CopySound' /\ GuardSound' /\ RestoredSoFar' /\ VerifiedSound'
  BY <1>2 DEF CopySound, GuardSound, RestoredSoFar, Restoring, Publishing, VerifiedSound, Stopped
<1> QED
  BY <1>6, <1>7, <1>8, <1>9, <1>10 DEF UpgradeInv

-----------------------------------------------------------------------------
(* The invariant: other programs *)

\* A write by another program has a number of its own, so it is told from whatever
\* the upgrade has copied, planned or guarded.
LEMMA WriteKeeps ==
  ASSUME UpgradeInv, UNCHANGED <<kept, journal, undoing, faults>>,
         writes < MaxWrites, writes' = writes + 1,
         latest' \in [Files -> 0..MaxWrites], other' \in 0..MaxWrites, raced' \subseteq Files,
         file' \in [Files -> Content],
         \A g \in Files : file'[g] = file[g] \/ file'[g].rev = writes + 1,
         up' \in UpRecord, up'.at = up.at, up'.mode = up.mode, up'.file = up.file,
         up'.base = up.base,
         up'.guard = up.guard
             \/ (up.guard # None /\ up'.guard # None /\ up'.guard.rev = writes + 1),
         up'.linked = TRUE => up.linked = TRUE /\ up'.guard = file'[up.file]
  PROVE  UpgradeInv'
<1>1. /\ writes \in Nat /\ MaxWrites \in Nat /\ file \in [Files -> Content]
      /\ up \in UpRecord /\ up.file \in Files /\ up.base \in [Files -> Content \cup {None}]
      /\ up.guard \in Content \cup {None} /\ up'.guard \in Content \cup {None}
      /\ journal \in Journal \cup {None}
      /\ up.mode \in {"migrate", "restore"}
  BY UpgradeAssumption, UpFields DEF UpgradeInv, Typed, TypeOK
<1>2. \A c \in Content : c.rev \in Nat
  BY ContentFields, UpgradeAssumption
<1>3. Numbered'
  BY <1>1, <1>2, JournalFields DEF UpgradeInv, Numbered
<1>4. \A g \in Files : journal # None => /\ journal.backup[g] \in Content
                                         /\ journal.backup[g].rev # writes + 1
  BY <1>1, <1>2, JournalFields DEF UpgradeInv, Numbered
<1>5. Typed'
  BY <1>1, UpFields DEF UpgradeInv, Typed, TypeOK
<1>6. JournalSound' /\ StageSound'
  BY DEF UpgradeInv, JournalSound, StageSound, Pending
<1>7. MigrationSound' /\ RestoreSound'
  <2>1. Target(up.file)' = Target(up.file)
    BY DEF Target
  <2> QED
    BY <2>1 DEF UpgradeInv, MigrationSound, RestoreSound, Migrating, Restoring, Publishing,
       PhaseNow, Pending
<1>8. CopySound'
  BY <1>1, <1>2 DEF UpgradeInv, CopySound, Numbered
<1>9. GuardSound'
  <2>1. up'.guard # None /\ up'.guard.rev = journal.backup[up.file].rev =>
           up'.guard \in {journal.backup[up.file], journal.owned[up.file]}
    <3>1. up.guard # None => journal # None
      BY DEF UpgradeInv, Typed, TypeOK, MigrationSound, RestoreSound, Migrating, Restoring,
         Publishing, UpRecord
    <3> QED
      BY <1>1, <1>4, <3>1 DEF UpgradeInv, GuardSound
  <2> QED
    BY <2>1 DEF UpgradeInv, GuardSound
<1>10. journal # None => \A g \in Files : IsBack(g) => IsBack(g)'
  BY <1>4 DEF IsBack
<1>11. RestoredSoFar'
  <2>1. "settings" \in Files /\ "library" \in Files
    BY DEF Files
  <2>2. Restoring' = Restoring /\ Publishing' = Publishing /\ (Restoring => journal # None)
    BY DEF UpgradeInv, RestoreSound, Restoring, Publishing
  <2> QED
    BY <1>1, <1>10, <2>1, <2>2 DEF UpgradeInv, RestoredSoFar
<1>12. VerifiedSound'
  <2>1. up.at = "committed" => journal # None
    BY DEF UpgradeInv, MigrationSound, Migrating
  <2> QED
    BY <1>4, <2>1 DEF UpgradeInv, VerifiedSound
<1>13. RecoveryCanAuthenticate' /\ AllOrNothing'
  BY <1>4 DEF UpgradeInv, RecoveryCanAuthenticate, AllOrNothing, Pending, Ours
<1> QED
  BY <1>3, <1>5, <1>6, <1>7, <1>8, <1>9, <1>11, <1>12, <1>13 DEF UpgradeInv

\* What a write does to the coordinator: at most its guard is the file no more, or
\* holds what was written.
LEMMA GuardFields ==
  ASSUME NEW c \in Content, up \in UpRecord
  PROVE  /\ LET v == [up EXCEPT !.linked = FALSE]
            IN  /\ v \in UpRecord /\ v.at = up.at /\ v.mode = up.mode /\ v.file = up.file
                /\ v.base = up.base /\ v.guard = up.guard /\ v.linked = FALSE
         /\ LET v == [up EXCEPT !.guard = c]
            IN  /\ v \in UpRecord /\ v.at = up.at /\ v.mode = up.mode /\ v.file = up.file
                /\ v.base = up.base /\ v.guard = c /\ v.linked = up.linked
<1>1. LET v == [up EXCEPT !.linked = FALSE]
      IN  /\ v \in UpRecord /\ v.at = up.at /\ v.mode = up.mode /\ v.file = up.file
          /\ v.base = up.base /\ v.guard = up.guard /\ v.linked = FALSE
  BY DEF UpRecord
<1>2. LET v == [up EXCEPT !.guard = c]
      IN  /\ v \in UpRecord /\ v.at = up.at /\ v.mode = up.mode /\ v.file = up.file
          /\ v.base = up.base /\ v.guard = c /\ v.linked = up.linked
  BY DEF UpRecord
<1> QED
  BY <1>1, <1>2

\* A write is numbered within its bound.
LEMMA WrittenFields ==
  ASSUME UpgradeInv, NEW f \in Files, NEW new \in Content, new.rev = writes + 1,
         NEW stale, NEW inplace, Written(f, new, stale, inplace)
  PROVE  /\ UNCHANGED <<kept, journal, undoing, faults>>
         /\ writes < MaxWrites /\ writes' = writes + 1 /\ other' = other
         /\ latest' \in [Files -> 0..MaxWrites] /\ raced' \subseteq Files
         /\ other' \in 0..MaxWrites
  BY ContentFields DEF UpgradeInv, Typed, TypeOK, Written

\* Another program replaces a file.
LEMMA ReplacedOutsideStep ==
  ASSUME UpgradeInv, NEW f \in Files, NEW s \in Schemas, ReplacedOutside(f, s)
  PROVE  UpgradeInv'
<1> DEFINE new == [schema |-> s, rev |-> writes + 1]
<1>1. writes + 1 \in 0..MaxWrites
  BY UpgradeAssumption DEF UpgradeInv, Typed, TypeOK, ReplacedOutside, Written
<1>2. new \in Content /\ new.rev = writes + 1
  BY <1>1, ContentFields
<1>3. Written(f, new, FALSE, FALSE)
  BY DEF ReplacedOutside
<1>4. /\ file' \in [Files -> Content]
      /\ \A g \in Files : file'[g] = file[g] \/ file'[g].rev = writes + 1
      /\ \A g \in Files : g # f => file'[g] = file[g]
  BY <1>2 DEF UpgradeInv, Typed, TypeOK, ReplacedOutside
<1>5. /\ up' \in UpRecord /\ up'.at = up.at /\ up'.mode = up.mode /\ up'.file = up.file
      /\ up'.base = up.base /\ up'.guard = up.guard
      /\ up'.linked = IF Handling(f) THEN FALSE ELSE up.linked
  <2>1. CASE Handling(f)
    BY <1>2, <2>1, GuardFields DEF ReplacedOutside, UpgradeInv, Typed
  <2>2. CASE ~Handling(f)
    BY <2>2 DEF ReplacedOutside, UpgradeInv, Typed
  <2> QED
    BY <2>1, <2>2
<1>6. up'.linked = TRUE => up.linked = TRUE /\ up'.guard = file'[up.file]
  <2> SUFFICES ASSUME up'.linked = TRUE
               PROVE  up.linked = TRUE /\ up'.guard = file'[up.file]
    OBVIOUS
  <2>1. ~Handling(f) /\ up.linked = TRUE
    BY <1>5
  <2>2. up.guard # None /\ up.guard = file[up.file] /\ up.file \in Files
    BY <2>1, UpFields DEF UpgradeInv, Typed, TypeOK, GuardSound
  <2> QED
    BY <1>4, <1>5, <2>1, <2>2 DEF Handling
<1> HIDE DEF new
<1> QED
  BY <1>2, <1>3, <1>4, <1>5, <1>6, WrittenFields, WriteKeeps

\* Another program writes a file in place, through the guard too if that is the
\* same inode.
LEMMA WrittenInPlaceStep ==
  ASSUME UpgradeInv, NEW f \in Files, WrittenInPlace(f)
  PROVE  UpgradeInv'
<1> DEFINE new == [file[f] EXCEPT !.rev = writes + 1]
<1>1. writes + 1 \in 0..MaxWrites /\ file[f] \in Content
  BY UpgradeAssumption DEF UpgradeInv, Typed, TypeOK, WrittenInPlace, Written
<1>2. new \in Content /\ new.rev = writes + 1 /\ new # None
  BY <1>1, ContentFields
<1>3. Written(f, new, FALSE, TRUE)
  BY DEF WrittenInPlace
<1>4. /\ file' \in [Files -> Content] /\ file'[f] = new
      /\ \A g \in Files : file'[g] = file[g] \/ file'[g].rev = writes + 1
      /\ \A g \in Files : g # f => file'[g] = file[g]
  BY <1>2 DEF UpgradeInv, Typed, TypeOK, WrittenInPlace
<1>5. /\ up' \in UpRecord /\ up'.at = up.at /\ up'.mode = up.mode /\ up'.file = up.file
      /\ up'.base = up.base /\ up'.linked = up.linked
      /\ up'.guard = IF Handling(f) /\ up.linked THEN new ELSE up.guard
  <2>1. CASE Handling(f) /\ up.linked
    <3>1. up' = [up EXCEPT !.guard = new]
      BY <2>1 DEF WrittenInPlace
    <3> QED
      BY <1>2, <2>1, <3>1, GuardFields DEF UpgradeInv, Typed
  <2>2. CASE ~(Handling(f) /\ up.linked)
    BY <2>2 DEF WrittenInPlace, UpgradeInv, Typed
  <2> QED
    BY <2>1, <2>2
<1> HIDE DEF new
<1>6. up'.linked = TRUE => up.linked = TRUE /\ up'.guard = file'[up.file]
  <2> SUFFICES ASSUME up'.linked = TRUE
               PROVE  up'.guard = file'[up.file]
    BY <1>5
  <2>1. up.linked = TRUE /\ up.guard # None /\ up.guard = file[up.file] /\ up.file \in Files
    BY <1>5, UpFields DEF UpgradeInv, Typed, TypeOK, GuardSound
  <2> QED
    BY <1>4, <1>5, <2>1 DEF Handling
<1>7. up'.guard = up.guard
         \/ (up.guard # None /\ up'.guard # None /\ up'.guard.rev = writes + 1)
  BY <1>2, <1>5 DEF Handling
<1> QED
  BY <1>2, <1>3, <1>4, <1>5, <1>6, <1>7, WrittenFields, WriteKeeps

\* A program that opened the file before it was replaced writes to the guard only.
LEMMA WrittenToOldInodeStep ==
  ASSUME UpgradeInv, NEW f \in Files, WrittenToOldInode(f)
  PROVE  UpgradeInv'
<1> DEFINE new == [up.guard EXCEPT !.rev = writes + 1]
<1>1. writes + 1 \in 0..MaxWrites /\ up.guard \in Content /\ up.linked = FALSE /\ up.guard # None
  BY UpgradeAssumption, UpFields
     DEF UpgradeInv, Typed, TypeOK, WrittenToOldInode, Written, Handling
<1>2. new \in Content /\ new.rev = writes + 1 /\ new # None
  BY <1>1, ContentFields
<1>3. Written(f, new, TRUE, TRUE) /\ up' = [up EXCEPT !.guard = new] /\ file' = file
  BY DEF WrittenToOldInode
<1> HIDE DEF new
<1>4. /\ up' \in UpRecord /\ up'.at = up.at /\ up'.mode = up.mode /\ up'.file = up.file
      /\ up'.base = up.base /\ up'.linked = up.linked /\ up'.guard = new
  BY <1>2, <1>3, GuardFields DEF UpgradeInv, Typed
<1>5. file' \in [Files -> Content]
  BY <1>3 DEF UpgradeInv, Typed, TypeOK
<1> QED
  BY <1>1, <1>2, <1>3, <1>4, <1>5, WrittenFields, WriteKeeps

\* Another program writes what the upgrade only preserves.
LEMMA OtherWrittenStep ==
  ASSUME UpgradeInv, OtherWritten
  PROVE  UpgradeInv'
<1>1. writes + 1 \in 0..MaxWrites
  BY UpgradeAssumption DEF UpgradeInv, Typed, TypeOK, OtherWritten
<1>2. up.linked = TRUE => up.guard = file[up.file]
  BY DEF UpgradeInv, GuardSound
<1> QED
  BY <1>1, <1>2, WriteKeeps DEF OtherWritten, data, UpgradeInv, Typed, TypeOK

-----------------------------------------------------------------------------
(* The invariant of the specification *)

\* A fresh installation has no journal and no coordinator.
LEMMA InitUpgrade == Init => UpgradeInv
<1> SUFFICES ASSUME Init
             PROVE  UpgradeInv
  OBVIOUS
<1>1. up = Off /\ journal = None /\ undoing = FALSE /\ writes = 0 /\ faults = 0
  BY DEF Init
<1>2. file \in [Files -> Content] /\ \A f \in Files : file[f].rev = 0
  <2> PICK s \in [Files -> Schemas] : file = [f \in Files |-> [schema |-> s[f], rev |-> 0]]
    BY DEF Init
  <2>1. 0 \in 0..MaxWrites
    BY UpgradeAssumption
  <2> QED
    BY <2>1, ContentFields
<1>3. Typed
  <2>1. kept \in [Files -> SUBSET Content] /\ latest \in [Files -> 0..MaxWrites]
    BY UpgradeAssumption DEF Init
  <2>2. other \in 0..MaxWrites /\ writes \in 0..MaxWrites /\ faults \in 0..MaxFaults
        /\ raced \subseteq Files
    BY UpgradeAssumption DEF Init
  <2> QED
    BY <1>1, <1>2, <2>1, <2>2, OffFields, UpFields DEF Typed, TypeOK
<1>4. Numbered /\ JournalSound
  BY <1>1, <1>2, OffFields DEF Numbered, JournalSound
<1>5. /\ MigrationSound /\ RestoreSound /\ StageSound /\ CopySound /\ GuardSound
      /\ RestoredSoFar /\ VerifiedSound
  BY <1>1, OffFields DEF MigrationSound, RestoreSound, Migrating, Restoring, Publishing,
     StageSound, CopySound, GuardSound, RestoredSoFar, VerifiedSound
<1>6. RecoveryCanAuthenticate /\ AllOrNothing
  BY <1>1 DEF RecoveryCanAuthenticate, AllOrNothing, Pending
<1> QED
  BY <1>3, <1>4, <1>5, <1>6 DEF UpgradeInv

\* Every step of the upgrade, of a fault and of another program preserves it.
LEMMA NextUpgrade == UpgradeInv /\ [Next]_vars => UpgradeInv'
<1> SUFFICES ASSUME UpgradeInv, [Next]_vars
             PROVE  UpgradeInv'
  OBVIOUS
<1>1. CASE Start
  BY <1>1, StartStep
<1>2. CASE Recover \/ Needed \/ Copy \/ Prepared
  BY <1>2, RecoverStep, NeededStep, CopyStep, PreparedStep
<1>3. CASE Phase("migrating", "choose") \/ Phase("verifying", "verify")
             \/ Phase("committed", "off")
  BY <1>3, PhaseStep
<1>4. CASE Choose \/ Plan \/ Guard \/ Replace \/ Published \/ PutBack \/ Drop
  BY <1>4, ChooseStep, PlanStep, GuardStep, ReplaceStep, PublishedStep, PutBackStep, DropStep
<1>5. CASE Changed \/ Ambiguous \/ Refuse
  <2>1. faults' \in 0..MaxFaults
    BY <1>5 DEF Changed, Ambiguous, Refuse, world, UpgradeInv, Typed, TypeOK
  <2> QED
    BY <1>5, <2>1, GivesUpStep DEF Changed, Ambiguous, Refuse, world
<1>6. CASE Verify \/ Authorize \/ Readback \/ RolledBack
  BY <1>6, VerifyStep, AuthorizeStep, ReadbackStep, RolledBackStep
<1>7. CASE Crash \/ Fails \/ FailsLate
  BY <1>7, CrashStep, FailsStep, FailsLateStep
<1>8. CASE Outside
  BY <1>8, OtherWrittenStep, WrittenInPlaceStep, WrittenToOldInodeStep, ReplacedOutsideStep
     DEF Outside
<1>9. CASE UNCHANGED vars
  <2>1. Typed' /\ Numbered' /\ JournalSound'
    BY <1>9 DEF UpgradeInv, Typed, TypeOK, Numbered, JournalSound, vars
  <2>2. MigrationSound' /\ RestoreSound' /\ StageSound'
    BY <1>9 DEF UpgradeInv, MigrationSound, RestoreSound, StageSound, Migrating, Restoring,
       Publishing, PhaseNow, Pending, Target, vars
  <2>3. CopySound' /\ GuardSound' /\ RestoredSoFar' /\ VerifiedSound'
    BY <1>9 DEF UpgradeInv, CopySound, GuardSound, RestoredSoFar, VerifiedSound, Restoring,
       Publishing, IsBack, vars
  <2>4. RecoveryCanAuthenticate' /\ AllOrNothing'
    BY <1>9 DEF UpgradeInv, RecoveryCanAuthenticate, AllOrNothing, Pending, Ours, vars
  <2> QED
    BY <2>1, <2>2, <2>3, <2>4 DEF UpgradeInv
<1> QED
  BY <1>1, <1>2, <1>3, <1>4, <1>5, <1>6, <1>7, <1>8, <1>9 DEF Next, Step

\* The invariant holds in every state of the upgrade.
THEOREM UpgradeInvariant == Spec => []UpgradeInv
<1>1. Init => UpgradeInv
  BY InitUpgrade
<1>2. UpgradeInv /\ [Next]_vars => UpgradeInv'
  BY NextUpgrade
<1> QED
  BY <1>1, <1>2, PTL DEF Spec

\* A run may stop anywhere, and other programs may write whatever they want at any
\* moment: what the next start finds on disk is well formed, and the journal and its
\* backup tell the upgrade's own work from the user's.
THEOREM UpgradeRecoverable == Spec => []Recoverable
<1>1. UpgradeInv => Recoverable
  BY DEF UpgradeInv, Typed, Recoverable
<1> QED
  BY <1>1, UpgradeInvariant, PTL

\* A journal that ended speaks for both files at once.
THEOREM UpgradeAllOrNothing == Spec => []AllOrNothing
<1>1. UpgradeInv => AllOrNothing
  BY DEF UpgradeInv
<1> QED
  BY <1>1, UpgradeInvariant, PTL

-----------------------------------------------------------------------------
(* The user's last write *)

\* While nothing waits to be looked at again the last write is in the file or kept,
\* and stays there.
LEMMA StaysSaved ==
  ASSUME UpgradeInv, LatestSaved, UNCHANGED <<file, latest, raced>>,
         \A f \in Files : kept[f] \subseteq kept'[f],
         up.at # "recheck", up'.at # "recheck", up'.at = "replace" => up'.linked
  PROVE  LatestSaved'
<1> SUFFICES ASSUME NEW f \in Files, f \notin raced
             PROVE  Saved(f)'
  BY DEF LatestSaved, Handling
<1>1. Saved(f)
  BY DEF LatestSaved, Handling, UpgradeInv, Typed, TypeOK
<1> QED
  BY <1>1 DEF Saved, InKept

\* A publication that is given up at its last look leaves its guard behind.
LEMMA GuardKept ==
  ASSUME UpgradeInv, LatestSaved, UNCHANGED <<file, latest, raced>>,
         \A f \in Files : kept[f] \subseteq kept'[f],
         up.at = "recheck", up.guard \in kept'[up.file], up'.guard = None
  PROVE  LatestSaved'
<1> SUFFICES ASSUME NEW f \in Files, f \notin raced
             PROVE  Saved(f)'
  BY DEF LatestSaved, Handling
<1>1. CASE Handling(f)
  BY <1>1 DEF LatestSaved, Handling, Saved, InKept
<1>2. CASE ~Handling(f)
  BY <1>2 DEF LatestSaved, Saved, InKept
<1> QED
  BY <1>1, <1>2

\* Giving up loses no write.
LEMMA GivesUpSaves ==
  ASSUME UpgradeInv, LatestSaved, GivesUp, UNCHANGED <<file, latest, raced>>
  PROVE  LatestSaved'
<1>1. /\ Stopped' /\ \A f \in Files : kept[f] \subseteq kept'[f]
      /\ up.guard # None /\ up.linked = FALSE => up.guard \in kept'[up.file]
  BY GivesUpFields DEF UpgradeInv
<1>2. CASE up.at = "recheck"
  <2>1. up.guard # None /\ up.linked = FALSE
    BY <1>2, UpFields DEF UpgradeInv, Typed, TypeOK, GuardSound
  <2> QED
    BY <1>1, <1>2, <2>1, GuardKept DEF Stopped
<1>3. CASE up.at # "recheck"
  BY <1>1, <1>3, StaysSaved DEF Stopped
<1> QED
  BY <1>2, <1>3

\* The inode that is replaced is the guard's.
LEMMA ReplaceSaves ==
  ASSUME UpgradeInv, LatestSaved, Replace
  PROVE  LatestSaved'
<1> DEFINE f == up.file
<1>1. /\ up \in UpRecord /\ up.at = "replace" /\ f \in Files /\ up.guard # None
      /\ file \in [Files -> Content]
  BY UpFields DEF UpgradeInv, Typed, TypeOK, Replace
<1>2. file' = [file EXCEPT ![f] = Target(f)] /\ UNCHANGED <<kept, journal, latest, raced>>
  BY DEF Replace, world, users
<1>3. /\ up'.at = "recheck" /\ up'.guard = up.guard /\ up'.mode = up.mode
      /\ up'.file = up.file /\ up'.base = up.base
  <2>1. "recheck" \in Stages /\ up' = [up EXCEPT !.at = "recheck", !.linked = FALSE]
    BY DEF Replace, Stages
  <2> QED
    BY <1>1, <2>1 DEF UpRecord
<1>4. /\ file'[f] = Target(f) /\ Target(f)' = Target(f)
      /\ \A g \in Files : g # f => file'[g] = file[g]
  BY <1>1, <1>2, <1>3 DEF Target
<1>5. ASSUME NEW g \in Files, g \notin raced, g # f
      PROVE  Saved(g)'
  <2>1. Saved(g)
    BY <1>1, <1>5 DEF LatestSaved, Handling
  <2> QED
    BY <1>2, <1>4, <1>5, <2>1 DEF Saved, InKept
<1>6. f \notin raced => up.guard.rev = latest[f] \/ InKept(f)
  <2> SUFFICES ASSUME f \notin raced
               PROVE  up.guard.rev = latest[f] \/ InKept(f)
    OBVIOUS
  <2>1. up.linked /\ Saved(f)
    BY <1>1 DEF LatestSaved, Handling
  <2>2. up.guard = file[f]
    BY <2>1 DEF UpgradeInv, GuardSound
  <2> QED
    BY <2>1, <2>2 DEF Saved
<1>7. InKept(f)' = InKept(f)
  BY <1>1, <1>2, <1>3 DEF InKept
<1> QED
  BY <1>1, <1>2, <1>3, <1>4, <1>5, <1>6, <1>7 DEF LatestSaved, Handling, Saved

\* A guard whose inode nobody wrote to may go.
LEMMA PublishedSaves ==
  ASSUME UpgradeInv, LatestSaved, Published
  PROVE  LatestSaved'
<1> DEFINE f == up.file
<1>1. /\ up \in UpRecord /\ up.at = "recheck" /\ f \in Files /\ up.guard # None
      /\ file[f] = Target(f) /\ up.guard = up.base[f] /\ up.guard \in Content
      /\ up.mode \in {"migrate", "restore"}
  BY UpFields DEF UpgradeInv, Typed, TypeOK, Published
<1>2. UNCHANGED <<file, kept, journal, latest, raced>>
  BY DEF Published, data, world, users
<1>3. up'.at = "drop"
  <2>1. "drop" \in Stages /\ up' = [up EXCEPT !.at = "drop"]
    BY DEF Published, Stages
  <2> QED
    BY <1>1, <2>1 DEF UpRecord
<1>4. file[f].rev = up.guard.rev
  <2>1. CASE up.mode = "migrate"
    BY <1>1, <2>1, ContentFields DEF Target
  <2>2. CASE up.mode = "restore"
    <3>1. journal \in Journal /\ up.base[f] \in {journal.backup[f], journal.owned[f]}
      BY <1>1, <2>2 DEF UpgradeInv, Typed, TypeOK, RestoreSound, Restoring, Publishing
    <3>2. /\ journal # None /\ journal.backup[f] \in Content
          /\ journal.owned[f] \in {None, Migrated(journal.backup[f])}
      BY <1>1, <3>1, JournalFields DEF UpgradeInv, JournalSound
    <3> QED
      BY <1>1, <2>2, <3>1, <3>2, ContentFields DEF Target
  <2> QED
    BY <1>1, <2>1, <2>2
<1> SUFFICES ASSUME NEW g \in Files, g \notin raced
             PROVE  Saved(g)'
  BY <1>2, <1>3 DEF LatestSaved
<1>5. Saved(g)
  BY <1>1, <1>2, <1>4 DEF LatestSaved, Handling, Saved
<1> QED
  BY <1>2, <1>5 DEF Saved, InKept

\* What was written to the old inode is the file again.
LEMMA PutBackSaves ==
  ASSUME UpgradeInv, LatestSaved, PutBack
  PROVE  LatestSaved'
<1> DEFINE f == up.file
<1>1. /\ up \in UpRecord /\ up.at = "recheck" /\ f \in Files /\ up.guard # None
      /\ up.guard # up.base[f] /\ file \in [Files -> Content]
  BY UpFields DEF UpgradeInv, Typed, TypeOK, PutBack
<1>2. file' = [file EXCEPT ![f] = up.guard] /\ UNCHANGED <<kept, journal, latest, raced>>
  BY DEF PutBack, world, users
<1>3. up'.guard = None /\ up'.at # "recheck"
  BY OffFields, RollbackFields DEF PutBack, Stopped
<1> SUFFICES ASSUME NEW g \in Files, g \notin raced
             PROVE  Saved(g)'
  BY <1>2, <1>3 DEF LatestSaved, Handling
<1>4. CASE g = f
  BY <1>1, <1>2, <1>4 DEF LatestSaved, Handling, Saved, InKept
<1>5. CASE g # f
  BY <1>1, <1>2, <1>5 DEF LatestSaved, Handling, Saved, InKept
<1> QED
  BY <1>4, <1>5

\* A write that replaces the file is in the file; one that comes where nothing can
\* guard it is marked as raced.
LEMMA ReplacedOutsideSaves ==
  ASSUME UpgradeInv, LatestSaved, NEW f \in Files, NEW s \in Schemas, ReplacedOutside(f, s)
  PROVE  LatestSaved'
<1> DEFINE new == [schema |-> s, rev |-> writes + 1]
<1>1. new.rev = writes + 1
  OBVIOUS
<1>2. /\ Written(f, new, FALSE, FALSE) /\ file' = [file EXCEPT ![f] = new]
      /\ up' = IF Handling(f) THEN [up EXCEPT !.linked = FALSE] ELSE up
  BY DEF ReplacedOutside
<1> HIDE DEF new
<1>3. /\ file'[f] = new /\ \A g \in Files : g # f => file'[g] = file[g]
  BY <1>2 DEF UpgradeInv, Typed, TypeOK
<1>4. /\ up'.at = up.at /\ up'.file = up.file /\ up'.guard = up.guard /\ up'.base = up.base
      /\ up'.mode = up.mode
      /\ ~Handling(f) => up'.linked = up.linked
  BY <1>2 DEF UpgradeInv, Typed, UpRecord
<1>5. /\ latest'[f] = new.rev /\ \A g \in Files : g # f => latest'[g] = latest[g]
      /\ kept' = kept /\ journal' = journal /\ raced \subseteq raced'
      /\ f \in raced' \/ ~Unguarded(f, FALSE, FALSE)
  BY <1>2 DEF UpgradeInv, Typed, TypeOK, Written
<1> SUFFICES ASSUME NEW g \in Files, g \notin raced'
             PROVE  /\ ~Handling(g)' \/ up'.at \in {"replace", "drop"} => Saved(g)'
                    /\ Handling(g)' /\ up'.at = "replace" => up'.linked
                    /\ Handling(g)' /\ up'.at = "recheck" =>
                          /\ (file[g] = Target(g))' \/ up'.guard = up'.base[g]
                          /\ up'.guard # up'.base[g] =>
                                up'.guard.rev = latest'[g] \/ InKept(g)'
                          /\ Saved(g)' \/ up'.guard.rev = latest'[g]
  BY DEF LatestSaved
<1>6. g \notin raced /\ Handling(g)' = Handling(g) /\ Target(g)' = Target(g)
  BY <1>4, <1>5 DEF Handling, Target
<1>7. CASE g = f
  <2>1. Saved(f)'
    BY <1>3, <1>5 DEF Saved
  <2>2. ~Unguarded(f, FALSE, FALSE)
    BY <1>5, <1>7
  <2>3. Handling(f) => up.at # "replace" /\ (up.at = "recheck" => up.guard = up.base[f])
    BY <2>2 DEF Unguarded
  <2> QED
    BY <1>4, <1>6, <1>7, <2>1, <2>3
<1>8. CASE g # f
  <2>1. Saved(g)' = Saved(g) /\ InKept(g)' = InKept(g)
    BY <1>3, <1>5, <1>8 DEF Saved, InKept
  <2>2. Handling(g) => ~Handling(f)
    BY <1>8 DEF Handling
  <2> QED
    BY <1>3, <1>4, <1>5, <1>6, <1>8, <2>1, <2>2 DEF LatestSaved
<1> QED
  BY <1>7, <1>8

\* A write in place is in the file, and in the guard if that is the same inode.
LEMMA WrittenInPlaceSaves ==
  ASSUME UpgradeInv, LatestSaved, NEW f \in Files, WrittenInPlace(f)
  PROVE  LatestSaved'
<1> DEFINE new == [file[f] EXCEPT !.rev = writes + 1]
<1>1. Written(f, new, FALSE, TRUE) /\ file' = [file EXCEPT ![f] = new]
      /\ up' = IF Handling(f) /\ up.linked THEN [up EXCEPT !.guard = new] ELSE up
  BY DEF WrittenInPlace
<1>2. new \in Content /\ new # None
  <2>1. writes + 1 \in 0..MaxWrites /\ file[f] \in Content
    BY <1>1, UpgradeAssumption DEF UpgradeInv, Typed, TypeOK, Written
  <2> QED
    BY <2>1, ContentFields
<1> HIDE DEF new
<1>3. /\ file'[f] = new /\ \A g \in Files : g # f => file'[g] = file[g]
  BY <1>1 DEF UpgradeInv, Typed, TypeOK
<1>4. /\ up'.at = up.at /\ up'.file = up.file /\ up'.base = up.base /\ up'.mode = up.mode
      /\ up'.linked = up.linked
      /\ ~(Handling(f) /\ up.linked) => up'.guard = up.guard
      /\ Handling(f) /\ up.linked => up'.guard = new
  BY <1>1, <1>2 DEF UpgradeInv, Typed, UpRecord
<1>5. /\ latest'[f] = new.rev /\ \A g \in Files : g # f => latest'[g] = latest[g]
      /\ kept' = kept /\ journal' = journal /\ raced \subseteq raced'
      /\ f \in raced' \/ ~Unguarded(f, FALSE, TRUE)
  BY <1>1 DEF UpgradeInv, Typed, TypeOK, Written
<1>6. Handling(f)' = Handling(f) /\ (up.linked => up.at = "replace")
  BY <1>2, <1>4 DEF Handling, UpgradeInv, GuardSound
<1> SUFFICES ASSUME NEW g \in Files, g \notin raced'
             PROVE  /\ ~Handling(g)' \/ up'.at \in {"replace", "drop"} => Saved(g)'
                    /\ Handling(g)' /\ up'.at = "replace" => up'.linked
                    /\ Handling(g)' /\ up'.at = "recheck" =>
                          /\ (file[g] = Target(g))' \/ up'.guard = up'.base[g]
                          /\ up'.guard # up'.base[g] =>
                                up'.guard.rev = latest'[g] \/ InKept(g)'
                          /\ Saved(g)' \/ up'.guard.rev = latest'[g]
  BY DEF LatestSaved
<1>7. g \notin raced /\ Handling(g)' = Handling(g) /\ Target(g)' = Target(g)
  BY <1>2, <1>4, <1>5 DEF Handling, Target
<1>8. CASE g = f
  <2>1. Saved(f)'
    BY <1>3, <1>5 DEF Saved
  <2>2. ~Unguarded(f, FALSE, TRUE)
    BY <1>5, <1>8
  <2>3. Handling(f) => /\ up.at = "replace" => up.linked
                       /\ up.at = "recheck" => up.guard = up.base[f]
    BY <2>2 DEF Unguarded
  <2> QED
    BY <1>4, <1>6, <1>7, <1>8, <2>1, <2>3
<1>9. CASE g # f
  <2>1. Saved(g)' = Saved(g) /\ InKept(g)' = InKept(g)
    BY <1>3, <1>5, <1>9 DEF Saved, InKept
  <2>2. Handling(g) => ~Handling(f)
    BY <1>9 DEF Handling
  <2> QED
    BY <1>3, <1>4, <1>5, <1>7, <1>9, <2>1, <2>2 DEF LatestSaved
<1> QED
  BY <1>8, <1>9

\* A write to the old inode is in the guard, which is looked at before it goes.
LEMMA WrittenToOldInodeSaves ==
  ASSUME UpgradeInv, LatestSaved, NEW f \in Files, WrittenToOldInode(f)
  PROVE  LatestSaved'
<1> DEFINE new == [up.guard EXCEPT !.rev = writes + 1]
<1>1. /\ Written(f, new, TRUE, TRUE) /\ file' = file /\ up' = [up EXCEPT !.guard = new]
      /\ Handling(f) /\ ~up.linked
  BY DEF WrittenToOldInode
<1>2. new \in Content /\ new # None
  <2>1. writes + 1 \in 0..MaxWrites /\ up.guard \in Content
    BY <1>1, UpgradeAssumption, UpFields
       DEF UpgradeInv, Typed, TypeOK, Written, Handling
  <2> QED
    BY <2>1, ContentFields
<1> HIDE DEF new
<1>3. /\ up'.at = up.at /\ up'.file = up.file /\ up'.base = up.base /\ up'.mode = up.mode
      /\ up'.linked = up.linked /\ up'.guard = new
  BY <1>1, <1>2 DEF UpgradeInv, Typed, UpRecord
<1>4. /\ latest'[f] = new.rev /\ \A g \in Files : g # f => latest'[g] = latest[g]
      /\ kept' = kept /\ journal' = journal /\ raced \subseteq raced'
      /\ f \in raced' \/ ~Unguarded(f, TRUE, TRUE)
  BY <1>1 DEF UpgradeInv, Typed, TypeOK, Written
<1> SUFFICES ASSUME NEW g \in Files, g \notin raced'
             PROVE  /\ ~Handling(g)' \/ up'.at \in {"replace", "drop"} => Saved(g)'
                    /\ Handling(g)' /\ up'.at = "replace" => up'.linked
                    /\ Handling(g)' /\ up'.at = "recheck" =>
                          /\ (file[g] = Target(g))' \/ up'.guard = up'.base[g]
                          /\ up'.guard # up'.base[g] =>
                                up'.guard.rev = latest'[g] \/ InKept(g)'
                          /\ Saved(g)' \/ up'.guard.rev = latest'[g]
  BY DEF LatestSaved
<1>5. g \notin raced /\ Handling(g)' = Handling(g) /\ Target(g)' = Target(g)
  BY <1>1, <1>2, <1>3, <1>4 DEF Handling, Target
<1>6. CASE g = f
  <2>1. up.at = "recheck" /\ file[f] = Target(f)
    <3>1. up.at \in {"replace", "recheck", "drop"}
      BY <1>1 DEF Handling, UpgradeInv, Typed, TypeOK
    <3>2. up.at # "replace"
      BY <1>1, <1>5, <1>6 DEF LatestSaved
    <3>3. ~Unguarded(f, TRUE, TRUE)
      BY <1>4, <1>6
    <3> QED
      BY <1>1, <3>1, <3>2, <3>3 DEF Unguarded
  <2> QED
    BY <1>1, <1>3, <1>4, <1>5, <1>6, <2>1
<1>7. CASE g # f
  <2>1. Saved(g)' = Saved(g) /\ InKept(g)' = InKept(g)
    BY <1>1, <1>4, <1>7 DEF Saved, InKept
  <2>2. ~Handling(g)
    BY <1>1, <1>7 DEF Handling
  <2> QED
    BY <1>3, <1>5, <1>7, <2>1, <2>2 DEF LatestSaved
<1> QED
  BY <1>6, <1>7

\* Every step keeps the user's last write where it can be found.
LEMMA NextSaves == UpgradeInv /\ LatestSaved /\ [Next]_vars => LatestSaved'
<1> SUFFICES ASSUME UpgradeInv, LatestSaved, [Next]_vars
             PROVE  LatestSaved'
  OBVIOUS
<1>1. up \in UpRecord /\ up.linked \in BOOLEAN
  BY UpFields DEF UpgradeInv, Typed
<1>2. CASE Start \/ Recover \/ Needed \/ Copy \/ Choose \/ Drop \/ Authorize
  <2>1. UNCHANGED <<file, kept, latest, raced>> /\ up.at # "recheck"
    BY <1>2 DEF Start, Recover, Needed, Copy, Choose, Drop, Authorize, data, world, users
  <2>2. up'.at \notin {"replace", "recheck"}
    <3>1. UpgradeInv' /\ up' \in UpRecord
      BY NextUpgrade DEF UpgradeInv, Typed
    <3>2. CASE Start \/ Needed
      BY <3>2, OffFields, <1>1 DEF Start, Needed, UpRecord, Off
    <3>3. CASE Recover \/ Copy \/ Authorize
      BY <3>3, <1>1 DEF Recover, Copy, Authorize, UpRecord
    <3>4. CASE Choose \/ Drop
      BY <3>4, <1>1, AfterFileFields DEF Choose, Drop, UpRecord
    <3> QED
      BY <1>2, <3>2, <3>3, <3>4
  <2> QED
    BY <2>1, <2>2, StaysSaved
<1>3. CASE \/ Prepared \/ Plan \/ RolledBack
           \/ Phase("migrating", "choose") \/ Phase("verifying", "verify")
           \/ Phase("committed", "off")
  <2>1. UNCHANGED <<file, kept, latest, raced>> /\ up.at # "recheck"
    BY <1>3 DEF Prepared, Plan, RolledBack, Phase, data, world, users
  <2>2. up'.at \notin {"replace", "recheck"}
    BY <1>1, <1>3, OffFields DEF Prepared, Plan, RolledBack, Phase, UpRecord
  <2> QED
    BY <2>1, <2>2, StaysSaved
<1>4. CASE Guard
  <2>1. UNCHANGED <<file, kept, latest, raced>> /\ up.at # "recheck"
    BY <1>4 DEF Guard, data, world, users
  <2>2. up'.at = "replace" /\ up'.linked
    BY <1>1, <1>4 DEF Guard, UpRecord
  <2> QED
    BY <2>1, <2>2, StaysSaved
<1>5. CASE Verify \/ Readback
  <2>1. CASE GivesUp
    BY <1>5, <2>1, GivesUpSaves DEF Verify, Readback, world, users
  <2>2. CASE UNCHANGED kept /\ up'.at \in {"committed", "restored"}
    BY <1>5, <2>2, StaysSaved DEF Verify, Readback, world, users
  <2>3. [up EXCEPT !.at = "committed"].at = "committed"
        /\ [up EXCEPT !.at = "restored"].at = "restored"
    BY <1>1 DEF UpRecord
  <2> QED
    BY <1>5, <2>1, <2>2, <2>3 DEF Verify, Readback
<1>6. CASE Changed \/ Ambiguous \/ Refuse
  BY <1>6, GivesUpSaves DEF Changed, Ambiguous, Refuse, world, users
<1>7. CASE Replace \/ Published \/ PutBack
  BY <1>7, ReplaceSaves, PublishedSaves, PutBackSaves
<1>8. CASE Crash
  <2>1. UNCHANGED <<file, latest, raced>> /\ up' = Off
    BY <1>8 DEF Crash, users
  <2>2. /\ \A f \in Files : kept[f] \subseteq kept'[f]
        /\ up.guard # None => up.guard \in kept'[up.file]
    BY <1>8, UpFields DEF Crash, UpgradeInv, Typed, TypeOK
  <2>3. up.at = "recheck" => up.guard # None
    BY DEF UpgradeInv, Typed, TypeOK
  <2> QED
    BY <2>1, <2>2, <2>3, OffFields, StaysSaved, GuardKept
<1>9. CASE Fails
  <2>1. CASE GivesUp
    BY <1>9, <2>1, GivesUpSaves DEF Fails, users
  <2>2. CASE up.at \in {"recover", "need", "copy", "prepared"} /\ up' = Off /\ UNCHANGED kept
    BY <1>9, <2>2, OffFields, StaysSaved DEF Fails, users
  <2> QED
    BY <1>9, <2>1, <2>2 DEF Fails
<1>10. CASE FailsLate
  BY <1>10, GivesUpSaves DEF FailsLate, users
<1>11. CASE OtherWritten
  <2>1. UNCHANGED <<file, kept, journal, up, latest, raced>>
    BY <1>11 DEF OtherWritten, data
  <2> QED
    BY <2>1 DEF LatestSaved, Handling, Saved, InKept, Target
<1>12. CASE Outside /\ ~OtherWritten
  BY <1>12, WrittenInPlaceSaves, WrittenToOldInodeSaves, ReplacedOutsideSaves DEF Outside
<1>13. CASE UNCHANGED vars
  BY <1>13 DEF LatestSaved, Handling, Saved, InKept, Target, vars
<1> QED
  BY <1>2, <1>3, <1>4, <1>5, <1>6, <1>7, <1>8, <1>9, <1>10, <1>11, <1>12, <1>13
     DEF Next, Step, Outside

\* Nothing is written before the first write.
LEMMA InitSaves == Init => LatestSaved
<1> SUFFICES ASSUME Init
             PROVE  LatestSaved
  OBVIOUS
<1>1. \A f \in Files : file[f].rev = 0 /\ latest[f] = 0
  BY DEF Init
<1>2. up.guard = None /\ up.at = "off"
  BY OffFields DEF Init
<1> QED
  BY <1>1, <1>2 DEF LatestSaved, Handling, Saved

\* What the user wrote last to a tracked file is in the file, in a guard left next to
\* it, or in the guard of the publication that is going on, whatever crashes, fails or
\* is rolled back; only a write in a moment no guard can see may be lost.
THEOREM UpgradeLatestWriteSurvives == Spec => []LatestWriteSurvives
<1>1. Init => UpgradeInv /\ LatestSaved
  BY InitUpgrade, InitSaves
<1>2. (UpgradeInv /\ LatestSaved) /\ [Next]_vars => (UpgradeInv /\ LatestSaved)'
  BY NextUpgrade, NextSaves
<1>3. UpgradeInv /\ LatestSaved => LatestWriteSurvives
  <2> SUFFICES ASSUME UpgradeInv, LatestSaved, NEW f \in Files \ raced
               PROVE  \/ file[f].rev = latest[f]
                      \/ \E c \in kept[f] : c.rev = latest[f]
                      \/ Handling(f) /\ up.guard.rev = latest[f]
    BY DEF LatestWriteSurvives
  <2>1. Handling(f) => up.at \in {"replace", "recheck", "drop"}
    BY DEF Handling, UpgradeInv, Typed, TypeOK
  <2> QED
    BY <2>1 DEF LatestSaved, Saved, InKept
<1> QED
  BY <1>1, <1>2, <1>3, PTL DEF Spec

=============================================================================
