-------------------------------- MODULE CasFile --------------------------------
(* One store of the education data: a file that several processes replace, each *)
(* on the revision it last read.  A content stands for its revision, which is   *)
(* its SHA-256.  The stores differ in their lock: education_workspace_store.py  *)
(* and education_records_store.py make a directory, student_progress_store.py   *)
(* locks a file that its creator marks first.  Every step that other processes  *)
(* can see is an action; a crash can fall between any two of them.              *)
EXTENDS Integers

CONSTANTS Procs, None,
          Lock           \* "directory" or "marked_file"

VARIABLES
    file,     \* the content of the file, None when there is none
    exists,   \* the lock's path: absent, new (created, not marked yet) or ready
    owner,    \* the process that owns the lock, None when nobody does
    saves     \* where each process is in save()

fvars == <<file, exists, owner, saves>>

Stages   == {"idle", "open", "mark", "acquire", "check", "replace", "release", "done"}
Outcomes == {"none", "saved", "unconfirmed", "busy", "conflict", "failed"}

NoSave == [at |-> "idle", expected |-> None, new |-> None, outcome |-> "none"]

FileInit ==
    /\ exists = "absent" /\ owner = None
    /\ saves = [p \in Procs |-> NoSave]

FileTypeOK ==
    /\ exists \in {"absent", "new", "ready"}
    /\ owner \in Procs \cup {None}
    /\ \A p \in Procs : saves[p].at \in Stages /\ saves[p].outcome \in Outcomes

Move(p, stage)       == saves' = [saves EXCEPT ![p].at = stage]
Finish(p, how)       == saves' = [saves EXCEPT ![p].at = "done", ![p].outcome = how]
Unlocking(p, how)    == saves' = [saves EXCEPT ![p].at = "release", ![p].outcome = how]

\* save() is called on the content the caller loaded.
Save(p, expected, new) ==
    /\ saves[p].at = "idle"
    /\ saves' = [saves EXCEPT ![p] =
                    [at |-> "open", expected |-> expected, new |-> new, outcome |-> "none"]]
    /\ UNCHANGED <<file, exists, owner>>

MakesAnyway(p) ==                          \* variant: an existing directory is taken
    /\ saves[p].at = "open"
    /\ exists' = "ready" /\ owner' = p /\ Move(p, "check")
    /\ UNCHANGED file

\* The lock directory is made, or somebody else's is in the way.
MakeDirectory(p) ==
    /\ Lock = "directory" /\ saves[p].at = "open"
    /\ \/ exists = "absent" /\ exists' = "ready" /\ owner' = p /\ Move(p, "check")
       \/ exists # "absent" /\ Finish(p, "busy") /\ UNCHANGED <<exists, owner>>
    /\ UNCHANGED file

\* _open_writer_lock: the first process creates the file, which stays for ever;
\* one that is not marked yet belongs to its creator.
OpenLock(p) ==
    /\ Lock = "marked_file" /\ saves[p].at = "open"
    /\ \/ exists = "absent" /\ exists' = "new" /\ Move(p, "mark")
       \/ exists = "new"    /\ Finish(p, "busy") /\ UNCHANGED exists
       \/ exists = "ready"  /\ Move(p, "acquire") /\ UNCHANGED exists
    /\ UNCHANGED <<file, owner>>

MarkLock(p) ==
    /\ saves[p].at = "mark"
    /\ exists' = "ready" /\ Move(p, "acquire")
    /\ UNCHANGED <<file, owner>>

\* The marker cannot be written; the empty file stays.
MarkFails(p) ==
    /\ saves[p].at = "mark"
    /\ Finish(p, "failed")
    /\ UNCHANGED <<file, exists, owner>>

AcquiresAlways(p) ==                       \* variant: the lock is not exclusive
    /\ saves[p].at = "acquire"
    /\ owner' = p /\ Move(p, "check")
    /\ UNCHANGED <<file, exists>>

\* The kernel's lock on the open file, which is not waited for.
Acquire(p) ==
    /\ saves[p].at = "acquire"
    /\ \/ owner = None /\ owner' = p /\ Move(p, "check")
       \/ owner # None /\ Finish(p, "busy") /\ UNCHANGED owner
    /\ UNCHANGED <<file, exists>>

CheckNothing(p) ==                         \* variant: the revision is not compared
    /\ saves[p].at = "check" /\ Move(p, "replace")
    /\ UNCHANGED <<file, exists, owner>>

\* The revision on disk is compared with the one the caller loaded.
Check(p) ==
    /\ saves[p].at = "check"
    /\ IF file = saves[p].expected THEN Move(p, "replace") ELSE Unlocking(p, "conflict")
    /\ UNCHANGED <<file, exists, owner>>

\* The temporary file is replaced into place; only student_progress_store.py
\* reads it back, and may have to say that it cannot confirm it.
Replace(p) ==
    /\ saves[p].at = "replace"
    /\ file' = saves[p].new
    /\ \E how \in {"saved"} \cup IF Lock = "marked_file" THEN {"unconfirmed"} ELSE {} :
          Unlocking(p, how)
    /\ UNCHANGED <<exists, owner>>

\* The temporary file cannot be written.
WriteFails(p) ==
    /\ saves[p].at = "replace"
    /\ Unlocking(p, "failed")
    /\ UNCHANGED <<file, exists, owner>>

Release(p) ==
    /\ saves[p].at = "release"
    /\ owner' = None
    /\ exists' = IF Lock = "directory" THEN "absent" ELSE exists
    /\ Move(p, "done")
    /\ UNCHANGED file

\* save() has returned or raised.
Return(p) ==
    /\ saves[p].at = "done"
    /\ saves' = [saves EXCEPT ![p] = NoSave]
    /\ UNCHANGED <<file, exists, owner>>

\* The process dies: the kernel's locks go with it, the paths stay.
Die(p) ==
    /\ saves' = [saves EXCEPT ![p] = NoSave]
    /\ owner' = IF owner = p THEN None ELSE owner
    /\ UNCHANGED <<file, exists>>

StoreStep(p) ==
    \/ MakeDirectory(p) \/ OpenLock(p) \/ MarkLock(p) \/ Acquire(p)
    \/ Check(p) \/ Replace(p) \/ Release(p)

DiskFails(p) == MarkFails(p) \/ WriteFails(p)

\* A lock that nobody can ever take again.
Stale ==
    \/ Lock = "directory" /\ exists = "ready" /\ owner = None
    \/ Lock = "marked_file" /\ exists = "new" /\ \A p \in Procs : saves[p].at # "mark"

-----------------------------------------------------------------------------
(* What the store implements *)

Progressed(s) ==
    CASE s.at = "idle" -> "idle"
      [] s.at = "done" -> "answered"
      [] s.at = "release" /\ s.outcome \in {"saved", "unconfirmed"} -> "applied"
      [] OTHER -> "pending"

Visible(s) ==
    [at |-> Progressed(s), expected |-> s.expected, new |-> s.new,
     result |-> IF s.at = "done" THEN s.outcome ELSE "none"]

R == INSTANCE CasRegister WITH request <- [p \in Procs |-> Visible(saves[p])]
=============================================================================
