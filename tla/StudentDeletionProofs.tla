------------------------- MODULE StudentDeletionProofs -------------------------
(* What the deletion of a student keeps, for any number of students, deletions, *)
(* writers, crashes and failing writes: both stores are registers, the reviews  *)
(* go before the tombstone comes, no operation is undone; and, with the one     *)
(* coordinator the program has, the journal outlives every crash until both     *)
(* stores show the deletion, and nothing else is lost.                          *)
EXTENDS StudentDeletion, TLAPS

-----------------------------------------------------------------------------
(* One store: CasFile implements CasRegister, whoever saves what and wherever a *)
(* process dies, in either of the two stores s.                                 *)

File(s)   == IF s = "workspace" THEN workspace ELSE progress
Exists(s) == IF s = "workspace" THEN wexists ELSE pexists
Owner(s)  == IF s = "workspace" THEN wowner ELSE powner
Saves(s)  == IF s = "workspace" THEN wsaves ELSE psaves
LockOf(s) == IF s = "workspace" THEN "directory" ELSE "marked_file"

F(s) == INSTANCE CasFile WITH file <- File(s), exists <- Exists(s), owner <- Owner(s),
                              saves <- Saves(s), Lock <- LockOf(s)

\* What can happen to a store: the contents of a save are the caller's.
FileStep(s) ==
    \E p \in Procs :
        \/ \E expected, new : F(s)!Save(p, expected, new)
        \/ F(s)!StoreStep(p) \/ F(s)!DiskFails(p) \/ F(s)!Return(p) \/ F(s)!Die(p)

Locked == {"check", "replace", "release"}

SavesOK(s) ==
    /\ Saves(s) = [p \in Procs |-> Saves(s)[p]]
    /\ \A p \in Procs :
          /\ Saves(s)[p] \in [at : F(s)!Stages, expected : {Saves(s)[p].expected},
                           new : {Saves(s)[p].new}, outcome : F(s)!Outcomes]
          /\ Saves(s)[p].at = "release" =>
                Saves(s)[p].outcome \in {"saved", "unconfirmed", "conflict", "failed"}
          /\ Saves(s)[p].at = "done" => Saves(s)[p].outcome \in F(s)!Outcomes \ {"none"}

\* Whoever has passed the lock owns it; a directory that is absent is nobody's.
LockOK(s) ==
    /\ \A p \in Procs : Saves(s)[p].at \in Locked => Owner(s) = p
    /\ LockOf(s) = "directory" =>
          /\ Exists(s) = "absent" => Owner(s) = None
          /\ \A p \in Procs : Saves(s)[p].at \notin {"mark", "acquire"}

\* Nobody else has written since the revision was compared.
CheckedOK(s) == \A p \in Procs : Saves(s)[p].at = "replace" => File(s) = Saves(s)[p].expected

FileInv(s) == SavesOK(s) /\ LockOK(s) /\ CheckedOK(s)

\* A store nobody has used satisfies the invariant.
LEMMA FileInitially ==
  ASSUME NEW s, F(s)!FileInit
  PROVE  FileInv(s)
  BY DEF F!FileInit, FileInv, SavesOK, LockOK, CheckedOK, Locked, F!NoSave, F!Stages, F!Outcomes

\* A step of anybody else keeps the invariant.
LEMMA FileUnchanged ==
  ASSUME NEW s, FileInv(s), UNCHANGED F(s)!fvars
  PROVE  FileInv(s)'
  BY DEF FileInv, SavesOK, LockOK, CheckedOK, F!fvars

\* Process p is now at a stage with an outcome; nothing else of the saves has changed.
Moved(s, p, stage, how) ==
    /\ Saves(s)' = [q \in Procs |-> Saves(s)'[q]]
    /\ \A q \in Procs \ {p} : Saves(s)'[q] = Saves(s)[q]
    /\ Saves(s)'[p] \in [at : {stage}, expected : {Saves(s)[p].expected},
                      new : {Saves(s)[p].new}, outcome : {how}]

\* Moving on changes the stage of one save and nothing else of it.
LEMMA MoveMoves ==
  ASSUME NEW s, SavesOK(s), NEW p \in Procs, NEW stage \in F(s)!Stages, F(s)!Move(p, stage)
  PROVE  Moved(s, p, stage, Saves(s)[p].outcome)
  BY DEF SavesOK, F!Move, Moved

\* A save whose stage and outcome change is still one, and the others are as they were.
LEMMA TwoFields ==
  ASSUME NEW f, NEW g, NEW p \in Procs, NEW A, NEW O, NEW stage, NEW how,
         f = [q \in Procs |-> f[q]],
         f[p] \in [at : A, expected : {f[p].expected}, new : {f[p].new}, outcome : O],
         g = [f EXCEPT ![p].at = stage, ![p].outcome = how]
  PROVE  /\ g = [q \in Procs |-> g[q]]
         /\ \A q \in Procs \ {p} : g[q] = f[q]
         /\ g[p] \in [at : {stage}, expected : {f[p].expected}, new : {f[p].new}, outcome : {how}]
  OBVIOUS

\* So does coming back with an outcome.
LEMMA FinishMoves ==
  ASSUME NEW s, SavesOK(s), NEW p \in Procs, NEW how \in F(s)!Outcomes, F(s)!Finish(p, how)
  PROVE  Moved(s, p, "done", how)
<1>1. /\ Saves(s) = [q \in Procs |-> Saves(s)[q]]
      /\ Saves(s)[p] \in [at : F(s)!Stages, expected : {Saves(s)[p].expected},
                          new : {Saves(s)[p].new}, outcome : F(s)!Outcomes]
  BY DEF SavesOK
<1>2. Saves(s)' = [Saves(s) EXCEPT ![p].at = "done", ![p].outcome = how]
  BY DEF F!Finish
<1>3. PICK f, g : f = Saves(s) /\ g = Saves(s)'
  OBVIOUS
<1>4. f = [q \in Procs |-> f[q]]
  BY <1>1, <1>3
<1>5. f[p] \in [at : F(s)!Stages, expected : {f[p].expected}, new : {f[p].new},
               outcome : F(s)!Outcomes]
  BY <1>1, <1>3
<1>6. g = [f EXCEPT ![p].at = "done", ![p].outcome = how]
  BY <1>2, <1>3
<1>7. /\ g = [q \in Procs |-> g[q]]
      /\ \A q \in Procs \ {p} : g[q] = f[q]
      /\ g[p] \in [at : {"done"}, expected : {f[p].expected}, new : {f[p].new},
                  outcome : {how}]
  BY <1>4, <1>5, <1>6, TwoFields
<1> QED
  BY <1>3, <1>7 DEF Moved

\* So does going to release the lock with an outcome.
LEMMA UnlockingMoves ==
  ASSUME NEW s, SavesOK(s), NEW p \in Procs, NEW how \in F(s)!Outcomes, F(s)!Unlocking(p, how)
  PROVE  Moved(s, p, "release", how)
<1>1. /\ Saves(s) = [q \in Procs |-> Saves(s)[q]]
      /\ Saves(s)[p] \in [at : F(s)!Stages, expected : {Saves(s)[p].expected},
                          new : {Saves(s)[p].new}, outcome : F(s)!Outcomes]
  BY DEF SavesOK
<1>2. Saves(s)' = [Saves(s) EXCEPT ![p].at = "release", ![p].outcome = how]
  BY DEF F!Unlocking
<1>3. PICK f, g : f = Saves(s) /\ g = Saves(s)'
  OBVIOUS
<1>4. f = [q \in Procs |-> f[q]]
  BY <1>1, <1>3
<1>5. f[p] \in [at : F(s)!Stages, expected : {f[p].expected}, new : {f[p].new},
               outcome : F(s)!Outcomes]
  BY <1>1, <1>3
<1>6. g = [f EXCEPT ![p].at = "release", ![p].outcome = how]
  BY <1>2, <1>3
<1>7. /\ g = [q \in Procs |-> g[q]]
      /\ \A q \in Procs \ {p} : g[q] = f[q]
      /\ g[p] \in [at : {"release"}, expected : {f[p].expected}, new : {f[p].new},
                  outcome : {how}]
  BY <1>4, <1>5, <1>6, TwoFields
<1> QED
  BY <1>3, <1>7 DEF Moved

\* Every step keeps the invariant: only the owner of the lock compares, replaces
\* and releases, and a process that dies takes its own lock with it.
LEMMA FileKept ==
  ASSUME NEW s, None \notin Procs, FileInv(s), FileStep(s)
  PROVE  FileInv(s)'
<1> PICK p \in Procs : \/ \E expected, new : F(s)!Save(p, expected, new)
                       \/ F(s)!StoreStep(p) \/ F(s)!DiskFails(p) \/ F(s)!Return(p) \/ F(s)!Die(p)
  BY DEF FileStep
<1> USE DEF FileInv
<1>1. CASE \E expected, new : F(s)!Save(p, expected, new)
  BY <1>1 DEF F!Save, SavesOK, LockOK, CheckedOK, Locked, F!Stages, F!Outcomes
<1>2. CASE F(s)!StoreStep(p) \/ F(s)!DiskFails(p)
  <2> USE DEF F!Stages, F!Outcomes
  <2>1. CASE F(s)!MakeDirectory(p)
    <3>1. \/ /\ Moved(s, p, "check", Saves(s)[p].outcome)
             /\ Exists(s) = "absent" /\ Exists(s)' = "ready" /\ Owner(s)' = p
          \/ Moved(s, p, "done", "busy") /\ UNCHANGED <<Exists(s), Owner(s)>>
      BY <2>1, MoveMoves, FinishMoves DEF F!MakeDirectory
    <3> QED
      BY <2>1, <3>1 DEF F!MakeDirectory, Moved, SavesOK, LockOK, CheckedOK, Locked
  <2>2. CASE F(s)!OpenLock(p)
    <3>1. /\ UNCHANGED <<File(s), Owner(s)>>
          /\ \/ Moved(s, p, "mark", Saves(s)[p].outcome) /\ Exists(s)' = "new"
             \/ Moved(s, p, "done", "busy") /\ UNCHANGED Exists(s)
             \/ Moved(s, p, "acquire", Saves(s)[p].outcome) /\ UNCHANGED Exists(s)
      BY <2>2, MoveMoves, FinishMoves DEF F!OpenLock
    <3> QED
      BY <2>2, <3>1 DEF F!OpenLock, Moved, SavesOK, LockOK, CheckedOK, Locked
  <2>3. CASE F(s)!MarkLock(p)
    <3>1. Moved(s, p, "acquire", Saves(s)[p].outcome)
      BY <2>3, MoveMoves DEF F!MarkLock
    <3> QED
      BY <2>3, <3>1 DEF F!MarkLock, Moved, SavesOK, LockOK, CheckedOK, Locked
  <2>4. CASE F(s)!Acquire(p)
    <3>1. \/ Moved(s, p, "check", Saves(s)[p].outcome) /\ Owner(s) = None /\ Owner(s)' = p
          \/ Moved(s, p, "done", "busy") /\ UNCHANGED Owner(s)
      BY <2>4, MoveMoves, FinishMoves DEF F!Acquire
    <3> QED
      BY <2>4, <3>1 DEF F!Acquire, Moved, SavesOK, LockOK, CheckedOK, Locked
  <2>5. CASE F(s)!Check(p)
    <3>1. \/ Moved(s, p, "replace", Saves(s)[p].outcome) /\ File(s) = Saves(s)[p].expected
          \/ Moved(s, p, "release", "conflict")
      BY <2>5, MoveMoves, UnlockingMoves DEF F!Check
    <3> QED
      BY <2>5, <3>1 DEF F!Check, Moved, SavesOK, LockOK, CheckedOK, Locked
  <2>6. CASE F(s)!Replace(p)
    <3>1. Moved(s, p, "release", "saved") \/ Moved(s, p, "release", "unconfirmed")
      BY <2>6, UnlockingMoves DEF F!Replace
    <3> QED
      BY <2>6, <3>1 DEF F!Replace, Moved, SavesOK, LockOK, CheckedOK, Locked
  <2>7. CASE F(s)!Release(p)
    <3>1. Moved(s, p, "done", Saves(s)[p].outcome)
      BY <2>7, MoveMoves DEF F!Release
    <3> QED
      BY <2>7, <3>1 DEF F!Release, Moved, SavesOK, LockOK, CheckedOK, Locked
  <2>8. CASE F(s)!MarkFails(p)
    <3>1. Moved(s, p, "done", "failed")
      BY <2>8, FinishMoves DEF F!MarkFails
    <3> QED
      BY <2>8, <3>1 DEF F!MarkFails, Moved, SavesOK, LockOK, CheckedOK, Locked
  <2>9. CASE F(s)!WriteFails(p)
    <3>1. Moved(s, p, "release", "failed")
      BY <2>9, UnlockingMoves DEF F!WriteFails
    <3> QED
      BY <2>9, <3>1 DEF F!WriteFails, Moved, SavesOK, LockOK, CheckedOK, Locked
  <2> QED
    BY <1>2, <2>1, <2>2, <2>3, <2>4, <2>5, <2>6, <2>7, <2>8, <2>9 DEF F!StoreStep, F!DiskFails
<1>3. CASE F(s)!Return(p)
  BY <1>3 DEF F!Return, F!NoSave, SavesOK, LockOK, CheckedOK, Locked, F!Stages, F!Outcomes
<1>4. CASE F(s)!Die(p)
  BY <1>4 DEF F!Die, F!NoSave, SavesOK, LockOK, CheckedOK, Locked, F!Stages, F!Outcomes
<1> QED
  BY <1>1, <1>2, <1>3, <1>4

-----------------------------------------------------------------------------
(* Every step is a step of the register, or none *)

request(s) == [q \in Procs |-> F(s)!Visible(Saves(s)[q])]

\* What the register sees of a save that moved.
LEMMA StepSeen ==
  ASSUME NEW s, SavesOK(s), NEW p \in Procs, NEW stage, NEW how, Moved(s, p, stage, how)
  PROVE  request(s)' = [request(s) EXCEPT ![p] =
             F(s)!Visible([at |-> stage, expected |-> Saves(s)[p].expected,
                      new |-> Saves(s)[p].new, outcome |-> how])]
<1>1. Saves(s)'[p] = [at |-> stage, expected |-> Saves(s)[p].expected,
                   new |-> Saves(s)[p].new, outcome |-> how]
  BY DEF Moved
<1> QED
  BY <1>1 DEF Moved, request

\* A save that comes back is an answer of the register.
LEMMA AnswerSeen ==
  ASSUME NEW s, SavesOK(s), NEW p \in Procs, NEW how \in F(s)!Outcomes, Moved(s, p, "done", how),
         File(s)' = File(s),
         \/ request(s)[p].at = "applied" /\ how \in {"saved", "unconfirmed"}
         \/ request(s)[p].at = "pending" /\ how \in {"busy", "conflict", "failed"}
  PROVE  F(s)!R!Answer(p, how)
<1>1. request(s)[p].expected = Saves(s)[p].expected /\ request(s)[p].new = Saves(s)[p].new
  BY DEF request, F!Visible
<1>2. request(s)' = [request(s) EXCEPT ![p] = [at |-> "answered", expected |-> request(s)[p].expected,
                                         new |-> request(s)[p].new, result |-> how]]
  BY <1>1, StepSeen DEF F!Visible, F!Progressed
<1>3. request(s)[p] = [at |-> request(s)[p].at, expected |-> request(s)[p].expected,
                    new |-> request(s)[p].new, result |-> request(s)[p].result]
  BY DEF request, F!Visible
<1>4. request(s)' = [request(s) EXCEPT ![p].at = "answered", ![p].result = how]
  BY <1>2, <1>3 DEF request
<1> QED
  BY <1>4 DEF F!R!Answer, F!R!At, request

\* Replacing the file under the lock is the one moment the register changes.
LEMMA ApplySeen ==
  ASSUME NEW s, SavesOK(s), NEW p \in Procs, NEW how \in {"saved", "unconfirmed"},
         Moved(s, p, "release", how),
         Saves(s)[p].at = "replace", File(s) = Saves(s)[p].expected, File(s)' = Saves(s)[p].new
  PROVE  F(s)!R!Apply(p)
  BY StepSeen DEF F!R!Apply, F!R!At, F!R!Register, request, F!Visible, F!Progressed

\* The stages in between are invisible to the register.
LEMMA StutterSeen ==
  ASSUME NEW s, SavesOK(s), NEW p \in Procs, NEW stage, NEW how,
         Moved(s, p, stage, how), File(s)' = File(s),
         Saves(s)[p].at \notin {"idle", "done", "release"},
         stage \notin {"idle", "done"},
         stage = "release" => how \notin {"saved", "unconfirmed"}
  PROVE  UNCHANGED <<File(s), request(s)>>
<1>1. Saves(s)[p].at # "release"
  OBVIOUS
<1>2. F(s)!Visible([at |-> stage, expected |-> Saves(s)[p].expected,
               new |-> Saves(s)[p].new, outcome |-> how]) = request(s)[p]
  BY DEF request, F!Visible, F!Progressed
<1>3. request(s)' = [request(s) EXCEPT ![p] = request(s)[p]]
  BY <1>2, StepSeen
<1> QED
  BY <1>3 DEF request

\* A step of the protocol is a step of the register, or one it does not see: the
\* replacement takes effect on the content that was compared.
LEMMA FileImplements ==
  ASSUME NEW s, FileInv(s), FileStep(s)
  PROVE  F(s)!R!Step \/ UNCHANGED <<File(s), request(s)>>
<1> PICK p \in Procs : \/ \E expected, new : F(s)!Save(p, expected, new)
                       \/ F(s)!StoreStep(p) \/ F(s)!DiskFails(p) \/ F(s)!Return(p) \/ F(s)!Die(p)
  BY DEF FileStep
<1> USE DEF FileInv
<1>1. CASE \E expected, new : F(s)!Save(p, expected, new)
  <2>1. F(s)!R!Ask(p)
    BY <1>1 DEF F!Save, F!R!Ask, F!R!At, SavesOK, F!Visible, F!Progressed
  <2> QED
    BY <2>1 DEF F!R!Step
<1>2. CASE F(s)!StoreStep(p) \/ F(s)!DiskFails(p)
  <2> DEFINE Answers == \E how \in F(s)!Outcomes \ {"none"} : F(s)!R!Answer(p, how)
  <2> USE DEF F!Stages, F!Outcomes
  <2>1. CASE F(s)!MakeDirectory(p)
    <3>1. \/ Moved(s, p, "check", Saves(s)[p].outcome) \/ Moved(s, p, "done", "busy")
      BY <2>1, MoveMoves, FinishMoves DEF F!MakeDirectory
    <3>2. Answers \/ UNCHANGED <<File(s), request(s)>>
      BY <2>1, <3>1, AnswerSeen, StutterSeen DEF F!MakeDirectory, request, F!Visible, F!Progressed
    <3> QED
      BY <3>2 DEF F!R!Step
  <2>2. CASE F(s)!OpenLock(p)
    <3>1. \/ Moved(s, p, "mark", Saves(s)[p].outcome) \/ Moved(s, p, "done", "busy")
          \/ Moved(s, p, "acquire", Saves(s)[p].outcome)
      BY <2>2, MoveMoves, FinishMoves DEF F!OpenLock
    <3>2. Saves(s)[p].at = "open" /\ request(s)[p].at = "pending" /\ File(s)' = File(s)
      BY <2>2 DEF F!OpenLock, request, F!Visible, F!Progressed
    <3>3. CASE Moved(s, p, "done", "busy")
      <4>1. Answers
        BY <3>2, <3>3, AnswerSeen
      <4> QED
        BY <4>1 DEF F!R!Step
    <3>4. CASE Moved(s, p, "mark", Saves(s)[p].outcome)
      BY <3>2, <3>4, StutterSeen
    <3>5. CASE Moved(s, p, "acquire", Saves(s)[p].outcome)
      BY <3>2, <3>5, StutterSeen
    <3> QED
      BY <3>1, <3>3, <3>4, <3>5
  <2>3. CASE F(s)!MarkLock(p)
    <3>1. Moved(s, p, "acquire", Saves(s)[p].outcome)
      BY <2>3, MoveMoves DEF F!MarkLock
    <3> QED
      BY <2>3, <3>1, StutterSeen DEF F!MarkLock
  <2>4. CASE F(s)!Acquire(p)
    <3>1. Moved(s, p, "check", Saves(s)[p].outcome) \/ Moved(s, p, "done", "busy")
      BY <2>4, MoveMoves, FinishMoves DEF F!Acquire
    <3>2. Answers \/ UNCHANGED <<File(s), request(s)>>
      BY <2>4, <3>1, AnswerSeen, StutterSeen DEF F!Acquire, request, F!Visible, F!Progressed
    <3> QED
      BY <3>2 DEF F!R!Step
  <2>5. CASE F(s)!Check(p)
    <3>1. Moved(s, p, "replace", Saves(s)[p].outcome) \/ Moved(s, p, "release", "conflict")
      BY <2>5, MoveMoves, UnlockingMoves DEF F!Check
    <3> QED
      BY <2>5, <3>1, StutterSeen DEF F!Check
  <2>6. CASE F(s)!Replace(p)
    <3>1. Moved(s, p, "release", "saved") \/ Moved(s, p, "release", "unconfirmed")
      BY <2>6, UnlockingMoves DEF F!Replace
    <3>2. F(s)!R!Apply(p)
      BY <2>6, <3>1, ApplySeen DEF F!Replace, CheckedOK
    <3> QED
      BY <3>2 DEF F!R!Step
  <2>7. CASE F(s)!Release(p)
    <3>1. Moved(s, p, "done", Saves(s)[p].outcome)
      BY <2>7, MoveMoves DEF F!Release
    <3>2. Answers
      BY <2>7, <3>1, AnswerSeen DEF F!Release, SavesOK, request, F!Visible, F!Progressed
    <3> QED
      BY <3>2 DEF F!R!Step
  <2>8. CASE F(s)!MarkFails(p)
    <3>1. Moved(s, p, "done", "failed")
      BY <2>8, FinishMoves DEF F!MarkFails
    <3>2. Answers
      BY <2>8, <3>1, AnswerSeen DEF F!MarkFails, request, F!Visible, F!Progressed
    <3> QED
      BY <3>2 DEF F!R!Step
  <2>9. CASE F(s)!WriteFails(p)
    <3>1. Moved(s, p, "release", "failed")
      BY <2>9, UnlockingMoves DEF F!WriteFails
    <3> QED
      BY <2>9, <3>1, StutterSeen DEF F!WriteFails
  <2> QED
    BY <1>2, <2>1, <2>2, <2>3, <2>4, <2>5, <2>6, <2>7, <2>8, <2>9 DEF F!StoreStep, F!DiskFails
<1>3. CASE F(s)!Return(p) \/ F(s)!Die(p)
  <2>1. F(s)!R!Forget(p)
    BY <1>3 DEF F!Return, F!Die, F!NoSave, F!R!Forget, SavesOK, F!Visible, F!Progressed
  <2> QED
    BY <2>1 DEF F!R!Step
<1> QED
  BY <1>1, <1>2, <1>3

\* Nobody has asked for anything in the beginning.
LEMMA FileStarts ==
  ASSUME NEW s, F(s)!FileInit
  PROVE  F(s)!R!Start
<1> SUFFICES ASSUME NEW p \in Procs PROVE F(s)!R!At(p, "idle")
  BY DEF F!R!Start
<1>1. Saves(s)[p].at = "idle"
  BY DEF F!FileInit, F!NoSave
<1>2. F(s)!Visible(Saves(s)[p]).at = "idle"
  BY <1>1 DEF F!Visible, F!Progressed
<1> QED
  BY <1>2 DEF F!R!At

-----------------------------------------------------------------------------
(* What a caller relies on *)

\* A save that has been asked for and not applied or refused yet, and an applied one.
Waiting(s) == s.at \in {"open", "mark", "acquire", "check", "replace"}
Applied(s) == s.at \in {"release", "done"} /\ s.outcome \in {"saved", "unconfirmed"}

\* Process p's save goes on: the file changes only when the save is applied, from
\* what was expected to what was asked for.
Advanced(s, p) ==
    /\ \A q \in Procs \ {p} : Saves(s)'[q] = Saves(s)[q]
    /\ Saves(s)'[p].expected = Saves(s)[p].expected /\ Saves(s)'[p].new = Saves(s)[p].new
    /\ \/ /\ File(s)' = File(s)
          /\ Waiting(Saves(s)'[p]) => Waiting(Saves(s)[p])
          /\ Applied(Saves(s)'[p]) => Applied(Saves(s)[p])
       \/ /\ Waiting(Saves(s)[p]) /\ ~ Waiting(Saves(s)'[p])
          /\ File(s) = Saves(s)[p].expected /\ File(s)' = Saves(s)[p].new

\* Every step a process takes inside save() advances it in that sense.
LEMMA StoreAdvances ==
  ASSUME NEW s, FileInv(s), NEW p \in Procs, F(s)!StoreStep(p) \/ F(s)!DiskFails(p)
  PROVE  Advanced(s, p)
<1> USE DEF FileInv, F!Stages, F!Outcomes, Advanced, Moved, Waiting, Applied
<1>1. CASE F(s)!MakeDirectory(p)
  <2>1. Moved(s, p, "check", Saves(s)[p].outcome) \/ Moved(s, p, "done", "busy")
    BY <1>1, MoveMoves, FinishMoves DEF F!MakeDirectory
  <2> QED
    BY <1>1, <2>1 DEF F!MakeDirectory
<1>2. CASE F(s)!OpenLock(p)
  <2>1. \/ Moved(s, p, "mark", Saves(s)[p].outcome) \/ Moved(s, p, "done", "busy")
        \/ Moved(s, p, "acquire", Saves(s)[p].outcome)
    BY <1>2, MoveMoves, FinishMoves DEF F!OpenLock
  <2> QED
    BY <1>2, <2>1 DEF F!OpenLock
<1>3. CASE F(s)!MarkLock(p)
  <2>1. Moved(s, p, "acquire", Saves(s)[p].outcome)
    BY <1>3, MoveMoves DEF F!MarkLock
  <2> QED
    BY <1>3, <2>1 DEF F!MarkLock
<1>4. CASE F(s)!Acquire(p)
  <2>1. Moved(s, p, "check", Saves(s)[p].outcome) \/ Moved(s, p, "done", "busy")
    BY <1>4, MoveMoves, FinishMoves DEF F!Acquire
  <2> QED
    BY <1>4, <2>1 DEF F!Acquire
<1>5. CASE F(s)!Check(p)
  <2>1. Moved(s, p, "replace", Saves(s)[p].outcome) \/ Moved(s, p, "release", "conflict")
    BY <1>5, MoveMoves, UnlockingMoves DEF F!Check
  <2> QED
    BY <1>5, <2>1 DEF F!Check
<1>6. CASE F(s)!Replace(p)
  <2>1. Moved(s, p, "release", "saved") \/ Moved(s, p, "release", "unconfirmed")
    BY <1>6, UnlockingMoves DEF F!Replace
  <2> QED
    BY <1>6, <2>1 DEF F!Replace, CheckedOK
<1>7. CASE F(s)!Release(p)
  <2>1. Moved(s, p, "done", Saves(s)[p].outcome)
    BY <1>7, MoveMoves DEF F!Release
  <2> QED
    BY <1>7, <2>1 DEF F!Release
<1>8. CASE F(s)!DiskFails(p)
  <2>1. Moved(s, p, "done", "failed") \/ Moved(s, p, "release", "failed")
    BY <1>8, FinishMoves, UnlockingMoves DEF F!DiskFails, F!MarkFails, F!WriteFails
  <2> QED
    BY <1>8, <2>1 DEF F!DiskFails, F!MarkFails, F!WriteFails
<1> QED
  BY <1>1, <1>2, <1>3, <1>4, <1>5, <1>6, <1>7, <1>8 DEF F!StoreStep

\* The lock is what its type says.
LockTypeOK(s) == Exists(s) \in {"absent", "new", "ready"} /\ Owner(s) \in Procs \cup {None}

\* Every step keeps the type of the lock.
LEMMA LockTypeKept ==
  ASSUME NEW s, LockTypeOK(s), FileStep(s)
  PROVE  LockTypeOK(s)'
  BY DEF LockTypeOK, FileStep, F!Save, F!StoreStep, F!DiskFails, F!Return, F!Die,
         F!MakeDirectory, F!OpenLock,
         F!MarkLock, F!Acquire, F!Check, F!Replace, F!Release, F!MarkFails, F!WriteFails

\* The invariant of a store includes its type.
LEMMA FileTyped ==
  ASSUME NEW s, FileInv(s), LockTypeOK(s)
  PROVE  F(s)!FileTypeOK
  BY DEF FileInv, SavesOK, LockTypeOK, F!FileTypeOK

-----------------------------------------------------------------------------
(* The two stores of the system *)

USE DEF File, Exists, Owner, Saves, LockOf

\* What a process does in a store is a step of its protocol.
WorkspaceStep(p) ==
    \/ \E expected, new : W!Save(p, expected, new)
    \/ W!StoreStep(p) \/ W!DiskFails(p) \/ W!Return(p) \/ W!Die(p)

ProgressStep(p) ==
    \/ \E expected, new : P!Save(p, expected, new)
    \/ P!StoreStep(p) \/ P!DiskFails(p) \/ P!Return(p) \/ P!Die(p)

\* A step on the workspace file is a step of the file.
LEMMA WorkspaceStepIsOne ==
  ASSUME NEW p \in Procs, WorkspaceStep(p)
  PROVE  FileStep("workspace")
  BY DEF WorkspaceStep, FileStep, W!Save, F!Save, W!StoreStep, F!StoreStep,
         W!DiskFails, F!DiskFails, W!Return, F!Return, W!Die, F!Die,
         W!MakeDirectory, F!MakeDirectory, W!OpenLock, F!OpenLock, W!MarkLock, F!MarkLock,
         W!Acquire, F!Acquire, W!Check, F!Check, W!Replace, F!Replace, W!Release, F!Release,
         W!MarkFails, F!MarkFails, W!WriteFails, F!WriteFails, W!NoSave, F!NoSave,
         W!Move, F!Move, W!Finish, F!Finish, W!Unlocking, F!Unlocking

\* A step on the reviews file is a step of the file.
LEMMA ProgressStepIsOne ==
  ASSUME NEW p \in Procs, ProgressStep(p)
  PROVE  FileStep("reviews")
  BY DEF ProgressStep, FileStep, P!Save, F!Save, P!StoreStep, F!StoreStep,
         P!DiskFails, F!DiskFails, P!Return, F!Return, P!Die, F!Die,
         P!MakeDirectory, F!MakeDirectory, P!OpenLock, F!OpenLock, P!MarkLock, F!MarkLock,
         P!Acquire, F!Acquire, P!Check, F!Check, P!Replace, F!Replace, P!Release, F!Release,
         P!MarkFails, F!MarkFails, P!WriteFails, F!WriteFails, P!NoSave, F!NoSave,
         P!Move, F!Move, P!Finish, F!Finish, P!Unlocking, F!Unlocking

\* Every step of the system is a step of one process in the workspace's store, or
\* leaves it alone; and so for the progress.
LEMMA WorkspaceSteps ==
  ASSUME [Next]_vars
  PROVE  (\E p \in Procs : WorkspaceStep(p)) \/ UNCHANGED wstore
<1> USE DEF WorkspaceStep
<1>1. CASE UNCHANGED vars
  BY <1>1 DEF vars, wstore, pstore
<1>2. CASE \E p \in Coordinators : BeginDelete(p) \/ BeginRecover(p)
  BY <1>2 DEF BeginDelete, BeginRecover
<1>3. CASE \E w \in Writers : Commit(w) \/ AddReview(w)
  BY <1>3 DEF Commit, AddReview, Procs
<1>4. ASSUME NEW p \in Procs, DeleteStep(p)
      PROVE  WorkspaceStep(p) \/ UNCHANGED wstore
  BY <1>4 DEF DeleteStep, LoadWorkspace, LoadProgress, PublishJournal, ProgressSaved,
              WorkspaceSaved, SaveRefused, OnlyWorkspaceSaved
<1>5. ASSUME NEW p \in Procs, CompleteStep(p)
      PROVE  WorkspaceStep(p) \/ UNCHANGED wstore
  BY <1>5 DEF CompleteStep, ReadJournal, ReadWorkspace, ReadProgress, ProgressCompleted,
              WorkspaceCompleted, VerifyWorkspace, VerifyProgress, RemoveJournal
<1>6. ASSUME NEW p \in Procs, StoreStep(p) \/ OtherSaveEnds(p) \/ DiskFails(p) \/ Crash(p)
      PROVE  WorkspaceStep(p) \/ UNCHANGED wstore
  BY <1>6 DEF StoreStep, OtherSaveEnds, DiskFails, Crash
<1> QED
  BY <1>1, <1>2, <1>3, <1>4, <1>5, <1>6 DEF Next, Running

\* Every step of the system is a step on the reviews file, or leaves it alone.
LEMMA ProgressSteps ==
  ASSUME [Next]_vars
  PROVE  (\E p \in Procs : ProgressStep(p)) \/ UNCHANGED pstore
<1> USE DEF ProgressStep
<1>1. CASE UNCHANGED vars
  BY <1>1 DEF vars, wstore, pstore
<1>2. CASE \E p \in Coordinators : BeginDelete(p) \/ BeginRecover(p)
  BY <1>2 DEF BeginDelete, BeginRecover
<1>3. CASE \E w \in Writers : Commit(w) \/ AddReview(w)
  BY <1>3 DEF Commit, AddReview, Procs
<1>4. ASSUME NEW p \in Procs, DeleteStep(p)
      PROVE  ProgressStep(p) \/ UNCHANGED pstore
  BY <1>4 DEF DeleteStep, LoadWorkspace, LoadProgress, PublishJournal, ProgressSaved,
              WorkspaceSaved, SaveRefused, OnlyWorkspaceSaved
<1>5. ASSUME NEW p \in Procs, CompleteStep(p)
      PROVE  ProgressStep(p) \/ UNCHANGED pstore
  BY <1>5 DEF CompleteStep, ReadJournal, ReadWorkspace, ReadProgress, ProgressCompleted,
              WorkspaceCompleted, VerifyWorkspace, VerifyProgress, RemoveJournal
<1>6. ASSUME NEW p \in Procs, StoreStep(p) \/ OtherSaveEnds(p) \/ DiskFails(p) \/ Crash(p)
      PROVE  ProgressStep(p) \/ UNCHANGED pstore
  BY <1>6 DEF StoreStep, OtherSaveEnds, DiskFails, Crash
<1> QED
  BY <1>1, <1>2, <1>3, <1>4, <1>5, <1>6 DEF Next, Running

\* Nobody has the name of a process.
LEMMA NoneIsNoProcess == None \notin Procs
  BY DeletionAssumption DEF Procs

\* Both stores keep their invariants.
StoresInv ==
    /\ FileInv("workspace") /\ LockTypeOK("workspace")
    /\ FileInv("reviews") /\ LockTypeOK("reviews")

\* Stores nobody has used satisfy them.
LEMMA StoresStart == Init => StoresInv
<1>1. Init => F("workspace")!FileInit /\ F("reviews")!FileInit
  BY DEF Init, W!FileInit, F!FileInit, W!NoSave, F!NoSave,
         P!FileInit, F!FileInit, P!NoSave, F!NoSave
<1>2. F("workspace")!FileInit => LockTypeOK("workspace")
  BY DEF F!FileInit, LockTypeOK
<1>3. F("reviews")!FileInit => LockTypeOK("reviews")
  BY DEF F!FileInit, LockTypeOK
<1> QED
  BY <1>1, <1>2, <1>3, FileInitially, FileInitially DEF StoresInv

\* Every step of the system keeps them.
LEMMA StoresStep == StoresInv /\ [Next]_vars => StoresInv'
<1> SUFFICES ASSUME StoresInv, [Next]_vars PROVE StoresInv'
  OBVIOUS
<1>1. FileInv("workspace")' /\ LockTypeOK("workspace")'
  <2>1. CASE UNCHANGED wstore
    BY <2>1, FileUnchanged DEF StoresInv, wstore, F!fvars, LockTypeOK
  <2>2. CASE \E p \in Procs : WorkspaceStep(p)
    BY <2>2, WorkspaceStepIsOne, FileKept, LockTypeKept, NoneIsNoProcess DEF StoresInv
  <2> QED
    BY <2>1, <2>2, WorkspaceSteps
<1>2. FileInv("reviews")' /\ LockTypeOK("reviews")'
  <2>1. CASE UNCHANGED pstore
    BY <2>1, FileUnchanged DEF StoresInv, pstore, F!fvars, LockTypeOK
  <2>2. CASE \E p \in Procs : ProgressStep(p)
    BY <2>2, ProgressStepIsOne, FileKept, LockTypeKept, NoneIsNoProcess DEF StoresInv
  <2> QED
    BY <2>1, <2>2, ProgressSteps
<1> QED
  BY <1>1, <1>2 DEF StoresInv

\* The workspace is a register that changes only from what was expected, whatever the
\* deletions, recoveries, other saves, failures and crashes do (education_workspace_store.py).
THEOREM WorkspaceIsRegister == Spec => W!R!Spec
<1> DEFINE seen == <<workspace, [p \in Procs |-> W!Visible(wsaves[p])]>>
<1>1. Init => W!R!Start
  <2>1. Init => F("workspace")!FileInit
    BY DEF Init, W!FileInit, F!FileInit, W!NoSave, F!NoSave
  <2>2. F("workspace")!FileInit => W!R!Start
    BY FileStarts DEF W!R!Start, F!R!Start, W!R!At, F!R!At,
       W!Visible, F!Visible, W!Progressed, F!Progressed
  <2> QED
    BY <2>1, <2>2
<1>2. StoresInv /\ [Next]_vars => [W!R!Step]_seen
  <2> SUFFICES ASSUME StoresInv, [Next]_vars PROVE W!R!Step \/ UNCHANGED seen
    OBVIOUS
  <2>1. CASE UNCHANGED wstore
    BY <2>1 DEF wstore, W!Visible, W!Progressed
  <2>2. CASE \E p \in Procs : WorkspaceStep(p)
    <3>1. F("workspace")!R!Step \/ UNCHANGED <<workspace, request("workspace")>>
      BY <2>2, WorkspaceStepIsOne, FileImplements DEF StoresInv
    <3>2. UNCHANGED <<workspace, request("workspace")>> => UNCHANGED seen
      BY DEF request, W!Visible, F!Visible, W!Progressed, F!Progressed
    <3>3. F("workspace")!R!Step => W!R!Step
      <4>1. \A x : F("workspace")!Visible(x) = W!Visible(x)
        BY DEF W!Visible, F!Visible, W!Progressed, F!Progressed
      <4>2. PICK asked, asks : /\ asked = [p \in Procs |-> W!Visible(wsaves[p])]
                               /\ asks = [p \in Procs |-> W!Visible(wsaves'[p])]
        OBVIOUS
      <4>3. /\ asked = [p \in Procs |-> F("workspace")!Visible(Saves("workspace")[p])]
            /\ asks = [p \in Procs |-> F("workspace")!Visible(Saves("workspace")'[p])]
        BY <4>1, <4>2
      <4>4. ASSUME NEW p \in Procs, F("workspace")!R!Ask(p)
            PROVE  W!R!Ask(p)
        BY <4>2, <4>3, <4>4 DEF W!R!Ask, F!R!Ask, W!R!At, F!R!At
      <4>5. ASSUME NEW p \in Procs, F("workspace")!R!Apply(p)
            PROVE  W!R!Apply(p)
        <5>1. /\ asked[p].at = "pending" /\ asks = [asked EXCEPT ![p].at = "applied"]
              /\ workspace = asked[p].expected /\ workspace' = asked[p].new
          BY <4>3, <4>5 DEF F!R!Apply, F!R!At, F!R!Register
        <5> QED
          BY <4>2, <5>1 DEF W!R!Apply, W!R!At, W!R!Register
      <4>6. ASSUME NEW p \in Procs, F("workspace")!R!Forget(p)
            PROVE  W!R!Forget(p)
        BY <4>2, <4>3, <4>6 DEF W!R!Forget, F!R!Forget
      <4>7. ASSUME NEW p \in Procs, NEW how, F("workspace")!R!Answer(p, how)
            PROVE  W!R!Answer(p, how)
        <5>1. /\ \/ asked[p].at = "applied" /\ how \in {"saved", "unconfirmed"}
                 \/ asked[p].at = "pending" /\ how \in {"busy", "conflict", "failed"}
              /\ asks = [asked EXCEPT ![p].at = "answered", ![p].result = how]
              /\ UNCHANGED workspace
          BY <4>3, <4>7 DEF F!R!Answer, F!R!At
        <5> QED
          BY <4>2, <5>1 DEF W!R!Answer, W!R!At
      <4> QED
        BY <4>4, <4>5, <4>6, <4>7 DEF W!R!Step, F!R!Step
    <3> QED
      BY <3>1, <3>2, <3>3
  <2> QED
    BY <2>1, <2>2, WorkspaceSteps
<1> QED
  BY StoresStart, StoresStep, <1>1, <1>2, PTL DEF Spec, W!R!Spec

\* And so is the review progress with its marked lock file (student_progress_store.py).
THEOREM ProgressIsRegister == Spec => P!R!Spec
<1> DEFINE seen == <<progress, [p \in Procs |-> P!Visible(psaves[p])]>>
<1>1. Init => P!R!Start
  <2>1. Init => F("reviews")!FileInit
    BY DEF Init, P!FileInit, F!FileInit, P!NoSave, F!NoSave
  <2>2. F("reviews")!FileInit => P!R!Start
    BY FileStarts DEF P!R!Start, F!R!Start, P!R!At, F!R!At,
       P!Visible, F!Visible, P!Progressed, F!Progressed
  <2> QED
    BY <2>1, <2>2
<1>2. StoresInv /\ [Next]_vars => [P!R!Step]_seen
  <2> SUFFICES ASSUME StoresInv, [Next]_vars PROVE P!R!Step \/ UNCHANGED seen
    OBVIOUS
  <2>1. CASE UNCHANGED pstore
    BY <2>1 DEF pstore, P!Visible, P!Progressed
  <2>2. CASE \E p \in Procs : ProgressStep(p)
    <3>1. F("reviews")!R!Step \/ UNCHANGED <<progress, request("reviews")>>
      BY <2>2, ProgressStepIsOne, FileImplements DEF StoresInv
    <3>2. UNCHANGED <<progress, request("reviews")>> => UNCHANGED seen
      BY DEF request, P!Visible, F!Visible, P!Progressed, F!Progressed
    <3>3. F("reviews")!R!Step => P!R!Step
      <4>1. \A x : F("reviews")!Visible(x) = P!Visible(x)
        BY DEF P!Visible, F!Visible, P!Progressed, F!Progressed
      <4>2. PICK asked, asks : /\ asked = [p \in Procs |-> P!Visible(psaves[p])]
                               /\ asks = [p \in Procs |-> P!Visible(psaves'[p])]
        OBVIOUS
      <4>3. /\ asked = [p \in Procs |-> F("reviews")!Visible(Saves("reviews")[p])]
            /\ asks = [p \in Procs |-> F("reviews")!Visible(Saves("reviews")'[p])]
        BY <4>1, <4>2
      <4>4. ASSUME NEW p \in Procs, F("reviews")!R!Ask(p)
            PROVE  P!R!Ask(p)
        BY <4>2, <4>3, <4>4 DEF P!R!Ask, F!R!Ask, P!R!At, F!R!At
      <4>5. ASSUME NEW p \in Procs, F("reviews")!R!Apply(p)
            PROVE  P!R!Apply(p)
        <5>1. /\ asked[p].at = "pending" /\ asks = [asked EXCEPT ![p].at = "applied"]
              /\ progress = asked[p].expected /\ progress' = asked[p].new
          BY <4>3, <4>5 DEF F!R!Apply, F!R!At, F!R!Register
        <5> QED
          BY <4>2, <5>1 DEF P!R!Apply, P!R!At, P!R!Register
      <4>6. ASSUME NEW p \in Procs, F("reviews")!R!Forget(p)
            PROVE  P!R!Forget(p)
        BY <4>2, <4>3, <4>6 DEF P!R!Forget, F!R!Forget
      <4>7. ASSUME NEW p \in Procs, NEW how, F("reviews")!R!Answer(p, how)
            PROVE  P!R!Answer(p, how)
        <5>1. /\ \/ asked[p].at = "applied" /\ how \in {"saved", "unconfirmed"}
                 \/ asked[p].at = "pending" /\ how \in {"busy", "conflict", "failed"}
              /\ asks = [asked EXCEPT ![p].at = "answered", ![p].result = how]
              /\ UNCHANGED progress
          BY <4>3, <4>7 DEF F!R!Answer, F!R!At
        <5> QED
          BY <4>2, <5>1 DEF P!R!Answer, P!R!At
      <4> QED
        BY <4>4, <4>5, <4>6, <4>7 DEF P!R!Step, F!R!Step
    <3> QED
      BY <3>1, <3>2, <3>3
  <2> QED
    BY <2>1, <2>2, ProgressSteps
<1> QED
  BY StoresStart, StoresStep, <1>1, <1>2, PTL DEF Spec, P!R!Spec

\* Both stores of the education data implement the abstract register, for every
\* number of processes and every interleaving, failure and crash.
THEOREM DeletionStoresAreRegisters == Spec => StoresAreRegisters
  BY WorkspaceIsRegister, ProgressIsRegister DEF StoresAreRegisters

-----------------------------------------------------------------------------
(* What holds at every step of a deletion, for any number of coordinators *)

Reviews(content) == IF content = None THEN {} ELSE content
Added(s)         == s.new \ Reviews(s.expected)

\* The reviews a deletion purges are not in the progress.
Gone(d) == (d.oldP \ d.newP) \cap progress = {}

\* A deletion before its intent is published, after it, and saving reviews.
Preparing == {"load_workspace", "load_progress", "publish"}
Carrying  == {"save_progress", "save_workspace", "read_workspace", "read_progress",
              "complete_progress", "complete_workspace", "verify_workspace",
              "verify_progress", "remove_journal"}
Purging   == {"save_progress", "complete_progress"}

Formed(d) ==
    /\ d \in Intent /\ d.oldP # None
    /\ d.newP = Purged(d.oldP, d.student)
    /\ d.newW = Tombstoned(d.oldW, d.student, d.op)

Task == [at : Stages, student : Students \cup {None}, op : Nat,
         seen : Workspace \cup {None}, intent : Intent \cup {None}]

\* What process p has read and means to do.
TaskOf(p) ==
    /\ task[p] \in Task
    /\ p \notin Coordinators => task[p].at \in {"idle", "other_save"}
    /\ task[p].at \in Preparing => task[p].student \in Students
    /\ task[p].at \in {"load_progress", "publish"} => task[p].seen \in Workspace
    /\ task[p].at = "publish" =>
          /\ Formed(task[p].intent)
          /\ task[p].intent.op = task[p].op /\ task[p].intent.oldW = task[p].seen
    /\ task[p].at \in Carrying => task[p].intent \in intents
    /\ task[p].at \in Purging =>
          /\ psaves[p].expected = task[p].intent.oldP
          /\ psaves[p].new = task[p].intent.newP

CountsOK ==
    /\ ops \in 0..MaxOps
    /\ faults \in [crashes : 0..MaxCrashes, failures : 0..MaxFailures]

TaskOK ==
    /\ task = [p \in Procs |-> task[p]]
    /\ \A p \in Procs : TaskOf(p)
    /\ \A d \in intents : Formed(d)
    /\ journal \in intents \cup {None}

\* What the files hold, and what the saves that wait would do to them.
ContentsOK ==
    /\ workspace \in Workspace
    /\ progress = None \/ progress \subseteq Review
    /\ \A p \in Procs :
          /\ Waiting(wsaves[p]) =>
                /\ wsaves[p].expected \in Workspace /\ wsaves[p].new \in Workspace
                /\ wsaves[p].expected.deleted \subseteq wsaves[p].new.deleted
                /\ wsaves[p].expected.ledger \subseteq wsaves[p].new.ledger
          /\ Waiting(psaves[p]) =>
                /\ psaves[p].new \subseteq Review
                /\ Reviews(psaves[p].expected) \subseteq psaves[p].new \/ task[p].at \in Purging

\* Nobody knows the operation yet.
Unused(n) ==
    /\ n \notin workspace.ledger
    /\ \A p \in Procs :
          /\ Waiting(wsaves[p]) => n \notin wsaves[p].new.ledger
          /\ task[p].at \in {"load_progress", "publish"} => n \notin task[p].seen.ledger
    /\ \A d \in intents : d.op # n /\ n \notin d.newW.ledger

\* An operation is known to its own deletion only, until its intent is published.
OpsOK ==
    /\ \A n \in Nat : n > ops => Unused(n)
    /\ \A p \in Procs, n \in Nat :
          task[p].at \in Preparing /\ task[p].op = n => n <= ops /\ Unused(n)
    /\ \A p, q \in Procs :
          p # q /\ task[p].at \in Preparing /\ task[q].at \in Preparing => task[p].op # task[q].op

\* Nobody else knows the review: it is not in the file nor among what is purged.
Unseen(r) ==
    /\ r \notin Reviews(progress)
    /\ \A d \in intents : r \notin d.oldP
    /\ \A p \in Procs : task[p].at = "publish" => r \notin task[p].intent.oldP

\* A review that a waiting save adds is new, and added once.
ReviewsOK ==
    /\ \A r \in Review : r.id > ops =>
          Unseen(r) /\ \A p \in Procs : Waiting(psaves[p]) => r \notin Added(psaves[p])
    /\ \A p \in Procs : Waiting(psaves[p]) =>
          \A r \in Added(psaves[p]) :
             /\ Unseen(r)
             /\ \A q \in Procs \ {p} : Waiting(psaves[q]) => r \notin Added(psaves[q])

\* The reviews are gone before anybody asks for the tombstone.
OrderOK ==
    /\ \A d, e \in intents : d.op = e.op => d = e
    /\ \A d \in intents : d.op \in workspace.ledger => Gone(d)
    /\ \A p \in Procs : Waiting(wsaves[p]) =>
          \A d \in intents :
             d.op \in wsaves[p].new.ledger => d.op \in wsaves[p].expected.ledger \/ Gone(d)

\* How far process p has carried a deletion tells what the stores hold.
Reached(p) ==
    /\ task[p].at \in Purging /\ Applied(psaves[p]) => Gone(task[p].intent)
    /\ task[p].at \in {"save_workspace", "complete_workspace"} => Gone(task[p].intent)
    /\ task[p].at \in {"verify_progress", "remove_journal"} =>
          task[p].intent.op \in workspace.ledger

StageOK == \A p \in Procs : Reached(p)

DeletionInv == TaskOK /\ CountsOK /\ ContentsOK /\ OpsOK /\ ReviewsOK /\ OrderOK /\ StageOK

-----------------------------------------------------------------------------
(* The kinds of steps *)

\* Process p goes on inside save() of the workspace, or of the reviews.
WorkspaceAdvances(p) ==
    Advanced("workspace", p) /\ UNCHANGED <<pstore, journal, task, ops, intents, unlinked>>

ReviewsAdvance(p) ==
    Advanced("reviews", p) /\ UNCHANGED <<wstore, journal, task, ops, intents, unlinked>>

\* Process p begins, carries on or gives up what is on disk already: it asks for
\* nothing but what its intent says.
CarriesOn(p) ==
    /\ \A q \in Procs \ {p} :
          task'[q] = task[q] /\ wsaves'[q] = wsaves[q] /\ psaves'[q] = psaves[q]
    /\ task'[p].at \notin Preparing
    /\ Waiting(wsaves'[p]) =>
          \/ wsaves'[p] = wsaves[p]
          \/ /\ task[p].intent \in intents /\ Gone(task[p].intent)
             /\ wsaves'[p].expected = task[p].intent.oldW /\ wsaves'[p].new = task[p].intent.newW
    /\ Waiting(psaves'[p]) =>
          \/ psaves'[p] = psaves[p] /\ (task[p].at \in Purging => task'[p].at \in Purging)
          \/ /\ task[p].intent \in intents /\ task'[p].at \in Purging
             /\ psaves'[p].expected = task[p].intent.oldP /\ psaves'[p].new = task[p].intent.newP
    /\ UNCHANGED <<workspace, progress, ops, intents>>

\* The steps after the intent is on disk, and those that give up.
CarryStep(p) ==
    \/ ProgressSaved(p) \/ WorkspaceSaved(p) \/ SaveRefused(p) \/ OnlyWorkspaceSaved(p)
    \/ BeginRecover(p) /\ p \in Coordinators
    \/ CompleteStep(p) \/ OtherSaveEnds(p) \/ Crash(p)

Kind(p) ==
    \/ BeginDelete(p) /\ p \in Coordinators
    \/ LoadWorkspace(p) \/ LoadProgress(p) \/ PublishJournal(p)
    \/ Commit(p) /\ p \in Writers
    \/ AddReview(p) /\ p \in Writers
    \/ WorkspaceAdvances(p) \/ ReviewsAdvance(p) \/ CarryStep(p)

\* A process inside save() advances as the store promises.
LEMMA StoresAdvance ==
  ASSUME StoresInv, NEW p \in Procs, StoreStep(p) \/ DiskFails(p)
  PROVE  WorkspaceAdvances(p) \/ ReviewsAdvance(p)
<1>1. FileInv("workspace") /\ (W!StoreStep(p) \/ W!DiskFails(p)) => Advanced("workspace", p)
  <2>1. W!StoreStep(p) \/ W!DiskFails(p) => F("workspace")!StoreStep(p) \/ F("workspace")!DiskFails(p)
    BY DEF W!StoreStep, F!StoreStep,
         W!DiskFails, F!DiskFails,
         W!MakeDirectory, F!MakeDirectory, W!OpenLock, F!OpenLock, W!MarkLock, F!MarkLock,
         W!Acquire, F!Acquire, W!Check, F!Check, W!Replace, F!Replace, W!Release, F!Release,
         W!MarkFails, F!MarkFails, W!WriteFails, F!WriteFails,
         W!Move, F!Move, W!Finish, F!Finish, W!Unlocking, F!Unlocking
  <2> QED
    BY <2>1, StoreAdvances
<1>2. FileInv("reviews") /\ (P!StoreStep(p) \/ P!DiskFails(p)) => Advanced("reviews", p)
  <2>1. P!StoreStep(p) \/ P!DiskFails(p) => F("reviews")!StoreStep(p) \/ F("reviews")!DiskFails(p)
    BY DEF P!StoreStep, F!StoreStep,
         P!DiskFails, F!DiskFails,
         P!MakeDirectory, F!MakeDirectory, P!OpenLock, F!OpenLock, P!MarkLock, F!MarkLock,
         P!Acquire, F!Acquire, P!Check, F!Check, P!Replace, F!Replace, P!Release, F!Release,
         P!MarkFails, F!MarkFails, P!WriteFails, F!WriteFails,
         P!Move, F!Move, P!Finish, F!Finish, P!Unlocking, F!Unlocking
  <2> QED
    BY <2>1, StoreAdvances
<1> QED
  BY <1>1, <1>2 DEF StoresInv, StoreStep, DiskFails, WorkspaceAdvances, ReviewsAdvance

\* Every step is of one of these kinds.
LEMMA StepKinds ==
  ASSUME StoresInv, [Next]_vars
  PROVE  UNCHANGED vars \/ \E p \in Procs : Kind(p)
<1>1. CASE \E p \in Coordinators : BeginDelete(p) \/ BeginRecover(p)
  BY <1>1 DEF Kind, CarryStep, Procs
<1>2. CASE \E w \in Writers : Commit(w) \/ AddReview(w)
  BY <1>2 DEF Kind, Procs
<1>3. ASSUME NEW p \in Procs, StoreStep(p) \/ DiskFails(p) PROVE Kind(p)
  BY <1>3, StoresAdvance DEF Kind
<1>4. ASSUME NEW p \in Procs, DeleteStep(p) \/ CompleteStep(p) \/ OtherSaveEnds(p) \/ Crash(p)
      PROVE  Kind(p)
  BY <1>4 DEF Kind, CarryStep, DeleteStep
<1> QED
  BY <1>1, <1>2, <1>3, <1>4 DEF Next, Running

\* What the saves of a store look like, whoever waits for them.
LEMMA SavesShape ==
  ASSUME StoresInv
  PROVE  /\ wsaves = [p \in Procs |-> wsaves[p]] /\ psaves = [p \in Procs |-> psaves[p]]
         /\ \A p \in Procs : wsaves[p] = [at |-> wsaves[p].at, expected |-> wsaves[p].expected,
                                          new |-> wsaves[p].new, outcome |-> wsaves[p].outcome]
         /\ \A p \in Procs : psaves[p] = [at |-> psaves[p].at, expected |-> psaves[p].expected,
                                          new |-> psaves[p].new, outcome |-> psaves[p].outcome]
  BY DEF StoresInv, FileInv, FileInv, SavesOK, SavesOK

-----------------------------------------------------------------------------
(* Carrying a deletion on asks for nothing but what its intent says *)

\* An answer of either store, seen by the process that waits for it.
LEMMA SavedIsApplied ==
  ASSUME NEW p \in Procs, Saved(p, psaves)
  PROVE  Applied(psaves[p])
  BY DEF Saved, Applied

\* Coming back from save(), or dying in it, concerns one process and no file.
LEMMA WorkspaceCalls ==
  ASSUME StoresInv, NEW p \in Procs
  PROVE  W!Return(p) \/ W!Die(p) =>
               /\ \A q \in Procs \ {p} : wsaves'[q] = wsaves[q]
               /\ wsaves'[p].at = "idle"
               /\ UNCHANGED workspace
  BY SavesShape DEF W!Return, W!Die, W!NoSave

\* The same of the reviews.
LEMMA ReviewCalls ==
  ASSUME StoresInv, NEW p \in Procs
  PROVE  P!Return(p) \/ P!Die(p) =>
               /\ \A q \in Procs \ {p} : psaves'[q] = psaves[q]
               /\ psaves'[p].at = "idle" /\ psaves'[p].outcome = "none"
               /\ UNCHANGED progress
  BY SavesShape DEF P!Return, P!Die, P!NoSave

\* Moving on concerns one process, and its stage only.
LEMMA GotoMoves ==
  ASSUME TaskOK, NEW p \in Procs, NEW stage, Goto(p, stage)
  PROVE  /\ task' = [q \in Procs |-> task'[q]]
         /\ \A q \in Procs \ {p} : task'[q] = task[q]
         /\ task'[p] = [at |-> stage, student |-> task[p].student, op |-> task[p].op,
                        seen |-> task[p].seen, intent |-> task[p].intent]
<1>1. task[p] = [at |-> task[p].at, student |-> task[p].student, op |-> task[p].op,
                 seen |-> task[p].seen, intent |-> task[p].intent]
  BY DEF TaskOK, TaskOf, Task
<1>2. task = [q \in Procs |-> task[q]]
  BY DEF TaskOK, TaskOf
<1>3. task' = [task EXCEPT ![p] = [task[p] EXCEPT !.at = stage]]
  BY DEF Goto
<1>4. [task[p] EXCEPT !.at = stage] =
        [at |-> stage, student |-> task[p].student, op |-> task[p].op,
         seen |-> task[p].seen, intent |-> task[p].intent]
  BY <1>1
<1> QED
  BY <1>2, <1>3, <1>4

\* A task is a record of these five fields.
LEMMA TaskShape ==
  ASSUME TaskOK, NEW p \in Procs
  PROVE  task[p] = [at |-> task[p].at, student |-> task[p].student, op |-> task[p].op,
                    seen |-> task[p].seen, intent |-> task[p].intent]
  BY DEF TaskOK, TaskOf, Task

\* Giving up forgets what one process was doing.
LEMMA GivingUp ==
  ASSUME TaskOK, NEW p \in Procs, Give_up(p)
  PROVE  /\ task' = [q \in Procs |-> task'[q]]
         /\ \A q \in Procs \ {p} : task'[q] = task[q]
         /\ task'[p] = NoTask /\ task'[p].at = "idle"
  BY DEF TaskOK, TaskOf, Give_up, NoTask

\* Both, as one fact about what process p does next.
LEMMA TaskMoves ==
  ASSUME TaskOK, NEW p \in Procs
  PROVE  /\ \A stage \in Stages : Goto(p, stage) =>
               (\A q \in Procs \ {p} : task'[q] = task[q]) /\ task'[p].at = stage
         /\ Give_up(p) =>
               (\A q \in Procs \ {p} : task'[q] = task[q]) /\ task'[p].at = "idle"
<1>1. ASSUME NEW stage \in Stages, Goto(p, stage)
      PROVE  (\A q \in Procs \ {p} : task'[q] = task[q]) /\ task'[p].at = stage
  <2>1. task'[p] = [at |-> stage, student |-> task[p].student, op |-> task[p].op,
                    seen |-> task[p].seen, intent |-> task[p].intent]
    BY <1>1, GotoMoves
  <2>2. \A q \in Procs \ {p} : task'[q] = task[q]
    BY <1>1, GotoMoves
  <2> QED
    BY <2>1, <2>2
<1> QED
  BY <1>1, GivingUp

\* Every step of CarryStep carries on in that sense.
LEMMA CarryCarriesOn ==
  ASSUME StoresInv, DeletionInv, NEW p \in Procs, CarryStep(p)
  PROVE  CarriesOn(p)
<1> DEFINE d == task[p].intent
<1> USE TaskMoves, WorkspaceCalls, ReviewCalls
    DEF Stages, DeletionInv, CarriesOn, Preparing, Purging, Is, wstore, pstore, Waiting, Waiting
<1>1. CASE ProgressSaved(p)
  <2>1. d \in intents /\ Gone(d)
    BY <1>1, SavedIsApplied DEF ProgressSaved, StageOK, Reached, TaskOK, TaskOf, Carrying
  <2>2. W!Save(p, d.oldW, d.newW) /\ P!Return(p) /\ Goto(p, "save_workspace")
    BY <1>1 DEF ProgressSaved
  <2>3. /\ \A q \in Procs \ {p} : wsaves'[q] = wsaves[q]
        /\ wsaves'[p].expected = d.oldW /\ wsaves'[p].new = d.newW
        /\ UNCHANGED workspace
    BY <2>2, SavesShape DEF W!Save
  <2> QED
    BY <1>1, <2>1, <2>2, <2>3 DEF ProgressSaved
<1>2. CASE WorkspaceSaved(p)
  BY <1>2 DEF WorkspaceSaved
<1>3. CASE SaveRefused(p)
  BY <1>3 DEF SaveRefused
<1>4. CASE OnlyWorkspaceSaved(p)
  BY <1>4 DEF OnlyWorkspaceSaved
<1>5. CASE BeginRecover(p)
  BY <1>5 DEF BeginRecover
<1>6. CASE ReadJournal(p)
  <2>1. CASE Give_up(p)
    BY <1>6, <2>1 DEF ReadJournal
  <2>2. CASE task' = [task EXCEPT ![p] = [NoTask EXCEPT !.at = "read_workspace", !.intent = journal]]
    <3>1. (\A q \in Procs \ {p} : task'[q] = task[q]) /\ task'[p].at = "read_workspace"
      BY <2>2 DEF TaskOK, TaskOf, NoTask
    <3> QED
      BY <1>6, <3>1 DEF ReadJournal
  <2> QED
    BY <1>6, <2>1, <2>2 DEF ReadJournal
<1>7. CASE ReadWorkspace(p)
  <2>1. (\A q \in Procs \ {p} : task'[q] = task[q]) /\ task'[p].at = "read_progress"
    BY <1>7 DEF ReadWorkspace, TaskOK, TaskOf, Task
  <2> QED
    BY <1>7, <2>1 DEF ReadWorkspace
<1>8. CASE ReadProgress(p)
  <2>1. d \in intents
    BY <1>8 DEF ReadProgress, TaskOK, TaskOf, Carrying
  <2>2. CASE Give_up(p) /\ UNCHANGED <<wstore, pstore>>
    BY <1>8, <2>2 DEF ReadProgress
  <2>3. CASE ProgressState(d) = "old" /\ P!Save(p, progress, d.newP)
             /\ Goto(p, "complete_progress") /\ UNCHANGED wstore
    <3>1. progress = d.oldP
      BY <2>3 DEF ProgressState, State
    <3>2. /\ \A q \in Procs \ {p} : psaves'[q] = psaves[q]
          /\ psaves'[p].expected = d.oldP /\ psaves'[p].new = d.newP
          /\ UNCHANGED progress
      BY <2>3, <3>1, SavesShape DEF P!Save
    <3> QED
      BY <1>8, <2>1, <2>3, <3>2 DEF ReadProgress
  <2>4. CASE /\ ProgressState(d) = "new" /\ State(task[p].seen, d.oldW, d.newW) = "old"
             /\ W!Save(p, task[p].seen, d.newW)
             /\ Goto(p, "complete_workspace") /\ UNCHANGED pstore
    <3>1. progress = d.newP /\ task[p].seen = d.oldW
      BY <2>4 DEF ProgressState, State
    <3>2. Gone(d)
      BY <3>1 DEF Gone
    <3>3. /\ \A q \in Procs \ {p} : wsaves'[q] = wsaves[q]
          /\ wsaves'[p].expected = d.oldW /\ wsaves'[p].new = d.newW
          /\ UNCHANGED workspace
      BY <2>4, <3>1, SavesShape DEF W!Save
    <3> QED
      BY <1>8, <2>1, <2>4, <3>2, <3>3 DEF ReadProgress
  <2>5. CASE Goto(p, "verify_workspace") /\ UNCHANGED <<wstore, pstore>>
    BY <1>8, <2>5 DEF ReadProgress
  <2> QED
    BY <1>8, <2>2, <2>3, <2>4, <2>5 DEF ReadProgress
<1>9. CASE ProgressCompleted(p)
  <2>1. d \in intents /\ Gone(d)
    BY <1>9, SavedIsApplied DEF ProgressCompleted, StageOK, Reached, TaskOK, TaskOf, Carrying
  <2>2. CASE /\ State(task[p].seen, d.oldW, d.newW) = "old"
             /\ W!Save(p, task[p].seen, d.newW) /\ Goto(p, "complete_workspace")
    <3>1. task[p].seen = d.oldW
      BY <2>2 DEF State
    <3>2. /\ \A q \in Procs \ {p} : wsaves'[q] = wsaves[q]
          /\ wsaves'[p].expected = d.oldW /\ wsaves'[p].new = d.newW
          /\ UNCHANGED workspace
      BY <2>2, <3>1, SavesShape DEF W!Save
    <3> QED
      BY <1>9, <2>1, <2>2, <3>2 DEF ProgressCompleted
  <2>3. CASE Goto(p, "verify_workspace") /\ UNCHANGED wstore
    BY <1>9, <2>3 DEF ProgressCompleted
  <2> QED
    BY <1>9, <2>2, <2>3 DEF ProgressCompleted
<1>10. CASE WorkspaceCompleted(p)
  BY <1>10 DEF WorkspaceCompleted
<1>11. CASE VerifyWorkspace(p)
  BY <1>11 DEF VerifyWorkspace
<1>12. CASE VerifyProgress(p)
  BY <1>12 DEF VerifyProgress
<1>13. CASE RemoveJournal(p)
  BY <1>13 DEF RemoveJournal
<1>14. CASE OtherSaveEnds(p)
  BY <1>14 DEF OtherSaveEnds
<1>15. CASE Crash(p)
  BY <1>15 DEF Crash
<1> QED
  BY <1>1, <1>2, <1>3, <1>4, <1>5, <1>6, <1>7, <1>8, <1>9, <1>10, <1>11, <1>12, <1>13, <1>14,
     <1>15 DEF CarryStep, CompleteStep

\* Reviews that are gone stay gone: nobody adds a review that was purged.
LEMMA GoneStays ==
  ASSUME DeletionInv, NEW p \in Procs, ReviewsAdvance(p) \/ progress' = progress,
         NEW d \in intents, Gone(d)
  PROVE  Gone(d)'
<1>1. CASE progress' = progress
  BY <1>1 DEF Gone
<1>2. CASE ReviewsAdvance(p) /\ progress' # progress
  <2>1. Waiting(psaves[p]) /\ progress = psaves[p].expected /\ progress' = psaves[p].new
    BY <1>2 DEF ReviewsAdvance, Advanced
  <2>2. \A r \in progress' : r \in progress \/ r \in Added(psaves[p])
    BY <2>1 DEF Added, Reviews
  <2>3. \A r \in Added(psaves[p]) : r \notin d.oldP
    BY <2>1 DEF DeletionInv, ReviewsOK, Unseen
  <2> QED
    BY <2>2, <2>3 DEF Gone
<1> QED
  BY <1>1, <1>2

-----------------------------------------------------------------------------
(* Each part of the invariant is kept *)

\* The beginning of a deletion, up to its intent, and the other saves, as what they
\* change; everything else in those steps is unchanged.
LEMMA BeginDeletes ==
  ASSUME TaskOK, NEW p \in Procs, BeginDelete(p)
  PROVE  /\ \A q \in Procs \ {p} : task'[q] = task[q]
         /\ task'[p].at = "load_workspace" /\ task'[p].op = ops + 1 /\ ops' = ops + 1
         /\ UNCHANGED <<wstore, pstore, journal, faults, intents, unlinked>>
  BY DEF BeginDelete, TaskOK, TaskOf, NoTask

\* The workspace is read.
LEMMA WorkspaceLoads ==
  ASSUME TaskOK, NEW p \in Procs, LoadWorkspace(p)
  PROVE  /\ \A q \in Procs \ {p} : task'[q] = task[q]
         /\ task[p].at = "load_workspace" /\ task'[p].at = "load_progress"
         /\ task'[p].op = task[p].op /\ task'[p].seen = workspace
         /\ UNCHANGED <<wstore, pstore, journal, ops, faults, intents, unlinked>>
  BY DEF LoadWorkspace, Is, TaskOK, TaskOf, Task

\* The reviews are read: a save of the workspace alone, an intent, or a refusal.
LEMMA ProgressLoads ==
  ASSUME TaskOK, StoresInv, NEW p \in Procs, LoadProgress(p)
  PROVE  /\ \A q \in Procs \ {p} : task'[q] = task[q] /\ wsaves'[q] = wsaves[q]
         /\ task[p].at = "load_progress"
         /\ UNCHANGED <<workspace, pstore, journal, ops, faults, intents, unlinked>>
         /\ \/ /\ task'[p].at = "save_only_workspace"
               /\ wsaves'[p].expected = task[p].seen
               /\ wsaves'[p].new = Tombstoned(task[p].seen, task[p].student, task[p].op)
            \/ /\ progress # None /\ wsaves' = wsaves
               /\ task'[p].at = "publish" /\ task'[p].student = task[p].student
               /\ task'[p].op = task[p].op /\ task'[p].seen = task[p].seen
               /\ task'[p].intent = IntentOf(task[p], progress)
            \/ /\ wsaves' = wsaves /\ task'[p].at = "idle"
<1>1. CASE /\ W!Save(p, task[p].seen, Tombstoned(task[p].seen, task[p].student, task[p].op))
           /\ Goto(p, "save_only_workspace")
  <2>1. /\ \A q \in Procs \ {p} : wsaves'[q] = wsaves[q]
        /\ wsaves'[p].expected = task[p].seen
        /\ wsaves'[p].new = Tombstoned(task[p].seen, task[p].student, task[p].op)
        /\ UNCHANGED workspace
    BY <1>1, SavesShape DEF W!Save
  <2>2. (\A q \in Procs \ {p} : task'[q] = task[q]) /\ task'[p].at = "save_only_workspace"
    BY <1>1, TaskMoves DEF Stages
  <2> QED
    BY <2>1, <2>2 DEF LoadProgress, Is
<1>2. CASE /\ progress # None /\ UNCHANGED wstore
           /\ task' = [task EXCEPT ![p].at = "publish", ![p].intent = IntentOf(task[p], progress)]
  <2>1. /\ \A q \in Procs \ {p} : task'[q] = task[q]
        /\ task'[p] = [task[p] EXCEPT !.at = "publish", !.intent = IntentOf(task[p], progress)]
    BY <1>2 DEF TaskOK, TaskOf
  <2>2. task'[p] = [at |-> "publish", student |-> task[p].student, op |-> task[p].op,
                    seen |-> task[p].seen, intent |-> IntentOf(task[p], progress)]
    BY <2>1, TaskShape
  <2>3. /\ task'[p].at = "publish" /\ task'[p].student = task[p].student
        /\ task'[p].op = task[p].op /\ task'[p].seen = task[p].seen
        /\ task'[p].intent = IntentOf(task[p], progress)
    BY <2>2
  <2> QED
    BY <1>2, <2>1, <2>3 DEF LoadProgress, Is, wstore
<1>3. CASE Give_up(p) /\ UNCHANGED wstore
  BY <1>3, TaskMoves DEF LoadProgress, Is, wstore
<1> QED
  BY <1>1, <1>2, <1>3 DEF LoadProgress

\* The intent is published and its reviews are to be saved, or another is in the way.
LEMMA JournalPublishes ==
  ASSUME TaskOK, StoresInv, NEW p \in Procs, PublishJournal(p)
  PROVE  /\ \A q \in Procs \ {p} : task'[q] = task[q] /\ psaves'[q] = psaves[q]
         /\ task[p].at = "publish"
         /\ UNCHANGED <<wstore, progress, ops, faults>>
         /\ \/ /\ journal = None /\ journal' = task[p].intent
               /\ intents' = intents \cup {task[p].intent}
               /\ psaves'[p].at = "open" /\ psaves'[p].outcome = "none"
               /\ psaves'[p].expected = task[p].intent.oldP
               /\ psaves'[p].new = task[p].intent.newP
               /\ task'[p].at = "save_progress" /\ task'[p].intent = task[p].intent
            \/ /\ UNCHANGED <<journal, intents, pstore>> /\ task'[p].at = "idle"
<1>1. CASE journal = None
  <2>1. /\ \A q \in Procs \ {p} : psaves'[q] = psaves[q]
        /\ psaves'[p].at = "open" /\ psaves'[p].outcome = "none"
        /\ psaves'[p].expected = task[p].intent.oldP
        /\ psaves'[p].new = task[p].intent.newP
        /\ UNCHANGED progress
    <3>1. P!Save(p, task[p].intent.oldP, task[p].intent.newP)
      BY <1>1 DEF PublishJournal
    <3> QED
      BY <3>1, SavesShape DEF P!Save
  <2>2. /\ \A q \in Procs \ {p} : task'[q] = task[q]
        /\ task'[p] = [at |-> "save_progress", student |-> task[p].student,
                       op |-> task[p].op, seen |-> task[p].seen, intent |-> task[p].intent]
    <3>1. Goto(p, "save_progress")
      BY <1>1 DEF PublishJournal
    <3> QED
      BY <3>1, GotoMoves
  <2> QED
    BY <1>1, <2>1, <2>2 DEF PublishJournal, Is
<1>2. CASE journal # None
  BY <1>2, TaskMoves DEF PublishJournal, Is, pstore
<1> QED
  BY <1>1, <1>2

\* Another change of the workspace.
LEMMA OtherCommits ==
  ASSUME TaskOK, StoresInv, NEW p \in Procs, Commit(p)
  PROVE  /\ \A q \in Procs \ {p} : task'[q] = task[q] /\ wsaves'[q] = wsaves[q]
         /\ task[p].at = "idle" /\ task'[p].at = "other_save" /\ ops' = ops + 1
         /\ wsaves'[p].expected = workspace
         /\ wsaves'[p].new = [workspace EXCEPT !.ledger = @ \cup {ops + 1}]
         /\ UNCHANGED <<workspace, pstore, journal, faults, intents, unlinked>>
<1>1. /\ \A q \in Procs \ {p} : wsaves'[q] = wsaves[q]
      /\ wsaves'[p].expected = workspace
      /\ wsaves'[p].new = [workspace EXCEPT !.ledger = @ \cup {ops + 1}]
      /\ UNCHANGED workspace
  BY SavesShape DEF Commit, W!Save
<1>2. (\A q \in Procs \ {p} : task'[q] = task[q]) /\ task'[p].at = "other_save"
  BY TaskMoves DEF Stages, Commit
<1> QED
  BY <1>1, <1>2 DEF Commit, Is

\* Another change of the reviews: one new review.
LEMMA OtherAdds ==
  ASSUME TaskOK, StoresInv, NEW p \in Procs, AddReview(p)
  PROVE  /\ \A q \in Procs \ {p} : task'[q] = task[q] /\ psaves'[q] = psaves[q]
         /\ task[p].at = "idle" /\ task'[p].at = "other_save" /\ ops' = ops + 1
         /\ psaves'[p].expected = progress
         /\ \E s \in Students :
               psaves'[p].new = Reviews(progress) \cup {[id |-> ops + 1, student |-> s]}
         /\ UNCHANGED <<progress, wstore, journal, faults, intents, unlinked>>
<1>1. PICK s \in Students :
        P!Save(p, progress,
               (IF progress = None THEN {} ELSE progress) \cup {[id |-> ops + 1, student |-> s]})
  BY DEF AddReview
<1>2. /\ \A q \in Procs \ {p} : psaves'[q] = psaves[q]
      /\ psaves'[p].expected = progress
      /\ psaves'[p].new = Reviews(progress) \cup {[id |-> ops + 1, student |-> s]}
      /\ UNCHANGED progress
  BY <1>1, SavesShape DEF P!Save, Reviews
<1>3. (\A q \in Procs \ {p} : task'[q] = task[q]) /\ task'[p].at = "other_save"
  BY TaskMoves DEF Stages, AddReview
<1> QED
  BY <1>2, <1>3 DEF AddReview, Is

\* The count of the operations is a number.
LEMMA OpsAreNumbers ==
  ASSUME DeletionInv
  PROVE  ops \in Nat
<1>1. ops \in 0..MaxOps
  BY DEF DeletionInv, CountsOK
<1> QED
  BY <1>1, DeletionAssumption

\* An intent adds one student and one operation to the workspace, and only purges.
LEMMA IntentShape ==
  ASSUME NEW d, Formed(d)
  PROVE  /\ d.student \in Students /\ d.op \in Nat
         /\ d.oldW \in Workspace /\ d.newW \in Workspace
         /\ d.oldW.deleted \subseteq d.newW.deleted
         /\ d.oldW.ledger \subseteq d.newW.ledger
         /\ d.newW.ledger = d.oldW.ledger \cup {d.op}
         /\ d.oldP \subseteq Review /\ d.newP \subseteq Review
         /\ d.newP = {r \in d.oldP : r.student # d.student} /\ d.oldP # None
<1>1. /\ d.student \in Students /\ d.op \in Nat /\ d.oldW \in Workspace
      /\ d.newW \in Workspace /\ d.oldP \subseteq Review /\ d.newP \subseteq Review
  BY DEF Formed, Intent
<1>2. d.newW = [deleted |-> d.oldW.deleted \cup {d.student}, ledger |-> d.oldW.ledger \cup {d.op}]
  BY DEF Formed, Tombstoned
<1>3. d.newP = {r \in d.oldP : r.student # d.student} /\ d.oldP # None
  BY DEF Formed, Purged
<1> QED
  BY <1>1, <1>2, <1>3

\* The files and the waiting saves keep their type, and no save undoes an operation.
LEMMA ContentsStep ==
  ASSUME StoresInv, DeletionInv, NEW p \in Procs, Kind(p)
  PROVE  ContentsOK'
<1> USE DEF DeletionInv, ContentsOK, wstore, pstore
<1>1. CASE BeginDelete(p)
  BY <1>1, BeginDeletes DEF wstore, pstore, Is, BeginDelete, Purging
<1>2. CASE LoadWorkspace(p)
  BY <1>2, WorkspaceLoads DEF wstore, pstore, Purging
<1>3. CASE LoadProgress(p)
  <2>1. task[p].seen \in Workspace /\ task[p].student \in Students /\ task[p].op \in Nat
    BY <1>3, ProgressLoads DEF TaskOK, TaskOf, Task, Preparing
  <2>2. LET new == Tombstoned(task[p].seen, task[p].student, task[p].op) IN
          /\ new \in Workspace
          /\ task[p].seen.deleted \subseteq new.deleted
          /\ task[p].seen.ledger \subseteq new.ledger
    BY <2>1 DEF Tombstoned, Workspace
  <2> QED
    BY <1>3, <2>1, <2>2, ProgressLoads DEF pstore, Purging
<1>4. CASE PublishJournal(p)
  <2>1. Formed(task[p].intent)
    BY <1>4, JournalPublishes DEF TaskOK, TaskOf
  <2>2. task[p].intent.newP \subseteq Review
    BY <2>1 DEF Formed, Intent
  <2>3. task[p].at \notin Purging
    BY <1>4, JournalPublishes DEF Purging
  <2>4. CASE task'[p].at = "save_progress"
    <3>1. task'[p].at \in Purging
      BY <2>4 DEF Purging
    <3> QED
      BY <1>4, <2>2, <2>4, <3>1, JournalPublishes DEF wstore, pstore, Purging, Waiting
  <2>5. CASE UNCHANGED pstore /\ task'[p].at = "idle"
    BY <1>4, <2>3, <2>5, JournalPublishes DEF wstore, pstore, Purging
  <2> QED
    BY <1>4, <2>4, <2>5, JournalPublishes
<1>5. CASE Commit(p)
  <2>1. ops \in Nat
    BY OpsAreNumbers
  <2>2. LET new == [workspace EXCEPT !.ledger = @ \cup {ops + 1}] IN
          /\ new \in Workspace /\ workspace.deleted \subseteq new.deleted
          /\ workspace.ledger \subseteq new.ledger
    BY <2>1 DEF Workspace
  <2> QED
    BY <1>5, <2>2, OtherCommits DEF pstore, Purging
<1>6. CASE AddReview(p)
  <2>1. ops \in Nat
    BY OpsAreNumbers
  <2>2. Reviews(progress) \subseteq Review
    BY DEF Reviews
  <2>3. \A s \in Students : [id |-> ops + 1, student |-> s] \in Review
    BY <2>1 DEF Review
  <2>4. psaves'[p].new \subseteq Review /\ Reviews(psaves'[p].expected) \subseteq psaves'[p].new
    <3>1. PICK s \in Students :
            psaves'[p].new = Reviews(progress) \cup {[id |-> ops + 1, student |-> s]}
      BY <1>6, OtherAdds
    <3>2. psaves'[p].expected = progress
      BY <1>6, OtherAdds
    <3>3. Reviews(psaves'[p].expected) = Reviews(progress)
      BY <3>2 DEF Reviews
    <3> QED
      BY <2>2, <2>3, <3>1, <3>3
  <2> QED
    BY <1>6, <2>4, OtherAdds DEF wstore, Purging
<1>7. CASE WorkspaceAdvances(p)
  BY <1>7 DEF WorkspaceAdvances, Advanced, pstore
<1>8. CASE ReviewsAdvance(p)
  BY <1>8 DEF ReviewsAdvance, Advanced, wstore, Purging
<1>9. CASE CarryStep(p)
  <2>1. CarriesOn(p)
    BY <1>9, CarryCarriesOn
  <2>2. \A d \in intents : /\ d.oldW \in Workspace /\ d.newW \in Workspace
                          /\ d.oldW.deleted \subseteq d.newW.deleted
                          /\ d.oldW.ledger \subseteq d.newW.ledger
                          /\ d.newP \subseteq Review
    BY IntentShape DEF TaskOK, TaskOf
  <2> QED
    BY <2>1, <2>2 DEF CarriesOn
<1> QED
  BY <1>1, <1>2, <1>3, <1>4, <1>5, <1>6, <1>7, <1>8, <1>9 DEF Kind

\* An operation nobody knew is still unknown, but for the one the step makes known.
LEMMA OpsStep ==
  ASSUME StoresInv, DeletionInv, NEW p \in Procs, Kind(p)
  PROVE  OpsOK'
<1>0. ops \in Nat /\ \A q \in Procs : task[q].op \in Nat
  BY OpsAreNumbers DEF DeletionInv, TaskOK, TaskOf, Task
<1> USE <1>0 DEF DeletionInv, Preparing, wstore, pstore
<1>1. CASE BeginDelete(p)
  <2>1. ASSUME NEW n \in Nat, Unused(n) PROVE Unused(n)'
    BY <1>1, <2>1, BeginDeletes DEF Unused, wstore
  <2>2. ASSUME NEW n \in Nat, n > ops PROVE Unused(n)'
    BY <2>1, <2>2 DEF OpsOK
  <2>3. /\ \A q \in Procs \ {p} : task'[q] = task[q]
        /\ task'[p].op = ops + 1 /\ ops' = ops + 1
    BY <1>1, BeginDeletes
  <2> QED
    BY <2>1, <2>2, <2>3 DEF OpsOK
<1>2. CASE LoadWorkspace(p)
  <2>1. ASSUME NEW n \in Nat, Unused(n) PROVE Unused(n)'
    BY <1>2, <2>1, WorkspaceLoads DEF Unused, wstore
  <2>2. /\ \A q \in Procs \ {p} : task'[q] = task[q]
        /\ task[p].at \in Preparing /\ task'[p].op = task[p].op /\ ops' = ops
    BY <1>2, WorkspaceLoads
  <2> QED
    BY <2>1, <2>2 DEF OpsOK
<1>3. CASE LoadProgress(p)
  <2>1. task[p].seen \in Workspace
    BY <1>3, ProgressLoads DEF TaskOK, TaskOf
  <2>2. /\ \A q \in Procs \ {p} : task'[q] = task[q]
        /\ task[p].at = "load_progress" /\ ops' = ops
        /\ task'[p].at \in Preparing => /\ task'[p].at = "publish" /\ wsaves' = wsaves
                                        /\ task'[p].op = task[p].op /\ task'[p].seen = task[p].seen
    BY <1>3, ProgressLoads
  <2>3. Tombstoned(task[p].seen, task[p].student, task[p].op).ledger
          = task[p].seen.ledger \cup {task[p].op}
    BY DEF Tombstoned
  <2>4. ASSUME NEW n \in Nat, Unused(n), n # task[p].op \/ task'[p].at \in Preparing
        PROVE  Unused(n)'
    <3>1. n \notin task[p].seen.ledger
      BY <2>2, <2>4 DEF Unused
    <3>2. Waiting(wsaves'[p]) => n \notin wsaves'[p].new.ledger
      BY <1>3, <2>2, <2>3, <2>4, <3>1, ProgressLoads DEF Unused
    <3>3. \A q \in Procs \ {p} : wsaves'[q] = wsaves[q]
      BY <1>3, ProgressLoads
    <3>4. UNCHANGED <<workspace, intents>>
      BY <1>3, ProgressLoads
    <3> QED
      BY <2>2, <2>4, <3>1, <3>2, <3>3, <3>4 DEF Unused
  <2> QED
    BY <2>2, <2>4 DEF OpsOK
<1>4. CASE PublishJournal(p)
  <2>1. /\ Formed(task[p].intent) /\ task[p].at = "publish"
        /\ task[p].intent.op = task[p].op /\ task[p].intent.oldW = task[p].seen
    BY <1>4, JournalPublishes DEF TaskOK, TaskOf
  <2>2. task[p].intent.newW.ledger = task[p].seen.ledger \cup {task[p].op}
    BY <2>1, IntentShape
  <2>3. /\ \A q \in Procs \ {p} : task'[q] = task[q]
        /\ task'[p].at \notin Preparing
        /\ ops' = ops /\ UNCHANGED wstore
        /\ intents' = intents \/ intents' = intents \cup {task[p].intent}
    BY <1>4, JournalPublishes DEF TaskOK, TaskOf, Task
  <2>4. ASSUME NEW n \in Nat, Unused(n), n # task[p].op PROVE Unused(n)'
    BY <2>1, <2>2, <2>3, <2>4 DEF Unused, wstore
  <2> QED
    BY <2>1, <2>3, <2>4 DEF OpsOK
<1>5. CASE Commit(p)
  <2>1. wsaves'[p].new.ledger = workspace.ledger \cup {ops + 1}
    <3>1. wsaves'[p].new = [workspace EXCEPT !.ledger = @ \cup {ops + 1}]
      BY <1>5, OtherCommits
    <3>2. workspace \in Workspace
      BY DEF ContentsOK
    <3> QED
      BY <3>1, <3>2 DEF Workspace
  <2>2. ASSUME NEW n \in Nat, Unused(n), n # ops + 1 PROVE Unused(n)'
    <3>1. /\ \A q \in Procs \ {p} : task'[q] = task[q] /\ wsaves'[q] = wsaves[q]
          /\ task'[p].at = "other_save" /\ UNCHANGED <<workspace, intents>>
      BY <1>5, OtherCommits
    <3>2. n \notin wsaves'[p].new.ledger
      BY <2>1, <2>2 DEF Unused
    <3> QED
      BY <2>2, <3>1, <3>2 DEF Unused
  <2>3. /\ \A q \in Procs \ {p} : task'[q] = task[q]
        /\ task'[p].at = "other_save" /\ ops' = ops + 1
    BY <1>5, OtherCommits
  <2> QED
    BY <2>2, <2>3 DEF OpsOK
<1>6. CASE AddReview(p)
  <2>1. ASSUME NEW n \in Nat, Unused(n) PROVE Unused(n)'
    BY <1>6, <2>1, OtherAdds DEF Unused, wstore
  <2>2. /\ \A q \in Procs \ {p} : task'[q] = task[q]
        /\ task'[p].at = "other_save" /\ ops' = ops + 1
    BY <1>6, OtherAdds
  <2> QED
    BY <2>1, <2>2 DEF OpsOK
<1>7. CASE WorkspaceAdvances(p)
  <2>1. ASSUME NEW n \in Nat, Unused(n) PROVE Unused(n)'
    BY <1>7, <2>1 DEF WorkspaceAdvances, Advanced, Unused
  <2> QED
    BY <1>7, <2>1 DEF WorkspaceAdvances, OpsOK
<1>8. CASE ReviewsAdvance(p)
  <2>1. ASSUME NEW n \in Nat, Unused(n) PROVE Unused(n)'
    BY <1>8, <2>1 DEF ReviewsAdvance, Unused, wstore
  <2> QED
    BY <1>8, <2>1 DEF ReviewsAdvance, OpsOK
<1>9. CASE CarryStep(p)
  <2>1. CarriesOn(p)
    BY <1>9, CarryCarriesOn
  <2>2. ASSUME NEW n \in Nat, Unused(n) PROVE Unused(n)'
    BY <2>1, <2>2 DEF CarriesOn, Unused
  <2> QED
    <3>1. /\ \A q \in Procs \ {p} : task'[q] = task[q]
          /\ task'[p].at \notin Preparing /\ ops' = ops
      BY <2>1 DEF CarriesOn
    <3> QED
      BY <2>2, <3>1 DEF OpsOK
<1> QED
  BY <1>1, <1>2, <1>3, <1>4, <1>5, <1>6, <1>7, <1>8, <1>9 DEF Kind

\* A step that touches no review, and brings no intent, adds and knows none.
LEMMA SameReviews ==
  ASSUME DeletionInv, NEW p \in Procs,
         \A q \in Procs \ {p} : task'[q] = task[q],
         task'[p].at # "publish", UNCHANGED <<pstore, intents>>, ops' \in Nat, ops' >= ops
  PROVE  ReviewsOK'
<1>1. ASSUME NEW r, Unseen(r) PROVE Unseen(r)'
  BY <1>1 DEF Unseen, Reviews, pstore
<1>2. \A q \in Procs : psaves'[q] = psaves[q] /\ Added(psaves[q])' = Added(psaves[q])
  BY DEF pstore, Added, Reviews
<1>3. \A r \in Review : r.id \in Nat
  BY DEF Review
<1>4. ops \in Nat
  BY OpsAreNumbers
<1> QED
  BY <1>1, <1>2, <1>3, <1>4 DEF DeletionInv, ReviewsOK

\* A review that nobody knew is still unknown, but for the one the step adds.
LEMMA ReviewsStep ==
  ASSUME StoresInv, DeletionInv, NEW p \in Procs, Kind(p)
  PROVE  ReviewsOK'
<1>0. ops \in Nat
  BY OpsAreNumbers
<1>a. \A r \in Review : r.id \in Nat
  BY DEF Review
<1>b. \A q \in Procs : Waiting(psaves[q]) => Added(psaves[q]) \subseteq Review
  BY DEF DeletionInv, ContentsOK, Added
<1> USE <1>0, <1>a, <1>b DEF DeletionInv, wstore, pstore
<1>1. CASE BeginDelete(p)
  <2>1. /\ \A q \in Procs \ {p} : task'[q] = task[q]
        /\ task'[p].at # "publish" /\ UNCHANGED <<pstore, intents>> /\ ops' >= ops
    BY <1>1, BeginDeletes
  <2>2. ops' \in Nat
    BY <1>1, BeginDeletes
  <2> QED
    BY <2>1, <2>2, SameReviews
<1>2. CASE LoadWorkspace(p)
  <2>1. /\ \A q \in Procs \ {p} : task'[q] = task[q]
        /\ task'[p].at # "publish" /\ UNCHANGED <<pstore, intents>> /\ ops' >= ops
    BY <1>2, WorkspaceLoads
  <2>2. ops' \in Nat
    BY <1>2, WorkspaceLoads
  <2> QED
    BY <2>1, <2>2, SameReviews
<1>3. CASE LoadProgress(p)
  <2>1. /\ \A q \in Procs \ {p} : task'[q] = task[q]
        /\ UNCHANGED <<pstore, ops, intents, unlinked>>
        /\ task'[p].at = "publish" => task'[p].intent.oldP \subseteq Reviews(progress)
    <3>1. /\ \A q \in Procs \ {p} : task'[q] = task[q]
          /\ UNCHANGED <<pstore, ops, intents, unlinked>>
          /\ task'[p].at = "publish" =>
                progress # None /\ task'[p].intent = IntentOf(task[p], progress)
      BY <1>3, ProgressLoads
    <3>2. IntentOf(task[p], progress).oldP = progress
      BY DEF IntentOf
    <3> QED
      BY <3>1, <3>2 DEF Reviews
  <2>2. ASSUME NEW r, Unseen(r) PROVE Unseen(r)'
    BY <2>1, <2>2 DEF Unseen, Reviews, pstore
  <2> QED
    BY <2>1, <2>2 DEF ReviewsOK, Added, Reviews, pstore
<1>4. CASE PublishJournal(p)
  <2>1. task[p].intent.newP \subseteq task[p].intent.oldP /\ task[p].intent.oldP # None
    <3>1. Formed(task[p].intent)
      BY <1>4, JournalPublishes DEF TaskOK, TaskOf
    <3> QED
      BY <3>1, IntentShape
  <2>2. CASE task'[p].at = "save_progress"
    <3>1. /\ \A q \in Procs \ {p} : task'[q] = task[q] /\ psaves'[q] = psaves[q]
          /\ task[p].at = "publish" /\ UNCHANGED <<progress, ops>>
          /\ intents' = intents \cup {task[p].intent}
          /\ psaves'[p].expected = task[p].intent.oldP /\ psaves'[p].new = task[p].intent.newP
      BY <1>4, <2>2, JournalPublishes
    <3>2. ASSUME NEW r, Unseen(r) PROVE Unseen(r)'
      BY <2>2, <3>1, <3>2 DEF Unseen, Reviews
    <3>3. Added(psaves[p])' = {}
      BY <2>1, <3>1 DEF Added, Reviews
    <3>4. \A q \in Procs \ {p} : psaves'[q] = psaves[q] /\ Added(psaves[q])' = Added(psaves[q])
      BY <3>1 DEF Added, Reviews
    <3>5. ops' = ops
      BY <3>1
    <3> QED
      BY <3>2, <3>3, <3>4, <3>5 DEF ReviewsOK
  <2>3. CASE task'[p].at = "idle"
    <3>1. /\ \A q \in Procs \ {p} : task'[q] = task[q]
          /\ task'[p].at # "publish" /\ UNCHANGED <<pstore, intents>> /\ ops' = ops
      BY <1>4, <2>3, JournalPublishes
    <3> QED
      BY <3>1, SameReviews
  <2> QED
    BY <1>4, <2>2, <2>3, JournalPublishes
<1>5. CASE Commit(p)
  <2>1. /\ \A q \in Procs \ {p} : task'[q] = task[q]
        /\ task'[p].at # "publish" /\ UNCHANGED <<pstore, intents>> /\ ops' >= ops
    BY <1>5, OtherCommits
  <2>2. ops' \in Nat
    BY <1>5, OtherCommits
  <2> QED
    BY <2>1, <2>2, SameReviews
<1>6. CASE AddReview(p)
  <2>1. PICK s \in Students :
          psaves'[p].new = Reviews(progress) \cup {[id |-> ops + 1, student |-> s]}
    BY <1>6, OtherAdds
  <2>2. DEFINE new == [id |-> ops + 1, student |-> s]
  <2>3. new \in Review /\ new.id = ops + 1
    BY DEF Review
  <2>4. Added(psaves[p])' \subseteq {new}
    BY <1>6, <2>1, OtherAdds DEF Added, Reviews
  <2>5. ASSUME NEW r, Unseen(r) PROVE Unseen(r)'
    BY <1>6, <2>5, OtherAdds DEF Unseen, Reviews
  <2>6. /\ Unseen(new)
        /\ \A q \in Procs : Waiting(psaves[q]) => new \notin Added(psaves[q])
    BY <2>3 DEF ReviewsOK
  <2>7. \A q \in Procs \ {p} : psaves'[q] = psaves[q] /\ Added(psaves[q])' = Added(psaves[q])
    BY <1>6, OtherAdds DEF Added, Reviews
  <2>8. ops' = ops + 1
    BY <1>6, OtherAdds
  <2> HIDE DEF new
  <2> QED
    BY <2>3, <2>4, <2>5, <2>6, <2>7, <2>8 DEF ReviewsOK
<1>7. CASE WorkspaceAdvances(p)
  BY <1>7 DEF WorkspaceAdvances, ReviewsOK, Unseen, Added, Reviews, pstore
<1>8. CASE ReviewsAdvance(p)
  <2>1. \A q \in Procs : Added(psaves[q])' = Added(psaves[q])
    BY <1>8 DEF ReviewsAdvance, Advanced, Added, Reviews
  <2>2. \A q \in Procs : Waiting(psaves'[q]) => Waiting(psaves[q])
    BY <1>8 DEF ReviewsAdvance, Advanced
  <2>3. ASSUME NEW r, Unseen(r), Waiting(psaves[p]) /\ progress' # progress => r \notin Added(psaves[p])
        PROVE  Unseen(r)'
    BY <1>8, <2>3 DEF ReviewsAdvance, Advanced, Unseen, Added, Reviews
  <2>4. progress' # progress => ~ Waiting(psaves'[p])
    BY <1>8 DEF ReviewsAdvance, Advanced
  <2>5. UNCHANGED ops
    BY <1>8 DEF ReviewsAdvance
  <2> QED
    BY <2>1, <2>2, <2>3, <2>4, <2>5 DEF ReviewsOK
<1>9. CASE CarryStep(p)
  <2>1. CarriesOn(p)
    BY <1>9, CarryCarriesOn
  <2>2. \A d \in intents : d.newP \subseteq d.oldP /\ d.oldP # None
    BY IntentShape DEF TaskOK, TaskOf
  <2>3. ASSUME NEW r, Unseen(r) PROVE Unseen(r)'
    BY <2>1, <2>3 DEF CarriesOn, Unseen, Reviews, Preparing
  <2>4. \A q \in Procs : Waiting(psaves'[q]) =>
          \/ Waiting(psaves[q]) /\ Added(psaves[q])' = Added(psaves[q])
          \/ Added(psaves[q])' = {}
    <3>1. \A q \in Procs \ {p} : psaves'[q] = psaves[q] /\ Added(psaves[q])' = Added(psaves[q])
      BY <2>1 DEF CarriesOn, Added, Reviews
    <3>2. CASE psaves'[p] = psaves[p]
      BY <3>1, <3>2 DEF Added, Reviews
    <3>3. CASE /\ task[p].intent \in intents
               /\ psaves'[p].expected = task[p].intent.oldP /\ psaves'[p].new = task[p].intent.newP
      <4>1. task[p].intent.newP \subseteq task[p].intent.oldP /\ task[p].intent.oldP # None
        BY <2>2, <3>3
      <4>2. Added(psaves[p])' = {}
        BY <3>3, <4>1 DEF Added, Reviews
      <4> QED
        BY <3>1, <4>2
    <3> QED
      BY <2>1, <3>1, <3>2, <3>3 DEF CarriesOn
  <2>5. ops' = ops
    BY <2>1 DEF CarriesOn
  <2> QED
    BY <2>3, <2>4, <2>5 DEF ReviewsOK
<1> QED
  BY <1>1, <1>2, <1>3, <1>4, <1>5, <1>6, <1>7, <1>8, <1>9 DEF Kind

\* What every step leaves: purged reviews stay away, and the workspace only grows.
LEMMA NothingComesBack ==
  ASSUME StoresInv, DeletionInv, NEW p \in Procs, Kind(p)
  PROVE  /\ \A d \in intents : Gone(d) => Gone(d)'
         /\ workspace.ledger \subseteq workspace'.ledger
         /\ workspace.deleted \subseteq workspace'.deleted
<1>1. ReviewsAdvance(p) \/ progress' = progress
  <2>1. CASE CarryStep(p)
    BY <2>1, CarryCarriesOn DEF CarriesOn
  <2>2. CASE ~ CarryStep(p)
    BY <2>2, BeginDeletes, WorkspaceLoads, ProgressLoads, JournalPublishes, OtherCommits, OtherAdds
       DEF Kind, DeletionInv, WorkspaceAdvances, wstore, pstore
  <2> QED
    BY <2>1, <2>2
<1>2. \A d \in intents : Gone(d) => Gone(d)'
  BY <1>1, GoneStays
<1>3. WorkspaceAdvances(p) \/ workspace' = workspace
  <2>1. CASE CarryStep(p)
    BY <2>1, CarryCarriesOn DEF CarriesOn
  <2>2. CASE ~ CarryStep(p)
    BY <2>2, BeginDeletes, WorkspaceLoads, ProgressLoads, JournalPublishes, OtherCommits, OtherAdds
       DEF Kind, DeletionInv, ReviewsAdvance, wstore, pstore
  <2> QED
    BY <2>1, <2>2
<1>4. CASE WorkspaceAdvances(p) /\ workspace' # workspace
  <2>1. Waiting(wsaves[p]) /\ workspace = wsaves[p].expected /\ workspace' = wsaves[p].new
    BY <1>4 DEF WorkspaceAdvances, Advanced
  <2> QED
    BY <1>2, <2>1 DEF DeletionInv, ContentsOK
<1> QED
  BY <1>2, <1>3, <1>4

\* The tombstone is asked for after the purge only, so it is there after it only.
LEMMA OrderStep ==
  ASSUME StoresInv, DeletionInv, NEW p \in Procs, Kind(p)
  PROVE  OrderOK'
<1>0. \A d \in intents : Gone(d) => Gone(d)'
  BY NothingComesBack
<1> USE <1>0 DEF DeletionInv, Preparing, wstore, pstore
<1> DEFINE Asked == \A q \in Procs \ {p} : wsaves'[q] = wsaves[q]
<1>1. CASE UNCHANGED <<wstore, intents>>
  BY <1>1 DEF OrderOK
<1>2. CASE LoadProgress(p)
  <2>1. /\ Asked /\ UNCHANGED <<workspace, intents>>
        /\ \/ wsaves' = wsaves
           \/ /\ wsaves'[p].expected = task[p].seen
              /\ wsaves'[p].new = Tombstoned(task[p].seen, task[p].student, task[p].op)
    BY <1>2, ProgressLoads
  <2>2. Tombstoned(task[p].seen, task[p].student, task[p].op).ledger
          = task[p].seen.ledger \cup {task[p].op}
    BY DEF Tombstoned
  <2>3. \A d \in intents : d.op # task[p].op
    <3>1. task[p].op \in Nat /\ task[p].at \in Preparing
      BY <1>2, ProgressLoads DEF TaskOK, TaskOf, Task
    <3> QED
      BY <3>1 DEF OpsOK, Unused
  <2> QED
    BY <2>1, <2>2, <2>3 DEF OrderOK
<1>3. CASE PublishJournal(p)
  <2>1. /\ task[p].at = "publish" /\ task[p].intent.op = task[p].op /\ task[p].op \in Nat
        /\ UNCHANGED wstore
        /\ intents' = intents \/ intents' = intents \cup {task[p].intent}
    BY <1>3, JournalPublishes DEF TaskOK, TaskOf, Task
  <2>2. /\ task[p].intent.op \notin workspace.ledger
        /\ \A q \in Procs : Waiting(wsaves[q]) => task[p].intent.op \notin wsaves[q].new.ledger
        /\ \A d \in intents : d.op # task[p].intent.op
    BY <2>1 DEF OpsOK, Unused
  <2> QED
    BY <2>1, <2>2 DEF OrderOK
<1>4. CASE Commit(p)
  <2>1. /\ Asked /\ UNCHANGED <<workspace, intents>>
        /\ wsaves'[p].expected = workspace
        /\ wsaves'[p].new = [workspace EXCEPT !.ledger = @ \cup {ops + 1}]
    BY <1>4, OtherCommits
  <2>2. workspace \in Workspace
    BY DEF ContentsOK
  <2>3. wsaves'[p].new.ledger = workspace.ledger \cup {ops + 1}
    BY <2>1, <2>2 DEF Workspace
  <2>4. PICK n \in Nat : n = ops + 1
    BY OpsAreNumbers
  <2>5. n > ops
    BY <2>4, OpsAreNumbers
  <2>6. \A d \in intents : d.op # ops + 1
    BY <2>4, <2>5 DEF OpsOK, Unused
  <2> QED
    BY <2>1, <2>3, <2>6 DEF OrderOK
<1>5. CASE WorkspaceAdvances(p)
  BY <1>5 DEF WorkspaceAdvances, Advanced, OrderOK
<1>6. CASE CarryStep(p)
  <2>1. CarriesOn(p)
    BY <1>6, CarryCarriesOn
  <2>2. /\ Asked /\ UNCHANGED <<workspace, intents>>
        /\ Waiting(wsaves'[p]) =>
             \/ wsaves'[p] = wsaves[p]
             \/ /\ task[p].intent \in intents /\ Gone(task[p].intent)
                /\ wsaves'[p].expected = task[p].intent.oldW
                /\ wsaves'[p].new = task[p].intent.newW
    BY <2>1 DEF CarriesOn
  <2>3. \A d \in intents : d.newW.ledger = d.oldW.ledger \cup {d.op}
    BY IntentShape DEF TaskOK, TaskOf
  <2>4. \A d, e \in intents : d.op = e.op => d = e
    BY DEF OrderOK
  <2> QED
    BY <2>2, <2>3, <2>4 DEF OrderOK
<1>7. BeginDelete(p) \/ LoadWorkspace(p) \/ AddReview(p) \/ ReviewsAdvance(p)
        => UNCHANGED <<wstore, intents>>
  BY BeginDeletes, WorkspaceLoads, OtherAdds DEF ReviewsAdvance
<1> QED
  BY <1>1, <1>2, <1>3, <1>4, <1>5, <1>6, <1>7 DEF Kind

\* Where a step of CarryStep leaves its process, and what the stores hold there.
ComesTo(p) ==
    /\ task' = [q \in Procs |-> task'[q]] /\ task'[p] \in Task
    /\ \/ journal' = journal
       \/ task[p].at = "remove_journal" /\ journal' = None /\ task'[p].at = "idle"
    /\ task'[p].at \in Carrying =>
          \/ task'[p].intent = journal
          \/ task[p].at \in Carrying /\ task'[p].intent = task[p].intent
    /\ task'[p].at \notin {"idle", "other_save"} => p \in Coordinators
    /\ task'[p].at \in Carrying => task'[p].intent \in intents
    /\ task'[p].at \in Purging =>
          /\ psaves'[p].expected = task'[p].intent.oldP /\ psaves'[p].new = task'[p].intent.newP
          /\ psaves'[p].at = "open"
    /\ task'[p].at \in {"save_workspace", "complete_workspace"} => Gone(task'[p].intent)
    /\ task'[p].at \in {"verify_progress", "remove_journal"} =>
          task'[p].intent.op \in workspace.ledger

\* Doing nothing is a task.
LEMMA NoTaskIsOne == NoTask \in Task
  BY DEF NoTask, Task, Stages

\* A process that gives up carries nothing.
LEMMA GivesUp ==
  ASSUME TaskOK, NEW p \in Procs, Give_up(p),
         journal' = journal \/ (task[p].at = "remove_journal" /\ journal' = None)
  PROVE  ComesTo(p)
  BY NoTaskIsOne, GivingUp DEF ComesTo, Carrying, Purging

\* A process that moves on keeps its intent.
LEMMA MovesOn ==
  ASSUME TaskOK, NEW p \in Procs, NEW stage \in Stages, Goto(p, stage)
  PROVE  /\ task' = [q \in Procs |-> task'[q]] /\ task'[p] \in Task
         /\ task'[p].at = stage /\ task'[p].intent = task[p].intent
<1>1. /\ task' = [q \in Procs |-> task'[q]]
      /\ task'[p] = [at |-> stage, student |-> task[p].student, op |-> task[p].op,
                     seen |-> task[p].seen, intent |-> task[p].intent]
  BY GotoMoves
<1>2. task[p] \in Task
  BY DEF TaskOK, TaskOf
<1> QED
  BY <1>1, <1>2 DEF Task

\* Every step of CarryStep comes to such a place.
LEMMA CarryComesTo ==
  ASSUME StoresInv, DeletionInv, NEW p \in Procs, CarryStep(p)
  PROVE  ComesTo(p)
<1> DEFINE d == task[p].intent
<1>a. task[p].at \in Carrying => p \in Coordinators /\ d \in intents
  BY DEF DeletionInv, TaskOK, TaskOf, Carrying
<1>b. /\ task[p].at \in Purging /\ Applied(psaves[p]) => Gone(d)
      /\ task[p].at = "verify_progress" => d.op \in workspace.ledger
  BY DEF DeletionInv, StageOK, Reached
<1>c. TaskOK
  BY DEF DeletionInv
<1> USE <1>c DEF Carrying, Purging, Is, Stages
<1>1. CASE ProgressSaved(p)
  <2>1. Gone(d)
    BY <1>1, <1>b, SavedIsApplied DEF ProgressSaved
  <2>2. task[p].at = "save_progress" /\ Goto(p, "save_workspace") /\ journal' = journal
    BY <1>1 DEF ProgressSaved
  <2> QED
    BY <2>1, <2>2, <1>a, MovesOn DEF ComesTo
<1>2. CASE WorkspaceSaved(p)
  <2>1. task[p].at = "save_workspace" /\ Goto(p, "read_journal") /\ journal' = journal
    BY <1>2 DEF WorkspaceSaved
  <2> QED
    BY <2>1, <1>a, MovesOn DEF ComesTo
<1>3. CASE SaveRefused(p) \/ OnlyWorkspaceSaved(p) \/ RemoveJournal(p) \/ OtherSaveEnds(p) \/ Crash(p)
  <2>1. /\ Give_up(p)
        /\ journal' = journal \/ (task[p].at = "remove_journal" /\ journal' = None)
    BY <1>3 DEF SaveRefused, OnlyWorkspaceSaved, RemoveJournal, OtherSaveEnds, Crash
  <2> QED
    BY <2>1, GivesUp
<1>4. CASE BeginRecover(p) /\ p \in Coordinators
  <2>1. Goto(p, "read_journal") /\ journal' = journal
    BY <1>4 DEF BeginRecover
  <2> QED
    BY <2>1, <1>4, MovesOn DEF ComesTo
<1>5. CASE ReadJournal(p)
  <2>1. CASE Give_up(p)
    BY <1>5, <2>1, GivesUp DEF ReadJournal
  <2>2. CASE /\ journal # None
             /\ task' = [task EXCEPT ![p] = [NoTask EXCEPT !.at = "read_workspace", !.intent = journal]]
    <3>1. journal \in intents /\ journal \in Intent
      BY <2>2 DEF TaskOK, Formed
    <3>2. /\ task' = [q \in Procs |-> task'[q]]
          /\ task'[p] = [NoTask EXCEPT !.at = "read_workspace", !.intent = journal]
      BY <2>2 DEF TaskOK
    <3>3. NoTask \in Task
      BY DEF NoTask, Task
    <3>4. task'[p] \in Task /\ task'[p].at = "read_workspace" /\ task'[p].intent = journal
      BY <3>1, <3>2, <3>3 DEF Task
    <3>5. p \in Coordinators /\ journal' = journal
      BY <1>5 DEF ReadJournal, TaskOK, TaskOf
    <3> QED
      BY <3>1, <3>2, <3>4, <3>5 DEF ComesTo
  <2> QED
    BY <1>5, <2>1, <2>2 DEF ReadJournal
<1>6. CASE ReadWorkspace(p)
  <2>1. /\ task' = [q \in Procs |-> task'[q]]
        /\ task'[p] = [at |-> "read_progress", student |-> task[p].student, op |-> task[p].op,
                       seen |-> workspace, intent |-> task[p].intent]
    <3>1. /\ task' = [q \in Procs |-> task'[q]]
          /\ task'[p] = [task[p] EXCEPT !.at = "read_progress", !.seen = workspace]
      BY <1>6 DEF ReadWorkspace, TaskOK
    <3> QED
      BY <3>1, TaskShape
  <2>2. task[p] \in Task /\ workspace \in Workspace
    BY DEF DeletionInv, TaskOK, TaskOf, ContentsOK
  <2>3. task'[p] \in Task /\ task'[p].at = "read_progress" /\ task'[p].intent = d
    BY <2>1, <2>2 DEF Task
  <2>4. task[p].at = "read_workspace" /\ journal' = journal
    BY <1>6 DEF ReadWorkspace
  <2> QED
    BY <2>1, <2>3, <2>4, <1>a DEF ComesTo
<1>7. CASE ReadProgress(p)
  <2>0. task[p].at = "read_progress" /\ journal' = journal
    BY <1>7 DEF ReadProgress
  <2>1. CASE Give_up(p)
    BY <2>0, <2>1, GivesUp
  <2>2. CASE ProgressState(d) = "old" /\ P!Save(p, progress, d.newP) /\ Goto(p, "complete_progress")
    <3>1. progress = d.oldP
      BY <2>2 DEF ProgressState, State
    <3>2. psaves'[p].expected = d.oldP /\ psaves'[p].new = d.newP /\ psaves'[p].at = "open"
      BY <2>2, <3>1, SavesShape DEF P!Save
    <3> QED
      BY <2>0, <2>2, <3>2, <1>a, MovesOn DEF ComesTo
  <2>3. CASE ProgressState(d) = "new" /\ Goto(p, "complete_workspace")
    <3>1. Gone(d)
      BY <2>3 DEF ProgressState, State, Gone
    <3> QED
      BY <2>0, <2>3, <3>1, <1>a, MovesOn DEF ComesTo
  <2>4. CASE Goto(p, "verify_workspace")
    BY <2>0, <2>4, <1>a, MovesOn DEF ComesTo
  <2> QED
    BY <1>7, <2>1, <2>2, <2>3, <2>4 DEF ReadProgress
<1>8. CASE ProgressCompleted(p)
  <2>1. Gone(d)
    BY <1>8, <1>b, SavedIsApplied DEF ProgressCompleted
  <2>2. /\ task[p].at = "complete_progress" /\ journal' = journal
        /\ Goto(p, "complete_workspace") \/ Goto(p, "verify_workspace")
    BY <1>8 DEF ProgressCompleted
  <2> QED
    BY <2>1, <2>2, <1>a, MovesOn DEF ComesTo
<1>9. CASE WorkspaceCompleted(p)
  <2>1. task[p].at = "complete_workspace" /\ Goto(p, "verify_workspace") /\ journal' = journal
    BY <1>9 DEF WorkspaceCompleted
  <2> QED
    BY <2>1, <1>a, MovesOn DEF ComesTo
<1>10. CASE VerifyWorkspace(p)
  <2>1. task[p].at = "verify_workspace" /\ journal' = journal
    BY <1>10 DEF VerifyWorkspace
  <2>2. CASE workspace = d.newW /\ Goto(p, "verify_progress")
    <3>1. d.newW.ledger = d.oldW.ledger \cup {d.op}
      BY <2>1, <1>a, IntentShape DEF TaskOK
    <3> QED
      BY <2>1, <2>2, <3>1, <1>a, MovesOn DEF ComesTo
  <2>3. CASE Give_up(p)
    BY <2>1, <2>3, GivesUp
  <2> QED
    BY <1>10, <2>2, <2>3 DEF VerifyWorkspace
<1>11. CASE VerifyProgress(p)
  <2>1. task[p].at = "verify_progress" /\ journal' = journal
    BY <1>11 DEF VerifyProgress
  <2>2. CASE Goto(p, "remove_journal")
    BY <2>1, <2>2, <1>a, <1>b, MovesOn DEF ComesTo
  <2>3. CASE Give_up(p)
    BY <2>1, <2>3, GivesUp
  <2> QED
    BY <1>11, <2>2, <2>3 DEF VerifyProgress
<1> QED
  BY <1>1, <1>2, <1>3, <1>4, <1>5, <1>6, <1>7, <1>8, <1>9, <1>10, <1>11 DEF CarryStep, CompleteStep

\* How far each process has come stays true of the stores.
LEMMA StageStep ==
  ASSUME StoresInv, DeletionInv, NEW p \in Procs, Kind(p)
  PROVE  StageOK'
<1>0. /\ \A d \in intents : Gone(d) => Gone(d)'
      /\ workspace.ledger \subseteq workspace'.ledger
  BY NothingComesBack
<1>a. \A q \in Procs : Reached(q) /\ (task[q].at \in Carrying => task[q].intent \in intents)
  BY DEF DeletionInv, StageOK, TaskOK, TaskOf
<1> USE DEF wstore, pstore
<1>1. ASSUME NEW q \in Procs, task'[q] = task[q], Applied(psaves'[q]) => Applied(psaves[q])
      PROVE  Reached(q)'
  BY <1>0, <1>a, <1>1 DEF Reached, Carrying, Purging
<1>2. CASE BeginDelete(p) \/ LoadWorkspace(p) \/ LoadProgress(p) \/ Commit(p) \/ AddReview(p)
  <2>1. /\ \A q \in Procs \ {p} : task'[q] = task[q] /\ psaves'[q] = psaves[q]
        /\ task'[p].at \in {"load_workspace", "load_progress", "save_only_workspace", "publish",
                          "idle", "other_save"}
    BY <1>2, BeginDeletes, WorkspaceLoads, ProgressLoads, OtherCommits, OtherAdds DEF DeletionInv
  <2>2. Reached(p)'
    BY <2>1 DEF Reached, Purging
  <2> QED
    BY <1>1, <2>1, <2>2 DEF StageOK
<1>3. CASE PublishJournal(p)
  <2>1. /\ \A q \in Procs \ {p} : task'[q] = task[q] /\ psaves'[q] = psaves[q]
        /\ \/ task'[p].at = "save_progress" /\ psaves'[p].at = "open"
           \/ task'[p].at = "idle"
    BY <1>3, JournalPublishes DEF DeletionInv
  <2>2. Reached(p)'
    BY <2>1 DEF Reached, Purging, Applied
  <2> QED
    BY <1>1, <2>1, <2>2 DEF StageOK
<1>4. CASE WorkspaceAdvances(p)
  BY <1>1, <1>4 DEF WorkspaceAdvances, StageOK
<1>5. CASE ReviewsAdvance(p)
  <2>1. /\ task' = task /\ \A q \in Procs \ {p} : psaves'[q] = psaves[q]
        /\ \/ Applied(psaves'[p]) => Applied(psaves[p])
           \/ Waiting(psaves[p]) /\ progress' = psaves[p].new
    BY <1>5 DEF ReviewsAdvance, Advanced
  <2>2. CASE Waiting(psaves[p]) /\ progress' = psaves[p].new
    <3>1. task[p].at \in Purging => progress' = task[p].intent.newP
      BY <2>2 DEF DeletionInv, TaskOK, TaskOf
    <3>2. task[p].at \in Purging => Gone(task[p].intent)'
      BY <2>1, <3>1 DEF Gone
    <3>3. Reached(p)'
      BY <1>0, <1>a, <2>1, <3>2 DEF Reached, Carrying, Purging
    <3> QED
      BY <1>1, <2>1, <3>3 DEF StageOK
  <2> QED
    BY <1>1, <2>1, <2>2 DEF StageOK
<1>6. CASE CarryStep(p)
  <2>1. \A q \in Procs \ {p} : task'[q] = task[q] /\ psaves'[q] = psaves[q]
    BY <1>6, CarryCarriesOn DEF CarriesOn
  <2>2. ComesTo(p)
    BY <1>6, CarryComesTo
  <2>3. Reached(p)'
    BY <1>0, <2>2 DEF ComesTo, Reached, Carrying, Purging, Applied
  <2> QED
    BY <1>1, <2>1, <2>3 DEF StageOK
<1> QED
  BY <1>2, <1>3, <1>4, <1>5, <1>6 DEF Kind

\* The bounds of the instance are kept.
LEMMA CountsStep == DeletionInv /\ [Next]_vars => CountsOK'
<1> SUFFICES ASSUME DeletionInv, [Next]_vars PROVE CountsOK'
  OBVIOUS
<1>a. CountsOK /\ ops \in Nat /\ MaxOps \in Nat /\ MaxCrashes \in Nat /\ MaxFailures \in Nat
  BY OpsAreNumbers, DeletionAssumption DEF DeletionInv
<1>1. CASE UNCHANGED <<ops, faults>>
  BY <1>a, <1>1 DEF CountsOK
<1>2. CASE ops < MaxOps /\ ops' = ops + 1 /\ UNCHANGED faults
  BY <1>a, <1>2 DEF CountsOK
<1>3. CASE \E p \in Procs : DiskFails(p) \/ Crash(p)
  <2>1. /\ UNCHANGED ops
        /\ \/ faults.failures < MaxFailures /\ faults' = [faults EXCEPT !.failures = @ + 1]
           \/ faults.crashes < MaxCrashes /\ faults' = [faults EXCEPT !.crashes = @ + 1]
    BY <1>3 DEF DiskFails, Crash
  <2> QED
    BY <1>a, <2>1 DEF CountsOK
<1>4. ASSUME NEW p \in Procs, DeleteStep(p)
      PROVE  UNCHANGED <<ops, faults>>
  BY <1>4 DEF DeleteStep, LoadWorkspace, LoadProgress, PublishJournal, ProgressSaved,
              WorkspaceSaved, SaveRefused, OnlyWorkspaceSaved
<1>5. ASSUME NEW p \in Procs, CompleteStep(p)
      PROVE  UNCHANGED <<ops, faults>>
  BY <1>5 DEF CompleteStep, ReadJournal, ReadWorkspace, ReadProgress, ProgressCompleted,
              WorkspaceCompleted, VerifyWorkspace, VerifyProgress, RemoveJournal
<1>6. ASSUME NEW p \in Procs, StoreStep(p) \/ OtherSaveEnds(p)
      PROVE  UNCHANGED <<ops, faults>>
  BY <1>6 DEF StoreStep, OtherSaveEnds
<1>7. ASSUME NEW p, BeginDelete(p) \/ Commit(p) \/ AddReview(p) \/ BeginRecover(p)
      PROVE  UNCHANGED <<ops, faults>> \/ (ops < MaxOps /\ ops' = ops + 1 /\ UNCHANGED faults)
  BY <1>7 DEF BeginDelete, Commit, AddReview, BeginRecover
<1>8. UNCHANGED vars => UNCHANGED <<ops, faults>>
  BY DEF vars
<1> QED
  BY <1>1, <1>2, <1>3, <1>4, <1>5, <1>6, <1>7, <1>8 DEF Next, Running

\* Every process has read, and means to do, what it should.
LEMMA TaskStep ==
  ASSUME StoresInv, DeletionInv, NEW p \in Procs, Kind(p)
  PROVE  TaskOK'
<1>a. TaskOK /\ ops \in Nat
  BY OpsAreNumbers DEF DeletionInv
<1>b. workspace \in Workspace /\ (progress = None \/ progress \subseteq Review)
  BY DEF DeletionInv, ContentsOK
<1>1. ASSUME NEW q \in Procs, task'[q] = task[q], intents \subseteq intents',
             psaves'[q].expected = psaves[q].expected, psaves'[q].new = psaves[q].new
      PROVE  TaskOf(q)'
  BY <1>a, <1>1 DEF TaskOK, TaskOf
<1>c. TaskOf(p) /\ task[p] \in Task
  BY <1>a DEF TaskOK, TaskOf
<1> USE DEF wstore, pstore, Stages
<1>2. CASE BeginDelete(p) /\ p \in Coordinators
  <2>1. PICK s \in Students :
          task' = [task EXCEPT ![p] = [NoTask EXCEPT !.at = "load_workspace", !.student = s,
                                                     !.op = ops + 1]]
    BY <1>2 DEF BeginDelete
  <2>2. NoTask \in Task
    BY DEF NoTask, Task
  <2>3. /\ task' = [q \in Procs |-> task'[q]]
        /\ \A q \in Procs \ {p} : task'[q] = task[q]
        /\ task'[p] = [NoTask EXCEPT !.at = "load_workspace", !.student = s, !.op = ops + 1]
    BY <1>a, <2>1 DEF TaskOK
  <2>4. task'[p] \in Task /\ task'[p].at = "load_workspace" /\ task'[p].student = s
    <3>1. task'[p] = [at |-> "load_workspace", student |-> s, op |-> ops + 1,
                      seen |-> NoTask.seen, intent |-> NoTask.intent]
      BY <2>2, <2>3 DEF Task
    <3>2. ops + 1 \in Nat
      BY <1>a
    <3>3. NoTask.seen \in Workspace \cup {None} /\ NoTask.intent \in Intent \cup {None}
      BY <2>2 DEF Task
    <3> QED
      BY <3>1, <3>2, <3>3 DEF Task
  <2>5. TaskOf(p)'
    BY <1>2, <2>4 DEF TaskOf, Carrying, Purging
  <2>6. UNCHANGED <<psaves, intents, journal>>
    BY <1>2 DEF BeginDelete
  <2> QED
    BY <1>a, <1>1, <2>3, <2>5, <2>6 DEF TaskOK
<1>3. CASE LoadWorkspace(p)
  <2>1. /\ task' = [q \in Procs |-> task'[q]]
        /\ \A q \in Procs \ {p} : task'[q] = task[q]
        /\ task'[p] = [task[p] EXCEPT !.at = "load_progress", !.seen = workspace]
    BY <1>a, <1>3 DEF LoadWorkspace, TaskOK
  <2>2. /\ task'[p] \in Task /\ task'[p].at = "load_progress"
        /\ task'[p].seen = workspace /\ task'[p].student = task[p].student
    BY <1>b, <1>c, <2>1 DEF Task
  <2>3. task[p].at = "load_workspace" /\ UNCHANGED <<psaves, intents, journal>>
    BY <1>3 DEF LoadWorkspace, Is
  <2>4. TaskOf(p)'
    BY <1>b, <1>c, <2>2, <2>3 DEF TaskOf, Carrying, Purging, Preparing
  <2> QED
    BY <1>a, <1>1, <2>1, <2>3, <2>4 DEF TaskOK
<1>4. CASE LoadProgress(p)
  <2>0. task[p].at = "load_progress" /\ UNCHANGED <<psaves, intents, journal>>
    BY <1>4 DEF LoadProgress, Is
  <2>1. CASE Goto(p, "save_only_workspace")
    <3>1. /\ task' = [q \in Procs |-> task'[q]] /\ task'[p] \in Task
          /\ task'[p].at = "save_only_workspace" /\ \A q \in Procs \ {p} : task'[q] = task[q]
      BY <1>a, <2>1, MovesOn, GotoMoves
    <3>2. TaskOf(p)'
      BY <1>c, <2>0, <3>1 DEF TaskOf, Carrying, Purging, Preparing
    <3> QED
      BY <1>a, <1>1, <2>0, <3>1, <3>2 DEF TaskOK
  <2>2. CASE /\ progress # None
             /\ task' = [task EXCEPT ![p].at = "publish", ![p].intent = IntentOf(task[p], progress)]
    <3> DEFINE i == IntentOf(task[p], progress)
    <3>1. /\ task[p].student \in Students /\ task[p].op \in Nat /\ task[p].seen \in Workspace
      BY <1>c, <2>0 DEF TaskOf, Task, Preparing
    <3>2. Tombstoned(task[p].seen, task[p].student, task[p].op) \in Workspace
      BY <3>1 DEF Tombstoned, Workspace
    <3>3. progress \subseteq Review /\ Purged(progress, task[p].student) \subseteq Review
      BY <1>b, <2>2 DEF Purged
    <3>4. i \in Intent
      BY <3>1, <3>2, <3>3 DEF IntentOf, Intent
    <3>5. Formed(i) /\ i.op = task[p].op /\ i.oldW = task[p].seen
      BY <2>2, <3>4 DEF Formed, IntentOf
    <3> HIDE DEF i
    <3>6. /\ task' = [q \in Procs |-> task'[q]]
          /\ \A q \in Procs \ {p} : task'[q] = task[q]
          /\ task'[p] = [task[p] EXCEPT !.at = "publish", !.intent = i]
      BY <1>a, <2>2 DEF TaskOK, i
    <3>7. /\ task'[p] \in Task /\ task'[p].at = "publish" /\ task'[p].intent = i
          /\ task'[p].student = task[p].student /\ task'[p].op = task[p].op
          /\ task'[p].seen = task[p].seen
      BY <1>c, <3>4, <3>6 DEF Task
    <3>8. TaskOf(p)'
      <4>1. Formed(task'[p].intent) /\ task'[p].intent.op = task'[p].op
              /\ task'[p].intent.oldW = task'[p].seen
        BY <3>5, <3>7
      <4>2. p \in Coordinators
        BY <1>c, <2>0 DEF TaskOf
      <4> QED
        BY <3>1, <3>7, <4>1, <4>2 DEF TaskOf, Carrying, Purging, Preparing
    <3> QED
      BY <1>a, <1>1, <2>0, <3>6, <3>8 DEF TaskOK
  <2>3. CASE Give_up(p)
    <3>1. /\ task' = [q \in Procs |-> task'[q]] /\ task'[p] = NoTask /\ task'[p].at = "idle"
          /\ \A q \in Procs \ {p} : task'[q] = task[q]
      BY <1>a, <2>3, GivingUp
    <3>2. TaskOf(p)'
      BY <3>1, NoTaskIsOne DEF TaskOf, Carrying, Purging, Preparing
    <3> QED
      BY <1>a, <1>1, <2>0, <3>1, <3>2 DEF TaskOK
  <2> QED
    BY <1>4, <2>1, <2>2, <2>3 DEF LoadProgress
<1>5. CASE PublishJournal(p)
  <2>0. /\ task[p].at = "publish" /\ p \in Coordinators
        /\ Formed(task[p].intent)
    BY <1>5, <1>c DEF PublishJournal, Is, TaskOf
  <2>1. /\ \A q \in Procs \ {p} : task'[q] = task[q] /\ psaves'[q] = psaves[q]
        /\ \/ /\ journal' = task[p].intent /\ intents' = intents \cup {task[p].intent}
              /\ psaves'[p].expected = task[p].intent.oldP
              /\ psaves'[p].new = task[p].intent.newP
              /\ task'[p].at = "save_progress" /\ task'[p].intent = task[p].intent
           \/ UNCHANGED <<journal, intents>> /\ task'[p].at = "idle"
    BY <1>5, <1>a, JournalPublishes
  <2>2. Goto(p, "save_progress") \/ Give_up(p)
    BY <1>5 DEF PublishJournal
  <2>3. task' = [q \in Procs |-> task'[q]] /\ task'[p] \in Task
    BY <1>a, <2>2, MovesOn, GivingUp, NoTaskIsOne
  <2>4. TaskOf(p)'
    BY <2>0, <2>1, <2>3 DEF TaskOf, Carrying, Purging, Preparing
  <2>5. intents \subseteq intents' /\ journal' \in intents' \cup {None}
    BY <1>a, <2>1 DEF TaskOK
  <2>6. \A d \in intents' : Formed(d)
    BY <1>a, <2>0, <2>1 DEF TaskOK
  <2>7. \A q \in Procs : TaskOf(q)'
    BY <1>1, <2>1, <2>4, <2>5
  <2> QED
    BY <2>3, <2>5, <2>6, <2>7 DEF TaskOK, Formed
<1>6. CASE Commit(p) \/ AddReview(p)
  <2>1. Goto(p, "other_save") /\ task[p].at = "idle" /\ UNCHANGED <<intents, journal>>
    BY <1>6 DEF Commit, AddReview, Is
  <2>2. /\ task' = [q \in Procs |-> task'[q]] /\ task'[p] \in Task /\ task'[p].at = "other_save"
        /\ \A q \in Procs \ {p} : task'[q] = task[q]
    BY <1>a, <2>1, MovesOn, GotoMoves
  <2>3. TaskOf(p)'
    BY <2>2 DEF TaskOf, Carrying, Purging, Preparing
  <2>4. \A q \in Procs \ {p} : psaves'[q] = psaves[q]
    BY <1>6, <1>a, OtherCommits, OtherAdds
  <2> QED
    BY <1>a, <1>1, <2>1, <2>2, <2>3, <2>4 DEF TaskOK
<1>7. CASE WorkspaceAdvances(p)
  BY <1>a, <1>1, <1>7 DEF WorkspaceAdvances, TaskOK
<1>8. CASE ReviewsAdvance(p)
  <2>1. /\ UNCHANGED <<task, intents, journal>>
        /\ \A q \in Procs : /\ psaves'[q].expected = psaves[q].expected
                            /\ psaves'[q].new = psaves[q].new
    BY <1>8 DEF ReviewsAdvance, Advanced
  <2> QED
    BY <1>a, <1>1, <2>1 DEF TaskOK
<1>9. CASE CarryStep(p)
  <2>1. /\ \A q \in Procs \ {p} : task'[q] = task[q] /\ psaves'[q] = psaves[q]
        /\ task'[p].at \notin Preparing /\ intents' = intents
    BY <1>9, CarryCarriesOn DEF CarriesOn
  <2>2. ComesTo(p)
    BY <1>9, CarryComesTo
  <2>3. TaskOf(p)'
    BY <2>1, <2>2 DEF ComesTo, TaskOf, Preparing
  <2>4. journal' \in intents' \cup {None}
    BY <1>a, <2>1, <2>2 DEF ComesTo, TaskOK
  <2> QED
    BY <1>a, <1>1, <2>1, <2>2, <2>3, <2>4 DEF ComesTo, TaskOK
<1> QED
  BY <1>2, <1>3, <1>4, <1>5, <1>6, <1>7, <1>8, <1>9 DEF Kind

-----------------------------------------------------------------------------
(* The invariant, and what it shows *)

\* Nothing has been deleted yet.
LEMMA DeletionStart == Init => DeletionInv
<1> SUFFICES ASSUME Init PROVE DeletionInv
  OBVIOUS
<1>1. /\ task = [p \in Procs |-> NoTask] /\ \A p \in Procs : task[p].at = "idle"
      /\ workspace = [deleted |-> {}, ledger |-> {}] /\ journal = None /\ intents = {}
      /\ ops = 0 /\ faults = [crashes |-> 0, failures |-> 0]
  BY DEF Init, NoTask
<1>2. \A p \in Procs : ~ Waiting(wsaves[p]) /\ ~ Waiting(psaves[p])
  BY DEF Init, W!FileInit, P!FileInit, W!NoSave, P!NoSave, Waiting, Waiting
<1>3. progress = None \/ progress = {[id |-> 0, student |-> s] : s \in Students}
  BY DEF Init
<1>4. \A r \in Reviews(progress) : r \in Review /\ r.id = 0
  BY <1>3 DEF Reviews, Review
<1>5. TaskOK
  <2>1. \A p \in Procs : task[p] = NoTask /\ task[p] \in Task
    BY <1>1, NoTaskIsOne
  <2> QED
    BY <1>1, <2>1 DEF TaskOK, TaskOf, Carrying, Purging, Preparing
<1>6. CountsOK
  BY <1>1, DeletionAssumption DEF CountsOK
<1>7. ContentsOK
  <2>1. workspace \in Workspace
    BY <1>1 DEF Workspace
  <2>2. progress = None \/ progress \subseteq Review
    BY <1>4 DEF Reviews
  <2> QED
    BY <1>2, <2>1, <2>2 DEF ContentsOK
<1>8. OpsOK
  BY <1>1, <1>2 DEF OpsOK, Unused, Preparing
<1>9. ReviewsOK
  BY <1>1, <1>2, <1>4 DEF ReviewsOK, Unseen
<1>10. OrderOK /\ StageOK
  BY <1>1, <1>2 DEF OrderOK, StageOK, Reached, Purging
<1> QED
  BY <1>5, <1>6, <1>7, <1>8, <1>9, <1>10 DEF DeletionInv

\* A step that changes nothing keeps everything.
LEMMA DeletionStutter == DeletionInv /\ UNCHANGED vars => DeletionInv'
<1> SUFFICES ASSUME DeletionInv, UNCHANGED vars PROVE DeletionInv'
  OBVIOUS
<1> USE DEF vars, wstore, pstore, DeletionInv
<1>1. TaskOK' /\ CountsOK'
  BY DEF TaskOK, TaskOf, CountsOK
<1>2. ContentsOK'
  BY DEF ContentsOK
<1>3. OpsOK'
  BY DEF OpsOK, Unused
<1>4. ReviewsOK'
  <2>1. \A q \in Procs : Added(psaves[q])' = Added(psaves[q])
    BY DEF Added, Reviews
  <2>2. ASSUME NEW r PROVE Unseen(r)' <=> Unseen(r)
    BY DEF Unseen, Reviews
  <2> QED
    BY <2>1, <2>2 DEF ReviewsOK
<1>5. OrderOK' /\ StageOK'
  BY DEF OrderOK, StageOK, Reached, Gone
<1> QED
  BY <1>1, <1>2, <1>3, <1>4, <1>5

\* Every step keeps the invariant.
LEMMA DeletionStep == StoresInv /\ DeletionInv /\ [Next]_vars => DeletionInv'
<1> SUFFICES ASSUME StoresInv, DeletionInv, [Next]_vars PROVE DeletionInv'
  OBVIOUS
<1>1. CASE UNCHANGED vars
  BY <1>1, DeletionStutter
<1>2. CASE \E p \in Procs : Kind(p)
  BY <1>2, TaskStep, CountsStep, ContentsStep, OpsStep, ReviewsStep, OrderStep, StageStep
     DEF DeletionInv
<1> QED
  BY <1>1, <1>2, StepKinds

\* The invariant, for any number of coordinators, writers, students, deletions,
\* crashes and failing writes (education_progress_transaction.py).
LEMMA DeletionInvariant == Spec => [](StoresInv /\ DeletionInv)
  BY StoresStart, StoresStep, DeletionStart, DeletionStep, PTL DEF Spec

\* The variables have their types.
LEMMA DeletionTyped ==
  ASSUME StoresInv, DeletionInv, unlinked \subseteq intents
  PROVE  TypeOK
<1>1. W!FileTypeOK /\ P!FileTypeOK
  <2>1. F("workspace")!FileTypeOK /\ F("reviews")!FileTypeOK
    BY FileTyped, FileTyped DEF StoresInv
  <2> QED
    BY <2>1 DEF W!FileTypeOK, F!FileTypeOK, P!FileTypeOK, F!FileTypeOK,
       W!Stages, F!Stages, P!Stages, F!Stages, W!Outcomes, F!Outcomes, P!Outcomes, F!Outcomes
<1>2. journal \in Intent \cup {None} /\ intents \subseteq Intent
  BY DEF DeletionInv, TaskOK, Formed
<1>3. \A p \in Procs : task[p].at \in Stages /\ task[p].intent \in Intent \cup {None}
  BY DEF DeletionInv, TaskOK, TaskOf, Task
<1>4. /\ workspace \in Workspace /\ (progress = None \/ progress \subseteq Review)
      /\ ops \in 0..MaxOps
      /\ faults.crashes \in 0..MaxCrashes /\ faults.failures \in 0..MaxFailures
  BY DEF DeletionInv, ContentsOK, CountsOK
<1> QED
  BY <1>1, <1>2, <1>3, <1>4 DEF TypeOK

-----------------------------------------------------------------------------
(* What is on disk, and what has been unlinked by the process of another deletion *)

JournalOK ==
    /\ unlinked \subseteq intents
    /\ \A d \in intents \ unlinked : journal = d \/ d.op \in workspace.ledger

\* Only publishing and unlinking change the journal, and only unlinking takes the
\* intent of another deletion from the disk.
LEMMA JournalChanges ==
  ASSUME NEW p \in Procs, Kind(p)
  PROVE  \/ unlinked' = unlinked /\ (journal' = journal \/ PublishJournal(p))
         \/ RemoveJournal(p)
<1>1. CASE CarryStep(p)
  BY <1>1 DEF CarryStep, CompleteStep, ProgressSaved, WorkspaceSaved, SaveRefused,
     OnlyWorkspaceSaved, BeginRecover, ReadJournal, ReadWorkspace, ReadProgress,
     ProgressCompleted, WorkspaceCompleted, VerifyWorkspace, VerifyProgress, OtherSaveEnds, Crash
<1>2. CASE WorkspaceAdvances(p) \/ ReviewsAdvance(p)
  BY <1>2 DEF WorkspaceAdvances, ReviewsAdvance
<1>3. CASE BeginDelete(p) \/ LoadWorkspace(p) \/ LoadProgress(p) \/ Commit(p) \/ AddReview(p)
  BY <1>3 DEF BeginDelete, LoadWorkspace, LoadProgress, Commit, AddReview
<1>4. CASE PublishJournal(p)
  BY <1>4 DEF PublishJournal
<1> QED
  BY <1>1, <1>2, <1>3, <1>4 DEF Kind

\* Intents are only added by publishing them.
LEMMA IntentsChange ==
  ASSUME StoresInv, DeletionInv, NEW p \in Procs, Kind(p), ~ PublishJournal(p)
  PROVE  intents' = intents
<1>1. CASE CarryStep(p)
  BY <1>1, CarryCarriesOn DEF CarriesOn
<1>2. CASE ~ CarryStep(p)
  BY <1>2 DEF Kind, WorkspaceAdvances, ReviewsAdvance, BeginDelete, LoadWorkspace,
              LoadProgress, Commit, AddReview
<1> QED
  BY <1>1, <1>2

\* The process that unlinks the journal has seen both stores show its own deletion.
LEMMA JournalStep ==
  ASSUME StoresInv, DeletionInv, JournalOK, NEW p \in Procs, Kind(p)
  PROVE  JournalOK'
<1>a. workspace.ledger \subseteq workspace'.ledger
  BY NothingComesBack
<1>1. CASE RemoveJournal(p)
  <2>1. journal' = None /\ unlinked' = unlinked \cup ({journal} \ {None, task[p].intent})
    BY <1>1 DEF RemoveJournal
  <2>2. intents' = intents
    BY <1>1 DEF RemoveJournal
  <2>3. task[p].intent \in intents /\ task[p].intent.op \in workspace.ledger
    BY <1>1 DEF RemoveJournal, Is, DeletionInv, TaskOK, TaskOf, Carrying, StageOK, Reached
  <2>4. journal \in intents \cup {None} /\ None \notin intents
    BY NoneIsNoIntent DEF DeletionInv, TaskOK, Formed
  <2> QED
    BY <1>a, <2>1, <2>2, <2>3, <2>4 DEF JournalOK
<1>2. CASE PublishJournal(p) /\ ~ RemoveJournal(p)
  <2>1. \/ /\ journal = None /\ journal' = task[p].intent
           /\ intents' = intents \cup {task[p].intent}
        \/ UNCHANGED <<journal, intents>>
    BY <1>2, JournalPublishes DEF DeletionInv
  <2>2. None \notin intents
    BY NoneIsNoIntent DEF DeletionInv, TaskOK, Formed
  <2> QED
    BY <1>a, <1>2, <2>1, <2>2, JournalChanges DEF JournalOK
<1>3. CASE ~ PublishJournal(p) /\ ~ RemoveJournal(p)
  BY <1>a, <1>3, JournalChanges, IntentsChange DEF JournalOK
<1> QED
  BY <1>1, <1>2, <1>3

\* So it holds at every step.
LEMMA JournalInvariant == Spec => [](StoresInv /\ DeletionInv /\ JournalOK)
<1>1. Init => JournalOK
  BY DEF Init, JournalOK
<1>2. StoresInv /\ DeletionInv /\ JournalOK /\ [Next]_vars => JournalOK'
  <2>1. JournalOK /\ UNCHANGED vars => JournalOK'
    BY DEF JournalOK, vars, wstore
  <2> QED
    BY <2>1, StepKinds, JournalStep
<1> QED
  BY <1>1, <1>2, DeletionInvariant, PTL DEF Spec

\* At every step, and so after every crash, the stores and the journal tell how far
\* the deletion is: the reviews are purged before the tombstone is published, and a
\* pending deletion keeps its intent on disk until both stores show it, unless the
\* process of another deletion unlinks it.  For any number of processes that delete
\* students and recover deletions at once, of other writers, crashes and failures.
THEOREM DeletionSurvivesCrashes == Spec => []DeletionInOrder
<1>1. StoresInv /\ DeletionInv /\ JournalOK => DeletionInOrder
  BY DeletionTyped DEF DeletionInv, OrderOK, Gone, JournalOK, DeletionInOrder,
                       IntentUntilPublished, PurgedBeforeTombstone
<1> QED
  BY <1>1, JournalInvariant, PTL

\* A save that purges reviews carries an intent whose reviews are still there: one
\* that is on disk, or has been unlinked by the process of another deletion.
LEMMA PurgesUnderAnIntent ==
  ASSUME StoresInv, DeletionInv, JournalOK, NEW p \in Procs, task[p].at \in Purging,
         Waiting(psaves[p]), progress = psaves[p].expected, progress' = psaves[p].new,
         NEW r \in progress, r \notin progress'
  PROVE  \E d \in {journal} \cup unlinked : d # None /\ d.student = r.student
<1> DEFINE d == task[p].intent
<1>1. progress = d.oldP /\ progress' = d.newP /\ d \in intents /\ Formed(d)
  BY DEF DeletionInv, TaskOK, TaskOf, Carrying, Purging
<1>2. d # None /\ r.student = d.student
  <2>1. progress' = {x \in progress : x.student # d.student}
    BY <1>1, IntentShape
  <2> QED
    BY <1>1, <2>1, NoneIsNoIntent DEF Formed
<1>3. r \in (d.oldP \ d.newP) \cap progress
  BY <1>1
<1>4. d.op \notin workspace.ledger
  BY <1>1, <1>3 DEF DeletionInv, OrderOK, Gone
<1> QED
  BY <1>1, <1>2, <1>4 DEF JournalOK

\* Reviews disappear only under an intent to delete their student, and no save undoes
\* an operation or revives a student, however many processes delete, recover and save
\* at once: nobody else's work is lost.
THEOREM DeletionLosesNothingElse == Spec => NothingElseLost
<1> DEFINE Purges == \A r \in IF progress = None THEN {} ELSE progress :
                       r \notin progress' =>
                           \E d \in {journal} \cup unlinked : d # None /\ d.student = r.student
           Keeps == /\ workspace.ledger \subseteq workspace'.ledger
                    /\ workspace.deleted \subseteq workspace'.deleted
<1>1. ASSUME StoresInv, DeletionInv, JournalOK, NEW p \in Procs, Kind(p)
      PROVE  Purges
  <2>1. CASE progress' = progress
    BY <2>1
  <2>2. CASE ReviewsAdvance(p) /\ progress' # progress
    <3>1. Waiting(psaves[p]) /\ progress = psaves[p].expected /\ progress' = psaves[p].new
      BY <2>2 DEF ReviewsAdvance, Advanced
    <3>2. Reviews(progress) \subseteq progress' \/ task[p].at \in Purging
      BY <1>1, <3>1 DEF DeletionInv, ContentsOK
    <3>3. ASSUME task[p].at \in Purging, progress # None PROVE Purges
      BY <1>1, <3>1, <3>3, PurgesUnderAnIntent
    <3> QED
      BY <3>2, <3>3 DEF Reviews
  <2>3. progress' = progress \/ ReviewsAdvance(p)
    <3>1. CASE CarryStep(p)
      BY <1>1, <3>1, CarryCarriesOn DEF CarriesOn
    <3>2. CASE ~ CarryStep(p)
      BY <1>1, <3>2, BeginDeletes, WorkspaceLoads, ProgressLoads, JournalPublishes, OtherCommits,
         OtherAdds DEF Kind, DeletionInv, WorkspaceAdvances, wstore, pstore
    <3> QED
      BY <3>1, <3>2
  <2> QED
    BY <2>1, <2>2, <2>3
<1>2. StoresInv /\ DeletionInv /\ JournalOK /\ [Next]_vars => [Purges]_vars
  BY <1>1, StepKinds
<1>3. Spec => PurgeOnlyUnderIntent
  BY <1>2, JournalInvariant, PTL DEF Spec, PurgeOnlyUnderIntent
<1>4. StoresInv /\ DeletionInv /\ [Next]_vars => [Keeps]_vars
  BY StepKinds, NothingComesBack
<1>5. Spec => OperationsKept
  BY <1>4, DeletionInvariant, PTL DEF Spec, OperationsKept
<1> QED
  BY <1>3, <1>5 DEF NothingElseLost

=============================================================================
