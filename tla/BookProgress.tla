----------------------------- MODULE BookProgress -----------------------------
(* acs/version2_application.py: how each process of the application uses the    *)
(* store of the reading progress.  A save that finds the primary damaged asks   *)
(* the user whether the backup may take its place, with the lock given up while *)
(* the user thinks; after an answer that leaves the outcome open the reader is  *)
(* rebound to what the disk holds.                                              *)
EXTENDS BookProgressStore, TLC

CONSTANTS
    MaxRequests,   \* bound on the books opened, saved and removed
    MaxFaults      \* bound on crashes, disk failures and writes of other programs

ASSUME BoundsAssumption ==
    /\ {MaxRequests, MaxFaults} \subseteq Nat
    /\ None \notin [book : Books, mark : 1..MaxMark]

VARIABLES
    shown,    \* the book each process shows, at which mark; None when it shows none
    flow,     \* what each process is doing, and what to do afterwards
    marks,    \* marks given out so far
    asked,    \* requests of the users so far
    faults    \* what has gone wrong so far

vars == <<svars, shown, flow, marks, asked, faults>>

Shown == [book : Books, mark : 1..MaxMark]
Steps == {"idle", "has", "restore", "save", "offer", "ask", "recover", "save_again",
          "reload", "compare", "remove"}

\* candidate: the book being opened, still staged; None while the one shown is saved.
\* next: the book to open once the one shown has been saved.
NoFlow == [at |-> "idle", candidate |-> None, next |-> None, offer |-> <<None, None>>]

TypeOK ==
    /\ StoreTypeOK
    /\ \A p \in Apps :
          /\ shown[p] \in Shown \cup {None}
          /\ flow[p].at \in Steps
          /\ flow[p].candidate \in Shown \cup {None} /\ flow[p].next \in Books \cup {None}
    /\ marks \in 1..MaxMark /\ asked \in 0..MaxRequests
    /\ faults.count \in 0..MaxFaults /\ faults.strayed \in BOOLEAN

Init ==
    /\ StoreInit
    /\ shown = [p \in Apps |-> None]
    /\ flow = [p \in Apps |-> NoFlow]
    /\ marks = 1 /\ asked = 0
    /\ faults = [count |-> 0, strayed |-> FALSE]

-----------------------------------------------------------------------------
(* The flows *)

Is(p, step)   == flow[p].at = step
Goto(p, step) == flow' = [flow EXCEPT ![p].at = step]
End(p)        == flow' = [flow EXCEPT ![p] = NoFlow]

\* The store has answered.
Answered(p, results) == At(p, "done") /\ calls[p].result \in results
Error(p)             == At(p, "done") /\ calls[p].result # "ok"

Idle(p) == Is(p, "idle") /\ At(p, "idle")

\* The reader whose progress is being saved.
Saving(p) == IF flow[p].candidate # None THEN flow[p].candidate ELSE shown[p]

\* The user turns a page.
Turn(p) ==
    /\ Idle(p) /\ shown[p] # None /\ marks < MaxMark
    /\ marks' = marks + 1
    /\ shown' = [shown EXCEPT ![p].mark = marks + 1]
    /\ UNCHANGED <<svars, flow, asked, faults>>

Ask(p) == Idle(p) /\ asked < MaxRequests /\ asked' = asked + 1

\* save_book_progress, by itself or because another book is opened.
SaveBook(p) ==
    /\ Ask(p) /\ shown[p] # None
    /\ \E next \in {None} \cup Books :
          flow' = [flow EXCEPT ![p] = [NoFlow EXCEPT !.at = "save", !.next = next]]
    /\ Call(p, "save", shown[p].book, shown[p].mark, None, None)
    /\ UNCHANGED <<shown, marks, faults>>

\* commit_prepared_book_open, with no book shown.
OpenBook(p) ==
    /\ Ask(p) /\ shown[p] = None
    /\ \E b \in Books :
          /\ flow' = [flow EXCEPT ![p] = [NoFlow EXCEPT !.at = "has", !.next = b]]
          /\ Call(p, "restore", b, 0, None, None)
    /\ UNCHANGED <<shown, marks, faults>>

\* remove() of the store.
RemoveBook(p) ==
    /\ Ask(p)
    /\ \E b \in Books : Call(p, "remove", b, 0, None, None)
    /\ Goto(p, "remove")
    /\ UNCHANGED <<shown, marks, faults>>

Removed(p) ==
    /\ Is(p, "remove") /\ Return(p) /\ End(p)
    /\ UNCHANGED <<shown, marks, asked, faults>>

\* The answer of one call begins the next one at once.
Then(p, step, op, book, mark, base, new) ==
    /\ flow' = [flow EXCEPT ![p].at = step]
    /\ calls' = [calls EXCEPT ![p] = [NoCall EXCEPT !.at = "open", !.op = op, !.book = book,
                                          !.mark = mark, !.base = base, !.new = new]]
    /\ UNCHANGED <<primary, backup, lockfile, holder, raced, trail>>

\* has() and restore() are two calls, between which anything can happen.
Has(p) ==
    /\ Is(p, "has") /\ Answered(p, {"ok"})
    /\ Then(p, "restore", "restore", flow[p].next, 0, None, None)
    /\ UNCHANGED <<shown, marks, asked, faults>>

\* The candidate is saved before it is shown: a restored reader, or a fresh one.
Stage(p, mark) ==
    /\ flow' = [flow EXCEPT ![p] = [NoFlow EXCEPT !.at = "save",
                                       !.candidate = [book |-> flow[p].next, mark |-> mark]]]
    /\ calls' = [calls EXCEPT ![p] = [NoCall EXCEPT !.at = "open", !.op = "save",
                                          !.book = flow[p].next, !.mark = mark]]
    /\ UNCHANGED <<primary, backup, lockfile, holder, raced, trail>>

Restored(p) ==
    /\ Is(p, "restore") /\ Answered(p, {"ok"})
    /\ Stage(p, calls[p].value)
    /\ UNCHANGED <<shown, marks, asked, faults>>

HasNot(p) ==
    /\ Is(p, "has") /\ Answered(p, {"missing"}) /\ marks < MaxMark
    /\ marks' = marks + 1
    /\ Stage(p, marks + 1)
    /\ UNCHANGED <<shown, asked, faults>>

OpenFails(p) ==
    /\ \/ Is(p, "restore") /\ Error(p)
       \/ Is(p, "has") /\ Error(p) /\ (calls[p].result # "missing" \/ marks = MaxMark)
    /\ Return(p) /\ End(p)
    /\ UNCHANGED <<shown, marks, asked, faults>>

\* _persist_book_progress has returned: the candidate is shown, or the next book
\* is opened.
Persisted(p) ==
    /\ flow[p].at \in {"save", "save_again"} /\ Answered(p, {"ok"})
    /\ shown' = [shown EXCEPT ![p] = Saving(p)]
    /\ IF flow[p].next # None
       THEN Then(p, "has", "restore", flow[p].next, 0, None, None)
       ELSE Return(p) /\ End(p)
    /\ UNCHANGED <<marks, asked, faults>>

\* The primary is damaged: the pair of files is validated for the user.
AskForOffer(p) ==
    /\ Is(p, "save") /\ Answered(p, {"corrupt"})
    /\ Then(p, "offer", "offer", Saving(p).book, 0, None, None)
    /\ UNCHANGED <<shown, marks, asked, faults>>

Offered(p) ==
    /\ Is(p, "offer") /\ Answered(p, {"ok"})
    /\ Return(p)
    /\ flow' = [flow EXCEPT ![p].at = "ask", ![p].offer = calls[p].value]
    /\ UNCHANGED <<shown, marks, asked, faults>>

Confirm(p) ==
    /\ Is(p, "ask") /\ At(p, "idle")
    /\ Then(p, "recover", "recover", Saving(p).book, 0, flow[p].offer[1], flow[p].offer[2])
    /\ UNCHANGED <<shown, marks, asked, faults>>

Decline(p) ==
    /\ Is(p, "ask") /\ End(p)
    /\ UNCHANGED <<svars, shown, marks, asked, faults>>

Recovered(p) ==
    /\ Is(p, "recover") /\ Answered(p, {"ok"})
    /\ Then(p, "save_again", "save", Saving(p).book, Saving(p).mark, None, None)
    /\ UNCHANGED <<shown, marks, asked, faults>>

\* The error that _persist_book_progress raises, and what its caller makes of it:
\* the shown book is reloaded after an answer that leaves the outcome open, a
\* candidate is compared when it may have been published.
Persisting(p) == flow[p].at \in {"save", "offer", "recover", "save_again"}

Raised(p) ==
    IF Is(p, "offer") /\ calls[p].result # "stale" THEN "corrupt" ELSE calls[p].result

PersistFails(p) ==
    /\ Persisting(p) /\ Error(p) /\ ~ (Is(p, "save") /\ calls[p].result = "corrupt")
    /\ IF flow[p].candidate = None /\ Raised(p) \in {"unknown", "stale"}
       THEN Then(p, "reload", "restore_primary", shown[p].book, 0, None, None)
       ELSE IF flow[p].candidate # None /\ Raised(p) = "unknown"
       THEN Then(p, "compare", "restore_primary", flow[p].candidate.book, 0, None, None)
       ELSE Return(p) /\ End(p)
    /\ UNCHANGED <<shown, marks, asked, faults>>

\* _reload_book_progress_after_durability_ambiguity
Reloaded(p) ==
    /\ Is(p, "reload") /\ At(p, "done")
    /\ shown' = [shown EXCEPT ![p] = IF calls[p].result # "ok" THEN None
                                     ELSE [@ EXCEPT !.mark = calls[p].value]]
    /\ Return(p) /\ End(p)
    /\ UNCHANGED <<marks, asked, faults>>

Compared(p) ==
    /\ Is(p, "compare") /\ At(p, "done")
    /\ shown' = [shown EXCEPT ![p] =
                    IF calls[p].result = "ok" /\ calls[p].value = flow[p].candidate.mark
                    THEN flow[p].candidate ELSE @]
    /\ Return(p) /\ End(p)
    /\ UNCHANGED <<marks, asked, faults>>

-----------------------------------------------------------------------------
(* The system *)

InStore(p) ==
    /\ StoreStep(p)
    /\ UNCHANGED <<shown, flow, marks, asked, faults>>

Fault(strays) ==
    /\ faults.count < MaxFaults
    /\ faults' = [count |-> faults.count + 1, strayed |-> faults.strayed \/ strays]

Disk(p) ==
    /\ Fault(FALSE)
    /\ StoreFails(p)
    /\ UNCHANGED <<shown, flow, marks, asked>>

Crash(p) ==
    /\ ~ Is(p, "idle") /\ Fault(FALSE)
    /\ Die(p)
    /\ flow' = [flow EXCEPT ![p] = NoFlow] /\ shown' = [shown EXCEPT ![p] = None]
    /\ UNCHANGED <<marks, asked>>

\* Another program removes or damages a file, or puts the payload of another
\* computer or of a later version there.
Stray(g) == [gen |-> g, legacy |-> FALSE, marks |-> [b \in Books |-> 1]]

Meddle ==
    /\ \E c \in {None, Future} \cup Damaged \cup {Stray(g) : g \in 1..MaxGeneration} :
          /\ WritePrimary(c) \/ WriteBackup(c)
          /\ Fault(Valid(c))
    /\ UNCHANGED <<shown, flow, marks, asked>>

\* What a process does by itself once the user has asked for it.
Running(p) ==
    \/ InStore(p) \/ Has(p) \/ Restored(p) \/ HasNot(p) \/ OpenFails(p) \/ Persisted(p)
    \/ AskForOffer(p) \/ Offered(p) \/ Recovered(p) \/ PersistFails(p) \/ Reloaded(p)
    \/ Compared(p) \/ Removed(p)

Answers(p) == Confirm(p) \/ Decline(p)

Next ==
    \/ \E p \in Apps :
          \/ Turn(p) \/ SaveBook(p) \/ OpenBook(p) \/ RemoveBook(p)
          \/ Running(p) \/ Answers(p) \/ Disk(p) \/ Crash(p)
    \/ Meddle

Spec == Init /\ [][Next]_vars

-----------------------------------------------------------------------------
(* Properties *)

\* As long as no other program has put a payload of its own there, a backup that
\* can be read is one of the last two contents published: recovering from it
\* costs at most the newest save.
BackupWithinOneSave ==
    ~ faults.strayed /\ Valid(backup) => backup \in {trail[1], trail[2]}

\* The files are those of a history of saves.
FilesOfOneHistory == TypeOK /\ BackupWithinOneSave

\* A payload leaves the primary only when the backup holds it, unless another
\* program changed a file within the last instant before the replacement.
ReplacedIsKept ==
    [][faults' = faults /\ primary' # primary /\ Valid(primary) /\ raced = {}
         => backup = primary]_vars

\* A backup of a newer or a divergent generation is never replaced.
NewerBackupKept ==
    [][faults' = faults /\ backup' # backup /\ raced = {}
         => ~ Ahead(backup, primary) /\ backup # Future]_vars

\* No readable content is lost by a save, and none by the recovery of another.
NothingReadableLost == ReplacedIsKept /\ NewerBackupKept

\* A recovery publishes exactly the backup that the user was asked about over
\* exactly the damaged or missing primary that the user gave up.
RecoveryAsAgreed ==
    [][\A p \in Apps :
          flow[p].at = "recover" /\ faults' = faults /\ primary' # primary /\ raced = {}
             /\ At(p, "replace_primary") /\ calls'[p].at # "replace_primary"
             => <<primary, primary'>> = flow[p].offer /\ backup = primary']_vars

\* Saves merge: each publication changes one book, and raises the generation by one.
OneBookAtATime ==
    [][faults' = faults /\ primary' # primary /\ raced = {} /\ Valid(primary)
         => /\ primary'.gen = primary.gen + 1
            /\ Cardinality({b \in Books : primary'.marks[b] # primary.marks[b]}) <= 1]_vars

\* Whatever is published is what somebody asked for: the change of one book, or the
\* recovery the user agreed to.
WritesWhatWasAsked == RecoveryAsAgreed /\ OneBookAtATime

\* The processes are interchangeable, and so are the books.
Symmetry == Permutations(Apps) \cup Permutations(Books)
=============================================================================
