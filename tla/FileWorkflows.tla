----------------------------- MODULE FileWorkflows -----------------------------
(* acs/version2_windows_file_workflows.py with the host runtime and the owner-   *)
(* callback half of the pump: PGN Open, PGN Save and Library import share one    *)
(* worker slot.  A worker prepares an Open, or writes a Save to disk, and hands  *)
(* the end of it to the UI thread, which alone touches the document; an import   *)
(* ends on its worker.  Meanwhile the user edits, cancels and tries to close the *)
(* window, and the program may refuse to close and carry on.                     *)
(* Worker g is the thread of the g-th operation, which is also _generation.      *)
(* Workers interleave at every lock; the UI thread does one thing at a time,     *)
(* except that a file dialog runs its message loop.  A terminal is the event     *)
(* that ends an operation; starting and cancelling are not recorded.             *)
EXTENDS Integers, Sequences

CONSTANTS None,
          Texts,                                             \* what a document can say
          MaxGenerations, MaxEdits, MaxFailures, MaxCloses   \* bounds

ASSUME FilesAssumption ==
    /\ 0 \in Texts
    /\ MaxGenerations \in Nat /\ MaxEdits \in Nat /\ MaxFailures \in Nat /\ MaxCloses \in Nat

VARIABLES
    slot,      \* the worker slot of the delegate, with its fence and its recovery marker
    workers,   \* the workers so far
    pump,      \* the owner callback, its wakeup and its retry timer
    posted,    \* owner callbacks in the message queue of the UI thread
    mail,      \* terminals in the mailbox
    heard,     \* terminals the user has been told
    open,      \* the host runtime takes commands
    ui,        \* what the UI thread is doing
    dialog,    \* an open file dialog: its command and the document it started from, or None
    doc,       \* the document of the PGN page
    disk,      \* what the file of each document holds
    edits, failures, closes                                     \* counters

vars == <<slot, workers, pump, posted, mail, heard, open, ui, dialog, doc, disk,
          edits, failures, closes>>

Generations == 1 .. Len(workers)
Kinds    == {"open", "save", "import"}
Results  == {"none", "ok", "failed", "cancelled"}
Stages   == {"run", "store", "post", "emit", "cleanup", "end"}
Whats    == {"done", "failed", "cancelled"}
Terminal == [gen : Nat, what : Whats]
UiStates == {"idle", "joining", "stopping", "refused", "refencing", "rejoining"}
\* session: the operation that opened it; text: its content; saved: what it holds to be on disk.
Document == [session : Nat, rev : Nat, text : Texts, saved : Texts]
Dialog   == [kind : {"open", "import"}, before : Document]

\* The document of the g-th operation as it was opened; 0 is that of the start.
Opened(g) == [session |-> g, rev |-> 0, text |-> 0, saved |-> 0]

Free == [kind |-> "none", seam |-> FALSE, pending |-> FALSE, fenced |-> FALSE, marker |-> 0]

TypeOK ==
    /\ slot \in [kind : Kinds \cup {"none"}, seam : BOOLEAN, pending : BOOLEAN,
                 fenced : BOOLEAN, marker : {0} \cup Generations]
    /\ workers \in Seq([kind : Kinds, at : Stages, cancel : BOOLEAN, result : Results,
                        says : Whats, before : Document, refused : BOOLEAN])
    /\ pump \in [open : BOOLEAN, callback : {0} \cup Generations, wake : BOOLEAN, retry : BOOLEAN]
    /\ posted \in Nat
    /\ mail \in Seq(Terminal) /\ heard \in Seq(Terminal)
    /\ open \in BOOLEAN /\ ui \in UiStates
    /\ dialog \in Dialog \cup {None} /\ doc \in Document
    /\ disk \in [{0} \cup Generations -> Texts]
    /\ slot.pending => slot.kind # "none" /\ workers[Len(workers)].result # "none"
    /\ slot.marker # 0 => workers[slot.marker].kind = "open"

Init ==
    /\ slot = Free /\ workers = <<>>
    /\ pump = [open |-> TRUE, callback |-> 0, wake |-> FALSE, retry |-> FALSE]
    /\ posted = 0 /\ mail = <<>> /\ heard = <<>>
    /\ open = TRUE /\ ui = "idle" /\ dialog = None
    /\ doc = Opened(0)
    /\ disk = [g \in {0} |-> 0]
    /\ edits = 0 /\ failures = 0 /\ closes = 0

CurrentByNumber(g) == g = Len(workers)     \* variant: the slot may have been given up

\* The slot belongs to worker g.
Current(g) == g = Len(workers) /\ slot.kind = workers[g].kind

ClearSlotOnly(s) == [s EXCEPT !.kind = "none", !.seam = FALSE]   \* variant

Clear(s) == [s EXCEPT !.kind = "none", !.seam = FALSE, !.pending = FALSE]

\* A marker that stands for an Open goes with it.
Settled(s) == [Clear(s) EXCEPT !.marker = 0]

At(g, stage)   == workers[g].at = stage
Goto(g, stage) == workers' = [workers EXCEPT ![g].at = stage]

End(g, what) == [gen |-> g, what |-> what]

MayFail == failures < MaxFailures /\ failures' = failures + 1

\* owner_async_event_sink and _run_ui_ready: the terminals are put and the whole
\* mailbox is presented, or the presentation raises and all of it stays.
Announce(new) ==
    \/ heard' = heard \o mail \o new /\ mail' = <<>> /\ UNCHANGED failures
    \/ MayFail /\ mail' = mail \o new /\ UNCHANGED heard

-----------------------------------------------------------------------------
(* Commands of the user *)

\* __call__: what is retained is recovered before the command, or it is refused.
Recovered == open /\ pump.callback = 0 /\ mail = <<>>

\* The UI thread is at its message loop, or at that of a dialog.
Idle == ui = "idle"

SlotFree == ~slot.fenced /\ slot.kind = "none"

\* An edit can bring a text back, and with it the digest that was saved.
Edit ==
    /\ Idle /\ edits < MaxEdits
    /\ edits' = edits + 1
    /\ \E text \in Texts \ {doc.text} : doc' = [doc EXCEPT !.rev = @ + 1, !.text = text]
    /\ UNCHANGED <<slot, workers, pump, posted, mail, heard, open, ui, dialog, disk, failures, closes>>

\* _open_pgn and _start_import up to the dialogs: an Open is confirmed, and captures
\* the document; an import has nothing to do with it.
OpenDialog(kind) ==
    /\ Idle /\ dialog = None /\ Recovered /\ SlotFree
    /\ dialog' = [kind |-> kind, before |-> IF kind = "open" THEN doc ELSE Opened(0)]
    /\ UNCHANGED <<slot, workers, pump, posted, mail, heard, open, ui, doc, disk, edits, failures, closes>>

\* A worker is reserved and started.
StartWorker(kind, before) ==
    /\ Len(workers) < MaxGenerations
    /\ workers' = Append(workers, [kind |-> kind, at |-> "run", cancel |-> FALSE,
                                   result |-> "none", says |-> "failed",
                                   before |-> before, refused |-> FALSE])
    /\ slot' = [slot EXCEPT !.kind = kind, !.seam = TRUE, !.pending = FALSE]
    /\ disk' = [g \in DOMAIN disk \cup {Len(workers) + 1} |-> IF g \in DOMAIN disk THEN disk[g] ELSE 0]

WantedAnyway(before) == TRUE               \* variant: the document is not compared

StillWanted(before) == doc = before

\* After the dialogs: cancelled, closed, busy or stale, or it starts.
Choose ==
    /\ Idle /\ dialog # None
    /\ dialog' = None
    /\ \/ UNCHANGED <<slot, workers, disk>>
       \/ /\ SlotFree /\ (dialog.kind = "open" => StillWanted(dialog.before))
          /\ StartWorker(dialog.kind, dialog.before)
    /\ UNCHANGED <<pump, posted, mail, heard, open, ui, doc, edits, failures, closes>>

\* A Save has no dialog, and takes its snapshot of the document here.
StartSave ==
    /\ Idle /\ Recovered /\ SlotFree /\ StartWorker("save", doc)
    /\ UNCHANGED <<pump, posted, mail, heard, open, ui, dialog, doc, edits, failures, closes>>

-----------------------------------------------------------------------------
(* The end of an Open or a Save, on the UI thread *)

\* The terminal a prepared Open gets now: failures are fixed, success is not.
OpenEnd(g) ==
    CASE workers[g].result = "cancelled" -> "cancelled"
      [] workers[g].result = "failed" -> "failed"
      [] workers[g].cancel -> "cancelled"
      [] ~StillWanted(workers[g].before) -> "failed"
      [] OTHER -> "done"

FinishOpen(g) ==
    /\ doc' = IF OpenEnd(g) = "done" THEN Opened(g) ELSE doc
    /\ slot' = Settled(slot)

MarksLiveText(g) == doc.text               \* variant: edits made meanwhile count as saved

\* What the document holds to be on disk after the commit: the text of the snapshot.
SavedText(g) == workers[g].before.text

\* commit_pgn_save_publication accepts the same session on the same saved text.
Commits(g) ==
    /\ workers[g].result = "ok"
    /\ doc.session = workers[g].before.session /\ doc.saved = workers[g].before.saved

SaveEnd(g) ==
    IF workers[g].result = "cancelled" THEN "cancelled" ELSE IF Commits(g) THEN "done" ELSE "failed"

\* A publication of what the file held already may leave the revision alone.
RevisionsAfter(g) == {doc.rev + 1} \cup (IF doc.saved = SavedText(g) THEN {doc.rev} ELSE {})

FinishSave(g) ==
    /\ IF Commits(g)
       THEN \E rev \in RevisionsAfter(g) : doc' = [doc EXCEPT !.rev = rev, !.saved = SavedText(g)]
       ELSE doc' = doc
    /\ slot' = Clear(slot)

\* _finish_pgn_open_on_owner and _finish_pgn_save_on_owner: nothing for a worker
\* that has lost the slot, nothing behind the fence.
FinishOnOwner(g) ==
    IF Current(g) /\ ~slot.fenced
    THEN \/ workers[g].kind = "open" /\ FinishOpen(g) /\ Announce(<<End(g, OpenEnd(g))>>)
         \/ workers[g].kind = "save" /\ FinishSave(g) /\ Announce(<<End(g, SaveEnd(g))>>)
    ELSE UNCHANGED <<slot, doc, mail, heard, failures>>

\* _run_owner_callback, after which nothing is retained.
RunOwnerCallback ==
    /\ pump' = [pump EXCEPT !.wake = FALSE, !.callback = 0]
    /\ IF pump.open /\ pump.callback # 0 THEN FinishOnOwner(pump.callback)
       ELSE UNCHANGED <<slot, doc, mail, heard, failures>>
    /\ UNCHANGED <<workers, open, ui, dialog, disk, edits, closes>>

\* The message loop runs it ...
RunPosted ==
    /\ Idle /\ posted > 0
    /\ posted' = posted - 1
    /\ RunOwnerCallback

\* ... or the next command does.
RecoverCallback ==
    /\ Idle /\ open /\ pump.callback # 0
    /\ RunOwnerCallback
    /\ UNCHANGED posted

\* The mailbox is presented, by its own wakeup or by the next command.
Present ==
    /\ Idle /\ pump.open /\ mail # <<>>
    /\ Announce(<<>>)
    /\ UNCHANGED <<slot, workers, pump, posted, open, ui, dialog, doc, disk, edits, closes>>

-----------------------------------------------------------------------------
(* Cancel *)

Owned(kind) == open /\ slot.kind = kind /\ slot.seam

RequestCancel == workers' = [workers EXCEPT ![Len(workers)].cancel = TRUE]

\* The command itself returns the terminal of a result that waits for the UI thread.
Told(g, what) == heard' = Append(heard, End(g, what))

\* _cancel_pgn_open: a prepared Open is still cancellable.
CancelOpen ==
    /\ Idle /\ Owned("open")
    /\ LET g == Len(workers)
       IN  /\ RequestCancel
           /\ IF slot.pending /\ ~slot.fenced
              THEN /\ slot' = Settled(slot)
                   /\ Told(g, IF workers[g].result = "failed" THEN "failed" ELSE "cancelled")
              ELSE UNCHANGED <<slot, heard>>
    /\ UNCHANGED <<pump, posted, mail, open, ui, dialog, doc, disk, edits, failures, closes>>

\* _cancel_pgn_save: a Save that has been written is finished instead.
CancelSave ==
    /\ Idle /\ Owned("save")
    /\ LET g == Len(workers)
       IN  IF slot.pending
           THEN /\ IF slot.fenced THEN UNCHANGED <<slot, doc, heard>>
                   ELSE FinishSave(g) /\ Told(g, SaveEnd(g))
                /\ UNCHANGED workers
           ELSE RequestCancel /\ UNCHANGED <<slot, doc, heard>>
    /\ UNCHANGED <<pump, posted, mail, open, ui, dialog, disk, edits, failures, closes>>

CancelImport ==
    /\ Idle /\ Owned("import")
    /\ RequestCancel
    /\ UNCHANGED <<slot, pump, posted, mail, heard, open, ui, dialog, doc, disk, edits, failures, closes>>

-----------------------------------------------------------------------------
(* The workers *)

\* What the work can come to; a cancel seen at the last check wins over success.
Outcome(g) == {"failed", IF workers[g].cancel THEN "cancelled" ELSE "ok"}

Work(g, result) == workers' = [workers EXCEPT ![g].result = result, ![g].at = "store"]

\* _run_pgn_open and the body of _run_import touch nothing the UI thread sees.
Prepare(g) ==
    /\ At(g, "run") /\ workers[g].kind # "save"
    /\ \E result \in Outcome(g) : Work(g, result)
    /\ UNCHANGED <<slot, pump, posted, mail, heard, open, ui, dialog, doc, disk, edits, failures, closes>>

\* The file has the fingerprint of the source: it is what the document took it for.
FileIsTheSource(g) == disk[workers[g].before.session] = workers[g].before.saved

\* publish_pgn_save_snapshot: the snapshot replaces the file it was opened from or
\* last saved to; a failure may have written it as well (publication unverified).
Publish(g) ==
    /\ At(g, "run") /\ workers[g].kind = "save"
    /\ \E result \in Outcome(g) :
          /\ Work(g, result)
          /\ \/ /\ result # "cancelled" /\ FileIsTheSource(g)
                /\ disk' = [disk EXCEPT ![workers[g].before.session] = workers[g].before.text]
             \/ result # "ok" /\ UNCHANGED disk
    /\ UNCHANGED <<slot, pump, posted, mail, heard, open, ui, dialog, doc, edits, failures, closes>>

StoresNothing(g) ==                        \* variant: the result goes to the callback only
    /\ At(g, "store") /\ workers[g].kind # "import" /\ Goto(g, "post")
    /\ UNCHANGED <<slot, pump, posted, mail, heard, open, ui, dialog, doc, disk, edits, failures, closes>>

\* The result is stored in the slot, if it is still this worker's.
Store(g) ==
    /\ At(g, "store") /\ workers[g].kind # "import"
    /\ slot' = IF Current(g) THEN [slot EXCEPT !.pending = TRUE] ELSE slot
    /\ Goto(g, "post")
    /\ UNCHANGED <<pump, posted, mail, heard, open, ui, dialog, doc, disk, edits, failures, closes>>

\* post_owner_callback retains the callback and asks for a wakeup; a post that
\* fails starts the timer.  The callback the UI thread runs first is the same.
PostCallback(g) ==
    /\ At(g, "post") /\ pump.open /\ pump.callback = 0
    /\ Goto(g, "end")
    /\ \/ /\ pump' = [pump EXCEPT !.callback = g, !.wake = TRUE]
          /\ posted' = posted + (IF pump.wake THEN 0 ELSE 1)
          /\ UNCHANGED failures
       \/ /\ MayFail /\ ~pump.wake
          /\ pump' = [pump EXCEPT !.callback = g, !.retry = TRUE]
          /\ UNCHANGED posted
    /\ UNCHANGED <<slot, mail, heard, open, ui, dialog, doc, disk, edits, closes>>

\* A recovered shutdown's cancel is told as such, everything else as a failure.
RefusedEnd(g) ==
    IF /\ workers[g].kind = "open" /\ slot.marker # 0
       /\ workers[g].cancel /\ workers[g].result # "failed"
    THEN "cancelled" ELSE "failed"

NeverWritten(g) == FALSE                   \* variant: every refused result gives up the slot

Written(g) == workers[g].kind = "save" /\ workers[g].result = "ok"

\* The pump is closed, or still retains a callback: it raises.  A written Save
\* keeps the slot; anything else gives it up, and ends as a failure.
PostRefused(g) ==
    /\ At(g, "post") /\ ~(pump.open /\ pump.callback = 0)
    /\ LET current == Current(g) /\ ~slot.fenced
       IN  /\ slot' = IF current /\ ~Written(g) THEN Settled(slot) ELSE slot
           /\ workers' = [workers EXCEPT ![g].at = IF current /\ ~Written(g) THEN "emit" ELSE "end",
                                         ![g].refused = Current(g),
                                         ![g].says = RefusedEnd(g)]
    /\ UNCHANGED <<pump, posted, mail, heard, open, ui, dialog, doc, disk, edits, failures, closes>>

\* _emit_if_current before the event: the import can no longer be cancelled.
ImportEnds(g) ==
    /\ At(g, "store") /\ workers[g].kind = "import"
    /\ slot' = IF Current(g) /\ ~slot.fenced
               THEN [slot EXCEPT !.pending = TRUE, !.seam = FALSE] ELSE slot
    /\ workers' = [workers EXCEPT ![g].at = IF Current(g) THEN "emit" ELSE "cleanup",
                                  ![g].says = IF workers[g].result = "ok" THEN "done"
                                              ELSE workers[g].result]
    /\ UNCHANGED <<pump, posted, mail, heard, open, ui, dialog, doc, disk, edits, failures, closes>>

\* The worker's own event, which a closed pump drops.
Emit(g) ==
    /\ At(g, "emit")
    /\ mail' = IF pump.open THEN Append(mail, End(g, workers[g].says)) ELSE mail
    /\ Goto(g, IF workers[g].kind = "import" THEN "cleanup" ELSE "end")
    /\ UNCHANGED <<slot, pump, posted, heard, open, ui, dialog, doc, disk, edits, failures, closes>>

\* The finally of _run_import.
Cleanup(g) ==
    /\ At(g, "cleanup")
    /\ slot' = IF Current(g) THEN Clear(slot) ELSE slot
    /\ Goto(g, "end")
    /\ UNCHANGED <<pump, posted, mail, heard, open, ui, dialog, doc, disk, edits, failures, closes>>

\* _retry_pending_owner_callback: one more post, and no further timer.
TimerFires ==
    /\ pump.retry
    /\ LET p == [pump EXCEPT !.retry = FALSE]
       IN  IF p.open /\ p.callback # 0 /\ ~p.wake
           THEN \/ pump' = [p EXCEPT !.wake = TRUE] /\ posted' = posted + 1 /\ UNCHANGED failures
                \/ pump' = p /\ MayFail /\ UNCHANGED posted
           ELSE pump' = p /\ UNCHANGED <<posted, failures>>
    /\ UNCHANGED <<slot, workers, mail, heard, open, ui, dialog, doc, disk, edits, closes>>

-----------------------------------------------------------------------------
(* Closing the window, and refusing to *)

\* shutdown of the delegate: the fence, the cancel and the marker of an Open.
CancelledByFence ==
    IF slot.seam THEN [workers EXCEPT ![Len(workers)].cancel = TRUE] ELSE workers

Fence ==
    /\ workers' = CancelledByFence
    /\ slot' = [slot EXCEPT !.fenced = TRUE,
                            !.marker = IF slot.seam /\ slot.kind = "open" /\ @ = 0
                                       THEN Len(workers) ELSE @]

\* shutdown of the application reaches the host runtime; a closed one is done.
Close ==
    /\ Idle /\ closes < MaxCloses
    /\ closes' = closes + 1
    /\ IF open THEN Fence /\ ui' = "joining" ELSE ui' = "stopping" /\ UNCHANGED <<slot, workers>>
    /\ UNCHANGED <<pump, posted, mail, heard, open, dialog, doc, disk, edits, failures>>

\* The join sees the end of the worker it took from the slot, if there was one.
Joined == slot.kind # "none" => At(Len(workers), "end")

\* pump.close(): timers are cancelled and the callback is dropped.
ClosedPump == [open |-> FALSE, callback |-> 0, wake |-> FALSE, retry |-> FALSE]

\* The rest of shutdown: an Open is abandoned, a written Save is committed, and
\* then the runtime and its pump close.
Retire ==
    /\ ui \in {"joining", "rejoining"} /\ Joined
    /\ IF slot.kind = "save" /\ slot.pending
       THEN FinishSave(Len(workers)) /\ Announce(<<End(Len(workers), SaveEnd(Len(workers)))>>)
       ELSE slot' = Clear(slot) /\ UNCHANGED <<doc, mail, heard, failures>>
    /\ open' = FALSE /\ pump' = ClosedPump
    /\ ui' = IF ui = "joining" THEN "stopping" ELSE "idle"
    /\ UNCHANGED <<workers, posted, dialog, disk, edits, closes>>

\* A bounded join ends first: nothing is closed, the fence stays.
JoinTimesOut ==
    /\ ui \in {"joining", "rejoining"} /\ ~Joined
    /\ ui' = IF ui = "joining" THEN "refused" ELSE "idle"
    /\ UNCHANGED <<slot, workers, pump, posted, mail, heard, open, dialog, doc, disk, edits, failures, closes>>

PumpMayResume == pump.open \/ pump = ClosedPump

\* The delegate opens again when it is idle, or for the cancelled worker it has.
DelegateMayResume ==
    \/ slot.kind = "none"
    \/ slot.seam /\ workers[Len(workers)].cancel /\ (slot.kind = "import" => ~slot.pending)

MarkerEnd == IF workers[slot.marker].result = "failed" THEN "failed" ELSE "cancelled"

OwesNothing == <<>>                        \* variant: an abandoned Open is not told

\* The abandoned Open is told only when nothing holds the slot any more.
OwedTerminal == IF slot.marker # 0 /\ slot.kind = "none" THEN <<End(slot.marker, MarkerEnd)>> ELSE <<>>

ForgetMarker(s) == IF s.kind = "none" THEN [s EXCEPT !.marker = 0] ELSE s

PumpLeftClosed == pump                     \* variant: only the other half is opened again

PumpReopened == [pump EXCEPT !.open = TRUE]

\* Nothing may ever follow "stopping": the program has ended.  Or it could not save
\* everything else, and refuses to close, as it does when a worker does not end.
\* resume_after_refused_shutdown of pump, runtime and delegate: all of them open and
\* the mailbox is heard, or they are closed again by the application, which
\* does so as well when another worker of the program does not resume.
Resume ==
    /\ ui \in {"stopping", "refused"}
    /\ IF PumpMayResume /\ DelegateMayResume
       THEN /\ open' = TRUE /\ pump' = PumpReopened
            /\ slot' = [ForgetMarker(slot) EXCEPT !.fenced = FALSE]
            /\ Announce(OwedTerminal)
            /\ \/ mail' = <<>> /\ ui' = "idle"
               \/ ui' = "refencing"
       ELSE ui' = "refencing" /\ UNCHANGED <<slot, pump, mail, heard, open, failures>>
    /\ UNCHANGED <<workers, posted, dialog, doc, disk, edits, closes>>

\* The application fences again what it has attempted, without waiting.
Refence ==
    /\ ui = "refencing"
    /\ IF open THEN Fence /\ ui' = "rejoining" ELSE ui' = "idle" /\ UNCHANGED <<slot, workers>>
    /\ UNCHANGED <<pump, posted, mail, heard, open, dialog, doc, disk, edits, failures, closes>>

-----------------------------------------------------------------------------

Commands ==
    \/ Edit \/ OpenDialog("open") \/ OpenDialog("import") \/ Choose \/ StartSave
    \/ CancelOpen \/ CancelSave \/ CancelImport

WorkerStep(g) ==
    \/ Prepare(g) \/ Publish(g) \/ Store(g) \/ PostCallback(g) \/ PostRefused(g)
    \/ ImportEnds(g) \/ Emit(g) \/ Cleanup(g)

Shutdown ==
    Close \/ Retire \/ JoinTimesOut \/ Resume \/ Refence

Next ==
    \/ Commands \/ RunPosted \/ RecoverCallback \/ Present \/ TimerFires \/ Shutdown
    \/ \E g \in Generations : WorkerStep(g)

Spec == Init /\ [][Next]_vars

\* Threads and the timer run; the UI thread runs its message loop and finishes
\* a close that it has begun.  Nothing makes the user or the failures act.
Fairness ==
    /\ \A g \in 1 .. MaxGenerations : WF_vars(g \in Generations /\ WorkerStep(g))
    /\ WF_vars(RunPosted) /\ WF_vars(Present) /\ WF_vars(TimerFires)
    /\ WF_vars(Retire \/ (ui = "refused" /\ Resume) \/ Refence)

FairSpec == Spec /\ Fairness

-----------------------------------------------------------------------------
(* Properties *)

Announced == heard \o mail

Ended(g) == \E i \in DOMAIN Announced : Announced[i].gen = g

\* No operation ends twice, however its worker, a cancel, a shutdown and the
\* recovery from a refused one race to say how it ended.
OneTerminal ==
    \A i, j \in DOMAIN Announced : Announced[i].gen = Announced[j].gen => i = j

\* A Save that has replaced the file is never forgotten: it is on its way to the
\* UI thread, or its result waits in the slot, or its end has been announced,
\* and never as a cancellation.
WrittenSaveIsKept ==
    \A g \in Generations :
        workers[g].kind = "save" /\ workers[g].result = "ok" =>
            /\ Ended(g) \/ (Current(g) /\ (slot.pending \/ At(g, "store")))
            /\ \A i \in DOMAIN Announced : Announced[i] # End(g, "cancelled")

\* How an operation ended is told once, and a Save that succeeded is told as one.
EndedTruly == OneTerminal /\ WrittenSaveIsKept

\* Save g has written its snapshot and the document does not take it to be saved:
\* its result still holds the slot, or it could not be verified and failed.
WrittenNotCommitted(g) ==
    /\ workers[g].kind = "save" /\ workers[g].before.session = doc.session
    /\ workers[g].before.saved = doc.saved /\ workers[g].before.text = disk[doc.session]
    /\ workers[g].result = "failed" \/ (workers[g].result = "ok" /\ Current(g))

\* What a document takes to be saved, and is shown as clean when it says just that, is
\* what its file holds, whatever was edited, undone, cancelled or closed meanwhile;
\* unless the file holds the snapshot of a Save that has not been committed.
SavedMeansOnDisk ==
    disk[doc.session] = doc.saved \/ \E g \in Generations : WrittenNotCommitted(g)

\* An occupied slot, which refuses every other file command, has a worker that
\* is still running or a result that a cancel or a shutdown can finish.
SlotHasAnOwner ==
    slot.kind # "none" => ~At(Len(workers), "end") \/ slot.pending

\* The runtime and its pump are open or closed together; what is closed has no
\* worker and takes no file command.
HalvesAgree ==
    /\ open = pump.open
    /\ ~open => slot.fenced /\ slot.kind = "none"

\* Between any two steps the slot, the runtime and its pump can be released again.
SlotAccountedFor == TypeOK /\ SlotHasAnOwner /\ HalvesAgree

\* The document is replaced only by an Open that nobody has cancelled, on the
\* document the user agreed to discard, not behind the fence of a shutdown, and
\* exactly when the user is told so.
OpenedAsTold ==
    [][LET Opens(g) == Announced' = Append(Announced, End(g, "done"))
       IN  /\ doc'.session # doc.session =>
                LET g == doc'.session
                IN  /\ Opens(g) /\ doc = workers[g].before
                    /\ ~slot.fenced /\ ~workers[g].cancel
           /\ \A g \in Generations :
                workers[g].kind = "open" /\ Opens(g) => doc'.session = g]_vars

\* Every operation ends for the user, unless the window stays fenced after a
\* shutdown it could not recover from, or the pump refused its result.
EveryOperationEnds ==
    \/ <>[](slot.fenced)
    \/ []<>(\A g \in Generations :
                workers[g].refused \/ \E i \in DOMAIN heard : heard[i].gen = g)
=============================================================================
