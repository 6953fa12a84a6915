-------------------------- MODULE FileWorkflowsProofs --------------------------
(* Proofs about FileWorkflows: any number of operations, edits, failures and    *)
(* attempts to close the window, in any order that the locks leave.             *)
EXTENDS FileWorkflows, SequenceTheorems, TLAPS

(* What a worker, the slot and the pump are. *)
Worker == [kind : Kinds, at : Stages, cancel : BOOLEAN, result : Results, says : Whats,
           before : Document, refused : BOOLEAN]
SlotRecord == [kind : Kinds \cup {"none"}, seam : BOOLEAN, pending : BOOLEAN,
               fenced : BOOLEAN, marker : Nat]
PumpRecord == [open : BOOLEAN, callback : Nat, wake : BOOLEAN, retry : BOOLEAN]

-----------------------------------------------------------------------------
(* The inductive invariant *)

\* The dialogs that are opened: that of an import has captured no document.
Dialogs == {d \in Dialog : d.kind = "import" => d.before = Opened(0)}

\* The newest worker, which has the slot when it is occupied.
Newest == Len(workers)

Typed ==
    /\ posted \in Nat
    /\ heard \in Seq(Terminal) /\ mail \in Seq(Terminal)
    /\ open \in BOOLEAN /\ ui \in UiStates
    /\ dialog \in Dialogs \cup {None} /\ doc \in Document
    /\ disk \in [{0} \cup Generations -> Texts]

\* An occupied slot is its worker's: of an Open or a Save the result is pending when the
\* worker has stored it, an import gives it up before it ends.
SlotSound ==
    /\ slot.seam => slot.kind # "none"
    /\ slot.pending => slot.kind # "none"
    /\ slot.kind # "none" =>
          /\ Newest # 0 /\ workers[Newest].kind = slot.kind
          /\ IF slot.kind = "import"
             THEN /\ ~At(Newest, "end")
                  /\ slot.pending => workers[Newest].at \in {"emit", "cleanup"}
             ELSE /\ slot.seam /\ workers[Newest].at \in {"run", "store", "post", "end"}
                  /\ slot.pending <=> workers[Newest].at \in {"post", "end"}

\* Where a worker is, and what it may still do.
WorkerSound(g) ==
    /\ workers[g].result = "none" <=> At(g, "run")
    /\ IF workers[g].kind = "import" THEN ~At(g, "post") ELSE ~At(g, "cleanup")
    /\ At(g, "run") \/ At(g, "store") => Current(g)
    /\ workers[g].kind = "import" /\ ~At(g, "end") => Current(g)
    /\ At(g, "emit") =>
          /\ workers[g].kind # "import" => ~Current(g)
          /\ workers[g].says = "cancelled" => workers[g].kind # "save"
          /\ workers[g].says = "done" => workers[g].kind = "import"
    /\ workers[g].before.session < g

\* An Open that a shutdown has cancelled has the slot, or has lost it behind the fence
\* and is still to be told.
MarkerSound ==
    slot.marker # 0 =>
        /\ slot.marker = Newest /\ workers[Newest].kind = "open"
        /\ \/ slot.kind = "open"
           \/ slot.kind = "none" /\ slot.fenced /\ At(Newest, "end")

SlotInv ==
    /\ slot \in SlotRecord /\ workers \in Seq(Worker)
    /\ SlotSound /\ MarkerSound
    /\ \A g \in Generations : WorkerSound(g)

\* A callback is retained for a worker that has ended, and a join is behind the fence.
PumpSound ==
    /\ pump \in PumpRecord
    /\ pump.callback # 0 =>
          /\ pump.callback \in Generations
          /\ At(pump.callback, "end") /\ workers[pump.callback].kind # "import"
    /\ ui \in {"joining", "rejoining"} => slot.fenced /\ open

\* Whoever has been told the end of an operation will not be told it again.
TerminalSound(t) ==
    /\ t.gen \in Generations /\ t.gen # slot.marker
    /\ IF workers[t.gen].kind = "import" THEN workers[t.gen].at \in {"cleanup", "end"}
       ELSE workers[t.gen].at \in {"post", "end"} /\ ~Current(t.gen)
    /\ t.what = "cancelled" /\ workers[t.gen].kind = "save" => workers[t.gen].result = "cancelled"

\* A Save that has been written is told, or will be.
SavesKept ==
    \A g \in Generations :
        workers[g].kind = "save" /\ workers[g].result = "ok" =>
            Ended(g) \/ (Current(g) /\ (slot.pending \/ At(g, "store")))

TerminalsSound == \A i \in DOMAIN Announced : TerminalSound(Announced[i])

ToldInv == TerminalsSound /\ OneTerminal /\ SavesKept

\* The document and its files: whoever has the slot works on them as they are.
DocSound ==
    /\ doc.session <= Newest
    /\ slot.kind = "open" => disk[Newest] = 0 /\ doc.session < Newest
    /\ slot.kind = "save" =>
          /\ doc.session = workers[Newest].before.session
          /\ doc.saved = workers[Newest].before.saved
          /\ workers[Newest].result = "ok" =>
                disk[workers[Newest].before.session] = workers[Newest].before.text

DocInv == DocSound /\ SavedMeansOnDisk

FilesInv == Typed /\ SlotInv /\ PumpSound /\ HalvesAgree /\ ToldInv /\ DocInv

-----------------------------------------------------------------------------
(* The slot and the workers *)

\* What is known of a worker.
LEMMA WorkerFields ==
  ASSUME SlotInv
  PROVE  /\ Newest \in Nat /\ Generations = 1..Newest /\ DOMAIN workers = Generations
         /\ Newest # 0 => Newest \in Generations
         /\ \A g \in Generations :
               /\ workers[g] \in Worker /\ WorkerSound(g) /\ g \in Nat /\ g # 0
               /\ workers[g].kind \in Kinds /\ workers[g].at \in Stages
               /\ workers[g].result \in Results /\ workers[g].says \in Whats
               /\ workers[g].before \in Document
         /\ slot.kind \in Kinds \cup {"none"} /\ slot.seam \in BOOLEAN /\ slot.pending \in BOOLEAN
         /\ slot.fenced \in BOOLEAN /\ slot.marker \in Nat
<1>1. Newest \in Nat /\ Generations = 1..Newest /\ DOMAIN workers = Generations
  BY LenProperties DEF SlotInv, Generations, Newest
<1>2. \A g \in Generations : workers[g] \in Worker
  BY <1>1, ElementOfSeq DEF SlotInv, Newest
<1>3. \A g \in Generations : WorkerSound(g)
  BY DEF SlotInv
<1>4. \A g \in Generations :
         /\ workers[g].kind \in Kinds /\ workers[g].at \in Stages
         /\ workers[g].result \in Results /\ workers[g].says \in Whats
         /\ workers[g].before \in Document
  BY <1>2 DEF Worker
<1>5. /\ slot.kind \in Kinds \cup {"none"} /\ slot.seam \in BOOLEAN /\ slot.pending \in BOOLEAN
      /\ slot.fenced \in BOOLEAN /\ slot.marker \in Nat
  BY DEF SlotInv, SlotRecord
<1> QED
  BY <1>1, <1>2, <1>3, <1>4, <1>5

\* One worker has moved.
LEMMA WorkerChanged ==
  ASSUME SlotInv, NEW g \in Generations, NEW w \in Worker, workers' = [workers EXCEPT ![g] = w]
  PROVE  /\ workers' \in Seq(Worker) /\ Newest' = Newest /\ Generations' = Generations
         /\ workers'[g] = w /\ \A h \in Generations : h # g => workers'[h] = workers[h]
<1>1. workers \in Seq(Worker) /\ DOMAIN workers = Generations /\ Generations = 1..Len(workers)
  BY WorkerFields DEF SlotInv, Newest
<1>2. workers' \in Seq(Worker) /\ Len(workers') = Len(workers)
  BY <1>1, ExceptSeq
<1>3. workers'[g] = w /\ \A h \in Generations : h # g => workers'[h] = workers[h]
  BY <1>1
<1> QED
  BY <1>2, <1>3 DEF Newest, Generations

\* The workers are where they were: a cancel has been requested at most.
SameWorkers ==
    /\ workers' \in Seq(Worker) /\ Newest' = Newest /\ Generations' = Generations
    /\ \A g \in Generations :
          /\ workers'[g].kind = workers[g].kind /\ workers'[g].at = workers[g].at
          /\ workers'[g].result = workers[g].result /\ workers'[g].says = workers[g].says
          /\ workers'[g].before = workers[g].before

\* Requests of a cancel leave the workers where they were.
LEMMA CancelRequested ==
  ASSUME SlotInv, UNCHANGED workers \/ (Newest # 0 /\ RequestCancel)
  PROVE  SameWorkers
<1>1. CASE UNCHANGED workers
  BY <1>1 DEF SlotInv, SameWorkers, Newest, Generations
<1>2. CASE Newest # 0 /\ RequestCancel
  <2> DEFINE w == [workers[Newest] EXCEPT !.cancel = TRUE]
  <2>1. Newest \in Generations /\ workers[Newest] \in Worker
    BY <1>2, WorkerFields
  <2>2. workers' = [workers EXCEPT ![Newest] = w]
    BY <1>2 DEF RequestCancel, Newest
  <2>3. /\ w \in Worker /\ w.kind = workers[Newest].kind /\ w.at = workers[Newest].at
        /\ w.result = workers[Newest].result /\ w.says = workers[Newest].says
        /\ w.before = workers[Newest].before
    BY <2>1 DEF Worker
  <2> HIDE DEF w
  <2>4. /\ workers' \in Seq(Worker) /\ Newest' = Newest /\ Generations' = Generations
        /\ workers'[Newest] = w
        /\ \A h \in Generations : h # Newest => workers'[h] = workers[h]
    BY <2>1, <2>2, <2>3, WorkerChanged
  <2> QED
    BY <2>3, <2>4 DEF SameWorkers
<1> QED
  BY <1>1, <1>2

\* The marker stays behind its fence, or goes, or is set for an Open.
Marking ==
    \/ slot'.marker = slot.marker /\ (slot.fenced => slot'.fenced)
    \/ slot'.marker = 0
    \/ slot'.marker = Newest /\ slot.kind = "open"

\* Nothing has happened to the slot, except to its fence and its marker.
LEMMA SlotKept ==
  ASSUME SlotInv, SameWorkers, slot' \in SlotRecord,
         slot'.kind = slot.kind, slot'.seam = slot.seam, slot'.pending = slot.pending,
         Marking
  PROVE  SlotInv'
<1>1. Newest \in Nat /\ (Newest # 0 => Newest \in Generations)
  BY WorkerFields
<1>2. SlotSound'
  <2>1. Newest # 0 => workers'[Newest].kind = workers[Newest].kind
                      /\ workers'[Newest].at = workers[Newest].at
    BY <1>1 DEF SameWorkers
  <2>2. Newest' = Newest
    BY DEF SameWorkers
  <2> QED
    BY <2>1, <2>2 DEF SlotInv, SlotSound, At
<1>3. MarkerSound'
  <2> SUFFICES ASSUME slot'.marker # 0
               PROVE  /\ slot'.marker = Newest' /\ workers'[Newest'].kind = "open"
                      /\ \/ slot'.kind = "open"
                         \/ slot'.kind = "none" /\ slot'.fenced /\ workers'[Newest'].at = "end"
    BY DEF MarkerSound, At
  <2>1. CASE slot'.marker = slot.marker /\ (slot.fenced => slot'.fenced)
    <3>1. /\ slot.marker = Newest /\ workers[Newest].kind = "open"
          /\ \/ slot.kind = "open"
             \/ slot.kind = "none" /\ slot.fenced /\ workers[Newest].at = "end"
      BY <2>1 DEF SlotInv, MarkerSound, At
    <3>2. Newest \in Generations
      BY <1>1, <2>1, <3>1
    <3> QED
      BY <2>1, <3>1, <3>2 DEF SameWorkers
  <2>2. CASE slot'.marker = Newest /\ slot.kind = "open"
    <3>1. Newest \in Generations /\ workers[Newest].kind = "open"
      BY <1>1, <2>2 DEF SlotInv, SlotSound
    <3> QED
      BY <2>2, <3>1 DEF SameWorkers
  <2> QED
    BY <2>1, <2>2 DEF Marking
<1>4. \A g \in Generations' : WorkerSound(g)'
  BY DEF SlotInv, SameWorkers, WorkerSound, At, Current, Newest
<1> QED
  BY <1>2, <1>3, <1>4 DEF SlotInv, SameWorkers

\* The slot after it has been given up.
LEMMA Released ==
  ASSUME slot \in SlotRecord
  PROVE  /\ LET c == Clear(slot)
            IN  /\ c \in SlotRecord /\ c.kind = "none" /\ ~c.seam /\ ~c.pending
                /\ c.fenced = slot.fenced /\ c.marker = slot.marker
         /\ LET s == Settled(slot)
            IN  /\ s \in SlotRecord /\ s.kind = "none" /\ ~s.seam /\ ~s.pending
                /\ s.fenced = slot.fenced /\ s.marker = 0
<1> DEFINE c == Clear(slot)
           s == Settled(slot)
<1>1. /\ c \in SlotRecord /\ c.kind = "none" /\ ~c.seam /\ ~c.pending
      /\ c.fenced = slot.fenced /\ c.marker = slot.marker
  BY DEF Clear, SlotRecord
<1>2. s = [c EXCEPT !.marker = 0]
  BY DEF Settled
<1> HIDE DEF c
<1>3. /\ s \in SlotRecord /\ s.kind = c.kind /\ s.seam = c.seam
      /\ s.pending = c.pending /\ s.fenced = c.fenced /\ s.marker = 0
  BY <1>1, <1>2 DEF SlotRecord
<1> HIDE DEF s
<1> QED
  BY <1>1, <1>3 DEF c, s

\* The slot is given up by a worker that has stored its result.
LEMMA SlotReleased ==
  ASSUME SlotInv, SameWorkers,
         slot' = Clear(slot) \/ slot' = Settled(slot),
         slot.kind # "none" => workers[Newest].at \in {"post", "end"},
         slot' = Clear(slot) /\ slot.marker # 0 => slot.fenced /\ At(Newest, "end")
  PROVE  SlotInv' /\ slot'.kind = "none" /\ slot'.fenced = slot.fenced
<1>1. /\ slot' \in SlotRecord /\ slot'.kind = "none" /\ ~slot'.seam /\ ~slot'.pending
      /\ slot'.fenced = slot.fenced /\ slot'.marker \in {0, slot.marker}
      /\ (slot' = Clear(slot) \/ slot'.marker = 0)
  <2>1. slot \in SlotRecord
    BY DEF SlotInv
  <2> QED
    BY <2>1, Released
<1>2. SlotSound'
  BY <1>1 DEF SlotSound
<1>3. MarkerSound'
  <2> SUFFICES ASSUME slot'.marker # 0
               PROVE  /\ slot'.marker = Newest' /\ workers'[Newest'].kind = "open"
                      /\ slot'.fenced /\ workers'[Newest'].at = "end"
    BY <1>1 DEF MarkerSound, At
  <2>1. /\ slot.marker = Newest /\ workers[Newest].kind = "open" /\ slot.marker = slot'.marker
        /\ slot.fenced /\ workers[Newest].at = "end"
    BY <1>1 DEF SlotInv, MarkerSound, At
  <2>2. Newest \in Generations
    BY <2>1, WorkerFields
  <2> QED
    BY <1>1, <2>1, <2>2 DEF SameWorkers
<1>4. \A g \in Generations' : WorkerSound(g)'
  <2> SUFFICES ASSUME NEW g \in Generations
               PROVE  WorkerSound(g)'
    BY DEF SameWorkers
  <2>1. WorkerSound(g) /\ workers[g].kind \in Kinds
    BY WorkerFields
  <2>2. ~Current(g)'
    <3>1. workers'[g].kind # "none"
      BY <2>1 DEF SameWorkers, Kinds
    <3> QED
      BY <1>1, <3>1 DEF Current
  <2>3. ~At(g, "run") /\ ~At(g, "store") /\ (workers[g].kind = "import" => At(g, "end"))
    <3>1. Current(g) => g = Newest /\ slot.kind # "none"
      BY <2>1 DEF Current, Newest, Kinds
    <3> QED
      BY <2>1, <3>1 DEF WorkerSound, At
  <2> QED
    BY <2>1, <2>2, <2>3 DEF SameWorkers, WorkerSound, At
<1> QED
  BY <1>1, <1>2, <1>3, <1>4 DEF SlotInv, SameWorkers

\* One worker has moved, and it is the newest if the slot has changed.
Moved(g) ==
    /\ workers' \in Seq(Worker) /\ Newest' = Newest /\ Generations' = Generations
    /\ workers'[g].kind = workers[g].kind /\ workers'[g].before = workers[g].before
    /\ \A h \in Generations : h # g => workers'[h] = workers[h]

\* What has to be shown of a worker that moves.
LEMMA WorkerMoved ==
  ASSUME SlotInv, NEW g \in Generations, Moved(g), slot' \in SlotRecord,
         g = Newest => SlotSound' /\ MarkerSound', g # Newest => slot' = slot,
         WorkerSound(g)'
  PROVE  SlotInv'
<1>1. Newest \in Nat /\ (Newest # 0 => Newest \in Generations) /\ slot.marker \in Nat
  BY WorkerFields
<1>2. SlotSound'
  <2>1. CASE g # Newest
    <3>1. Newest # 0 => workers'[Newest] = workers[Newest]
      BY <1>1, <2>1 DEF Moved
    <3> QED
      BY <2>1, <3>1 DEF SlotInv, SlotSound, At, Moved
  <2> QED
    BY <2>1
<1>3. MarkerSound'
  <2>1. CASE g # Newest
    <3>1. slot.marker # 0 => slot.marker = Newest
      BY DEF SlotInv, MarkerSound
    <3>2. slot.marker # 0 => workers'[Newest] = workers[Newest]
      BY <1>1, <2>1, <3>1 DEF Moved
    <3> QED
      BY <2>1, <3>1, <3>2 DEF SlotInv, MarkerSound, At, Moved
  <2> QED
    BY <2>1
<1>4. \A h \in Generations' : WorkerSound(h)'
  <2> SUFFICES ASSUME NEW h \in Generations, h # g
               PROVE  WorkerSound(h)'
    BY DEF Moved
  <2>1. WorkerSound(h) /\ workers'[h] = workers[h]
    BY DEF SlotInv, Moved
  <2>2. Current(h)' <=> Current(h)
    BY <2>1 DEF Current, Moved, Newest
  <2> QED
    BY <2>1, <2>2 DEF WorkerSound, At
<1> QED
  BY <1>2, <1>3, <1>4 DEF SlotInv, Moved

\* The worker has become w.
LEMMA MovedTo ==
  ASSUME SlotInv, NEW g \in Generations, NEW w \in Worker,
         w.kind = workers[g].kind, w.before = workers[g].before,
         workers' = [workers EXCEPT ![g] = w]
  PROVE  Moved(g) /\ workers'[g] = w
<1>1. /\ workers' \in Seq(Worker) /\ Newest' = Newest /\ Generations' = Generations
      /\ workers'[g] = w /\ \A h \in Generations : h # g => workers'[h] = workers[h]
  BY WorkerChanged
<1> QED
  BY <1>1 DEF Moved

\* The next place of a worker.
LEMMA GoneTo ==
  ASSUME SlotInv, NEW g \in Generations, NEW stage \in Stages, Goto(g, stage)
  PROVE  /\ Moved(g) /\ workers'[g].at = stage /\ workers'[g].result = workers[g].result
         /\ workers'[g].says = workers[g].says
<1> DEFINE w == [workers[g] EXCEPT !.at = stage]
<1>1. workers[g] \in Worker
  BY WorkerFields
<1>2. /\ w \in Worker /\ w.kind = workers[g].kind /\ w.before = workers[g].before
      /\ w.at = stage /\ w.result = workers[g].result /\ w.says = workers[g].says
  BY <1>1 DEF Worker
<1>3. workers' = [workers EXCEPT ![g] = w]
  BY DEF Goto
<1> HIDE DEF w
<1> QED
  BY <1>2, <1>3, MovedTo

\* What the work has come to.
LEMMA WorkedOut ==
  ASSUME SlotInv, NEW g \in Generations, NEW result \in Results, Work(g, result)
  PROVE  /\ Moved(g) /\ workers'[g].at = "store" /\ workers'[g].result = result
<1> DEFINE w == [workers[g] EXCEPT !.result = result, !.at = "store"]
<1>1. workers[g] \in Worker
  BY WorkerFields
<1>2. /\ w \in Worker /\ w.kind = workers[g].kind /\ w.before = workers[g].before
      /\ w.at = "store" /\ w.result = result
  BY <1>1 DEF Worker, Stages
<1>3. workers' = [workers EXCEPT ![g] = w]
  BY DEF Work
<1> HIDE DEF w
<1> QED
  BY <1>2, <1>3, MovedTo

\* What a worker says at its end, and where it goes to say it.
LEMMA SaysAt ==
  ASSUME SlotInv, NEW g \in Generations, NEW stage \in Stages, NEW what \in Whats,
         workers' = [workers EXCEPT ![g].at = stage, ![g].says = what]
  PROVE  /\ Moved(g) /\ workers'[g].at = stage /\ workers'[g].result = workers[g].result
         /\ workers'[g].says = what
<1> DEFINE w == [workers[g] EXCEPT !.at = stage, !.says = what]
<1>1. workers[g] \in Worker
  BY WorkerFields
<1>2. w \in Worker /\ w.kind = workers[g].kind /\ w.before = workers[g].before
  BY <1>1 DEF Worker
<1>3. w.at = stage /\ w.result = workers[g].result /\ w.says = what
  BY <1>1 DEF Worker
<1>4. workers' = [workers EXCEPT ![g] = w]
  OBVIOUS
<1> HIDE DEF w
<1> QED
  BY <1>2, <1>3, <1>4, MovedTo

\* The same of a worker whose result the pump refuses.
LEMMA RefusedAt ==
  ASSUME SlotInv, NEW g \in Generations, NEW stage \in Stages, NEW what \in Whats,
         NEW r \in BOOLEAN,
         workers' = [workers EXCEPT ![g].at = stage, ![g].refused = r, ![g].says = what]
  PROVE  /\ Moved(g) /\ workers'[g].at = stage /\ workers'[g].result = workers[g].result
         /\ workers'[g].says = what
<1> DEFINE w == [workers[g] EXCEPT !.at = stage, !.refused = r, !.says = what]
<1>1. workers[g] \in Worker
  BY WorkerFields
<1>2. w \in Worker /\ w.kind = workers[g].kind /\ w.before = workers[g].before
  BY <1>1 DEF Worker
<1>3. w.at = stage /\ w.result = workers[g].result /\ w.says = what
  BY <1>1 DEF Worker
<1>4. workers' = [workers EXCEPT ![g] = w]
  OBVIOUS
<1> HIDE DEF w
<1> QED
  BY <1>2, <1>3, <1>4, MovedTo

\* A worker keeps its kind and its result, does not get the slot back, and once it is
\* past its own event it never comes to it again.
Progress(g) ==
    /\ workers'[g].kind = workers[g].kind /\ (Current(g)' => Current(g))
    /\ workers[g].result # "none" => workers'[g].result = workers[g].result
    /\ At(g, "end") => workers'[g].at = "end"
    /\ At(g, "post") /\ ~Current(g) => workers'[g].at \in {"post", "end"}
    /\ At(g, "cleanup") => workers'[g].at \in {"cleanup", "end"}

\* The steps of the workers and of the slot go one way.
Onward ==
    /\ Generations \subseteq Generations' /\ \A g \in Generations : Progress(g)
    /\ slot'.marker \in {0, slot.marker} \/ (slot'.marker \in Generations /\ Current(slot'.marker))

\* A worker that moves goes on, and so do those that stay.
LEMMA MovedOnward ==
  ASSUME SlotInv, NEW g \in Generations, Moved(g), Progress(g),
         slot'.kind \in {slot.kind, "none"}, slot'.marker \in {0, slot.marker}
  PROVE  Onward
<1>1. \A h \in Generations : h # g => Progress(h)
  <2> SUFFICES ASSUME NEW h \in Generations, h # g
               PROVE  Progress(h)
    OBVIOUS
  <2>1. workers'[h] = workers[h] /\ workers[h].kind # "none" /\ Newest' = Newest
    BY WorkerFields DEF Moved, Kinds
  <2> QED
    BY <2>1 DEF Progress, Current, At, Newest
<1> QED
  BY <1>1 DEF Onward, Moved

\* Workers that stay go on.
LEMMA SameOnward ==
  ASSUME SlotInv, SameWorkers, slot'.kind \in {slot.kind, "none"},
         slot'.marker \in {0, slot.marker} \/ (slot'.marker = Newest /\ slot.kind = "open")
  PROVE  Onward
<1>1. ASSUME NEW h \in Generations
      PROVE  Progress(h)
  <2>1. workers[h].kind # "none"
    BY WorkerFields DEF Kinds
  <2> QED
    BY <2>1 DEF SameWorkers, Progress, Current, At, Newest
<1>2. slot'.marker = Newest /\ slot.kind = "open" =>
         slot'.marker \in Generations /\ Current(slot'.marker)
  BY WorkerFields DEF SlotInv, SlotSound, Current, Newest
<1> QED
  BY <1>1, <1>2 DEF Onward, SameWorkers

\* The work ends.
LEMMA WorkedSlot ==
  ASSUME SlotInv, NEW g \in Generations, Prepare(g) \/ Publish(g)
  PROVE  /\ SlotInv' /\ Onward /\ slot' = slot /\ Moved(g) /\ Current(g) /\ workers'[g].at = "store"
         /\ workers'[g].result \in Outcome(g)
<1>1. PICK result \in Outcome(g) : Work(g, result)
  BY DEF Prepare, Publish
<1>2. result \in Results /\ result # "none"
  BY <1>1 DEF Outcome, Results
<1>3. Moved(g) /\ workers'[g].at = "store" /\ workers'[g].result = result
  BY <1>1, <1>2, WorkedOut
<1>4. slot' = slot /\ At(g, "run")
  BY DEF Prepare, Publish
<1>5. WorkerSound(g) /\ Current(g) /\ g = Newest /\ slot.kind = workers[g].kind
  BY <1>4, WorkerFields DEF WorkerSound, Current, Newest
<1>6. Current(g)'
  BY <1>3, <1>4, <1>5 DEF Current, Moved, Newest
<1>7. WorkerSound(g)'
  BY <1>2, <1>3, <1>4, <1>5, <1>6 DEF WorkerSound, At, Moved
<1>8. slot.kind # "none" /\ slot.kind \in Kinds
  BY <1>5, WorkerFields DEF Kinds
<1>9. SlotSound'
  <2>1. SlotSound
    BY DEF SlotInv
  <2> QED
    BY <1>3, <1>4, <1>5, <2>1 DEF SlotSound, At, Moved
<1>10. MarkerSound'
  <2>1. MarkerSound
    BY DEF SlotInv
  <2> QED
    BY <1>3, <1>4, <1>5, <1>8, <2>1 DEF MarkerSound, At, Moved
<1>11. SlotInv'
  <2>1. slot' \in SlotRecord
    BY <1>4 DEF SlotInv
  <2> QED
    BY <1>3, <1>4, <1>7, <1>9, <1>10, <2>1, WorkerMoved
<1>12. Progress(g)
  BY <1>3, <1>4, <1>5 DEF Progress, At, Moved, WorkerSound
<1> QED
  BY <1>1, <1>3, <1>4, <1>5, <1>11, <1>12, MovedOnward

\* The result of an Open or a Save is stored.
LEMMA StoreSlot ==
  ASSUME SlotInv, NEW g \in Generations, Store(g)
  PROVE  /\ SlotInv' /\ Onward /\ slot' = [slot EXCEPT !.pending = TRUE] /\ Moved(g)
         /\ Current(g) /\ Current(g)' /\ workers'[g].at = "post"
         /\ workers'[g].result = workers[g].result /\ workers[g].kind # "import"
<1>1. At(g, "store") /\ workers[g].kind # "import" /\ Goto(g, "post")
  BY DEF Store
<1>2. /\ Moved(g) /\ workers'[g].at = "post" /\ workers'[g].result = workers[g].result
      /\ workers'[g].says = workers[g].says
  <2>1. "post" \in Stages
    BY DEF Stages
  <2> QED
    BY <1>1, <2>1, GoneTo
<1>3. WorkerSound(g) /\ Current(g) /\ g = Newest /\ slot.kind = workers[g].kind
  BY <1>1, WorkerFields DEF WorkerSound, Current, Newest
<1>4. slot' = [slot EXCEPT !.pending = TRUE]
  BY <1>3 DEF Store
<1>5. /\ slot' \in SlotRecord /\ slot'.kind = slot.kind /\ slot'.seam = slot.seam /\ slot'.pending
      /\ slot'.fenced = slot.fenced /\ slot'.marker = slot.marker
  BY <1>4 DEF SlotInv, SlotRecord
<1>6. Current(g)'
  BY <1>2, <1>3, <1>5 DEF Current, Moved, Newest
<1>7. WorkerSound(g)'
  BY <1>1, <1>2, <1>3, <1>6 DEF WorkerSound, At, Moved
<1>8. slot.kind # "none"
  BY <1>3, WorkerFields DEF Kinds
<1>9. SlotSound'
  <2>1. SlotSound
    BY DEF SlotInv
  <2> QED
    BY <1>1, <1>2, <1>3, <1>5, <1>8, <2>1 DEF SlotSound, At, Moved
<1>10. MarkerSound'
  <2>1. MarkerSound
    BY DEF SlotInv
  <2> QED
    BY <1>2, <1>3, <1>5, <1>8, <2>1 DEF MarkerSound, At, Moved
<1>11. SlotInv'
  BY <1>2, <1>3, <1>5, <1>7, <1>9, <1>10, WorkerMoved
<1>12. Progress(g)
  BY <1>1, <1>2, <1>3 DEF Progress, At, Moved
<1> QED
  BY <1>1, <1>2, <1>3, <1>4, <1>5, <1>6, <1>11, <1>12, MovedOnward

\* The result of an Open or a Save is retained for the UI thread.
LEMMA PostSlot ==
  ASSUME SlotInv, NEW g \in Generations, PostCallback(g)
  PROVE  /\ SlotInv' /\ Onward /\ slot' = slot /\ Moved(g)
         /\ workers'[g].at = "end" /\ At(g, "post")
         /\ workers'[g].result = workers[g].result /\ workers[g].kind # "import"
<1>1. At(g, "post") /\ Goto(g, "end") /\ slot' = slot
  BY DEF PostCallback
<1>2. /\ Moved(g) /\ workers'[g].at = "end" /\ workers'[g].result = workers[g].result
      /\ workers'[g].says = workers[g].says
  <2>1. "end" \in Stages
    BY DEF Stages
  <2> QED
    BY <1>1, <2>1, GoneTo
<1>3. WorkerSound(g) /\ workers[g].kind # "import"
  BY <1>1, WorkerFields DEF WorkerSound, At
<1>4. WorkerSound(g)'
  BY <1>1, <1>2, <1>3 DEF WorkerSound, At, Moved
<1>5. g = Newest => SlotSound'
  <2>1. SlotSound
    BY DEF SlotInv
  <2> QED
    BY <1>1, <1>2, <1>3, <2>1 DEF SlotSound, At, Moved
<1>6. g = Newest => MarkerSound'
  <2>1. MarkerSound
    BY DEF SlotInv
  <2> QED
    BY <1>1, <1>2, <1>3, <2>1 DEF MarkerSound, At, Moved
<1>7. SlotInv'
  <2>1. slot' \in SlotRecord
    BY <1>1 DEF SlotInv
  <2> QED
    BY <1>1, <1>2, <1>4, <1>5, <1>6, <2>1, WorkerMoved
<1>8. Progress(g)
  BY <1>1, <1>2, <1>3 DEF Progress, At, Moved, Current, Newest
<1> QED
  BY <1>1, <1>2, <1>3, <1>7, <1>8, MovedOnward

\* The pump refuses the result.
LEMMA RefusedSlot ==
  ASSUME SlotInv, NEW g \in Generations, PostRefused(g)
  PROVE  /\ SlotInv' /\ Onward /\ Moved(g) /\ slot'.fenced = slot.fenced
         /\ At(g, "post") /\ workers[g].kind # "import"
         /\ workers'[g].result = workers[g].result
         /\ \/ slot' = slot /\ workers'[g].at = "end"
            \/ /\ slot'.kind = "none" /\ slot'.marker = 0 /\ workers'[g].at = "emit"
               /\ Current(g) /\ ~Written(g)
<1> DEFINE gives == Current(g) /\ ~slot.fenced /\ ~Written(g)
           stage == IF gives THEN "emit" ELSE "end"
<1>1. /\ At(g, "post") /\ slot' = IF gives THEN Settled(slot) ELSE slot
      /\ workers' = [workers EXCEPT ![g].at = stage, ![g].refused = Current(g),
                                    ![g].says = RefusedEnd(g)]
  BY DEF PostRefused
<1>2. stage \in Stages /\ (stage = "emit" <=> gives) /\ stage \in {"emit", "end"}
  BY DEF Stages
<1> HIDE DEF stage
<1>3. RefusedEnd(g) \in {"cancelled", "failed"} /\ RefusedEnd(g) \in Whats
      /\ (RefusedEnd(g) = "cancelled" => workers[g].kind = "open")
  BY DEF RefusedEnd, Whats
<1>4. Current(g) \in BOOLEAN
  BY DEF Current
<1>5. /\ Moved(g) /\ workers'[g].at = stage /\ workers'[g].result = workers[g].result
      /\ workers'[g].says = RefusedEnd(g)
  BY <1>1, <1>2, <1>3, <1>4, RefusedAt
<1>6. WorkerSound(g) /\ workers[g].kind # "import" /\ workers[g].kind # "none"
  BY <1>1, WorkerFields DEF WorkerSound, At, Kinds
<1>7. gives => /\ slot' \in SlotRecord /\ slot'.kind = "none" /\ ~slot'.seam /\ ~slot'.pending
               /\ slot'.fenced = slot.fenced /\ slot'.marker = 0
  <2>1. slot \in SlotRecord
    BY DEF SlotInv
  <2> QED
    BY <1>1, <2>1, Released
<1>8. ~gives => slot' = slot /\ slot' \in SlotRecord
  BY <1>1 DEF SlotInv
<1> HIDE DEF gives
<1>9. Current(g)' => Current(g) /\ ~gives
  BY <1>5, <1>6, <1>7, <1>8 DEF Current, Moved, Newest
<1>10. WorkerSound(g)'
  BY <1>1, <1>2, <1>3, <1>5, <1>6, <1>9 DEF WorkerSound, At, Moved
<1>11. gives => g = Newest
  BY DEF gives, Current, Newest
<1>12. g = Newest => SlotSound'
  <2>1. SlotSound
    BY DEF SlotInv
  <2> QED
    BY <1>1, <1>2, <1>5, <1>6, <1>7, <1>8, <2>1 DEF SlotSound, At, Moved
<1>13. g = Newest => MarkerSound'
  <2>1. MarkerSound
    BY DEF SlotInv
  <2> QED
    BY <1>1, <1>2, <1>5, <1>6, <1>7, <1>8, <2>1 DEF MarkerSound, At, Moved
<1>14. SlotInv'
  BY <1>5, <1>7, <1>8, <1>10, <1>11, <1>12, <1>13, WorkerMoved
<1>15. Progress(g)
  BY <1>1, <1>2, <1>5, <1>6, <1>9 DEF Progress, At, Moved, gives
<1>16. Onward
  BY <1>5, <1>7, <1>8, <1>15, MovedOnward
<1> QED
  BY <1>1, <1>2, <1>5, <1>6, <1>7, <1>8, <1>14, <1>16 DEF gives

\* An import comes to its end.
LEMMA ImportEndsSlot ==
  ASSUME SlotInv, NEW g \in Generations, ImportEnds(g)
  PROVE  /\ SlotInv' /\ Onward /\ Moved(g) /\ slot'.fenced = slot.fenced /\ Current(g)
         /\ workers[g].kind = "import" /\ workers'[g].at = "emit" /\ slot'.kind = slot.kind
         /\ slot'.marker = slot.marker /\ At(g, "store")
         /\ workers'[g].result = workers[g].result
<1>1. At(g, "store") /\ workers[g].kind = "import"
  BY DEF ImportEnds
<1>2. WorkerSound(g) /\ Current(g) /\ g = Newest /\ slot.kind = "import"
  BY <1>1, WorkerFields DEF WorkerSound, Current, Newest
<1> DEFINE what == IF workers[g].result = "ok" THEN "done" ELSE workers[g].result
<1>3. what \in Whats
  <2>1. workers[g].result # "none" /\ workers[g].result \in Results
    BY <1>1, <1>2, WorkerFields DEF WorkerSound, At
  <2> QED
    BY <2>1 DEF Results, Whats
<1>4. workers' = [workers EXCEPT ![g].at = "emit", ![g].says = what]
  BY <1>2 DEF ImportEnds
<1> HIDE DEF what
<1>5. /\ Moved(g) /\ workers'[g].at = "emit" /\ workers'[g].result = workers[g].result
      /\ workers'[g].says = what
  <2>1. "emit" \in Stages
    BY DEF Stages
  <2> QED
    BY <1>3, <1>4, <2>1, SaysAt
<1>6. /\ slot' \in SlotRecord /\ slot'.kind = "import" /\ slot'.fenced = slot.fenced
      /\ slot'.marker = slot.marker /\ (slot'.pending => slot.pending \/ slot' # slot)
      /\ (slot'.seam => slot.seam)
  <2>1. slot \in SlotRecord
    BY DEF SlotInv
  <2>2. slot' = slot \/ slot' = [slot EXCEPT !.pending = TRUE, !.seam = FALSE]
    BY DEF ImportEnds
  <2>3. CASE slot' = slot
    BY <1>2, <2>1, <2>3
  <2>4. CASE slot' = [slot EXCEPT !.pending = TRUE, !.seam = FALSE]
    BY <1>2, <2>1, <2>4 DEF SlotRecord
  <2> QED
    BY <2>2, <2>3, <2>4
<1>7. Current(g)'
  BY <1>1, <1>2, <1>5, <1>6 DEF Current, Moved, Newest
<1>8. WorkerSound(g)'
  BY <1>1, <1>2, <1>5, <1>7 DEF WorkerSound, At, Moved
<1>9. Newest # 0
  BY <1>2, WorkerFields
<1>10. SlotSound'
  BY <1>1, <1>2, <1>5, <1>6, <1>9 DEF SlotSound, At, Moved
<1>11. MarkerSound'
  <2>1. slot.marker = 0
    BY <1>1, <1>2 DEF SlotInv, MarkerSound
  <2> QED
    BY <1>6, <2>1 DEF MarkerSound
<1>12. SlotInv'
  BY <1>2, <1>5, <1>6, <1>8, <1>10, <1>11, WorkerMoved
<1>13. Progress(g)
  BY <1>1, <1>2, <1>5 DEF Progress, At, Moved
<1>14. Onward
  BY <1>2, <1>5, <1>6, <1>13, MovedOnward
<1> QED
  BY <1>1, <1>2, <1>5, <1>6, <1>12, <1>14

\* A worker says its end.
LEMMA EmitSlot ==
  ASSUME SlotInv, NEW g \in Generations, Emit(g)
  PROVE  /\ SlotInv' /\ Onward /\ slot' = slot /\ Moved(g) /\ At(g, "emit")
         /\ workers'[g].at = IF workers[g].kind = "import" THEN "cleanup" ELSE "end"
         /\ workers'[g].result = workers[g].result
<1> DEFINE stage == IF workers[g].kind = "import" THEN "cleanup" ELSE "end"
<1>1. At(g, "emit") /\ Goto(g, stage) /\ slot' = slot
  BY DEF Emit
<1>2. /\ Moved(g) /\ workers'[g].at = stage /\ workers'[g].result = workers[g].result
      /\ workers'[g].says = workers[g].says
  <2>1. stage \in Stages
    BY DEF Stages
  <2> HIDE DEF stage
  <2> QED
    BY <1>1, <2>1, GoneTo
<1>3. WorkerSound(g)
  BY WorkerFields
<1>4. Current(g)' <=> Current(g)
  BY <1>1, <1>2 DEF Current, Moved, Newest
<1>5. WorkerSound(g)'
  BY <1>1, <1>2, <1>3, <1>4 DEF WorkerSound, At, Moved
<1>6. g = Newest => SlotSound'
  <2>1. SlotSound
    BY DEF SlotInv
  <2>2. g = Newest /\ slot.kind # "none" => Current(g)
    BY <2>1 DEF SlotSound, Current, Newest
  <2>3. g = Newest /\ slot.kind # "none" => workers[g].kind = "import"
    BY <1>1, <1>3, <2>2 DEF WorkerSound
  <2> QED
    BY <1>1, <1>2, <2>1, <2>3 DEF SlotSound, At, Moved
<1>7. g = Newest => MarkerSound'
  <2>1. MarkerSound /\ SlotSound
    BY DEF SlotInv
  <2>2. g = Newest => slot.marker = 0
    BY <1>1, <2>1 DEF MarkerSound, SlotSound, At
  <2> QED
    BY <1>1, <2>2 DEF MarkerSound
<1>8. SlotInv'
  <2>1. slot' \in SlotRecord
    BY <1>1 DEF SlotInv
  <2> QED
    BY <1>1, <1>2, <1>5, <1>6, <1>7, <2>1, WorkerMoved
<1>9. Progress(g)
  BY <1>1, <1>2, <1>4 DEF Progress, At, Moved
<1> QED
  BY <1>1, <1>2, <1>8, <1>9, MovedOnward

\* An import gives up the slot.
LEMMA CleanupSlot ==
  ASSUME SlotInv, NEW g \in Generations, Cleanup(g)
  PROVE  /\ SlotInv' /\ Onward /\ Moved(g) /\ At(g, "cleanup") /\ workers[g].kind = "import"
         /\ workers'[g].at = "end" /\ workers'[g].result = workers[g].result
         /\ slot'.kind = "none" /\ slot'.fenced = slot.fenced /\ slot'.marker = slot.marker
         /\ Current(g)
<1>1. At(g, "cleanup") /\ Goto(g, "end")
  BY DEF Cleanup
<1>2. /\ Moved(g) /\ workers'[g].at = "end" /\ workers'[g].result = workers[g].result
      /\ workers'[g].says = workers[g].says
  <2>1. "end" \in Stages
    BY DEF Stages
  <2> QED
    BY <1>1, <2>1, GoneTo
<1>3. WorkerSound(g) /\ workers[g].kind = "import" /\ Current(g) /\ g = Newest
  BY <1>1, WorkerFields DEF WorkerSound, At, Current, Newest
<1>4. /\ slot' \in SlotRecord /\ slot'.kind = "none" /\ ~slot'.seam /\ ~slot'.pending
      /\ slot'.fenced = slot.fenced /\ slot'.marker = slot.marker
  <2>1. slot \in SlotRecord /\ slot' = Clear(slot)
    BY <1>3 DEF SlotInv, Cleanup
  <2> QED
    BY <2>1, Released
<1>5. WorkerSound(g)'
  BY <1>1, <1>2, <1>3 DEF WorkerSound, At, Moved
<1>6. SlotSound'
  BY <1>4 DEF SlotSound
<1>7. MarkerSound'
  <2>1. slot.marker = 0
    BY <1>3 DEF SlotInv, MarkerSound
  <2> QED
    BY <1>4, <2>1 DEF MarkerSound
<1>8. SlotInv'
  BY <1>2, <1>3, <1>4, <1>5, <1>6, <1>7, WorkerMoved
<1>9. Progress(g)
  BY <1>1, <1>2, <1>3 DEF Progress, At, Moved
<1>10. Onward
  BY <1>2, <1>4, <1>9, MovedOnward
<1> QED
  BY <1>1, <1>2, <1>3, <1>4, <1>8, <1>10

\* A worker gets the free slot.
LEMMA StartedSlot ==
  ASSUME SlotInv, NEW kind \in Kinds, NEW before \in Document, before.session <= Newest,
         SlotFree, StartWorker(kind, before)
  PROVE  /\ SlotInv' /\ Onward /\ Newest' = Newest + 1 /\ Generations' = Generations \cup {Newest'}
         /\ \A g \in Generations : workers'[g] = workers[g]
         /\ workers'[Newest'].kind = kind /\ workers'[Newest'].before = before
         /\ workers'[Newest'].at = "run" /\ workers'[Newest'].result = "none"
         /\ slot'.kind = kind /\ slot'.fenced = slot.fenced /\ slot'.marker = 0 /\ slot.marker = 0
<1> DEFINE w == [kind |-> kind, at |-> "run", cancel |-> FALSE, result |-> "none",
                 says |-> "failed", before |-> before, refused |-> FALSE]
<1>1. w \in Worker
  BY DEF Worker, Stages, Results, Whats
<1>2. w.kind = kind /\ w.before = before /\ w.at = "run" /\ w.result = "none"
  OBVIOUS
<1>3. workers' = Append(workers, w)
  BY DEF StartWorker
<1> HIDE DEF w
<1>4. workers \in Seq(Worker) /\ Newest \in Nat /\ Generations = 1..Newest
  BY WorkerFields DEF SlotInv
<1>5. /\ workers' \in Seq(Worker) /\ Newest' = Newest + 1 /\ workers'[Newest'] = w
      /\ \A g \in 1..Newest : workers'[g] = workers[g]
  BY <1>1, <1>3, <1>4, AppendProperties DEF Newest
<1>6. Generations' = Generations \cup {Newest'} /\ Newest' \in Nat /\ Newest' # 0
  BY <1>4, <1>5 DEF Generations, Newest
<1>7. /\ slot' \in SlotRecord /\ slot'.kind = kind /\ slot'.seam /\ ~slot'.pending
      /\ slot'.fenced = slot.fenced /\ slot'.marker = slot.marker
  <2>1. slot \in SlotRecord
    BY DEF SlotInv
  <2> QED
    BY <2>1 DEF StartWorker, SlotRecord
<1>8. slot.marker = 0
  BY DEF SlotInv, MarkerSound, SlotFree
<1>9. SlotSound'
  <2>1. /\ workers'[Newest'].kind = kind /\ workers'[Newest'].at = "run" /\ Newest' # 0
        /\ kind # "none"
    BY <1>2, <1>5, <1>6 DEF Kinds
  <2> QED
    BY <1>7, <2>1 DEF SlotSound, At
<1>10. MarkerSound'
  BY <1>7, <1>8 DEF MarkerSound
<1>11. ASSUME NEW g \in Generations
       PROVE  WorkerSound(g)' /\ Progress(g) /\ ~Current(g)'
  <2>1. WorkerSound(g) /\ workers[g].kind # "none"
    BY WorkerFields DEF Kinds
  <2>3. workers'[g] = workers[g] /\ g \in Nat /\ g <= Newest
    BY <1>4, <1>5
  <2>2. ~Current(g) /\ ~Current(g)'
    BY <1>4, <1>5, <2>1, <2>3 DEF Current, SlotFree, Newest
  <2> QED
    BY <2>1, <2>2, <2>3 DEF WorkerSound, Progress, At
<1>12. WorkerSound(Newest)'
  <2>1. workers'[Newest'].before.session < Newest'
    BY <1>2, <1>4, <1>5 DEF Document
  <2>2. Current(Newest)'
    BY <1>2, <1>5, <1>7 DEF Current, Newest
  <2> QED
    BY <1>2, <1>5, <2>1, <2>2 DEF WorkerSound, At
<1>13. SlotInv'
  BY <1>5, <1>6, <1>7, <1>9, <1>10, <1>11, <1>12 DEF SlotInv
<1>14. Onward
  BY <1>6, <1>7, <1>8, <1>11 DEF Onward
<1> QED
  BY <1>2, <1>4, <1>5, <1>6, <1>7, <1>8, <1>13, <1>14

\* A shutdown sets the fence.
LEMMA FencedSlot ==
  ASSUME SlotInv, Fence
  PROVE  /\ SlotInv' /\ Onward /\ SameWorkers /\ slot'.fenced /\ slot'.kind = slot.kind
         /\ slot'.pending = slot.pending
<1>1. slot.kind # "none" => Newest # 0
  BY DEF SlotInv, SlotSound
<1>2. slot.seam => slot.kind # "none"
  BY DEF SlotInv, SlotSound
<1>3. SameWorkers
  <2>1. workers' = workers \/ (Newest # 0 /\ RequestCancel)
    BY <1>1, <1>2 DEF Fence, CancelledByFence, RequestCancel
  <2> QED
    BY <2>1, CancelRequested
<1> DEFINE marker == IF slot.seam /\ slot.kind = "open" /\ slot.marker = 0 THEN Newest
                     ELSE slot.marker
<1>4. marker \in Nat /\ (marker = slot.marker \/ (marker = Newest /\ slot.kind = "open"))
  BY WorkerFields
<1>5. slot' = [slot EXCEPT !.fenced = TRUE, !.marker = marker]
  BY DEF Fence, Newest
<1> HIDE DEF marker
<1>6. /\ slot' \in SlotRecord /\ slot'.kind = slot.kind /\ slot'.seam = slot.seam
      /\ slot'.pending = slot.pending /\ slot'.fenced /\ slot'.marker = marker
  <2>1. slot \in SlotRecord
    BY DEF SlotInv
  <2> QED
    BY <1>4, <1>5, <2>1 DEF SlotRecord
<1>7. SlotInv'
  <2>1. Marking
    BY <1>4, <1>6 DEF Marking
  <2> QED
    BY <1>3, <1>6, <2>1, SlotKept
<1>8. Onward
  BY <1>3, <1>4, <1>6, SameOnward
<1> QED
  BY <1>3, <1>6, <1>7, <1>8

\* The delegate opens again: an Open that is still marked when the slot is free is forgotten.
LEMMA ResumedSlot ==
  ASSUME SlotInv, UNCHANGED workers, slot' = [ForgetMarker(slot) EXCEPT !.fenced = FALSE]
  PROVE  /\ SlotInv' /\ Onward /\ SameWorkers /\ slot'.kind = slot.kind
         /\ slot'.pending = slot.pending /\ (slot.kind = "none" => slot'.marker = 0)
         /\ ~slot'.fenced /\ (slot.kind # "none" => slot'.marker = slot.marker)
<1>1. slot \in SlotRecord
  BY DEF SlotInv
<1> DEFINE f == ForgetMarker(slot)
<1>2. /\ f \in SlotRecord /\ f.kind = slot.kind /\ f.seam = slot.seam /\ f.pending = slot.pending
      /\ f.fenced = slot.fenced
      /\ f.marker = IF slot.kind = "none" THEN 0 ELSE slot.marker
  BY <1>1 DEF ForgetMarker, SlotRecord
<1>3. slot' = [f EXCEPT !.fenced = FALSE]
  OBVIOUS
<1> HIDE DEF f
<1>4. /\ slot' \in SlotRecord /\ slot'.kind = f.kind /\ slot'.seam = f.seam
      /\ slot'.pending = f.pending /\ ~slot'.fenced /\ slot'.marker = f.marker
  BY <1>2, <1>3 DEF SlotRecord
<1>5. SameWorkers
  BY CancelRequested
<1>6. CASE slot.kind = "none"
  <2>1. slot'.marker = 0
    BY <1>2, <1>4, <1>6
  <2>2. SlotInv'
    <3>1. Marking
      BY <2>1 DEF Marking
    <3> QED
      BY <1>2, <1>4, <1>5, <3>1, SlotKept
  <2>3. Onward
    BY <1>2, <1>4, <1>5, <2>1, SameOnward
  <2> QED
    BY <1>2, <1>4, <1>5, <1>6, <2>1, <2>2, <2>3
<1>7. CASE slot.kind # "none"
  <2>1. slot'.marker = slot.marker
    BY <1>2, <1>4, <1>7
  <2>2. SlotSound'
    <3>1. Newest' = Newest /\ (Newest # 0 => Newest \in Generations)
      BY WorkerFields, <1>5 DEF SameWorkers
    <3>2. SlotSound
      BY DEF SlotInv
    <3> QED
      BY <1>2, <1>4, <3>1, <3>2 DEF SlotSound, At
  <2>3. MarkerSound'
    <3>1. MarkerSound
      BY DEF SlotInv
    <3> QED
      BY <1>2, <1>4, <1>7, <2>1, <3>1 DEF MarkerSound, Newest
  <2>4. \A g \in Generations' : WorkerSound(g)'
    BY <1>2, <1>4, <1>5 DEF SlotInv, SameWorkers, WorkerSound, At, Current
  <2>5. SlotInv'
    BY <1>4, <1>5, <2>2, <2>3, <2>4 DEF SlotInv, SameWorkers
  <2> QED
    BY <1>2, <1>4, <1>5, <1>7, <2>1, <2>5, SameOnward
<1> QED
  BY <1>6, <1>7

-----------------------------------------------------------------------------
(* What the user is told *)

\* One more terminal has been announced, somewhere among the others.
Telling(t) ==
    \E k \in 1 .. Len(Announced) + 1 :
        /\ Len(Announced)' = Len(Announced) + 1 /\ Announced'[k] = t
        /\ \A i \in 1 .. k - 1 : Announced'[i] = Announced[i]
        /\ \A i \in k + 1 .. Len(Announced) + 1 : Announced'[i] = Announced[i - 1]

\* What has been announced is a sequence of terminals.
LEMMA AnnouncedSeq ==
  ASSUME Typed
  PROVE  /\ Announced \in Seq(Terminal) /\ Len(Announced) \in Nat
         /\ DOMAIN Announced = 1 .. Len(Announced)
<1>1. Announced \in Seq(Terminal)
  BY ConcatProperties DEF Typed, Announced
<1> QED
  BY <1>1, LenProperties

\* The terminals that are put and presented, or stay in the mailbox, come last.
LEMMA Announces ==
  ASSUME Typed, NEW t \in Terminal
  PROVE  /\ Announce(<<t>>) => Announced' = Append(Announced, t)
         /\ Announce(<<>>) => Announced' = Announced
<1>1. heard \in Seq(Terminal) /\ mail \in Seq(Terminal) /\ <<t>> \in Seq(Terminal)
  BY DEF Typed
<1>2. <<>> \in Seq(Terminal)
  OBVIOUS
<1>3. ASSUME NEW new \in Seq(Terminal), Announce(new)
      PROVE  Announced' = Announced \o new
  <2>1. CASE heard' = heard \o mail \o new /\ mail' = <<>>
    <3>1. heard' \in Seq(Terminal)
      BY <1>1, <2>1, ConcatProperties
    <3>2. heard' \o <<>> = heard'
      BY <3>1, ConcatEmptySeq
    <3> QED
      BY <2>1, <3>2 DEF Announced
  <2>2. CASE mail' = mail \o new /\ UNCHANGED heard
    <3>1. heard \o (mail \o new) = (heard \o mail) \o new
      BY <1>1, ConcatAssociative
    <3> QED
      BY <2>2, <3>1 DEF Announced
  <2> QED
    BY <1>3, <2>1, <2>2 DEF Announce
<1>4. Announced \in Seq(Terminal)
  BY AnnouncedSeq
<1>5. Announced \o <<t>> = Append(Announced, t)
  BY <1>1, <1>4, AppendIsConcat
<1>6. Announced \o <<>> = Announced
  BY <1>4, ConcatEmptySeq
<1> QED
  BY <1>1, <1>2, <1>3, <1>5, <1>6

\* A terminal that comes last.
LEMMA ToldLast ==
  ASSUME Typed, NEW t \in Terminal, Announced' = Append(Announced, t)
  PROVE  Telling(t)
<1>1. Announced \in Seq(Terminal) /\ Len(Announced) \in Nat
  BY AnnouncedSeq
<1>2. /\ Len(Append(Announced, t)) = Len(Announced) + 1
      /\ Append(Announced, t)[Len(Announced) + 1] = t
      /\ \A i \in 1 .. Len(Announced) : Append(Announced, t)[i] = Announced[i]
  BY <1>1, AppendProperties
<1>3. Len(Announced)' = Len(Append(Announced, t))
  OBVIOUS
<1> DEFINE k == Len(Announced) + 1
<1>4. /\ k \in 1 .. Len(Announced) + 1 /\ Len(Announced)' = Len(Announced) + 1
      /\ Announced'[k] = t
  BY <1>1, <1>2, <1>3
<1>5. \A i \in 1 .. k - 1 : Announced'[i] = Announced[i]
  BY <1>1, <1>2
<1>6. \A i \in k + 1 .. Len(Announced) + 1 : Announced'[i] = Announced[i - 1]
  BY <1>1
<1> HIDE DEF k
<1> QED
  BY <1>4, <1>5, <1>6 DEF Telling

\* A terminal that a command returns comes before those in the mailbox.
LEMMA ToldAtOnce ==
  ASSUME Typed, NEW t \in Terminal, heard' = Append(heard, t), UNCHANGED mail
  PROVE  Telling(t)
<1>1. heard \in Seq(Terminal) /\ mail \in Seq(Terminal) /\ Len(heard) \in Nat /\ Len(mail) \in Nat
  BY LenProperties DEF Typed
<1>2. /\ Len(heard') = Len(heard) + 1 /\ heard' \in Seq(Terminal) /\ heard'[Len(heard) + 1] = t
      /\ \A i \in 1 .. Len(heard) : heard'[i] = heard[i]
  BY <1>1, AppendProperties
<1>3. /\ Len(Announced) = Len(heard) + Len(mail)
      /\ \A i \in 1 .. Len(heard) : Announced[i] = heard[i]
      /\ \A i \in Len(heard) + 1 .. Len(heard) + Len(mail) : Announced[i] = mail[i - Len(heard)]
  BY <1>1 DEF Announced
<1>4. /\ Len(Announced)' = Len(heard) + 1 + Len(mail)
      /\ \A i \in 1 .. Len(heard) + 1 : Announced'[i] = heard'[i]
      /\ \A i \in Len(heard) + 2 .. Len(heard) + 1 + Len(mail) :
            Announced'[i] = mail[i - Len(heard) - 1]
  BY <1>1, <1>2 DEF Announced
<1> DEFINE k == Len(heard) + 1
<1>5. k \in 1 .. Len(Announced) + 1 /\ Len(Announced)' = Len(Announced) + 1
  BY <1>1, <1>3, <1>4
<1>6. Announced'[k] = t
  BY <1>1, <1>2, <1>4
<1>7. ASSUME NEW i \in 1 .. k - 1
      PROVE  Announced'[i] = Announced[i]
  <2>1. i \in 1 .. Len(heard) /\ i \in 1 .. Len(heard) + 1
    BY <1>1
  <2> QED
    BY <1>2, <1>3, <1>4, <2>1
<1>8. ASSUME NEW i \in k + 1 .. Len(Announced) + 1
      PROVE  Announced'[i] = Announced[i - 1]
  <2>1. /\ i \in Len(heard) + 2 .. Len(heard) + 1 + Len(mail)
        /\ i - 1 \in Len(heard) + 1 .. Len(heard) + Len(mail)
        /\ (i - 1) - Len(heard) = i - Len(heard) - 1
    BY <1>1, <1>3
  <2> QED
    BY <1>3, <1>4, <2>1
<1> HIDE DEF k
<1> QED
  BY <1>5, <1>6, <1>7, <1>8 DEF Telling

\* What has been told stays sound while the workers go on.
LEMMA TerminalStays ==
  ASSUME SlotInv, SlotInv', Onward, NEW t \in Terminal, TerminalSound(t)
  PROVE  TerminalSound(t)'
<1>1. /\ t.gen \in Generations /\ Progress(t.gen) /\ t.gen # slot.marker /\ t.gen # 0
      /\ t.gen \in Generations'
  BY WorkerFields DEF Onward, TerminalSound
<1>2. t.gen # slot'.marker
  <2>1. CASE slot'.marker = 0
    BY <1>1, <2>1
  <2>2. CASE slot'.marker # 0 /\ slot'.marker \in Generations /\ Current(slot'.marker)
    <3>1. workers'[slot'.marker].kind = "open"
      BY <2>2 DEF SlotInv, MarkerSound
    <3>2. workers[slot'.marker].kind = "open"
      BY <2>2, <3>1 DEF Onward, Progress
    <3> QED
      BY <2>2, <3>2 DEF TerminalSound
  <2> QED
    BY <1>1, <2>1, <2>2 DEF Onward
<1>3. workers[t.gen].kind = "import" => workers'[t.gen].at \in {"cleanup", "end"}
  BY <1>1 DEF TerminalSound, Progress, At
<1>4. workers[t.gen].kind # "import" =>
         workers'[t.gen].at \in {"post", "end"} /\ ~Current(t.gen)'
  BY <1>1 DEF TerminalSound, Progress, At
<1>5. t.what = "cancelled" /\ workers[t.gen].kind = "save" => workers'[t.gen].result = "cancelled"
  BY <1>1 DEF TerminalSound, Progress
<1>6. workers'[t.gen].kind = workers[t.gen].kind
  BY <1>1 DEF Progress
<1> QED
  BY <1>1, <1>2, <1>3, <1>4, <1>5, <1>6 DEF TerminalSound

\* Nobody has been told anything more.
LEMMA ToldKept ==
  ASSUME Typed, SlotInv, SlotInv', Onward, ToldInv, Announced' = Announced
  PROVE  TerminalsSound' /\ OneTerminal' /\ \A g \in Generations : Ended(g) => Ended(g)'
<1>1. \A i \in DOMAIN Announced : Announced[i] \in Terminal
  BY AnnouncedSeq, ElementOfSeq
<1>2. OneTerminal'
  BY DEF ToldInv, OneTerminal
<1>3. \A g \in Generations : Ended(g) => Ended(g)'
  BY DEF Ended
<1>4. TerminalsSound'
  <2> SUFFICES ASSUME NEW i \in DOMAIN Announced
               PROVE  TerminalSound(Announced[i])'
    BY DEF TerminalsSound
  <2>1. PICK t \in Terminal : t = Announced[i]
    BY <1>1
  <2>2. TerminalSound(t)
    BY <2>1 DEF ToldInv, TerminalsSound
  <2>3. TerminalSound(t)'
    BY <2>2, TerminalStays
  <2>4. t = Announced'[i]
    BY <2>1
  <2> QED
    BY <2>3, <2>4 DEF TerminalSound
<1> QED
  BY <1>2, <1>3, <1>4

\* The end of an operation is told that was not told before.
LEMMA ToldOne ==
  ASSUME Typed, SlotInv, SlotInv', Onward, ToldInv,
         NEW t \in Terminal, Telling(t), ~Ended(t.gen), TerminalSound(t)'
  PROVE  /\ TerminalsSound' /\ OneTerminal' /\ \A g \in Generations : Ended(g) => Ended(g)'
         /\ Ended(t.gen)'
<1> DEFINE n == Len(Announced)
<1>1. /\ n \in Nat /\ DOMAIN Announced = 1 .. n
      /\ \A i \in 1 .. n : Announced[i] \in Terminal
  BY AnnouncedSeq, ElementOfSeq
<1>2. PICK k \in 1 .. n + 1 :
         /\ Len(Announced)' = n + 1 /\ Announced'[k] = t
         /\ \A i \in 1 .. k - 1 : Announced'[i] = Announced[i]
         /\ \A i \in k + 1 .. n + 1 : Announced'[i] = Announced[i - 1]
  BY DEF Telling
<1>3. DOMAIN Announced' = 1 .. n + 1
  <2>1. Announced' = heard' \o mail'
    BY DEF Announced
  <2>2. Len(heard' \o mail') = n + 1
    BY <1>2, <2>1
  <2> QED
    BY <2>1, <2>2
<1> HIDE DEF n
\* Where what is announced now was before.
<1> DEFINE Was(i) == IF i < k THEN i ELSE i - 1
<1>4. \A i \in 1 .. n + 1 : i # k => Was(i) \in 1 .. n /\ Announced'[i] = Announced[Was(i)]
  BY <1>1, <1>2
<1>5. \A i, j \in 1 .. n + 1 : i # k /\ j # k /\ i # j => Was(i) # Was(j)
  BY <1>1, <1>2
<1>6. \A i \in 1 .. n : \E j \in 1 .. n + 1 : j # k /\ Was(j) = i
  <2> SUFFICES ASSUME NEW i \in 1 .. n
               PROVE  \E j \in 1 .. n + 1 : j # k /\ Was(j) = i
    OBVIOUS
  <2>1. CASE i < k
    BY <1>1, <1>2, <2>1
  <2>2. CASE ~(i < k)
    <3>1. i + 1 \in 1 .. n + 1 /\ i + 1 # k /\ Was(i + 1) = i
      BY <1>1, <1>2, <2>2
    <3> QED
      BY <3>1
  <2> QED
    BY <2>1, <2>2
<1> HIDE DEF Was
<1>7. \A i \in 1 .. n : Announced[i].gen # t.gen
  BY <1>1 DEF Ended
<1>8. OneTerminal'
  <2> SUFFICES ASSUME NEW i \in 1 .. n + 1, NEW j \in 1 .. n + 1, i # j,
                      Announced'[i].gen = Announced'[j].gen
               PROVE  FALSE
    BY <1>3 DEF OneTerminal
  <2>1. CASE i = k
    BY <1>2, <1>4, <1>7, <2>1
  <2>2. CASE j = k
    BY <1>2, <1>4, <1>7, <2>2
  <2>3. CASE i # k /\ j # k
    <3>1. Announced[Was(i)].gen = Announced[Was(j)].gen /\ Was(i) \in 1 .. n /\ Was(j) \in 1 .. n
      BY <1>4, <2>3
    <3>2. Was(i) = Was(j)
      BY <1>1, <3>1 DEF ToldInv, OneTerminal
    <3> QED
      BY <1>5, <2>3, <3>2
  <2> QED
    BY <2>1, <2>2, <2>3
<1>9. \A g \in Generations : Ended(g) => Ended(g)'
  <2> SUFFICES ASSUME NEW g \in Generations, NEW i \in 1 .. n, Announced[i].gen = g
               PROVE  Ended(g)'
    BY <1>1 DEF Ended
  <2>1. PICK j \in 1 .. n + 1 : j # k /\ Was(j) = i
    BY <1>6
  <2>2. Announced'[j].gen = g
    BY <1>4, <2>1
  <2> QED
    BY <1>3, <2>2 DEF Ended
<1>10. Ended(t.gen)'
  BY <1>2, <1>3 DEF Ended
<1>11. TerminalsSound'
  <2> SUFFICES ASSUME NEW i \in 1 .. n + 1
               PROVE  TerminalSound(Announced[i])'
    BY <1>3 DEF TerminalsSound
  <2>1. CASE i = k
    BY <1>2, <2>1 DEF TerminalSound
  <2>2. CASE i # k
    <3>1. PICK u \in Terminal : u = Announced[Was(i)]
      BY <1>1, <1>4, <2>2
    <3>2. TerminalSound(u)
      BY <1>1, <1>4, <2>2, <3>1 DEF ToldInv, TerminalsSound
    <3>3. TerminalSound(u)'
      BY <3>2, TerminalStays
    <3>4. u = Announced'[i]
      BY <1>4, <2>2, <3>1
    <3> QED
      BY <3>3, <3>4 DEF TerminalSound
  <2> QED
    BY <2>1, <2>2
<1> QED
  BY <1>8, <1>9, <1>10, <1>11

\* A terminal that is told comes last only if it is the last.
LEMMA ToldIsLast ==
  ASSUME Typed, NEW t \in Terminal, NEW u \in Terminal, Telling(t), ~Ended(t.gen),
         Announced' = Append(Announced, u)
  PROVE  t = u
<1> DEFINE n == Len(Announced)
<1>1. n \in Nat /\ DOMAIN Announced = 1 .. n /\ Announced \in Seq(Terminal)
  BY AnnouncedSeq
<1>2. PICK k \in 1 .. n + 1 : Announced'[k] = t
  BY DEF Telling
<1>3. /\ Append(Announced, u)[n + 1] = u
      /\ \A i \in 1 .. n : Append(Announced, u)[i] = Announced[i]
  BY <1>1, AppendProperties
<1>4. CASE k = n + 1
  BY <1>2, <1>3, <1>4
<1>5. CASE k \in 1 .. n
  <2>1. Announced[k] = t
    BY <1>2, <1>3, <1>5
  <2> QED
    BY <1>1, <1>5, <2>1 DEF Ended
<1> QED
  BY <1>1, <1>2, <1>4, <1>5

\* A Save that is written is still on its way to the user, unless he has been told.
LEMMA SavesStay ==
  ASSUME SlotInv, SlotInv', Onward, ToldInv,
         \A g \in Generations : Ended(g) => Ended(g)',
         \A g \in Generations' : g \notin Generations => workers'[g].result = "none",
         \A g \in Generations :
            workers[g].kind = "save" /\ workers[g].result = "none" /\ workers'[g].result = "ok" =>
               Current(g)' /\ workers'[g].at = "store",
         \A g \in Generations :
            workers[g].kind = "save" /\ Current(g) /\ (slot.pending \/ At(g, "store")) =>
               Ended(g)' \/ (Current(g)' /\ (slot'.pending \/ workers'[g].at = "store"))
  PROVE  SavesKept'
<1> SUFFICES ASSUME NEW g \in Generations', workers'[g].kind = "save", workers'[g].result = "ok"
             PROVE  Ended(g)' \/ (Current(g)' /\ (slot'.pending \/ workers'[g].at = "store"))
  BY DEF SavesKept, At
<1>1. g \in Generations
  OBVIOUS
<1>2. workers[g].kind = "save" /\ (workers[g].result # "none" => workers[g].result = "ok")
  BY <1>1 DEF Onward, Progress
<1>3. CASE workers[g].result = "none"
  BY <1>1, <1>2, <1>3
<1>4. CASE workers[g].result # "none"
  <2>1. Ended(g) \/ (Current(g) /\ (slot.pending \/ At(g, "store")))
    BY <1>1, <1>2, <1>4 DEF ToldInv, SavesKept
  <2> QED
    BY <1>1, <1>2, <2>1
<1> QED
  BY <1>3, <1>4

\* A step that leaves the workers, the kind of the slot and the terminals alone.
LEMMA Quiet ==
  ASSUME Typed, SlotInv, ToldInv, SlotInv', Onward, SameWorkers, slot'.kind = slot.kind,
         slot'.pending = slot.pending, Announced' = Announced
  PROVE  ToldInv'
<1>1. TerminalsSound' /\ OneTerminal' /\ \A g \in Generations : Ended(g) => Ended(g)'
  BY ToldKept
<1>2. SavesKept'
  <2>1. \A g \in Generations : workers'[g].result = workers[g].result /\ Generations' = Generations
    BY DEF SameWorkers
  <2>2. \A g \in Generations :
           workers[g].kind = "save" /\ Current(g) /\ (slot.pending \/ At(g, "store")) =>
              Current(g)' /\ (slot'.pending \/ workers'[g].at = "store")
    BY DEF SameWorkers, Current, At, Newest
  <2> QED
    BY <1>1, <2>1, <2>2, SavesStay DEF SameWorkers
<1> QED
  BY <1>1, <1>2 DEF ToldInv

\* Nobody has the slot after it has been given up.
LEMMA NobodyCurrent ==
  ASSUME SlotInv, SameWorkers, slot'.kind = "none"
  PROVE  \A g \in Generations : ~Current(g)'
<1> SUFFICES ASSUME NEW g \in Generations
             PROVE  ~Current(g)'
  OBVIOUS
<1>1. workers'[g].kind # "none"
  BY WorkerFields DEF SameWorkers, Kinds
<1> QED
  BY <1>1 DEF Current

\* Who has the slot for an Open or a Save has not ended for the user.
LEMMA NotToldYet ==
  ASSUME ToldInv, NEW g \in Generations, Current(g), workers[g].kind # "import"
  PROVE  ~Ended(g)
<1> SUFFICES ASSUME NEW i \in DOMAIN Announced, Announced[i].gen = g
             PROVE  FALSE
  BY DEF Ended
<1>1. TerminalSound(Announced[i])
  BY DEF ToldInv, TerminalsSound
<1> QED
  BY <1>1 DEF TerminalSound

\* The end of an Open or a Save is told as it gives up the slot.
LEMMA EndTold ==
  ASSUME Typed, SlotInv, ToldInv, SlotInv', Onward, SameWorkers,
         NEW g \in Generations, Current(g), workers[g].kind # "import",
         workers[g].at \in {"post", "end"}, slot'.kind = "none", slot'.marker = 0,
         NEW what \in Whats,
         workers[g].kind = "save" /\ what = "cancelled" => workers[g].result = "cancelled",
         Telling(End(g, what))
  PROVE  ToldInv' /\ ~Ended(g)
<1> DEFINE t == End(g, what)
<1>1. t \in Terminal /\ t.gen = g /\ t.what = what
  BY WorkerFields DEF End, Terminal
<1>2. ~Ended(g)
  BY NotToldYet
<1>3. \A h \in Generations : ~Current(h)'
  BY NobodyCurrent
<1> HIDE DEF t
<1>4. TerminalSound(t)'
  <2>1. g # slot'.marker /\ g \in Generations'
    BY WorkerFields DEF SameWorkers
  <2>2. /\ workers'[g].kind = workers[g].kind /\ workers'[g].at = workers[g].at
        /\ workers'[g].result = workers[g].result
    BY DEF SameWorkers
  <2> QED
    BY <1>1, <1>3, <2>1, <2>2 DEF TerminalSound
<1>5. /\ TerminalsSound' /\ OneTerminal' /\ Ended(g)'
      /\ \A h \in Generations : Ended(h) => Ended(h)'
  <2>1. Telling(t)
    BY DEF t
  <2>2. TerminalsSound' /\ OneTerminal' /\ \A h \in Generations : Ended(h) => Ended(h)'
    BY <1>1, <1>2, <1>4, <2>1, ToldOne
  <2>3. Ended(t.gen)'
    BY <1>1, <1>2, <1>4, <2>1, ToldOne
  <2> QED
    BY <1>1, <2>2, <2>3 DEF Ended
<1>6. SavesKept'
  <2>1. \A h \in Generations : workers'[h].result = workers[h].result /\ Generations' = Generations
    BY DEF SameWorkers
  <2>2. \A h \in Generations : Current(h) => Ended(h)'
    BY <1>5 DEF Current
  <2> QED
    BY <1>5, <2>1, <2>2, SavesStay DEF SameWorkers
<1> QED
  BY <1>2, <1>5, <1>6 DEF ToldInv

\* The slot is given up by a worker that has stored its result, or by nobody.
LEMMA SlotGivenUp ==
  ASSUME SlotInv, SameWorkers,
         slot' = Clear(slot) \/ slot' = Settled(slot),
         slot.kind # "none" => workers[Newest].at \in {"post", "end"},
         slot' = Clear(slot) /\ slot.marker # 0 => slot.fenced /\ At(Newest, "end")
  PROVE  /\ SlotInv' /\ Onward /\ slot'.kind = "none" /\ slot'.fenced = slot.fenced
         /\ slot' = Settled(slot) => slot'.marker = 0
         /\ slot' = Clear(slot) => slot'.marker = slot.marker
<1>1. SlotInv' /\ slot'.kind = "none" /\ slot'.fenced = slot.fenced
  BY SlotReleased
<1>2. /\ slot' = Settled(slot) => slot'.marker = 0
      /\ slot' = Clear(slot) => slot'.marker = slot.marker
  BY Released DEF SlotInv
<1>3. Onward
  BY <1>1, <1>2, SameOnward
<1> QED
  BY <1>1, <1>2, <1>3

-----------------------------------------------------------------------------
(* The steps of the UI thread *)

\* The ends are terminals.
LEMMA Ends ==
  ASSUME SlotInv, NEW g \in Generations
  PROVE  /\ \A what \in Whats : End(g, what) \in Terminal /\ End(g, what).gen = g
                               /\ End(g, what).what = what
         /\ OpenEnd(g) \in Whats /\ SaveEnd(g) \in Whats
         /\ SaveEnd(g) = "cancelled" => workers[g].result = "cancelled"
<1>1. g \in Nat
  BY WorkerFields
<1>2. \A what \in Whats : End(g, what) \in Terminal /\ End(g, what).gen = g
                          /\ End(g, what).what = what
  BY <1>1 DEF End, Terminal
<1>3. OpenEnd(g) \in Whats
  BY DEF OpenEnd, Whats
<1>4. SaveEnd(g) \in Whats
  BY DEF SaveEnd, Whats
<1>5. SaveEnd(g) = "cancelled" => workers[g].result = "cancelled"
  BY DEF SaveEnd
<1> QED
  BY <1>2, <1>3, <1>4, <1>5

\* Nothing happens to the slot and the workers.
LEMMA SlotUnchanged ==
  ASSUME SlotInv, UNCHANGED <<slot, workers>>
  PROVE  SlotInv' /\ Onward /\ SameWorkers
<1>1. SameWorkers
  BY CancelRequested
<1>2. Marking
  BY DEF Marking
<1>3. SlotInv'
  BY <1>1, <1>2, SlotKept DEF SlotInv
<1>4. Onward
  BY <1>1, SameOnward
<1> QED
  BY <1>1, <1>3, <1>4

\* Nothing happens, or a cancel is requested, and nobody is told.
LEMMA Nothing ==
  ASSUME Typed, SlotInv, ToldInv, UNCHANGED slot, SameWorkers, Announced' = Announced
  PROVE  SlotInv' /\ Onward /\ ToldInv'
<1>1. Marking
  BY DEF Marking
<1>2. SlotInv'
  BY <1>1, SlotKept DEF SlotInv
<1>3. Onward
  BY SameOnward
<1> QED
  BY <1>2, <1>3, Quiet

\* Who has the slot, if it is occupied.
LEMMA Holder ==
  ASSUME SlotInv, slot.kind # "none"
  PROVE  /\ Newest \in Generations /\ Current(Newest) /\ workers[Newest].kind = slot.kind
         /\ slot.kind = "import" => ~At(Newest, "end")
         /\ slot.kind # "import" =>
               (slot.pending => workers[Newest].at \in {"post", "end"})
               /\ (workers[Newest].at \in {"post", "end"} => slot.pending)
         /\ \A g \in Generations : Current(g) => g = Newest
<1>1. SlotSound
  BY DEF SlotInv
<1> QED
  BY <1>1, WorkerFields DEF SlotSound, Current, At, Newest

\* An Open ends on the UI thread.
LEMMA OpenFinished ==
  ASSUME Typed, SlotInv, ToldInv, SameWorkers, NEW g \in Generations,
         Current(g), workers[g].kind = "open", workers[g].at \in {"post", "end"},
         slot' = Settled(slot), NEW what \in Whats, Telling(End(g, what))
  PROVE  /\ SlotInv' /\ Onward /\ ToldInv' /\ ~Ended(g)
         /\ slot'.kind = "none" /\ slot'.fenced = slot.fenced
<1>1. g = Newest /\ slot.kind = "open"
  BY DEF Current, Newest
<1>2. slot' # Clear(slot) \/ slot.marker = 0
  BY Released DEF SlotInv
<1>3. /\ SlotInv' /\ Onward /\ slot'.kind = "none" /\ slot'.fenced = slot.fenced
      /\ slot'.marker = 0
  BY <1>1, <1>2, SlotGivenUp
<1>4. ToldInv' /\ ~Ended(g)
  BY <1>3, EndTold
<1> QED
  BY <1>3, <1>4

\* A Save ends on the UI thread.
LEMMA SaveFinished ==
  ASSUME Typed, SlotInv, ToldInv, SameWorkers, NEW g \in Generations,
         Current(g), workers[g].kind = "save", workers[g].at \in {"post", "end"},
         slot' = Clear(slot), Telling(End(g, SaveEnd(g)))
  PROVE  /\ SlotInv' /\ Onward /\ ToldInv' /\ ~Ended(g)
         /\ slot'.kind = "none" /\ slot'.fenced = slot.fenced
<1>1. g = Newest /\ slot.kind = "save"
  BY DEF Current, Newest
<1>2. slot.marker = 0
  BY <1>1 DEF SlotInv, MarkerSound
<1>3. /\ SlotInv' /\ Onward /\ slot'.kind = "none" /\ slot'.fenced = slot.fenced
      /\ slot'.marker = 0
  BY <1>1, <1>2, SlotGivenUp
<1>4. SaveEnd(g) \in Whats /\ (SaveEnd(g) = "cancelled" => workers[g].result = "cancelled")
  BY Ends
<1>5. ToldInv' /\ ~Ended(g)
  BY <1>3, <1>4, EndTold
<1> QED
  BY <1>3, <1>5

\* What the callback of the UI thread does.
LEMMA CallbackTold ==
  ASSUME FilesInv, RunOwnerCallback
  PROVE  SlotInv' /\ Onward /\ ToldInv' /\ slot'.fenced = slot.fenced
<1>1. Typed /\ SlotInv /\ PumpSound /\ ToldInv
  BY DEF FilesInv
<1>2. UNCHANGED workers
  BY DEF RunOwnerCallback
<1>3. SameWorkers
  BY <1>1, <1>2, CancelRequested
<1> DEFINE g == pump.callback
<1>4. CASE UNCHANGED <<slot, doc, mail, heard, failures>>
  BY <1>1, <1>3, <1>4, Nothing DEF Announced
<1>5. CASE /\ pump.open /\ g # 0 /\ Current(g) /\ ~slot.fenced
           /\ \/ workers[g].kind = "open" /\ FinishOpen(g) /\ Announce(<<End(g, OpenEnd(g))>>)
              \/ workers[g].kind = "save" /\ FinishSave(g) /\ Announce(<<End(g, SaveEnd(g))>>)
  <2>1. g \in Generations /\ At(g, "end")
    BY <1>1, <1>5 DEF PumpSound
  <2> HIDE DEF g
  <2>2. /\ OpenEnd(g) \in Whats /\ SaveEnd(g) \in Whats
        /\ End(g, OpenEnd(g)) \in Terminal /\ End(g, SaveEnd(g)) \in Terminal
    BY <1>1, <2>1, Ends
  <2>3. CASE workers[g].kind = "open" /\ FinishOpen(g) /\ Announce(<<End(g, OpenEnd(g))>>)
    <3>1. Telling(End(g, OpenEnd(g)))
      BY <1>1, <2>2, <2>3, Announces, ToldLast
    <3>2. slot' = Settled(slot)
      BY <2>3 DEF FinishOpen
    <3> QED
      BY <1>1, <1>3, <1>5, <2>1, <2>2, <2>3, <3>1, <3>2, OpenFinished DEF At
  <2>4. CASE workers[g].kind = "save" /\ FinishSave(g) /\ Announce(<<End(g, SaveEnd(g))>>)
    <3>1. Telling(End(g, SaveEnd(g)))
      BY <1>1, <2>2, <2>4, Announces, ToldLast
    <3>2. slot' = Clear(slot)
      BY <2>4 DEF FinishSave
    <3> QED
      BY <1>1, <1>3, <1>5, <2>1, <2>2, <2>4, <3>1, <3>2, SaveFinished DEF At
  <2> QED
    BY <1>5, <2>3, <2>4
<1> QED
  BY <1>4, <1>5 DEF RunOwnerCallback, FinishOnOwner

\* What a cancel does.
LEMMA CancelTold ==
  ASSUME FilesInv, CancelOpen \/ CancelSave \/ CancelImport
  PROVE  SlotInv' /\ Onward /\ ToldInv' /\ slot'.fenced = slot.fenced
<1>1. Typed /\ SlotInv /\ ToldInv
  BY DEF FilesInv
<1>2. slot.kind # "none"
  BY DEF CancelOpen, CancelSave, CancelImport, Owned
<1>3. /\ Newest \in Generations /\ Newest # 0 /\ Current(Newest)
      /\ workers[Newest].kind = slot.kind
      /\ slot.kind # "import" /\ slot.pending => workers[Newest].at \in {"post", "end"}
  BY <1>1, <1>2, Holder, WorkerFields
<1>4. SameWorkers
  <2>1. UNCHANGED workers \/ RequestCancel
    BY DEF CancelOpen, CancelSave, CancelImport
  <2> QED
    BY <1>1, <1>3, <2>1, CancelRequested
<1>5. mail' = mail
  BY DEF CancelOpen, CancelSave, CancelImport
<1>6. CASE UNCHANGED <<slot, heard>>
  BY <1>1, <1>4, <1>5, <1>6, Nothing DEF Announced
<1>7. CASE CancelOpen /\ slot.pending /\ ~slot.fenced
  <2> DEFINE what == IF workers[Newest].result = "failed" THEN "failed" ELSE "cancelled"
  <2>1. what \in Whats
    BY DEF Whats
  <2>2. slot.kind = "open" /\ slot' = Settled(slot) /\ Told(Newest, what)
    BY <1>7 DEF CancelOpen, Owned, Newest
  <2> HIDE DEF what
  <2>3. Telling(End(Newest, what))
    BY <1>1, <1>3, <1>5, <2>1, <2>2, Ends, ToldAtOnce DEF Told
  <2> QED
    BY <1>1, <1>3, <1>4, <1>7, <2>1, <2>2, <2>3, OpenFinished
<1>8. CASE CancelSave /\ slot.pending /\ ~slot.fenced
  <2>1. slot.kind = "save" /\ slot' = Clear(slot) /\ Told(Newest, SaveEnd(Newest))
    BY <1>8 DEF CancelSave, Owned, Newest, FinishSave
  <2>2. Telling(End(Newest, SaveEnd(Newest)))
    BY <1>1, <1>3, <1>5, <2>1, Ends, ToldAtOnce DEF Told
  <2> QED
    BY <1>1, <1>3, <1>4, <1>8, <2>1, <2>2, SaveFinished
<1> QED
  BY <1>6, <1>7, <1>8 DEF CancelOpen, CancelSave, CancelImport

\* What a shutdown does when its worker has ended.
LEMMA RetireTold ==
  ASSUME FilesInv, Retire
  PROVE  /\ SlotInv' /\ Onward /\ ToldInv' /\ slot'.fenced /\ slot'.kind = "none"
<1>1. Typed /\ SlotInv /\ PumpSound /\ ToldInv
  BY DEF FilesInv
<1>2. UNCHANGED workers /\ slot.fenced
  BY <1>1 DEF Retire, PumpSound
<1>3. SameWorkers
  BY <1>1, <1>2, CancelRequested
<1>4. slot.kind # "none" =>
         /\ Newest \in Generations /\ Current(Newest) /\ workers[Newest].kind = slot.kind
         /\ At(Newest, "end") /\ slot.kind # "import" /\ slot.pending
  <2> SUFFICES ASSUME slot.kind # "none"
               PROVE  /\ Newest \in Generations /\ Current(Newest)
                      /\ workers[Newest].kind = slot.kind
                      /\ At(Newest, "end") /\ slot.kind # "import" /\ slot.pending
    OBVIOUS
  <2>1. At(Newest, "end")
    BY DEF Retire, Joined, Newest
  <2> QED
    BY <1>1, <2>1, Holder DEF At
<1>5. CASE slot.kind = "save" /\ slot.pending
  <2>1. slot' = Clear(slot) /\ Announce(<<End(Newest, SaveEnd(Newest))>>)
    BY <1>5 DEF Retire, FinishSave, Newest
  <2>2. Telling(End(Newest, SaveEnd(Newest)))
    BY <1>1, <1>4, <1>5, <2>1, Ends, Announces, ToldLast
  <2> QED
    BY <1>1, <1>2, <1>3, <1>4, <1>5, <2>1, <2>2, SaveFinished DEF At
<1>6. CASE ~(slot.kind = "save" /\ slot.pending)
  <2>1. slot' = Clear(slot) /\ UNCHANGED <<mail, heard>>
    BY <1>6 DEF Retire
  <2>2. slot.kind # "none" => workers[Newest].at \in {"post", "end"}
    BY <1>4 DEF At
  <2>3. slot.marker # 0 => At(Newest, "end")
    BY <1>1, <1>4 DEF SlotInv, MarkerSound
  <2>4. /\ SlotInv' /\ Onward /\ slot'.kind = "none" /\ slot'.fenced = slot.fenced
    BY <1>1, <1>2, <1>3, <2>1, <2>2, <2>3, SlotGivenUp
  <2>5. /\ TerminalsSound' /\ OneTerminal' /\ \A g \in Generations : Ended(g) => Ended(g)'
    BY <1>1, <2>1, <2>4, ToldKept DEF Announced
  <2>6. SavesKept'
    <3>1. \A h \in Generations : workers'[h].result = workers[h].result
      BY <1>3 DEF SameWorkers
    <3>2. \A h \in Generations : workers[h].kind = "save" => ~Current(h)
      BY <1>4, <1>6 DEF Current
    <3>3. Generations' = Generations
      BY <1>3 DEF SameWorkers
    <3> QED
      BY <1>1, <2>4, <2>5, <3>1, <3>2, <3>3, SavesStay
  <2> QED
    BY <1>2, <2>4, <2>5, <2>6 DEF ToldInv
<1> QED
  BY <1>5, <1>6

\* What the recovery from a refused shutdown tells: the Open that was abandoned for it.
LEMMA ResumeTold ==
  ASSUME FilesInv, Resume
  PROVE  /\ SlotInv' /\ Onward /\ ToldInv'
         /\ Announced' = Announced \/ \E t \in Terminal : /\ t.what # "done" /\ Telling(t)
                                                          /\ ~Ended(t.gen)
<1>1. Typed /\ SlotInv /\ ToldInv /\ UNCHANGED workers
  BY DEF FilesInv, Resume
<1>2. CASE ~(PumpMayResume /\ DelegateMayResume)
  <2>1. UNCHANGED slot /\ Announced' = Announced
    BY <1>2 DEF Resume, Announced
  <2>2. SameWorkers
    BY <1>1, CancelRequested
  <2> QED
    BY <1>1, <2>1, <2>2, Nothing
<1>3. CASE PumpMayResume /\ DelegateMayResume
  <2>1. slot' = [ForgetMarker(slot) EXCEPT !.fenced = FALSE] /\ Announce(OwedTerminal)
    BY <1>3 DEF Resume
  <2>2. /\ SlotInv' /\ Onward /\ SameWorkers /\ slot'.kind = slot.kind
        /\ slot'.pending = slot.pending /\ (slot.kind = "none" => slot'.marker = 0)
    BY <1>1, <2>1, ResumedSlot
  <2>3. CASE ~(slot.marker # 0 /\ slot.kind = "none")
    <3>1. Announce(<<>>)
      BY <2>1, <2>3 DEF OwedTerminal
    <3>2. \A t \in Terminal : Announced' = Announced
      BY <1>1, <3>1, Announces
    <3>3. [gen |-> 0, what |-> "done"] \in Terminal
      BY DEF Terminal, Whats
    <3> QED
      BY <1>1, <2>2, <3>2, <3>3, Quiet
  <2>4. CASE slot.marker # 0 /\ slot.kind = "none"
    <3>0. /\ slot.marker = Newest /\ slot.marker \in Generations
          /\ workers[slot.marker].kind = "open" /\ At(slot.marker, "end")
      BY <1>1, <2>4, WorkerFields DEF SlotInv, MarkerSound
    <3>1. PICK g \in Generations :
             g = slot.marker /\ workers[g].kind = "open" /\ At(g, "end") /\ g # 0
      BY <2>4, <3>0
    <3>2. MarkerEnd \in Whats /\ MarkerEnd # "done" /\ Announce(<<End(g, MarkerEnd)>>)
      BY <2>1, <2>4, <3>1 DEF MarkerEnd, Whats, OwedTerminal
    <3>3. PICK t \in Terminal : t = End(g, MarkerEnd) /\ t.gen = g /\ t.what = MarkerEnd
      BY <1>1, <3>1, <3>2, Ends
    <3>4. Telling(t)
      BY <1>1, <3>2, <3>3, Announces, ToldLast
    <3>5. ~Ended(g)
      BY <1>1, <3>1 DEF Ended, ToldInv, TerminalsSound, TerminalSound
    <3>6. TerminalSound(t)'
      <4>1. ~Current(g)' /\ g \in Generations'
        BY <1>1, <2>2, <2>4, <3>1, NobodyCurrent DEF SameWorkers
      <4>2. g # 0 /\ slot'.marker = 0
        BY <2>2, <2>4, <3>1
      <4>3. workers'[g].kind = "open" /\ workers'[g].at = "end"
        BY <1>1, <3>1 DEF At
      <4> QED
        BY <1>1, <3>3, <4>1, <4>2, <4>3 DEF TerminalSound
    <3>7. /\ TerminalsSound' /\ OneTerminal'
          /\ \A h \in Generations : Ended(h) => Ended(h)'
      BY <1>1, <2>2, <3>3, <3>4, <3>5, <3>6, ToldOne
    <3>8. SavesKept'
      <4>1. \A h \in Generations : workers'[h].result = workers[h].result
        BY <2>2 DEF SameWorkers
      <4>2. \A h \in Generations : workers[h].kind = "save" => ~Current(h)
        BY <2>4 DEF Current
      <4>3. Generations' = Generations
        BY <2>2 DEF SameWorkers
      <4> QED
        BY <1>1, <2>2, <3>7, <4>1, <4>2, <4>3, SavesStay
    <3> QED
      BY <2>2, <3>2, <3>3, <3>4, <3>5, <3>7, <3>8 DEF ToldInv
  <2> QED
    BY <2>3, <2>4
<1> QED
  BY <1>2, <1>3

\* A fence tells nobody anything.
LEMMA FenceTold ==
  ASSUME FilesInv, Close \/ Refence
  PROVE  /\ SlotInv' /\ Onward /\ ToldInv' /\ SameWorkers /\ slot'.kind = slot.kind
         /\ open => slot'.fenced
         /\ ~open => slot' = slot
<1>1. Typed /\ SlotInv /\ ToldInv
  BY DEF FilesInv
<1>2. Announced' = Announced
  BY DEF Close, Refence, Announced
<1>3. CASE open
  <2>1. Fence
    BY <1>3 DEF Close, Refence
  <2>2. /\ SlotInv' /\ Onward /\ SameWorkers /\ slot'.fenced /\ slot'.kind = slot.kind
        /\ slot'.pending = slot.pending
    BY <1>1, <2>1, FencedSlot
  <2>3. ToldInv'
    BY <1>1, <1>2, <2>2, Quiet
  <2> QED
    BY <1>3, <2>2, <2>3
<1>4. CASE ~open
  <2>1. UNCHANGED <<slot, workers>>
    BY <1>4 DEF Close, Refence
  <2>2. SameWorkers
    BY <1>1, <2>1, CancelRequested
  <2>3. SlotInv' /\ Onward /\ ToldInv'
    BY <1>1, <1>2, <2>1, <2>2, Nothing
  <2> QED
    BY <1>4, <2>1, <2>2, <2>3
<1> QED
  BY <1>3, <1>4

\* A worker that starts has nothing to tell yet.
LEMMA StartTold ==
  ASSUME FilesInv, NEW kind \in Kinds, NEW before \in Document, before.session <= Newest,
         SlotFree, StartWorker(kind, before), UNCHANGED <<heard, mail>>
  PROVE  SlotInv' /\ Onward /\ ToldInv'
<1>1. Typed /\ SlotInv /\ ToldInv
  BY DEF FilesInv
<1>2. /\ SlotInv' /\ Onward /\ Generations' = Generations \cup {Newest'}
      /\ \A g \in Generations : workers'[g] = workers[g]
      /\ workers'[Newest'].result = "none"
  BY <1>1, StartedSlot
<1>3. /\ TerminalsSound' /\ OneTerminal' /\ \A g \in Generations : Ended(g) => Ended(g)'
  BY <1>1, <1>2, ToldKept DEF Announced
<1>4. SavesKept'
  <2>1. \A g \in Generations : ~(workers[g].kind = "save" /\ Current(g))
    BY <1>1 DEF SlotFree, Current
  <2> QED
    BY <1>1, <1>2, <1>3, <2>1, SavesStay
<1> QED
  BY <1>2, <1>3, <1>4 DEF ToldInv

-----------------------------------------------------------------------------
(* The steps of the workers *)

\* One worker moves and nobody is told.
LEMMA MovedTold ==
  ASSUME Typed, SlotInv, ToldInv, SlotInv', Onward, NEW g \in Generations, Moved(g),
         Announced' = Announced,
         workers[g].kind = "save" /\ workers[g].result = "none" /\ workers'[g].result = "ok" =>
            Current(g)' /\ workers'[g].at = "store",
         workers[g].kind = "save" /\ workers[g].result = "ok"
         /\ Current(g) /\ (slot.pending \/ At(g, "store")) =>
            Current(g)' /\ (slot'.pending \/ workers'[g].at = "store"),
         g = Newest \/ slot' = slot
  PROVE  ToldInv'
<1>1. /\ TerminalsSound' /\ OneTerminal' /\ \A h \in Generations : Ended(h) => Ended(h)'
  BY ToldKept
<1>2. SavesKept'
  <2> SUFFICES ASSUME NEW h \in Generations, workers'[h].kind = "save", workers'[h].result = "ok"
               PROVE  Ended(h)' \/ (Current(h)' /\ (slot'.pending \/ workers'[h].at = "store"))
    BY DEF SavesKept, At, Moved
  <2>1. workers[h].kind = "save" /\ (workers[h].result # "none" => workers[h].result = "ok")
    BY DEF Onward, Progress
  <2>2. workers[h].result = "ok" =>
           Ended(h) \/ (Current(h) /\ (slot.pending \/ At(h, "store")))
    BY <2>1 DEF ToldInv, SavesKept
  <2>3. CASE h = g
    BY <1>1, <2>1, <2>2, <2>3
  <2>4. CASE h # g
    <3>1. workers'[h] = workers[h] /\ workers[h].result = "ok"
      BY <2>4 DEF Moved
    <3>2. Current(h) => Current(h)' /\ slot' = slot
      BY <2>4, <3>1 DEF Current, Moved, Newest
    <3> QED
      BY <1>1, <2>2, <3>1, <3>2 DEF At
  <2> QED
    BY <2>3, <2>4
<1> QED
  BY <1>1, <1>2 DEF ToldInv

\* A worker tells the end of its operation itself, or nobody tells it.
LEMMA EmitTold ==
  ASSUME FilesInv, NEW g \in Generations, Emit(g)
  PROVE  /\ ToldInv'
         /\ \/ Announced' = Announced
            \/ \E t \in Terminal : /\ Telling(t) /\ ~Ended(t.gen) /\ t.gen = g
                                   /\ t.what = "done" => workers[g].kind = "import"
<1>1. Typed /\ SlotInv /\ ToldInv
  BY DEF FilesInv
<1>2. /\ SlotInv' /\ Onward /\ slot' = slot /\ Moved(g) /\ At(g, "emit")
      /\ workers'[g].at = IF workers[g].kind = "import" THEN "cleanup" ELSE "end"
      /\ workers'[g].result = workers[g].result
  BY <1>1, EmitSlot
<1>3. WorkerSound(g) /\ workers[g].says \in Whats /\ workers[g].result # "none" /\ g # 0
  BY <1>1, <1>2, WorkerFields DEF WorkerSound, At
<1>4. SavesKept' \/ Announced' # Announced
  <2>1. workers[g].kind = "save" => ~Current(g)
    BY <1>2, <1>3 DEF WorkerSound
  <2>2. Announced' = Announced => ToldInv'
    BY <1>1, <1>2, <1>3, <2>1, MovedTold
  <2> QED
    BY <2>2 DEF ToldInv
<1>5. CASE ~pump.open
  <2>1. Announced' = Announced
    BY <1>5 DEF Emit, Announced
  <2>2. TerminalsSound' /\ OneTerminal'
    BY <1>1, <1>2, <2>1, ToldKept
  <2> QED
    BY <1>4, <2>1, <2>2 DEF ToldInv
<1>6. CASE pump.open
  <2>1. PICK t \in Terminal :
           t = End(g, workers[g].says) /\ t.gen = g /\ t.what = workers[g].says
    BY <1>1, <1>3, Ends
  <2>2. mail' = Append(mail, t) /\ heard' = heard
    BY <1>6, <2>1 DEF Emit
  <2>3. Announced' = Append(Announced, t)
    <3>1. heard \in Seq(Terminal) /\ mail \in Seq(Terminal) /\ <<t>> \in Seq(Terminal)
      BY <1>1, <2>1 DEF Typed
    <3>2. mail' = mail \o <<t>> /\ heard \o (mail \o <<t>>) = (heard \o mail) \o <<t>>
      BY <2>1, <2>2, <3>1, AppendIsConcat, ConcatAssociative
    <3>3. Append(heard \o mail, t) = (heard \o mail) \o <<t>>
      BY <2>1, <3>1, AppendIsConcat, ConcatProperties
    <3> QED
      BY <2>2, <3>2, <3>3 DEF Announced
  <2>4. Telling(t)
    BY <1>1, <2>1, <2>3, ToldLast
  <2>5. ~Ended(g)
    <3> SUFFICES ASSUME NEW i \in DOMAIN Announced, Announced[i].gen = g
                 PROVE  FALSE
      BY DEF Ended
    <3>1. TerminalSound(Announced[i])
      BY <1>1 DEF ToldInv, TerminalsSound
    <3> QED
      BY <1>2, <3>1 DEF TerminalSound, At
  <2>6. TerminalSound(t)'
    <3>1. g \in Generations' /\ workers'[g].kind = workers[g].kind
      BY <1>2 DEF Moved
    <3>2. g # slot'.marker
      <4>1. g # slot.marker
        <5>1. MarkerSound /\ SlotSound
          BY <1>1 DEF SlotInv
        <5> QED
          BY <1>2, <1>3, <5>1 DEF MarkerSound, SlotSound, At
      <4> QED
        BY <1>2, <4>1
    <3>3. workers[g].kind # "import" => ~Current(g)'
      BY <1>2, <1>3 DEF WorkerSound, Current, Moved, Newest
    <3>4. t.what = "cancelled" => workers[g].kind # "save"
      BY <1>2, <1>3, <2>1 DEF WorkerSound
    <3> QED
      BY <1>2, <2>1, <3>1, <3>2, <3>3, <3>4 DEF TerminalSound
  <2>7. /\ TerminalsSound' /\ OneTerminal' /\ \A h \in Generations : Ended(h) => Ended(h)'
    BY <1>1, <1>2, <2>1, <2>4, <2>5, <2>6, ToldOne
  <2>8. SavesKept'
    <3>1. workers[g].kind = "save" => ~Current(g)
      BY <1>2, <1>3 DEF WorkerSound
    <3>2. \A h \in Generations : h # g =>
             /\ workers'[h] = workers[h]
             /\ Current(h) => Current(h)'
      BY <1>2 DEF Moved, Current, Newest
    <3>3. \A h \in Generations : workers'[h].result = workers[h].result
      BY <1>2 DEF Moved
    <3>4. \A h \in Generations :
             workers[h].kind = "save" /\ Current(h) /\ (slot.pending \/ At(h, "store")) =>
                Current(h)' /\ (slot'.pending \/ workers'[h].at = "store")
      BY <1>2, <3>1, <3>2 DEF At
    <3>5. Generations' = Generations
      BY <1>2 DEF Moved
    <3> QED
      BY <1>1, <1>2, <2>7, <3>3, <3>4, <3>5, SavesStay
  <2>9. t.what = "done" => workers[g].kind = "import"
    BY <1>2, <1>3, <2>1 DEF WorkerSound
  <2> QED
    BY <2>1, <2>4, <2>5, <2>7, <2>8, <2>9 DEF ToldInv
<1> QED
  BY <1>5, <1>6

\* A worker takes a step.
LEMMA WorkerTold ==
  ASSUME FilesInv, NEW g \in Generations, WorkerStep(g)
  PROVE  SlotInv' /\ Onward /\ ToldInv' /\ slot'.fenced = slot.fenced
         /\ Moved(g) /\ slot'.kind \in {slot.kind, "none"}
<1>1. Typed /\ SlotInv /\ ToldInv
  BY DEF FilesInv
<1>2. CASE Prepare(g) \/ Publish(g)
  <2>1. /\ SlotInv' /\ Onward /\ slot' = slot /\ Moved(g) /\ Current(g)
        /\ workers'[g].at = "store"
    BY <1>1, <1>2, WorkedSlot
  <2>2. Announced' = Announced /\ At(g, "run")
    BY <1>2 DEF Prepare, Publish, Announced
  <2>3. Current(g)' /\ workers[g].result # "ok"
    <3>1. WorkerSound(g)
      BY <1>1, WorkerFields
    <3> QED
      BY <2>1, <2>2, <3>1 DEF Current, Moved, Newest, WorkerSound
  <2>4. ToldInv'
    BY <1>1, <2>1, <2>2, <2>3, MovedTold
  <2> QED
    BY <2>1, <2>4
<1>3. CASE Store(g)
  <2>1. /\ SlotInv' /\ Onward /\ slot' = [slot EXCEPT !.pending = TRUE] /\ Moved(g)
        /\ Current(g) /\ Current(g)' /\ workers'[g].result = workers[g].result
    BY <1>1, <1>3, StoreSlot
  <2>2. Announced' = Announced
    BY <1>3 DEF Store, Announced
  <2>3. slot'.pending /\ slot'.kind = slot.kind /\ slot'.fenced = slot.fenced
    BY <1>1, <2>1 DEF SlotInv, SlotRecord
  <2>4. g = Newest
    BY <2>1 DEF Current, Newest
  <2>5. ToldInv'
    BY <1>1, <2>1, <2>2, <2>3, <2>4, MovedTold
  <2> QED
    BY <2>1, <2>3, <2>5
<1>4. CASE PostCallback(g)
  <2>1. /\ SlotInv' /\ Onward /\ slot' = slot /\ Moved(g) /\ At(g, "post")
        /\ workers'[g].result = workers[g].result
    BY <1>1, <1>4, PostSlot
  <2>2. Announced' = Announced
    BY <1>4 DEF PostCallback, Announced
  <2>3. Current(g)' <=> Current(g)
    BY <2>1 DEF Current, Moved, Newest
  <2>4. ToldInv'
    BY <1>1, <2>1, <2>2, <2>3, MovedTold DEF At
  <2> QED
    BY <2>1, <2>4
<1>5. CASE PostRefused(g)
  <2>1. /\ SlotInv' /\ Onward /\ Moved(g) /\ slot'.fenced = slot.fenced
        /\ At(g, "post") /\ workers'[g].result = workers[g].result
        /\ \/ slot' = slot
           \/ slot'.kind = "none" /\ Current(g) /\ ~Written(g)
    BY <1>1, <1>5, RefusedSlot
  <2>2. Announced' = Announced
    BY <1>5 DEF PostRefused, Announced
  <2>3. slot' = slot => (Current(g)' <=> Current(g))
    BY <2>1 DEF Current, Moved, Newest
  <2>4. slot' # slot => g = Newest /\ ~(workers[g].kind = "save" /\ workers[g].result = "ok")
    BY <2>1 DEF Current, Newest, Written
  <2>5. ToldInv'
    BY <1>1, <2>1, <2>2, <2>3, <2>4, MovedTold DEF At
  <2> QED
    BY <2>1, <2>5
<1>6. CASE ImportEnds(g)
  <2>1. /\ SlotInv' /\ Onward /\ Moved(g) /\ slot'.fenced = slot.fenced /\ Current(g)
        /\ workers[g].kind = "import" /\ slot'.kind = slot.kind
    BY <1>1, <1>6, ImportEndsSlot
  <2>2. Announced' = Announced /\ g = Newest
    BY <1>6, <2>1 DEF ImportEnds, Announced, Current, Newest
  <2>3. ToldInv'
    BY <1>1, <2>1, <2>2, MovedTold
  <2> QED
    BY <2>1, <2>3
<1>7. CASE Emit(g)
  BY <1>1, <1>7, EmitSlot, EmitTold
<1>8. CASE Cleanup(g)
  <2>1. /\ SlotInv' /\ Onward /\ Moved(g) /\ workers[g].kind = "import" /\ Current(g)
        /\ slot'.kind = "none" /\ slot'.fenced = slot.fenced
    BY <1>1, <1>8, CleanupSlot
  <2>2. Announced' = Announced /\ g = Newest
    BY <1>8, <2>1 DEF Cleanup, Announced, Current, Newest
  <2>3. ToldInv'
    BY <1>1, <2>1, <2>2, MovedTold
  <2> QED
    BY <2>1, <2>3
<1> QED
  BY <1>2, <1>3, <1>4, <1>5, <1>6, <1>7, <1>8 DEF WorkerStep

-----------------------------------------------------------------------------
(* The document, its files and the pump *)

\* A document as it was opened.
LEMMA OpenedDocument ==
  /\ Opened(0) \in Document
  /\ \A g \in Nat : /\ Opened(g) \in Document /\ Opened(g).session = g
                    /\ Opened(g).text = 0 /\ Opened(g).saved = 0
BY FilesAssumption DEF Opened, Document

\* What is known of the document, its files and the snapshot of a Save.
LEMMA DocFields ==
  ASSUME Typed, SlotInv
  PROVE  /\ doc.session \in Nat /\ doc.rev \in Nat /\ doc.text \in Texts /\ doc.saved \in Texts
         /\ DOMAIN disk = {0} \cup Generations
         /\ \A g \in {0} \cup Generations : disk[g] \in Texts
         /\ \A g \in Generations :
               /\ workers[g].before.text \in Texts /\ workers[g].before.saved \in Texts
               /\ workers[g].before.session \in {0} \cup Generations
<1>1. /\ doc.session \in Nat /\ doc.rev \in Nat /\ doc.text \in Texts /\ doc.saved \in Texts
  BY DEF Typed, Document
<1>2. disk \in [{0} \cup Generations -> Texts]
  BY DEF Typed
<1>3. ASSUME NEW g \in Generations
      PROVE  /\ workers[g].before.text \in Texts /\ workers[g].before.saved \in Texts
             /\ workers[g].before.session \in {0} \cup Generations
  <2>1. /\ workers[g].before \in Document /\ WorkerSound(g)
        /\ Generations = 1..Newest /\ Newest \in Nat
    BY WorkerFields
  <2>2. workers[g].before.session < g
    BY <2>1 DEF WorkerSound
  <2>3. /\ workers[g].before.session \in Nat /\ workers[g].before.text \in Texts
        /\ workers[g].before.saved \in Texts
    BY <2>1 DEF Document
  <2> QED
    BY <2>1, <2>2, <2>3
<1> QED
  BY <1>1, <1>2, <1>3

\* Every Save that has come to a result keeps it, and the slot if it succeeded.
SavesStand ==
    /\ Generations \subseteq Generations'
    /\ \A g \in Generations :
          /\ workers'[g].kind = workers[g].kind /\ workers'[g].before = workers[g].before
          /\ workers[g].result # "none" => workers'[g].result = workers[g].result
          /\ workers[g].kind = "save" /\ workers[g].result = "ok" /\ Current(g) => Current(g)'

\* Then what the document takes to be saved is as well founded as it was.
LEMMA StillFounded ==
  ASSUME SavedMeansOnDisk, SavesStand, disk'[doc.session] = disk[doc.session],
         doc'.session = doc.session, doc'.saved = doc.saved
  PROVE  SavedMeansOnDisk'
<1>1. CASE disk[doc.session] = doc.saved
  BY <1>1 DEF SavedMeansOnDisk
<1>2. CASE \E g \in Generations : WrittenNotCommitted(g)
  <2>1. PICK g \in Generations : WrittenNotCommitted(g)
    BY <1>2
  <2>2. /\ g \in Generations' /\ workers'[g].kind = "save"
        /\ workers'[g].before = workers[g].before /\ workers'[g].result = workers[g].result
        /\ workers[g].result = "ok" => Current(g)'
    BY <2>1 DEF WrittenNotCommitted, SavesStand
  <2>3. WrittenNotCommitted(g)'
    BY <2>1, <2>2 DEF WrittenNotCommitted
  <2> QED
    BY <2>2, <2>3 DEF SavedMeansOnDisk
<1> QED
  BY <1>1, <1>2 DEF SavedMeansOnDisk

\* A step leaves the document and its files alone, and a written Save its slot.
LEMMA DocKept ==
  ASSUME Typed, SlotInv, DocInv, UNCHANGED <<doc, disk>>,
         Newest' = Newest, Generations' = Generations,
         \/ slot'.kind = slot.kind
         \/ slot'.kind = "none" /\ ~(slot.kind = "save" /\ workers[Newest].result = "ok"),
         \A g \in Generations :
            /\ workers'[g].kind = workers[g].kind /\ workers'[g].before = workers[g].before
            /\ workers[g].result # "none" => workers'[g].result = workers[g].result,
         slot.kind = "save" => workers'[Newest].result = workers[Newest].result
  PROVE  DocInv'
<1>1. SavedMeansOnDisk'
  <2>1. SavesStand
    BY WorkerFields DEF SavesStand, Current, Newest, Kinds
  <2> QED
    BY <2>1, StillFounded DEF DocInv
<1>2. DocSound'
  <2>1. DocSound
    BY DEF DocInv
  <2>2. slot.kind # "none" => Newest \in Generations
    BY Holder
  <2>3. /\ doc'.session <= Newest'
        /\ slot'.kind = "open" => disk'[Newest'] = 0 /\ doc'.session < Newest'
    BY <2>1 DEF DocSound
  <2>4. slot'.kind = "save" =>
           /\ doc'.session = workers'[Newest'].before.session
           /\ doc'.saved = workers'[Newest'].before.saved
           /\ workers'[Newest'].result = "ok" =>
                 disk'[workers'[Newest'].before.session] = workers'[Newest'].before.text
    BY <2>1, <2>2 DEF DocSound
  <2> QED
    BY <2>3, <2>4 DEF DocSound
<1> QED
  BY <1>1, <1>2 DEF DocInv

\* The workers that stay keep their snapshots.
LEMMA DocStays ==
  ASSUME Typed, SlotInv, DocInv, UNCHANGED <<doc, disk>>, SameWorkers,
         \/ slot'.kind = slot.kind
         \/ slot'.kind = "none" /\ ~(slot.kind = "save" /\ workers[Newest].result = "ok")
  PROVE  DocInv'
<1>1. slot.kind # "none" => Newest \in Generations
  BY Holder
<1> QED
  BY <1>1, DocKept DEF SameWorkers

\* An edit changes neither what is saved nor what is on disk.
LEMMA EditDoc ==
  ASSUME Typed, SlotInv, DocInv, Edit
  PROVE  DocInv' /\ doc' \in Document
<1>1. PICK text \in Texts : doc' = [doc EXCEPT !.rev = @ + 1, !.text = text]
  BY DEF Edit
<1>2. UNCHANGED <<slot, workers, disk>>
  BY DEF Edit
<1>3. doc' \in Document /\ doc'.session = doc.session /\ doc'.saved = doc.saved
  <2>1. doc \in Document /\ doc.rev + 1 \in Nat
    BY DocFields DEF Typed
  <2> QED
    BY <1>1, <2>1 DEF Document
<1>4. SavedMeansOnDisk'
  <2>1. SavesStand
    BY <1>2 DEF SavesStand, Current, Generations
  <2> QED
    BY <1>2, <1>3, <2>1, StillFounded DEF DocInv
<1>5. DocSound'
  BY <1>2, <1>3 DEF DocInv, DocSound, Newest
<1> QED
  BY <1>3, <1>4, <1>5 DEF DocInv

\* The document after an Open or a Save has ended, when nobody has the slot any more.
LEMMA DocFinished ==
  ASSUME Typed, SlotInv, DocInv, UNCHANGED disk, SameWorkers, slot'.kind = "none",
         NEW g \in Generations, Current(g),
         \/ workers[g].kind = "open" /\ FinishOpen(g)
         \/ workers[g].kind = "save" /\ FinishSave(g)
  PROVE  DocInv' /\ doc' \in Document
<1>1. /\ doc.session \in Nat /\ doc.rev \in Nat /\ doc.text \in Texts /\ doc.saved \in Texts
      /\ doc \in Document
  BY DocFields DEF Typed
<1>2. g = Newest /\ slot.kind = workers[g].kind /\ Newest \in Nat /\ g \in Nat
  BY WorkerFields DEF Current, Newest
<1>3. DocSound /\ SavedMeansOnDisk
  BY DEF DocInv
<1>4. CASE doc' = doc /\ ~(workers[g].kind = "save" /\ workers[g].result = "ok")
  BY <1>1, <1>2, <1>4, DocStays
<1>5. CASE workers[g].kind = "open" /\ doc' = Opened(g)
  <2>1. doc' \in Document /\ doc'.session = Newest /\ doc'.saved = 0
    BY <1>2, <1>5, OpenedDocument
  <2>2. disk[Newest] = 0
    BY <1>2, <1>3, <1>5 DEF DocSound
  <2>3. DocSound'
    BY <1>2, <2>1 DEF DocSound, SameWorkers
  <2> QED
    BY <2>1, <2>2, <2>3 DEF DocInv, SavedMeansOnDisk
<1>6. CASE workers[g].kind = "save" /\ Commits(g)
           /\ \E rev \in RevisionsAfter(g) : doc' = [doc EXCEPT !.rev = rev, !.saved = SavedText(g)]
  <2>1. PICK rev \in RevisionsAfter(g) : doc' = [doc EXCEPT !.rev = rev, !.saved = SavedText(g)]
    BY <1>6
  <2>2. rev \in Nat
    BY <1>1, <2>1 DEF RevisionsAfter
  <2>3. SavedText(g) \in Texts /\ SavedText(g) = workers[g].before.text
    BY DocFields DEF SavedText
  <2>4. /\ doc' \in Document /\ doc'.session = doc.session
        /\ doc'.saved = workers[g].before.text
    BY <1>1, <2>1, <2>2, <2>3 DEF Document
  <2>5. workers[g].result = "ok" /\ doc.session = workers[g].before.session
    BY <1>6 DEF Commits
  <2>6. disk[doc.session] = workers[g].before.text
    BY <1>2, <1>3, <1>6, <2>5 DEF DocSound
  <2>7. DocSound'
    BY <1>1, <1>3, <2>4 DEF DocSound, SameWorkers
  <2> QED
    BY <2>4, <2>6, <2>7 DEF DocInv, SavedMeansOnDisk
<1>7. \/ doc' = doc /\ ~(workers[g].kind = "save" /\ workers[g].result = "ok")
      \/ workers[g].kind = "open" /\ doc' = Opened(g)
      \/ /\ workers[g].kind = "save" /\ Commits(g)
         /\ \E rev \in RevisionsAfter(g) : doc' = [doc EXCEPT !.rev = rev, !.saved = SavedText(g)]
  <2>1. CASE workers[g].kind = "open" /\ FinishOpen(g)
    BY <2>1 DEF FinishOpen
  <2>2. CASE workers[g].kind = "save" /\ FinishSave(g)
    <3>1. workers[g].result = "ok" => Commits(g)
      BY <1>2, <1>3, <2>2 DEF Commits, DocSound
    <3> QED
      BY <2>2, <3>1 DEF FinishSave
  <2> QED
    BY <2>1, <2>2
<1> QED
  BY <1>4, <1>5, <1>6, <1>7

\* A worker that starts takes a new number, whose file is as an Open finds it.
LEMMA StartDoc ==
  ASSUME Typed, SlotInv, DocInv, NEW kind \in Kinds, NEW before \in Document,
         before.session <= Newest,
         SlotFree, StartWorker(kind, before), UNCHANGED doc,
         kind = "save" => before = doc
  PROVE  DocInv' /\ disk' \in [{0} \cup Generations' -> Texts]
<1>1. /\ Newest' = Newest + 1 /\ Generations' = Generations \cup {Newest'}
      /\ \A g \in Generations : workers'[g] = workers[g]
      /\ workers'[Newest'].before = before
      /\ workers'[Newest'].result = "none" /\ slot'.kind = kind
  BY StartedSlot
<1>2. /\ doc.session \in Nat
      /\ DOMAIN disk = {0} \cup Generations /\ \A g \in {0} \cup Generations : disk[g] \in Texts
  BY DocFields
<1>3. Newest \in Nat /\ Generations = 1 .. Newest
  BY WorkerFields
<1>4. disk' = [g \in {0} \cup Generations' |-> IF g \in {0} \cup Generations THEN disk[g] ELSE 0]
  <2>1. Newest' = Len(workers) + 1
    BY <1>1 DEF Newest
  <2> QED
    BY <1>1, <1>2, <2>1 DEF StartWorker
<1>5. disk' \in [{0} \cup Generations' -> Texts]
  BY <1>2, <1>4, FilesAssumption
<1>6. /\ disk'[Newest'] = 0
      /\ \A g \in {0} \cup Generations : disk'[g] = disk[g]
  BY <1>1, <1>3, <1>4
<1>7. DocSound /\ SavedMeansOnDisk /\ doc.session <= Newest
  BY DEF DocInv, DocSound
<1>8. SavedMeansOnDisk'
  <2>1. disk'[doc.session] = disk[doc.session]
    BY <1>2, <1>3, <1>6, <1>7
  <2>2. SavesStand
    BY <1>1 DEF SavesStand, Current, SlotFree
  <2> QED
    BY <1>7, <2>1, <2>2, StillFounded
<1>9. DocSound'
  BY <1>1, <1>2, <1>3, <1>6, <1>7 DEF DocSound
<1> QED
  BY <1>5, <1>8, <1>9 DEF DocInv

\* The snapshot replaces the file of the document, which does not take it to be saved yet.
LEMMA PublishDoc ==
  ASSUME Typed, SlotInv, DocInv, NEW g \in Generations, Publish(g)
  PROVE  DocInv' /\ disk' \in [{0} \cup Generations -> Texts]
<1>1. /\ slot' = slot /\ Moved(g) /\ Current(g) /\ UNCHANGED doc
      /\ workers[g].kind = "save" /\ workers[g].result = "none"
  <2>1. slot' = slot /\ Moved(g) /\ Current(g)
    BY WorkedSlot
  <2>2. At(g, "run") /\ WorkerSound(g)
    BY WorkerFields DEF Publish
  <2> QED
    BY <2>1, <2>2 DEF Publish, WorkerSound
<1>2. g = Newest /\ slot.kind = "save" /\ Newest' = Newest
  BY <1>1 DEF Current, Newest, Moved
<1> DEFINE before == workers[g].before
<1>3. /\ before.session \in {0} \cup Generations /\ before.text \in Texts
      /\ doc.session \in Nat
  BY DocFields
<1>4. PICK result \in Outcome(g) :
         /\ Work(g, result)
         /\ \/ /\ result # "cancelled"
               /\ disk' = [disk EXCEPT ![before.session] = before.text]
            \/ result # "ok" /\ UNCHANGED disk
  BY DEF Publish
<1>5. result \in Results /\ result \in {"ok", "failed", "cancelled"}
  BY <1>4 DEF Outcome, Results
<1>6. workers'[g].result = result /\ workers'[g].before = before /\ workers'[g].kind = "save"
  BY <1>1, <1>4, <1>5, WorkedOut DEF Moved
<1>7. /\ doc.session = before.session /\ doc.saved = before.saved
      /\ doc.session <= Newest /\ SavedMeansOnDisk
  BY <1>2 DEF DocInv, DocSound
<1>8. disk \in [{0} \cup Generations -> Texts]
  BY DEF Typed
<1>9. Generations' = Generations /\ Current(g)'
  BY <1>1, <1>2 DEF Moved, Current, Newest
<1> HIDE DEF before
<1>10. CASE result # "cancelled" /\ disk' = [disk EXCEPT ![before.session] = before.text]
  <2>1. disk' \in [{0} \cup Generations -> Texts] /\ disk'[before.session] = before.text
    BY <1>3, <1>8, <1>10
  <2>2. SavedMeansOnDisk'
    <3>1. WrittenNotCommitted(g)'
      BY <1>1, <1>5, <1>6, <1>7, <1>9, <1>10, <2>1 DEF WrittenNotCommitted
    <3> QED
      BY <1>9, <3>1 DEF SavedMeansOnDisk
  <2>3. DocSound'
    BY <1>1, <1>2, <1>6, <1>7, <2>1 DEF DocSound
  <2> QED
    BY <2>1, <2>2, <2>3 DEF DocInv
<1>11. CASE result # "ok" /\ UNCHANGED disk
  <2>1. SavedMeansOnDisk'
    <3>1. SavesStand
      BY <1>1, <1>2, <1>9 DEF SavesStand, Moved, Current, Newest
    <3> QED
      BY <1>1, <1>7, <1>11, <3>1, StillFounded
  <2>2. DocSound'
    BY <1>1, <1>2, <1>6, <1>7, <1>11 DEF DocSound
  <2> QED
    BY <1>8, <1>11, <2>1, <2>2 DEF DocInv
<1> QED
  BY <1>4, <1>10, <1>11

\* The pump keeps its callback, or has none, while the workers go on.
LEMMA PumpKept ==
  ASSUME SlotInv, PumpSound, HalvesAgree, SlotInv', Onward,
         pump' \in PumpRecord, pump'.callback \in {0, pump.callback}, pump'.open = pump.open,
         open' = open, ~open => slot'.fenced /\ slot'.kind = "none",
         ui' \in {"joining", "rejoining"} => slot'.fenced /\ open
  PROVE  PumpSound' /\ HalvesAgree'
<1>1. pump'.callback # 0 =>
         /\ pump'.callback \in Generations'
         /\ workers'[pump'.callback].at = "end" /\ workers'[pump'.callback].kind # "import"
  <2> SUFFICES ASSUME pump'.callback # 0
               PROVE  /\ pump'.callback \in Generations'
                      /\ workers'[pump'.callback].at = "end"
                      /\ workers'[pump'.callback].kind # "import"
    OBVIOUS
  <2>1. /\ pump'.callback \in Generations /\ At(pump'.callback, "end")
        /\ workers[pump'.callback].kind # "import"
    BY DEF PumpSound
  <2> QED
    BY <2>1 DEF Onward, Progress
<1>2. PumpSound'
  BY <1>1 DEF PumpSound, At
<1>3. HalvesAgree'
  BY DEF HalvesAgree
<1> QED
  BY <1>2, <1>3

\* What is announced stays a sequence of terminals.
LEMMA AnnounceTyped ==
  ASSUME Typed, NEW t \in Terminal, Announce(<<t>>) \/ Announce(<<>>)
  PROVE  heard' \in Seq(Terminal) /\ mail' \in Seq(Terminal)
<1>1. heard \in Seq(Terminal) /\ mail \in Seq(Terminal)
  BY DEF Typed
<1>2. ASSUME NEW new \in Seq(Terminal), Announce(new)
      PROVE  heard' \in Seq(Terminal) /\ mail' \in Seq(Terminal)
  <2>1. /\ heard \o mail \in Seq(Terminal) /\ (heard \o mail) \o new \in Seq(Terminal)
        /\ mail \o new \in Seq(Terminal) /\ <<>> \in Seq(Terminal)
    BY <1>1, ConcatProperties
  <2>2. \/ heard' = (heard \o mail) \o new /\ mail' = <<>>
        \/ mail' = mail \o new /\ heard' = heard
    BY <1>2 DEF Announce
  <2> QED
    BY <1>1, <2>1, <2>2
<1>3. <<t>> \in Seq(Terminal) /\ <<>> \in Seq(Terminal)
  OBVIOUS
<1> QED
  BY <1>2, <1>3

\* There are terminals.
LEMMA SomeTerminal == \E t \in Terminal : t.what = "done"
<1>1. [gen |-> 0, what |-> "done"] \in Terminal
  BY DEF Terminal, Whats
<1> QED
  BY <1>1

-----------------------------------------------------------------------------
(* The invariant is preserved *)

\* The window has just opened.
LEMMA FilesInit == Init => FilesInv
<1> SUFFICES ASSUME Init
             PROVE  FilesInv
  OBVIOUS
<1> USE DEF Init
<1>1. Newest = 0 /\ Generations = {} /\ workers \in Seq(Worker)
  BY DEF Newest, Generations
<1>2. Typed
  <2>1. heard \in Seq(Terminal) /\ mail \in Seq(Terminal)
    OBVIOUS
  <2>2. ui \in UiStates /\ dialog \in Dialogs \cup {None} /\ doc \in Document
    BY OpenedDocument DEF UiStates
  <2>3. disk \in [{0} \cup Generations -> Texts]
    BY <1>1, FilesAssumption
  <2> QED
    BY <2>1, <2>2, <2>3 DEF Typed
<1>3. SlotInv
  <2>1. slot \in SlotRecord
    BY DEF Free, SlotRecord, Kinds
  <2>2. SlotSound /\ MarkerSound
    BY DEF Free, SlotSound, MarkerSound
  <2> QED
    BY <1>1, <2>1, <2>2 DEF SlotInv
<1>4. PumpSound
  <2>1. pump \in PumpRecord
    BY DEF PumpRecord
  <2> QED
    BY <2>1 DEF PumpSound
<1>5. HalvesAgree
  BY DEF HalvesAgree
<1>6. ToldInv
  <2>1. DOMAIN Announced = {}
    BY DEF Announced
  <2> QED
    BY <1>1, <2>1 DEF ToldInv, TerminalsSound, OneTerminal, SavesKept
<1>7. DocInv
  BY <1>1 DEF DocInv, DocSound, SavedMeansOnDisk, Opened, Free
<1> QED
  BY <1>2, <1>3, <1>4, <1>5, <1>6, <1>7 DEF FilesInv

\* A dialog opens.
DialogOpens == OpenDialog("open") \/ OpenDialog("import")

\* The steps that leave the workers, the slot and what has been told alone.
LEMMA StillInv ==
  ASSUME FilesInv,
         \/ Edit \/ DialogOpens \/ JoinTimesOut \/ Present \/ TimerFires
         \/ UNCHANGED vars
         \/ Choose /\ UNCHANGED <<slot, workers, disk>>
  PROVE  FilesInv'
<1>1. Typed /\ SlotInv /\ PumpSound /\ HalvesAgree /\ ToldInv /\ DocInv
  BY DEF FilesInv
<1>2. UNCHANGED <<slot, workers>> /\ open' = open
  BY DEF Edit, DialogOpens, OpenDialog, JoinTimesOut, Present, TimerFires, Choose, vars
<1>3. SameWorkers
  BY <1>1, <1>2, CancelRequested
<1>4. Announced' = Announced
  <2>1. CASE Present
    BY <1>1, <2>1, SomeTerminal, Announces DEF Present
  <2>2. CASE ~Present
    BY <2>2 DEF Edit, DialogOpens, OpenDialog, JoinTimesOut, TimerFires, Choose, vars, Announced
  <2> QED
    BY <2>1, <2>2
<1>5. SlotInv' /\ Onward /\ ToldInv'
  BY <1>1, <1>2, <1>3, <1>4, Nothing
<1>6. DocInv' /\ doc' \in Document /\ disk' = disk
  <2>1. CASE Edit
    BY <1>1, <2>1, EditDoc DEF Edit
  <2>2. CASE ~Edit
    <3>1. UNCHANGED <<doc, disk>>
      BY <2>2 DEF DialogOpens, OpenDialog, JoinTimesOut, Present, TimerFires, Choose, vars
    <3> QED
      BY <1>1, <1>2, <1>3, <3>1, DocStays DEF Typed
  <2> QED
    BY <2>1, <2>2
<1>7. pump' \in PumpRecord /\ pump'.callback = pump.callback /\ pump'.open = pump.open
  <2>1. CASE ~TimerFires
    <3>1. pump' = pump
      BY <2>1 DEF Edit, DialogOpens, OpenDialog, JoinTimesOut, Present, Choose, vars
    <3> QED
      BY <1>1, <3>1 DEF PumpSound
  <2>2. CASE TimerFires
    <3>1. pump \in PumpRecord
      BY <1>1 DEF PumpSound
    <3> DEFINE p == [pump EXCEPT !.retry = FALSE]
    <3>2. p \in PumpRecord /\ p.callback = pump.callback /\ p.open = pump.open
      BY <3>1 DEF PumpRecord
    <3>3. pump' = p \/ pump' = [p EXCEPT !.wake = TRUE]
      BY <2>2 DEF TimerFires
    <3> HIDE DEF p
    <3> QED
      BY <3>2, <3>3 DEF PumpRecord
  <2> QED
    BY <2>1, <2>2
<1>8. PumpSound' /\ HalvesAgree'
  <2>1. ui' \in {"joining", "rejoining"} => ui' = ui
    BY DEF Edit, DialogOpens, OpenDialog, JoinTimesOut, Present, TimerFires, Choose, vars
  <2>2. ui' \in {"joining", "rejoining"} => slot'.fenced /\ open
    BY <1>1, <1>2, <2>1 DEF PumpSound
  <2>3. ~open => slot'.fenced /\ slot'.kind = "none"
    BY <1>1, <1>2 DEF HalvesAgree
  <2> QED
    BY <1>1, <1>2, <1>5, <1>7, <2>2, <2>3, PumpKept
<1>9. Typed'
  <2>1. posted' \in Nat
    <3>1. posted' \in {posted, posted + 1}
      BY DEF Edit, DialogOpens, OpenDialog, JoinTimesOut, Present, TimerFires, Choose, vars
    <3> QED
      BY <1>1, <3>1 DEF Typed
  <2>2. heard' \in Seq(Terminal) /\ mail' \in Seq(Terminal)
    <3>1. CASE Present
      BY <1>1, <3>1, SomeTerminal, AnnounceTyped DEF Present
    <3>2. CASE ~Present
      BY <1>1, <3>2 DEF Typed, Edit, DialogOpens, OpenDialog, JoinTimesOut, TimerFires, Choose, vars
    <3> QED
      BY <3>1, <3>2
  <2>3. open' \in BOOLEAN
    BY <1>1, <1>2 DEF Typed
  <2>4. ui' \in UiStates
    BY <1>1 DEF Typed, UiStates, Edit, DialogOpens, OpenDialog, JoinTimesOut, Present, TimerFires, Choose, vars
  <2>5. dialog' \in Dialogs \cup {None}
    <3>1. ASSUME NEW kind \in {"open", "import"}, OpenDialog(kind)
          PROVE  dialog' \in Dialogs
      BY <1>1, <3>1, OpenedDocument DEF OpenDialog, Dialogs, Dialog, Typed
    <3>2. DialogOpens \/ dialog' \in {dialog, None}
      BY DEF Edit, JoinTimesOut, Present, TimerFires, Choose, vars
    <3> QED
      BY <1>1, <3>1, <3>2 DEF Typed, DialogOpens
  <2>7. disk' \in [{0} \cup Generations' -> Texts]
    BY <1>1, <1>3, <1>6 DEF Typed, SameWorkers
  <2> QED
    BY <1>6, <2>1, <2>2, <2>3, <2>4, <2>5, <2>7 DEF Typed
<1> QED
  BY <1>5, <1>6, <1>8, <1>9 DEF FilesInv

\* A new worker starts.
LEMMA StartInv ==
  ASSUME FilesInv, Choose \/ StartSave
  PROVE  FilesInv'
<1>1. Typed /\ SlotInv /\ PumpSound /\ HalvesAgree /\ ToldInv /\ DocInv
  BY DEF FilesInv
<1>2. CASE Choose /\ UNCHANGED <<slot, workers, disk>>
  BY <1>2, StillInv
<1>3. ASSUME NEW kind \in Kinds, NEW before \in Document, before = doc \/ before = Opened(0),
             kind # "import" => before = doc, SlotFree, StartWorker(kind, before),
             UNCHANGED <<pump, posted, mail, heard, open, ui, doc>>,
             dialog' \in {dialog, None}
      PROVE  FilesInv'
  <2>1. before.session <= Newest
    BY <1>1, <1>3, WorkerFields DEF DocInv, DocSound, Opened
  <2>2. SlotInv' /\ Onward /\ ToldInv'
    BY <1>3, <2>1, StartTold
  <2>3. DocInv' /\ disk' \in [{0} \cup Generations' -> Texts]
    BY <1>1, <1>3, <2>1, StartDoc
  <2>4. slot'.fenced = slot.fenced
    BY <1>1, <1>3, <2>1, StartedSlot
  <2>5. PumpSound' /\ HalvesAgree'
    <3>1. open
      BY <1>1, <1>3 DEF SlotFree, HalvesAgree
    <3>2. pump' \in PumpRecord
      BY <1>1, <1>3 DEF PumpSound
    <3>3. ui' \in {"joining", "rejoining"} => slot'.fenced
      BY <1>1, <1>3, <2>4 DEF PumpSound
    <3> QED
      BY <1>1, <1>3, <2>2, <3>1, <3>2, <3>3, PumpKept
  <2>6. Typed'
    BY <1>1, <1>3, <2>3 DEF Typed
  <2> QED
    BY <2>2, <2>3, <2>5, <2>6 DEF FilesInv
<1>4. CASE /\ Choose /\ SlotFree /\ (dialog.kind = "open" => StillWanted(dialog.before))
           /\ StartWorker(dialog.kind, dialog.before)
  <2>1. dialog \in Dialog /\ (dialog.kind = "import" => dialog.before = Opened(0))
    BY <1>1, <1>4 DEF Choose, Typed, Dialogs
  <2>2. /\ dialog.kind \in {"open", "import"} /\ dialog.kind \in Kinds
        /\ dialog.before \in Document
    BY <2>1 DEF Dialog, Kinds
  <2>3. dialog.kind = "open" => dialog.before = doc
    BY <1>4 DEF StillWanted
  <2>4. UNCHANGED <<pump, posted, mail, heard, open, ui, doc>> /\ dialog' = None
    BY <1>4 DEF Choose
  <2> QED
    BY <1>3, <1>4, <2>1, <2>2, <2>3, <2>4
<1>5. CASE StartSave
  <2>1. doc \in Document /\ "save" \in Kinds
    BY <1>1 DEF Typed, Kinds
  <2> QED
    BY <1>3, <1>5, <2>1 DEF StartSave
<1> QED
  BY <1>2, <1>4, <1>5 DEF Choose

\* The UI thread runs the callback.
LEMMA CallbackInv ==
  ASSUME FilesInv, RunPosted \/ RecoverCallback
  PROVE  FilesInv'
<1>1. Typed /\ SlotInv /\ PumpSound /\ HalvesAgree /\ ToldInv /\ DocInv
  BY DEF FilesInv
<1>2. RunOwnerCallback /\ posted' \in Nat
  <2>1. posted \in Nat
    BY <1>1 DEF Typed
  <2> QED
    BY <2>1 DEF RunPosted, RecoverCallback
<1>3. UNCHANGED <<workers, open, ui, dialog, disk>>
  BY <1>2 DEF RunOwnerCallback
<1>4. SlotInv' /\ Onward /\ ToldInv' /\ slot'.fenced = slot.fenced
  BY <1>2, CallbackTold
<1>5. SameWorkers
  BY <1>1, <1>3, CancelRequested
<1> DEFINE g == pump.callback
<1>6. \/ UNCHANGED <<slot, doc, mail, heard, failures>>
      \/ /\ g # 0 /\ Current(g)
         /\ \/ workers[g].kind = "open" /\ FinishOpen(g) /\ Announce(<<End(g, OpenEnd(g))>>)
            \/ workers[g].kind = "save" /\ FinishSave(g) /\ Announce(<<End(g, SaveEnd(g))>>)
  BY <1>2 DEF RunOwnerCallback, FinishOnOwner
<1>7. g # 0 => g \in Generations
  BY <1>1 DEF PumpSound
<1> HIDE DEF g
<1>8. /\ DocInv' /\ doc' \in Document /\ heard' \in Seq(Terminal) /\ mail' \in Seq(Terminal)
      /\ slot'.kind \in {slot.kind, "none"}
  <2>1. CASE UNCHANGED <<slot, doc, mail, heard, failures>>
    BY <1>1, <1>3, <1>5, <2>1, DocStays DEF Typed
  <2>2. CASE /\ g # 0 /\ Current(g)
             /\ \/ workers[g].kind = "open" /\ FinishOpen(g) /\ Announce(<<End(g, OpenEnd(g))>>)
                \/ workers[g].kind = "save" /\ FinishSave(g) /\ Announce(<<End(g, SaveEnd(g))>>)
    <3>1. slot'.kind = "none"
      <4>1. slot' = Settled(slot) \/ slot' = Clear(slot)
        BY <2>2 DEF FinishOpen, FinishSave
      <4> QED
        BY <1>1, <4>1, Released DEF SlotInv
    <3>2. DocInv' /\ doc' \in Document
      BY <1>1, <1>3, <1>5, <1>7, <2>2, <3>1, DocFinished
    <3>3. /\ End(g, OpenEnd(g)) \in Terminal /\ End(g, SaveEnd(g)) \in Terminal
      BY <1>1, <1>7, <2>2, Ends
    <3>4. heard' \in Seq(Terminal) /\ mail' \in Seq(Terminal)
      BY <1>1, <2>2, <3>3, AnnounceTyped
    <3> QED
      BY <3>1, <3>2, <3>4
  <2> QED
    BY <1>6, <2>1, <2>2
<1>9. PumpSound' /\ HalvesAgree'
  <2>1. pump' \in PumpRecord /\ pump'.callback = 0 /\ pump'.open = pump.open
    <3>1. pump \in PumpRecord /\ pump' = [pump EXCEPT !.wake = FALSE, !.callback = 0]
      BY <1>1, <1>2 DEF PumpSound, RunOwnerCallback
    <3> QED
      BY <3>1 DEF PumpRecord
  <2>2. ~open => slot'.fenced /\ slot'.kind = "none"
    BY <1>1, <1>4, <1>8 DEF HalvesAgree
  <2>3. ui' \in {"joining", "rejoining"} => slot'.fenced /\ open
    BY <1>1, <1>3, <1>4 DEF PumpSound
  <2> QED
    BY <1>1, <1>3, <1>4, <2>1, <2>2, <2>3, PumpKept
<1>10. Typed'
  BY <1>1, <1>2, <1>3, <1>5, <1>8 DEF Typed, SameWorkers
<1> QED
  BY <1>4, <1>8, <1>9, <1>10 DEF FilesInv

\* A cancel.
LEMMA CancelInv ==
  ASSUME FilesInv, CancelOpen \/ CancelSave \/ CancelImport
  PROVE  FilesInv'
<1>1. Typed /\ SlotInv /\ PumpSound /\ HalvesAgree /\ ToldInv /\ DocInv
  BY DEF FilesInv
<1>2. UNCHANGED <<pump, posted, mail, open, ui, dialog, disk>> /\ open
      /\ slot.kind # "none"
  BY DEF CancelOpen, CancelSave, CancelImport, Owned
<1>3. SlotInv' /\ Onward /\ ToldInv' /\ slot'.fenced = slot.fenced
  BY CancelTold
<1>4. /\ Newest \in Generations /\ Newest # 0 /\ Current(Newest)
      /\ workers[Newest].kind = slot.kind
  BY <1>1, <1>2, Holder, WorkerFields
<1>5. SameWorkers
  <2>1. UNCHANGED workers \/ RequestCancel
    BY DEF CancelOpen, CancelSave, CancelImport
  <2> QED
    BY <1>1, <1>4, <2>1, CancelRequested
<1>6. PumpSound' /\ HalvesAgree'
  <2>1. pump' \in PumpRecord
    BY <1>1, <1>2 DEF PumpSound
  <2>2. ui' \in {"joining", "rejoining"} => slot'.fenced /\ open
    BY <1>1, <1>2, <1>3 DEF PumpSound
  <2> QED
    BY <1>1, <1>2, <1>3, <2>1, <2>2, PumpKept
<1>7. DocInv' /\ doc' \in Document
  <2>1. CASE slot.kind = "save" /\ FinishSave(Newest)
    <3>1. slot'.kind = "none"
      <4>1. slot' = Clear(slot)
        BY <2>1 DEF FinishSave
      <4> QED
        BY <1>1, <4>1, Released DEF SlotInv
    <3> QED
      BY <1>1, <1>2, <1>4, <1>5, <2>1, <3>1, DocFinished
  <2>2. CASE doc' = doc /\ (slot' = slot \/ (slot.kind = "open" /\ slot' = Settled(slot)))
    <3>1. slot'.kind = slot.kind \/ (slot.kind = "open" /\ slot'.kind = "none")
      BY <1>1, <2>2, Released DEF SlotInv
    <3> QED
      BY <1>1, <1>2, <1>5, <2>2, <3>1, DocStays DEF Typed
  <2>3. \/ slot.kind = "save" /\ FinishSave(Newest)
        \/ doc' = doc /\ (slot' = slot \/ (slot.kind = "open" /\ slot' = Settled(slot)))
    <3>1. CASE CancelOpen
      BY <3>1 DEF CancelOpen, Owned
    <3>2. CASE CancelSave
      BY <3>2 DEF CancelSave, Owned, Newest
    <3>3. CASE CancelImport
      BY <3>3 DEF CancelImport
    <3> QED
      BY <3>1, <3>2, <3>3
  <2> QED
    BY <2>1, <2>2, <2>3
<1>8. heard' \in Seq(Terminal)
  <2>1. heard \in Seq(Terminal)
    BY <1>1 DEF Typed
  <2>2. heard' = heard \/ \E what \in Whats : Told(Newest, what)
    <3>1. SaveEnd(Newest) \in Whats /\ "failed" \in Whats /\ "cancelled" \in Whats
      BY <1>1, <1>4, Ends DEF Whats
    <3> QED
      BY <3>1 DEF CancelOpen, CancelSave, CancelImport, Newest
  <2>3. \A what \in Whats : End(Newest, what) \in Terminal
    BY <1>1, <1>4, Ends
  <2> QED
    BY <2>1, <2>2, <2>3 DEF Told
<1>9. Typed'
  BY <1>1, <1>2, <1>5, <1>7, <1>8 DEF Typed, SameWorkers
<1> QED
  BY <1>3, <1>6, <1>7, <1>9 DEF FilesInv

\* A worker's step.
LEMMA WorkerInv ==
  ASSUME FilesInv, NEW g \in Generations, WorkerStep(g)
  PROVE  FilesInv'
<1>1. Typed /\ SlotInv /\ PumpSound /\ HalvesAgree /\ ToldInv /\ DocInv
  BY DEF FilesInv
<1>2. SlotInv' /\ Onward /\ ToldInv' /\ slot'.fenced = slot.fenced
      /\ Moved(g) /\ slot'.kind \in {slot.kind, "none"}
  BY WorkerTold
<1>3. UNCHANGED <<heard, open, ui, dialog, doc>>
  BY DEF WorkerStep, Prepare, Publish, Store, PostCallback, PostRefused, ImportEnds, Emit, Cleanup
<1>4. DocInv' /\ disk' \in [{0} \cup Generations' -> Texts]
  <2>1. CASE Publish(g)
    BY <1>1, <1>2, <2>1, PublishDoc DEF Moved
  <2>2. CASE ~Publish(g)
    <3>1. disk' = disk
      BY <2>2 DEF WorkerStep, Prepare, Store, PostCallback, PostRefused, ImportEnds, Emit, Cleanup
    <3>2. /\ workers[g].result # "none" => workers'[g].result = workers[g].result
          /\ workers[g].kind = "save" => workers'[g].result = workers[g].result
      <4>1. CASE Prepare(g)
        <5>1. workers[g].kind # "save" /\ At(g, "run") /\ WorkerSound(g)
          BY <1>1, <4>1, WorkerFields DEF Prepare
        <5> QED
          BY <5>1 DEF WorkerSound
      <4>2. CASE ~Prepare(g)
        BY <1>1, <2>2, <4>2, StoreSlot, PostSlot, RefusedSlot, ImportEndsSlot, EmitSlot,
           CleanupSlot DEF WorkerStep
      <4> QED
        BY <4>1, <4>2
    <3>3. Newest' = Newest /\ Generations' = Generations
      BY <1>2 DEF Moved
    <3>4. slot'.kind = slot.kind \/ ~(slot.kind = "save" /\ workers[Newest].result = "ok")
      <4>1. CASE PostRefused(g)
        BY <1>1, <4>1, RefusedSlot DEF Current, Written, Newest
      <4>2. CASE Cleanup(g)
        <5>1. Current(g) => slot.kind = "import"
          BY <1>1, <4>2, WorkerFields DEF Cleanup, WorkerSound, Current, At
        <5> QED
          BY <4>2, <5>1 DEF Cleanup
      <4>3. CASE ~PostRefused(g) /\ ~Cleanup(g)
        <5>1. \/ slot' = slot \/ slot' = [slot EXCEPT !.pending = TRUE]
              \/ slot' = [slot EXCEPT !.pending = TRUE, !.seam = FALSE]
          BY <2>2, <4>3 DEF WorkerStep, Prepare, Store, PostCallback, ImportEnds, Emit
        <5> QED
          BY <1>1, <5>1 DEF SlotInv, SlotRecord
      <4> QED
        BY <4>1, <4>2, <4>3
    <3>5. \A h \in Generations :
             /\ workers'[h].kind = workers[h].kind /\ workers'[h].before = workers[h].before
             /\ workers[h].result # "none" => workers'[h].result = workers[h].result
      BY <1>2, <3>2 DEF Moved
    <3>6. slot.kind = "save" => workers'[Newest].result = workers[Newest].result
      <4>1. slot.kind = "save" => Newest \in Generations /\ workers[Newest].kind = "save"
        BY <1>1, Holder
      <4> QED
        BY <1>2, <3>2, <4>1 DEF Moved
    <3>7. DocInv'
      BY <1>1, <1>2, <1>3, <3>1, <3>3, <3>4, <3>5, <3>6, DocKept
    <3> QED
      BY <1>1, <3>1, <3>3, <3>7 DEF Typed
  <2> QED
    BY <2>1, <2>2
<1>5. ~open => slot'.fenced /\ slot'.kind = "none"
  BY <1>1, <1>2 DEF HalvesAgree
<1>6. ui' \in {"joining", "rejoining"} => slot'.fenced /\ open
  BY <1>1, <1>2, <1>3 DEF PumpSound
<1>7. PumpSound' /\ HalvesAgree' /\ posted' \in Nat
  <2>1. CASE ~PostCallback(g)
    <3>1. pump' = pump /\ posted' = posted
      BY <2>1 DEF WorkerStep, Prepare, Publish, Store, PostRefused, ImportEnds, Emit, Cleanup
    <3>2. pump' \in PumpRecord
      BY <1>1, <3>1 DEF PumpSound
    <3> QED
      BY <1>1, <1>2, <1>3, <1>5, <1>6, <3>1, <3>2, PumpKept DEF Typed
  <2>2. CASE PostCallback(g)
    <3>1. /\ workers'[g].at = "end" /\ workers[g].kind # "import"
      BY <1>1, <2>2, PostSlot
    <3>2. pump' \in PumpRecord /\ pump'.callback = g /\ pump'.open = pump.open
      <4>1. pump \in PumpRecord /\ g \in Nat
        BY <1>1, WorkerFields DEF PumpSound
      <4>2. \/ pump' = [pump EXCEPT !.callback = g, !.wake = TRUE]
            \/ pump' = [pump EXCEPT !.callback = g, !.retry = TRUE]
        BY <2>2 DEF PostCallback
      <4> QED
        BY <4>1, <4>2 DEF PumpRecord
    <3>3. PumpSound'
      BY <1>2, <1>3, <1>6, <3>1, <3>2 DEF PumpSound, At, Moved
    <3>4. HalvesAgree'
      BY <1>1, <1>3, <1>5, <3>2 DEF HalvesAgree
    <3>5. posted' \in Nat
      BY <1>1, <2>2 DEF PostCallback, Typed
    <3> QED
      BY <3>3, <3>4, <3>5
  <2> QED
    BY <2>1, <2>2
<1>8. mail' \in Seq(Terminal)
  <2>1. mail \in Seq(Terminal)
    BY <1>1 DEF Typed
  <2>2. CASE Emit(g)
    <3>1. End(g, workers[g].says) \in Terminal
      BY <1>1, WorkerFields, Ends
    <3> QED
      BY <2>1, <2>2, <3>1 DEF Emit
  <2>3. CASE ~Emit(g)
    BY <2>1, <2>3
    DEF WorkerStep, Prepare, Publish, Store, PostCallback, PostRefused, ImportEnds, Cleanup
  <2> QED
    BY <2>2, <2>3
<1>9. Typed'
  BY <1>1, <1>3, <1>4, <1>7, <1>8 DEF Typed
<1> QED
  BY <1>2, <1>4, <1>7, <1>9 DEF FilesInv

\* The window is closed, once more or for the first time.
LEMMA FenceInv ==
  ASSUME FilesInv, Close \/ Refence
  PROVE  FilesInv'
<1>1. Typed /\ SlotInv /\ PumpSound /\ HalvesAgree /\ ToldInv /\ DocInv
  BY DEF FilesInv
<1>2. /\ SlotInv' /\ Onward /\ ToldInv' /\ SameWorkers /\ slot'.kind = slot.kind
      /\ open => slot'.fenced
      /\ ~open => slot' = slot
  BY FenceTold
<1>3. UNCHANGED <<pump, posted, mail, heard, open, dialog, doc, disk>>
  BY DEF Close, Refence
<1>4. /\ ui' \in {"joining", "rejoining"} => open
      /\ ui' \in UiStates
  BY DEF Close, Refence, UiStates
<1>5. PumpSound' /\ HalvesAgree'
  <2>1. pump' \in PumpRecord
    BY <1>1, <1>3 DEF PumpSound
  <2>2. ~open => slot'.fenced /\ slot'.kind = "none"
    BY <1>1, <1>2 DEF HalvesAgree
  <2> QED
    BY <1>1, <1>2, <1>3, <1>4, <2>1, <2>2, PumpKept
<1>6. DocInv'
  BY <1>1, <1>2, <1>3, DocStays
<1>7. Typed'
  BY <1>1, <1>2, <1>3, <1>4 DEF Typed, SameWorkers
<1> QED
  BY <1>2, <1>5, <1>6, <1>7 DEF FilesInv

\* The rest of a shutdown.
LEMMA RetireInv ==
  ASSUME FilesInv, Retire
  PROVE  FilesInv'
<1>1. Typed /\ SlotInv /\ PumpSound /\ HalvesAgree /\ ToldInv /\ DocInv
  BY DEF FilesInv
<1>2. SlotInv' /\ Onward /\ ToldInv' /\ slot'.fenced /\ slot'.kind = "none"
  BY RetireTold
<1>3. UNCHANGED <<workers, posted, dialog, disk>> /\ ~open' /\ open' \in BOOLEAN
      /\ pump' = ClosedPump /\ ui' \in {"stopping", "idle"}
  BY DEF Retire
<1>4. SameWorkers
  BY <1>1, <1>3, CancelRequested
<1>5. DocInv' /\ doc' \in Document /\ heard' \in Seq(Terminal) /\ mail' \in Seq(Terminal)
  <2>1. CASE slot.kind = "save" /\ slot.pending
    <3>1. Newest \in Generations /\ Current(Newest) /\ workers[Newest].kind = "save"
      BY <1>1, <2>1, Holder
    <3>2. FinishSave(Newest) /\ Announce(<<End(Newest, SaveEnd(Newest))>>)
      BY <2>1 DEF Retire, Newest
    <3>3. DocInv' /\ doc' \in Document
      BY <1>1, <1>2, <1>3, <1>4, <3>1, <3>2, DocFinished
    <3>4. heard' \in Seq(Terminal) /\ mail' \in Seq(Terminal)
      BY <1>1, <3>1, <3>2, Ends, AnnounceTyped
    <3> QED
      BY <3>3, <3>4
  <2>2. CASE ~(slot.kind = "save" /\ slot.pending)
    <3>1. UNCHANGED <<doc, mail, heard>>
      BY <2>2 DEF Retire
    <3>2. slot.kind # "save"
      <4>1. slot.kind # "none" => At(Newest, "end")
        BY DEF Retire, Joined, Newest
      <4> QED
        BY <1>1, <2>2, <4>1, Holder DEF At
    <3>3. DocInv'
      BY <1>1, <1>2, <1>3, <1>4, <3>1, <3>2, DocStays
    <3> QED
      BY <1>1, <3>1, <3>3 DEF Typed
  <2> QED
    BY <2>1, <2>2
<1>6. PumpSound' /\ HalvesAgree'
  <2>1. pump' \in PumpRecord /\ pump'.callback = 0 /\ ~pump'.open /\ pump'.open \in BOOLEAN
    BY <1>3 DEF ClosedPump, PumpRecord
  <2> QED
    BY <1>2, <1>3, <2>1 DEF PumpSound, HalvesAgree
<1>7. Typed'
  BY <1>1, <1>3, <1>4, <1>5 DEF Typed, UiStates, SameWorkers
<1> QED
  BY <1>2, <1>5, <1>6, <1>7 DEF FilesInv

\* The recovery from a refused shutdown.
LEMMA ResumeInv ==
  ASSUME FilesInv, Resume
  PROVE  FilesInv'
<1>1. Typed /\ SlotInv /\ PumpSound /\ HalvesAgree /\ ToldInv /\ DocInv
  BY DEF FilesInv
<1>2. SlotInv' /\ Onward /\ ToldInv'
  BY ResumeTold
<1>3. UNCHANGED <<workers, posted, dialog, doc, disk>> /\ ui' \in {"idle", "refencing"}
  BY DEF Resume
<1>4. SameWorkers
  BY <1>1, <1>3, CancelRequested
<1>5. CASE ~(PumpMayResume /\ DelegateMayResume)
  <2>1. UNCHANGED <<slot, pump, mail, heard, open>>
    BY <1>5 DEF Resume
  <2>2. PumpSound' /\ HalvesAgree'
    <3>1. pump' \in PumpRecord
      BY <1>1, <2>1 DEF PumpSound
    <3>2. ~open => slot'.fenced /\ slot'.kind = "none"
      BY <1>1, <2>1 DEF HalvesAgree
    <3> QED
      BY <1>1, <1>2, <1>3, <2>1, <3>1, <3>2, PumpKept
  <2>3. DocInv'
    BY <1>1, <1>3, <1>4, <2>1, DocStays
  <2>4. Typed'
    BY <1>1, <1>3, <1>4, <2>1 DEF Typed, UiStates, SameWorkers
  <2> QED
    BY <1>2, <2>2, <2>3, <2>4 DEF FilesInv
<1>6. CASE PumpMayResume /\ DelegateMayResume
  <2>1. /\ open' = TRUE /\ pump' = [pump EXCEPT !.open = TRUE]
        /\ slot' = [ForgetMarker(slot) EXCEPT !.fenced = FALSE]
        /\ Announce(OwedTerminal)
    BY <1>6 DEF Resume, PumpReopened
  <2>2. pump' \in PumpRecord /\ pump'.callback = pump.callback /\ pump'.open = TRUE
    <3>1. pump \in PumpRecord
      BY <1>1 DEF PumpSound
    <3> QED
      BY <2>1, <3>1 DEF PumpRecord
  <2>3. slot'.kind = slot.kind
    BY <1>1, <1>3, <2>1, ResumedSlot
  <2>4. PumpSound'
    <3>1. pump.callback # 0 =>
             /\ pump.callback \in Generations /\ At(pump.callback, "end")
             /\ workers[pump.callback].kind # "import"
      BY <1>1 DEF PumpSound
    <3> QED
      BY <1>3, <1>4, <2>2, <3>1 DEF PumpSound, At, SameWorkers
  <2>5. HalvesAgree'
    BY <2>1, <2>2 DEF HalvesAgree
  <2>6. DocInv'
    BY <1>1, <1>3, <1>4, <2>3, DocStays
  <2>7. heard' \in Seq(Terminal) /\ mail' \in Seq(Terminal)
    <3>1. CASE slot.marker # 0 /\ slot.kind = "none"
      <4>1. slot.marker \in Generations
        BY <1>1, <3>1, WorkerFields DEF SlotInv, MarkerSound
      <4>2. End(slot.marker, MarkerEnd) \in Terminal
        BY <1>1, <4>1, Ends DEF MarkerEnd, Whats
      <4> QED
        BY <1>1, <2>1, <3>1, <4>2, AnnounceTyped DEF OwedTerminal
    <3>2. CASE ~(slot.marker # 0 /\ slot.kind = "none")
      BY <1>1, <2>1, <3>2, SomeTerminal, AnnounceTyped DEF OwedTerminal
    <3> QED
      BY <3>1, <3>2
  <2>8. Typed'
    BY <1>1, <1>3, <1>4, <2>1, <2>7 DEF Typed, UiStates, SameWorkers
  <2> QED
    BY <1>2, <2>4, <2>5, <2>6, <2>8 DEF FilesInv
<1> QED
  BY <1>5, <1>6

\* Every step preserves the invariant.
LEMMA FilesNext == FilesInv /\ [Next]_vars => FilesInv'
<1> SUFFICES ASSUME FilesInv, [Next]_vars
             PROVE  FilesInv'
  OBVIOUS
<1>1. CASE UNCHANGED vars
  BY <1>1, StillInv
<1>2. CASE Commands
  <2>1. CASE Edit \/ DialogOpens
    BY <2>1, StillInv
  <2>2. CASE Choose \/ StartSave
    BY <2>2, StartInv
  <2>3. CASE CancelOpen \/ CancelSave \/ CancelImport
    BY <2>3, CancelInv
  <2> QED
    BY <1>2, <2>1, <2>2, <2>3 DEF Commands, DialogOpens
<1>3. CASE RunPosted \/ RecoverCallback
  BY <1>3, CallbackInv
<1>4. CASE Present \/ TimerFires
  BY <1>4, StillInv
<1>5. CASE Shutdown
  <2>1. CASE Close \/ Refence
    BY <2>1, FenceInv
  <2>2. CASE Retire
    BY <2>2, RetireInv
  <2>3. CASE JoinTimesOut
    BY <2>3, StillInv
  <2>4. CASE Resume
    BY <2>4, ResumeInv
  <2> QED
    BY <1>5, <2>1, <2>2, <2>3, <2>4 DEF Shutdown
<1>6. ASSUME NEW g \in Generations, WorkerStep(g)
      PROVE  FilesInv'
  BY <1>6, WorkerInv
<1> QED
  BY <1>1, <1>2, <1>3, <1>4, <1>5, <1>6 DEF Next

-----------------------------------------------------------------------------
(* The theorems *)

\* The invariant holds of every behaviour.
THEOREM FilesInvariant == Spec => []FilesInv
<1> QED
  BY FilesInit, FilesNext, PTL DEF Spec

\* An occupied slot has a worker that still runs or a result that can be finished, and
\* the runtime and its pump are open or closed together, whatever raced: SlotAccountedFor.
THEOREM FilesSlotAccountedFor == Spec => []SlotAccountedFor
<1>1. FilesInv => SlotAccountedFor
  <2> SUFFICES ASSUME FilesInv
               PROVE  SlotAccountedFor
    OBVIOUS
  <2>1. Typed /\ SlotInv /\ PumpSound /\ HalvesAgree
    BY DEF FilesInv
  <2>2. TypeOK
    <3>1. slot.marker \in {0} \cup Generations
      BY <2>1, WorkerFields DEF SlotInv, MarkerSound
    <3>2. slot \in [kind : Kinds \cup {"none"}, seam : BOOLEAN, pending : BOOLEAN,
                    fenced : BOOLEAN, marker : {0} \cup Generations]
      BY <2>1, <3>1 DEF SlotInv, SlotRecord
    <3>3. workers \in Seq([kind : Kinds, at : Stages, cancel : BOOLEAN, result : Results,
                           says : Whats, before : Document, refused : BOOLEAN])
      BY <2>1 DEF SlotInv, Worker
    <3>4. pump \in [open : BOOLEAN, callback : {0} \cup Generations, wake : BOOLEAN,
                    retry : BOOLEAN]
      <4>1. pump \in PumpRecord /\ pump.callback \in {0} \cup Generations
        BY <2>1 DEF PumpSound
      <4> QED
        BY <4>1 DEF PumpRecord
    <3>5. slot.pending => slot.kind # "none" /\ workers[Len(workers)].result # "none"
      <4> SUFFICES ASSUME slot.pending
                   PROVE  slot.kind # "none" /\ workers[Len(workers)].result # "none"
        OBVIOUS
      <4>1. SlotSound
        BY <2>1 DEF SlotInv
      <4>2. slot.kind # "none" /\ workers[Newest].at \in {"emit", "cleanup", "post", "end"}
        BY <4>1 DEF SlotSound
      <4>3. Newest \in Generations
        BY <2>1, <4>2, Holder
      <4>4. WorkerSound(Newest)
        BY <2>1, <4>3, WorkerFields
      <4> QED
        BY <4>2, <4>4 DEF WorkerSound, At, Newest
    <3>6. slot.marker # 0 => workers[slot.marker].kind = "open"
      BY <2>1 DEF SlotInv, MarkerSound
    <3> QED
      BY <2>1, <3>2, <3>3, <3>4, <3>5, <3>6 DEF TypeOK, Typed, Dialogs
  <2>3. SlotHasAnOwner
    <3> SUFFICES ASSUME slot.kind # "none", At(Newest, "end")
                 PROVE  slot.pending
      BY DEF SlotHasAnOwner, Newest
    <3> QED
      BY <2>1, Holder DEF At
  <2> QED
    BY <2>1, <2>2, <2>3 DEF SlotAccountedFor
<1> QED
  BY <1>1, FilesInvariant, PTL

\* No operation ends twice for the user, and a Save that has replaced its file is told,
\* or will be, and never as a cancellation: EndedTruly.
THEOREM FilesEndedTruly == Spec => []EndedTruly
<1>1. FilesInv => EndedTruly
  <2> SUFFICES ASSUME FilesInv
               PROVE  EndedTruly
    OBVIOUS
  <2>1. Typed /\ SlotInv /\ ToldInv
    BY DEF FilesInv
  <2>2. WrittenSaveIsKept
    <3> SUFFICES ASSUME NEW g \in Generations, workers[g].kind = "save",
                        workers[g].result = "ok"
                 PROVE  /\ Ended(g) \/ (Current(g) /\ (slot.pending \/ At(g, "store")))
                        /\ \A i \in DOMAIN Announced : Announced[i] # End(g, "cancelled")
      BY DEF WrittenSaveIsKept
    <3>1. Ended(g) \/ (Current(g) /\ (slot.pending \/ At(g, "store")))
      BY <2>1 DEF ToldInv, SavesKept
    <3>2. ASSUME NEW i \in DOMAIN Announced, Announced[i] = End(g, "cancelled")
          PROVE  FALSE
      <4>1. Announced[i].gen = g /\ Announced[i].what = "cancelled"
        BY <3>2 DEF End
      <4>2. TerminalSound(Announced[i])
        BY <2>1 DEF ToldInv, TerminalsSound
      <4> QED
        BY <4>1, <4>2 DEF TerminalSound
    <3> QED
      BY <3>1, <3>2
  <2> QED
    BY <2>1, <2>2 DEF EndedTruly, ToldInv
<1> QED
  BY <1>1, FilesInvariant, PTL

\* What a document takes to be saved is what its file holds, or the file holds the snapshot
\* of a Save that is on its way or could not be verified: SavedMeansOnDisk.
THEOREM FilesSavedMeansOnDisk == Spec => []SavedMeansOnDisk
<1>1. FilesInv => SavedMeansOnDisk
  BY DEF FilesInv, DocInv
<1> QED
  BY <1>1, FilesInvariant, PTL

-----------------------------------------------------------------------------
(* What is told of an Open *)

\* A step that ends an Open as done, and no other, has opened its document.
TellsTruly ==
    \/ Announced' = Announced
    \/ \E t \in Terminal :
          /\ Telling(t) /\ ~Ended(t.gen)
          /\ t.what # "done" \/ workers[t.gen].kind # "open" \/ doc'.session = t.gen

\* The document is replaced by an Open as the user is told.
OpensTruly ==
    doc'.session # doc.session =>
        \E g \in Generations :
            /\ doc'.session = g /\ Announced' = Append(Announced, End(g, "done"))
            /\ doc = workers[g].before /\ ~slot.fenced /\ ~workers[g].cancel

\* The callback of the UI thread opens as it tells.
LEMMA CallbackTruly ==
  ASSUME FilesInv, RunOwnerCallback
  PROVE  TellsTruly /\ OpensTruly
<1>1. Typed /\ SlotInv /\ PumpSound /\ ToldInv
  BY DEF FilesInv
<1>2. CASE UNCHANGED <<slot, doc, mail, heard, failures>>
  BY <1>2 DEF TellsTruly, OpensTruly, Announced
<1>3. CASE pump.callback # 0 /\ Current(pump.callback) /\ ~slot.fenced
           /\ (\/ /\ workers[pump.callback].kind = "open" /\ FinishOpen(pump.callback)
                  /\ Announce(<<End(pump.callback, OpenEnd(pump.callback))>>)
               \/ /\ workers[pump.callback].kind = "save" /\ FinishSave(pump.callback)
                  /\ Announce(<<End(pump.callback, SaveEnd(pump.callback))>>))
  <2>1. PICK g \in Generations : g = pump.callback
    BY <1>1, <1>3 DEF PumpSound
  <2>2. ~Ended(g)
    BY <1>1, <1>3, <2>1, NotToldYet
  <2>3. CASE workers[g].kind = "open" /\ FinishOpen(g) /\ Announce(<<End(g, OpenEnd(g))>>)
    <3>1. PICK t \in Terminal : t = End(g, OpenEnd(g)) /\ t.gen = g /\ t.what = OpenEnd(g)
      BY <1>1, Ends
    <3>2. Announced' = Append(Announced, t) /\ Telling(t)
      BY <1>1, <2>3, <3>1, Announces, ToldLast
    <3>3. CASE OpenEnd(g) = "done"
      <4>1. doc'.session = g
        BY <2>3, <3>3 DEF FinishOpen, Opened
      <4>2. ~workers[g].cancel /\ doc = workers[g].before
        BY <3>3 DEF OpenEnd, StillWanted
      <4>3. TellsTruly
        BY <2>2, <3>1, <3>2, <4>1 DEF TellsTruly
      <4>4. OpensTruly
        BY <1>3, <3>1, <3>2, <3>3, <4>1, <4>2 DEF OpensTruly
      <4> QED
        BY <4>3, <4>4
    <3>4. CASE OpenEnd(g) # "done"
      <4>1. doc' = doc
        BY <2>3, <3>4 DEF FinishOpen
      <4>2. TellsTruly
        BY <2>2, <3>1, <3>2, <3>4 DEF TellsTruly
      <4> QED
        BY <4>1, <4>2 DEF OpensTruly
    <3> QED
      BY <3>3, <3>4
  <2>4. CASE workers[g].kind = "save" /\ FinishSave(g) /\ Announce(<<End(g, SaveEnd(g))>>)
    <3>1. PICK t \in Terminal : t = End(g, SaveEnd(g)) /\ t.gen = g
      BY <1>1, Ends
    <3>2. Telling(t)
      BY <1>1, <2>4, <3>1, Announces, ToldLast
    <3>3. TellsTruly
      BY <2>2, <2>4, <3>1, <3>2 DEF TellsTruly
    <3>4. doc'.session = doc.session
      BY <1>1, <2>4 DEF FinishSave, Typed, Document
    <3> QED
      BY <3>3, <3>4 DEF OpensTruly
  <2> QED
    BY <1>3, <2>1, <2>3, <2>4
<1> QED
  BY <1>2, <1>3 DEF RunOwnerCallback, FinishOnOwner

\* A cancel, and the rest of a shutdown, open nothing.
LEMMA OthersTruly ==
  ASSUME FilesInv, CancelOpen \/ CancelSave \/ CancelImport \/ Retire
  PROVE  TellsTruly /\ doc'.session = doc.session
<1>1. Typed /\ SlotInv /\ ToldInv
  BY DEF FilesInv
<1>2. doc'.session = doc.session
  BY <1>1 DEF CancelOpen, CancelSave, CancelImport, Retire, FinishSave, Typed, Document
<1>3. CASE UNCHANGED <<heard, mail>>
  BY <1>2, <1>3 DEF TellsTruly, Announced
<1>4. CASE /\ CancelSave \/ Retire
           /\ slot.kind = "save" /\ slot.pending /\ ~UNCHANGED <<heard, mail>>
  <2>1. PICK g \in Generations : g = Newest /\ Current(g) /\ workers[g].kind = "save"
    BY <1>1, <1>4, Holder
  <2>2. PICK t \in Terminal : t = End(g, SaveEnd(g)) /\ t.gen = g
    BY <1>1, Ends
  <2>3. Telling(t)
    <3>1. CASE CancelSave
      <4>1. mail' = mail /\ Told(g, SaveEnd(g))
        BY <1>4, <2>1, <3>1 DEF CancelSave, Newest
      <4> QED
        BY <1>1, <2>2, <4>1, ToldAtOnce DEF Told
    <3>2. CASE Retire
      <4>1. Announce(<<t>>)
        BY <1>4, <2>1, <2>2, <3>2 DEF Retire, Newest
      <4> QED
        BY <1>1, <4>1, Announces, ToldLast
    <3> QED
      BY <1>4, <3>1, <3>2
  <2>4. ~Ended(g)
    BY <1>1, <2>1, NotToldYet
  <2> QED
    BY <1>2, <2>1, <2>2, <2>3, <2>4 DEF TellsTruly
<1>5. CASE CancelOpen /\ ~UNCHANGED <<heard, mail>>
  <2>1. slot.kind = "open" /\ mail' = mail
    BY <1>5 DEF CancelOpen, Owned
  <2>2. PICK g \in Generations : g = Newest /\ Current(g) /\ workers[g].kind = "open"
    BY <1>1, <2>1, Holder
  <2>3. PICK what \in {"failed", "cancelled"} : Told(g, what)
    BY <1>5, <2>2 DEF CancelOpen, Newest
  <2>4. what \in Whats
    BY DEF Whats
  <2>5. PICK t \in Terminal : t = End(g, what) /\ t.gen = g /\ t.what = what
    BY <1>1, <2>4, Ends
  <2>6. Telling(t)
    BY <1>1, <2>1, <2>3, <2>5, ToldAtOnce DEF Told
  <2>7. ~Ended(g)
    BY <1>1, <2>2, NotToldYet
  <2> QED
    BY <1>2, <2>3, <2>5, <2>6, <2>7 DEF TellsTruly
<1> QED
  BY <1>3, <1>4, <1>5 DEF CancelOpen, CancelSave, CancelImport, Retire, Owned

\* Every step tells and opens truly.
LEMMA EveryStepTruly ==
  ASSUME FilesInv, [Next]_vars
  PROVE  TellsTruly /\ OpensTruly
<1>1. Typed /\ SlotInv
  BY DEF FilesInv
<1>2. ASSUME Announced' = Announced, doc'.session = doc.session
      PROVE  TellsTruly /\ OpensTruly
  BY <1>2 DEF TellsTruly, OpensTruly
<1>3. CASE UNCHANGED vars
  BY <1>2, <1>3 DEF vars, Announced
<1>4. CASE Edit
  <2>1. doc'.session = doc.session
    BY <1>1, <1>4 DEF Edit, Typed, Document
  <2> QED
    BY <1>2, <1>4, <2>1 DEF Edit, Announced
<1>5. CASE \/ DialogOpens \/ Choose \/ StartSave \/ TimerFires
           \/ Close \/ JoinTimesOut \/ Refence
  BY <1>2, <1>5
  DEF DialogOpens, OpenDialog, Choose, StartSave, TimerFires, Close, JoinTimesOut, Refence, Announced
<1>6. CASE CancelOpen \/ CancelSave \/ CancelImport \/ Retire
  BY <1>6, OthersTruly DEF OpensTruly
<1>7. CASE RunPosted \/ RecoverCallback
  BY <1>7, CallbackTruly DEF RunPosted, RecoverCallback
<1>8. CASE Present
  <2>1. Announced' = Announced
    BY <1>1, <1>8, SomeTerminal, Announces DEF Present
  <2> QED
    BY <1>2, <1>8, <2>1 DEF Present
<1>9. CASE Resume
  <2>1. Announced' = Announced \/ \E t \in Terminal : /\ t.what # "done" /\ Telling(t)
                                                      /\ ~Ended(t.gen)
    BY <1>9, ResumeTold
  <2>2. doc' = doc
    BY <1>9 DEF Resume
  <2> QED
    BY <2>1, <2>2 DEF TellsTruly, OpensTruly
<1>10. ASSUME NEW g \in Generations, WorkerStep(g)
       PROVE  TellsTruly /\ OpensTruly
  <2>1. doc' = doc
    BY <1>10
    DEF WorkerStep, Prepare, Publish, Store, PostCallback, PostRefused, ImportEnds, Emit, Cleanup
  <2>2. CASE Emit(g)
    <3>1. \/ Announced' = Announced
          \/ \E t \in Terminal : /\ Telling(t) /\ ~Ended(t.gen) /\ t.gen = g
                                 /\ t.what = "done" => workers[g].kind = "import"
      BY <2>2, EmitTold
    <3> QED
      BY <2>1, <3>1 DEF TellsTruly, OpensTruly
  <2>3. CASE ~Emit(g)
    <3>1. UNCHANGED <<heard, mail>>
      BY <1>10, <2>3
      DEF WorkerStep, Prepare, Publish, Store, PostCallback, PostRefused, ImportEnds, Cleanup
    <3> QED
      BY <1>2, <2>1, <3>1 DEF Announced
  <2> QED
    BY <2>2, <2>3
<1> QED
  BY <1>3, <1>4, <1>5, <1>6, <1>7, <1>8, <1>9, <1>10 DEF Next, Commands, DialogOpens, Shutdown

\* The document is replaced only by an Open that nobody has cancelled, on the document the
\* user agreed to discard, not behind the fence, and exactly when he is told: OpenedAsTold.
THEOREM FilesOpenedAsTold == Spec => OpenedAsTold
<1>1. FilesInv /\ [Next]_vars =>
        [LET Opens(g) == Announced' = Append(Announced, End(g, "done"))
         IN  /\ doc'.session # doc.session =>
                  LET g == doc'.session
                  IN  /\ Opens(g) /\ doc = workers[g].before
                      /\ ~slot.fenced /\ ~workers[g].cancel
             /\ \A g \in Generations :
                  workers[g].kind = "open" /\ Opens(g) => doc'.session = g]_vars
  <2> SUFFICES ASSUME FilesInv, [Next]_vars
               PROVE  /\ doc'.session # doc.session =>
                            /\ Announced' = Append(Announced, End(doc'.session, "done"))
                            /\ doc = workers[doc'.session].before
                            /\ ~slot.fenced /\ ~workers[doc'.session].cancel
                      /\ \A g \in Generations :
                            workers[g].kind = "open"
                            /\ Announced' = Append(Announced, End(g, "done"))
                               => doc'.session = g
    OBVIOUS
  <2>1. TellsTruly /\ OpensTruly
    BY EveryStepTruly
  <2>2. doc'.session # doc.session =>
            /\ Announced' = Append(Announced, End(doc'.session, "done"))
            /\ doc = workers[doc'.session].before
            /\ ~slot.fenced /\ ~workers[doc'.session].cancel
    BY <2>1 DEF OpensTruly
  <2>3. ASSUME NEW g \in Generations, workers[g].kind = "open",
               Announced' = Append(Announced, End(g, "done"))
        PROVE  doc'.session = g
    <3>1. Typed /\ SlotInv
      BY DEF FilesInv
    <3>2. PICK u \in Terminal : u = End(g, "done") /\ u.gen = g /\ u.what = "done"
      BY <3>1, Ends DEF Whats
    <3>3. Announced' # Announced
      <4>1. Announced \in Seq(Terminal) /\ Len(Announced) \in Nat
        BY <3>1, AnnouncedSeq
      <4>2. Len(Append(Announced, u)) = Len(Announced) + 1
        BY <4>1, AppendProperties
      <4> QED
        BY <2>3, <3>2, <4>1, <4>2
    <3>4. PICK t \in Terminal :
             /\ Telling(t) /\ ~Ended(t.gen)
             /\ t.what # "done" \/ workers[t.gen].kind # "open" \/ doc'.session = t.gen
      BY <2>1, <3>3 DEF TellsTruly
    <3>5. t = u
      BY <2>3, <3>1, <3>2, <3>4, ToldIsLast
    <3> QED
      BY <2>3, <3>2, <3>4, <3>5
  <2> QED
    BY <2>2, <2>3
<1> QED
  BY <1>1, FilesInvariant, PTL DEF Spec, OpenedAsTold
==============================================================================
