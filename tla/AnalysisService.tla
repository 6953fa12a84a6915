--------------------------- MODULE AnalysisService ---------------------------
(* acs/analysis_service.py: one-shot engine analysis shared by several threads. *)
(*                                                                             *)
(* A caller's analyze() is cut where another thread can run: begin (under the  *)
(* state lock), wait for the provider lock, search, test for staleness after   *)
(* the provider lock is released.  A FEN is a model value, the lines an engine *)
(* returns are the value "lines", any failure of the engine is "error".        *)
EXTENDS Integers

CONSTANTS
    Callers,         \* threads that call the service
    Fens,            \* positions they ask about
    NoFen,           \* Python's None
    NoCaller,        \* nobody holds the provider lock
    OwnsEngine,      \* the owns_engine parameter
    MaxGeneration    \* bound on the generation counter (requests per behaviour)

ASSUME ServiceAssumption ==
    /\ NoFen \notin Fens
    /\ NoCaller \notin Callers
    /\ OwnsEngine \in BOOLEAN
    /\ MaxGeneration \in Nat

VARIABLES
    generation,   \* _generation
    currentFen,   \* _current_fen
    closed,       \* _closed
    engine,       \* _engine: "none" or "open"
    live,         \* providers the factory built that this service has not closed
    lock,         \* holder of _engine_lock while it talks to the provider
    call,         \* where each caller is, and what its call has computed so far
    answer        \* the AnalysisResult each caller's last call returned

svars == <<generation, currentFen, closed, engine, live, lock, call, answer>>

Stage  == {"idle", "begun", "searching", "answered", "closing"}
Output == {"none", "lines", "error"}
Call   == [at : Stage, fen : Fens \cup {NoFen}, gen : Nat, got : Output]

NoCall   == [at |-> "idle", fen |-> NoFen, gen |-> 0, got |-> "none"]
Kind     == {"none", "lines", "error", "empty", "closed"}
Answer   == [fen : Fens \cup {NoFen}, stale : BOOLEAN, kind : Kind]
NoAnswer == [fen |-> NoFen, stale |-> FALSE, kind |-> "none"]

TypeOK ==
    /\ generation \in Nat
    /\ currentFen \in Fens \cup {NoFen}
    /\ closed \in BOOLEAN
    /\ engine \in {"none", "open"}
    /\ live \in Nat
    /\ lock \in Callers \cup {NoCaller}
    /\ call \in [Callers -> Call]
    /\ answer \in [Callers -> Answer]

Init ==
    /\ generation = 0
    /\ currentFen = NoFen
    /\ closed = FALSE
    /\ engine = "none"
    /\ live = 0
    /\ lock = NoCaller
    /\ call = [c \in Callers |-> NoCall]
    /\ answer = [c \in Callers |-> NoAnswer]

-----------------------------------------------------------------------------
(* Requests *)

\* A variant that forgets to count; the mutants of PROJECT.json name it.
NextGenerationReused(f) ==
    /\ generation' = generation
    /\ currentFen' = f

NextGeneration(f) ==
    /\ generation' = generation + 1
    /\ currentFen' = f

Invalidate(f) ==
    /\ NextGeneration(f)
    /\ UNCHANGED <<closed, engine, live, lock, call, answer>>

Begin(c, f) ==
    /\ call[c].at = "idle"
    /\ ~closed
    /\ NextGeneration(f)
    /\ call' = [call EXCEPT ![c] =
                  [at |-> "begun", fen |-> f, gen |-> generation', got |-> "none"]]
    /\ answer' = [answer EXCEPT ![c] = NoAnswer]
    /\ UNCHANGED <<closed, engine, live, lock>>

BeginAfterClose(c, f) ==
    /\ call[c].at = "idle"
    /\ closed
    /\ answer' = [answer EXCEPT ![c] = [fen |-> f, stale |-> FALSE, kind |-> "closed"]]
    /\ UNCHANGED <<generation, currentFen, closed, engine, live, lock, call>>

-----------------------------------------------------------------------------
(* The provider, used under the provider lock *)

\* analyze() leaves: its caller is idle again and holds the result.
ReturnAnswer(c, stale, kind) ==
    /\ call' = [call EXCEPT ![c] = NoCall]
    /\ answer' = [answer EXCEPT ![c] = [fen |-> call[c].fen, stale |-> stale, kind |-> kind]]

NeverRefusesProvider == FALSE   \* variant: no second look at the flag

RefusesProvider == closed

LockIgnored == TRUE             \* variant: the provider lock is not taken

ProviderFree == lock = NoCaller

KeepLock == lock' = lock        \* variant: a search does not give the lock back

ReleaseLock == lock' = NoCaller

LiveAlwaysBuilt == live + 1     \* variant: the provider built is not kept

LiveAfterTake == IF engine = "none" THEN live + 1 ELSE live

TakeProviderRefused(c) ==
    /\ call[c].at = "begun"
    /\ ProviderFree
    /\ RefusesProvider
    /\ ReturnAnswer(c, TRUE, "closed")
    /\ UNCHANGED <<generation, currentFen, closed, engine, live, lock>>

TakeProvider(c) ==
    /\ call[c].at = "begun"
    /\ ProviderFree
    /\ ~RefusesProvider
    /\ engine' = "open"
    /\ live' = LiveAfterTake
    /\ lock' = c
    /\ call' = [call EXCEPT ![c].at = "searching"]
    /\ UNCHANGED <<generation, currentFen, closed, answer>>

\* The provider lock is behind the call; what it computed is not yet compared.
Answered(c, out) ==
    call' = [call EXCEPT ![c] =
               [at |-> "answered", fen |-> call[c].fen, gen |-> call[c].gen, got |-> out]]

\* The factory raises, or what it returns is not an analysis provider.
FactoryFails(c) ==
    /\ call[c].at = "begun"
    /\ ProviderFree
    /\ ~RefusesProvider
    /\ engine = "none"
    /\ Answered(c, "error")
    /\ UNCHANGED <<generation, currentFen, closed, engine, live, lock, answer>>

Search(c) ==
    /\ call[c].at = "searching"
    /\ ReleaseLock
    /\ \E out \in {"lines", "error"} : Answered(c, out)
    /\ UNCHANGED <<generation, currentFen, closed, engine, live, answer>>

IsStaleByFen(c) == call[c].fen # currentFen   \* variant: positions compared only

IsStale(c) ==
    \/ call[c].gen # generation
    \/ call[c].fen # currentFen

Return(c) ==
    /\ call[c].at = "answered"
    /\ IF IsStale(c) THEN ReturnAnswer(c, TRUE, "empty")
                     ELSE ReturnAnswer(c, FALSE, call[c].got)
    /\ UNCHANGED <<generation, currentFen, closed, engine, live, lock>>

-----------------------------------------------------------------------------
(* Shutdown: the flag is published first, the provider is given up under its   *)
(* lock.  A provider that the application owns is left alone, and an owned one *)
(* whose close() raises is still treated as closed.                            *)

Close(c) ==
    /\ call[c].at = "idle"
    /\ ~closed
    /\ closed' = TRUE
    /\ NextGeneration(NoFen)
    /\ call' = [call EXCEPT ![c].at = "closing"]
    /\ UNCHANGED <<engine, live, lock, answer>>

LiveAfterClose == IF OwnsEngine /\ engine = "open" THEN live - 1 ELSE live

CloseProvider(c) ==
    /\ call[c].at = "closing"
    /\ ProviderFree
    /\ engine' = "none"
    /\ live' = LiveAfterClose
    /\ call' = [call EXCEPT ![c] = NoCall]
    /\ UNCHANGED <<generation, currentFen, closed, lock, answer>>

-----------------------------------------------------------------------------

\* The steps a call takes on its own once it was begun.
Progress(c) ==
    \/ TakeProviderRefused(c)
    \/ TakeProvider(c)
    \/ FactoryFails(c)
    \/ Search(c)
    \/ Return(c)
    \/ CloseProvider(c)

ServiceStep ==
    \/ \E f \in Fens \cup {NoFen} : Invalidate(f)
    \/ \E c \in Callers :
          \/ \E f \in Fens : Begin(c, f) \/ BeginAfterClose(c, f)
          \/ Close(c)
          \/ Progress(c)

\* close() is always admitted, so a shutdown is explored at every generation.
WithinBound == generation' <= MaxGeneration \/ closed' # closed

Next == ServiceStep /\ WithinBound

Fairness == \A c \in Callers : WF_svars(Progress(c))

Spec == Init /\ [][Next]_svars

FairSpec == Spec /\ Fairness

-----------------------------------------------------------------------------
(* Properties *)

Open(c) == call[c].at \in {"begun", "searching", "answered"}

OpenCalls == {c \in Callers : Open(c)}

Newest == {c \in Callers : Open(c) /\ call[c].gen = generation}

\* At most one call in progress carries the newest generation, and that call
\* asked about the position recorded as current: two threads never both get a
\* current answer for requests of which one superseded the other.
OneNewestCall ==
    /\ \A c, d \in Newest : c = d
    /\ \A c \in Newest : call[c].fen = currentFen

\* The provider is not reentrant: only the holder of the provider lock is inside
\* it, and the service still refers to the provider it is inside of, so close()
\* cannot release a provider under a running search.
ProviderNotShared ==
    \A c \in Callers : call[c].at = "searching" => lock = c /\ engine = "open"

\* Once a shutdown has gone through, no late analyze() has brought a provider
\* back: none is referenced, none is in use, and an owned one is closed.
NothingAfterShutdown ==
    (closed /\ \A c \in Callers : call[c].at # "closing") =>
        /\ engine = "none"
        /\ \A c \in Callers : call[c].at # "searching"
        /\ OwnsEngine => live = 0

\* An owned provider is built once, however many threads race to be the first.
OneProvider == live <= 1

\* The engine process has one life and one user at a time, from the first thread
\* that needs it to the shutdown that races with the last.
ProviderSafe == ProviderNotShared /\ NothingAfterShutdown /\ OneProvider

\* What a caller is promised (LatestRequest.tla).
VerdictOf(a) ==
    CASE a.kind = "none"   -> "none"
      [] a.kind = "closed" -> "closed"
      [] a.kind \notin {"none", "closed"} /\ a.stale -> "stale"
      [] OTHER             -> "current"

Verdicts == [c \in Callers |-> VerdictOf(answer[c])]

Promise == INSTANCE LatestRequest
    WITH open <- OpenCalls, newest <- Newest,
         verdict <- Verdicts, shut <- closed

\* Every answer the service gives is one LatestRequest allows: lines come back
\* as current only to the newest request, never after a later request, an
\* invalidation or a shutdown.
LatestOnly == Promise!LatestSpec
=============================================================================
