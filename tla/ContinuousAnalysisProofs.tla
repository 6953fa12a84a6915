----------------------- MODULE ContinuousAnalysisProofs -----------------------
(* Proofs about AnalysisService and about ContinuousAnalysis, the session that  *)
(* shares it, for any number of callers, assistants, closers, positions and     *)
(* settings and any bound.                                                     *)
EXTENDS ContinuousAnalysis, TLAPS

-----------------------------------------------------------------------------
(* The service.  Everything is proved of ServiceStep, the next-state relation   *)
(* without the model-checking bound, so it can be used of the session too.      *)

\* The inductive invariant.  To the invariants the runs check it adds that a
\* call never carries a generation that was not issued yet (so the next one is
\* new), that a shutdown leaves no call with the newest generation, that the
\* lock is held exactly while its holder searches, how many providers are live,
\* and that a closed service refers to one only until its closer has taken it.
IssuedGenerations == \A c \in Callers : Open(c) => call[c].gen <= generation

NewestOnlyWhileOpen == closed => Newest = {}

LockHeldWhileSearching == \A c \in Callers : lock = c => call[c].at = "searching"

ProviderAccounted ==
    /\ engine = "open" => live = 1
    /\ engine = "none" => live = 0 \/ (~OwnsEngine /\ live = 1 /\ closed)

CloserHasProvider ==
    /\ \A c \in Callers : call[c].at = "closing" => closed
    /\ closed /\ engine = "open" => \E c \in Callers : call[c].at = "closing"

AnsweredHasOutput ==
    \A c \in Callers : call[c].at = "answered" => call[c].got \in {"lines", "error"}

CallInv == IssuedGenerations /\ OneNewestCall /\ NewestOnlyWhileOpen /\ AnsweredHasOutput

ProviderInv ==
    LockHeldWhileSearching /\ ProviderNotShared /\ ProviderAccounted /\ CloserHasProvider

ServiceInv == TypeOK /\ CallInv /\ ProviderInv

\* Before the first request the invariant holds.
LEMMA ServiceInit == Init => ServiceInv
<1> USE ServiceAssumption DEF Init, NoCall, NoAnswer
<1> SUFFICES ASSUME Init PROVE ServiceInv
  OBVIOUS
<1>1. TypeOK
  BY DEF TypeOK, Call, Answer, Stage, Output, Kind
<1>2. IssuedGenerations /\ OneNewestCall /\ NewestOnlyWhileOpen /\ AnsweredHasOutput
  BY DEF AnsweredHasOutput, IssuedGenerations, OneNewestCall, NewestOnlyWhileOpen, Newest, Open
<1>3. ProviderInv
  BY DEF ProviderInv, LockHeldWhileSearching, ProviderNotShared, ProviderAccounted, CloserHasProvider
<1> QED
  BY <1>1, <1>2, <1>3 DEF ServiceInv, CallInv, ProviderInv

\* Every step of the service keeps the types.
LEMMA ServiceTypeStep == ServiceInv /\ [ServiceStep]_svars => TypeOK'
<1> USE ServiceAssumption DEF ServiceInv, ProviderInv, ProviderAccounted, CloserHasProvider, TypeOK, Call, Answer, Stage, Output, Kind, NoCall, NoAnswer
<1> SUFFICES ASSUME ServiceInv, [ServiceStep]_svars PROVE TypeOK'
  OBVIOUS
<1>1. CASE UNCHANGED svars
  BY <1>1 DEF svars
<1>2. ASSUME NEW f \in Fens \cup {NoFen}, Invalidate(f) PROVE TypeOK'
  BY <1>2 DEF Invalidate, NextGeneration
<1>3. ASSUME NEW c \in Callers, NEW f \in Fens, Begin(c, f) PROVE TypeOK'
  BY <1>3 DEF Begin, NextGeneration
<1>4. ASSUME NEW c \in Callers, NEW f \in Fens, BeginAfterClose(c, f) PROVE TypeOK'
  BY <1>4 DEF BeginAfterClose
<1>5. ASSUME NEW c \in Callers, Close(c) PROVE TypeOK'
  BY <1>5 DEF Close, NextGeneration
<1>6. ASSUME NEW c \in Callers, TakeProviderRefused(c) PROVE TypeOK'
  BY <1>6 DEF TakeProviderRefused, RefusesProvider, ProviderFree, ReturnAnswer
<1>7. ASSUME NEW c \in Callers, TakeProvider(c) PROVE TypeOK'
  BY <1>7 DEF TakeProvider, RefusesProvider, ProviderFree, LiveAfterTake
<1>8. ASSUME NEW c \in Callers, FactoryFails(c) PROVE TypeOK'
  BY <1>8 DEF FactoryFails, Answered, ProviderFree
<1>9. ASSUME NEW c \in Callers, Search(c) PROVE TypeOK'
  BY <1>9 DEF Search, Answered, ReleaseLock
<1>10. ASSUME NEW c \in Callers, Return(c) PROVE TypeOK'
  <2>1. PICK stale \in BOOLEAN, kind \in Kind : ReturnAnswer(c, stale, kind)
    BY <1>10 DEF Return
  <2>2. NoCall \in Call /\ [fen |-> call[c].fen, stale |-> stale, kind |-> kind] \in Answer
    OBVIOUS
  <2>3. call' \in [Callers -> Call] /\ answer' \in [Callers -> Answer]
    BY <2>1, <2>2 DEF ReturnAnswer
  <2> QED
    BY <1>10, <2>3 DEF Return
<1>11. ASSUME NEW c \in Callers, CloseProvider(c) PROVE TypeOK'
  BY <1>11 DEF CloseProvider, ProviderFree, LiveAfterClose
<1> QED
  BY <1>1, <1>2, <1>3, <1>4, <1>5, <1>6, <1>7, <1>8, <1>9, <1>10, <1>11 DEF ServiceStep, Progress

\* Every step keeps what is known of the calls in progress and their generations.
LEMMA ServiceCallStep == ServiceInv /\ [ServiceStep]_svars => CallInv'
<1> USE ServiceAssumption DEF ServiceInv, CallInv, TypeOK, Call, Stage, NoCall, AnsweredHasOutput, IssuedGenerations, OneNewestCall, NewestOnlyWhileOpen, Newest, Open
<1> SUFFICES ASSUME ServiceInv, [ServiceStep]_svars PROVE CallInv'
  OBVIOUS
<1>1. CASE UNCHANGED svars
  BY <1>1 DEF svars
<1>2. ASSUME NEW f \in Fens \cup {NoFen}, Invalidate(f) PROVE CallInv'
  BY <1>2 DEF Invalidate, NextGeneration
<1>3. ASSUME NEW c \in Callers, NEW f \in Fens, Begin(c, f) PROVE CallInv'
  BY <1>3 DEF Begin, NextGeneration
<1>4. ASSUME NEW c \in Callers, NEW f \in Fens, BeginAfterClose(c, f) PROVE CallInv'
  BY <1>4 DEF BeginAfterClose
<1>5. ASSUME NEW c \in Callers, Close(c) PROVE CallInv'
  BY <1>5 DEF Close, NextGeneration
<1>6. ASSUME NEW c \in Callers, TakeProviderRefused(c) PROVE CallInv'
  BY <1>6 DEF TakeProviderRefused, RefusesProvider, ProviderFree, ReturnAnswer
<1>7. ASSUME NEW c \in Callers, TakeProvider(c) PROVE CallInv'
  BY <1>7 DEF TakeProvider, RefusesProvider, ProviderFree, LiveAfterTake
<1>8. ASSUME NEW c \in Callers, FactoryFails(c) PROVE CallInv'
  BY <1>8 DEF FactoryFails, Answered, ProviderFree
<1>9. ASSUME NEW c \in Callers, Search(c) PROVE CallInv'
  BY <1>9 DEF Search, Answered, ReleaseLock
<1>10. ASSUME NEW c \in Callers, Return(c) PROVE CallInv'
  <2>1. UNCHANGED <<generation, currentFen, closed>> /\ call' = [call EXCEPT ![c] = NoCall]
    BY <1>10 DEF Return, ReturnAnswer
  <2> QED
    BY <2>1
<1>11. ASSUME NEW c \in Callers, CloseProvider(c) PROVE CallInv'
  BY <1>11 DEF CloseProvider, ProviderFree, LiveAfterClose
<1> QED
  BY <1>1, <1>2, <1>3, <1>4, <1>5, <1>6, <1>7, <1>8, <1>9, <1>10, <1>11 DEF ServiceStep, Progress

\* Every step keeps the provider accounted for: locked, closed or dropped.
LEMMA ServiceProviderStep == ServiceInv /\ [ServiceStep]_svars => ProviderInv'
<1> USE ServiceAssumption DEF ServiceInv, ProviderInv, TypeOK, Call, Stage, NoCall, LockHeldWhileSearching, ProviderNotShared, ProviderAccounted, CloserHasProvider
<1> SUFFICES ASSUME ServiceInv, [ServiceStep]_svars PROVE ProviderInv'
  OBVIOUS
<1>1. CASE UNCHANGED svars
  BY <1>1 DEF svars
<1>2. ASSUME NEW f \in Fens \cup {NoFen}, Invalidate(f) PROVE ProviderInv'
  BY <1>2 DEF Invalidate, NextGeneration
<1>3. ASSUME NEW c \in Callers, NEW f \in Fens, Begin(c, f) PROVE ProviderInv'
  BY <1>3 DEF Begin, NextGeneration
<1>4. ASSUME NEW c \in Callers, NEW f \in Fens, BeginAfterClose(c, f) PROVE ProviderInv'
  BY <1>4 DEF BeginAfterClose
<1>5. ASSUME NEW c \in Callers, Close(c) PROVE ProviderInv'
  BY <1>5 DEF Close, NextGeneration
<1>6. ASSUME NEW c \in Callers, TakeProviderRefused(c) PROVE ProviderInv'
  BY <1>6 DEF TakeProviderRefused, RefusesProvider, ProviderFree, ReturnAnswer
<1>7. ASSUME NEW c \in Callers, TakeProvider(c) PROVE ProviderInv'
  BY <1>7 DEF TakeProvider, RefusesProvider, ProviderFree, LiveAfterTake
<1>8. ASSUME NEW c \in Callers, FactoryFails(c) PROVE ProviderInv'
  BY <1>8 DEF FactoryFails, Answered, ProviderFree
<1>9. ASSUME NEW c \in Callers, Search(c) PROVE ProviderInv'
  BY <1>9 DEF Search, Answered, ReleaseLock
<1>10. ASSUME NEW c \in Callers, Return(c) PROVE ProviderInv'
  BY <1>10 DEF Return, ReturnAnswer
<1>11. ASSUME NEW c \in Callers, CloseProvider(c) PROVE ProviderInv'
  BY <1>11 DEF CloseProvider, ProviderFree, LiveAfterClose
<1> QED
  BY <1>1, <1>2, <1>3, <1>4, <1>5, <1>6, <1>7, <1>8, <1>9, <1>10, <1>11 DEF ServiceStep, Progress

\* The three parts together: every step keeps the invariant.
LEMMA ServiceStepInv == ServiceInv /\ [ServiceStep]_svars => ServiceInv'
BY ServiceTypeStep, ServiceCallStep, ServiceProviderStep DEF ServiceInv

-----------------------------------------------------------------------------
\* Every reachable state of the service satisfies the inductive invariant.
THEOREM ServiceInvariant == Spec => []ServiceInv
<1>1. ServiceInv /\ [Next]_svars => ServiceInv'
  BY ServiceStepInv DEF Next
<1> QED
  BY ServiceInit, <1>1, PTL DEF Spec

\* Type correctness of the analysis service.
THEOREM ServiceTypeCorrect == Spec => []TypeOK
<1>1. ServiceInv => TypeOK
  BY DEF ServiceInv
<1> QED
  BY ServiceInvariant, <1>1, PTL

\* Of the calls in progress at most one is the newest, and it asked about the
\* current position: the comparison in _is_stale accepts at most one call.
THEOREM ServiceOneNewestCall == Spec => []OneNewestCall
<1>1. ServiceInv => OneNewestCall
  BY DEF ServiceInv, CallInv
<1> QED
  BY ServiceInvariant, <1>1, PTL

\* No two threads are inside the provider, and close() never takes it away from
\* the one that is.
THEOREM ServiceProviderNotShared == Spec => []ProviderNotShared
<1>1. ServiceInv => ProviderNotShared
  BY DEF ServiceInv, ProviderInv
<1> QED
  BY ServiceInvariant, <1>1, PTL

\* A shutdown that went through leaves no provider referenced or in use, and an
\* owned one closed: no late analyze() brings one back.
THEOREM ServiceNothingAfterShutdown == Spec => []NothingAfterShutdown
<1>1. ServiceInv => NothingAfterShutdown
  BY DEF ServiceInv, TypeOK, ProviderInv, ProviderNotShared, ProviderAccounted,
         CloserHasProvider, NothingAfterShutdown
<1> QED
  BY ServiceInvariant, <1>1, PTL

\* However many threads race to be the first, one provider is built.
THEOREM ServiceOneProvider == Spec => []OneProvider
<1>1. ServiceInv => OneProvider
  BY DEF ServiceInv, TypeOK, ProviderInv, ProviderAccounted, OneProvider
<1> QED
  BY ServiceInvariant, <1>1, PTL

\* The three together: the engine process has one life and one user at a time.
THEOREM ServiceProviderSafe == Spec => []ProviderSafe
BY ServiceProviderNotShared, ServiceNothingAfterShutdown, ServiceOneProvider, PTL
   DEF ProviderSafe

-----------------------------------------------------------------------------
(* The service implements LatestRequest. *)

\* When one answer changes, one verdict changes.
LEMMA VerdictUpdate ==
    ASSUME TypeOK, NEW c \in Callers, NEW a, answer' = [answer EXCEPT ![c] = a]
    PROVE  Verdicts' = [Verdicts EXCEPT ![c] = VerdictOf(a)]
BY DEF TypeOK, Verdicts

\* The verdict of each kind of answer.
LEMMA VerdictValues ==
    /\ VerdictOf(NoAnswer) = "none"
    /\ \A f, stale : VerdictOf([fen |-> f, stale |-> stale, kind |-> "closed"]) = "closed"
    /\ \A f : VerdictOf([fen |-> f, stale |-> TRUE, kind |-> "empty"]) = "stale"
    /\ \A f, k : k \in {"lines", "error"} =>
          VerdictOf([fen |-> f, stale |-> FALSE, kind |-> k]) = "current"
BY DEF VerdictOf, NoAnswer

\* The service starts as the abstract one does.
LEMMA ServicePromiseInit == Init => Promise!LatestInit
BY VerdictValues DEF Init, Promise!LatestInit, Newest, Open, OpenCalls, Verdicts, NoCall

\* Each step of the service is a step of the abstract one, or none.
LEMMA ServicePromiseStep ==
    ServiceInv /\ [ServiceStep]_svars => [Promise!LatestNext]_(Promise!lvars)
<1> USE ServiceAssumption DEF ServiceInv, CallInv, TypeOK, Call, Stage, IssuedGenerations,
                              OpenCalls, Newest, Open
<1> SUFFICES ASSUME ServiceInv, [ServiceStep]_svars
             PROVE  Promise!LatestNext \/ UNCHANGED Promise!lvars
  OBVIOUS
<1>1. CASE UNCHANGED svars
  BY <1>1 DEF svars, Promise!lvars, Verdicts
<1>2. ASSUME NEW f \in Fens \cup {NoFen}, Invalidate(f) PROVE Promise!Supersede
  BY <1>2 DEF Invalidate, NextGeneration, Promise!Supersede, Verdicts
<1>3. ASSUME NEW c \in Callers, NEW f \in Fens, Begin(c, f) PROVE Promise!Request(c)
  <2>1. c \notin OpenCalls /\ ~closed /\ closed' = closed
    BY <1>3 DEF Begin
  <2>2. OpenCalls' = OpenCalls \cup {c}
    BY <1>3 DEF Begin, NextGeneration
  <2>3. Newest' = {c}
    BY <1>3 DEF Begin, NextGeneration
  <2>4. Verdicts' = [Verdicts EXCEPT ![c] = "none"]
    <3>1. answer' = [answer EXCEPT ![c] = NoAnswer]
      BY <1>3 DEF Begin
    <3>2. Verdicts' = [Verdicts EXCEPT ![c] = VerdictOf(NoAnswer)]
      BY <3>1, VerdictUpdate
    <3> QED
      BY <3>2, VerdictValues
  <2> QED
    BY <2>1, <2>2, <2>3, <2>4 DEF Promise!Request
<1>4. ASSUME NEW c \in Callers, NEW f \in Fens, BeginAfterClose(c, f) PROVE Promise!Refuse(c)
  <2>1. Verdicts' = [Verdicts EXCEPT ![c] = "closed"]
    <3>1. answer' = [answer EXCEPT ![c] = [fen |-> f, stale |-> FALSE, kind |-> "closed"]]
      BY <1>4 DEF BeginAfterClose
    <3>2. Verdicts' = [Verdicts EXCEPT ![c] = VerdictOf([fen |-> f, stale |-> FALSE, kind |-> "closed"])]
      BY <3>1, VerdictUpdate
    <3> QED
      BY <3>2, VerdictValues
  <2> QED
    BY <1>4, <2>1 DEF BeginAfterClose, Promise!Refuse
<1>5. ASSUME NEW c \in Callers, Close(c) PROVE Promise!Shut
  <2>1. OpenCalls' = OpenCalls /\ Newest' = {} /\ Verdicts' = Verdicts
    BY <1>5 DEF Close, NextGeneration, Verdicts
  <2> QED
    BY <1>5, <2>1 DEF Close, Promise!Shut
<1>6. ASSUME NEW c \in Callers, TakeProviderRefused(c) PROVE Promise!AnswerClosed(c)
  <2>1. c \in OpenCalls /\ closed /\ closed' = closed
    BY <1>6 DEF TakeProviderRefused, RefusesProvider, ProviderFree
  <2>2. OpenCalls' = OpenCalls \ {c} /\ Newest' = Newest \ {c}
    BY <1>6 DEF TakeProviderRefused, ReturnAnswer, NoCall
  <2>3. Verdicts' = [Verdicts EXCEPT ![c] = "closed"]
    <3>1. answer' = [answer EXCEPT ![c] = [fen |-> call[c].fen, stale |-> TRUE, kind |-> "closed"]]
      BY <1>6 DEF TakeProviderRefused, ReturnAnswer
    <3>2. Verdicts' = [Verdicts EXCEPT ![c] = VerdictOf([fen |-> call[c].fen, stale |-> TRUE, kind |-> "closed"])]
      BY <3>1, VerdictUpdate
    <3> QED
      BY <3>2, VerdictValues
  <2> QED
    BY <2>1, <2>2, <2>3 DEF Promise!AnswerClosed, Promise!Finish
<1>7. ASSUME NEW c \in Callers,
             TakeProvider(c) \/ FactoryFails(c) \/ Search(c) \/ CloseProvider(c)
      PROVE  UNCHANGED Promise!lvars
  <2>1. UNCHANGED <<closed, answer, generation>>
    BY <1>7 DEF TakeProvider, FactoryFails, Search, CloseProvider
  <2>2. \A d \in Callers : call'[d].gen = call[d].gen \/ ~Open(d)
    BY <1>7 DEF TakeProvider, FactoryFails, Search, CloseProvider, Answered, NoCall
  <2>3. \A d \in Callers : Open(d)' = Open(d)
    BY <1>7 DEF TakeProvider, FactoryFails, Search, CloseProvider, Answered, NoCall
  <2> QED
    BY <2>1, <2>2, <2>3 DEF Promise!lvars, Verdicts
<1>8. ASSUME NEW c \in Callers, Return(c)
      PROVE  Promise!AnswerStale(c) \/ Promise!AnswerCurrent(c)
  <2>1. c \in OpenCalls /\ closed' = closed
    BY <1>8 DEF Return
  <2>2. OpenCalls' = OpenCalls \ {c} /\ Newest' = Newest \ {c}
    BY <1>8 DEF Return, ReturnAnswer, NoCall
  <2>3. CASE IsStale(c)
    <3>1. c \notin Newest
      BY <2>3 DEF IsStale, OneNewestCall
    <3>2. Verdicts' = [Verdicts EXCEPT ![c] = "stale"]
      BY <1>8, <2>3, VerdictUpdate, VerdictValues DEF Return, ReturnAnswer
    <3> QED
      BY <2>1, <2>2, <3>1, <3>2 DEF Promise!AnswerStale, Promise!Finish
  <2>4. CASE ~IsStale(c)
    <3>1. c \in Newest /\ ~closed
      BY <2>1, <2>4 DEF IsStale, NewestOnlyWhileOpen
    <3>2. call[c].got \in {"lines", "error"}
      BY <1>8 DEF Return, AnsweredHasOutput
    <3>3. Verdicts' = [Verdicts EXCEPT ![c] = "current"]
      BY <1>8, <2>4, <3>2, VerdictUpdate, VerdictValues DEF Return, ReturnAnswer
    <3> QED
      BY <2>1, <2>2, <3>1, <3>3 DEF Promise!AnswerCurrent, Promise!Finish
  <2> QED
    BY <2>3, <2>4
<1> QED
  BY <1>1, <1>2, <1>3, <1>4, <1>5, <1>6, <1>7, <1>8
     DEF ServiceStep, Progress, Promise!LatestNext

\* The service keeps its promise: lines come back as current only to the newest
\* request, whatever the number of threads, positions and requests.
THEOREM ServiceImplementsLatestRequest == Spec => LatestOnly
<1>1. ServiceInv /\ [Next]_svars => [Promise!LatestNext]_(Promise!lvars)
  BY ServicePromiseStep DEF Next
<1> QED
  BY ServicePromiseInit, ServiceInvariant, <1>1, PTL DEF Spec, LatestOnly, Promise!LatestSpec

-----------------------------------------------------------------------------
(* The session *)

\* The service is shut down only by a closed session, and a closed session does
\* not run.
ShutdownOrder ==
    /\ joining # {} => sessionClosed
    /\ closed => sessionClosed
    /\ sessionClosed => ~running

\* What the worker carries was asked for in an issued revision, and if that is
\* still the active one it is what is asked for now.
RequestIssued ==
    /\ workerAt \in {"taken", "calling", "notifying"} => request # None
    /\ request # None => request.revision <= revision
    /\ request # None /\ request.revision = revision /\ running =>
          request = [revision |-> revision, fen |-> fen, config |-> config]

\* When the worker's call has returned, what it holds is marked stale, carries
\* an output of the provider, or was refused because of a shutdown.
WorkerHoldsAnswer ==
    workerAt = "calling" =>
        \/ Open(Worker)
        \/ /\ call[Worker].at = "idle"
           /\ \/ answer[Worker].stale
              \/ answer[Worker].kind \in {"lines", "error"}
              \/ closed

RunningHasFen == running => fen \in Fens

RevisionInv ==
    /\ ShutdownOrder
    /\ RunningHasFen
    /\ RequestIssued
    /\ PendingIsNewest
    /\ LastResultIsCurrent

SessionInv == SessionTypeOK /\ ServiceInv /\ RevisionInv /\ WorkerHoldsAnswer

\* Before the first request of the session the invariant holds.
LEMMA SessionInitInv == SessionInit => SessionInv
<1> SUFFICES ASSUME SessionInit PROVE SessionInv
  OBVIOUS
<1>1. ServiceInv
  BY ServiceInit DEF SessionInit
<1>2. SessionTypeOK
  BY <1>1, SessionAssumption DEF SessionInit, SessionTypeOK, ServiceInv
<1>3. RevisionInv /\ WorkerHoldsAnswer
  BY DEF SessionInit, Init, RevisionInv, ShutdownOrder, RunningHasFen, RequestIssued,
         PendingIsNewest, LastResultIsCurrent, WorkerHoldsAnswer
<1> QED
  BY <1>1, <1>2, <1>3 DEF SessionInv

\* Whatever the session does, the service takes one of its own steps or none.
LEMMA SessionTakesServiceSteps == SessionInv /\ [SessionStep]_vars => [ServiceStep]_svars
<1> USE ServiceAssumption, SessionAssumption
<1> SUFFICES ASSUME SessionInv, [SessionStep]_vars PROVE ServiceStep \/ UNCHANGED svars
  OBVIOUS
<1>1. fen \in Fens \cup {NoFen} /\ joining \subseteq Callers
  BY DEF SessionInv, SessionTypeOK
<1>2. CASE UNCHANGED vars
  BY <1>2 DEF vars
<1>3. CASE UserStep
  BY <1>1, <1>3 DEF UserStep, Start, UpdatePosition, Configure, Stop, ServiceStep
<1>4. CASE AssistStep
  BY <1>4 DEF AssistStep, Assist, AssistInvalidates, ServiceStep
<1>5. CASE ShutdownStep
  BY <1>1, <1>5 DEF ShutdownStep, CloseSession, CloseServiceAfterJoin, ServiceStep
<1>6. CASE WorkerStep
  <2>1. workerAt = "taken" => request.fen \in Fens
    BY DEF SessionInv, SessionTypeOK, RevisionInv, RequestIssued, Request
  <2> QED
    BY <1>6, <2>1 DEF WorkerStep, WorkerTakes, WorkerCalls, WorkerPublishes, WorkerNotifies,
                      WorkerExits, WorkerSleeps, ServiceStep
<1>7. CASE \E c \in Callers : ServiceProgress(c)
  BY <1>7 DEF ServiceProgress, ServiceStep
<1> QED
  BY <1>2, <1>3, <1>4, <1>5, <1>6, <1>7 DEF SessionStep

\* The service keeps its own invariant under the session's steps.
LEMMA SessionServiceInv == SessionInv /\ [SessionStep]_vars => ServiceInv'
BY SessionTakesServiceSteps, ServiceStepInv DEF SessionInv

\* Every step of the session keeps the types.
LEMMA SessionTypeStep == SessionInv /\ [SessionStep]_vars => SessionTypeOK'
<1> USE ServiceAssumption, SessionAssumption DEF SessionInv, SessionTypeOK, RevisionInv, RequestIssued, PendingIsNewest, RunningHasFen
<1> SUFFICES ASSUME SessionInv, [SessionStep]_vars PROVE SessionTypeOK'
  OBVIOUS
<1>0. TypeOK'
  BY SessionServiceInv DEF ServiceInv
<1>1. CASE UNCHANGED vars
  BY <1>0, <1>1 DEF vars, cvars, svars, settings, wvars
<1>2. ASSUME NEW f \in Fens, NEW k \in Configs, Start(f, k) PROVE SessionTypeOK'
  BY <1>2, <1>0 DEF Start, EnsureWorkerAndNotify, NewRevision, Ask, Request, Invalidate, wvars
<1>3. ASSUME NEW f \in Fens, UpdatePosition(f) PROVE SessionTypeOK'
  BY <1>3, <1>0 DEF UpdatePosition, NotifyAll, NewRevision, Ask, Request, Invalidate, wvars
<1>4. ASSUME NEW k \in Configs, Configure(k) PROVE SessionTypeOK'
  BY <1>4, <1>0 DEF Configure, ConfigureAsks, NotifyAll, NewRevision, Ask, Request, Invalidate, wvars
<1>5. ASSUME Stop PROVE SessionTypeOK'
  <2>1. UNCHANGED <<sessionClosed, fen, config, request, joining>>
    BY <1>5 DEF Stop
  <2>2. running' \in BOOLEAN /\ pending' = None /\ lastResult' = None
    BY <1>5 DEF Stop, DropPending, NotifyAll, NewRevision
  <2>4. revision' \in Nat
    BY <1>5 DEF Stop, NewRevision
  <2>5. workerAt' \in {"absent", "checking", "asleep", "taken", "calling", "notifying", "exited"}
    BY <1>5 DEF Stop, NotifyAll
  <2> QED
    BY <1>0, <2>1, <2>2, <2>4, <2>5
<1>6. ASSUME NEW c \in Closers, CloseSession(c) PROVE SessionTypeOK'
  <2>1. UNCHANGED <<fen, config, request>> /\ joining' \subseteq Closers
    BY <1>6 DEF CloseSession
  <2>2. running' \in BOOLEAN /\ pending' = None /\ lastResult' = None
    BY <1>6 DEF CloseSession, DropPending, NotifyAll, NewRevision
  <2>4. revision' \in Nat
    BY <1>6 DEF CloseSession, NewRevision
  <2>5. workerAt' \in {"absent", "checking", "asleep", "taken", "calling", "notifying", "exited"}
    BY <1>6 DEF CloseSession, NotifyAll
  <2>3. sessionClosed' \in BOOLEAN
    BY <1>6 DEF CloseSession
  <2> QED
    BY <1>0, <2>1, <2>2, <2>3, <2>4, <2>5
<1>7. ASSUME NEW c \in Closers, CloseServiceAfterJoin(c) PROVE SessionTypeOK'
  BY <1>7, <1>0 DEF CloseServiceAfterJoin, Close, svars, cvars, settings, wvars
<1>8. ASSUME WorkerTakes PROVE SessionTypeOK'
  BY <1>8, <1>0 DEF WorkerTakes, svars, cvars, settings, wvars
<1>9. ASSUME WorkerCalls PROVE SessionTypeOK'
  BY <1>9, <1>0 DEF WorkerCalls, Begin, BeginAfterClose, svars, cvars, settings, wvars
<1>10. ASSUME WorkerPublishes PROVE SessionTypeOK'
  <2>1. request # None => request \in Request
    OBVIOUS
  <2>2. UNCHANGED <<settings, request, joining>>
    BY <1>10 DEF WorkerPublishes
  <2>3. workerAt' \in {"checking", "notifying"}
    BY <1>10 DEF WorkerPublishes
  <2>4. lastResult' \in Result \cup {None}
    <3>1. CASE StillActive
      <4>1. answer[Worker].kind \in {"lines", "error", "closed"}
        BY <1>10, <3>1 DEF WorkerPublishes, StillActive, WorkerHoldsAnswer, Open,
                           RevisionInv, ShutdownOrder
      <4>2. lastResult' = [for |-> request, kind |-> answer[Worker].kind]
        BY <1>10, <3>1 DEF WorkerPublishes
      <4>3. request # None
        BY <1>10 DEF WorkerPublishes
      <4> QED
        BY <2>1, <4>1, <4>2, <4>3 DEF Result
    <3>2. CASE ~StillActive
      BY <1>10, <3>2 DEF WorkerPublishes
    <3> QED
      BY <3>1, <3>2
  <2> QED
    BY <1>0, <2>2, <2>3, <2>4 DEF settings
<1>11. ASSUME WorkerNotifies \/ WorkerExits \/ WorkerSleeps PROVE SessionTypeOK'
  BY <1>11, <1>0 DEF WorkerNotifies, WorkerExits, WorkerSleeps, svars, cvars, settings, wvars
<1>12. ASSUME NEW a \in Assistants, NEW f \in Fens, Assist(a, f) PROVE SessionTypeOK'
  BY <1>12, <1>0 DEF Assist, Begin, BeginAfterClose, svars, cvars, settings, wvars
<1>13. ASSUME AssistInvalidates PROVE SessionTypeOK'
  BY <1>13, <1>0 DEF AssistInvalidates, Invalidate, svars, cvars, settings, wvars
<1>14. ASSUME NEW c \in Callers, ServiceProgress(c) PROVE SessionTypeOK'
  BY <1>14, <1>0 DEF ServiceProgress, Progress, TakeProviderRefused, TakeProvider, FactoryFails, Search, Return, CloseProvider, RefusesProvider, ReturnAnswer, Answered, NoCall, svars, cvars, settings, wvars
<1> QED
  BY <1>1, <1>2, <1>3, <1>4, <1>5, <1>6, <1>7, <1>8, <1>9, <1>10, <1>11, <1>12, <1>13, <1>14
     DEF SessionStep, UserStep, AssistStep, ShutdownStep, WorkerStep

\* Every step keeps what is pending, running and displayed tied to its revision.
LEMMA SessionRevisionStep == SessionInv /\ [SessionStep]_vars => RevisionInv'
<1> USE ServiceAssumption, SessionAssumption DEF SessionInv, SessionTypeOK, RevisionInv, ShutdownOrder, RunningHasFen, RequestIssued, PendingIsNewest, LastResultIsCurrent, Request, Result, WorkerHoldsAnswer, Open
<1> SUFFICES ASSUME SessionInv, [SessionStep]_vars PROVE RevisionInv'
  OBVIOUS
<1>1. CASE UNCHANGED vars
  BY <1>1 DEF vars, cvars, svars, settings, wvars
<1>2. ASSUME NEW f \in Fens, NEW k \in Configs, Start(f, k) PROVE RevisionInv'
  BY <1>2 DEF Start, EnsureWorkerAndNotify, NewRevision, Ask, Invalidate, svars, cvars, settings, wvars
<1>3. ASSUME NEW f \in Fens, UpdatePosition(f) PROVE RevisionInv'
  BY <1>3 DEF UpdatePosition, NotifyAll, NewRevision, Ask, Invalidate, svars, cvars, settings, wvars
<1>4. ASSUME NEW k \in Configs, Configure(k) PROVE RevisionInv'
  BY <1>4 DEF Configure, ConfigureAsks, NotifyAll, NewRevision, Ask, Invalidate, svars, cvars, settings, wvars
<1>5. ASSUME Stop PROVE RevisionInv'
  BY <1>5 DEF Stop, DropPending, NotifyAll, NewRevision, Invalidate, svars, cvars, settings, wvars
<1>6. ASSUME NEW c \in Closers, CloseSession(c) PROVE RevisionInv'
  BY <1>6 DEF CloseSession, DropPending, NotifyAll, NewRevision, Invalidate, svars, cvars, settings, wvars
<1>7. ASSUME NEW c \in Closers, CloseServiceAfterJoin(c) PROVE RevisionInv'
  BY <1>7 DEF CloseServiceAfterJoin, Close, svars, cvars, settings, wvars
<1>8. ASSUME WorkerTakes PROVE RevisionInv'
  BY <1>8 DEF WorkerTakes, svars, cvars, settings, wvars
<1>9. ASSUME WorkerCalls PROVE RevisionInv'
  BY <1>9 DEF WorkerCalls, Begin, BeginAfterClose, svars, cvars, settings, wvars
<1>10. ASSUME WorkerPublishes PROVE RevisionInv'
  BY <1>10 DEF WorkerPublishes, StillActive, svars, cvars, settings, wvars
<1>11. ASSUME WorkerNotifies \/ WorkerExits \/ WorkerSleeps PROVE RevisionInv'
  BY <1>11 DEF WorkerNotifies, WorkerExits, WorkerSleeps, svars, cvars, settings, wvars
<1>12. ASSUME NEW a \in Assistants, NEW f \in Fens, Assist(a, f) PROVE RevisionInv'
  BY <1>12 DEF Assist, Begin, BeginAfterClose, svars, cvars, settings, wvars
<1>13. ASSUME AssistInvalidates PROVE RevisionInv'
  BY <1>13 DEF AssistInvalidates, Invalidate, svars, cvars, settings, wvars
<1>14. ASSUME NEW c \in Callers, ServiceProgress(c) PROVE RevisionInv'
  BY <1>14 DEF ServiceProgress, Progress, TakeProviderRefused, TakeProvider, FactoryFails, Search, Return, CloseProvider, RefusesProvider, ReturnAnswer, Answered, NoCall, svars, cvars, settings, wvars
<1> QED
  BY <1>1, <1>2, <1>3, <1>4, <1>5, <1>6, <1>7, <1>8, <1>9, <1>10, <1>11, <1>12, <1>13, <1>14
     DEF SessionStep, UserStep, AssistStep, ShutdownStep, WorkerStep

\* Every step keeps the worker's answer tied to its request.
LEMMA SessionAnswerStep == SessionInv /\ [SessionStep]_vars => WorkerHoldsAnswer'
<1> USE ServiceAssumption, SessionAssumption DEF SessionInv, SessionTypeOK, RevisionInv, ShutdownOrder, WorkerHoldsAnswer, Open, ServiceInv, TypeOK, Call, Answer, Stage, CallInv, AnsweredHasOutput
<1> SUFFICES ASSUME SessionInv, [SessionStep]_vars PROVE WorkerHoldsAnswer'
  OBVIOUS
<1>1. CASE UNCHANGED vars
  BY <1>1 DEF vars, cvars, svars, settings, wvars
<1>2. ASSUME NEW f \in Fens, NEW k \in Configs, Start(f, k) PROVE WorkerHoldsAnswer'
  BY <1>2 DEF Start, EnsureWorkerAndNotify, NewRevision, Ask, Invalidate, svars, cvars, settings, wvars
<1>3. ASSUME NEW f \in Fens, UpdatePosition(f) PROVE WorkerHoldsAnswer'
  BY <1>3 DEF UpdatePosition, NotifyAll, NewRevision, Ask, Invalidate, svars, cvars, settings, wvars
<1>4. ASSUME NEW k \in Configs, Configure(k) PROVE WorkerHoldsAnswer'
  BY <1>4 DEF Configure, ConfigureAsks, NotifyAll, NewRevision, Ask, Invalidate, svars, cvars, settings, wvars
<1>5. ASSUME Stop PROVE WorkerHoldsAnswer'
  BY <1>5 DEF Stop, DropPending, NotifyAll, NewRevision, Invalidate, svars, cvars, settings, wvars
<1>6. ASSUME NEW c \in Closers, CloseSession(c) PROVE WorkerHoldsAnswer'
  BY <1>6 DEF CloseSession, DropPending, NotifyAll, NewRevision, Invalidate, svars, cvars, settings, wvars
<1>7. ASSUME NEW c \in Closers, CloseServiceAfterJoin(c) PROVE WorkerHoldsAnswer'
  BY <1>7 DEF CloseServiceAfterJoin, Close, svars, cvars, settings, wvars
<1>8. ASSUME WorkerTakes PROVE WorkerHoldsAnswer'
  BY <1>8 DEF WorkerTakes, svars, cvars, settings, wvars
<1>9. ASSUME WorkerCalls PROVE WorkerHoldsAnswer'
  BY <1>9 DEF WorkerCalls, Begin, BeginAfterClose, svars, cvars, settings, wvars
<1>10. ASSUME WorkerPublishes PROVE WorkerHoldsAnswer'
  BY <1>10 DEF WorkerPublishes, StillActive, svars, cvars, settings, wvars
<1>11. ASSUME WorkerNotifies \/ WorkerExits \/ WorkerSleeps PROVE WorkerHoldsAnswer'
  BY <1>11 DEF WorkerNotifies, WorkerExits, WorkerSleeps, svars, cvars, settings, wvars
<1>12. ASSUME NEW a \in Assistants, NEW f \in Fens, Assist(a, f) PROVE WorkerHoldsAnswer'
  BY <1>12 DEF Assist, Begin, BeginAfterClose, svars, cvars, settings, wvars
<1>13. ASSUME AssistInvalidates PROVE WorkerHoldsAnswer'
  BY <1>13 DEF AssistInvalidates, Invalidate, svars, cvars, settings, wvars
<1>14. ASSUME NEW c \in Callers, ServiceProgress(c) PROVE WorkerHoldsAnswer'
  BY <1>14 DEF ServiceProgress, Progress, TakeProviderRefused, TakeProvider, FactoryFails, Search, Return, CloseProvider, RefusesProvider, ReturnAnswer, Answered, NoCall, svars, cvars, settings, wvars
<1> QED
  BY <1>1, <1>2, <1>3, <1>4, <1>5, <1>6, <1>7, <1>8, <1>9, <1>10, <1>11, <1>12, <1>13, <1>14
     DEF SessionStep, UserStep, AssistStep, ShutdownStep, WorkerStep

\* The parts together: every step of the session keeps the invariant.
LEMMA SessionStepInv == SessionInv /\ [SessionStep]_vars => SessionInv'
BY SessionTypeStep, SessionServiceInv, SessionRevisionStep, SessionAnswerStep DEF SessionInv

-----------------------------------------------------------------------------
\* Every reachable state of the session and its service satisfies the invariant.
THEOREM SessionInvariant == SessionSpec => []SessionInv
<1>1. SessionInv /\ [SessionNext]_vars => SessionInv'
  BY SessionStepInv DEF SessionNext, SessionStep
<1> QED
  BY SessionInitInv, <1>1, PTL DEF SessionSpec

\* Type correctness of the composed system.
THEOREM SessionTypeCorrect == SessionSpec => []SessionTypeOK
<1>1. SessionInv => SessionTypeOK
  BY DEF SessionInv
<1> QED
  BY SessionInvariant, <1>1, PTL

\* A result is kept only while it answers the active revision, position and
\* settings of a running session.
THEOREM SessionLastResultIsCurrent == SessionSpec => []LastResultIsCurrent
<1>1. SessionInv => LastResultIsCurrent
  BY DEF SessionInv, RevisionInv
<1> QED
  BY SessionInvariant, <1>1, PTL

\* The request left for the worker is always the active one.
THEOREM SessionPendingIsNewest == SessionSpec => []PendingIsNewest
<1>1. SessionInv => PendingIsNewest
  BY DEF SessionInv, RevisionInv
<1> QED
  BY SessionInvariant, <1>1, PTL

\* What is shown and what is asked for next both belong to the active request,
\* although the worker computes and compares without holding one lock throughout.
THEOREM SessionOnlyTheActiveRequest == SessionSpec => []OnlyTheActiveRequest
BY SessionLastResultIsCurrent, SessionPendingIsNewest, PTL DEF OnlyTheActiveRequest

\* Used by a session and the one-shot helpers, the service still has one provider,
\* one search inside it, and none after the shutdown.
THEOREM SessionProviderSafe == SessionSpec => []ProviderSafe
<1>1. SessionInv => ProviderSafe
  BY DEF SessionInv, ServiceInv, TypeOK, ProviderInv, ProviderNotShared, ProviderAccounted,
         CloserHasProvider, NothingAfterShutdown, OneProvider, ProviderSafe
<1> QED
  BY SessionInvariant, <1>1, PTL

\* Used by a session, the service still keeps its promise to every caller.
THEOREM SessionKeepsPromise == SessionSpec => LatestOnly
<1>1. SessionInit => Promise!LatestInit
  BY ServicePromiseInit DEF SessionInit
<1>2. SessionInv /\ [SessionNext]_vars => [Promise!LatestNext]_(Promise!lvars)
  <2>1. [SessionNext]_vars => [SessionStep]_vars
    BY DEF SessionNext, SessionStep
  <2> QED
    BY <2>1, SessionTakesServiceSteps, ServicePromiseStep DEF SessionInv
<1> QED
  BY <1>1, <1>2, SessionInvariant, PTL DEF SessionSpec, LatestOnly, Promise!LatestSpec
-----------------------------------------------------------------------------
(* Nothing asked for is forgotten *)

\* Without helpers the worker's call for the active request is the newest of the
\* service, so that its answer does not come back stale.
OwnAnswer ==
    Assistants = {} /\ running /\ workerAt = "calling" /\ request.revision = revision =>
        IF Open(Worker)
        THEN call[Worker].gen = generation /\ call[Worker].fen = currentFen
        ELSE ~answer[Worker].stale

\* A session that runs has started its worker, which ends after a close only and has
\* no call at the service but the one it waits for.
WorkerStarted ==
    /\ workerAt # "calling" => call[Worker].at = "idle"
    /\ running => workerAt # "absent"
    /\ workerAt = "exited" => sessionClosed

ServedInv == OwnAnswer /\ WorkerStarted /\ RequestNotForgotten

\* A new request of the session waits for a worker that is awake, and the one the
\* worker has in hand is no longer the newest.
LEMMA AskedAnew ==
  ASSUME SessionInv, NEW f \in Fens, NEW k \in Configs, Ask(f, k), NewRevision,
         workerAt' \in {"checking", "taken", "calling", "notifying"}, request' = request,
         workerAt' = "calling" <=> workerAt = "calling", UNCHANGED call, ~sessionClosed', ServedInv
  PROVE  ServedInv'
<1>1. revision' = revision + 1 /\ revision \in Nat
  BY DEF NewRevision, SessionInv, SessionTypeOK
<1>2. pending' # None
  BY SessionAssumption, <1>1 DEF Ask, Request
<1>3. workerAt = "calling" => request.revision \in Nat /\ request.revision <= revision
  BY DEF SessionInv, SessionTypeOK, RevisionInv, RequestIssued, Request
<1>4. OwnAnswer'
  BY <1>1, <1>3 DEF OwnAnswer
<1> QED
  BY <1>2, <1>4 DEF ServedInv, RequestNotForgotten, WorkerStarted

\* Every step leaves the newest request pending with a worker awake, in hand or shown.
LEMMA SessionServedStep == SessionInv /\ ServedInv /\ [SessionStep]_vars => ServedInv'
<1> USE ServiceAssumption, SessionAssumption
<1> SUFFICES ASSUME SessionInv, ServedInv, [SessionStep]_vars PROVE ServedInv'
  OBVIOUS
<1>2. ASSUME NEW f \in Fens, NEW k \in Configs, Start(f, k) PROVE ServedInv'
  <2>1. workerAt' \in {"checking", "taken", "calling", "notifying"}
    BY <1>2 DEF Start, EnsureWorkerAndNotify, SessionInv, SessionTypeOK, ServedInv, WorkerStarted
  <2> QED
    BY <1>2, <2>1, AskedAnew DEF Start, EnsureWorkerAndNotify, Invalidate
<1>3. ASSUME NEW f \in Fens, UpdatePosition(f) PROVE ServedInv'
  <2>1. workerAt' \in {"checking", "taken", "calling", "notifying"}
    BY <1>3 DEF UpdatePosition, NotifyAll, SessionInv, SessionTypeOK, ServedInv, WorkerStarted
  <2>2. config \in Configs /\ sessionClosed' = sessionClosed /\ ~sessionClosed
    BY <1>3 DEF UpdatePosition, SessionInv, SessionTypeOK
  <2> QED
    BY <1>3, <2>1, <2>2, AskedAnew DEF UpdatePosition, NotifyAll, Invalidate
<1>4. ASSUME NEW k \in Configs, Configure(k) PROVE ServedInv'
  <2>1. CASE running
    <3>1. workerAt' \in {"checking", "taken", "calling", "notifying"} /\ fen \in Fens
      BY <1>4, <2>1 DEF Configure, ConfigureAsks, NotifyAll, SessionInv, SessionTypeOK,
         RevisionInv, RunningHasFen, ServedInv, WorkerStarted
    <3> QED
      BY <1>4, <2>1, <3>1, AskedAnew DEF Configure, ConfigureAsks, NotifyAll, Invalidate
  <2>2. CASE ~running
    BY <1>4, <2>2 DEF Configure, ConfigureAsks, svars, ServedInv, OwnAnswer, WorkerStarted,
       RequestNotForgotten
  <2> QED
    BY <2>1, <2>2
<1> USE DEF SessionInv, SessionTypeOK, RevisionInv, ShutdownOrder, RequestIssued, PendingIsNewest,
        LastResultIsCurrent, Request, WorkerHoldsAnswer, Open, ServiceInv, TypeOK, Call, Answer,
        Stage, CallInv, ServedInv, OwnAnswer, WorkerStarted, RequestNotForgotten, InHand, Dropped
<1>1. CASE UNCHANGED vars
  BY <1>1 DEF vars, cvars, svars, settings, wvars
<1>5. ASSUME Stop PROVE ServedInv'
  BY <1>5 DEF Stop, NotifyAll, Invalidate
<1>6. ASSUME NEW c \in Closers, CloseSession(c) PROVE ServedInv'
  BY <1>6 DEF CloseSession, NotifyAll, Invalidate
<1>7. ASSUME NEW c \in Closers, CloseServiceAfterJoin(c) PROVE ServedInv'
  BY <1>7 DEF CloseServiceAfterJoin, Close, svars, settings, wvars
<1>8. ASSUME WorkerTakes PROVE ServedInv'
  BY <1>8 DEF WorkerTakes, svars
<1>9. ASSUME WorkerCalls PROVE ServedInv'
  BY <1>9 DEF WorkerCalls, Begin, BeginAfterClose, NextGeneration, settings
<1>10. ASSUME WorkerPublishes PROVE ServedInv'
  <2>1. workerAt' \in {"checking", "notifying"} /\ UNCHANGED <<svars, settings, request>>
    BY <1>10 DEF WorkerPublishes
  <2>2. ASSUME running, pending = None, ~StillActive
        PROVE  lastResult' # None \/ (answer[Worker].stale /\ workerAt' = "checking")
    <3>1. workerAt = "calling" /\ lastResult' = lastResult /\ workerAt' = "checking"
      BY <1>10, <2>2 DEF WorkerPublishes
    <3>2. lastResult # None \/ request.revision = revision
      BY <2>2, <3>1
    <3>3. request.revision = revision => request.fen = fen
      BY <2>2, <3>1
    <3> QED
      BY <2>2, <3>1, <3>2, <3>3 DEF StillActive
  <2>3. RequestNotForgotten'
    <3>1. CASE StillActive
      <4>1. answer[Worker].kind \in {"lines", "error"} /\ request \in Request
        BY <1>10, <3>1 DEF WorkerPublishes, StillActive
      <4>2. lastResult' = [for |-> request, kind |-> answer[Worker].kind]
        BY <1>10, <3>1 DEF WorkerPublishes
      <4>3. lastResult' # None
        BY <4>1, <4>2 DEF Result
      <4> QED
        BY <2>1, <4>3 DEF settings
    <3>2. CASE ~StillActive
      BY <1>10, <2>1, <2>2, <3>2 DEF WorkerPublishes, svars, settings
    <3> QED
      BY <3>1, <3>2
  <2> QED
    BY <1>10, <2>1, <2>3 DEF WorkerPublishes, svars, settings
<1>11. ASSUME WorkerNotifies \/ WorkerExits \/ WorkerSleeps PROVE ServedInv'
  BY <1>11 DEF WorkerNotifies, WorkerExits, WorkerSleeps, NothingToDo, svars, settings
<1>12. ASSUME NEW a \in Assistants, NEW f \in Fens, Assist(a, f) PROVE ServedInv'
  BY <1>12 DEF Assist, Begin, BeginAfterClose, cvars, settings, wvars
<1>13. ASSUME Assistants # {}, AssistInvalidates PROVE ServedInv'
  BY <1>13 DEF AssistInvalidates, Invalidate, cvars, settings, wvars
<1>14. ASSUME NEW c \in Callers, ServiceProgress(c) PROVE ServedInv'
  <2>1. UNCHANGED <<running, sessionClosed, fen, revision, pending, lastResult, workerAt, request>>
    BY <1>14 DEF ServiceProgress, cvars, settings, wvars
  <2>2. generation' = generation /\ currentFen' = currentFen
    BY <1>14 DEF ServiceProgress, Progress, TakeProviderRefused, TakeProvider, FactoryFails,
       Search, Return, CloseProvider
  <2>3. workerAt \in {"checking", "asleep"} => answer'[Worker].stale = answer[Worker].stale
    BY <1>14 DEF ServiceProgress, Progress, TakeProviderRefused, TakeProvider, FactoryFails,
       Search, Return, CloseProvider, ReturnAnswer
  <2>4. ASSUME c # Worker
        PROVE  call'[Worker] = call[Worker] /\ answer'[Worker] = answer[Worker]
    BY <1>14, <2>4 DEF ServiceProgress, Progress, TakeProviderRefused, TakeProvider, FactoryFails,
       Search, Return, CloseProvider, ReturnAnswer, Answered
  <2>5. ASSUME c = Worker
        PROVE  OwnAnswer' /\ (workerAt # "calling" => call'[Worker].at = "idle")
    <3>1. CASE TakeProviderRefused(c)
      BY <1>14, <2>1, <2>5, <3>1 DEF TakeProviderRefused, ReturnAnswer, RefusesProvider, NoCall
    <3>2. CASE TakeProvider(c) \/ FactoryFails(c) \/ Search(c)
      BY <2>1, <2>2, <2>5, <3>2 DEF TakeProvider, FactoryFails, Search, Answered
    <3>3. CASE Return(c)
      BY <2>1, <2>2, <2>5, <3>3 DEF Return, IsStale, ReturnAnswer, NoCall
    <3>4. CASE CloseProvider(c)
      BY <2>1, <2>2, <2>5, <3>4 DEF CloseProvider, NoCall
    <3> QED
      BY <1>14, <3>1, <3>2, <3>3, <3>4 DEF ServiceProgress, Progress
  <2>6. OwnAnswer' /\ WorkerStarted'
    BY <2>1, <2>2, <2>4, <2>5
  <2> QED
    BY <2>1, <2>3, <2>6
<1> QED
  BY <1>1, <1>2, <1>3, <1>4, <1>5, <1>6, <1>7, <1>8, <1>9, <1>10, <1>11, <1>12, <1>13, <1>14
     DEF SessionStep, UserStep, AssistStep, ShutdownStep, WorkerStep

\* The newest request of a running session waits for a worker that is awake, or is in
\* its hand, or its result is shown; only a helper that uses the same service can make
\* the session drop it (continuous_analysis.py, _run and its wait).
THEOREM SessionForgetsNoRequest == SessionSpec => []RequestNotForgotten
<1>1. SessionInit => ServedInv
  BY SessionAssumption DEF SessionInit, Init, NoCall, ServedInv, OwnAnswer, WorkerStarted,
     RequestNotForgotten
<1>2. SessionInv /\ ServedInv /\ [SessionNext]_vars => ServedInv'
  BY SessionServedStep DEF SessionNext, SessionStep
<1>3. ServedInv => RequestNotForgotten
  BY DEF ServedInv
<1> QED
  BY SessionInvariant, <1>1, <1>2, <1>3, PTL DEF SessionSpec
===============================================================================
