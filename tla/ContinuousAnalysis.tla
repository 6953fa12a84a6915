-------------------------- MODULE ContinuousAnalysis --------------------------
(* acs/continuous_analysis.py: the session that keeps the newest position under *)
(* analysis, composed with the AnalysisService it shares with the one-shot      *)
(* engine helpers (acs/engine_assisted_workflows.py).                           *)
(*                                                                             *)
(* Every public method runs under the session's condition lock, so it is one   *)
(* action; the service call it makes inside is part of it.  The worker thread  *)
(* is cut where it gives the lock up: it sleeps in wait(), or takes a request, *)
(* calls analyze() (the steps of AnalysisService), publishes under the lock,   *)
(* and calls the listener after the lock is released.  multipv and depth are   *)
(* one configuration value.                                                    *)
EXTENDS AnalysisService

CONSTANTS
    Worker,        \* the "acs-continuous-analysis" thread
    Assistants,    \* threads that run one-shot analyses on the shared service
    Closers,       \* threads that close the session
    Configs,       \* analysis settings (multipv, depth)
    None,          \* no request, no result, no settings yet
    HasListener,   \* on_result was given
    MaxRevision    \* bound on the session's revision counter

Request == [revision : Nat, fen : Fens, config : Configs]
Result  == [for : Request, kind : {"lines", "error", "closed"}]

ASSUME SessionAssumption ==
    /\ Worker \in Callers /\ Assistants \subseteq Callers /\ Closers \subseteq Callers
    /\ Worker \notin Assistants \cup Closers
    /\ Assistants \cap Closers = {}
    /\ None \notin Request \cup Result
    /\ HasListener \in BOOLEAN
    /\ MaxRevision \in Nat

VARIABLES
    running,         \* _running
    sessionClosed,   \* _closed
    fen,             \* _fen
    config,          \* (_multipv, _depth)
    revision,        \* _revision
    pending,         \* _pending
    lastResult,      \* _last_result, with the request it answers
    workerAt,        \* where the worker thread is
    request,         \* the worker's local (revision, fen, multipv, depth)
    joining          \* closers that wait for the worker, then close the service

settings == <<running, sessionClosed, fen, config, revision, pending>>
wvars    == <<workerAt, request>>
cvars    == <<settings, lastResult, wvars, joining>>
vars     == <<svars, cvars>>

SessionTypeOK ==
    /\ TypeOK
    /\ running \in BOOLEAN /\ sessionClosed \in BOOLEAN
    /\ fen \in Fens \cup {NoFen}
    /\ config \in Configs
    /\ revision \in Nat
    /\ pending \in Request \cup {None}
    /\ lastResult \in Result \cup {None}
    /\ workerAt \in {"absent", "checking", "asleep", "taken", "calling", "notifying", "exited"}
    /\ request \in Request \cup {None}
    /\ joining \subseteq Closers

SessionInit ==
    /\ Init
    /\ running = FALSE /\ sessionClosed = FALSE
    /\ fen = NoFen
    /\ config \in Configs
    /\ revision = 0
    /\ pending = None
    /\ lastResult = None
    /\ workerAt = "absent"
    /\ request = None
    /\ joining = {}

-----------------------------------------------------------------------------
(* The user's operations, each under the condition lock *)

Ask(f, k) == pending' = [revision |-> revision + 1, fen |-> f, config |-> k]

NewRevision ==
    /\ revision' = revision + 1
    /\ lastResult' = None

NotifyNobody == workerAt' = workerAt   \* variant: a lost wakeup

NotifyAll == workerAt' = IF workerAt = "asleep" THEN "checking" ELSE workerAt

EnsureWorkerAndNotify ==
    workerAt' = IF workerAt \in {"absent", "asleep"} THEN "checking" ELSE workerAt

Start(f, k) ==
    /\ ~sessionClosed
    /\ EnsureWorkerAndNotify
    /\ Invalidate(f)
    /\ running' = TRUE /\ fen' = f /\ config' = k
    /\ NewRevision
    /\ Ask(f, k)
    /\ UNCHANGED <<sessionClosed, request, joining>>

UpdatePosition(f) ==
    /\ ~sessionClosed
    /\ running
    /\ Invalidate(f)
    /\ fen' = f
    /\ NewRevision
    /\ Ask(f, config)
    /\ NotifyAll
    /\ UNCHANGED <<running, sessionClosed, config, request, joining>>

ConfigureNeverAsks == FALSE   \* variant: settings change without a new request

ConfigureAsks == running

\* Only a running session invalidates and asks again; a stopped one keeps the
\* settings for its next start.
Configure(k) ==
    /\ ~sessionClosed
    /\ config' = k
    /\ NewRevision
    /\ \/ ConfigureAsks /\ Invalidate(fen) /\ Ask(fen, k) /\ NotifyAll
       \/ ~ConfigureAsks /\ UNCHANGED <<svars, pending, workerAt>>
    /\ UNCHANGED <<running, sessionClosed, fen, request, joining>>

KeepPending == pending' = pending   \* variant: stop leaves the request behind

DropPending == pending' = None

Stop ==
    /\ ~sessionClosed
    /\ running' = FALSE
    /\ DropPending
    /\ NewRevision
    /\ Invalidate(NoFen)
    /\ NotifyAll
    /\ UNCHANGED <<sessionClosed, fen, config, request, joining>>

\* close() up to the join.  A second close() returns at once.
CloseSession(c) ==
    /\ ~sessionClosed
    /\ call[c].at = "idle"
    /\ sessionClosed' = TRUE
    /\ running' = FALSE
    /\ DropPending
    /\ NewRevision
    /\ Invalidate(NoFen)
    /\ NotifyAll
    /\ joining' = joining \cup {c}
    /\ UNCHANGED <<fen, config, request>>

\* The join lasts until the worker exits or two seconds have passed: a worker
\* that is searching may still be there when the service is closed.
CloseServiceAfterJoin(c) ==
    /\ c \in joining
    /\ joining' = joining \ {c}
    /\ IF closed THEN UNCHANGED svars ELSE Close(c)
    /\ UNCHANGED <<settings, lastResult, wvars>>

-----------------------------------------------------------------------------
(* The worker thread *)

SleepsUnlessAsked == ~running \/ pending = None   \* variant: a close is not looked for

NothingToDo == ~sessionClosed /\ (~running \/ pending = None)

WorkerSleeps ==
    /\ workerAt = "checking"
    /\ NothingToDo
    /\ workerAt' = "asleep"
    /\ UNCHANGED <<svars, settings, lastResult, request, joining>>

WorkerTakes ==
    /\ workerAt = "checking"
    /\ ~sessionClosed
    /\ running
    /\ pending # None
    /\ request' = pending
    /\ pending' = None
    /\ workerAt' = "taken"
    /\ UNCHANGED <<svars, running, sessionClosed, fen, config, revision, lastResult, joining>>

WorkerCalls ==
    /\ workerAt = "taken"
    /\ Begin(Worker, request.fen) \/ BeginAfterClose(Worker, request.fen)
    /\ workerAt' = "calling"
    /\ UNCHANGED <<settings, lastResult, request, joining>>

\* Variant: positions are compared, revisions are not.
StillActiveByFen ==
    /\ running
    /\ request.fen = fen
    /\ ~answer[Worker].stale

\* "current" in _run.
StillActive ==
    /\ running
    /\ request.revision = revision
    /\ request.fen = fen
    /\ ~answer[Worker].stale

WorkerPublishes ==
    /\ workerAt = "calling"
    /\ call[Worker].at = "idle"
    /\ IF StillActive
       THEN /\ lastResult' = [for |-> request, kind |-> answer[Worker].kind]
            /\ workerAt' = IF HasListener THEN "notifying" ELSE "checking"
       ELSE /\ workerAt' = "checking"
            /\ UNCHANGED lastResult
    /\ UNCHANGED <<svars, settings, request, joining>>

\* The listener runs without the lock; what it raises is swallowed.
WorkerNotifies ==
    /\ workerAt = "notifying"
    /\ workerAt' = "checking"
    /\ UNCHANGED <<svars, settings, lastResult, request, joining>>

WorkerExits ==
    /\ workerAt = "checking"
    /\ sessionClosed
    /\ workerAt' = "exited"
    /\ UNCHANGED <<svars, settings, lastResult, request, joining>>

WorkerStep ==
    WorkerSleeps \/ WorkerTakes \/ WorkerCalls \/ WorkerPublishes \/ WorkerNotifies \/ WorkerExits

-----------------------------------------------------------------------------
(* The one-shot helpers that share the service, and the service's own steps *)

Assist(a, f) ==
    /\ Begin(a, f) \/ BeginAfterClose(a, f)
    /\ UNCHANGED cvars

\* Its context was replaced: what it asked for is out of date, and no position takes
\* its place.
AssistInvalidates ==
    /\ Invalidate(NoFen)
    /\ UNCHANGED cvars

ServiceProgress(c) ==
    /\ Progress(c)
    /\ UNCHANGED cvars

UserStep ==
    \/ \E f \in Fens : UpdatePosition(f) \/ \E k \in Configs : Start(f, k)
    \/ \E k \in Configs : Configure(k)
    \/ Stop

AssistStep ==
    \/ \E a \in Assistants, f \in Fens : Assist(a, f)
    \/ Assistants # {} /\ AssistInvalidates

ShutdownStep == \E c \in Closers : CloseSession(c) \/ CloseServiceAfterJoin(c)

\* The session's steps without the model-checking bounds.
SessionStep ==
    \/ UserStep
    \/ AssistStep
    \/ ShutdownStep
    \/ WorkerStep
    \/ \E c \in Callers : ServiceProgress(c)

SessionNext ==
    \/ revision < MaxRevision /\ UserStep
    \/ generation < MaxGeneration /\ AssistStep
    \/ ShutdownStep
    \/ WorkerStep
    \/ \E c \in Callers : ServiceProgress(c)

SessionFairness ==
    /\ WF_vars(WorkerStep)
    /\ \A c \in Callers : WF_vars(ServiceProgress(c))
    /\ \A c \in Closers : WF_vars(CloseServiceAfterJoin(c))

SessionSpec == SessionInit /\ [][SessionNext]_vars

FairSessionSpec == SessionSpec /\ SessionFairness

-----------------------------------------------------------------------------
(* Properties *)

\* What the display shows is the analysis of what is asked for now: a result is
\* kept only while the session runs and answers the active revision, position
\* and settings, although the worker that computed it was not under the lock.
LastResultIsCurrent ==
    lastResult # None =>
        /\ running
        /\ lastResult.for = [revision |-> revision, fen |-> fen, config |-> config]
        /\ lastResult.kind \in {"lines", "error"}

\* The request the worker will take next is always the active one: intermediate
\* positions are coalesced away, and stop and close leave nothing to take.
PendingIsNewest ==
    pending # None =>
        /\ running
        /\ pending = [revision |-> revision, fen |-> fen, config |-> config]

\* What is shown and what is asked for next both belong to the active request.
OnlyTheActiveRequest == LastResultIsCurrent /\ PendingIsNewest

\* The worker has the newest request in hand, before its call or in it.
InHand == workerAt \in {"taken", "calling"} /\ request.revision = revision

\* The answer came back stale, which only a helper on the same service can cause.
Dropped ==
    /\ Assistants # {}
    /\ workerAt \in {"checking", "asleep"} /\ answer[Worker].stale

\* No request is forgotten and no wakeup lost, whoever changes the session while the
\* worker is out of the lock: what is pending has a worker that is awake, what was
\* taken is in hand until its result is shown, and a close is not slept through.
RequestNotForgotten ==
    /\ running =>
          \/ pending # None /\ workerAt \notin {"absent", "asleep", "exited"}
          \/ pending = None /\ (lastResult # None \/ InHand \/ Dropped)
    /\ sessionClosed => workerAt # "asleep"

\* A helper asked the shared service meanwhile, so that the worker's answer came back
\* stale although the request is still the active one; the worker does not try again.
DroppedForAHelper ==
    workerAt = "asleep" /\ pending = None /\ answer[Worker].stale

\* The newest requested position is analysed, or superseded by a newer request: the
\* only other end is an answer dropped because a helper used the service.
NewestPositionAnalysed ==
    \A r \in 1..MaxRevision :
        (running /\ revision = r)
            ~> (lastResult # None \/ revision # r \/ ~running \/ DroppedForAHelper)

\* After close() the worker thread ends, and every closer gets through, although
\* calls are queued for the provider and the join gives up after two seconds.
ShutdownCompletes ==
    /\ sessionClosed ~> (workerAt \in {"absent", "exited"})
    /\ \A c \in Closers :
          (c \in joining) ~> (closed /\ call[c].at = "idle" /\ c \notin joining)
=============================================================================
