------------------------------ MODULE ImportUiPump ------------------------------
(* acs/version2_windows_import_ui_pump.py: waking the UI thread for the events  *)
(* that workers put in the mailbox, with the calls the host runtime makes       *)
(* (acs/version2_windows_host_runtime.py).                                      *)
(*                                                                             *)
(* Threads: the workers (event_sink), the timers of the one automatic retry,   *)
(* and the UI thread, which runs posted callbacks in order, recovers, closes   *)
(* and resumes.  The pump's lock is held for one test or update at a time and  *)
(* never while it calls out, so every step below is one such section.          *)
EXTENDS ImportMailbox

CONSTANTS
    Workers,       \* file worker threads
    Timers,        \* identities for retry timers
    NoTimer,
    MaxFailures,   \* bound on failing posts and deliveries together
    MaxCloses      \* bound on refused shutdowns

ASSUME PumpAssumption ==
    /\ Workers \cap Timers = {}
    /\ NoTimer \notin Workers \cup Timers
    /\ MaxFailures \in Nat /\ MaxCloses \in Nat

VARIABLES
    at,              \* where each worker and timer thread is
    wakeupPending,   \* _wakeup_pending
    posted,          \* callbacks in the UI message queue; TRUE may retry
    retryTimer,      \* _retry_timer
    closed,          \* _closed
    uiAt,            \* the UI thread: "idle", or inside _run_ui_ready
    failures,        \* posts and deliveries that have failed
    closes           \* shutdowns so far

pvars  == <<at, wakeupPending, posted, retryTimer, closed, uiAt, failures, closes>>
uiVars == <<mvars, pvars>>

Threads == Workers \cup Timers

PumpTypeOK ==
    /\ MailboxTypeOK
    /\ at \in [Threads -> {"idle", "putting", "requesting", "posting", "failed",
                           "sleeping", "fired"}]
    /\ wakeupPending \in BOOLEAN
    /\ posted \in Seq(BOOLEAN)
    /\ retryTimer \in Timers \cup {NoTimer}
    /\ closed \in BOOLEAN
    /\ uiAt \in {"idle", "ready", "lastReady"}
    /\ failures \in 0..MaxFailures
    /\ closes \in 0..MaxCloses

PumpInit ==
    /\ MailboxInit
    /\ at = [t \in Threads |-> "idle"]
    /\ wakeupPending = FALSE
    /\ posted = <<>>
    /\ retryTimer = NoTimer
    /\ closed = FALSE
    /\ uiAt = "idle"
    /\ failures = 0
    /\ closes = 0

Goes(t, place) == at' = [at EXCEPT ![t] = place]

-----------------------------------------------------------------------------
(* Workers: event_sink *)

Emit(w) ==
    /\ at[w] = "idle"
    /\ puts < MaxPuts
    /\ ~closed
    /\ Goes(w, "putting")
    /\ UNCHANGED <<mvars, wakeupPending, posted, retryTimer, closed, uiAt, failures, closes>>

PutEvent(w) ==
    /\ at[w] = "putting"
    /\ \E kind \in {"progress", "lifecycle"} : Put(kind)
    /\ Goes(w, "requesting")
    /\ UNCHANGED <<wakeupPending, posted, retryTimer, closed, uiAt, failures, closes>>

-----------------------------------------------------------------------------
(* _request_wakeup, by a worker or by a retry timer *)

RequestWakeup(t) ==
    /\ at[t] = "requesting"
    /\ IF closed \/ wakeupPending
       THEN Goes(t, "idle") /\ UNCHANGED wakeupPending
       ELSE Goes(t, "posting") /\ wakeupPending' = TRUE
    /\ UNCHANGED <<mvars, posted, retryTimer, closed, uiAt, failures, closes>>

\* Control.BeginInvoke queues the callback.  A timer's callback may not retry.
Post(t) ==
    /\ at[t] = "posting"
    /\ posted' = Append(posted, t \in Workers)
    /\ Goes(t, "idle")
    /\ UNCHANGED <<mvars, wakeupPending, retryTimer, closed, uiAt, failures, closes>>

PostFails(t) ==
    /\ at[t] = "posting"
    /\ failures < MaxFailures
    /\ failures' = failures + 1
    /\ wakeupPending' = FALSE
    /\ Goes(t, IF t \in Workers THEN "failed" ELSE "idle")
    /\ UNCHANGED <<mvars, posted, retryTimer, closed, uiAt, closes>>

-----------------------------------------------------------------------------
(* The automatic retry *)

NeverSchedules == FALSE   \* variant: a failure is not retried

ShouldSchedule == ~closed /\ retryTimer = NoTimer /\ events # <<>>

\* "where" places the threads; scheduling adds a sleeping timer.
ScheduleRetry(where) ==
    IF ShouldSchedule
    THEN \E r \in Timers : /\ at[r] = "idle"
                           /\ retryTimer' = r
                           /\ at' = [where EXCEPT ![r] = "sleeping"]
    ELSE at' = where /\ UNCHANGED retryTimer

ScheduleAfterFailedPost(w) ==
    /\ at[w] = "failed"
    /\ ScheduleRetry([at EXCEPT ![w] = "idle"])
    /\ UNCHANGED <<mvars, wakeupPending, posted, closed, uiAt, failures, closes>>

TimerFires(r) ==
    /\ at[r] = "sleeping"
    /\ Goes(r, "fired")
    /\ UNCHANGED <<mvars, wakeupPending, posted, retryTimer, closed, uiAt, failures, closes>>

KeepTimer == retryTimer' = retryTimer   \* variant: the reference is not cleared

ForgetTimer == retryTimer' = NoTimer

RetryPendingWakeup(r) ==
    /\ at[r] = "fired"
    /\ ForgetTimer
    /\ Goes(r, IF closed \/ events = <<>> THEN "idle" ELSE "requesting")
    /\ UNCHANGED <<mvars, wakeupPending, posted, closed, uiAt, failures, closes>>

-----------------------------------------------------------------------------
(* The UI thread *)

KeepsPending == wakeupPending' = wakeupPending   \* variant: the flag is never lowered

ClearPending == wakeupPending' = FALSE

\* _run_ui_ready up to the callback, for a posted callback.
RunPosted ==
    /\ uiAt = "idle"
    /\ posted # <<>>
    /\ posted' = Tail(posted)
    /\ ClearPending
    /\ uiAt' = IF closed THEN "idle" ELSE IF Head(posted) THEN "ready" ELSE "lastReady"
    /\ UNCHANGED <<mvars, at, retryTimer, closed, failures, closes>>

\* request_pending_wakeup on the UI thread: before every file command, and on
\* the user's request.
Recover ==
    /\ uiAt = "idle"
    /\ ~closed
    /\ events # <<>>
    /\ wakeupPending' = FALSE
    /\ uiAt' = "ready"
    /\ UNCHANGED <<mvars, at, posted, retryTimer, closed, failures, closes>>

\* owner_async_event_sink: a completion that is already on the UI thread.
OwnerAsync ==
    /\ uiAt = "idle"
    /\ puts < MaxPuts
    /\ ~closed
    /\ Put("lifecycle")
    /\ wakeupPending' = FALSE
    /\ uiAt' = "ready"
    /\ UNCHANGED <<at, posted, retryTimer, closed, failures, closes>>

UiDelivers ==
    /\ uiAt # "idle"
    /\ Deliver
    /\ uiAt' = "idle"
    /\ UNCHANGED <<at, wakeupPending, posted, retryTimer, closed, failures, closes>>

UiFails ==
    /\ uiAt # "idle"
    /\ failures < MaxFailures
    /\ failures' = failures + 1
    /\ uiAt' = "idle"
    /\ IF uiAt = "ready" THEN ScheduleRetry(at) ELSE UNCHANGED <<at, retryTimer>>
    /\ UNCHANGED <<mvars, wakeupPending, posted, closed, closes>>

KeepTimers == UNCHANGED <<retryTimer, at>>   \* variant: close() leaves the retry alone

CancelTimers ==
    /\ retryTimer' = NoTimer
    /\ at' = [t \in Threads |-> IF t = retryTimer /\ at[t] = "sleeping" THEN "idle" ELSE at[t]]

\* The runtime closes the pump after the file worker has stopped.  A timer that
\* has already fired is past cancelling.
Close ==
    /\ uiAt = "idle"
    /\ closes < MaxCloses
    /\ ~closed
    /\ \A w \in Workers : at[w] = "idle"
    /\ closes' = closes + 1
    /\ closed' = TRUE
    /\ wakeupPending' = FALSE
    /\ CancelTimers
    /\ UNCHANGED <<mvars, posted, uiAt, failures>>

\* A refused shutdown re-opens the pump, then recovers what was retained.
Resume ==
    /\ uiAt = "idle"
    /\ closed
    /\ retryTimer = NoTimer /\ ~wakeupPending
    /\ closed' = FALSE
    /\ uiAt' = IF events = <<>> THEN "idle" ELSE "ready"
    /\ UNCHANGED <<mvars, at, wakeupPending, posted, retryTimer, failures, closes>>

-----------------------------------------------------------------------------

WorkerStep(w) == PutEvent(w) \/ RequestWakeup(w) \/ Post(w) \/ ScheduleAfterFailedPost(w)

TimerStep(r) == TimerFires(r) \/ RetryPendingWakeup(r) \/ RequestWakeup(r) \/ Post(r)

UiStep == RunPosted \/ UiDelivers

PumpNext ==
    \/ \E w \in Workers : Emit(w) \/ WorkerStep(w)
    \/ \E r \in Timers : TimerStep(r)
    \/ \E t \in Threads : PostFails(t)
    \/ UiStep \/ UiFails \/ Recover \/ OwnerAsync \/ Close \/ Resume

PumpSpec == PumpInit /\ [][PumpNext]_uiVars

\* Threads and the message loop run on; commands, closing and failures need not
\* happen.
PumpFairness ==
    /\ \A w \in Workers : WF_uiVars(WorkerStep(w) \/ PostFails(w))
    /\ \A r \in Timers : WF_uiVars(TimerStep(r) \/ PostFails(r))
    /\ WF_uiVars(UiStep \/ UiFails)

FairPumpSpec == PumpSpec /\ PumpFairness

-----------------------------------------------------------------------------
(* Properties *)

\* As long as at most one post or delivery has failed, an event in the mailbox of
\* an open pump is on its way to the user: a worker or timer is going to ask for
\* a wakeup, one is posted, or the UI thread is delivering.
EventsOnTheirWay ==
    events # <<>> /\ ~closed /\ failures <= 1 =>
        \/ posted # <<>>
        \/ uiAt # "idle"
        \/ \E t \in Threads : at[t] # "idle"

\* ... and it, or a later one in its place, gets there unless the pump stays
\* closed.  For runs with MaxFailures = 1.
EventsDelivered ==
    \A n \in 1..MaxPuts : (n \in accepted) ~> (closed \/ \E d \in delivered : d.id >= n)

\* A pump that closed can always be opened again: nothing that a thread leaves
\* behind after close() makes resume_after_refused_shutdown refuse.
ResumeNotRefused == closed => retryTimer = NoTimer /\ ~wakeupPending

\* The reference is to a timer that is still to run: a dangling one would keep
\* every later failure from being retried.
RetryIsAlive == retryTimer # NoTimer => at[retryTimer] \in {"sleeping", "fired"}

\* Retries that have run, or that a close came before, leave nothing behind.
RetriesLeaveNothing == ResumeNotRefused /\ RetryIsAlive
=============================================================================
