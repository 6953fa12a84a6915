----------------------------- MODULE SharedEngine -----------------------------
(* The clients of the one Stockfish adapter (acs/stockfish_runtime.py): the     *)
(* threads that ask for moves through acs/engine_play_service.py, the thread    *)
(* that holds the provider lock of acs/analysis_service.py, and the shutdown.   *)
EXTENDS UciEngine

CONSTANTS
    Players,        \* threads that call EnginePlayService.choose_move
    Analyst,        \* the thread that searches for the AnalysisService
    MaxRequests     \* bound on the requests of a behaviour

ASSUME SharedAssumption ==
    /\ Clients = Players \cup {Analyst}
    /\ Analyst \notin Players
    /\ MaxRequests \in Nat

VARIABLES
    at,              \* where each client is
    answer,          \* what the adapter last returned to it
    requests,        \* requests made so far
    provider,        \* holder of EnginePlayService._provider_lock
    playClosed,      \* EnginePlayService._closed
    analysisClosed,  \* AnalysisService._closed
    shutdown         \* how far the shutdown of the application has come

pvars == <<at, answer, requests, provider, playClosed, analysisClosed, shutdown>>

vars == <<evars, pvars>>

NoAnswer == [to |-> 0, lines |-> {}]

Init ==
    /\ EngineInit
    /\ at = [c \in Clients |-> "idle"]
    /\ answer = [c \in Clients |-> NoAnswer]
    /\ requests = 0 /\ provider = NoClient
    /\ playClosed = FALSE /\ analysisClosed = FALSE /\ shutdown = "no"

Moves(c, to) == at' = [at EXCEPT ![c] = to]

-----------------------------------------------------------------------------
(* choose_move() and analyze() *)

AskMove(p) ==
    /\ at[p] = "idle" /\ ~playClosed /\ requests < MaxRequests
    /\ Moves(p, "begun") /\ requests' = requests + 1
    /\ answer' = [answer EXCEPT ![p] = [to |-> requests', lines |-> {}]]
    /\ UNCHANGED <<evars, provider, playClosed, analysisClosed, shutdown>>

\* The second look at the flag, under the provider lock.
TakeProvider(p) ==
    /\ at[p] = "begun" /\ provider = NoClient
    /\ IF playClosed THEN Moves(p, "idle") /\ UNCHANGED provider
                     ELSE Moves(p, "calling") /\ provider' = p
    /\ UNCHANGED <<evars, answer, requests, playClosed, analysisClosed, shutdown>>

\* The service's own locks and flags are AnalysisService.tla; here is its search.
AskAnalysis ==
    /\ at[Analyst] = "idle" /\ ~analysisClosed /\ requests < MaxRequests
    /\ Moves(Analyst, "calling") /\ requests' = requests + 1
    /\ answer' = [answer EXCEPT ![Analyst] = [to |-> requests', lines |-> {}]]
    /\ UNCHANGED <<evars, provider, playClosed, analysisClosed, shutdown>>

Call(c) ==
    /\ at[c] = "calling"
    /\ Enter(c, answer[c].to)
    /\ Moves(c, "inside")
    /\ UNCHANGED <<answer, requests, provider, playClosed, analysisClosed, shutdown>>

Transact ==
    /\ \/ Reuse \/ Start \/ Greeted \/ Started \/ Configure \/ Go
       \/ HearInfo \/ ReadOver \/ Fails
    /\ UNCHANGED pvars

Answered ==
    /\ BestMove
    /\ answer' = [answer EXCEPT ![lock].lines = heard \cup {Line}]
    /\ Moves(lock, "returned")
    /\ UNCHANGED <<requests, provider, playClosed, analysisClosed, shutdown>>

\* A failure leaves no lines: choose_move() raises, analyze() reports an error.
Failed ==
    /\ CannotStart \/ RaiseFailure
    /\ Moves(lock, "returned")
    /\ UNCHANGED <<answer, requests, provider, playClosed, analysisClosed, shutdown>>

\* The third look at the flag: an answer that comes after the shutdown is dropped.
Return(c) ==
    /\ at[c] = "returned"
    /\ Moves(c, "idle")
    /\ IF c = Analyst
       THEN UNCHANGED <<answer, provider>>
       ELSE /\ provider' = NoClient
            /\ answer' = IF playClosed THEN [answer EXCEPT ![c] = NoAnswer] ELSE answer
    /\ UNCHANGED <<evars, requests, playClosed, analysisClosed, shutdown>>

-----------------------------------------------------------------------------
(* The shutdown: the analysis, then the play service, then the runtime.        *)
(* Each service publishes its flag and waits for the search in progress.       *)

CloseAnalysis ==
    /\ shutdown = "no"
    /\ analysisClosed' = TRUE /\ shutdown' = "analysis"
    /\ UNCHANGED <<evars, at, answer, requests, provider, playClosed>>

ClosePlay ==
    /\ shutdown = "analysis" /\ at[Analyst] = "idle"
    /\ playClosed' = TRUE /\ shutdown' = "play"
    /\ UNCHANGED <<evars, at, answer, requests, provider, analysisClosed>>

CloseRuntime ==
    /\ shutdown = "play" /\ provider = NoClient
    /\ CloseAdapter
    /\ shutdown' = "done"
    /\ UNCHANGED <<at, answer, requests, provider, playClosed, analysisClosed>>

-----------------------------------------------------------------------------

Holder == Transact \/ Answered \/ Failed

\* Every wait has a deadline, whatever arrives until then.
Expires == TimesOut /\ Discard /\ UNCHANGED pvars

Client(c) == TakeProvider(c) \/ Call(c) \/ Return(c)

Closing == ClosePlay \/ CloseRuntime

Outside ==
    /\ \E p \in 1..Len(process) : Obey(p) \/ SearchPrints(p) \/ Dies(p)
    /\ UNCHANGED pvars

Reads ==
    /\ \E p \in 1..Len(process) : Read(p) \/ ReadsEnd(p)
    /\ UNCHANGED pvars

Next ==
    \/ \E p \in Players : AskMove(p) \/ TakeProvider(p)
    \/ AskAnalysis
    \/ \E c \in Clients : Call(c) \/ Return(c)
    \/ Holder \/ Outside \/ Reads
    \/ CloseAnalysis \/ Closing

Fairness ==
    /\ \A c \in Clients : WF_vars(IF c = Analyst THEN Call(c) \/ Return(c) ELSE Client(c))
    /\ WF_vars(Holder) /\ WF_vars(Expires) /\ WF_vars(Closing)

Spec == Init /\ [][Next]_vars

FairSpec == Spec /\ Fairness

-----------------------------------------------------------------------------
(* Properties *)

\* Whatever is returned to a client was found by the search for its own request, with
\* the options of its own request: no late line of a search that timed out, of a
\* process that died, or of the other mode gets into an answer; unless the reader of
\* an earlier process had outlived its join when the process was started.
AnswersItsRequest ==
    [][\A c \in Clients : \A l \in answer'[c].lines \ answer[c].lines :
          (l.of = answer[c].to /\ l.options = answer[c].to) \/ process[proc].beset]_vars

\* No process is left behind: all that run is the adapter's current process, through
\* every failure, and nothing runs when the shutdown is through.
NothingLeftRunning ==
    \A p \in 1..Len(process) :
        process[p].alive => p = proc /\ ~closed

\* Whoever waits, waits for somebody who can go on: for the provider, a call that has
\* begun; for the lock, a client inside a transaction; and a join, for the reader of a
\* process that has ended, never for one that may print as long as it likes.
NobodyIsStuck ==
    /\ provider # NoClient => at[provider] \in {"calling", "inside", "returned"}
    /\ lock # NoClient => at[lock] = "inside"
    /\ \A c \in Clients : at[c] = "inside" => lock = c /\ stage # "free"
    /\ stage \in {"start", "joining"} /\ ~Running(proc) =>
          ReaderGone(reader) \/ ~process[reader].alive

\* Every call comes back and the shutdown gets through, although the process may hang,
\* die, babble or never start: no lock is kept.
CallsEnd ==
    /\ \A c \in Clients : (at[c] # "idle") ~> (at[c] = "idle")
    /\ (shutdown # "no") ~> (shutdown = "done")

=============================================================================
