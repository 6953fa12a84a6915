------------------------------ MODULE UciEngine ------------------------------
(* acs/engine.py: one Stockfish adapter, its processes and their reader threads.*)
(*                                                                             *)
(* Every request holds the adapter's lock from beginning to end, so that `stage'*)
(* is where the holder is.  Under it go a process that answers when it likes,  *)
(* hangs or dies, a reader thread for each process that was started, and the   *)
(* one bounded queue all of them write to.  A request is its number; the       *)
(* options of a search are the number of the request that set them.  Commands  *)
(* that are sent together are one order; texts and scores are left out.        *)
EXTENDS Naturals, Sequences

CONSTANTS
    Clients,        \* threads that call the adapter
    NoClient,       \* nobody holds the lock
    QueueLimit,     \* _UCI_OUTPUT_MAX_PENDING_LINES
    PipeLimit       \* what the operating system keeps of a process's output

ASSUME EngineAssumption ==
    /\ NoClient \notin Clients
    /\ QueueLimit \in Nat \ {0}
    /\ PipeLimit \in Nat \ {0}

VARIABLES
    lock,       \* holder of _lock
    stage,      \* where the holder is
    request,    \* the number of its request
    heard,      \* the lines of the engine its answer is made of
    proc,       \* self.proc: the number of a process, 0 is None
    reader,     \* self.reader: the process a reader was started for, 0 is None
    fault,      \* _reader_fault: the process whose output was refused, 0 is None
    q,          \* self.q
    closed,     \* _closed
    process     \* the processes started so far, with their readers and pipes

evars == <<lock, stage, request, heard, proc, reader, fault, q, closed, process>>

Waiting == {"greeting", "starting", "configuring", "searching"}

\* A program that has just been started and told "uci"; it prints its banner at once.
\* It is beset if the reader of an earlier process still writes to the queue.
Banner       == [kind |-> "banner", of |-> 0, options |-> 0]
Fresh(beset) == [alive |-> TRUE, orders |-> <<[does |-> "uci", for |-> 0]>>, options |-> 0,
                 search |-> 0, pipe |-> <<Banner>>, reading |-> TRUE, beset |-> beset]

EngineInit ==
    /\ lock = NoClient /\ stage = "free" /\ request = 0 /\ heard = {}
    /\ proc = 0 /\ reader = 0 /\ fault = 0 /\ q = <<>> /\ closed = FALSE
    /\ process = <<>>

Running(p) == p # 0 /\ process[p].alive

\* A dead process writes nothing more; what is in its pipe can still be read.
Ended(r) == [r EXCEPT !.alive = FALSE, !.orders = <<>>, !.options = 0, !.search = 0]

ReaderGone(p) == p # 0 => ~process[p].reading

AnyReader == \E p \in 1..Len(process) : process[p].reading

-----------------------------------------------------------------------------
(* The lock and the start of a process *)

\* analyze() or best_move() is called; n is the number of the request.
Enter(c, n) ==
    /\ lock = NoClient
    /\ lock' = c /\ stage' = "start" /\ request' = n /\ heard' = {}
    /\ UNCHANGED <<proc, reader, fault, q, closed, process>>

LeavesLocked ==   \* variant: the lock is kept by a call that returns
    /\ stage' = "free" /\ request' = 0 /\ heard' = {} /\ UNCHANGED lock

\* The call returns or raises.
Leave ==
    /\ lock' = NoClient /\ stage' = "free" /\ request' = 0 /\ heard' = {}

Proceed(to) == stage' = to /\ UNCHANGED <<lock, request>>

Reuse ==
    /\ stage = "start" /\ ~closed /\ Running(proc)
    /\ Proceed("ready")
    /\ UNCHANGED <<heard, proc, reader, fault, q, closed, process>>

\* The process is gone, or there was none: its reader is joined for 0.2 seconds, gone
\* or not, and the queue drained.
Start ==
    /\ stage = "start" /\ ~closed /\ ~Running(proc)
    /\ q' = <<>>
    /\ process' = Append(process, Fresh(AnyReader))
    /\ proc' = Len(process) + 1 /\ reader' = Len(process) + 1 /\ fault' = 0
    /\ Proceed("greeting")
    /\ UNCHANGED <<heard, closed>>

\* The adapter is closed, or the program cannot be started.
CannotStart ==
    /\ stage = "start" /\ (closed \/ ~Running(proc))
    /\ IF closed THEN UNCHANGED <<proc, reader, q>>
                 ELSE proc' = 0 /\ reader' = 0 /\ q' = <<>>
    /\ Leave
    /\ UNCHANGED <<fault, closed, process>>

-----------------------------------------------------------------------------
(* One transaction *)

\* Something goes wrong: the process is terminated and forgotten, the queue drained;
\* the holder then joins the reader, for 0.2 seconds, and raises.
DiscardForgets == proc' = 0 /\ UNCHANGED process   \* variant: it is forgotten, and runs on

DiscardProcess ==
    /\ process' = [process EXCEPT ![proc] = Ended(@)]
    /\ proc' = 0

\* Variant: the failure is raised, the process kept for the next request.
RaisesOnly ==
    /\ Leave
    /\ UNCHANGED <<proc, reader, fault, q, closed, process>>

\* self.reader is cleared before the join and kept in a local variable; nobody else
\* looks at it meanwhile, so here it keeps its value until the join is over.
Discard ==
    /\ DiscardProcess
    /\ fault' = IF fault = proc THEN 0 ELSE fault
    /\ q' = <<>>
    /\ Proceed("joining")
    /\ heard' = {}
    /\ UNCHANGED <<reader, closed>>

RaiseFailure ==
    /\ stage = "joining"
    /\ reader' = 0
    /\ Leave
    /\ UNCHANGED <<proc, fault, q, closed, process>>

Refused == fault # 0 /\ fault = proc

\* A command reaches a process that runs; to a dead one it cannot be written.
Send(order, to) ==
    /\ process[proc].alive
    /\ process' = [process EXCEPT ![proc].orders = Append(@, order)]
    /\ Proceed(to)

\* The head of the queue, as long as the reader has not refused anything.
AtHead(kind) == q # <<>> /\ ~Refused /\ Head(q).kind = kind

Greeted ==
    /\ stage = "greeting" /\ AtHead("uciok")
    /\ q' = Tail(q)
    /\ Send([does |-> "isready", for |-> 0], "starting")
    /\ UNCHANGED <<heard, proc, reader, fault, closed>>

Started ==
    /\ stage = "starting" /\ AtHead("readyok")
    /\ q' = Tail(q)
    /\ Proceed("ready")
    /\ UNCHANGED <<heard, proc, reader, fault, closed, process>>

OptionsOnce ==   \* variant: a process that has options is not given others
    IF process[proc].options # 0 THEN [does |-> "isready", for |-> 0]
                                 ELSE [does |-> "configure", for |-> request]

OptionsOfRequest == [does |-> "configure", for |-> request]

\* _drain, then _configure_request_options.
Configure ==
    /\ stage = "ready" /\ ~Refused
    /\ q' = <<>>
    /\ Send(OptionsOfRequest, "configuring")
    /\ UNCHANGED <<heard, proc, reader, fault, closed>>

Go ==
    /\ stage = "configuring" /\ AtHead("readyok")
    /\ q' = Tail(q)
    /\ Send([does |-> "go", for |-> request], "searching")
    /\ UNCHANGED <<heard, proc, reader, fault, closed>>

Line == [of |-> Head(q).of, options |-> Head(q).options]

HearInfo ==
    /\ stage = "searching" /\ AtHead("info")
    /\ q' = Tail(q)
    /\ heard' = heard \cup {Line}
    /\ UNCHANGED <<lock, stage, request, proc, reader, fault, closed, process>>

\* Lines that are not waited for are read over.
ReadOver ==
    /\ stage \in Waiting /\ q # <<>> /\ ~Refused
    /\ Head(q).kind \notin
          CASE stage = "greeting"    -> {"uciok"}
            [] stage = "searching"   -> {"info", "bestmove", "garbage"}
            [] OTHER                 -> {"readyok"}
    /\ q' = Tail(q)
    /\ UNCHANGED <<lock, stage, request, heard, proc, reader, fault, closed, process>>

\* The answer is returned with what was heard.
BestMove ==
    /\ stage = "searching" /\ AtHead("bestmove")
    /\ q' = Tail(q)
    /\ Leave
    /\ UNCHANGED <<proc, reader, fault, closed, process>>

\* Everything that raises inside a transaction.
CannotSend ==
    /\ \/ stage = "greeting" /\ AtHead("uciok")
       \/ stage = "ready" /\ ~Refused
       \/ stage = "configuring" /\ AtHead("readyok")
    /\ ~process[proc].alive

HearsGarbage == stage = "searching" /\ AtHead("garbage")

HearsRefusal == stage \in Waiting \cup {"ready"} /\ Refused

HearsExit == stage = "searching" /\ q = <<>> /\ ~Refused /\ ~process[proc].alive

TimesOutInSilence ==   \* variant: the deadline is looked at when nothing arrives
    stage \in Waiting /\ ~Refused /\ q = <<>>

TimesOut == stage \in Waiting /\ ~Refused

Fails == (CannotSend \/ HearsGarbage \/ HearsRefusal \/ HearsExit \/ TimesOut) /\ Discard

-----------------------------------------------------------------------------
(* close(): quit, wait two seconds, terminate *)

CloseForgets == proc' = 0 /\ UNCHANGED process   \* variant: the process is left running

CloseEnds ==
    /\ proc' = 0
    /\ process' = IF Running(proc) THEN [process EXCEPT ![proc] = Ended(@)] ELSE process

CloseAdapter ==
    /\ lock = NoClient
    /\ IF closed
       THEN UNCHANGED <<proc, reader, fault, closed, process>>
       ELSE CloseEnds /\ reader' = 0 /\ fault' = 0 /\ closed' = TRUE
    /\ UNCHANGED <<lock, stage, request, heard, q>>

-----------------------------------------------------------------------------
(* The process and its reader thread *)

Says(p, kind) ==
    [kind |-> kind, of |-> process[p].search, options |-> process[p].options]

Writes(p, kind) == Append(process[p].pipe, Says(p, kind))

\* Orders are carried out one after another.  UCI has readyok answered in the middle of
\* a search; another search waits for its end.
Obey(p) ==
    LET order == Head(process[p].orders) IN
    /\ process[p].alive /\ process[p].orders # <<>>
    /\ order.does = "go" => process[p].search = 0
    /\ Len(process[p].pipe) < PipeLimit
    /\ process' = [process EXCEPT
          ![p].orders = Tail(@),
          ![p].options = IF order.does = "configure" THEN order.for ELSE @,
          ![p].search = IF order.does = "go" THEN order.for ELSE @,
          ![p].pipe = CASE order.does = "go"  -> @
                        [] order.does = "uci" -> Writes(p, "uciok")
                        [] OTHER              -> Writes(p, "readyok")]
    /\ UNCHANGED <<lock, stage, request, heard, proc, reader, fault, q, closed>>

\* A search prints lines as it goes and ends with a move, legible or not.
SearchPrints(p) ==
    /\ process[p].alive /\ process[p].search # 0
    /\ Len(process[p].pipe) < PipeLimit
    /\ \/ process' = [process EXCEPT ![p].pipe = Writes(p, "info")]
       \/ \E kind \in {"bestmove", "garbage"} :
             process' = [process EXCEPT ![p].pipe = Writes(p, kind), ![p].search = 0]
    /\ UNCHANGED <<lock, stage, request, heard, proc, reader, fault, q, closed>>

Dies(p) ==
    /\ process[p].alive
    /\ process' = [process EXCEPT ![p] = Ended(@)]
    /\ UNCHANGED <<lock, stage, request, heard, proc, reader, fault, q, closed>>

\* The reader of a process that is not the current one has nobody to report to.
Refuse(p) ==
    /\ process' = [process EXCEPT ![p].pipe = Tail(@), ![p].reading = FALSE]
    /\ fault' = IF proc = p THEN p ELSE fault

Read(p) ==
    /\ process[p].reading /\ process[p].pipe # <<>>
    /\ \/ /\ Len(q) < QueueLimit
          /\ q' = Append(q, Head(process[p].pipe))
          /\ process' = [process EXCEPT ![p].pipe = Tail(@)]
          /\ UNCHANGED fault
       \/ /\ Len(q) = QueueLimit \/ Head(process[p].pipe).kind = "info"   \* an overlong line
          /\ Refuse(p)
          /\ UNCHANGED q
    /\ UNCHANGED <<lock, stage, request, heard, proc, reader, closed>>

\* The end of the output.
ReadsEnd(p) ==
    /\ process[p].reading /\ process[p].pipe = <<>> /\ ~process[p].alive
    /\ process' = [process EXCEPT ![p].reading = FALSE]
    /\ UNCHANGED <<lock, stage, request, heard, proc, reader, fault, q, closed>>

=============================================================================
