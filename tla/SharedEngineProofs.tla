-------------------------- MODULE SharedEngineProofs --------------------------
(* What is proved of SharedEngine for any number of clients and requests and    *)
(* any limits: which processes run, who waits for whom, and whose lines an      *)
(* answer is made of.                                                           *)
EXTENDS SharedEngine, TLAPS

Orders == [does : {"uci", "isready", "configure", "go"}, for : Nat]
Lines  == [kind : {"banner", "uciok", "readyok", "info", "bestmove", "garbage"},
           of : Nat, options : Nat]
Processes == [alive : BOOLEAN, orders : Seq(Orders), options : Nat, search : Nat,
              pipe : Seq(Lines), reading : BOOLEAN, beset : BOOLEAN]

HeardLines == [of : Nat, options : Nat]

\* Nothing but the current process runs, and a closed adapter has none.
OnlyCurrent ==
    /\ \A p \in 1..Len(process) : process[p].alive => p = proc
    /\ closed => proc = 0

ProcessInv ==
    /\ process \in Seq(Processes) /\ proc \in 0..Len(process) /\ closed \in BOOLEAN
    /\ OnlyCurrent

\* Whoever is in a transaction holds the lock and has a process.
AtWork ==
    /\ lock = NoClient => stage = "free"
    /\ stage \in Waiting \cup {"ready"} => proc # 0

RequestInv ==
    /\ request \in Nat /\ heard \subseteq HeardLines /\ q \in Seq(Lines)
    /\ AtWork

ClientTypes ==
    /\ answer \in [Clients -> [to : Nat, lines : SUBSET HeardLines]]
    /\ requests \in Nat

EngineInv == ProcessInv /\ RequestInv /\ ClientTypes

\* An update of one process that starts none and revives none.
Updated(p, r) ==
    /\ p \in 1..Len(process)
    /\ r \in Processes
    /\ r.alive => process[p].alive
    /\ process' = [process EXCEPT ![p] = r]

\* Such an update keeps the types of the processes, and who runs.
LEMMA UpdateKeeps ==
  ASSUME process \in Seq(Processes), NEW p, NEW r, Updated(p, r)
  PROVE  /\ process' \in Seq(Processes)
         /\ Len(process') = Len(process)
         /\ \A o \in 1..Len(process) : process'[o].alive => process[o].alive
         /\ process'[p] = r
BY DEF Updated

\* A process that has ended is a process that does not run.
LEMMA EndedIsDead ==
  ASSUME NEW r \in Processes
  PROVE  Ended(r) \in Processes /\ ~Ended(r).alive
<1>1. <<>> \in Seq(Orders)
  OBVIOUS
<1> QED
  BY <1>1 DEF Ended, Processes

\* Before the first request nothing runs.
LEMMA EngineStarts == Init => EngineInv
<1> SUFFICES ASSUME Init PROVE EngineInv
  OBVIOUS
<1>1. process \in Seq(Processes) /\ q \in Seq(Lines) /\ Len(process) = 0
  BY DEF Init, EngineInit
<1>2. /\ request = 0 /\ heard = {} /\ proc = 0 /\ closed = FALSE /\ stage = "free"
  BY DEF Init, EngineInit
<1>3. ProcessInv
  <2>1. proc \in 0..Len(process)
    BY <1>1, <1>2
  <2>2. 1..Len(process) = {}
    BY <1>1
  <2>3. OnlyCurrent
    BY <1>2, <2>2 DEF OnlyCurrent
  <2> QED
    BY <1>1, <1>2, <2>1, <2>3 DEF ProcessInv
<1>4. RequestInv
  <2>1. heard \subseteq HeardLines
    BY <1>2
  <2>2. AtWork
    BY <1>2 DEF AtWork, Waiting
  <2>3. request \in Nat
    BY <1>2
  <2> QED
    BY <1>1, <2>1, <2>2, <2>3 DEF RequestInv
<1>5. ClientTypes
  BY DEF Init, ClientTypes, NoAnswer
<1> QED
  BY <1>3, <1>4, <1>5 DEF EngineInv

\* What a step has to do with the processes: it leaves them and who is current alone, or
\* updates one of them, or ends the current one and forgets it, or starts one.
Kept == UNCHANGED <<proc, process, closed>>

UpdatesOne == \E p \in 1..Len(process) : \E r \in Processes :
                  Updated(p, r) /\ UNCHANGED <<proc, closed>>

EndsCurrent ==
    /\ proc' = 0 /\ closed' \in BOOLEAN
    /\ \/ proc = 0 /\ UNCHANGED process
       \/ proc # 0 /\ process' = [process EXCEPT ![proc] = Ended(@)]
       \/ proc # 0 /\ ~process[proc].alive /\ UNCHANGED process

StartsOne ==
    /\ ~closed /\ ~Running(proc)
    /\ process' = Append(process, Fresh(AnyReader)) /\ proc' = Len(process) + 1
    /\ UNCHANGED closed

Moved == Kept \/ UpdatesOne \/ EndsCurrent \/ StartsOne

\* A new process is a process.
LEMMA FreshIsAProcess == \A beset \in BOOLEAN : Fresh(beset) \in Processes
BY DEF Fresh, Banner, Processes, Orders, Lines

\* None of the four brings a second process to life, or one to a closed adapter.
LEMMA MovedKeeps ==
  ASSUME ProcessInv, Moved
  PROVE  ProcessInv'
<1>1. CASE Kept
  BY <1>1 DEF Kept, ProcessInv, OnlyCurrent
<1>2. CASE UpdatesOne
  <2>1. PICK p \in 1..Len(process), r \in Processes :
           Updated(p, r) /\ UNCHANGED <<proc, closed>>
    BY <1>2 DEF UpdatesOne
  <2>2. /\ process' \in Seq(Processes) /\ Len(process') = Len(process)
        /\ \A o \in 1..Len(process) : process'[o].alive => process[o].alive
    BY <2>1, UpdateKeeps DEF ProcessInv
  <2> QED
    BY <2>1, <2>2 DEF ProcessInv, OnlyCurrent
<1>3. CASE EndsCurrent
  <2>1. CASE UNCHANGED process
    <3>1. \A p \in 1..Len(process) : ~process[p].alive
      BY <1>3, <2>1, EndedIsDead DEF EndsCurrent, ProcessInv, OnlyCurrent
    <3> QED
      BY <1>3, <2>1, <3>1 DEF EndsCurrent, ProcessInv, OnlyCurrent
  <2>2. CASE proc # 0 /\ process' = [process EXCEPT ![proc] = Ended(@)]
    <3>1. proc \in 1..Len(process) /\ process[proc] \in Processes
      BY <2>2 DEF ProcessInv
    <3>2. Ended(process[proc]) \in Processes /\ ~Ended(process[proc]).alive
      BY <3>1, EndedIsDead
    <3>3. /\ process' \in Seq(Processes) /\ Len(process') = Len(process)
          /\ process'[proc] = Ended(process[proc])
          /\ \A p \in 1..Len(process) : p # proc => process'[p] = process[p]
      BY <2>2, <3>1, <3>2 DEF ProcessInv
    <3>4. \A p \in 1..Len(process) : ~process'[p].alive
      BY <3>2, <3>3 DEF ProcessInv, OnlyCurrent
    <3> QED
      BY <1>3, <3>3, <3>4 DEF EndsCurrent, ProcessInv, OnlyCurrent
  <2> QED
    BY <1>3, <2>1, <2>2 DEF EndsCurrent
<1>4. CASE StartsOne
  <2>1. \A p \in 1..Len(process) : ~process[p].alive
    BY <1>4 DEF StartsOne, ProcessInv, OnlyCurrent, Running
  <2>2. PICK fresh \in Processes : process' = Append(process, fresh)
    BY <1>4, FreshIsAProcess, Zenon DEF StartsOne, AnyReader
  <2>3. /\ process' \in Seq(Processes) /\ Len(process') = Len(process) + 1
        /\ \A p \in 1..Len(process) : process'[p] = process[p]
    BY <2>2 DEF ProcessInv
  <2> QED
    BY <1>4, <2>1, <2>3 DEF StartsOne, ProcessInv, OnlyCurrent
<1> QED
  BY <1>1, <1>2, <1>3, <1>4 DEF Moved

-----------------------------------------------------------------------------
(* What each action does to the processes and to the request *)

\* The tail of a queue of lines is one, and its head is a line.
LEMMA QueueOfLines ==
  ASSUME q \in Seq(Lines), q # <<>>
  PROVE  Tail(q) \in Seq(Lines) /\ Line \in HeardLines
<1>1. Head(q) \in Lines
  OBVIOUS
<1> QED
  BY <1>1 DEF Line, HeardLines, Lines

\* An order to a running current process is an update of it.
LEMMA SendUpdates ==
  ASSUME ProcessInv, proc # 0, UNCHANGED <<proc, closed>>,
         NEW order \in Orders, NEW to, Send(order, to)
  PROVE  UpdatesOne
<1>1. proc \in 1..Len(process) /\ process[proc] \in Processes
  BY DEF ProcessInv
<1>2. [process[proc] EXCEPT !.orders = Append(@, order)] \in Processes
  <2>1. Append(process[proc].orders, order) \in Seq(Orders)
    BY <1>1 DEF Processes
  <2> QED
    BY <1>1, <2>1 DEF Processes
<1>3. Updated(proc, [process[proc] EXCEPT !.orders = Append(@, order)])
  BY <1>1, <1>2 DEF Send, Updated, Processes
<1> QED
  BY <1>1, <1>2, <1>3 DEF UpdatesOne

\* A failure ends the current process.
LEMMA DiscardEnds ==
  ASSUME ProcessInv, RequestInv, proc # 0, stage # "free", Discard
  PROVE  EndsCurrent /\ RequestInv'
<1>1. EndsCurrent
  BY DEF Discard, DiscardProcess, EndsCurrent, ProcessInv
<1>2. RequestInv'
  <2>1. q' \in Seq(Lines) /\ heard' \subseteq HeardLines
    BY DEF Discard
  <2>2. AtWork'
    BY DEF Discard, RequestInv, AtWork, Proceed, Waiting
  <2> QED
    BY <2>1, <2>2 DEF Discard, RequestInv, Proceed
<1> QED
  BY <1>1, <1>2

\* Every action of the holder of the lock.
LEMMA TransactMoves ==
  ASSUME ProcessInv, RequestInv,
         \/ Reuse \/ Start \/ Greeted \/ Started \/ Configure \/ Go
         \/ HearInfo \/ ReadOver \/ Fails
  PROVE  Moved /\ RequestInv'
<1> USE DEF Proceed
<1>1. CASE Reuse
  BY <1>1 DEF Reuse, Moved, Kept, RequestInv, AtWork, Waiting, Running
<1>2. CASE Start
  <2>1. StartsOne
    BY <1>2 DEF Start, StartsOne
  <2>2. RequestInv'
    BY <1>2 DEF Start, RequestInv, AtWork, Waiting, ProcessInv
  <2> QED
    BY <2>1, <2>2 DEF Moved
<1>3. CASE Greeted
  <2>1. proc # 0 /\ q # <<>>
    BY <1>3 DEF Greeted, AtHead, RequestInv, AtWork, Waiting
  <2>2. UpdatesOne
    BY <1>3, <2>1, SendUpdates DEF Greeted, Orders
  <2>3. RequestInv'
    BY <1>3, <2>1, QueueOfLines DEF Greeted, Send, RequestInv, AtWork, Waiting
  <2> QED
    BY <2>2, <2>3 DEF Moved
<1>4. CASE Started
  <2>1. q # <<>>
    BY <1>4 DEF Started, AtHead
  <2> QED
    BY <1>4, <2>1, QueueOfLines DEF Started, Moved, Kept, RequestInv, AtWork, Waiting
<1>5. CASE Configure
  <2>1. proc # 0
    BY <1>5 DEF Configure, RequestInv, AtWork
  <2>2. OptionsOfRequest \in Orders
    BY DEF OptionsOfRequest, Orders, RequestInv
  <2>3. UpdatesOne
    BY <1>5, <2>1, <2>2, SendUpdates DEF Configure
  <2>4. RequestInv'
    BY <1>5, <2>1 DEF Configure, Send, RequestInv, AtWork, Waiting
  <2> QED
    BY <2>3, <2>4 DEF Moved
<1>6. CASE Go
  <2>1. proc # 0 /\ q # <<>>
    BY <1>6 DEF Go, AtHead, RequestInv, AtWork, Waiting
  <2>2. [does |-> "go", for |-> request] \in Orders
    BY DEF Orders, RequestInv
  <2>3. UpdatesOne
    BY <1>6, <2>1, <2>2, SendUpdates DEF Go
  <2>4. RequestInv'
    BY <1>6, <2>1, QueueOfLines DEF Go, Send, RequestInv, AtWork, Waiting
  <2> QED
    BY <2>3, <2>4 DEF Moved
<1>7. CASE HearInfo
  <2>1. q # <<>>
    BY <1>7 DEF HearInfo, AtHead
  <2> QED
    BY <1>7, <2>1, QueueOfLines DEF HearInfo, Moved, Kept, RequestInv, AtWork
<1>8. CASE ReadOver
  BY <1>8, QueueOfLines DEF ReadOver, Moved, Kept, RequestInv, AtWork
<1>9. CASE Fails
  <2>1. proc # 0 /\ stage # "free"
    BY <1>9 DEF Fails, CannotSend, HearsGarbage, HearsRefusal, HearsExit, TimesOut,
                RequestInv, AtWork, Waiting
  <2> QED
    BY <1>9, <2>1, DiscardEnds DEF Fails, Moved
<1> QED
  BY <1>1, <1>2, <1>3, <1>4, <1>5, <1>6, <1>7, <1>8, <1>9

\* The call that returns or raises leaves the engine as it found it, or without one.
LEMMA LeavingMoves ==
  ASSUME ProcessInv, RequestInv, BestMove \/ CannotStart \/ RaiseFailure
  PROVE  Moved /\ RequestInv'
<1>1. CASE BestMove
  <2>1. q # <<>>
    BY <1>1 DEF BestMove, AtHead
  <2>2. Kept /\ q' \in Seq(Lines)
    BY <1>1, <2>1, QueueOfLines DEF BestMove, Kept, RequestInv
  <2> QED
    BY <1>1, <2>2 DEF BestMove, Leave, Moved, RequestInv, AtWork, Waiting
<1>2. CASE CannotStart
  <2>1. Kept \/ EndsCurrent
    BY <1>2 DEF CannotStart, Kept, EndsCurrent, Running, ProcessInv
  <2>2. RequestInv'
    <3>1. q' \in Seq(Lines)
      <4>1. q' = q \/ q' = <<>>
        BY <1>2 DEF CannotStart
      <4>2. <<>> \in Seq(Lines) /\ q \in Seq(Lines)
        BY DEF RequestInv
      <4> QED
        BY <4>1, <4>2
    <3>2. AtWork'
      BY <1>2 DEF CannotStart, Leave, AtWork, Waiting
    <3>3. request' \in Nat /\ heard' \subseteq HeardLines
      BY <1>2 DEF CannotStart, Leave
    <3> QED
      BY <3>1, <3>2, <3>3 DEF RequestInv
  <2> QED
    BY <2>1, <2>2 DEF Moved
<1>3. CASE RaiseFailure
  BY <1>3 DEF RaiseFailure, Leave, Moved, Kept, RequestInv, AtWork, Waiting
<1> QED
  BY <1>1, <1>2, <1>3

\* A line of a process.
LEMMA SaysALine ==
  ASSUME process \in Seq(Processes), NEW p \in 1..Len(process),
         NEW kind \in {"uciok", "readyok", "info", "bestmove", "garbage"}
  PROVE  Writes(p, kind) \in Seq(Lines)
<1>1. process[p] \in Processes
  OBVIOUS
<1>2. Says(p, kind) \in Lines
  BY <1>1 DEF Says, Lines, Processes
<1> QED
  BY <1>1, <1>2 DEF Writes, Processes

\* What the processes and their readers do updates one process.
LEMMA OutsideMoves ==
  ASSUME ProcessInv, RequestInv, NEW p \in 1..Len(process),
         \/ Obey(p) \/ SearchPrints(p) \/ Dies(p) \/ Read(p) \/ ReadsEnd(p)
  PROVE  Moved /\ RequestInv'
<1>a. process \in Seq(Processes) /\ process[p] \in Processes
  BY DEF ProcessInv
<1>1. CASE Obey(p)
  <2> DEFINE order == Head(process[p].orders)
             r == [process[p] EXCEPT
                     !.orders = Tail(@),
                     !.options = IF order.does = "configure" THEN order.for ELSE @,
                     !.search = IF order.does = "go" THEN order.for ELSE @,
                     !.pipe = CASE order.does = "go"  -> @
                                [] order.does = "uci" -> Writes(p, "uciok")
                                [] OTHER              -> Writes(p, "readyok")]
  <2>1. Writes(p, "uciok") \in Seq(Lines) /\ Writes(p, "readyok") \in Seq(Lines)
    BY <1>a, SaysALine
  <2>2. order \in Orders /\ Tail(process[p].orders) \in Seq(Orders)
    BY <1>1, <1>a DEF Obey, Processes
  <2>3. r \in Processes
    BY <1>a, <2>1, <2>2 DEF Processes, Orders
  <2>4. process' = [process EXCEPT ![p] = r] /\ (r.alive => process[p].alive)
    BY <1>1, <1>a DEF Obey, Processes
  <2>5. Updated(p, r)
    BY <2>3, <2>4 DEF Updated
  <2>6. UpdatesOne
    BY <1>1, <2>3, <2>5 DEF UpdatesOne, Obey
  <2> QED
    BY <1>1, <2>6 DEF Obey, Moved, RequestInv, AtWork
<1>2. CASE SearchPrints(p)
  <2>1. PICK r \in Processes : process' = [process EXCEPT ![p] = r] /\ r.alive
    <3>1. CASE process' = [process EXCEPT ![p].pipe = Writes(p, "info")]
      <4>1. [process[p] EXCEPT !.pipe = Writes(p, "info")] \in Processes
        BY <1>a, SaysALine DEF Processes
      <4> QED
        BY <1>2, <1>a, <3>1, <4>1 DEF SearchPrints, Processes
    <3>2. CASE \E kind \in {"bestmove", "garbage"} :
             process' = [process EXCEPT ![p].pipe = Writes(p, kind), ![p].search = 0]
      <4>1. PICK kind \in {"bestmove", "garbage"} :
             process' = [process EXCEPT ![p].pipe = Writes(p, kind), ![p].search = 0]
        BY <3>2
      <4>2. Writes(p, kind) \in Seq(Lines)
        BY <1>a, SaysALine
      <4>3. [process[p] EXCEPT !.pipe = Writes(p, kind), !.search = 0] \in Processes
        BY <1>a, <4>2 DEF Processes
      <4> QED
        BY <1>2, <1>a, <4>1, <4>3 DEF SearchPrints, Processes
    <3> QED
      BY <1>2, <3>1, <3>2 DEF SearchPrints
  <2>2. Updated(p, r)
    BY <1>2, <2>1 DEF SearchPrints, Updated
  <2> QED
    BY <1>2, <2>2 DEF UpdatesOne, SearchPrints, Moved, RequestInv, AtWork
<1>3. CASE Dies(p)
  <2>1. Ended(process[p]) \in Processes /\ ~Ended(process[p]).alive
    BY <1>a, EndedIsDead
  <2>2. Updated(p, Ended(process[p]))
    BY <1>3, <2>1 DEF Dies, Updated
  <2> QED
    BY <1>3, <2>1, <2>2 DEF UpdatesOne, Dies, Moved, RequestInv, AtWork
<1>4. CASE Read(p)
  <2>1. /\ Head(process[p].pipe) \in Lines /\ Tail(process[p].pipe) \in Seq(Lines)
        /\ process[p].pipe \in Seq(Lines)
    BY <1>4, <1>a DEF Read, Processes
  <2>2. PICK r \in Processes : process' = [process EXCEPT ![p] = r]
                               /\ r.alive = process[p].alive
    <3>1. [process[p] EXCEPT !.pipe = Tail(@)] \in Processes
      BY <1>a, <2>1 DEF Processes
    <3>2. [process[p] EXCEPT !.pipe = Tail(@), !.reading = FALSE] \in Processes
      BY <1>a, <2>1 DEF Processes
    <3> QED
      BY <1>4, <1>a, <3>1, <3>2 DEF Read, Refuse, Processes
  <2>3. q' \in Seq(Lines)
    BY <1>4, <2>1 DEF Read, RequestInv
  <2>4. Updated(p, r)
    BY <2>2 DEF Updated
  <2> QED
    BY <1>4, <2>3, <2>4 DEF UpdatesOne, Read, Moved, RequestInv, AtWork
<1>5. CASE ReadsEnd(p)
  <2>1. [process[p] EXCEPT !.reading = FALSE] \in Processes
    BY <1>a DEF Processes
  <2>2. Updated(p, [process[p] EXCEPT !.reading = FALSE])
    BY <1>5, <1>a, <2>1 DEF ReadsEnd, Updated, Processes
  <2> QED
    BY <1>5, <2>1, <2>2 DEF UpdatesOne, ReadsEnd, Moved, RequestInv, AtWork
<1> QED
  BY <1>1, <1>2, <1>3, <1>4, <1>5

-----------------------------------------------------------------------------
(* The clients and the shutdown *)

\* The steps of the clients that call nobody leave the engine alone.
EngineAlone == UNCHANGED evars

\* A step that leaves the engine alone keeps what is known of it.
LEMMA AloneMoves ==
  ASSUME RequestInv, EngineAlone
  PROVE  Moved /\ RequestInv'
BY DEF EngineAlone, evars, Moved, Kept, RequestInv, AtWork

\* A call takes a free lock; closing the adapter needs it free.
LEMMA CallMoves ==
  ASSUME ProcessInv, RequestInv, ClientTypes,
         (\E c \in Clients : Call(c)) \/ CloseRuntime
  PROVE  Moved /\ RequestInv' /\ ClientTypes'
<1>1. CASE \E c \in Clients : Call(c)
  <2>1. PICK c \in Clients : Call(c)
    BY <1>1
  <2>2. answer[c].to \in Nat
    BY DEF ClientTypes
  <2>3. Kept /\ UNCHANGED <<answer, requests>>
    BY <2>1 DEF Call, Enter, Kept
  <2>4. RequestInv'
    <3>1. request' \in Nat /\ heard' \subseteq HeardLines /\ q' \in Seq(Lines)
      BY <2>1, <2>2 DEF Call, Enter, RequestInv
    <3>2. AtWork'
      BY <2>1, EngineAssumption DEF Call, Enter, AtWork, Waiting
    <3> QED
      BY <3>1, <3>2 DEF RequestInv
  <2> QED
    BY <2>3, <2>4 DEF Moved, ClientTypes
<1>2. CASE CloseRuntime
  <2>1. CloseAdapter /\ UNCHANGED <<answer, requests>>
    BY <1>2 DEF CloseRuntime
  <2>2. Kept \/ EndsCurrent
    BY <2>1 DEF CloseAdapter, CloseEnds, Kept, EndsCurrent, Running, ProcessInv
  <2>3. RequestInv'
    BY <2>1 DEF CloseAdapter, RequestInv, AtWork, Waiting
  <2> QED
    BY <2>1, <2>2, <2>3 DEF Moved, ClientTypes
<1> QED
  BY <1>1, <1>2

\* What is returned to a client is a set of lines.
LEMMA AnswersAreLines ==
  ASSUME RequestInv, ClientTypes, Next
  PROVE  ClientTypes'
<1>1. ASSUME NEW p \in Players, AskMove(p)
      PROVE  ClientTypes'
  BY <1>1, SharedAssumption DEF AskMove, ClientTypes
<1>2. CASE AskAnalysis
  BY <1>2, SharedAssumption DEF AskAnalysis, ClientTypes
<1>3. CASE Answered
  <2>1. q # <<>> /\ q \in Seq(Lines) /\ heard \subseteq HeardLines
    BY <1>3 DEF Answered, BestMove, AtHead, RequestInv
  <2>2. heard \cup {Line} \subseteq HeardLines
    BY <2>1, QueueOfLines
  <2> QED
    BY <1>3, <2>2 DEF Answered, ClientTypes
<1>4. ASSUME NEW c \in Clients, Return(c)
      PROVE  ClientTypes'
  BY <1>4 DEF Return, ClientTypes, NoAnswer
<1>5. CASE UNCHANGED <<answer, requests>>
  BY <1>5 DEF ClientTypes
<1> QED
  BY <1>1, <1>2, <1>3, <1>4, <1>5
  DEF Next, TakeProvider, Call, Holder, Transact, Failed, Outside, Reads, CloseAnalysis,
      Closing, ClosePlay, CloseRuntime, pvars

\* Every step is one of the four moves.
LEMMA NextMoves ==
  ASSUME EngineInv, Next
  PROVE  Moved /\ RequestInv'
<1>a. ProcessInv /\ RequestInv /\ ClientTypes
  BY DEF EngineInv
<1>1. CASE \/ \E p \in Players : AskMove(p) \/ TakeProvider(p)
           \/ AskAnalysis
           \/ \E c \in Clients : Return(c)
           \/ CloseAnalysis \/ ClosePlay
  <2>1. EngineAlone
    BY <1>1 DEF AskMove, TakeProvider, AskAnalysis, Return, CloseAnalysis, ClosePlay,
                EngineAlone
  <2> QED
    BY <1>a, <2>1, AloneMoves
<1>2. CASE (\E c \in Clients : Call(c)) \/ CloseRuntime
  BY <1>a, <1>2, CallMoves
<1>3. CASE Transact
  BY <1>a, <1>3, TransactMoves DEF Transact
<1>4. CASE Answered \/ Failed
  BY <1>a, <1>4, LeavingMoves DEF Answered, Failed
<1>5. CASE Outside \/ Reads
  BY <1>a, <1>5, OutsideMoves DEF Outside, Reads
<1> QED
  BY <1>1, <1>2, <1>3, <1>4, <1>5 DEF Next, Holder, Closing

\* Every step keeps the invariant.
LEMMA EngineStep == EngineInv /\ [Next]_vars => EngineInv'
<1> SUFFICES ASSUME EngineInv, [Next]_vars
             PROVE  EngineInv'
  OBVIOUS
<1>a. ProcessInv /\ RequestInv /\ ClientTypes
  BY DEF EngineInv
<1>1. CASE UNCHANGED vars
  <2>1. Moved /\ RequestInv'
    BY <1>1, <1>a, AloneMoves DEF vars, EngineAlone
  <2>2. ClientTypes'
    BY <1>1, <1>a DEF vars, pvars, ClientTypes
  <2> QED
    BY <1>a, <2>1, <2>2, MovedKeeps DEF EngineInv
<1>2. CASE Next
  <2>1. ClientTypes'
    BY <1>2, <1>a, AnswersAreLines
  <2>2. Moved /\ RequestInv'
    BY <1>2, NextMoves
  <2> QED
    BY <1>a, <2>1, <2>2, MovedKeeps DEF EngineInv
<1> QED
  BY <1>1, <1>2

\* Through every failure, retry and shutdown at most the adapter's current process runs,
\* and none is left when the adapter is closed (engine.py: start, _discard_process, close).
THEOREM EngineNothingLeftRunning == Spec => []NothingLeftRunning
<1>1. EngineInv => NothingLeftRunning
  BY DEF EngineInv, ProcessInv, OnlyCurrent, NothingLeftRunning
<1> QED
  BY EngineStarts, EngineStep, <1>1, PTL DEF Spec

-----------------------------------------------------------------------------
(* Waiting.  Who holds a lock is where he can let go of it.                     *)

Places == {"idle", "begun", "calling", "inside", "returned"}

\* The two locks of NobodyIsStuck, and the process whose reader is joined.
WaitInv ==
    /\ at \in [Clients -> Places]
    /\ lock \in Clients \cup {NoClient}
    /\ provider \in Players \cup {NoClient}
    /\ reader \in 0..Len(process)
    /\ provider # NoClient => at[provider] \in {"calling", "inside", "returned"}
    /\ lock # NoClient => at[lock] = "inside"
    /\ \A c \in Clients : at[c] = "inside" => lock = c /\ stage # "free"

\* Nobody holds anything at the beginning.
LEMMA NobodyWaitsAtFirst == Init => WaitInv
BY EngineAssumption, SharedAssumption DEF Init, EngineInit, WaitInv, Places

\* The reader is kept, forgotten, or that of a process which has just been started.
ReaderMoves ==
    \/ reader' \in {reader, 0}
    \/ process' = Append(process, Fresh(AnyReader)) /\ reader' = Len(process) + 1

\* It is always the reader of a process that was started.
LEMMA ReaderOfAProcess ==
  ASSUME ProcessInv, Moved, reader \in 0..Len(process), ReaderMoves
  PROVE  reader' \in 0..Len(process')
<1>1. process \in Seq(Processes) /\ Fresh(AnyReader) \in Processes
  BY FreshIsAProcess DEF ProcessInv, AnyReader
<1>2. CASE process' = Append(process, Fresh(AnyReader))
  BY <1>1, <1>2 DEF ReaderMoves
<1>3. CASE Len(process') = Len(process)
  BY <1>1, <1>3 DEF ReaderMoves
<1>4. Len(process') = Len(process) \/ process' = Append(process, Fresh(AnyReader))
  BY <1>1, UpdateKeeps DEF Moved, Kept, UpdatesOne, EndsCurrent, StartsOne
<1> QED
  BY <1>2, <1>3, <1>4

\* What the holder does short of leaving, and what the processes and the readers do,
\* moves nobody.
LEMMA NobodyMoves ==
  ASSUME Transact \/ Outside \/ Reads
  PROVE  /\ UNCHANGED <<lock, at, provider>> /\ ReaderMoves
         /\ stage # "free" => stage' # "free"
<1>1. CASE Transact
  <2>1. UNCHANGED <<at, provider>>
    BY <1>1 DEF Transact, pvars
  <2>2. CASE Reuse \/ Greeted \/ Started \/ Configure \/ Go \/ HearInfo \/ ReadOver
    BY <2>1, <2>2 DEF Reuse, Greeted, Started, Configure, Go, HearInfo, ReadOver, Proceed, Send,
                      ReaderMoves
  <2>3. CASE Start
    BY <2>1, <2>3 DEF Start, Proceed, ReaderMoves
  <2>4. CASE Fails
    <3>1. Discard
      BY <2>4 DEF Fails
    <3> QED
      BY <2>1, <3>1 DEF Discard, Proceed, ReaderMoves
  <2> QED
    BY <1>1, <2>2, <2>3, <2>4 DEF Transact
<1>2. CASE Outside
  <2>1. PICK p \in 1..Len(process) : Obey(p) \/ SearchPrints(p) \/ Dies(p)
    BY <1>2 DEF Outside
  <2>2. UNCHANGED <<lock, stage, reader>>
    BY <2>1, Zenon DEF Obey, SearchPrints, Dies
  <2> QED
    BY <1>2, <2>2 DEF Outside, pvars, ReaderMoves
<1>3. CASE Reads
  <2>1. UNCHANGED <<lock, stage, reader>>
    BY <1>3, Zenon DEF Reads, Read, ReadsEnd
  <2> QED
    BY <1>3, <2>1 DEF Reads, pvars, ReaderMoves
<1> QED
  BY <1>1, <1>2, <1>3

\* A client that goes on without the adapter's lock, or with the provider's.
LEMMA ClientsWait ==
  ASSUME WaitInv, EngineAlone,
         \/ \E p \in Players : AskMove(p) \/ TakeProvider(p)
         \/ AskAnalysis
         \/ \E c \in Clients : Return(c)
  PROVE  WaitInv'
<1>a. UNCHANGED <<lock, stage, reader, process>>
  BY DEF EngineAlone, evars
<1>1. ASSUME NEW p \in Players, AskMove(p) \/ TakeProvider(p)
      PROVE  WaitInv'
  BY <1>a, <1>1, SharedAssumption, EngineAssumption
  DEF AskMove, TakeProvider, Moves, WaitInv, Places
<1>2. CASE AskAnalysis
  BY <1>a, <1>2, SharedAssumption, EngineAssumption DEF AskAnalysis, Moves, WaitInv, Places
<1>3. ASSUME NEW c \in Clients, Return(c)
      PROVE  WaitInv'
  BY <1>a, <1>3, SharedAssumption, EngineAssumption DEF Return, Moves, WaitInv, Places
<1> QED
  BY <1>1, <1>2, <1>3

\* Every step keeps the invariant.
LEMMA WaitStep == EngineInv /\ WaitInv /\ [Next]_vars => WaitInv'
<1> SUFFICES ASSUME EngineInv, WaitInv, [Next]_vars
             PROVE  WaitInv'
  OBVIOUS
<1>1. CASE UNCHANGED vars
  BY <1>1 DEF vars, evars, pvars, WaitInv
<1>2. CASE Next
  <2>a. ProcessInv /\ reader \in 0..Len(process)
    BY DEF EngineInv, WaitInv
  <2>b. Moved
    BY <1>2, NextMoves
  <2>c. ReaderMoves => reader' \in 0..Len(process')
    BY <2>a, <2>b, ReaderOfAProcess
  <2>1. CASE \/ \E p \in Players : AskMove(p) \/ TakeProvider(p)
             \/ AskAnalysis
             \/ \E c \in Clients : Return(c)
    <3>1. EngineAlone
      BY <2>1 DEF AskMove, TakeProvider, AskAnalysis, Return, EngineAlone
    <3> QED
      BY <2>1, <3>1, ClientsWait
  <2>2. ASSUME NEW c \in Clients, Call(c)
        PROVE  WaitInv'
    <3>1. /\ lock = NoClient /\ lock' = c /\ stage' = "start"
          /\ UNCHANGED <<provider, reader, process>>
          /\ at[c] = "calling" /\ at' = [at EXCEPT ![c] = "inside"]
      BY <2>2 DEF Call, Enter, Moves
    <3> QED
      BY <2>2, <3>1, EngineAssumption, SharedAssumption DEF WaitInv, Places
  <2>3. CASE Transact \/ Outside \/ Reads
    <3>1. /\ UNCHANGED <<lock, at, provider>> /\ ReaderMoves
          /\ stage # "free" => stage' # "free"
      BY <2>3, NobodyMoves
    <3> QED
      BY <2>c, <3>1 DEF WaitInv
  <2>4. CASE Answered \/ Failed
    <3>1. /\ lock' = NoClient /\ at' = [at EXCEPT ![lock] = "returned"]
          /\ UNCHANGED provider /\ ReaderMoves
      BY <2>4 DEF Answered, Failed, BestMove, CannotStart, RaiseFailure, Leave, Moves,
                  ReaderMoves
    <3>2. at' \in [Clients -> Places] /\ \A c \in Clients : at'[c] # "inside"
      BY <3>1, EngineAssumption DEF WaitInv, Places
    <3>3. provider # NoClient => at'[provider] \in {"calling", "inside", "returned"}
      BY <3>1, SharedAssumption DEF WaitInv
    <3> QED
      BY <2>c, <3>1, <3>2, <3>3 DEF WaitInv
  <2>5. CASE CloseAnalysis \/ ClosePlay
    BY <2>5 DEF CloseAnalysis, ClosePlay, evars, WaitInv
  <2>6. CASE CloseRuntime
    <3>1. UNCHANGED <<lock, stage, at, provider>> /\ ReaderMoves
      BY <2>6 DEF CloseRuntime, CloseAdapter, ReaderMoves
    <3> QED
      BY <2>c, <3>1 DEF WaitInv
  <2> QED
    BY <1>2, <2>1, <2>2, <2>3, <2>4, <2>5, <2>6 DEF Next, Holder, Closing
<1> QED
  BY <1>1, <1>2

\* Whoever waits, waits for somebody who can go on: the two locks are held by calls that
\* are under way, and a join waits for the reader of a process that has ended, also when
\* readers end late (engine_play_service.py: choose_move; engine.py: start, analyze,
\* _discard_process).
THEOREM EngineNobodyIsStuck == Spec => []NobodyIsStuck
<1>1. EngineInv /\ WaitInv => NobodyIsStuck
  <2> SUFFICES ASSUME EngineInv, WaitInv
               PROVE  NobodyIsStuck
    OBVIOUS
  <2>1. ~Running(proc) => ReaderGone(reader) \/ ~process[reader].alive
    BY DEF EngineInv, ProcessInv, OnlyCurrent, WaitInv, Running, ReaderGone
  <2> QED
    BY <2>1 DEF NobodyIsStuck, WaitInv
<1>2. EngineInv /\ WaitInv /\ [Next]_vars => EngineInv' /\ WaitInv'
  BY EngineStep, WaitStep
<1> QED
  BY EngineStarts, NobodyWaitsAtFirst, <1>1, <1>2, PTL DEF Spec

-----------------------------------------------------------------------------
(* Answers.  The dialogue with the current process is in step: between the     *)
(* holder of the lock and the process there is one order, one search or one    *)
(* line that ends either, and it belongs to the request.                        *)

\* The lines that end what an order began.
Final == {"uciok", "readyok", "bestmove", "garbage"}

\* No reader of an earlier process still ran when the current one was started.
Alone == proc # 0 /\ ~process[proc].beset

\* Then only its own reader runs.
OneReader ==
    /\ Alone => \A p \in 1..Len(process) : process[p].reading => p = proc
    /\ stage = "joining" => proc = 0

\* A line on its way to the holder says what the holder waits for.
Expected(l) ==
    /\ stage \in Waiting
    /\ stage = "greeting" => l.kind \in {"banner", "uciok"}
    /\ stage \in {"starting", "configuring"} => l.kind = "readyok"
    /\ stage = "searching" => /\ l.kind \in {"info", "bestmove", "garbage"}
                              /\ l.of = request /\ l.options = request

\* What the process still has to do is what the holder asked for last.
Asked(order) ==
    CASE stage = "greeting"    -> order.does = "uci"
      [] stage = "starting"    -> order.does = "isready"
      [] stage = "configuring" -> order.does = "configure" /\ order.for = request
      [] stage = "searching"   -> order.does = "go" /\ order.for = request
      [] OTHER                 -> FALSE

Obeys(r) ==
    /\ r.orders # <<>> =>
          r.search = 0 /\ \E order \in Orders : r.orders = <<order>> /\ Asked(order)
    /\ r.search # 0 => stage = "searching" /\ r.search = request
    /\ r.alive /\ (stage = "searching" \/ (stage = "configuring" /\ r.orders = <<>>))
          => r.options = request

\* A final line is the last of its dialogue.
FinalIsLast(r) ==
    /\ \A i \in 1..Len(q) : q[i].kind \in Final =>
          i = Len(q) /\ r.pipe = <<>> /\ r.orders = <<>> /\ r.search = 0
    /\ \A i \in 1..Len(r.pipe) : r.pipe[i].kind \in Final =>
          i = Len(r.pipe) /\ r.orders = <<>> /\ r.search = 0

InStep ==
    Alone =>
        /\ \A i \in 1..Len(q) : Expected(q[i])
        /\ \A i \in 1..Len(process[proc].pipe) : Expected(process[proc].pipe[i])
        /\ Obeys(process[proc])
        /\ FinalIsLast(process[proc])

\* The client inside is the holder of the lock, and it is asked for its request.
Inside ==
    /\ at \in [Clients -> {"idle", "begun", "calling", "inside", "returned"}]
    /\ lock \in Clients \cup {NoClient}
    /\ stage \in {"free", "start", "ready", "joining"} \cup Waiting
    /\ lock # NoClient <=> stage # "free"
    /\ \A c \in Clients : at[c] = "inside" <=> c = lock
    /\ lock # NoClient => answer[lock].to = request
    /\ \A c \in Clients : at[c] \in {"begun", "calling", "inside"} => answer[c].lines = {}

OwnLine(l) == l.of = request /\ l.options = request

HeardInStep ==
    /\ stage # "searching" => heard = {}
    /\ Alone => \A l \in heard : OwnLine(l)

AnswerInv == OneReader /\ InStep /\ Inside /\ HeardInStep

\* Before the first request nothing is on its way.
LEMMA AnswersStart == Init => AnswerInv
<1> SUFFICES ASSUME Init PROVE AnswerInv
  OBVIOUS
<1>1. OneReader
  BY DEF Init, EngineInit, OneReader, Alone
<1>2. InStep
  BY DEF Init, EngineInit, InStep, Alone
<1>3. Inside
  <2>1. \A c \in Clients : at[c] = "idle" /\ answer[c].lines = {}
    BY DEF Init, NoAnswer
  <2>2. at \in [Clients -> {"idle", "begun", "calling", "inside", "returned"}]
    BY DEF Init
  <2> QED
    BY <2>1, <2>2, EngineAssumption DEF Init, EngineInit, Inside
<1>4. HeardInStep
  BY Zenon DEF Init, EngineInit, HeardInStep
<1> QED
  BY <1>1, <1>2, <1>3, <1>4 DEF AnswerInv

\* What is behind the head of the queue stays as it was; a final line has nothing
\* behind it, neither in the queue nor in the pipe, and no order and no search.
LEMMA HeadIsRead ==
  ASSUME EngineInv, InStep, Alone, q # <<>>
  PROVE  /\ Head(q) \in Lines /\ Expected(Head(q)) /\ Tail(q) \in Seq(Lines)
         /\ \A i \in 1..Len(Tail(q)) : Expected(Tail(q)[i])
         /\ \A i \in 1..Len(Tail(q)) : Tail(q)[i].kind \in Final =>
               /\ i = Len(Tail(q)) /\ process[proc].pipe = <<>>
               /\ process[proc].orders = <<>> /\ process[proc].search = 0
         /\ Head(q).kind \in Final =>
               /\ Tail(q) = <<>> /\ process[proc].pipe = <<>>
               /\ process[proc].orders = <<>> /\ process[proc].search = 0
<1>1. /\ q \in Seq(Lines) /\ Len(q) \in Nat \ {0} /\ Head(q) = q[1] /\ q[1] \in Lines
      /\ Tail(q) \in Seq(Lines) /\ Len(Tail(q)) = Len(q) - 1
      /\ \A i \in 1..Len(Tail(q)) : Tail(q)[i] = q[i + 1] /\ i + 1 \in 1..Len(q)
  BY DEF EngineInv, RequestInv
<1>2. /\ \A i \in 1..Len(q) : Expected(q[i])
      /\ FinalIsLast(process[proc])
  BY DEF InStep
<1>3. \A i \in 1..Len(Tail(q)) : Expected(Tail(q)[i])
  BY <1>1, <1>2
<1>4. \A i \in 1..Len(Tail(q)) : Tail(q)[i].kind \in Final =>
               /\ i = Len(Tail(q)) /\ process[proc].pipe = <<>>
               /\ process[proc].orders = <<>> /\ process[proc].search = 0
  <2> TAKE i \in 1..Len(Tail(q))
  <2> HAVE Tail(q)[i].kind \in Final
  <2>1. Tail(q)[i] = q[i + 1] /\ i + 1 \in 1..Len(q)
    BY <1>1
  <2>2. /\ i + 1 = Len(q) /\ process[proc].pipe = <<>>
        /\ process[proc].orders = <<>> /\ process[proc].search = 0
    BY <1>2, <2>1 DEF FinalIsLast
  <2>3. Len(Tail(q)) = Len(q) - 1 /\ i \in Nat /\ Len(q) \in Nat
    BY <1>1
  <2>4. i = Len(Tail(q))
    BY <2>2, <2>3
  <2> QED
    BY <2>2, <2>4
<1>5. Head(q).kind \in Final =>
               /\ Len(q) = 1 /\ process[proc].pipe = <<>>
               /\ process[proc].orders = <<>> /\ process[proc].search = 0
  <2> HAVE Head(q).kind \in Final
  <2>1. 1 \in 1..Len(q) /\ q[1].kind \in Final
    BY <1>1
  <2> QED
    BY <1>2, <2>1 DEF FinalIsLast
<1>6. Len(q) = 1 => Tail(q) = <<>>
  BY <1>1
<1>7. Expected(Head(q))
  <2>1. Head(q) = q[1] /\ 1 \in 1..Len(q)
    BY <1>1
  <2> QED
    BY <1>2, <2>1
<1> QED
  BY <1>1, <1>3, <1>4, <1>5, <1>6, <1>7, Zenon

\* An order to the current process changes that process's orders only.
LEMMA SendOrders ==
  ASSUME EngineInv, proc # 0, NEW order \in Orders, NEW to, Send(order, to)
  PROVE  /\ process[proc].alive /\ stage' = to /\ UNCHANGED <<lock, request>>
         /\ Len(process') = Len(process)
         /\ \A p \in 1..Len(process) : p # proc => process'[p] = process[p]
         /\ process'[proc] = [process[proc] EXCEPT !.orders = Append(@, order)]
         /\ proc \in 1..Len(process) /\ process[proc] \in Processes
<1>1. process \in Seq(Processes) /\ proc \in 1..Len(process)
  BY DEF EngineInv, ProcessInv
<1> DEFINE r == [process[proc] EXCEPT !.orders = Append(@, order)]
<1>2. process' = [process EXCEPT ![proc] = r]
  BY DEF Send
<1> HIDE DEF r
<1>3. /\ Len(process') = Len(process) /\ process'[proc] = r
      /\ \A p \in 1..Len(process) : p # proc => process'[p] = process[p]
  BY <1>1, <1>2
<1> QED
  BY <1>1, <1>3 DEF Send, Proceed, r

-----------------------------------------------------------------------------
(* The holder of the lock *)

Transaction ==
    \/ Reuse \/ Start \/ Greeted \/ Started \/ Configure \/ Go
    \/ HearInfo \/ ReadOver \/ Fails

\* A step of a transaction stays inside it, and hears no line but those of its search.
LEMMA TransactionInside ==
  ASSUME EngineInv, AnswerInv, Transaction, UNCHANGED pvars
  PROVE  Inside' /\ HeardInStep'
<1>a. Inside /\ HeardInStep /\ InStep
  BY DEF AnswerInv
<1>1. /\ UNCHANGED <<lock, request>> /\ stage # "free"
      /\ stage' \in {"start", "ready", "joining"} \cup Waiting
  BY DEF Transaction, Reuse, Start, Greeted, Started, Configure, Go, HearInfo, ReadOver, Fails,
         CannotSend, HearsGarbage, HearsRefusal, HearsExit, TimesOut, Discard, Proceed, Send,
         Waiting
<1>2. Inside'
  BY <1>a, <1>1 DEF Inside, pvars, Waiting
<1>3. HeardInStep'
  <2>1. CASE HearInfo
    <3>1. q # <<>> /\ Head(q).kind = "info" /\ stage = "searching"
      BY <2>1 DEF HearInfo, AtHead
    <3>2. Alone => Head(q).of = request /\ Head(q).options = request
      BY <1>a, <3>1, HeadIsRead DEF Expected
    <3> QED
      BY <1>a, <2>1, <3>1, <3>2 DEF HearInfo, HeardInStep, OwnLine, Line, Alone
  <2>2. CASE Reuse \/ Start \/ Greeted \/ Started \/ Configure \/ Go
    BY <1>1, <1>a, <2>2 DEF Reuse, Start, Greeted, Started, Configure, Go, Proceed, Send,
                            HeardInStep
  <2>3. CASE Fails
    BY <2>3 DEF Fails, Discard, HeardInStep
  <2>4. CASE ReadOver
    BY <1>a, <2>4 DEF ReadOver, HeardInStep, OwnLine, Alone
  <2> QED
    BY <2>1, <2>2, <2>3, <2>4 DEF Transaction
<1> QED
  BY <1>2, <1>3

\* The three steps that send an order.
LEMMA OrdersOut ==
  ASSUME EngineInv, Greeted \/ Configure \/ Go
  PROVE  \E order \in Orders : \E to \in Waiting : Send(order, to)
<1>1. request \in Nat
  BY DEF EngineInv, RequestInv
<1>2. Greeted => Send([does |-> "isready", for |-> 0], "starting")
  BY DEF Greeted
<1>3. Configure => Send([does |-> "configure", for |-> request], "configuring")
  BY DEF Configure, OptionsOfRequest
<1>4. Go => Send([does |-> "go", for |-> request], "searching")
  BY DEF Go
<1>5. /\ [does |-> "isready", for |-> 0] \in Orders
      /\ [does |-> "configure", for |-> request] \in Orders
      /\ [does |-> "go", for |-> request] \in Orders
      /\ "starting" \in Waiting /\ "configuring" \in Waiting /\ "searching" \in Waiting
  BY <1>1 DEF Orders, Waiting
<1> QED
  BY <1>2, <1>3, <1>4, <1>5

\* A process that is started while no reader runs is the only one that is read.
LEMMA TransactionReader ==
  ASSUME EngineInv, AnswerInv, Transaction
  PROVE  OneReader'
<1>a. process \in Seq(Processes) /\ proc \in 0..Len(process) /\ OneReader
  BY DEF EngineInv, ProcessInv, AnswerInv
<1>c. stage \in Waiting \cup {"ready"} => proc \in 1..Len(process)
  BY <1>a DEF EngineInv, RequestInv, AtWork
<1>1. CASE Reuse \/ Started \/ HearInfo \/ ReadOver
  <2>1. UNCHANGED <<process, proc>> /\ stage' # "joining"
    BY <1>1 DEF Reuse, Started, HearInfo, ReadOver, Proceed, Waiting
  <2> QED
    BY <1>a, <2>1 DEF OneReader, Alone
<1>2. CASE Start
  <2>1. /\ Len(process') = Len(process) + 1 /\ proc' = Len(process')
        /\ stage' = "greeting" /\ process'[proc'] = Fresh(AnyReader)
        /\ \A p \in 1..Len(process) : process'[p] = process[p]
    BY <1>2, <1>a DEF Start, Proceed
  <2>2. Fresh(AnyReader).beset = AnyReader
    BY DEF Fresh
  <2>3. CASE AnyReader
    BY <2>1, <2>2, <2>3 DEF OneReader, Alone
  <2>4. CASE ~AnyReader
    BY <1>a, <2>1, <2>4 DEF OneReader, AnyReader
  <2> QED
    BY <2>3, <2>4
<1>3. CASE Greeted \/ Configure \/ Go
  <2>1. PICK order \in Orders, to \in Waiting : Send(order, to)
    BY <1>3, OrdersOut
  <2>2. proc # 0 /\ UNCHANGED proc /\ stage' # "joining"
    BY <1>3, <1>c DEF Greeted, Configure, Go, Send, Proceed, Waiting
  <2>3. /\ Len(process') = Len(process)
        /\ \A p \in 1..Len(process) : /\ process'[p].reading = process[p].reading
                                      /\ process'[p].beset = process[p].beset
    BY <1>a, <2>1, <2>2, SendOrders DEF Processes
  <2> QED
    BY <1>a, <2>2, <2>3 DEF OneReader, Alone
<1>4. CASE Fails
  BY <1>4 DEF Fails, Discard, DiscardProcess, OneReader, Alone
<1> QED
  BY <1>1, <1>2, <1>3, <1>4 DEF Transaction

\* Every order goes out when the one before it has been answered.
LEMMA TransactionInStep ==
  ASSUME EngineInv, AnswerInv, Transaction
  PROVE  InStep'
<1>a. InStep /\ process \in Seq(Processes) /\ q \in Seq(Lines) /\ proc \in 0..Len(process)
  BY DEF AnswerInv, EngineInv, ProcessInv, RequestInv
<1>b. stage \in Waiting \cup {"ready"} => proc # 0
  BY DEF EngineInv, RequestInv, AtWork
<1>c. Alone => process[proc] \in Processes /\ process[proc].pipe \in Seq(Lines)
  <2>1. Alone => proc \in 1..Len(process)
    BY <1>a DEF Alone
  <2>2. Alone => process[proc] \in Processes
    BY <1>a, <2>1
  <2> QED
    BY <2>2 DEF Processes
<1>d. Alone /\ stage \notin Waiting =>
        /\ \A i \in 1..Len(process[proc].pipe) : FALSE
        /\ process[proc].orders = <<>> /\ process[proc].search = 0
  BY <1>a DEF InStep, Expected, Obeys, Asked, Waiting
<1>1. CASE Reuse
  BY <1>1, <1>a, <1>d DEF Reuse, Proceed, InStep, Alone, Expected, Obeys, FinalIsLast, Waiting
<1>2. CASE Start
  <2>1. PICK fresh \in Processes : fresh = Fresh(AnyReader) /\ process' = Append(process, fresh)
    BY <1>2, FreshIsAProcess, Zenon DEF Start, AnyReader
  <2>2. /\ fresh.pipe = <<Banner>> /\ fresh.search = 0
        /\ fresh.orders = <<[does |-> "uci", for |-> 0]>>
    BY <2>1 DEF Fresh
  <2>3. /\ process'[proc'] = fresh /\ q' = <<>> /\ stage' = "greeting"
    BY <1>2, <1>a, <2>1 DEF Start, Proceed
  <2>4. \A i \in 1..Len(fresh.pipe) : fresh.pipe[i] = Banner
    BY <2>2
  <2>5. \A l : l = Banner => Expected(l)' /\ l.kind \notin Final
    BY <2>3 DEF Expected, Banner, Final, Waiting
  <2>6. [does |-> "uci", for |-> 0] \in Orders /\ Asked([does |-> "uci", for |-> 0])'
    BY <2>3 DEF Orders, Asked
  <2>7. Obeys(process[proc])'
    BY <2>2, <2>3, <2>6 DEF Obeys
  <2>8. FinalIsLast(process[proc])'
    BY <2>3, <2>4, <2>5 DEF FinalIsLast
  <2> QED
    BY <2>3, <2>4, <2>5, <2>7, <2>8 DEF InStep
<1>3. ASSUME NEW order \in Orders, NEW to, Send(order, to), UNCHANGED proc, q' = <<>>, Alone,
             process[proc].pipe = <<>>, process[proc].orders = <<>>, process[proc].search = 0,
             Asked(order)', to \in {"starting", "configuring", "searching"},
             to = "searching" => process[proc].options = request
      PROVE  InStep'
  <2>1. /\ process'[proc] = [process[proc] EXCEPT !.orders = Append(@, order)]
        /\ stage' = to /\ UNCHANGED request
    BY <1>3, SendOrders DEF Alone
  <2>2. /\ process'[proc].pipe = <<>> /\ process'[proc].search = 0
        /\ process'[proc].orders = <<order>>
        /\ process'[proc].options = process[proc].options
    BY <1>3, <1>c, <2>1 DEF Processes
  <2>3. Obeys(process[proc])'
    BY <1>3, <2>1, <2>2 DEF Obeys
  <2>4. FinalIsLast(process[proc])'
    BY <1>3, <2>2 DEF FinalIsLast
  <2> QED
    BY <1>3, <2>2, <2>3, <2>4 DEF InStep
<1>4. CASE Greeted \/ Configure \/ Go
  <2>0. proc # 0 /\ UNCHANGED proc
    BY <1>4, <1>b DEF Greeted, Configure, Go, Waiting
  <2>1. PICK sent \in Orders, to \in Waiting : Send(sent, to)
    BY <1>4, OrdersOut
  <2>2. Alone' = Alone
    BY <1>a, <2>0, <2>1, SendOrders DEF Alone, Processes
  <2>3. SUFFICES ASSUME Alone PROVE InStep'
    BY <2>2 DEF InStep
  <2>4. CASE Greeted
    <3>1. q # <<>> /\ Head(q).kind \in Final /\ q' = Tail(q)
      BY <2>4 DEF Greeted, AtHead, Final
    <3>2. /\ q' = <<>> /\ process[proc].pipe = <<>> /\ process[proc].orders = <<>>
          /\ process[proc].search = 0
      BY <1>a, <2>3, <3>1, HeadIsRead
    <3>3. Send([does |-> "isready", for |-> 0], "starting") /\ stage' = "starting"
      BY <2>4 DEF Greeted, Send, Proceed
    <3>4. Asked([does |-> "isready", for |-> 0])' /\ [does |-> "isready", for |-> 0] \in Orders
      BY <3>3 DEF Asked, Orders
    <3> QED
      BY <1>3, <2>0, <2>3, <3>2, <3>3, <3>4
  <2>5. CASE Configure
    <3>0. PICK order \in Orders : order = [does |-> "configure", for |-> request]
      BY DEF Orders, EngineInv, RequestInv
    <3>1. /\ q' = <<>> /\ Send(order, "configuring") /\ stage' = "configuring"
          /\ UNCHANGED request /\ stage \notin Waiting
      BY <2>5, <3>0 DEF Configure, OptionsOfRequest, Send, Proceed, Waiting
    <3>2. process[proc].pipe = <<>>
      BY <1>c, <1>d, <2>3, <3>1
    <3>3. Asked(order)'
      BY <3>0, <3>1 DEF Asked
    <3> QED
      BY <1>3, <1>d, <2>0, <2>3, <3>1, <3>2, <3>3
  <2>6. CASE Go
    <3>0. PICK order \in Orders : order = [does |-> "go", for |-> request]
      BY DEF Orders, EngineInv, RequestInv
    <3>1. q # <<>> /\ Head(q).kind \in Final /\ q' = Tail(q) /\ stage = "configuring"
      BY <2>6 DEF Go, AtHead, Final
    <3>2. /\ q' = <<>> /\ process[proc].pipe = <<>> /\ process[proc].orders = <<>>
          /\ process[proc].search = 0
      BY <1>a, <2>3, <3>1, HeadIsRead
    <3>3. /\ Send(order, "searching") /\ stage' = "searching" /\ UNCHANGED request
          /\ process[proc].alive
      BY <2>6, <3>0 DEF Go, Send, Proceed
    <3>4. process[proc].options = request
      BY <1>a, <2>3, <3>1, <3>2, <3>3 DEF InStep, Obeys
    <3>5. Asked(order)'
      BY <3>0, <3>3 DEF Asked
    <3> QED
      BY <1>3, <2>0, <2>3, <3>2, <3>3, <3>4, <3>5
  <2> QED
    BY <1>4, <2>4, <2>5, <2>6
<1>5. CASE Started
  <2>1. q # <<>> /\ Head(q).kind \in Final /\ q' = Tail(q)
        /\ UNCHANGED <<proc, process>> /\ stage' = "ready"
    BY <1>5 DEF Started, Proceed, AtHead, Final
  <2>2. Alone => /\ q' = <<>> /\ process[proc].pipe = <<>> /\ process[proc].orders = <<>>
                 /\ process[proc].search = 0
    BY <1>a, <2>1, HeadIsRead
  <2>3. Alone' = Alone
    BY <2>1 DEF Alone
  <2>4. SUFFICES ASSUME Alone PROVE InStep'
    BY <2>3 DEF InStep
  <2>5. \A i \in 1..Len(q') : FALSE
    BY <2>2, <2>4
  <2>6. \A i \in 1..Len(process'[proc'].pipe) : FALSE
    BY <2>1, <2>2, <2>4
  <2>7. Obeys(process[proc])'
    BY <2>1, <2>2, <2>4 DEF Obeys
  <2>8. FinalIsLast(process[proc])'
    BY <2>5, <2>6 DEF FinalIsLast
  <2> QED
    BY <2>5, <2>6, <2>7, <2>8 DEF InStep
<1>6. CASE HearInfo \/ ReadOver
  <2>1. q # <<>> /\ q' = Tail(q) /\ UNCHANGED <<proc, process, stage, request>>
    BY <1>6 DEF HearInfo, ReadOver, AtHead
  <2>2. Alone =>
        /\ \A i \in 1..Len(q') : Expected(q'[i])
        /\ \A i \in 1..Len(q') : q'[i].kind \in Final =>
               /\ i = Len(q') /\ process[proc].pipe = <<>>
               /\ process[proc].orders = <<>> /\ process[proc].search = 0
    BY <1>a, <2>1, HeadIsRead
  <2> QED
    BY <1>a, <2>1, <2>2 DEF InStep, Alone, Expected, Obeys, Asked, FinalIsLast
<1>7. CASE Fails
  BY <1>7 DEF Fails, Discard, DiscardProcess, InStep, Alone
<1> QED
  BY <1>1, <1>2, <1>4, <1>5, <1>6, <1>7 DEF Transaction

-----------------------------------------------------------------------------
(* The processes and their readers *)

\* What is said next goes to the end of the pipe.
LEMMA PipeGrows ==
  ASSUME NEW pipe \in Seq(Lines), NEW l \in Lines
  PROVE  /\ Append(pipe, l) \in Seq(Lines) /\ Len(Append(pipe, l)) = Len(pipe) + 1
         /\ \A i \in 1..Len(pipe) : Append(pipe, l)[i] = pipe[i]
         /\ Append(pipe, l)[Len(pipe) + 1] = l
OBVIOUS

\* What the process does, and what its reader does, field by field.
LEMMA OutsideEffect ==
  ASSUME process \in Seq(Processes), NEW p \in 1..Len(process)
  PROVE  /\ Obey(p) \/ SearchPrints(p) \/ Dies(p) => process'[p].reading = process[p].reading
         /\ Obey(p) \/ SearchPrints(p) \/ Dies(p) \/ Read(p) \/ ReadsEnd(p) =>
               process'[p].beset = process[p].beset
         /\ Obey(p) =>
               /\ Head(process[p].orders).does = "go" => process'[p].pipe = process[p].pipe
               /\ Head(process[p].orders).does = "uci" => process'[p].pipe = Writes(p, "uciok")
               /\ Head(process[p].orders).does \notin {"go", "uci"} =>
                     process'[p].pipe = Writes(p, "readyok")
         /\ SearchPrints(p) =>
               /\ process'[p].orders = process[p].orders /\ process'[p].alive = process[p].alive
               /\ process'[p].options = process[p].options
               /\ \E kind \in {"info", "bestmove", "garbage"} :
                     /\ process'[p].pipe = Writes(p, kind)
                     /\ process'[p].search = IF kind = "info" THEN process[p].search ELSE 0
         /\ Read(p) \/ ReadsEnd(p) =>
               /\ process'[p].orders = process[p].orders /\ process'[p].alive = process[p].alive
               /\ process'[p].options = process[p].options
               /\ process'[p].search = process[p].search
         /\ Read(p) => process'[p].pipe = Tail(process[p].pipe)
<1>a. process[p] \in Processes
  OBVIOUS
<1>0. Obey(p) \/ SearchPrints(p) \/ Dies(p) \/ Read(p) \/ ReadsEnd(p) =>
        process'[p].beset = process[p].beset
  <2>1. Obey(p) => process'[p].beset = process[p].beset
    BY <1>a DEF Obey, Processes
  <2>2. ASSUME NEW kind,
               \/ process' = [process EXCEPT ![p].pipe = Writes(p, kind)]
               \/ process' = [process EXCEPT ![p].pipe = Writes(p, kind), ![p].search = 0]
        PROVE  process'[p].beset = process[p].beset
    BY <1>a, <2>2 DEF Processes
  <2>3. Dies(p) => process'[p].beset = process[p].beset
    BY <1>a DEF Dies, Ended, Processes
  <2>4. CASE process' = [process EXCEPT ![p].pipe = Tail(@)]
    BY <1>a, <2>4 DEF Processes
  <2>5. CASE process' = [process EXCEPT ![p].pipe = Tail(@), ![p].reading = FALSE]
    BY <1>a, <2>5 DEF Processes
  <2>6. ReadsEnd(p) => process'[p].beset = process[p].beset
    BY <1>a DEF ReadsEnd, Processes
  <2> QED
    BY <2>1, <2>2, <2>3, <2>4, <2>5, <2>6 DEF SearchPrints, Read, Refuse
<1>1. ASSUME Obey(p)
      PROVE  /\ process'[p].reading = process[p].reading
             /\ Head(process[p].orders).does = "go" => process'[p].pipe = process[p].pipe
             /\ Head(process[p].orders).does = "uci" => process'[p].pipe = Writes(p, "uciok")
             /\ Head(process[p].orders).does \notin {"go", "uci"} =>
                   process'[p].pipe = Writes(p, "readyok")
  <2>1. process'[p].reading = process[p].reading
    BY <1>1, <1>a DEF Obey, Processes
  <2>2. Head(process[p].orders).does = "go" => process'[p].pipe = process[p].pipe
    BY <1>1, <1>a DEF Obey, Processes
  <2>3. Head(process[p].orders).does = "uci" => process'[p].pipe = Writes(p, "uciok")
    BY <1>1, <1>a DEF Obey, Processes
  <2>4. Head(process[p].orders).does \notin {"go", "uci"} => process'[p].pipe = Writes(p, "readyok")
    BY <1>1, <1>a DEF Obey, Processes
  <2> QED
    BY <2>1, <2>2, <2>3, <2>4
<1>2. ASSUME SearchPrints(p)
      PROVE  /\ process'[p].orders = process[p].orders /\ process'[p].alive = process[p].alive
             /\ process'[p].options = process[p].options
             /\ process'[p].reading = process[p].reading
             /\ \E kind \in {"info", "bestmove", "garbage"} :
                   /\ process'[p].pipe = Writes(p, kind)
                   /\ process'[p].search = IF kind = "info" THEN process[p].search ELSE 0
  <2>1. CASE process' = [process EXCEPT ![p].pipe = Writes(p, "info")]
    BY <2>1, <1>a DEF Processes
  <2>2. ASSUME NEW kind \in {"bestmove", "garbage"},
               process' = [process EXCEPT ![p].pipe = Writes(p, kind), ![p].search = 0]
        PROVE  /\ process'[p].orders = process[p].orders /\ process'[p].alive = process[p].alive
               /\ process'[p].options = process[p].options
               /\ process'[p].reading = process[p].reading
               /\ process'[p].pipe = Writes(p, kind) /\ process'[p].search = 0
    BY <2>2, <1>a DEF Processes
  <2> QED
    BY <1>2, <2>1, <2>2 DEF SearchPrints
<1>3. Dies(p) => process'[p].reading = process[p].reading
  BY <1>a DEF Dies, Ended, Processes
<1>4. ASSUME Read(p)
      PROVE  /\ process'[p].orders = process[p].orders /\ process'[p].alive = process[p].alive
             /\ process'[p].options = process[p].options
             /\ process'[p].search = process[p].search
             /\ process'[p].pipe = Tail(process[p].pipe)
  <2>1. CASE process' = [process EXCEPT ![p].pipe = Tail(@)]
    BY <2>1, <1>a DEF Processes
  <2>2. CASE process' = [process EXCEPT ![p].pipe = Tail(@), ![p].reading = FALSE]
    BY <2>2, <1>a DEF Processes
  <2> QED
    BY <1>4, <2>1, <2>2 DEF Read, Refuse
<1>5. ASSUME ReadsEnd(p)
      PROVE  /\ process'[p].orders = process[p].orders /\ process'[p].alive = process[p].alive
             /\ process'[p].options = process[p].options
             /\ process'[p].search = process[p].search
  BY <1>5, <1>a DEF ReadsEnd, Processes
<1> QED
  BY <1>0, <1>1, <1>2, <1>3, <1>4, <1>5

\* A process that carries out its order, or prints, or dies, keeps to the dialogue.
LEMMA OutsideInStep ==
  ASSUME EngineInv, AnswerInv, NEW p \in 1..Len(process), Obey(p) \/ SearchPrints(p) \/ Dies(p)
  PROVE  InStep' /\ OneReader'
<1>a. /\ InStep /\ OneReader /\ process \in Seq(Processes) /\ proc \in 0..Len(process)
      /\ process[p] \in Processes /\ process[p].pipe \in Seq(Lines)
      /\ process[p].orders \in Seq(Orders)
  <2>1. process[p] \in Processes
    BY DEF EngineInv, ProcessInv
  <2> QED
    BY <2>1 DEF AnswerInv, EngineInv, ProcessInv, Processes
<1>b. UNCHANGED <<stage, request, proc, q>>
  BY DEF Obey, SearchPrints, Dies
<1>c. /\ Len(process') = Len(process)
      /\ \A o \in 1..Len(process) : o # p => process'[o] = process[o]
  BY <1>a DEF Obey, SearchPrints, Dies
<1>d. /\ process'[p].reading = process[p].reading
      /\ \A o \in 1..Len(process) : process'[o].beset = process[o].beset
  BY <1>a, <1>c, OutsideEffect
<1>e. Alone' = Alone
  BY <1>a, <1>b, <1>c, <1>d DEF Alone
<1>1. OneReader'
  BY <1>a, <1>b, <1>c, <1>d, <1>e DEF OneReader
<1>2. CASE proc # p \/ ~Alone
  <2>1. Alone => process'[proc] = process[proc]
    BY <1>a, <1>c, <1>2 DEF Alone
  <2> QED
    BY <1>1, <1>a, <1>b, <1>e, <2>1 DEF InStep, Expected, Obeys, Asked, FinalIsLast
<1>3. CASE proc = p /\ Alone
  <2> DEFINE r == process[p]
             t == process'[p]
  <2>a. /\ \A i \in 1..Len(q) : Expected(q[i])
        /\ \A i \in 1..Len(r.pipe) : Expected(r.pipe[i])
        /\ Obeys(r) /\ FinalIsLast(r)
    BY <1>a, <1>3 DEF InStep
  <2>b. \A l : Expected(l)' <=> Expected(l)
    BY <1>b DEF Expected
  <2>c. SUFFICES /\ \A i \in 1..Len(t.pipe) : Expected(t.pipe[i])
                 /\ Obeys(r)' /\ FinalIsLast(r)'
    BY <1>1, <1>3, <1>b, <1>e, <2>a, <2>b DEF InStep
  <2>1. CASE Dies(p)
    <3>1. t = Ended(r)
      BY <1>a, <2>1 DEF Dies
    <3>2. /\ t.pipe = r.pipe /\ ~t.alive /\ t.orders = <<>> /\ t.search = 0
      BY <1>a, <3>1 DEF Ended, Processes
    <3> QED
      BY <1>b, <2>a, <3>2 DEF Obeys, FinalIsLast
  <2>2. CASE Obey(p)
    <3>0. PICK order \in Orders : r.orders = <<order>> /\ Asked(order)
      BY <2>2, <2>a DEF Obey, Obeys
    <3>1. /\ r.alive /\ r.search = 0 /\ Head(r.orders) = order
          /\ \A i \in 1..Len(q) : q[i].kind \notin Final
          /\ \A i \in 1..Len(r.pipe) : r.pipe[i].kind \notin Final
      BY <2>2, <2>a, <3>0 DEF Obey, Obeys, FinalIsLast
    <3>2. /\ t.orders = <<>> /\ t.alive = r.alive
          /\ t.options = IF order.does = "configure" THEN order.for ELSE r.options
          /\ t.search = IF order.does = "go" THEN order.for ELSE r.search
      <4> DEFINE next == [r EXCEPT
                     !.orders = Tail(@),
                     !.options = IF Head(r.orders).does = "configure" THEN Head(r.orders).for ELSE @,
                     !.search = IF Head(r.orders).does = "go" THEN Head(r.orders).for ELSE @,
                     !.pipe = CASE Head(r.orders).does = "go"  -> @
                                [] Head(r.orders).does = "uci" -> Writes(p, "uciok")
                                [] OTHER                       -> Writes(p, "readyok")]
      <4>1. process' = [process EXCEPT ![p] = next]
        BY <1>a, <2>2 DEF Obey, Processes
      <4>2. t = next
        <5> HIDE DEF next
        <5> QED
          BY <1>a, <4>1
      <4>3. Tail(r.orders) = <<>>
        BY <3>0
      <4> QED
        BY <1>a, <3>1, <4>2, <4>3 DEF Processes
    <3>3. /\ order.does = "go" => t.pipe = r.pipe
          /\ order.does = "uci" => t.pipe = Writes(p, "uciok")
          /\ order.does \notin {"go", "uci"} => t.pipe = Writes(p, "readyok")
      BY <1>a, <2>2, <3>1, OutsideEffect
    <3>4. CASE stage = "searching"
      <4>1. order.does = "go" /\ order.for = request /\ r.options = request
        BY <2>a, <3>0, <3>1, <3>4 DEF Obeys, Asked
      <4> QED
        BY <1>b, <2>a, <3>1, <3>2, <3>3, <3>4, <4>1 DEF Obeys, FinalIsLast
    <3>5. CASE stage \in {"greeting", "starting", "configuring"}
      <4> DEFINE said == IF stage = "greeting" THEN "uciok" ELSE "readyok"
      <4>1. /\ order.does # "go" /\ (order.does = "uci" <=> stage = "greeting")
            /\ stage = "configuring" => order.does = "configure" /\ order.for = request
        BY <3>0, <3>5 DEF Asked
      <4>2. t.pipe = Append(r.pipe, Says(p, said))
        BY <3>3, <3>5, <4>1 DEF Writes
      <4>3. Says(p, said) \in Lines /\ Says(p, said).kind = said
        BY <1>a, <3>5 DEF Says, Lines, Processes
      <4>4. /\ Len(t.pipe) = Len(r.pipe) + 1 /\ t.pipe[Len(r.pipe) + 1] = Says(p, said)
            /\ \A i \in 1..Len(r.pipe) : t.pipe[i] = r.pipe[i]
            /\ Len(r.pipe) \in Nat
        BY <1>a, <4>2, <4>3, PipeGrows
      <4>5. Expected(Says(p, said))
        BY <3>5, <4>3 DEF Expected, Waiting
      <4>6. \A i \in 1..Len(t.pipe) : Expected(t.pipe[i])
        <5> TAKE i \in 1..Len(t.pipe)
        <5>1. i \in 1..Len(r.pipe) \/ i = Len(r.pipe) + 1
          BY <4>4
        <5> QED
          BY <2>a, <4>4, <4>5, <5>1
      <4>7. FinalIsLast(r)'
        <5>1. t.orders = <<>> /\ t.search = 0
          BY <3>1, <3>2, <4>1
        <5>2. \A i \in 1..Len(q') : q'[i].kind \notin Final
          BY <1>b, <3>1
        <5>3. \A i \in 1..Len(t.pipe) : t.pipe[i].kind \in Final => i = Len(t.pipe)
          <6> TAKE i \in 1..Len(t.pipe)
          <6>1. i \in 1..Len(r.pipe) \/ i = Len(r.pipe) + 1
            BY <4>4
          <6> QED
            BY <3>1, <4>4, <6>1
        <5> QED
          BY <5>1, <5>2, <5>3 DEF FinalIsLast
      <4>8. Obeys(r)'
        BY <1>b, <3>1, <3>2, <3>5, <4>1 DEF Obeys
      <4> QED
        BY <4>6, <4>7, <4>8
    <3> QED
      BY <3>0, <3>4, <3>5 DEF Asked
  <2>3. CASE SearchPrints(p)
    <3>1. /\ r.alive /\ r.search # 0 /\ r.orders = <<>>
          /\ stage = "searching" /\ r.search = request /\ r.options = request
          /\ \A i \in 1..Len(q) : q[i].kind \notin Final
          /\ \A i \in 1..Len(r.pipe) : r.pipe[i].kind \notin Final
      BY <2>3, <2>a DEF SearchPrints, Obeys, FinalIsLast
    <3>2. PICK kind \in {"info", "bestmove", "garbage"} :
             /\ t.pipe = Writes(p, kind) /\ t.orders = r.orders /\ t.alive = r.alive
             /\ t.options = r.options
             /\ t.search = IF kind = "info" THEN r.search ELSE 0
      BY <1>a, <2>3, OutsideEffect
    <3>3. /\ Says(p, kind) \in Lines /\ Says(p, kind).kind = kind
          /\ Says(p, kind).of = request /\ Says(p, kind).options = request
      BY <1>a, <3>1 DEF Says, Lines, Processes
    <3>4. /\ Len(t.pipe) = Len(r.pipe) + 1 /\ t.pipe[Len(r.pipe) + 1] = Says(p, kind)
          /\ \A i \in 1..Len(r.pipe) : t.pipe[i] = r.pipe[i]
          /\ Len(r.pipe) \in Nat
      BY <1>a, <3>2, <3>3, PipeGrows DEF Writes
    <3>5. \A i \in 1..Len(t.pipe) : Expected(t.pipe[i])
      <4>1. Expected(Says(p, kind))
        BY <3>1, <3>3 DEF Expected, Waiting
      <4> TAKE i \in 1..Len(t.pipe)
      <4>2. i \in 1..Len(r.pipe) \/ i = Len(r.pipe) + 1
        BY <3>4
      <4> QED
        BY <2>a, <3>4, <4>1, <4>2
    <3>6. FinalIsLast(r)'
      BY <1>b, <3>1, <3>2, <3>3, <3>4 DEF FinalIsLast, Final
    <3>7. Obeys(r)'
      BY <1>b, <3>1, <3>2 DEF Obeys
    <3> QED
      BY <3>5, <3>6, <3>7
  <2> QED
    BY <2>1, <2>2, <2>3
<1> QED
  BY <1>2, <1>3

\* The reader moves a line from the pipe to the queue, or drops it and stops: nothing
\* else gets in between, since no reader but the current one is left.
LEMMA ReadsInStep ==
  ASSUME EngineInv, AnswerInv, NEW p \in 1..Len(process), Read(p) \/ ReadsEnd(p)
  PROVE  InStep' /\ OneReader'
<1>a. /\ InStep /\ OneReader /\ process \in Seq(Processes) /\ proc \in 0..Len(process)
      /\ process[p] \in Processes /\ process[p].pipe \in Seq(Lines) /\ q \in Seq(Lines)
  <2>1. process[p] \in Processes
    BY DEF EngineInv, ProcessInv
  <2> QED
    BY <2>1 DEF AnswerInv, EngineInv, ProcessInv, RequestInv, Processes, OnlyCurrent
<1>b. UNCHANGED <<stage, request, proc>>
  BY DEF Read, ReadsEnd
<1>c. /\ Len(process') = Len(process) /\ process[p].reading
      /\ \A o \in 1..Len(process) : o # p => process'[o] = process[o]
  BY <1>a DEF Read, ReadsEnd, Refuse
<1>d. \A o \in 1..Len(process) : process'[o].beset = process[o].beset
  BY <1>a, <1>c, OutsideEffect
<1>e. Alone' = Alone
  BY <1>a, <1>b, <1>c, <1>d DEF Alone
<1>1. OneReader'
  BY <1>a, <1>b, <1>c, <1>e DEF OneReader
<1>2. CASE ~Alone
  BY <1>e, <1>1, <1>2 DEF InStep
<1>3. CASE Alone
  <2>1. proc = p
    BY <1>3, <1>a, <1>c DEF OneReader
  <2> DEFINE r == process[p]
             t == process'[p]
  <2>a. /\ \A i \in 1..Len(q) : Expected(q[i])
        /\ \A i \in 1..Len(r.pipe) : Expected(r.pipe[i])
        /\ Obeys(r) /\ FinalIsLast(r)
    BY <1>a, <1>3, <2>1 DEF InStep
  <2>b. \A l : Expected(l)' <=> Expected(l)
    BY <1>b DEF Expected
  <2>c. t.orders = r.orders /\ t.search = r.search /\ t.alive = r.alive /\ t.options = r.options
    BY <1>a, OutsideEffect
  <2>d. Obeys(r)'
    BY <1>b, <2>a, <2>c DEF Obeys, Asked
  <2>e. SUFFICES /\ \A i \in 1..Len(q') : Expected(q'[i])
                 /\ \A i \in 1..Len(t.pipe) : Expected(t.pipe[i])
                 /\ FinalIsLast(r)'
    BY <1>1, <1>3, <1>b, <1>e, <2>1, <2>b, <2>d DEF InStep
  <2>2. CASE ReadsEnd(p)
    <3>1. t.pipe = r.pipe /\ q' = q
      BY <1>a, <2>2 DEF ReadsEnd, Processes
    <3> QED
      BY <2>a, <2>c, <3>1 DEF FinalIsLast
  <2>3. CASE Read(p)
    <3>1. /\ r.pipe # <<>> /\ t.pipe = Tail(r.pipe)
      BY <1>a, <2>3, OutsideEffect DEF Read
    <3>2. /\ Len(r.pipe) \in Nat \ {0} /\ Head(r.pipe) = r.pipe[1] /\ r.pipe[1] \in Lines
          /\ Len(t.pipe) = Len(r.pipe) - 1
          /\ \A i \in 1..Len(t.pipe) : t.pipe[i] = r.pipe[i + 1] /\ i + 1 \in 1..Len(r.pipe)
      BY <1>a, <3>1
    <3>3. \A i \in 1..Len(t.pipe) : Expected(t.pipe[i])
      BY <2>a, <3>2
    <3>4. \A i \in 1..Len(q) : q[i].kind \notin Final
      BY <2>a, <3>1 DEF FinalIsLast
    <3>5. \A i \in 1..Len(t.pipe) : t.pipe[i].kind \in Final =>
              i = Len(t.pipe) /\ t.orders = <<>> /\ t.search = 0
      <4> TAKE i \in 1..Len(t.pipe)
      <4> HAVE t.pipe[i].kind \in Final
      <4>1. i + 1 = Len(r.pipe) /\ r.orders = <<>> /\ r.search = 0
        BY <2>a, <3>2 DEF FinalIsLast
      <4> QED
        BY <2>c, <3>2, <4>1
    <3>6. CASE q' = q
      BY <2>a, <3>3, <3>4, <3>5, <3>6 DEF FinalIsLast
    <3>7. CASE q' = Append(q, r.pipe[1])
      <4>1. /\ Len(q') = Len(q) + 1 /\ q'[Len(q) + 1] = r.pipe[1] /\ Len(q) \in Nat
            /\ \A i \in 1..Len(q) : q'[i] = q[i]
        BY <1>a, <3>2, <3>7, PipeGrows
      <4>2. 1 \in 1..Len(r.pipe)
        BY <3>2
      <4>3. r.pipe[1].kind \in Final => Len(r.pipe) = 1 /\ r.orders = <<>> /\ r.search = 0
        BY <2>a, <4>2 DEF FinalIsLast
      <4>4. Len(r.pipe) = 1 => t.pipe = <<>>
        <5>1. t.pipe \in Seq(Lines)
          BY <1>a, <3>1
        <5> QED
          BY <3>2, <5>1
      <4>5. \A i \in 1..Len(q') : Expected(q'[i])
        BY <2>a, <4>1, <4>2
      <4>6. \A i \in 1..Len(q') : q'[i].kind \in Final =>
                i = Len(q') /\ t.pipe = <<>> /\ t.orders = <<>> /\ t.search = 0
        BY <2>c, <3>4, <4>1, <4>3, <4>4
      <4> QED
        BY <3>3, <3>5, <4>5, <4>6 DEF FinalIsLast
    <3> QED
      BY <2>3, <3>2, <3>6, <3>7 DEF Read
  <2> QED
    BY <2>2, <2>3
<1> QED
  BY <1>2, <1>3

\* None of them changes how the current process was started.
LEMMA OutsideAlone ==
  ASSUME EngineInv, NEW p \in 1..Len(process),
         Obey(p) \/ SearchPrints(p) \/ Dies(p) \/ Read(p) \/ ReadsEnd(p)
  PROVE  Alone' = Alone
<1>a. process \in Seq(Processes) /\ proc \in 0..Len(process)
  BY DEF EngineInv, ProcessInv
<1>1. proc' = proc
  BY DEF Obey, SearchPrints, Dies, Read, ReadsEnd
<1>2. \A o \in 1..Len(process) : o # p => process'[o] = process[o]
  BY <1>a DEF Obey, SearchPrints, Dies, Read, Refuse, ReadsEnd
<1>3. process'[p].beset = process[p].beset
  BY <1>a, OutsideEffect
<1> QED
  BY <1>a, <1>1, <1>2, <1>3 DEF Alone

-----------------------------------------------------------------------------
(* The clients, the end of a call, and the shutdown *)

\* Who calls nobody leaves the dialogue alone; a new request starts with no lines.
LEMMA ClientsInStep ==
  ASSUME EngineInv, AnswerInv, EngineAlone,
         \/ UNCHANGED vars \/ CloseAnalysis \/ ClosePlay \/ AskAnalysis
         \/ \E p \in Players : AskMove(p) \/ TakeProvider(p)
         \/ \E c \in Clients : Return(c)
  PROVE  AnswerInv'
<1>a. OneReader /\ InStep /\ Inside /\ HeardInStep
  BY DEF AnswerInv
<1>b. UNCHANGED <<lock, stage, request, heard, proc, reader, q, closed, process>>
  BY DEF EngineAlone, evars
<1>c. OneReader' /\ InStep' /\ HeardInStep'
  BY <1>a, <1>b DEF OneReader, InStep, Alone, Expected, Obeys, Asked, FinalIsLast, HeardInStep,
                    OwnLine
<1>d. /\ at \in [Clients -> {"idle", "begun", "calling", "inside", "returned"}]
      /\ answer \in [Clients -> [to : Nat, lines : SUBSET HeardLines]]
  BY <1>a DEF Inside, EngineInv, ClientTypes
<1>1. CASE UNCHANGED <<at, answer>>
  BY <1>a, <1>b, <1>c, <1>1 DEF Inside, AnswerInv
<1>2. ASSUME NEW c \in Clients, at[c] = "idle", NEW where \in {"begun", "calling"},
             at' = [at EXCEPT ![c] = where],
             answer' = [answer EXCEPT ![c] = [to |-> requests', lines |-> {}]]
      PROVE  AnswerInv'
  <2>1. c # lock
    BY <1>a, <1>2 DEF Inside
  <2>2. \A d \in Clients : /\ d # c => answer'[d] = answer[d] /\ at'[d] = at[d]
                           /\ d = c => answer'[d].lines = {} /\ at'[d] = where
    BY <1>d, <1>2
  <2>3. Inside'
    BY <1>a, <1>b, <1>d, <1>2, <2>1, <2>2 DEF Inside
  <2> QED
    BY <1>c, <2>3 DEF AnswerInv
<1>3. ASSUME NEW c \in Clients, NEW where \in {"idle", "calling"},
             at[c] \in {"begun", "returned"}, at[c] = "returned" => where = "idle",
             at' = [at EXCEPT ![c] = where],
             answer' = answer \/ answer' = [answer EXCEPT ![c] = NoAnswer]
      PROVE  AnswerInv'
  <2>1. c # lock
    BY <1>a, <1>3 DEF Inside
  <2>2. \A d \in Clients : /\ d # c => answer'[d] = answer[d] /\ at'[d] = at[d]
                           /\ d = c => at'[d] = where /\ (answer'[d] = answer[d] \/ answer'[d].lines = {})
    BY <1>d, <1>3 DEF NoAnswer
  <2>3. Inside'
    BY <1>a, <1>b, <1>d, <1>3, <2>1, <2>2 DEF Inside
  <2> QED
    BY <1>c, <2>3 DEF AnswerInv
<1>4. CASE AskAnalysis \/ \E p \in Players : AskMove(p)
  BY <1>2, <1>4, SharedAssumption DEF AskAnalysis, AskMove, Moves
<1>5. CASE \E p \in Players : TakeProvider(p)
  BY <1>3, <1>5, SharedAssumption DEF TakeProvider, Moves
<1>6. CASE \E c \in Clients : Return(c)
  <2>1. PICK c \in Clients : Return(c)
    BY <1>6
  <2>2. answer' = answer \/ answer' = [answer EXCEPT ![c] = NoAnswer]
    BY <2>1 DEF Return
  <2> QED
    BY <1>3, <2>1, <2>2 DEF Return, Moves
<1> QED
  BY <1>1, <1>4, <1>5, <1>6 DEF CloseAnalysis, ClosePlay, vars, pvars

\* A call begins with a free adapter that has nothing to say.
LEMMA CallInStep ==
  ASSUME EngineInv, AnswerInv, NEW c \in Clients, Call(c)
  PROVE  AnswerInv'
<1>a. OneReader /\ InStep /\ Inside /\ HeardInStep
  BY DEF AnswerInv
<1>b. /\ lock = NoClient /\ stage = "free" /\ lock' = c /\ stage' = "start"
      /\ request' = answer[c].to /\ heard' = {} /\ at[c] = "calling"
      /\ UNCHANGED <<proc, reader, q, closed, process, answer>>
      /\ at' = [at EXCEPT ![c] = "inside"]
  BY <1>a DEF Call, Enter, Moves, Inside
<1>1. OneReader' /\ HeardInStep'
  BY <1>a, <1>b DEF OneReader, HeardInStep, Alone
<1>2. InStep'
  BY <1>a, <1>b DEF InStep, Alone, Expected, Obeys, Asked, FinalIsLast, Waiting
<1>3. Inside'
  BY <1>a, <1>b, EngineAssumption DEF Inside
<1> QED
  BY <1>1, <1>2, <1>3 DEF AnswerInv

\* The call that returns with an answer leaves a process that has nothing more to say.
LEMMA AnsweredInStep ==
  ASSUME EngineInv, AnswerInv, Answered
  PROVE  AnswerInv'
<1>a. OneReader /\ InStep /\ Inside /\ HeardInStep
  BY DEF AnswerInv
<1>b. /\ stage = "searching" /\ q # <<>> /\ Head(q).kind = "bestmove"
      /\ lock # NoClient /\ lock \in Clients
  BY <1>a DEF Answered, BestMove, AtHead, Inside
<1>c. /\ lock' = NoClient /\ stage' = "free" /\ heard' = {} /\ q' = Tail(q)
      /\ UNCHANGED <<proc, reader, closed, process>>
      /\ answer' = [answer EXCEPT ![lock].lines = heard \cup {Line}]
      /\ at' = [at EXCEPT ![lock] = "returned"]
  BY DEF Answered, BestMove, Leave, Moves
<1>d. /\ answer \in [Clients -> [to : Nat, lines : SUBSET HeardLines]]
      /\ at \in [Clients -> {"idle", "begun", "calling", "inside", "returned"}]
  BY <1>a DEF EngineInv, ClientTypes, Inside
<1>1. OneReader' /\ HeardInStep'
  BY <1>a, <1>c DEF OneReader, HeardInStep, Alone
<1>2. InStep'
  <2>1. Alone => /\ q' = <<>> /\ process[proc].pipe = <<>> /\ process[proc].orders = <<>>
                 /\ process[proc].search = 0
    BY <1>a, <1>b, <1>c, HeadIsRead DEF Final
  <2> QED
    BY <1>c, <2>1 DEF InStep, Alone, Obeys, FinalIsLast
<1>3. \A d \in Clients : /\ d # lock => answer'[d] = answer[d] /\ at'[d] = at[d]
                         /\ d = lock => at'[d] = "returned"
  BY <1>b, <1>c, <1>d
<1>4. Inside'
  BY <1>a, <1>b, <1>c, <1>d, <1>3, EngineAssumption DEF Inside
<1> QED
  BY <1>1, <1>2, <1>4 DEF AnswerInv

\* A call that fails leaves no process behind, or one that has nothing to say.
LEMMA FailedInStep ==
  ASSUME EngineInv, AnswerInv, Failed
  PROVE  AnswerInv'
<1>a. OneReader /\ InStep /\ Inside /\ HeardInStep
  BY DEF AnswerInv
<1>b. /\ lock' = NoClient /\ stage' = "free" /\ heard' = {} /\ UNCHANGED answer
      /\ at' = [at EXCEPT ![lock] = "returned"]
  BY DEF Failed, CannotStart, RaiseFailure, Leave, Moves
<1>c. lock \in Clients
  BY <1>a DEF Failed, CannotStart, RaiseFailure, Inside
<1>1. Inside' /\ HeardInStep'
  BY <1>a, <1>b, <1>c, EngineAssumption DEF Inside, HeardInStep
<1>2. proc' = 0
  <2>1. CASE CannotStart
    BY <2>1 DEF CannotStart, EngineInv, ProcessInv, OnlyCurrent
  <2>2. CASE RaiseFailure
    BY <1>a, <2>2 DEF RaiseFailure, OneReader
  <2> QED
    BY <2>1, <2>2 DEF Failed
<1> QED
  BY <1>1, <1>2 DEF AnswerInv, OneReader, InStep, Alone

\* A closed adapter has no process.
LEMMA ClosingInStep ==
  ASSUME EngineInv, AnswerInv, CloseRuntime
  PROVE  AnswerInv'
<1>a. OneReader /\ InStep /\ Inside /\ HeardInStep
  BY DEF AnswerInv
<1>b. /\ lock = NoClient /\ stage = "free"
      /\ UNCHANGED <<lock, stage, request, heard, q, at, answer>>
  BY <1>a DEF CloseRuntime, CloseAdapter, Inside
<1>1. Inside'
  BY <1>a, <1>b DEF Inside
<1>2. proc' = 0
  BY DEF CloseRuntime, CloseAdapter, CloseEnds, EngineInv, ProcessInv, OnlyCurrent
<1> QED
  BY <1>a, <1>b, <1>1, <1>2 DEF AnswerInv, OneReader, InStep, HeardInStep, Alone

\* Every step keeps the dialogue in step.
LEMMA AnswerStep ==
  ASSUME EngineInv, AnswerInv, [Next]_vars
  PROVE  AnswerInv'
<1>1. CASE \/ UNCHANGED vars \/ CloseAnalysis \/ ClosePlay \/ AskAnalysis
           \/ \E p \in Players : AskMove(p) \/ TakeProvider(p)
           \/ \E c \in Clients : Return(c)
  <2>1. EngineAlone
    BY <1>1 DEF vars, AskMove, TakeProvider, AskAnalysis, Return, CloseAnalysis, ClosePlay,
                EngineAlone
  <2> QED
    BY <1>1, <2>1, ClientsInStep
<1>2. CASE \E c \in Clients : Call(c)
  BY <1>2, CallInStep
<1>3. CASE Transact
  BY <1>3, TransactionInside, TransactionReader, TransactionInStep
  DEF Transact, Transaction, AnswerInv
<1>4. CASE Answered \/ Failed
  BY <1>4, AnsweredInStep, FailedInStep
<1>5. ASSUME NEW p \in 1..Len(process), UNCHANGED pvars,
             Obey(p) \/ SearchPrints(p) \/ Dies(p) \/ Read(p) \/ ReadsEnd(p)
      PROVE  AnswerInv'
  <2>1. InStep' /\ OneReader'
    BY <1>5, OutsideInStep, ReadsInStep
  <2>2. UNCHANGED <<at, answer, lock, stage, request, heard>>
    BY <1>5, Zenon DEF pvars, Obey, SearchPrints, Dies, Read, ReadsEnd
  <2>3. Alone' = Alone
    BY <1>5, OutsideAlone
  <2> QED
    BY <2>1, <2>2, <2>3 DEF AnswerInv, Inside, HeardInStep, OwnLine
<1>6. CASE CloseRuntime
  BY <1>6, ClosingInStep
<1> QED
  BY <1>1, <1>2, <1>3, <1>4, <1>5, <1>6 DEF Next, Holder, Closing, Outside, Reads

\* What is added to an answer is what the search for this request has printed, if the
\* process that searched was started alone.
LEMMA AnswerStepLines ==
  ASSUME EngineInv, AnswerInv, Next, NEW c \in Clients,
         NEW l \in answer'[c].lines \ answer[c].lines, ~process[proc].beset
  PROVE  l.of = answer[c].to /\ l.options = answer[c].to
<1>a. answer \in [Clients -> [to : Nat, lines : SUBSET HeardLines]]
  BY DEF EngineInv, ClientTypes
<1>1. CASE Answered
  <2>1. /\ stage = "searching" /\ q # <<>> /\ lock \in Clients /\ proc # 0
        /\ answer' = [answer EXCEPT ![lock].lines = heard \cup {Line}]
        /\ answer[lock].to = request
    BY <1>1 DEF Answered, BestMove, AtHead, AnswerInv, Inside, EngineInv, RequestInv, AtWork,
                Waiting
  <2>2. c = lock /\ l \in heard \cup {Line}
    BY <1>a, <2>1
  <2>3. Alone
    BY <2>1 DEF Alone
  <2>4. Expected(Head(q))
    BY <2>1, <2>3, HeadIsRead DEF AnswerInv
  <2> QED
    BY <2>1, <2>2, <2>3, <2>4 DEF AnswerInv, HeardInStep, OwnLine, Line, Expected
<1>2. CASE ~Answered
  <2>1. CASE \E p \in Players : AskMove(p)
    BY <1>a, <2>1, SharedAssumption DEF AskMove
  <2>2. CASE AskAnalysis
    BY <1>a, <2>2, SharedAssumption DEF AskAnalysis
  <2>3. CASE \E d \in Clients : Return(d)
    BY <1>a, <2>3 DEF Return, NoAnswer
  <2>4. CASE UNCHANGED answer
    BY <2>4
  <2> QED
    BY <1>2, <2>1, <2>2, <2>3, <2>4
    DEF Next, TakeProvider, Call, Holder, Transact, Failed, Outside, Reads, CloseAnalysis,
        Closing, ClosePlay, CloseRuntime, pvars
<1> QED
  BY <1>1, <1>2

\* Every answer holds only lines of the search for its own request, with the options
\* of its own request, whatever failed, died, hung or babbled before, unless a reader
\* that had outlived its join was still running when the process was started
\* (engine.py: start, analyze, best_move, _discard_process).
THEOREM EngineAnswersItsRequest == Spec => AnswersItsRequest
<1> DEFINE Own == \A c \in Clients : \A l \in answer'[c].lines \ answer[c].lines :
                    (l.of = answer[c].to /\ l.options = answer[c].to) \/ process[proc].beset
<1>1. Init => EngineInv /\ AnswerInv
  BY EngineStarts, AnswersStart
<1>2. EngineInv /\ AnswerInv /\ [Next]_vars => EngineInv' /\ AnswerInv'
  BY EngineStep, AnswerStep
<1>3. EngineInv /\ AnswerInv /\ [Next]_vars => [Own]_vars
  BY AnswerStepLines
<1> QED
  BY <1>1, <1>2, <1>3, PTL DEF Spec, AnswersItsRequest

=============================================================================
