--------------------------- MODULE EngineGameProofs ---------------------------
(* Proofs about EngineGame.  The first part is about both hosts: any number of *)
(* callers, overlapping or not, and any behaviour of the engine and of the     *)
(* commit hook.  The second part is about the host that serialises the calls:  *)
(* GameInv says what is true of the game between any two steps, every handler  *)
(* and every reply has a lemma that it leaves it so, and Settles is what those *)
(* that end with an answer have in common.                                     *)
EXTENDS EngineGame, SequenceTheorems, TLAPS

(* What the steps preserve about the boards and the callers. *)
BoardsOK == boards \in Seq(Position) /\ boards # <<>>
CallsOK  == call = [c \in Callers |-> call[c]]

\* There is a board, and it shows a position.
LEMMA LiveType ==
    ASSUME BoardsOK
    PROVE  /\ Len(boards) \in DOMAIN boards /\ Len(boards) \in Nat
           /\ Live \in Position /\ Live = boards[Len(boards)]
<1>1. Len(boards) \in Nat /\ Len(boards) # 0 /\ DOMAIN boards = 1..Len(boards)
  BY EmptySeq, LenProperties DEF BoardsOK
<1>2. Len(boards) \in 1..Len(boards)
  BY <1>1
<1> QED
  BY <1>1, <1>2, ElementOfSeq DEF BoardsOK, Live, Last

\* A position without its last move is a position.
LEMMA FrontType ==
    ASSUME NEW p \in Position
    PROVE  /\ Front(p) \in Position
           /\ p # <<>> => Len(Front(p)) = Len(p) - 1
<1>1. Len(p) \in Nat /\ (p # <<>> => Len(p) # 0)
  BY EmptySeq, LenProperties DEF Position
<1>2. CASE p = <<>>
  BY <1>2 DEF Position, Front
<1>3. CASE p # <<>>
  <2>1. /\ 1 \in 1..(Len(p) + 1) /\ Len(p) - 1 \in (1 - 1)..Len(p)
        /\ Len(p) - 1 - 1 + 1 = Len(p) - 1
    BY <1>1, <1>3
  <2> QED
    BY <1>1, <1>3, <2>1, SubSeqProperties DEF Position, Front
<1> QED
  BY <1>2, <1>3

\* A position with one more move is a position.
LEMMA PlayedType ==
    ASSUME NEW p \in Position, NEW m \in AnyMove
    PROVE  Append(p, m) \in Position
BY AppendProperties DEF Position

\* What a takeback returns to is a position.
LEMMA TakebackType ==
    ASSUME BoardsOK
    PROVE  TakebackTo \in Position
BY LiveType, FrontType DEF TakebackTo

(* Setting the live board keeps the boards in order. *)
LEMMA BoardBecomesKeeps ==
    ASSUME BoardsOK, NEW p \in Position, BoardBecomes(p)
    PROVE  BoardsOK' /\ Len(boards') = Len(boards) /\ Last(boards') = p
<1>1. boards' \in Seq(Position) /\ Len(boards') = Len(boards)
  BY LiveType, ExceptSeq DEF BoardsOK, BoardBecomes
<1>2. boards'[Len(boards)] = p
  BY LiveType DEF BoardsOK, BoardBecomes
<1>3. boards' # <<>>
  BY <1>1, EmptySeq, LiveType DEF BoardsOK
<1> QED
  BY <1>1, <1>2, <1>3 DEF BoardsOK, Last

\* A new board keeps the boards in order.
LEMMA NewBoardKeeps ==
    ASSUME BoardsOK, boards' = Append(boards, <<>>)
    PROVE  BoardsOK'
<1>1. <<>> \in Position
  BY DEF Position
<1> QED
  BY <1>1, AppendProperties, EmptySeq DEF BoardsOK

-----------------------------------------------------------------------------
(* How each kind of step leaves the boards. *)

BoardStep ==
    \/ boards' = boards
    \/ \E p \in Position : BoardBecomes(p)
    \/ boards' = Append(boards, <<>>)

\* So does every change of a board.
LEMMA BoardStepKeeps ==
    ASSUME BoardsOK, BoardStep
    PROVE  BoardsOK'
BY BoardBecomesKeeps, NewBoardKeeps DEF BoardStep, BoardsOK

\* What a call of the user does to the boards.
LEMMA UserBoardStep ==
    ASSUME BoardsOK, NEW c \in Callers, UserCalls(c)
    PROVE  BoardStep
<1>1. CASE GetState(c) \/ NoMove(c) \/ Review(c) \/ StopEngineGame(c) \/ ResignEngineGame(c)
           \/ HumanMoveTooLate(c) \/ RetryEngineMove(c)
  BY <1>1 DEF GetState, NoMove, Review, StopEngineGame, ResignEngineGame, HumanMoveTooLate,
              RetryEngineMove, game, BoardStep
<1>2. CASE NewGame(c)
  BY <1>2 DEF NewGame, BoardStep
<1>3. CASE PlainUndo(c)
  <2>1. UNCHANGED game \/ GameBecomes(Front(Live))
    BY <1>3 DEF PlainUndo
  <2> QED
    BY <2>1, LiveType, FrontType DEF game, GameBecomes, BoardStep
<1>4. CASE TakebackAccepted(c)
  BY <1>4, TakebackType DEF TakebackAccepted, GameBecomes, BoardStep
<1>5. CASE TakebackFails(c)
  <2>1. UNCHANGED game \/ GameBecomes(TakebackTo)
    BY <1>5 DEF TakebackFails
  <2> QED
    BY <2>1, TakebackType DEF game, GameBecomes, BoardStep
<1>6. ASSUME NEW m \in AnyMove, PlainMove(c, m) \/ HumanMoveAccepted(c, m)
      PROVE  BoardStep
  <2>1. PlayMove(m)
    BY <1>6 DEF PlainMove, HumanMoveAccepted
  <2> QED
    BY <2>1, LiveType, PlayedType DEF PlayMove, BoardStep
<1>7. ASSUME NEW engine \in Sides, NEW timed \in BOOLEAN, StartEngineGame(c, engine, timed)
      PROVE  BoardStep
  BY <1>7 DEF StartEngineGame, BoardStep
<1> QED
  BY <1>1, <1>2, <1>3, <1>4, <1>5, <1>6, <1>7 DEF UserCalls

(* A reply either fails, and then the live board is what it found there or one
   move less, or it is admitted and played. *)
Failed(p) == BoardBecomes(p) \/ BoardBecomes(Front(p))

\* A reply that raises takes its own move back.
LEMMA RaisedReplies ==
    ASSUME NEW c, NEW s, NEW p, NEW h, ReplyRaises(c, s, p, h)
    PROVE  Failed(p)
BY DEF ReplyRaises, Failed

\* All a reply can do: nothing, its move and back, or its move.
LEMMA ReplyCases ==
    ASSUME NEW c \in Callers, EngineReplies(c)
    PROVE  \/ boards' = boards
           \/ Failed(Live)
           \/ /\ Admitted(c)
              /\ \E m \in AnyMove : Failed(Append(Live, m)) \/ BoardBecomes(Append(Live, m))
<1>1. CASE EngineFails(c)
  BY <1>1, RaisedReplies DEF EngineFails
<1>2. CASE EngineHasNoMove(c)
  BY <1>2 DEF EngineHasNoMove, game
<1>3. CASE EngineMoveNotCommitted(c)
  BY <1>3, RaisedReplies DEF EngineMoveNotCommitted
<1>4. ASSUME NEW m \in AnyMove, EngineMoveHookRaises(c, m)
      PROVE  Admitted(c) /\ Failed(Append(Live, m))
  BY <1>4, RaisedReplies DEF EngineMoveHookRaises
<1>5. ASSUME NEW m \in AnyMove, EngineMoveRejected(c, m)
      PROVE  Admitted(c) /\ Failed(Append(Live, m))
  BY <1>5, RaisedReplies DEF EngineMoveRejected
<1>6. ASSUME NEW m \in AnyMove, EngineMoves(c, m)
      PROVE  Admitted(c) /\ BoardBecomes(Append(Live, m))
  BY <1>6 DEF EngineMoves, PlayMove
<1> QED
  BY <1>1, <1>2, <1>3, <1>4, <1>5, <1>6 DEF EngineReplies

\* A reply, too, is a change of one board.
LEMMA ReplyBoardStep ==
    ASSUME BoardsOK, NEW c \in Callers, EngineReplies(c)
    PROVE  BoardStep
<1>1. ASSUME NEW p \in Position, Failed(p)
      PROVE  BoardStep
  BY <1>1, FrontType DEF Failed, BoardStep
<1>2. \A m \in AnyMove : Append(Live, m) \in Position
  BY LiveType, PlayedType
<1> QED
  BY <1>1, <1>2, LiveType, ReplyCases DEF BoardStep

\* Every step keeps the boards in order.
LEMMA BoardsStayOK ==
    ASSUME BoardsOK, [Next]_vars
    PROVE  BoardsOK'
<1>1. CASE UNCHANGED vars
  BY <1>1 DEF vars, BoardsOK
<1>2. ASSUME NEW c \in Callers, UserCalls(c) \/ EngineReplies(c)
      PROVE  BoardsOK'
  BY <1>2, UserBoardStep, ReplyBoardStep, BoardStepKeeps
<1>3. ASSUME NEW i \in DOMAIN sessions, FlagFalls(i)
      PROVE  BoardsOK'
  BY <1>3 DEF FlagFalls, game, BoardsOK
<1> QED
  BY <1>1, <1>2, <1>3 DEF Next
-----------------------------------------------------------------------------
(* Only the call that waits for a reply can return from it. *)

CallStep(c) ==
    \/ call' = call
    \/ \E r : r.at = "thinking" /\ call' = [call EXCEPT ![c] = r]

\* A call of the user enters and changes its own entry only.
LEMMA UserCallStep ==
    ASSUME NEW c \in Callers, UserCalls(c)
    PROVE  Enter(c) /\ CallStep(c)
<1>1. CASE GetState(c) \/ NoMove(c) \/ Review(c) \/ StopEngineGame(c) \/ ResignEngineGame(c)
           \/ HumanMoveTooLate(c) \/ NewGame(c) \/ PlainUndo(c) \/ TakebackAccepted(c)
           \/ TakebackFails(c)
  BY <1>1 DEF GetState, NoMove, Review, StopEngineGame, ResignEngineGame, HumanMoveTooLate, NewGame,
              PlainUndo, TakebackAccepted, TakebackFails, HumanMove, CallStep
<1>2. \A i, p, h, at, moving : Ask(c, i, p, h, at, moving) => CallStep(c)
  BY DEF Ask, CallStep
<1>3. CASE RetryEngineMove(c)
  BY <1>2, <1>3 DEF RetryEngineMove, CallStep
<1>4. ASSUME NEW m \in AnyMove, PlainMove(c, m)
      PROVE  Enter(c) /\ CallStep(c)
  BY <1>4 DEF PlainMove, CallStep
<1>5. ASSUME NEW m \in AnyMove, HumanMoveAccepted(c, m)
      PROVE  Enter(c) /\ CallStep(c)
  BY <1>2, <1>5 DEF HumanMoveAccepted, HumanMove, CallStep
<1>6. ASSUME NEW engine \in Sides, NEW timed \in BOOLEAN, StartEngineGame(c, engine, timed)
      PROVE  Enter(c) /\ CallStep(c)
  BY <1>2, <1>6 DEF StartEngineGame, CallStep
<1> QED
  BY <1>1, <1>3, <1>4, <1>5, <1>6 DEF UserCalls

\* A reply ends the call that waited for it.
LEMMA ReplyReturns ==
    ASSUME NEW c \in Callers, EngineReplies(c)
    PROVE  call' = [call EXCEPT ![c] = NoCall]
BY DEF EngineReplies, EngineFails, EngineHasNoMove, EngineMoveNotCommitted, EngineMoveHookRaises,
       EngineMoveRejected, EngineMoves, ReplyRaises, Returns

\* Every step keeps the calls in order.
LEMMA CallsStayOK ==
    ASSUME CallsOK, [Next]_vars
    PROVE  CallsOK'
<1>1. CASE UNCHANGED vars
  BY <1>1 DEF vars, CallsOK
<1>2. ASSUME NEW c \in Callers, UserCalls(c) \/ EngineReplies(c)
      PROVE  CallsOK'
  BY <1>2, UserCallStep, ReplyReturns DEF CallStep, CallsOK
<1>3. ASSUME NEW i \in DOMAIN sessions, FlagFalls(i)
      PROVE  CallsOK'
  BY <1>3 DEF FlagFalls, CallsOK
<1> QED
  BY <1>1, <1>2, <1>3 DEF Next

\* A call that was thinking returns by a reply, and by nothing else.
LEMMA OnlyRepliesReturn ==
    ASSUME CallsOK, Next, NEW c \in Callers, Returned(c)
    PROVE  EngineReplies(c)
<1>1. call[c].at = "thinking" /\ call'[c].at = "idle"
  BY DEF Returned, Thinking
<1>2. ASSUME NEW d \in Callers, UserCalls(d)
      PROVE  FALSE
  <2>1. call[d].at = "idle" /\ CallStep(d)
    BY <1>2, UserCallStep DEF Enter
  <2> QED
    BY <1>1, <2>1 DEF CallStep, CallsOK
<1>3. ASSUME NEW d \in Callers, EngineReplies(d)
      PROVE  d = c
  BY <1>1, <1>3, ReplyReturns DEF CallsOK
<1>4. ASSUME NEW i \in DOMAIN sessions, FlagFalls(i)
      PROVE  FALSE
  BY <1>1, <1>4 DEF FlagFalls
<1> QED
  BY <1>2, <1>3, <1>4 DEF Next
-----------------------------------------------------------------------------
(* A reply that changes the board and only adds to it was admitted. *)

\* A reply that failed and lost nothing changed nothing.
LEMMA FailedOnlyTakesBack ==
    ASSUME BoardsOK, Failed(Live), IsPrefix(Live, Last(boards'))
    PROVE  boards' = boards
<1>1. /\ Len(boards) \in DOMAIN boards /\ Live \in Position /\ Live = boards[Len(boards)]
      /\ boards = [i \in DOMAIN boards |-> boards[i]]
  BY LiveType DEF BoardsOK
<1>2. CASE BoardBecomes(Live)
  BY <1>1, <1>2 DEF BoardBecomes
<1>3. CASE BoardBecomes(Front(Live)) /\ Live = <<>>
  <2>1. Front(Live) = Live
    BY <1>3, SubSeqProperties DEF Front, Position
  <2> QED
    BY <1>1, <1>3, <2>1 DEF BoardBecomes
<1>4. CASE BoardBecomes(Front(Live)) /\ Live # <<>>
  <2>1. Last(boards') = Front(Live)
    BY <1>1, <1>4, FrontType, BoardBecomesKeeps
  <2>2. Len(Front(Live)) = Len(Live) - 1 /\ Len(Live) \in Nat
    BY <1>1, <1>4, FrontType, LenProperties DEF Position
  <2>3. Len(Live) <= Len(Last(boards'))
    BY DEF IsPrefix
  <2> QED
    BY <2>1, <2>2, <2>3
<1> QED
  BY <1>2, <1>3, <1>4 DEF Failed

\* The step that plays a reply plays it where it was asked for.
LEMMA ReplyStep ==
    ASSUME BoardsOK, CallsOK, [Next]_vars, NEW c \in Callers,
           Returned(c), boards' # boards, IsPrefix(Live, Last(boards'))
    PROVE  Asked(c).board # Len(boards) \/ Live = call[c].asked
<1>1. Next
  BY DEF vars
<1>2. EngineReplies(c)
  BY <1>1, OnlyRepliesReturn
<1>3. Admitted(c)
  BY <1>2, ReplyCases, FailedOnlyTakesBack
<1> QED
  BY <1>3, LiveType DEF Admitted

\* Before the first move boards and calls are in order.
LEMMA StartOK ==
    ASSUME Init
    PROVE  BoardsOK /\ CallsOK
<1>1. <<>> \in Position
  BY DEF Position
<1>2. BoardsOK
  BY <1>1, EmptySeq DEF Init, BoardsOK
<1> QED
  BY <1>2 DEF Init, CallsOK

(* A reply to the game on the board is played only in the position it was     *)
(* computed for: request_engine_move compares the two before it commits.  It  *)
(* holds for overlapping calls too, and however often the position has        *)
(* changed and come back while the engine was thinking.                       *)
THEOREM EngineReplyInItsGame == Spec => ReplyInItsGame
<1>1. Init => BoardsOK /\ CallsOK
  BY StartOK
<1>2. BoardsOK /\ CallsOK /\ [Next]_vars => BoardsOK' /\ CallsOK'
  BY BoardsStayOK, CallsStayOK
<1>3. BoardsOK /\ CallsOK /\ [Next]_vars =>
        [\A c \in Callers :
            Returned(c) /\ boards' # boards /\ IsPrefix(Live, Last(boards')) =>
               \/ Asked(c).board # Len(boards)
               \/ Live = call[c].asked]_vars
  BY ReplyStep
<1> QED
  BY <1>1, <1>2, <1>3, PTL DEF Spec, ReplyInItsGame
-----------------------------------------------------------------------------
(* The host that serialises the calls: the inductive invariant *)

\* The clock of a game that goes on is the mover's, or has run out.
GoesOn(s, p) ==
    /\ s.over = "no"
    /\ IF s.timed THEN s.clock.state \in {"running", "flagged"} ELSE s.clock.state = "stopped"
    /\ s.clock.state = "running" => s.clock.side = SideToMove(p)

\* A game shown as active goes on, and it is the human's turn unless a call waits.
ActiveSound ==
    phase = "active" => GoesOn(Now, Live) /\ (Idle => SideToMove(Live) = Human(Now))

\* The session is about the board that is shown, and its clock was recorded for every
\* ply; no pause is recorded.
SessionSound ==
    /\ session # 0 => Now.board = Len(boards) /\ Len(clockHistory) > Len(Live)
    /\ \A i \in DOMAIN clockHistory : clockHistory[i].state # "paused"

\* A finished game has an outcome; one that cannot be trusted is paused or stopped.
FinishedSound == phase = "finished" => Now.over # "no"

FenceSound == unsafe => phase \in {"error", "stopped"}

\* A game that can be retried is not the engine's to move while the user looks at an
\* earlier position.
ReviewSound ==
    phase = "error" /\ ~AtHistoryEnd => Now.over # "no" \/ SideToMove(Live) = Human(Now)

\* The call that waits asked about the game as it is shown.
AskedSound ==
    \A c \in Callers : Thinking(c) =>
        /\ \A d \in Callers : Thinking(d) => d = c
        /\ phase = "active"
        /\ call[c].session = session /\ call[c].asked = Live /\ call[c].history = history
        /\ call[c].cursor = Len(history) /\ AtHistoryEnd /\ SideToMove(Live) = Now.engine
        /\ IF call[c].moving THEN call[c].previous = None /\ commitContext = Len(Live) - 1
                             ELSE commitContext = None

GameInv ==
    /\ TypeOK /\ boards # <<>>
    /\ HistoryAligned /\ PhaseHasAGame /\ ContextReleased
    /\ ActiveSound /\ SessionSound /\ FinishedSound /\ FenceSound
    /\ ReviewSound /\ AskedSound

-----------------------------------------------------------------------------
(* Positions, sessions and clocks *)

\* The sides alternate with the moves.
LEMMA SideFlips ==
  ASSUME NEW p \in Position
  PROVE  /\ SideToMove(p) \in Sides
         /\ \A m \in AnyMove : SideToMove(Append(p, m)) = Other(SideToMove(p))
         /\ p # <<>> => SideToMove(Front(p)) = Other(SideToMove(p))
         /\ \A s \in Sides : Other(s) \in Sides /\ Other(Other(s)) = s /\ Other(s) # s
<1>1. Len(p) \in Nat /\ (p # <<>> => Len(Front(p)) = Len(p) - 1 /\ Len(p) > 0)
  BY FrontType, LenProperties, EmptySeq DEF Position
<1>2. \A m \in AnyMove : Len(Append(p, m)) = Len(p) + 1
  BY AppendProperties DEF Position
<1>3. \A n \in Nat : (n + 1) % 2 = 0 <=> n % 2 # 0
  OBVIOUS
<1> QED
  BY <1>1, <1>2, <1>3 DEF SideToMove, Other, Sides

\* Playing a move and taking it back gives the position again.
LEMMA FrontOfAppend ==
  ASSUME NEW p \in Position, NEW m \in AnyMove
  PROVE  /\ Append(p, m) \in Position /\ Len(Append(p, m)) = Len(p) + 1
         /\ Append(p, m) # <<>>
         /\ Front(Append(p, m)) = p /\ IsPrefix(p, Append(p, m)) /\ IsPrefix(p, p)
<1> DEFINE q == Append(p, m)
<1>1. q \in Position /\ Len(q) = Len(p) + 1 /\ Len(p) \in Nat
      /\ \A i \in 1..Len(p) : q[i] = p[i]
  BY AppendProperties, LenProperties DEF Position
<1>2. q # <<>> /\ Front(q) \in Position /\ Len(Front(q)) = Len(p)
  <2>1. q # <<>>
    BY <1>1, EmptySeq
  <2> HIDE DEF q
  <2>2. Front(q) \in Position /\ Len(Front(q)) = Len(q) - 1
    BY <1>1, <2>1, FrontType
  <2> QED
    BY <1>1, <2>1, <2>2
<1>3. \A i \in 1..Len(p) : Front(q)[i] = p[i]
  <2>1. Front(q) = SubSeq(q, 1, Len(q) - 1)
    BY DEF Front
  <2>2. 1 \in 1..(Len(q) + 1) /\ Len(q) - 1 \in (1 - 1)..Len(q)
    BY <1>1
  <2> QED
    BY <1>1, <2>1, <2>2, SubSeqProperties DEF Position
<1>4. Front(q) = p
  BY <1>1, <1>2, <1>3, SeqEqual DEF Position
<1>5. IsPrefix(p, q) /\ IsPrefix(p, p)
  <2>1. SubSeq(q, 1, Len(p)) = Front(q)
    BY <1>1 DEF Front
  <2>2. SubSeq(p, 1, Len(p)) = p
    BY <1>1, SubSeqProperties, SeqEqual DEF Position
  <2> QED
    BY <1>1, <1>4, <2>1, <2>2 DEF IsPrefix
<1> QED
  BY <1>1, <1>2, <1>4, <1>5

\* Two states of the session of one game.
SameGame(s, t) ==
    t \in Session /\ t.engine = s.engine /\ t.board = s.board /\ t.timed = s.timed

\* A look records a fallen flag as the outcome, and changes nothing else.
LEMMA LookFields ==
  ASSUME NEW s \in Session
  PROVE  /\ SameGame(s, Look(s)) /\ Look(s).clock = s.clock /\ Look(s).takeback = s.takeback
         /\ Look(s).over = IF s.clock.state = "flagged" /\ s.over = "no" THEN "timeout" ELSE s.over
         /\ Look(Look(s)) = Look(s)
<1>1. CASE s.clock.state = "flagged" /\ s.over = "no"
  BY <1>1 DEF Look, Session, SameGame
<1>2. CASE ~(s.clock.state = "flagged" /\ s.over = "no")
  BY <1>2 DEF Look, Session, SameGame
<1> QED
  BY <1>1, <1>2

\* A pending takeback changes nothing else of a session.
LEMMA TakebackFields ==
  ASSUME NEW s \in Session, NEW b \in BOOLEAN
  PROVE  LET t == [s EXCEPT !.takeback = @ \/ b]
         IN  SameGame(s, t) /\ t.clock = s.clock /\ t.over = s.over
  BY DEF Session, SameGame

\* What a clock is made of.
LEMMA ClockFields ==
  /\ \A state \in {"stopped", "running", "paused", "flagged"}, side \in Sides \cup {None} :
        /\ ClockOf(state, side) \in Clock
        /\ ClockOf(state, side).state = state /\ ClockOf(state, side).side = side
  /\ \A c \in Clock : /\ c.state \in {"stopped", "running", "paused", "flagged"}
                      /\ c.side \in Sides \cup {None}
  /\ \A c \in Clock, state \in {"stopped", "running", "paused", "flagged"} :
        /\ [c EXCEPT !.state = state] \in Clock
        /\ [c EXCEPT !.state = state].state = state
        /\ [c EXCEPT !.state = state].side = c.side
  BY DEF ClockOf, Clock

\* A session with another clock is the same game.
LEMMA WithClock ==
  ASSUME NEW s \in Session, NEW clock \in Clock
  PROVE  LET t == [s EXCEPT !.clock = clock]
         IN  SameGame(s, t) /\ t.clock = clock /\ t.over = s.over /\ t.takeback = s.takeback
  BY DEF Session, SameGame

\* A pause decides nothing that a look would not decide.
LEMMA PauseFields ==
  ASSUME NEW s \in Session
  PROVE  /\ SameGame(s, Pause(s)) /\ (s.over # "no" => Pause(s) = s)
         /\ Look(Pause(s)).over = Look(s).over /\ Pause(s).over = Look(s).over
<1>1. CASE s.over # "no"
  BY <1>1, LookFields DEF Pause, SameGame
<1>2. CASE s.over = "no"
  <2> DEFINE clock == [s.clock EXCEPT !.state = IF @ = "running" THEN "paused" ELSE @]
             t == [s EXCEPT !.clock = clock]
  <2>1. s.clock \in Clock
    BY DEF Session
  <2>2. clock \in Clock /\ (clock.state = "flagged" <=> s.clock.state = "flagged")
    <3> DEFINE state == IF s.clock.state = "running" THEN "paused" ELSE s.clock.state
    <3>1. state \in {"stopped", "running", "paused", "flagged"}
          /\ (state = "flagged" <=> s.clock.state = "flagged")
      BY <2>1, ClockFields
    <3>2. clock = [s.clock EXCEPT !.state = state]
      OBVIOUS
    <3> HIDE DEF state, clock
    <3> QED
      BY <2>1, <3>1, <3>2, ClockFields
  <2>3. SameGame(s, t) /\ t.clock = clock /\ t.over = s.over
    BY <2>2, WithClock
  <2>4. Pause(s) = Look(t)
    BY <1>2 DEF Pause
  <2> HIDE DEF t, clock
  <2> QED
    BY <1>2, <2>2, <2>3, <2>4, LookFields DEF SameGame
<1> QED
  BY <1>1, <1>2

\* A game that is finished has its outcome and a clock at rest.
LEMMA FinishFields ==
  ASSUME NEW s \in Session, NEW why \in {"position", "resigned"}
  PROVE  /\ SameGame(s, Finish(s, why)) /\ Finish(s, why).over = why
         /\ Finish(s, why).clock.state # "paused" \/ s.clock.state = "paused"
         /\ Finish(s, why).clock.state \notin {"running", "paused"}
<1> DEFINE clock == IF s.clock.state = "flagged" THEN s.clock ELSE ClockOf("stopped", None)
<1>1. clock \in Clock /\ clock.state \notin {"running", "paused"}
  BY ClockFields DEF Session
<1>2. Finish(s, why) = [s EXCEPT !.over = why, !.takeback = FALSE, !.clock = clock]
  BY DEF Finish
<1> HIDE DEF clock
<1> QED
  BY <1>1, <1>2 DEF Session, SameGame

\* After a move the clock of a timed game runs for the other side.
LEMMA SwitchFields ==
  ASSUME NEW s \in Session, NEW mover \in Sides
  PROVE  /\ SameGame(s, Switch(s, mover)) /\ Switch(s, mover).over = s.over
         /\ Switch(s, mover).clock = IF s.timed THEN ClockOf("running", Other(mover)) ELSE s.clock
<1> DEFINE clock == IF s.timed THEN ClockOf("running", Other(mover)) ELSE s.clock
<1>1. clock \in Clock
  BY ClockFields DEF Session, Sides, Other
<1>2. Switch(s, mover) = [s EXCEPT !.takeback = FALSE, !.clock = clock]
  BY DEF Switch
<1>3. clock = IF s.timed THEN ClockOf("running", Other(mover)) ELSE s.clock
  OBVIOUS
<1> HIDE DEF clock
<1> QED
  BY <1>1, <1>2, <1>3 DEF Session, SameGame

\* A flag that falls in the switch decides the game.
LEMMA FlagFields ==
  ASSUME NEW s \in Session
  PROVE  SameGame(s, Flag(s)) /\ Flag(s).over = "timeout" /\ Flag(s).clock.state = "flagged"
         /\ Flag(s).clock \in Clock
<1> DEFINE clock == [s.clock EXCEPT !.state = "flagged"]
<1>1. clock \in Clock /\ clock.state = "flagged"
  BY ClockFields DEF Session
<1>2. Flag(s) = [s EXCEPT !.clock = clock, !.over = "timeout", !.takeback = FALSE]
  BY DEF Flag
<1> HIDE DEF clock
<1> QED
  BY <1>1, <1>2 DEF Session, SameGame

\* A game that resumes has its clock running, if it has one.
LEMMA ResumeFields ==
  ASSUME NEW s \in Session
  PROVE  /\ SameGame(s, Resume(s)) /\ Resume(s).over = s.over
         /\ s.timed => Resume(s).clock.state = "running"
         /\ ~s.timed => Resume(s) = s
<1>1. CASE s.timed
  <2> DEFINE clock == [s.clock EXCEPT !.state = "running"]
             t == [s EXCEPT !.clock = clock]
  <2>1. clock \in Clock /\ clock.state = "running"
    BY ClockFields DEF Session
  <2>2. SameGame(s, t) /\ t.clock = clock /\ t.over = s.over
    BY <2>1, WithClock
  <2>3. Resume(s) = t
    BY <1>1 DEF Resume
  <2> HIDE DEF clock, t
  <2> QED
    BY <1>1, <2>1, <2>2, <2>3
<1>2. CASE ~s.timed
  BY <1>2 DEF Resume, SameGame
<1> QED
  BY <1>1, <1>2

-----------------------------------------------------------------------------
(* How a handler answers, and the state it leaves when nobody waits *)

\* A handler that answers about a session looks at it once more.
LEMMA AnswerFields ==
  ASSUME NEW ss \in Seq(Session), session \in 1..Len(ss), NEW ph \in Phases,
         Answer(ss, session, ph),
         ph # "active" \/ commitContext = None \/ Len(Last(boards')) # commitContext + 1
  PROVE  /\ session' = session /\ sessions' \in Seq(Session) /\ Len(sessions') = Len(ss)
         /\ sessions'[session] = Look(ss[session])
         /\ \A i \in 1..Len(ss) : i # session => sessions'[i] = ss[i]
         /\ phase' = ph \/ (phase' = "finished" /\ Look(ss[session]).over # "no")
         /\ ph \in {"error", "stopped"} => phase' = ph
         /\ Look(ss[session]).over # "no" /\ Valid(Look(ss[session]), SideToMove(Last(boards')))
               /\ unsafe' = FALSE /\ ph \notin {"error", "stopped"} => phase' = "finished"
<1>1. ss[session] \in Session
  BY ElementOfSeq, LenProperties
<1>2. Look(ss[session]) \in Session
  BY <1>1, LookFields DEF SameGame
<1>3. session # 0 /\ Len(ss) \in Nat
  BY LenProperties
<1>4. session' = session /\ sessions' = [ss EXCEPT ![session] = Look(ss[session])]
  BY <1>3 DEF Answer
<1>5. /\ sessions' \in Seq(Session) /\ Len(sessions') = Len(ss)
      /\ sessions'[session] = Look(ss[session])
      /\ \A i \in 1..Len(ss) : i # session => sessions'[i] = ss[i]
  BY <1>2, <1>3, <1>4, ExceptSeq, LenProperties
<1>6. phase' = IF /\ ph \notin {"error", "stopped"} /\ ~unsafe' /\ Look(ss[session]).over # "no"
                  /\ Valid(Look(ss[session]), SideToMove(Last(boards')))
               THEN "finished" ELSE ph
  BY <1>3 DEF Answer
<1> QED
  BY <1>4, <1>5, <1>6

\* The session of a game is a session, the board a position.
LEMMA GameFields ==
  ASSUME GameInv
  PROVE  /\ BoardsOK /\ Live \in Position /\ history = Live /\ Len(Live) \in Nat
         /\ Len(boards) \in Nat
         /\ sessions \in Seq(Session) /\ Len(sessions) \in Nat /\ session \in 0..Len(sessions)
         /\ session # 0 => session \in 1..Len(sessions) /\ Now \in Session
         /\ clockHistory \in Seq(Clock) /\ Len(clockHistory) \in Nat
         /\ cursor \in 0..Len(history) /\ unsafe \in BOOLEAN /\ phase \in Phases
         /\ call \in [Callers -> Call]
<1>1. BoardsOK
  BY DEF GameInv, TypeOK, BoardsOK
<1>2. Live \in Position /\ history = Live /\ Len(Live) \in Nat /\ Len(boards) \in Nat
  BY <1>1, LiveType, LenProperties DEF GameInv, HistoryAligned, Position
<1>3. /\ sessions \in Seq(Session) /\ Len(sessions) \in Nat /\ session \in 0..Len(sessions)
      /\ clockHistory \in Seq(Clock) /\ Len(clockHistory) \in Nat
      /\ cursor \in 0..Len(history) /\ unsafe \in BOOLEAN /\ phase \in Phases
      /\ call \in [Callers -> Call]
  BY LenProperties DEF GameInv, TypeOK
<1>4. session # 0 => session \in 1..Len(sessions) /\ Now \in Session
  BY <1>3, ElementOfSeq DEF Now
<1> QED
  BY <1>1, <1>2, <1>3, <1>4

\* When nobody waits every call is done.
LEMMA IdleFields ==
  ASSUME GameInv
  PROVE  /\ Idle => (commitContext = None /\ \A c \in Callers : ~Thinking(c))
         /\ (\A c \in Callers : ~Thinking(c)) => Idle
  BY DEF GameInv, TypeOK, ContextReleased, Idle, Thinking, Call

\* The live board after a step.
LEMMA LastOfBoards ==
  ASSUME BoardsOK'
  PROVE  Last(boards') \in Position
<1>1. Len(boards') \in Nat /\ Len(boards') # 0
  BY EmptySeq, LenProperties DEF BoardsOK
<1>2. Len(boards') \in 1..Len(boards')
  BY <1>1
<1> QED
  BY <1>2, ElementOfSeq DEF BoardsOK, Last

\* A call that ends with an answer about the current game leaves the invariant, if
\* what it answers is true of the session.
LEMMA Settles ==
  ASSUME GameInv, session # 0,
         BoardsOK', Len(boards') = Len(boards), history' = Live', cursor' \in 0..Len(history'),
         unsafe' \in BOOLEAN,
         clockHistory' \in Seq(Clock), Len(clockHistory') > Len(Live'),
         \A i \in 1..Len(clockHistory') : clockHistory'[i].state # "paused",
         call' \in [Callers -> Call], Idle', commitContext' = None,
         NEW ss \in Seq(Session), Len(ss) = Len(sessions), ss[session].board = Now.board,
         NEW ph \in Phases \ {"idle"}, Answer(ss, session, ph),
         ph # "active" \/ commitContext = None \/ Len(Live') # commitContext + 1,
         ph = "active" => /\ unsafe' = FALSE /\ GoesOn(ss[session], Live')
                          /\ SideToMove(Live') = Human(ss[session]),
         ph = "finished" => ss[session].over # "no" /\ unsafe' = FALSE,
         ph = "error" => \/ cursor' = Len(history') \/ ss[session].over # "no"
                         \/ SideToMove(Live') = Human(ss[session])
  PROVE  GameInv'
<1> DEFINE s == ss[session]
           t == Look(s)
<1>1. session \in 1..Len(ss) /\ s \in Session
  BY GameFields, ElementOfSeq
<1>2. /\ session' = session /\ sessions' \in Seq(Session) /\ Len(sessions') = Len(sessions)
      /\ Now' = t
      /\ phase' = ph \/ (phase' = "finished" /\ t.over # "no")
      /\ ph \in {"error", "stopped"} => phase' = ph
      /\ t.over # "no" /\ Valid(t, SideToMove(Live'))
            /\ unsafe' = FALSE /\ ph \notin {"error", "stopped"} => phase' = "finished"
  BY <1>1, AnswerFields DEF Now, Live
<1>3. /\ SameGame(s, t) /\ t.clock = s.clock
      /\ t.over = IF s.clock.state = "flagged" /\ s.over = "no" THEN "timeout" ELSE s.over
  BY <1>1, LookFields
<1> HIDE DEF t, s
<1>4. TypeOK' /\ boards' # <<>> /\ HistoryAligned'
  <2>1. Live' \in Position
    BY LastOfBoards DEF Live
  <2>2. phase' \in Phases /\ session' \in 0..Len(sessions')
    BY <1>1, <1>2 DEF Phases
  <2> QED
    BY <1>2, <2>1, <2>2 DEF TypeOK, HistoryAligned, BoardsOK
<1>5. PhaseHasAGame' /\ ContextReleased'
  BY <1>2 DEF PhaseHasAGame, ContextReleased
<1>6. phase' = "active" => s.over = "no" /\ t = s /\ ph = "active"
  <2> SUFFICES ASSUME phase' = "active"
               PROVE  s.over = "no" /\ t = s /\ ph = "active"
    OBVIOUS
  <2>1. ph = "active" /\ GoesOn(s, Live')
    BY <1>2 DEF s
  <2>2. s.clock.state # "flagged"
    <3> SUFFICES ASSUME s.clock.state = "flagged"
                 PROVE  FALSE
      OBVIOUS
    <3>1. t.over = "timeout" /\ t.timed = s.timed /\ t.clock = s.clock
      BY <1>3, <2>1 DEF GoesOn, SameGame
    <3>2. Valid(t, SideToMove(Live'))
      BY <2>1, <3>1 DEF Valid, GoesOn
    <3> QED
      BY <1>2, <2>1, <3>1, <3>2
  <2> QED
    BY <2>1, <2>2 DEF GoesOn, Look, t, s
<1>7. ActiveSound'
  BY <1>2, <1>6 DEF ActiveSound, GoesOn, Human, s
<1>8. SessionSound'
  BY <1>2, <1>3 DEF SessionSound, SameGame, GameInv, s
<1>9. FinishedSound' /\ FenceSound'
  BY <1>2, <1>3 DEF FinishedSound, FenceSound, GameInv, Phases, s
<1>10. ReviewSound'
  BY <1>2, <1>3 DEF ReviewSound, AtHistoryEnd, Human, SameGame, s
<1>11. AskedSound'
  BY DEF AskedSound, Idle, Thinking
<1> QED
  BY <1>4, <1>5, <1>7, <1>8, <1>9, <1>10, <1>11 DEF GameInv

-----------------------------------------------------------------------------
(* The calls that do not wait *)

\* Without a game there is little to get wrong.
LEMMA NoGameLeft ==
  ASSUME GameInv, Idle, session' = 0, phase' = "idle", unsafe' = FALSE,
         sessions' = sessions, clockHistory' \in {clockHistory, <<>>},
         BoardsOK', history' = Live', cursor' \in 0..Len(history'),
         UNCHANGED <<commitContext, call>>
  PROVE  GameInv'
<1>1. TypeOK' /\ boards' # <<>> /\ HistoryAligned'
  <2>1. Live' \in Position
    BY LastOfBoards DEF Live
  <2>2. /\ sessions' \in Seq(Session) /\ session' \in 0..Len(sessions')
        /\ clockHistory' \in Seq(Clock) /\ phase' \in Phases
    <3>1. <<>> \in Seq(Clock)
      OBVIOUS
    <3>2. sessions \in Seq(Session) /\ Len(sessions) \in Nat /\ clockHistory \in Seq(Clock)
      BY GameFields
    <3>3. sessions' \in Seq(Session) /\ clockHistory' \in Seq(Clock)
      BY <3>1, <3>2
    <3>4. Len(sessions') \in Nat
      BY <3>2
    <3>5. session' \in 0..Len(sessions')
      BY <3>4
    <3>6. phase' \in Phases
      BY Zenon DEF Phases
    <3> QED
      BY <3>3, <3>5, <3>6
  <2> QED
    BY <2>1, <2>2 DEF GameInv, TypeOK, HistoryAligned, BoardsOK
<1>2. PhaseHasAGame' /\ ContextReleased'
  BY DEF PhaseHasAGame, ContextReleased, GameInv, Idle
<1>3. ActiveSound' /\ FinishedSound' /\ FenceSound' /\ ReviewSound' /\ AskedSound'
  BY DEF ActiveSound, FinishedSound, FenceSound, ReviewSound, AskedSound, Idle, Thinking
<1>4. SessionSound'
  BY DEF SessionSound, GameInv
<1> QED
  BY <1>1, <1>2, <1>3, <1>4 DEF GameInv

\* What is known of the game when a call is admitted.
LEMMA Entered ==
  ASSUME GameInv, Serialized, NEW c \in Callers, Enter(c)
  PROVE  /\ Idle /\ commitContext = None
         /\ phase = "active" =>
               GoesOn(Now, Live) /\ SideToMove(Live) = Human(Now) /\ unsafe = FALSE
         /\ phase = "finished" => Now.over # "no" /\ unsafe = FALSE
         /\ session # 0 => /\ Now.board = Len(boards) /\ Len(clockHistory) > Len(Live)
                           /\ phase \in Phases \ {"idle"}
         /\ session = 0 => phase = "idle" /\ unsafe = FALSE
         /\ \A i \in 1..Len(clockHistory) : clockHistory[i].state # "paused"
<1>1. Idle /\ commitContext = None
  BY IdleFields DEF Enter
<1>2. phase = "active" => GoesOn(Now, Live) /\ SideToMove(Live) = Human(Now)
  BY <1>1 DEF GameInv, ActiveSound
<1>3. unsafe \in BOOLEAN /\ (unsafe => phase \in {"error", "stopped"}) /\ phase \in Phases
  BY GameFields DEF GameInv, FenceSound
<1>4. DOMAIN clockHistory = 1..Len(clockHistory)
  BY GameFields, LenProperties
<1> QED
  BY <1>1, <1>2, <1>3, <1>4 DEF GameInv, PhaseHasAGame, FinishedSound, SessionSound

\* A call that leaves the game, or only the review cursor, and answers about it.
LEMMA LooksStep ==
  ASSUME GameInv, Serialized, NEW c \in Callers, Enter(c),
         session # 0, UNCHANGED <<boards, history, unsafe, clockHistory, commitContext, call>>,
         cursor' \in 0..Len(history),
         NEW s \in Session, s.board = Now.board, s.engine = Now.engine,
         NEW ph \in Phases \ {"idle"}, AnswerAbout(s, ph),
         ph = "active" => GoesOn(s, Live) /\ SideToMove(Live) = Human(s) /\ unsafe = FALSE,
         ph = "finished" => s.over # "no" /\ unsafe = FALSE,
         ph = "error" => \/ cursor' = Len(history) \/ s.over # "no"
                         \/ SideToMove(Live) = Human(s)
  PROVE  GameInv'
<1> DEFINE ss == [sessions EXCEPT ![session] = s]
<1>1. session \in 1..Len(sessions) /\ sessions \in Seq(Session)
  BY GameFields
<1>2. ss \in Seq(Session) /\ Len(ss) = Len(sessions) /\ ss[session] = s
  BY <1>1, ExceptSeq, LenProperties
<1>3. Answer(ss, session, ph)
  BY DEF AnswerAbout
<1> HIDE DEF ss
<1>4. /\ Idle /\ commitContext = None /\ Len(clockHistory) > Len(Live)
      /\ \A i \in 1..Len(clockHistory) : clockHistory[i].state # "paused"
  BY Entered
<1>5. /\ BoardsOK' /\ Live' = Live /\ Len(boards') = Len(boards) /\ history' = Live'
      /\ clockHistory' \in Seq(Clock) /\ unsafe' \in BOOLEAN /\ call' \in [Callers -> Call]
      /\ Idle' /\ Len(Live') = Len(Live) /\ Len(history') = Len(history)
  BY <1>4, GameFields DEF BoardsOK, Live, Idle
<1> QED
  BY <1>2, <1>3, <1>4, <1>5, Settles

\* get_state, a review and a plain undo that has nothing to undo.
LEMMA GetStateStep ==
  ASSUME GameInv, Serialized, NEW c \in Callers, Enter(c),
         UNCHANGED <<boards, history, unsafe, clockHistory, commitContext, call>>,
         cursor' \in 0..Len(history), cursor' = cursor \/ phase # "error",
         Answer(sessions, session, phase)
  PROVE  GameInv'
<1>1. CASE session = 0
  <2>1. session' = 0 /\ sessions' = sessions /\ phase' = "idle" /\ unsafe' = FALSE
    BY <1>1, Entered DEF Answer
  <2>2. BoardsOK' /\ history' = Live' /\ cursor' \in 0..Len(history')
    BY GameFields DEF BoardsOK, Live
  <2> QED
    BY <2>1, <2>2, Entered, NoGameLeft
<1>2. CASE session # 0
  <2>1. session \in 1..Len(sessions) /\ sessions \in Seq(Session) /\ Now \in Session
    BY <1>2, GameFields
  <2>2. [sessions EXCEPT ![session] = Now] = sessions
    BY <2>1 DEF Now
  <2>3. AnswerAbout(Now, phase)
    BY <2>2 DEF AnswerAbout
  <2>4. phase = "error" => \/ cursor' = Len(history) \/ Now.over # "no"
                           \/ SideToMove(Live) = Human(Now)
    BY DEF GameInv, ReviewSound, AtHistoryEnd
  <2> QED
    BY <1>2, <2>1, <2>3, <2>4, Entered, LooksStep
<1> QED
  BY <1>1, <1>2

\* The user stops the game or resigns.
LEMMA StopStep ==
  ASSUME GameInv, Serialized, NEW c \in Callers, StopEngineGame(c) \/ ResignEngineGame(c)
  PROVE  GameInv'
<1>1. Enter(c) /\ UNCHANGED <<game, unsafe, clockHistory, commitContext, call>>
  BY DEF StopEngineGame, ResignEngineGame
<1>2. session # 0
  BY <1>1, Entered DEF StopEngineGame, ResignEngineGame, Playing
<1>3. Now \in Session /\ cursor \in 0..Len(history)
  BY <1>2, GameFields
<1>4. SameGame(Now, Pause(Now)) /\ SameGame(Now, Finish(Now, "resigned"))
      /\ Finish(Now, "resigned").over = "resigned"
  BY <1>3, PauseFields, FinishFields
<1>5. CASE StopEngineGame(c)
  <2> DEFINE s == IF phase = "active" THEN Pause(Now) ELSE Now
  <2>1. s \in Session /\ s.board = Now.board /\ s.engine = Now.engine
    BY <1>3, <1>4 DEF SameGame
  <2>2. AnswerAbout(s, "stopped")
    BY <1>5 DEF StopEngineGame
  <2> HIDE DEF s
  <2>3. "stopped" \in Phases \ {"idle"}
    BY DEF Phases
  <2> QED
    BY <1>1, <1>2, <1>3, <2>1, <2>2, <2>3, LooksStep DEF game
<1>6. CASE ResignEngineGame(c)
  <2>1. AnswerAbout(Finish(Now, "resigned"), "finished") /\ phase = "active"
    BY <1>6 DEF ResignEngineGame, Playing
  <2>2. unsafe = FALSE /\ "finished" \in Phases \ {"idle"}
    BY <1>1, <2>1, Entered DEF Phases
  <2> QED
    BY <1>1, <1>2, <1>3, <1>4, <2>1, <2>2, LooksStep DEF game, SameGame
<1> QED
  BY <1>5, <1>6

\* Playing or setting the board leaves as many boards and moves the cursor along.
LEMMA BecomesFields ==
  ASSUME BoardsOK, NEW p \in Position, GameBecomes(p)
  PROVE  /\ BoardsOK' /\ Live' = p /\ history' = p /\ cursor' = Len(p) /\ Len(p) \in Nat
         /\ cursor' \in 0..Len(history') /\ Len(boards') = Len(boards)
<1>1. Len(p) \in Nat
  BY LenProperties DEF Position
<1> QED
  BY <1>1, BoardBecomesKeeps DEF GameBecomes, Live

\* A move at the end of the history is the last of board and history.
LEMMA PlayFields ==
  ASSUME GameInv, AtHistoryEnd, NEW m \in AnyMove, PlayMove(m)
  PROVE  /\ BoardsOK' /\ Live' = Append(Live, m) /\ history' = Live'
         /\ cursor' = Len(history') /\ cursor' \in 0..Len(history') /\ Len(boards') = Len(boards)
         /\ Len(Live') = Len(Live) + 1
<1>1. Live \in Position /\ history = Live /\ Len(Live) \in Nat /\ BoardsOK
  BY GameFields
<1>2. Append(Live, m) \in Position /\ Len(Append(Live, m)) = Len(Live) + 1
  BY <1>1, FrontOfAppend
<1>3. BoardsOK' /\ Len(boards') = Len(boards) /\ Live' = Append(Live, m)
  BY <1>1, <1>2, BoardBecomesKeeps DEF PlayMove, Live
<1>4. history' = Append(Live, m) /\ cursor' = Len(Live) + 1
  BY <1>1 DEF PlayMove
<1> QED
  BY <1>1, <1>2, <1>3, <1>4

\* A move, an undo or a new game without an engine.
LEMMA PlainStep ==
  ASSUME GameInv, Serialized, NEW c \in Callers,
         NewGame(c) \/ NoMove(c) \/ PlainUndo(c) \/ \E m \in AnyMove : PlainMove(c, m)
  PROVE  GameInv'
<1>1. Enter(c) /\ UNCHANGED <<commitContext, call>> /\ Idle
  BY Entered DEF NewGame, NoMove, PlainUndo, PlainMove
<1>2. BoardsOK /\ history = Live /\ cursor \in 0..Len(history) /\ Live \in Position
  BY GameFields
<1>3. ASSUME BoardsOK', history' = Live', cursor' \in 0..Len(history'), ResetEngineGame
      PROVE  GameInv'
  BY <1>1, <1>3, NoGameLeft DEF ResetEngineGame
<1>4. CASE NewGame(c)
  <2>1. BoardsOK' /\ Live' = <<>> /\ history' = <<>> /\ cursor' = 0
    <3>1. boards' = Append(boards, <<>>) /\ history' = <<>> /\ cursor' = 0
      BY <1>4 DEF NewGame
    <3>2. Last(Append(boards, <<>>)) = <<>>
      <4>1. <<>> \in Position
        BY DEF Position
      <4> QED
        BY <1>2, <4>1, AppendProperties DEF BoardsOK, Last
    <3> QED
      BY <1>2, <3>1, <3>2, NewBoardKeeps DEF Live
  <2>2. Len(<<>>) = 0
    OBVIOUS
  <2> QED
    BY <1>3, <1>4, <2>1, <2>2 DEF NewGame
<1>5. CASE NoMove(c)
  <2>1. UNCHANGED game /\ ResetEngineGame
    BY <1>5 DEF NoMove
  <2> QED
    BY <1>2, <1>3, <2>1 DEF game, BoardsOK, Live
<1>6. CASE PlainUndo(c)
  <2>1. /\ BoardsOK' /\ history' = Live' /\ cursor' \in 0..Len(history')
        /\ Len(boards') = Len(boards) /\ Len(Live') <= Len(Live)
        /\ UNCHANGED game \/ cursor' = Len(history')
    <3>1. CASE UNCHANGED game
      BY <1>2, <3>1 DEF game, BoardsOK, Live
    <3>2. CASE UndoWorks /\ GameBecomes(Front(Live))
      <4>1. Front(Live) \in Position /\ Len(Front(Live)) = Len(Live) - 1 /\ Len(Live) \in Nat
        BY <1>2, <3>2, FrontType, GameFields DEF UndoWorks
      <4> QED
        BY <1>2, <3>2, <4>1, BecomesFields
    <3> QED
      BY <1>6, <3>1, <3>2 DEF PlainUndo
  <2>2. CASE phase \in {"stopped", "finished"}
    BY <1>3, <1>6, <2>1, <2>2 DEF PlainUndo
  <2>3. CASE phase \notin {"stopped", "finished"}
    <3>1. /\ UNCHANGED <<unsafe, clockHistory>> /\ Answer(sessions, session, phase)
          /\ phase \in {"idle", "error"}
      BY <1>6, <2>3, GameFields DEF PlainUndo, Phases
    <3>2. CASE session = 0
      <4>1. session' = 0 /\ sessions' = sessions /\ phase' = "idle" /\ unsafe' = FALSE
        BY <1>1, <3>1, <3>2, Entered DEF Answer
      <4> QED
        BY <1>1, <2>1, <3>1, <4>1, NoGameLeft
    <3>3. CASE session # 0
      <4>1. /\ Len(clockHistory) > Len(Live) /\ commitContext = None
            /\ \A i \in 1..Len(clockHistory) : clockHistory[i].state # "paused"
            /\ phase = "error"
        BY <1>1, <3>1, <3>3, Entered
      <4>2. sessions \in Seq(Session) /\ clockHistory \in Seq(Clock) /\ call \in [Callers -> Call]
            /\ unsafe \in BOOLEAN /\ Len(Live) \in Nat /\ Len(clockHistory) \in Nat
        BY GameFields
      <4>3. sessions[session].board = Now.board /\ Human(sessions[session]) = Human(Now)
        BY DEF Now
      <4>4. \/ cursor' = Len(history') \/ sessions[session].over # "no"
            \/ SideToMove(Live') = Human(sessions[session])
        BY <2>1, <4>1, <4>3 DEF GameInv, ReviewSound, AtHistoryEnd, game, Now, Live
      <4>5. Idle' /\ Len(Live') \in Nat
        BY <1>1, <2>1, LastOfBoards, LenProperties DEF Idle, Live, Position
      <4>6. "error" \in Phases \ {"idle"}
        BY DEF Phases
      <4>7. Len(clockHistory') > Len(Live')
        BY <2>1, <3>1, <4>1, <4>2, <4>5
      <4> QED
        BY <1>1, <2>1, <3>1, <3>3, <4>1, <4>2, <4>3, <4>4, <4>5, <4>6, <4>7, Settles
    <3> QED
      BY <3>2, <3>3
  <2> QED
    BY <2>2, <2>3
<1>7. ASSUME NEW m \in AnyMove, PlainMove(c, m)
      PROVE  GameInv'
  BY <1>3, <1>7, PlayFields DEF PlainMove
<1> QED
  BY <1>4, <1>5, <1>6, <1>7


\* A clock that is recorded leaves a history without pauses, long enough for the ply.
LEMMA RecordedFields ==
  ASSUME NEW ply \in 0..Len(clockHistory), clockHistory \in Seq(Clock),
         NEW clock \in Clock, clock.state # "paused",
         \A i \in 1..Len(clockHistory) : clockHistory[i].state # "paused"
  PROVE  LET h == Recorded(clock, ply)
         IN  h \in Seq(Clock) /\ Len(h) = ply + 1 /\ \A i \in 1..Len(h) : h[i].state # "paused"
<1> DEFINE kept == SubSeq(clockHistory, 1, ply)
<1>1. Len(clockHistory) \in Nat
  BY LenProperties
<1>2. 1 \in 1..(Len(clockHistory) + 1) /\ ply \in (1 - 1)..Len(clockHistory) /\ ply - 1 + 1 = ply
  BY <1>1
<1>3. kept \in Seq(Clock) /\ Len(kept) = ply /\ \A i \in 1..ply : kept[i] = clockHistory[1 + i - 1]
  BY <1>2, SubSeqProperties
<1>4. \A i \in 1..ply : kept[i].state # "paused"
  BY <1>1, <1>3
<1> HIDE DEF kept
<1>5. /\ Append(kept, clock) \in Seq(Clock) /\ Len(Append(kept, clock)) = ply + 1
      /\ Append(kept, clock)[ply + 1] = clock
      /\ \A i \in 1..ply : Append(kept, clock)[i] = kept[i]
  BY <1>3, AppendProperties
<1>6. Recorded(clock, ply) = Append(kept, clock)
  BY DEF Recorded, kept
<1>7. \A i \in 1..(ply + 1) : i \in 1..ply \/ i = ply + 1
  BY <1>2
<1> QED
  BY <1>4, <1>5, <1>6, <1>7

\* In a game every clock up to the next ply can be recorded, so that the answer follows.
LEMMA Records ==
  ASSUME GameInv, session # 0, NEW ply \in 0..(Len(Live) + 1),
         NEW clock \in Clock, clock.state # "paused",
         NEW ss, NEW ph, RecordThenAnswer(clock, ply, ss, ph)
  PROVE  /\ Answer(ss, session, ph)
         /\ clockHistory' \in Seq(Clock) /\ Len(clockHistory') = ply + 1
         /\ \A i \in 1..Len(clockHistory') : clockHistory'[i].state # "paused"
<1>1. /\ Len(clockHistory) > Len(Live) /\ DOMAIN clockHistory = 1..Len(clockHistory)
      /\ \A i \in DOMAIN clockHistory : clockHistory[i].state # "paused"
  BY GameFields, LenProperties DEF GameInv, SessionSound
<1>2. ply \in 0..Len(clockHistory) /\ CanRecord(ply)
  BY <1>1, GameFields DEF CanRecord
<1>3. Answer(ss, session, ph) /\ clockHistory' = Recorded(clock, ply)
  BY <1>2 DEF RecordThenAnswer
<1> QED
  BY <1>1, <1>2, <1>3, RecordedFields, GameFields

\* The user looks at another position: only where nothing is to be retried.
LEMMA ReviewStep ==
  ASSUME GameInv, Serialized, "error" \notin Reviews, NEW c \in Callers, Review(c)
  PROVE  GameInv'
<1>1. PICK ply \in 0..Len(history) : cursor' = ply
  BY DEF Review
<1> QED
  BY <1>1, GetStateStep DEF Review

\* The engine is asked about the game as it is shown.
LEMMA AsksStep ==
  ASSUME GameInv, Idle, NEW c \in Callers,
         BoardsOK', history' = Live', cursor' = Len(history'), unsafe' = FALSE,
         sessions' \in Seq(Session), session' \in 1..Len(sessions'),
         Now'.board = Len(boards'), GoesOn(Now', Live'), SideToMove(Live') = Now'.engine,
         clockHistory' \in Seq(Clock), Len(clockHistory') > Len(Live'),
         \A i \in 1..Len(clockHistory') : clockHistory'[i].state # "paused",
         phase' = "active",
         NEW moving \in BOOLEAN, Ask(c, session', Live', history', cursor', moving),
         commitContext' = IF moving THEN Len(Live') - 1 ELSE None,
         moving => Live' # <<>>
  PROVE  GameInv'
<1>1. Live' \in Position /\ Len(Live') \in Nat /\ session' \in Nat /\ Len(sessions') \in Nat
  BY LastOfBoards, LenProperties DEF Live, Position
<1>2. commitContext = None /\ call \in [Callers -> Call]
  BY GameFields, IdleFields
<1> DEFINE k == [at |-> "thinking", session |-> session', asked |-> Live', history |-> history',
                 cursor |-> cursor', moving |-> moving, previous |-> None]
<1>3. call' = [call EXCEPT ![c] = k]
  BY <1>2 DEF Ask
<1>4. k \in Call
  BY <1>1 DEF Call
<1>5. /\ k.at = "thinking" /\ k.session = session' /\ k.asked = Live' /\ k.history = history'
      /\ k.cursor = cursor' /\ k.moving = moving /\ k.previous = None
  OBVIOUS
<1> HIDE DEF k
<1>6. call' \in [Callers -> Call] /\ call'[c] = k
      /\ \A d \in Callers : d # c => call'[d].at = "idle"
  BY <1>2, <1>3, <1>4 DEF Idle
<1>7. commitContext' \in Nat \cup {None}
  <2>1. Live' # <<>> => Len(Live') # 0
    BY <1>1, EmptySeq DEF Position
  <2> QED
    BY <1>1, <2>1
<1>8. TypeOK'
  <2>1. cursor' \in 0..Len(history') /\ session' \in 0..Len(sessions')
    BY <1>1
  <2>2. phase' \in Phases /\ unsafe' \in BOOLEAN
    BY DEF Phases
  <2> QED
    BY <1>1, <1>6, <1>7, <2>1, <2>2 DEF TypeOK, BoardsOK
<1>9. boards' # <<>> /\ HistoryAligned'
  BY DEF HistoryAligned, BoardsOK
<1>10. session' # 0
  BY <1>1
<1>11. PhaseHasAGame' /\ ContextReleased'
  BY <1>5, <1>6, <1>10 DEF PhaseHasAGame, ContextReleased, Idle
<1>12. ActiveSound' /\ FinishedSound' /\ FenceSound' /\ ReviewSound'
  BY <1>5, <1>6 DEF ActiveSound, FinishedSound, FenceSound, ReviewSound, Idle
<1>13. SessionSound'
  <2>1. DOMAIN clockHistory' = 1..Len(clockHistory')
    BY LenProperties
  <2> QED
    BY <2>1 DEF SessionSound
<1>14. AskedSound'
  <2>1. \A d \in Callers : call'[d].at = "thinking" => d = c
    BY <1>6
  <2> QED
    BY <1>5, <1>6, <2>1 DEF AskedSound, AtHistoryEnd, Thinking
<1> QED
  BY <1>8, <1>9, <1>11, <1>12, <1>13, <1>14 DEF GameInv

\* Replacing the current session leaves the others and their number.
LEMMA ReplacedFields ==
  ASSUME GameInv, session # 0, NEW s \in Session
  PROVE  LET ss == [sessions EXCEPT ![session] = s]
         IN  ss \in Seq(Session) /\ Len(ss) = Len(sessions) /\ ss[session] = s
<1>1. session \in 1..Len(sessions) /\ sessions \in Seq(Session)
  BY GameFields
<1> QED
  BY <1>1, ExceptSeq, LenProperties

\* The flag falls before the move is accepted: the game is over on time.
LEMMA TooLateStep ==
  ASSUME GameInv, Serialized, NEW c \in Callers, HumanMoveTooLate(c)
  PROVE  GameInv'
<1> DEFINE s == Flag(Now)
           ss == [sessions EXCEPT ![session] = s]
<1>1. /\ Enter(c) /\ UNCHANGED <<game, unsafe, commitContext, call>>
      /\ phase = "active" /\ ~unsafe /\ RecordThenAnswer(s.clock, Len(Live), ss, "finished")
  BY DEF HumanMoveTooLate, HumanMove, Playing, Fenced
<1>2. session # 0 /\ Idle /\ commitContext = None
  BY <1>1, Entered
<1>3. Now \in Session /\ Live \in Position /\ history = Live /\ Len(Live) \in Nat
      /\ cursor \in 0..Len(history) /\ call \in [Callers -> Call] /\ BoardsOK
  BY <1>2, GameFields
<1>4. s \in Session /\ s.board = Now.board /\ s.over = "timeout" /\ s.clock.state = "flagged"
      /\ s.clock \in Clock
  BY <1>3, FlagFields DEF SameGame
<1> HIDE DEF s
<1>5. ss \in Seq(Session) /\ Len(ss) = Len(sessions) /\ ss[session] = s
  BY <1>2, <1>4, ReplacedFields
<1> HIDE DEF ss
<1>6. Len(Live) \in 0..(Len(Live) + 1)
  BY <1>3
<1>7. /\ Answer(ss, session, "finished")
      /\ clockHistory' \in Seq(Clock) /\ Len(clockHistory') = Len(Live) + 1
      /\ \A i \in 1..Len(clockHistory') : clockHistory'[i].state # "paused"
  BY <1>1, <1>2, <1>4, <1>6, Records
<1>8. /\ BoardsOK' /\ Live' = Live /\ Len(boards') = Len(boards) /\ history' = Live'
      /\ cursor' \in 0..Len(history') /\ Idle' /\ Len(clockHistory') > Len(Live')
  BY <1>1, <1>2, <1>3, <1>7 DEF game, BoardsOK, Live, Idle
<1>9. "finished" \in Phases \ {"idle"} /\ call' \in [Callers -> Call] /\ unsafe' = FALSE
      /\ commitContext' = None
  BY <1>1, <1>2, <1>3, GameFields DEF Phases
<1> QED
  BY <1>2, <1>4, <1>5, <1>7, <1>8, <1>9, Settles

\* A human move: the game is over, or the engine is asked for its reply.
LEMMA HumanMoveStep ==
  ASSUME GameInv, Serialized, NEW c \in Callers, NEW m \in AnyMove, HumanMoveAccepted(c, m)
  PROVE  GameInv'
<1> DEFINE s == Switch(Now, Human(Now))
           ply == Len(Live) + 1
<1>1. /\ Enter(c) /\ phase = "active" /\ unsafe = FALSE /\ SideToMove(Live) = Human(Now)
      /\ AtHistoryEnd /\ PlayMove(m) /\ UNCHANGED <<unsafe, session>>
  BY GameFields DEF HumanMoveAccepted, HumanMove, Playing, Fenced
<1>2. session # 0 /\ Idle /\ commitContext = None /\ GoesOn(Now, Live)
      /\ Now.board = Len(boards) /\ Len(clockHistory) > Len(Live)
      /\ \A i \in 1..Len(clockHistory) : clockHistory[i].state # "paused"
  BY <1>1, Entered
<1>3. Now \in Session /\ Live \in Position /\ history = Live /\ Len(Live) \in Nat
      /\ cursor \in 0..Len(history) /\ call \in [Callers -> Call]
      /\ clockHistory \in Seq(Clock) /\ Len(clockHistory) \in Nat
      /\ session \in 1..Len(sessions)
  BY <1>2, GameFields
<1>4. /\ BoardsOK' /\ Live' = Append(Live, m) /\ history' = Live'
      /\ cursor' = Len(history') /\ cursor' \in 0..Len(history') /\ Len(boards') = Len(boards)
      /\ Len(Live') = Len(Live) + 1
  BY <1>1, PlayFields
<1>5. /\ Now.engine \in Sides /\ Human(Now) \in Sides /\ Other(Human(Now)) = Now.engine
      /\ SideToMove(Live') = Now.engine
  BY <1>1, <1>3, <1>4, SideFlips DEF Human, Session
<1>6. /\ SameGame(Now, s) /\ s.over = Now.over
      /\ s.clock = IF Now.timed THEN ClockOf("running", Other(Human(Now))) ELSE Now.clock
  BY <1>3, <1>5, SwitchFields
<1>7. s \in Session /\ GoesOn(s, Live') /\ s.board = Len(boards') /\ s.engine = Now.engine
      /\ s.clock \in Clock /\ s.clock.state # "paused" /\ s.over = "no"
  <2>1. Now.engine \in Sides \cup {None}
    BY <1>5
  <2>2. ClockOf("running", Now.engine) \in Clock /\ ClockOf("running", Now.engine).state = "running"
        /\ ClockOf("running", Now.engine).side = Now.engine
    BY <2>1, ClockFields
  <2>3. Now.clock \in Clock
    BY <1>3 DEF Session
  <2>4. s \in Session /\ s.board = Now.board /\ s.engine = Now.engine /\ s.timed = Now.timed
    BY <1>6 DEF SameGame
  <2>5. CASE Now.timed
    BY <1>2, <1>4, <1>5, <1>6, <2>2, <2>4, <2>5 DEF GoesOn
  <2>6. CASE ~Now.timed
    BY <1>2, <1>4, <1>5, <1>6, <2>3, <2>4, <2>6 DEF GoesOn
  <2> QED
    BY <2>5, <2>6
<1>8. ply \in 0..Len(clockHistory) /\ CanRecord(ply)
  BY <1>2, <1>3 DEF CanRecord
<1>9. /\ clockHistory' = Recorded(s.clock, ply)
      /\ IF m = Mate
         THEN /\ AnswerAbout(Finish(s, "position"), "finished")
              /\ UNCHANGED <<call, commitContext>>
         ELSE /\ sessions' = [sessions EXCEPT ![session] = s]
              /\ UNCHANGED phase
              /\ Ask(c, session, Append(Live, m), Append(history, m), cursor + 1, TRUE)
              /\ commitContext' = Len(Live)
  BY <1>8 DEF HumanMoveAccepted
<1> HIDE DEF s
<1>10. /\ clockHistory' \in Seq(Clock) /\ Len(clockHistory') > Len(Live')
       /\ \A i \in 1..Len(clockHistory') : clockHistory'[i].state # "paused"
  <2>1. /\ Recorded(s.clock, ply) \in Seq(Clock) /\ Len(Recorded(s.clock, ply)) = ply + 1
        /\ \A i \in 1..Len(Recorded(s.clock, ply)) : Recorded(s.clock, ply)[i].state # "paused"
    BY <1>2, <1>3, <1>7, <1>8, RecordedFields
  <2> QED
    BY <1>3, <1>4, <1>9, <2>1
<1>11. CASE m = Mate
  <2> DEFINE t == Finish(s, "position")
             ss == [sessions EXCEPT ![session] = t]
  <2>1. t \in Session /\ t.board = Now.board /\ t.over = "position"
    BY <1>2, <1>4, <1>7, FinishFields DEF SameGame
  <2> HIDE DEF t
  <2>2. ss \in Seq(Session) /\ Len(ss) = Len(sessions) /\ ss[session] = t
    BY <1>2, <2>1, ReplacedFields
  <2>3. Answer(ss, session, "finished")
    BY <1>9, <1>11 DEF AnswerAbout, t
  <2> HIDE DEF ss
  <2>4. "finished" \in Phases \ {"idle"} /\ unsafe' = FALSE /\ call' \in [Callers -> Call]
        /\ Idle' /\ commitContext' = None
    BY <1>1, <1>2, <1>3, <1>9, <1>11 DEF Phases, Idle
  <2> QED
    BY <1>2, <1>4, <1>10, <2>1, <2>2, <2>3, <2>4, Settles
<1>12. CASE m # Mate
  <2>1. sessions' \in Seq(Session) /\ Len(sessions') = Len(sessions) /\ sessions'[session] = s
    BY <1>2, <1>7, <1>9, <1>12, ReplacedFields
  <2>2. Now' = s /\ session' \in 1..Len(sessions')
    BY <1>1, <1>3, <2>1 DEF Now
  <2>3. Ask(c, session', Live', history', cursor', TRUE) /\ commitContext' = Len(Live') - 1
    <3>1. Append(history, m) = history' /\ cursor + 1 = cursor' /\ Append(Live, m) = Live'
      BY <1>1, <1>3, <1>4 DEF AtHistoryEnd
    <3>2. session' = session
      BY <1>1
    <3>3. Ask(c, session, Append(Live, m), Append(history, m), cursor + 1, TRUE)
          /\ commitContext' = Len(Live)
      BY <1>9, <1>12, Zenon
    <3>4. Len(Live) = Len(Live') - 1
      BY <1>3, <1>4
    <3> QED
      BY <3>1, <3>2, <3>3, <3>4, Zenon
  <2>4. Live' # <<>> /\ phase' = "active" /\ unsafe' = FALSE
    BY <1>1, <1>3, <1>4, <1>9, <1>12, FrontOfAppend
  <2> QED
    BY <1>2, <1>4, <1>5, <1>7, <1>10, <2>1, <2>2, <2>3, <2>4, AsksStep
<1> QED
  BY <1>11, <1>12

\* A retry pauses the game again, or resumes its clock; the engine is asked when it is
\* its turn.
LEMMA RetryStep ==
  ASSUME GameInv, Serialized, NEW c \in Callers, RetryEngineMove(c)
  PROVE  GameInv'
<1> DEFINE s == Resume(Now)
<1>1. /\ Enter(c) /\ phase = "error" /\ session # 0 /\ unsafe = FALSE
      /\ UNCHANGED <<game, unsafe, clockHistory, commitContext>>
  BY GameFields DEF RetryEngineMove, Fenced
<1>2. /\ Now \in Session /\ Live \in Position /\ history = Live /\ cursor \in 0..Len(history)
      /\ session \in 1..Len(sessions) /\ call \in [Callers -> Call] /\ Len(Live) \in Nat
      /\ BoardsOK /\ sessions \in Seq(Session) /\ clockHistory \in Seq(Clock)
  BY <1>1, GameFields
<1>3. /\ Idle /\ commitContext = None /\ Now.board = Len(boards)
      /\ Len(clockHistory) > Len(Live)
      /\ \A i \in 1..Len(clockHistory) : clockHistory[i].state # "paused"
  BY <1>1, Entered
<1>4. /\ s \in Session /\ s.board = Now.board /\ s.engine = Now.engine /\ s.over = Now.over
      /\ s.timed = Now.timed /\ (s.timed => s.clock.state = "running")
      /\ (~s.timed => s = Now)
  BY <1>2, ResumeFields DEF SameGame
<1>5. CASE AnswerAbout(Pause(Now), "error") /\ UNCHANGED call
  <2>1. Pause(Now) \in Session /\ Pause(Now).board = Now.board /\ Pause(Now).engine = Now.engine
        /\ Pause(Now).over = Look(Now).over
    BY <1>2, PauseFields DEF SameGame
  <2>2. Now.over # "no" => Pause(Now).over # "no"
    BY <1>2, <2>1, LookFields
  <2>3. \/ cursor' = Len(history) \/ Pause(Now).over # "no"
        \/ SideToMove(Live) = Human(Pause(Now))
    BY <1>1, <2>1, <2>2 DEF GameInv, ReviewSound, AtHistoryEnd, Human, game
  <2>4. "error" \in Phases \ {"idle"} /\ cursor' \in 0..Len(history)
        /\ UNCHANGED <<boards, history, unsafe, clockHistory, commitContext, call>>
    BY <1>1, <1>2, <1>5 DEF Phases, game
  <2> QED
    BY <1>1, <1>5, <2>1, <2>3, <2>4, LooksStep
<1>6. ASSUME CanResume(Now), Valid(s, SideToMove(Live)), AnswerAbout(s, "active"),
             IF SideToMove(Live) = s.engine
             THEN Ask(c, session, Live, history, cursor, FALSE) ELSE UNCHANGED call
      PROVE  GameInv'
  <2>1. s.over = "no"
    BY <1>4, <1>6 DEF CanResume
  <2>2. s.clock.state \in {"running", "stopped"} /\ GoesOn(s, Live)
    BY <1>4, <1>6, <2>1 DEF Valid, GoesOn
  <2>3. CASE SideToMove(Live) # s.engine
    <3>1. SideToMove(Live) = Human(s)
      BY <1>2, <1>4, <2>3, SideFlips DEF Human, Session, Sides, Other
    <3>2. "active" \in Phases \ {"idle"} /\ cursor' \in 0..Len(history)
          /\ UNCHANGED <<boards, history, unsafe, clockHistory, commitContext, call>>
      BY <1>1, <1>2, <1>6, <2>3 DEF Phases, game
    <3> QED
      BY <1>1, <1>4, <1>6, <2>2, <3>1, <3>2, LooksStep
  <2>4. CASE SideToMove(Live) = s.engine
    <3> DEFINE ss == [sessions EXCEPT ![session] = s]
    <3>1. ss \in Seq(Session) /\ Len(ss) = Len(sessions) /\ ss[session] = s
      BY <1>1, <1>4, ReplacedFields
    <3>2. Answer(ss, session, "active") /\ "active" \in Phases
      BY <1>6 DEF AnswerAbout, Phases
    <3> HIDE DEF ss
    <3>3. Look(s) = s
      BY <1>4, <2>2 DEF Look
    <3>4. session \in 1..Len(ss)
      BY <1>2, <3>1
    <3>5. /\ session' = session /\ sessions' \in Seq(Session) /\ Len(sessions') = Len(sessions)
          /\ sessions'[session] = s /\ phase' = "active"
      BY <1>3, <2>1, <3>1, <3>2, <3>3, <3>4, AnswerFields
    <3>6. Now' = s /\ session' \in 1..Len(sessions')
      BY <1>2, <3>5 DEF Now
    <3>7. cursor = Len(history)
      <4>1. SideToMove(Live) # Human(Now)
        BY <1>2, <1>4, <2>4, SideFlips DEF Human, Session
      <4> QED
        BY <1>1, <1>4, <2>1, <4>1 DEF GameInv, ReviewSound, AtHistoryEnd
    <3>8. /\ BoardsOK' /\ Live' = Live /\ history' = Live' /\ cursor' = Len(history')
          /\ cursor' = cursor /\ history' = history
          /\ unsafe' = FALSE /\ clockHistory' = clockHistory /\ commitContext' = None
          /\ boards' = boards
      BY <1>1, <1>2, <1>3, <3>7 DEF game, BoardsOK, Live
    <3>9. Ask(c, session', Live', history', cursor', FALSE)
      BY <1>6, <2>4, <3>5, <3>8
    <3>10. /\ Now'.board = Len(boards') /\ GoesOn(Now', Live')
           /\ SideToMove(Live') = Now'.engine /\ Len(clockHistory') > Len(Live')
           /\ \A i \in 1..Len(clockHistory') : clockHistory'[i].state # "paused"
           /\ clockHistory' \in Seq(Clock)
      BY <1>2, <1>3, <1>4, <2>2, <2>4, <3>6, <3>8
    <3> QED
      BY <1>3, <3>5, <3>6, <3>8, <3>9, <3>10, AsksStep
  <2> QED
    BY <2>3, <2>4
<1> QED
  BY <1>5, <1>6 DEF RetryEngineMove

\* A new game starts on a board of its own; the engine with White is asked at once.
LEMMA StartStep ==
  ASSUME GameInv, Serialized, NEW c \in Callers, NEW engine \in Sides, NEW timed \in BOOLEAN,
         StartEngineGame(c, engine, timed)
  PROVE  GameInv'
<1> DEFINE clock == IF timed THEN ClockOf("running", "w") ELSE ClockOf("stopped", None)
           s == [engine |-> engine, board |-> Len(boards) + 1, timed |-> timed, clock |-> clock,
                 takeback |-> FALSE, over |-> "no"]
           i == Len(sessions) + 1
<1>1. /\ Enter(c) /\ boards' = Append(boards, <<>>) /\ history' = <<>> /\ cursor' = 0
      /\ unsafe' = FALSE /\ clockHistory' = <<clock>>
      /\ sessions' = Append(sessions, s) /\ session' = i /\ phase' = "active"
      /\ IF engine = "w" THEN Ask(c, i, <<>>, <<>>, 0, FALSE) ELSE UNCHANGED call
      /\ UNCHANGED commitContext
  BY DEF StartEngineGame
<1>2. BoardsOK /\ sessions \in Seq(Session) /\ Len(sessions) \in Nat /\ Len(boards) \in Nat
      /\ call \in [Callers -> Call]
  BY GameFields
<1>3. Idle /\ commitContext = None
  BY <1>1, Entered
<1>4. BoardsOK' /\ Live' = <<>> /\ Len(boards') = Len(boards) + 1
  <2>1. <<>> \in Position
    BY DEF Position
  <2>2. Last(Append(boards, <<>>)) = <<>> /\ Len(Append(boards, <<>>)) = Len(boards) + 1
    BY <1>2, <2>1, AppendProperties DEF BoardsOK, Last
  <2> QED
    BY <1>1, <1>2, <2>2, NewBoardKeeps DEF Live
<1>5. /\ clock \in Clock /\ clock.state = IF timed THEN "running" ELSE "stopped"
      /\ clock.side = IF timed THEN "w" ELSE None
  <2>1. {"w", None} \subseteq Sides \cup {None}
    BY DEF Sides
  <2> QED
    BY <2>1, ClockFields
<1> HIDE DEF clock
<1>6. s \in Session /\ s.engine = engine /\ s.board = Len(boards) + 1 /\ s.timed = timed
      /\ s.clock = clock /\ s.over = "no"
  BY <1>2, <1>5 DEF Session
<1> HIDE DEF s
<1>7. /\ sessions' \in Seq(Session) /\ Len(sessions') = i /\ sessions'[i] = s /\ i \in 1..i
      /\ i \in Nat
  BY <1>1, <1>2, <1>6, AppendProperties
<1>8. Now' = s /\ session' \in 1..Len(sessions')
  BY <1>1, <1>7 DEF Now
<1> HIDE DEF i
<1>9. Len(<<>>) = 0 /\ SideToMove(<<>>) = "w"
  BY DEF SideToMove
<1>10. GoesOn(Now', Live') /\ Now'.board = Len(boards')
  BY <1>4, <1>5, <1>6, <1>8, <1>9 DEF GoesOn
<1>11. /\ clockHistory' \in Seq(Clock) /\ Len(clockHistory') > Len(Live')
       /\ \A j \in 1..Len(clockHistory') : clockHistory'[j].state # "paused"
  <2>1. <<clock>> \in Seq(Clock) /\ Len(<<clock>>) = 1 /\ <<clock>>[1] = clock
    BY <1>5
  <2>2. \A j \in 1..1 : j = 1
    OBVIOUS
  <2> QED
    BY <1>1, <1>4, <1>5, <1>9, <2>1, <2>2
<1>12. history' = Live' /\ cursor' = Len(history')
  BY <1>1, <1>4, <1>9
<1>13. CASE engine = "w"
  <2>1. Ask(c, session', Live', history', cursor', FALSE)
    BY <1>1, <1>4, <1>13
  <2> QED
    BY <1>1, <1>3, <1>4, <1>6, <1>7, <1>8, <1>9, <1>10, <1>11, <1>12, <1>13, <2>1, AsksStep
<1>14. CASE engine # "w"
  <2>1. call' = call /\ Idle' /\ commitContext' = None
    BY <1>1, <1>3, <1>14 DEF Idle
  <2>2. SideToMove(Live') = Human(Now')
    BY <1>4, <1>6, <1>8, <1>9, <1>14 DEF Human, Other, Sides
  <2>3. session' # 0 /\ session' \in 0..Len(sessions') /\ cursor' \in 0..Len(history')
    BY <1>1, <1>4, <1>7, <1>8, <1>9
  <2>4. TypeOK'
    <3>1. Live' \in Position /\ phase' \in Phases /\ unsafe' \in BOOLEAN
          /\ commitContext' \in Nat \cup {None}
      BY <1>1, <1>4, <2>1, LastOfBoards DEF Phases, Live
    <3> QED
      BY <1>2, <1>4, <1>7, <1>11, <1>12, <2>1, <2>3, <3>1 DEF TypeOK, BoardsOK
  <2>5. PhaseHasAGame' /\ ContextReleased' /\ HistoryAligned' /\ boards' # <<>>
    BY <1>1, <1>4, <1>12, <2>1, <2>3 DEF PhaseHasAGame, ContextReleased, HistoryAligned, BoardsOK
  <2>6. ActiveSound' /\ FinishedSound' /\ FenceSound' /\ ReviewSound' /\ AskedSound'
    BY <1>1, <1>10, <2>1, <2>2
       DEF ActiveSound, FinishedSound, FenceSound, ReviewSound, AskedSound, Idle, Thinking
  <2>7. SessionSound'
    <3>1. DOMAIN clockHistory' = 1..Len(clockHistory')
      BY <1>11, LenProperties
    <3> QED
      BY <1>10, <1>11, <3>1 DEF SessionSound
  <2> QED
    BY <2>4, <2>5, <2>6, <2>7 DEF GameInv
<1> QED
  BY <1>13, <1>14

-----------------------------------------------------------------------------
(* Takebacks, and the flag that falls *)

\* A takeback that is offered leads back to the human's move.
LEMMA TakebackSide ==
  ASSUME GameInv, session # 0, MayTakeBack
  PROVE  /\ TakebackTo \in Position /\ Len(TakebackTo) \in Nat /\ Len(TakebackTo) < Len(Live)
         /\ SideToMove(TakebackTo) = Human(Now)
<1> DEFINE p == Front(Live)
<1>1. Live \in Position /\ Len(Live) \in Nat /\ Now \in Session /\ BoardsOK
  BY GameFields
<1>2. Human(Now) \in Sides
  BY <1>1, SideFlips DEF Human, Session
<1>3. PICK i \in DOMAIN Live : SideToMove(SubSeq(Live, 1, i - 1)) = Human(Now)
  BY DEF MayTakeBack
<1>4. i \in 1..Len(Live)
  BY <1>1, LenProperties DEF Position
<1>5. Live # <<>>
  BY <1>1, <1>4, EmptySeq DEF Position
<1>6. p \in Position /\ Len(p) = Len(Live) - 1 /\ Len(p) \in Nat
  BY <1>1, <1>4, <1>5, FrontType
<1>7. CASE SideToMove(p) = Human(Now)
  BY <1>1, <1>6, <1>7 DEF TakebackTo
<1>8. CASE SideToMove(p) # Human(Now)
  <2>1. p # <<>>
    <3> SUFFICES ASSUME p = <<>>
                 PROVE  FALSE
      OBVIOUS
    <3>1. Len(<<>>) = 0
      OBVIOUS
    <3>2. Len(Live) = 1 /\ i = 1
      BY <1>1, <1>4, <1>6, <3>1
    <3>3. 1 \in 1..(Len(Live) + 1) /\ 0 \in (1 - 1)..Len(Live) /\ 0 - 1 + 1 = 0
      BY <1>1
    <3>4. Len(SubSeq(Live, 1, 0)) = 0
      BY <1>1, <3>3, SubSeqProperties DEF Position
    <3>5. SideToMove(SubSeq(Live, 1, 0)) = SideToMove(p)
      BY <3>1, <3>4 DEF SideToMove
    <3> QED
      BY <1>3, <1>8, <3>2, <3>5
  <2> HIDE DEF p
  <2>2. Front(p) \in Position /\ Len(Front(p)) = Len(p) - 1 /\ Len(Front(p)) \in Nat
    BY <1>6, <2>1, FrontType, LenProperties DEF Position
  <2>3. SideToMove(Front(p)) = Other(SideToMove(p)) /\ SideToMove(p) \in Sides
    BY <1>6, <2>1, SideFlips
  <2>4. SideToMove(Front(p)) = Human(Now)
    BY <1>2, <1>8, <2>3 DEF Sides, Other
  <2>5. TakebackTo = Front(p)
    BY <1>8 DEF TakebackTo, p
  <2> QED
    BY <1>1, <1>6, <2>2, <2>4, <2>5
<1> QED
  BY <1>7, <1>8

\* The session a takeback returns to goes on from there.
LEMMA TakenBackFields ==
  ASSUME GameInv, session # 0, MayTakeBack, TakebackWorks
  PROVE  LET t == TakenBack(Now, TakebackTo)
         IN  /\ t \in Session /\ t.board = Now.board /\ t.engine = Now.engine
             /\ t.over = "no" /\ GoesOn(t, TakebackTo)
             /\ Len(TakebackTo) + 1 \in 1..Len(clockHistory)
<1> DEFINE n == Len(TakebackTo) + 1
           t == TakenBack(Now, TakebackTo)
<1>1. Now \in Session /\ clockHistory \in Seq(Clock) /\ Len(clockHistory) \in Nat
  BY GameFields
<1>2. Len(TakebackTo) \in Nat
  BY TakebackSide
<1>3. n \in 1..Len(clockHistory)
  BY <1>1, <1>2 DEF TakebackWorks
<1>4. clockHistory[n] \in Clock /\ clockHistory[n].state # "paused"
  BY <1>1, <1>3, ElementOfSeq, LenProperties DEF GameInv, SessionSound
<1>5. t = [Now EXCEPT !.over = "no", !.takeback = FALSE, !.clock = clockHistory[n]]
  BY DEF TakenBack
<1>6. Valid(t, SideToMove(TakebackTo))
  BY DEF TakebackWorks
<1> HIDE DEF n, t
<1>7. t \in Session /\ t.board = Now.board /\ t.engine = Now.engine /\ t.over = "no"
      /\ t.clock = clockHistory[n]
  BY <1>1, <1>4, <1>5 DEF Session
<1>8. GoesOn(t, TakebackTo)
  <2>1. t.clock.state # "paused" /\ t.clock.state # "flagged" /\ t.timed \in BOOLEAN
    BY <1>4, <1>6, <1>7 DEF Valid, Session
  <2>2. t.timed => t.clock.state = "running"
    BY <1>6, <1>7, <2>1 DEF Valid
  <2> QED
    BY <1>6, <1>7, <2>1, <2>2 DEF Valid, GoesOn
<1> QED
  BY <1>3, <1>7, <1>8 DEF n, t

\* A takeback that works: the game goes on from the human's last move.
LEMMA TakebackStep ==
  ASSUME GameInv, Serialized, NEW c \in Callers, TakebackAccepted(c)
  PROVE  GameInv'
<1> DEFINE p == TakebackTo
           t == TakenBack(Now, TakebackTo)
           ss == [sessions EXCEPT ![session] = t]
<1>1. /\ Enter(c) /\ session # 0 /\ MayTakeBack /\ TakebackWorks /\ GameBecomes(p)
      /\ clockHistory' = Committed(p) /\ UNCHANGED <<unsafe, commitContext, call>>
      /\ AnswerAbout(t, "active")
  BY DEF TakebackAccepted
<1>2. p \in Position /\ Len(p) \in Nat /\ SideToMove(p) = Human(Now)
  BY <1>1, TakebackSide
<1>3. /\ t \in Session /\ t.board = Now.board /\ t.engine = Now.engine
      /\ GoesOn(t, p) /\ Len(p) + 1 \in 1..Len(clockHistory)
  BY <1>1, TakenBackFields
<1> HIDE DEF p, t
<1>4. BoardsOK /\ call \in [Callers -> Call] /\ Len(boards) \in Nat
      /\ clockHistory \in Seq(Clock) /\ Len(clockHistory) \in Nat /\ unsafe \in BOOLEAN
  BY GameFields
<1>5. /\ BoardsOK' /\ Live' = p /\ history' = p /\ cursor' = Len(p)
      /\ cursor' \in 0..Len(history') /\ Len(boards') = Len(boards)
  BY <1>1, <1>2, <1>4, BecomesFields
<1>6. /\ Idle /\ commitContext = None
      /\ \A i \in 1..Len(clockHistory) : clockHistory[i].state # "paused"
  BY <1>1, Entered
<1>7. ss \in Seq(Session) /\ Len(ss) = Len(sessions) /\ ss[session] = t
  BY <1>1, <1>3, ReplacedFields
<1>8. Answer(ss, session, "active")
  BY <1>1 DEF AnswerAbout, t
<1> HIDE DEF ss
<1>9. /\ clockHistory' \in Seq(Clock) /\ Len(clockHistory') = Len(p) + 1
      /\ \A i \in 1..Len(clockHistory') : clockHistory'[i].state # "paused"
  <2> DEFINE n == Len(p) + 1
             h == SubSeq(clockHistory, 1, n)
  <2>1. /\ 1 \in 1..(Len(clockHistory) + 1) /\ n \in (1 - 1)..Len(clockHistory)
        /\ n - 1 + 1 = n /\ n \in Nat
    BY <1>2, <1>3, <1>4
  <2> HIDE DEF n
  <2>2. h \in Seq(Clock) /\ Len(h) = n /\ \A i \in 1..n : h[i] = clockHistory[1 + i - 1]
    BY <1>4, <2>1, SubSeqProperties
  <2>3. \A i \in 1..n : 1 + i - 1 \in 1..Len(clockHistory)
    BY <1>4, <2>1
  <2>4. clockHistory' = h
    BY <1>1 DEF Committed, n
  <2> HIDE DEF h
  <2> QED
    BY <1>6, <2>2, <2>3, <2>4 DEF n
<1>10. /\ unsafe' = FALSE /\ Idle' /\ commitContext' = None /\ call' \in [Callers -> Call]
       /\ "active" \in Phases \ {"idle"} /\ Len(clockHistory') > Len(Live')
  BY <1>1, <1>2, <1>4, <1>5, <1>6, <1>9 DEF MayTakeBack, Fenced, Idle, Phases
<1>11. GoesOn(ss[session], Live') /\ SideToMove(Live') = Human(ss[session])
       /\ ss[session].board = Now.board
  BY <1>2, <1>3, <1>5, <1>7 DEF Human
<1> QED
  BY <1>1, <1>5, <1>6, <1>7, <1>8, <1>9, <1>10, <1>11, Settles

\* A takeback that fails leaves a game to be retried, or one nobody trusts.
LEMMA TakebackFailsStep ==
  ASSUME GameInv, Serialized, NEW c \in Callers, TakebackFails(c)
  PROVE  GameInv'
<1> DEFINE asks == phase # "finished" /\ Look(Now).over = "no"
           s == [Look(Now) EXCEPT !.takeback = @ \/ asks]
<1>1. /\ Enter(c) /\ session # 0 /\ MayTakeBack
      /\ UNCHANGED <<clockHistory, commitContext, call>>
      /\ \/ UNCHANGED <<game, unsafe>> /\ AnswerAbout(Pause(s), "error")
         \/ /\ UNCHANGED game \/ (UndoWorks /\ GameBecomes(TakebackTo))
            /\ unsafe' = TRUE /\ AnswerAbout(s, "error")
  BY DEF TakebackFails
<1>2. Now \in Session /\ Live \in Position /\ BoardsOK /\ history = Live
      /\ cursor \in 0..Len(history) /\ clockHistory \in Seq(Clock) /\ call \in [Callers -> Call]
      /\ Len(Live) \in Nat /\ Len(clockHistory) \in Nat /\ unsafe \in BOOLEAN
  BY <1>1, GameFields
<1>3. /\ Look(Now) \in Session /\ SameGame(Now, Look(Now)) /\ Look(Look(Now)) = Look(Now)
      /\ (Now.over # "no" => Look(Now).over # "no")
  BY <1>2, LookFields DEF SameGame
<1>4. s \in Session /\ SameGame(Look(Now), s) /\ s.clock = Look(Now).clock
      /\ s.over = Look(Now).over
  <2> DEFINE t == Look(Now)
             takeback == t.takeback \/ asks
  <2>1. t \in Session /\ takeback \in BOOLEAN
    BY <1>3
  <2>2. s = [t EXCEPT !.takeback = takeback]
    OBVIOUS
  <2> HIDE DEF s, t, takeback
  <2>3. SameGame(t, s) /\ s.clock = t.clock /\ s.over = t.over
    BY <2>1, <2>2 DEF Session, SameGame
  <2> QED
    BY <2>3 DEF SameGame, t
<1> HIDE DEF s
<1>5. /\ s.board = Now.board /\ s.engine = Now.engine /\ (Now.over # "no" => s.over # "no")
      /\ Pause(s) \in Session /\ Pause(s).board = Now.board /\ Pause(s).engine = Now.engine
      /\ (Now.over # "no" => Pause(s).over # "no")
  <2>1. SameGame(s, Pause(s)) /\ Pause(s).over = Look(s).over
        /\ (s.over # "no" => Look(s).over # "no")
    BY <1>4, PauseFields, LookFields
  <2> QED
    BY <1>3, <1>4, <2>1 DEF SameGame
<1>6. cursor = Len(history) \/ Now.over # "no" \/ SideToMove(Live) = Human(Now)
  <2>1. phase \in {"active", "finished", "error"}
    BY <1>1 DEF MayTakeBack
  <2> QED
    BY <1>1, <2>1, Entered DEF GameInv, ReviewSound, AtHistoryEnd
<1>7. "error" \in Phases \ {"idle"}
  BY DEF Phases
<1>8. CASE UNCHANGED <<game, unsafe>> /\ AnswerAbout(Pause(s), "error")
  <2>1. \/ cursor' = Len(history) \/ Pause(s).over # "no"
        \/ SideToMove(Live) = Human(Pause(s))
    BY <1>5, <1>6, <1>8 DEF game, Human
  <2>2. cursor' \in 0..Len(history)
        /\ UNCHANGED <<boards, history, unsafe, clockHistory, commitContext, call>>
    BY <1>1, <1>2, <1>8 DEF game
  <2> QED
    BY <1>1, <1>5, <1>7, <1>8, <2>1, <2>2, LooksStep
<1>9. CASE /\ UNCHANGED game \/ (UndoWorks /\ GameBecomes(TakebackTo))
           /\ unsafe' = TRUE /\ AnswerAbout(s, "error")
  <2> DEFINE ss == [sessions EXCEPT ![session] = s]
  <2>1. ss \in Seq(Session) /\ Len(ss) = Len(sessions) /\ ss[session] = s
    BY <1>1, <1>4, ReplacedFields
  <2>2. Answer(ss, session, "error")
    BY <1>9 DEF AnswerAbout
  <2> HIDE DEF ss
  <2>3. /\ Idle /\ commitContext = None /\ Len(clockHistory) > Len(Live)
        /\ \A i \in 1..Len(clockHistory) : clockHistory[i].state # "paused"
    BY <1>1, Entered
  <2>4. /\ BoardsOK' /\ Len(boards') = Len(boards) /\ history' = Live'
        /\ cursor' \in 0..Len(history') /\ Len(Live') \in Nat /\ Len(Live') <= Len(Live)
        /\ \/ cursor' = Len(history') \/ s.over # "no" \/ SideToMove(Live') = Human(s)
    <3>1. CASE UNCHANGED game
      <4>1. BoardsOK' /\ Live' = Live /\ history' = history /\ cursor' = cursor /\ boards' = boards
        BY <1>2, <3>1 DEF game, BoardsOK, Live
      <4> QED
        BY <1>2, <1>5, <1>6, <4>1 DEF Human
    <3>2. CASE GameBecomes(TakebackTo)
      <4>1. TakebackTo \in Position /\ Len(TakebackTo) \in Nat /\ Len(TakebackTo) < Len(Live)
        BY <1>1, TakebackSide
      <4>2. /\ BoardsOK' /\ Live' = TakebackTo /\ history' = TakebackTo
            /\ cursor' = Len(TakebackTo) /\ cursor' \in 0..Len(history')
            /\ Len(boards') = Len(boards)
        BY <1>2, <3>2, <4>1, BecomesFields
      <4> QED
        BY <1>2, <4>1, <4>2
    <3> QED
      BY <1>9, <3>1, <3>2
  <2>5. /\ unsafe' \in BOOLEAN /\ Idle' /\ commitContext' = None /\ call' \in [Callers -> Call]
        /\ clockHistory' = clockHistory /\ Len(clockHistory') > Len(Live')
    BY <1>1, <1>2, <1>9, <2>3, <2>4 DEF Idle
  <2> QED
    BY <1>1, <1>2, <1>5, <1>7, <2>1, <2>2, <2>3, <2>4, <2>5, Settles
<1> QED
  BY <1>1, <1>8, <1>9

\* A flag falls: the game that goes on is one whose clock has run out.
LEMMA FlagFallsStep ==
  ASSUME GameInv, NEW i \in DOMAIN sessions, FlagFalls(i)
  PROVE  GameInv'
<1> DEFINE clock == [sessions[i].clock EXCEPT !.state = "flagged"]
           s == [sessions[i] EXCEPT !.clock = clock]
<1>1. /\ sessions[i].clock.state = "running" /\ sessions' = [sessions EXCEPT ![i] = s]
      /\ UNCHANGED <<game, phase, unsafe, session, clockHistory, commitContext, call>>
  BY DEF FlagFalls
<1>2. sessions \in Seq(Session) /\ i \in 1..Len(sessions) /\ sessions[i] \in Session
      /\ Len(sessions) \in Nat /\ session \in 0..Len(sessions)
  BY GameFields, LenProperties, ElementOfSeq
<1>3. sessions[i].clock \in Clock
  BY <1>2 DEF Session
<1>4. clock \in Clock /\ clock.state = "flagged"
  BY <1>3, ClockFields
<1> HIDE DEF clock
<1>5. SameGame(sessions[i], s) /\ s.over = sessions[i].over /\ s.clock = clock
  BY <1>2, <1>4, WithClock
<1> HIDE DEF s
<1>6. /\ sessions' \in Seq(Session) /\ Len(sessions') = Len(sessions) /\ sessions'[i] = s
      /\ \A j \in 1..Len(sessions) : j # i => sessions'[j] = sessions[j]
  BY <1>1, <1>2, <1>5, ExceptSeq, LenProperties DEF SameGame
<1>7. UNCHANGED <<boards, history, cursor>> /\ Live' = Live
  BY <1>1 DEF game, Live
<1>8. session # 0 => /\ Now'.board = Now.board /\ Now'.engine = Now.engine
                     /\ Now'.over = Now.over /\ Human(Now') = Human(Now)
                     /\ (GoesOn(Now, Live) => GoesOn(Now', Live))
  <2> SUFFICES ASSUME session # 0
               PROVE  /\ Now'.board = Now.board /\ Now'.engine = Now.engine
                      /\ Now'.over = Now.over /\ Human(Now') = Human(Now)
                      /\ (GoesOn(Now, Live) => GoesOn(Now', Live))
    OBVIOUS
  <2>1. session \in 1..Len(sessions) /\ session' = session
    BY <1>1, <1>2
  <2>2. CASE session = i
    <3>1. Now' = s /\ Now = sessions[i]
      BY <1>6, <2>1, <2>2 DEF Now
    <3> QED
      BY <1>1, <1>4, <1>5, <3>1 DEF SameGame, GoesOn, Human
  <2>3. CASE session # i
    <3>1. Now' = Now
      BY <1>6, <2>1, <2>3 DEF Now
    <3> QED
      BY <3>1
  <2> QED
    BY <2>2, <2>3
<1>9. phase \in {"active", "finished"} => session # 0
  BY DEF GameInv, PhaseHasAGame
<1>10. TypeOK' /\ boards' # <<>> /\ HistoryAligned' /\ PhaseHasAGame' /\ ContextReleased'
  BY <1>1, <1>6, <1>7
     DEF GameInv, TypeOK, HistoryAligned, PhaseHasAGame, ContextReleased, Idle, Live
<1>11. ActiveSound'
  BY <1>1, <1>7, <1>8, <1>9 DEF GameInv, ActiveSound, Idle
<1>12. SessionSound' /\ FinishedSound' /\ FenceSound'
  BY <1>1, <1>7, <1>8, <1>9 DEF GameInv, SessionSound, FinishedSound, FenceSound
<1>13. ReviewSound'
  <2>1. phase = "error" => session # 0
    BY DEF GameInv, PhaseHasAGame
  <2> QED
    BY <1>1, <1>7, <1>8, <2>1 DEF GameInv, ReviewSound, AtHistoryEnd
<1>14. AskedSound'
  BY <1>1, <1>7, <1>8, <1>9 DEF GameInv, AskedSound, AtHistoryEnd, Thinking
<1> QED
  BY <1>10, <1>11, <1>12, <1>13, <1>14 DEF GameInv

-----------------------------------------------------------------------------
(* The engine's replies *)

\* What is known of the game when the reply comes, and what is left when it returns.
LEMMA Waited ==
  ASSUME GameInv, NEW c \in Callers, Thinking(c)
  PROVE  /\ session # 0 /\ call[c].session = session /\ Asked(c) = Now
         /\ call[c].asked = Live /\ call[c].history = history
         /\ call[c].cursor = Len(history) /\ cursor = Len(history)
         /\ SideToMove(Live) = Now.engine /\ GoesOn(Now, Live) /\ Now.board = Len(boards)
         /\ phase = "active" /\ unsafe = FALSE /\ Len(clockHistory) > Len(Live)
         /\ \A i \in 1..Len(clockHistory) : clockHistory[i].state # "paused"
         /\ commitContext = None \/ commitContext = Len(Live) - 1
         /\ Returns(c) => Idle' /\ commitContext' = None /\ call' \in [Callers -> Call]
<1>1. /\ \A d \in Callers : Thinking(d) => d = c
      /\ phase = "active"
      /\ call[c].session = session /\ call[c].asked = Live /\ call[c].history = history
      /\ call[c].cursor = Len(history) /\ AtHistoryEnd /\ SideToMove(Live) = Now.engine
      /\ IF call[c].moving THEN call[c].previous = None /\ commitContext = Len(Live) - 1
                           ELSE commitContext = None
  BY DEF GameInv, AskedSound
<1>2. session # 0
  BY <1>1 DEF GameInv, PhaseHasAGame
<1>3. GoesOn(Now, Live) /\ Now.board = Len(boards) /\ Len(clockHistory) > Len(Live)
  BY <1>1, <1>2 DEF GameInv, ActiveSound, SessionSound
<1>4. unsafe = FALSE
  BY <1>1, GameFields DEF GameInv, FenceSound
<1>5. \A i \in 1..Len(clockHistory) : clockHistory[i].state # "paused"
  BY GameFields, LenProperties DEF GameInv, SessionSound
<1>6. ASSUME Returns(c)
      PROVE  Idle' /\ commitContext' = None /\ call' \in [Callers -> Call]
  <2>1. call' = [call EXCEPT ![c] = NoCall]
        /\ commitContext' = IF call[c].moving THEN call[c].previous ELSE commitContext
    BY <1>6 DEF Returns
  <2>2. NoCall \in Call /\ NoCall.at = "idle"
    <3>1. <<>> \in Position
      BY DEF Position
    <3> QED
      BY <3>1 DEF NoCall, Call
  <2>3. call \in [Callers -> Call]
    BY GameFields
  <2>4. call' \in [Callers -> Call]
    BY <2>1, <2>2, <2>3
  <2>5. \A d \in Callers : d # c => call[d].at = "idle"
    BY <1>1, <2>3 DEF Thinking, Call
  <2>6. Idle'
    BY <2>1, <2>2, <2>3, <2>5 DEF Idle
  <2> QED
    BY <1>1, <2>1, <2>4, <2>6
<1>7. Asked(c) = Now
  BY <1>1 DEF Asked, Now
<1>8. commitContext = None \/ commitContext = Len(Live) - 1
  BY <1>1
<1>9. cursor = Len(history)
  BY <1>1 DEF AtHistoryEnd
<1> QED
  BY <1>1, <1>2, <1>3, <1>4, <1>5, <1>6, <1>7, <1>8, <1>9, Zenon

\* A reply that fails leaves the game as it was: paused to be retried, or over on time.
LEMMA GivesUp ==
  ASSUME GameInv, NEW c \in Callers, Thinking(c),
         BoardsOK', Len(boards') = Len(boards), Live' = Live, history' = Live,
         cursor' = Len(history'), UNCHANGED unsafe, Returns(c),
         NEW s \in Session, s.board = Now.board, s.clock.state # "paused",
         NEW looked, looked = [sessions EXCEPT ![session] = Look(s)],
         \/ PauseAfterFailure(looked) /\ UNCHANGED clockHistory
         \/ /\ Look(s).over # "no"
            /\ RecordThenAnswer(s.clock, Len(Live), looked, "finished")
  PROVE  GameInv'
<1> DEFINE paused == [looked EXCEPT ![session] = Pause(@)]
<1>1. /\ session # 0 /\ unsafe = FALSE /\ Len(clockHistory) > Len(Live)
      /\ \A i \in 1..Len(clockHistory) : clockHistory[i].state # "paused"
      /\ Idle' /\ commitContext' = None /\ call' \in [Callers -> Call]
  BY Waited
<1>2. Len(Live) \in Nat /\ clockHistory \in Seq(Clock) /\ session \in 1..Len(sessions)
      /\ sessions \in Seq(Session) /\ Len(sessions) \in Nat
  BY <1>1, GameFields
<1>3. cursor' \in 0..Len(history') /\ history' = Live' /\ unsafe' = FALSE
  BY <1>1, <1>2
<1>4. Look(s) \in Session /\ Look(s).board = Now.board
  BY LookFields DEF SameGame
<1>5. looked \in Seq(Session) /\ Len(looked) = Len(sessions) /\ looked[session] = Look(s)
  BY <1>1, <1>4, ReplacedFields
<1>6. CASE PauseAfterFailure(looked) /\ UNCHANGED clockHistory
  <2>1. Pause(Look(s)) \in Session /\ Pause(Look(s)).board = Now.board
    BY <1>4, PauseFields DEF SameGame
  <2>2. paused \in Seq(Session) /\ Len(paused) = Len(sessions) /\ paused[session] = Pause(Look(s))
    BY <1>2, <1>5, <2>1, ExceptSeq, LenProperties
  <2>3. Answer(paused, session, "error")
    BY <1>1, <1>6 DEF PauseAfterFailure
  <2> HIDE DEF paused
  <2>4. "error" \in Phases \ {"idle"}
    BY DEF Phases
  <2>5. clockHistory' = clockHistory /\ Len(clockHistory') > Len(Live')
    BY <1>1, <1>6
  <2> QED
    BY <1>1, <1>2, <1>3, <2>1, <2>2, <2>3, <2>4, <2>5, Settles
<1>7. CASE Look(s).over # "no" /\ RecordThenAnswer(s.clock, Len(Live), looked, "finished")
  <2>1. s.clock \in Clock /\ Len(Live) \in 0..(Len(Live) + 1)
    BY <1>2 DEF Session
  <2>2. /\ Answer(looked, session, "finished")
        /\ clockHistory' \in Seq(Clock) /\ Len(clockHistory') = Len(Live) + 1
        /\ \A i \in 1..Len(clockHistory') : clockHistory'[i].state # "paused"
    BY <1>1, <1>7, <2>1, Records
  <2>3. "finished" \in Phases \ {"idle"} /\ Len(clockHistory') > Len(Live')
    BY <1>2, <2>2 DEF Phases
  <2> QED
    BY <1>1, <1>3, <1>4, <1>5, <1>7, <2>2, <2>3, Settles
<1> QED
  BY <1>6, <1>7

\* A reply that raises takes back its own move, if it has made it, and nothing else.
LEMMA RaisesBack ==
  ASSUME GameInv, NEW c \in Callers, Thinking(c), NEW s, NEW p, NEW h,
         \/ p = Live /\ h = history
         \/ \E m \in AnyMove : p = Append(Live, m),
         ReplyRaises(c, s, p, h)
  PROVE  /\ BoardsOK' /\ Len(boards') = Len(boards) /\ Live' = Live /\ history' = Live
         /\ cursor' = Len(history') /\ UNCHANGED unsafe /\ Returns(c)
         /\ LET looked == [sessions EXCEPT ![session] = Look(s)]
            IN  \/ PauseAfterFailure(looked) /\ UNCHANGED clockHistory
                \/ /\ Look(s).over = "timeout"
                   /\ RecordThenAnswer(s.clock, Len(Live), looked, "finished")
<1> DEFINE k == call[c]
           back == RollsBack(k, p)
           stuck == Len(p) = Len(k.asked) + 1 /\ ~back
           q == IF back THEN Front(p) ELSE p
           ss == [sessions EXCEPT ![k.session] = s]
           looked == [sessions EXCEPT ![k.session] = Look(s)]
           expired == Look(s).over = "timeout" /\ Valid(Look(s), SideToMove(q))
<1>1. /\ BoardBecomes(q) /\ history' = IF back THEN RestoreHistory(k) ELSE h
      /\ cursor' = IF back THEN k.cursor ELSE IF h = history THEN cursor ELSE Len(h)
      /\ UNCHANGED unsafe /\ Returns(c)
      /\ \/ stuck /\ Answer(ss, session, "error") /\ UNCHANGED clockHistory
         \/ ~stuck /\ ~expired /\ PauseAfterFailure(looked) /\ UNCHANGED clockHistory
         \/ ~stuck /\ expired /\ RecordThenAnswer(s.clock, Len(q), looked, "finished")
  BY DEF ReplyRaises
<1>2. /\ k.session = session /\ k.asked = Live /\ k.history = history
      /\ k.cursor = Len(history) /\ cursor = Len(history)
  BY Waited
<1>3. Live \in Position /\ history = Live /\ Len(Live) \in Nat /\ BoardsOK
  BY GameFields
<1>4. ~stuck /\ q = Live /\ (~back => h = history)
  <2>1. CASE p = Live /\ h = history
    BY <1>2, <1>3, <2>1 DEF RollsBack
  <2>2. ASSUME NEW m \in AnyMove, p = Append(Live, m)
        PROVE  ~stuck /\ q = Live /\ back
    <3>1. Len(p) = Len(Live) + 1 /\ Front(p) = Live
      BY <1>3, <2>2, FrontOfAppend
    <3> QED
      BY <1>2, <3>1 DEF RollsBack
  <2> QED
    BY <2>1, <2>2
<1>5. RestoreHistory(k) = history
  <2>1. SubSeq(Live, 1, Len(Live)) = Live
    BY <1>3, SubSeqProperties, SeqEqual DEF Position
  <2> QED
    BY <1>2, <1>3, <2>1 DEF RestoreHistory
<1>6. /\ \/ PauseAfterFailure(looked) /\ UNCHANGED clockHistory
         \/ /\ Look(s).over = "timeout"
            /\ RecordThenAnswer(s.clock, Len(Live), looked, "finished")
  BY <1>1, <1>4
<1>7. looked = [sessions EXCEPT ![session] = Look(s)]
  BY <1>2
<1> HIDE DEF back, stuck, q, expired, ss, looked, k
<1>8. BoardsOK' /\ Len(boards') = Len(boards) /\ Live' = Live
  BY <1>1, <1>3, <1>4, BoardBecomesKeeps DEF Live
<1>9. history' = Live /\ cursor' = Len(history')
  BY <1>1, <1>2, <1>3, <1>4, <1>5
<1> QED
  BY <1>1, <1>6, <1>7, <1>8, <1>9

\* A reply that raises, wherever it does, leaves the invariant and the game.
LEMMA RaisesStep ==
  ASSUME GameInv, NEW c \in Callers, Thinking(c), NEW p, NEW h,
         \/ p = Live /\ h = history
         \/ \E m \in AnyMove : p = Append(Live, m),
         NEW s \in {Now, Look(Now), Flag(Now)}, ReplyRaises(c, s, p, h)
  PROVE  GameInv' /\ Live' = Live /\ BoardsOK'
<1> DEFINE looked == [sessions EXCEPT ![session] = Look(s)]
<1>1. /\ BoardsOK' /\ Len(boards') = Len(boards) /\ Live' = Live /\ history' = Live
      /\ cursor' = Len(history') /\ UNCHANGED unsafe /\ Returns(c)
      /\ \/ PauseAfterFailure(looked) /\ UNCHANGED clockHistory
         \/ /\ Look(s).over = "timeout"
            /\ RecordThenAnswer(s.clock, Len(Live), looked, "finished")
  BY RaisesBack
<1>2. Now \in Session /\ Now.clock.state # "paused"
  BY Waited, GameFields DEF GoesOn
<1>3. s \in Session /\ s.board = Now.board /\ s.clock.state # "paused"
  BY <1>2, LookFields, FlagFields DEF SameGame
<1>4. looked = [sessions EXCEPT ![session] = Look(s)]
  OBVIOUS
<1> HIDE DEF looked
<1>5. "timeout" # "no"
  OBVIOUS
<1> QED
  BY <1>1, <1>3, <1>4, <1>5, GivesUp

\* The engine plays: its move is on the board and the human's clock runs, or the
\* game is over.
LEMMA MovesStep ==
  ASSUME GameInv, NEW c \in Callers, NEW m \in AnyMove, EngineMoves(c, m)
  PROVE  GameInv' /\ Live' = Append(Live, m) /\ BoardsOK'
<1> DEFINE s == Switch(Now, Now.engine)
           ss == [sessions EXCEPT ![session] = s]
           ply == Len(Live) + 1
           ended == [ss EXCEPT ![session] = Finish(@, "position")]
<1>1. Thinking(c) /\ PlayMove(m) /\ UNCHANGED unsafe /\ Returns(c)
  BY DEF EngineMoves, MoveArrives
<1>2. /\ session # 0 /\ call[c].session = session /\ Asked(c) = Now
      /\ call[c].asked = Live /\ AtHistoryEnd
      /\ SideToMove(Live) = Now.engine /\ GoesOn(Now, Live) /\ Now.board = Len(boards)
      /\ phase = "active" /\ unsafe = FALSE
      /\ commitContext = None \/ commitContext = Len(Live) - 1
      /\ Idle' /\ commitContext' = None /\ call' \in [Callers -> Call]
      /\ Len(clockHistory) > Len(Live)
  BY <1>1, Waited DEF AtHistoryEnd
<1>3. /\ Live \in Position /\ Len(Live) \in Nat /\ Now \in Session /\ session \in 1..Len(sessions)
      /\ clockHistory \in Seq(Clock) /\ Len(clockHistory) \in Nat
  BY <1>2, GameFields
<1>4. /\ BoardsOK' /\ Live' = Append(Live, m) /\ history' = Live'
      /\ cursor' = Len(history') /\ cursor' \in 0..Len(history') /\ Len(boards') = Len(boards)
      /\ Len(Live') = Len(Live) + 1
  BY <1>1, <1>2, PlayFields
<1>5. Now.engine \in Sides /\ SideToMove(Live') = Other(Now.engine)
      /\ Other(Now.engine) \in Sides
  BY <1>2, <1>3, <1>4, SideFlips DEF Session
<1>6. /\ SameGame(Now, s) /\ s.over = Now.over
      /\ s.clock = IF Now.timed THEN ClockOf("running", Other(Now.engine)) ELSE Now.clock
  BY <1>3, <1>5, SwitchFields
<1> HIDE DEF s
<1>7. /\ s \in Session /\ GoesOn(s, Live') /\ s.board = Now.board /\ s.engine = Now.engine
      /\ s.clock \in Clock /\ s.clock.state # "paused" /\ s.over = "no"
  <2>1. Other(Now.engine) \in Sides \cup {None}
    BY <1>5
  <2>2. /\ ClockOf("running", Other(Now.engine)) \in Clock
        /\ ClockOf("running", Other(Now.engine)).state = "running"
        /\ ClockOf("running", Other(Now.engine)).side = Other(Now.engine)
    BY <2>1, ClockFields
  <2>3. Now.clock \in Clock
    BY <1>3 DEF Session
  <2>4. s \in Session /\ s.board = Now.board /\ s.engine = Now.engine /\ s.timed = Now.timed
    BY <1>6 DEF SameGame
  <2>5. CASE Now.timed
    BY <1>2, <1>5, <1>6, <2>2, <2>4, <2>5 DEF GoesOn
  <2>6. CASE ~Now.timed
    BY <1>2, <1>5, <1>6, <2>3, <2>4, <2>6 DEF GoesOn
  <2> QED
    BY <2>5, <2>6
<1>8. ss \in Seq(Session) /\ Len(ss) = Len(sessions) /\ ss[session] = s
  BY <1>2, <1>7, ReplacedFields
<1>9. CanRecord(ply) /\ ply \in 0..(Len(Live) + 1) /\ ply = Len(call[c].asked) + 1
  BY <1>2, <1>3 DEF CanRecord
<1>10. \/ RecordThenAnswer(s.clock, ply, ss, phase)
       \/ /\ ss[session].over = "no"
          /\ RecordThenAnswer(ended[session].clock, ply, ended, "finished")
  <2> DEFINE mated == m = Mate /\ session # 0
  <2>1. \/ /\ ply # Len(call[c].asked) + 1
           /\ PauseAfterFailure(ss)
           /\ UNCHANGED clockHistory
        \/ /\ ply = Len(call[c].asked) + 1 /\ (~mated \/ ~CanRecord(ply))
           /\ RecordThenAnswer(s.clock, ply, ss, phase)
        \/ /\ ply = Len(call[c].asked) + 1 /\ mated /\ CanRecord(ply)
           /\ IF ss[session].over = "no"
              THEN RecordThenAnswer(ended[session].clock, ply, ended, "finished")
              ELSE /\ clockHistory' = Recorded(s.clock, ply)
                   /\ sessions' = ss
                   /\ UNCHANGED <<session, phase>>
    BY <1>2 DEF EngineMoves, s
  <2>2. ss[session].over = "no"
    BY <1>7, <1>8
  <2> HIDE DEF mated, ss, ended, ply
  <2> QED
    BY <1>9, <2>1, <2>2
<1>11. CASE RecordThenAnswer(s.clock, ply, ss, phase)
  <2>1. /\ Answer(ss, session, "active")
        /\ clockHistory' \in Seq(Clock) /\ Len(clockHistory') = ply + 1
        /\ \A i \in 1..Len(clockHistory') : clockHistory'[i].state # "paused"
    BY <1>2, <1>7, <1>9, <1>11, Records
  <2>2. SideToMove(Live') = Human(ss[session]) /\ ss[session].board = Now.board
        /\ GoesOn(ss[session], Live')
    BY <1>5, <1>7, <1>8 DEF Human
  <2>3. "active" \in Phases \ {"idle"} /\ unsafe' = FALSE /\ Len(clockHistory') > Len(Live')
    BY <1>1, <1>2, <1>3, <1>4, <2>1 DEF Phases
  <2>4. commitContext = None \/ Len(Live') # commitContext + 1
    BY <1>2, <1>3, <1>4
  <2> HIDE DEF ss, ply
  <2> QED
    BY <1>2, <1>4, <1>8, <2>1, <2>2, <2>3, <2>4, Settles
<1>12. CASE /\ ss[session].over = "no"
            /\ RecordThenAnswer(ended[session].clock, ply, ended, "finished")
  <2> DEFINE t == Finish(s, "position")
  <2>1. t \in Session /\ t.board = Now.board /\ t.over = "position"
        /\ t.clock.state # "paused" /\ t.clock \in Clock
    BY <1>7, FinishFields DEF SameGame, Session
  <2> HIDE DEF t
  <2>2. ended \in Seq(Session) /\ Len(ended) = Len(sessions) /\ ended[session] = t
    <3>1. ended = [ss EXCEPT ![session] = t]
      BY <1>8 DEF t
    <3> HIDE DEF ss, ended
    <3> QED
      BY <1>3, <1>8, <2>1, <3>1, ExceptSeq, LenProperties
  <2> HIDE DEF ended
  <2>3. /\ Answer(ended, session, "finished")
        /\ clockHistory' \in Seq(Clock) /\ Len(clockHistory') = ply + 1
        /\ \A i \in 1..Len(clockHistory') : clockHistory'[i].state # "paused"
    BY <1>2, <1>9, <1>12, <2>1, <2>2, Records
  <2>4. "finished" \in Phases \ {"idle"} /\ unsafe' = FALSE /\ Len(clockHistory') > Len(Live')
    BY <1>1, <1>2, <1>3, <1>4, <2>3 DEF Phases
  <2> HIDE DEF ply
  <2> QED
    BY <1>2, <1>4, <2>1, <2>2, <2>3, <2>4, Settles
<1> QED
  BY <1>4, <1>10, <1>11, <1>12

\* Every reply leaves the invariant, and at most its own move.
LEMMA ReplyKeepsGame ==
  ASSUME GameInv, NEW c \in Callers, EngineReplies(c)
  PROVE  GameInv' /\ BoardsOK'
         /\ (Live' = Live \/ \E m \in AnyMove : Live' = Append(Live, m))
<1>1. CASE EngineFails(c)
  <2>1. Thinking(c) /\ ReplyRaises(c, Now, Live, history)
    BY <1>1, Waited DEF EngineFails
  <2> QED
    BY <2>1, RaisesStep
<1>2. CASE EngineMoveNotCommitted(c)
  <2>1. Thinking(c) /\ ReplyRaises(c, Look(Now), Live, history)
    BY <1>2, Waited DEF EngineMoveNotCommitted, MoveArrives
  <2> QED
    BY <2>1, RaisesStep
<1>3. ASSUME NEW m \in AnyMove, EngineMoveHookRaises(c, m)
      PROVE  GameInv' /\ BoardsOK' /\ Live' = Live
  <2>1. Thinking(c) /\ ReplyRaises(c, Now, Append(Live, m), history)
    BY <1>3, Waited DEF EngineMoveHookRaises, MoveArrives
  <2> QED
    BY <2>1, RaisesStep
<1>4. ASSUME NEW m \in AnyMove, EngineMoveRejected(c, m)
      PROVE  GameInv' /\ BoardsOK' /\ Live' = Live
  <2>1. /\ Thinking(c)
        /\ \/ ReplyRaises(c, Now, Append(Live, m), Append(history, m))
           \/ ReplyRaises(c, Flag(Now), Append(Live, m), Append(history, m))
    BY <1>4, Waited DEF EngineMoveRejected, MoveArrives
  <2> QED
    BY <2>1, RaisesStep
<1>5. CASE EngineHasNoMove(c)
  <2> DEFINE looked == [sessions EXCEPT ![session] = Look(Now)]
  <2>1. Thinking(c) /\ UNCHANGED <<game, unsafe>> /\ Returns(c)
    BY <1>5 DEF EngineHasNoMove
  <2>2. /\ Asked(c) = Now /\ call[c].session = session /\ cursor = Len(history)
        /\ GoesOn(Now, Live) /\ session # 0
    BY <2>1, Waited
  <2>3. /\ Now \in Session /\ history = Live /\ BoardsOK
    BY <2>2, GameFields
  <2>4. Look(Now).clock = Now.clock /\ Now.clock.state # "paused"
    BY <2>2, <2>3, LookFields DEF GoesOn
  <2>5. \/ PauseAfterFailure(looked) /\ UNCHANGED clockHistory
        \/ /\ Look(Now).over # "no"
           /\ RecordThenAnswer(Now.clock, Len(Live), looked, "finished")
    BY <1>5, <2>2, <2>4 DEF EngineHasNoMove
  <2>6. looked = [sessions EXCEPT ![session] = Look(Now)]
    OBVIOUS
  <2> HIDE DEF looked
  <2>7. BoardsOK' /\ Len(boards') = Len(boards) /\ Live' = Live /\ history' = Live
        /\ cursor' = Len(history') /\ UNCHANGED unsafe
    BY <2>1, <2>2, <2>3 DEF game, BoardsOK, Live
  <2> QED
    BY <2>1, <2>3, <2>4, <2>5, <2>6, <2>7, GivesUp
<1>6. ASSUME NEW m \in AnyMove, EngineMoves(c, m)
      PROVE  GameInv' /\ BoardsOK' /\ Live' = Append(Live, m)
  BY <1>6, MovesStep
<1> QED
  BY <1>1, <1>2, <1>3, <1>4, <1>5, <1>6 DEF EngineReplies

-----------------------------------------------------------------------------
(* The invariant, and what it says of the game that is shown *)

\* Before the first game nobody waits and there is nothing to be untrue.
LEMMA GameStart ==
  ASSUME Init
  PROVE  GameInv
<1>1. <<>> \in Position /\ Len(<<>>) = 0 /\ boards # <<>> /\ boards \in Seq(Position)
  <2>1. <<>> \in Position
    BY DEF Position
  <2>2. <<<<>>>> # <<>>
    OBVIOUS
  <2> QED
    BY <2>1, <2>2 DEF Init
<1>2. Live = <<>>
  <2>1. Len(boards) = 1 /\ boards[1] = <<>>
    BY DEF Init
  <2> QED
    BY <2>1 DEF Live, Last
<1>3. TypeOK
  <2>1. NoCall \in Call
    BY <1>1 DEF NoCall, Call
  <2>2. call \in [Callers -> Call]
    BY <2>1 DEF Init
  <2>3. session \in 0..Len(sessions) /\ cursor \in 0..Len(history)
    BY DEF Init
  <2>4. sessions \in Seq(Session) /\ clockHistory \in Seq(Clock) /\ history \in Position
    BY DEF Init, Position
  <2>5. phase \in Phases /\ unsafe \in BOOLEAN /\ commitContext \in Nat \cup {None}
    BY DEF Init, Phases
  <2> QED
    BY <1>1, <2>2, <2>3, <2>4, <2>5 DEF TypeOK
<1>4. HistoryAligned /\ PhaseHasAGame /\ ContextReleased
  BY <1>2 DEF Init, HistoryAligned, PhaseHasAGame, ContextReleased
<1>5. ActiveSound /\ FinishedSound /\ FenceSound /\ ReviewSound
  BY DEF Init, ActiveSound, FinishedSound, FenceSound, ReviewSound
<1>6. SessionSound
  <2>1. clockHistory = <<>> /\ session = 0 /\ DOMAIN <<>> = {}
    BY DEF Init
  <2> QED
    BY <2>1 DEF SessionSound
<1>7. AskedSound
  BY DEF Init, AskedSound, Thinking, NoCall
<1> QED
  BY <1>1, <1>3, <1>4, <1>5, <1>6, <1>7 DEF GameInv

\* Every call of the user leaves the invariant, ...
LEMMA UserKeepsGame ==
  ASSUME GameInv, Serialized, "error" \notin Reviews, NEW c \in Callers, UserCalls(c)
  PROVE  GameInv'
<1>1. CASE GetState(c)
  <2>1. /\ Enter(c) /\ UNCHANGED <<game, unsafe, clockHistory, commitContext, call>>
        /\ Answer(sessions, session, phase)
    BY <1>1 DEF GetState
  <2>2. cursor' \in 0..Len(history) /\ cursor' = cursor
        /\ UNCHANGED <<boards, history, unsafe, clockHistory, commitContext, call>>
    BY <2>1, GameFields DEF game
  <2> QED
    BY <2>1, <2>2, GetStateStep
<1> QED
  BY <1>1, PlainStep, ReviewStep, StopStep, TooLateStep, RetryStep, TakebackStep,
     TakebackFailsStep, HumanMoveStep, StartStep DEF UserCalls

\* ... and so does every step.
LEMMA GameKept ==
  ASSUME GameInv, Serialized, "error" \notin Reviews, [Next]_vars
  PROVE  GameInv'
<1>1. CASE UNCHANGED vars
  <2>1. UNCHANGED <<boards, history, cursor, phase, unsafe, sessions, session, clockHistory,
                    commitContext, call>>
    BY <1>1 DEF vars
  <2>2. Live' = Live /\ Now' = Now
    BY <2>1 DEF Live, Now
  <2>3. TypeOK' /\ boards' # <<>> /\ HistoryAligned' /\ PhaseHasAGame' /\ ContextReleased'
    BY <2>1, <2>2 DEF GameInv, TypeOK, HistoryAligned, PhaseHasAGame, ContextReleased, Idle
  <2>4. ActiveSound' /\ SessionSound' /\ FinishedSound' /\ FenceSound' /\ ReviewSound'
    BY <2>1, <2>2
       DEF GameInv, ActiveSound, SessionSound, FinishedSound, FenceSound, ReviewSound,
           AtHistoryEnd, Idle
  <2>5. AskedSound'
    BY <2>1, <2>2 DEF GameInv, AskedSound, AtHistoryEnd, Thinking
  <2> QED
    BY <2>3, <2>4, <2>5 DEF GameInv
<1>2. CASE Next
  BY <1>2, UserKeepsGame, ReplyKeepsGame, FlagFallsStep DEF Next
<1> QED
  BY <1>1, <1>2

\* An active game goes on.
LEMMA GameShown ==
  ASSUME GameInv
  PROVE  HistoryAligned /\ ShownGameIsTrue
<1>1. ASSUME phase = "active"
      PROVE  LET s == Look(Now)
             IN  /\ Valid(s, SideToMove(Live))
                 /\ Len(clockHistory) > Len(Live)
                 /\ s.over = "no" /\ s.timed => s.clock.state = "running"
                 /\ s.over = "no" =>
                       \/ SideToMove(Live) = Human(s)
                       \/ \E c \in Callers : Thinking(c) /\ call[c].session = session
  <2> DEFINE s == Look(Now)
  <2>1. session # 0 /\ GoesOn(Now, Live) /\ (Idle => SideToMove(Live) = Human(Now))
    BY <1>1 DEF GameInv, PhaseHasAGame, ActiveSound
  <2>2. Len(clockHistory) > Len(Live) /\ Now \in Session
    BY <2>1, GameFields DEF GameInv, SessionSound
  <2>3. /\ s.clock = Now.clock /\ s.engine = Now.engine /\ s.timed = Now.timed
        /\ s.over = IF Now.clock.state = "flagged" THEN "timeout" ELSE "no"
    BY <2>1, <2>2, LookFields DEF SameGame, GoesOn
  <2> HIDE DEF s
  <2>4. Valid(s, SideToMove(Live)) /\ (s.over = "no" /\ s.timed => s.clock.state = "running")
    BY <2>1, <2>3 DEF Valid, GoesOn
  <2>5. \/ SideToMove(Live) = Human(s)
        \/ \E c \in Callers : Thinking(c) /\ call[c].session = session
    <3>1. CASE Idle
      BY <2>1, <2>3, <3>1 DEF Human
    <3>2. CASE ~Idle
      <4>1. PICK c \in Callers : Thinking(c)
        BY <3>2, IdleFields
      <4> QED
        BY <4>1, Waited
    <3> QED
      BY <3>1, <3>2
  <2> QED
    BY <2>2, <2>4, <2>5 DEF s
<1>2. ActiveGameGoesOn
  BY <1>1 DEF ActiveGameGoesOn
<1> QED
  BY <1>2 DEF GameInv, ShownGameIsTrue

\* Nothing but a new board follows a history nobody trusts.
LEMMA FenceHolds ==
  ASSUME GameInv, [Next]_vars, unsafe
  PROVE  \/ unsafe' /\ UNCHANGED <<boards, history>>
         \/ Len(boards') = Len(boards) + 1
<1>1. CASE UNCHANGED vars
  BY <1>1 DEF vars
<1>2. ASSUME NEW i \in DOMAIN sessions, FlagFalls(i)
      PROVE  unsafe' /\ UNCHANGED <<boards, history>>
  BY <1>2 DEF FlagFalls, game
<1>3. ASSUME NEW c \in Callers, EngineReplies(c)
      PROVE  FALSE
  <2>1. Thinking(c)
    BY <1>3 DEF EngineReplies, EngineFails, EngineHasNoMove, EngineMoveNotCommitted,
                EngineMoveHookRaises, EngineMoveRejected, EngineMoves, MoveArrives
  <2> QED
    BY <2>1, Waited
<1>4. ASSUME NEW c \in Callers, UserCalls(c)
      PROVE  \/ unsafe' /\ UNCHANGED <<boards, history>>
             \/ Len(boards') = Len(boards) + 1
  <2>1. CASE GetState(c) \/ Review(c) \/ StopEngineGame(c) \/ ResignEngineGame(c)
    BY <2>1 DEF GetState, Review, StopEngineGame, ResignEngineGame, game
  <2>2. CASE \/ NewGame(c)
             \/ \E engine \in Sides, timed \in BOOLEAN : StartEngineGame(c, engine, timed)
    <3>1. boards' = Append(boards, <<>>)
      BY <2>2 DEF NewGame, StartEngineGame
    <3>2. <<>> \in Position
      BY DEF Position
    <3> QED
      BY <3>1, <3>2, GameFields, AppendProperties DEF BoardsOK
  <2>3. CASE NoMove(c) \/ PlainUndo(c) \/ HumanMoveTooLate(c) \/ RetryEngineMove(c)
             \/ TakebackAccepted(c) \/ TakebackFails(c)
             \/ \E m \in AnyMove : PlainMove(c, m) \/ HumanMoveAccepted(c, m)
    BY <2>3 DEF NoMove, PlainUndo, HumanMoveTooLate, RetryEngineMove, TakebackAccepted,
                TakebackFails, MayTakeBack, PlainMove, HumanMoveAccepted, HumanMove, Fenced
  <2> QED
    BY <1>4, <2>1, <2>2, <2>3 DEF UserCalls
<1> QED
  BY <1>1, <1>2, <1>3, <1>4 DEF Next

\* A reply that returns leaves what it found on the board.
LEMMA MovesKept ==
  ASSUME GameInv, [Next]_vars, NEW c \in Callers, Returned(c)
  PROVE  IsPrefix(Live, Last(boards'))
<1>1. CallsOK /\ Live \in Position
  BY GameFields DEF CallsOK
<1>2. Next
  BY DEF vars, Returned, Thinking
<1>3. EngineReplies(c)
  BY <1>1, <1>2, OnlyRepliesReturn
<1>4. Last(boards') = Live \/ \E m \in AnyMove : Last(boards') = Append(Live, m)
  BY <1>3, ReplyKeepsGame DEF Live
<1>5. PICK m \in AnyMove : TRUE
  BY DEF AnyMove
<1>6. IsPrefix(Live, Live) /\ \A n \in AnyMove : IsPrefix(Live, Append(Live, n))
  BY <1>1, <1>5, FrontOfAppend
<1> QED
  BY <1>4, <1>6

-----------------------------------------------------------------------------
(* An outcome is final *)

OutcomeKept(s, t) == Look(s).over # "no" => Look(t).over = Look(s).over

OutcomesKept == \A i \in DOMAIN sessions : OutcomeKept(sessions[i], sessions'[i])

\* Looking again, a pause and a takeback that fails leave the outcome.
LEMMA OutcomeFields ==
  ASSUME NEW s \in Session
  PROVE  /\ OutcomeKept(s, s) /\ OutcomeKept(s, Look(s)) /\ OutcomeKept(s, Pause(s))
         /\ \A t : OutcomeKept(s, t) /\ t \in Session => OutcomeKept(s, Look(t))
         /\ s.over = "no" /\ s.clock.state # "flagged" => Look(s).over = "no"
         /\ s.over # "no" => Look(s).over = s.over
<1>1. Pause(s) \in Session /\ Look(Pause(s)).over = Look(s).over
  BY PauseFields DEF SameGame
<1>2. Look(Look(s)) = Look(s)
  BY LookFields
<1>3. \A t \in Session : Look(Look(t)) = Look(t)
  BY LookFields
<1>4. \A t : OutcomeKept(s, t) /\ t \in Session => OutcomeKept(s, Look(t))
  BY <1>3 DEF OutcomeKept
<1>5. Look(s).over = IF s.clock.state = "flagged" /\ s.over = "no" THEN "timeout" ELSE s.over
  BY LookFields
<1> QED
  BY <1>1, <1>2, <1>4, <1>5 DEF OutcomeKept

\* An answer about sessions whose outcomes stand leaves them so.
LEMMA AnswerKeeps ==
  ASSUME GameInv, session # 0, NEW s \in Session, OutcomeKept(Now, s),
         NEW ss, ss = [sessions EXCEPT ![session] = s],
         sessions' = ss \/ \E ph : Answer(ss, session, ph)
  PROVE  OutcomesKept
<1>1. sessions \in Seq(Session) /\ session \in 1..Len(sessions)
      /\ DOMAIN sessions = 1..Len(sessions)
  BY GameFields, LenProperties
<1>2. ss[session] = s /\ \A i \in 1..Len(sessions) : i # session => ss[i] = sessions[i]
  BY <1>1
<1>3. sessions' = ss \/ sessions' = [ss EXCEPT ![session] = Look(s)]
  BY <1>2 DEF Answer
<1>4. DOMAIN ss = DOMAIN sessions
  OBVIOUS
<1>5. /\ sessions'[session] \in {s, Look(s)}
      /\ \A i \in 1..Len(sessions) : i # session => sessions'[i] = sessions[i]
  BY <1>1, <1>2, <1>3, <1>4
<1>6. OutcomeKept(Now, sessions'[session])
  BY <1>1, <1>5, GameFields, OutcomeFields
<1>7. \A i \in 1..Len(sessions) : OutcomeKept(sessions[i], sessions[i])
  BY DEF OutcomeKept
<1> QED
  BY <1>1, <1>5, <1>6, <1>7 DEF OutcomesKept, Now

\* So does an answer that changes no session.
LEMMA LookKeeps ==
  ASSUME GameInv, sessions' = sessions \/ \E ph : Answer(sessions, session, ph)
  PROVE  OutcomesKept
<1>1. CASE sessions' = sessions
  BY <1>1 DEF OutcomesKept, OutcomeKept
<1>2. CASE session # 0 /\ \E ph : Answer(sessions, session, ph)
  <2>1. sessions = [sessions EXCEPT ![session] = Now] /\ Now \in Session
    BY <1>2, GameFields DEF Now
  <2> QED
    BY <1>2, <2>1, OutcomeFields, AnswerKeeps
<1>3. CASE session = 0 /\ \E ph : Answer(sessions, session, ph)
  BY <1>3 DEF Answer, OutcomesKept, OutcomeKept
<1> QED
  BY <1>1, <1>2, <1>3

\* A recorded clock, too, is followed by an answer or by nothing.
LEMMA RecordKeeps ==
  ASSUME GameInv, session # 0, NEW s \in Session, OutcomeKept(Now, s),
         NEW ss, ss = [sessions EXCEPT ![session] = s],
         NEW clock, NEW ply, NEW ph, RecordThenAnswer(clock, ply, ss, ph)
  PROVE  OutcomesKept
<1>1. sessions' = ss \/ Answer(ss, session, ph)
  BY DEF RecordThenAnswer
<1> QED
  BY <1>1, AnswerKeeps

\* A game that goes on, and whose flag has not fallen, has no outcome to lose.
LEMMA Undecided ==
  ASSUME GameInv, session # 0, Now.over = "no", Now.clock.state # "flagged"
  PROVE  \A s : OutcomeKept(Now, s)
BY GameFields, OutcomeFields DEF OutcomeKept

\* A call of the user keeps the outcomes, unless it takes a move back.
LEMMA UserOutcome ==
  ASSUME GameInv, NEW c \in Callers, UserCalls(c), ~TakebackAccepted(c)
  PROVE  OutcomesKept
<1>1. session # 0 => Now \in Session
  BY GameFields
<1>2. CASE GetState(c) \/ Review(c) \/ NewGame(c) \/ NoMove(c) \/ PlainUndo(c)
           \/ \E m \in AnyMove : PlainMove(c, m)
  <2>1. sessions' = sessions \/ \E ph : Answer(sessions, session, ph)
    BY <1>2 DEF GetState, Review, NewGame, NoMove, PlainUndo, PlainMove, ResetEngineGame
  <2> QED
    BY <2>1, LookKeeps
<1>3. CASE StopEngineGame(c)
  <2>1. session # 0 /\ \E s \in {Now, Pause(Now)} : AnswerAbout(s, "stopped")
    BY <1>3 DEF StopEngineGame
  <2>2. PICK s \in {Now, Pause(Now)} : AnswerAbout(s, "stopped")
    BY <2>1
  <2>3. s \in Session /\ OutcomeKept(Now, s)
    BY <1>1, <2>1, OutcomeFields, PauseFields DEF SameGame
  <2> QED
    BY <2>1, <2>2, <2>3, AnswerKeeps DEF AnswerAbout
<1>4. ASSUME Playing
      PROVE  session # 0 /\ Now \in Session /\ \A s : OutcomeKept(Now, s)
  <2>1. session # 0 /\ Now.over = "no" /\ Now.clock.state # "flagged"
    BY <1>4 DEF Playing, Valid, GameInv, PhaseHasAGame
  <2> QED
    BY <1>1, <2>1, Undecided
<1>5. CASE ResignEngineGame(c)
  <2>1. Playing /\ AnswerAbout(Finish(Now, "resigned"), "finished")
    BY <1>5 DEF ResignEngineGame
  <2>2. Finish(Now, "resigned") \in Session
    BY <1>4, <2>1, FinishFields DEF SameGame
  <2> QED
    BY <1>4, <2>1, <2>2, AnswerKeeps DEF AnswerAbout
<1>6. CASE HumanMoveTooLate(c)
  <2>1. Playing /\ RecordThenAnswer(Flag(Now).clock, Len(Live),
                                    [sessions EXCEPT ![session] = Flag(Now)], "finished")
    BY <1>6 DEF HumanMoveTooLate, HumanMove
  <2>2. Flag(Now) \in Session
    BY <1>4, <2>1, FlagFields DEF SameGame
  <2> QED
    BY <1>4, <2>1, <2>2, RecordKeeps
<1>7. ASSUME NEW m \in AnyMove, HumanMoveAccepted(c, m)
      PROVE  OutcomesKept
  <2> DEFINE s == Switch(Now, Human(Now))
  <2>1. /\ Playing /\ SideToMove(Live) = Human(Now)
        /\ \/ AnswerAbout(Finish(s, "position"), "finished")
           \/ sessions' = [sessions EXCEPT ![session] = s]
    BY <1>7 DEF HumanMoveAccepted, HumanMove
  <2>2. Human(Now) \in Sides
    BY <1>4, <2>1, SideFlips, GameFields
  <2>3. s \in Session /\ Finish(s, "position") \in Session
    BY <1>4, <2>1, <2>2, SwitchFields, FinishFields DEF SameGame
  <2> HIDE DEF s
  <2> QED
    BY <1>4, <2>1, <2>3, AnswerKeeps DEF AnswerAbout
<1>8. CASE RetryEngineMove(c)
  <2>1. session # 0
    BY <1>8 DEF RetryEngineMove
  <2>2. CASE AnswerAbout(Pause(Now), "error")
    <3>1. Pause(Now) \in Session /\ OutcomeKept(Now, Pause(Now))
      BY <1>1, <2>1, OutcomeFields, PauseFields DEF SameGame
    <3> QED
      BY <2>1, <2>2, <3>1, AnswerKeeps DEF AnswerAbout
  <2>3. CASE CanResume(Now) /\ Valid(Resume(Now), SideToMove(Live))
             /\ AnswerAbout(Resume(Now), "active")
    <3>1. Resume(Now) \in Session /\ (~Now.timed => Resume(Now) = Now)
      BY <1>1, <2>1, ResumeFields DEF SameGame
    <3>2. Now.over = "no" /\ Now.clock.state # "flagged"
      BY <2>3, <3>1 DEF CanResume, Valid
    <3> QED
      BY <2>1, <2>3, <3>1, <3>2, Undecided, AnswerKeeps DEF AnswerAbout
  <2> QED
    BY <1>8, <2>2, <2>3 DEF RetryEngineMove
<1>9. CASE TakebackFails(c)
  <2> DEFINE asks == phase # "finished" /\ Look(Now).over = "no"
             t == Look(Now)
             takeback == t.takeback \/ asks
             s == [t EXCEPT !.takeback = takeback]
  <2>1. session # 0 /\ \E u \in {s, Pause(s)} : AnswerAbout(u, "error")
    BY <1>9 DEF TakebackFails
  <2>2. t \in Session /\ takeback \in BOOLEAN /\ Look(t) = t
    BY <1>1, <2>1, LookFields DEF SameGame
  <2> HIDE DEF t, takeback
  <2>3. s \in Session /\ s.clock = t.clock /\ s.over = t.over
    BY <2>2 DEF Session
  <2> HIDE DEF s
  <2>4. Look(s).over = Look(t).over
    BY <2>2, <2>3, LookFields
  <2>5. OutcomeKept(Now, s) /\ OutcomeKept(Now, Pause(s)) /\ Pause(s) \in Session
    BY <2>2, <2>3, <2>4, PauseFields DEF OutcomeKept, t, SameGame
  <2> QED
    BY <2>1, <2>3, <2>5, AnswerKeeps DEF AnswerAbout
<1>10. ASSUME NEW engine \in Sides, NEW timed \in BOOLEAN, StartEngineGame(c, engine, timed)
       PROVE  OutcomesKept
  <2>1. PICK s : sessions' = Append(sessions, s)
    BY <1>10 DEF StartEngineGame
  <2>2. sessions \in Seq(Session)
    BY GameFields
  <2>3. \A i \in DOMAIN sessions : sessions'[i] = sessions[i]
    BY <2>1, <2>2
  <2> QED
    BY <2>3 DEF OutcomesKept, OutcomeKept
<1> QED
  BY <1>2, <1>3, <1>5, <1>6, <1>7, <1>8, <1>9, <1>10 DEF UserCalls

\* A takeback opens the game again, and is shorter for it.
LEMMA TakebackOutcome ==
  ASSUME GameInv, NEW c \in Callers, TakebackAccepted(c)
  PROVE  \A i \in DOMAIN sessions :
            \/ OutcomeKept(sessions[i], sessions'[i])
            \/ sessions'[i].over = "no" /\ Len(Last(boards')) < Len(Live)
<1> DEFINE t == TakenBack(Now, TakebackTo)
           ss == [sessions EXCEPT ![session] = t]
<1>1. /\ session # 0 /\ MayTakeBack /\ TakebackWorks /\ GameBecomes(TakebackTo)
      /\ Answer(ss, session, "active")
  BY DEF TakebackAccepted, AnswerAbout
<1>2. TakebackTo \in Position /\ Len(TakebackTo) < Len(Live)
  BY <1>1, TakebackSide
<1>3. Len(Last(boards')) < Len(Live)
  BY <1>1, <1>2, GameFields, BecomesFields DEF Live
<1>4. t.over = "no" /\ Look(t) = t
  <2>1. t.over = "no" /\ Valid(t, SideToMove(TakebackTo))
    BY <1>1, TakenBackFields DEF TakebackWorks
  <2> HIDE DEF t
  <2> QED
    BY <2>1 DEF Valid, Look
<1>5. sessions \in Seq(Session) /\ session \in 1..Len(sessions)
      /\ DOMAIN sessions = 1..Len(sessions)
  BY <1>1, GameFields, LenProperties
<1> HIDE DEF t
<1>6. ss[session] = t /\ \A i \in 1..Len(sessions) : i # session => ss[i] = sessions[i]
  BY <1>5
<1>7. sessions' = ss \/ sessions' = [ss EXCEPT ![session] = t]
  BY <1>1, <1>4, <1>6 DEF Answer
<1>8. DOMAIN ss = DOMAIN sessions
  OBVIOUS
<1> HIDE DEF ss
<1>9. /\ sessions'[session] = t
      /\ \A i \in 1..Len(sessions) : i # session => sessions'[i] = sessions[i]
  BY <1>5, <1>6, <1>7, <1>8
<1> QED
  BY <1>3, <1>4, <1>5, <1>9 DEF OutcomeKept

\* A reply that raises keeps the outcome of its session, ...
LEMMA RaisesOutcome ==
  ASSUME GameInv, NEW c \in Callers, Thinking(c), NEW p, NEW h,
         \/ p = Live /\ h = history
         \/ \E m \in AnyMove : p = Append(Live, m),
         NEW s \in Session, OutcomeKept(Now, s), ReplyRaises(c, s, p, h)
  PROVE  OutcomesKept
<1> DEFINE looked == [sessions EXCEPT ![session] = Look(s)]
           paused == [looked EXCEPT ![session] = Pause(@)]
<1>1. session # 0
  BY Waited
<1>2. \/ PauseAfterFailure(looked)
      \/ RecordThenAnswer(s.clock, Len(Live), looked, "finished")
  BY RaisesBack
<1>3. Look(s) \in Session /\ Now \in Session
  BY <1>1, LookFields, GameFields DEF SameGame
<1>4. OutcomeKept(Now, Look(s))
  BY <1>3, OutcomeFields
<1>5. CASE RecordThenAnswer(s.clock, Len(Live), looked, "finished")
  BY <1>1, <1>3, <1>4, <1>5, RecordKeeps
<1>6. CASE PauseAfterFailure(looked)
  <2>1. paused = [sessions EXCEPT ![session] = Pause(Look(s))]
    BY <1>1, <1>3, GameFields, ReplacedFields
  <2>2. Answer(paused, session, "error")
    BY <1>1, <1>6 DEF PauseAfterFailure
  <2>3. Pause(Look(s)) \in Session /\ OutcomeKept(Now, Pause(Look(s)))
    <3>1. Pause(Look(s)) \in Session /\ Look(Pause(Look(s))).over = Look(Look(s)).over
      BY <1>3, PauseFields DEF SameGame
    <3> QED
      BY <1>4, <3>1 DEF OutcomeKept
  <2> HIDE DEF paused
  <2> QED
    BY <1>1, <2>1, <2>2, <2>3, AnswerKeeps
<1> QED
  BY <1>2, <1>5, <1>6

\* ... and so does every reply: one that is admitted finds the game undecided.
LEMMA ReplyOutcome ==
  ASSUME GameInv, NEW c \in Callers, EngineReplies(c)
  PROVE  OutcomesKept
<1>1. Thinking(c)
  BY DEF EngineReplies, EngineFails, EngineHasNoMove, EngineMoveNotCommitted,
         EngineMoveHookRaises, EngineMoveRejected, EngineMoves, MoveArrives
<1>2. /\ session # 0 /\ Asked(c) = Now /\ call[c].session = session /\ GoesOn(Now, Live)
      /\ SideToMove(Live) = Now.engine
  BY <1>1, Waited
<1>3. Now \in Session /\ Live \in Position
  BY <1>2, GameFields
<1>4. Look(Now) \in Session /\ Flag(Now) \in Session
  BY <1>3, LookFields, FlagFields DEF SameGame
<1>5. OutcomeKept(Now, Now) /\ OutcomeKept(Now, Look(Now))
  BY <1>3, OutcomeFields
<1>6. Now.clock.state # "flagged" => \A s : OutcomeKept(Now, s)
  BY <1>2, Undecided DEF GoesOn
<1>7. CASE EngineFails(c)
  BY <1>1, <1>2, <1>3, <1>5, <1>7, RaisesOutcome DEF EngineFails
<1>8. CASE EngineMoveNotCommitted(c)
  BY <1>1, <1>2, <1>4, <1>5, <1>8, RaisesOutcome DEF EngineMoveNotCommitted
<1>9. ASSUME NEW m \in AnyMove, EngineMoveHookRaises(c, m)
      PROVE  OutcomesKept
  <2>1. ReplyRaises(c, Now, Append(Live, m), history)
    BY <1>2, <1>9 DEF EngineMoveHookRaises
  <2> QED
    BY <1>1, <1>3, <1>5, <2>1, RaisesOutcome
<1>10. ASSUME NEW m \in AnyMove, EngineMoveRejected(c, m)
       PROVE  OutcomesKept
  <2>1. \/ ReplyRaises(c, Now, Append(Live, m), Append(history, m))
        \/ /\ Now.clock.state = "running"
           /\ ReplyRaises(c, Flag(Now), Append(Live, m), Append(history, m))
    BY <1>2, <1>10 DEF EngineMoveRejected
  <2>2. Now.clock.state = "running" => OutcomeKept(Now, Flag(Now))
    BY <1>6
  <2> QED
    BY <1>1, <1>3, <1>4, <1>5, <2>1, <2>2, RaisesOutcome
<1>11. CASE EngineHasNoMove(c)
  <2> DEFINE looked == [sessions EXCEPT ![session] = Look(Now)]
             paused == [looked EXCEPT ![session] = Pause(@)]
  <2>1. \/ PauseAfterFailure(looked)
        \/ RecordThenAnswer(Look(Now).clock, Len(Live), looked, "finished")
    BY <1>2, <1>11 DEF EngineHasNoMove
  <2>2. CASE RecordThenAnswer(Look(Now).clock, Len(Live), looked, "finished")
    BY <1>2, <1>4, <1>5, <2>2, RecordKeeps
  <2>3. CASE PauseAfterFailure(looked)
    <3>1. paused = [sessions EXCEPT ![session] = Pause(Look(Now))]
      BY <1>2, <1>4, ReplacedFields
    <3>2. Answer(paused, session, "error")
      BY <1>2, <2>3 DEF PauseAfterFailure
    <3>3. Pause(Look(Now)) \in Session /\ OutcomeKept(Now, Pause(Look(Now)))
      <4>1. Pause(Look(Now)) \in Session /\ Look(Pause(Look(Now))).over = Look(Look(Now)).over
        BY <1>4, PauseFields DEF SameGame
      <4> QED
        BY <1>5, <4>1 DEF OutcomeKept
    <3> HIDE DEF paused
    <3> QED
      BY <1>2, <3>1, <3>2, <3>3, AnswerKeeps
  <2> QED
    BY <2>1, <2>2, <2>3
<1>12. ASSUME NEW m \in AnyMove, EngineMoves(c, m)
       PROVE  OutcomesKept
  <2> DEFINE s == Switch(Now, Now.engine)
             t == Finish(s, "position")
             ss == [sessions EXCEPT ![session] = s]
             ended == [ss EXCEPT ![session] = Finish(@, "position")]
             paused == [ss EXCEPT ![session] = Pause(@)]
  <2>1. /\ \A u : OutcomeKept(Now, u)
        /\ \/ PauseAfterFailure(ss)
           \/ \E clock, ply, ph : RecordThenAnswer(clock, ply, ss, ph)
           \/ \E clock, ply : RecordThenAnswer(clock, ply, ended, "finished")
           \/ sessions' = ss
    <3>1. Now.clock.state # "flagged"
      BY <1>2, <1>12 DEF EngineMoves, Admitted
    <3>2. \/ PauseAfterFailure(ss)
          \/ \E clock, ply, ph : RecordThenAnswer(clock, ply, ss, ph)
          \/ \E clock, ply : RecordThenAnswer(clock, ply, ended, "finished")
          \/ sessions' = ss
      BY <1>2, <1>12 DEF EngineMoves
    <3> QED
      BY <1>6, <3>1, <3>2
  <2>2. s \in Session
    BY <1>2, <1>3, SideFlips, SwitchFields DEF SameGame
  <2> HIDE DEF s
  <2>3. t \in Session /\ Pause(s) \in Session
    BY <2>2, FinishFields, PauseFields DEF SameGame
  <2>4. /\ ended = [sessions EXCEPT ![session] = t]
        /\ paused = [sessions EXCEPT ![session] = Pause(s)]
    BY <1>2, <2>2, ReplacedFields
  <2> HIDE DEF t, ended, paused
  <2>5. CASE PauseAfterFailure(ss)
    <3>1. Answer(paused, session, "error")
      BY <1>2, <2>5 DEF PauseAfterFailure, paused
    <3> QED
      BY <1>2, <2>1, <2>3, <2>4, <3>1, AnswerKeeps
  <2>6. CASE \E clock, ply, ph : RecordThenAnswer(clock, ply, ss, ph)
    BY <1>2, <2>1, <2>2, <2>6, RecordKeeps
  <2>7. CASE \E clock, ply : RecordThenAnswer(clock, ply, ended, "finished")
    BY <1>2, <2>1, <2>3, <2>4, <2>7, RecordKeeps
  <2>8. CASE sessions' = ss
    BY <1>2, <2>1, <2>2, <2>8, AnswerKeeps
  <2> QED
    BY <2>1, <2>5, <2>6, <2>7, <2>8
<1> QED
  BY <1>7, <1>8, <1>9, <1>10, <1>11, <1>12 DEF EngineReplies

\* A flag that falls decides a game that nothing else has decided.
LEMMA FlagOutcome ==
  ASSUME GameInv, NEW i \in DOMAIN sessions, FlagFalls(i)
  PROVE  OutcomesKept
<1> DEFINE clock == [sessions[i].clock EXCEPT !.state = "flagged"]
           s == [sessions[i] EXCEPT !.clock = clock]
<1>1. sessions[i].clock.state = "running" /\ sessions' = [sessions EXCEPT ![i] = s]
  BY DEF FlagFalls
<1>2. sessions[i] \in Session /\ sessions[i].clock \in Clock
  <2>1. sessions[i] \in Session
    BY GameFields, LenProperties, ElementOfSeq
  <2> QED
    BY <2>1 DEF Session
<1>3. clock \in Clock
  BY <1>2, ClockFields
<1> HIDE DEF clock
<1>4. s \in Session /\ s.over = sessions[i].over
  BY <1>2, <1>3, WithClock DEF SameGame
<1> HIDE DEF s
<1>5. OutcomeKept(sessions[i], s)
  <2>1. sessions[i].over = "no" => Look(sessions[i]).over = "no"
    BY <1>1, <1>2, OutcomeFields
  <2>2. s.over # "no" => Look(s).over = s.over
    BY <1>4, OutcomeFields
  <2>3. sessions[i].over # "no" => Look(sessions[i]).over = sessions[i].over
    BY <1>2, OutcomeFields
  <2> QED
    BY <1>4, <2>1, <2>2, <2>3 DEF OutcomeKept
<1>6. \A j \in DOMAIN sessions : sessions'[j] = IF j = i THEN s ELSE sessions[j]
  BY <1>1
<1> QED
  BY <1>5, <1>6 DEF OutcomesKept, OutcomeKept

\* An outcome stands, whichever step is taken.
LEMMA OutcomeStep ==
  ASSUME GameInv, [Next]_vars, NEW i \in DOMAIN sessions, Look(sessions[i]).over # "no"
  PROVE  \/ Look(sessions'[i]).over = Look(sessions[i]).over
         \/ sessions'[i].over = "no" /\ Len(Last(boards')) < Len(Live)
<1>1. CASE UNCHANGED vars
  BY <1>1 DEF vars
<1>2. CASE \E c \in Callers : TakebackAccepted(c)
  BY <1>2, TakebackOutcome DEF OutcomeKept
<1>3. CASE \/ \E c \in Callers : (UserCalls(c) /\ ~TakebackAccepted(c)) \/ EngineReplies(c)
           \/ \E j \in DOMAIN sessions : FlagFalls(j)
  BY <1>3, UserOutcome, ReplyOutcome, FlagOutcome DEF OutcomesKept, OutcomeKept
<1> QED
  BY <1>1, <1>2, <1>3 DEF Next

-----------------------------------------------------------------------------
(* The theorems about the host that serialises the calls.  They assume that     *)
(* nobody looks at earlier positions while a game is paused after a failure: a *)
(* retry asks the engine from there, and when that reply is rolled back the    *)
(* history restored ends at the reviewed position.                             *)

(* What is true of the game between any two steps. *)
THEOREM EngineGameInvariant ==
  ASSUME Serialized, "error" \notin Reviews
  PROVE  Spec => []GameInv
<1>1. Init => GameInv
  BY GameStart
<1>2. GameInv /\ [Next]_vars => GameInv'
  BY GameKept
<1> QED
  BY <1>1, <1>2, PTL DEF Spec

(* Board and review history agree however moves, replies, takebacks and the    *)
(* rollback of each of them follow one another.                                *)
THEOREM EngineHistoryAligned ==
  ASSUME Serialized, "error" \notin Reviews
  PROVE  Spec => []HistoryAligned
<1>1. GameInv => HistoryAligned
  BY GameShown
<1> QED
  BY <1>1, EngineGameInvariant, PTL

(* The game that is shown is the game: it has a session when its phase says    *)
(* so, the clock of an active one runs for the side to move, every ply has a   *)
(* recorded clock, and when it is the engine's turn somebody waits for its     *)
(* reply.                                                                      *)
THEOREM EngineShownGameIsTrue ==
  ASSUME Serialized, "error" \notin Reviews
  PROVE  Spec => []ShownGameIsTrue
<1>1. GameInv => ShownGameIsTrue
  BY GameShown
<1> QED
  BY <1>1, EngineGameInvariant, PTL

(* A reply that goes wrong takes its own move back and nothing else: whatever  *)
(* was on the board when it came is still there, whichever call raised.  And a *)
(* game whose history could not be recovered stays as it is: no call, and no   *)
(* reply that is still on its way, touches it until it is given up.            *)
THEOREM EngineKeepsAcceptedMoves ==
  ASSUME Serialized, "error" \notin Reviews
  PROVE  Spec => AcceptedMovesKept
<1>1. GameInv /\ [Next]_vars =>
        [\A c \in Callers : Returned(c) => IsPrefix(Live, Last(boards'))]_vars
  BY MovesKept
<1>2. GameInv /\ [Next]_vars =>
        [unsafe => \/ unsafe' /\ UNCHANGED <<boards, history>>
                   \/ Len(boards') = Len(boards) + 1]_vars
  BY FenceHolds
<1> QED
  BY <1>1, <1>2, EngineGameInvariant, PTL
  DEF Spec, AcceptedMovesKept, RepliesTakeBackTheirOwn, UnsafeFence

(* An outcome is final in every session, the ones left behind included, and a  *)
(* fallen flag is one, whichever call notices the fall: only a takeback opens  *)
(* the game again, and takes at least one move off the board.                  *)
THEOREM EngineOutcomeStands ==
  ASSUME Serialized, "error" \notin Reviews
  PROVE  Spec => OutcomeStands
<1>1. GameInv /\ [Next]_vars =>
        [\A i \in DOMAIN sessions :
           LET decided == Look(sessions[i]).over
           IN  decided # "no" =>
                 \/ Look(sessions'[i]).over = decided
                 \/ sessions'[i].over = "no" /\ Len(Last(boards')) < Len(Live)]_vars
  BY OutcomeStep
<1> QED
  BY <1>1, EngineGameInvariant, PTL DEF Spec, OutcomeStands
=============================================================================
