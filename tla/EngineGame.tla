------------------------------ MODULE EngineGame ------------------------------
(* A game against Stockfish: the API handlers of acs/stage1_release_ui.py and   *)
(* acs/stage1_release_ui_core.py, the session coordinator, its lifecycle and    *)
(* its clock (acs/engine_game_session.py, game_lifecycle.py, clock_service.py). *)
(*                                                                             *)
(* A handler is one action, or two when it waits for the engine in between.    *)
(* The version 2 host serialises the calls; in the Stage 1 host they overlap,  *)
(* so that others run while one waits.  A position is the sequence of moves    *)
(* that led to it, a move is a model value, Mate is a move that ends the game. *)
(* Clocks keep their state and side, not their milliseconds.  Draw offers,     *)
(* which the engine always declines at once, sounds, redo and the setting up   *)
(* of positions are left out.                                                  *)
EXTENDS Integers, SequencesExt

CONSTANTS
    Callers,          \* threads that call the API
    Moves, Mate,      \* moves, and one that leaves no legal move
    None,
    Serialized,       \* version 2 host: one call at a time
    EngineOutcomes,   \* what the provider does: "move", "none" or "error"
    HookOutcomes,     \* may _record_position_after_move return? it is defined nowhere
    RestoreOutcomes,  \* may the restoring of a takeback checkpoint succeed or fail
    Reviews,          \* the phases in which the user looks at earlier positions
    MaxPlies,         \* bound on the moves of a game
    MaxBoards         \* bound on the games

ASSUME EngineGameAssumption ==
    /\ Mate \notin Moves
    /\ Serialized \in BOOLEAN
    /\ Reviews \subseteq {"idle", "active", "error", "stopped", "finished"}
    /\ EngineOutcomes \subseteq {"move", "none", "error"}
    /\ HookOutcomes \subseteq BOOLEAN /\ RestoreOutcomes \subseteq BOOLEAN
    /\ MaxPlies \in Nat /\ MaxBoards \in Nat \ {0}
    /\ None \notin Nat \cup {"w", "b"}

VARIABLES
    boards,         \* the Board objects so far; self.board is the last one
    history,        \* the moves of the live line of review_history
    cursor,         \* the ply that review_history shows
    phase,          \* _engine_game_phase
    unsafe,         \* _engine_takeback_unsafe
    sessions,       \* the session coordinators so far
    session,        \* index of _engine_session, 0 when there is none
    clockHistory,   \* _engine_clock_history
    commitContext,  \* _engine_human_commit_context: plies before the move, or None
    call            \* what each caller waits for, and what it captured before

game == <<boards, history, cursor>>
vars == <<boards, history, cursor, phase, unsafe, sessions, session,
          clockHistory, commitContext, call>>

Sides    == {"w", "b"}
Phases   == {"idle", "active", "error", "stopped", "finished"}
AnyMove  == Moves \cup {Mate}
Position == Seq(AnyMove)
Clock    == [state : {"stopped", "running", "paused", "flagged"}, side : Sides \cup {None}]
Session  == [engine : Sides, board : Nat, timed : BOOLEAN, clock : Clock, takeback : BOOLEAN,
             over : {"no", "position", "timeout", "resigned"}]
Call     == [at : {"idle", "thinking"}, session : Nat, asked : Position, history : Position,
             cursor : Nat, moving : BOOLEAN, previous : Nat \cup {None}]

NoCall == [at |-> "idle", session |-> 0, asked |-> <<>>, history |-> <<>>, cursor |-> 0,
           moving |-> FALSE, previous |-> None]

TypeOK ==
    /\ boards \in Seq(Position)
    /\ history \in Position /\ cursor \in 0..Len(history)
    /\ phase \in Phases /\ unsafe \in BOOLEAN
    /\ sessions \in Seq(Session) /\ session \in 0..Len(sessions)
    /\ clockHistory \in Seq(Clock)
    /\ commitContext \in Nat \cup {None}
    /\ call \in [Callers -> Call]

Init ==
    /\ boards = <<<<>>>>
    /\ history = <<>> /\ cursor = 0
    /\ phase = "idle" /\ unsafe = FALSE
    /\ sessions = <<>> /\ session = 0
    /\ clockHistory = <<>>
    /\ commitContext = None
    /\ call = [c \in Callers |-> NoCall]

-----------------------------------------------------------------------------
(* The board *)

Live == Last(boards)

SideToMove(p) == IF Len(p) % 2 = 0 THEN "w" ELSE "b"

Other(side) == IF side = "w" THEN "b" ELSE "w"

Terminal(p) == p # <<>> /\ Last(p) = Mate

AtHistoryEnd == cursor = Len(history)

BoardBecomes(p) == boards' = [boards EXCEPT ![Len(boards)] = p]

GameBecomesCursorKept(p) ==   \* variant: the review cursor stays where it was
    BoardBecomes(p) /\ history' = p /\ UNCHANGED cursor

\* Board and review history move on together.
GameBecomes(p) == BoardBecomes(p) /\ history' = p /\ cursor' = Len(p)

PlayMove(m) ==
    /\ BoardBecomes(Append(Live, m))
    /\ history' = Append(history, m)
    /\ cursor' = Len(history) + 1

\* The game's undo() succeeds for a history that agrees with the board.
UndoWorks == Live # <<>> /\ AtHistoryEnd /\ history = Live

-----------------------------------------------------------------------------
(* The session: clock and lifecycle *)

ClockOf(state, side) == [state |-> state, side |-> side]

\* snapshot() records a fallen flag as the outcome of an active game, ...
Look(s) == IF s.clock.state = "flagged" /\ s.over = "no" THEN [s EXCEPT !.over = "timeout"] ELSE s

\* ... and raises unless clock, lifecycle and board agree.
Valid(s, turn) ==
    /\ s.over = "no" => /\ s.clock.state # "flagged"
                        /\ s.timed => s.clock.state \in {"running", "paused"}
    /\ s.over # "no" => s.clock.state \notin {"running", "paused"}
    /\ ~s.timed => s.clock.state = "stopped"
    /\ s.clock.state \in {"running", "paused"} => s.clock.side = turn

Finish(s, why) ==
    [s EXCEPT !.over = why, !.takeback = FALSE,
              !.clock = IF s.clock.state = "flagged" THEN s.clock ELSE ClockOf("stopped", None)]

Pause(s) ==
    IF s.over # "no" THEN s
    ELSE Look([s EXCEPT !.clock.state = IF @ = "running" THEN "paused" ELSE @])

CanSwitch(s, mover) == s.timed => s.clock = ClockOf("running", mover)

\* The clock accepts the move, then the lifecycle drops a pending takeback.
Switch(s, mover) ==
    [s EXCEPT !.takeback = FALSE,
              !.clock = IF s.timed THEN ClockOf("running", Other(mover)) ELSE s.clock]

\* The mover's flag falls in the switch itself.
Flag(s) == [s EXCEPT !.clock.state = "flagged", !.over = "timeout", !.takeback = FALSE]

Now == sessions[session]

Human(s) == Other(s.engine)

PlayingByPhase == phase = "active"   \* variant: the session is not asked

\* A game in which the next call finds nothing to object to.
Playing == phase = "active" /\ Now.over = "no" /\ Valid(Now, SideToMove(Live))

-----------------------------------------------------------------------------
(* Handlers: how they begin and end *)

Idle == \A c \in Callers : call[c].at = "idle"

\* Calls are admitted one at a time by the version 2 host.
Enter(c) == call[c].at = "idle" /\ (Serialized => Idle)

FenceForgotten == FALSE   \* variant: nothing asks whether the history is trusted

Fenced == unsafe

\* Every handler answers with the state, which looks at the session once more,
\* unless a human move is under way that the clock has not accepted yet.
Answer(ss, current, ph) ==
    LET hidden == ph = "active" /\ commitContext # None /\ Len(Last(boards')) = commitContext + 1
        seen == current # 0 /\ ~hidden
        s == Look(ss[current])
    IN  /\ session' = current
        /\ sessions' = IF seen THEN [ss EXCEPT ![current] = s] ELSE ss
        /\ phase' = IF /\ seen /\ ph \notin {"error", "stopped"} /\ ~unsafe'
                       /\ s.over # "no" /\ Valid(s, SideToMove(Last(boards')))
                    THEN "finished" ELSE ph

AnswerAbout(s, ph) == Answer([sessions EXCEPT ![session] = s], session, ph)

ResetKeepsPhase ==   \* variant: the phase of the old game stays
    /\ session' = 0 /\ unsafe' = FALSE
    /\ clockHistory' = <<>>
    /\ UNCHANGED <<sessions, phase>>

\* _reset_engine_game_state
ResetEngineGame ==
    /\ session' = 0 /\ phase' = "idle" /\ unsafe' = FALSE
    /\ clockHistory' = <<>>
    /\ UNCHANGED sessions

\* _record_engine_clock raises when the clock history is too short.
CanRecord(ply) == Len(clockHistory) >= ply

Recorded(clock, ply) == Append(SubSeq(clockHistory, 1, ply), clock)

\* Records a clock, then answers; when it raises the call ends there.
RecordThenAnswer(clock, ply, ss, ph) ==
    \/ /\ CanRecord(ply)
       /\ clockHistory' = Recorded(clock, ply)
       /\ Answer(ss, session, ph)
    \/ /\ ~CanRecord(ply)
       /\ sessions' = ss
       /\ UNCHANGED <<clockHistory, session, phase>>

\* A caller asks the engine for a reply; what it needs to take the reply back is
\* captured first.
Ask(c, i, p, h, at, moving) ==
    call' = [call EXCEPT ![c] =
               [at |-> "thinking", session |-> i, asked |-> p, history |-> h, cursor |-> at,
                moving |-> moving, previous |-> IF moving THEN commitContext ELSE None]]

-----------------------------------------------------------------------------
(* Handlers that do not wait *)

\* get_state, and every call that is refused after it has looked at the game.
GetState(c) ==
    /\ Enter(c)
    /\ UNCHANGED <<game, unsafe, clockHistory, commitContext, call>>
    /\ Answer(sessions, session, phase)

NewGame(c) ==
    /\ Enter(c)
    /\ Len(boards) < MaxBoards
    /\ boards' = Append(boards, <<>>)
    /\ history' = <<>> /\ cursor' = 0
    /\ ResetEngineGame
    /\ UNCHANGED <<commitContext, call>>

\* A move without an engine game; moving on a stopped game forgets it.
PlainMove(c, m) ==
    /\ Enter(c)
    /\ ~Fenced
    /\ phase \in {"idle", "stopped"}
    /\ AtHistoryEnd /\ ~Terminal(Live) /\ Len(Live) < MaxPlies
    /\ PlayMove(m)
    /\ ResetEngineGame
    /\ UNCHANGED <<commitContext, call>>

\* Text or a square that makes no move forgets a stopped game as well.
NoMove(c) ==
    /\ Enter(c)
    /\ ~Fenced
    /\ phase = "stopped"
    /\ ResetEngineGame
    /\ UNCHANGED <<game, commitContext, call>>

\* undo() outside an active game; in the phase "error" the session stays.
PlainUndo(c) ==
    /\ Enter(c)
    /\ ~Fenced
    /\ phase # "active"
    /\ IF UndoWorks THEN GameBecomes(Front(Live)) ELSE UNCHANGED game
    /\ IF phase \in {"stopped", "finished"} THEN ResetEngineGame
       ELSE UNCHANGED <<unsafe, clockHistory>> /\ Answer(sessions, session, phase)
    /\ UNCHANGED <<commitContext, call>>

\* review_previous, review_next and the selection of a reviewed position.
Review(c) ==
    /\ Enter(c)
    /\ phase \in Reviews
    /\ \E ply \in 0..Len(history) :
          /\ ply = Len(history) => history = Live
          /\ cursor' = ply
    /\ UNCHANGED <<boards, history, unsafe, clockHistory, commitContext, call>>
    /\ Answer(sessions, session, phase)

StopEngineGame(c) ==
    /\ Enter(c)
    /\ session # 0
    /\ UNCHANGED <<game, unsafe, clockHistory, commitContext, call>>
    /\ AnswerAbout(IF phase = "active" THEN Pause(Now) ELSE Now, "stopped")

ResignEngineGame(c) ==
    /\ Enter(c)
    /\ Playing
    /\ UNCHANGED <<game, unsafe, clockHistory, commitContext, call>>
    /\ AnswerAbout(Finish(Now, "resigned"), "finished")

-----------------------------------------------------------------------------
(* Handlers that may wait for the engine *)

StartEngineGame(c, engine, timed) ==
    LET clock == IF timed THEN ClockOf("running", "w") ELSE ClockOf("stopped", None)
        s == [engine |-> engine, board |-> Len(boards) + 1, timed |-> timed, clock |-> clock,
              takeback |-> FALSE, over |-> "no"]
        i == Len(sessions) + 1
    IN  /\ Enter(c)
        /\ Len(boards) < MaxBoards
        /\ boards' = Append(boards, <<>>)
        /\ history' = <<>> /\ cursor' = 0
        /\ unsafe' = FALSE
        /\ clockHistory' = <<clock>>
        /\ sessions' = Append(sessions, s) /\ session' = i
        /\ phase' = "active"
        /\ IF engine = "w" THEN Ask(c, i, <<>>, <<>>, 0, FALSE) ELSE UNCHANGED call
        /\ UNCHANGED commitContext

\* make_move and activate_square in a game, up to the engine's reply.
HumanMove(c) ==
    /\ Enter(c)
    /\ ~Fenced
    /\ Playing
    /\ SideToMove(Live) = Human(Now)
    /\ AtHistoryEnd /\ ~Terminal(Live) /\ Len(Live) < MaxPlies - 1

\* The clock accepts the move: while calls do not interrupt each other here, the
\* clock of a game that Playing admits always runs for the human, and the branch
\* for a clock that refuses (a pause and the phase "error") is never taken.  A
\* clock history that is too short makes the handler raise, and nobody asks the
\* engine.
HumanMoveAccepted(c, m) ==
    LET ply == Len(Live) + 1
        s == Switch(Now, Human(Now))
    IN  /\ HumanMove(c)
        /\ CanSwitch(Now, Human(Now))
        /\ PlayMove(m)
        /\ UNCHANGED <<unsafe, session>>
        /\ clockHistory' = IF CanRecord(ply) THEN Recorded(s.clock, ply) ELSE clockHistory
        /\ IF m = Mate /\ CanRecord(ply)
           THEN /\ AnswerAbout(Finish(s, "position"), "finished")
                /\ UNCHANGED <<call, commitContext>>
           ELSE /\ sessions' = [sessions EXCEPT ![session] = s]
                /\ UNCHANGED phase
                /\ IF CanRecord(ply)
                   THEN /\ Ask(c, session, Append(Live, m), Append(history, m), cursor + 1, TRUE)
                        /\ commitContext' = Len(Live)
                   ELSE UNCHANGED <<call, commitContext>>

\* The flag falls after the first test: the move is taken back, the game is over.
HumanMoveTooLate(c) ==
    /\ HumanMove(c)
    /\ Now.clock.state = "running"
    /\ UNCHANGED <<game, unsafe, commitContext, call>>
    /\ RecordThenAnswer(Flag(Now).clock, Len(Live), [sessions EXCEPT ![session] = Flag(Now)], "finished")

CanResume(s) == s.over = "no" /\ (s.timed => s.clock.state \in {"running", "paused"})

ResumeLifecycleOnly(s) == s   \* variant: the clock stays paused

Resume(s) == IF s.timed THEN [s EXCEPT !.clock.state = "running"] ELSE s

RetryEngineMove(c) ==
    LET s == Resume(Now)
        works == CanResume(Now) /\ Valid(s, SideToMove(Live))
    IN  /\ Enter(c)
        /\ ~Fenced
        /\ phase = "error" /\ session # 0
        /\ UNCHANGED <<game, unsafe, clockHistory, commitContext>>
        /\ \/ /\ ~works
              /\ AnswerAbout(Pause(Now), "error")
              /\ UNCHANGED call
           \/ /\ works
              /\ AnswerAbout(s, "active")
              /\ IF SideToMove(Live) = s.engine
                 THEN Ask(c, session, Live, history, cursor, FALSE) ELSE UNCHANGED call

-----------------------------------------------------------------------------
(* Takeback *)

\* The position before the human's last move.
TakebackTo ==
    IF SideToMove(Front(Live)) = Human(Now) THEN Front(Live) ELSE Front(Front(Live))

Committed(p) == SubSeq(clockHistory, 1, Len(p) + 1)

\* The session the takeback leads to: the clock of that ply, running again.
TakenBack(s, p) ==
    [s EXCEPT !.over = "no", !.takeback = FALSE, !.clock = clockHistory[Len(p) + 1]]

\* A takeback is offered when the session can be read and a human move is there.
MayTakeBack ==
    /\ ~Fenced
    /\ phase \in {"active", "finished", "error"}
    /\ Valid(Look(Now), SideToMove(Live))
    /\ \E i \in DOMAIN Live : SideToMove(SubSeq(Live, 1, i - 1)) = Human(Now)

\* Outside the phase "finished" a game that is over takes no request.
TakebackWorks ==
    /\ phase = "finished" \/ Look(Now).over = "no"
    /\ UndoWorks
    /\ Len(TakebackTo) < Len(clockHistory)
    /\ Valid(TakenBack(Now, TakebackTo), SideToMove(TakebackTo))

TakebackAccepted(c) ==
    /\ Enter(c)
    /\ session # 0 /\ MayTakeBack /\ TakebackWorks
    /\ GameBecomes(TakebackTo)
    /\ clockHistory' = Committed(TakebackTo)
    /\ UNCHANGED <<unsafe, commitContext, call>>
    /\ AnswerAbout(TakenBack(Now, TakebackTo), "active")

\* What was undone is restored; the request stays pending in an active game.
TakebackFails(c) ==
    LET s == Look(Now)
        asks == phase # "finished" /\ s.over = "no"
    IN  /\ Enter(c)
        /\ session # 0 /\ MayTakeBack /\ ~TakebackWorks
        /\ UNCHANGED <<clockHistory, commitContext, call>>
        /\ \/ /\ TRUE \in RestoreOutcomes \/ (phase # "finished" /\ ~asks)
              /\ UNCHANGED <<game, unsafe>>
              /\ AnswerAbout(Pause([s EXCEPT !.takeback = @ \/ asks]), "error")
           \/ /\ FALSE \in RestoreOutcomes /\ (phase = "finished" \/ asks)
              /\ UNCHANGED game \/ (UndoWorks /\ GameBecomes(TakebackTo))
              /\ unsafe' = TRUE
              /\ AnswerAbout([s EXCEPT !.takeback = @ \/ asks], "error")

-----------------------------------------------------------------------------
(* The engine's reply *)

ReturnsInContext(c) ==   \* variant: the context of the move is left behind
    call' = [call EXCEPT ![c] = NoCall] /\ UNCHANGED commitContext

Returns(c) ==
    /\ call' = [call EXCEPT ![c] = NoCall]
    /\ commitContext' = IF call[c].moving THEN call[c].previous ELSE commitContext

\* _pause_engine_after_failure pauses the game that is current by now.
PauseUnannounced(ss) ==   \* variant: the phase still says that the game goes on
    Answer(IF session = 0 THEN ss ELSE [ss EXCEPT ![session] = Pause(@)], session, phase)

PauseAfterFailure(ss) ==
    Answer(IF session = 0 THEN ss ELSE [ss EXCEPT ![session] = Pause(@)], session, "error")

RollsBackBlindly(k, p) == p # <<>>   \* variant: the last move, whoever made it

NeverRollsBack(k, p) == FALSE   \* variant: a move that was committed before the error stays

\* _rollback_expired_committed_move goes by the number of moves and the position
\* before the last one.
RollsBack(k, p) == Len(p) = Len(k.asked) + 1 /\ Front(p) = k.asked

RestoreHistory(k) == SubSeq(k.history, 1, k.cursor)

\* request_engine_move raised when the board was at p, the history at h, and the
\* session of the request was s.
ReplyRaises(c, s, p, h) ==
    LET k == call[c]
        back == RollsBack(k, p)
        stuck == Len(p) = Len(k.asked) + 1 /\ ~back
        q == IF back THEN Front(p) ELSE p
        ss == [sessions EXCEPT ![k.session] = s]
        looked == [sessions EXCEPT ![k.session] = Look(s)]
        expired == Look(s).over = "timeout" /\ Valid(Look(s), SideToMove(q))
    IN  /\ BoardBecomes(q)
        /\ history' = IF back THEN RestoreHistory(k) ELSE h
        /\ cursor' = IF back THEN k.cursor ELSE IF h = history THEN cursor ELSE Len(h)
        /\ UNCHANGED unsafe
        /\ Returns(c)
        /\ \/ stuck /\ Answer(ss, session, "error") /\ UNCHANGED clockHistory
           \/ ~stuck /\ ~expired /\ PauseAfterFailure(looked) /\ UNCHANGED clockHistory
           \/ ~stuck /\ expired /\ RecordThenAnswer(s.clock, Len(q), looked, "finished")

Thinking(c) == call[c].at = "thinking"

MoveArrives(c) == Thinking(c) /\ "move" \in EngineOutcomes

Asked(c) == sessions[call[c].session]

\* The provider raises, or is closed.
EngineFails(c) ==
    /\ Thinking(c)
    /\ "error" \in EngineOutcomes
    /\ ReplyRaises(c, Asked(c), Live, history)

\* The provider knows no move, although there is one.
EngineHasNoMove(c) ==
    LET s == Look(Asked(c))
        looked == [sessions EXCEPT ![call[c].session] = s]
        over == s.over # "no" /\ Valid(s, SideToMove(Live))
    IN  /\ Thinking(c)
        /\ "none" \in EngineOutcomes
        /\ UNCHANGED <<game, unsafe>>
        /\ Returns(c)
        /\ \/ over /\ RecordThenAnswer(s.clock, Len(Live), looked, "finished")
           \/ ~over /\ PauseAfterFailure(looked) /\ UNCHANGED clockHistory

AdmittedUnseen(c) ==   \* variant: the position of the request is not compared
    LET s == Asked(c)
    IN  /\ s.over = "no" /\ s.clock.state # "flagged"
        /\ SideToMove(Live) = s.engine
        /\ s.clock.state = "running" => s.clock.side = s.engine

\* assert_move_allowed and the comparison of positions before the commit.
Admitted(c) ==
    LET s == Asked(c)
    IN  /\ s.over = "no" /\ s.clock.state # "flagged"
        /\ SideToMove(Live) = s.engine
        /\ s.clock.state = "running" => s.clock.side = s.engine
        /\ boards[s.board] = call[c].asked

\* A move for another position than the live one may be illegal there.
EngineMoveNotCommitted(c) ==
    /\ MoveArrives(c)
    /\ ~Admitted(c) \/ call[c].asked # Live
    /\ ReplyRaises(c, Look(Asked(c)), Live, history)

\* _commit_engine_move has moved on the board when its last call raises.
EngineMoveHookRaises(c, m) ==
    /\ MoveArrives(c)
    /\ Admitted(c) /\ ~Terminal(Live)
    /\ FALSE \in HookOutcomes
    /\ ReplyRaises(c, Asked(c), Append(Live, m), history)

\* The clock has been paused meanwhile, or the engine's flag falls in the switch.
EngineMoveRejected(c, m) ==
    /\ MoveArrives(c)
    /\ Admitted(c) /\ ~Terminal(Live)
    /\ TRUE \in HookOutcomes
    /\ \/ /\ ~CanSwitch(Asked(c), Asked(c).engine)
          /\ ReplyRaises(c, Asked(c), Append(Live, m), Append(history, m))
       \/ /\ Asked(c).clock.state = "running"
          /\ ReplyRaises(c, Flag(Asked(c)), Append(Live, m), Append(history, m))

EngineMoves(c, m) ==
    LET k == call[c]
        s == Switch(Asked(c), Asked(c).engine)
        ss == [sessions EXCEPT ![k.session] = s]
        ply == Len(Live) + 1
        mated == m = Mate /\ session # 0
        ended == [ss EXCEPT ![session] = Finish(@, "position")]
    IN  /\ MoveArrives(c)
        /\ Admitted(c) /\ ~Terminal(Live)
        /\ TRUE \in HookOutcomes
        /\ CanSwitch(Asked(c), Asked(c).engine)
        /\ PlayMove(m)
        /\ UNCHANGED unsafe
        /\ Returns(c)
        /\ \/ /\ ply # Len(k.asked) + 1
              /\ PauseAfterFailure(ss)
              /\ UNCHANGED clockHistory
           \/ /\ ply = Len(k.asked) + 1 /\ (~mated \/ ~CanRecord(ply))
              /\ RecordThenAnswer(s.clock, ply, ss, phase)
           \/ /\ ply = Len(k.asked) + 1 /\ mated /\ CanRecord(ply)
              /\ IF ss[session].over = "no"
                 THEN RecordThenAnswer(ended[session].clock, ply, ended, "finished")
                 ELSE /\ clockHistory' = Recorded(s.clock, ply)
                      /\ sessions' = ss
                      /\ UNCHANGED <<session, phase>>

EngineReplies(c) ==
    \/ EngineFails(c) \/ EngineHasNoMove(c) \/ EngineMoveNotCommitted(c)
    \/ \E m \in AnyMove : EngineMoveHookRaises(c, m) \/ EngineMoveRejected(c, m) \/ EngineMoves(c, m)

-----------------------------------------------------------------------------

\* Time runs out on a running clock; the next look finds it.
FlagFalls(i) ==
    /\ sessions[i].clock.state = "running"
    /\ sessions' = [sessions EXCEPT ![i].clock.state = "flagged"]
    /\ UNCHANGED <<game, phase, unsafe, session, clockHistory, commitContext, call>>

UserCalls(c) ==
    \/ GetState(c) \/ NewGame(c) \/ NoMove(c) \/ PlainUndo(c) \/ Review(c) \/ StopEngineGame(c)
    \/ ResignEngineGame(c) \/ HumanMoveTooLate(c)
    \/ RetryEngineMove(c) \/ TakebackAccepted(c) \/ TakebackFails(c)
    \/ \E m \in AnyMove : PlainMove(c, m) \/ HumanMoveAccepted(c, m)
    \/ \E engine \in Sides, timed \in BOOLEAN : StartEngineGame(c, engine, timed)

Next ==
    \/ \E c \in Callers : UserCalls(c) \/ EngineReplies(c)
    \/ \E i \in DOMAIN sessions : FlagFalls(i)

Spec == Init /\ [][Next]_vars

FairSpec == Spec /\ \A c \in Callers : WF_vars(EngineReplies(c))

-----------------------------------------------------------------------------
(* Properties *)

\* The review history ends where the board is, through moves, replies, takebacks
\* and every rollback: undo and takeback depend on it.
HistoryAligned == history = Live

\* A game shown as active can go on: its clock runs for the side to move or has
\* run out, the clocks of all plies are recorded, and when it is the engine's
\* turn somebody is waiting for its reply.
ActiveGameGoesOn ==
    phase = "active" =>
        LET s == Look(Now)
        IN  /\ Valid(s, SideToMove(Live))
            /\ Len(clockHistory) > Len(Live)
            /\ s.over = "no" /\ s.timed => s.clock.state = "running"
            /\ s.over = "no" =>
                  \/ SideToMove(Live) = Human(s)
                  \/ \E c \in Callers : Thinking(c) /\ call[c].session = session

\* The precommit context is gone when no move is under way.
ContextReleased == Idle => commitContext = None

\* The user is told of a game that is over, paused or under way only when there is
\* one: without it "retry it or stop it first" could not be followed.
PhaseHasAGame == phase = "idle" <=> session = 0

\* What the page shows of the game is the game: the place under review is in its
\* history, nothing hides it when no move is under way, its phase says whether there
\* is one, and an active one goes on.
ShownGameIsTrue == TypeOK /\ ContextReleased /\ PhaseHasAGame /\ ActiveGameGoesOn

Returned(c) == Thinking(c) /\ call'[c].at = "idle"

\* A reply that goes wrong takes back its own move and nothing else: whatever was
\* on the board when it came is still there.
RepliesTakeBackTheirOwn ==
    [][\A c \in Callers : Returned(c) => IsPrefix(Live, Last(boards'))]_vars

\* A reply to the game on the board is played only in the position it was
\* computed for.
ReplyInItsGame ==
    [][\A c \in Callers :
          Returned(c) /\ boards' # boards /\ IsPrefix(Live, Last(boards')) =>
             \/ Asked(c).board # Len(boards)
             \/ Live = call[c].asked]_vars

\* A game whose history could not be recovered stays as it is until it is given
\* up for a new one.
UnsafeFence ==
    [][unsafe => \/ unsafe' /\ UNCHANGED <<boards, history>>
                 \/ Len(boards') = Len(boards) + 1]_vars

\* No move that was accepted is lost to a reply that fails, now or after a
\* takeback that could not be compensated.
AcceptedMovesKept == RepliesTakeBackTheirOwn /\ UnsafeFence

\* A fallen flag decides the game and an outcome is final, whichever call notices
\* the fall first: only a takeback opens the game again.
OutcomeStands ==
    [][\A i \in DOMAIN sessions :
          LET decided == Look(sessions[i]).over
          IN  decided # "no" => \/ Look(sessions'[i]).over = decided
                                \/ sessions'[i].over = "no" /\ Len(Last(boards')) < Len(Live)]_vars

\* With an engine that answers every request, each human move is answered by a
\* move, or the game ends.
HumanMoveAnswered ==
    \A n \in 0..MaxPlies :
        (phase = "active" /\ ~Idle /\ Len(Live) = n) ~> (Len(Live) > n \/ phase = "finished")

\* The same whatever the engine, the commit hook and the reviewing user do: if no
\* failure ever pauses the game, no human move stays unanswered.
AnsweredUnlessPaused == [](phase # "error") => HumanMoveAnswered
=============================================================================
