# Verification of Accessible Chess

TLA+ models, TLC runs and TLAPS proofs about the concurrent and stateful core of
Accessible Chess (`src/acs`): a desktop chess program with a web view, a Stockfish
process, background file work, and files that several processes share and that have to
survive a crash. `PROJECT.json` lists the components, runs, mutants, hazards, findings
and theorems, and the source lines each definition stands for.

To check a module: `tlc -config <cfg> <module>` for the pairs of section 4, `tlapm
<module>` for the modules ending in `Proofs`.

## 1. The system

### Threads and processes

| Who | Runs | Meets the others at |
|---|---|---|
| UI thread | web view calls, posted callbacks, native menus and dialogs, the document | API objects, mailbox, pump, worker slot |
| web view call threads (Stage 1 host) | API calls that may overlap while one waits for the engine | board, review history, engine session |
| analysis worker | `ContinuousAnalysisSession._run` | session lock, the shared `AnalysisService` |
| one-shot helpers | hint, evaluation, book and game review | the same `AnalysisService` |
| engine readers | one thread per Stockfish process, reading its output | the adapter's one bounded queue |
| file workers | PGN Open and Save, library import | worker slot, owner callback, `ImportEventMailbox` |
| retry timers | the automatic retry of a wakeup or of an owner callback | `ImportUiPump` |
| other processes of the program | saves to the same education and reading files | lock directories, lock files, the files |
| Version 1 and other programs | writes at any moment, under no lock | the files |

### Components that are modelled

**Analysis service** (`analysis_service.py`). State: generation, current FEN, closed
flag, the lazily built provider, two locks. Operations: `analyze`, `invalidate`,
`close`. Hard: a search runs outside the state lock; positions come back (A, B, A); a
call that passed the first test of `_closed` reaches the provider after the shutdown.
Correct when an answer is current only for the newest request, and the provider is
built once, never entered twice, and gone after a shutdown.

**Continuous analysis session** (`continuous_analysis.py`) with the **one-shot helpers**
(`engine_assisted_workflows.py`). State: revision, position, settings, pending request,
last result, the worker. Hard: revision, position and the service's verdict can each be
out of date when the answer is looked at; wakeups; a close that waits two seconds
only. Correct when what is displayed answers what is asked for now.

**UCI engine driver** (`engine.py`), under the **play service** (`engine_play_service.py`)
and the analysis, which share one adapter (`stockfish_runtime.py`). State: the process,
its reader thread, the queue of lines, fault and closed flags, the adapter's lock; each
service has a lock and a flag of its own. Operations: `start`, the transactions of
`analyze` and `best_move`, their failure, `choose_move`, `close`. Hard: a process hangs,
dies or babbles; a search that timed out still prints while the next one starts on the
same queue; options outlive a search; a shutdown meets one request inside the engine and
one waiting for it. Correct when an answer holds only lines of the search it was asked
for, no process is left behind, and every call comes back.

**Import event mailbox and UI wakeup pump** (`version2_windows_import_event_mailbox.py`,
`version2_windows_import_ui_pump.py`). A bounded queue with coalescing, overflow and
leased delivery; a pending flag, posts that fail, a retry timer, close and resume.
Correct when order is kept, no lifecycle event disappears silently, and no event is
left in an open mailbox with nobody on the way to deliver it.

**Windows file workflows** (`version2_windows_file_workflows.py`,
`version2_windows_host_runtime.py`, the owner-callback half of the pump). One worker slot
for PGN Open, PGN Save and import; the end of an operation crosses to the UI thread by
a callback that can be refused, retried or dropped; cancel, bounded close and recovery
from a refused close. Correct when every operation ends once and truly, a Save on disk
is not forgotten, and the document changes only for an Open that is still wanted.

**PGN documents** (`pgn_document.py`, `pgn_workspace.py`, `pgn_save_snapshot.py`,
`version2_pgn_commands.py`) on the **game tree** (`gametree*.py`). A workspace with a
cursor, edits that take lines apart and renumber paths, commands that carry an item of
an older view, edits that replace the workspace, a Save of a snapshot in the background.
Correct when the cursor stays where the same moves were played, no edit loses a
position or a comment, a stale command does nothing, and a clean document is on disk.

**Game against the engine** (`stage1_release_ui*.py`, `engine_game_session.py`,
`game_lifecycle.py`, `clock_service.py`), on the **board page API and review history**
(`webapp.py`, `history.py`). Board, history, session, clock and phase change together,
each can refuse half way, and the handler has to take back what the others have done.
Correct when board and history agree, an active game can go on, a paused one can be
resumed, no accepted move is lost and an outcome is final. Of the **Version 2 release
UI** only that its wrapper runs one call at a time (`Serialized`).

**Education progress transaction** (`education_progress_transaction.py`) on its two
stores (`education_workspace_store.py`, `student_progress_store.py`). The deletion of a
student in two files, with a journal, while other processes save. Correct when the
deletion is pending on disk until both files show it and nothing else is lost.

**Book reading progress** (`book_progress_store.py` and its use in
`version2_application.py`). One file with a rolling backup, a lock file, recovery the
user agrees to. Correct when what is readable is never lost, whoever else writes.

**Version upgrade** (`version2_upgrade_base.py`). Two files are migrated under a backup
and a journal, with recovery on the next start, while Version 1 may write them. Correct
when both files are migrated or neither, and the last write of the user survives.

### Components that are not modelled

| Component | Why, or when |
|---|---|
| Remote session, teaching session, classroom, training | planned (RemoteSession first); mostly sequential |
| Library import pipeline, book-open worker | planned; their events are those of the mailbox |
| Settings, profiles, bindings; other progress and resume stores | the save protocols are those of BookProgressStore and CasFile |
| Education records, child coaching, entitlements | sequential tables and records |
| Chess rules, notation | move generation is data; a move is a model value here |
| PGN, EPD, ChessBase and book parsing | data formats; what a tree keeps through its text is `RoundTrips` |
| Library database and search | the behaviour is SQLite's |
| Board queries, keyboard, menus, dialogs, sound, web gateway, JavaScript, composition, packaging | presentation, wiring or build steps |

The full list with files is in `PROJECT.json`.

## 2. The modules

    LatestRequest <== AnalysisService <-- ContinuousAnalysis
                      UciEngine       <-- SharedEngine
                      ImportMailbox   <-- ImportUiPump
    CasRegister   <== CasFile (twice) <-- StudentDeletion
                      BookProgressStore <-- BookProgress
                      GameTree        <-- PgnDocument <-- PgnDocumentMC
    EngineGame      FileWorkflows      VersionUpgrade

`<==` is "is implemented by", `<--` "is used by". The proofs about a module are in the
module of its name that ends in `Proofs`: ContinuousAnalysis (with those about
AnalysisService), SharedEngine, EngineGame, StudentDeletion (with those about CasFile),
VersionUpgrade, FileWorkflows and PgnDocument (with those about GameTree) have one.
**LibraryProofs** holds those about BookProgress and about ImportUiPump and ImportMailbox.

**LatestRequest** knows neither generations nor locks: a set of open calls, at most one
of which may still be answered as current.

**AnalysisService** cuts `analyze` where another thread can run: `Begin` (state lock),
`TakeProvider` (provider lock), `Search`, `Return` (the staleness test); `close` is
`Close` and `CloseProvider`. A FEN is a model value.

**ContinuousAnalysis** extends it: every caller is the worker, a helper or a closer, and
every step is a step of the session, of the service, or of both. The condition variable
is the difference between `workerAt = "asleep"` and `"checking"`; the join with its
time-out is `CloseServiceAfterJoin`, which need not wait for the worker.

**UciEngine** is the adapter: a request holds the lock from `Enter` to `Leave`, and `stage`
is where it stands in the dialogue (`greeting`, `starting`, `configuring`, `searching`).
Processes are numbered and never reused; each has its pipe and its reader, so the output
of a dead one can still arrive. A join gives up after 0.2 seconds, so in the model it may
always end; a process started while the reader of an earlier one still runs is `beset`. A
request is a number, and every line carries the number of the search it belongs to and of
the request that set the options. Commands sent together are one order, and a process
carries its orders out one after another. `Discard` is every failure path. **SharedEngine** adds the
clients: the players of `choose_move`, the analyst (the one thread the service lock of
AnalysisService lets through), and the shutdown in its order of analysis, play, runtime.

**ImportMailbox** has one action per operation, since each holds the lock.
**ImportUiPump** adds the workers, timers and UI thread; the pump's lock is never held
across a call out, so each locked section is one action. One worker is enough: the
delegate has one slot (`_worker`, lines 739, 1475, 1835).

**FileWorkflows** has one action per locked section of a worker and one per event of the
UI thread. The shutdown is cut at the join (`Fence`, `Retire` or `JoinTimesOut`,
`Resume`, `Refence`), since the worker runs during it. A document is the operation that
opened it, its text and the text it holds to be on disk; the code compares digests, so an
edit may bring any other text of `Texts` back, and with it a clean document. A Save replaces
its file only while the file is what the document took for saved (`FileIsTheSource`).
`MayFail` posts and presentations draw on `MaxFailures`.

**GameTree** is the tree as data: addresses, edits and the cursor remapping that each edit
returns. A tree is a function from the paths of its lines to the lines, and a move says
how many variations it has, so that no operator has to walk it: `IsTree` says that steps
and lines fit. The code follows a line through an edit by object identity; here an edit
is given by the subtrees it moves, with their new addresses, and by the few lines it
rewrites (`Edit`), and its result says where every line went (`goes`). `PromoteRemap`
and `ShiftPath` are the code's own arithmetic, held against what a cursor means
(`Played`).

**PgnDocument** has one action per method of the workspace and the session, and cuts a
background Save into capture, publication and commit. A digest is the content it is the
digest of. `Present` records the view a presentation was last built from; a `Command`
carries an item of it. **PgnDocumentMC** is the document of the runs.

**EngineGame** has one action per handler, or two when the handler waits for the engine:
what it captured before (`call[c]`) meets whatever the state is when the reply comes. A
position is the sequence of moves that led to it, `Mate` a move that ends the game;
boards are numbered, so that a late reply to an abandoned game has somewhere to go
wrong. `Look` is the effect of `snapshot()`, which every answer performs.
`_record_position_after_move`, called by the commit of an engine move, is defined
nowhere in the repository: `HookOutcomes` says whether that call returns.

**CasRegister** is the promise of the education stores: a register that changes only from
the content a caller expected. **CasFile** is the protocol, with a directory or a marked
file as its lock; every step another process can see is an action. **StudentDeletion**
instantiates it twice and adds the journal, the deletion, its recovery, other writers,
a failing disk and crashes between any two steps. Any number of processes may delete,
recover and save at once; `unlinked` are the intents that a process carrying another one
has taken from the disk.

**BookProgressStore** is every operation of the store, cut at each file operation that a
foreign program can come between; **BookProgress** adds the flows of the application
(open, save, remove, the recovery offered to the user) and the faults: crashes, failing
writes, and a program that rewrites or damages the files (`Meddle`).

**VersionUpgrade** cuts the coordinator at each file operation; a content is its schema and
the number of the user's last write. A guard is a second name of the inode a
publication replaces, so a write through an old handle goes to the guard.

Definitions marked *variant* are plausible mistakes, used only as the mutants of
`PROJECT.json`.

## 3. Properties

The properties are stated, each with a comment, at the end of their modules; the table
of section 4 says which run checks which. Several are conjunctions of named parts:

| Property | Parts | What would break it |
|---|---|---|
| `OnlyTheActiveRequest` | `LastResultIsCurrent`, `PendingIsNewest` | an answer compared by position only; a request that survives a stop |
| `ProviderSafe` | `ProviderNotShared`, `NothingAfterShutdown`, `OneProvider` | a late call that revives the provider; two first calls |
| `LatestOnly` | the refinement of LatestRequest | a generation used twice |
| `RequestNotForgotten` | pending, in hand, shown or superseded; a close is not slept through | a change of the session that wakes nobody; a worker that sleeps on a request or a close |
| `NewestPositionAnalysed` | allows for `DroppedForAHelper` | a lost wakeup |
| `AnswersItsRequest` | its own search and options, or a `beset` process | a process kept after a failure; options kept from the other mode |
| `NothingLeftRunning` | - | a process forgotten and not ended |
| `NobodyIsStuck` | provider, lock, join | a lock kept by a call that returned; a join with a process that still runs |
| `CallsEnd` | every call, and the shutdown | a lock kept; a deadline looked at in silence only |
| `QueueFaithful` | `QueueBounded`, `InOrder`, `NoSilentLoss` | a full queue that drops its oldest event |
| `RetriesLeaveNothing` | `ResumeNotRefused`, `RetryIsAlive` | a timer that has fired and keeps its reference, or survives a close |
| `EventsOnTheirWay`, `EventsDelivered` | - | a wakeup flag that nobody clears |
| `SlotAccountedFor`, `EndedTruly` | `SlotHasAnOwner`, `HalvesAgree`; what was announced | a callback dropped with its operation |
| `SavedMeansOnDisk`, `OpenedAsTold` | excepts `WrittenNotCommitted` | the live text marked saved; an Open after its cancel |
| `WorkspaceSound` | tree, cursor, dirty flag, fingerprint | a replaced workspace taken for clean |
| `EditKeepsThePlace`, `EditsLoseNothing` | - | a renumbered path one off; a comment left behind |
| `CommandsActOnWhatWasShown` | - | an item of an old view applied to a new text |
| `ShownGameIsTrue` | `TypeOK`, `ContextReleased`, `PhaseHasAGame`, `ActiveGameGoesOn` | a rollback that forgets the clock or the cursor |
| `AcceptedMovesKept` | `RepliesTakeBackTheirOwn`, `UnsafeFence` | a rollback that takes another move back, or works on an untrusted history |
| `HistoryAligned`, `OutcomeStands`, `ReplyInItsGame` | - | a compensation in the wrong order |
| `DeletionInOrder` | `TypeOK`, `IntentUntilPublished` (excepts `unlinked`), `PurgedBeforeTombstone` | a tombstone first, a journal removed too early |
| `NothingElseLost`, `StoresAreRegisters` | - | a save over a content it has not seen |
| `FilesOfOneHistory`; `NothingReadableLost` | `BackupWithinOneSave`; `ReplacedIsKept`, `NewerBackupKept` | a backup of the new content |
| `WritesWhatWasAsked` | `RecoveryAsAgreed`, `OneBookAtATime` | a recovery of something else |
| `Recoverable`, `LatestWriteSurvives`, `AllOrNothing`, `UpgradeEnds` | - | a rollback of one file |

## 4. The runs

| Run | Module, configuration | Bounds |
|---|---|---|
| `continuous_analysis` | ContinuousAnalysis, ContinuousAnalysisMC.cfg | worker, 1 helper, 2 closers; 2 positions, 2 settings, 2 revisions; generations up to 3 |
| `shared_engine` | SharedEngine, SharedEngineMC.cfg | 1 player, 1 analyst, 2 requests, readers that outlive their join; queue of 2 lines, pipe of 1 |
| `import_ui_pump` | ImportUiPump, ImportUiPumpMC.cfg | 1 worker, 1 timer, queue of 4 (the least the code accepts), 5 events, 1 failure, 1 refused shutdown |
| `engine_game` | EngineGame, EngineGameMC.cfg | 1 caller, 2 moves and mate, 4 plies, 2 boards |
| `engine_game_overlapped` | EngineGame, EngineGameOverlapped.cfg | 2 callers, 3 plies, 2 boards |
| `student_deletion` | StudentDeletion, StudentDeletionMC.cfg | 2 processes that delete, recover and save; 2 students, 2 operations, 1 crash, 1 failing write |
| `book_progress` | BookProgress, BookProgressMC.cfg | 2 processes, 2 books, 3 marks, 2 requests, 2 faults; processes and books symmetric |
| `version_upgrade` | VersionUpgrade, VersionUpgradeMC.cfg | 2 writes by others, 2 crashes or failures |
| `file_workflows` | FileWorkflows, FileWorkflowsMC.cfg | 2 operations, 2 texts, 2 edits, 1 failure, 1 close that may be refused |
| `pgn_document` | PgnDocumentMC, PgnDocumentMC.cfg | 1 game with nested variations, 1 edit per workspace, 1 replacement, 6 moves |
| `missing_hook`, `edit_during_save` | EngineGame, MissingHook.cfg; PgnDocumentMC, EditDuringSave.cfg | small instances of the same: each violates the property of section 6 |

Why the bounds are enough. Three generations are the answer that is on its way, the
request that superseded it and the helper's in between; two positions give A, B, A.
Two requests to the engine are a search and the one after its failure, which may be in the
other mode and meet the first one's late lines; the safety properties were also checked with
three. A queue of two lines with a pipe of one overflows in a single search. Five events
overflow a queue of four and refill it. One failure is what the pump promises to survive;
with two, events wait for the next command, as the code says. Four plies let a
human move be answered, answered again and taken back twice, for either colour; two
boards are a game and the one it is replaced by. Two faults let a recovery itself be
interrupted. Two processes that both delete, recover and save are a deletion and whatever
can come between its steps: a save, another deletion, a recovery of either; two operations
let the journal of the one be unlinked by the other. Two file operations are one and its
successor in the slot, two edits an edit and its undoing; a second close was tried once and
adds nothing. The game of `pgn_document` has a variation
inside a variation, siblings on both sides, comments before and after moves, and results.

Most configurations set `CHECK_DEADLOCK FALSE`, since the bounded counters end the
behaviours and since the system really stops after a shutdown. `version_upgrade` and
`pgn_document` need no such exemption.

In `engine_game` the user looks at earlier positions during an active game only
(`Reviews`): looking while the game is paused leads to the disagreement told in section 6.

## 5. Fairness

Only what runs by itself is fair, and weakly; no user action and no failure is.

- Analysis: each caller inside `analyze` or `close`, the worker, and a closer after its
  join, which has a time limit. Locks need no strong fairness: requests are finitely many.
- Shared engine: each client, whoever holds the lock, a shutdown that has begun, and
  `Expires`, since every wait of `engine.py` ends at a monotonic deadline. Nothing is
  assumed of the Stockfish process and of the readers: they may hang for ever.
- Pump: workers inside their sink, started timers, the UI message loop.
- File workflows: the worker's steps, the posted callback, the presentation, a started
  timer, and a close that has begun.
- Engine game: `EngineReplies`, since the engine's requests end (`CallsEnd`).
  `AnsweredUnlessPaused` claims nothing once a failure has paused the game.
- Student deletion: a process in the middle of an operation, and `BeginRecover`, because a
  coordinator refuses to begin a deletion while another is pending
  (`education_progress_transaction.py:451-457`), so its callers recover first.
- Version upgrade: the start of the program and the steps of the upgrade.

## 6. Disagreements between the code and what is said of it

With a run that shows it:

- **Engine moves are never kept** (`stage1_release_ui_core.py:984`, run `missing_hook`). The
  commit calls a method that no class defines, so each move of the engine is rolled back.
  Five tests of `tests/test_stage1_engine_play_ui.py` fail for this reason.
- **A header edit during a Save** (`pgn_save_snapshot.py:765`, run `edit_during_save`). The
  session refuses the publication of its own Save, although the docstring (15-17) and the
  test at :535 say that the fingerprint advances; the test at :748 expects the refusal for
  a replaced workspace. In the application no caller edits headers during a Save today.

Found by TLC on the same modules with other constants or properties, and told here only:

- **Late engine output.** `Thread.join(timeout=0.2)` can leave a reader that writes what is
  left in a dead process's pipe into the queue of the next one (`engine.py:76`, `:256`). A
  line of the old search then gets into the new answer, which the docstring at `:261-263`
  excludes; the run reaches it, and `AnswersItsRequest` names the processes it can happen
  to (`beset`). A process that survives terminate and kill would do the same.
- **An edit undone while its Save is written.** A document is dirty when its digest differs
  from the saved one (`pgn_document.py:513-528`, `pgn_workspace.py:484`). Edit, save, and undo
  the edit before the Save is committed: the document is clean, and the file holds the
  snapshot. The commit repairs this, since the saved digest becomes that of the snapshot. After
  a publication that could not be verified (`version2_windows_file_workflows.py:1581-1586`)
  nothing is committed: the document looks clean over a file with another text, and later
  Saves fail on the fingerprint. `SavedMeansOnDisk` names the case (`WrittenNotCommitted`).
- **A helper starves the session** (`continuous_analysis.py:260`). An answer made stale by a
  one-shot helper is dropped, although the session's position is still the active one,
  and nobody asks again. `NewestPositionAnalysed` names the case (`DroppedForAHelper`).
- **Rollback while reviewing** (`stage1_release_ui.py:271`) restores a history that ends at
  the reviewed position; board and history disagree from then on (`:242`).
- **A paused game that cannot be resumed** (`stage1_release_ui_core.py:1552`): a plain undo in
  the phase "error" moves the board and not the clock (`:1039`).
- **Overlapping calls in the Stage 1 host.** A reply that fails after a stop rolls back the
  user's own move (`stage1_release_ui.py:466`); a late reply to an abandoned game is
  played on the next board (`stage1_release_ui_core.py:1221`); a reply crosses the fence of a
  failed takeback, shows a phase without a session, or mates on a board whose flag has
  fallen. `AcceptedMovesKept`, `UnsafeFence`, `PhaseHasAGame`, `OutcomeStands` and
  `HumanMoveAnswered` are therefore claimed of the serialised host only.
- **A lock that outlives its owner.** A writer that dies inside the lock directory leaves
  it behind (`education_workspace_store.py:214`): every later save, and the recovery of
  a deletion, is busy for ever. `student_progress_store.py` and `book_progress_store.py:1172` have the same with a lock
  file that was created and not yet marked, and `version2_upgrade_base.py:1617` with its
  own lock.
- **Two coordinators.** `_remove_journal` (`education_progress_transaction.py:289`) unlinks
  whatever journal is there. Of two processes that complete one deletion, the second can
  remove the intent of the next: if the process of that dies between its two saves, the
  reviews are purged, the student is not deleted, and no journal says so. `DeletionInOrder`
  and `NothingElseLost` except such an intent by name (`unlinked`); the run reaches it.
- **Committed, then rolled back.** The write of the phase "committed" can fail after it has
  replaced the journal (`version2_upgrade_base.py:1912`); the next start sees a committed
  upgrade whose files were taken back (`:3315`). A write of the user between the backup
  and the publication makes every later start refuse.
- **A stale owner callback.** The worker of a cancelled Open can post its callback after the
  next operation has begun, whose own post then raises "owner callback is already pending"
  (`version2_windows_import_ui_pump.py:193`): an Open fails for no reason, and a Save on
  disk keeps the slot until it is cancelled (`version2_windows_file_workflows.py:1618-1642`).
  An event emitted after a refused post is dropped if a shutdown closes the pump.
- **Promotion refused.** A variation whose comment precedes a first move without a number
  cannot be promoted (`gametree.py:350-355`, `:842-857`).
- Smaller ones: the session's listener can be called after `stop()` has returned
  (`continuous_analysis.py:266`); a takeback at the moment of an unnoticed flag fall shows a
  lost game as paused (`stage1_release_ui_core.py:1436`), and one made while reviewing
  reports that Stockfish did not respond; two UI wakeups can be outstanding at once
  (`version2_windows_import_ui_pump.py:334`), the second being harmless; `os.replace` of
  the reading progress follows its last comparison by an unguarded instant
  (`book_progress_store.py:1680`).

## 7. What is proved

TLAPS checks every leaf; there are no unproved steps. The assumptions are the named
`ASSUME`s of the modules (constants of the right kind, `None` values that differ from
the others). No theorem depends on the bounds: generations, requests, processes, events,
plies and boards are natural numbers of any size, and the sets of threads are arbitrary.

- **ContinuousAnalysisProofs**, first part, the service: `TypeOK`, `OneNewestCall`,
  `ProviderSafe` with its three parts, and the refinement `Spec => LatestOnly`. The
  inductive `ServiceInv` adds that no call carries a generation that has not been
  issued, that the current FEN is that of the newest call while it is open, that a call
  past its search has an output, and that the number of live providers follows from
  `engine`. Without the first, a new request could meet an old call with its own
  generation. Second part, the session: `SessionTypeOK`, `OnlyTheActiveRequest` with its
  parts, `RequestNotForgotten`, `ProviderSafe`, and `LatestOnly` under this traffic. Every session step is a service
  step or leaves the service alone, so that `ServiceInv` is reused. `SessionInv` adds that
  no request is from the future, that a request with the active revision is the active
  request, and the order of the shutdown; this is what makes comparing revisions
  sufficient in the worker. `RequestNotForgotten` is the part of
  `NewestPositionAnalysed` that is no matter of fairness: its `ServedInv` adds that a session
  that runs has started its worker, that the worker ends after a close only, and that
  without helpers its call for the active request is the newest of the service, so that its
  answer cannot come back stale and be dropped.
- **SharedEngineProofs**: `NothingLeftRunning`, with readers that end late or not. The
  invariant is that whoever is in a transaction holds the lock and has a process, and that
  only the current process is alive. Each action is first classified (`Moved`): it leaves the
  processes alone, updates one without reviving it, ends the current one, or starts one
  when none runs. Also without a hypothesis, `NobodyIsStuck`, what there is of `CallsEnd`
  without fairness: `WaitInv` says who can hold the two locks, that exactly the holder of the
  adapter's lock is inside, and that `reader` names a process that was started; that the
  joined process has ended then follows from the first invariant. Last `AnswersItsRequest`,
  with readers that end late too. Its `AnswerInv` is about a process that was started when
  no reader ran (`Alone`): only its own reader runs (`OneReader`), between it and the holder
  of the lock there is one order, one search or one final line, and what is in its pipe and
  in the queue belongs to the stage of the dialogue (`InStep`).
- **LibraryProofs**, the import: `QueueFaithful` of the mailbox alone; the pump implements the
  mailbox's specification, so it holds of both; `RetriesLeaveNothing`, `PumpTypeOK` and
  `EventsOnTheirWay`. The last needs `WayInv`: a raised flag means a post that was made
  or is being made, and a retry that is due follows a failure.
- **EngineGameProofs**. For both hosts, `ReplyInItsGame`, from `BoardsOK` (there is
  always a live board) and `CallsOK` (only callers have calls), by a case analysis of a
  reply: it leaves the board, takes a move back, or was admitted, and admission compares
  the positions. For the host that serialises its calls, the other four safety properties of
  the run. `GameInv` says what is true between any two steps: history and board agree, an
  active game has its session and a clock for every ply, a finished one its outcome, the
  fence is up when the history is not to be trusted, and the caller who waits for the
  engine captured the position on the board (`AskedSound`). The theorems assume
  `Serialized`, and that nobody reviews a game in the phase "error": a retry from a
  reviewed position breaks the invariant, and the code (section 6).
- **StudentDeletionProofs**. The protocol of CasFile is proved once, for either store `s`:
  only the owner of the lock is between its comparison and the release, what it compared
  still is what is in the file, and every step is one of CasRegister or invisible. So
  both stores implement it (`StoresAreRegisters`), whatever the deletions, recoveries,
  writers, failures and crashes do. On top of that, `DeletionInOrder` and
  `NothingElseLost` for any number of processes that delete, recover and save, of students,
  crashes and failing writes. The inductive `DeletionInv` says what the waiting
  saves would do: none of them shrinks the workspace; a review one of them adds is in no
  file, no intent and no other save, so that a purged review cannot come back; an
  operation is known to its own deletion only until its intent is published; and whoever
  asks for a tombstone has purged its reviews. Each step is first sorted by kind (`Kind`),
  and the fifteen that follow the publication are reduced to what they ask of the stores
  (`CarriesOn`) and where they leave the process (`ComesTo`). `JournalOK` says
  that an intent is the one on disk, or unlinked, or its deletion is published: nothing else
  can have become of it.
- **LibraryProofs**, the reading progress: `FilesOfOneHistory`, `NothingReadableLost` and
  `WritesWhatWasAsked`, for any number of processes and books and any mixture of faults.
  `StoreInv` says that the lock is held exactly inside a call (`LockSound`), that a call
  publishes what was made from what it read (`CallsSound`), that what it compared is
  still in the files or another program has raced it (`ComparedSound`), and that the
  readable contents are the last two of the history, as long as no other program has
  put a payload of its own there (`TrailSound`). `FlowsSound` ties each
  call to the flow of the application that made it: a recovery is under way only over a
  primary that could not be read, with the revision the user was shown.
- **VersionUpgradeProofs**: `Recoverable` and `AllOrNothing` from `UpgradeInv`, which says for
  each stage what the journal, the copies, the guards and the files already visited are;
  `LatestWriteSurvives` from `LatestSaved`, which says where the last write of the user is at
  each moment of a publication: in the file, in a guard that was kept, or in the guard
  about to be compared.
- **FileWorkflowsProofs**: `SlotAccountedFor`, `EndedTruly`, `SavedMeansOnDisk` and
  `OpenedAsTold`. `FilesInv` has a part for the slot with its worker and marker (an
  occupied slot is the newest worker's, and pending once that has stored its result), one
  for the pump, one for what has been announced (a terminal is told once, and a Save
  that wrote its file is told or on its way), and one for the document and its files: a
  Save that holds the slot was captured on the text that still counts as saved, and has put
  its snapshot into the file once it has succeeded. So what the
  document takes to be saved is in the file, unless that Save, or one that could not be
  verified, has put its snapshot there. No edit need make a new text.
- **PgnDocumentProofs**: all four properties of PgnDocument, for every document the parser can
  return (`DocumentAssumption`: its games and the lines a user adds are trees), at any depth
  and size. Most of it is about GameTree. `Grafts` says when subtrees can be moved below a
  line and some lines rewritten: they go to separate places, and together with the new lines
  leave no step without a line and no line without a step. Such an edit gives a tree
  (`RelocatedIsTree`), sends no two lines to one address, and, if it keeps the moves before
  each subtree it moves, keeps the place of every cursor (`GraftKeepsPlayed`) and, with its
  new lines, every comment. Insertion, reordering and deletion are one case of it
  (`SiblingsFacts`), for which `AddFacts` shows that `ShiftPath`, which follows no line,
  agrees. Promotion is the other (`PromoteFacts`): each variation of the two lines stays,
  sinks with the demoted line or rises with the promoted one (`Stays`, `Sinks`, `Rises`),
  no two of them meet (`SeatsApart`) and none is missing (`SeatsFill`); the two lines
  themselves are split and joined at the replaced move, where the two rules of
  `PromoteRemap` give each position its new cursor (`SamePlaces`). The inductive `DocumentInv` is `WorkspaceSound`, that the games are a
  document, and that the source the session expects on disk is the content it takes to be
  saved, which is what ties the dirty flag, computed from digests, to the file.
  `Before` is a recursive function of the length of the path; what is proved of it goes by
  induction over the numbers in the form of a set without a least element
  (`InductionOverNat`), which the provers can apply.

Each invariant was checked by TLC before it was proved. Apart from the serialised
host of EngineGameProofs, and its user who does not look back in the phase "error", no
theorem has a hypothesis; `AnswersItsRequest`, `DeletionInOrder`, `NothingElseLost` and
`SavedMeansOnDisk` carry their exceptions in their own statements.

Only model-checked: every liveness property (fairness and ENABLED are out of the
prover's reach; `RequestNotForgotten`, `EventsOnTheirWay` and `NobodyIsStuck` are the
state invariants three of them rest on): `NewestPositionAnalysed`, `CallsEnd`,
`ShutdownCompletes`, `EventsDelivered`, `EveryOperationEnds`, `AnsweredUnlessPaused`,
`PendingDeletionEnds` and `UpgradeEnds`. The two violations of section 6 are TLC's too.

## 8. Limits

- Python statements inside one locked section, or between two waits of one handler, are
  one step. In the Stage 1 host a handler's own code can be preempted as well; there the
  model shows only the interleavings around the wait for the engine.
- The mailbox's delivery is one action, so the order in which mailbox lock and pump lock are
  taken is not modelled (`version2_windows_import_ui_pump.py:307`).
- UciEngine: options, position and go are one order; the resolution of the program's path and
  a kill that fails are left out. One analyst stands for whoever holds the service lock.
- FileWorkflows: no Save As dialogs, no worker that was reserved and never started, no
  owner callback that raises or re-enters, no streaming variant of the import delegate, no
  external writers of the PGN file. `EveryOperationEnds` excepts a window
  that stays fenced after a shutdown it could not recover from, and a result the pump
  refused.
- PgnDocument: no documents without a source, bookmarks, copying of a selection, limits of size or
  depth, NAGs, or legality of moves.
- EngineGame: no redo, closing, set-up positions or review variations. Positions are moves from
  the initial position, so one reached by another order counts as another one.
- StudentDeletion: documents are compared, not parsed.
- BookProgressStore: the platform variants of the lock are one lock.
- Remote session, multiplayer and teaching are sequential contract objects: the repository
  has neither their transport nor a server, so that there is no run of messages to model yet.

## 9. Plan

1. **RemoteSession** and the multiplayer trackers over a transport that loses, repeats and
   reorders, against one agreed move list.
2. **ImportPipeline**: the worker that feeds the mailbox, its cancellation and its
   transaction per batch; **BookOpen**, a second worker with a generation test.
3. `save_pgn_atomic`'s comparison of the inode before its commit, between
   FileWorkflows and PgnDocument, with external writers.
4. The other stores (settings, training progress, resume of a game tree) as instances of
   the protocols modelled here; the teaching session's command log.

Next theorems: the invariants of the modules to come; and, with external writers in
PgnDocument, `WorkspaceSound` under the comparison of `save_pgn_atomic`.
