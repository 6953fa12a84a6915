----------------------------- MODULE PgnDocument -----------------------------
(* One open PGN document: the workspace that navigates and edits its games    *)
(* (acs/pgn_workspace.py), the commands a presentation sends it               *)
(* (version2_pgn_commands.py), the session that knows the file                *)
(* (pgn_document.py) and the Save that runs in the background                 *)
(* (pgn_save_snapshot.py).  The owner thread runs every action but the two of *)
(* the worker.  A document is a sequence of games [tag, result, line]; a      *)
(* digest is the content it is the digest of.                                 *)
EXTENDS GameTree

CONSTANTS
    FirstDocument,    \* the games of the file when it is opened
    Imported,         \* the games a paste can append
    Tags,             \* values of one free header tag
    Variations,       \* lines a user can add as variations
    Notes,            \* texts of a comment edit
    MaxRevision,      \* bound: edits of one workspace
    MaxDocument,      \* bound: revisions of the document, by replacement or Save
    MaxMoves          \* bound: moves of a tree

IsGame(g) == g = [tag |-> g.tag, result |-> g.result, line |-> g.line] /\ IsTree(g.line)

IsDocument(games) ==
    /\ games \in Seq(Range(games)) /\ games # <<>>
    /\ \A k \in DOMAIN games : IsGame(games[k])

ASSUME DocumentAssumption ==
    /\ IsDocument(FirstDocument)
    /\ \A games \in Imported : IsDocument(games)
    /\ \A variation \in Variations : IsTree(variation)
    /\ Notes \subseteq Seq(Texts)

VARIABLES
    workspace,  \* [id, games, selected, cursor, revision, baseline, dirty]
    session,    \* [source, saved, revision]: the file as it knows it, its saved digest
    file,       \* the content of the source file
    save,       \* the Save in the background
    seen        \* the view the presentation was last built from

vars == <<workspace, session, file, save, seen>>

Root == Cursor(<<>>, 0)

Tree == workspace.games[workspace.selected].line

Record(game) == [tag |-> game.tag, result |-> game.result, line |-> Unnumbered(game.line)]

View == [selected |-> workspace.selected,
         revision |-> workspace.revision,
         record |-> Record(workspace.games[workspace.selected])]

\* _validate_document: the header and the text agree on the result.
Representable(games) ==
    \A g \in Range(games) : RoundTrips(g.line) /\ g.result = g.line[<<>>].result

NoSave == [at |-> "none"]

Init ==
    /\ workspace = [id |-> 0, games |-> FirstDocument, selected |-> 1, cursor |-> Root,
                    revision |-> 0, baseline |-> FirstDocument, dirty |-> FALSE]
    /\ session = [source |-> FirstDocument, saved |-> FirstDocument, revision |-> 0]
    /\ file = FirstDocument
    /\ save = NoSave
    /\ seen = View

Present == seen' = View /\ UNCHANGED <<workspace, session, file, save>>

-----------------------------------------------------------------------------
(* Navigation *)

MoveCursor(selected, c) ==
    /\ workspace' = [workspace EXCEPT !.selected = selected, !.cursor = c]
    /\ UNCHANGED <<session, file, save, seen>>

GoTo(c) == MoveCursor(workspace.selected, c)

Here == workspace.cursor

SelectGame(index) == index \in DOMAIN workspace.games /\ MoveCursor(index, Root)

NextGame == SelectGame(workspace.selected + 1)

PreviousGame == SelectGame(workspace.selected - 1)

LineStart == GoTo(Cursor(Here.path, 0))

LineEnd == GoTo(Cursor(Here.path, Len(Tree[Here.path].moves)))

DocumentStart == MoveCursor(1, Root)

DocumentEnd ==
    MoveCursor(Len(workspace.games), Cursor(<<>>, Len(Last(workspace.games).line[<<>>].moves)))

NextMove ==
    /\ Here.next < Len(Tree[Here.path].moves)
    /\ GoTo(Cursor(Here.path, Here.next + 1))

PreviousMove == Here.next > 0 /\ GoTo(Cursor(Here.path, Here.next - 1))

EnterVariation ==
    /\ Here.next > 0
    /\ \E v \in 1..Tree[Here.path].moves[Here.next].vars :
          GoTo(Cursor(Append(Here.path, <<Here.next, v>>), 0))

LeaveVariation == Here.path # <<>> /\ GoTo(AfterOwner(Here.path))

SiblingVariation ==
    /\ Here.path # <<>>
    /\ \E v \in 1..OwnerMove(Tree, Here.path).vars \ {Index(Here.path)} :
          GoTo(Cursor(Append(Parent(Here.path), <<Owner(Here.path), v>>), 0))

Navigate ==
    \/ NextGame \/ PreviousGame \/ DocumentStart \/ DocumentEnd \/ LineStart \/ LineEnd
    \/ NextMove \/ PreviousMove \/ EnterVariation \/ LeaveVariation \/ SiblingVariation

-----------------------------------------------------------------------------
(* Edits of the selected game *)

CommitInPlace(game, c) ==   \* variant: the cursor keeps its address
    LET games == [workspace.games EXCEPT ![workspace.selected] = game]
    IN  /\ workspace.revision < MaxRevision
        /\ Representable(games)
        /\ workspace' = [workspace EXCEPT !.games = games, !.revision = @ + 1,
                                          !.dirty = games # workspace.baseline]
        /\ UNCHANGED <<session, file, save, seen>>

CommitCurrentGame(game, c) ==
    LET games == [workspace.games EXCEPT ![workspace.selected] = game]
    IN  /\ workspace.revision < MaxRevision
        /\ Representable(games)
        /\ ValidCursor(game.line, c)
        /\ workspace' = [workspace EXCEPT !.games = games, !.cursor = c, !.revision = @ + 1,
                                          !.dirty = games # workspace.baseline]
        /\ UNCHANGED <<session, file, save, seen>>

WithLineOf(tree) == [workspace.games[workspace.selected] EXCEPT !.line = tree]

AddVariationAt(parent, owner, index, variation) ==
    /\ variation[<<>>].moves # <<>>
    /\ Size(Tree) + Size(variation) <= MaxMoves
    /\ CommitCurrentGame(WithLineOf(AddVariation(Tree, parent, owner, index, variation).tree),
                         [Here EXCEPT !.path = ShiftPath(@, parent, owner, index)])

AddsVariation ==
    \E parent \in Paths(Tree) : \E owner \in DOMAIN Tree[parent].moves :
        \E index \in 1..Tree[parent].moves[owner].vars + 1, variation \in Variations :
            AddVariationAt(parent, owner, index, variation)

ReordersVariation ==
    \E path \in Branches(Tree) : \E new \in 1..OwnerMove(Tree, path).vars :
        LET edit == ReorderVariation(Tree, path, new)
        IN  CommitCurrentGame(WithLineOf(edit.tree), CursorRemap(edit, Here))

\* A cursor inside the deleted variation is left where the variation began.
DeletesVariation(path) ==
    LET edit == DeleteVariation(Tree, path)
        c == CursorRemap(edit, Here)
    IN  CommitCurrentGame(WithLineOf(edit.tree), IF c = None THEN AfterOwner(path) ELSE c)

\* The promoted line becomes the game: its result is the result of the header.
PromotesVariation(path) ==
    LET edit == PromoteVariation(Tree, path)
        game == WithLineOf(edit.tree)
    IN  /\ Tree[path].moves # <<>>
        /\ CommitCurrentGame(IF Len(path) = 1 THEN [game EXCEPT !.result = edit.tree[<<>>].result]
                             ELSE game,
                             PromoteRemap(path, edit, Here))

EditsLineComment(path, note) ==
    CommitCurrentGame(WithLineOf(WithLine(Tree, path, [Tree[path] EXCEPT !.lead = note])), Here)

EditsMoveComment(path, i, note) ==
    CommitCurrentGame(
        WithLineOf(WithLine(Tree, path,
            [Tree[path] EXCEPT !.moves[i] = [@ EXCEPT !.before = <<>>, !.after = note]])), Here)

-----------------------------------------------------------------------------
(* Commands of a presentation: each carries an item of the view it was made from *)

SameRevision(c) ==   \* variant: the record itself is not compared
    /\ seen.selected = workspace.selected
    /\ seen.revision = workspace.revision
    /\ ValidCursor(Tree, c)

Target(c) ==
    /\ seen.selected = workspace.selected
    /\ seen.revision = workspace.revision
    /\ seen.record = Record(workspace.games[workspace.selected])
    /\ ValidCursor(Tree, c)

\* The contract of an item: the root is none, a move or the head of a variation is.
Items(tree) == Cursors(tree) \ {Root}

Shown == seen.record.line

SelectItem(c) == Target(c) /\ GoTo(c)

EditComment(c, note) ==
    /\ Target(c) /\ c = Here
    /\ IF c.next = 0 THEN EditsLineComment(c.path, note) ELSE EditsMoveComment(c.path, c.next, note)

DeleteShown(c) == Target(c) /\ c = Here /\ c.path # <<>> /\ DeletesVariation(c.path)

PromoteShown(c) == Target(c) /\ c = Here /\ c.path # <<>> /\ PromotesVariation(c.path)

Command(c) ==
    \/ SelectItem(c) \/ DeleteShown(c) \/ PromoteShown(c)
    \/ \E note \in Notes : EditComment(c, note)

-----------------------------------------------------------------------------
(* Edits of the document: they put a new workspace in place of the old one *)

ReplaceAsClean(games) ==   \* variant: the new workspace is its own baseline
    /\ session.revision < MaxDocument
    /\ workspace' = [workspace EXCEPT !.id = @ + 1, !.games = games, !.revision = 0,
                                      !.baseline = games, !.dirty = FALSE]
    /\ session' = [session EXCEPT !.revision = @ + 1]
    /\ UNCHANGED <<file, save, seen>>

ReplaceDocument(games) ==
    /\ session.revision < MaxDocument
    /\ Representable(games)
    /\ workspace' = [workspace EXCEPT !.id = @ + 1, !.games = games, !.revision = 0,
                                      !.baseline = session.saved, !.dirty = games # session.saved]
    /\ session' = [session EXCEPT !.revision = @ + 1]
    /\ UNCHANGED <<file, save, seen>>

AppendText == \E games \in Imported : ReplaceDocument(workspace.games \o games)

EditTag(tag) == ReplaceDocument([workspace.games EXCEPT ![workspace.selected].tag = tag])

-----------------------------------------------------------------------------
(* Saving *)

\* save_pgn_atomic with the fingerprint of the source: it replaces that generation only.
Publish(games, source) == file = source /\ file' = games

MarkSaved(source, digest) ==
    /\ workspace' = [workspace EXCEPT !.baseline = digest, !.dirty = workspace.games # digest]
    /\ session' = [source |-> source, saved |-> digest, revision |-> session.revision + 1]

SaveNow ==
    /\ session.revision < MaxDocument
    /\ Publish(workspace.games, session.source)
    /\ MarkSaved(workspace.games, workspace.games)
    /\ UNCHANGED <<save, seen>>

CaptureSave ==
    /\ save = NoSave /\ session.revision <= MaxDocument
    /\ save' = [at |-> "captured", games |-> workspace.games, workspace |-> workspace.id,
                source |-> session.source, saved |-> session.saved]
    /\ UNCHANGED <<workspace, session, file, seen>>

PublishSave ==
    /\ save.at = "captured"
    /\ Publish(save.games, save.source)
    /\ save' = [save EXCEPT !.at = "published"]
    /\ UNCHANGED <<workspace, session, seen>>

\* Cancelled, or refused by the writer: the file was not touched.
SaveFails ==
    /\ save.at = "captured"
    /\ save' = NoSave
    /\ UNCHANGED <<workspace, session, file, seen>>

Replayed == session.source = save.games /\ session.saved = save.games

Expected ==
    /\ save.workspace = workspace.id
    /\ ~Replayed => session.source = save.source /\ session.saved = save.saved

CheckpointLive == workspace.games   \* variant: what is in memory by now

Checkpoint == save.games

CommitSave ==
    /\ save.at = "published"
    /\ save' = NoSave
    /\ \/ Expected /\ ~Replayed /\ MarkSaved(save.games, Checkpoint)
       \/ (Expected => Replayed) /\ UNCHANGED <<workspace, session>>
    /\ UNCHANGED <<file, seen>>

-----------------------------------------------------------------------------
Next ==
    \/ Present \/ Navigate
    \/ AddsVariation \/ ReordersVariation
    \/ \E path \in Branches(Tree) : DeletesVariation(path) \/ PromotesVariation(path)
    \/ \E c \in Items(Shown) : Command(c)
    \/ AppendText \/ \E tag \in Tags : EditTag(tag)
    \/ SaveNow \/ CaptureSave \/ PublishSave \/ SaveFails \/ CommitSave

Spec == Init /\ [][Next]_vars

-----------------------------------------------------------------------------
(* Properties *)

\* The cursor names a place in the selected game, whatever was deleted, promoted
\* or inserted before it; the workspace, also one that replaced another, and the
\* session agree on what was saved; and if the file is still the generation the
\* session knows, a document that is not dirty is what the file holds, whichever
\* Save put it there and whatever was edited while it ran.
WorkspaceSound ==
    /\ workspace.selected \in DOMAIN workspace.games
    /\ ValidCursor(Tree, workspace.cursor)
    /\ workspace.baseline = session.saved
    /\ workspace.dirty = (workspace.games # session.saved)
    /\ file = session.source /\ ~workspace.dirty => workspace.games = file

\* An edit of the selected game, in the same workspace.
Edited ==
    /\ workspace'.id = workspace.id
    /\ workspace'.games # workspace.games

\* After every edit the user stands where the same moves have been played, through
\* renumbered paths and lines taken apart; only a cursor inside a deleted variation
\* moves, to where that variation began.
EditKeepsThePlace ==
    [][Edited =>
        \/ Played(Tree', Here') = Played(Tree, Here)
        \/ \E b \in Branches(Tree) :
              /\ DeletesVariation(b)
              /\ IsPrefix(b, Here.path)
              /\ Played(Tree', Here') = Played(Tree, AfterOwner(b))]_vars

\* No edit loses a position of the game or a comment in it, but the edit of a
\* comment, and a deletion; that loses only the positions of its own variation.
EditsLoseNothing ==
    [][Edited =>
        \/ /\ Positions(Tree) \subseteq Positions(Tree')
           /\ \/ Comments(Tree) \subseteq Comments(Tree')
              \/ \E c \in Items(Shown), note \in Notes : EditComment(c, note)
        \/ \E b \in Branches(Tree) :
              /\ DeletesVariation(b)
              /\ Positions(Tree) \ PositionsUnder(Tree, b) \subseteq Positions(Tree')]_vars

\* A command acts only if the game on the screen it was given on is the game it
\* acts on, though a replaced workspace counts its revisions from the start again.
CommandsActOnWhatWasShown ==
    [][Shown # Unnumbered(Tree) => \A c \in Items(Shown) : ~Command(c)]_vars

\* pgn_save_snapshot.py: edits made while a Save is running remain dirty while the
\* source fingerprint still advances to the newly published generation.
SourceAdvances == save.at # "published" => session.source = file
=============================================================================
