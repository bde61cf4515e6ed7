------------------------------- MODULE Editor --------------------------------
(***************************************************************************)
(* The prompt editor (packages/tui/src/components/editor.ts, kill-ring.ts, *)
(* undo-stack.ts): lines of text and a cursor, a kill ring with yank and   *)
(* yank-pop, undo with coalesced typing, and the history of prompts.       *)
(*                                                                         *)
(* A character stands for all of its class. Lines are not wrapped, and     *)
(* every way to move the cursor is MoveCursor; autocompletion is text that *)
(* is inserted; the text of a paste marker is not distinguished.           *)
(***************************************************************************)
EXTENDS Integers, Sequences, FiniteSets, FiniteSetsExt, SequencesExt

CONSTANT EditorScopes
\* Bounds of the behaviours, each with one of these:
\*   characters: the classes of characters that are typed,
\*   text: how many are in the editor, line breaks included,
\*   killed: how many are on the kill ring,
\*   undo: snapshots on the undo stack, 0 if undo is left out,
\*   history: prompts in the history (100).

ASSUME EditorAssumption ==
  \A s \in EditorScopes :
    /\ s.characters \subseteq {"word", "space", "punctuation"}
    /\ {s.text, s.killed, s.undo, s.history} \subseteq Nat

VARIABLES
  editorScope,
  state,         \* lines, cursorLine, cursorCol
  lastAction,
  killRing,      \* the newest entry last
  undoStack,
  history,       \* the newest prompt first
  historyIndex,  \* the prompt that is shown, 0 if none
  beforeKills,   \* the text before the kills of this run
  beforeYank     \* text and position before the yank that may be popped

editorVars == <<editorScope, state, lastAction, killRing, undoStack, history,
                historyIndex, beforeKills, beforeYank>>

Break == "break"
Characters == {"word", "space", "punctuation"}
EmptyState == [lines |-> << <<>> >>, line |-> 1, col |-> 0]

\* getText, and the cursor as a position in it.
Text(s) == FlattenSeq([i \in 1..Len(s.lines) |->
                         IF i = 1 THEN s.lines[i] ELSE <<Break>> \o s.lines[i]])
Position(s) ==
  Len(Text([s EXCEPT !.lines = SubSeq(@, 1, s.line)])) - Len(s.lines[s.line]) + s.col
InsertedInto(text, at, new) == SubSeq(text, 1, at) \o new \o SubSeq(text, at + 1, Len(text))

\* text.trim()
Trimmed(text) ==
  LET solid == {i \in 1..Len(text) : text[i] \notin {"space", Break}}
  IN  IF solid = {} THEN <<>> ELSE SubSeq(text, Min(solid), Max(solid))

\* text.split("\n")
SplitLines(text) ==
  FoldLeft(LAMBDA done, c :
             IF c = Break THEN Append(done, <<>>)
             ELSE [done EXCEPT ![Len(done)] = Append(@, c)],
           << <<>> >>, text)

\* Array.splice
Splice(s, i, n, new) == SubSeq(s, 1, i - 1) \o new \o SubSeq(s, i + n, Len(s))

Current == state.lines[state.line]
BeforeCursor(s) == SubSeq(s.lines[s.line], 1, s.col)
AfterCursor(s) == SubSeq(s.lines[s.line], s.col + 1, Len(s.lines[s.line]))

-----------------------------------------------------------------------------
(* Edits of lines and cursor *)

\* insertTextAtCursorInternal, insertYankedText
InsertText(s, text) ==
  LET new == SplitLines(text)
      last == Len(new)
  IN  IF last = 1
      THEN [s EXCEPT !.lines[s.line] = BeforeCursor(s) \o text \o AfterCursor(s),
                     !.col = @ + Len(text)]
      ELSE [lines |-> Splice(s.lines, s.line, 1,
                        <<BeforeCursor(s) \o new[1]>> \o SubSeq(new, 2, last - 1)
                          \o <<new[last] \o AfterCursor(s)>>),
            line |-> s.line + last - 1, col |-> Len(new[last])]

\* deleteYankedText: where a yank of several lines began follows from the length
\* of its first line.
DeleteYankedText(s, text) ==
  LET yanked == SplitLines(text)
      start == s.line - (Len(yanked) - 1)
      startCol == Len(s.lines[start]) - Len(yanked[1])
  IN  IF Len(yanked) = 1
      THEN [s EXCEPT !.lines[s.line] = SubSeq(@, 1, s.col - Len(text)) \o AfterCursor(s),
                     !.col = @ - Len(text)]
      ELSE [lines |-> Splice(s.lines, start, Len(yanked),
                             <<SubSeq(s.lines[start], 1, startCol) \o AfterCursor(s)>>),
            line |-> start, col |-> startCol]

\* The line is merged with the previous one, the next one with the line.
MergeWithPrevious(s) ==
  LET previous == s.lines[s.line - 1]
  IN  [lines |-> Splice(s.lines, s.line - 1, 2, <<previous \o s.lines[s.line]>>),
       line |-> s.line - 1, col |-> Len(previous)]
MergeWithNext(s) ==
  [s EXCEPT !.lines = Splice(@, s.line, 2, <<s.lines[s.line] \o s.lines[s.line + 1]>>)]

\* Characters from..to of the current line are deleted, the cursor is at from.
DeleteRange(s, from, to) ==
  [s EXCEPT !.lines[s.line] = SubSeq(@, 1, from) \o SubSeq(@, to + 1, Len(@)), !.col = from]

\* moveWordBackwards, moveWordForwards in a line: blanks, then a run of a class.
WordStart(text, col) ==
  LET ends == {k \in 1..col : text[k] # "space"}
  IN  IF ends = {} THEN 0
      ELSE Max({0} \cup {k \in 1..Max(ends) : text[k] # text[Max(ends)]})
WordEnd(text, col) ==
  LET begins == {k \in col + 1..Len(text) : text[k] # "space"}
  IN  IF begins = {} THEN Len(text)
      ELSE Min({Len(text)} \cup {k - 1 : k \in {j \in Min(begins)..Len(text) :
                                                  text[j] # text[Min(begins)]}})

\* KillRing.push
Pushed_AlwaysAppends(ring, text, prepend, accumulate) ==
  IF accumulate /\ ring # <<>> THEN Append(Front(ring), Last(ring) \o text)
  ELSE Append(ring, text)
Pushed(ring, text, prepend, accumulate) ==
  IF accumulate /\ ring # <<>>
  THEN Append(Front(ring), IF prepend THEN text \o Last(ring) ELSE Last(ring) \o text)
  ELSE Append(ring, text)
Rotate(ring) == IF Len(ring) > 1 THEN <<Last(ring)>> \o Front(ring) ELSE ring

-----------------------------------------------------------------------------
(* Actions *)

WithinBounds ==
  /\ Len(Text(state')) <= editorScope.text
  /\ Len(FlattenSeq(killRing')) <= editorScope.killed
  /\ Len(undoStack') <= editorScope.undo
PushUndoSnapshot ==
  undoStack' = IF editorScope.undo = 0 THEN <<>> ELSE Append(undoStack, state)
LeavesHistory == historyIndex' = 0 /\ UNCHANGED history
NoYank == [text |-> <<>>, at |-> 0]
ForgetsKills == beforeKills' = <<>> /\ beforeYank' = NoYank

EditorInit ==
  /\ editorScope \in EditorScopes
  /\ state = EmptyState
  /\ lastAction = "none" /\ killRing = <<>> /\ undoStack = <<>>
  /\ history = <<>> /\ historyIndex = 0
  /\ beforeKills = <<>> /\ beforeYank = NoYank

\* insertCharacter: the characters of a word are one unit of undo, a blank
\* starts one.
Type(char) ==
  /\ state' = InsertText(state, <<char>>)
  /\ IF char = "space" \/ lastAction # "typeWord" THEN PushUndoSnapshot
     ELSE UNCHANGED undoStack
  /\ lastAction' = "typeWord"
  /\ LeavesHistory /\ ForgetsKills /\ UNCHANGED killRing

\* One edit and one snapshot: handlePaste, insertTextAtCursor, a completion,
\* addNewLine, handleBackspace, handleForwardDelete.
EditUndoably(s) ==
  /\ PushUndoSnapshot
  /\ state' = s
  /\ lastAction' = "none"
  /\ LeavesHistory /\ ForgetsKills /\ UNCHANGED killRing
NoEdit ==
  /\ lastAction' = "none"
  /\ LeavesHistory /\ ForgetsKills /\ UNCHANGED <<state, undoStack, killRing>>

HandlePaste ==
  \E text \in {<<"word", "word">>, <<"punctuation", Break, "word">>} :
    EditUndoably(InsertText(state, text))
AddNewLine == EditUndoably(InsertText(state, <<Break>>))
HandleBackspace ==
  CASE state.col > 0 -> EditUndoably(DeleteRange(state, state.col - 1, state.col))
    [] state.col = 0 /\ state.line > 1 -> EditUndoably(MergeWithPrevious(state))
    [] OTHER -> NoEdit
HandleForwardDelete ==
  CASE state.col < Len(Current) -> EditUndoably(DeleteRange(state, state.col, state.col + 1))
    [] state.col = Len(Current) /\ state.line < Len(state.lines) ->
         EditUndoably(MergeWithNext(state))
    [] OTHER -> NoEdit

\* A kill: consecutive kills make one entry of the ring.
Kill(s, text, prepend) ==
  /\ PushUndoSnapshot
  /\ state' = s
  /\ killRing' = Pushed(killRing, text, prepend, lastAction = "kill")
  /\ lastAction' = "kill"
  /\ beforeKills' = IF lastAction = "kill" THEN beforeKills ELSE Text(state)
  /\ beforeYank' = NoYank
  /\ LeavesHistory
KillsNothing == LeavesHistory /\ UNCHANGED <<state, lastAction, killRing, undoStack,
                                             beforeKills, beforeYank>>
KillBackwardFrom(col) ==
  CASE state.col > 0 ->
         Kill(DeleteRange(state, col, state.col), SubSeq(Current, col + 1, state.col), TRUE)
    [] state.col = 0 /\ state.line > 1 -> Kill(MergeWithPrevious(state), <<Break>>, TRUE)
    [] OTHER -> KillsNothing
KillForwardTo(col) ==
  CASE state.col < Len(Current) ->
         Kill(DeleteRange(state, state.col, col), SubSeq(Current, state.col + 1, col), FALSE)
    [] state.col = Len(Current) /\ state.line < Len(state.lines) ->
         Kill(MergeWithNext(state), <<Break>>, FALSE)
    [] OTHER -> KillsNothing

DeleteToStartOfLine == KillBackwardFrom(0)
DeleteWordBackwards == KillBackwardFrom(WordStart(Current, state.col))
DeleteToEndOfLine == KillForwardTo(Len(Current))
DeleteWordForward == KillForwardTo(WordEnd(Current, state.col))

Yank ==
  /\ killRing # <<>>
  /\ PushUndoSnapshot
  /\ state' = InsertText(state, Last(killRing))
  /\ lastAction' = "yank"
  /\ beforeYank' = [text |-> Text(state), at |-> Position(state)]
  /\ beforeKills' = <<>>
  /\ LeavesHistory /\ UNCHANGED killRing

\* The text that was yanked is taken out, the previous entry put in.
YankPop ==
  /\ lastAction = "yank" /\ Len(killRing) > 1
  /\ PushUndoSnapshot
  /\ killRing' = Rotate(killRing)
  /\ state' = InsertText(DeleteYankedText(state, Last(killRing)), Last(killRing'))
  /\ LeavesHistory /\ UNCHANGED <<lastAction, beforeKills, beforeYank>>

\* undo; with nothing to undo, lastAction stays.
Undo ==
  /\ historyIndex' = 0
  /\ IF undoStack = <<>>
     THEN UNCHANGED <<state, undoStack, lastAction, beforeKills, beforeYank>>
     ELSE /\ state' = Last(undoStack)
          /\ undoStack' = Front(undoStack)
          /\ lastAction' = "none"
          /\ ForgetsKills
  /\ UNCHANGED <<killRing, history>>

\* Arrows, words, pages, jumps: anywhere in the text.
MoveCursor ==
  /\ \E line \in 1..Len(state.lines) : \E col \in 0..Len(state.lines[line]) :
       state' = [state EXCEPT !.line = line, !.col = col]
  /\ lastAction' = "none"
  /\ ForgetsKills /\ UNCHANGED <<killRing, undoStack, history, historyIndex>>

EndOf(text) ==
  LET lines == SplitLines(text)
  IN  [lines |-> lines, line |-> Len(lines), col |-> Len(lines[Len(lines)])]

\* setText by the program: the prompt is cleared, or a message comes back.
SetText ==
  /\ \E text \in {<<>>, <<"word", Break>>} :
       /\ state' = EndOf(text)
       /\ IF Text(state) # text THEN PushUndoSnapshot ELSE UNCHANGED undoStack
  /\ lastAction' = "none"
  /\ LeavesHistory /\ ForgetsKills /\ UNCHANGED killRing

\* submitValue; the owner adds the prompt to the history.
SubmitValue ==
  /\ state' = EmptyState
  /\ undoStack' = <<>>
  /\ historyIndex' = 0
  /\ lastAction' = "none"
  /\ LET prompt == Trimmed(Text(state))
     IN  history' = IF prompt = <<>> \/ (history # <<>> /\ Head(history) = prompt)
                    THEN history
                    ELSE SubSeq(<<prompt>> \o history, 1, editorScope.history)
  /\ ForgetsKills /\ UNCHANGED killRing

\* navigateHistory: the text is kept on the undo stack when browsing begins.
Shows(index) ==
  /\ historyIndex' = index
  /\ state' = IF index = 0 THEN EmptyState ELSE EndOf(history[index])
  /\ IF historyIndex = 0 THEN PushUndoSnapshot ELSE UNCHANGED undoStack
  /\ lastAction' = "none"
  /\ ForgetsKills /\ UNCHANGED <<killRing, history>>
HistoryUp ==
  /\ Text(state) = <<>> \/ (historyIndex > 0 /\ state.line = 1)
  /\ historyIndex < Len(history)
  /\ Shows(historyIndex + 1)
HistoryDown ==
  /\ historyIndex > 0 /\ state.line = Len(state.lines)
  /\ Shows(historyIndex - 1)

Edits ==
  \/ \E char \in editorScope.characters : Type(char)
  \/ HandlePaste \/ AddNewLine \/ HandleBackspace \/ HandleForwardDelete
  \/ DeleteToStartOfLine \/ DeleteToEndOfLine \/ DeleteWordBackwards \/ DeleteWordForward
  \/ Yank \/ YankPop \/ Undo \/ MoveCursor \/ SetText \/ SubmitValue
  \/ HistoryUp \/ HistoryDown
EditorNext == Edits /\ WithinBounds /\ UNCHANGED editorScope

-----------------------------------------------------------------------------
(* Properties *)

EditorTypeOK ==
  /\ \A i \in 1..Len(state.lines) : state.lines[i] \in Seq(Characters)
  /\ lastAction \in {"none", "typeWord", "kill", "yank"}
  /\ historyIndex \in 0..Len(history)
  /\ Len(history) <= editorScope.history

\* The cursor is in the text, which has a line.
CursorInText ==
  /\ state.line \in 1..Len(state.lines)
  /\ state.col \in 0..Len(state.lines[state.line])

\* After any run of kills, in both directions and across line breaks, a yank
\* would give back the text as it was.
KillsComeBack ==
  lastAction = "kill" =>
    InsertedInto(Text(state), Position(state), Last(killRing)) = beforeKills

\* After a yank and any number of yank-pops the text is what it was before, with
\* the entry that is last in the ring, and the cursor behind it.
YankIsExact ==
  lastAction = "yank" =>
    /\ Text(state) = InsertedInto(beforeYank.text, beforeYank.at, Last(killRing))
    /\ Position(state) = beforeYank.at + Len(Last(killRing))

\* Undoing everything leads back to the empty prompt that editing began with:
\* no edit since then escaped the undo stack.
UndoReachesTheStart ==
  editorScope.undo > 0 => Text(IF undoStack = <<>> THEN state ELSE undoStack[1]) = <<>>

\* No text is lost or doubled over any sequence of edits, kills, yanks, undos
\* and prompts of the history.
EditsComeBack == CursorInText /\ KillsComeBack /\ YankIsExact /\ UndoReachesTheStart
=============================================================================
