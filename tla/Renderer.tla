------------------------------- MODULE Renderer -------------------------------
(***************************************************************************)
(* The differential renderer of the terminal library (packages/tui/src/    *)
(* tui.ts, doRender). It never reads the terminal: it keeps the lines it   *)
(* wrote last and the row it believes the cursor is in, and moves the      *)
(* cursor by differences. A row is counted from the first line that was    *)
(* ever written, and the terminal shows the rows from viewportTop on.      *)
(*                                                                         *)
(* The terminal (external) has Height rows, stops cursor movements at its  *)
(* edges and scrolls when a line feed leaves the last row. Its height does *)
(* not change: what terminals do then differs. Images, styles, overlays    *)
(* (which only change and pad the lines) and columns are left out.         *)
(***************************************************************************)
EXTENDS Integers, Sequences, SequencesExt

CONSTANTS
  Height,     \* terminal.rows
  LineTexts,  \* the texts a line may have
  MaxRows     \* bound: lines of the content

ASSUME RendererAssumption ==
  /\ Height \in Nat \ {0} /\ MaxRows \in Nat \ {0}
  /\ "" \notin LineTexts /\ "other" \notin LineTexts

VARIABLES
  terminal,           \* what it shows, by screen row, and the row of its cursor
  previousLines,
  previousWidth,      \* "unknown" before the first render, "stale" when it is not the width
  hardwareCursorRow,
  maxLinesRendered,
  clearOnShrink,
  astray              \* a change fell above the rows that are shown, see IsAstray

rendererVars == <<terminal, previousLines, previousWidth, hardwareCursorRow, maxLinesRendered,
                  clearOnShrink, astray>>

Larger(a, b) == IF a > b THEN a ELSE b
Smaller(a, b) == IF a < b THEN a ELSE b

\* Row r of lines, "" beyond their end. No line of a component is "": each
\* carries the reset of its styles (applyLineResets).
Row(lines, r) == IF r < Len(lines) THEN lines[r + 1] ELSE ""

-----------------------------------------------------------------------------
(* The terminal *)

Down(t, n) == [t EXCEPT !.cursor = Larger(0, Smaller(Height - 1, @ + n))]
LineFeed(t) ==
  IF t.cursor < Height - 1 THEN Down(t, 1) ELSE [t EXCEPT !.screen = Append(Tail(@), "")]
\* The erasure of the line and a text in its place.
PutLine(t, text) == [t EXCEPT !.screen[t.cursor + 1] = text]
Cleared == [screen |-> [r \in 1..Height |-> ""], cursor |-> 0]

\* Texts, each on a line of its own, from the line of the cursor on.
PutLines(t, texts) ==
  IF texts = <<>> THEN t
  ELSE FoldLeft(LAMBDA x, text : PutLine(LineFeed(x), text), PutLine(t, Head(texts)), Tail(texts))

-----------------------------------------------------------------------------
(* doRender *)

ViewportTop == Larger(0, maxLinesRendered - Height)

\* The rows that differ; a row that is new is one of them.
ChangedRows(lines) ==
  {r \in 0..Larger(Len(lines), Len(previousLines)) - 1 :
     Row(lines, r) # Row(previousLines, r)}
FirstChanged(lines) == CHOOSE r \in ChangedRows(lines) : \A q \in ChangedRows(lines) : r <= q
LastChanged(lines) == CHOOSE r \in ChangedRows(lines) : \A q \in ChangedRows(lines) : q <= r

\* positionHardwareCursor: to the row that has the marker, if one has.
Positioned(t, row, marker) == IF marker = -1 THEN t ELSE Down(t, marker - row)
PositionedRow_NotKept(row, marker) == row
PositionedRow(row, marker) == IF marker = -1 THEN row ELSE marker

\* A render wrote t and, by its own count, left the cursor in the row.
Rendered(lines, marker, t, row, max) ==
  /\ terminal' = Positioned(t, row, marker)
  /\ hardwareCursorRow' = PositionedRow(row, marker)
  /\ previousLines' = lines
  /\ previousWidth' = "known"
  /\ maxLinesRendered' = max
  /\ UNCHANGED clearOnShrink

\* fullRender: after a clear, or on a screen that is assumed to be clean.
FullRender(lines, marker, clear) ==
  Rendered(lines, marker, PutLines(IF clear THEN Cleared ELSE terminal, lines), Len(lines) - 1,
           IF clear THEN Len(lines) ELSE Larger(maxLinesRendered, Len(lines)))

\* Only rows at the end are gone: go to the last row that is left, clear the
\* ones below it without scrolling.
ClearsExtra_OneShort(t, extra) ==
  Down(FoldLeft(LAMBDA x, i : PutLine(IF i = 1 THEN x ELSE Down(x, 1), ""), t,
                [i \in 1..extra |-> i]), -extra)
ClearsExtra(t, extra) ==
  Down(FoldLeft(LAMBDA x, i : PutLine(Down(x, 1), ""), t, [i \in 1..extra |-> i]), -extra)

RenderDeletions(lines, marker) ==
  LET extra == Len(previousLines) - Len(lines)
      target == Len(lines) - 1
  IN  Rendered(lines, marker, ClearsExtra(Down(terminal, target - hardwareCursorRow), extra),
               target, maxLinesRendered)

\* The first row to write: when rows are only appended, the cursor goes to the
\* row before them and a line feed makes room.
MoveTarget(lines) ==
  IF FirstChanged(lines) = Len(previousLines) /\ previousLines # <<>>
  THEN FirstChanged(lines) - 1 ELSE FirstChanged(lines)

\* The rows from the first to the last that changed; then the rows that are
\* gone are cleared. They have changed, so end is the content's last row then.
RenderChanges(lines, marker) ==
  LET first == FirstChanged(lines)
      end == Smaller(LastChanged(lines), Len(lines) - 1)
      reached == Down(terminal, MoveTarget(lines) - hardwareCursorRow)
      written == PutLines(IF MoveTarget(lines) < first THEN LineFeed(reached) ELSE reached,
                          SubSeq(lines, first + 1, end + 1))
      extra == Len(previousLines) - Len(lines)
      shrunk == Down(FoldLeft(LAMBDA x, i : PutLine(LineFeed(x), ""), written,
                              [i \in 1..extra |-> i]), -extra)
  IN  Rendered(lines, marker, IF extra > 0 THEN shrunk ELSE written, end,
               Larger(maxLinesRendered, Len(lines)))

\* maxLinesRendered never falls without a clear, so after the content has
\* shrunk the rows that are shown begin later than the content's last Height
\* rows; doRender compares with the latter (previousContentViewportTop).
ContentTop == Larger(0, Len(previousLines) - Height)

Clears(lines) ==
  \/ previousWidth = "stale"
  \/ clearOnShrink /\ Len(lines) < maxLinesRendered
  \/ /\ previousLines # <<>> /\ ChangedRows(lines) # {}
     /\ \/ Len(lines) < Len(previousLines) - Height /\ FirstChanged(lines) >= Len(lines)
        \/ FirstChanged(lines) < Len(lines) /\ FirstChanged(lines) < ContentTop

\* The render works on a row above the ones that are shown, where the cursor
\* cannot go: what it wrote lands on other rows, and its idea of the cursor is
\* wrong until the next clear.
IsAstray(lines, marker) ==
  \/ ChangedRows(lines) # {} /\ Smaller(FirstChanged(lines), Len(lines) - 1) < ViewportTop
  \/ marker \in 0..ViewportTop - 1

\* The components have the content lines, the focused one a marker for the
\* cursor in one of the last Height of them, or none has it.
DoRender(lines, marker) ==
  /\ marker = -1 \/ marker >= Len(lines) - Height
  /\ astray' = (~Clears(lines) /\ (astray \/ IsAstray(lines, marker)))
  /\ IF previousLines = <<>> /\ previousWidth # "stale" THEN FullRender(lines, marker, FALSE)
     ELSE IF Clears(lines) THEN FullRender(lines, marker, TRUE)
     ELSE IF ChangedRows(lines) = {}
     THEN Rendered(lines, marker, terminal, hardwareCursorRow, maxLinesRendered)
     ELSE IF FirstChanged(lines) >= Len(lines) THEN RenderDeletions(lines, marker)
     ELSE RenderChanges(lines, marker)

Contents == UNION {[1..n -> LineTexts] : n \in 1..MaxRows}

\* The terminal gets another width and reflows what it shows.
ResizeWidth ==
  /\ previousWidth = "known"
  /\ previousWidth' = "stale"
  /\ terminal' = [screen |-> [r \in 1..Height |-> "other"], cursor |-> 0]
  /\ UNCHANGED <<previousLines, hardwareCursorRow, maxLinesRendered, clearOnShrink, astray>>

\* requestRender(true) after another program had the terminal.
ForceRender ==
  /\ previousLines # <<>>
  /\ terminal' = [screen |-> [r \in 1..Height |-> "other"], cursor |-> Height - 1]
  /\ previousLines' = <<>>
  /\ previousWidth' = "stale"
  /\ hardwareCursorRow' = 0 /\ maxLinesRendered' = 0
  /\ UNCHANGED <<clearOnShrink, astray>>

SetClearOnShrink ==
  /\ clearOnShrink' = ~clearOnShrink
  /\ UNCHANGED <<terminal, previousLines, previousWidth, hardwareCursorRow, maxLinesRendered,
                 astray>>

\* A program starts in any row of a terminal whose rows below are empty.
RendererInit ==
  /\ \E row \in 0..Height - 1 :
       terminal = [screen |-> [r \in 1..Height |-> IF r <= row THEN "other" ELSE ""],
                   cursor |-> row]
  /\ previousLines = <<>>
  /\ previousWidth = "unknown"
  /\ hardwareCursorRow = 0 /\ maxLinesRendered = 0
  /\ clearOnShrink \in BOOLEAN
  /\ astray = FALSE

RendererNext ==
  \/ ResizeWidth \/ ForceRender \/ SetClearOnShrink
  \/ \E lines \in Contents : \E marker \in -1..Len(lines) - 1 : DoRender(lines, marker)

-----------------------------------------------------------------------------
(* Properties *)

RendererTypeOK ==
  /\ terminal \in [screen : [1..Height -> LineTexts \cup {"", "other"}], cursor : 0..Height - 1]
  /\ previousLines = <<>> \/ previousLines \in Contents
  /\ previousWidth \in {"unknown", "known", "stale"}
  /\ hardwareCursorRow \in 0..MaxRows - 1 /\ maxLinesRendered \in 0..MaxRows
  /\ clearOnShrink \in BOOLEAN /\ astray \in BOOLEAN

\* After every render the screen shows the content: around the cursor each row
\* what the content has in it, nothing below the content, above it what was
\* there before, and the content's last row is shown. Not after a render that
\* worked on a row above the screen, until the next clear.
ShowsContent ==
  previousWidth = "known" /\ ~astray =>
    LET shown(s) == hardwareCursorRow + s - terminal.cursor
    IN  /\ \A s \in 0..Height - 1 :
             terminal.screen[s + 1] =
               IF shown(s) < 0 THEN "other" ELSE Row(previousLines, shown(s))
        /\ Len(previousLines) - 1 <= shown(Height - 1)
=============================================================================
