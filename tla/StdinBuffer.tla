----------------------------- MODULE StdinBuffer -----------------------------
(***************************************************************************)
(* The input of the terminal (packages/tui/src/stdin-buffer.ts). Keys are  *)
(* escape sequences of several characters and arrive in chunks that are    *)
(* cut anywhere; the buffer puts them together again, takes what stands    *)
(* between the paste markers as one paste, and gives up on a sequence that *)
(* is not complete after a while. A character is an element of Chars; one  *)
(* stands for all that the code treats alike.                              *)
(* Left out: a chunk of one byte above 127, which becomes Escape and a     *)
(* character; an empty chunk; clear(), which ends the buffer's use.        *)
(***************************************************************************)
EXTENDS Integers, Sequences, FiniteSets, SequencesExt

CONSTANTS
  Keys,         \* what a terminal sends: [kind |-> "data" or "paste", text]
  MaxKeys,      \* bound: keys of a behaviour
  MaxTimeouts   \* bound: timeouts of a behaviour

ASSUME StdinAssumption == MaxKeys \in Nat /\ MaxTimeouts \in Nat

VARIABLES
  typed,       \* the keys of this behaviour
  received,    \* the characters that have arrived
  buffer,
  pasteMode,
  pasteBuffer,
  emitted,     \* the events so far
  timeouts

stdinVars == <<typed, received, buffer, pasteMode, pasteBuffer, emitted, timeouts>>

Esc == "ESC"
Bell == "BEL"
Digits == {"0", "1", "2"}
Finals == {"A", "M", "m", "O", "P", "[", "]", "_", "u", "~", "\\"}  \* 0x40 to 0x7e
Chars == {Esc, Bell, "<", ";", " "} \cup Digits \cup Finals
PasteStart == <<Esc, "[", "2", "0", "0", "~">>
PasteEnd == <<Esc, "[", "2", "0", "1", "~">>

Data(text) == [kind |-> "data", text |-> text]
Paste(text) == [kind |-> "paste", text |-> text]
Wire(event) == IF event.kind = "paste" THEN PasteStart \o event.text \o PasteEnd
               ELSE event.text
WireOf(events) == FlattenSeq([i \in 1..Len(events) |-> Wire(events[i])])

-----------------------------------------------------------------------------
(* Escape sequences *)

\* <digits;digits;digits and M or m: an SGR mouse report.
IsMouseReport(payload) ==
  \E i, j \in 1..Len(payload) :
    /\ 2 < i /\ i + 1 < j /\ j + 1 < Len(payload)
    /\ payload[i] = ";" /\ payload[j] = ";"
    /\ payload[Len(payload)] \in {"M", "m"}
    /\ \A k \in 2..Len(payload) - 1 : k \notin {i, j} => payload[k] \in Digits

\* isCompleteCsiSequence
IsCompleteCsi(s) ==
  /\ Len(s) >= 3 /\ Last(s) \in Finals
  /\ s[3] = "<" => IsMouseReport(SubSeq(s, 3, Len(s)))

EndsWithST(s) == Len(s) >= 2 /\ SubSeq(s, Len(s) - 1, Len(s)) = <<Esc, "\\">>

\* isCompleteSequence, for a text that starts with ESC.
IsComplete_NoOldMouse(s) ==
  /\ Len(s) >= 2
  /\ CASE s[2] = "[" -> IsCompleteCsi(s)
       [] s[2] = "]" -> EndsWithST(s) \/ Last(s) = Bell
       [] s[2] \in {"P", "_"} -> EndsWithST(s)
       [] s[2] = "O" -> Len(s) >= 3
       [] OTHER -> TRUE
IsComplete(s) ==
  /\ Len(s) >= 2
  /\ CASE s[2] = "[" -> IF Len(s) >= 3 /\ s[3] = "M" THEN Len(s) >= 6 ELSE IsCompleteCsi(s)
       [] s[2] = "]" -> EndsWithST(s) \/ Last(s) = Bell
       [] s[2] \in {"P", "_"} -> EndsWithST(s)
       [] s[2] = "O" -> Len(s) >= 3
       [] OTHER -> TRUE

\* extractCompleteSequences: the sequences, and the remainder that is not one yet.
Extract(s) ==
  LET Ends(p) == {n \in p + 1..Len(s) : IsComplete(SubSeq(s, p, n))}
      from[p \in 1..Len(s) + 1] ==
        IF p > Len(s) THEN [sequences |-> <<>>, remainder |-> <<>>]
        ELSE IF s[p] # Esc
             THEN [from[p + 1] EXCEPT !.sequences = <<Data(<<s[p]>>)>> \o @]
             ELSE IF Ends(p) = {}
                  THEN [sequences |-> <<>>, remainder |-> SubSeq(s, p, Len(s))]
                  ELSE LET n == Min(Ends(p))
                       IN  [from[n + 1] EXCEPT !.sequences = <<Data(SubSeq(s, p, n))>> \o @]
  IN  from[1]

-----------------------------------------------------------------------------
(* process *)

IndexOf(s, marker) ==
  LET places == {i \in 1..Len(s) : i + Len(marker) - 1 <= Len(s)
                                   /\ SubSeq(s, i, i + Len(marker) - 1) = marker}
  IN  IF places = {} THEN 0 ELSE Min(places)
After(s, i, marker) == SubSeq(s, i + Len(marker), Len(s))
Emits(events, rest) == [rest EXCEPT !.events = events \o @]

\* What the buffer does with all it holds: text outside a paste, then perhaps a
\* paste, and what follows it. What is not complete before a paste is dropped.
Processed(mode, text) ==
  LET run[m \in {"keys", "paste"}, s \in Seq(Chars)] ==
        IF m = "paste"
        THEN LET end == IndexOf(s, PasteEnd)
             IN  IF end = 0
                 THEN [events |-> <<>>, buffer |-> <<>>, pasteMode |-> TRUE, pasteBuffer |-> s]
                 ELSE Emits(<<Paste(SubSeq(s, 1, end - 1))>>,
                            run["keys", After(s, end, PasteEnd)])
        ELSE LET start == IndexOf(s, PasteStart)
             IN  IF start = 0
                 THEN [events |-> Extract(s).sequences, buffer |-> Extract(s).remainder,
                       pasteMode |-> FALSE, pasteBuffer |-> <<>>]
                 ELSE Emits(Extract(SubSeq(s, 1, start - 1)).sequences,
                            run["paste", After(s, start, PasteStart)])
  IN  run[mode, text]

\* What is looked at when a chunk comes.
Held_ChunkOnly(chunk) == IF pasteMode THEN pasteBuffer \o chunk ELSE chunk
Held(chunk) == IF pasteMode THEN pasteBuffer \o chunk ELSE buffer \o chunk

Incoming == SubSeq(WireOf(typed), Len(received) + 1, Len(WireOf(typed)))

Process(n) ==
  LET chunk == SubSeq(Incoming, 1, n)
      result == Processed(IF pasteMode THEN "paste" ELSE "keys", Held(chunk))
  IN  /\ received' = received \o chunk
      /\ emitted' = emitted \o result.events
      /\ buffer' = result.buffer
      /\ pasteMode' = result.pasteMode
      /\ pasteBuffer' = result.pasteBuffer
      /\ UNCHANGED <<typed, timeouts>>

\* The timeout, armed while the buffer holds something: flush.
Timeout ==
  /\ buffer # <<>> /\ timeouts < MaxTimeouts
  /\ emitted' = Append(emitted, Data(buffer))
  /\ buffer' = <<>>
  /\ timeouts' = timeouts + 1
  /\ UNCHANGED <<typed, received, pasteMode, pasteBuffer>>

StdinInit ==
  /\ typed \in UNION {[1..n -> Keys] : n \in 0..MaxKeys}
  /\ received = <<>> /\ buffer = <<>> /\ pasteMode = FALSE /\ pasteBuffer = <<>>
  /\ emitted = <<>> /\ timeouts = 0

StdinNext == Timeout \/ \E n \in 1..Len(Incoming) : Process(n)

-----------------------------------------------------------------------------
(* Properties *)

StdinTypeOK ==
  /\ buffer \in Seq(Chars) /\ pasteBuffer \in Seq(Chars) /\ pasteMode \in BOOLEAN
  /\ received \in Seq(Chars) /\ timeouts \in 0..MaxTimeouts
  /\ \A i \in 1..Len(emitted) : emitted[i].kind \in {"data", "paste"}

\* A lone Escape is the beginning of whatever comes next, and is dropped when
\* that is a paste.
Ambiguous == \E i \in 1..Len(typed) : typed[i] = Data(<<Esc>>)
EscapeBeforePaste ==
  \E i \in 1..Len(typed) - 1 : typed[i] = Data(<<Esc>>) /\ typed[i + 1].kind = "paste"

\* Wherever the chunks are cut and whenever the timeout fires, no character is
\* lost, doubled or moved.
NothingLost ==
  ~EscapeBeforePaste =>
    WireOf(emitted) \o (IF pasteMode THEN PasteStart \o pasteBuffer ELSE buffer) = received

\* Without a timeout the events are the keys that were typed, each whole, and a
\* paste is never taken for keys.
KeysArriveWhole == timeouts = 0 /\ ~Ambiguous => IsPrefix(emitted, typed)

InputReassembled == NothingLost /\ KeysArriveWhole
=============================================================================
