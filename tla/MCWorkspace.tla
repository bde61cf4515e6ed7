---------------------------- MODULE MCWorkspace -----------------------------
(***************************************************************************)
(* The parts that work on one text, file or stream: an instance of each    *)
(* for TLC. Each behaviour is one of the component it chose at the start.  *)
(***************************************************************************)
EXTENDS Compaction, SettingsManager, EventsWatcher, TransformMessages, StdinBuffer, Editor,
        Renderer, SlackChannel

VARIABLE component

\* Keys of every kind of escape sequence, and two pastes.
TerminalKeys ==
  {Data(<<" ">>), Data(<<"ESC">>), Data(<<"ESC", "u">>), Data(<<"ESC", "[", "A">>),
   Data(<<"ESC", "O", "P">>),
   Data(<<"ESC", "[", "<", "2", "0", ";", "1", ";", "1", "m">>),
   Data(<<"ESC", "[", "M", " ", "A", "[">>),
   Data(<<"ESC", "]", "1", ";", " ", "BEL">>), Data(<<"ESC", "P", "A", "ESC", "\\">>),
   Paste(<<" ", "A">>), Paste(<<"ESC", "[", "2", "0">>)}

\* Kills and yanks without undo, then undo and the history of prompts.
MCEditorScopes ==
  {[characters |-> {"word", "space"}, text |-> 3, killed |-> 2, undo |-> 0, history |-> 0],
   [characters |-> {"word", "space"}, text |-> 2, killed |-> 1, undo |-> 2, history |-> 1],
   [characters |-> {"word", "punctuation"}, text |-> 2, killed |-> 0, undo |-> 3, history |-> 1]}

\* Two users, one of them new; what one says to the bot and to the others may
\* be the same.
MCSlackMessages ==
  {[user |-> "old", text |-> "yes", kind |-> "trigger"],
   [user |-> "old", text |-> "yes", kind |-> "chatter"],
   [user |-> "new", text |-> "no", kind |-> "trigger"]}

\* A restart with a message that comes twice, or with an event; more messages.
MCSlackScopes ==
  {[sent |-> 2, twice |-> 1, starts |-> 2, events |-> 0],
   [sent |-> 2, twice |-> 0, starts |-> 2, events |-> 1],
   [sent |-> 3, twice |-> 0, starts |-> 1, events |-> 0]}

workspaceVars ==
  <<path, settingsVars, eventsVars, transformVars, stdinVars, editorVars, rendererVars,
    slackVars, component>>

Init ==
  /\ component \in {"compaction", "settings", "events", "transform", "stdin", "editor",
                    "renderer", "slack"}
  /\ CompactionInit /\ SettingsInit /\ EventsInit /\ TransformInit /\ StdinInit /\ EditorInit
  /\ RendererInit /\ SlackInit
  /\ component # "settings" => \A s \in SettingsScopes : disk[s].state = "absent"
  /\ component # "events" => versions = <<>>
  /\ component # "stdin" => typed = <<>>
  /\ component # "editor" => editorScope.text = 3
  /\ component # "renderer" => terminal.cursor = 0 /\ ~clearOnShrink
  /\ component # "slack" => slackScope.sent = 3

Next ==
  \/ /\ component = "compaction" /\ CompactionNext
     /\ UNCHANGED <<settingsVars, eventsVars, transformVars, stdinVars, editorVars, rendererVars,
                    slackVars, component>>
  \/ /\ component = "settings" /\ SettingsNext
     /\ UNCHANGED <<path, eventsVars, transformVars, stdinVars, editorVars, rendererVars,
                    slackVars, component>>
  \/ /\ component = "events" /\ EventsNext
     /\ UNCHANGED <<path, settingsVars, transformVars, stdinVars, editorVars, rendererVars,
                    slackVars, component>>
  \/ /\ component = "transform" /\ TransformNext
     /\ UNCHANGED <<path, settingsVars, eventsVars, stdinVars, editorVars, rendererVars,
                    slackVars, component>>
  \/ /\ component = "stdin" /\ StdinNext
     /\ UNCHANGED <<path, settingsVars, eventsVars, transformVars, editorVars, rendererVars,
                    slackVars, component>>
  \/ /\ component = "editor" /\ EditorNext
     /\ UNCHANGED <<path, settingsVars, eventsVars, transformVars, stdinVars, rendererVars,
                    slackVars, component>>
  \/ /\ component = "renderer" /\ RendererNext
     /\ UNCHANGED <<path, settingsVars, eventsVars, transformVars, stdinVars, editorVars,
                    slackVars, component>>
  \/ /\ component = "slack" /\ SlackNext
     /\ UNCHANGED <<path, settingsVars, eventsVars, transformVars, stdinVars, editorVars,
                    rendererVars, component>>

Spec == Init /\ [][Next]_workspaceVars

\* The components that do not run keep their initial state.
WorkspaceTypeOK ==
  /\ component = "compaction" => CompactionTypeOK
  /\ component = "settings" => SettingsTypeOK
  /\ component = "events" => EventsTypeOK
  /\ component = "transform" => TransformTypeOK
  /\ component = "stdin" => StdinTypeOK
  /\ component = "editor" => EditorTypeOK
  /\ component = "renderer" => RendererTypeOK
  /\ component = "slack" => SlackTypeOK

\* What is typed reaches the editor whole (StdinBuffer), and what the editor
\* takes away comes back by yank, undo and history (Editor).
TypingKept == InputReassembled /\ EditsComeBack
=============================================================================
