SPECIFICATION Spec
CONSTANTS
  KeepRecent = 3
  Sizes = {1, 3}
  MaxEntries = 6
  MaxCompactions = 2
  Fields = {x, y}
  MaxSets = 2
  MaxEdits = 2
  MaxFaults = 1
  EventFiles = {e1}
  MaxVersions = 2
  MaxTouches = 1
  QueueLimit = 1
  MaxReads = 2
  MaxMessages = 5
  MaxCalls = 2
  Keys <- TerminalKeys
  MaxKeys = 2
  MaxTimeouts = 1
  EditorScopes <- MCEditorScopes
  Height = 2
  MaxRows = 4
  LineTexts = {"a", "b"}
  SlackMessages <- MCSlackMessages
  OldUsers = {"old"}
  EventLimit = 1
  SlackScopes <- MCSlackScopes
CHECK_DEADLOCK FALSE
INVARIANTS
  WorkspaceTypeOK
  CompactionSound
  ChangesPersist
  EventsFollowFiles
  CallsAnsweredOnWire
  TypingKept
  ShowsContent
  ChannelIsRead
