\* The parts that work on the host, each on its own small instance.  The bounds
\* on edits, starts, lines, runs and time let the settings and the files come
\* to an end.
CONSTANTS
  Scenes = {"settings", "files", "text", "view", "stat"}
  LogPaths = {"default", "b"}
  EarlyMax = 1
  MaxLines = 3
  MaxInodes = 4
  ConfigFiles <- MCConfigFiles
  ParsedFiles <- MCParsedFiles
  MaxEdits = 1
  MaxStarts = 2
  Names = {1, 2}
  MaxRuns = 3
  MaxTime = 2
  Texts <- MCTexts
  BufSizes <- MCBufSizes
  MaxArgs = 3
  EntryLen <- MCEntryLen
  HeadLen = 3
  MsgMax = 5
  Journals <- MCJournals
  Requests <- MCRequests
  Groups <- MCGroups
  WordLen <- MCWordLen
  OddWords = {"a;b"}
  LinesMax = 5
  LinesDefault = 3
  IntMax = 9
  SoftCap = 15
  ViewSize = 24
  ViewHead = 4
  MarkerLen = 4
  CutLen = 6
  StatLogs <- MCStatLogs
  StatMax = 100
SPECIFICATION HostSpec
CHECK_DEADLOCK FALSE
INVARIANTS
  HostTypeOK
  LinesKept
  LinesOrdered
  ConfigAsWritten
  LogFollowsConfig
  SettingsInForce
  PartialExplained
  PairWhole
  TextsRight
  ViewFaithful
  StatsConsistent
