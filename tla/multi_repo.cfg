SPECIFICATION RunSpec
CONSTANTS
  N = 2  MaxScripts = 2  ScriptSets <- MCScriptSets  FlagSets <- MCFlagSets
  MaxFailedCommits = 1  MaxEdits = 1
  Gone = Gone  Stale = Stale
INVARIANTS RunIsComplete HooksOnce
CHECK_DEADLOCK FALSE
