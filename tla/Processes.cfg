SPECIFICATION Spec
CONSTANTS
  a = a
  b = b
  Names <- MCNames
  Mentions <- MCMentions
  Handles = {h1, h2}
  NULL = NULL
  NoProcess = NoProcess
  NoFile = NoFile
  MaxPid = 2
INVARIANTS TypeOK StoppedHasEnded HandlesLeadHome NoHandleLost NothingRunsOn
PROPERTY EndIsNoticed
\* The shell has exited, or has no pid left to give out.
CHECK_DEADLOCK FALSE
