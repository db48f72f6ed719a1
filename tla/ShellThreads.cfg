SPECIFICATION ShellSpec
CONSTANTS
  Workers = {w1, w2, w3}
  Tasks = {t1, t2, t3}
  NoTask = NoTask
INVARIANTS ShellTypeOK EveryTaskOnce NobodySleepsOnWork NoneOutlivesTheShell
PROPERTIES EveryTaskRuns ExitEnds
\* The shell has ended.
CHECK_DEADLOCK FALSE
