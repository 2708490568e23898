SPECIFICATION FairSpec
CONSTANTS
  a1 = a1
  a2 = a2
  cli = cli
  s1 = s1
  s2 = s2
  t1 = t1
  t2 = t2
  app = app
  shell = shell
  NoConn = NoConn
  Callers = {a1, a2, cli}
  Conns = {s1, s2, t1, t2}
  Pools = {app, shell}
  PoolOf <- MCPoolOf
  Cli = {shell}
  Dialects = {"mysql", "postgres", "sqlserver", "sqlite"}
  Faults = {"loss", "cancel", "panic"}
  MaxCalls = 4
INVARIANTS TypeOK ProcessesExclude CliLeavesNoLock
PROPERTIES CallsReturn ImplementsLossyLock
