\* Four modules, tables for 3 tasks, a queue of 3 messages, sized for boot and shutdown together.
CONSTANTS
  app = app  ui = ui  cli = cli  core = core
  Modules = {app, ui, cli, core}
  App = app
  Core = core
  Deps <- MCDeps
  Rank <- MCRank
  ModulesMax = 4
  TasksMax = 3
  MaxStreams = 1
  Depth = 3
  BootLog = 2
  PassLog = 1
  StopLog = 1
SPECIFICATION FairSpec
INVARIANTS
  TypeOK
  DependenciesFirst
  DependenciesLoaded
  TasksFollowLoadOrder
  NeverHangs
  LastLinesWritten
PROPERTIES
  ErrorsReachTheCaller
  RunBegins
  RunReturns
