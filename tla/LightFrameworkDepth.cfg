\* Four modules, tables for 2 tasks, a queue of 2 messages: no run between two drains logs more than it holds.
CONSTANTS
  app = app  ui = ui  cli = cli  core = core
  Modules = {app, ui, cli, core}
  App = app
  Core = core
  Deps <- MCDeps
  Rank <- MCRank
  ModulesMax = 4
  TasksMax = 2
  MaxStreams = 1
  Depth = 2
  BootLog = 2
  PassLog = 1
  StopLog = 1
SPECIFICATION Spec
INVARIANT LongestRunFits
