\* Launch lines of up to four tokens after the program's name; four tokens, two arguments, two
\* options, one alias and two queued lines fit.
CONSTANTS
  app = app  font = font  add = add  console = console  batch = batch  loop = loop
  far = far  near = near  end = end  root = root
  Commands = {app, font, add, console, batch, loop, far, near, end}
  Root = root
  Child <- MCChild
  Name <- MCName
  Option <- MCOption
  Handler <- MCHandler
  AppRoot = app
  LaunchLines <- MCLaunchLines
  BootCommands <- MCBootCommands
  Inputs <- MCInputs
  Batch <- MCBatch
  MaxTokens = 4
  MaxArgs = 2
  MaxOptions = 2
  MaxRefDepth = 1
  QueueDepth = 2
  One = One
  None = None
SPECIFICATION Spec
INVARIANTS
  InvocationAsTyped
  EveryLineRuns
  DispatchOutcome
