\* Two children fit a parent, one option a command; three commands may wait; a full name has three parts at most.
CONSTANTS
  auto = auto  other = other  hand = hand  run = run  ui = ui  focus = focus  next = next
  deep = deep  back = back  made = made  verbose = verbose  quiet = quiet
  Commands = {auto, other, hand, run, ui, focus, next, deep, back, made}
  AutoRoots = {auto, other}
  Created = {made}
  Options = {verbose, quiet}
  Declared <- MCDeclared
  Owner <- MCOwner
  Name <- MCName
  Root = Root
  AppRoot = AppRoot
  None = None
  MaxSub = 2
  MaxOptions = 1
  MaxDepth = 3
  MaxPending = 3
SPECIFICATION FairSpec
INVARIANTS
  TypeOK
  AttachedOnce
  NeverThroughSentinel
  FullNameIsPath
  AppRootFound
  NothingLostWithRoom
PROPERTIES
  Settles
