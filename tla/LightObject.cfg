\* Two threads; an allocated object each can hold twice, a singleton, and a declared
\* object, whose count nobody ever raised.
CONSTANTS
  t1 = t1  t2 = t2  command = command  module = module  device = device  stdout = stdout
  Threads = {t1, t2}
  Declared = {command}
  Singletons = {module}
  Allocated = {device}
  Reinited = {}
  Maker <- MCMaker
  None = None
  MaxHeld = 2
  Ports = {"host", "rp2", "stm32"}
  Handlers = {t2}
SPECIFICATION FairSpec
INVARIANTS
  TypeOK
  CountIsReferences
  NoUseAfterRelease
  ReleasedOnce
PROPERTY DeadObjectsReleased
CHECK_DEADLOCK FALSE
