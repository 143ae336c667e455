\* A stream's header: declared static, then passed through light_object_init().
CONSTANTS
  t1 = t1  t2 = t2  command = command  module = module  device = device  stdout = stdout
  Threads = {t1, t2}
  Declared = {}
  Singletons = {}
  Allocated = {device}
  Reinited = {stdout}
  Maker <- MCMaker
  None = None
  MaxHeld = 2
  Ports = {"host"}
  Handlers = {t2}
SPECIFICATION Spec
INVARIANT StaticStorageKept
CHECK_DEADLOCK FALSE
