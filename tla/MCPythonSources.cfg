CONSTANTS
  Callers = {c1, c2, c3}
  Ids = {i1, i2}
  Objects = {o1, o2}
  Plugin = Plugin
  None = None
  Ops = {"add_python", "add", "update", "remove", "push"}
  Cancellable = {"add", "update", "push"}
  Apart = TRUE
SPECIFICATION Spec
INVARIANTS
  KnownIsRegistered
  PushesAreServed
  NoStrayPush
CHECK_DEADLOCK FALSE
