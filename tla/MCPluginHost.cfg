CONSTANTS
  b1 = b1
  b2 = b2
  source = source
  Builds = {b1, b2}
  Kinds = {source}
  KindOf <- MCKindOf
  installer = installer
  user = user
  Callers = {installer, user}
  Does <- MCDoes
  Watcher = Watcher
  None = None
  Partial = Partial
  ApartFiles = TRUE
  Cancellable = {"download", "register", "retain", "next"}
SPECIFICATION FairSpec
INVARIANTS
  PinsAreTrue
  NoticedIsLoaded
  CreatedIsUsable
PROPERTIES
  WatchedFilesLoad
CHECK_DEADLOCK FALSE
