SPECIFICATION FairSpec
CONSTANTS
  a = a
  b = b
  c = c
  Callers = {a, b, c}
  Stray = Stray
  MaxCrashes = 2
INVARIANT HolderHasDirectory
PROPERTY ImplementsLock
PROPERTY LockIsTaken
