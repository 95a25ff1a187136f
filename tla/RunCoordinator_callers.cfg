CONSTANTS
  Key = {k1}
  Entry = {e1, e2}
  Fiber = {f1, f2}
  Caller = {c1, c2, c3}
  NoKey = NoKey
  NoEntry = NoEntry
  NoFiber = NoFiber
SPECIFICATION FairSpec
INVARIANTS SingleDrain NoLostRequest
PROPERTIES StopIsFinal JoinedUntilIdle CallersReturn ImplementsSerial
