SPECIFICATION UnitsSpec
CONSTANTS
  Callers = {t1, t2, t3}
  Data = {d1, d2}
  MaxLen = 3
  MaxSwallowed = 2
  Threads = {t1, t2, t3, t4}
  MaxCount = 3
  MaxSupplied = 6
  Timers = {a, b}
  Users = {u1, u2}
  None = None
  Max = 7
  MaxUsed = 4
  MaxSockets = 3
  Payloads <- SomePayloads
  Replies <- LongReplies
  Keys <- SomeKeys
  MAXRECV = 16384
  MaxPayload = 99
  MaxFrames = 4
  DataSizes = {0, 1, 15, 16, 17, 239, 240, 256, 300}
  Loggers = {t1, t2}
  Observers = {o1, o2}
  Quiet = {o2}
  SizeLimit = 2
  LineSizes = {1, 3}
  MaxEntries = 2
  MaxListeners = 2
INVARIANTS NoLostWakeup SemaphoreSafe LoopSafe IdsCorrect
INVARIANTS ClientHonest SessionMatchesSocket CloseReleases FramesExchanged MacVerifies LogDelivered
PROPERTIES DueIsServed StopReturnsOnceBegun
CHECK_DEADLOCK FALSE
