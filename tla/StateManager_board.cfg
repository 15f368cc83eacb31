\* The callback of one of two subscribers may block for good.
SPECIFICATION FairSpec
CONSTANTS
  w1 = w1
  w2 = w2
  b1 = b1
  b2 = b2
  f1 = f1
  f2 = f2
  Nil = Nil
  Writers = {w1}
  Babies = {b1}
  Fields = {f1}
  Subscribers = {s1, s2}
  Slow = {s1}
  Values = {v1, v2}
  Scope <- ScopeOne
  QueueCap = 1
  UpdateLimit = 2
INVARIANTS TypeOK CaughtUp
PROPERTIES NeverBackwards FeedRefinement EventuallySeen UpdateReturns WorkerStops
CHECK_DEADLOCK FALSE
