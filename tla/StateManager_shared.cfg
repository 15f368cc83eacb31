\* Two goroutines update the same field.
SPECIFICATION Spec
CONSTANTS
  w1 = w1
  w2 = w2
  b1 = b1
  b2 = b2
  f1 = f1
  f2 = f2
  Nil = Nil
  Writers = {w1, w2}
  Babies = {b1}
  Fields = {f1}
  Subscribers = {s1}
  Slow = {}
  Values = {v1, v2}
  Scope <- ScopeShared
  QueueCap = 3
  UpdateLimit = 3
INVARIANT RetainedIsLastKnown
CHECK_DEADLOCK FALSE
