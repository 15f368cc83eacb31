\* Two babies, polled by two goroutines; nothing fails.
SPECIFICATION Spec
CONSTANTS
  None = None
  b1 = b1
  b2 = b2
  q1 = q1
  q2 = q2
  Babies = {b1, b2}
  Pollers = {q1, q2}
  BabyOf <- EachBaby
  Links = {}
  Logins = {}
  Main = main
  Messages <- TwoBabies
  TokenLimit = 1
  CrashLimit = 0
INVARIANTS FetchedOnce
CHECK_DEADLOCK FALSE
