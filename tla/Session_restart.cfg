\* The messages of one baby, App.Run, a websocket manager and a login, with the second poller it
\* starts; the process is killed once.
SPECIFICATION Spec
CONSTANTS
  None = None
  b1 = b1
  b2 = b2
  q1 = q1
  q2 = q2
  Babies = {b1}
  Pollers = {q1, q2}
  BabyOf <- SameBaby
  Links = {link}
  Logins = {web}
  Main = main
  Messages <- OneBaby
  TokenLimit = 3
  CrashLimit = 1
SYMMETRY PollerSymmetry
INVARIANTS TokenIsGood FetchedIsIgnored
CHECK_DEADLOCK FALSE
