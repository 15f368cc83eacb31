\* Two clients on one subscription, two emitters; timeouts need not happen.
SPECIFICATION FairSpec
CONSTANTS
  Subs = {s1}
  Emitters = {worker, timer}
  Clients = {c1, c2}
  Limits = {1, 2}
  EmitLimit = 3
  PullLimit = 2
INVARIANTS PulledOnceInOrder NoLostWakeup
PROPERTY EventEndsWait
CHECK_DEADLOCK FALSE
