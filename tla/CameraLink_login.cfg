\* Two managers of one baby.
SPECIFICATION Spec
CONSTANTS
  boot = boot
  login = login
  Managers <- TwoManagers
  AttemptLimit = 1
INVARIANT CallersSeeCurrent
CHECK_DEADLOCK FALSE
