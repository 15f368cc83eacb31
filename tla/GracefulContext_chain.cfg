\* A chain of three contexts; anyone may call RunAsChild at any moment.
SPECIFICATION FairSpec
CONSTANTS
  app = app
  baby = baby
  socket = socket
  Nodes = {app, baby, socket}
  Root = app
  Parent <- Chain
INVARIANTS WaitGroupExact CancelAwaitsChildren OnlyLateCallersPanic
PROPERTIES CancelReachesChildren ShutdownCompletes CancelReturns
\* The process ends when the root context has finished.
CHECK_DEADLOCK FALSE
