\* Two connections, two publishers.
SPECIFICATION FairSpec
CONSTANTS
  ConnLimit = 2
  PublishLimit = 1
PROPERTIES AskedAgain RequestsEnd
CHECK_DEADLOCK FALSE
