\* A request, its repetition after a timeout and one that is not awaited.
SPECIFICATION FairSpec
CONSTANTS
  Requests = {"start", "again", "snapshot"}
  Awaited = {"start", "again"}
  Types = {"PUT_STREAMING", "GET_STATUS"}
  Type <- RetryTypes
  AnswerLimit = 3
INVARIANTS OwnAnswer NothingLeft
PROPERTIES NoAnswerLost ReaderGoesOn
CHECK_DEADLOCK FALSE
