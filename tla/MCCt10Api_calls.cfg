SPECIFICATION Spec
CONSTANTS
  FirstRaiserror = 20000
  Config <- FewRetries
  Messages <- MCMessages
  InitString = TRUE
  UseAfterClose = FALSE
  MaxMessages = 2
  MaxCount = 2
INVARIANTS TypeOK OneExecutionShown CommandIsLive ErrorIsReported
PROPERTIES RetryIsAllowed CallReturns
