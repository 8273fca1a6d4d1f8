\* Every kind of record, read as it was written and with one cell changed;
\* the facts of messages and rules of every shape; every kind of request and
\* of answer.
SPECIFICATION Spec
CONSTANTS
  None = None
  SystemFlags <- Flags
  NullWord = 30
  Exact = 2
  Spoken <- B
  MaxCriteria = 2
  MaxTextLength = 2
  MaxUids = 2
  MaxEntries = 2
  MaxBytes = 2
  Events <- AllEvents
  Cells = {0, 1, 3, 4, 30}
  Messages <- AllMessages
  Stored <- AllStored
  Requests <- AllRequests
  Outcomes <- AllOutcomes
INVARIANTS
  WrittenIsReadable
  CutIsRefusedUnlessIdentityLost
  FactsAreCanonicalUnlessListId
  RequestsUnderstoodUnlessAnonymous
  AnswersUnderstoodUnlessOdd
  AcceptedIsRecordable
CHECK_DEADLOCK FALSE
