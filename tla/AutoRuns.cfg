SPECIFICATION FairSpec
CONSTANTS
  Workers = {a, b}
  NoWorker = NoWorker
  Requests = {q}
  NoRun = NoRun
  Occurrences = 2
  MaxAttempts = 2
  MaxEvents = 2
INVARIANTS AttemptsBounded Quiet
PROPERTIES FinalWhilePunctual AnswerKept NotReplayed DueIsSettled
CHECK_DEADLOCK FALSE
