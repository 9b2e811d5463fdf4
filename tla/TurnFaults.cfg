\* One chat turn of a new conversation, after a turn of another one.
CONSTANTS
  Turns = {t, u}
  Opened = {u}
  Retries = 2
  Stoppable = {t}
  MaxCrashes = 3
  MaxFaults = 2
  MaxConcurrent = 1
  MaxWaiting = 1
SPECIFICATION LateSpec
CHECK_DEADLOCK FALSE
INVARIANTS OneModelTurn EndsAreTrue WorkHoldsItsTicket
 
