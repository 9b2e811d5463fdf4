\* A Stop pressed while a reopened turn is being recovered.
CONSTANTS
  Turns = {t}
  Opened = {t}
  Retries = 0
  Stoppable = {t}
  MaxCrashes = 1
  MaxFaults = 0
  MaxConcurrent = 1
  MaxWaiting = 1
SPECIFICATION Spec
CHECK_DEADLOCK FALSE
INVARIANT StoppedIsStopped
