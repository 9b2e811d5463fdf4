\* Three turns on a single slot, one of them with three runners.
CONSTANTS
  a = a
  b = b
  c = c
  Turns = {a, b, c}
  Legacy = {c}
  MaxRunners <- Restarted
  MaxMishaps = 2
  MaxConcurrent = 1
  MaxWaiting = 2
SPECIFICATION LiveSpec
CHECK_DEADLOCK FALSE
INVARIANTS TypeOK WorkHoldsItsTicket SlotsRespected
PROPERTIES NoOvertaking 
