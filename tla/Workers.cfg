SPECIFICATION FairSpec
CONSTANTS
  Users = {u, v}
  Callers = {x, y}
  Nobody = Nobody
  Concurrency = 1
  Pending = 1
  MaxGenerations = 2
  MaxCalls = 3
INVARIANTS NoOrphan SlotsAccounted OneDriver ToldTheTruth 
PROPERTIES CallsAnswered DrainsEnd JournalsComeFree
CHECK_DEADLOCK FALSE
