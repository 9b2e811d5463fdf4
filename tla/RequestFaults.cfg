SPECIFICATION Spec
CONSTANTS
    Turns = {t}
    Reads = {r}
    Notes = {}
    Scoped = {}
    Unscoped = {u}
    MaxSubmits = 2
    MaxDrops = 1
    MaxStarts = 2
    MaxChatter = 1
INVARIANTS
    AtMostOnce
    OutcomesAreTrue
    RepliesGoToTheirAsker
CHECK_DEADLOCK FALSE
