SPECIFICATION FairSpec
CONSTANTS
    Turns = {t}
    Reads = {}
    Notes = {n}
    Scoped = {q}
    Unscoped = {}
    MaxSubmits = 1
    MaxDrops = 0
    MaxStarts = 2
    MaxChatter = 0
PROPERTIES
    AsksSettle
    CallsSettle
CHECK_DEADLOCK FALSE
