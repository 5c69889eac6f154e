\* Two requests, one for a model outside the chain; every failure, every answer
\* of the user, new turns and switches of the model at any moment.
CONSTANTS
    free = free  best = best  freeId = freeId  proId = proId  bestId = bestId
    r1 = r1  r2 = r2  None = None
    Model = {free, best, freeId, proId, bestId}
    Picked = {free}
    Resolve <- Ids
    Template <- FreeThenPro
    Sticky <- BusyIsSticky
    Silent <- MissingIsSilent
    Request = {r1, r2}
    Wanted <- FreeAndBest
    MaxAttempts = 2
    Verbosity = {"low", "full"}
SPECIFICATION FairSpec
INVARIANTS
    TypeOK
    DialogHasItsRequest
    OneRetryPerTurn
    AttemptsInBounds
PROPERTIES
    TerminalStays
    RequestsEnd
