\* A detached child of a tool call and a terminal command of the user, with
\* room for one of them in the history.
CONSTANTS
    r1 = r1  r2 = r2
    Run = {r1, r2}
    Typed = {r2}
    Detached = {r1}
    Pty = {r2}
    Silent = {r2}
    MaxHistory = 1
SPECIFICATION FairSpec
INVARIANTS
    TypeOK
    PromiseIsOwed
    ToldOnce
    ListedIsWatched
    OnlyTheDelayLeaves
PROPERTIES
    DetachedReturns
    KilledReturns
    ImplementsPromise
\* Every command may have run.
CHECK_DEADLOCK FALSE
