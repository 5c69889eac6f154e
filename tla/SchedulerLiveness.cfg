\* Every promise settles while the user answers and the tools return, whatever
\* is edited, expanded, aborted or cancelled.
CONSTANTS
    c1 = c1  c2 = c2  c3 = c3  b1 = b1  b2 = b2  None = None
    Call = {c1, c2}
    Batch = {b1, b2}
    BatchCalls <- OneThenOne
    Policy <- AllowedOrAsked
    Invalid = {c2}
    Topic = {}
    Waits = {}
    HookAsks = {c1}
    HookModifies = {}
    Modifiable = {c1}
    Tailing = {c1}
    Sandboxed = {c1}
    Background = {}
    Interactive = TRUE
    CancelFiresAbort = TRUE
SPECIFICATION FairSpec
PROPERTIES
    EveryScheduleSettles
