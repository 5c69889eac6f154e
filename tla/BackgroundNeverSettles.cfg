\* A call that prints on in the background beside one that still runs.
CONSTANTS
    c1 = c1  c2 = c2  c3 = c3  b1 = b1  b2 = b2  None = None
    Call = {c1, c2}
    Batch = {b1}
    BatchCalls <- JustTwo
    Policy <- AlwaysAllowed
    Invalid = {}
    Topic = {}
    Waits = {}
    HookAsks = {}
    HookModifies = {}
    Modifiable = {}
    Tailing = {}
    Sandboxed = {}
    Background = {c1}
    Interactive = TRUE
    CancelFiresAbort = TRUE
SPECIFICATION FairSpec
PROPERTIES
    EveryScheduleSettles
