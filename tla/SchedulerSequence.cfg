\* One batch whose calls wait for each other, the topic call last; a hook and
\* a sandbox expansion change the first, the user and a tail call the second.
CONSTANTS
    c1 = c1  c2 = c2  c3 = c3  b1 = b1  b2 = b2  None = None
    Call = {c1, c2, c3}
    Batch = {b1}
    BatchCalls <- JustThree
    Policy <- TopicAllowed
    Invalid = {}
    Topic = {c3}
    Waits = {c1, c2}
    HookAsks = {}
    HookModifies = {c1}
    Modifiable = {c2}
    Tailing = {c2}
    Sandboxed = {c1}
    Background = {}
    Interactive = TRUE
    CancelFiresAbort = TRUE
SPECIFICATION Spec
INVARIANTS
    TypeOK
    RunsVettedArguments
    PolicyDenialHolds
    WaitsForPrevious
    TopicLeads
    DenialCascades
    EditsStayWithTheirCall
    WaitingIsSignalled
