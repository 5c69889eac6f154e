\* A BeforeTool hook asks where there is no user.
CONSTANTS
    c1 = c1  c2 = c2  c3 = c3  b1 = b1  b2 = b2  None = None
    Call = {c1, c2}
    Batch = {b1}
    BatchCalls <- JustTwo
    Policy <- AnyDecision
    Invalid = {}
    Topic = {}
    Waits = {}
    HookAsks = {c1}
    HookModifies = {}
    Modifiable = {}
    Tailing = {}
    Sandboxed = {}
    Background = {}
    Interactive = FALSE
    CancelFiresAbort = TRUE
SPECIFICATION Spec
INVARIANTS
    HeadlessAsksNobody
