\* Two concurrent calls: the user refuses one, the other runs.
CONSTANTS
    c1 = c1  c2 = c2  c3 = c3  b1 = b1  b2 = b2  None = None
    Call = {c1, c2}
    Batch = {b1}
    BatchCalls <- JustTwo
    Policy <- AlwaysAsked
    Invalid = {}
    Topic = {}
    Waits = {}
    HookAsks = {}
    HookModifies = {}
    Modifiable = {}
    Tailing = {}
    Sandboxed = {}
    Background = {}
    Interactive = TRUE
    CancelFiresAbort = TRUE
SPECIFICATION Spec
INVARIANTS
    DenialCascades
