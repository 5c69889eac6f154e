\* Two concurrent calls of editable tools: the edit of one is made from the
\* arguments of the other.
CONSTANTS
    c1 = c1  c2 = c2  c3 = c3  b1 = b1  b2 = b2  None = None
    Call = {c1, c2}
    Batch = {b1}
    BatchCalls <- JustTwo
    Policy <- AlwaysAsked
    Invalid = {}
    Topic = {}
    Waits = {}
    HookAsks = {}
    HookModifies = {}
    Modifiable = {c1, c2}
    Tailing = {}
    Sandboxed = {}
    Background = {}
    Interactive = TRUE
    CancelFiresAbort = TRUE
SPECIFICATION Spec
INVARIANTS
    EditsStayWithTheirCall
