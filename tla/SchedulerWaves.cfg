\* Two batches, the second in line behind the first, every verdict of the
\* policy engine, aborts and cancelAll at any moment.
CONSTANTS
    c1 = c1  c2 = c2  c3 = c3  b1 = b1  b2 = b2  None = None
    Call = {c1, c2, c3}
    Batch = {b1, b2}
    BatchCalls <- TwoThenOne
    Policy <- AnyDecision
    Invalid = {}
    Topic = {}
    Waits = {}
    HookAsks = {}
    HookModifies = {}
    Modifiable = {}
    Tailing = {}
    Sandboxed = {}
    Background = {}
    Interactive = TRUE
    CancelFiresAbort = TRUE
SPECIFICATION Spec
INVARIANTS
    ReportIsComplete
    NothingStranded
    OnlyRevivedLinger
PROPERTIES
    NoStartAfterCancel
    ImplementsService
