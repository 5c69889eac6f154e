\* A client that answers two questions of the policy as they are put.
CONSTANTS
    c1 = c1  c2 = c2  m1 = m1  m2 = m2  m3 = m3  None = None
    Call = {c1, c2}
    Message = {m1, m2, m3}
    Text = {m1}
    Batches <- JustTwo
    Asks = {c1, c2}
    PatientClient = TRUE
SPECIFICATION Spec
INVARIANTS
    NoWaiterIsLost
\* Messages run out, and the server may exit.
CHECK_DEADLOCK FALSE
