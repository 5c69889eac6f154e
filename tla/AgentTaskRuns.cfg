\* Two text messages and an answer to two calls, asked for together or one
\* after the other, of which the user is asked about the second; the client may
\* cancel, go away and answer at any time.
CONSTANTS
    c1 = c1  c2 = c2  m1 = m1  m2 = m2  m3 = m3  None = None
    Call = {c1, c2}
    Message = {m1, m2, m3}
    Text = {m1, m2}
    Batches <- TwoOrOne
    Asks = {c2}
    PatientClient = FALSE
SPECIFICATION FairSpec
INVARIANTS
    TypeOK
    HandedOverOnce
    WaitIsFounded
    SchedulerHasPending
    ResultsArrive
    AskedCanBeAnswered
PROPERTIES
    OnlyAnswersLose
    WaitEnds
\* Messages run out, and the server may exit.
CHECK_DEADLOCK FALSE
