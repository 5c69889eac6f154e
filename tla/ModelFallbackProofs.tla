------------------------ MODULE ModelFallbackProofs ------------------------
(***************************************************************************)
(* Proofs about ModelFallback, for every chain of models, any number of    *)
(* requests and of attempts: the types, that the dialog on screen answers  *)
(* the request that waits for it, that a model is retried once per turn,   *)
(* that a request keeps to its attempts, and that a terminal failure is    *)
(* not softened.                                                           *)
(***************************************************************************)
EXTENDS ModelFallback, SequenceTheorems, TLAPS

\* A model that could be admitted as a retry has not been since it was healthy.
Unspent ==
    \A m \in Model :
        /\ retries[m] \in {0, 1}
        /\ health[m] \in {"healthy", "sticky"} => retries[m] = 0

\* What a request carries where it is.
Carries(r) ==
    /\ attempt[r] <= limit[r]
    /\ pc[r] # "idle" => current[r] \in Model /\ limit[r] > 0
    /\ pc[r] \in {"asking", "answered"} => offer[r] \in Model
    /\ pc[r] = "asking" => menu[r] \in DOMAIN Choices

\* The inductive invariant.
IInv ==
    /\ TypeOK
    /\ Unspent
    /\ DialogHasItsRequest
    /\ \A r \in Request : Carries(r)

----------------------------------------------------------------------------
(* Chains *)

\* The model taken from a chain is one of its models.
LEMMA BestType ==
    ASSUME NEW chain \in Seq(Model), chain # <<>>
    PROVE  Best(chain) \in Model
  <1>1. Len(chain) \in DOMAIN chain
    BY EmptySeq
  <1>2. \A i \in DOMAIN chain : chain[i] \in Model
    OBVIOUS
  <1>3. CASE \E i \in DOMAIN chain : FirstAvailable(chain, i)
    <2>1. (CHOOSE i \in DOMAIN chain : FirstAvailable(chain, i)) \in DOMAIN chain
      BY <1>3
    <2> QED
      BY <1>2, <1>3, <2>1 DEF Best
  <1>4. CASE ~ \E i \in DOMAIN chain : FirstAvailable(chain, i)
    BY <1>1, <1>2, <1>4 DEF Best
  <1> QED
    BY <1>3, <1>4

\* The chain of a name is never empty.
LEMMA ChainType ==
    ASSUME NEW m \in Model
    PROVE  ChainFrom(m) \in Seq(Model) /\ ChainFrom(m) # <<>>
  <1>1. CASE Resolve[m] \in Elements(Template)
    <2> DEFINE k == CHOOSE i \in DOMAIN Template : Template[i] = Resolve[m]
    <2>1. k \in DOMAIN Template
      BY <1>1 DEF Elements
    <2>2. k \in 1 .. Len(Template) /\ Template \in Seq(Model)
      BY <2>1, Models
    <2>3. /\ From(k) \in Seq(Model)
          /\ Len(From(k)) = Len(Template) - k + 1
      <3>1. \A i \in k .. Len(Template) : Template[i] \in Model
        BY <2>2
      <3> QED
        BY <2>2, <3>1, SubSeqProperties DEF From
    <2>4. From(k) # <<>>
      BY <2>2, <2>3
    <2> QED
      BY <1>1, <2>3, <2>4 DEF ChainFrom
  <1>2. CASE Resolve[m] \notin Elements(Template)
    <2>1. Resolve[m] \in Model
      BY Models
    <2> QED
      BY <1>2, <2>1 DEF ChainFrom
  <1> QED
    BY <1>1, <1>2

\* So are the candidates behind a failed model, when there are any.
LEMMA CandidatesType ==
    ASSUME NEW chain \in Seq(Model), NEW m
    PROVE  Candidates(chain, m) \in Seq(Model)
  <1>1. CASE HasPolicy(chain, m)
    <2> DEFINE k == CHOOSE i \in DOMAIN chain : chain[i] = m
    <2>1. k \in 1 .. Len(chain)
      BY <1>1 DEF HasPolicy, Elements
    <2>2. \A i \in k + 1 .. Len(chain) : chain[i] \in Model
      BY <2>1
    <2>3. SubSeq(chain, k + 1, Len(chain)) \in Seq(Model)
      BY <2>1, <2>2, SubSeqProperties
    <2> QED
      BY <1>1, <2>3 DEF Candidates
  <1>2. CASE ~HasPolicy(chain, m)
    BY <1>2 DEF Candidates
  <1> QED
    BY <1>1, <1>2

----------------------------------------------------------------------------
(* The availability service *)

\* What every operation of the service keeps.
Healthy == health \in [Model -> Health] /\ retries \in [Model -> Nat] /\ Unspent

LEMMA Marks ==
    ASSUME Healthy, NEW m \in Model,
           \/ MarkHealthy(m)
           \/ MarkTerminal(m)
           \/ MarkRetryOncePerTurn(m)
           \/ ConsumeStickyAttempt(m)
           \/ ResetTurn
           \/ UNCHANGED <<health, retries>>
           \/ SwitchTo(m)
    PROVE  Healthy'
  <1> USE DEF Healthy, Unspent, Health
  <1>1. CASE MarkHealthy(m)
    BY <1>1 DEF MarkHealthy
  <1>2. CASE MarkTerminal(m)
    BY <1>2 DEF MarkTerminal
  <1>3. CASE MarkRetryOncePerTurn(m)
    BY <1>3 DEF MarkRetryOncePerTurn
  <1>4. CASE ConsumeStickyAttempt(m)
    BY <1>4 DEF ConsumeStickyAttempt
  <1>5. CASE ResetTurn
    BY <1>5 DEF ResetTurn
  <1>6. CASE UNCHANGED <<health, retries>>
    BY <1>6
  <1>7. CASE SwitchTo(m)
    BY <1>7 DEF SwitchTo
  <1> QED
    BY <1>1, <1>2, <1>3, <1>4, <1>5, <1>6, <1>7

----------------------------------------------------------------------------
(* The steps *)

\* The rest of the invariant: what is not the health of models.
RestType ==
    /\ active \in Model
    /\ dialog \in Request \cup {None}
    /\ pc \in [Request -> {"idle", "calling", "waiting", "asking", "answered"}]
    /\ current \in [Request -> Model \cup {None}]
    /\ seen \in [Request -> Model \cup {None}]
    /\ attempt \in [Request -> Nat] /\ limit \in [Request -> Nat]
    /\ menu \in [Request -> DOMAIN Choices \cup {None}]
    /\ offer \in [Request -> Model \cup {None}]
    /\ mark \in [Request -> {"terminal", "sticky", None}]
    /\ intent \in [Request -> Intent \cup {None}]

Rest == RestType /\ DialogHasItsRequest /\ \A r \in Request : Carries(r)

LEMMA Parts == IInv <=> Healthy /\ Rest
  BY DEF IInv, Healthy, Rest, RestType, TypeOK

LEMMA PartsAfter == Healthy' /\ Rest' => IInv'
  <1>1. Healthy /\ Rest => IInv
    BY Parts
  <1> QED
    BY <1>1, PTL

LEMMA Initially == Init => IInv
  <1> SUFFICES ASSUME Init PROVE Healthy /\ Rest
    BY Parts
  <1>1. Healthy
    BY DEF Init, Healthy, Unspent, Health
  <1>2. RestType
    BY Models DEF Init, RestType
  <1>3. DialogHasItsRequest
    BY Limits DEF Init, DialogHasItsRequest
  <1>4. \A r \in Request : Carries(r)
    BY DEF Init, Carries
  <1> QED
    BY <1>1, <1>2, <1>3, <1>4 DEF Rest

LEMMA SessionSteps ==
    ASSUME IInv, NEW m \in Picked, SetModel(m) \/ SelectForChat(m) \/ Turn
    PROVE  IInv'
  <1>1. m \in Model /\ Healthy /\ Rest
    BY Models, Parts
  <1>2. Best(ChainFrom(m)) \in Model
    BY <1>1, BestType, ChainType
  <1>3. Healthy'
    BY <1>1, Marks DEF SetModel, SelectForChat, Turn
  <1>4. active' \in Model
    BY <1>1, <1>2 DEF SetModel, SelectForChat, Turn, SwitchTo, Rest, RestType
  <1>5. UNCHANGED <<dialog, pc, attempts, question>>
    BY DEF SetModel, SelectForChat, Turn
  <1>6. Rest'
    BY <1>1, <1>4, <1>5
       DEF Rest, RestType, DialogHasItsRequest, Carries, attempts, question
  <1> QED
    BY <1>3, <1>6, PartsAfter

\* What a step of one request leaves to the others.
Others(r) ==
    \A s \in Request \ {r} :
        /\ pc'[s] = pc[s] /\ current'[s] = current[s]
        /\ attempt'[s] = attempt[s] /\ limit'[s] = limit[s]
        /\ menu'[s] = menu[s] /\ offer'[s] = offer[s]

LEMMA OneCarries ==
    ASSUME Rest, NEW r \in Request, Others(r), Carries(r)'
    PROVE  \A s \in Request : Carries(s)'
  BY DEF Rest, Others, Carries

LEMMA BeginStep ==
    ASSUME IInv, NEW r \in Request, Begin(r)
    PROVE  IInv'
  <1> DEFINE model == Best(ChainFrom(Wanted[r]))
  <1>1. Healthy /\ Rest
    BY Parts
  <1>2. model \in Model
    BY Models, BestType, ChainType
  <1>3. Healthy'
    BY <1>1, <1>2, Marks DEF Begin
  <1>4. limit'[r] > 0 /\ limit' \in [Request -> Nat]
    BY <1>1, Limits DEF Begin, Rest, RestType
  <1>5. RestType'
    BY <1>1, <1>2, <1>4 DEF Begin, Rest, RestType, question
  <1>6. DialogHasItsRequest'
    BY <1>1 DEF Begin, Rest, RestType, DialogHasItsRequest
  <1>7. Carries(r)'
    BY <1>1, <1>2, <1>4 DEF Begin, Rest, RestType, Carries, question
  <1>8. Others(r)
    BY <1>1 DEF Begin, Rest, RestType, Others, question
  <1> QED
    BY <1>1, <1>3, <1>5, <1>6, <1>7, <1>8, OneCarries, PartsAfter DEF Rest

LEMMA CallAgainStep ==
    ASSUME IInv, NEW r \in Request, CallAgain(r)
    PROVE  IInv'
  <1>1. Healthy /\ Rest
    BY Parts
  <1>2. Healthy'
    BY <1>1 DEF CallAgain, session, Healthy, Unspent
  <1>3. RestType'
    BY <1>1 DEF CallAgain, session, question, Rest, RestType
  <1>4. DialogHasItsRequest'
    BY <1>1 DEF CallAgain, session, Rest, RestType, DialogHasItsRequest
  <1>5. Carries(r)'
    BY <1>1 DEF CallAgain, session, question, Rest, RestType, Carries
  <1>6. Others(r)
    BY <1>1 DEF CallAgain, question, Rest, RestType, Others
  <1> QED
    BY <1>1, <1>2, <1>3, <1>4, <1>5, <1>6, OneCarries, PartsAfter DEF Rest

LEMMA EndStep ==
    ASSUME IInv, NEW r \in Request, Succeed(r) \/ Throw(r) \/ Exhausted(r)
    PROVE  IInv'
  <1>1. Healthy /\ Rest
    BY Parts
  <1>2. current[r] \in Model
    BY <1>1 DEF Succeed, Throw, Exhausted, Rest, RestType, Carries
  <1>3. Healthy'
    <2>1. MarkHealthy(current[r]) \/ UNCHANGED <<health, retries>>
      BY DEF Succeed, Throw, Exhausted, session
    <2> QED
      BY <1>1, <1>2, <2>1, Marks
  <1>4. /\ pc[r] \in {"calling", "waiting"} /\ End(r)
        /\ UNCHANGED <<active, dialog, menu, offer, mark, intent>>
    BY DEF Succeed, Throw, Exhausted, session, question
  <1>5. RestType'
    BY <1>1, <1>4 DEF End, Rest, RestType
  <1>6. DialogHasItsRequest'
    BY <1>1, <1>4 DEF End, Rest, RestType, DialogHasItsRequest
  <1>7. Carries(r)'
    BY <1>1, <1>4 DEF End, Rest, RestType, Carries
  <1>8. Others(r)
    BY <1>1, <1>4 DEF End, Rest, RestType, Others
  <1> QED
    BY <1>1, <1>3, <1>5, <1>6, <1>7, <1>8, OneCarries, PartsAfter DEF Rest

\* A failed attempt and one without content lead to the same wait.
LEMMA BackOffStep ==
    ASSUME IInv, NEW r \in Request, BackOff(r) \/ Empty(r)
    PROVE  IInv'
  <1> DEFINE Waits == /\ pc[r] = "calling"
                      /\ pc' = [pc EXCEPT ![r] = "waiting"]
                      /\ UNCHANGED <<session, attempts, question>>
  <1>1. Healthy /\ Rest /\ Waits
    BY Parts DEF BackOff, Empty
  <1>2. Healthy'
    BY <1>1 DEF session, Healthy, Unspent
  <1>3. RestType'
    BY <1>1 DEF session, attempts, question, Rest, RestType
  <1>4. DialogHasItsRequest'
    BY <1>1 DEF session, Rest, RestType, DialogHasItsRequest
  <1>5. Carries(r)'
    BY <1>1 DEF attempts, question, Rest, RestType, Carries
  <1>6. Others(r)
    BY <1>1 DEF attempts, question, Rest, RestType, Others
  <1> QED
    BY <1>1, <1>2, <1>3, <1>4, <1>5, <1>6, OneCarries, PartsAfter DEF Rest

LEMMA AnswerStep ==
    ASSUME IInv, NEW r \in Request, NEW choice \in Intent, Answer(r, choice)
    PROVE  IInv'
  <1>1. Healthy /\ Rest
    BY Parts
  <1>2. Healthy'
    BY <1>1 DEF Answer, Healthy, Unspent
  <1>3. RestType'
    BY <1>1 DEF Answer, attempts, Rest, RestType
  <1>4. DialogHasItsRequest'
    <2>1. \A s \in Request \ {r} : pc[s] # "asking" /\ pc'[s] = pc[s]
      BY <1>1 DEF Answer, Rest, RestType, DialogHasItsRequest
    <2>2. pc'[r] = "answered" /\ dialog' = None /\ None \notin Request
      BY <1>1, Limits DEF Answer, Rest, RestType
    <2> QED
      BY <2>1, <2>2 DEF DialogHasItsRequest
  <1>5. Carries(r)'
    BY <1>1 DEF Answer, attempts, Rest, RestType, Carries
  <1>6. Others(r)
    BY <1>1 DEF Answer, attempts, Rest, RestType, Others
  <1> QED
    BY <1>1, <1>2, <1>3, <1>4, <1>5, <1>6, OneCarries, PartsAfter DEF Rest

\* After an answer the request starts over or ends; its question is dropped.
LEMMA ResumeStep ==
    ASSUME IInv, NEW r \in Request, Resume(r)
    PROVE  IInv'
  <1>1. Healthy /\ Rest
    BY Parts
  <1>2. offer[r] \in Model /\ current[r] \in Model /\ pc[r] = "answered"
    BY <1>1 DEF Resume, Rest, RestType, Carries
  <1>3. Healthy'
    <2>1. CASE intent[r] = "retry_always"
      BY <1>1, <1>2, <2>1, Marks DEF Resume
    <2>2. CASE intent[r] = "retry_once"
      BY <1>1, <1>2, <2>2, Marks DEF Resume, Transition
    <2>3. CASE intent[r] = "stop"
      BY <1>1, <1>2, <2>3, Marks DEF Resume
    <2> QED
      BY <2>1, <2>2, <2>3 DEF Resume
  <1>4. /\ StartOver(r) \/ End(r)
        /\ active' \in Model
        /\ UNCHANGED <<dialog, menu>>
        /\ offer' = [offer EXCEPT ![r] = None]
        /\ mark' = [mark EXCEPT ![r] = None]
        /\ intent' = [intent EXCEPT ![r] = None]
    BY <1>1, <1>2 DEF Resume, SwitchTo, Rest, RestType
  <1>5. RestType'
    BY <1>1, <1>4 DEF StartOver, End, Rest, RestType
  <1>6. DialogHasItsRequest'
    BY <1>1, <1>2, <1>4 DEF StartOver, End, Rest, RestType, DialogHasItsRequest
  <1>7. Carries(r)'
    BY <1>1, <1>2, <1>4 DEF StartOver, End, Rest, RestType, Carries
  <1>8. Others(r)
    BY <1>1, <1>4 DEF StartOver, End, Rest, RestType, Others
  <1> QED
    BY <1>1, <1>3, <1>5, <1>6, <1>7, <1>8, OneCarries, PartsAfter DEF Rest

\* A persistent failure: a silent switch, or a question that is answered at
\* once or shown.
LEMMA FailStep ==
    ASSUME IInv, NEW r \in Request, NEW kind \in Kind, Fail(r, kind)
    PROVE  IInv'
  <1> DEFINE chain  == ChainFrom(active)
             behind == Candidates(chain, current[r])
             model  == IF behind = <<>> THEN current[r] ELSE Best(behind)
             how    == MarkFor(chain, current[r], kind)
  <1>1. Healthy /\ Rest
    BY Parts
  <1>2. current[r] \in Model /\ pc[r] = "calling" /\ active \in Model
    BY <1>1 DEF Fail, Rest, RestType, Carries
  <1>3. model \in Model
    BY <1>2, ChainType, CandidatesType, BestType
  <1>4. how \in {"terminal", "sticky", None}
    BY DEF MarkFor
  <1>5. Fallback(r, kind, model, how)
    BY DEF Fail
  <1> HIDE DEF chain, behind, model, how
  <1>6. CASE /\ SwitchTo(model) /\ StartOver(r)
             /\ UNCHANGED <<dialog, question>>
    <2>1. Healthy'
      BY <1>1, <1>3, <1>6, Marks
    <2>2. RestType'
      BY <1>1, <1>3, <1>6 DEF SwitchTo, StartOver, question, Rest, RestType
    <2>3. DialogHasItsRequest'
      BY <1>1, <1>2, <1>6 DEF StartOver, Rest, RestType, DialogHasItsRequest
    <2>4. Carries(r)'
      BY <1>1, <1>2, <1>6 DEF StartOver, question, Rest, RestType, Carries
    <2>5. Others(r)
      BY <1>1, <1>6 DEF StartOver, question, Rest, RestType, Others
    <2> QED
      BY <1>1, <2>1, <2>2, <2>3, <2>4, <2>5, OneCarries, PartsAfter DEF Rest
  <1>7. CASE /\ offer' = [offer EXCEPT ![r] = model]
             /\ mark' = [mark EXCEPT ![r] = how]
             /\ Ask(r, kind, model)
             /\ UNCHANGED <<active, health, retries, attempts>>
    <2>1. Healthy'
      BY <1>1, <1>7 DEF Healthy, Unspent
    <2>2. CASE \E choice \in Intent : Decided(r, choice) /\ UNCHANGED dialog
      <3>1. PICK choice \in Intent : Decided(r, choice) /\ UNCHANGED dialog
        BY <2>2
      <3>2. RestType'
        BY <1>1, <1>3, <1>4, <1>7, <3>1 DEF Decided, attempts, Rest, RestType
      <3>3. DialogHasItsRequest'
        BY <1>1, <1>2, <3>1 DEF Decided, Rest, RestType, DialogHasItsRequest
      <3>4. Carries(r)'
        BY <1>1, <1>2, <1>3, <1>7, <3>1 DEF Decided, attempts, Rest, RestType, Carries
      <3>5. Others(r)
        BY <1>1, <1>7, <3>1 DEF Decided, attempts, Rest, RestType, Others
      <3> QED
        BY <1>1, <2>1, <3>2, <3>3, <3>4, <3>5, OneCarries, PartsAfter DEF Rest
    <2>3. CASE /\ dialog = None /\ dialog' = r
               /\ \E shown \in DOMAIN Choices : menu' = [menu EXCEPT ![r] = shown]
               /\ pc' = [pc EXCEPT ![r] = "asking"]
               /\ UNCHANGED intent
      <3>1. PICK shown \in DOMAIN Choices : menu' = [menu EXCEPT ![r] = shown]
        BY <2>3
      <3>2. RestType'
        BY <1>1, <1>3, <1>4, <1>7, <2>3, <3>1 DEF attempts, Rest, RestType
      <3>3. DialogHasItsRequest'
        <4>1. \A s \in Request : pc[s] # "asking"
          BY <1>1, <2>3, Limits DEF Rest, DialogHasItsRequest
        <4> QED
          BY <1>1, <2>3, <4>1 DEF Rest, RestType, DialogHasItsRequest
      <3>4. Carries(r)'
        BY <1>1, <1>2, <1>3, <1>7, <2>3, <3>1 DEF attempts, Rest, RestType, Carries
      <3>5. Others(r)
        BY <1>1, <1>7, <2>3, <3>1 DEF attempts, Rest, RestType, Others
      <3> QED
        BY <1>1, <2>1, <3>2, <3>3, <3>4, <3>5, OneCarries, PartsAfter DEF Rest
    <2>4. {"same", "exhausted", "busy"} \subseteq DOMAIN Choices
      BY DEF Choices
    <2> QED
      BY <1>7, <2>2, <2>3, <2>4 DEF Ask, Intent
  <1> QED
    BY <1>5, <1>6, <1>7 DEF Fallback

\* Every step keeps the invariant.
LEMMA Steps == IInv /\ [Next]_vars => IInv'
  <1> SUFFICES ASSUME IInv, [Next]_vars PROVE IInv'
    OBVIOUS
  <1>1. CASE \E m \in Picked : SetModel(m) \/ SelectForChat(m)
    BY <1>1, SessionSteps
  <1>2. CASE Turn
    BY <1>2, SessionSteps, Models
  <1>3. CASE \E r \in Request : Step(r)
    <2>1. PICK r \in Request : Step(r)
      BY <1>3
    <2>2. CASE \E kind \in Kind : Fail(r, kind)
      BY <2>2, FailStep
    <2>3. CASE \E choice \in Intent : Answer(r, choice)
      BY <2>3, AnswerStep
    <2>4. CASE \/ Begin(r) \/ CallAgain(r) \/ Succeed(r) \/ BackOff(r)
               \/ Empty(r) \/ Exhausted(r) \/ Throw(r) \/ Resume(r)
      BY <2>4, BeginStep, CallAgainStep, EndStep, BackOffStep, ResumeStep
    <2> QED
      BY <2>1, <2>2, <2>3, <2>4 DEF Step
  <1>4. CASE UNCHANGED vars
    <2>1. Healthy /\ Rest
      BY Parts
    <2>2. Healthy' /\ Rest'
      BY <1>4, <2>1 DEF vars, session, attempts, question, Healthy, Unspent,
         Rest, RestType, DialogHasItsRequest, Carries
    <2> QED
      BY <2>2, PartsAfter
  <1> QED
    BY <1>1, <1>2, <1>3, <1>4 DEF Next

----------------------------------------------------------------------------
(* The theorems *)

\* The invariant holds of every reachable state.
THEOREM Inductive == Spec => []IInv
  BY Initially, Steps, PTL DEF Spec

\* Every variable keeps its type.
THEOREM TypeCorrect == Spec => []TypeOK
  <1>1. IInv => TypeOK
    BY DEF IInv
  <1> QED
    BY <1>1, Inductive, PTL

\* However many requests fail together, the dialog on screen answers the one
\* request that waits for it, and no other request waits.
THEOREM OneDialog == Spec => []DialogHasItsRequest
  <1>1. IInv => DialogHasItsRequest
    BY DEF IInv
  <1> QED
    BY <1>1, Inductive, PTL

\* In a turn a model is given to one request as its retry, whatever the number
\* of requests that fail on it.
THEOREM RetriesOnce == Spec => []OneRetryPerTurn
  <1>1. IInv => OneRetryPerTurn
    <2>1. ASSUME IInv, NEW m \in Model PROVE retries[m] <= 1
      <3>1. retries[m] = 0 \/ retries[m] = 1
        BY <2>1 DEF IInv, Unspent
      <3> QED
        BY <3>1
    <2> QED
      BY <2>1 DEF OneRetryPerTurn
  <1> QED
    BY <1>1, Inductive, PTL

\* A request keeps to the attempts it was given, answers without content and
\* starts over included.
THEOREM KeepsToAttempts == Spec => []AttemptsInBounds
  <1>1. IInv => AttemptsInBounds
    BY DEF IInv, Carries, AttemptsInBounds
  <1> QED
    BY <1>1, Inductive, PTL

\* What may become of a terminal model in a step.
Softened(m) == health[m] = "terminal" /\ health'[m] # "terminal"
Excused(m) ==
    \/ \A n \in Model : health'[n] = "healthy"
    \/ \E r \in Request : /\ pc[r] = "calling" /\ current[r] = m
                          /\ pc'[r] = "idle" /\ health'[m] = "healthy"

LEMMA QuietMarks ==
    ASSUME health \in [Model -> Health], NEW m \in Model, NEW n \in Model,
           \/ MarkTerminal(n)
           \/ MarkRetryOncePerTurn(n)
           \/ ConsumeStickyAttempt(n)
           \/ ResetTurn
           \/ UNCHANGED health
    PROVE  ~Softened(m)
  BY DEF MarkTerminal, MarkRetryOncePerTurn, ConsumeStickyAttempt, ResetTurn, Softened

LEMMA SwitchExcuses ==
    ASSUME NEW n \in Model, SwitchTo(n), NEW m \in Model
    PROVE  Excused(m)
  BY DEF SwitchTo, Excused

\* An answer to a request makes healthy the model it was calling, no other.
LEMMA SuccessExcuses ==
    ASSUME IInv, NEW r \in Request, Succeed(r), NEW m \in Model, Softened(m)
    PROVE  Excused(m)
  <1>1. Healthy /\ Rest
    BY Parts
  <1>2. current[r] \in Model /\ pc[r] = "calling" /\ pc'[r] = "idle"
    BY <1>1 DEF Succeed, End, Rest, RestType, Carries
  <1>3. MarkHealthy(current[r]) \/ UNCHANGED health
    BY DEF Succeed
  <1>4. current[r] = m /\ health'[m] = "healthy"
    BY <1>1, <1>2, <1>3 DEF MarkHealthy, Softened, Healthy
  <1> QED
    BY <1>2, <1>4 DEF Excused

\* A question that is answered late marks its model by what it is by then.
LEMMA ResumeExcuses ==
    ASSUME IInv, NEW r \in Request, Resume(r), NEW m \in Model, Softened(m)
    PROVE  Excused(m)
  <1>1. Healthy /\ Rest
    BY Parts
  <1>2. offer[r] \in Model /\ current[r] \in Model
    BY <1>1 DEF Resume, Rest, RestType, Carries
  <1>3. CASE intent[r] = "retry_always"
    BY <1>2, <1>3, SwitchExcuses DEF Resume
  <1>4. CASE intent[r] = "retry_once"
    BY <1>1, <1>2, <1>4, QuietMarks DEF Resume, Transition, Healthy
  <1>5. CASE intent[r] = "stop"
    BY <1>1, <1>2, <1>5, QuietMarks DEF Resume, Healthy
  <1> QED
    BY <1>3, <1>4, <1>5 DEF Resume

\* A terminal failure stays until the model answers or a model is set.
THEOREM TerminalIsKept == Spec => TerminalStays
  <1>1. ASSUME IInv, [Next]_vars, NEW m \in Model, Softened(m)
        PROVE  Excused(m)
    <2>1. Healthy /\ Rest
      BY <1>1, Parts
    <2>2. health \in [Model -> Health]
      BY <2>1 DEF Healthy
    <2>3. CASE \E n \in Picked : SetModel(n) \/ SelectForChat(n)
      BY <1>1, <2>2, <2>3, Models, SwitchExcuses, QuietMarks DEF SetModel, SelectForChat
    <2>4. CASE Turn \/ UNCHANGED vars
      BY <1>1, <2>2, <2>4, QuietMarks DEF Turn, vars, session
    <2>5. CASE \E r \in Request : Step(r)
      <3>1. PICK r \in Request : Step(r)
        BY <2>5
      <3>2. CASE Succeed(r)
        BY <1>1, <3>2, SuccessExcuses
      <3>3. CASE Resume(r)
        BY <1>1, <3>3, ResumeExcuses
      <3>4. CASE Begin(r)
        <4>1. Best(ChainFrom(Wanted[r])) \in Model
          BY Models, BestType, ChainType
        <4> QED
          BY <1>1, <2>2, <3>4, <4>1, QuietMarks DEF Begin
      <3>5. CASE \E kind \in Kind : Fail(r, kind)
        <4>1. PICK kind \in Kind : Fail(r, kind)
          BY <3>5
        <4>2. current[r] \in Model /\ active \in Model
          BY <2>1, <4>1 DEF Fail, Rest, RestType, Carries
        <4> DEFINE behind == Candidates(ChainFrom(active), current[r])
                   model  == IF behind = <<>> THEN current[r] ELSE Best(behind)
        <4>3. model \in Model
          BY <4>2, ChainType, CandidatesType, BestType
        <4>4. Fallback(r, kind, model, MarkFor(ChainFrom(active), current[r], kind))
          BY <4>1 DEF Fail
        <4>5. SwitchTo(model) \/ UNCHANGED health
          BY <4>4 DEF Fallback
        <4> QED
          BY <1>1, <2>2, <4>3, <4>5, SwitchExcuses, QuietMarks
      <3>6. CASE \/ CallAgain(r) \/ BackOff(r) \/ Throw(r)
                 \/ Empty(r) \/ Exhausted(r)
                 \/ \E choice \in Intent : Answer(r, choice)
        <4>1. UNCHANGED health
          BY <3>6 DEF CallAgain, BackOff, Empty, Exhausted, Throw, Answer, session
        <4> QED
          BY <1>1, <2>2, <4>1, QuietMarks
      <3> QED
        BY <3>1, <3>2, <3>3, <3>4, <3>5, <3>6 DEF Step
    <2> QED
      BY <1>1, <2>3, <2>4, <2>5 DEF Next
  <1>2. IInv /\ [Next]_vars =>
          [\A m \in Model :
             health[m] = "terminal" /\ health'[m] # "terminal" =>
               \/ \A n \in Model : health'[n] = "healthy"
               \/ \E r \in Request : /\ pc[r] = "calling" /\ current[r] = m
                                     /\ pc'[r] = "idle" /\ health'[m] = "healthy"]_vars
    BY <1>1 DEF Softened, Excused
  <1> QED
    BY <1>2, Inductive, PTL DEF Spec, TerminalStays

=============================================================================
