--------------------------- MODULE ModelFallback ---------------------------
(***************************************************************************)
(* Which model answers a request, and what happens when it does not.       *)
(*                                                                         *)
(* Requests of tools and of background services (web search, compression,  *)
(* summaries) run at the same time.  Each selects a model through the      *)
(* availability service, calls it in the loop of retryWithBackoff, and,    *)
(* when the failure is persistent, goes through handleFallback: a silent   *)
(* switch, or a question to the user for which there is one dialog.  They  *)
(* share the health of the models, the active model and the dialog.        *)
(*                                                                         *)
(* An await is where other requests may run, so what a request read before *)
(* its question was put may be stale when the answer comes: its offer and  *)
(* its mark are kept from then.  Delays, error texts, telemetry and the    *)
(* configuration a model is called with are left out.  The session is      *)
(* interactive, so the fallback handler of the UI is installed.            *)
(***************************************************************************)
EXTENDS Naturals, Sequences

CONSTANTS
    Model,         \* names of models: display names, aliases, internal ids
    Picked,        \* the names the user picks and the router names
    Resolve,       \* resolveModel: the internal id a name stands for
    Template,      \* the models of the policy chain, the last resort last
    Sticky,        \* <<model, kind>>: the policy says "sticky_retry"
    Silent,        \* <<model, kind>>: the policy says "silent"
    Request,
    Wanted,        \* the name that each request's model configuration gives
    MaxAttempts,
    Verbosity,     \* the values ui.errorVerbosity takes in the session
    None

\* What classifyFailureKind makes of an error that is not simply retried.
Lasting  == {"terminal", "not_found"}
Passing  == {"transient", "unknown"}
Kind     == Lasting \cup Passing

Elements(s) == {s[i] : i \in DOMAIN s}

ASSUME Models ==
    /\ Picked \subseteq Model /\ Picked # {}
    /\ Wanted \in [Request -> Model]
    /\ Resolve \in [Model -> Model]
    /\ Template \in Seq(Model)
    /\ \A i, j \in DOMAIN Template : Template[i] = Template[j] => i = j

ASSUME Limits ==
    /\ MaxAttempts \in Nat \ {0}
    /\ Verbosity \subseteq {"low", "full"}
    /\ None \notin Model \cup Request

VARIABLES
    active,        \* config.getActiveModel()
    health,        \* the availability service, per model
    retries,       \* history: requests admitted to a model as its one retry of
                   \* the turn, since it last was healthy
    dialog,        \* the request that the dialog on screen will answer
    pc, current, seen, attempt, limit,
                   \* per request: where it is, the model it calls, the active
                   \* model it last saw, its attempts and how many it has
    menu, offer, mark, intent
                   \* of a request that asks: the choices shown, the model
                   \* offered, what the failed model will be marked as, and
                   \* the answer

session == <<active, health, retries, dialog>>
attempts == <<current, seen, attempt, limit>>
question == <<menu, offer, mark, intent>>
vars == <<session, pc, attempts, question>>

Health == {"healthy", "terminal", "sticky", "spent"}
\* What each dialog offers.  To stop, to try later and to upgrade are all to
\* refuse: the request ends.
Choices ==
    [same      |-> {"retry_once", "stop"},
     exhausted |-> {"retry_always", "stop"},
     busy      |-> {"retry_once", "retry_always", "stop"}]
Intent == {"retry_once", "retry_always", "stop"}

Init ==
    /\ active \in Picked
    /\ health = [m \in Model |-> "healthy"]
    /\ retries = [m \in Model |-> 0]
    /\ dialog = None
    /\ pc = [r \in Request |-> "idle"]
    /\ current = [r \in Request |-> None]
    /\ seen = [r \in Request |-> None]
    /\ attempt = [r \in Request |-> 0]
    /\ limit = [r \in Request |-> 0]
    /\ menu = [r \in Request |-> None]
    /\ offer = [r \in Request |-> None]
    /\ mark = [r \in Request |-> None]
    /\ intent = [r \in Request |-> None]

----------------------------------------------------------------------------
(* Chains of models *)

From(i) == SubSeq(Template, i, Len(Template))

\* The chain of a name starts at the model the name stands for; a model that
\* is not of the template is its own last resort.
ChainFrom(m) ==
    IF Resolve[m] \in Elements(Template)
    THEN From(CHOOSE i \in DOMAIN Template : Template[i] = Resolve[m])
    ELSE <<Resolve[m]>>

HasPolicy(chain, m) == m \in Elements(chain)

\* The models to fall back to: those behind the failed one, all of a chain it
\* is not of.
Candidates(chain, m) ==
    IF HasPolicy(chain, m)
    THEN SubSeq(chain, (CHOOSE i \in DOMAIN chain : chain[i] = m) + 1, Len(chain))
    ELSE chain

Available(m) == health[m] \in {"healthy", "sticky"}

FirstAvailable(chain, i) ==
    Available(chain[i]) /\ \A j \in 1 .. i - 1 : ~Available(chain[j])

\* The first model of a chain that is available, else the last resort.
Best(chain) ==
    IF \E i \in DOMAIN chain : FirstAvailable(chain, i)
    THEN chain[CHOOSE i \in DOMAIN chain : FirstAvailable(chain, i)]
    ELSE chain[Len(chain)]

----------------------------------------------------------------------------
(* The availability service *)

MarkHealthy(m) ==
    /\ health' = [health EXCEPT ![m] = "healthy"]
    /\ retries' = [retries EXCEPT ![m] = 0]

MarkTerminal(m) ==
    /\ health' = [health EXCEPT ![m] = "terminal"]
    /\ UNCHANGED retries

\* Bug: A further failure gives the used retry back.
BugMarkRetryAgain(m) ==
    /\ health' = [health EXCEPT ![m] = IF @ = "terminal" THEN @ ELSE "sticky"]
    /\ UNCHANGED retries

\* Bug: A transient failure overrides a terminal one.
BugMarkRetryAnyway(m) ==
    /\ health' = [health EXCEPT ![m] = IF @ = "spent" THEN @ ELSE "sticky"]
    /\ UNCHANGED retries

\* A terminal failure is not softened, and a retry that was used stays used.
MarkRetryOncePerTurn(m) ==
    /\ health' = [health EXCEPT ![m] = IF @ = "healthy" THEN "sticky" ELSE @]
    /\ UNCHANGED retries

ConsumeStickyAttempt(m) ==
    /\ health' = [health EXCEPT ![m] = IF @ = "sticky" THEN "spent" ELSE @]
    /\ retries' = [retries EXCEPT ![m] = IF health[m] = "sticky" THEN @ + 1 ELSE @]

ResetTurn ==
    /\ health' = [m \in Model |-> IF health[m] = "spent" THEN "sticky" ELSE health[m]]
    /\ retries' = [m \in Model |-> 0]

Transition(m, how) ==
    \/ how = "terminal" /\ MarkTerminal(m)
    \/ how = "sticky" /\ MarkRetryOncePerTurn(m)
    \/ how = None /\ UNCHANGED <<health, retries>>

\* Config.setModel: whoever sets a model forgets all that was known of them,
\* the mark that a failure on this very step made included.
SwitchTo(m) ==
    /\ active' = m
    /\ health' = [n \in Model |-> "healthy"]
    /\ retries' = [n \in Model |-> 0]

----------------------------------------------------------------------------
(* The session around the requests *)

\* The user picks a model; a dialog on screen takes the keys.
SetModel(m) ==
    /\ dialog = None
    /\ SwitchTo(m)
    /\ UNCHANGED <<dialog, pc, attempts, question>>

\* A message is sent: a new query of the user, or the loop going on.
Turn ==
    /\ ResetTurn
    /\ UNCHANGED <<active, dialog, pc, attempts, question>>

\* The selection for the chat makes its model the active one and leaves the
\* one retry of the turn to the request itself.
SelectForChat(m) ==
    /\ active' = Best(ChainFrom(m))
    /\ UNCHANGED <<health, retries, dialog,
                   pc, attempts, question>>

----------------------------------------------------------------------------
(* A request *)

\* applyModelSelection and the first attempt, in one go.
Begin(r) ==
    /\ pc[r] = "idle"
    /\ LET model == Best(ChainFrom(Wanted[r])) IN
         /\ current' = [current EXCEPT ![r] = model]
         /\ limit' = [limit EXCEPT ![r] = IF health[model] = "sticky" THEN 1 ELSE MaxAttempts]
         /\ ConsumeStickyAttempt(model)
    /\ seen' = [seen EXCEPT ![r] = active]
    /\ attempt' = [attempt EXCEPT ![r] = 1]
    /\ pc' = [pc EXCEPT ![r] = "calling"]
    /\ UNCHANGED <<active, dialog, question>>

\* Bug: The loop's bound off by one.
BugCallAgain(r) ==
    /\ pc[r] = "waiting"
    /\ attempt[r] <= limit[r]
    /\ attempt' = [attempt EXCEPT ![r] = @ + 1]
    /\ pc' = [pc EXCEPT ![r] = "calling"]
    /\ UNCHANGED <<session, current, seen, limit, question>>

\* A further attempt, of the active model where that has changed.
CallAgain(r) ==
    /\ pc[r] = "waiting"
    /\ attempt[r] < limit[r]
    /\ current' = [current EXCEPT ![r] = IF active # seen[r] THEN active ELSE @]
    /\ seen' = [seen EXCEPT ![r] = active]
    /\ attempt' = [attempt EXCEPT ![r] = @ + 1]
    /\ pc' = [pc EXCEPT ![r] = "calling"]
    /\ UNCHANGED <<session, limit, question>>

End(r) ==
    /\ pc' = [pc EXCEPT ![r] = "idle"]
    /\ current' = [current EXCEPT ![r] = None]
    /\ seen' = [seen EXCEPT ![r] = None]
    /\ attempt' = [attempt EXCEPT ![r] = 0]
    /\ limit' = [limit EXCEPT ![r] = 0]

StartOver(r) ==
    /\ pc' = [pc EXCEPT ![r] = "waiting"]
    /\ attempt' = [attempt EXCEPT ![r] = 0]
    /\ UNCHANGED <<current, seen, limit>>

\* The model that answered is healthy, if a chain of its own name has a policy
\* for it, which an internal id outside the template has not.
Succeed(r) ==
    /\ pc[r] = "calling"
    /\ IF HasPolicy(ChainFrom(current[r]), current[r])
       THEN MarkHealthy(current[r])
       ELSE UNCHANGED <<health, retries>>
    /\ End(r)
    /\ UNCHANGED <<active, dialog, question>>

\* A failure that is retried, with attempts left.
BackOff(r) ==
    /\ pc[r] = "calling"
    /\ attempt[r] < limit[r]
    /\ pc' = [pc EXCEPT ![r] = "waiting"]
    /\ UNCHANGED <<session, attempts, question>>

\* An answer without content is waited after too, whatever attempts are left.
Empty(r) ==
    /\ pc[r] = "calling"
    /\ pc' = [pc EXCEPT ![r] = "waiting"]
    /\ UNCHANGED <<session, attempts, question>>

\* So the last attempt's is: then the loop is over, with an error that marks no
\* model and asks for no fallback.
Exhausted(r) ==
    /\ pc[r] = "waiting"
    /\ attempt[r] >= limit[r]
    /\ End(r)
    /\ UNCHANGED <<session, question>>

\* An error that is not retried, or that is at the last attempt, is thrown.
Throw(r) ==
    /\ pc[r] = "calling"
    /\ End(r)
    /\ UNCHANGED <<session, question>>

\* Bug: The kind of failure taken for the state it leads to.
BugMarkFor(chain, m, kind) ==
    IF HasPolicy(chain, m) THEN kind ELSE None

MarkFor(chain, m, kind) ==
    IF ~HasPolicy(chain, m) THEN None
    ELSE IF <<m, kind>> \in Sticky THEN "sticky" ELSE "terminal"

Decided(r, choice) ==
    /\ intent' = [intent EXCEPT ![r] = choice]
    /\ pc' = [pc EXCEPT ![r] = "answered"]
    /\ UNCHANGED menu

\* Bug: The pending flag not looked at: the newer dialog replaces the older.
BugAsk(r, kind, model) ==
    \/ /\ "low" \in Verbosity /\ kind \in Passing
       /\ Decided(r, "retry_once")
       /\ UNCHANGED dialog
    \/ /\ "full" \in Verbosity \/ kind \in Lasting
       /\ dialog' = r
       /\ menu' = [menu EXCEPT ![r] = IF model = current[r] THEN "same" ELSE "busy"]
       /\ pc' = [pc EXCEPT ![r] = "asking"]
       /\ UNCHANGED intent

\* The handler of the UI: no question about a busy model when errors are to be
\* kept from the user, none while the dialog is taken, else the dialog.
Ask(r, kind, model) ==
    \/ /\ "low" \in Verbosity /\ kind \in Passing
       /\ Decided(r, "retry_once")
       /\ UNCHANGED dialog
    \/ /\ "full" \in Verbosity \/ kind \in Lasting
       /\ \/ /\ dialog # None
             /\ Decided(r, "stop")
             /\ UNCHANGED dialog
          \/ /\ dialog = None
             /\ dialog' = r
             /\ menu' = [menu EXCEPT ![r] =
                    IF model = current[r] THEN "same"
                    ELSE IF kind \in Lasting THEN "exhausted" ELSE "busy"]
             /\ pc' = [pc EXCEPT ![r] = "asking"]
             /\ UNCHANGED intent

\* handleFallback.  The chain is that of the active model, whichever model it
\* was that failed.
Fallback(r, kind, model, how) ==
    IF model # current[r] /\ <<model, kind>> \in Silent
    THEN /\ SwitchTo(model)
         /\ StartOver(r)
         /\ UNCHANGED <<dialog, question>>
    ELSE /\ offer' = [offer EXCEPT ![r] = model]
         /\ mark' = [mark EXCEPT ![r] = how]
         /\ Ask(r, kind, model)
         /\ UNCHANGED <<active, health, retries, attempts>>

Fail(r, kind) ==
    /\ pc[r] = "calling"
    /\ kind \in Lasting \/ attempt[r] >= limit[r]
    /\ LET chain  == ChainFrom(active)
           behind == Candidates(chain, current[r])
       IN  Fallback(r, kind,
                    IF behind = <<>> THEN current[r] ELSE Best(behind),
                    MarkFor(chain, current[r], kind))

\* The user chooses: the dialog is free at once, the request hears of it later.
Answer(r, choice) ==
    /\ pc[r] = "asking" /\ dialog = r
    /\ choice \in Choices[menu[r]]
    /\ dialog' = None
    /\ intent' = [intent EXCEPT ![r] = choice]
    /\ menu' = [menu EXCEPT ![r] = None]
    /\ pc' = [pc EXCEPT ![r] = "answered"]
    /\ UNCHANGED <<active, health, retries, attempts, offer, mark>>

\* Back in handleFallback with the answer: the mark, then the switch.
Resume(r) ==
    /\ pc[r] = "answered"
    /\ \/ /\ intent[r] = "retry_always"
          /\ SwitchTo(offer[r])
          /\ StartOver(r)
       \/ /\ intent[r] = "retry_once"
          /\ Transition(current[r], mark[r])
          /\ StartOver(r)
          /\ UNCHANGED active
       \/ /\ intent[r] = "stop"
          /\ End(r)
          /\ UNCHANGED <<active, health, retries>>
    /\ offer' = [offer EXCEPT ![r] = None]
    /\ mark' = [mark EXCEPT ![r] = None]
    /\ intent' = [intent EXCEPT ![r] = None]
    /\ UNCHANGED <<dialog, menu>>

Step(r) ==
    \/ Begin(r)
    \/ CallAgain(r)
    \/ Succeed(r)
    \/ BackOff(r)
    \/ Empty(r)
    \/ Exhausted(r)
    \/ Throw(r)
    \/ \E kind \in Kind : Fail(r, kind)
    \/ \E choice \in Intent : Answer(r, choice)
    \/ Resume(r)

Next ==
    \/ \E m \in Picked : SetModel(m) \/ SelectForChat(m)
    \/ Turn
    \/ \E r \in Request : Step(r)

Spec == Init /\ [][Next]_vars

\* Timers fire and awaited answers are taken; the user answers a dialog; and a
\* model that is called again and again in the end answers.
Fairness ==
    \A r \in Request :
        /\ WF_vars(CallAgain(r))
        /\ WF_vars(Exhausted(r))
        /\ WF_vars(\E choice \in Intent : Answer(r, choice))
        /\ WF_vars(Resume(r))
        /\ SF_vars(Succeed(r))

FairSpec == Spec /\ Fairness

----------------------------------------------------------------------------
(* What is expected of it *)

\* The types of the variables.
TypeOK ==
    /\ active \in Model
    /\ health \in [Model -> Health]
    /\ retries \in [Model -> Nat]
    /\ dialog \in Request \cup {None}
    /\ pc \in [Request -> {"idle", "calling", "waiting", "asking", "answered"}]
    /\ current \in [Request -> Model \cup {None}]
    /\ seen \in [Request -> Model \cup {None}]
    /\ attempt \in [Request -> Nat] /\ limit \in [Request -> Nat]
    /\ menu \in [Request -> DOMAIN Choices \cup {None}]
    /\ offer \in [Request -> Model \cup {None}]
    /\ mark \in [Request -> {"terminal", "sticky", None}]
    /\ intent \in [Request -> Intent \cup {None}]

\* The one dialog (useQuotaAndFallback) answers the request that waits for it:
\* no request waits for an answer that another's question has displaced.
DialogHasItsRequest ==
    \A r \in Request : pc[r] = "asking" <=> dialog = r

\* The service's promise of retry_once_per_turn: since a model last was
\* healthy, at most one request of the turn has been admitted to it as a
\* retry by applyModelSelection, however many requests fail on it at the same
\* time.  A request that starts over on the model it was calling is not
\* admitted again, and not counted.
OneRetryPerTurn ==
    \A m \in Model : retries[m] <= 1

\* retryWithBackoff makes no attempt beyond those it was given, the single one
\* of a sticky model included, though it also waits after a last answer without
\* content, and starts over after a fallback.
AttemptsInBounds ==
    \A r \in Request : attempt[r] <= limit[r]

\* "Do not override a terminal failure with a transient one": a model that is
\* out of quota becomes usable only by an answer of its own, to a request that
\* was calling it, or when a model is set; a question answered late, whose
\* mark dates from before the failure, does not soften it.
TerminalStays ==
    [][\A m \in Model :
        health[m] = "terminal" /\ health'[m] # "terminal" =>
            \/ \A n \in Model : health'[n] = "healthy"
            \/ \E r \in Request : /\ pc[r] = "calling" /\ current[r] = m
                                  /\ pc'[r] = "idle" /\ health'[m] = "healthy"]_vars

\* Every request ends, in a result or an error, whatever the others do
\* meanwhile: no question is put to a user who will not see it.
RequestsEnd ==
    \A r \in Request : pc[r] # "idle" ~> pc[r] = "idle"

=============================================================================
