----------------------------- MODULE AgentTask -----------------------------
(***************************************************************************)
(* A task of the A2A server (a2a-server/src/agent/task.ts) and the         *)
(* executor that runs it (executor.ts).                                    *)
(*                                                                         *)
(* Each message of the client starts an execution.  The first one is the   *)
(* primary: it reads the stream of the model, schedules the tool calls the *)
(* model asks for, waits for their results and sends them back, until the  *)
(* model asks for nothing.  A message that arrives meanwhile is handled by *)
(* a secondary execution, which hands a confirmation to the scheduler and  *)
(* returns.  The task learns of its calls by the TOOL_CALLS_UPDATE events  *)
(* of the scheduler, and the primary waits on a promise that the task      *)
(* settles or replaces.                                                    *)
(*                                                                         *)
(* The scheduler is seen here as the task sees it: at[c] is the status of  *)
(* call c in its events.  They are delivered synchronously, so each action *)
(* of the scheduler ends with the handler of the task.                     *)
(***************************************************************************)
EXTENDS SequencesExt

CONSTANTS
    Call,           \* tool calls
    Message,        \* user messages
    Text,           \* those with text for the model; the others answer a call
    Batches,        \* the batches of calls the model may ask for
    Asks,           \* calls that the policy leaves to the user
    PatientClient,  \* does the client answer only open questions, and once?
    None            \* no message

ASSUME TaskAssumption ==
    /\ Text \subseteq Message
    /\ None \notin Message
    /\ Batches \subseteq Seq(Call)
    /\ PatientClient \in BOOLEAN

VARIABLES
    taskState,              \* the state last published
    pendingToolCalls,       \* the keys of pendingToolCalls
    confirmationDetails,    \* the keys of pendingToolConfirmationDetails
    correlationIds,         \* the keys of pendingCorrelationIds
    toolsAlreadyConfirmed,
    completedToolCalls,
    processedToolCallIds,
    completion,             \* what became of toolCompletionPromise
    primary,                \* the message executed in executingTasks, or None
    pc,                     \* the await that each execution is suspended at
    requests,               \* toolCallRequests of the primary
    held,                   \* the promise the primary waits on
    aborted,                \* messages whose socket has ended
    cancelSaving,           \* is cancelTask saving the task?
    evicted,                \* has the task been disposed and forgotten?
    at,                     \* status of each call in the scheduler
    struck,                 \* calls that cancelAll cancelled
    batch,                  \* the batch in progress
    owner,                  \* the message whose signal it was given
    line,                   \* the batches that wait in requestQueue
    cancelling,             \* isCancelling
    answer,                 \* what the user answered, until it is taken up
    down                    \* has the server exited?

taskVars == <<taskState, pendingToolCalls, confirmationDetails,
              correlationIds, toolsAlreadyConfirmed, completedToolCalls,
              processedToolCallIds, completion>>
executorVars == <<primary, pc, requests, held, aborted, cancelSaving, evicted>>
schedulerVars == <<at, struck, batch, owner, line, cancelling, answer>>
vars == <<taskVars, executorVars, schedulerVars, down>>

-----------------------------------------------------------------------------

TaskState == {"submitted", "working", "input-required", "canceled", "failed"}

\* "line" and "queued" wait for their batch and for their turn in it.
Status == {"new", "line", "queued", "validating", "awaiting_approval",
           "scheduled", "executing", "finished", "cancelled"}

Outcome == {"proceed", "cancel", "modify"}

\* A promise that was replaced before it was settled stays so for ever: who
\* waits on it is lost.
Promise == {"open", "resolved"}

Point == {"unsent", "streaming", "scheduling", "waiting", "done"}

TaskTypeOK ==
    /\ taskState \in TaskState
    /\ pendingToolCalls \subseteq Call
    /\ confirmationDetails \subseteq Call
    /\ correlationIds \subseteq Call
    /\ toolsAlreadyConfirmed \subseteq Call
    /\ completedToolCalls \subseteq Call
    /\ processedToolCallIds \subseteq Call
    /\ completion \in Promise

ExecutorTypeOK ==
    /\ primary \in Message \cup {None}
    /\ pc \in [Message -> Point]
    /\ requests \in Batches \cup {<< >>}
    /\ held \in Promise \cup {"none", "rejected", "lost"}
    /\ aborted \subseteq Message
    /\ cancelSaving \in BOOLEAN
    /\ evicted \in BOOLEAN

SchedulerTypeOK ==
    /\ at \in [Call -> Status]
    /\ struck \subseteq Call
    /\ batch \in Batches \cup {<< >>}
    /\ owner \in Message \cup {None}
    /\ line \in Seq([calls : Batches, owner : Message])
    /\ cancelling \in BOOLEAN
    /\ answer \in [Call -> Outcome \cup {"none"}]

\* Every variable has its type.
TypeOK ==
    /\ TaskTypeOK
    /\ ExecutorTypeOK
    /\ SchedulerTypeOK
    /\ down \in BOOLEAN

Init ==
    /\ taskState = "submitted"
    /\ pendingToolCalls = {}
    /\ confirmationDetails = {}
    /\ correlationIds = {}
    /\ toolsAlreadyConfirmed = {}
    /\ completedToolCalls = {}
    /\ processedToolCallIds = {}
    /\ completion = "resolved"
    /\ primary = None
    /\ pc = [m \in Message |-> "unsent"]
    /\ requests = << >>
    /\ held = "none"
    /\ aborted = {}
    /\ cancelSaving = FALSE
    /\ evicted = FALSE
    /\ at = [c \in Call |-> "new"]
    /\ struck = {}
    /\ batch = << >>
    /\ owner = None
    /\ line = << >>
    /\ cancelling = FALSE
    /\ answer = [c \in Call |-> "none"]
    /\ down = FALSE

-----------------------------------------------------------------------------
(* The completion promise.  The operators of this section give next values *)
(* of completion and held, from the pending calls before and after.        *)

\* The waiter shares the fate of the promise it waits on.
Settles(value, waiter) == IF waiter = "open" THEN value ELSE waiter

Replaces(waiter) == IF waiter = "open" THEN "lost" ELSE waiter

\* No promise made when nothing is pending.
BugReset(pending) == IF pending = {} THEN "none" ELSE "open"

\* _resetToolCompletionPromise: resolved at once when nothing is pending.
Reset(pending) == IF pending = {} THEN "resolved" ELSE "open"

\* waitForPendingTools returns at once when nothing is pending.
WaitsOn(pending, promise) == IF pending = {} THEN "resolved" ELSE promise

-----------------------------------------------------------------------------
(* The task follows its calls.                                             *)

Members == ToSet(batch)

\* Is a call with this status over, as the events show it?
Over(c, status, cancelled) ==
    c \in cancelled \/ status[c] \in {"finished", "cancelled"}

\* The scheduler will report the end of c.
Owed(c) == at[c] # "new" /\ ~Over(c, at, struck)

\* The scheduler holds c in its batch or its line.
InHand(c) == \/ c \in Members
             \/ \E i \in DOMAIN line : c \in ToSet(line[i].calls)

\* The task has the result of c already.
BugKnown(c) == c \in completedToolCalls

Known(c) == c \in completedToolCalls \cup processedToolCallIds

\* A cancelled call not taken for one that is over.
BugEnding(calls) == {c \in calls : ~Known(c) /\ at'[c] = "finished"}

\* The calls of a snapshot that are over, and those that are not.
Ending(calls) == {c \in calls : ~Known(c) /\ Over(c, at', struck')}
Going(calls) == {c \in calls : ~Known(c) /\ ~Over(c, at', struck')}

\* checkInputRequiredState: a call waits for the user and none can go on.
\* A call of a batch in line was registered as 'scheduled'.
InputRequired(pending, confirmed) ==
    /\ \E c \in pending : at'[c] = "awaiting_approval" /\ c \notin confirmed
    /\ \A c \in pending : at'[c] \notin {"line", "scheduled", "executing"}

\* The end of the last pending call not signalled.
BugEffect(calls, before, state) ==
    IF before \ Ending(calls) = {} /\ Going(calls) # {} THEN "open" ELSE "none"

\* The promise replaced whether or not something was pending.
BugEffectAnew(calls, before, state) ==
    LET pending == before \ Ending(calls)
    IN  IF before # {} /\ pending = {} THEN "resolved"
        ELSE IF Going(calls) # {} THEN "open" ELSE "none"

\* What an event does to the promise: resolved when the last pending call
\* ends or input is required for the first time, replaced by an open one when
\* a call is registered where none was pending.
Effect(calls, before, state) ==
    LET pending == before \ Ending(calls)
    IN  IF \/ before # {} /\ pending = {}
           \/ /\ InputRequired(pending \cup Going(calls),
                               toolsAlreadyConfirmed \ Ending(calls))
              /\ state # "input-required"
        THEN "resolved"
        ELSE IF pending = {} /\ Going(calls) # {} THEN "open" ELSE "none"

\* handleEventDrivenToolCallsUpdate, with the calls of the event, from the
\* pending calls, the state and the promise of the task before it.
Observe(calls, before, state, promise) ==
    LET confirmed == toolsAlreadyConfirmed \ Ending(calls)
        asked     == {c \in Going(calls) : at'[c] = "awaiting_approval"}
        effect    == Effect(calls, before, state)
    IN  /\ pendingToolCalls' = (before \ Ending(calls)) \cup Going(calls)
        /\ completedToolCalls' = completedToolCalls \cup Ending(calls)
        /\ toolsAlreadyConfirmed' = confirmed
        /\ confirmationDetails' = confirmationDetails \cup asked
        /\ correlationIds' = correlationIds \cup asked
        /\ taskState' = IF InputRequired(pendingToolCalls', confirmed)
                        THEN "input-required" ELSE state
        /\ completion' = IF effect = "none" THEN promise ELSE effect
        /\ UNCHANGED processedToolCallIds

\* The listener of the task is removed when it is disposed.
TaskSees(calls) ==
    IF evicted THEN UNCHANGED <<taskVars, held>>
    ELSE LET effect == Effect(calls, pendingToolCalls, taskState)
         IN  /\ Observe(calls, pendingToolCalls, taskState, completion)
             /\ held' = IF effect = "resolved" THEN Settles("resolved", held)
                        ELSE IF effect = "open" THEN Replaces(held)
                        ELSE held

-----------------------------------------------------------------------------
(* cancelPendingTools: reject the promise, forget the pending calls and    *)
(* have the scheduler cancel everything.                                   *)

\* cancelAll, unless one is in progress: batches in line are rejected, and
\* every call of the current batch that is not over is cancelled; those that no
\* handler works on are over with that.
CancelAll ==
    IF cancelling THEN UNCHANGED <<at, struck, line, cancelling>>
    ELSE /\ cancelling' = TRUE
         /\ line' = << >>
         /\ struck' = struck \cup {c \in Members : Owed(c)}
         /\ at' = [c \in Call |->
                      IF c \in Members /\ at[c] \in {"queued", "scheduled"}
                      THEN "cancelled" ELSE at[c]]

Precedes(c, d) ==
    \E i, j \in DOMAIN batch : i < j /\ batch[i] = c /\ batch[j] = d

\* The calls of the current wave that cancelAll cancels, one by one.
Active == {c \in Members : /\ Owed(c)
                           /\ at[c] \in {"validating", "awaiting_approval",
                                         "scheduled", "executing"}}

\* Each of them has an event of its own, in which the later ones still await
\* approval: the task hears of their questions again.
Reasked ==
    IF evicted \/ cancelling THEN {}
    ELSE {d \in Active : /\ at[d] = "awaiting_approval"
                         /\ \E c \in Active : Precedes(c, d)}

\* These events may leave the task in input-required.
Wavers ==
    \E d \in Reasked \ toolsAlreadyConfirmed :
        \A e \in Active :
            Precedes(d, e) => at[e] \notin {"scheduled", "executing"}

\* The promise of schedule() is not awaited by anyone, nor may that of the
\* task be; a rejection that nobody handles ends the process.
Unhandled == \/ completion = "open" /\ held # "open"
             \/ ~cancelling /\ line # << >>

\* The pending calls left as they are.
BugForgotten(pending) == pending

Forgotten(pending) == {}

\* The correlation ids are dropped before cancelAll, whose events bring some of
\* them back.  A call that they register as pending is over by the last one.
CancelPendingTools ==
    /\ CancelAll
    /\ UNCHANGED <<batch, owner, answer, processedToolCallIds>>
    /\ pendingToolCalls' = Forgotten(pendingToolCalls)
    /\ confirmationDetails' = confirmationDetails \cup Reasked
    /\ correlationIds' = Reasked
    /\ completedToolCalls' = IF evicted THEN completedToolCalls
                             ELSE completedToolCalls \cup Ending(Members)
    /\ toolsAlreadyConfirmed' = IF evicted THEN toolsAlreadyConfirmed
                                ELSE toolsAlreadyConfirmed \ Ending(Members)
    /\ completion' = "resolved"
    /\ down' = (down \/ Unhandled)

-----------------------------------------------------------------------------
(* The executor.                                                           *)

Terminal == taskState \in {"canceled", "failed"}

\* The end of the primary; a task in a terminal state is evicted.
EndExecution(m) ==
    /\ primary' = None
    /\ pc' = [pc EXCEPT ![m] = "done"]
    /\ requests' = << >>
    /\ held' = "none"
    /\ evicted' = (evicted \/ taskState' \in {"canceled", "failed"})
    /\ UNCHANGED <<aborted, cancelSaving>>

\* The catch clause: an execution whose client went away leaves the task to
\* the next message, any other error fails it.
Catch(m) ==
    /\ CancelPendingTools
    /\ \/ m \notin aborted /\ taskState' = "failed"
       \/ m \in aborted /\ Terminal /\ taskState' = taskState
       \/ m \in aborted /\ (Terminal => Wavers) /\ taskState' = "input-required"
    /\ EndExecution(m)

\* A message comes in.  One for a task that is over is ignored.
Receives(m) ==
    /\ ~down
    /\ ~evicted
    /\ pc[m] = "unsent"

Ignore(m) ==
    /\ Receives(m)
    /\ Terminal
    /\ pc' = [pc EXCEPT ![m] = "done"]
    /\ UNCHANGED <<taskVars, primary, requests, held, aborted, cancelSaving,
                   evicted, schedulerVars, down>>

BecomesPrimary(m) == primary' = IF primary = None THEN m ELSE primary

\* acceptUserMessage with text: the model is called.  The execution is
\* primary if there is none.
ReceiveText(m) ==
    /\ Receives(m)
    /\ ~Terminal
    /\ m \in Text
    /\ BecomesPrimary(m)
    /\ pc' = [pc EXCEPT ![m] = "streaming"]
    /\ taskState' = "working"
    /\ UNCHANGED <<pendingToolCalls, confirmationDetails, correlationIds,
                   toolsAlreadyConfirmed, completedToolCalls,
                   processedToolCallIds, completion, requests, held, aborted,
                   cancelSaving, evicted, schedulerVars, down>>

\* A user answers call c.  The first answer counts, and only while the task
\* knows the correlation id; but whatever the task has details of is taken
\* for handled, and the promise is replaced.  A primary goes on to wait for
\* the pending calls, a secondary returns.
ReceiveAnswer(m, c, outcome) ==
    /\ Receives(m)
    /\ ~Terminal
    /\ m \notin Text
    /\ PatientClient => /\ taskState = "input-required"
                        /\ at[c] = "awaiting_approval"
                        /\ answer[c] = "none"
    /\ c \in confirmationDetails \cup correlationIds
    /\ toolsAlreadyConfirmed' = toolsAlreadyConfirmed \cup {c}
    /\ answer' = IF /\ c \in correlationIds
                    /\ at[c] = "awaiting_approval"
                    /\ answer[c] = "none"
                 THEN [answer EXCEPT ![c] = outcome] ELSE answer
    /\ LET settled == IF outcome # "modify" THEN {c} ELSE {}
       IN  /\ confirmationDetails' = confirmationDetails \ settled
           /\ correlationIds' = correlationIds \ settled
    /\ completion' = Reset(pendingToolCalls)
    /\ taskState' = IF pendingToolCalls # {} /\ taskState # "input-required"
                    THEN "working" ELSE taskState
    /\ BecomesPrimary(m)
    /\ IF primary = None
       THEN /\ pc' = [pc EXCEPT ![m] = "waiting"]
            /\ held' = WaitsOn(pendingToolCalls, completion')
       ELSE /\ pc' = [pc EXCEPT ![m] = "done"]
            /\ held' = Replaces(held)
    /\ UNCHANGED <<pendingToolCalls, completedToolCalls, processedToolCallIds,
                   requests, aborted, cancelSaving, evicted, at, struck,
                   batch, owner, line, cancelling, down>>

\* An answer to an unknown call, or one with an unknown outcome, is dropped,
\* yet the call counts as confirmed.
DropAnswer(m, c) ==
    /\ Receives(m)
    /\ ~Terminal
    /\ m \notin Text
    /\ ~PatientClient
    /\ toolsAlreadyConfirmed' = toolsAlreadyConfirmed \cup {c}
    /\ BecomesPrimary(m)
    /\ IF primary = None
       THEN /\ pc' = [pc EXCEPT ![m] = "waiting"]
            /\ held' = WaitsOn(pendingToolCalls, completion)
       ELSE /\ pc' = [pc EXCEPT ![m] = "done"]
            /\ UNCHANGED held
    /\ UNCHANGED <<taskState, pendingToolCalls, confirmationDetails,
                   correlationIds, completedToolCalls, processedToolCallIds,
                   completion, requests, aborted, cancelSaving, evicted,
                   schedulerVars, down>>

-----------------------------------------------------------------------------
(* The loop of the primary.                                                *)

Streams(m) == ~down /\ pc[m] = "streaming"

\* A secondary execution reads the stream of the model and drops it.
SecondaryEnds(m) ==
    /\ Streams(m)
    /\ m # primary
    /\ pc' = [pc EXCEPT ![m] = "done"]
    /\ UNCHANGED <<taskVars, primary, requests, held, aborted, cancelSaving,
                   evicted, schedulerVars, down>>

\* The stream reports that the user cancelled, or an error, which leaves the
\* state as it is.
StreamReports(m) ==
    /\ Streams(m)
    /\ m = primary
    /\ CancelPendingTools
    /\ \/ taskState' = "input-required"
       \/ taskState' = taskState
    /\ UNCHANGED executorVars

\* The stream ends with the calls that the model asks for, or without.
StreamEnds(m) ==
    /\ Streams(m)
    /\ m = primary
    /\ m \notin aborted
    /\ \/ \E calls \in Batches :
             /\ \A c \in ToSet(calls) : at[c] = "new"
             /\ calls # << >>
             /\ requests' = calls
             /\ pc' = [pc EXCEPT ![m] = "scheduling"]
             /\ UNCHANGED held
       \/ /\ pc' = [pc EXCEPT ![m] = "waiting"]
          /\ held' = WaitsOn(pendingToolCalls, completion)
          /\ UNCHANGED requests
    /\ UNCHANGED <<taskVars, primary, aborted, cancelSaving, evicted,
                   schedulerVars, down>>

\* The stream throws, or the client is gone by its next event.
StreamThrows(m) ==
    /\ Streams(m)
    /\ m = primary
    /\ Catch(m)

\* isCancelling left set.
BugStart(calls, m, before) ==
    /\ batch' = calls
    /\ owner' = m
    /\ UNCHANGED cancelling
    /\ \E n \in 1..Len(calls) :
         at' = [c \in Call |->
                  IF c \notin ToSet(calls) THEN before[c]
                  ELSE IF m \in aborted THEN "cancelled"
                  ELSE IF c \in ToSet(SubSeq(calls, 1, n)) THEN "validating"
                  ELSE "queued"]

\* _startBatch: the calls enter the scheduler and the first ones are taken up
\* as a wave, unless the signal is aborted.
Start(calls, m, before) ==
    /\ batch' = calls
    /\ owner' = m
    /\ cancelling' = FALSE
    /\ \E n \in 1..Len(calls) :
         at' = [c \in Call |->
                  IF c \notin ToSet(calls) THEN before[c]
                  ELSE IF m \in aborted THEN "cancelled"
                  ELSE IF c \in ToSet(SubSeq(calls, 1, n)) THEN "validating"
                  ELSE "queued"]

\* scheduleToolCalls after the checkpoints and the proposed contents: the
\* calls are registered as pending, handed to the scheduler, and waited for.
ScheduleToolCalls(m) ==
    LET registered == pendingToolCalls \cup ToSet(requests)
        promise    == IF pendingToolCalls = {} THEN "open" ELSE completion
    IN  /\ ~down
        /\ pc[m] = "scheduling"
        /\ pc' = [pc EXCEPT ![m] = "waiting"]
        /\ requests' = << >>
        /\ IF batch = << >>
           THEN /\ Start(requests, m, at)
                /\ UNCHANGED <<line, down>>
           ELSE /\ at' = [c \in Call |-> IF c \in ToSet(requests)
                                         THEN "line" ELSE at[c]]
                /\ line' = Append(line, [calls |-> requests, owner |-> m])
                /\ down' = (m \in aborted)
                /\ UNCHANGED <<batch, owner, cancelling>>
        /\ UNCHANGED <<primary, aborted, cancelSaving, evicted, struck,
                       answer>>
        /\ Observe(IF evicted \/ batch # << >> THEN {} ELSE ToSet(requests),
                   registered, "working", promise)
        /\ held' = WaitsOn(pendingToolCalls', completion')

Wakes(m) == ~down /\ pc[m] = "waiting"

\* getAndClearCompletedTools
TakeResults ==
    /\ processedToolCallIds' = processedToolCallIds \cup completedToolCalls
    /\ completedToolCalls' = {}
    /\ UNCHANGED <<pendingToolCalls, confirmationDetails, correlationIds,
                   toolsAlreadyConfirmed, completion>>

\* The wait ended: the results go to the model.
SendResults(m) ==
    /\ Wakes(m)
    /\ held = "resolved"
    /\ m \notin aborted
    /\ \E c \in completedToolCalls : c \notin struck /\ at[c] # "cancelled"
    /\ TakeResults
    /\ taskState' = "working"
    /\ pc' = [pc EXCEPT ![m] = "streaming"]
    /\ held' = "none"
    /\ UNCHANGED <<primary, requests, aborted, cancelSaving, evicted,
                   schedulerVars, down>>

\* The wait ended without results, or all calls were cancelled, which only
\* goes to the history of the chat: the turn of the agent is over.
EndTurn(m) ==
    /\ Wakes(m)
    /\ held = "resolved"
    /\ m \notin aborted
    /\ \A c \in completedToolCalls : c \in struck \/ at[c] = "cancelled"
    /\ TakeResults
    /\ taskState' = "input-required"
    /\ EndExecution(m)
    /\ UNCHANGED <<schedulerVars, down>>

\* The wait was rejected, or the client is gone.
WaitFails(m) ==
    /\ Wakes(m)
    /\ held = "rejected" \/ (held = "resolved" /\ m \in aborted)
    /\ Catch(m)

-----------------------------------------------------------------------------
(* The client cancels the task, or goes away.                              *)

\* cancelTask up to its save, and the rest.
CancelTask ==
    /\ ~down
    /\ ~evicted
    /\ \E m \in Message : pc[m] # "unsent"
    /\ ~Terminal
    /\ CancelPendingTools
    /\ held' = Settles("rejected", held)
    /\ taskState' = "canceled"
    /\ cancelSaving' = TRUE
    /\ UNCHANGED <<primary, pc, requests, aborted, evicted>>

CancelSaved ==
    /\ ~down
    /\ cancelSaving
    /\ cancelSaving' = FALSE
    /\ evicted' = TRUE
    /\ UNCHANGED <<taskVars, primary, pc, requests, held, aborted,
                   schedulerVars, down>>

\* The socket of a message ends and its signal is aborted.  The promises of
\* the batches in line that were given the signal are rejected.
SocketEnds(m) ==
    /\ ~down
    /\ pc[m] # "unsent"
    /\ m \notin aborted
    /\ aborted' = aborted \cup {m}
    /\ down' = (\E i \in DOMAIN line : line[i].owner = m)
    /\ UNCHANGED <<taskVars, primary, pc, requests, held, cancelSaving,
                   evicted, schedulerVars>>

-----------------------------------------------------------------------------
(* The scheduler.                                                          *)

\* A step of the batch that changes the status of its calls.
Moves(status) ==
    /\ ~down
    /\ at' = status
    /\ UNCHANGED <<struck, batch, owner, line, cancelling>>
    /\ TaskSees(Members)
    /\ UNCHANGED <<primary, pc, requests, aborted, cancelSaving, evicted, down>>

In(status, c) == c \in Members /\ at[c] = status

Unstarted == {c \in Members : at[c] = "queued"}

\* A call is validated: allowed, refused, or left to the user, whom there is
\* no point in asking once the signal is aborted.
Validated(c) ==
    /\ In("validating", c)
    /\ \E status \in {"scheduled", "finished", "awaiting_approval"} :
          /\ status = "scheduled" => c \notin Asks
          /\ status = "awaiting_approval" => c \in Asks /\ owner \notin aborted
          /\ Moves([at EXCEPT ![c] = status])
    /\ UNCHANGED answer

\* The confirmation loop takes up an answer; one that cancels cancels the
\* calls that have not begun as well.
TakeAnswer(c) ==
    /\ In("awaiting_approval", c)
    /\ answer[c] # "none"
    /\ answer' = [answer EXCEPT ![c] = "none"]
    /\ \/ answer[c] = "proceed" /\ Moves([at EXCEPT ![c] = "scheduled"])
       \/ answer[c] = "modify" /\ Moves(at)
       \/ /\ answer[c] = "cancel"
          /\ Moves([d \in Call |-> IF d = c \/ d \in Unstarted THEN "cancelled"
                                  ELSE at[d]])

\* The wave runs when no call of it is undecided.
RunWave ==
    /\ \E c \in Members : at[c] = "scheduled"
    /\ \A c \in Members : at[c] \notin {"validating", "awaiting_approval"}
    /\ Moves([c \in Call |-> IF In("scheduled", c) THEN "executing" ELSE at[c]])
    /\ UNCHANGED answer

Finish(c) ==
    /\ In("executing", c)
    /\ Moves([at EXCEPT ![c] = "finished"])
    /\ UNCHANGED answer

\* The signal of the batch is aborted: a call of the wave ends.
AbortCall(c) ==
    /\ owner \in aborted
    /\ c \in Members
    /\ at[c] \in {"validating", "awaiting_approval", "scheduled", "executing"}
    /\ Moves([at EXCEPT ![c] = "cancelled"])
    /\ UNCHANGED answer

WaveIsOver == \A c \in Members : at[c] \in {"queued", "finished", "cancelled"}

\* The queue left as it is.
BugCancelQueued ==
    /\ owner \in aborted
    /\ WaveIsOver
    /\ Unstarted # {}
    /\ Moves(at)
    /\ UNCHANGED answer

\* The loop finds the signal aborted: what has not begun never does.
CancelQueued ==
    /\ owner \in aborted
    /\ WaveIsOver
    /\ Unstarted # {}
    /\ Moves([c \in Call |-> IF c \in Unstarted THEN "cancelled" ELSE at[c]])
    /\ UNCHANGED answer

\* The next wave of the batch.
NextWave ==
    /\ owner \notin aborted
    /\ WaveIsOver
    /\ \E n \in 1..Len(batch) :
         LET wave == {c \in Unstarted : c \in ToSet(SubSeq(batch, 1, n))}
         IN  /\ wave # {}
             /\ Moves([c \in Call |-> IF c \in wave THEN "validating"
                                      ELSE at[c]])
    /\ UNCHANGED answer

\* The batch is over, and the next in line starts.
EndBatch ==
    /\ ~down
    /\ batch # << >>
    /\ \A c \in Members : at[c] \in {"finished", "cancelled"}
    /\ IF line = << >>
       THEN /\ batch' = << >>
            /\ UNCHANGED <<at, owner, line, cancelling>>
       ELSE /\ line' = Tail(line)
            /\ Start(Head(line).calls, Head(line).owner, at)
    /\ UNCHANGED struck
    /\ TaskSees(ToSet(batch'))
    /\ UNCHANGED <<primary, pc, requests, aborted, cancelSaving, evicted,
                   answer, down>>

-----------------------------------------------------------------------------

\* The steps the scheduler makes on its own.
BatchStep ==
    \/ \E c \in Call :
          Validated(c) \/ TakeAnswer(c) \/ Finish(c) \/ AbortCall(c)
    \/ RunWave \/ CancelQueued \/ NextWave \/ EndBatch

Next ==
    \/ \E m \in Message :
          \/ Ignore(m) \/ ReceiveText(m)
          \/ \E c \in Call, outcome \in Outcome : ReceiveAnswer(m, c, outcome)
          \/ \E c \in Call : DropAnswer(m, c)
          \/ SecondaryEnds(m) \/ StreamReports(m) \/ StreamEnds(m)
          \/ StreamThrows(m) \/ ScheduleToolCalls(m)
          \/ SendResults(m) \/ EndTurn(m) \/ WaitFails(m)
          \/ SocketEnds(m)
    \/ CancelTask
    \/ CancelSaved
    \/ BatchStep

Spec == Init /\ [][Next]_vars

\* The scheduler goes on as long as it can, for hooks, policy and tools answer
\* in the end, and the store saves.  Neither the user nor the stream of the
\* model has to do anything.
FairSpec == Spec /\ WF_vars(BatchStep) /\ WF_vars(CancelSaved)

-----------------------------------------------------------------------------
(* What the task promises.                                                 *)

\* The result of a call is given to the model, or to its history, once: the
\* events that repeat the end of a call never queue its result again.
HandedOverOnce == completedToolCalls \cap processedToolCallIds = {}

\* A primary waits on no promise but the one in force, and only while a call
\* is pending: an end that came before the wait, a cancellation in between or
\* the end of another turn never leaves it waiting for nothing.  That the end
\* of the call will come, and that the task will hear of it, is not said here;
\* see SchedulerHasPending and WaitEnds (waitForPendingTools).
WaitIsFounded ==
    held = "open" => completion = "open" /\ pendingToolCalls # {}

\* As long as the task listens, whatever it counts as pending is in the hands
\* of the scheduler, in its batch or its line, and not over: no call that
\* cancelAll dropped from the line, that a late event revived or whose end was
\* missed stays pending with nobody left to end it (cancelPendingTools,
\* handleEventDrivenToolCall).
SchedulerHasPending ==
    ~evicted /\ ~down => \A c \in pendingToolCalls : Owed(c) /\ InHand(c)

\* No result gets lost: a call that ended while the task listened is either
\* waiting to be handed over or was.
ResultsArrive ==
    ~evicted => \A c \in Members : Over(c, at, struck) => Known(c)

\* A call that the scheduler asks the user about can be answered, as long as
\* the answer has not come and no cancelAll cancelled it.  (Of the calls that a
\* cancelAll cancelled while they awaited approval some can be answered and
\* some cannot, see Reasked.)
AskedCanBeAnswered ==
    ~evicted => \A c \in Members :
        /\ at[c] = "awaiting_approval"
        /\ c \notin struck
        /\ answer[c] = "none"
        => c \in correlationIds

\* The wait of the primary is never abandoned: the promise it waits on is not
\* replaced before it was settled.
NoWaiterIsLost == held # "lost"

\* The wait of a primary is abandoned in one way only, an answer that a second
\* execution hands in: no event, cancellation, end of a turn or other message
\* replaces the promise that the primary waits on.
OnlyAnswersLose ==
    [][held' = "lost" /\ held # "lost" =>
         /\ primary # None
         /\ \E m \in Message, c \in Call, outcome \in Outcome :
               ReceiveAnswer(m, c, outcome)]_vars

\* The wait of a primary comes to its end, unless a question of the scheduler
\* is never settled, the wait was replaced, the task was disposed of meanwhile
\* or the server is down: calls in line get their turn, and aborted and
\* cancelled batches end.
WaitEnds ==
    held = "open" ~> \/ held # "open" \/ evicted \/ down
                     \/ \E c \in Call : [](at[c] = "awaiting_approval")

=============================================================================
