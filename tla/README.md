# Verification of the Azure Code CLI core

The repository (`azure-code-fixed/`, a TypeScript monorepo) is a command-line
coding agent: a chat loop sends the conversation to a model, the model asks for
tool calls, a scheduler validates them against policy, hooks and the user, runs
them and returns their results, until the model is done. An A2A server
(`packages/a2a-server`) offers the same core over HTTP, a terminal UI
(`packages/cli`) to a person.

This directory holds TLA+ models of that code, the TLC configurations that
check them on small instances, and proofs checked by TLAPS. Four parts are
modelled: the tool scheduler, where the concurrency, cancellation and consent
logic of the program meet; the task of the A2A server that drives it; the life
of a shell command, from its spawning to the list of background tasks; and the
choice of a model, with its health, retries and fallback. The rest is
inventoried below, with the reason why it is left out.

All source paths are relative to `azure-code-fixed/packages/`.

## 1. Inventory

| Component | State | Operations | Hard behaviours | What makes it correct |
|---|---|---|---|---|
| **Tool call state manager** `core/src/scheduler/state-manager.ts` | queue, map of active calls, completed batch, status of each call | enqueue, dequeue, updateStatus, updateArgs, finalizeCall, cancelAllQueued, replaceActiveCallWithTailCall, clearBatch | status changes from several handlers, no check that a transition is legal except that an errored call has no invocation | every call ends up in the report once, with a final status |
| **Tool scheduler** `core/src/scheduler/scheduler.ts` | isProcessing, isCancelling, requestQueue, the state manager, one suspended handler per call | schedule, cancelAll, the processing loop | interleaving of handlers at each await, aborts and cancelAll at any time, tail calls, sandbox retries, late output | complete reports, order of waves, no start after cancellation, every promise settles |
| **Confirmation** `scheduler/confirmation.ts`, `tool-modifier.ts` | the open question of each call | resolveConfirmation, external and inline modification | the loop survives edits; concurrent questions share one waiting callback and one "first active call" | an edit stays with its call; what runs was seen |
| **Hook and policy of a call** `scheduler/hook-utils.ts`, `policy.ts` | none of its own | evaluateBeforeToolHook, checkPolicy, updatePolicy | the hook's verdict is combined with the policy's after the check | a denial holds |
| **Tool executor** `scheduler/tool-executor.ts` | none | execute | abort while a tool runs; live output; background processes | an aborted call is reported as cancelled |
| **Message bus** `core/src/confirmation-bus` | listeners, the policy engine | publish, subscribe, request, derive | asynchronous policy check inside publish, correlation ids, timeouts | at most one answer per request, no listener left |
| **Policy engine** `core/src/policy` | rules, checkers, approval mode | check, addRule, removeRulesForTool | precedence, wildcards, shell sub-commands | equals a reference definition of precedence |
| **Execution lifecycle, shell** `core/src/services/executionLifecycleService.ts`, `shellExecutionService.ts`, `core/src/tools/shell.ts`, `cli/src/ui/hooks/useExecutionLifecycle.ts` | active executions, their resolvers, exit infos, process entries, logs, history, the list of the interface | attach, complete, background, kill, register, dismiss | background, kill, abort and exit race; a timer of the tool; expiry of exit infos | the promise settles once, the end is told once, the list shows what runs, a tool returns |
| **Model availability, fallback, retry** `core/src/availability`, `fallback`, `utils/retry.ts`, `cli/src/ui/hooks/useQuotaAndFallback.ts` | health of each model, the active model, the dialog | markTerminal, markRetryOncePerTurn, selection, resetTurn, handleFallback, retryWithBackoff | several requests share the service, the active model and one dialog; answers come late | one sticky attempt per turn; terminal models stay out; every request ends |
| **A2A task and executor** `a2a-server/src/agent` | pending calls, confirmations, results, completion promise, task state, executing tasks | messages, confirmation, schedule, cancelTask, waitForPendingTools | promise replacement, primary and secondary executions, scheduler updates after cancellation, a client that goes away | who waits is woken, results go to the model once, questions can be answered |
| **Local agent executor** `core/src/agents/local-executor.ts` | turn counter, deadline | run, recovery turn | the deadline stops while a tool waits for the user | an agent ends, with one reason |
| **Chat, client, turn** `core/src/core` | history, turn counters | sendMessageStream, processTurn | aborted streams, next-speaker recursion | calls and responses are paired |
| **Loop detection** `core/src/services/loopDetectionService.ts` | repetition counters, windows | addAndCheck | thresholds, truncation of the window | equals a definition on the event history |
| **Hook system** `core/src/hooks` | registry | plan, run, aggregate | sequential hooks feed each other; parallel ones are merged | the most restrictive verdict wins |
| **MCP client manager** `core/src/tools/mcp-client-manager.ts` | clients, discovery promise, refresh flag | start, discover, refresh | chained discovery, coalesced refresh | no change is missed |
| **IDE client** `core/src/ide/ide-client.ts` | diff mutex, open diffs | openDiff, closeDiff | promise-chained mutex | mutual exclusion, release |
| **Core events** `core/src/utils/events.ts` | bounded backlog with a moving head | emitOrQueue, drain | limit, compaction | the newest events, in order |

Left aside because they keep no protocol state of their own or are I/O,
rendering, configuration or generated code: HTTP and persistence of the A2A
server, agent registry and remote agents, content generators, tool
implementations, context management, session recording, model routing, prompts,
skills, settings, safety checkers, telemetry, voice, MCP authentication, the
terminal UI, the SDK and development aids, scripts and docs. `PROJECT.json`
lists each with its reason.

How they interact: the chat loop (or an agent, or an A2A task) calls
`schedule(requests, signal)` and awaits the results. The scheduler calls the
hook system and the policy engine, publishes `TOOL_CALLS_UPDATE` and waits for
`TOOL_CONFIRMATION_RESPONSE` on the message bus, and runs tools, some of which
start executions that outlive them. The UI and the A2A task answer on the bus,
abort the signal, and call `cancelAll`. The A2A task calls `cancelAll` without
an abort, the UI aborts first; the model has both. The A2A task follows its
calls by the `TOOL_CALLS_UPDATE` events alone. The shell tool starts executions,
which the UI lists once they are in the background. Every request to a model
goes through the availability service, and asks the user in the one quota
dialog of the UI when a model fails for good.

## 2. Plan

The order in which the modules were written, the most important first:

1. `StateManager`, `Scheduler`, with `SchedulerMC` and the proofs in
   `SchedulerProofs`, `ReportProofs`, `WaveProofs` and `AnswerProofs`.
2. `ToolBatchService`, what a caller may rely on, with no wave and no await,
   implemented by `Scheduler` (model-checked, and proved in
   `RefinementProofs`).
3. `AgentTask`, a task of the A2A server, its executor, and the scheduler as
   the task sees it; with `AgentTaskProofs`.
4. `ExecutionLifecycle`, the shell command with service, tool and interface,
   and `ExecutionPromise`, the contract it implements; with
   `ExecutionLifecycleProofs`.
5. `ModelFallback`, requests that share health, active model and dialog; with
   `ModelFallbackProofs`.

What would come next, in this order: the MCP client manager (discovery chain,
coalesced refresh, clients disconnected while they connect), the deadline of
the agent executor, the message bus with its timeouts. Every safety property of
a passing run is by now a theorem; what is left to the model checker is liveness
(section 5).

## 3. The modules

**`StateManager`** is `SchedulerStateManager` as pure operators on one record
(`queue`, `wave`, `active`, `completed`, `status`). Each method is an operator
from the record before to the record after, so a handler that calls several
methods composes them, as the code does between two awaits. Payloads are left
out. `completed` counts how often each call was reported, which is what the
properties ask; the order inside `_completedBatch` is dropped. `wave` keeps the
insertion order of the `activeCalls` map, which `firstActiveCall` depends on.
The two quirks of `updateStatus` that matter are kept: a call that is not active
is left alone, and an errored call, whose invocation is gone, throws on every
transition but the one to error.

**`Scheduler`** is the rest. Javascript runs a handler to its next `await`
without interruption, so an action is the code between two awaits, and
`call[c].pc` names the await that the handler of call `c` is suspended at:

| pc | suspended in | next action |
|---|---|---|
| `hook` | `evaluateBeforeToolHook` | `HookDone` |
| `policy` | `checkPolicy` | `PolicyDone` |
| `details` | `shouldConfirmExecute` | `Unneeded`, `AskUser` |
| `answer` | `awaitConfirmation` | `Respond` |
| `editor`, `inline` | `handleExternalModification`, `handleInlineModification` | `EditorDone`, `InlineDone` |
| `outcome` | `updatePolicy` | `Conclude`, `ExpansionAnswered` |
| `tool` | `executor.execute` | `ToolDone`, `Output` |
| `result` | the code after the executor, tail call and sandbox expansion included | `Recorded`, `TailCalled`, `ExpansionAsked` |

`Throw` is the rejection of any of the awaited promises, with what the two catch
clauses make of it. The loop (`phase`) is `LoopTop`, `JoinValidation`,
`JoinExecution` (the two `Promise.all`) and `Finish`, the finally block that
settles the promise and hands over to the next request. `Schedule`, `Abort` and
`CancelAll` are the callers. `vetted` is a history variable: which arguments
something let through. `struck` are the calls that a cancelAll cancelled, whose
record it therefore replaced.

The environment is as free as the code lets it be: policy answers anything in
`Policy[c]` at each check, a hook may block, ask or replace the input, a tool
returns anything, the user answers anything, the signal is aborted at any time.

Choices worth knowing:

- Arguments are abstracted to who made them and for which call (`of`, `by`).
- A call has them twice: in its request (`input`: what policy is asked about and
  the modifier starts from) and in its invocation (`args`: what runs). All who
  change them change both, but a hook writes the invocation to the record its
  handler was given (`scheduler.ts:614`), which is no longer that of the state
  manager if a cancelAll came during the hook (`Replaced`).
- `anyStatusChanged` at the end of an iteration is always false: the calls an
  iteration starts with would have to be terminal, and those are finalized in
  the previous one. The invariant `OnlyRevivedLinger` checks the reason.
- A call belongs to one batch (`UniqueCalls`): its callId is the id that the model
  gave the call, or is made up from a counter of the turn
  (`core/src/core/turn.ts:390`) or the index in an agent's turn
  (`core/src/agents/local-executor.ts:1076`). A model that repeats an id is not
  considered.
- The comparator that sorts `update_topic` first says of two such calls that each
  comes before the other; their order is then up to the engine. `TopicFirst`
  moves the first of them only.
- A validating call of a previous iteration does not occur either; `Iterate`
  handles it all the same, as the code does.
- Where a batch holds an invalid call, it is born as an error and handled alone
  (`Iterate`, the branch with `FinalizeEnded(Dequeue(s, 1))`).
- Not modelled: MCP progress events (they fill in fields of an executing
  call), `dispose`, telemetry and logs, the contents of responses.

**`ToolBatchService`** is the abstract specification: a line of batches, one
turn at a time, and a turn that ends with the results of exactly its calls.
`Scheduler!ImplementsService` maps `requestQueue` to the line, `cur` to the turn,
and the calls reported once with a final status, when the loop is over, to the
results of the turn. The map makes the odd branch of
`_processNextInRequestQueue`, which re-queues a request behind the others if a
call is still active, a violation of the order of arrival: that it holds shows
the branch is never taken.

**`AgentTask`** is `a2a-server/src/agent/task.ts` and `executor.ts`. A message of
the client starts an execution, `pc[m]` is the await it is suspended at
(`streaming`: the stream of the model; `scheduling`: checkpoints and proposed
contents; `waiting`: `waitForPendingTools`), and `primary` is the one in
`executingTasks`. Two things are modelled with care:

- `toolCompletionPromise` is replaced again and again, so the promise that the
  task holds (`completion`) is not always the one the primary waits on (`held`).
  While both are the same and open they share their fate; `Replaces` turns a
  waiter on a promise that is replaced unsettled into one that is `lost`.
- The scheduler is seen as the task sees it: `at[c]` is the status of a call in
  its events. They are delivered synchronously, so each action of the scheduler
  (`Moves`) ends with the handler of the task (`TaskSees`, `Observe`), which
  registers, resolves, asks for input and settles or replaces the promise. How
  calls are grouped into waves is left open: any prefix of what is queued may be
  one. `cancelAll` is as in `Scheduler`: calls without a handler end at once,
  others (`struck`) are shown as cancelled while their handler goes on. It
  cancels one call after the other, with an event each, and these events bring
  back the correlation ids of the calls that come later and await approval
  (`Reasked`), which the task had dropped just before: such a call can still be
  answered. Once the signal is aborted the calls of the wave end (`AbortCall`)
  and the loop cancels what is queued (`CancelQueued`).

`down` is the exit of the server by its `uncaughtException` handler, which also
receives rejections that nobody handles. The client may send any
confirmation at any time, twice, late or for a call that does not exist;
`PatientClient` restricts it to questions that are open.

**`ExecutionLifecycle`** follows a command (`Run`) through the shell tool
(`tool`, `reply`), its process (`proc`), the lifecycle service (`active`,
`resolvers`, `backgrounded`, `result`, `notices`, `exitInfo`), the shell service
(`entries`, `streams`, `history`, `running`) and the interface (`listed`,
`watch`, `registered`). The operators `Resolve`, `Settle`, `Kill`, `Background`
and `ShellBackground` are the methods of those names; an action is what runs
until the next timer, stream, process event or user input, with what a settled
promise sets off in between. Kept on purpose: an abort before the process is
attached is not noticed; Ctrl+B reaches the shell service for a command of the
user and the lifecycle service alone for that of a tool; the delay of a detached
command runs out whatever became of the command. The signal that a command sees
is aborted with that of its call, which the scheduler then takes for cancelled,
or by the inactivity timeout of the tool alone (`TimeOut`), whose call completes
and is registered in the list if it reported the background: hence `aborted` and
`cancelled`. A run also stands for its
process id, which is taken to be unique. Executions without a process
(`createExecution`), output and the terminal are left out.

**`ExecutionPromise`** is the abstract specification of a command: new, running,
background or over, a promise settled once on the way, and one notice for an
end in the background that was neither silent nor a kill.
`ExecutionLifecycle!ImplementsPromise` maps `active` and `resolvers` to it.

**`ModelFallback`** has any number of requests (`pc`, `current`, `attempt`,
`limit`) that run through `applyModelSelection`, the loop of `retryWithBackoff`,
`handleFallback` and the handler of the interface. They share the availability
service (`health`), the active model and the dialog. What a request decided
before its question was put (`offer`, `mark`) is kept until the answer comes, by
which time everything else may have changed. An answer without content makes a
request wait as a failure does, but also at its last attempt, after which the
loop ends with an error that marks no model (`BackOff`, `Empty`, `Exhausted`).
Chains are computed from a
template as `resolvePolicyChain` does, sliced at the model the name resolves to;
the policies of a model for a kind of failure are constants. `retries` is a
history variable that counts the requests admitted to a model as its one retry.

**The proof modules** each build on the one before: `SchedulerProofs` (types and
consent), `ReportProofs` (complete reports), `RefinementProofs` (the service),
`WaveProofs` (the order in which calls are taken up), `AnswerProofs` (questions,
edits, refusals, cancellation). `AgentTaskProofs`, `ExecutionLifecycleProofs`
and `ModelFallbackProofs` stand alone.

**`SchedulerMC`**, **`AgentTaskMC`**, **`ExecutionLifecycleMC`** and
**`ModelFallbackMC`** give the constants values. Definitions named `Bug...` in the
other modules are plausible mistakes, each of which breaks one property; the
specifications do not use them.

## 4. The runs

Deadlock is checked in the runs of the scheduler, where `Done` is the only stop
the model accepts, with every request settled, and in `availability`, which never
stops. It is not checked where the instance really ends: in the runs of
`AgentTask` the messages run out and the server may exit, in `lifecycle` every
command may have run. What these two promise of an end is said by liveness
properties. `WaitEnds`: the wait of a primary ends,
unless a question of the scheduler is never settled, the task was disposed of or
the server is down; a wait whose promise was replaced is not counted.
`DetachedReturns`: the call of a detached command returns. `KilledReturns`: so
does that of a command that was killed or aborted. They do not say that the task
never hangs. It does: in `waiter_lost`, behind a question that was cancelled and
can no longer be answered, and after it was disposed of while its model streamed
(section 6).

| Run | Instance | Shows |
|---|---|---|
| `waves` | 2 batches of 2 and 1 calls, any policy verdict, aborts and cancelAll at any time; 1.3M states | `ReportIsComplete`, `NothingStranded`, `OnlyRevivedLinger`, `NoStartAfterCancel`, `ImplementsService` |
| `sequence` | 1 batch of 3: two that wait for the previous, a topic call last; a hook and a sandbox expansion change the first, the user and a tail call the second; 0.7M states | `TypeOK`, `RunsVettedArguments`, `PolicyDenialHolds`, `WaitsForPrevious`, `TopicLeads`, `DenialCascades`, `EditsStayWithTheirCall`, `WaitingIsSignalled` |
| `liveness` | 2 batches of 1, the second invalid; edits, expansion, tail calls, a hook that asks, aborts and cancelAll | `EveryScheduleSettles` under `FairSpec` |
| `edit_crossed` | 2 concurrent editable calls | violation of `EditsStayWithTheirCall` |
| `denial_stops` | 2 concurrent calls | violation of `DenialCascades` |
| `cancel_without_abort` | 2 concurrent calls, cancelAll without abort | violation of `NoStartAfterCancel` |
| `background_spins` | 2 concurrent calls, one prints on after it returned | violation of `EveryScheduleSettles` |
| `headless_hook_asks` | no user, a hook that asks | violation of `HeadlessAsksNobody` |
| `agent_task` | 2 text messages and 1 answer, 2 calls asked for together or apart, the user asked about one, cancelTask and closed sockets at any time, any answer; 0.8M states | `TypeOK`, `HandedOverOnce`, `WaitIsFounded`, `SchedulerHasPending`, `ResultsArrive`, `AskedCanBeAnswered`, `OnlyAnswersLose`, and `WaitEnds` under `FairSpec` |
| `waiter_lost` | 1 text message, 2 answers to the 2 questions it leads to, as they are put | violation of `NoWaiterIsLost` |
| `lifecycle` | a detached child of a tool call, a silent terminal command of the user, a history of one; 320k states | `TypeOK`, `PromiseIsOwed`, `ToldOnce`, `ListedIsWatched`, `OnlyTheDelayLeaves`, `DetachedReturns`, `KilledReturns`, `ImplementsPromise` |
| `availability` | 2 requests, one for a model outside the chain; 2 models in the chain, one sticky, one that is switched silently; 2 attempts; any failure, any answer, new turns and switches at any time; 328k states | `TypeOK`, `DialogHasItsRequest`, `OneRetryPerTurn`, `AttemptsInBounds`, `TerminalStays`, `RequestsEnd` |

Bounds of the scheduler. The only bounds are the sets of calls and batches; no
counter is capped. Two calls in one wave are what it takes for one handler to
interfere with another, and a second batch is what it takes to go through the
request queue. The order of arrival of several that wait takes a third batch; it
is covered by the theorem `SchedulerImplementsService` for any number. A
tail call reuses its callId and may tail-call again, so chains are of any length.
A third concurrent call adds states but no new pair of interfering handlers. In
`sequence` the calls wait for each other, which keeps one active at a time: the
properties that concurrency breaks (the violations) hold there. That concurrency
is the only reason is what `AnswerProofs` proves; its hypotheses hold in
`sequence`, where `c1` and `c2`, the calls that can be asked about, wait for the
previous ones, and the one that may be taken over by a tail call is the last in
the order of the batch. `Modifiable` and `Sandboxed`, and
`HookModifies` and `Tailing`, are kept on different calls to bound the run; the
theorem `VettedArguments` covers every combination, where a cancelAll comes with
an abort. One topic call is enough for
`TopicLeads`, whose subject is the sort of one batch.

Bounds of the other runs. In `agent_task` two text messages are what it takes for
a batch to wait in line behind another (the first client goes away, the second
message starts a new turn), and the third message is the answer that interferes;
`waiter_lost` needs two answers. Two calls give a batch of two with any order of
ends and one after the other in two batches. The user is asked about the second
of a batch only, so that a `cancelAll` finds a call before the one that awaits
approval; with questions about both, the same properties held in 1.6M states.
In `lifecycle` the two commands
share nothing but the history, whose size of one makes each evict the other; the
theorems hold for any set of commands. In `availability` two requests are what it
takes for one to change what the other has read; two attempts make the last one
differ from the first; the name `best` is outside the chain. No bound is a guard of an action.

Fairness of the scheduler (`Fairness`, used only by `liveness` and
`background_spins`):

- `WF_vars(Loop)` and `WF_vars(CallStep(c))`: the event loop turns, a promise
  that can resolve does. The loop waits on nothing else.
- `SF_vars(ToolDone)` with a terminal result: a tool does not tail-call or ask for
  an expansion for ever. Nothing in the code bounds the chain of tail calls, so
  this is an assumption on the tools, as is that a tool returns at all.
- `SF_vars(Respond)` while the call shows its question (`awaiting_approval`): a
  person answers what is on the screen, and does not only open the editor.
  The answer is not assumed for a question that is not shown, which is what the
  mutant of `EveryScheduleSettles` exploits.

No fairness is assumed of `Schedule`, `Abort`, `CancelAll` and `Output`.

Fairness of a command (`ExecutionLifecycle!FairSpec`, for `DetachedReturns` and
`KilledReturns`): timers fire, settled promises are taken up, the exit of a dead
process is reported, each `WF`, as the event loop does; and a process that was
sent a kill dies (the code ends with SIGKILL). A process that nobody kills need
never end, and no fairness is assumed of the user.

Fairness of a task (`AgentTask!FairSpec`, for `WaitEnds`): the scheduler goes on
while it can (`WF` of `BatchStep`: hooks, policy and tools answer, an answer of
the user is taken up, the loop turns), and the store saves a cancelled task
(`WF` of `CancelSaved`). The user and the stream of the model need do nothing.

Fairness of requests (`ModelFallback!Fairness`, for `RequestsEnd`): a delay ends
(`CallAgain`, `Exhausted`), the user answers the dialog on screen (`Answer`), the
answer is
taken up (`Resume`), each `WF`; and `SF_vars(Succeed(r))`: a model that is called
again and again in the end answers. The last is an assumption on the service
behind the models, and a needed one: with low error verbosity a busy model is
retried with its attempts counted anew, and nothing in the code ends that
(section 6).

## 5. What is proved

`SchedulerProofs` holds, for any set of calls and batches, any policy and any
sets of special calls, from `BatchAssumption` (batches are sequences of calls)
and `EnvironmentAssumption` (types) alone:

- `TypeCorrect`: `Spec => []TypeOK`. A lemma per operator of the state manager,
  one for the iteration of the loop, one for each part of it, one for the handler
  of a call with one case per action.
- The lemma `Safety`: `Spec => []SafeInv`, from which `AnswerProofs` draws
  `VettedArguments`. `RunsVettedArguments` speaks of running calls and is not
  inductive. `VettedCall` strengthens it: every call that is *trusted*, that is
  scheduled, running, or with its outcome being recorded and not refused,
  carries vetted arguments, unless a cancelAll struck it; a call not struck has
  the same arguments in its request and in its invocation; and a scheduled call
  has no suspended handler that could still change them. The last part is what
  makes the join between validation and execution safe. It fails without the
  conjunct for `scheduled`: the loop starts tools by status alone.
- `DenialHoldsWithoutHooks`: `HookAsks = {} => (Spec => []PolicyDenialHolds)`.
  `DeniedCall` says that past the policy check a denied call is one whose hook
  asked. With a hook that asks the property is false (section 6), so the
  hypothesis is needed.

`SafeInv`, the conjunction of the type and the two strengthenings, was checked by
TLC on the instances of `waves`, `sequence` and `liveness` before it was proved.
The argument per step: `Undisturbed` disposes of every call whose handler does
not move, `HandlerOnlyMovesItsCall` reduces a handler's step to its own call, and
`OperatorsScheduleNone` says that no operator but `updateStatus` schedules.

`ReportProofs` adds the assumption `DistinctCalls`, that the callIds of one batch
are distinct (`activeCalls` is a map from callIds), and proves, where
`Background = {}`:

- `ReportsAreComplete`: `Spec => []ReportIsComplete`.
- `NothingIsStranded`: `Spec => []NothingStranded`.

The hypothesis is needed: late output sets an ended call back to `executing`
(section 6), and then an abort leaves the loop with a call that is still active.
The inductive invariant is `ReportInv`, in three parts. `Placed` says where each
call of the batch is: queued, active or reported, in exactly one place, with a
status that fits; it is stated of a state manager's record, so that each operator
has its lemma. `HandlerInv` says that a suspended handler is that of an active
call, that one that returned left its call scheduled or ended, and that while the
tools run nothing is validated but sandbox expansions. Without that last part a
late policy answer could schedule a call when the loop no longer looks. `LoopInv`
ties the phase of the loop to both: nothing is active between two iterations, and
an iteration that is not the last has an active call or has spawned a tail call,
which is why the loop goes on. The handlers are treated by effect
(`HandlerHasEffect`: each leaves the batch alone, updates its own call, cancels
the queue as well, or replaces itself by a tail call) and then by what becomes of
their own call (`HandlerReturns`). TLC checked `ReportInv` on the instances of
`waves`, `sequence` and `liveness` before it was proved.

`RefinementProofs` proves, under the same hypothesis,
`SchedulerImplementsService`: `Spec => ImplementsService`. Initial states map to
initial states (`ServiceInitially`) and every step maps to a step of the service
or to a stutter (`ServiceNext`). `ReportInv` makes the mapped results all or
nothing (`ReportedAllOrNone`), so that what the loop and the handlers do is a
stutter but for the step that ends the loop, and `QueueInv` (the queue holds the
pending promises, once each) makes `CancelAll` and `Abort` withdraw exactly those
that wait.

`WaveProofs` drops the hypothesis on background output and assumes instead
`UniqueCalls`, that no call belongs to two batches. It proves

- `OnlyRevivedCallsLinger`: `Spec => []OnlyRevivedLinger`.
- `WaitingCallsWait`: `Spec => []WaitsForPrevious`.
- `TopicComesFirst`: `Spec => []TopicLeads`, where a batch has at most one
  `update_topic` call and such a call requests no tail call. Of two, the second
  keeps its place behind other calls; a tail call may be another tool's.

The inductive invariant is `WaveInv`. `Lined` says that the queue holds each call
once, none of them active and none touched by a handler; `OwnInv`, that what the
scheduler has in hand belongs to the current batch, and that the calls of a batch
in line are as the model asked for them. `RoundInv` says what is active where:
outside a wave only calls that print on. `TurnInv` is its counterpart for one
handler, and holds the reason why waiting works: an active call that waits is
active alone. `OrderInv` is the order: nothing that comes before a waiting call
is queued behind it, and nothing that comes before it is left once it is active
or its tail call, which need not wait, has taken its place in the queue. The last
clause is what a tail call preserves, because it goes to the front of the queue.
The property had to say more than "a call that waits runs after the others": the
field `waits` is that of the tail call by then, so it is stated of `Waits`, what
was asked at first. `OperatorsLessen` covers the operators that at most retire
active calls or empty the queue, which leaves enqueue, dequeue and the tail call
to be treated one by one.

`AnswerProofs` proves of questions, edits, refusals and cancellation what the
violation runs show not to hold in general:

| Theorem | Property | Where | Otherwise |
|---|---|---|---|
| `QuestionsAreSignalled` | `WaitingIsSignalled` | every call in `Asked` is `Solo` | section 6, the waiting callback |
| `RefusalsCascade` | `DenialCascades` | every call in `Asked` is `Solo` | `denial_stops` |
| `EditsReachTheirCall` | `EditsStayWithTheirCall` | every call in `Modifiable` is `Solo` | `edit_crossed` |
| `CancelledCallsStayStopped` | `NoStartAfterCancel` | `CancelFiresAbort` | `cancel_without_abort` |
| `VettedArguments` | `RunsVettedArguments` | `CancelFiresAbort` | section 6, the input of a hook |
| `HeadlessWithoutHooks` | `HeadlessAsksNobody` | no hook asks, no tool asks for an expansion | `headless_hook_asks` |

`Asked` are the calls that policy may ask about where there is a user, that a
hook asks about, or whose tool may ask for a sandbox expansion; `AskInv` is the
proof that nobody else is asked about. A call is `Solo` if it waits for the
previous ones and, where its tool may request a tail call, is the last of its
batch: the tail call need not wait, so it could otherwise share a wave. Nothing
else is assumed: the other calls of the batch may be concurrent, print on, be
aborted or cancelled. With `WaveInv` it follows that the call is active alone
while its handler is suspended (`SuspendedAlone`). Then no answer to another
question takes back the signal; the first active call, which the modifier is
given, is the call itself; and a refusal meets no other active call. `DenialInv`
needs one thing more, which shows only in an interleaving with `cancelAll`: a
question may outlive it, and the refusal that comes then finds its call cancelled
already. By then the queue is empty, or the batch aborted, so that nothing can
follow. `EditInv` says of an edit that it is in the arguments from the moment it
is recorded, and `StruckInv` that a call struck by `cancelAll` belongs to no
batch in line, and to the current one only if that is aborted. The steps that are
no handler's are treated once for all (`LoopMoves`: a call is left alone, taken
up while untouched, or started while scheduled, idle and not aborted). `VettedArguments`
combines three of these: a trusted call that was not struck carries vetted
arguments (`VettedCall`), a call that was struck does not start
(`NoStartAfterCancel`), and the arguments of a running call stand still
(`RunningKeepsArguments`). TLC
checked the invariants on the instances of `waves` and `sequence` and on variants
of them with late output and tail calls before they were proved.

`AgentTaskProofs` needs only `TaskAssumption` (types of the constants) and proves,
for any calls, messages and batches, the six invariants and the action property of
`agent_task`: `TypeCorrect`, `HandsOverOnce`, `WaitsForSomething`, `PendingIsInHand`,
`ResultsAreKept`, `QuestionsCanBeAnswered`, `AnswersAloneLose`. `IInv` has three
parts. `ExecutorInv`: only the primary schedules or waits, and what it waits on
is the promise of the task, with something pending. `SchedulerInv`: the calls that the
model asked for are new,
the batches in line are disjoint and untouched, and while `isCancelling` is set
every call of the current batch is over; that last part is why events after a
`cancelAll` can register nothing anew. `CallsInv`: the six ways in which
pending, completed, processed and asked calls relate to the status in the
scheduler; a known result is over and is not pending, which makes a repeated
event harmless. Each step treats the promise in one of a few ways and the calls
in one of a few others, and there is a lemma for each way. `AnswersAloneLose`
turns the counterexample of `waiter_lost` into a diagnosis: a waiter has a pending
call (`WaitIsFounded`), an event makes a new promise only when nothing is pending,
and so the promise of a waiter is replaced by an answer of a second execution and
by nothing else.

`ExecutionLifecycleProofs` needs `LifecycleAssumption` and proves `TypeCorrect`,
`PromiseStaysOwed`, `TellsOnce`, `ListIsTrue`, `DelayAloneLeaves` and
`LifecycleImplementsPromise`. `IInv` says of
each command that before it is spawned nothing knows of it (`Fresh`), that its
entry, its resolver, its flag and its promise agree (`Agrees`: an entry without a
resolver is one in the background, one without an entry has its end recorded),
and that what was notified fits (`Told`); `Reported` adds, for `TellsOnce`, which end
the reply of a tool may give. The refinement has a case per operator
of the service: `Settle` ends, completes or kills, `Background` moves to the
background, everything else is a stutter, because `active` and `resolvers` stand
still. Two more invariants stand on `IInv`. `Watched` says that a command that
never ran was not reported in the background and is not listed, which is why
`Register` finds a command either active, so that it can listen, or ended, so
that it looks up the end. `Tidy` says that only a detached command is delayed
and none is announced before its delay is over: a promise that is settled has no
resolver, so that what the delay moves to the background too late is not
announced.

`ModelFallbackProofs` needs `Models` and `Limits` and proves `TypeCorrect`,
`OneDialog`, `RetriesOnce`, `KeepsToAttempts` and `TerminalIsKept`. `IInv` adds
to the properties that a model that is available has no retry counted (`Unspent`:
the sticky attempt is the only way to count one, and being spent the only way
out), and that a request where it is carries what it needs there (`Carries`: a
model while it calls, an offer while it asks). `KeepsToAttempts` says that no
call goes beyond the bound: a request that waits may have made its last attempt,
but is then not called again.

Only model-checked: liveness under fairness (`EveryScheduleSettles`, `WaitEnds`,
`DetachedReturns`, `KilledReturns`, `RequestsEnd`), which is out of the prover's
reach, as is anything about what recursive definitions compute for all inputs
(none is used here). `NoWaiterIsLost` is refuted by its run; the theorem
`AnswersAloneLose` says by what alone.

## 6. Where code and documentation disagree

Each of the numbered ones is shown by a violation run; `PROJECT.json` quotes the
lines.

1. An edit made in the editor or inline is computed from the *first active*
   call (`confirmation.ts:252` and `:279`), not from the call the user was asked
   about. With two questions open the arguments cross over.
2. A refusal cancels what is queued (`scheduler.ts:681`), not the other calls of
   the same wave, though the comment says the whole batch.
3. `cancelAll` without an abort does not stop a call in validation: its handler
   overwrites `cancelled` with `scheduled` and it runs. The A2A server cancels
   this way.
4. Output of a backgrounded command reaches a call that has ended but whose wave
   has not, sets it back to `executing` (`scheduler.ts:728`), and the loop goes
   round for ever: `schedule()` never settles. (In the program the loop then
   also starves the event loop, since it yields by `queueMicrotask`.)
5. A hook's `ask` is applied after `checkPolicy` has turned asking into a denial
   outside interactive mode, and nobody can answer. (A sandbox expansion asks
   without `checkPolicy` and has the same effect; `HeadlessWithoutHooks` shows
   that there is no third way.)

6. An answer that a secondary execution handles replaces the promise of the A2A
   task without settling it (`task.ts:1114`). With two questions open the
   execution that the first answer started waits for ever when the second is
   answered; the task stays in `executingTasks`, and every later message is only
   handled as a secondary one.

Noticed in the scheduler while modelling, without a run of their own:

- The same override turns a policy *denial* into a question
  (`scheduler.ts:624`); `DenialHoldsWithoutHooks` shows it is the only way.
- `cancelAll` without an abort does not wake a handler that waits for the user.
- If such a `cancelAll` comes while a `BeforeTool` hook is awaited, policy is asked
  about the input of the hook, and the tool runs with the one that the hook
  replaced: the request is shared, the new invocation is written to the record
  that was current before (`scheduler.ts:611-615`). This is why `VettedArguments`
  assumes `CancelFiresAbort`. `docs/hooks/reference.md:108` says that the input of
  a hook "merges with and overrides" the arguments.
- The waiting callback carries one boolean: with two open questions, answering
  one clears it, and an agent's deadline runs while the other is open. The
  property `WaitingIsSignalled` holds where one call is active at a time
  (`QuestionsAreSignalled`).
- A second `cancelAll` during one batch returns at once, and requests queued
  since the first are kept.
- Tail calls of one wave are put in front of the queue one by one, so they run in
  the reverse order of their completion.
- An abort while the user is asked about a sandbox expansion ends the call as an
  error, not as cancelled.
- Arguments that the user edited inline are not checked by policy again.

In the A2A task:

- `cancelTask` rejects the promise; the catch clause of the primary then sets
  `failed` or `input-required` over `canceled`. A cancel during the stream of
  the model is not honoured until the stream ends.
- The promise of `schedule()` is not awaited (`task.ts:764`): cancelling while a
  batch waits in line rejects it, and the `uncaughtException` handler
  (`http/server.ts:25`) ends the server. The same holds of the completion
  promise when nobody waits on it. Both are `Unhandled` in the model.
- When the model asks for calls in two replies, results of the first batch may be
  sent while the second still waits for an answer.
- In a wave with one call scheduled and one awaiting approval the task does not
  become `input-required`, though the scheduled one cannot run before the other
  is answered.
- `toolsAlreadyConfirmed` is filled before the answer is validated
  (`task.ts:897`), so a malformed answer hides the question.
- A call that was awaiting approval when `cancelAll` came goes on waiting. It can
  still be answered if the events of `cancelAll` brought its correlation id back,
  that is, if another active call was cancelled before it (`Reasked`). If not, it
  cannot: its batch never ends, what a later message schedules waits in line
  behind it, and the primary of that message for ever, though the comment at
  `task.ts:235` speaks of "a clean state".
- `cancelTask` during the stream of the model disposes of the task
  (`executor.ts:257`), which stops listening. When the stream ends, the calls it
  asked for are scheduled nevertheless, no event of their end is heard, and the
  primary waits for ever. `evicted` in `WaitEnds` and in `SchedulerHasPending` is
  this exception.
- The reply of the model to a message handled by a secondary execution is dropped
  (`executor.ts:455`).

In the life of a command:

- An abort while the shell is being prepared is lost: the listener is added to a
  signal that is aborted already (`shellExecutionService.ts:773`, `:1281`).
- Ctrl+B on a command of a tool reaches the lifecycle service alone: there is no
  log and no history, yet the tool reports where the output is saved.
- The delay of a detached command that has ended already records it as running
  for ever and opens a log that nobody closes (`shell.ts:610`); this is the
  exception `OnlyTheDelayLeaves` makes.
- A detached command that ends before its delay is over is reported as "moved to
  background" with its output hidden (`shell.ts:684`), as the branch for
  `is_background` comes first. It ended before it was in the background, so no
  notice follows either: the model gets neither its end nor its output, though
  the tool waits "to see if command returns quickly" (`shell.ts:614`). This is the
  exception that `ToldOnce` makes for detached commands.
- A task whose exit info expired before it was registered stays in the list as
  running: the exception of `ListedIsWatched`.
- `silent` tasks "stay in the UI until manually dismissed"
  (`executionLifecycleService.ts:90`), but those registered when their call
  completes are dismissed at their end.
- A full history evicts processes that still run.

In the choice of a model:

- A switch of the model resets the whole availability service (`config.ts:1885`),
  so the terminal mark that led to the switch is forgotten at once.
- After a switch that was agreed to, a request whose active model was the fallback
  already goes on calling its failed model (`retry.ts:291`).
- With low error verbosity a busy model is retried with its attempts counted anew
  for ever.
- An answer without content waits out its delay at the last attempt too, and then
  fails with "Retry attempts exhausted" (`retry.ts:248`).
- `OneRetryPerTurn` is about what `applyModelSelection` admits. A request that
  starts over on its model after the user chose to retry (`retry.ts:290`) is not
  counted there, so that several requests may together make more than one retry.
- The chain is that of the active model: a model that failed outside it is never
  marked, and an internal id outside the template is never marked healthy.
- `resolveModel` is not idempotent: an internal id resolves to the free model.
- The chat ignores the model it selected and does not retry.

## 7. Not modelled

- *Message bus*: what the modelled components need of it, one answer to the
  question it belongs to, is in their actions; its own timeouts are not.
- *Policy engine, hook aggregation, loop detection, routing*: pure or sequential
  computations on rules, outputs, texts. Their verdicts are inputs of the models,
  every value at every time.
- *MCP client manager, IDE client, agent executor, core events*: state machines
  of their own that share no state with what is modelled. The first is next
  (section 2); the hazards of all are listed in `PROJECT.json`.
- *Chat, sessions, context*: what is hard in them is the content of the
  history, which a finite model does not tell apart. The parts that change shared
  state, the reset of a turn and the selection of its model, are in
  `ModelFallback`.
- *Configuration, settings, telemetry, storage, authentication, rendering, SDK,
  scripts*: input and output, no protocol.
- Inside the modelled components: the store of the A2A server and `reconstruct`,
  its flag `skipFinalTrueAfterInlineEdit`; executions without a process,
  terminal output, reuse of process ids; the flows for credits and for account
  validation, sessions without a user in `ModelFallback`.
