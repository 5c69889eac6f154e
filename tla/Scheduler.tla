----------------------------- MODULE Scheduler -----------------------------
(***************************************************************************)
(* The tool scheduler (scheduler/scheduler.ts) with the confirmation loop  *)
(* (confirmation.ts, tool-modifier.ts), the BeforeTool hook (hook-utils.ts)*)
(* the policy check (policy.ts) and the executor (tool-executor.ts).       *)
(*                                                                         *)
(* A caller schedules a batch of tool calls with an abort signal and gets  *)
(* a promise of their results.  One batch is processed at a time, the      *)
(* others wait in requestQueue.  The processing loop takes up a wave of    *)
(* calls, validates them concurrently, runs those that may run             *)
(* concurrently, reports those that ended, and starts over.  Javascript    *)
(* runs a handler without interruption up to its next await: each action   *)
(* is the code between two awaits, and call[c].pc is the await that the    *)
(* handler of call c is suspended at.                                      *)
(***************************************************************************)
EXTENDS StateManager

CONSTANTS
    Batch,              \* the calls of schedule()
    BatchCalls,         \* the tool calls each of them asks for
    Policy,             \* what the policy engine may decide on each call
    Invalid,            \* calls with an unknown tool or arguments it refuses
    Topic,              \* calls of the update_topic tool
    Waits,              \* calls that ask to wait_for_previous
    HookAsks,           \* calls whose BeforeTool hook may answer 'ask'
    HookModifies,       \* calls whose BeforeTool hook may change the input
    Modifiable,         \* calls of a tool whose proposal the user can edit
    Tailing,            \* calls whose tool may request a tail call
    Sandboxed,          \* calls whose tool may ask for a sandbox expansion
    Background,         \* calls that print on after they returned
    Interactive,        \* is there a user to ask?
    CancelFiresAbort,   \* does the caller of cancelAll abort the batch too?
    None                \* no batch

Decision == {"allow", "deny", "ask"}

ASSUME BatchAssumption ==
    /\ None \notin Batch
    /\ BatchCalls \in [Batch -> Seq(Call)]

\* The callIds of a batch are distinct: activeCalls is a map from callIds.
ASSUME DistinctCalls == \A b \in Batch : IsInjective(BatchCalls[b])

\* A callId is given out once, by the model, or by the turn that asks for it.
ASSUME UniqueCalls ==
    \A a, b \in Batch :
        a # b => ToSet(BatchCalls[a]) \cap ToSet(BatchCalls[b]) = {}

ASSUME EnvironmentAssumption ==
    /\ Policy \in [Call -> SUBSET Decision]
    /\ Interactive \in BOOLEAN
    /\ CancelFiresAbort \in BOOLEAN

VARIABLES
    sm,             \* this.state, the SchedulerStateManager
    phase,          \* where the loop of the current batch is
    cur,            \* the batch being processed; isProcessing is cur # None
    cancelling,     \* isCancelling
    requestQueue,   \* requestQueue, the batches that wait for their turn
    request,        \* what became of the promise of each schedule()
    aborted,        \* the batches whose signal has been aborted
    spawned,        \* did a tail call join the queue in this iteration?
    waiting,        \* the last value given to onWaitingForConfirmation
    call,           \* the handler of each call, see CallType
    struck          \* calls whose record a cancelAll replaced, cancelled

vars == <<sm, phase, cur, cancelling, requestQueue, request, aborted,
          spawned, waiting, call, struck>>

-----------------------------------------------------------------------------

Phase == {"idle", "top", "validating", "executing", "finishing"}

\* The awaits a call's handler stops at: the hook, the policy engine, the
\* tool's confirmation details, the user's answer, the external editor, the
\* inline modification, the recording of the outcome, the tool itself, and
\* the post-processing of its result.
Validation == {"hook", "policy", "details", "answer", "editor", "inline",
               "outcome"}
Await == Validation \cup {"idle", "tool", "result"}

\* Arguments are known by the request they were made for and by who made
\* them: the model, a hook, the user's edit, a sandbox expansion, or the
\* tool that requested the call as its tail call.
Arguments == [of : Call, by : {"model", "hook", "user", "expansion", "tail"}]

Result == {"none", "success", "error", "cancelled", "tail", "expansion"}

Answer == {"none", "unneeded", "proceed", "edited", "cancel"}

CallType == [pc       : Await,
             input    : Arguments,          \* request.args
             args     : Arguments,          \* of the invocation that runs
             waits    : BOOLEAN,            \* wait_for_previous
             hookAsks : BOOLEAN,            \* hookDecision === 'ask'
             result   : Result,             \* what the executor returned
             expands  : BOOLEAN,            \* in the sandbox confirmation
             noisy    : BOOLEAN,            \* prints on in the background
             decision : Decision \cup {"none"},    \* of the policy engine
             answer   : Answer,             \* how confirmation ended
             vetted   : SUBSET Arguments]   \* history: what policy or user
                                            \* let through

NewCall(c, by, waits) ==
    [pc |-> "idle", input |-> [of |-> c, by |-> by],
     args |-> [of |-> c, by |-> by], waits |-> waits, hookAsks |-> FALSE,
     result |-> "none", expands |-> FALSE, noisy |-> FALSE, decision |-> "none", answer |-> "none",
     vetted |-> {}]

TypeOK ==
    /\ sm \in StateType
    /\ phase \in Phase
    /\ cur \in Batch \cup {None}
    /\ cancelling \in BOOLEAN
    /\ requestQueue \in Seq(Batch)
    /\ request \in [Batch -> {"new", "queued", "running", "resolved",
                              "rejected"}]
    /\ aborted \subseteq Batch
    /\ spawned \in BOOLEAN
    /\ waiting \in BOOLEAN
    /\ call \in [Call -> CallType]
    /\ struck \subseteq Call

Init ==
    /\ sm = Fresh
    /\ phase = "idle"
    /\ cur = None
    /\ cancelling = FALSE
    /\ requestQueue = << >>
    /\ request = [b \in Batch |-> "new"]
    /\ aborted = {}
    /\ spawned = FALSE
    /\ waiting = FALSE
    /\ call = [c \in Call |-> NewCall(c, "model", c \in Waits)]
    /\ struck = {}

-----------------------------------------------------------------------------
(* The processing loop.                                                    *)

\* The sort left out.
BugTopicFirst(calls) == calls

\* update_topic is sorted before the other calls of its batch.  Of two such
\* calls the comparator says that each comes first, and the order is up to the
\* engine; here only the first one moves.
TopicFirst(calls) ==
    IF \E i \in DOMAIN calls : calls[i] \in Topic
    THEN LET i == CHOOSE i \in DOMAIN calls : calls[i] \in Topic
         IN  Cons(calls[i], RemoveAt(calls, i))
    ELSE calls

Parallelizable(c) == ~ call[c].waits

\* Everything behind a parallelizable head taken along.
BugIsWave(queue, n) ==
    IF Parallelizable(queue[1]) THEN n = Len(queue) ELSE n = 1

\* The first n queued calls are taken up together: the head alone if it
\* waits for the previous ones, else all parallelizable ones that follow it.
IsWave(queue, n) ==
    IF Parallelizable(queue[1])
    THEN /\ \A i \in 2..n : Parallelizable(queue[i])
         /\ n < Len(queue) => ~ Parallelizable(queue[n + 1])
    ELSE n = 1

\* Start _processValidatingCall on the validating calls of state s.
Validate(s) ==
    /\ sm' = s
    /\ phase' = "validating"
    /\ spawned' = FALSE
    /\ call' = [c \in Call |->
          IF c \in s.active /\ s.status[c] = "validating"
          THEN [call[c] EXCEPT !.pc = "hook"] ELSE call[c]]

LeaveLoop(s) ==
    /\ sm' = s
    /\ phase' = "finishing"
    /\ UNCHANGED <<spawned, call>>

\* _processQueue's loop condition and _processNextItem up to its first
\* await, in state s; stop tells if the batch is aborted or cancelled.
Iterate(s, stop) ==
    LET more == s.queue # << >> \/ s.active # {}
    IN  \/ /\ ~ more
           /\ LeaveLoop(s)
        \/ /\ more /\ stop
           /\ LeaveLoop(CancelAllQueued(s))
        \/ /\ more /\ ~ stop
           /\ s.active # {}
           /\ Validate(s)
        \/ /\ more /\ ~ stop
           /\ s.active = {}
           /\ IF s.status[s.queue[1]] = "error"
              THEN /\ sm' = FinalizeEnded(Dequeue(s, 1))
                   /\ phase' = "top"
                   /\ UNCHANGED <<spawned, call>>
              ELSE \E n \in 1..Len(s.queue) :
                       /\ IsWave(s.queue, n)
                       /\ Validate(Dequeue(s, n))

\* _startBatch up to its first await.
StartBatch(b, before) ==
    /\ cur' = b
    /\ cancelling' = FALSE
    /\ request' = [before EXCEPT ![b] = "running"]
    /\ Iterate(Enqueue(ClearBatch(sm), TopicFirst(BatchCalls[b]), Invalid),
               b \in aborted)

\* schedule(): start at once, or enqueue behind the batch in progress.
Schedule(b) ==
    /\ request[b] = "new"
    /\ IF cur = None /\ sm.active = {}
       THEN /\ StartBatch(b, request)
            /\ UNCHANGED requestQueue
       ELSE /\ IF b \in aborted
               THEN /\ request' = [request EXCEPT ![b] = "rejected"]
                    /\ UNCHANGED requestQueue
               ELSE /\ request' = [request EXCEPT ![b] = "queued"]
                    /\ requestQueue' = Append(requestQueue, b)
            /\ UNCHANGED <<sm, phase, cur, cancelling, spawned, call>>
    /\ UNCHANGED <<aborted, waiting, struck>>

LoopTop ==
    /\ phase = "top"
    /\ Iterate(sm, cur \in aborted \/ cancelling)
    /\ UNCHANGED <<cur, cancelling, requestQueue, request, aborted, waiting,
                   struck>>

AllIdle == \A c \in Call : call[c].pc = "idle"

\* The tail of _processNextItem: report the calls that ended and decide
\* whether to go round again.  (anyStatusChanged is always FALSE here: the
\* calls an iteration starts with are executing, see OnlyRevivedLinger.)
EndIteration ==
    /\ sm' = FinalizeEnded(sm)
    /\ phase' = IF \/ spawned
                   \/ Ended(sm) # {}
                   \/ \E c \in sm.active :
                        sm.status[c] \in {"awaiting_approval", "executing"}
                THEN "top" ELSE "finishing"
    /\ UNCHANGED call

Start(ready) ==
    /\ sm' = UpdateAll(sm, ready, "executing")
    /\ call' = [c \in Call |-> IF c \in ready
                               THEN [call[c] EXCEPT !.pc = "tool"]
                               ELSE call[c]]

\* The signal not looked at.
BugExecute(ready) == Start(ready)

\* _execute on all of them, up to the call of the tool.
Execute(ready) ==
    IF cur \in aborted
    THEN /\ sm' = UpdateAll(sm, ready, "cancelled")
         /\ UNCHANGED call
    ELSE Start(ready)

\* All validated: execute the scheduled calls if every active call is
\* scheduled or has ended.
JoinValidation ==
    /\ phase = "validating"
    /\ AllIdle
    /\ LET ready == {c \in sm.active : sm.status[c] = "scheduled"}
       IN  IF ready # {} /\ sm.active \subseteq ready \cup Ended(sm)
           THEN /\ phase' = "executing"
                /\ Execute(ready)
           ELSE EndIteration
    /\ UNCHANGED <<cur, cancelling, requestQueue, request, aborted, spawned,
                   waiting, struck>>

JoinExecution ==
    /\ phase = "executing"
    /\ AllIdle
    /\ EndIteration
    /\ UNCHANGED <<cur, cancelling, requestQueue, request, aborted, spawned,
                   waiting, struck>>

\* _processNextInRequestQueue: the next request gets its turn, which enqueues
\* it again if a call is still active.
NextInRequestQueue(settled) ==
    IF requestQueue # << >> /\ sm.active = {}
    THEN /\ StartBatch(Head(requestQueue), settled)
         /\ requestQueue' = Tail(requestQueue)
    ELSE /\ cur' = None
         /\ phase' = "idle"
         /\ sm' = ClearBatch(sm)
         /\ request' = settled
         /\ requestQueue' = IF requestQueue = << >> THEN << >>
                            ELSE Append(Tail(requestQueue),
                                        Head(requestQueue))
         /\ UNCHANGED <<cancelling, spawned, call>>

\* The request queue forgotten.
BugFinish ==
    /\ phase = "finishing"
    /\ cur' = None
    /\ phase' = "idle"
    /\ sm' = ClearBatch(sm)
    /\ request' = [request EXCEPT ![cur] = "resolved"]
    /\ UNCHANGED <<requestQueue, cancelling, spawned, call, aborted, waiting,
                   struck>>

\* The end of _startBatch: settle the promise and go on with the next request.
Finish ==
    /\ phase = "finishing"
    /\ NextInRequestQueue([request EXCEPT ![cur] = "resolved"])
    /\ UNCHANGED <<aborted, waiting, struck>>

-----------------------------------------------------------------------------
(* Validation of one call: _processToolCall and resolveConfirmation.       *)

At(c, pc) == call[c].pc = pc

\* The handler of c sets its call's status to s and returns.
End(c, s) ==
    /\ sm' = UpdateStatus(sm, c, s)
    /\ call' = [call EXCEPT ![c].pc = "idle", ![c].expands = FALSE]

CallUnchanged == UNCHANGED <<phase, cur, cancelling, requestQueue, request,
                             aborted, struck>>

\* A cancelAll during the hook replaced the record that the handler was given
\* (updateStatus); the old and the new record share the request.
Replaced(c) == c \in struck

\* evaluateBeforeToolHook blocks the call, or lets it go on with its input
\* perhaps replaced: in the request, and in the invocation of the record that
\* the handler has.
HookDone(c) ==
    /\ At(c, "hook")
    /\ \/ End(c, "error")
       \/ /\ \E asks \in BOOLEAN, by \in {call[c].input.by, "hook"} :
               /\ asks => c \in HookAsks
               /\ by # call[c].input.by => c \in HookModifies
               /\ call' = [call EXCEPT ![c].pc = "policy",
                                       ![c].hookAsks = asks,
                                       ![c].input.by = by,
                                       ![c].args.by = IF Replaced(c)
                                                      THEN call[c].args.by
                                                      ELSE by]
          /\ UNCHANGED sm
    /\ UNCHANGED <<spawned, waiting>>
    /\ CallUnchanged

\* What checkPolicy returns; outside interactive mode an 'ask' throws (see
\* Throw).
PolicyAnswers(c) == {d \in Policy[c] : d = "ask" => Interactive}

\* Whatever is not allowed is asked.
BugVerdict(c, d) == IF d = "allow" THEN d ELSE "ask"

\* A hook's 'ask' replaces whatever policy decided.
Verdict(c, d) == IF call[c].hookAsks THEN "ask" ELSE d

\* checkPolicy, which is given the request, returns.  Asking starts the confirmation loop, unless the
\* signal was aborted.
PolicyDone(c) ==
    /\ At(c, "policy")
    /\ \E d \in PolicyAnswers(c) :
         LET decided == [call EXCEPT ![c].decision = d]
         IN  \/ /\ Verdict(c, d) = "deny"
                /\ sm' = UpdateStatus(sm, c, "error")
                /\ call' = [decided EXCEPT ![c].pc = "idle"]
             \/ /\ Verdict(c, d) = "allow"
                /\ sm' = UpdateStatus(sm, c, "scheduled")
                /\ call' = [decided EXCEPT ![c].pc = "idle",
                                           ![c].vetted = {call[c].input}]
             \/ /\ Verdict(c, d) = "ask"
                /\ cur \notin aborted
                /\ call' = [decided EXCEPT ![c].pc = "details"]
                /\ UNCHANGED sm
    /\ UNCHANGED <<spawned, waiting>>
    /\ CallUnchanged

\* shouldConfirmExecute: the tool does not want this invocation confirmed...
Unneeded(c) ==
    /\ At(c, "details")
    /\ call' = [call EXCEPT ![c].pc = "outcome",
                            ![c].answer = "unneeded",
                            ![c].vetted = {call[c].args}]
    /\ UNCHANGED <<sm, spawned, waiting>>
    /\ CallUnchanged

\* The owner not told.
BugAskUser(c) ==
    /\ At(c, "details")
    /\ sm' = UpdateStatus(sm, c, "awaiting_approval")
    /\ call' = [call EXCEPT ![c].pc = "answer"]
    /\ UNCHANGED <<spawned, waiting>>
    /\ CallUnchanged

\* The question never shown.
BugAskUserUnseen(c) ==
    /\ At(c, "details")
    /\ call' = [call EXCEPT ![c].pc = "answer"]
    /\ waiting' = TRUE
    /\ UNCHANGED <<sm, spawned>>
    /\ CallUnchanged

\* ... or describes it, and the user is asked.
AskUser(c) ==
    /\ At(c, "details")
    /\ sm' = UpdateStatus(sm, c, "awaiting_approval")
    /\ call' = [call EXCEPT ![c].pc = "answer"]
    /\ waiting' = TRUE
    /\ UNCHANGED spawned
    /\ CallUnchanged

\* A TOOL_CONFIRMATION_RESPONSE for the call, or the answer of the IDE.
Respond(c, answer) ==
    /\ Interactive
    /\ At(c, "answer")
    /\ cur \notin aborted
    /\ \/ /\ answer = "proceed"
          /\ call' = [call EXCEPT ![c].pc = "outcome",
                                  ![c].answer = "proceed",
                                  ![c].vetted = {call[c].args}]
       \/ /\ answer = "cancel"
          /\ call' = [call EXCEPT ![c].pc = "outcome", ![c].answer = "cancel"]
       \/ /\ answer = "edited"            \* newContent in the payload
          /\ c \in Modifiable
          /\ call' = [call EXCEPT ![c].pc = "inline"]
       \/ /\ answer = "modify_with_editor"
          /\ c \in Modifiable
          /\ call' = [call EXCEPT ![c].pc = "editor"]
    /\ waiting' = FALSE
    /\ UNCHANGED <<sm, spawned>>
    /\ CallUnchanged

Responses == {"proceed", "cancel", "edited", "modify_with_editor"}

\* The result of the modification dropped.
BugModified(c, f, old) == old

\* What a modification makes of the old arguments of c.  The modifier is given
\* the first active call, f, not c: the new arguments are f's, edited.
Modified(c, f, old) ==
    IF f \in Modifiable /\ CanUpdateArgs(sm, c)
    THEN [of |-> call[f].input.of, by |-> "user"]
    ELSE old

\* handleExternalModification returns, with or without new arguments, and
\* the loop asks again.
EditorDone(c) ==
    /\ At(c, "editor")
    /\ cur \notin aborted
    /\ \E f \in Call, used \in BOOLEAN :
         /\ IsFirstActive(sm, f)
         /\ used /\ f \in Modifiable => sm.status[f] = "awaiting_approval"
         /\ call' = [call EXCEPT ![c].pc = "details",
               ![c].input = IF used THEN Modified(c, f, @) ELSE @,
               ![c].args = IF used THEN Modified(c, f, @) ELSE @]
    /\ UNCHANGED <<sm, spawned, waiting>>
    /\ CallUnchanged

\* handleInlineModification returns, and the call proceeds.
InlineDone(c) ==
    /\ At(c, "inline")
    /\ \E f \in Call :
         /\ IsFirstActive(sm, f)
         /\ sm.status[f] = "awaiting_approval"
         /\ call' = [call EXCEPT ![c].pc = "outcome",
               ![c].answer = "edited",
               ![c].input = Modified(c, f, @),
               ![c].args = Modified(c, f, @),
               ![c].vetted = {Modified(c, f, call[c].args)}]
    /\ UNCHANGED <<sm, spawned, waiting>>
    /\ CallUnchanged

\* The queued calls spared.
BugConclude(c) ==
    /\ At(c, "outcome")
    /\ ~ call[c].expands
    /\ sm' = UpdateStatus(sm, c, IF call[c].answer = "cancel"
                                 THEN "cancelled" ELSE "scheduled")
    /\ call' = [call EXCEPT ![c].pc = "idle"]
    /\ UNCHANGED <<spawned, waiting>>
    /\ CallUnchanged

\* updatePolicy returns: a refused call takes the queued ones with it, any
\* other is scheduled.
Conclude(c) ==
    /\ At(c, "outcome")
    /\ ~ call[c].expands
    /\ IF call[c].answer = "cancel"
       THEN sm' = CancelAllQueued(UpdateStatus(sm, c, "cancelled"))
       ELSE sm' = UpdateStatus(sm, c, "scheduled")
    /\ call' = [call EXCEPT ![c].pc = "idle"]
    /\ UNCHANGED <<spawned, waiting>>
    /\ CallUnchanged

\* The exception caught, the call forgotten.
BugThrow(c) ==
    /\ \/ call[c].pc \in Validation \ {"answer"}
       \/ At(c, "answer") /\ cur \in aborted
    /\ call' = [call EXCEPT ![c].pc = "idle", ![c].expands = FALSE]
    /\ UNCHANGED <<sm, spawned, waiting>>
    /\ CallUnchanged

\* Something the handler awaits throws.  After an abort, or if what is thrown
\* is an AbortError (updatePolicy, with no signal, throws none), the call is
\* cancelled; else it ends with the exception.  _execute swallows it and
\* keeps the sandbox error it already has.
Throw(c) ==
    /\ \/ call[c].pc \in Validation \ {"answer"}
       \/ At(c, "answer") /\ cur \in aborted
    /\ \/ End(c, "error") /\ (cur \in aborted => call[c].expands)
       \/ /\ End(c, "cancelled")
          /\ ~ call[c].expands
          /\ At(c, "outcome") => cur \in aborted
    /\ UNCHANGED <<spawned, waiting>>
    /\ CallUnchanged

-----------------------------------------------------------------------------
(* Execution of one call: _execute and the executor.                       *)

\* The tool returns or throws; what the executor makes of it depends on
\* the signal: an aborted call is cancelled whatever it returned.
ToolDone(c, r) ==
    /\ At(c, "tool")
    /\ cur \in aborted => r = "cancelled"
    /\ r = "tail" => c \in Tailing
    /\ r = "expansion" => c \in Sandboxed
    /\ call' = [call EXCEPT ![c].pc = "result",
                            ![c].result = r,
                            ![c].noisy = r = "success" /\ c \in Background]
    /\ UNCHANGED <<sm, spawned, waiting>>
    /\ CallUnchanged

\* A tail request recorded as if it were a result.
BugRecorded(c) ==
    /\ At(c, "result")
    /\ call[c].result # "expansion"
    /\ End(c, call[c].result)
    /\ UNCHANGED <<spawned, waiting>>
    /\ CallUnchanged

\* The result becomes the status of the call.
Recorded(c) ==
    /\ At(c, "result")
    /\ call[c].result \in Terminal
    /\ End(c, call[c].result)
    /\ UNCHANGED <<spawned, waiting>>
    /\ CallUnchanged

\* The tail call trusted as the call it replaces was.
BugTailCalled(c) ==
    /\ At(c, "result")
    /\ call[c].result = "tail"
    /\ sm' = ReplaceWithTail(sm, c, "scheduled")
    /\ call' = [call EXCEPT ![c] = NewCall(c, "tail", FALSE)]
    /\ spawned' = TRUE
    /\ UNCHANGED waiting
    /\ CallUnchanged

\* The tail call takes over, or is born as an error if its tool is unknown
\* or refuses its arguments.
TailCalled(c) ==
    /\ At(c, "result")
    /\ call[c].result = "tail"
    /\ \E s \in {"validating", "error"}, waits \in BOOLEAN :
         /\ sm' = ReplaceWithTail(sm, c, s)
         /\ call' = [call EXCEPT ![c] = NewCall(c, "tail", waits)]
    /\ spawned' = TRUE
    /\ UNCHANGED waiting
    /\ CallUnchanged

WithPermissions(c) == [call[c].input EXCEPT !.by = "expansion"]

\* The command needs more than its sandbox grants: the permissions are added
\* to the request, the invocation is built from it anew, and the confirmation
\* loop is entered again, which throws at once if the signal was aborted.
ExpansionAsked(c) ==
    /\ At(c, "result")
    /\ call[c].result = "expansion"
    /\ IF cur \in aborted
       THEN End(c, "error")
       ELSE /\ sm' = UpdateStatus(sm, c, "awaiting_approval")
            /\ call' = [call EXCEPT ![c].pc = "details",
                                    ![c].expands = TRUE,
                                    ![c].input = WithPermissions(c),
                                    ![c].args = WithPermissions(c)]
    /\ UNCHANGED <<spawned, waiting>>
    /\ CallUnchanged

\* The user's answer: a refusal is an error, consent runs the tool again.
ExpansionAnswered(c) ==
    /\ At(c, "outcome")
    /\ call[c].expands
    /\ IF call[c].answer = "cancel" THEN End(c, "error")
       ELSE IF cur \in aborted THEN End(c, "cancelled")
       ELSE /\ sm' = UpdateStatus(sm, c, "executing")
            /\ call' = [call EXCEPT ![c].pc = "tool", ![c].expands = FALSE]
    /\ UNCHANGED <<spawned, waiting>>
    /\ CallUnchanged

\* Live output: it sets the status whether or not the call has ended.
Output(c) ==
    /\ At(c, "tool") \/ call[c].noisy
    /\ sm' = UpdateStatus(sm, c, "executing")
    /\ UNCHANGED <<call, spawned, waiting>>
    /\ CallUnchanged

-----------------------------------------------------------------------------
(* Cancellation.                                                           *)

\* The signal of batch b is aborted; a queued request is rejected.
Abort(b) ==
    /\ request[b] \in {"new", "queued", "running"}
    /\ b \notin aborted
    /\ aborted' = aborted \cup {b}
    /\ IF request[b] = "queued"
       THEN /\ request' = [request EXCEPT ![b] = "rejected"]
            /\ \E i \in DOMAIN requestQueue :
                 /\ requestQueue[i] = b
                 /\ requestQueue' = RemoveAt(requestQueue, i)
       ELSE UNCHANGED <<request, requestQueue>>
    /\ UNCHANGED <<sm, phase, cur, cancelling, spawned, waiting, call, struck>>

\* The promises of the dropped requests forgotten.
BugCancelAll ==
    /\ ~ cancelling
    /\ cancelling' = TRUE
    /\ aborted' = IF CancelFiresAbort /\ cur # None THEN aborted \cup {cur}
                  ELSE aborted
    /\ requestQueue' = << >>
    /\ sm' = CancelAllQueued(UpdateAll(sm, Pending(sm), "cancelled"))
    /\ struck' = struck \cup Pending(sm) \cup ToSet(sm.queue)
    /\ UNCHANGED <<phase, cur, request, spawned, waiting, call>>

\* cancelAll, after the abort of the batch in progress if the caller fires it.
CancelAll ==
    /\ ~ cancelling
    /\ cancelling' = TRUE
    /\ aborted' = IF CancelFiresAbort /\ cur # None THEN aborted \cup {cur}
                  ELSE aborted
    /\ request' = [b \in Batch |-> IF b \in ToSet(requestQueue)
                                   THEN "rejected" ELSE request[b]]
    /\ requestQueue' = << >>
    /\ sm' = CancelAllQueued(UpdateAll(sm, Pending(sm), "cancelled"))
    /\ struck' = struck \cup Pending(sm) \cup ToSet(sm.queue)
    /\ UNCHANGED <<phase, cur, spawned, waiting, call>>

-----------------------------------------------------------------------------

\* The steps the event loop makes on its own.
CallStep(c) ==
    \/ HookDone(c) \/ PolicyDone(c) \/ Unneeded(c) \/ AskUser(c)
    \/ EditorDone(c) \/ InlineDone(c) \/ Conclude(c) \/ Throw(c)
    \/ \E r \in Result \ {"none"} : ToolDone(c, r)
    \/ Recorded(c) \/ TailCalled(c)
    \/ ExpansionAsked(c) \/ ExpansionAnswered(c)

Loop == LoopTop \/ JoinValidation \/ JoinExecution \/ Finish

\* Every request has been settled and nothing is left to do.
Done ==
    /\ \A b \in Batch : request[b] \in {"resolved", "rejected"}
    /\ cur = None
    /\ UNCHANGED vars

Next ==
    \/ Loop
    \/ \E c \in Call : CallStep(c)
    \/ \E c \in Call, r \in Responses : Respond(c, r)
    \/ \E c \in Call : Output(c)
    \/ \E b \in Batch : Schedule(b) \/ Abort(b)
    \/ CancelAll
    \/ Done

Spec == Init /\ [][Next]_vars

\* The event loop keeps turning; every tool in the end returns a result of
\* its own; and a user who is shown a question in the end answers it.
Fairness ==
    /\ WF_vars(Loop)
    /\ \A c \in Call :
         /\ WF_vars(CallStep(c))
         /\ SF_vars(\E r \in Terminal : ToolDone(c, r))
         /\ SF_vars(/\ sm.status[c] = "awaiting_approval"
                    /\ \E r \in {"proceed", "cancel"} : Respond(c, r))

FairSpec == Spec /\ Fairness

-----------------------------------------------------------------------------
(* What the scheduler owes its callers.                                    *)

BatchSet(b) == ToSet(BatchCalls[b])

\* The results schedule() resolves with are complete: when the loop of a
\* batch is over, every call of it, and no other, is reported exactly once,
\* with a final status (_startBatch returns completedBatch).
ReportIsComplete ==
    phase = "finishing" =>
        /\ sm.queue = << >> /\ sm.active = {}
        /\ \A c \in Call :
             /\ sm.completed[c] = IF c \in BatchSet(cur) THEN 1 ELSE 0
             /\ c \in BatchSet(cur) => sm.status[c] \in Terminal

\* The results that the turn of the current batch brings: those reported
\* exactly once, with a final status.
Reported ==
    {c \in Call : /\ phase = "finishing"
                  /\ sm.completed[c] = 1
                  /\ sm.status[c] \in Terminal}

Service == INSTANCE ToolBatchService WITH
    Members  <- [b \in Batch |-> BatchSet(b)],
    line     <- requestQueue,
    turn     <- cur,
    reported <- Reported

\* The scheduler is the service that ToolBatchService describes: batches are
\* served one at a time and in order of arrival, those that wait keep their
\* places when others are aborted, each promise is settled once, and
\* schedule() resolves with the results of exactly its own calls (schedule,
\* _startBatch, _processNextInRequestQueue).
ImplementsService == Service!Spec

\* Between two batches nothing is left behind: neither a request that nobody
\* will pick up nor a call that makes every later schedule() queue up
\* (_processNextInRequestQueue and the isActive test of schedule).
NothingStranded ==
    cur = None => requestQueue = << >> /\ sm.active = {}

\* A tool runs only with arguments that policy allowed as they are, that the
\* tool itself exempted, or that the user saw or wrote: hooks, edits, sandbox
\* expansions and tail calls cannot slip arguments past that.
RunsVettedArguments ==
    \A c \in Call : At(c, "tool") => call[c].args \in call[c].vetted

\* A call the policy engine denied is never run.
PolicyDenialHolds ==
    \A c \in Call : At(c, "tool") => call[c].decision # "deny"

\* No tool starts, or starts again, once its batch was aborted or a cancelAll
\* cancelled the call.
NoStartAfterCancel ==
    [][\A c \in Call : ~ At(c, "tool") /\ At(c, "tool")' =>
            cur \notin aborted /\ c \notin struck]_vars

Before(c, d) ==
    LET order == TopicFirst(BatchCalls[cur])
    IN  \E i, j \in DOMAIN order : i < j /\ order[i] = c /\ order[j] = d

\* A call that asks to wait for the previous ones runs when all of them,
\* their tail calls included, have been reported, even if it is by then a tail
\* call that does not ask; and whatever asks to wait runs alone.
WaitsForPrevious ==
    \A d \in Call : At(d, "tool") =>
        /\ call[d].waits => \A c \in Call \ {d} : At(c, "idle")
        /\ d \in Waits =>
              \A c \in Call : Before(c, d) =>
                  c \notin sm.active \cup ToSet(sm.queue)

\* The topic of a batch is updated no later than the wave it opens: no other
\* call runs while an update_topic call is still queued.
TopicLeads ==
    \A c \in Call \ Topic : At(c, "tool") => ToSet(sm.queue) \cap Topic = {}

\* An iteration that is not the last finds no active calls but those that a
\* late output has revived: no call can be left half-validated and never
\* looked at again (the "stuck state" at the end of _processNextItem).
OnlyRevivedLinger ==
    phase = "top" /\ ~ cancelling =>
        \A c \in sm.active : sm.status[c] = "executing"

\* When the user refuses a call the whole batch is cancelled: no other call
\* of it is run afterwards.
DenialCascades ==
    (\E c \in Call : /\ cur # None /\ c \in BatchSet(cur)
                     /\ call[c].answer = "cancel"
                     /\ sm.status[c] = "cancelled")
        => \A d \in Call : ~ At(d, "tool")

\* What the user edited is what runs: the arguments of a call were made for
\* that call, and an inline edit has been applied.
EditsStayWithTheirCall ==
    \A c \in Call : At(c, "tool") =>
        /\ call[c].args.of = c
        /\ call[c].answer = "edited" => call[c].args.by = "user"

\* While a call waits for the user, the owner of the scheduler has been told
\* so; an agent stops its deadline for that time.
WaitingIsSignalled ==
    (\E c \in Call : At(c, "answer")) => waiting

\* Where there is no user, nothing waits for one: what needs confirmation is
\* refused.
HeadlessAsksNobody ==
    ~ Interactive => \A c \in Call : ~ At(c, "answer")

\* The promise of every schedule() is settled in the end.
EveryScheduleSettles ==
    \A b \in Batch : request[b] \in {"queued", "running"} ~>
                     request[b] \in {"resolved", "rejected"}

=============================================================================
