------------------------- MODULE ExecutionLifecycle -------------------------
(***************************************************************************)
(* The life of a shell command: core/src/services/                         *)
(* executionLifecycleService.ts and shellExecutionService.ts, with the     *)
(* shell tool (core/src/tools/shell.ts) that starts commands for the model *)
(* and the list of background tasks of the interface                       *)
(* (cli/src/ui/hooks/useExecutionLifecycle.ts and shellReducer.ts), where  *)
(* the user starts some as well.                                           *)
(*                                                                         *)
(* The promise of a command is settled by whichever comes first: the end   *)
(* of its process, a kill, or its move to the background, by the timer of  *)
(* the tool or by the user.  A command in the background is followed up by *)
(* a notice to the model, an entry in the list, a log and a history.       *)
(*                                                                         *)
(* A run stands for a command and for the id of its process, which is      *)
(* taken to be unique.  What a promise sets off without waiting for a      *)
(* timer, a stream or a file belongs to the step that settles it.          *)
(***************************************************************************)
EXTENDS SequencesExt, Integers

CONSTANTS
    Run,            \* shell commands
    Typed,          \* those the user typed; the others are tool calls
    Detached,       \* tool calls with is_background
    Pty,            \* commands in a pseudo terminal; the others are children
    Silent,         \* commands whose completion behaviour is "silent"
    MaxHistory      \* MAX_BACKGROUND_PROCESS_HISTORY_SIZE

ASSUME LifecycleAssumption ==
    /\ Typed \subseteq Run
    /\ Detached \subseteq Run \ Typed
    /\ MaxHistory \in Nat \ {0}

VARIABLES
    tool,           \* where the invocation that started the command is
    reply,          \* what it reported
    aborted,        \* commands whose signal is aborted, that of the tool which
                    \* combines the caller's with its own
    cancelled,      \* those whose caller aborted
    proc,           \* the process, and the handling of its end
    doomed,         \* processes that were sent a signal to kill them
    active,         \* keys of activeExecutions
    resolvers,      \* keys of activeResolvers
    backgrounded,   \* executions with the flag of that name
    result,         \* what the promise of the execution was settled with
    notices,        \* injections about the completion of the command
    exitInfo,       \* exitedExecutionInfo, with how the execution ended
    entries,        \* keys of activePtys and activeChildProcesses
    streams,        \* keys of backgroundLogStreams
    closing,        \* streams that the end of the process is closing
    killing,        \* streams that a kill is closing
    history,        \* keys of backgroundProcessHistory, oldest first
    running,        \* those whose status is "running"
    listed,         \* backgroundTasks of the interface
    watch,          \* how the interface listens to the exit
    registered      \* tool calls that it registered when they completed

toolVars == <<tool, reply, aborted, cancelled>>
procVars == <<proc, doomed>>
serviceVars == <<active, resolvers, backgrounded, result, notices, exitInfo>>
shellVars == <<entries, streams, closing, killing, history, running>>
taskVars == <<listed, watch, registered>>
vars == <<toolVars, procVars, serviceVars, shellVars, taskVars>>

-----------------------------------------------------------------------------

Phase == {"new", "preparing", "delaying", "waiting", "reporting", "done"}

Reply == {"none", "failed", "exit", "cancelled", "background"}

Process == {"none", "alive", "dead", "draining", "over"}

Result == {"pending", "exit", "aborted", "background"}

ServiceTypeOK ==
    /\ active \subseteq Run
    /\ resolvers \subseteq Run
    /\ backgrounded \subseteq Run
    /\ result \in [Run -> Result]
    /\ notices \in [Run -> Nat]
    /\ exitInfo \in [Run -> {"none", "exit", "aborted", "expired"}]

ShellTypeOK ==
    /\ entries \subseteq Run
    /\ streams \subseteq Run
    /\ closing \subseteq Run
    /\ killing \subseteq Run
    /\ history \in Seq(Run)
    /\ running \subseteq Run

\* Every variable has its type.
TypeOK ==
    /\ tool \in [Run -> Phase]
    /\ reply \in [Run -> Reply]
    /\ aborted \subseteq Run
    /\ cancelled \subseteq Run
    /\ proc \in [Run -> Process]
    /\ doomed \subseteq Run
    /\ ServiceTypeOK
    /\ ShellTypeOK
    /\ listed \in [Run -> {"no", "running", "exited"}]
    /\ watch \in [Run -> {"none", "announced", "completed"}]
    /\ registered \subseteq Run

Init ==
    /\ tool = [r \in Run |-> "new"]
    /\ reply = [r \in Run |-> "none"]
    /\ aborted = {}
    /\ cancelled = {}
    /\ proc = [r \in Run |-> "none"]
    /\ doomed = {}
    /\ active = {}
    /\ resolvers = {}
    /\ backgrounded = {}
    /\ result = [r \in Run |-> "pending"]
    /\ notices = [r \in Run |-> 0]
    /\ exitInfo = [r \in Run |-> "none"]
    /\ entries = {}
    /\ streams = {}
    /\ closing = {}
    /\ killing = {}
    /\ history = << >>
    /\ running = {}
    /\ listed = [r \in Run |-> "no"]
    /\ watch = [r \in Run |-> "none"]
    /\ registered = {}

-----------------------------------------------------------------------------
(* ExecutionLifecycleService                                               *)

\* The promise taken to be open.
BugResolve(r, how) ==
    /\ result' = [result EXCEPT ![r] = how]
    /\ resolvers' = resolvers \ {r}

\* resolvePending
Resolve(r, how) ==
    /\ result' = IF r \in resolvers THEN [result EXCEPT ![r] = how] ELSE result
    /\ resolvers' = resolvers \ {r}

\* An abort or a kill injected as well.
BugInjects(r, how) == r \in backgrounded /\ r \notin Silent

\* A completion that is injected: of a command in the background that was
\* neither aborted nor killed.
Injects(r, how) == r \in backgrounded /\ how # "aborted" /\ r \notin Silent

\* settleExecution
Settle(r, how) ==
    IF r \notin active
    THEN UNCHANGED <<active, resolvers, result, notices, exitInfo>>
    ELSE /\ notices' = IF Injects(r, how)
                       THEN [notices EXCEPT ![r] = @ + 1] ELSE notices
         /\ Resolve(r, how)
         /\ active' = active \ {r}
         /\ exitInfo' = [exitInfo EXCEPT ![r] = how]

\* The exit event of an execution that ends.  The first listener of the
\* interface runs, and unsubscribes the one that the completion of the call
\* may have added.  It dismisses the task, unless the behaviour that it was
\* registered with is "silent".
ExitIsHeard(r) ==
    listed' = IF r \notin active \/ watch[r] = "none" \/ listed[r] = "no"
              THEN listed
              ELSE IF watch[r] = "announced" /\ r \in Silent
              THEN [listed EXCEPT ![r] = "exited"]
              ELSE [listed EXCEPT ![r] = "no"]

\* kill: the hook of the execution signals the process, and the execution is
\* over at once.
Kill(r) ==
    /\ doomed' = IF r \in active THEN doomed \cup {r} ELSE doomed
    /\ Settle(r, "aborted")
    /\ UNCHANGED backgrounded

\* background, without effect once the promise is settled.  Its listeners
\* register a task in the interface unless the interface asked for this.
Background(r, announce) ==
    /\ Resolve(r, "background")
    /\ backgrounded' = IF r \in resolvers THEN backgrounded \cup {r}
                       ELSE backgrounded
    /\ listed' = IF announce /\ r \in resolvers
                 THEN [listed EXCEPT ![r] = "running"] ELSE listed
    /\ watch' = IF announce /\ r \in resolvers
                THEN [watch EXCEPT ![r] = "announced"] ELSE watch
    /\ UNCHANGED <<active, notices, exitInfo, registered>>

-----------------------------------------------------------------------------
(* ShellExecutionService                                                   *)

\* background: an entry in the history, a log, and the promise is settled.
\* A history that is full loses its oldest entry, even for one it has.
ShellBackground(r, announce) ==
    LET kept == IF Len(history) >= MaxHistory THEN Tail(history) ELSE history
    IN  /\ history' = IF r \in ToSet(kept) THEN kept ELSE Append(kept, r)
        /\ running' = (running \cap ToSet(kept)) \cup {r}
        /\ streams' = streams \cup {r}
        /\ UNCHANGED <<entries, closing, killing>>
        /\ Background(r, announce)

\* The record in the history left as it is.
BugProcessIsOver(r) ==
    /\ proc' = [proc EXCEPT ![r] = "over"]
    /\ running' = running
    /\ IF r \in streams
       THEN closing' = closing \cup {r} /\ UNCHANGED entries
       ELSE entries' = entries \ {r} /\ UNCHANGED closing
    /\ Settle(r, IF r \in aborted THEN "aborted" ELSE "exit")
    /\ ExitIsHeard(r)
    /\ UNCHANGED <<toolVars, doomed, backgrounded, streams, killing, history,
                   watch, registered>>

\* The promise left to whoever aborted.
BugProcessIsOverSilently(r) ==
    /\ proc' = [proc EXCEPT ![r] = "over"]
    /\ running' = running \ {r}
    /\ IF r \in streams
       THEN closing' = closing \cup {r} /\ UNCHANGED entries
       ELSE entries' = entries \ {r} /\ UNCHANGED closing
    /\ IF r \in aborted
       THEN UNCHANGED <<active, resolvers, result, notices, exitInfo>>
       ELSE Settle(r, "exit")
    /\ ExitIsHeard(r)
    /\ UNCHANGED <<toolVars, doomed, backgrounded, streams, killing, history,
                   watch, registered>>

\* The end of the process, in handleExit and in finalize.
ProcessIsOver(r) ==
    /\ proc' = [proc EXCEPT ![r] = "over"]
    /\ running' = running \ {r}
    /\ IF r \in streams
       THEN closing' = closing \cup {r} /\ UNCHANGED entries
       ELSE entries' = entries \ {r} /\ UNCHANGED closing
    /\ Settle(r, IF r \in aborted THEN "aborted" ELSE "exit")
    /\ ExitIsHeard(r)
    /\ UNCHANGED <<toolVars, doomed, backgrounded, streams, killing, history,
                   watch, registered>>

-----------------------------------------------------------------------------
(* A command is started.                                                   *)

\* The tool is called; execute awaits what it needs to spawn a process.
Call(r) ==
    /\ tool[r] = "new"
    /\ tool' = [tool EXCEPT ![r] = "preparing"]
    /\ UNCHANGED <<reply, aborted, cancelled, procVars, serviceVars, shellVars,
                   taskVars>>

\* The process is spawned and attached.  A signal that was aborted before is
\* not noticed.
Attach(r) ==
    /\ tool[r] = "preparing"
    /\ tool' = [tool EXCEPT ![r] = IF r \in Detached THEN "delaying"
                                   ELSE "waiting"]
    /\ proc' = [proc EXCEPT ![r] = "alive"]
    /\ active' = active \cup {r}
    /\ resolvers' = resolvers \cup {r}
    /\ entries' = entries \cup {r}
    /\ exitInfo' = [exitInfo EXCEPT ![r] = "none"]
    /\ UNCHANGED <<reply, aborted, cancelled, doomed, backgrounded, result,
                   notices, streams, closing, killing, history, running,
                   taskVars>>

\* The command cannot be spawned.
SpawnFails(r) ==
    /\ tool[r] = "preparing"
    /\ tool' = [tool EXCEPT ![r] = "done"]
    /\ reply' = [reply EXCEPT ![r] = "failed"]
    /\ UNCHANGED <<aborted, cancelled, procVars, serviceVars, shellVars,
                   taskVars>>

\* The tool listens to aborts until it has reported.
Listens(r) == tool[r] \in {"preparing", "delaying", "waiting", "reporting"}

\* The first abort of the tool's signal kills the process.
Strike(r) ==
    /\ aborted' = aborted \cup {r}
    /\ doomed' = IF proc[r] = "alive" /\ r \notin aborted
                 THEN doomed \cup {r} ELSE doomed
    /\ UNCHANGED <<tool, reply, proc, serviceVars, shellVars, taskVars>>

\* The user cancels.
Abort(r) ==
    /\ Listens(r)
    /\ r \notin cancelled
    /\ cancelled' = cancelled \cup {r}
    /\ Strike(r)

\* A tool call was silent for too long; its caller's signal is not aborted.
TimeOut(r) ==
    /\ Listens(r)
    /\ r \notin Typed \cup aborted
    /\ UNCHANGED cancelled
    /\ Strike(r)

-----------------------------------------------------------------------------
(* Its process ends.                                                       *)

Die(r) ==
    /\ proc[r] = "alive"
    /\ proc' = [proc EXCEPT ![r] = "dead"]
    /\ UNCHANGED <<toolVars, doomed, serviceVars, shellVars, taskVars>>

\* The exit of a pseudo terminal waits for its output, unless it is aborted.
Drain(r) ==
    /\ r \in Pty \ aborted
    /\ proc[r] = "dead"
    /\ proc' = [proc EXCEPT ![r] = "draining"]
    /\ UNCHANGED <<toolVars, doomed, serviceVars, shellVars, taskVars>>

Exit(r) ==
    /\ \/ proc[r] = "draining"
       \/ proc[r] = "dead" /\ r \notin Pty \ aborted
    /\ ProcessIsOver(r)

\* cleanupLogStream, called at the end of the process, is done.
LogCloses(r) ==
    /\ r \in closing
    /\ closing' = closing \ {r}
    /\ streams' = streams \ {r}
    /\ entries' = entries \ {r}
    /\ UNCHANGED <<toolVars, procVars, serviceVars, killing, history, running,
                   taskVars>>

\* EXIT_INFO_TTL_MS after the end.
ExitInfoExpires(r) ==
    /\ exitInfo[r] \in {"exit", "aborted"}
    /\ exitInfo' = [exitInfo EXCEPT ![r] = "expired"]
    /\ UNCHANGED <<toolVars, procVars, active, resolvers, backgrounded, result,
                   notices, shellVars, taskVars>>

-----------------------------------------------------------------------------
(* The tool goes on.                                                       *)

\* An aborted command left alone.
BugDelayEnds(r) ==
    /\ tool[r] = "delaying"
    /\ tool' = [tool EXCEPT ![r] = "waiting"]
    /\ IF r \in aborted
       THEN UNCHANGED <<serviceVars, shellVars, taskVars>>
       ELSE ShellBackground(r, TRUE)
    /\ UNCHANGED <<reply, aborted, cancelled, procVars>>

\* The delay of a detached command is over: it is sent to the background,
\* whatever became of it, and its promise awaited, which is settled by then.
DelayEnds(r) ==
    /\ tool[r] = "delaying"
    /\ tool' = [tool EXCEPT ![r] = "reporting"]
    /\ ShellBackground(r, TRUE)
    /\ UNCHANGED <<reply, aborted, cancelled, procVars>>

\* The promise is settled, and the tool looks for what the command left.
ResultComes(r) ==
    /\ tool[r] = "waiting"
    /\ result[r] # "pending"
    /\ tool' = [tool EXCEPT ![r] = "reporting"]
    /\ UNCHANGED <<reply, aborted, cancelled, procVars, serviceVars, shellVars,
                   taskVars>>

\* The outcome of the execution taken for that of the tool.
BugReport(r) ==
    /\ tool[r] = "reporting"
    /\ tool' = [tool EXCEPT ![r] = "done"]
    /\ reply' = [reply EXCEPT ![r] = result[r]]
    /\ UNCHANGED <<aborted, cancelled, procVars, serviceVars, shellVars,
                   taskVars>>

\* The tool reports, and no longer forwards an abort.
Report(r) ==
    /\ tool[r] = "reporting"
    /\ tool' = [tool EXCEPT ![r] = "done"]
    /\ reply' = [reply EXCEPT ![r] =
                    IF result[r] = "aborted" THEN "cancelled"
                    ELSE IF r \in Detached \/ result[r] = "background"
                    THEN "background" ELSE "exit"]
    /\ UNCHANGED <<aborted, cancelled, procVars, serviceVars, shellVars,
                   taskVars>>

-----------------------------------------------------------------------------
(* The user and the list of background tasks.                              *)

\* Ctrl+B on the command in the foreground.  That of the user is sent to the
\* background by the shell service, which needs its entry to know the
\* session; a tool call by the lifecycle service alone.
PressCtrlB(r) ==
    /\ \/ tool[r] = "delaying"
       \/ tool[r] = "waiting" /\ result[r] = "pending"
       \/ tool[r] = "reporting" /\ r \notin Typed
    /\ IF r \in Typed
       THEN r \in entries /\ ShellBackground(r, FALSE)
       ELSE Background(r, FALSE) /\ UNCHANGED shellVars
    /\ UNCHANGED <<toolVars, procVars>>

\* The end of the command not looked up.
BugRegister(r) ==
    /\ reply[r] = "background"
    /\ r \notin registered
    /\ r \in cancelled => r \in Typed
    /\ registered' = registered \cup {r}
    /\ listed' = IF listed[r] = "no" THEN [listed EXCEPT ![r] = "running"]
                 ELSE listed
    /\ watch' = IF r \in active /\ watch[r] = "none"
                THEN [watch EXCEPT ![r] = "completed"] ELSE watch
    /\ UNCHANGED <<toolVars, procVars, serviceVars, shellVars>>

\* registerBackgroundTask, when the call completed and reported that it is in
\* the background; a tool call that was cancelled did not complete, one that
\* timed out did.  The end of the command may have come before, and is then
\* looked up.
Register(r) ==
    /\ reply[r] = "background"
    /\ r \notin registered
    /\ r \in cancelled => r \in Typed
    /\ registered' = registered \cup {r}
    /\ listed' = IF r \notin active /\ exitInfo[r] # "expired"
                 THEN [listed EXCEPT ![r] = "no"]
                 ELSE IF listed[r] = "no" THEN [listed EXCEPT ![r] = "running"]
                 ELSE listed
    /\ watch' = IF r \in active /\ watch[r] = "none"
                THEN [watch EXCEPT ![r] = "completed"] ELSE watch
    /\ UNCHANGED <<toolVars, procVars, serviceVars, shellVars>>

\* dismissBackgroundTask.  The hook of a child removes its entry.
Dismiss(r) ==
    /\ listed[r] # "no"
    /\ IF listed[r] = "running"
       THEN /\ Kill(r)
            /\ entries' = IF r \in active \ Pty THEN entries \ {r} ELSE entries
       ELSE UNCHANGED <<doomed, serviceVars, entries>>
    /\ listed' = [listed EXCEPT ![r] = "no"]
    /\ UNCHANGED <<toolVars, proc, streams, closing, killing, history, running,
                   watch, registered>>

\* The interface exits or resumes another session: ShellExecutionService.kill
\* for what is listed, which closes the log first.
CloseTask(r) ==
    /\ listed[r] # "no"
    /\ r \notin killing
    /\ IF r \in streams
       THEN /\ killing' = killing \cup {r}
            /\ UNCHANGED <<doomed, serviceVars, entries, listed>>
       ELSE /\ Kill(r)
            /\ ExitIsHeard(r)
            /\ entries' = entries \ {r}
            /\ UNCHANGED killing
    /\ UNCHANGED <<toolVars, proc, streams, closing, history, running, watch,
                   registered>>

\* The log is closed, and the execution killed.
CloseDone(r) ==
    /\ r \in killing
    /\ killing' = killing \ {r}
    /\ streams' = streams \ {r}
    /\ entries' = entries \ {r}
    /\ Kill(r)
    /\ ExitIsHeard(r)
    /\ UNCHANGED <<toolVars, proc, closing, history, running, watch,
                   registered>>

-----------------------------------------------------------------------------

Next == \E r \in Run :
    \/ Call(r) \/ Attach(r) \/ SpawnFails(r) \/ Abort(r) \/ TimeOut(r)
    \/ Die(r) \/ Drain(r) \/ Exit(r) \/ LogCloses(r) \/ ExitInfoExpires(r)
    \/ DelayEnds(r) \/ ResultComes(r) \/ Report(r)
    \/ PressCtrlB(r) \/ Register(r) \/ Dismiss(r)
    \/ CloseTask(r) \/ CloseDone(r)

Spec == Init /\ [][Next]_vars

\* The event loop gets round to what is due, and a process that was sent
\* SIGKILL dies.
FairSpec ==
    /\ Spec
    /\ \A r \in Run :
          /\ WF_vars(DelayEnds(r)) /\ WF_vars(ResultComes(r))
          /\ WF_vars(Report(r)) /\ WF_vars(Drain(r)) /\ WF_vars(Exit(r))
          /\ WF_vars(r \in doomed /\ Die(r))

-----------------------------------------------------------------------------
(* What a command promises.                                                *)

\* The promise of a command that was started is settled, or will be when its
\* process ends: the end is yet to come, and will find the execution and its
\* resolver.
PromiseIsOwed ==
    \A r \in Run :
        proc[r] # "none" /\ result[r] = "pending" =>
            r \in active \cap resolvers /\ proc[r] # "over"

\* The end of a command is told at most once, by the reply of its tool or by a
\* notice.  A notice is of a command that went to the background, ended there by
\* itself and is not silent, and there is one of each of these.  An end that
\* came before the command went to the background is in the reply, unless the
\* command is detached: the reply of such a one says, if it was not aborted,
\* that it was moved to the background, and no notice follows.
ToldOnce ==
    \A r \in Run :
        /\ notices[r] \in {0, 1}
        /\ notices[r] = 1 =>
             /\ result[r] = "background"
             /\ r \notin active \cup Silent
             /\ exitInfo[r] # "aborted"
             /\ reply[r] \notin {"exit", "cancelled"}
        /\ result[r] = "background" /\ exitInfo[r] = "exit" /\ r \notin Silent
             => notices[r] = 1
        /\ tool[r] = "done" /\ result[r] = "aborted" => reply[r] = "cancelled"
        /\ tool[r] = "done" /\ result[r] = "exit"
             => reply[r] = "exit" \/ r \in Detached

\* A task that is listed as running runs and its exit is listened to; or it
\* was listed so late that its exit info had expired.
ListedIsWatched ==
    \A r \in Run :
        listed[r] = "running" =>
            \/ r \in active /\ watch[r] # "none"
            \/ exitInfo[r] = "expired"

\* What a process leaves when all is said and done: a log that no one closes,
\* or a record that says it is running.
LeftBehind(r) ==
    /\ proc[r] = "over"
    /\ r \in running \/ r \in streams \ (closing \cup killing)

\* Only a detached command whose delay ended after the command did, or that
\* was in the background by then, leaves anything behind.
OnlyTheDelayLeaves ==
    \A r \in Run : LeftBehind(r) => r \in Detached /\ watch[r] # "announced"

\* A detached command never holds up its tool, even if it never ends.
DetachedReturns ==
    \A r \in Run : tool[r] = "delaying" ~> tool[r] = "done"

\* A command that was killed or aborted lets its tool return.
KilledReturns ==
    \A r \in Run : r \in doomed ~> tool[r] = "done"

Phases == [r \in Run |->
              IF r \in active \cap resolvers THEN "running"
              ELSE IF r \in active THEN "background"
              ELSE IF proc[r] = "none" THEN "new" ELSE "over"]

Promise == INSTANCE ExecutionPromise WITH phase <- Phases

\* The life of a command keeps to the contract of ExecutionPromise.
ImplementsPromise == Promise!Spec

=============================================================================
