---------------------- MODULE ExecutionLifecycleProofs ----------------------
(***************************************************************************)
(* Proofs about ExecutionLifecycle: the types, that the promise of every   *)
(* command is owed, that the model is told of its end once, that what the  *)
(* interface lists is watched, that only the delay leaves anything behind, *)
(* and that the life of a command implements ExecutionPromise.             *)
(***************************************************************************)
EXTENDS ExecutionLifecycle, SequenceTheorems, TLAPS

\* A command that has not been started has left no trace.
Fresh(r) ==
    /\ tool[r] \in {"new", "preparing"} => proc[r] = "none"
    /\ proc[r] = "none" =>
         /\ r \notin active \cup resolvers \cup backgrounded
         /\ result[r] = "pending"
         /\ notices[r] = 0
         /\ exitInfo[r] = "none"

\* The entry of an execution, its resolver, its flag and its promise agree.
Agrees(r) ==
    /\ r \in resolvers => r \in active /\ result[r] = "pending"
    /\ r \in active \ resolvers => result[r] = "background"
    /\ r \in backgrounded <=> result[r] = "background"
    /\ r \in active => notices[r] = 0 /\ exitInfo[r] = "none"
    /\ r \notin active /\ proc[r] # "none" =>
         exitInfo[r] # "none" /\ result[r] # "pending"
    /\ proc[r] = "over" => r \notin active

Told(r) ==
    /\ notices[r] \in {0, 1}
    /\ notices[r] = 1 =>
         /\ result[r] = "background"
         /\ r \notin active \cup Silent
         /\ exitInfo[r] # "aborted"
    /\ result[r] = "background" /\ exitInfo[r] = "exit" /\ r \notin Silent
         => notices[r] = 1

Sound(r) == Fresh(r) /\ Agrees(r) /\ Told(r)

\* The inductive invariant.
IInv == TypeOK /\ \A r \in Run : Sound(r)

-----------------------------------------------------------------------------
(* Types                                                                   *)

\* The history stays a sequence of commands when one is recorded.
LEMMA HistoryType ==
    ASSUME history \in Seq(Run), NEW r \in Run,
           NEW kept,
           kept = IF Len(history) >= MaxHistory THEN Tail(history) ELSE history
    PROVE  (IF r \in ToSet(kept) THEN kept ELSE Append(kept, r)) \in Seq(Run)
  <1>1. kept \in Seq(Run)
    <2>1. CASE Len(history) >= MaxHistory
      <3>1. Len(history) # 0
        BY <2>1, LifecycleAssumption
      <3>2. history # << >>
        BY <3>1, EmptySeq
      <3> QED
        BY <2>1, <3>2, HeadTailProperties
    <2>2. CASE ~ (Len(history) >= MaxHistory)
      BY <2>2
    <2> QED
      BY <2>1, <2>2
  <1> QED
    BY <1>1, AppendProperties

LEMMA InitType == Init => TypeOK
  BY DEF Init, TypeOK, ServiceTypeOK, ShellTypeOK, Phase, Reply, Process,
         Result

\* Settling an execution keeps the types of the service.
LEMMA SettleType ==
    ASSUME TypeOK, NEW r \in Run, NEW how \in {"exit", "aborted"},
           Settle(r, how), UNCHANGED backgrounded
    PROVE  ServiceTypeOK'
  BY DEF TypeOK, ServiceTypeOK, Settle, Resolve, Result

\* So does sending it to the background, and the list stays well-formed.
LEMMA BackgroundType ==
    ASSUME TypeOK, NEW r \in Run, NEW announce \in BOOLEAN,
           Background(r, announce)
    PROVE  /\ ServiceTypeOK'
           /\ (listed \in [Run -> {"no", "running", "exited"}])'
           /\ (watch \in [Run -> {"none", "announced", "completed"}])'
           /\ (registered \subseteq Run)'
  BY DEF TypeOK, ServiceTypeOK, Background, Resolve, Result

LEMMA ShellBackgroundType ==
    ASSUME TypeOK, NEW r \in Run, NEW announce \in BOOLEAN,
           ShellBackground(r, announce)
    PROVE  ShellTypeOK'
  <1> DEFINE kept == IF Len(history) >= MaxHistory THEN Tail(history)
                     ELSE history
  <1>1. history' = IF r \in ToSet(kept) THEN kept ELSE Append(kept, r)
    BY DEF ShellBackground
  <1>2. history \in Seq(Run)
    BY DEF TypeOK, ShellTypeOK
  <1>3. (history \in Seq(Run))'
    <2> HIDE DEF kept
    <2> SUFFICES (IF r \in ToSet(kept) THEN kept ELSE Append(kept, r))
                     \in Seq(Run)
      BY <1>1
    <2>1. kept = IF Len(history) >= MaxHistory THEN Tail(history) ELSE history
      BY DEF kept
    <2> QED
      BY <1>2, <2>1, HistoryType
  <1>4. /\ (running \subseteq Run)'
        /\ (streams \subseteq Run)'
        /\ (entries \subseteq Run)'
        /\ (closing \subseteq Run)'
        /\ (killing \subseteq Run)'
    BY DEF TypeOK, ShellTypeOK, ShellBackground
  <1> QED
    BY <1>3, <1>4 DEF ShellTypeOK

LEMMA ExitIsHeardType ==
    ASSUME TypeOK, NEW r \in Run, ExitIsHeard(r)
    PROVE  (listed \in [Run -> {"no", "running", "exited"}])'
  BY DEF TypeOK, ExitIsHeard

\* Every step keeps the types.
LEMMA StepType ==
    ASSUME TypeOK, [Next]_vars
    PROVE  TypeOK'
  <1>1. CASE UNCHANGED vars
    BY <1>1 DEF TypeOK, ServiceTypeOK, ShellTypeOK, vars, toolVars, procVars,
                serviceVars, shellVars, taskVars
  <1>2. ASSUME NEW r \in Run,
               Call(r) \/ SpawnFails(r) \/ Abort(r) \/ TimeOut(r)
                 \/ Die(r) \/ Drain(r)
        PROVE  TypeOK'
    <2>1. ServiceTypeOK' /\ ShellTypeOK'
      BY <1>2 DEF TypeOK, ServiceTypeOK, ShellTypeOK, Call, SpawnFails,
                  Abort, TimeOut, Strike,
                  Die, Drain, serviceVars, shellVars
    <2>2. /\ (tool \in [Run -> Phase])' /\ (reply \in [Run -> Reply])'
          /\ (aborted \subseteq Run)' /\ (cancelled \subseteq Run)'
      BY <1>2 DEF TypeOK, Call, SpawnFails, Abort, TimeOut, Strike, Die, Drain,
                  toolVars,
                  Phase, Reply
    <2>3. (proc \in [Run -> Process])' /\ (doomed \subseteq Run)'
      BY <1>2 DEF TypeOK, Call, SpawnFails, Abort, TimeOut, Strike, Die, Drain,
                  procVars,
                  Process
    <2>4. UNCHANGED taskVars
      BY <1>2 DEF Call, SpawnFails, Abort, TimeOut, Strike, Die, Drain
    <2> QED
      BY <2>1, <2>2, <2>3, <2>4 DEF TypeOK, taskVars
  <1>10. ASSUME NEW r \in Run, Attach(r)
         PROVE  TypeOK'
    <2>1. (tool \in [Run -> Phase])' /\ (proc \in [Run -> Process])'
      BY <1>10 DEF TypeOK, Attach, Phase, Process
    <2>2. ServiceTypeOK'
      BY <1>10 DEF TypeOK, ServiceTypeOK, Attach
    <2>3. ShellTypeOK'
      BY <1>10 DEF TypeOK, ShellTypeOK, Attach
    <2> QED
      BY <1>10, <2>1, <2>2, <2>3 DEF TypeOK, Attach, taskVars
  <1>11. ASSUME NEW r \in Run, LogCloses(r)
         PROVE  TypeOK'
    BY <1>11 DEF TypeOK, ServiceTypeOK, ShellTypeOK, LogCloses, toolVars,
                 procVars, serviceVars, taskVars
  <1>12. ASSUME NEW r \in Run, ExitInfoExpires(r)
         PROVE  TypeOK'
    BY <1>12 DEF TypeOK, ServiceTypeOK, ShellTypeOK, ExitInfoExpires,
                 toolVars, procVars, shellVars, taskVars
  <1>3. ASSUME NEW r \in Run, ResultComes(r) \/ Report(r) \/ Register(r)
        PROVE  TypeOK'
    <2>1. UNCHANGED <<procVars, serviceVars, shellVars>>
      BY <1>3 DEF ResultComes, Report, Register
    <2>2. /\ (tool \in [Run -> Phase])' /\ (reply \in [Run -> Reply])'
          /\ (aborted \subseteq Run)' /\ (cancelled \subseteq Run)'
      BY <1>3 DEF TypeOK, ResultComes, Report, Register, toolVars, Phase,
                  Reply
    <2>3. /\ (listed \in [Run -> {"no", "running", "exited"}])'
          /\ (watch \in [Run -> {"none", "announced", "completed"}])'
          /\ (registered \subseteq Run)'
      <3>1. CASE Register(r)
        BY <3>1 DEF TypeOK, Register
      <3>2. CASE ResultComes(r) \/ Report(r)
        BY <3>2 DEF TypeOK, ResultComes, Report, taskVars
      <3> QED
        BY <1>3, <3>1, <3>2
    <2> QED
      BY <2>1, <2>2, <2>3 DEF TypeOK, ServiceTypeOK, ShellTypeOK, procVars,
                              serviceVars, shellVars
  <1>4. ASSUME NEW r \in Run, Exit(r)
        PROVE  TypeOK'
    <2>1. ServiceTypeOK'
      BY <1>4, SettleType DEF Exit, ProcessIsOver
    <2>2. (listed \in [Run -> {"no", "running", "exited"}])'
      BY <1>4, ExitIsHeardType DEF Exit, ProcessIsOver
    <2> QED
      BY <1>4, <2>1, <2>2 DEF TypeOK, ShellTypeOK, Exit, ProcessIsOver,
                              toolVars, Process
  <1>5. ASSUME NEW r \in Run, DelayEnds(r)
        PROVE  TypeOK'
    BY <1>5, BackgroundType, ShellBackgroundType
       DEF TypeOK, DelayEnds, ShellBackground, procVars, Phase
  <1>6. ASSUME NEW r \in Run, PressCtrlB(r)
        PROVE  TypeOK'
    <2>1. Background(r, FALSE)
      BY <1>6 DEF PressCtrlB, ShellBackground
    <2>2. ShellTypeOK'
      BY <1>6, ShellBackgroundType DEF PressCtrlB, TypeOK, ShellTypeOK,
                                       shellVars
    <2> QED
      BY <1>6, <2>1, <2>2, BackgroundType
         DEF TypeOK, PressCtrlB, toolVars, procVars
  <1>7. ASSUME NEW r \in Run, Dismiss(r)
        PROVE  TypeOK'
    <2>1. ServiceTypeOK'
      <3>1. CASE listed[r] = "running"
        BY <1>7, <3>1, SettleType DEF Dismiss, Kill
      <3>2. CASE listed[r] # "running"
        BY <1>7, <3>2 DEF Dismiss, serviceVars, TypeOK, ServiceTypeOK
      <3> QED
        BY <3>1, <3>2
    <2> QED
      BY <1>7, <2>1 DEF TypeOK, ShellTypeOK, Dismiss, Kill, toolVars
  <1>8. ASSUME NEW r \in Run, CloseTask(r)
        PROVE  TypeOK'
    <2>1. CASE r \in streams
      BY <1>8, <2>1 DEF TypeOK, ServiceTypeOK, ShellTypeOK, CloseTask,
                        toolVars, serviceVars
    <2>2. CASE r \notin streams
      <3>1. ServiceTypeOK'
        BY <1>8, <2>2, SettleType DEF CloseTask, Kill
      <3>2. (listed \in [Run -> {"no", "running", "exited"}])'
        BY <1>8, <2>2, ExitIsHeardType DEF CloseTask
      <3> QED
        BY <1>8, <2>2, <3>1, <3>2 DEF TypeOK, ShellTypeOK, CloseTask, Kill,
                                      toolVars
    <2> QED
      BY <2>1, <2>2
  <1>9. ASSUME NEW r \in Run, CloseDone(r)
        PROVE  TypeOK'
    <2>1. ServiceTypeOK'
      BY <1>9, SettleType DEF CloseDone, Kill
    <2>2. (listed \in [Run -> {"no", "running", "exited"}])'
      BY <1>9, ExitIsHeardType DEF CloseDone
    <2> QED
      BY <1>9, <2>1, <2>2 DEF TypeOK, ShellTypeOK, CloseDone, Kill, toolVars
  <1> QED
    BY <1>1, <1>2, <1>3, <1>4, <1>5, <1>6, <1>7, <1>8, <1>9, <1>10,
       <1>11, <1>12, Zenon DEF Next

-----------------------------------------------------------------------------
(* The inductive invariant                                                 *)

LEMMA InitSound == Init => \A r \in Run : Sound(r)
  BY DEF Init, Sound, Fresh, Agrees, Told

\* Steps that only move the tool, the process or the interface.
LEMMA QuietSound ==
    ASSUME IInv, UNCHANGED serviceVars,
           \A r \in Run : tool'[r] \in {"new", "preparing"} =>
                             tool[r] \in {"new", "preparing"},
           \A r \in Run : /\ proc'[r] = "none" <=> proc[r] = "none"
                          /\ proc'[r] = "over" <=> proc[r] = "over"
    PROVE  \A r \in Run : Sound(r)'
  BY DEF IInv, Sound, Fresh, Agrees, Told, serviceVars

\* The steps that settle an execution.
LEMMA SettleSound ==
    ASSUME IInv, NEW r \in Run, NEW how \in {"exit", "aborted"},
           Settle(r, how), UNCHANGED <<tool, backgrounded>>,
           \/ UNCHANGED proc
           \/ proc[r] # "none" /\ proc' = [proc EXCEPT ![r] = "over"]
    PROVE  \A q \in Run : Sound(q)'
  <1> SUFFICES ASSUME NEW q \in Run PROVE Sound(q)'
    OBVIOUS
  <1>1. CASE r \notin active
    BY <1>1 DEF IInv, TypeOK, Sound, Fresh, Agrees, Told, Settle
  <1>2. CASE r \in active /\ q # r
    BY <1>2 DEF IInv, TypeOK, ServiceTypeOK, Sound, Fresh, Agrees, Told,
                Settle, Resolve
  <1>3. CASE r \in active /\ q = r
    BY <1>3 DEF IInv, TypeOK, ServiceTypeOK, Sound, Fresh, Agrees, Told,
                Settle, Resolve, Injects
  <1> QED
    BY <1>1, <1>2, <1>3

\* The steps that send one to the background.
LEMMA BackgroundSound ==
    ASSUME IInv, NEW r \in Run, NEW announce \in BOOLEAN,
           Background(r, announce), UNCHANGED proc,
           \A q \in Run : tool'[q] \in {"new", "preparing"} =>
                             tool[q] \in {"new", "preparing"}
    PROVE  \A q \in Run : Sound(q)'
  BY DEF IInv, TypeOK, ServiceTypeOK, Sound, Fresh, Agrees, Told, Background,
         Resolve

LEMMA AttachSound ==
    ASSUME IInv, NEW r \in Run, Attach(r)
    PROVE  \A q \in Run : Sound(q)'
  BY DEF IInv, TypeOK, ServiceTypeOK, Sound, Fresh, Agrees, Told, Attach

LEMMA ExpirySound ==
    ASSUME IInv, NEW r \in Run, ExitInfoExpires(r)
    PROVE  \A q \in Run : Sound(q)'
  BY DEF IInv, TypeOK, ServiceTypeOK, Sound, Fresh, Agrees, Told,
         ExitInfoExpires, toolVars, procVars

\* Every step keeps every command sound.
LEMMA StepSound ==
    ASSUME IInv, [Next]_vars
    PROVE  \A q \in Run : Sound(q)'
  <1> USE DEF toolVars, procVars, serviceVars
  <1>1. CASE UNCHANGED vars
    BY <1>1, QuietSound DEF vars
  <1>2. ASSUME NEW r \in Run,
               Call(r) \/ SpawnFails(r) \/ Abort(r) \/ TimeOut(r)
                 \/ ResultComes(r) \/ Report(r)
        PROVE  \A q \in Run : Sound(q)'
    BY <1>2, QuietSound DEF IInv, TypeOK, Call, SpawnFails, Abort,
                            TimeOut, Strike, ResultComes, Report
  <1>3. ASSUME NEW r \in Run,
               Die(r) \/ Drain(r) \/ LogCloses(r) \/ Register(r)
        PROVE  \A q \in Run : Sound(q)'
    BY <1>3, QuietSound DEF IInv, TypeOK, Die, Drain, LogCloses, Register
  <1>4. ASSUME NEW r \in Run, Exit(r)
        PROVE  \A q \in Run : Sound(q)'
    BY <1>4, SettleSound DEF Exit, ProcessIsOver
  <1>5. ASSUME NEW r \in Run, DelayEnds(r)
        PROVE  \A q \in Run : Sound(q)'
    BY <1>5, BackgroundSound DEF IInv, TypeOK, DelayEnds, ShellBackground
  <1>6. ASSUME NEW r \in Run, PressCtrlB(r)
        PROVE  \A q \in Run : Sound(q)'
    BY <1>6, BackgroundSound DEF PressCtrlB, ShellBackground
  <1>7. ASSUME NEW r \in Run, Dismiss(r)
        PROVE  \A q \in Run : Sound(q)'
    <2>1. CASE listed[r] = "running"
      BY <1>7, <2>1, SettleSound DEF Dismiss, Kill
    <2>2. CASE listed[r] # "running"
      BY <1>7, <2>2, QuietSound DEF Dismiss
    <2> QED
      BY <2>1, <2>2
  <1>8. ASSUME NEW r \in Run, CloseTask(r)
        PROVE  \A q \in Run : Sound(q)'
    <2>1. CASE r \in streams
      BY <1>8, <2>1, QuietSound DEF CloseTask
    <2>2. CASE r \notin streams
      BY <1>8, <2>2, SettleSound DEF CloseTask, Kill
    <2> QED
      BY <2>1, <2>2
  <1>9. ASSUME NEW r \in Run, CloseDone(r)
        PROVE  \A q \in Run : Sound(q)'
    BY <1>9, SettleSound DEF CloseDone, Kill
  <1> QED
    BY <1>1, <1>2, <1>3, <1>4, <1>5, <1>6, <1>7, <1>8, <1>9, AttachSound,
       ExpirySound, Zenon DEF Next

\* IInv is an inductive invariant of the specification.
THEOREM Inductive == Spec => []IInv
  <1>1. Init => IInv
    BY InitType, InitSound DEF IInv
  <1>2. IInv /\ [Next]_vars => IInv'
    BY StepType, StepSound DEF IInv
  <1> QED
    BY <1>1, <1>2, PTL DEF Spec

\* Every variable has its type (the state that executionLifecycleService.ts,
\* shellExecutionService.ts and the interface keep of a command).
THEOREM TypeCorrect == Spec => []TypeOK
  <1>1. IInv => TypeOK
    BY DEF IInv
  <1> QED
    BY <1>1, Inductive, PTL

\* The promise that attachExecution returned is settled, or the end of the
\* process is yet to come and will settle it.
THEOREM PromiseStaysOwed == Spec => []PromiseIsOwed
  <1>1. IInv => PromiseIsOwed
    BY DEF IInv, Sound, Agrees, PromiseIsOwed
  <1> QED
    BY <1>1, Inductive, PTL

-----------------------------------------------------------------------------
(* What the model is told                                                  *)

\* The reply of a tool is about a promise that is settled, unless the command
\* was never started, and keeps to what the promise was settled with.
Reported(r) ==
    /\ tool[r] \in {"delaying", "waiting", "reporting"} => proc[r] # "none"
    /\ tool[r] = "reporting" => result[r] # "pending"
    /\ tool[r] = "done" => proc[r] = "none" \/ result[r] # "pending"
    /\ reply[r] = "exit" => result[r] = "exit"
    /\ reply[r] = "cancelled" => result[r] = "aborted"
    /\ tool[r] = "done" /\ result[r] = "aborted" => reply[r] = "cancelled"
    /\ tool[r] = "done" /\ result[r] = "exit"
         => reply[r] = "exit" \/ r \in Detached

RInv == IInv /\ \A r \in Run : Reported(r)

\* No step changes what a promise was settled with, or settles that of a
\* command that was not started.
Keeps(q) ==
    result[q] # "pending" \/ proc[q] = "none" => result'[q] = result[q]

LEMMA SettleKeeps ==
    ASSUME IInv, NEW r \in Run, NEW how, Settle(r, how), NEW q \in Run
    PROVE  Keeps(q)
  BY DEF IInv, TypeOK, ServiceTypeOK, Sound, Fresh, Agrees, Settle, Resolve,
         Keeps

LEMMA BackgroundKeeps ==
    ASSUME IInv, NEW r \in Run, NEW announce, Background(r, announce),
           NEW q \in Run
    PROVE  Keeps(q)
  BY DEF IInv, TypeOK, ServiceTypeOK, Sound, Fresh, Agrees, Background,
         Resolve, Keeps

\* Steps that leave the tool where it is.
LEMMA QuietReported ==
    ASSUME RInv, NEW q \in Run, UNCHANGED <<tool, reply>>,
           proc'[q] = "none" <=> proc[q] = "none", Keeps(q)
    PROVE  Reported(q)'
  BY DEF RInv, Reported, Keeps

\* The tool goes on.
LEMMA ToolReported ==
    ASSUME RInv, NEW r \in Run,
           \/ Call(r) \/ Attach(r) \/ SpawnFails(r)
           \/ DelayEnds(r) \/ ResultComes(r) \/ Report(r),
           NEW q \in Run
    PROVE  Reported(q)'
  <1> USE DEF RInv, IInv, TypeOK, ServiceTypeOK
  <1>1. CASE Call(r) \/ SpawnFails(r)
    BY <1>1 DEF Call, SpawnFails, Reported, Sound, Fresh, procVars,
                serviceVars
  <1>2. CASE Attach(r)
    BY <1>2 DEF Attach, Reported, Sound, Fresh
  <1>3. CASE DelayEnds(r)
    <2>1. Background(r, TRUE) /\ UNCHANGED <<reply, proc>>
          /\ tool' = [tool EXCEPT ![r] = "reporting"] /\ tool[r] = "delaying"
      BY <1>3 DEF DelayEnds, ShellBackground, procVars
    <2>2. Keeps(q)
      BY <2>1, BackgroundKeeps
    <2>3. proc[r] # "none"
      BY <2>1 DEF Reported
    <2>4. result'[r] # "pending"
      BY <2>1, <2>3 DEF Background, Resolve, Sound, Agrees
    <2> QED
      BY <2>1, <2>2, <2>3, <2>4 DEF Reported, Keeps
  <1>4. CASE ResultComes(r)
    BY <1>4 DEF ResultComes, Reported, procVars, serviceVars
  <1>5. CASE Report(r)
    <2>1. UNCHANGED <<proc, result>> /\ result[r] # "pending"
      BY <1>5 DEF Report, procVars, serviceVars, Reported
    <2>2. /\ tool' = [tool EXCEPT ![r] = "done"]
          /\ reply' = [reply EXCEPT ![r] =
                IF result[r] = "aborted" THEN "cancelled"
                ELSE IF r \in Detached \/ result[r] = "background"
                THEN "background" ELSE "exit"]
      BY <1>5 DEF Report
    <2>3. result[r] \in {"exit", "aborted", "background"}
      BY <2>1 DEF Result
    <2>4. CASE q = r
      BY <2>1, <2>2, <2>3, <2>4 DEF Reported
    <2>5. CASE q # r
      BY <2>1, <2>2, <2>5 DEF Reported
    <2> QED
      BY <2>4, <2>5
  <1> QED
    BY <1>1, <1>2, <1>3, <1>4, <1>5

\* The process goes on, and whoever aborts it.
LEMMA ProcessReported ==
    ASSUME RInv, NEW r \in Run,
           \/ Abort(r) \/ TimeOut(r) \/ Die(r) \/ Drain(r) \/ Exit(r)
           \/ LogCloses(r) \/ ExitInfoExpires(r),
           NEW q \in Run
    PROVE  Reported(q)'
  <1>1. UNCHANGED <<tool, reply>>
    BY DEF Abort, TimeOut, Strike, Die, Drain, Exit, ProcessIsOver, LogCloses,
           ExitInfoExpires, toolVars
  <1>2. proc'[q] = "none" <=> proc[q] = "none"
    BY DEF Abort, TimeOut, Strike, Die, Drain, Exit, ProcessIsOver, LogCloses,
           ExitInfoExpires, procVars, RInv, IInv, TypeOK
  <1>3. Keeps(q)
    <2>1. CASE Exit(r)
      BY <2>1, SettleKeeps DEF Exit, ProcessIsOver, RInv
    <2>2. CASE ~ Exit(r)
      BY <2>2 DEF Abort, TimeOut, Strike, Die, Drain, LogCloses,
                  ExitInfoExpires, serviceVars, Keeps
    <2> QED
      BY <2>1, <2>2
  <1> QED
    BY <1>1, <1>2, <1>3, QuietReported

\* So do the user and the interface.
LEMMA TaskReported ==
    ASSUME RInv, NEW r \in Run,
           \/ PressCtrlB(r) \/ Register(r) \/ Dismiss(r)
           \/ CloseTask(r) \/ CloseDone(r),
           NEW q \in Run
    PROVE  Reported(q)'
  <1>1. UNCHANGED <<tool, reply, proc>>
    BY DEF PressCtrlB, Register, Dismiss, CloseTask, CloseDone, toolVars,
           procVars
  <1>2. \/ UNCHANGED result
        \/ \E how : Settle(r, how)
        \/ \E announce : Background(r, announce)
    BY DEF PressCtrlB, ShellBackground, Register, Dismiss, CloseTask,
           CloseDone, Kill, serviceVars
  <1>3. Keeps(q)
    BY <1>2, SettleKeeps, BackgroundKeeps DEF RInv, Keeps
  <1> QED
    BY <1>1, <1>3, QuietReported

LEMMA StepReported ==
    ASSUME RInv, [Next]_vars, NEW q \in Run
    PROVE  Reported(q)'
  <1>1. CASE UNCHANGED vars
    BY <1>1, QuietReported DEF vars, toolVars, procVars, serviceVars, Keeps
  <1>2. CASE Next
    BY <1>2, ToolReported, ProcessReported, TaskReported, Zenon DEF Next
  <1> QED
    BY <1>1, <1>2

\* The end of a command is told at most once, by the reply of the tool or by
\* the injection of settleExecution, and always unless it was silent, killed,
\* or detached and over before its delay.
THEOREM TellsOnce == Spec => []ToldOnce
  <1>1. Init => RInv
    BY InitType, InitSound DEF RInv, IInv, Init, Reported
  <1>2. RInv /\ [Next]_vars => RInv'
    BY StepType, StepSound, StepReported DEF RInv, IInv
  <1>3. RInv => ToldOnce
    BY DEF RInv, IInv, Sound, Told, Reported, ToldOnce
  <1> QED
    BY <1>1, <1>2, <1>3, PTL DEF Spec

-----------------------------------------------------------------------------
(* The list of background tasks                                            *)

\* A command that never ran was not reported in the background, and is not
\* listed; one that is listed as running is watched.
Watched(r) ==
    /\ proc[r] = "none" =>
         /\ tool[r] \in {"new", "preparing", "done"}
         /\ reply[r] # "background"
         /\ listed[r] = "no"
    /\ listed[r] = "running" =>
         \/ r \in active /\ watch[r] # "none"
         \/ exitInfo[r] = "expired"

LInv == IInv /\ \A r \in Run : Watched(r)

\* Steps that leave the service and the list alone.
LEMMA QuietWatched ==
    ASSUME LInv,
           UNCHANGED <<active, exitInfo, listed, watch>>,
           \A q \in Run :
               proc'[q] = "none" =>
                   /\ proc[q] = "none"
                   /\ \/ tool'[q] = tool[q]
                      \/ tool'[q] \in {"new", "preparing", "done"}
                   /\ reply'[q] = reply[q] \/ reply'[q] # "background"
    PROVE  \A q \in Run : Watched(q)'
  BY DEF LInv, Watched

\* An exit that is heard takes the command off the list, or marks it as
\* exited.
LEMMA ExitWatched ==
    ASSUME LInv, NEW r \in Run, NEW how \in {"exit", "aborted"},
           Settle(r, how), ExitIsHeard(r), UNCHANGED <<tool, reply, watch>>,
           \/ UNCHANGED proc
           \/ proc[r] # "none" /\ proc' = [proc EXCEPT ![r] = "over"]
    PROVE  \A q \in Run : Watched(q)'
  <1> SUFFICES ASSUME NEW q \in Run PROVE Watched(q)'
    OBVIOUS
  <1>1. proc'[q] = "none" => proc[q] = "none"
    BY DEF LInv, IInv, TypeOK
  <1>2. CASE r \notin active
    <2>1. UNCHANGED <<active, exitInfo, listed>>
      BY <1>2 DEF Settle, ExitIsHeard
    <2> QED
      BY <1>1, <2>1 DEF LInv, Watched
  <1>3. CASE r \in active
    <2>1. active' = active \ {r} /\ exitInfo' = [exitInfo EXCEPT ![r] = how]
      BY <1>3 DEF Settle
    <2>2. listed[r] = "running" => watch[r] # "none"
      BY <1>3 DEF LInv, IInv, Sound, Agrees, Watched
    <2>3. listed'[r] # "running" /\ (listed[r] = "no" => listed'[r] = "no")
      BY <2>2, <1>3 DEF ExitIsHeard, LInv, IInv, TypeOK
    <2>4. q # r => /\ listed'[q] = listed[q] /\ exitInfo'[q] = exitInfo[q]
                   /\ q \in active' <=> q \in active
      BY <2>1 DEF ExitIsHeard, LInv, IInv, TypeOK, ServiceTypeOK
    <2>5. CASE q = r
      BY <1>1, <2>3, <2>5 DEF LInv, Watched
    <2>6. CASE q # r
      BY <1>1, <2>4, <2>6 DEF LInv, Watched
    <2> QED
      BY <2>5, <2>6
  <1> QED
    BY <1>2, <1>3

\* A command that goes to the background and is announced is listened to.
LEMMA BackgroundWatched ==
    ASSUME LInv, NEW r \in Run, NEW announce \in BOOLEAN,
           Background(r, announce), UNCHANGED <<proc, reply>>,
           \A q \in Run : proc[q] = "none" => tool'[q] = tool[q]
    PROVE  \A q \in Run : Watched(q)'
  <1> SUFFICES ASSUME NEW q \in Run PROVE Watched(q)'
    OBVIOUS
  <1>1. UNCHANGED <<active, exitInfo>>
    BY DEF Background
  <1>2. CASE announce /\ r \in resolvers /\ q = r
    <2>1. r \in active /\ proc[r] # "none"
      BY <1>2 DEF LInv, IInv, Sound, Agrees, Fresh
    <2>2. watch'[r] = "announced"
      BY <1>2 DEF Background, LInv, IInv, TypeOK
    <2> QED
      BY <1>1, <1>2, <2>1, <2>2 DEF Watched
  <1>3. CASE ~ (announce /\ r \in resolvers /\ q = r)
    <2>1. listed'[q] = listed[q] /\ watch'[q] = watch[q]
      BY <1>3 DEF Background, LInv, IInv, TypeOK
    <2> QED
      BY <1>1, <2>1 DEF LInv, Watched
  <1> QED
    BY <1>2, <1>3

\* Registering a command looks up its end, or listens to it.
LEMMA RegisterWatched ==
    ASSUME LInv, NEW r \in Run, Register(r)
    PROVE  \A q \in Run : Watched(q)'
  <1> SUFFICES ASSUME NEW q \in Run PROVE Watched(q)'
    OBVIOUS
  <1>1. UNCHANGED <<tool, reply, proc, active, exitInfo>>
    BY DEF Register, toolVars, procVars, serviceVars
  <1>2. CASE q # r
    <2>1. listed'[q] = listed[q] /\ watch'[q] = watch[q]
      BY <1>2 DEF Register, LInv, IInv, TypeOK
    <2> QED
      BY <1>1, <2>1 DEF LInv, Watched
  <1>3. CASE q = r
    <2>1. proc[r] # "none"
      BY DEF Register, LInv, Watched
    <2>2. r \in active => watch'[r] # "none"
      BY DEF Register, LInv, IInv, TypeOK
    <2>3. r \notin active /\ exitInfo[r] # "expired" => listed'[r] = "no"
      BY DEF Register, LInv, IInv, TypeOK
    <2> QED
      BY <1>1, <1>3, <2>1, <2>2, <2>3 DEF Watched
  <1> QED
    BY <1>2, <1>3

LEMMA AttachWatched ==
    ASSUME LInv, NEW r \in Run, Attach(r)
    PROVE  \A q \in Run : Watched(q)'
  <1> SUFFICES ASSUME NEW q \in Run PROVE Watched(q)'
    OBVIOUS
  <1>1. UNCHANGED <<reply, listed, watch>>
    BY DEF Attach, taskVars
  <1>2. CASE q = r
    <2>1. proc[r] = "none"
      BY DEF Attach, LInv, IInv, Sound, Fresh
    <2>2. listed[r] = "no"
      BY <2>1 DEF LInv, Watched
    <2>3. proc'[r] = "alive"
      BY DEF Attach, LInv, IInv, TypeOK
    <2> QED
      BY <1>1, <1>2, <2>2, <2>3 DEF Watched
  <1>3. CASE q # r
    <2>1. /\ proc'[q] = proc[q] /\ tool'[q] = tool[q]
          /\ exitInfo'[q] = exitInfo[q]
      BY <1>3 DEF Attach, LInv, IInv, TypeOK, ServiceTypeOK
    <2>2. q \in active' <=> q \in active
      BY <1>3 DEF Attach
    <2> QED
      BY <1>1, <2>1, <2>2 DEF LInv, Watched
  <1> QED
    BY <1>2, <1>3

\* The interface takes a task off its list, and kills it if it runs.
LEMMA DismissWatched ==
    ASSUME LInv, NEW r \in Run, Dismiss(r)
    PROVE  \A q \in Run : Watched(q)'
  <1> SUFFICES ASSUME NEW q \in Run PROVE Watched(q)'
    OBVIOUS
  <1>1. UNCHANGED <<tool, reply, proc, watch>>
    BY DEF Dismiss, toolVars
  <1>2. CASE q = r
    <2>1. listed'[r] = "no" /\ proc[r] # "none"
      BY DEF Dismiss, LInv, IInv, TypeOK, Watched
    <2> QED
      BY <1>1, <1>2, <2>1 DEF Watched
  <1>3. CASE q # r
    <2>1. listed'[q] = listed[q]
      BY <1>3 DEF Dismiss, LInv, IInv, TypeOK
    <2>2. (q \in active' <=> q \in active) /\ exitInfo'[q] = exitInfo[q]
      BY <1>3 DEF Dismiss, Kill, Settle, serviceVars, LInv, IInv, TypeOK,
                  ServiceTypeOK
    <2> QED
      BY <1>1, <2>1, <2>2 DEF LInv, Watched
  <1> QED
    BY <1>2, <1>3

LEMMA ExpiryWatched ==
    ASSUME LInv, NEW r \in Run, ExitInfoExpires(r)
    PROVE  \A q \in Run : Watched(q)'
  BY DEF LInv, IInv, TypeOK, ServiceTypeOK, Watched, ExitInfoExpires,
         toolVars, procVars, taskVars

\* Every step keeps every command watched.
LEMMA StepWatched ==
    ASSUME LInv, [Next]_vars
    PROVE  \A q \in Run : Watched(q)'
  <1> USE DEF toolVars, procVars, serviceVars, taskVars
  <1>1. CASE UNCHANGED vars
    BY <1>1, QuietWatched DEF vars
  <1>2. ASSUME NEW r \in Run,
               Call(r) \/ SpawnFails(r) \/ Abort(r) \/ TimeOut(r)
        PROVE  \A q \in Run : Watched(q)'
    BY <1>2, QuietWatched DEF LInv, IInv, TypeOK, Call, SpawnFails, Abort,
                              TimeOut, Strike
  <1>3. ASSUME NEW r \in Run, ResultComes(r) \/ Report(r)
        PROVE  \A q \in Run : Watched(q)'
    <2>1. proc[r] # "none"
      BY <1>3 DEF ResultComes, Report, LInv, Watched
    <2> QED
      BY <1>3, <2>1, QuietWatched DEF LInv, IInv, TypeOK, ResultComes, Report
  <1>4. ASSUME NEW r \in Run, Die(r) \/ Drain(r) \/ LogCloses(r)
        PROVE  \A q \in Run : Watched(q)'
    BY <1>4, QuietWatched DEF LInv, IInv, TypeOK, Die, Drain, LogCloses
  <1>5. ASSUME NEW r \in Run, Exit(r)
        PROVE  \A q \in Run : Watched(q)'
    BY <1>5, ExitWatched DEF Exit, ProcessIsOver
  <1>6. ASSUME NEW r \in Run, DelayEnds(r)
        PROVE  \A q \in Run : Watched(q)'
    <2>1. proc[r] # "none"
      BY <1>6 DEF DelayEnds, LInv, Watched
    <2>2. \A q \in Run : proc[q] = "none" => tool'[q] = tool[q]
      BY <1>6, <2>1 DEF DelayEnds, LInv, IInv, TypeOK
    <2> QED
      BY <1>6, <2>2, BackgroundWatched DEF DelayEnds, ShellBackground
  <1>7. ASSUME NEW r \in Run, PressCtrlB(r)
        PROVE  \A q \in Run : Watched(q)'
    BY <1>7, BackgroundWatched DEF PressCtrlB, ShellBackground
  <1>8. ASSUME NEW r \in Run, CloseTask(r)
        PROVE  \A q \in Run : Watched(q)'
    <2>1. CASE r \in streams
      BY <1>8, <2>1, QuietWatched DEF CloseTask
    <2>2. CASE r \notin streams
      BY <1>8, <2>2, ExitWatched DEF CloseTask, Kill
    <2> QED
      BY <2>1, <2>2
  <1>9. ASSUME NEW r \in Run, CloseDone(r)
        PROVE  \A q \in Run : Watched(q)'
    BY <1>9, ExitWatched DEF CloseDone, Kill
  <1> QED
    BY <1>1, <1>2, <1>3, <1>4, <1>5, <1>6, <1>7, <1>8, <1>9, AttachWatched,
       RegisterWatched, DismissWatched, ExpiryWatched, Zenon DEF Next

\* A task that the interface lists as running runs, and its exit is listened
\* to; or it was listed after its exit info had expired (registerBackgroundTask
\* of useExecutionLifecycle.ts, against settleExecution).
THEOREM ListIsTrue == Spec => []ListedIsWatched
  <1>1. Init => LInv
    BY InitType, InitSound DEF LInv, IInv, Init, Watched
  <1>2. LInv /\ [Next]_vars => LInv'
    BY StepType, StepSound, StepWatched DEF LInv, IInv
  <1>3. LInv => ListedIsWatched
    BY DEF LInv, Watched, ListedIsWatched
  <1> QED
    BY <1>1, <1>2, <1>3, PTL DEF Spec

-----------------------------------------------------------------------------
(* What a process leaves                                                   *)

Early == {"new", "preparing", "delaying"}

\* Only a detached command is delayed, none is announced before its delay is
\* over, and one that leaves something was not announced at all.
Tidy(r) ==
    /\ tool[r] = "delaying" => r \in Detached
    /\ tool[r] \in Early => watch[r] # "announced"
    /\ LeftBehind(r) => r \in Detached /\ watch[r] # "announced"

OInv == IInv /\ \A r \in Run : Tidy(r)

\* Steps that leave nothing more behind, and announce nothing.
LEMMA NothingNew ==
    ASSUME OInv, NEW q \in Run,
           tool'[q] = "delaying" => tool[q] = "delaying" \/ q \in Detached,
           tool'[q] \in Early => tool[q] \in Early,
           watch'[q] = "announced" => watch[q] = "announced",
           LeftBehind(q)' => LeftBehind(q)
    PROVE  Tidy(q)'
  BY DEF OInv, Tidy

LEMMA ToolTidy ==
    ASSUME OInv, NEW r \in Run,
           Call(r) \/ Attach(r) \/ SpawnFails(r) \/ Abort(r) \/ TimeOut(r)
             \/ ResultComes(r) \/ Report(r),
           NEW q \in Run
    PROVE  Tidy(q)'
  <1>1. UNCHANGED <<running, streams, closing, killing, watch>>
    BY DEF Call, Attach, SpawnFails, Abort, TimeOut, Strike, ResultComes,
           Report, shellVars,
           taskVars
  <1>2. proc'[q] = "over" => proc[q] = "over"
    BY DEF Call, Attach, SpawnFails, Abort, TimeOut, Strike, ResultComes,
           Report, procVars,
           OInv, IInv, TypeOK
  <1>3. /\ tool'[q] = "delaying" => tool[q] = "delaying" \/ q \in Detached
        /\ tool'[q] \in Early => tool[q] \in Early
    BY DEF Call, Attach, SpawnFails, Abort, TimeOut, Strike, ResultComes,
           Report, Early,
           OInv, IInv, TypeOK
  <1> QED
    BY <1>1, <1>2, <1>3, NothingNew DEF LeftBehind

LEMMA ProcessTidy ==
    ASSUME OInv, NEW r \in Run,
           Die(r) \/ Drain(r) \/ Exit(r) \/ LogCloses(r) \/ ExitInfoExpires(r),
           NEW q \in Run
    PROVE  Tidy(q)'
  <1>1. UNCHANGED <<tool, watch>>
    BY DEF Die, Drain, Exit, ProcessIsOver, LogCloses, ExitInfoExpires,
           toolVars, taskVars
  <1>2. LeftBehind(q)' => LeftBehind(q)
    <2>1. CASE Exit(r)
      BY <2>1 DEF Exit, ProcessIsOver, LeftBehind, OInv, IInv, TypeOK
    <2>2. CASE Die(r) \/ Drain(r) \/ LogCloses(r) \/ ExitInfoExpires(r)
      BY <2>2 DEF Die, Drain, LogCloses, ExitInfoExpires, LeftBehind, OInv,
                  IInv, TypeOK, procVars, shellVars
    <2> QED
      BY <2>1, <2>2
  <1> QED
    BY <1>1, <1>2, NothingNew

LEMMA TaskTidy ==
    ASSUME OInv, NEW r \in Run,
           Register(r) \/ Dismiss(r) \/ CloseTask(r) \/ CloseDone(r),
           NEW q \in Run
    PROVE  Tidy(q)'
  <1>1. UNCHANGED <<tool, proc, running>>
    BY DEF Register, Dismiss, CloseTask, CloseDone, toolVars, procVars,
           shellVars
  <1>2. watch'[q] = "announced" => watch[q] = "announced"
    BY DEF Register, Dismiss, CloseTask, CloseDone, OInv, IInv, TypeOK
  <1>3. LeftBehind(q)' => LeftBehind(q)
    BY <1>1 DEF Register, Dismiss, CloseTask, CloseDone, LeftBehind, shellVars
  <1> QED
    BY <1>1, <1>2, <1>3, NothingNew

\* A command moved to the background after the end of its process has lost
\* its resolver, so that it is not announced.
LEMMA ShellBackgroundTidy ==
    ASSUME OInv, NEW r \in Run, NEW announce \in BOOLEAN,
           ShellBackground(r, announce), UNCHANGED proc,
           \A q \in Run : /\ tool'[q] = "delaying" => tool[q] = "delaying"
                          /\ tool'[q] \in Early => tool[q] \in Early,
           announce => tool'[r] \notin Early,
           proc[r] = "over" => r \in Detached /\ watch[r] # "announced",
           NEW q \in Run
    PROVE  Tidy(q)'
  <1>1. CASE q # r
    <2>1. watch'[q] = watch[q]
      BY <1>1 DEF ShellBackground, Background, OInv, IInv, TypeOK
    <2>2. LeftBehind(q)' => LeftBehind(q)
      BY <1>1 DEF ShellBackground, LeftBehind
    <2> QED
      BY <2>1, <2>2, NothingNew
  <1>2. CASE q = r
    <2>1. watch'[r] = "announced" =>
            watch[r] = "announced" \/ (announce /\ r \in resolvers)
      BY DEF ShellBackground, Background
    <2>2. proc[r] = "over" => r \notin resolvers
      BY DEF OInv, IInv, Sound, Agrees
    <2> QED
      BY <1>2, <2>1, <2>2 DEF OInv, Tidy, LeftBehind
  <1> QED
    BY <1>1, <1>2

LEMMA DelayTidy ==
    ASSUME OInv, NEW r \in Run, DelayEnds(r), NEW q \in Run
    PROVE  Tidy(q)'
  <1>1. r \in Detached /\ watch[r] # "announced"
    BY DEF DelayEnds, OInv, Tidy, Early
  <1>2. /\ UNCHANGED proc
        /\ tool'[r] \notin Early
        /\ \A x \in Run : /\ tool'[x] = "delaying" => tool[x] = "delaying"
                          /\ tool'[x] \in Early => tool[x] \in Early
    BY DEF DelayEnds, procVars, Early, OInv, IInv, TypeOK
  <1>3. ShellBackground(r, TRUE)
    BY DEF DelayEnds
  <1> QED
    BY <1>1, <1>2, <1>3, ShellBackgroundTidy

\* The user can only move a command of the terminal that still runs.
LEMMA CtrlBTidy ==
    ASSUME OInv, NEW r \in Run, PressCtrlB(r), NEW q \in Run
    PROVE  Tidy(q)'
  <1>1. UNCHANGED <<tool, proc>>
    BY DEF PressCtrlB, toolVars, procVars
  <1>2. CASE r \in Typed
    <2>1. tool[r] = "waiting" /\ result[r] = "pending"
      BY <1>2, LifecycleAssumption DEF PressCtrlB, OInv, Tidy
    <2>2. proc[r] # "over"
      BY <2>1 DEF OInv, IInv, Sound, Agrees
    <2>3. ShellBackground(r, FALSE)
      BY <1>2 DEF PressCtrlB
    <2> QED
      BY <1>1, <2>2, <2>3, ShellBackgroundTidy
  <1>3. CASE r \notin Typed
    <2>1. UNCHANGED <<running, streams, closing, killing, watch>>
      BY <1>3 DEF PressCtrlB, Background, shellVars
    <2> QED
      BY <1>1, <2>1, NothingNew DEF LeftBehind
  <1> QED
    BY <1>2, <1>3

\* Every step keeps every command tidy.
LEMMA StepTidy ==
    ASSUME OInv, [Next]_vars, NEW q \in Run
    PROVE  Tidy(q)'
  <1>1. CASE UNCHANGED vars
    BY <1>1, NothingNew DEF vars, toolVars, procVars, shellVars, taskVars,
                            LeftBehind
  <1>2. CASE Next
    BY <1>2, ToolTidy, ProcessTidy, TaskTidy, DelayTidy, CtrlBTidy, Zenon
       DEF Next
  <1> QED
    BY <1>1, <1>2

\* Only the delay of a detached command leaves a log or a record of the
\* history behind, when the command ended before it or was in the background
\* already (ShellExecutionService.background, which shell.ts calls whatever
\* became of the command).
THEOREM DelayAloneLeaves == Spec => []OnlyTheDelayLeaves
  <1>1. Init => OInv
    BY InitType, InitSound DEF OInv, IInv, Init, Tidy, LeftBehind
  <1>2. OInv /\ [Next]_vars => OInv'
    BY StepType, StepSound, StepTidy DEF OInv, IInv
  <1>3. OInv => OnlyTheDelayLeaves
    BY DEF OInv, Tidy, OnlyTheDelayLeaves
  <1> QED
    BY <1>1, <1>2, <1>3, PTL DEF Spec

-----------------------------------------------------------------------------
(* The refinement                                                          *)

\* Steps that leave the service alone stutter.
LEMMA QuietStutters ==
    ASSUME UNCHANGED serviceVars,
           \A r \in Run : proc'[r] = "none" <=> proc[r] = "none"
    PROVE  UNCHANGED <<Phases, result, notices>>
  BY DEF serviceVars, Phases

LEMMA SettleRefines ==
    ASSUME IInv, NEW r \in Run, NEW how \in {"exit", "aborted"},
           Settle(r, how), UNCHANGED backgrounded,
           \/ UNCHANGED proc
           \/ proc[r] # "none" /\ proc' = [proc EXCEPT ![r] = "over"]
    PROVE  Promise!Next \/ UNCHANGED <<Phases, result, notices>>
  <1>1. CASE r \notin active
    BY <1>1 DEF IInv, TypeOK, Settle, Phases
  <1>2. CASE r \in active
    <2>1. Phases' = [Phases EXCEPT ![r] = "over"]
      <3>1. active' = active \ {r} /\ resolvers' = resolvers \ {r}
        BY <1>2 DEF Settle, Resolve
      <3>2. proc[r] # "none"
        BY <1>2 DEF IInv, Sound, Fresh
      <3>3. proc \in [Run -> Process]
        BY DEF IInv, TypeOK
      <3>4. proc'[r] # "none"
        BY <3>2, <3>3
      <3>5. \A q \in Run \ {r} : proc'[q] = proc[q]
        BY <3>3
      <3> QED
        BY <3>1, <3>4, <3>5 DEF Phases
    <2>2. CASE r \in resolvers
      <3>1. Phases[r] = "running"
        BY <1>2, <2>2 DEF Phases
      <3>2. result' = [result EXCEPT ![r] = how]
        BY <1>2, <2>2 DEF Settle, Resolve
      <3>3. r \notin backgrounded
        BY <2>2 DEF IInv, Sound, Agrees
      <3>4. notices' = notices
        BY <1>2, <3>3 DEF Settle, Injects
      <3>5. Promise!End(r, how)
        BY <2>1, <3>1, <3>2, <3>4 DEF Promise!End
      <3> QED
        BY <3>5 DEF Promise!Next
    <2>3. CASE r \notin resolvers
      <3>1. Phases[r] = "background"
        BY <1>2, <2>3 DEF Phases
      <3>2. result' = result
        BY <1>2, <2>3 DEF Settle, Resolve
      <3>3. r \in backgrounded /\ notices[r] = 0
        BY <1>2, <2>3 DEF IInv, Sound, Agrees
      <3>4. CASE how = "aborted"
        <4>1. notices' = notices
          BY <1>2, <3>4 DEF Settle, Injects
        <4>2. Promise!Killed(r)
          BY <2>1, <3>1, <3>2, <4>1 DEF Promise!Killed
        <4> QED
          BY <4>2 DEF Promise!Next
      <3>5. CASE how = "exit"
        <4>1. notices' = IF r \in Silent THEN notices
                         ELSE [notices EXCEPT ![r] = 1]
          BY <1>2, <3>3, <3>5 DEF IInv, TypeOK, ServiceTypeOK, Settle, Injects
        <4>2. Promise!Complete(r)
          BY <2>1, <3>1, <3>2, <4>1 DEF Promise!Complete
        <4> QED
          BY <4>2 DEF Promise!Next
      <3> QED
        BY <3>4, <3>5
    <2> QED
      BY <2>2, <2>3
  <1> QED
    BY <1>1, <1>2

LEMMA BackgroundRefines ==
    ASSUME IInv, NEW r \in Run, NEW announce \in BOOLEAN,
           Background(r, announce), UNCHANGED proc
    PROVE  Promise!Next \/ UNCHANGED <<Phases, result, notices>>
  <1>1. CASE r \in resolvers
    <2>1. r \in active
      BY <1>1 DEF IInv, Sound, Agrees
    <2>2. Phases[r] = "running"
      BY <1>1, <2>1 DEF Phases
    <2>3. Phases' = [Phases EXCEPT ![r] = "background"]
      BY <1>1, <2>1 DEF Background, Resolve, Phases
    <2>4. Promise!GoToBackground(r)
      BY <1>1, <2>2, <2>3 DEF Background, Resolve, Promise!GoToBackground
    <2> QED
      BY <2>4 DEF Promise!Next
  <1>2. CASE r \notin resolvers
    BY <1>2 DEF Background, Resolve, Phases
  <1> QED
    BY <1>1, <1>2

LEMMA AttachRefines ==
    ASSUME IInv, NEW r \in Run, Attach(r)
    PROVE  Promise!Next
  <1>1. Phases[r] = "new"
    BY DEF IInv, Sound, Fresh, Attach, Phases
  <1>2. Phases' = [Phases EXCEPT ![r] = "running"]
    BY DEF IInv, TypeOK, Attach, Phases
  <1>3. Promise!Begin(r)
    BY <1>1, <1>2 DEF Attach, Promise!Begin
  <1> QED
    BY <1>3 DEF Promise!Next

\* Every step is one of the contract, or a stutter.
LEMMA StepRefines ==
    ASSUME IInv, [Next]_vars
    PROVE  Promise!Next \/ UNCHANGED <<Phases, result, notices>>
  <1> USE DEF toolVars, procVars, serviceVars
  <1> DEFINE Goal == Promise!Next \/ UNCHANGED <<Phases, result, notices>>
  <1>1. CASE UNCHANGED vars
    BY <1>1, QuietStutters DEF vars
  <1>2. ASSUME NEW r \in Run,
               Call(r) \/ SpawnFails(r) \/ Abort(r) \/ TimeOut(r)
                 \/ ResultComes(r) \/ Report(r)
        PROVE  Goal
    BY <1>2, QuietStutters DEF Call, SpawnFails, Abort, TimeOut, Strike,
                               ResultComes, Report
  <1>3. ASSUME NEW r \in Run,
               Die(r) \/ Drain(r) \/ LogCloses(r) \/ Register(r)
        PROVE  Goal
    BY <1>3, QuietStutters DEF IInv, TypeOK, Die, Drain, LogCloses, Register
  <1>4. ASSUME NEW r \in Run, Exit(r)
        PROVE  Goal
    BY <1>4, SettleRefines DEF Exit, ProcessIsOver
  <1>5. ASSUME NEW r \in Run, DelayEnds(r)
        PROVE  Goal
    BY <1>5, BackgroundRefines DEF DelayEnds, ShellBackground
  <1>6. ASSUME NEW r \in Run, PressCtrlB(r)
        PROVE  Goal
    BY <1>6, BackgroundRefines DEF PressCtrlB, ShellBackground
  <1>7. ASSUME NEW r \in Run, Dismiss(r)
        PROVE  Goal
    <2>1. CASE listed[r] = "running"
      BY <1>7, <2>1, SettleRefines DEF Dismiss, Kill
    <2>2. CASE listed[r] # "running"
      BY <1>7, <2>2, QuietStutters DEF Dismiss
    <2> QED
      BY <2>1, <2>2
  <1>8. ASSUME NEW r \in Run, CloseTask(r)
        PROVE  Goal
    <2>1. CASE r \in streams
      BY <1>8, <2>1, QuietStutters DEF CloseTask
    <2>2. CASE r \notin streams
      BY <1>8, <2>2, SettleRefines DEF CloseTask, Kill
    <2> QED
      BY <2>1, <2>2
  <1>9. ASSUME NEW r \in Run, CloseDone(r)
        PROVE  Goal
    BY <1>9, SettleRefines DEF CloseDone, Kill
  <1>10. ASSUME NEW r \in Run, ExitInfoExpires(r)
         PROVE  Goal
    BY <1>10 DEF ExitInfoExpires, Phases
  <1> QED
    BY <1>1, <1>2, <1>3, <1>4, <1>5, <1>6, <1>7, <1>8, <1>9, <1>10,
       AttachRefines, Zenon DEF Next

\* The lifecycle of a command implements the contract: its promise is settled
\* once, and its end in the background notified once.
THEOREM LifecycleImplementsPromise == Spec => ImplementsPromise
  <1>1. Init => Promise!Init
    BY DEF Init, Promise!Init, Phases
  <1>2. IInv /\ [Next]_vars => [Promise!Next]_(Promise!vars)
    BY StepRefines DEF Promise!vars
  <1> QED
    BY <1>1, <1>2, Inductive, PTL DEF Spec, ImplementsPromise, Promise!Spec

=============================================================================
