-------------------------- MODULE ToolBatchService --------------------------
(***************************************************************************)
(* What the scheduler promises to those who call schedule(): a service     *)
(* that takes batches of tool calls and serves them one at a time, in the  *)
(* order of their arrival.  Each is either refused or served, once, and a  *)
(* batch that was served has a result for each of its calls.  How calls    *)
(* are validated, grouped, run and cancelled is not visible here.          *)
(***************************************************************************)
EXTENDS SequencesExt

CONSTANTS
    Batch,      \* the batches that may be submitted
    Members,    \* the calls of each
    None        \* no batch

VARIABLES
    request,    \* what became of each batch
    line,       \* those that wait, first come first
    turn,       \* the one being served, or None
    reported    \* the calls whose results the turn has brought

serviceVars == <<request, line, turn, reported>>

Init ==
    /\ request = [b \in Batch |-> "new"]
    /\ line = << >>
    /\ turn = None
    /\ reported = {}

\* The turn of b starts; a batch that was cancelled beforehand is reported
\* at once.
Begin(b, before) ==
    /\ turn' = b
    /\ request' = [before EXCEPT ![b] = "running"]
    /\ reported' \in {{}, Members[b]}

Serve(b) ==
    /\ request[b] = "new"
    /\ turn = None
    /\ Begin(b, request)
    /\ UNCHANGED line

Wait(b) ==
    /\ request[b] = "new"
    /\ turn # None
    /\ request' = [request EXCEPT ![b] = "queued"]
    /\ line' = Append(line, b)
    /\ UNCHANGED <<turn, reported>>

Refuse(b) ==
    /\ request[b] = "new"
    /\ turn # None
    /\ request' = [request EXCEPT ![b] = "rejected"]
    /\ UNCHANGED <<line, turn, reported>>

\* A batch is withdrawn while it waits; the others keep their places.
Withdraw(b) ==
    /\ request[b] = "queued"
    /\ request' = [request EXCEPT ![b] = "rejected"]
    /\ \E i \in DOMAIN line : line[i] = b /\ line' = RemoveAt(line, i)
    /\ UNCHANGED <<turn, reported>>

WithdrawAll ==
    /\ request' = [b \in Batch |-> IF request[b] = "queued" THEN "rejected"
                                   ELSE request[b]]
    /\ line' = << >>
    /\ UNCHANGED <<turn, reported>>

\* All results at once, and nothing else.
Report ==
    /\ turn # None
    /\ reported = {}
    /\ reported' = Members[turn]
    /\ UNCHANGED <<request, line, turn>>

\* The turn ends with all results, and the first in line is next.
Settle ==
    /\ turn # None
    /\ reported = Members[turn]
    /\ LET settled == [request EXCEPT ![turn] = "resolved"]
       IN  IF line = << >>
           THEN /\ request' = settled
                /\ turn' = None
                /\ reported' = {}
                /\ UNCHANGED line
           ELSE /\ Begin(Head(line), settled)
                /\ line' = Tail(line)

Next ==
    \/ \E b \in Batch : Serve(b) \/ Wait(b) \/ Refuse(b) \/ Withdraw(b)
    \/ WithdrawAll
    \/ Report
    \/ Settle

Spec == Init /\ [][Next]_serviceVars

=============================================================================
