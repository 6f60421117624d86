---------------------------- MODULE JobExecution ----------------------------
(***************************************************************************)
(* What a worker and the Control Plane promise together about a job: its   *)
(* status lives as JobLifecycle says, its command is executed at most once *)
(* and only after the job was handed out, the execution ends once, and the *)
(* status becomes "succeeded" only after an execution that ended well, or  *)
(* one that asked the storage what it does not support.                    *)
(* Crashes, restarts, recovery, and lost or late reports are below this    *)
(* level: they are steps that change none of the three variables.          *)
(***************************************************************************)
EXTENDS Naturals

CONSTANTS Job, Probe

VARIABLES
  status,  \* the status that a reader of the job table is shown
  runs,    \* how often the job's command was started
  result   \* how its execution ended

Lifecycle == INSTANCE JobLifecycle

Ending == {"ok", "error", "interrupted", "unsupported"}

Init ==
  /\ Lifecycle!Init
  /\ runs = [j \in Job |-> 0]
  /\ result = [j \in Job |-> "unknown"]

Good(j) == result[j] = "ok" \/ (result[j] = "unsupported" /\ j \in Probe)

\* The job table moves: only a good end makes a success.
Record ==
  /\ Lifecycle!Next
  /\ \A j \in Job : status'[j] = "succeeded" => status[j] = "succeeded" \/ Good(j)
  /\ UNCHANGED <<runs, result>>

\* The command of a job that was handed out starts, for the first time.
Start(j) ==
  /\ status[j] \notin {"none", "pending"}
  /\ runs[j] = 0
  /\ runs' = [runs EXCEPT ![j] = 1]

\* It starts in a container, ...
Begin(j) == Start(j) /\ UNCHANGED <<status, result>>

\* ... whose execution ends, ...
End(j) ==
  /\ runs[j] = 1 /\ result[j] = "unknown"
  /\ \E e \in Ending : result' = [result EXCEPT ![j] = e]
  /\ UNCHANGED <<status, runs>>

\* ... or it is executed by the worker itself, in one step.
Perform(j) ==
  /\ Start(j)
  /\ \E e \in Ending : result' = [result EXCEPT ![j] = e]
  /\ UNCHANGED status

Next == Record \/ \E j \in Job : Begin(j) \/ End(j) \/ Perform(j)

Spec == Init /\ [][Next]_<<status, runs, result>>
=============================================================================
