------------------------ MODULE WorkerAgentProofs ------------------------
(***************************************************************************)
(* Proofs about WorkerAgent, for any set of jobs and any number of crashes *)
(* and lost or late reports.                                               *)
(***************************************************************************)
EXTENDS WorkerAgent, FiniteSetTheorems, TLAPS

-----------------------------------------------------------------------------
(* Types.  A late report names a job because a busy worker has one.        *)

TypeInv == TypeOK /\ (Busy => cur \in Job)

LEMMA TypeInit == Init => TypeInv
BY DEF Init, TypeInv, TypeOK, Busy, Row, Outcome, Container, Exit, Pc

LEMMA TypeStep == TypeInv /\ [Next]_vars => TypeInv'
<1> SUFFICES ASSUME TypeInv, [Next]_vars PROVE TypeInv'
  OBVIOUS
<1> USE DEF TypeInv, TypeOK, Busy, Row, Outcome, Container, Exit, Pc,
        cpVars, processVars, runtimeVars
<1>1. CASE UNCHANGED vars
  BY <1>1 DEF vars
<1>2. ASSUME NEW j \in Job, Dispatch(j) \/ Cancel(j) PROVE TypeInv'
  BY <1>2 DEF Dispatch, Cancel
<1>3. ASSUME NEW j \in Job, LapseUnrenewed(j) \/ LapseInOutage(j) PROVE TypeInv'
  BY <1>3 DEF LapseUnrenewed, LapseInOutage, Lapse
<1>4. CASE Reconcile
  BY <1>4 DEF Reconcile, Overdue
<1>5. CASE LateReport
  BY <1>5 DEF LateReport, Handle, Accepts
<1>6. CASE Fetch
  <2>1. row' \in [Job -> Row]
    BY <1>6 DEF Fetch, Overdue
  <2> QED
    BY <1>6, <2>1 DEF Fetch
<1>7. ASSUME NEW j \in Job, Begin(j) PROVE TypeInv'
  BY <1>7 DEF Begin
<1>8. CASE JournalFails
  BY <1>8 DEF JournalFails
<1>9. CASE CanceledBeforeLaunch \/ NotLaunched
  BY <1>9 DEF CanceledBeforeLaunch, NotLaunched, Conclude
<1>10. CASE ExecuteDirectly
  BY <1>10 DEF ExecuteDirectly, Conclude
<1>11. CASE \/ Create \/ CreateUnanswered \/ Launch \/ LaunchUnanswered
            \/ \E j \in Job : EngineStarts(j)
  BY <1>11 DEF Create, CreateUnanswered, CreateContainer, Launch,
               LaunchUnanswered, EngineStarts, Conclude
<1>12. CASE Collect
  BY <1>12 DEF Collect, Conclude, Concluded, Remove
<1>13. CASE StopRuntime
  BY <1>13 DEF StopRuntime, Conclude
<1>14. CASE ReportAccepted
  BY <1>14 DEF ReportAccepted, Handle, Accepts, Clear, GoIdle
<1>15. CASE ReportRejected
  BY <1>15 DEF ReportRejected, Clear, GoIdle
<1>16. CASE ReportUnanswered
  BY <1>16 DEF ReportUnanswered, Unanswered, Handle, Accepts, GoIdle
<1>17. ASSUME NEW j \in Job, ContainerExits(j) PROVE TypeInv'
  BY <1>17 DEF ContainerExits, Ends
<1>18. ASSUME NEW j \in Job, Sweep(j) PROVE TypeInv'
  <2>1. CASE SweepUnknown(j)
    BY <2>1 DEF SweepUnknown, Remove, Swept, Ready
  <2>2. CASE SweepReported(j)
    BY <2>2 DEF SweepReported, Remove, Swept, Ready, Handle, Accepts, Clear
  <2>3. CASE SweepRejected(j)
    BY <2>3 DEF SweepRejected, Remove, Swept, Ready, Clear
  <2>4. CASE SweepUnanswered(j)
    BY <2>4 DEF SweepUnanswered, Unanswered, Swept, Ready, Handle, Accepts,
                Recovered, Concluded
  <2> QED
    BY <1>18, <2>1, <2>2, <2>3, <2>4 DEF Sweep
<1>19. CASE JournalAges
  BY <1>19 DEF JournalAges
<1>20. CASE Crash \/ Restart
  BY <1>20 DEF Crash, Restart
<1> QED
  BY <1>1, <1>2, <1>3, <1>4, <1>5, <1>6, <1>7, <1>8, <1>9, <1>10, <1>11, <1>12,
     <1>13, <1>14, <1>15, <1>16, <1>17, <1>18, <1>19, <1>20 DEF Next, Work

LEMMA TypeInvariant == Spec => []TypeInv
BY TypeInit, TypeStep, PTL DEF Spec

\* The variables of the worker and of the Control Plane stay in their types.
THEOREM AgentTypes == Spec => []TypeOK
<1>1. TypeInv => TypeOK
  BY DEF TypeInv
<1> QED
  BY <1>1, TypeInvariant, PTL

-----------------------------------------------------------------------------
(* The inductive invariant.                                                *)

LEMMA AgentInit == Init => AgentInv
BY DEF Init, AgentInv, BatchInv, CurrentInv, ExecutionInv, ReportInv, Fresh,
       Unclaimed, Busy

LEMMA AgentStep == TypeInv /\ TypeInv' /\ AgentInv /\ [Next]_vars => AgentInv'
<1> SUFFICES ASSUME TypeInv, TypeInv', AgentInv, [Next]_vars PROVE AgentInv'
  OBVIOUS
<1> USE DEF TypeInv, TypeOK, AgentInv, Busy, Outcome, Exit, EndedWell, cpVars,
        processVars, runtimeVars
<1>1. ASSUME NEW j \in Job, Dispatch(j) \/ Cancel(j) PROVE AgentInv'
  <2>1. BatchInv'
    BY <1>1 DEF Dispatch, Cancel, BatchInv, Fresh, Unclaimed, CurrentInv
  <2>2. CurrentInv'
    BY <1>1 DEF Dispatch, Cancel, BatchInv, Fresh, Unclaimed, CurrentInv
  <2>3. ExecutionInv'
    BY <1>1 DEF Dispatch, Cancel, BatchInv, Fresh, Unclaimed, CurrentInv,
    ExecutionInv, ReportInv
  <2>4. ReportInv'
    BY <1>1 DEF Dispatch, Cancel, BatchInv, Fresh, Unclaimed, CurrentInv,
    ExecutionInv, ReportInv
  <2> QED
    BY <2>1, <2>2, <2>3, <2>4
<1>2. ASSUME NEW j \in Job, LapseUnrenewed(j) \/ LapseInOutage(j) PROVE AgentInv'
  <2>1. BatchInv'
    BY <1>2 DEF LapseUnrenewed, LapseInOutage, Lapse, BatchInv, Fresh,
    Unclaimed, CurrentInv
  <2>2. CurrentInv'
    BY <1>2 DEF LapseUnrenewed, LapseInOutage, Lapse, BatchInv, Fresh,
    Unclaimed, CurrentInv
  <2>3. ExecutionInv'
    BY <1>2 DEF LapseUnrenewed, LapseInOutage, Lapse, BatchInv, Fresh,
    Unclaimed, CurrentInv, ExecutionInv, ReportInv
  <2>4. ReportInv'
    BY <1>2 DEF LapseUnrenewed, LapseInOutage, Lapse, BatchInv, Fresh,
    Unclaimed, CurrentInv, ExecutionInv, ReportInv
  <2> QED
    BY <2>1, <2>2, <2>3, <2>4
<1>3. CASE Reconcile
  <2>1. BatchInv'
    BY <1>3 DEF Reconcile, Overdue, BatchInv, Fresh, Unclaimed, CurrentInv
  <2>2. CurrentInv'
    BY <1>3 DEF Reconcile, Overdue, BatchInv, Fresh, Unclaimed, CurrentInv
  <2>3. ExecutionInv'
    BY <1>3 DEF Reconcile, Overdue, BatchInv, Fresh, Unclaimed, CurrentInv,
    ExecutionInv, ReportInv
  <2>4. ReportInv'
    BY <1>3 DEF Reconcile, Overdue, BatchInv, Fresh, Unclaimed, CurrentInv,
    ExecutionInv, ReportInv
  <2> QED
    BY <2>1, <2>2, <2>3, <2>4
<1>4. CASE LateReport
  <2>1. BatchInv'
    BY <1>4 DEF LateReport, Handle, Accepts, BatchInv, Fresh, Unclaimed,
    CurrentInv
  <2>2. CurrentInv'
    BY <1>4 DEF LateReport, Handle, Accepts, BatchInv, Fresh, Unclaimed,
    CurrentInv
  <2>3. ExecutionInv'
    BY <1>4 DEF LateReport, Handle, Accepts, BatchInv, Fresh, Unclaimed,
    CurrentInv, ExecutionInv, ReportInv
  <2>4. ReportInv'
    BY <1>4 DEF LateReport, Handle, Accepts, BatchInv, Fresh, Unclaimed,
    CurrentInv, ExecutionInv, ReportInv
  <2> QED
    BY <2>1, <2>2, <2>3, <2>4
<1>5. CASE Fetch
  <2>1. BatchInv'
    BY <1>5 DEF Fetch, Overdue, Ready, BatchInv, Fresh, Unclaimed, CurrentInv
  <2>2. CurrentInv'
    BY <1>5 DEF Fetch, Overdue, Ready, BatchInv, Fresh, Unclaimed, CurrentInv
  <2>3. ExecutionInv'
    BY <1>5 DEF Fetch, Overdue, Ready, BatchInv, Fresh, Unclaimed, CurrentInv,
    ExecutionInv, ReportInv
  <2>4. ReportInv'
    BY <1>5 DEF Fetch, Overdue, Ready, BatchInv, Fresh, Unclaimed, CurrentInv,
    ExecutionInv, ReportInv
  <2> QED
    BY <2>1, <2>2, <2>3, <2>4
<1>6. ASSUME NEW j \in Job, Begin(j) PROVE AgentInv'
  <2>1. BatchInv'
    BY <1>6 DEF Begin, BatchInv, Fresh, Unclaimed, CurrentInv
  <2>2. CurrentInv'
    BY <1>6 DEF Begin, BatchInv, Fresh, Unclaimed, CurrentInv
  <2>3. ReportInv'
    BY <1>6 DEF Begin, BatchInv, Fresh, Unclaimed, CurrentInv, ExecutionInv,
    ReportInv
  <2> QED
    BY <1>6, <2>1, <2>2, <2>3 DEF Begin, ExecutionInv
<1>7. CASE JournalFails
  <2>1. BatchInv'
    BY <1>7 DEF JournalFails, BatchInv, Fresh, Unclaimed, CurrentInv
  <2>2. CurrentInv'
    BY <1>7 DEF JournalFails, BatchInv, Fresh, Unclaimed, CurrentInv
  <2> QED
    BY <1>7, <2>1, <2>2 DEF JournalFails, ExecutionInv, ReportInv
<1>8. CASE CanceledBeforeLaunch \/ NotLaunched
  <2>1. CurrentInv'
    BY <1>8 DEF CanceledBeforeLaunch, NotLaunched, Conclude, BatchInv, Fresh,
    Unclaimed, CurrentInv
  <2>2. ReportInv'
    BY <1>8 DEF CanceledBeforeLaunch, NotLaunched, Conclude, BatchInv, Fresh,
    Unclaimed, CurrentInv, ExecutionInv, ReportInv
  <2> QED
    BY <1>8, <2>1, <2>2 DEF CanceledBeforeLaunch, NotLaunched, Conclude,
    BatchInv, Fresh, Unclaimed, ExecutionInv
<1>9. CASE ExecuteDirectly
  <2>1. BatchInv'
    BY <1>9 DEF ExecuteDirectly, Conclude, BatchInv, Fresh, Unclaimed,
    CurrentInv
  <2>2. CurrentInv'
    BY <1>9 DEF ExecuteDirectly, Conclude, BatchInv, Fresh, Unclaimed,
    CurrentInv
  <2>3. ExecutionInv'
    BY <1>9 DEF ExecuteDirectly, Conclude, BatchInv, Fresh, Unclaimed,
    CurrentInv, ExecutionInv, ReportInv
  <2>4. ReportInv'
    BY <1>9 DEF ExecuteDirectly, Conclude, BatchInv, Fresh, Unclaimed,
    CurrentInv, ExecutionInv, ReportInv
  <2> QED
    BY <2>1, <2>2, <2>3, <2>4
<1>10. CASE Create \/ CreateUnanswered \/ Launch \/ LaunchUnanswered
  <2> USE DEF Create, CreateUnanswered, CreateContainer, Launch,
              LaunchUnanswered, Conclude
  <2>1. BatchInv'
    BY <1>10 DEF BatchInv, Fresh, Unclaimed, CurrentInv
  <2>2. CurrentInv'
    BY <1>10 DEF Container, BatchInv, Fresh, Unclaimed, CurrentInv
  <2>3. ExecutionInv'
    BY <1>10 DEF BatchInv, Fresh, Unclaimed, CurrentInv, ExecutionInv
  <2>4. ReportInv'
    BY <1>10 DEF BatchInv, Fresh, Unclaimed, CurrentInv, ExecutionInv, ReportInv
  <2> QED
    BY <2>1, <2>2, <2>3, <2>4
<1>10a. ASSUME NEW j \in Job, EngineStarts(j) PROVE AgentInv'
  <2>1. BatchInv'
    BY <1>10a DEF EngineStarts, BatchInv, Fresh, Unclaimed, CurrentInv
  <2>2. CurrentInv'
    BY <1>10a DEF EngineStarts, Container, BatchInv, Fresh, Unclaimed, CurrentInv
  <2>3. ExecutionInv'
    BY <1>10a DEF EngineStarts, ExecutionInv
  <2>4. ReportInv'
    BY <1>10a DEF EngineStarts, ReportInv
  <2> QED
    BY <2>1, <2>2, <2>3, <2>4
<1>11. CASE Collect
  <2>1. BatchInv'
    BY <1>11 DEF Collect, Conclude, Concluded, Remove, BatchInv, Fresh,
    Unclaimed, CurrentInv
  <2>2. CurrentInv'
    BY <1>11 DEF Collect, Conclude, Concluded, Remove, BatchInv, Fresh,
    Unclaimed, CurrentInv
  <2>3. ExecutionInv'
    BY <1>11 DEF Collect, Conclude, Concluded, Remove, BatchInv, Fresh,
    Unclaimed, CurrentInv, ExecutionInv, ReportInv
  <2>4. ReportInv'
    BY <1>11 DEF Collect, Conclude, Concluded, Remove, BatchInv, Fresh,
    Unclaimed, CurrentInv, ExecutionInv, ReportInv
  <2> QED
    BY <2>1, <2>2, <2>3, <2>4
<1>12. CASE StopRuntime
  <2>1. BatchInv'
    BY <1>12 DEF StopRuntime, Conclude, BatchInv, Fresh, Unclaimed, CurrentInv
  <2>2. CurrentInv'
    BY <1>12 DEF StopRuntime, Conclude, BatchInv, Fresh, Unclaimed, CurrentInv
  <2>3. ExecutionInv'
    BY <1>12 DEF StopRuntime, Conclude, BatchInv, Fresh, Unclaimed,
    CurrentInv, ExecutionInv, ReportInv
  <2>4. ReportInv'
    BY <1>12 DEF StopRuntime, Conclude, BatchInv, Fresh, Unclaimed,
    CurrentInv, ExecutionInv, ReportInv
  <2> QED
    BY <2>1, <2>2, <2>3, <2>4
<1>13. CASE ReportAccepted
  <2>1. BatchInv'
    BY <1>13 DEF ReportAccepted, Handle, Accepts, Clear, GoIdle, BatchInv,
    Fresh, Unclaimed, CurrentInv
  <2>2. CurrentInv'
    BY <1>13 DEF ReportAccepted, Handle, Accepts, Clear, GoIdle, BatchInv,
    Fresh, Unclaimed, CurrentInv
  <2>3. ExecutionInv'
    BY <1>13 DEF ReportAccepted, Handle, Accepts, Clear, GoIdle, BatchInv,
    Fresh, Unclaimed, CurrentInv, ExecutionInv, ReportInv
  <2>4. ReportInv'
    BY <1>13 DEF ReportAccepted, Handle, Accepts, Clear, GoIdle, BatchInv,
    Fresh, Unclaimed, CurrentInv, ExecutionInv, ReportInv
  <2> QED
    BY <2>1, <2>2, <2>3, <2>4
<1>14. CASE ReportRejected
  <2>1. BatchInv'
    BY <1>14 DEF ReportRejected, Clear, GoIdle, BatchInv, Fresh, Unclaimed,
    CurrentInv
  <2>2. CurrentInv'
    BY <1>14 DEF ReportRejected, Clear, GoIdle, BatchInv, Fresh, Unclaimed,
    CurrentInv
  <2>3. ReportInv'
    BY <1>14 DEF ReportRejected, Clear, GoIdle, BatchInv, Fresh, Unclaimed,
    CurrentInv, ExecutionInv, ReportInv
  <2> QED
    BY <1>14, <2>1, <2>2, <2>3 DEF ReportRejected, Clear, GoIdle, ExecutionInv
<1>15. CASE ReportUnanswered
  <2>1. BatchInv'
    BY <1>15 DEF ReportUnanswered, Unanswered, Handle, Accepts, GoIdle,
    BatchInv, Fresh, Unclaimed, CurrentInv
  <2>2. CurrentInv'
    BY <1>15 DEF ReportUnanswered, Unanswered, Handle, Accepts, GoIdle,
    BatchInv, Fresh, Unclaimed, CurrentInv
  <2>3. ExecutionInv'
    BY <1>15 DEF ReportUnanswered, Unanswered, Handle, Accepts, GoIdle,
    BatchInv, Fresh, Unclaimed, CurrentInv, ExecutionInv, ReportInv
  <2>4. ReportInv'
    BY <1>15 DEF ReportUnanswered, Unanswered, Handle, Accepts, GoIdle,
    BatchInv, Fresh, Unclaimed, CurrentInv, ExecutionInv, ReportInv
  <2> QED
    BY <2>1, <2>2, <2>3, <2>4
<1>16. ASSUME NEW j \in Job, ContainerExits(j) PROVE AgentInv'
  <2>1. BatchInv'
    BY <1>16 DEF ContainerExits, BatchInv, Fresh, Unclaimed, CurrentInv
  <2>2. CurrentInv'
    BY <1>16 DEF ContainerExits, BatchInv, Fresh, Unclaimed, CurrentInv
  <2>3. ExecutionInv'
    BY <1>16 DEF ContainerExits, BatchInv, Fresh, Unclaimed, CurrentInv,
    ExecutionInv, ReportInv
  <2>4. ReportInv'
    BY <1>16 DEF ContainerExits, BatchInv, Fresh, Unclaimed, CurrentInv,
    ExecutionInv, ReportInv
  <2> QED
    BY <2>1, <2>2, <2>3, <2>4
<1>17. ASSUME NEW j \in Job, SweepUnknown(j) PROVE AgentInv'
  <2>1. BatchInv'
    BY <1>17 DEF SweepUnknown, Swept, Ready, Remove, BatchInv, Fresh,
    Unclaimed, CurrentInv
  <2>2. CurrentInv'
    BY <1>17 DEF SweepUnknown, Swept, Ready, Remove, BatchInv, Fresh,
    Unclaimed, CurrentInv
  <2>3. ExecutionInv'
    BY <1>17 DEF SweepUnknown, Swept, Ready, Remove, BatchInv, Fresh,
    Unclaimed, CurrentInv, ExecutionInv, ReportInv
  <2> QED
    BY <1>17, <2>1, <2>2, <2>3 DEF SweepUnknown, Swept, Ready, Remove,
    ReportInv
<1>18. ASSUME NEW j \in Job, SweepReported(j) PROVE AgentInv'
  <2>1. BatchInv'
    BY <1>18 DEF SweepReported, Swept, Ready, Remove, Clear, Handle, Accepts,
    Recovered, Concluded, BatchInv, Fresh, Unclaimed, CurrentInv
  <2>2. CurrentInv'
    BY <1>18 DEF SweepReported, Swept, Ready, Remove, Clear, Handle, Accepts,
    Recovered, Concluded, BatchInv, Fresh, Unclaimed, CurrentInv
  <2>3. ExecutionInv'
    BY <1>18 DEF SweepReported, Swept, Ready, Remove, Clear, Handle, Accepts,
    Recovered, Concluded, BatchInv, Fresh, Unclaimed, CurrentInv,
    ExecutionInv, ReportInv
  <2>4. ReportInv'
    BY <1>18 DEF SweepReported, Swept, Ready, Remove, Clear, Handle, Accepts,
    Recovered, Concluded, BatchInv, Fresh, Unclaimed, CurrentInv,
    ExecutionInv, ReportInv
  <2> QED
    BY <2>1, <2>2, <2>3, <2>4
<1>19. ASSUME NEW j \in Job, SweepRejected(j) PROVE AgentInv'
  <2>1. BatchInv'
    BY <1>19 DEF SweepRejected, Swept, Ready, Remove, Clear, BatchInv, Fresh,
    Unclaimed, CurrentInv
  <2>2. CurrentInv'
    BY <1>19 DEF SweepRejected, Swept, Ready, Remove, Clear, BatchInv, Fresh,
    Unclaimed, CurrentInv
  <2>3. ExecutionInv'
    BY <1>19 DEF SweepRejected, Swept, Ready, Remove, Clear, BatchInv, Fresh,
    Unclaimed, CurrentInv, ExecutionInv, ReportInv
  <2> QED
    BY <1>19, <2>1, <2>2, <2>3 DEF SweepRejected, Swept, Ready, Remove, Clear,
    ReportInv
<1>20. ASSUME NEW j \in Job, SweepUnanswered(j) PROVE AgentInv'
  <2>1. BatchInv'
    BY <1>20 DEF SweepUnanswered, Swept, Ready, Unanswered, Handle, Accepts,
    Recovered, Concluded, BatchInv, Fresh, Unclaimed, CurrentInv
  <2>2. CurrentInv'
    BY <1>20 DEF SweepUnanswered, Swept, Ready, Unanswered, Handle, Accepts,
    Recovered, Concluded, BatchInv, Fresh, Unclaimed, CurrentInv
  <2>3. ExecutionInv'
    BY <1>20 DEF SweepUnanswered, Swept, Ready, Unanswered, Handle, Accepts,
    Recovered, Concluded, BatchInv, Fresh, Unclaimed, CurrentInv,
    ExecutionInv, ReportInv
  <2>4. ReportInv'
    BY <1>20 DEF SweepUnanswered, Swept, Ready, Unanswered, Handle, Accepts,
    Recovered, Concluded, BatchInv, Fresh, Unclaimed, CurrentInv,
    ExecutionInv, ReportInv
  <2> QED
    BY <2>1, <2>2, <2>3, <2>4
<1>21. CASE JournalAges
  <2>1. CurrentInv'
    BY <1>21 DEF JournalAges, BatchInv, Fresh, Unclaimed, CurrentInv
  <2> QED
    BY <1>21, <2>1 DEF JournalAges, BatchInv, Fresh, Unclaimed, ExecutionInv,
    ReportInv
<1>22. CASE Crash \/ Restart
  <2>1. BatchInv'
    BY <1>22 DEF Crash, Restart, BatchInv, Fresh, Unclaimed, CurrentInv
  <2>2. CurrentInv'
    BY <1>22 DEF Crash, Restart, BatchInv, Fresh, Unclaimed, CurrentInv
  <2>3. ReportInv'
    BY <1>22 DEF Crash, Restart, BatchInv, Fresh, Unclaimed, CurrentInv,
    ExecutionInv, ReportInv
  <2> QED
    BY <1>22, <2>1, <2>2, <2>3 DEF Crash, Restart, ExecutionInv
<1>23. CASE UNCHANGED vars
  BY <1>23 DEF vars, BatchInv, CurrentInv, ExecutionInv, ReportInv, Fresh,
              Unclaimed
<1> QED
  BY <1>1, <1>2, <1>3, <1>4, <1>5, <1>6, <1>7, <1>8, <1>9, <1>10,
  <1>10a, <1>11, <1>12, <1>13, <1>14, <1>15, <1>16, <1>17, <1>18, <1>19, <1>20,
  <1>21, <1>22, <1>23 DEF Next, Work, Sweep

\* The worker's bookkeeping is an invariant: the journal names the job that is
\* being worked on, only jobs without a trace of an execution wait in the
\* batch, and only an execution that ended well, or a probe that was answered
\* "unsupported", is reported as a success.
THEOREM AgentInvariant == Spec => []AgentInv
BY AgentInit, AgentStep, TypeInvariant, PTL DEF Spec

\* No crash, lost answer or recovery makes the worker execute a job twice.
THEOREM AtMostOneExecution == Spec => []ExecutedAtMostOnce
<1>1. AgentInv => ExecutedAtMostOnce
  BY DEF AgentInv, ExecutionInv, ExecutedAtMostOnce
<1> QED
  BY <1>1, AgentInvariant, PTL

\* A job that the Control Plane shows as succeeded ended well, or was a probe
\* of a storage that cannot answer it (_execute_storage_about).
THEOREM SuccessIsEarned == Spec => []SuccessIsReal
<1>1. AgentInv => SuccessIsReal
  BY DEF AgentInv, ExecutionInv, SuccessIsReal
<1> QED
  BY <1>1, AgentInvariant, PTL

\* The journal gives up a job only when no report can change its row any more,
\* or when its execution was interrupted.
THEOREM JournalOutlastsTheJob == Spec => JournalKeptUntilSettled
<1> DEFINE Kept == \A j \in Job :
                     journal = j /\ journal' = NoJob =>
                       row'[j] # "in_progress" \/ exit[j] = "interrupted"
<1>1. TypeInv /\ AgentInv /\ [Next]_vars => [Kept]_vars
  <2> SUFFICES ASSUME TypeInv, AgentInv, Next,
                      NEW j \in Job, journal = j, journal' = NoJob
               PROVE  row'[j] # "in_progress" \/ exit[j] = "interrupted"
    OBVIOUS
  <2>1. journal' # journal
    BY NoJobAssumption
  <2>2. CASE ReportAccepted
    BY <2>2, <2>1 DEF ReportAccepted, Handle, Accepts, Clear, TypeInv, TypeOK,
                 Outcome, cpVars
  <2>3. CASE ReportRejected
    <3>1. journal = cur
      BY <2>3, <2>1 DEF ReportRejected, Clear
    <3>2. outcome = "canceled" =>
            row[cur] = "canceled" \/ exit[cur] = "interrupted"
      BY <2>3 DEF ReportRejected, AgentInv, ReportInv
    <3>3. outcome \in Outcome \union {"canceled"}
      BY DEF TypeInv, TypeOK
    <3> QED
      BY <2>3, <3>1, <3>2, <3>3 DEF ReportRejected, Accepts, cpVars
  <2>4. ASSUME NEW k \in Job, SweepReported(k) \/ SweepRejected(k)
        PROVE  row'[j] # "in_progress"
    BY <2>4, <2>1 DEF SweepReported, SweepRejected, Clear, Handle, Accepts,
                 TypeInv, TypeOK, Outcome, cpVars
  <2>5. CASE JournalAges
    BY <2>5 DEF JournalAges, cpVars
  <2>6. ASSUME NEW k \in Job, Begin(k) PROVE FALSE
    BY <2>6, NoJobAssumption DEF Begin
  <2>7. ASSUME NEW k \in Job,
               Dispatch(k) \/ Cancel(k) \/ LapseUnrenewed(k) \/ LapseInOutage(k)
                 \/ EngineStarts(k) \/ ContainerExits(k) \/ SweepUnknown(k)
                 \/ SweepUnanswered(k)
        PROVE  FALSE
    BY <2>7, <2>1 DEF Dispatch, Cancel, LapseUnrenewed, LapseInOutage, Lapse,
                 EngineStarts, ContainerExits, SweepUnknown, SweepUnanswered
  <2>8. CASE \/ Reconcile \/ LateReport \/ Fetch \/ JournalFails
             \/ CanceledBeforeLaunch \/ NotLaunched \/ ExecuteDirectly \/ Create
             \/ CreateUnanswered \/ Launch \/ LaunchUnanswered \/ Collect \/ StopRuntime \/ ReportUnanswered \/ Crash \/ Restart
    BY <2>8, <2>1 DEF Reconcile, LateReport, Fetch, JournalFails,
                 CanceledBeforeLaunch, NotLaunched, ExecuteDirectly, Create,
                 CreateUnanswered, CreateContainer, Launch, LaunchUnanswered,
                 Collect, StopRuntime, ReportUnanswered, Crash, Restart
  <2> QED
    BY <2>2, <2>3, <2>4, <2>5, <2>6, <2>7, <2>8 DEF Next, Work, Sweep
<1> QED
  BY <1>1, TypeInvariant, AgentInvariant, PTL DEF Spec, JournalKeptUntilSettled

-----------------------------------------------------------------------------
(* The refinement.                                                         *)

ShownStatus(status) == IF status = "lapsed" THEN "in_progress" ELSE status

\* What one row may go through in a step of the Control Plane or of a report:
\* it keeps its shown status, or the lifecycle has the move and a success
\* follows an execution that ended well.
RowMove(j) ==
  \/ ShownStatus(row'[j]) = ShownStatus(row[j])
  \/ /\ <<ShownStatus(row[j]), ShownStatus(row'[j])>> \in Execution!Lifecycle!Moves
     /\ row'[j] = "succeeded" => EndedWell(j)

\* Such steps are steps of the abstract job table.
LEMMA RowMovesRecord ==
  ASSUME TypeInv, TypeInv', \A j \in Job : RowMove(j), UNCHANGED <<launches, exit>>
  PROVE  Execution!Record \/ UNCHANGED <<Shown, launches, exit>>
<1>1. \A j \in Job : /\ Shown[j] = ShownStatus(row[j])
                     /\ Shown'[j] = ShownStatus(row'[j])
  BY DEF Shown, ShownStatus
<1>2. \A j \in Job : \/ Shown'[j] = Shown[j]
                     \/ <<Shown[j], Shown'[j]>> \in Execution!Lifecycle!Moves
  BY <1>1 DEF RowMove
<1>3. DOMAIN Shown' = Job
  BY DEF Shown
<1>4. \A j \in Job : Shown'[j] = "succeeded" => Shown[j] = "succeeded" \/ EndedWell(j)
  BY <1>1 DEF RowMove, ShownStatus
<1>5. QED
  BY <1>2, <1>3, <1>4
  DEF Execution!Record, Execution!Good, Execution!Lifecycle!Next, EndedWell

\* An outcome that a report brings is a move of a job in progress.
LEMMA HandledMove ==
  ASSUME TypeInv, NEW j \in Job, NEW o, Handle(j, o),
         o = "succeeded" => EndedWell(j), NEW k \in Job
  PROVE  RowMove(k)
<1>1. CASE Accepts(j, o)
  BY <1>1 DEF Handle, Accepts, RowMove, ShownStatus, Outcome,
              Execution!Lifecycle!Moves, TypeInv, TypeOK
<1>2. CASE ~Accepts(j, o)
  BY <1>2 DEF Handle, RowMove
<1>3. QED
  BY <1>1, <1>2

LEMMA SameMove == ASSUME UNCHANGED row, NEW j \in Job PROVE RowMove(j)
  BY DEF RowMove

LEMMA UnansweredMove ==
  ASSUME TypeInv, NEW j \in Job, NEW o, Unanswered(j, o),
         o = "succeeded" => EndedWell(j), NEW k \in Job
  PROVE  RowMove(k)
<1>1. CASE UNCHANGED row
  BY <1>1, SameMove
<1>2. CASE Handle(j, o)
  BY <1>2, HandledMove
<1>3. QED
  BY <1>1, <1>2 DEF Unanswered, cpVars

\* The steps that leave the executions alone.
LEMMA TableStep ==
  ASSUME TypeInv, AgentInv, Next, UNCHANGED <<launches, exit>>, NEW k \in Job
  PROVE  RowMove(k)
<1> USE DEF cpVars, ShownStatus, Execution!Lifecycle!Moves
<1>1. ASSUME NEW j \in Job, Dispatch(j) \/ Cancel(j)
      PROVE  RowMove(k)
  BY <1>1 DEF Dispatch, Cancel, RowMove, TypeInv, TypeOK
<1>2. ASSUME NEW j \in Job, LapseUnrenewed(j) \/ LapseInOutage(j)
      PROVE  RowMove(k)
  BY <1>2 DEF LapseUnrenewed, LapseInOutage, Lapse, RowMove, TypeInv, TypeOK
<1>3. CASE Reconcile
  BY <1>3 DEF Reconcile, Overdue, RowMove
<1>4. CASE LateReport
  <2>1. PICK m \in late : Handle(m.job, m.outcome)
    BY <1>4 DEF LateReport
  <2>2. m.job \in Job /\ (m.outcome = "succeeded" => EndedWell(m.job))
    BY DEF TypeInv, TypeOK, AgentInv, ReportInv
  <2>3. QED
    BY <2>1, <2>2, HandledMove
<1>5. CASE Fetch
  BY <1>5 DEF Fetch, Overdue, RowMove
<1>6. CASE ReportAccepted \/ ReportUnanswered
  <2>1. cur \in Job /\ (outcome = "succeeded" => EndedWell(cur))
    BY <1>6 DEF ReportAccepted, ReportUnanswered, AgentInv, ReportInv, TypeInv, Busy
  <2>2. QED
    BY <1>6, <2>1, HandledMove, UnansweredMove
    DEF ReportAccepted, ReportUnanswered
<1>7. ASSUME NEW j \in Job, SweepReported(j) \/ SweepUnanswered(j)
      PROVE  RowMove(k)
  <2>1. PICK o \in Recovered(j) : Handle(j, o) \/ Unanswered(j, o)
    BY <1>7 DEF SweepReported, SweepUnanswered
  <2>2. o = "succeeded" => EndedWell(j)
    BY DEF Recovered, EndedWell
  <2>3. QED
    BY <2>1, <2>2, HandledMove, UnansweredMove
<1>8. CASE \/ \E j \in Job : Begin(j) \/ SweepUnknown(j) \/ SweepRejected(j)
                             \/ ContainerExits(j) \/ EngineStarts(j)
           \/ JournalFails \/ CanceledBeforeLaunch \/ NotLaunched
           \/ ExecuteDirectly \/ Create \/ CreateUnanswered \/ Launch
           \/ LaunchUnanswered \/ Collect \/ StopRuntime \/ ReportRejected \/ JournalAges \/ Crash \/ Restart
  <2>1. UNCHANGED row
    BY <1>8 DEF Begin, SweepUnknown, SweepRejected, ContainerExits,
       EngineStarts, JournalFails, CanceledBeforeLaunch, NotLaunched,
       ExecuteDirectly, Create, CreateUnanswered, CreateContainer, Launch,
       LaunchUnanswered, Collect, StopRuntime, ReportRejected, JournalAges, Crash, Restart
  <2>2. QED
    BY <2>1, SameMove
<1>9. QED
  BY <1>1, <1>2, <1>3, <1>4, <1>5, <1>6, <1>7, <1>8 DEF Next, Work, Sweep

\* The steps that start or end an execution.
LEMMA ExecutionStep ==
  ASSUME TypeInv, AgentInv, Next, ~UNCHANGED <<launches, exit>>
  PROVE  \E j \in Job : Execution!Begin(j) \/ Execution!End(j) \/ Execution!Perform(j)
<1>0. /\ launches \in [Job -> Nat] /\ exit \in [Job -> Exit]
      /\ Exit = Execution!Ending \union {"unknown"}
  BY DEF TypeInv, TypeOK, Exit, Execution!Ending
<1>1. ASSUME ExecuteDirectly \/ Launch
      PROVE  /\ cur \in Job /\ launches[cur] = 0
             /\ Shown[cur] \notin {"none", "pending"}
  BY <1>1 DEF ExecuteDirectly, Launch, AgentInv, CurrentInv, ExecutionInv, Busy,
              Fresh, Unclaimed, Shown
<1>1a. ASSUME NEW j \in Job, EngineStarts(j)
       PROVE  Execution!Begin(j)
  <2>1. launches[j] = 0 /\ ~Unclaimed(j)
    BY <1>1a DEF EngineStarts, AgentInv, BatchInv, ExecutionInv, Fresh
  <2>2. UNCHANGED <<Shown, exit>> /\ launches' = [launches EXCEPT ![j] = 1]
    BY <1>0, <1>1a, <2>1 DEF EngineStarts, Shown, cpVars
  <2>3. QED
    BY <2>1, <2>2 DEF Execution!Begin, Execution!Start, Unclaimed, Shown
<1>2. CASE Launch
  <2>1. UNCHANGED <<Shown, exit>> /\ launches' = [launches EXCEPT ![cur] = 1]
    BY <1>0, <1>1, <1>2 DEF Launch, Shown, cpVars
  <2>2. QED
    BY <1>1, <1>2, <2>1 DEF Execution!Begin, Execution!Start
<1>3. CASE ExecuteDirectly
  <2>0. UNCHANGED row /\ launches' = [launches EXCEPT ![cur] = @ + 1]
    BY <1>3 DEF ExecuteDirectly, cpVars
  <2>1. UNCHANGED Shown /\ launches' = [launches EXCEPT ![cur] = 1]
    BY <1>0, <1>1, <1>3, <2>0 DEF Shown
  <2>2. \/ exit' = [exit EXCEPT ![cur] = "ok"]
        \/ exit' = [exit EXCEPT ![cur] = "error"]
    BY <1>3 DEF ExecuteDirectly
  <2>3. Execution!Start(cur)
    BY <1>1, <1>3, <2>1 DEF Execution!Start
  <2>4. Execution!Perform(cur)
    BY <2>1, <2>2, <2>3 DEF Execution!Perform, Execution!Ending
  <2>5. QED
    BY <1>1, <1>3, <2>4
<1>4. ASSUME NEW j \in Job, container[j] = "running", UNCHANGED <<row, launches>>,
             NEW e \in Execution!Ending, exit' = [exit EXCEPT ![j] = e]
      PROVE  Execution!End(j)
  <2>1. launches[j] = 1 /\ exit[j] = "unknown"
    BY <1>4 DEF AgentInv, ExecutionInv
  <2>2. UNCHANGED <<Shown, launches>>
    BY <1>4 DEF Shown
  <2>3. QED
    BY <1>4, <2>1, <2>2 DEF Execution!End
<1>5. ASSUME NEW j \in Job, ContainerExits(j)
      PROVE  Execution!End(j)
  BY <1>0, <1>4, <1>5 DEF ContainerExits, Ends, Execution!Ending, cpVars
<1>6. CASE StopRuntime
  <2>1. /\ cur \in Job /\ container[cur] = "running" /\ UNCHANGED <<row, launches>>
        /\ exit' = [exit EXCEPT ![cur] = "error"]
    BY <1>6 DEF StopRuntime, TypeInv, Busy, cpVars
  <2>2. QED
    BY <1>4, <2>1 DEF Execution!Ending
<1>7. CASE \/ \E j \in Job : Dispatch(j) \/ Cancel(j) \/ LapseUnrenewed(j)
                             \/ LapseInOutage(j) \/ Sweep(j) \/ Begin(j)
           \/ Reconcile \/ LateReport \/ Fetch \/ JournalFails
           \/ CanceledBeforeLaunch \/ NotLaunched \/ Create
           \/ CreateUnanswered \/ LaunchUnanswered \/ Collect
           \/ ReportAccepted \/ ReportRejected \/ ReportUnanswered
           \/ JournalAges \/ Crash \/ Restart
  BY <1>7
  DEF Dispatch, Cancel, LapseUnrenewed, LapseInOutage, Lapse, Sweep,
      SweepUnknown, SweepReported, SweepRejected, SweepUnanswered, Begin,
      Reconcile, LateReport, Fetch, JournalFails, CanceledBeforeLaunch,
      NotLaunched, Create, CreateUnanswered, CreateContainer, LaunchUnanswered,
      Collect, ReportAccepted, ReportRejected, ReportUnanswered, JournalAges,
      Crash, Restart, runtimeVars
<1>8. QED
  BY <1>1a, <1>2, <1>3, <1>5, <1>6, <1>7 DEF Next, Work

\* Whatever crashes, is lost or comes late, a job is executed once and after
\* it was handed out, its shown status follows the lifecycle, and it is shown
\* as succeeded only after an execution that ended well, or in a probe that was
\* answered "unsupported": the worker with its journal, its recovery and its
\* reports implements JobExecution.
THEOREM WorkerImplementsExecution == Spec => ExecutionSpec
<1>1. Init => Execution!Init
  BY DEF Init, Execution!Init, Execution!Lifecycle!Init, Shown
<1>2. TypeInv /\ TypeInv' /\ AgentInv /\ [Next]_vars
        => [Execution!Next]_<<Shown, launches, exit>>
  <2> SUFFICES ASSUME TypeInv, TypeInv', AgentInv, [Next]_vars
               PROVE  Execution!Next \/ UNCHANGED <<Shown, launches, exit>>
    OBVIOUS
  <2>1. CASE Next /\ UNCHANGED <<launches, exit>>
    BY <2>1, TableStep, RowMovesRecord DEF Execution!Next
  <2>2. CASE Next /\ ~UNCHANGED <<launches, exit>>
    BY <2>2, ExecutionStep DEF Execution!Next
  <2>3. CASE UNCHANGED vars
    BY <2>3 DEF vars, cpVars, runtimeVars, Shown
  <2>4. QED
    BY <2>1, <2>2, <2>3
<1>3. QED
  BY <1>1, <1>2, TypeInvariant, AgentInvariant, PTL
  DEF Spec, ExecutionSpec, Execution!Spec

\* So the table that the worker model keeps moves as JobLifecycle lets it, the
\* specification that the handlers of JobLease implement when they do not
\* overlap (SerialLifecycle): the two views of a job's row agree.
THEOREM WorkerFollowsLifecycle == Spec => Execution!Lifecycle!Spec
<1>1. Execution!Init => Execution!Lifecycle!Init
  BY DEF Execution!Init
<1>2. [Execution!Next]_<<Shown, launches, exit>> => [Execution!Lifecycle!Next]_Shown
  BY DEF Execution!Next, Execution!Record, Execution!Begin, Execution!End,
         Execution!Perform
<1>3. QED
  BY <1>1, <1>2, WorkerImplementsExecution, PTL
  DEF ExecutionSpec, Execution!Spec, Execution!Lifecycle!Spec

-----------------------------------------------------------------------------
(* What is left of OneJobAtATime, which does not hold.                     *)

(* The containers that run while the worker does not wait for them.        *)
Unattended == {j \in Job : container[j] = "running" /\ ~(pc = "running" /\ cur = j)}

(* The process dies, the engine refuses to stop a container, or it starts  *)
(* one and its answer is lost.                                             *)
Loses ==
  \/ Crash
  \/ StopRuntime /\ UNCHANGED container
  \/ \E j \in Job : EngineStarts(j)

LosesOnlyThen == [][Unattended' \subseteq Unattended \/ Loses]_vars

\* While it has lost none, one container runs at most.
LEMMA AttendedIsOne == Unattended = {} => OneJobAtATime
<1> DEFINE Running == {j \in Job : container[j] = "running"}
<1> SUFFICES ASSUME Unattended = {} PROVE Cardinality(Running) <= 1
  BY DEF OneJobAtATime
<1>1. Running \subseteq {cur}
  BY DEF Unattended
<1>2. IsFiniteSet({cur}) /\ Cardinality({cur}) = 1
  BY FS_Singleton
<1>3. Cardinality(Running) <= Cardinality({cur})
  BY <1>1, <1>2, FS_Subset
<1>4. QED
  BY <1>2, <1>3

\* The worker loses sight of a container that runs only when its process dies,
\* when the engine refuses to stop the container, or when the engine starts it
\* and the worker gets no answer; so these three are the only ways in which the
\* next job is executed beside one that still runs (_process_jobs,
\* run_runtime_job).
THEOREM OneJobUnlessLost ==
  Spec => LosesOnlyThen /\ [](Unattended = {} => OneJobAtATime)
<1>1. TypeInv /\ [Next]_vars => [Unattended' \subseteq Unattended \/ Loses]_vars
  <2> SUFFICES ASSUME TypeInv, Next, ~Loses, NEW j \in Job,
                      container'[j] = "running", ~(pc' = "running" /\ cur' = j)
               PROVE  container[j] = "running" /\ ~(pc = "running" /\ cur = j)
    BY DEF Unattended
  <2>0. cur \in Job \union {NoJob} /\ container \in [Job -> Container]
    BY DEF TypeInv, TypeOK
  <2>1. ASSUME UNCHANGED container, pc # "running"
        PROVE  container[j] = "running" /\ ~(pc = "running" /\ cur = j)
    BY <2>1
  <2>2. ASSUME UNCHANGED <<container, pc, cur>>
        PROVE  container[j] = "running" /\ ~(pc = "running" /\ cur = j)
    BY <2>2
  <2>3. ASSUME NEW k \in Job, Dispatch(k) \/ Cancel(k) \/ LapseUnrenewed(k)
                               \/ LapseInOutage(k)
        PROVE  UNCHANGED <<container, pc, cur>>
    BY <2>3 DEF Dispatch, Cancel, LapseUnrenewed, LapseInOutage, Lapse,
                processVars, runtimeVars
  <2>4. CASE Reconcile \/ LateReport \/ Fetch \/ JournalFails \/ JournalAges
    BY <2>2, <2>4 DEF Reconcile, LateReport, Fetch, JournalFails, JournalAges,
                      processVars, runtimeVars
  <2>5. CASE \/ CanceledBeforeLaunch \/ NotLaunched \/ ExecuteDirectly
             \/ ReportAccepted \/ ReportRejected \/ ReportUnanswered \/ Restart
    BY <2>1, <2>5 DEF CanceledBeforeLaunch, NotLaunched, Conclude, ExecuteDirectly,
                      ReportAccepted, ReportRejected, ReportUnanswered, Restart,
                      runtimeVars
  <2>6. ASSUME NEW k \in Job, Begin(k)
        PROVE  container[j] = "running" /\ ~(pc = "running" /\ cur = j)
    BY <2>1, <2>6 DEF Begin, runtimeVars
  <2>7. CASE Launch
    BY <2>0, <2>7 DEF Launch
  <2>7a. CASE Create \/ CreateUnanswered \/ LaunchUnanswered
    <3>1. PICK c \in {"created", "starting"} :
            container' = [container EXCEPT ![cur] = c]
      BY <2>7a DEF Create, CreateUnanswered, CreateContainer, LaunchUnanswered
    <3>2. pc \in {"starting", "created"}
      BY <2>7a DEF Create, CreateUnanswered, CreateContainer, LaunchUnanswered
    <3>3. QED
      BY <2>0, <3>1, <3>2
  <2>8. CASE Collect
    BY <2>0, <2>8 DEF Collect, Remove
  <2>9. CASE StopRuntime
    <3>1. /\ container' \in {[container EXCEPT ![cur] = c] : c \in {"none", "exited"}}
          /\ pc = "running" /\ container[cur] = "running"
      BY <2>9 DEF StopRuntime, Loses
    <3>2. QED
      BY <2>0, <3>1
  <2>10. ASSUME NEW k \in Job, ContainerExits(k)
         PROVE  container[j] = "running" /\ ~(pc = "running" /\ cur = j)
    BY <2>0, <2>10 DEF ContainerExits, processVars
  <2>11. ASSUME NEW k \in Job, Sweep(k)
         PROVE  container[j] = "running" /\ ~(pc = "running" /\ cur = j)
    <3>1. /\ UNCHANGED <<pc, cur>>
          /\ container' \in {[container EXCEPT ![k] = "none"], container}
      BY <2>11 DEF Sweep, SweepUnknown, SweepReported, SweepRejected,
                   SweepUnanswered, Remove, processVars, runtimeVars
    <3>2. QED
      BY <2>0, <3>1
  <2>12. QED
    BY <2>2, <2>3, <2>4, <2>5, <2>6, <2>7, <2>7a, <2>8, <2>9, <2>10, <2>11
    DEF Next, Work, Loses
<1>2. QED
  BY <1>1, AttendedIsOne, TypeInvariant, PTL DEF Spec, LosesOnlyThen
=============================================================================
