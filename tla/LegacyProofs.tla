---------------------------- MODULE LegacyProofs ----------------------------
(***************************************************************************)
(* Proofs about LegacyRuntime for any number of web processes, failures    *)
(* and starts.                                                             *)
(***************************************************************************)
EXTENDS LegacyRuntime, TLAPS

\* What the invariants rest on.  A process that has the office in hand, or a
\* scheduler, holds the lock until it is on its way out ...
OfficeInv ==
    /\ \A p \in Procs :
        life[p] # "leaving" /\ (election[p] = "locked" \/ p \in scheduler) => office = p
    /\ \A p \in Procs : life[p] = "down" => election[p] = "none" /\ p \notin scheduler

\* ... an attempt outlives stop, and a scheduler its end, after a slow join ...
SlowJoin == "join" \in faults
StopInv ==
    \A p \in Procs :
        /\ life[p] \in {"shutdown", "unlocking", "leaving"} /\ election[p] # "none" => SlowJoin
        /\ life[p] \in {"unlocking", "leaving"} /\ p \in scheduler => SlowJoin

\* ... and a pipeline runs under both locks.
FlightInv ==
    \A p \in Procs :
        /\ run[p] \in {"running", "unlocking"} => analysis = p
        /\ run[p] # "none" => p \in flag

LegacyInv == TypeOK /\ OfficeInv /\ StopInv /\ FlightInv

\* Types are kept, one step per action.
LEMMA TypeStep ==
  ASSUME TypeOK, OfficeInv, Next
  PROVE  TypeOK'
<1> USE LegacyAssumption DEF TypeOK, OfficeInv, electionVars, runVars
<1>1. ASSUME NEW p \in Procs, Start(p)
      PROVE  TypeOK'
  BY <1>1 DEF Start, Live, Elect, NoFault
<1>2. ASSUME NEW p \in Procs, Stop(p)
      PROVE  TypeOK'
  BY <1>2 DEF Stop, Live, NoFault
<1>3. ASSUME NEW p \in Procs, Dispatch(p)
      PROVE  TypeOK'
  BY <1>3 DEF Dispatch, Run, NoFault, Fault
<1>4. ASSUME NEW p \in Procs, AttemptFails(p)
      PROVE  TypeOK'
  BY <1>4 DEF AttemptFails, Attempted, Elect, Fault
<1>5. ASSUME NEW p \in Procs, Die(p)
      PROVE  TypeOK'
  BY <1>5 DEF Die, Gone, Without, Fault
<1>6. ASSUME NEW p \in Procs, Wake(p)
      PROVE  TypeOK'
  BY <1>6 DEF Wake, Elect, NoFault
<1>7. ASSUME NEW p \in Procs, TakeOffice(p)
      PROVE  TypeOK'
  BY <1>7 DEF TakeOffice, Elect, NoFault
<1>8. ASSUME NEW p \in Procs, Lose(p)
      PROVE  TypeOK'
  BY <1>8 DEF Lose, Attempted, Elect, NoFault
<1>9. ASSUME NEW p \in Procs, Schedule(p)
      PROVE  TypeOK'
  BY <1>9 DEF Schedule, Attempted, Elect, NoFault
<1>10. ASSUME NEW p \in Procs, Joined(p)
       PROVE  TypeOK'
  BY <1>10 DEF Joined, Live, NoFault, Fault
<1>11. ASSUME NEW p \in Procs, Shutdown(p)
       PROVE  TypeOK'
  BY <1>11 DEF Shutdown, Live, NoFault
<1>12. ASSUME NEW p \in Procs, Unlock(p)
       PROVE  TypeOK'
  BY <1>12 DEF Unlock, Live, Without, NoFault
<1>13. ASSUME NEW p \in Procs, Exit(p)
       PROVE  TypeOK'
  BY <1>13 DEF Exit, Gone, Without, NoFault
<1>14. ASSUME NEW p \in Procs, Refused(p)
       PROVE  TypeOK'
  BY <1>14 DEF Refused, CannotRun, Run, NoFault, Fault
<1>15. ASSUME NEW p \in Procs, RunPipeline(p)
       PROVE  TypeOK'
  BY <1>15 DEF RunPipeline, Run, NoFault
<1>16. ASSUME NEW p \in Procs, PipelineEnds(p)
       PROVE  TypeOK'
  BY <1>16 DEF PipelineEnds, Run, NoFault
<1>17. ASSUME NEW p \in Procs, UnlockFile(p)
       PROVE  TypeOK'
  BY <1>17 DEF UnlockFile, Run, NoFault, Fault
<1>18. ASSUME NEW p \in Procs, ReleaseFlag(p)
       PROVE  TypeOK'
  BY <1>18 DEF ReleaseFlag, Run, NoFault
<1> QED
  BY <1>1, <1>2, <1>3, <1>4, <1>5, <1>6, <1>7, <1>8, <1>9, <1>10, <1>11, <1>12, <1>13, <1>14, <1>15, <1>16, <1>17, <1>18 DEF Next, ElectionStep, StopStep, RunStep

\* Nobody schedules without the lock.
LEMMA OfficeStep ==
  ASSUME TypeOK, OfficeInv, Next
  PROVE  OfficeInv'
<1> USE LegacyAssumption DEF TypeOK, OfficeInv, electionVars, runVars
<1>1. ASSUME NEW p \in Procs, Start(p)
      PROVE  OfficeInv'
  BY <1>1 DEF Start, Live, Elect, NoFault
<1>2. ASSUME NEW p \in Procs, Stop(p)
      PROVE  OfficeInv'
  BY <1>2 DEF Stop, Live, NoFault
<1>3. ASSUME NEW p \in Procs, AttemptFails(p)
      PROVE  OfficeInv'
  BY <1>3 DEF AttemptFails, Attempted, Elect, Fault
<1>4. ASSUME NEW p \in Procs, Die(p)
      PROVE  OfficeInv'
  BY <1>4 DEF Die, Gone, Without, Fault
<1>5. ASSUME NEW p \in Procs, Wake(p)
      PROVE  OfficeInv'
  BY <1>5 DEF Wake, Elect, NoFault
<1>6. ASSUME NEW p \in Procs, TakeOffice(p)
      PROVE  OfficeInv'
  BY <1>6 DEF TakeOffice, Elect, NoFault
<1>7. ASSUME NEW p \in Procs, Lose(p)
      PROVE  OfficeInv'
  BY <1>7 DEF Lose, Attempted, Elect, NoFault
<1>8. ASSUME NEW p \in Procs, Schedule(p)
      PROVE  OfficeInv'
  BY <1>8 DEF Schedule, Attempted, Elect, NoFault
<1>9. ASSUME NEW p \in Procs, Joined(p)
      PROVE  OfficeInv'
  BY <1>9 DEF Joined, Live, NoFault, Fault
<1>10. ASSUME NEW p \in Procs, Shutdown(p)
       PROVE  OfficeInv'
  BY <1>10 DEF Shutdown, Live, NoFault
<1>11. ASSUME NEW p \in Procs, Unlock(p)
       PROVE  OfficeInv'
  BY <1>11 DEF Unlock, Live, Without, NoFault
<1>12. ASSUME NEW p \in Procs, Exit(p)
       PROVE  OfficeInv'
  BY <1>12 DEF Exit, Gone, Without, NoFault
<1>13. CASE UNCHANGED electionVars
  BY <1>13
<1>14. ASSUME NEW p \in Procs, Dispatch(p) \/ Refused(p) \/ RunPipeline(p) \/ PipelineEnds(p) \/ UnlockFile(p) \/ ReleaseFlag(p)
       PROVE  UNCHANGED electionVars
  BY <1>14 DEF Dispatch, Refused, CannotRun, RunPipeline, PipelineEnds, UnlockFile, ReleaseFlag, NoFault, Fault
<1> QED
  BY <1>1, <1>2, <1>3, <1>4, <1>5, <1>6, <1>7, <1>8, <1>9, <1>10, <1>11, <1>12, <1>13, <1>14 DEF Next, ElectionStep, StopStep, RunStep

\* Nobody is left over unless a join was slow.
LEMMA StopStepKept ==
  ASSUME TypeOK, StopInv, Next
  PROVE  StopInv'
<1> USE LegacyAssumption DEF TypeOK, StopInv, SlowJoin, electionVars, runVars
<1>1. ASSUME NEW p \in Procs, Start(p)
      PROVE  StopInv'
  BY <1>1 DEF Start, Live, Elect, NoFault
<1>2. ASSUME NEW p \in Procs, Stop(p)
      PROVE  StopInv'
  BY <1>2 DEF Stop, Live, NoFault
<1>3. ASSUME NEW p \in Procs, AttemptFails(p)
      PROVE  StopInv'
  BY <1>3 DEF AttemptFails, Attempted, Elect, Fault
<1>4. ASSUME NEW p \in Procs, Die(p)
      PROVE  StopInv'
  BY <1>4 DEF Die, Gone, Without, Fault
<1>5. ASSUME NEW p \in Procs, Wake(p)
      PROVE  StopInv'
  BY <1>5 DEF Wake, Elect, NoFault
<1>6. ASSUME NEW p \in Procs, TakeOffice(p)
      PROVE  StopInv'
  BY <1>6 DEF TakeOffice, Elect, NoFault
<1>7. ASSUME NEW p \in Procs, Lose(p)
      PROVE  StopInv'
  BY <1>7 DEF Lose, Attempted, Elect, NoFault
<1>8. ASSUME NEW p \in Procs, Schedule(p)
      PROVE  StopInv'
  BY <1>8 DEF Schedule, Attempted, Elect, NoFault
<1>9. ASSUME NEW p \in Procs, Joined(p)
      PROVE  StopInv'
  BY <1>9 DEF Joined, Live, NoFault, Fault
<1>10. ASSUME NEW p \in Procs, Shutdown(p)
       PROVE  StopInv'
  BY <1>10 DEF Shutdown, Live, NoFault
<1>11. ASSUME NEW p \in Procs, Unlock(p)
       PROVE  StopInv'
  BY <1>11 DEF Unlock, Live, Without, NoFault
<1>12. ASSUME NEW p \in Procs, Exit(p)
       PROVE  StopInv'
  BY <1>12 DEF Exit, Gone, Without, NoFault
<1>13. CASE UNCHANGED electionVars /\ faults \subseteq faults'
  BY <1>13
<1>14. ASSUME NEW p \in Procs, Dispatch(p) \/ Refused(p) \/ RunPipeline(p) \/ PipelineEnds(p) \/ UnlockFile(p) \/ ReleaseFlag(p)
       PROVE  UNCHANGED electionVars /\ faults \subseteq faults'
  BY <1>14 DEF Dispatch, Refused, CannotRun, RunPipeline, PipelineEnds, UnlockFile, ReleaseFlag, NoFault, Fault
<1> QED
  BY <1>1, <1>2, <1>3, <1>4, <1>5, <1>6, <1>7, <1>8, <1>9, <1>10, <1>11, <1>12, <1>13, <1>14 DEF Next, ElectionStep, StopStep, RunStep, NoFault

\* Nobody runs without the locks.
LEMMA FlightStep ==
  ASSUME TypeOK, FlightInv, Next
  PROVE  FlightInv'
<1> USE LegacyAssumption DEF TypeOK, FlightInv, electionVars, runVars
<1>1. ASSUME NEW p \in Procs, Dispatch(p)
      PROVE  FlightInv'
  BY <1>1 DEF Dispatch, Run, NoFault, Fault
<1>2. ASSUME NEW p \in Procs, Die(p)
      PROVE  FlightInv'
  BY <1>2 DEF Die, Gone, Without, Fault
<1>3. ASSUME NEW p \in Procs, Exit(p)
      PROVE  FlightInv'
  BY <1>3 DEF Exit, Gone, Without, NoFault
<1>4. ASSUME NEW p \in Procs, Refused(p)
      PROVE  FlightInv'
  BY <1>4 DEF Refused, CannotRun, Run, NoFault, Fault
<1>5. ASSUME NEW p \in Procs, RunPipeline(p)
      PROVE  FlightInv'
  BY <1>5 DEF RunPipeline, Run, NoFault
<1>6. ASSUME NEW p \in Procs, PipelineEnds(p)
      PROVE  FlightInv'
  BY <1>6 DEF PipelineEnds, Run, NoFault
<1>7. ASSUME NEW p \in Procs, UnlockFile(p)
      PROVE  FlightInv'
  BY <1>7 DEF UnlockFile, Run, NoFault, Fault
<1>8. ASSUME NEW p \in Procs, ReleaseFlag(p)
      PROVE  FlightInv'
  BY <1>8 DEF ReleaseFlag, Run, NoFault
<1>9. CASE UNCHANGED <<flag, run, analysis>>
  BY <1>9
<1>10. ASSUME NEW p \in Procs, 
                 \/ Start(p) \/ Stop(p) \/ AttemptFails(p) \/ Wake(p) \/ TakeOffice(p)
                 \/ Lose(p) \/ Schedule(p) \/ Joined(p) \/ Shutdown(p) \/ Unlock(p)
       PROVE  UNCHANGED <<flag, run, analysis>>
  BY <1>10 DEF Start, Stop, AttemptFails, Wake, Attempted, TakeOffice, Lose, Schedule, Joined, Shutdown, Unlock
<1> QED
  BY <1>1, <1>2, <1>3, <1>4, <1>5, <1>6, <1>7, <1>8, <1>9, <1>10 DEF Next, ElectionStep, StopStep, RunStep

LEMMA LegacyInductive == Spec => []LegacyInv
<1>1. Init => LegacyInv
  BY LegacyAssumption DEF Init, LegacyInv, TypeOK, OfficeInv, StopInv, FlightInv
<1>2. LegacyInv /\ [Next]_vars => LegacyInv'
  <2>1. CASE LegacyInv /\ Next
    BY <2>1, TypeStep, OfficeStep, StopStepKept, FlightStep DEF LegacyInv
  <2>2. CASE LegacyInv /\ UNCHANGED vars
    BY <2>2 DEF LegacyInv, TypeOK, OfficeInv, StopInv, SlowJoin, FlightInv, vars, electionVars, runVars
  <2> QED
    BY <2>1, <2>2
<1> QED
  BY <1>1, <1>2, PTL DEF Spec

\* A held lock has a live owner, and that of the analysis a thread that will
\* give it up (legacy.py:71-131).
THEOREM LegacyTypes == Spec => []TypeOK
  BY LegacyInductive, PTL DEF LegacyInv

\* One scheduler per host, and one that outlives stop only after a slow join
\* (legacy.py:43-103).
THEOREM OneSchedulerAlways == Spec => []OneScheduler
<1>1. LegacyInv => OneScheduler
  BY DEF LegacyInv, TypeOK, OfficeInv, StopInv, SlowJoin, OneScheduler
<1> QED
  BY <1>1, LegacyInductive, PTL

\* One pipeline under the locks at a time (legacy.py:105-131).
THEOREM SingleFlightAlways == Spec => []SingleFlight
<1>1. LegacyInv => SingleFlight
  BY DEF LegacyInv, TypeOK, FlightInv, SingleFlight
<1> QED
  BY <1>1, LegacyInductive, PTL
=============================================================================
