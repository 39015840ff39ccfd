--------------------------- MODULE MissionProofs ----------------------------
(***************************************************************************)
(* Theorems about Dispatch, for every set of tasks, agents and plans, and  *)
(* about Paymaster, for every situation, rank table and depot, that the    *)
(* modules' assumptions allow.                                             *)
(***************************************************************************)
EXTENDS MCMission, FiniteSetTheorems, SequenceTheorems, WellFoundedInduction, TLAPS

LEMMA PlanType ==
  ASSUME TypeOK
  PROVE  /\ plan.list \subseteq Tasks
         /\ plan.crew \subseteq Agents
         /\ plan.owner \in [Tasks -> Agents]
         /\ plan.deps \in [Tasks -> SUBSET Tasks]
         /\ plan.asked \in Nat \ {0}
         /\ plan.channel \in Nat
  BY PlansAssumption DEF TypeOK, Plan

(* TypeOK: the state of execute stays well typed. *)
THEOREM TypeCorrect == Spec => []TypeOK
<1>1. Init => TypeOK
  BY PlansAssumption DEF Init, TypeOK, Plan, Phases, MissionStatus, TaskStatus,
     RowStatus, NotCached
<1>2. TypeOK /\ [Next]_vars => TypeOK'
  <2> SUFFICES ASSUME TypeOK, [Next]_vars PROVE TypeOK'
    OBVIOUS
  <2> USE DEF Phases, MissionStatus, TaskStatus, NotCached
  <2>1. ASSUME NEW s \in RowStatus PROVE Moved(s) \in [Agents -> RowStatus]
    BY DEF TypeOK, Moved
  <2>2. ASSUME NEW v \in {"fail", "complete"}
        PROVE  Append(verdicts, v) \in Seq({"fail", "complete"})
    BY DEF TypeOK
  <2>3. CASE Refuse
    BY <2>3, <2>2 DEF Refuse, TypeOK, agentVars, moneyVars
  <2>4. CASE Begin
    BY <2>4, <2>1 DEF Begin, TypeOK, moneyVars, RowStatus
  <2>5. CASE NextWave
    BY <2>5, PlanType DEF NextWave, TypeOK, agentVars, moneyVars, Ready
  <2>6. CASE Stuck
    BY <2>6, <2>2 DEF Stuck, TypeOK, agentVars, moneyVars
  <2>7. CASE LeaveLoop
    BY <2>7 DEF LeaveLoop, TypeOK, agentVars, moneyVars
  <2>8. CASE WaveEnds
    BY <2>8 DEF WaveEnds, TypeOK, agentVars, moneyVars
  <2>9. ASSUME NEW t \in Tasks, StartTask(t) PROVE TypeOK'
    <3>1. Violations(plan.owner[t]) \in Nat
      BY <2>9, PlanType DEF StartTask, TypeOK, Violations
    <3>2. QED
      BY <2>9, <3>1 DEF StartTask, TypeOK, moneyVars
  <2>10. ASSUME NEW t \in Tasks, MissAgent(t) PROVE TypeOK'
    BY <2>10 DEF MissAgent, TypeOK, agentVars, moneyVars
  <2>11. ASSUME NEW t \in Tasks, NEW a \in Answers, FinishTask(t, a)
         PROVE  TypeOK'
    <3>1. conduct' \in [Agents -> Nat] /\ cache' \in [Agents -> Nat \cup {-1}]
      BY <2>11 DEF FinishTask, Charge, TypeOK
    <3>2. QED
      BY <2>11, <3>1 DEF FinishTask, Verified, TypeOK, moneyVars
  <2>12. CASE Conclude
    BY <2>12, PlanType DEF Conclude, TypeOK, agentVars
  <2>13. ASSUME NEW a \in Agents, PayAgent(a) PROVE TypeOK'
    <3>1. IsFiniteSet(DoneBy(a))
      BY PlanType, TasksAssumption, FS_Subset DEF DoneBy, Completed, InStatus
    <3>2. Cardinality(DoneBy(a)) \in Nat
      BY <3>1, FS_CardinalityType
    <3>3. paid' \in [Agents -> Nat] /\ bonus' \subseteq Agents
      BY <2>13, <3>2 DEF PayAgent, TypeOK
    <3>4. unpaid' \subseteq Agents
      BY <2>13 DEF PayAgent, TypeOK
    <3>5. QED
      BY <2>13, <3>3, <3>4 DEF PayAgent, TypeOK, agentVars
  <2>14. CASE LogVerdict
    BY <2>14, <2>2 DEF LogVerdict, TypeOK, agentVars, moneyVars
  <2>15. CASE Settle
    BY <2>15, <2>1 DEF Settle, TypeOK, agentVars, moneyVars, RowStatus
  <2>16. CASE Interrupt
    BY <2>16 DEF Interrupt, TypeOK, agentVars, moneyVars
  <2>17. ASSUME NEW a \in Agents, StrikeAgent(a) PROVE TypeOK'
    BY <2>17 DEF StrikeAgent, TypeOK, agentVars, moneyVars
  <2>18. ASSUME NEW t \in Tasks, OrphanEnds(t) PROVE TypeOK'
    BY <2>18 DEF OrphanEnds, TypeOK, agentVars, moneyVars
  <2>19. CASE UNCHANGED vars
    BY <2>19 DEF vars, TypeOK
  <2>20. QED
    BY <2>3, <2>4, <2>5, <2>6, <2>7, <2>8, <2>9, <2>10, <2>11, <2>12, <2>13,
       <2>14, <2>15, <2>16, <2>17, <2>18, <2>19
       DEF Next, Dispatcher, Environment, RunTask
<1>3. QED
  BY <1>1, <1>2, PTL DEF Spec
-----------------------------------------------------------------------------
(***************************************************************************)
(* The shape of a run: which tasks may have left "pending" in each phase.  *)
(* DependenciesFirst, LoopIsIdle and FailureEndsWithItsWave are its parts; *)
(* they are not inductive without the others.                              *)
(***************************************************************************)
\* The loop head finds no task running.
LoopIsIdle == phase \in Out \ {"wave"} => Running = {} /\ wave = {}
NotStarted ==
  phase \in {"intake", "refused"} => wave = {} /\ \A t \in Tasks : task[t] = "pending"
WaveIsReady ==
  phase = "wave" => \A t \in wave : t \in plan.list /\ plan.deps[t] \subseteq Completed
OnlyListed == \A t \in Tasks : task[t] # "pending" => t \in plan.list

Shape == /\ NotStarted /\ WaveIsReady /\ OnlyListed
         /\ DependenciesFirst /\ LoopIsIdle /\ FailureEndsWithItsWave

\* A step of a coroutine moves one task of the wave, out of "pending" or out
\* of "running", and no other step touches a task.
TaskStep(t) ==
  /\ phase = "wave" /\ phase' = phase /\ wave' = wave /\ plan' = plan
  /\ \/ t \in wave /\ task[t] = "pending"
     \/ task[t] = "running"
  /\ task' = [task EXCEPT ![t] = task'[t]]
  /\ task'[t] \in {"running", "complete", "failed"}

LEMMA StepsOfTasks ==
  ASSUME TypeOK, [Next]_vars
  PROVE  (\E t \in Tasks : TaskStep(t)) \/ UNCHANGED <<plan, task>>
<1>1. ASSUME NEW t \in Tasks, StartTask(t) PROVE TaskStep(t)
  BY <1>1 DEF StartTask, TakesSlot, TypeOK, TaskStep
<1>2. ASSUME NEW t \in Tasks, MissAgent(t) PROVE TaskStep(t)
  BY <1>2 DEF MissAgent, TakesSlot, TypeOK, TaskStep
<1>3. ASSUME NEW t \in Tasks, NEW a \in Answers, FinishTask(t, a)
      PROVE  TaskStep(t)
  BY <1>3 DEF FinishTask, Verified, TypeOK, TaskStep
<1>4. QED
  BY <1>1, <1>2, <1>3
     DEF Next, Dispatcher, Environment, RunTask, Refuse, Begin, NextWave,
         Stuck, LeaveLoop, WaveEnds, Conclude, PayAgent, LogVerdict, Settle,
         Interrupt, StrikeAgent, OrphanEnds, vars

LEMMA ShapeInit == Init => Shape
  BY PlansAssumption DEF Plan, Init, Shape, NotStarted, WaveIsReady, OnlyListed, DependenciesFirst,
     LoopIsIdle, FailureEndsWithItsWave, Running, InStatus, Out

\* What the steps that leave the tasks alone may do to phase and wave.
PhaseStep ==
  \/ phase' = phase /\ wave' = wave
  \/ phase = "intake" /\ phase' \in {"loop", "refused"} /\ wave' = wave
  \/ phase = "loop" /\ ~AnyFailed /\ phase' = "wave" /\ wave' = Ready
  \/ /\ phase = "wave" /\ phase' = "loop" /\ wave' = {}
     /\ \A t \in wave : task[t] \in {"complete", "failed"}
  \/ phase \in Out \ {"wave"} /\ phase' \in Out \ {"wave", "loop"} /\ wave' = wave
  \/ phase' \in {"done", "interrupted"} /\ wave' = wave

LEMMA StepsOfPhases ==
  ASSUME [Next]_vars, UNCHANGED <<plan, task>>
  PROVE  PhaseStep
  BY DEF PhaseStep, Out, AnyFailed, Next, Dispatcher, Environment, RunTask,
         StartTask, MissAgent, TakesSlot, FinishTask, Refuse, Begin, NextWave,
         Stuck, LeaveLoop, WaveEnds, Conclude, PayAgent, LogVerdict, Settle,
         Interrupt, StrikeAgent, OrphanEnds, vars

LEMMA ShapeStep ==
  ASSUME TypeOK, Shape, [Next]_vars
  PROVE  Shape'
<1> USE PlanType DEF Shape, NotStarted, WaveIsReady, OnlyListed,
        DependenciesFirst, LoopIsIdle, FailureEndsWithItsWave, Running,
        Completed, InStatus, Out
<1>1. ASSUME NEW t \in Tasks, TaskStep(t) PROVE Shape'
  <2>1. t \in wave /\ t \in plan.list
    BY <1>1 DEF TaskStep
  <2>2. Completed \subseteq Completed'
    BY <1>1 DEF TaskStep, TypeOK
  <2>3. \A u \in Tasks : u # t => task'[u] = task[u]
    BY <1>1 DEF TaskStep, TypeOK
  <2>4. plan.deps[t] \subseteq Completed
    BY <1>1, <2>1 DEF TaskStep
  <2>5. DependenciesFirst' /\ WaveIsReady'
    BY <1>1, <2>1, <2>2, <2>3, <2>4 DEF TaskStep
  <2>6. FailureEndsWithItsWave' /\ OnlyListed'
    BY <1>1, <2>1, <2>3 DEF TaskStep
  <2>7. NotStarted' /\ LoopIsIdle'
    BY <1>1 DEF TaskStep
  <2>8. QED
    BY <2>5, <2>6, <2>7
<1>2. CASE UNCHANGED <<plan, task>>
  <2>1. DependenciesFirst' /\ OnlyListed'
    BY <1>2
  <2>2. PhaseStep
    BY <1>2, StepsOfPhases
  <2>3. NotStarted' /\ LoopIsIdle'
    BY <1>2, <2>2 DEF PhaseStep, TypeOK, TaskStatus
  <2>4. WaveIsReady'
    BY <1>2, <2>2 DEF PhaseStep, Ready
  <2>5. FailureEndsWithItsWave'
    BY <1>2, <2>2 DEF PhaseStep, AnyFailed
  <2>6. QED
    BY <2>1, <2>3, <2>4, <2>5
<1>3. QED
  BY <1>1, <1>2, StepsOfTasks

(* Shape holds in every state of every run. *)
THEOREM ShapeHolds == Spec => []Shape
<1>1. TypeOK /\ Shape /\ [Next]_vars => Shape'
  BY ShapeStep
<1>2. QED
  BY <1>1, ShapeInit, TypeCorrect, PTL DEF Spec
(* DependenciesFirst, LoopIsIdle and FailureEndsWithItsWave for every plan.  *)
(* A task starts only after all it depends on is complete.                   *)
THEOREM DependenciesFirstHolds == Spec => []DependenciesFirst
<1>1. Shape => DependenciesFirst
  BY DEF Shape
<1>2. QED
  BY <1>1, ShapeHolds, PTL

(* After a failure the wave it happened in is the last one. *)
THEOREM FailureEndsWithItsWaveHolds == Spec => []FailureEndsWithItsWave
<1>1. Shape => FailureEndsWithItsWave
  BY DEF Shape
<1>2. QED
  BY <1>1, ShapeHolds, PTL

(* execute need not wait at the loop head: no task is ever running there. *)
THEOREM LoopIsIdleHolds == Spec => []LoopIsIdle
<1>1. Shape => LoopIsIdle
  BY DEF Shape
<1>2. QED
  BY <1>1, ShapeHolds, PTL
-----------------------------------------------------------------------------
(***************************************************************************)
(* Completion.  Where the dependencies have no cycle and name only tasks   *)
(* of the mission, the loop cannot get stuck, so the outcome is told from  *)
(* the tasks alone.                                                        *)
(***************************************************************************)
\* What the mission templates and the project cycles build: a task depends
\* only on tasks listed before it.  Such missions are resolvable.
LEMMA ListOrderedIsResolvable ==
  ASSUME TypeOK,
         \A t \in plan.list : plan.deps[t] \subseteq {u \in plan.list : u < t}
  PROVE  Resolvable
<1> SUFFICES ASSUME NEW S \in SUBSET plan.list, S # {}
             PROVE  \E t \in S : plan.deps[t] \cap S = {}
  BY DEF Resolvable
<1> DEFINE R == {ss \in Nat \X Nat : ss[1] < ss[2]}
<1>1. IsWellFoundedOn(R, Nat)
  BY NatLessThanWellFounded DEF OpToRel
<1>2. S \subseteq Nat
  BY TasksAssumption, PlanType
<1>3. PICK t \in S : \A u \in S : ~ (<<u, t>> \in R)
  <2> HIDE DEF R
  <2>1. QED
    BY <1>1, <1>2, WFMin
<1>4. \A u \in S : ~ (u < t)
  BY <1>2, <1>3
<1>5. QED
  BY <1>4

\* mission.status against the tasks, phase by phase.
Outcome ==
  /\ phase \in {"loop", "wave"} => mission = "dispatched"
  /\ phase = "conclude" => mission # "complete" /\ (AllComplete \/ AnyFailed)
  /\ mission = "complete" => AllComplete
                             /\ phase \in {"payroll", "settle", "done", "interrupted"}
  /\ mission = "failed" => phase \in {"payroll", "settle", "done",
                                      "refused", "interrupted"}
  /\ bonus # {} => mission = "complete"
  /\ phase = "intake" => mission = "draft"

\* Some pending task depends on no pending one: the loop is never stuck.
LEMMA NeverStuck ==
  ASSUME TypeOK, Resolvable
  PROVE  ~Stuck
<1> SUFFICES ASSUME Stuck PROVE FALSE
  OBVIOUS
<1> USE PlanType
<1> DEFINE Pending == {t \in plan.list : task[t] = "pending"}
<1>1. \A t \in plan.list : task[t] \in {"pending", "complete"}
  BY DEF Stuck, AnyFailed, Running, InStatus, TypeOK, TaskStatus
<1>2. Pending # {}
  BY <1>1 DEF Stuck, AllComplete
<1>3. PICK n \in Pending : plan.deps[n] \cap Pending = {}
  <2>1. Pending \in SUBSET plan.list
    OBVIOUS
  <2> HIDE DEF Pending
  <2>2. QED
    BY <1>2, <2>1 DEF Resolvable
<1>4. plan.deps[n] \subseteq plan.list
  BY <1>3 DEF Resolvable
<1>5. plan.deps[n] \subseteq Completed
  BY <1>1, <1>3, <1>4 DEF Completed, InStatus
<1>6. n \in Ready
  BY <1>3, <1>5 DEF Ready
<1>7. QED
  BY <1>6 DEF Stuck

LEMMA OutcomeStep ==
  ASSUME TypeOK, Shape, Resolvable, Outcome, [Next]_vars
  PROVE  Outcome'
<1> USE DEF Outcome, AllComplete, AnyFailed
<1>1. ASSUME NEW t \in Tasks, TaskStep(t), UNCHANGED <<mission, bonus>>
      PROVE  Outcome'
  BY <1>1 DEF TaskStep
<1>2. ASSUME NEW t \in Tasks, RunTask(t) PROVE Outcome'
  <2>1. \E u \in Tasks : TaskStep(u)
    <3>1. CASE StartTask(t)
      BY <3>1 DEF StartTask, TakesSlot, TypeOK, TaskStep
    <3>2. CASE MissAgent(t)
      BY <3>2 DEF MissAgent, TakesSlot, TypeOK, TaskStep
    <3>3. ASSUME NEW a \in Answers, FinishTask(t, a)
          PROVE  TaskStep(t)
      BY <3>3 DEF FinishTask, Verified, TypeOK, TaskStep
    <3>4. QED
      BY <1>2, <3>1, <3>2, <3>3 DEF RunTask
  <2>2. UNCHANGED <<mission, bonus>>
    BY <1>2 DEF RunTask, StartTask, MissAgent, FinishTask, moneyVars
  <2>3. QED
    BY <1>1, <2>1, <2>2
<1>3. CASE Refuse \/ Begin \/ NextWave \/ LeaveLoop \/ WaveEnds \/ LogVerdict \/ Settle
  BY <1>3 DEF Refuse, Begin, NextWave, LeaveLoop, WaveEnds, LogVerdict,
              Settle, moneyVars
<1>4. CASE Conclude
  BY <1>4 DEF Conclude, TypeOK, TaskStatus
<1>5. ASSUME NEW a \in Agents, PayAgent(a) PROVE Outcome'
  BY <1>5 DEF PayAgent
<1>6. CASE Environment \/ UNCHANGED vars
  BY <1>6 DEF Environment, Interrupt, StrikeAgent, OrphanEnds, vars, moneyVars
<1>7. QED
  BY <1>2, <1>3, <1>4, <1>5, <1>6, NeverStuck DEF Next, Dispatcher

\* The plan, and so whether it is resolvable, never changes.
LEMMA PlanIsFixed ==
  ASSUME TypeOK, [Next]_vars
  PROVE  Resolvable' = Resolvable
<1>1. plan' = plan
  BY DEF Next, Dispatcher, Environment, RunTask, StartTask, MissAgent, FinishTask,
         Refuse, Begin, NextWave, Stuck, LeaveLoop, WaveEnds, Conclude, PayAgent,
         LogVerdict, Settle, Interrupt, StrikeAgent, OrphanEnds, vars
<1>2. QED
  BY <1>1 DEF Resolvable

LEMMA OutcomeHolds == Spec => [](Resolvable => Outcome)
<1>1. Init => (Resolvable => Outcome)
  BY DEF Init, Outcome
<1>2. TypeOK /\ Shape /\ (Resolvable => Outcome) /\ [Next]_vars
        => (Resolvable => Outcome)'
  BY OutcomeStep, PlanIsFixed
<1>3. QED
  BY <1>1, <1>2, TypeCorrect, ShapeHolds, PTL DEF Spec

(* A resolvable mission that is reported complete has every task complete,   *)
(* and no other mission pays the completion bonus.                           *)
THEOREM CompleteIfResolvableHolds == Spec => []CompleteIfResolvable
<1>1. (Resolvable => Outcome) => CompleteIfResolvable
  BY DEF Outcome, CompleteMeansAllTasks, CompleteIfResolvable
<1>2. QED
  BY <1>1, OutcomeHolds, PTL

(* ... and a mission once marked failed is never turned into a complete one. *)
THEOREM FailedIsFinalHolds == Spec => FailedIsFinal
<1>1. (Resolvable => Outcome) /\ [Next]_vars
        => [Resolvable /\ mission = "failed" => mission' = "failed"]_vars
  BY DEF Outcome, vars, moneyVars, Next, Dispatcher, Environment, RunTask,
         StartTask, MissAgent, FinishTask, Refuse, Begin, NextWave, Stuck,
         LeaveLoop, WaveEnds, Conclude, PayAgent, LogVerdict, Settle,
         Interrupt, StrikeAgent, OrphanEnds
<1>2. QED
  BY <1>1, OutcomeHolds, PTL DEF Spec, FailedIsFinal
-----------------------------------------------------------------------------
LEMMA RunningIsFinite ==
  ASSUME TypeOK
  PROVE  IsFiniteSet(Running) /\ Cardinality(Running) \in Nat
<1>1. IsFiniteSet(Running)
  BY PlanType, TasksAssumption, FS_Subset DEF Running, InStatus
<1>2. QED
  BY <1>1, FS_CardinalityType

(* The semaphore holds: never more running tasks than the smaller of the     *)
(* caller's limit and the channel's.                                         *)
THEOREM WithinLimitHolds == Spec => []WithinLimit
<1>1. Init /\ TypeOK => WithinLimit
  <2> SUFFICES ASSUME Init, TypeOK PROVE WithinLimit
    OBVIOUS
  <2>1. Running = {}
    BY PlanType DEF Init, Running, InStatus
  <2>2. Limit \in Nat
    BY PlanType DEF Limit
  <2>3. QED
    BY <2>1, <2>2, FS_EmptySet DEF WithinLimit
<1>2. TypeOK /\ WithinLimit /\ [Next]_vars => WithinLimit'
  <2> SUFFICES ASSUME TypeOK, WithinLimit, [Next]_vars PROVE WithinLimit'
    OBVIOUS
  <2>1. Limit \in Nat
    BY PlanType DEF Limit
  <2>2. CASE UNCHANGED <<plan, task>>
    BY <2>2 DEF WithinLimit, Running, InStatus, Limit
  <2>3. ASSUME NEW t \in Tasks, TaskStep(t), Cardinality(Running) < Limit
        PROVE  WithinLimit'
    <3>1. Running' \subseteq Running \cup {t} /\ Limit' = Limit
      <4>1. \A u \in Tasks : u # t => task'[u] = task[u]
        BY <2>3 DEF TaskStep, TypeOK
      <4>2. plan' = plan
        BY <2>3 DEF TaskStep
      <4>3. QED
        BY <4>1, <4>2, PlanType DEF Running, InStatus, Limit
    <3>2. IsFiniteSet(Running \cup {t})
          /\ Cardinality(Running \cup {t}) \in Nat
          /\ Cardinality(Running \cup {t}) <= Cardinality(Running) + 1
      <4>1. IsFiniteSet(Running) /\ Cardinality(Running) \in Nat
        BY RunningIsFinite
      <4>2. /\ IsFiniteSet(Running \cup {t})
            /\ \/ Cardinality(Running \cup {t}) = Cardinality(Running)
               \/ Cardinality(Running \cup {t}) = Cardinality(Running) + 1
        BY <4>1, FS_AddElement, Zenon
      <4>3. QED
        BY <4>1, <4>2
    <3>3. Cardinality(Running') \in Nat
          /\ Cardinality(Running') <= Cardinality(Running \cup {t})
      BY <3>1, <3>2, FS_Subset, FS_CardinalityType
    <3>4. QED
      BY <2>1, <2>3, <3>1, <3>2, <3>3, RunningIsFinite DEF WithinLimit
  <2>4. ASSUME NEW t \in Tasks, NEW a \in Answers, FinishTask(t, a)
        PROVE  WithinLimit'
    <3>1. Running' \subseteq Running /\ Limit' = Limit
      BY <2>4 DEF FinishTask, Verified, TypeOK, Running, InStatus, Limit
    <3>2. Cardinality(Running') \in Nat
          /\ Cardinality(Running') <= Cardinality(Running)
      BY <3>1, RunningIsFinite, FS_Subset, FS_CardinalityType
    <3>3. QED
      BY <2>1, <3>1, <3>2, RunningIsFinite DEF WithinLimit
  <2>5. ASSUME NEW t \in Tasks, StartTask(t) \/ MissAgent(t)
        PROVE  TaskStep(t) /\ Cardinality(Running) < Limit
    BY <2>5 DEF StartTask, MissAgent, TakesSlot, TypeOK, TaskStep
  <2>6. QED
    BY <2>2, <2>3, <2>4, <2>5
       DEF Next, Dispatcher, Environment, RunTask, Refuse, Begin, NextWave,
           Stuck, LeaveLoop, WaveEnds, Conclude, PayAgent, LogVerdict, Settle,
           Interrupt, StrikeAgent, OrphanEnds, vars
<1>3. QED
  BY <1>1, <1>2, TypeCorrect, PTL DEF Spec
-----------------------------------------------------------------------------
(* Rows of the tagged project: RowsFollowMission is inductive once the crew  *)
(* is known to have rows.                                                    *)
RowsInv == /\ RowsFollowMission
           /\ plan.tagged => \A a \in plan.crew : rows[a] # "none"

(* The crew's engagements are swarming exactly while the mission is out or   *)
(* its process died, and tell the outcome afterwards.                        *)
THEOREM RowsFollowMissionHolds == Spec => []RowsFollowMission
<1> USE DEF RowsInv, RowsFollowMission, Out
<1>1. Init => RowsInv
  BY PlansAssumption DEF Init, Plan
<1>2. TypeOK /\ RowsInv /\ [Next]_vars => RowsInv'
  <2> SUFFICES ASSUME TypeOK, RowsInv, [Next]_vars PROVE RowsInv'
    OBVIOUS
  <2> USE PlanType
  <2>1. ASSUME NEW s \in RowStatus \ {"none"}, plan' = plan, rows' = Moved(s)
        PROVE  plan.tagged => \A a \in plan.crew : rows'[a] = s
    BY <2>1 DEF Moved
  <2>2. CASE Begin
    BY <2>2, <2>1 DEF Begin, RowStatus
  <2>3. CASE Settle
    BY <2>3, <2>1 DEF Settle, RowStatus
  <2>4. CASE UNCHANGED <<plan, phase, mission, rows>>
    BY <2>4
  <2>5. CASE UNCHANGED <<plan, rows>>
             /\ \/ phase \in Out /\ phase' \in Out \cup {"interrupted"}
                \/ phase = "intake" /\ phase' = "refused"
    BY <2>5
  <2>6. QED
    BY <2>2, <2>3, <2>4, <2>5
       DEF Next, Dispatcher, Environment, RunTask, StartTask, MissAgent,
           TakesSlot, FinishTask, Refuse, NextWave, Stuck, LeaveLoop,
           WaveEnds, Conclude, PayAgent, LogVerdict, Interrupt, StrikeAgent,
           OrphanEnds, vars
<1>3. QED
  BY <1>1, <1>2, TypeCorrect, PTL DEF Spec
-----------------------------------------------------------------------------
(* Payroll: what was paid is bounded by what was answered because completed  *)
(* tasks were verified, and because each agent is visited once.              *)
PayInv ==
  /\ \A t \in Completed : t \in Answered(plan.owner[t])
  /\ \A a \in Agents : paid[a] > 0 =>
       /\ phase \in {"payroll", "settle", "done", "interrupted"}
       /\ a \notin unpaid
  /\ \A a \in Agents : paid[a] <= Cardinality(Answered(a))

LEMMA AnsweredIsFinite ==
  ASSUME TypeOK, NEW a
  PROVE  IsFiniteSet(Answered(a)) /\ Cardinality(Answered(a)) \in Nat
<1>1. IsFiniteSet(Answered(a))
  BY PlanType, TasksAssumption, FS_Subset DEF Answered
<1>2. QED
  BY <1>1, FS_CardinalityType

LEMMA PayInvStep ==
  ASSUME TypeOK, TypeOK', PayInv, [Next]_vars
  PROVE  PayInv'
<1> USE PlanType DEF PayInv
<1>1. CASE UNCHANGED <<plan, task, answer, paid>>
           /\ \/ unpaid' = unpaid /\ phase' = phase
              \/ phase \in {"intake", "loop", "wave"} /\ unpaid' = unpaid
              \/ phase = "conclude"
              \/ /\ phase' \in {"settle", "done", "interrupted"}
                 /\ unpaid' = unpaid
  BY <1>1 DEF Completed, InStatus, Answered
<1>2. ASSUME NEW t \in Tasks, StartTask(t) \/ MissAgent(t) PROVE PayInv'
  <2>1. Completed' = Completed
    BY <1>2 DEF StartTask, MissAgent, TakesSlot, TypeOK, Completed, InStatus
  <2>2. QED
    BY <1>2, <2>1 DEF StartTask, MissAgent, TakesSlot, moneyVars, Answered
<1>3. ASSUME NEW t \in Tasks, NEW a \in Answers, FinishTask(t, a) PROVE PayInv'
  <2>1. \A b \in Agents : paid'[b] = 0
    BY <1>3 DEF FinishTask, moneyVars, TypeOK
  <2>2. ASSUME NEW b \in Agents PROVE Cardinality(Answered(b)') \in Nat
    <3>1. Answered(b)' \subseteq Tasks
      BY <1>3 DEF Answered, FinishTask
    <3>2. QED
      BY <3>1, TasksAssumption, FS_Subset, FS_CardinalityType
  <2>3. \A u \in Completed' : u \in Answered(plan.owner[u])'
    BY <1>3 DEF FinishTask, Verified, TypeOK, Completed, InStatus, Answered
  <2>4. QED
    BY <1>3, <2>1, <2>2, <2>3
<1>4. ASSUME NEW a \in Agents, PayAgent(a) PROVE PayInv'
  <2>1. paid[a] = 0
    BY <1>4 DEF PayAgent, TypeOK
  <2>2. DoneBy(a) \subseteq Answered(a)
    BY DEF DoneBy
  <2>3. Cardinality(DoneBy(a)) <= Cardinality(Answered(a))
        /\ Cardinality(DoneBy(a)) \in Nat
    BY <2>2, AnsweredIsFinite, FS_Subset, FS_CardinalityType
  <2>4. \A b \in Agents : paid'[b] <= Cardinality(Answered(b))
    <3>1. /\ \A b \in Agents : b # a => paid'[b] = paid[b]
          /\ paid'[a] = 0 \/ paid'[a] = Cardinality(DoneBy(a))
      <4>1. CASE a \in records /\ DoneBy(a) # {}
        <5>1. paid' = [paid EXCEPT ![a] = @ + Cardinality(DoneBy(a))]
          BY <1>4, <4>1 DEF PayAgent
        <5>2. QED
          BY <2>1, <2>3, <5>1 DEF TypeOK
      <4>2. CASE ~(a \in records /\ DoneBy(a) # {})
        BY <1>4, <2>1, <4>2 DEF PayAgent
      <4>3. QED
        BY <4>1, <4>2
    <3>2. Cardinality(Answered(a)) \in Nat
      BY AnsweredIsFinite
    <3>3. paid'[a] <= Cardinality(Answered(a))
      BY <2>3, <3>1, <3>2
    <3>4. ASSUME NEW b \in Agents, b # a PROVE paid'[b] <= Cardinality(Answered(b))
      BY <3>1, <3>4
    <3>5. QED
      BY <3>3, <3>4
  <2>5. UNCHANGED <<plan, task, answer>> /\ phase = "payroll" /\ phase' = phase
        /\ unpaid' = unpaid \ {a} /\ \A b \in Agents : b # a => paid'[b] = paid[b]
    BY <1>4 DEF PayAgent, TypeOK
  <2>6. QED
    BY <2>4, <2>5 DEF Completed, InStatus, Answered
<1>5. QED
  BY <1>1, <1>2, <1>3, <1>4
     DEF Next, Dispatcher, Environment, RunTask, Refuse, Begin, NextWave,
         Stuck, LeaveLoop, WaveEnds, Conclude, LogVerdict, Settle,
         Interrupt, StrikeAgent, OrphanEnds, vars, moneyVars

(* Nobody is paid for more tasks than it answered, nor before the outcome.   *)
THEOREM PaidForVerifiedWorkHolds == Spec => []PaidForVerifiedWork
<1>1. Init /\ TypeOK => PayInv
  <2> SUFFICES ASSUME Init, TypeOK PROVE PayInv
    OBVIOUS
  <2>1. Completed = {}
    BY PlanType DEF Init, Completed, InStatus
  <2>2. \A a \in Agents : paid[a] = 0 /\ Cardinality(Answered(a)) \in Nat
    BY AnsweredIsFinite DEF Init
  <2>3. QED
    BY <2>1, <2>2 DEF PayInv
<1>2. PayInv => PaidForVerifiedWork
  BY DEF PayInv, PaidForVerifiedWork
<1>3. TypeOK /\ TypeOK' /\ PayInv /\ [Next]_vars => PayInv'
  BY PayInvStep
<1>4. QED
  BY <1>1, <1>2, <1>3, TypeCorrect, PTL DEF Spec
-----------------------------------------------------------------------------
(* Payroll visits each of the crew once: whom it has come to was paid for    *)
(* what it completed, unless its record was gone, and nobody before that.    *)
SettleInv ==
  /\ phase \notin {"payroll", "settle", "done", "interrupted"} =>
       \A a \in Agents : paid[a] = 0
  /\ phase = "payroll" => \A a \in unpaid : paid[a] = 0
  /\ phase \in {"settle", "done"} => unpaid = {}
  /\ phase \in {"payroll", "settle", "done"} =>
       \A a \in (plan.crew \cap records) \ unpaid :
         paid[a] = Cardinality(DoneBy(a))

LEMMA SettleInvStep ==
  ASSUME TypeOK, SettleInv, [Next]_vars
  PROVE  SettleInv'
<1> USE PlanType DEF SettleInv
<1>1. ASSUME NEW t \in Tasks, RunTask(t) PROVE SettleInv'
  BY <1>1 DEF RunTask, StartTask, MissAgent, TakesSlot, FinishTask, moneyVars
<1>2. CASE /\ UNCHANGED <<plan, phase, task, moneyVars>>
           /\ records' \subseteq records
  <2>1. \A a : DoneBy(a)' = DoneBy(a)
    BY <1>2 DEF DoneBy, Completed, InStatus
  <2>2. QED
    BY <1>2, <2>1 DEF moneyVars
<1>3. CASE /\ UNCHANGED moneyVars
           /\ phase \in {"intake", "loop", "wave"}
           /\ phase' \in {"refused", "loop", "wave", "conclude"}
  BY <1>3 DEF moneyVars
<1>4. CASE Conclude
  BY <1>4 DEF Conclude
<1>5. ASSUME NEW a \in Agents, PayAgent(a) PROVE SettleInv'
  <2>1. /\ phase = "payroll" /\ phase' = "payroll"
        /\ a \in unpaid /\ unpaid' = unpaid \ {a}
        /\ UNCHANGED <<plan, task, records>> /\ paid[a] = 0
    BY <1>5 DEF PayAgent
  <2>2. \A b : DoneBy(b)' = DoneBy(b)
    BY <2>1 DEF DoneBy, Completed, InStatus
  <2>3. \A b \in Agents : b # a => paid'[b] = paid[b]
    BY <1>5 DEF PayAgent, TypeOK
  <2>4. a \in records => paid'[a] = Cardinality(DoneBy(a))
    <3>1. CASE a \in records /\ DoneBy(a) # {}
      <4>1. paid' = [paid EXCEPT ![a] = @ + Cardinality(DoneBy(a))]
        BY <1>5, <3>1 DEF PayAgent
      <4>2. IsFiniteSet(DoneBy(a))
        BY TasksAssumption, FS_Subset DEF DoneBy, Completed, InStatus
      <4>3. Cardinality(DoneBy(a)) \in Nat
        BY <4>2, FS_CardinalityType
      <4>4. QED
        BY <2>1, <4>1, <4>3 DEF TypeOK
    <3>2. CASE DoneBy(a) = {}
      <4>1. paid' = paid
        BY <1>5, <3>2 DEF PayAgent
      <4>2. QED
        BY <2>1, <3>2, <4>1, FS_EmptySet
    <3>3. QED
      BY <3>1, <3>2
  <2>5. ASSUME NEW b \in (plan.crew \cap records) \ unpaid'
        PROVE  paid'[b] = Cardinality(DoneBy(b))
    BY <2>1, <2>3, <2>4
  <2>6. \A b \in unpaid' : paid'[b] = 0
    BY <2>1, <2>3 DEF TypeOK
  <2>7. \A b \in Agents : Cardinality(DoneBy(b)') = Cardinality(DoneBy(b))
    BY <2>2
  <2>8. ((plan.crew \cap records) \ unpaid)' = (plan.crew \cap records) \ unpaid'
    BY <2>1
  <2>9. \A b \in ((plan.crew \cap records) \ unpaid)' :
          paid'[b] = Cardinality(DoneBy(b)')
    BY <2>5, <2>7, <2>8
  <2>10. QED
    BY <2>1, <2>6, <2>9
<1>6. CASE LogVerdict \/ Settle
  <2>1. \A a : DoneBy(a)' = DoneBy(a)
    BY <1>6 DEF LogVerdict, Settle, DoneBy, Completed, InStatus
  <2>2. QED
    BY <1>6, <2>1 DEF LogVerdict, Settle, moneyVars
<1>7. CASE phase' = "interrupted"
  BY <1>7
<1>8. QED
  BY <1>1, <1>2, <1>3, <1>4, <1>5, <1>6, <1>7
     DEF Next, Dispatcher, Environment, Refuse, Begin, NextWave, Stuck,
         LeaveLoop, WaveEnds, Interrupt, StrikeAgent, OrphanEnds, vars,
         moneyVars

(* Once payroll is through, each of the crew whose record stands was paid    *)
(* for each of its completed tasks, once (award_mission).                    *)
THEOREM PayrollSettlesHolds == Spec => []PayrollSettles
<1>1. Init => SettleInv
  BY DEF Init, SettleInv
<1>2. SettleInv => PayrollSettles
  BY DEF SettleInv, PayrollSettles
<1>3. TypeOK /\ SettleInv /\ [Next]_vars => SettleInv'
  BY SettleInvStep
<1>4. QED
  BY <1>1, <1>2, <1>3, TypeCorrect, PTL DEF Spec
-----------------------------------------------------------------------------
(***************************************************************************)
(* The conduct ledger.  A charge writes one more than the coroutine read   *)
(* when it started, so it is exact where no other refusal of the agent can *)
(* fall in between: where the agent's tasks run one at a time.             *)
(***************************************************************************)
Serial(a)    == Limit = 1 \/ Cardinality({t \in plan.list : plan.owner[t] = a}) <= 1
RunningOf(a) == {t \in Running : plan.owner[t] = a}
Refusals(a)  == Cardinality(RefusedOf(a))

\* A cached record is the record as it was last written.
CacheTrue == \A a \in Agents : cache[a] \in {NotCached, conduct[a]}
RunningUnanswered ==
  \A t \in Tasks : task[t] \in {"pending", "running"} => answer[t] = "none"
NeverOvercharged ==
  \A a \in Agents : /\ conduct[a] <= Refusals(a)
                    /\ \A t \in RunningOf(a) : held[t] <= Refusals(a)
SerialExact ==
  \A a \in records : Serial(a) => /\ conduct[a] = Refusals(a)
                                  /\ \A t \in RunningOf(a) : held[t] = conduct[a]

ConductInv == CacheTrue /\ RunningUnanswered /\ NeverOvercharged /\ SerialExact

LEMMA RefusedIsFinite ==
  ASSUME TypeOK, NEW a
  PROVE  IsFiniteSet(RefusedOf(a)) /\ Refusals(a) \in Nat
<1>1. IsFiniteSet(RefusedOf(a))
  BY PlanType, TasksAssumption, FS_Subset DEF RefusedOf
<1>2. QED
  BY <1>1, FS_CardinalityType DEF Refusals

\* Two elements make a set of cardinality two at least.
LEMMA AtMostOne ==
  ASSUME NEW S, IsFiniteSet(S), Cardinality(S) <= 1, NEW t \in S, NEW u \in S
  PROVE  t = u
<1> SUFFICES ASSUME t # u PROVE FALSE
  OBVIOUS
<1>1. IsFiniteSet({t}) /\ Cardinality({t}) = 1
  BY FS_Singleton
<1>2. IsFiniteSet({t} \cup {u}) /\ Cardinality({t} \cup {u}) = Cardinality({t}) + 1
  BY <1>1, FS_AddElement, u \notin {t}, Zenon
<1>3. Cardinality({t} \cup {u}) <= Cardinality(S)
  <2>1. {t} \cup {u} \subseteq S
    OBVIOUS
  <2>2. QED
    BY <2>1, FS_Subset
<1>4. Cardinality(S) \in Nat
  BY FS_CardinalityType
<1>5. QED
  BY <1>1, <1>2, <1>3, <1>4

LEMMA SerialRunsOne ==
  ASSUME TypeOK, WithinLimit, NEW a, Serial(a),
         NEW t \in RunningOf(a), NEW u \in RunningOf(a)
  PROVE  t = u
<1>1. CASE Limit = 1
  BY <1>1, RunningIsFinite, AtMostOne DEF WithinLimit, RunningOf
<1>2. CASE Cardinality({v \in plan.list : plan.owner[v] = a}) <= 1
  <2> DEFINE S == {v \in plan.list : plan.owner[v] = a}
  <2>1. IsFiniteSet(S)
    BY PlanType, TasksAssumption, FS_Subset
  <2>2. t \in S /\ u \in S
    BY DEF RunningOf, Running, InStatus
  <2>3. Cardinality(S) <= 1
    BY <1>2
  <2> HIDE DEF S
  <2>4. QED
    BY <2>1, <2>2, <2>3, AtMostOne
<1>3. QED
  BY <1>1, <1>2 DEF Serial

\* Steps that answer no task, start none and charge nobody.
LEMMA ConductQuiet ==
  ASSUME TypeOK, ConductInv, UNCHANGED <<plan, held, conduct, answer>>,
         records' \subseteq records, Running' \subseteq Running,
         \A t \in Tasks : task'[t] \in {"pending", "running"} =>
           task[t] \in {"pending", "running"},
         \A a \in Agents : cache'[a] \in {cache[a], conduct[a]}
  PROVE  ConductInv'
<1>1. \A a : RefusedOf(a)' = RefusedOf(a)
  BY DEF RefusedOf
<1>2. /\ \A a \in Agents : Refusals(a)' = Refusals(a)
      /\ \A a \in Agents : Serial(a)' = Serial(a)
      /\ \A a \in Agents : RunningOf(a)' \subseteq RunningOf(a)
  BY <1>1 DEF Refusals, Serial, Limit, RunningOf
<1>3. CacheTrue' /\ RunningUnanswered'
  BY DEF ConductInv, CacheTrue, RunningUnanswered
<1>4. NeverOvercharged'
  BY <1>2 DEF ConductInv, NeverOvercharged
<1>5. SerialExact'
  BY <1>2 DEF ConductInv, SerialExact, TypeOK
<1>6. QED
  BY <1>3, <1>4, <1>5 DEF ConductInv

LEMMA ConductStart ==
  ASSUME TypeOK, ConductInv, NEW t \in Tasks, StartTask(t)
  PROVE  ConductInv'
<1> DEFINE a == plan.owner[t]
<1>1. a \in Agents
  BY PlanType
<1>2. Violations(a) = conduct[a]
  BY <1>1 DEF StartTask, Loadable, Violations, ConductInv, CacheTrue, TypeOK,
     NotCached
<1>3. /\ held' = [held EXCEPT ![t] = conduct[a]]
      /\ cache' = [cache EXCEPT ![a] = conduct[a]]
      /\ task' = [task EXCEPT ![t] = "running"]
      /\ UNCHANGED <<plan, records, conduct, answer>>
      /\ task[t] = "pending"
  BY <1>2 DEF StartTask, TakesSlot
<1>4. \A b : RefusedOf(b)' = RefusedOf(b)
  BY <1>3 DEF RefusedOf
<1>5. /\ \A b \in Agents : Refusals(b)' = Refusals(b)
      /\ \A b \in Agents : Serial(b)' = Serial(b)
  BY <1>3, <1>4 DEF Refusals, Serial, Limit
<1>6. \A b \in Agents : \A u \in RunningOf(b)' :
        \/ u \in RunningOf(b) /\ u # t /\ held'[u] = held[u]
        \/ u = t /\ b = a /\ held'[u] = conduct[a]
  BY <1>3, PlanType DEF RunningOf, Running, InStatus, TypeOK
<1>7. CacheTrue' /\ RunningUnanswered'
  BY <1>1, <1>3 DEF ConductInv, CacheTrue, RunningUnanswered, TypeOK
<1>8. NeverOvercharged'
  <2> SUFFICES ASSUME NEW b \in Agents
               PROVE  /\ conduct'[b] <= Refusals(b)'
                      /\ \A u \in RunningOf(b)' : held'[u] <= Refusals(b)'
    BY DEF NeverOvercharged
  <2> QED
    BY <1>3, <1>5, <1>6 DEF ConductInv, NeverOvercharged
<1>9. SerialExact'
  <2> SUFFICES ASSUME NEW b \in records', Serial(b)'
               PROVE  /\ conduct'[b] = Refusals(b)'
                      /\ \A u \in RunningOf(b)' : held'[u] = conduct'[b]
    BY DEF SerialExact
  <2>1. b \in Agents /\ b \in records
    BY <1>3 DEF TypeOK
  <2> QED
    BY <2>1, <1>3, <1>5, <1>6 DEF ConductInv, SerialExact
<1>10. QED
  BY <1>7, <1>8, <1>9 DEF ConductInv

\* An answer: the refusals of the agent grow by the one that is charged.
LEMMA ConductFinish ==
  ASSUME TypeOK, Shape, WithinLimit, ConductInv,
         NEW t \in Tasks, NEW ans \in Answers, FinishTask(t, ans)
  PROVE  ConductInv'
<1>0. PICK a \in Agents : a = plan.owner[t]
  BY PlanType
<1>1. /\ a \in Agents /\ t \in plan.list /\ t \in RunningOf(a) /\ t \in Running
      /\ answer[t] = "none"
  BY <1>0, PlanType DEF FinishTask, Shape, OnlyListed, RunningOf, Running, InStatus,
     ConductInv, RunningUnanswered
<1>2. /\ task[t] = "running"
      /\ task' = [task EXCEPT ![t] = Verified(t, ans)]
      /\ answer' = [answer EXCEPT ![t] = ans]
      /\ UNCHANGED <<plan, held, records>>
      /\ Verified(t, ans) \in {"complete", "failed"}
  BY DEF FinishTask, Verified
<1>3. /\ \A b \in Agents : b # a => RefusedOf(b)' = RefusedOf(b)
      /\ ans # "refused" => RefusedOf(a)' = RefusedOf(a)
      /\ ans = "refused" => RefusedOf(a)' = RefusedOf(a) \cup {t}
      /\ t \notin RefusedOf(a)
  BY <1>0, <1>1, <1>2, PlanType DEF RefusedOf, TypeOK, Answers
<1>4. /\ \A b \in Agents : b # a => Refusals(b)' = Refusals(b)
      /\ ans # "refused" => Refusals(a)' = Refusals(a)
      /\ ans = "refused" => Refusals(a)' = Refusals(a) + 1
  <2>1. Cardinality(RefusedOf(a) \cup {t}) = Cardinality(RefusedOf(a)) + 1
    BY <1>3, RefusedIsFinite, FS_AddElement
  <2>2. QED
    BY <1>3, <2>1 DEF Refusals
<1>5. \A b \in Agents : Refusals(b) \in Nat /\ Refusals(b) <= Refusals(b)'
  <2>1. \A b \in Agents : Refusals(b) \in Nat
    BY RefusedIsFinite
  <2>2. QED
    BY <1>4, <2>1
<1>6. \A b \in Agents : Serial(b)' = Serial(b)
  BY <1>2 DEF Serial, Limit
<1>7. \A b \in Agents : RunningOf(b)' \subseteq RunningOf(b) \ {t}
  BY <1>2, PlanType DEF RunningOf, Running, InStatus, TypeOK
<1>8. /\ \A b \in Agents : b # a => conduct'[b] = conduct[b] /\ cache'[b] = cache[b]
      /\ ~(ans = "refused" /\ a \in records) => UNCHANGED <<conduct, cache>>
      /\ ans = "refused" /\ a \in records =>
           conduct'[a] = held[t] + 1 /\ cache'[a] = held[t] + 1
  BY <1>0, <1>1 DEF FinishTask, Charge, TypeOK
<1>9. CacheTrue'
  <2> SUFFICES ASSUME NEW b \in Agents PROVE cache'[b] \in {NotCached, conduct'[b]}
    BY DEF CacheTrue
  <2>1. cache[b] \in {NotCached, conduct[b]}
    BY DEF ConductInv, CacheTrue
  <2> QED
    BY <1>8, <2>1
<1>10. RunningUnanswered'
  BY <1>2 DEF ConductInv, RunningUnanswered, TypeOK
<1>11. NeverOvercharged'
  <2> SUFFICES ASSUME NEW b \in Agents
               PROVE  /\ conduct'[b] <= Refusals(b)'
                      /\ \A u \in RunningOf(b)' : held'[u] <= Refusals(b)'
    BY DEF NeverOvercharged
  <2>1. /\ conduct[b] <= Refusals(b) /\ \A u \in RunningOf(b) : held[u] <= Refusals(b)
        /\ conduct[b] \in Nat /\ held \in [Tasks -> Nat]
    BY DEF ConductInv, NeverOvercharged, TypeOK
  <2>2. \A u \in RunningOf(b)' : held'[u] = held[u] /\ u \in RunningOf(b) /\ u \in Tasks
    BY <1>2, <1>7, PlanType DEF RunningOf, Running, InStatus
  <2>3. Refusals(b) \in Nat /\ Refusals(b)' \in Nat /\ Refusals(b) <= Refusals(b)'
    BY <1>4, <1>5
  <2>4. conduct'[b] <= Refusals(b)'
    <3>1. CASE b = a /\ ans = "refused" /\ a \in records
      <4>1. held[t] <= Refusals(a) /\ held[t] \in Nat
        BY <1>1, <2>1, <3>1
      <4>2. QED
        BY <1>4, <1>8, <2>3, <3>1, <4>1
    <3>2. CASE ~(b = a /\ ans = "refused" /\ a \in records)
      BY <1>8, <2>1, <2>3, <3>2
    <3>3. QED
      BY <3>1, <3>2
  <2>5. \A u \in RunningOf(b)' : held'[u] <= Refusals(b)'
    BY <2>1, <2>2, <2>3
  <2>6. QED
    BY <2>4, <2>5
<1>12. SerialExact'
  <2> SUFFICES ASSUME NEW b \in records', Serial(b)'
               PROVE  /\ conduct'[b] = Refusals(b)'
                      /\ \A u \in RunningOf(b)' : held'[u] = conduct'[b]
    BY DEF SerialExact
  <2>1. b \in Agents /\ b \in records /\ Serial(b)
    BY <1>2, <1>6 DEF TypeOK
  <2>2. conduct[b] = Refusals(b) /\ \A u \in RunningOf(b) : held[u] = conduct[b]
    BY <2>1 DEF ConductInv, SerialExact
  <2>3. CASE b = a /\ ans = "refused"
    <3>1. conduct'[a] = Refusals(a)'
      BY <1>1, <1>4, <1>8, <2>1, <2>2, <2>3
    <3>2. RunningOf(a)' = {}
      BY <1>1, <1>7, <2>1, <2>3, SerialRunsOne
    <3>3. QED
      BY <2>3, <3>1, <3>2
  <2>4. CASE ~(b = a /\ ans = "refused")
    BY <1>2, <1>4, <1>7, <1>8, <2>1, <2>2, <2>4
  <2>5. QED
    BY <2>3, <2>4
<1>13. QED
  BY <1>9, <1>10, <1>11, <1>12 DEF ConductInv

LEMMA ConductStep ==
  ASSUME TypeOK, Shape, WithinLimit, ConductInv, [Next]_vars
  PROVE  ConductInv'
<1>1. CASE /\ UNCHANGED <<plan, task, held, conduct, answer, cache>>
           /\ records' \subseteq records
  BY <1>1, ConductQuiet DEF Running, InStatus
<1>2. CASE Begin
  <2>1. /\ UNCHANGED <<plan, task, held, conduct, answer, records>>
        /\ \A a \in Agents : cache'[a] \in {cache[a], conduct[a]}
    BY <1>2 DEF Begin
  <2>2. Running' = Running
    BY <2>1 DEF Running, InStatus
  <2>3. QED
    BY <2>1, <2>2, ConductQuiet
<1>3. ASSUME NEW t \in Tasks, MissAgent(t) PROVE ConductInv'
  <2>1. /\ UNCHANGED <<plan, held, conduct, answer, records, cache>>
        /\ task' = [task EXCEPT ![t] = "failed"]
    BY <1>3 DEF MissAgent, agentVars
  <2>2. /\ Running' \subseteq Running
        /\ \A u \in Tasks : task'[u] \in {"pending", "running"} =>
             task[u] \in {"pending", "running"}
    BY <2>1 DEF Running, InStatus, TypeOK
  <2>3. QED
    BY <2>1, <2>2, ConductQuiet
<1>4. ASSUME NEW t \in Tasks, StartTask(t) PROVE ConductInv'
  BY <1>4, ConductStart
<1>5. ASSUME NEW t \in Tasks, NEW a \in Answers, FinishTask(t, a) PROVE ConductInv'
  BY <1>5, ConductFinish
<1>6. QED
  BY <1>1, <1>2, <1>3, <1>4, <1>5
     DEF Next, Dispatcher, Environment, RunTask, Refuse, NextWave, Stuck,
         LeaveLoop, WaveEnds, Conclude, PayAgent, LogVerdict, Settle,
         Interrupt, StrikeAgent, OrphanEnds, vars, agentVars

(* The ledger never charges an agent more refusals than it drew, and charges *)
(* every one of them where its tasks run one at a time (_record_violation).  *)
THEOREM SerialConductHolds == Spec => []SerialConduct
<1>1. Init /\ TypeOK => ConductInv
  <2> SUFFICES ASSUME Init, TypeOK PROVE ConductInv
    OBVIOUS
  <2>1. \A a : RefusedOf(a) = {}
    BY PlanType DEF Init, RefusedOf
  <2>2. \A a : Refusals(a) = 0
    BY <2>1, FS_EmptySet DEF Refusals
  <2>3. \A a : RunningOf(a) = {}
    BY PlanType DEF Init, RunningOf, Running, InStatus
  <2>4. QED
    BY <2>2, <2>3 DEF Init, TypeOK, ConductInv, CacheTrue, RunningUnanswered,
       NeverOvercharged, SerialExact
<1>2. TypeOK /\ Shape /\ WithinLimit /\ ConductInv /\ [Next]_vars => ConductInv'
  BY ConductStep
<1>3. ConductInv => SerialConduct
  BY DEF ConductInv, NeverOvercharged, SerialExact, SerialConduct, Serial, Refusals
<1>4. QED
  BY <1>1, <1>2, <1>3, TypeCorrect, ShapeHolds, WithinLimitHolds, PTL DEF Spec
-----------------------------------------------------------------------------
(***************************************************************************)
(* The economy.  First what holds of the recursions the dice, the folds and *)
(* the ranks are defined by, for sets in place of predicates.               *)
(***************************************************************************)

\* A set of numbers closed under successor up to a bound.
LEMMA UpTo ==
  ASSUME NEW n \in Nat, NEW S, 0 \in S, \A i \in 1..n : i - 1 \in S => i \in S
  PROVE  0..n \subseteq S
<1> DEFINE R   == {ss \in Nat \X Nat : ss[1] < ss[2]}
           Bad == (0..n) \ S
<1>1. IsWellFoundedOn(R, Nat)
  BY NatLessThanWellFounded DEF OpToRel
<1>2. SUFFICES ASSUME Bad # {} PROVE FALSE
  OBVIOUS
<1>3. Bad \subseteq Nat
  OBVIOUS
<1>4. PICK x \in Bad : \A y \in Bad : ~ (<<y, x>> \in R)
  <2> HIDE DEF R, Bad
  <2>1. QED
    BY <1>1, <1>2, <1>3, WFMin
<1>5. x \in 1..n /\ x - 1 \in 0..n
  OBVIOUS
<1>6. x - 1 \in S
  <2>1. x - 1 \in Bad => <<x - 1, x>> \in R
    BY <1>5
  <2>2. QED
    BY <1>4, <1>5, <2>1
<1>7. QED
  BY <1>5, <1>6

\* A recursion over 0..n has a solution.
Chains(n, V, base, step) ==
  \E g \in [0..n -> V] : g[0] = base /\ \A i \in 1..n : g[i] = step[i][g[i - 1]]

LEMMA Chaining ==
  ASSUME NEW n \in Nat, NEW V, NEW base \in V, NEW step \in [1..n -> [V -> V]]
  PROVE  Chains(n, V, base, step)
<1> DEFINE Solves(m, g) == g[0] = base /\ \A i \in 1..m : g[i] = step[i][g[i - 1]]
           S == {m \in 0..n : \E g \in [0..m -> V] : Solves(m, g)}
<1>1. 0 \in S
  <2>1. [i \in 0..0 |-> base] \in [0..0 -> V] /\ Solves(0, [i \in 0..0 |-> base])
    OBVIOUS
  <2> HIDE DEF Solves
  <2>2. \E g \in [0..0 -> V] : Solves(0, g)
    BY <2>1
  <2>3. QED
    BY <2>2
<1>2. ASSUME NEW m \in 1..n, m - 1 \in S PROVE m \in S
  <2>1. PICK g \in [0..(m - 1) -> V] : Solves(m - 1, g)
    BY <1>2
  <2> DEFINE h == [i \in 0..m |-> IF i = m THEN step[m][g[m - 1]] ELSE g[i]]
  <2>2. h \in [0..m -> V]
    <3>1. step[m][g[m - 1]] \in V
      BY <2>1
    <3>2. \A i \in 0..m : i # m => g[i] \in V
      BY <2>1
    <3>3. QED
      BY <3>1, <3>2
  <2>3. \A i \in 0..m : h[i] = IF i = m THEN step[m][g[m - 1]] ELSE g[i]
    OBVIOUS
  <2>4. Solves(m, h)
    <3>1. h[0] = base
      BY <2>1, <2>3
    <3>2. ASSUME NEW i \in 1..m PROVE h[i] = step[i][h[i - 1]]
      <4>1. h[i - 1] = g[i - 1]
        BY <2>3
      <4>2. CASE i = m
        BY <2>3, <4>1, <4>2
      <4>3. CASE i # m
        BY <2>1, <2>3, <4>1, <4>3
      <4>4. QED
        BY <4>2, <4>3
    <3>3. QED
      BY <3>1, <3>2
  <2> HIDE DEF h, Solves
  <2>5. \E k \in [0..m -> V] : Solves(m, k)
    BY <2>2, <2>4
  <2>6. QED
    BY <2>5
<1> HIDE DEF S
<1>3. 0..n \subseteq S
  BY <1>1, <1>2, UpTo
<1>4. PICK g \in [0..n -> V] : Solves(n, g)
  <2>1. n \in S
    BY <1>3
  <2>2. QED
    BY <2>1 DEF S
<1>5. QED
  BY <1>4 DEF Chains

\* A property of the subsets of a finite set that removing an element hands on.
LEMMA SubsetsUp ==
  ASSUME NEW D, IsFiniteSet(D), NEW P, {} \in P,
         \A s \in SUBSET D : s # {} /\ (\A x \in s : s \ {x} \in P) => s \in P
  PROVE  SUBSET D \subseteq P
<1> DEFINE n == Cardinality(D)
           S == {i \in 0..n : \A s \in SUBSET D : Cardinality(s) = i => s \in P}
<1>1. \A s \in SUBSET D : IsFiniteSet(s) /\ Cardinality(s) \in 0..n /\ n \in Nat
  BY FS_Subset, FS_CardinalityType
<1>2. 0 \in S
  <2>1. \A s \in SUBSET D : Cardinality(s) = 0 => s = {}
    BY <1>1, FS_EmptySet
  <2>2. QED
    BY <1>1, <2>1
<1>3. ASSUME NEW i \in 1..n, i - 1 \in S PROVE i \in S
  <2>1. ASSUME NEW s \in SUBSET D, Cardinality(s) = i PROVE s \in P
    <3>1. s # {}
      BY <2>1, FS_EmptySet
    <3>2. ASSUME NEW x \in s PROVE s \ {x} \in P
      <4>1. Cardinality(s \ {x}) = i - 1
        BY <1>1, <2>1, FS_RemoveElement
      <4>2. QED
        BY <1>3, <4>1
    <3>3. QED
      BY <3>1, <3>2
  <2>2. QED
    BY <2>1
<1> HIDE DEF S, n
<1>4. 0..n \subseteq S
  BY <1>1, <1>2, <1>3, UpTo
<1>5. QED
  <2> SUFFICES ASSUME NEW s \in SUBSET D PROVE s \in P
    OBVIOUS
  <2>1. Cardinality(s) \in S
    BY <1>1, <1>4
  <2>2. QED
    BY <2>1 DEF S

\* A fold over a finite set, its elements chosen in any way, has a solution.
Foldable(D, V, base, C, step) ==
  \E g \in [SUBSET D -> V] : \A s \in SUBSET D :
    g[s] = IF s = {} THEN base ELSE step[C[s]][g[s \ {C[s]}]]

LEMMA Folding ==
  ASSUME NEW D, NEW V, NEW base \in V, NEW C, NEW step \in [D -> [V -> V]],
         IsFiniteSet(D), \A s \in SUBSET D : s # {} => C[s] \in s
  PROVE  Foldable(D, V, base, C, step)
<1> DEFINE n == Cardinality(D)
           Low(i) == {s \in SUBSET D : Cardinality(s) <= i}
           Solves(i, g) == /\ g \in [Low(i) -> V]
                           /\ \A s \in Low(i) :
                                g[s] = IF s = {} THEN base ELSE step[C[s]][g[s \ {C[s]}]]
           S == {i \in 0..n : \E g : Solves(i, g)}
<1>1. \A s \in SUBSET D : IsFiniteSet(s) /\ Cardinality(s) \in 0..n /\ n \in Nat
  BY FS_Subset, FS_CardinalityType
<1>2. \A s \in SUBSET D : s # {} => /\ s \ {C[s]} \in SUBSET D
                                    /\ Cardinality(s \ {C[s]}) = Cardinality(s) - 1
  BY <1>1, FS_RemoveElement
<1>3. 0 \in S
  <2> DEFINE g == [s \in Low(0) |-> base]
  <2>1. \A s \in Low(0) : s = {}
    BY <1>1, FS_EmptySet
  <2>2. Solves(0, g)
    BY <2>1
  <2> HIDE DEF Solves, g
  <2>3. \E k : Solves(0, k)
    BY <2>2
  <2>4. QED
    BY <1>1, <2>3
<1>4. ASSUME NEW i \in 1..n, i - 1 \in S PROVE i \in S
  <2>1. PICK g : Solves(i - 1, g)
    BY <1>4
  <2> DEFINE h == [s \in Low(i) |-> IF s = {} THEN base ELSE step[C[s]][g[s \ {C[s]}]]]
  <2>2. \A s \in Low(i) : s # {} => s \ {C[s]} \in Low(i - 1)
    BY <1>1, <1>2
  <2>3. \A s \in Low(i - 1) : s \in Low(i) /\ h[s] = g[s]
    <3>1. \A s \in Low(i - 1) : s \in Low(i)
      BY <1>1
    <3>2. \A s \in Low(i) : h[s] = IF s = {} THEN base ELSE step[C[s]][g[s \ {C[s]}]]
      OBVIOUS
    <3> HIDE DEF Low, h
    <3>3. QED
      BY <2>1, <3>1, <3>2
  <2>4. h \in [Low(i) -> V]
    <3>1. ASSUME NEW s \in Low(i), s # {} PROVE step[C[s]][g[s \ {C[s]}]] \in V
      <4>1. step[C[s]] \in [V -> V]
        BY <3>1
      <4>2. g[s \ {C[s]}] \in V
        BY <2>1, <2>2, <3>1
      <4>3. QED
        BY <4>1, <4>2
    <3>2. QED
      BY <3>1
  <2>5. Solves(i, h)
    BY <2>2, <2>3, <2>4
  <2> HIDE DEF Solves, h
  <2>6. \E k : Solves(i, k)
    BY <2>5
  <2>7. QED
    BY <2>6
<1> HIDE DEF S
<1>5. 0..n \subseteq S
  <2>1. n \in Nat
    BY <1>1
  <2> HIDE DEF n
  <2>2. QED
    BY <1>3, <1>4, <2>1, UpTo
<1>6. PICK g : Solves(n, g)
  <2>1. n \in S
    BY <1>1, <1>5
  <2>2. QED
    BY <2>1 DEF S
<1>7. Low(n) = SUBSET D
  BY <1>1
<1>8. g \in [SUBSET D -> V]
      /\ \A s \in SUBSET D :
           g[s] = IF s = {} THEN base ELSE step[C[s]][g[s \ {C[s]}]]
  <2> HIDE DEF Low
  <2>1. QED
    BY <1>6, <1>7
<1>9. QED
  BY <1>8 DEF Foldable

(* Sums. *)
Sums(k, D) ==
  CHOOSE iter : iter = [s \in SUBSET D |-> IF s = {} THEN 0
                          ELSE k[CHOOSE x \in s : TRUE] + iter[s \ {CHOOSE x \in s : TRUE}]]

LEMMA SumsSolve ==
  ASSUME NEW D, NEW V \in {Nat, Int}, NEW k, IsFiniteSet(D), \A x \in D : k[x] \in V
  PROVE  /\ \A s \in SUBSET D : Sums(k, D)[s] \in V
         /\ Sums(k, D)[{}] = 0
         /\ \A s \in SUBSET D : s # {} =>
              /\ (CHOOSE x \in s : TRUE) \in s
              /\ Sums(k, D)[s] = k[CHOOSE x \in s : TRUE] + Sums(k, D)[s \ {CHOOSE x \in s : TRUE}]
<1> DEFINE C    == [s \in SUBSET D |-> CHOOSE x \in s : TRUE]
           step == [x \in D |-> [v \in V |-> k[x] + v]]
           f    == Sums(k, D)
<1>1. \A s \in SUBSET D : C[s] = CHOOSE x \in s : TRUE
  OBVIOUS
<1>2. \A s \in SUBSET D : s # {} => C[s] \in s
  <2>1. ASSUME NEW s \in SUBSET D, s # {} PROVE (CHOOSE x \in s : TRUE) \in s
    BY <2>1
  <2>2. QED
    BY <1>1, <2>1
<1>3. /\ step \in [D -> [V -> V]] /\ 0 \in V
      /\ \A x \in D, v \in V : step[x][v] = k[x] + v
  OBVIOUS
<1> HIDE DEF C, step
<1>4. PICK g \in [SUBSET D -> V] : \A s \in SUBSET D :
        g[s] = IF s = {} THEN 0 ELSE step[C[s]][g[s \ {C[s]}]]
  <2>1. Foldable(D, V, 0, C, step)
    BY <1>2, <1>3, Folding
  <2>2. QED
    BY <2>1 DEF Foldable
<1>5. g = [s \in SUBSET D |-> IF s = {} THEN 0
             ELSE k[CHOOSE x \in s : TRUE] + g[s \ {CHOOSE x \in s : TRUE}]]
  <2>1. ASSUME NEW s \in SUBSET D, s # {} PROVE step[C[s]][g[s \ {C[s]}]] = k[C[s]] + g[s \ {C[s]}]
    BY <1>2, <1>3, <2>1
  <2>2. ASSUME NEW s \in SUBSET D
        PROVE  g[s] = IF s = {} THEN 0 ELSE k[C[s]] + g[s \ {C[s]}]
    BY <1>4, <2>1
  <2>3. g = [s \in SUBSET D |-> g[s]]
    BY <1>4
  <2>4. QED
    BY <1>1, <2>2, <2>3
<1>6. f = [s \in SUBSET D |-> IF s = {} THEN 0
             ELSE k[CHOOSE x \in s : TRUE] + f[s \ {CHOOSE x \in s : TRUE}]]
  BY <1>5 DEF Sums
<1> HIDE DEF f
<1>7. \A s \in SUBSET D : f[s] = IF s = {} THEN 0 ELSE k[C[s]] + f[s \ {C[s]}]
  BY <1>1, <1>6
<1> DEFINE P == {s \in SUBSET D : f[s] \in V}
<1>8. SUBSET D \subseteq P
  <2>1. {} \in P
    BY <1>3, <1>7
  <2>2. ASSUME NEW s \in SUBSET D, s # {}, \A x \in s : s \ {x} \in P PROVE s \in P
    <3>1. k[C[s]] \in V /\ f[s \ {C[s]}] \in V
      BY <1>2, <2>2
    <3>2. k[C[s]] + f[s \ {C[s]}] \in V
      BY <3>1
    <3>3. QED
      BY <1>7, <2>2, <3>2
  <2> HIDE DEF P
  <2>3. QED
    BY <2>1, <2>2, SubsetsUp
<1>9. QED
  BY <1>1, <1>2, <1>7, <1>8 DEF f

\* Adding to one summand adds to the sum.
LEMMA SumsAdd ==
  ASSUME NEW D, NEW k \in [D -> Nat], NEW d \in D, NEW p \in Nat, IsFiniteSet(D)
  PROVE  Sums([k EXCEPT ![d] = @ + p], D)[D] = Sums(k, D)[D] + p
<1> DEFINE h == [k EXCEPT ![d] = @ + p]
           c(s) == CHOOSE x \in s : TRUE
           f == Sums(k, D)
           e == Sums(h, D)
           P == {s \in SUBSET D : e[s] = IF d \in s THEN f[s] + p ELSE f[s]}
<1>1. h \in [D -> Nat] /\ \A x \in D : h[x] = IF x = d THEN k[x] + p ELSE k[x]
  OBVIOUS
<1> HIDE DEF h
<1>2. /\ \A s \in SUBSET D : f[s] \in Nat
      /\ f[{}] = 0
      /\ \A s \in SUBSET D : s # {} => c(s) \in s /\ f[s] = k[c(s)] + f[s \ {c(s)}]
  BY SumsSolve
<1>3. /\ \A s \in SUBSET D : e[s] \in Nat
      /\ e[{}] = 0
      /\ \A s \in SUBSET D : s # {} => e[s] = h[c(s)] + e[s \ {c(s)}]
  BY <1>1, SumsSolve
<1> HIDE DEF e, f, c
<1>4. {} \in P
  BY <1>2, <1>3
<1>5. ASSUME NEW s \in SUBSET D, s # {}, \A x \in s : s \ {x} \in P PROVE s \in P
  <2> DEFINE x == c(s)
             u == s \ {x}
  <2>1. x \in s /\ u \in SUBSET D /\ (d \in u <=> d \in s /\ d # x)
    BY <1>2, <1>5
  <2>2. e[u] = IF d \in u THEN f[u] + p ELSE f[u]
    BY <1>5, <2>1
  <2>3. /\ e[s] = h[x] + e[u] /\ f[s] = k[x] + f[u]
        /\ k[x] \in Nat /\ f[u] \in Nat
        /\ h[x] = IF x = d THEN k[x] + p ELSE k[x]
    BY <1>1, <1>2, <1>3, <1>5, <2>1
  <2> HIDE DEF x, u
  <2>4. CASE x = d
    BY <2>1, <2>2, <2>3, <2>4
  <2>5. CASE x # d
    BY <2>1, <2>2, <2>3, <2>5
  <2>6. QED
    BY <2>4, <2>5
<1> HIDE DEF P
<1>6. SUBSET D \subseteq P
  BY <1>4, <1>5, SubsetsUp
<1>7. e[D] = f[D] + p
  BY <1>6 DEF P
<1>8. QED
  BY <1>7 DEF e, f, h

(* What the tables assume. *)
LEMMA Tables ==
  /\ Thresholds \subseteq Nat /\ IsFiniteSet(Thresholds) /\ 0 \in Thresholds
  /\ XpRolls \subseteq Nat /\ Variations \subseteq Int
  /\ BaseGold \in Nat /\ StartingPoints \in Nat /\ Slack \in Nat /\ BudgetCap \in Nat /\ MaxPaid \in Nat
  /\ XpPerGold \in Nat \ {0} /\ Caps \in Seq(Nat \ {0}) /\ Caps # <<>> /\ IsFiniteSet(Tools)
  /\ Cost \in [Tools -> Nat] /\ MinRank \in [Tools -> Thresholds] /\ Essentials \subseteq Tools
  /\ FreeIssue \in Nat /\ PaidIssue \in Nat
<1>1. Pay!RanksAssumption /\ Pay!TablesAssumption
  BY PayAssumption
<1>2. QED
  BY <1>1 DEF Pay!RanksAssumption, Pay!TablesAssumption, Pay!IsFiniteSet, IsFiniteSet

LEMMA Rates ==
  /\ SkillPointsPerRank \in Nat /\ XpPerTask \in Nat /\ MissionBonusXp \in Nat
  /\ MissionBonusGold \in Nat /\ GoldPerTask \in Nat \ {0}
  /\ RankFixed \subseteq Thresholds \X Nat /\ Derived \in 0..StartingPoints
  /\ \A f \in Offices :
       /\ f.clerks \subseteq Clerks /\ IsFiniteSet(f.clerks)
       /\ f.agents \subseteq Agents /\ f.agents # {}
       /\ f.crashes \in BOOLEAN
       /\ \A offer \in f.offers : offer.xp \in Int /\ offer.gold \in Int
<1>1. Pay!RatesAssumption /\ Pay!RecruitsAssumption /\ Pay!OfficesAssumption
  BY PayAssumption
<1>2. QED
  BY <1>1 DEF Pay!RatesAssumption, Pay!RecruitsAssumption, Pay!OfficesAssumption,
              Pay!IsFiniteSet, IsFiniteSet

LEMMA DomainsAre ==
  /\ Pay!Domains = 1..Len(Caps) /\ Len(Caps) \in Nat \ {0} /\ IsFiniteSet(Pay!Domains)
  /\ \A d \in Pay!Domains : Caps[d] \in Nat
<1>1. Pay!Domains = 1..Len(Caps) /\ Len(Caps) \in Nat \ {0} /\ \A d \in Pay!Domains : Caps[d] \in Nat
  BY Tables DEF Pay!Domains
<1>2. QED
  BY <1>1, FS_Interval

LEMMA PointsAre ==
  ASSUME NEW skill \in [Pay!Domains -> Nat]
  PROVE  /\ Pay!Points(skill) \in Nat
         /\ \A d \in Pay!Domains, p \in Nat :
              Pay!Points([skill EXCEPT ![d] = @ + p]) = Pay!Points(skill) + p
<1>1. \A k : Pay!Points(k) = Sums(k, Pay!Domains)[Pay!Domains]
  BY DEF Pay!Points, Pay!MapThenSumSet, Pay!MapThenFoldSet, Sums
<1>2. Sums(skill, Pay!Domains)[Pay!Domains] \in Nat
  BY DomainsAre, SumsSolve
<1>3. QED
  BY <1>1, <1>2, DomainsAre, SumsAdd

\* The largest of some numbers, and the rank that experience unlocks.
LEMMA LargestOf ==
  ASSUME NEW S \in SUBSET Nat, IsFiniteSet(S), S # {}
  PROVE  Pay!Largest(S) \in S /\ \A m \in S : m <= Pay!Largest(S)
<1> DEFINE P == {s \in SUBSET S : s # {} => \E n \in s : \A m \in s : m <= n}
<1>1. {} \in P
  OBVIOUS
<1>2. ASSUME NEW s \in SUBSET S, s # {}, \A x \in s : s \ {x} \in P PROVE s \in P
  <2>1. PICK x : x \in s
    BY <1>2
  <2>2. CASE s \ {x} = {}
    <3>1. \A m \in s : m <= x
      BY <2>1, <2>2
    <3>2. QED
      BY <2>1, <3>1
  <2>3. CASE s \ {x} # {}
    <3>1. s \ {x} \in P
      BY <1>2, <2>1
    <3>2. PICK n \in s \ {x} : \A m \in s \ {x} : m <= n
      BY <2>3, <3>1
    <3>3. x \in Nat /\ n \in Nat /\ s \subseteq Nat
      BY <2>1
    <3>4. \A m \in s : m <= IF x <= n THEN n ELSE x
      BY <3>2, <3>3
    <3>5. \E k \in s : \A m \in s : m <= k
      BY <2>1, <3>2, <3>4
    <3>6. QED
      BY <3>5
  <2>4. QED
    BY <2>2, <2>3
<1> HIDE DEF P
<1>3. S \in P
  BY <1>1, <1>2, SubsetsUp
<1>4. \E n \in S : \A m \in S : m <= n
  BY <1>3 DEF P
<1>5. QED
  BY <1>4 DEF Pay!Largest

LEMMA UnlockedIs ==
  ASSUME NEW xp \in Nat
  PROVE  Pay!Unlocked(xp) \in Thresholds
<1> DEFINE S == {t \in Thresholds : t <= xp}
<1>1. S \in SUBSET Nat /\ IsFiniteSet(S) /\ S # {}
  <2>1. IsFiniteSet(S)
    BY Tables, FS_Subset
  <2>2. Thresholds \subseteq Nat /\ 0 \in Thresholds
    BY Tables
  <2>3. 0 <= xp
    OBVIOUS
  <2>4. 0 \in S
    BY <2>2, <2>3
  <2>5. S \subseteq Nat
    BY <2>2
  <2>6. QED
    BY <2>1, <2>4, <2>5
<1> HIDE DEF S
<1>2. Pay!Largest(S) \in S
  BY <1>1, LargestOf
<1>3. QED
  BY <1>2 DEF Pay!Unlocked, S

\* The thresholds between two ranks, counted by way of a third.
Passed(lo, hi) == {t \in Thresholds : lo < t /\ t <= hi}

LEMMA PassedCount ==
  ASSUME NEW lo, NEW hi
  PROVE  Cardinality(Passed(lo, hi)) \in Nat
<1>1. IsFiniteSet(Passed(lo, hi))
  BY Tables, FS_Subset DEF Passed
<1>2. QED
  BY <1>1, FS_CardinalityType

Adds(b, r, u) ==
  Cardinality(Passed(b, u)) = Cardinality(Passed(b, r)) + Cardinality(Passed(r, u))

LEMMA PassedAdds ==
  ASSUME NEW b \in Nat, NEW r \in Nat, NEW u \in Nat, b <= r, r <= u
  PROVE  Adds(b, r, u)
<1>1. \A x, y : IsFiniteSet(Passed(x, y)) /\ Cardinality(Passed(x, y)) \in Nat
  <2> SUFFICES ASSUME NEW x, NEW y
               PROVE  IsFiniteSet(Passed(x, y)) /\ Cardinality(Passed(x, y)) \in Nat
    OBVIOUS
  <2>1. Passed(x, y) \subseteq Thresholds
    BY DEF Passed
  <2>2. QED
    BY <2>1, Tables, FS_Subset, FS_CardinalityType
<1>2. Passed(b, u) = Passed(b, r) \union Passed(r, u) /\ Passed(b, r) \intersect Passed(r, u) = {}
  <2> SUFFICES ASSUME NEW t
               PROVE  /\ t \in Passed(b, u) <=> t \in Passed(b, r) \/ t \in Passed(r, u)
                      /\ ~(t \in Passed(b, r) /\ t \in Passed(r, u))
    OBVIOUS
  <2>1. t \in Thresholds => t \in Nat
    BY Tables
  <2>2. QED
    BY <2>1 DEF Passed
<1>3. Cardinality(Passed(b, r) \intersect Passed(r, u)) = 0
  BY <1>2, FS_EmptySet
<1>4. Cardinality(Passed(b, r) \union Passed(r, u)) =
        Cardinality(Passed(b, r)) + Cardinality(Passed(r, u))
        - Cardinality(Passed(b, r) \intersect Passed(r, u))
  BY <1>1, FS_Union
<1>5. QED
  BY <1>1, <1>2, <1>3, <1>4 DEF Adds

(***************************************************************************)
(* The dice.                                                               *)
(***************************************************************************)
Deal(i, s) == {[skill |-> [s.skill EXCEPT ![i] = n], remaining |-> s.remaining - n] :
                 n \in Pay!Shares(i, s.remaining)}
Blank(points) == {[skill |-> [d \in Pay!Domains |-> 0], remaining |-> points]}
Spread(points) ==
  CHOOSE spread : spread = [i \in 0..Len(Caps) |->
                              IF i = 0 THEN Blank(points)
                              ELSE UNION {Deal(i, s) : s \in spread[i - 1]}]

\* What has been dealt of so many points.
Dealt == {s \in [skill : [Pay!Domains -> Nat], remaining : Nat] :
            \A d \in Pay!Domains : s.skill[d] <= Caps[d]}

LEMMA DealsDealt ==
  ASSUME NEW i \in 1..Len(Caps), NEW s \in Dealt
  PROVE  Deal(i, s) \subseteq Dealt
<1> SUFFICES ASSUME NEW n \in Pay!Shares(i, s.remaining)
             PROVE  [skill |-> [s.skill EXCEPT ![i] = n], remaining |-> s.remaining - n] \in Dealt
  BY DEF Deal
<1>1. i \in Pay!Domains /\ Caps[i] \in Nat /\ Slack \in Nat
  BY DomainsAre, Tables
<1>2. s.skill \in [Pay!Domains -> Nat] /\ s.remaining \in Nat
      /\ \A d \in Pay!Domains : s.skill[d] <= Caps[d]
  BY DEF Dealt
<1> DEFINE room == Pay!Least(s.remaining, Caps[i])
           even == s.remaining \div (Len(Caps) - i + 1)
<1>3. room \in Nat /\ room <= s.remaining /\ room <= Caps[i]
  BY <1>1, <1>2 DEF Pay!Least
<1>4. even \in Nat
  <2>1. Len(Caps) - i + 1 \in Nat /\ Len(Caps) - i + 1 > 0
    BY DomainsAre
  <2>2. QED
    BY <1>2, <2>1
<1>5. n \in Nat /\ n <= room
  <2>1. n = room \/ n \in Pay!Floor(even - Slack)..Pay!Least(room, even + Slack)
    BY DEF Pay!Shares
  <2> HIDE DEF room, even
  <2>2. Pay!Floor(even - Slack) \in Nat
    BY <1>1, <1>4 DEF Pay!Floor
  <2>3. Pay!Least(room, even + Slack) \in Nat /\ Pay!Least(room, even + Slack) <= room
    BY <1>1, <1>3, <1>4 DEF Pay!Least
  <2>4. QED
    BY <1>3, <2>1, <2>2, <2>3
<1> HIDE DEF room, even
<1>6. n <= Caps[i] /\ s.remaining - n \in Nat
  BY <1>1, <1>2, <1>3, <1>5
<1> DEFINE k == [s.skill EXCEPT ![i] = n]
<1>7. k \in [Pay!Domains -> Nat] /\ \A d \in Pay!Domains : k[d] <= Caps[d]
  BY <1>1, <1>2, <1>5, <1>6
<1> HIDE DEF k
<1>8. [skill |-> k, remaining |-> s.remaining - n] \in Dealt
  BY <1>6, <1>7 DEF Dealt
<1>9. QED
  BY <1>8 DEF k

\* random_skills deals what the caps allow.
LEMMA SkillsDealt ==
  ASSUME NEW points \in Nat, NEW skill \in Pay!RandomSkills(points)
  PROVE  skill \in [Pay!Domains -> Nat] /\ \A d \in Pay!Domains : skill[d] <= Caps[d]
<1> DEFINE n == Len(Caps)
           V == SUBSET Dealt
           More(i, X) == UNION {Deal(i, s) : s \in X}
           step == [i \in 1..n |-> [X \in V |-> More(i, X)]]
           f == Spread(points)
<1>0. n \in Nat
  BY DomainsAre
<1>1. ASSUME NEW i \in 1..n, NEW X \in V PROVE More(i, X) \in V
  <2>1. \A s \in X : Deal(i, s) \subseteq Dealt
    BY DealsDealt
  <2>2. QED
    BY <2>1
<1> HIDE DEF More, V
<1>2. Blank(points) \in V
  BY DomainsAre DEF Blank, Dealt, V
<1>3. step \in [1..n -> [V -> V]] /\ \A i \in 1..n, X \in V : step[i][X] = More(i, X)
  BY <1>1
<1> HIDE DEF step
<1>4. PICK g \in [0..n -> V] : g[0] = Blank(points) /\ \A i \in 1..n : g[i] = step[i][g[i - 1]]
  <2> HIDE DEF n
  <2>1. Chains(n, V, Blank(points), step)
    BY <1>0, <1>2, <1>3, Chaining
  <2>2. QED
    BY <2>1 DEF Chains
<1>5. \A i \in 1..n : i - 1 \in 0..n
  BY <1>0
<1>6. g = [i \in 0..n |-> IF i = 0 THEN Blank(points) ELSE More(i, g[i - 1])]
  <2> HIDE DEF n
  <2>1. \A i \in 0..n : g[i] = IF i = 0 THEN Blank(points) ELSE More(i, g[i - 1])
    BY <1>0, <1>3, <1>4, <1>5
  <2>2. QED
    BY <1>4, <2>1
<1>7. f = [i \in 0..n |-> IF i = 0 THEN Blank(points) ELSE More(i, f[i - 1])]
  BY <1>6 DEF Spread, More
<1> HIDE DEF f
<1> DEFINE S == {i \in 0..n : f[i] \in V}
<1>8. 0..n \subseteq S
  <2>1. 0 \in S
    BY <1>0, <1>2, <1>7
  <2>2. ASSUME NEW i \in 1..n, i - 1 \in S PROVE i \in S
    <3>1. f[i] = More(i, f[i - 1]) /\ f[i - 1] \in V
      BY <1>0, <1>7, <2>2
    <3>2. QED
      BY <1>1, <3>1
  <2> HIDE DEF S, n
  <2>3. QED
    BY <1>0, <2>1, <2>2, UpTo
<1>9. f[n] \in V
  BY <1>0, <1>8
<1>10. skill \in {s.skill : s \in f[n]}
  BY DEF Pay!RandomSkills, f, Spread, Blank, Deal
<1>11. QED
  BY <1>9, <1>10 DEF V, Dealt

Buy(b, t, budget) ==
  IF b.spent + Cost[t] <= budget
  THEN [tools |-> b.tools \union {t}, spent |-> b.spent + Cost[t]] ELSE b
Purchases(order, budget) ==
  CHOOSE upTo : upTo = [i \in 0..Pay!Least(MaxPaid, Len(order)) |->
                          IF i = 0 THEN [tools |-> {}, spent |-> 0]
                          ELSE Buy(upTo[i - 1], order[i], budget)]
Bought(order, budget) == Purchases(order, budget)[Pay!Least(MaxPaid, Len(order))]

LEMMA BoughtWithin ==
  ASSUME NEW budget \in Nat, NEW order \in Seq(Tools)
  PROVE  Bought(order, budget).spent \in 0..budget
<1> DEFINE n == Pay!Least(MaxPaid, Len(order))
           none == [tools |-> {}, spent |-> 0]
           V == [tools : SUBSET Tools, spent : 0..budget]
           step == [i \in 1..n |-> [b \in V |-> Buy(b, order[i], budget)]]
           f == Purchases(order, budget)
<1>0. n \in Nat /\ n <= Len(order) /\ Len(order) \in Nat
  BY Tables DEF Pay!Least
<1>1. ASSUME NEW i \in 1..n, NEW b \in V PROVE Buy(b, order[i], budget) \in V
  <2>1. order[i] \in Tools /\ Cost[order[i]] \in Nat
    <3> HIDE DEF n
    <3>1. i \in 1..Len(order)
      BY <1>0
    <3>2. order[i] \in Tools
      BY <3>1
    <3>3. QED
      BY <3>2, Tables
  <2>2. QED
    BY <2>1 DEF Buy
<1>2. none \in V
  OBVIOUS
<1> HIDE DEF V, none
<1>3. step \in [1..n -> [V -> V]] /\ \A i \in 1..n, b \in V : step[i][b] = Buy(b, order[i], budget)
  BY <1>1
<1> HIDE DEF step
<1>4. PICK g \in [0..n -> V] : g[0] = none /\ \A i \in 1..n : g[i] = step[i][g[i - 1]]
  <2> HIDE DEF n
  <2>1. Chains(n, V, none, step)
    BY <1>0, <1>2, <1>3, Chaining
  <2>2. QED
    BY <2>1 DEF Chains
<1>6. g = [i \in 0..n |-> IF i = 0 THEN none ELSE Buy(g[i - 1], order[i], budget)]
  <2> HIDE DEF n
  <2>1. \A i \in 0..n : g[i] = IF i = 0 THEN none ELSE Buy(g[i - 1], order[i], budget)
    BY <1>0, <1>3, <1>4
  <2>2. QED
    BY <1>4, <2>1
<1>7. f = [i \in 0..n |-> IF i = 0 THEN none ELSE Buy(f[i - 1], order[i], budget)]
  BY <1>6 DEF Purchases, none
<1> HIDE DEF f
<1> DEFINE S == {i \in 0..n : f[i] \in V}
<1>8. 0..n \subseteq S
  <2>1. 0 \in S
    BY <1>0, <1>2, <1>7
  <2>2. ASSUME NEW i \in 1..n, i - 1 \in S PROVE i \in S
    <3>1. f[i] = Buy(f[i - 1], order[i], budget) /\ f[i - 1] \in V
      BY <1>0, <1>7, <2>2
    <3>2. QED
      BY <1>1, <3>1
  <2> HIDE DEF S, n
  <2>3. QED
    BY <1>0, <2>1, <2>2, UpTo
<1>9. f[n] \in V
  BY <1>0, <1>8
<1>10. QED
  BY <1>9 DEF Bought, f, V

\* random_starter_tools spends no more than its budget.
LEMMA StarterTools ==
  ASSUME NEW rank, NEW budget \in Nat, NEW k \in Pay!RandomStarterTools(rank, budget)
  PROVE  k.tool \in [Tools -> Nat] /\ k.spent \in 0..budget
<1> DEFINE available == {t \in Tools : MinRank[t] <= rank /\ Cost[t] <= budget} \union Essentials
           free == {t \in available : Cost[t] = 0}
<1>1. PICK order \in Pay!Shuffles(available \ free) :
        k = [tool  |-> [t \in Tools |-> IF t \in free THEN FreeIssue
                                        ELSE IF t \in Bought(order, budget).tools THEN PaidIssue ELSE 0],
             spent |-> Bought(order, budget).spent]
  BY DEF Pay!RandomStarterTools, Bought, Purchases, Buy
<1>2. available \ free \subseteq Tools
  BY Tables
<1> HIDE DEF available, free
<1>3. order \in Seq(Tools)
  <2> DEFINE S == available \ free
  <2> HIDE DEF S
  <2>1. IsFiniteSet(S) /\ Cardinality(S) \in Nat
    BY <1>2, Tables, FS_Subset, FS_CardinalityType DEF S
  <2>2. Pay!Cardinality(S) = Cardinality(S)
    BY DEF Pay!Cardinality, Cardinality
  <2>3. order \in [1..Cardinality(S) -> S] /\ S \subseteq Tools
    BY <1>2, <2>2 DEF Pay!Shuffles, S
  <2>4. QED
    BY <2>1, <2>3
<1>4. Bought(order, budget).spent \in 0..budget
  BY <1>3, BoughtWithin
<1>5. FreeIssue \in Nat /\ PaidIssue \in Nat
  BY Tables
<1>6. QED
  BY <1>1, <1>4, <1>5

(* The records.  What the dice make and remake is typed, sound and ranked. *)
Balances == [xp : Nat, gold : Nat, rank : Nat, born : Nat, total : Nat, assigned : Nat,
             skill : [Pay!Domains -> Nat], lost : Int, tool : [Tools -> Nat], done : Nat]

\* The points assigned are in the skills or lost, within the caps.
Sound(r) == /\ r.assigned = Pay!Points(r.skill) + r.lost
            /\ \A d \in Pay!Domains : r.skill[d] <= Caps[d]

\* Whoever fixes a rank assigns no more points than an agent has to start with.
Budgeted == \A f \in RankFixed : f[2] <= StartingPoints

\* One grant per threshold crossed since the roll, and no point assigned that
\* was not granted.
Ranked(r) == /\ r.born <= r.rank /\ (Budgeted => r.assigned <= r.total)
             /\ r.total = StartingPoints + SkillPointsPerRank * Cardinality(Passed(r.born, r.rank))

LEMMA Generated ==
  ASSUME NEW fixed \in BOOLEAN, NEW rank, fixed => rank \in Nat, NEW points \in Nat,
         Budgeted => points <= StartingPoints,
         NEW r \in Pay!Generate(fixed, rank, points)
  PROVE  r \in Balances /\ Sound(r) /\ Ranked(r)
<1>1. PICK xp \in XpRolls : \E gold \in Pay!ScaledGold(xp) :
        LET earned == Pay!RankHeld(fixed, rank, xp)
        IN  \E skill \in Pay!RandomSkills(points),
               k \in Pay!RandomStarterTools(earned, Pay!Least(BudgetCap, gold)) :
              r = [xp |-> xp, gold |-> gold - k.spent, rank |-> earned, born |-> earned,
                   total |-> StartingPoints, assigned |-> points, skill |-> skill,
                   lost |-> points - Pay!Points(skill), tool |-> k.tool, done |-> 0]
  BY DEF Pay!Generate
<1>2. PICK gold \in Pay!ScaledGold(xp), kept \in {Pay!RankHeld(fixed, rank, xp)} :
        /\ kept = Pay!RankHeld(fixed, rank, xp)
        /\ \E skill \in Pay!RandomSkills(points),
               k \in Pay!RandomStarterTools(kept, Pay!Least(BudgetCap, gold)) :
              r = [xp |-> xp, gold |-> gold - k.spent, rank |-> kept, born |-> kept,
                   total |-> StartingPoints, assigned |-> points, skill |-> skill,
                   lost |-> points - Pay!Points(skill), tool |-> k.tool, done |-> 0]
  BY <1>1
<1>3. PICK skill \in Pay!RandomSkills(points),
           k \in Pay!RandomStarterTools(kept, Pay!Least(BudgetCap, gold)) :
        r = [xp |-> xp, gold |-> gold - k.spent, rank |-> kept, born |-> kept,
             total |-> StartingPoints, assigned |-> points, skill |-> skill,
             lost |-> points - Pay!Points(skill), tool |-> k.tool, done |-> 0]
  BY <1>2
<1>4. xp \in Nat /\ points \in Nat /\ StartingPoints \in Nat /\ BudgetCap \in Nat
  BY Tables
<1>5. gold \in Nat
  <2>1. PICK v \in Variations : gold = Pay!Floor(BaseGold + xp \div XpPerGold + v)
    BY DEF Pay!ScaledGold
  <2>2. xp \div XpPerGold \in Int /\ BaseGold \in Int /\ v \in Int
    BY <1>4, Tables
  <2>3. QED
    BY <2>1, <2>2 DEF Pay!Floor
<1>6. kept \in Nat
  <2>1. Pay!Unlocked(xp) \in Nat
    BY <1>4, UnlockedIs, Tables
  <2>2. QED
    BY <1>2, <2>1 DEF Pay!RankHeld
<1>7. k.tool \in [Tools -> Nat] /\ k.spent \in 0..gold
  <2>1. Pay!Least(BudgetCap, gold) \in Nat /\ Pay!Least(BudgetCap, gold) <= gold
    BY <1>4, <1>5 DEF Pay!Least
  <2>2. k.tool \in [Tools -> Nat] /\ k.spent \in 0..Pay!Least(BudgetCap, gold)
    BY <2>1, StarterTools
  <2>3. QED
    BY <1>5, <2>1, <2>2
<1>8. /\ skill \in [Pay!Domains -> Nat] /\ \A d \in Pay!Domains : skill[d] <= Caps[d]
      /\ Pay!Points(skill) \in Nat
  BY <1>4, SkillsDealt, PointsAre
<1>9. r \in Balances
  BY <1>3, <1>4, <1>5, <1>6, <1>7, <1>8 DEF Balances
<1>10. Sound(r)
  BY <1>3, <1>4, <1>8 DEF Sound
<1>11. Ranked(r)
  <2>1. Passed(kept, kept) = {}
    <3>1. \A t \in Thresholds : ~(kept < t /\ t <= kept)
      BY <1>6, Tables
    <3>2. QED
      BY <3>1 DEF Passed
  <2>2. Cardinality(Passed(kept, kept)) = 0
    BY <2>1, FS_EmptySet
  <2>3. r.born = kept /\ r.rank = kept /\ r.assigned = points /\ r.total = StartingPoints
    BY <1>3
  <2>4. QED
    BY <1>4, <1>6, <2>2, <2>3, Rates DEF Ranked
<1>12. QED
  BY <1>9, <1>10, <1>11

LEMMA RolledAre ==
  ASSUME NEW r \in Pay!Generate(FALSE, 0, Derived)
  PROVE  r \in Balances /\ Sound(r) /\ Ranked(r)
<1>1. Derived \in Nat /\ (Budgeted => Derived <= StartingPoints)
  BY Rates, Tables
<1>2. FALSE \in BOOLEAN /\ (FALSE => 0 \in Nat)
  OBVIOUS
<1>3. QED
  BY <1>1, <1>2, Generated

LEMMA RecruitsAre ==
  ASSUME NEW r \in Pay!Recruits
  PROVE  r \in Balances /\ Sound(r) /\ Ranked(r)
<1>1. CASE r \in Pay!Generate(FALSE, 0, Derived)
  BY <1>1, RolledAre
<1>2. ASSUME NEW f \in RankFixed, r \in Pay!Generate(TRUE, f[1], f[2])
      PROVE  r \in Balances /\ Sound(r) /\ Ranked(r)
  <2>1. f[1] \in Nat /\ f[2] \in Nat /\ (Budgeted => f[2] <= StartingPoints)
    BY Rates, Tables DEF Budgeted
  <2>2. QED
    BY <1>2, <2>1, Generated
<1>3. QED
  BY <1>1, <1>2 DEF Pay!Recruits

LEMMA RerolledIs ==
  ASSUME NEW copy \in Balances, Sound(copy), NEW r \in Pay!Rerolled(copy)
  PROVE  r \in Balances /\ Sound(r) /\ (Ranked(copy) => Ranked(r))
<1>0. /\ copy.xp \in Nat /\ copy.gold \in Nat /\ copy.assigned \in Nat
      /\ copy.tool \in [Tools -> Nat] /\ copy.skill \in [Pay!Domains -> Nat]
  BY DEF Balances
<1>1. CASE r \in Pay!RerollSkills(copy)
  <2>1. PICK skill \in Pay!RandomSkills(copy.assigned) :
          r = [copy EXCEPT !.skill = skill, !.lost = copy.assigned - Pay!Points(skill)]
    BY <1>1 DEF Pay!RerollSkills
  <2>2. /\ skill \in [Pay!Domains -> Nat] /\ \A d \in Pay!Domains : skill[d] <= Caps[d]
        /\ Pay!Points(skill) \in Nat /\ copy.assigned - Pay!Points(skill) \in Int
    BY <1>0, SkillsDealt, PointsAre
  <2>3. r \in Balances
    BY <2>1, <2>2 DEF Balances
  <2>4. r.skill = skill /\ r.lost = copy.assigned - Pay!Points(skill) /\ r.assigned = copy.assigned
        /\ r.born = copy.born /\ r.rank = copy.rank /\ r.total = copy.total
    BY <2>1 DEF Balances
  <2>5. QED
    BY <1>0, <2>2, <2>3, <2>4 DEF Sound, Ranked
<1>2. CASE r \in Pay!RerollTools(copy)
  <2> DEFINE owned == {t \in Tools : copy.tool[t] > 0}
             purse == copy.gold + Sums(Cost, owned)[owned]
  <2>1. purse \in Nat
    <3>1. IsFiniteSet(owned) /\ \A t \in owned : Cost[t] \in Nat
      BY Tables, FS_Subset
    <3> HIDE DEF owned
    <3>2. Sums(Cost, owned)[owned] \in Nat
      BY <3>1, SumsSolve
    <3>3. QED
      BY <1>0, <3>2
  <2>2. PICK k \in Pay!RandomStarterTools(copy.rank, Pay!Least(BudgetCap, purse)) :
          r = [copy EXCEPT !.tool = k.tool, !.gold = purse - k.spent]
    BY <1>2 DEF Pay!RerollTools, Pay!MapThenSumSet, Pay!MapThenFoldSet, Sums
  <2> HIDE DEF purse
  <2>3. k.tool \in [Tools -> Nat] /\ k.spent \in 0..purse
    <3>1. Pay!Least(BudgetCap, purse) \in Nat /\ Pay!Least(BudgetCap, purse) <= purse
      BY <2>1, Tables DEF Pay!Least
    <3>2. k.tool \in [Tools -> Nat] /\ k.spent \in 0..Pay!Least(BudgetCap, purse)
      BY <3>1, StarterTools
    <3>3. QED
      BY <2>1, <3>1, <3>2
  <2>4. purse - k.spent \in Nat
    BY <2>1, <2>3
  <2>5. r \in Balances
    BY <2>2, <2>3, <2>4 DEF Balances
  <2>6. r.skill = copy.skill /\ r.lost = copy.lost /\ r.assigned = copy.assigned
        /\ r.born = copy.born /\ r.rank = copy.rank /\ r.total = copy.total
    BY <2>2 DEF Balances
  <2>7. QED
    BY <2>5, <2>6 DEF Sound, Ranked
<1>3. CASE r \in Pay!RerollGold(copy)
  <2>1. PICK v \in Variations :
          r = [copy EXCEPT !.gold = Pay!Floor(BaseGold + copy.xp \div XpPerGold + v)]
    BY <1>3 DEF Pay!RerollGold, Pay!ScaledGold
  <2>2. Pay!Floor(BaseGold + copy.xp \div XpPerGold + v) \in Nat
    <3>1. copy.xp \div XpPerGold \in Int /\ BaseGold \in Int /\ v \in Int
      BY <1>0, Tables
    <3>2. QED
      BY <3>1 DEF Pay!Floor
  <2>3. r \in Balances
    BY <2>1, <2>2 DEF Balances
  <2>4. r.skill = copy.skill /\ r.lost = copy.lost /\ r.assigned = copy.assigned
        /\ r.born = copy.born /\ r.rank = copy.rank /\ r.total = copy.total
    BY <2>1 DEF Balances
  <2>5. QED
    BY <2>3, <2>4 DEF Sound, Ranked
<1>4. CASE r \in Pay!Generate(FALSE, 0, Derived)
  BY <1>4, RolledAre
<1>5. QED
  BY <1>1, <1>2, <1>3, <1>4 DEF Pay!Rerolled

(***************************************************************************)
(* The clerks.  However many there are and whoever dies, what is stored and *)
(* what a clerk holds is typed and sound, and what it is about to write     *)
(* passed the checks against the copy it is computed from.                 *)
(***************************************************************************)
Entry == [id : Nat, agent : Agents, amount : Int, mission : Nat]
WithCopy == {"saving", "loading", "opening", "writing", "crediting"}
Hand == [pc : WithCopy \union {"free", "payroll"}, agent : Agents, seen : Balances \union {Pay!NoCopy},
         op : {"award", "train", "equip", "reroll"}, on : Pay!Domains \union Tools \union {0},
         xp : Int, gold : Int, rows : Seq(Entry), mission : Nat, complete : BOOLEAN,
         work : [Agents -> Nat]]

Checked(p) ==
  /\ p.op = "train" => /\ p.on \in Pay!Domains /\ p.xp \in Nat /\ p.gold = 0
                       /\ p.seen.skill[p.on] + p.xp <= Caps[p.on]
                       /\ p.seen.assigned + p.xp <= p.seen.total
  /\ p.op = "equip" => p.on \in Tools /\ p.gold = -Cost[p.on] /\ Cost[p.on] <= p.seen.gold
  /\ p.op = "reroll" => p.gold = 0

ClerkInv(p) ==
  /\ p.pc \in WithCopy => p.agent \in office.agents /\ p.seen \in Balances /\ Sound(p.seen)
  /\ p.pc = "saving" => Checked(p)
  /\ p.pc \in {"payroll", "crediting"} \/ p.mission # 0 => p.op = "award"

EconomyTypes ==
  /\ office \in Offices
  /\ agents \in [office.agents -> Balances]
  /\ ledger \in [torn : BOOLEAN, rows : Seq(Entry)]
  /\ proc \in [Clerks -> Hand]
  /\ payrolls \in Nat /\ rolls \in Nat

EconomyInv ==
  /\ EconomyTypes
  /\ \A a \in office.agents : Sound(agents[a])
  /\ \A o \in Clerks : ClerkInv(proc[o])

LEMMA OfficeIs ==
  ASSUME office \in Offices
  PROVE  /\ office.clerks \subseteq Clerks /\ IsFiniteSet(office.clerks) /\ office.agents \subseteq Agents
         /\ office.agents # {} /\ Agents # {}
         /\ \A offer \in office.offers : offer.xp \in Int /\ offer.gold \in Int
  BY Rates

\* A clerk with nothing in hand.
LEMMA FreeIs ==
  ASSUME Agents # {}
  PROVE  /\ Pay!Free \in Hand /\ Pay!Free.pc = "free" /\ Pay!Free.mission = 0
         /\ Pay!Free.op = "award" /\ Pay!Free.on = 0 /\ Pay!Free.xp = 0 /\ Pay!Free.gold = 0
         /\ ClerkInv(Pay!Free)
<1>1. PICK a \in Agents : a = CHOOSE b \in Agents : TRUE
  OBVIOUS
<1>2. Pay!Free = [pc |-> "free", agent |-> a, seen |-> Pay!NoCopy, op |-> "award", on |-> 0,
                  xp |-> 0, gold |-> 0, rows |-> <<>>, mission |-> 0, complete |-> FALSE,
                  work |-> [b \in Agents |-> 0]]
  BY <1>1 DEF Pay!Free
<1>3. QED
  BY <1>2 DEF Hand, ClerkInv, WithCopy

LEMMA EconomyInit == Pay!Init => EconomyInv
<1> SUFFICES ASSUME Pay!Init PROVE EconomyInv
  OBVIOUS
<1>1. office \in Offices /\ Agents # {} /\ \A a \in office.agents : agents[a] \in Pay!Recruits
      /\ agents \in [office.agents -> Pay!Recruits]
  BY OfficeIs DEF Pay!Init
<1>2. \A r \in Pay!Recruits : r \in Balances /\ Sound(r)
  BY RecruitsAre
<1>3. EconomyTypes
  BY <1>1, <1>2, FreeIs DEF EconomyTypes, Pay!Init
<1>4. \A o \in Clerks : ClerkInv(proc[o])
  BY <1>1, FreeIs DEF Pay!Init
<1>5. QED
  BY <1>1, <1>2, <1>3, <1>4 DEF EconomyInv

\* A step changes one hand, one record, and the ledger.
LEMMA EconomyMoves ==
  ASSUME EconomyInv, NEW o \in Clerks, NEW h \in Hand, ClerkInv(h), proc' = [proc EXCEPT ![o] = h],
         office' = office, payrolls' \in Nat, rolls' \in Nat,
         ledger' \in [torn : BOOLEAN, rows : Seq(Entry)],
         \/ agents' = agents
         \/ \E a \in office.agents, r \in Balances : Sound(r) /\ agents' = [agents EXCEPT ![a] = r]
  PROVE  EconomyInv'
<1>1. EconomyTypes /\ (\A a \in office.agents : Sound(agents[a])) /\ \A p \in Clerks : ClerkInv(proc[p])
  BY DEF EconomyInv
<1>2. agents' \in [office.agents -> Balances] /\ \A a \in office.agents : Sound(agents'[a])
  <2>1. CASE agents' = agents
    BY <1>1, <2>1 DEF EconomyTypes
  <2>2. ASSUME NEW a \in office.agents, NEW r \in Balances, Sound(r), agents' = [agents EXCEPT ![a] = r]
        PROVE  agents' \in [office.agents -> Balances] /\ \A b \in office.agents : Sound(agents'[b])
    <3>1. agents \in [office.agents -> Balances]
      BY <1>1 DEF EconomyTypes
    <3>2. \A b \in office.agents : agents'[b] = IF b = a THEN r ELSE agents[b]
      BY <2>2, <3>1
    <3>3. agents' \in [office.agents -> Balances]
      BY <2>2, <3>1
    <3>4. ASSUME NEW b \in office.agents PROVE Sound(agents'[b])
      BY <1>1, <2>2, <3>2
    <3>5. QED
      BY <3>3, <3>4
  <2>3. QED
    BY <2>1, <2>2
<1>3. proc \in [Clerks -> Hand]
  BY <1>1 DEF EconomyTypes
<1>4. proc' \in [Clerks -> Hand] /\ \A p \in Clerks : proc'[p] = IF p = o THEN h ELSE proc[p]
  BY <1>3
<1>5. EconomyTypes'
  BY <1>1, <1>2, <1>4 DEF EconomyTypes
<1>6. \A p \in Clerks : ClerkInv(proc[p])'
  <2> SUFFICES ASSUME NEW p \in Clerks PROVE ClerkInv(proc[p])'
    OBVIOUS
  <2>1. \A q : ClerkInv(q)' = ClerkInv(q)
    BY DEF ClerkInv
  <2>2. PICK q : q = proc'[p]
    OBVIOUS
  <2>3. ClerkInv(q)
    BY <1>1, <1>4, <2>2
  <2>4. QED
    BY <2>2, <2>3 DEF ClerkInv
<1>7. QED
  BY <1>2, <1>5, <1>6 DEF EconomyInv

\* The hands the operations begin with.
ToCredit(s, xp, gold) == [Pay!Free EXCEPT !.seen = s, !.xp = xp, !.gold = gold]
ToTrain(s, d, points) == [Pay!Free EXCEPT !.op = "train", !.seen = s, !.on = d, !.xp = points]
ToEquip(s, t, gold) == [Pay!Free EXCEPT !.op = "equip", !.seen = s, !.on = t, !.gold = gold]
ToReroll(s) == [Pay!Free EXCEPT !.op = "reroll", !.seen = s]

LEMMA CreditHand ==
  ASSUME Agents # {}, NEW s \in Balances, NEW xp \in Int, NEW gold \in Int
  PROVE  LET h == ToCredit(s, xp, gold)
         IN  /\ h \in Hand /\ h.seen = s /\ h.op = "award" /\ h.xp = xp /\ h.gold = gold
             /\ h.mission = 0
<1>1. PICK f : f = Pay!Free
  OBVIOUS
<1>2. f \in Hand /\ f.mission = 0 /\ f.op = "award"
  BY <1>1, FreeIs
<1>3. PICK h : h = [f EXCEPT !.seen = s, !.xp = xp, !.gold = gold]
  OBVIOUS
<1>4. h \in Hand /\ h.seen = s /\ h.op = "award" /\ h.xp = xp /\ h.gold = gold /\ h.mission = 0
  BY <1>2, <1>3 DEF Hand
<1>5. QED
  BY <1>1, <1>3, <1>4 DEF ToCredit

LEMMA TrainHand ==
  ASSUME Agents # {}, NEW s \in Balances, NEW d \in Pay!Domains, NEW points \in Nat
  PROVE  LET h == ToTrain(s, d, points)
         IN  /\ h \in Hand /\ h.seen = s /\ h.op = "train" /\ h.on = d /\ h.xp = points
             /\ h.gold = 0 /\ h.mission = 0
<1>1. PICK f : f = Pay!Free
  OBVIOUS
<1>2. f \in Hand /\ f.mission = 0 /\ f.gold = 0
  BY <1>1, FreeIs
<1>3. PICK h : h = [f EXCEPT !.op = "train", !.seen = s, !.on = d, !.xp = points]
  OBVIOUS
<1>4. h.seen = s /\ h.op = "train" /\ h.on = d /\ h.xp = points /\ h.gold = 0 /\ h.mission = 0
  BY <1>2, <1>3 DEF Hand
<1>5. h \in Hand
  <2>1. f.pc \in WithCopy \union {"free", "payroll"} /\ f.agent \in Agents
        /\ f.gold \in Int /\ f.rows \in Seq(Entry) /\ f.mission \in Nat /\ f.complete \in BOOLEAN
        /\ f.work \in [Agents -> Nat]
    BY <1>2 DEF Hand
  <2>2. h = [pc |-> f.pc, agent |-> f.agent, seen |-> s, op |-> "train", on |-> d, xp |-> points,
             gold |-> f.gold, rows |-> f.rows, mission |-> f.mission, complete |-> f.complete,
             work |-> f.work]
    BY <1>2, <1>3 DEF Hand
  <2>3. d \in Pay!Domains \union Tools \union {0} /\ points \in Int
    OBVIOUS
  <2>4. QED
    BY <2>1, <2>2, <2>3 DEF Hand
<1>6. QED
  BY <1>1, <1>3, <1>4, <1>5 DEF ToTrain

LEMMA EquipHand ==
  ASSUME Agents # {}, NEW s \in Balances, NEW t \in Tools, NEW gold \in Int
  PROVE  LET h == ToEquip(s, t, gold)
         IN  /\ h \in Hand /\ h.seen = s /\ h.op = "equip" /\ h.on = t /\ h.gold = gold
             /\ h.mission = 0
<1>1. PICK f : f = Pay!Free
  OBVIOUS
<1>2. f \in Hand /\ f.mission = 0
  BY <1>1, FreeIs
<1>3. PICK h : h = [f EXCEPT !.op = "equip", !.seen = s, !.on = t, !.gold = gold]
  OBVIOUS
<1>4. h \in Hand /\ h.seen = s /\ h.op = "equip" /\ h.on = t /\ h.gold = gold /\ h.mission = 0
  BY <1>2, <1>3 DEF Hand
<1>5. QED
  BY <1>1, <1>3, <1>4 DEF ToEquip

LEMMA RerollHand ==
  ASSUME Agents # {}, NEW s \in Balances
  PROVE  LET h == ToReroll(s)
         IN  h \in Hand /\ h.seen = s /\ h.op = "reroll" /\ h.gold = 0 /\ h.mission = 0
<1>1. PICK f : f = Pay!Free
  OBVIOUS
<1>2. f \in Hand /\ f.mission = 0 /\ f.gold = 0
  BY <1>1, FreeIs
<1>3. PICK h : h = [f EXCEPT !.op = "reroll", !.seen = s]
  OBVIOUS
<1>4. h \in Hand /\ h.seen = s /\ h.op = "reroll" /\ h.gold = 0 /\ h.mission = 0
  BY <1>2, <1>3 DEF Hand
<1>5. QED
  BY <1>1, <1>3, <1>4 DEF ToReroll

\* What the operations make of a record.
LEMMA AwardIs ==
  ASSUME NEW now \in Balances, NEW seen \in Balances, NEW xp \in Int, NEW gold \in Int,
         Sound(now)
  PROVE  LET r == Pay!Award(now, seen, xp, gold)
         IN  /\ r \in Balances /\ Sound(r) /\ r.gold = Pay!Floor(seen.gold + gold)
             /\ now = seen /\ Ranked(seen) => Ranked(r)
<1> DEFINE new == Pay!Floor(seen.xp + xp)
           purse == Pay!Floor(seen.gold + gold)
           u == Pay!Unlocked(new)
           granted == Pay!Grant(seen, new)
<1>1. seen.xp \in Nat /\ seen.gold \in Nat /\ seen.rank \in Nat /\ seen.total \in Nat
  BY DEF Balances
<1>2. new \in Nat /\ purse \in Nat
  BY <1>1 DEF Pay!Floor
<1>3. u \in Nat
  <2> HIDE DEF new
  <2>1. u \in Thresholds
    BY <1>2, UnlockedIs
  <2>2. QED
    BY <2>1, Tables
<1>4. granted = SkillPointsPerRank * Cardinality(Passed(seen.rank, u))
  BY DEF Pay!Grant, Passed, Pay!Cardinality, Cardinality
<1> HIDE DEF granted
<1>5. SkillPointsPerRank \in Nat
  BY Rates
<1>6. PICK settled : settled = [now EXCEPT !.xp = new, !.gold = purse]
  OBVIOUS
<1> HIDE DEF new, purse
<1>7. /\ settled \in Balances /\ settled.gold = purse /\ settled.skill = now.skill
      /\ settled.lost = now.lost /\ settled.assigned = now.assigned /\ settled.born = now.born
      /\ settled.rank = now.rank /\ settled.total = now.total
  BY <1>2, <1>6 DEF Balances
<1>8. PICK r : r = Pay!Award(now, seen, xp, gold)
  OBVIOUS
<1>9. r = IF u > seen.rank THEN [settled EXCEPT !.rank = u, !.total = seen.total + granted] ELSE settled
  BY <1>6, <1>8 DEF Pay!Award, Pay!Promoted, new, purse, granted
<1> HIDE DEF u
<1>10. CASE ~ (u > seen.rank)
  BY <1>7, <1>8, <1>9, <1>10 DEF Sound, Ranked, purse
<1>11. CASE u > seen.rank
  <2>1. Cardinality(Passed(seen.rank, u)) \in Nat /\ seen.rank <= u
    BY <1>1, <1>3, <1>11, PassedCount
  <2>2. granted \in Nat
    BY <1>4, <1>5, <2>1
  <2>3. r = [settled EXCEPT !.rank = u, !.total = seen.total + granted]
    BY <1>9, <1>11
  <2>4. seen.total + granted \in Nat
    BY <1>1, <2>2
  <2>5. /\ r \in Balances /\ r.gold = purse /\ r.skill = now.skill /\ r.lost = now.lost
        /\ r.assigned = now.assigned /\ r.born = now.born /\ r.rank = u
        /\ r.total = seen.total + granted
    BY <1>3, <1>7, <2>3, <2>4 DEF Balances
  <2>6. Sound(r)
    BY <2>5 DEF Sound
  <2>7. ASSUME now = seen, Ranked(seen) PROVE Ranked(r)
    <3> DEFINE x == Cardinality(Passed(seen.born, seen.rank))
               y == Cardinality(Passed(seen.rank, u))
    <3>1. seen.born \in Nat /\ seen.assigned \in Nat /\ seen.born <= seen.rank
          /\ (Budgeted => seen.assigned <= seen.total) /\ seen.total = StartingPoints + SkillPointsPerRank * x
      BY <2>7 DEF Ranked, Balances
    <3>2. Cardinality(Passed(seen.born, u)) = x + y /\ x \in Nat /\ y \in Nat
      <4>1. Adds(seen.born, seen.rank, u)
        BY <1>1, <1>3, <2>1, <3>1, PassedAdds
      <4>2. QED
        BY <4>1, PassedCount DEF Adds
    <3> HIDE DEF x
    <3>3. granted = SkillPointsPerRank * y
      BY <1>4
    <3> HIDE DEF y
    <3>4. SkillPointsPerRank * (x + y) = SkillPointsPerRank * x + SkillPointsPerRank * y
      BY <1>5, <3>2
    <3>5. StartingPoints \in Nat /\ SkillPointsPerRank * x \in Nat /\ SkillPointsPerRank * y \in Nat
      BY <1>5, <3>2, Tables
    <3>6. r.total = StartingPoints + SkillPointsPerRank * Cardinality(Passed(r.born, r.rank))
      BY <2>5, <2>7, <3>1, <3>2, <3>3, <3>4, <3>5
    <3>7. r.born <= r.rank /\ (Budgeted => r.assigned <= r.total)
      BY <1>1, <1>3, <1>11, <2>2, <2>5, <2>7, <3>1
    <3>8. QED
      BY <3>6, <3>7 DEF Ranked
  <2>8. QED
    BY <1>8, <2>5, <2>6, <2>7 DEF purse
<1>12. QED
  BY <1>10, <1>11

LEMMA TrainedIs ==
  ASSUME NEW now \in Balances, NEW seen \in Balances, NEW d \in Pay!Domains, NEW points \in Nat,
         Sound(seen), seen.skill[d] + points <= Caps[d], seen.assigned + points <= seen.total
  PROVE  LET r == Pay!Trained(now, seen, d, points)
         IN  /\ r \in Balances /\ Sound(r) /\ r.gold = now.gold
             /\ now = seen /\ Ranked(seen) => Ranked(r)
<1>1. PICK k : k = [seen.skill EXCEPT ![d] = @ + points]
  OBVIOUS
<1>2. seen.skill \in [Pay!Domains -> Nat] /\ seen.lost \in Int /\ seen.total \in Nat /\ seen.assigned \in Nat
  BY DEF Balances
<1>3. k \in [Pay!Domains -> Nat] /\ \A e \in Pay!Domains : k[e] <= Caps[e]
  BY <1>1, <1>2 DEF Sound
<1>4. Pay!Points(k) = Pay!Points(seen.skill) + points /\ Pay!Points(seen.skill) \in Nat
  BY <1>1, <1>2, PointsAre
<1>5. PICK r : r = [now EXCEPT !.skill = k, !.lost = seen.lost, !.total = seen.total,
                               !.assigned = seen.assigned + points]
  OBVIOUS
<1>6. r = Pay!Trained(now, seen, d, points)
  BY <1>1, <1>5 DEF Pay!Trained
<1>7. seen.assigned + points \in Nat
  BY <1>2
<1>8. /\ r \in Balances /\ r.gold = now.gold /\ r.skill = k /\ r.lost = seen.lost /\ r.total = seen.total
      /\ r.assigned = seen.assigned + points /\ r.born = now.born /\ r.rank = now.rank
  BY <1>2, <1>3, <1>5, <1>7 DEF Balances
<1>9. Sound(r)
  BY <1>2, <1>3, <1>4, <1>8 DEF Sound
<1>10. now = seen /\ Ranked(seen) => Ranked(r)
  BY <1>8 DEF Ranked
<1>11. QED
  BY <1>6, <1>8, <1>9, <1>10

LEMMA EquippedIs ==
  ASSUME NEW now \in Balances, NEW seen \in Balances, NEW t \in Tools, Sound(now), Cost[t] <= seen.gold
  PROVE  LET r == Pay!Equipped(now, seen, t)
         IN  /\ r \in Balances /\ Sound(r) /\ r.gold = seen.gold - Cost[t]
             /\ Ranked(now) => Ranked(r)
<1>1. PICK k : k = [seen.tool EXCEPT ![t] = @ + 1]
  OBVIOUS
<1>2. seen.tool \in [Tools -> Nat] /\ seen.gold \in Nat /\ Cost[t] \in Nat
  BY Tables DEF Balances
<1>3. k \in [Tools -> Nat] /\ seen.gold - Cost[t] \in Nat
  BY <1>1, <1>2
<1>4. PICK r : r = [now EXCEPT !.tool = k, !.gold = seen.gold - Cost[t]]
  OBVIOUS
<1>5. r = Pay!Equipped(now, seen, t)
  BY <1>1, <1>4 DEF Pay!Equipped
<1>6. /\ r \in Balances /\ r.gold = seen.gold - Cost[t] /\ r.skill = now.skill /\ r.lost = now.lost
      /\ r.total = now.total /\ r.assigned = now.assigned /\ r.born = now.born /\ r.rank = now.rank
  BY <1>3, <1>4 DEF Balances
<1>7. QED
  BY <1>5, <1>6 DEF Sound, Ranked

\* What a clerk saves, whatever became of the record since it was read; and
\* what becomes of it when nothing did.
LEMMA SavedIs ==
  ASSUME NEW me \in Hand, me.pc = "saving", ClerkInv(me), NEW now \in Balances, Sound(now)
  PROVE  LET r == Pay!Saved(me, now)
         IN  /\ r \in Balances /\ Sound(r) /\ Pay!Owed(me) \in Int
             /\ me.op = "reroll" => Pay!Owed(me) = 0 /\ r = me.seen
             /\ me.op # "reroll" /\ me.seen = now => r.gold = now.gold + Pay!Owed(me)
             /\ me.op # "reroll" /\ me.seen = now /\ Ranked(now) => Ranked(r)
<1>1. /\ me.seen \in Balances /\ Sound(me.seen) /\ Checked(me) /\ me.xp \in Int /\ me.gold \in Int
      /\ me.op \in {"award", "train", "equip", "reroll"}
  BY DEF ClerkInv, Hand, WithCopy
<1>2. now.gold \in Nat /\ me.seen.gold \in Nat
  BY <1>1 DEF Balances
<1>3. PICK r : r = Pay!Saved(me, now)
  OBVIOUS
<1>4. PICK owed : owed = Pay!Owed(me)
  OBVIOUS
<1> SUFFICES /\ r \in Balances /\ Sound(r) /\ owed \in Int
             /\ me.op = "reroll" => owed = 0 /\ r = me.seen
             /\ me.op # "reroll" /\ me.seen = now => r.gold = now.gold + owed
             /\ me.op # "reroll" /\ me.seen = now /\ Ranked(now) => Ranked(r)
  BY <1>3, <1>4
<1>5. CASE me.op = "award"
  <2>1. r = Pay!Award(now, me.seen, me.xp, me.gold)
    BY <1>3, <1>5 DEF Pay!Saved
  <2>2. owed = Pay!Floor(me.seen.gold + me.gold) - me.seen.gold
    BY <1>4, <1>5 DEF Pay!Owed, Pay!Movement
  <2>3. Pay!Floor(me.seen.gold + me.gold) \in Int
    BY <1>1, <1>2 DEF Pay!Floor
  <2>4. /\ r \in Balances /\ Sound(r) /\ r.gold = Pay!Floor(me.seen.gold + me.gold)
        /\ now = me.seen /\ Ranked(me.seen) => Ranked(r)
    BY <1>1, <2>1, AwardIs
  <2>5. QED
    BY <1>2, <1>5, <2>2, <2>3, <2>4
<1>6. CASE me.op = "train"
  <2>1. r = Pay!Trained(now, me.seen, me.on, me.xp)
    BY <1>3, <1>6 DEF Pay!Saved
  <2>2. owed = 0
    BY <1>1, <1>4, <1>6 DEF Pay!Owed, Checked
  <2>3. me.on \in Pay!Domains /\ me.xp \in Nat /\ me.seen.skill[me.on] + me.xp <= Caps[me.on]
        /\ me.seen.assigned + me.xp <= me.seen.total
    BY <1>1, <1>6 DEF Checked
  <2>4. /\ r \in Balances /\ Sound(r) /\ r.gold = now.gold
        /\ now = me.seen /\ Ranked(me.seen) => Ranked(r)
    BY <1>1, <2>1, <2>3, TrainedIs
  <2>5. QED
    BY <1>2, <1>6, <2>2, <2>4
<1>7. CASE me.op = "equip"
  <2>1. r = Pay!Equipped(now, me.seen, me.on)
    BY <1>3, <1>7 DEF Pay!Saved
  <2>2. owed = -Cost[me.on] /\ me.on \in Tools /\ Cost[me.on] <= me.seen.gold
    BY <1>1, <1>4, <1>7 DEF Pay!Owed, Checked
  <2>3. Cost[me.on] \in Nat
    BY <2>2, Tables
  <2>4. /\ r \in Balances /\ Sound(r) /\ r.gold = me.seen.gold - Cost[me.on]
        /\ Ranked(now) => Ranked(r)
    BY <1>1, <2>1, <2>2, EquippedIs
  <2>5. QED
    BY <1>2, <1>7, <2>2, <2>3, <2>4
<1>8. CASE me.op = "reroll"
  <2>1. r = me.seen
    BY <1>3, <1>8 DEF Pay!Saved
  <2>2. owed = 0
    BY <1>1, <1>4, <1>8 DEF Pay!Owed, Checked
  <2>3. QED
    BY <1>1, <1>8, <2>1, <2>2
<1>9. QED
  BY <1>1, <1>5, <1>6, <1>7, <1>8

\* Where a clerk goes when an operation is done.
LEMMA AfterIs ==
  ASSUME Agents # {}, NEW me \in Hand, ClerkInv(me), me.pc \in WithCopy
  PROVE  LET h == Pay!After(me)
         IN  h \in Hand /\ ClerkInv(h) /\ h.pc \in {"free", "crediting", "payroll"}
<1>1. PICK h : h = Pay!After(me)
  OBVIOUS
<1>2. CASE me.mission = 0
  <2>1. h = Pay!Free
    BY <1>1, <1>2 DEF Pay!After
  <2>2. QED
    BY <1>1, <2>1, FreeIs
<1>3. CASE me.mission # 0
  <2>1. PICK pc \in {"crediting", "payroll"}, empty \in Seq(Entry) :
          h = [me EXCEPT !.pc = pc, !.gold = 0, !.rows = empty]
    <3>1. <<>> \in Seq(Entry)
      OBVIOUS
    <3>2. (IF me.complete THEN "crediting" ELSE "payroll") \in {"crediting", "payroll"}
      OBVIOUS
    <3>3. QED
      BY <1>1, <1>3, <3>1, <3>2 DEF Pay!After
  <2>2. h \in Hand /\ h.pc = pc /\ h.agent = me.agent /\ h.seen = me.seen /\ h.op = me.op
    <3>1. pc \in WithCopy \union {"free", "payroll"} /\ 0 \in Int
      BY DEF WithCopy
    <3>2. h = [pc |-> pc, agent |-> me.agent, seen |-> me.seen, op |-> me.op, on |-> me.on,
               xp |-> me.xp, gold |-> 0, rows |-> empty, mission |-> me.mission,
               complete |-> me.complete, work |-> me.work]
      BY <2>1 DEF Hand
    <3>3. QED
      BY <3>1, <3>2 DEF Hand
  <2>3. ClerkInv(h)
    BY <1>3, <2>2 DEF ClerkInv, WithCopy
  <2>4. QED
    BY <1>1, <2>2, <2>3
<1>4. QED
  BY <1>2, <1>3

LEMMA NextIdIs ==
  ASSUME NEW rs \in Seq(Entry)
  PROVE  Pay!NextId(rs) \in Nat
<1> DEFINE ids == {rs[i].id : i \in DOMAIN rs}
           S == ids \union {0}
<1>1. IsFiniteSet(DOMAIN rs) /\ \A i \in DOMAIN rs : rs[i].id \in Nat
  <2>1. DOMAIN rs = 1..Len(rs) /\ Len(rs) \in Nat
    OBVIOUS
  <2>2. \A i \in DOMAIN rs : rs[i] \in Entry
    OBVIOUS
  <2>3. QED
    BY <2>1, <2>2, FS_Interval DEF Entry
<1>2. IsFiniteSet(ids)
  <2>1. PICK q : q = [i \in 1..Len(rs) |-> rs[i].id]
    OBVIOUS
  <2>2. q \in Seq(ids) /\ Len(q) = Len(rs) /\ \A i \in 1..Len(q) : q[i] = rs[i].id
    BY <2>1
  <2>3. \A n \in ids : \E i \in 1..Len(q) : q[i] = n
    BY <2>2
  <2>4. QED
    BY <2>2, <2>3 DEF IsFiniteSet
<1>3. IsFiniteSet(S)
  BY <1>2, FS_AddElement
<1>4. S \in SUBSET Nat /\ S # {}
  BY <1>1
<1> HIDE DEF S
<1>5. Pay!Largest(S) \in Nat
  BY <1>3, <1>4, LargestOf
<1>6. QED
  BY <1>5 DEF Pay!NextId, S

(***************************************************************************)
(* What the steps of a clerk come to: the hand it had becomes the hand h,  *)
(* and a record, the ledger or neither is written.                         *)
(***************************************************************************)
Idle == {"free", "payroll", "crediting"}
Into(o, h) == /\ ClerkInv(h) /\ proc' = [proc EXCEPT ![o] = h]
              /\ office' = office /\ payrolls' \in Nat

\* Nothing is written; what is to be saved was read just now.
Taking(o) == \E h \in Hand :
  /\ Into(o, h) /\ proc[o].pc \in Idle /\ h.pc \in Idle \union {"saving"}
  /\ h.pc = "saving" =>
       IF h.op = "reroll" THEN Ranked(agents[h.agent]) => Ranked(h.seen)
       ELSE h.seen = agents[h.agent]
  /\ UNCHANGED <<agents, ledger, rolls>>

\* The record of the agent in hand is written: the gold the ledger is owed is
\* what it gained, if it is still what was read.
Saving(o) == \E h \in Hand, r \in Balances :
  LET me  == proc[o]
      now == agents[me.agent]
  IN  /\ Into(o, h) /\ me.pc = "saving" /\ me.agent \in office.agents
      /\ Sound(r) /\ agents' = [agents EXCEPT ![me.agent] = r] /\ ledger' = ledger
      /\ Pay!Owed(me) \in Int
      /\ me.op = "reroll" => r = me.seen /\ Pay!Owed(me) = 0 /\ rolls' = rolls + 1
      /\ me.op # "reroll" =>
           /\ rolls' = rolls
           /\ me.seen = now => r.gold = now.gold + Pay!Owed(me) /\ (Ranked(now) => Ranked(r))
      /\ IF Pay!Owed(me) = 0 THEN h.pc \in Idle
         ELSE h.pc = "loading" /\ h.agent = me.agent /\ h.gold = Pay!Owed(me)

\* The ledger is loaded, emptied and written.
Loading(o) == \E h \in Hand :
  /\ Into(o, h) /\ proc[o].pc = "loading" /\ h.pc = "opening"
  /\ h.agent = proc[o].agent /\ h.gold = proc[o].gold /\ h.rows = Pay!Loaded(ledger)
  /\ UNCHANGED <<agents, ledger, rolls>>
Opening(o) == \E h \in Hand :
  /\ Into(o, h) /\ proc[o].pc = "opening" /\ h.pc = "writing"
  /\ h.agent = proc[o].agent /\ h.gold = proc[o].gold /\ h.rows = proc[o].rows
  /\ ledger' = [ledger EXCEPT !.torn = TRUE] /\ UNCHANGED <<agents, rolls>>
Writing(o) == \E h \in Hand, entry \in Entry :
  /\ Into(o, h) /\ proc[o].pc = "writing" /\ h.pc \in Idle
  /\ entry.agent = proc[o].agent /\ entry.amount = proc[o].gold
  /\ ledger' = [torn |-> FALSE, rows |-> Append(proc[o].rows, entry)]
  /\ proc[o].rows \in Seq(Entry) /\ UNCHANGED <<agents, rolls>>

\* A mission is counted.
Crediting(o) == \E h \in Hand, r \in Balances :
  LET me == proc[o] IN
  /\ Into(o, h) /\ me.pc = "crediting" /\ h.pc = "payroll" /\ me.agent \in office.agents
  /\ Sound(r) /\ agents' = [agents EXCEPT ![me.agent] = r]
  /\ r.gold = agents[me.agent].gold /\ (Ranked(agents[me.agent]) => Ranked(r))
  /\ UNCHANGED <<ledger, rolls>>
Dying(o) == \E h \in Hand : Into(o, h) /\ office.crashes /\ UNCHANGED <<agents, ledger, rolls>>

\* An operation that begins with a sound copy and passed its checks.
LEMMA Begun ==
  ASSUME EconomyInv, NEW o \in Clerks, NEW a \in office.agents, NEW h \in Hand,
         h.seen \in Balances, Sound(h.seen), Checked(h), h.mission = 0, Pay!Begin(o, a, h),
         h.op = "reroll" => (Ranked(agents[a]) => Ranked(h.seen)),
         h.op # "reroll" => h.seen = agents[a]
  PROVE  Taking(o)
<1>1. PICK k : k = [h EXCEPT !.pc = "saving", !.agent = a]
  OBVIOUS
<1>2. a \in Agents
  BY OfficeIs DEF EconomyInv, EconomyTypes
<1>3. k \in Hand /\ k.pc = "saving" /\ k.agent = a /\ k.seen = h.seen /\ k.op = h.op /\ k.on = h.on
      /\ k.xp = h.xp /\ k.gold = h.gold /\ k.mission = 0
  BY <1>1, <1>2 DEF Hand, WithCopy
<1>4. ClerkInv(k)
  <2>1. Checked(k)
    BY <1>3 DEF Checked
  <2>2. QED
    BY <1>3, <2>1 DEF ClerkInv, WithCopy
<1>5. /\ proc[o].pc = "free" /\ proc' = [proc EXCEPT ![o] = k]
      /\ UNCHANGED <<agents, ledger, office, payrolls, rolls>>
  BY <1>1 DEF Pay!Begin, Pay!At
<1>6. Into(o, k)
  BY <1>4, <1>5 DEF Into, EconomyInv, EconomyTypes
<1>7. QED
  BY <1>3, <1>5, <1>6 DEF Taking, Idle

LEMMA Forms ==
  ASSUME EconomyInv, Pay!Next
  PROVE  \E o \in office.clerks : \/ Taking(o) \/ Saving(o) \/ Loading(o) \/ Opening(o)
                                  \/ Writing(o) \/ Crediting(o) \/ Dying(o)
<1>0. /\ Agents # {} /\ office.clerks \subseteq Clerks /\ office.agents \subseteq Agents
      /\ \A offer \in office.offers : offer.xp \in Int /\ offer.gold \in Int
  BY OfficeIs DEF EconomyInv, EconomyTypes
<1>t. /\ agents \in [office.agents -> Balances] /\ proc \in [Clerks -> Hand]
      /\ ledger \in [torn : BOOLEAN, rows : Seq(Entry)] /\ payrolls \in Nat /\ rolls \in Nat
  BY DEF EconomyInv, EconomyTypes
<1>i. (\A a \in office.agents : Sound(agents[a])) /\ \A o \in Clerks : ClerkInv(proc[o])
  BY DEF EconomyInv
<1>1. ASSUME NEW o \in Clerks, NEW a \in office.agents, NEW offer \in office.offers,
             Pay!StartCredit(o, a, offer)
      PROVE  Taking(o)
  <2>1. PICK h : h = ToCredit(agents[a], offer.xp, offer.gold)
    OBVIOUS
  <2>2. h \in Hand /\ h.seen = agents[a] /\ h.op = "award" /\ h.mission = 0
    BY <1>0, <1>t, <2>1, CreditHand
  <2>3. h.seen \in Balances /\ Sound(h.seen) /\ Checked(h)
    BY <1>t, <1>i, <2>2 DEF Checked
  <2>4. Pay!Begin(o, a, h)
    BY <1>1, <2>1 DEF Pay!StartCredit, ToCredit
  <2>5. QED
    BY <2>2, <2>3, <2>4, Begun
<1>2. ASSUME NEW o \in Clerks, NEW a \in office.agents, NEW d \in Pay!Domains,
             NEW points \in 1..Caps[d], Pay!StartTrain(o, a, d, points)
      PROVE  Taking(o)
  <2>1. PICK h : h = ToTrain(agents[a], d, points)
    OBVIOUS
  <2>2. points \in Nat
    BY DomainsAre
  <2>3. /\ h \in Hand /\ h.seen = agents[a] /\ h.op = "train" /\ h.on = d /\ h.xp = points
        /\ h.gold = 0 /\ h.mission = 0
    BY <1>0, <1>t, <2>1, <2>2, TrainHand
  <2>4. h.seen \in Balances /\ Sound(h.seen)
    BY <1>t, <1>i, <2>3
  <2>5. agents[a].total \in Nat /\ agents[a].assigned \in Nat
    BY <1>t DEF Balances
  <2>6. Checked(h)
    BY <1>2, <2>2, <2>3, <2>5 DEF Checked, Pay!StartTrain
  <2>7. Pay!Begin(o, a, h)
    BY <1>2, <2>1 DEF Pay!StartTrain, ToTrain
  <2>8. QED
    BY <2>3, <2>4, <2>6, <2>7, Begun
<1>3. ASSUME NEW o \in Clerks, NEW a \in office.agents, NEW t \in Tools, Pay!StartEquip(o, a, t)
      PROVE  Taking(o)
  <2>1. PICK h : h = ToEquip(agents[a], t, -Cost[t])
    OBVIOUS
  <2>2. -Cost[t] \in Int
    BY Tables
  <2>3. /\ h \in Hand /\ h.seen = agents[a] /\ h.op = "equip" /\ h.on = t /\ h.gold = -Cost[t]
        /\ h.mission = 0
    BY <1>0, <1>t, <2>1, <2>2, EquipHand
  <2>4. h.seen \in Balances /\ Sound(h.seen)
    BY <1>t, <1>i, <2>3
  <2>5. Checked(h)
    BY <1>3, <2>3 DEF Checked, Pay!StartEquip
  <2>6. Pay!Begin(o, a, h)
    BY <1>3, <2>1 DEF Pay!StartEquip, ToEquip
  <2>7. QED
    BY <2>3, <2>4, <2>5, <2>6, Begun
<1>4. ASSUME NEW o \in Clerks, NEW a \in office.agents, Pay!StartReroll(o, a) PROVE Taking(o)
  <2>1. PICK roll \in Pay!Rerolled(agents[a]) :
          Pay!Begin(o, a, [Pay!Free EXCEPT !.op = "reroll", !.seen = roll])
    BY <1>4 DEF Pay!StartReroll
  <2>2. roll \in Balances /\ Sound(roll) /\ (Ranked(agents[a]) => Ranked(roll))
    BY <1>t, <1>i, RerolledIs
  <2>3. PICK h : h = ToReroll(roll)
    OBVIOUS
  <2>4. h \in Hand /\ h.seen = roll /\ h.op = "reroll" /\ h.gold = 0 /\ h.mission = 0
    BY <1>0, <2>2, <2>3, RerollHand
  <2>5. h.seen \in Balances /\ Sound(h.seen) /\ Checked(h)
    BY <2>2, <2>4 DEF Checked
  <2>6. Pay!Begin(o, a, h)
    BY <2>1, <2>3 DEF ToReroll
  <2>7. QED
    BY <2>2, <2>4, <2>5, <2>6, Begun
<1>5. ASSUME NEW o \in Clerks, NEW work \in [office.agents -> 0..MaxTasks], NEW complete \in BOOLEAN,
             Pay!StartPayroll(o, [a \in Agents |-> IF a \in office.agents THEN work[a] ELSE 0], complete)
      PROVE  Taking(o)
  <2>1. PICK w : w = [a \in Agents |-> IF a \in office.agents THEN work[a] ELSE 0]
    OBVIOUS
  <2>2. w \in [Agents -> Nat]
    BY <1>0, <2>1
  <2>3. PICK f : f = Pay!Free
    OBVIOUS
  <2>4. f \in Hand /\ f.op = "award"
    BY <1>0, <2>3, FreeIs
  <2>5. PICK h : h = [f EXCEPT !.pc = "payroll", !.mission = payrolls + 1, !.complete = complete, !.work = w]
    OBVIOUS
  <2>6. h.pc = "payroll" /\ h.op = "award"
    BY <2>4, <2>5 DEF Hand
  <2>7. h \in Hand
    <3>1. PICK m \in Nat : m = payrolls + 1
      BY <1>t
    <3>2. h = [pc |-> "payroll", agent |-> f.agent, seen |-> f.seen, op |-> f.op, on |-> f.on,
               xp |-> f.xp, gold |-> f.gold, rows |-> f.rows, mission |-> m,
               complete |-> complete, work |-> w]
      BY <2>4, <2>5, <3>1 DEF Hand
    <3>3. QED
      BY <2>2, <2>4, <3>2 DEF Hand
  <2>8. ClerkInv(h)
    BY <2>6 DEF ClerkInv, WithCopy
  <2>9. proc[o].pc = "free" /\ proc' = [proc EXCEPT ![o] = h] /\ payrolls' = payrolls + 1
        /\ UNCHANGED <<agents, ledger, office, rolls>>
    BY <1>5, <2>1, <2>3, <2>5 DEF Pay!StartPayroll, Pay!At
  <2>10. Into(o, h)
    BY <1>t, <2>8, <2>9 DEF Into
  <2>11. QED
    BY <2>6, <2>7, <2>9, <2>10 DEF Taking, Idle
<1>6. ASSUME NEW o \in Clerks, NEW a \in office.agents, Pay!PayNext(o, a) PROVE Taking(o)
  <2>1. PICK me : me = proc[o]
    OBVIOUS
  <2>2. me \in Hand /\ me.pc = "payroll" /\ ClerkInv(me)
    BY <1>t, <1>i, <1>6, <2>1 DEF Pay!PayNext, Pay!At
  <2>3. PICK xp \in Int, gold \in Int, w \in [Agents -> Nat] :
          proc' = [proc EXCEPT ![o] = [me EXCEPT !.pc = "saving", !.agent = a, !.seen = agents[a],
                                         !.work = w, !.xp = xp, !.gold = gold]]
    <3>1. me.work \in [Agents -> Nat] /\ a \in Agents
      BY <1>0, <2>2 DEF Hand
    <3>2. /\ me.work[a] * XpPerTask + (IF me.complete THEN MissionBonusXp ELSE 0) \in Int
          /\ me.work[a] * GoldPerTask + (IF me.complete THEN MissionBonusGold ELSE 0) \in Int
      BY <3>1, Rates
    <3>3. [me.work EXCEPT ![a] = 0] \in [Agents -> Nat]
      BY <3>1
    <3>4. QED
      BY <1>6, <2>1, <3>2, <3>3 DEF Pay!PayNext
  <2>4. PICK s \in Balances : s = agents[a]
    BY <1>t
  <2>5. PICK h : h = [me EXCEPT !.pc = "saving", !.agent = a, !.seen = s, !.work = w, !.xp = xp, !.gold = gold]
    OBVIOUS
  <2>a. h = [pc |-> "saving", agent |-> a, seen |-> s, op |-> me.op, on |-> me.on, xp |-> xp,
             gold |-> gold, rows |-> me.rows, mission |-> me.mission, complete |-> me.complete,
             work |-> w]
    <3>1. PICK p1, p2, p3, p4, p5, p6, p7, p8, p9, p10, p11 :
            me = [pc |-> p1, agent |-> p2, seen |-> p3, op |-> p4, on |-> p5, xp |-> p6, gold |-> p7,
                  rows |-> p8, mission |-> p9, complete |-> p10, work |-> p11]
      BY <2>2 DEF Hand
    <3>2. QED
      BY <2>5, <3>1
  <2>6. h \in Hand
    BY <1>0, <2>2, <2>a DEF Hand, WithCopy
  <2>7. ClerkInv(h)
    BY <1>i, <2>2, <2>4, <2>a DEF ClerkInv, Checked, WithCopy
  <2>8. proc' = [proc EXCEPT ![o] = h] /\ UNCHANGED <<agents, ledger, office, payrolls, rolls>>
    BY <1>6, <2>3, <2>4, <2>5 DEF Pay!PayNext
  <2>9. Into(o, h)
    BY <1>t, <2>7, <2>8 DEF Into
  <2>10. h.op = "award" /\ h.pc = "saving" /\ h.agent = a /\ h.seen = agents[a]
    BY <2>2, <2>4, <2>a DEF ClerkInv
  <2>11. QED
    BY <2>1, <2>2, <2>6, <2>8, <2>9, <2>10 DEF Taking, Idle
<1>7. ASSUME NEW o \in Clerks, Pay!EndPayroll(o) \/ Pay!Crash(o) PROVE Taking(o) \/ Dying(o)
  <2>1. PICK h : h = Pay!Free
    OBVIOUS
  <2>2. h \in Hand /\ h.pc = "free" /\ ClerkInv(h)
    BY <1>0, <2>1, FreeIs
  <2>3. proc' = [proc EXCEPT ![o] = h] /\ UNCHANGED <<agents, ledger, office, payrolls, rolls>>
    BY <1>7, <2>1 DEF Pay!EndPayroll, Pay!Crash
  <2>4. Into(o, h)
    BY <1>t, <2>2, <2>3 DEF Into
  <2>5. CASE Pay!EndPayroll(o)
    BY <2>2, <2>3, <2>4, <2>5 DEF Taking, Idle, Pay!EndPayroll, Pay!At
  <2>6. CASE Pay!Crash(o)
    BY <2>2, <2>3, <2>4, <2>6 DEF Dying, Pay!Crash
  <2>7. QED
    BY <1>7, <2>5, <2>6
<1>8. ASSUME NEW o \in Clerks, Pay!Save(o) PROVE Saving(o)
  <2>1. PICK me : me = proc[o]
    OBVIOUS
  <2>2. me \in Hand /\ me.pc = "saving" /\ ClerkInv(me)
    BY <1>t, <1>i, <1>8, <2>1 DEF Pay!Save, Pay!At
  <2>3. me.agent \in office.agents
    BY <2>2 DEF ClerkInv, WithCopy
  <2>4. PICK r : r = Pay!Saved(me, agents[me.agent])
    OBVIOUS
  <2>5. /\ r \in Balances /\ Sound(r) /\ Pay!Owed(me) \in Int
        /\ me.op = "reroll" => Pay!Owed(me) = 0 /\ r = me.seen
        /\ me.op # "reroll" /\ me.seen = agents[me.agent] =>
             r.gold = agents[me.agent].gold + Pay!Owed(me) /\ (Ranked(agents[me.agent]) => Ranked(r))
    BY <1>t, <1>i, <2>2, <2>3, <2>4, SavedIs
  <2>6. agents' = [agents EXCEPT ![me.agent] = r] /\ UNCHANGED <<ledger, office, payrolls>>
    BY <1>8, <2>1, <2>4 DEF Pay!Save
  <2>7. rolls' = IF me.op = "reroll" THEN rolls + 1 ELSE rolls
    BY <1>8, <2>1 DEF Pay!Save
  <2>8. PICK h \in Hand : /\ ClerkInv(h) /\ proc' = [proc EXCEPT ![o] = h]
                         /\ IF Pay!Owed(me) = 0 THEN h.pc \in Idle
                            ELSE h.pc = "loading" /\ h.agent = me.agent /\ h.gold = Pay!Owed(me)
    <3>1. CASE Pay!Owed(me) = 0
      <4>1. Pay!After(me) \in Hand /\ ClerkInv(Pay!After(me)) /\ Pay!After(me).pc \in Idle
        BY <1>0, <2>2, AfterIs DEF WithCopy, Idle
      <4>2. QED
        BY <1>8, <2>1, <3>1, <4>1 DEF Pay!Save
    <3>2. CASE Pay!Owed(me) # 0
      <4>1. PICK owed \in Int : owed = Pay!Owed(me)
        BY <2>5
      <4>2. PICK k : k = [me EXCEPT !.pc = "loading", !.gold = owed]
        OBVIOUS
      <4>3. k \in Hand /\ k.pc = "loading" /\ k.agent = me.agent /\ k.seen = me.seen /\ k.op = me.op
            /\ k.mission = me.mission /\ k.gold = owed
        BY <2>2, <4>2 DEF Hand, WithCopy
      <4>4. ClerkInv(k)
        BY <2>2, <4>3 DEF ClerkInv, WithCopy
      <4>5. QED
        BY <1>8, <2>1, <3>2, <4>1, <4>2, <4>3, <4>4 DEF Pay!Save
    <3>3. QED
      BY <3>1, <3>2
  <2>9. Into(o, h)
    BY <1>t, <2>6, <2>8 DEF Into
  <2>10. QED
    BY <2>1, <2>2, <2>3, <2>5, <2>6, <2>7, <2>8, <2>9 DEF Saving
<1>9. ASSUME NEW o \in Clerks, Pay!LoadLedger(o) PROVE Loading(o)
  <2>1. PICK me : me = proc[o]
    OBVIOUS
  <2>2. me \in Hand /\ me.pc = "loading" /\ ClerkInv(me)
    BY <1>t, <1>i, <1>9, <2>1 DEF Pay!LoadLedger, Pay!At
  <2>3. PICK rs \in Seq(Entry) : rs = Pay!Loaded(ledger)
    <3>1. ledger.rows \in Seq(Entry) /\ <<>> \in Seq(Entry)
      BY <1>t
    <3>2. QED
      BY <3>1 DEF Pay!Loaded
  <2>4. PICK h : h = [me EXCEPT !.pc = "opening", !.rows = rs]
    OBVIOUS
  <2>5. h \in Hand /\ h.pc = "opening" /\ h.agent = me.agent /\ h.seen = me.seen /\ h.op = me.op
        /\ h.mission = me.mission /\ h.gold = me.gold /\ h.rows = rs
    BY <2>2, <2>4 DEF Hand, WithCopy
  <2>6. ClerkInv(h)
    BY <2>2, <2>5 DEF ClerkInv, WithCopy
  <2>7. proc' = [proc EXCEPT ![o] = h] /\ UNCHANGED <<agents, ledger, office, payrolls, rolls>>
    BY <1>t, <1>9, <2>1, <2>3, <2>4 DEF Pay!LoadLedger
  <2>8. Into(o, h)
    BY <1>t, <2>6, <2>7 DEF Into
  <2>9. QED
    BY <2>1, <2>2, <2>3, <2>5, <2>7, <2>8 DEF Loading
<1>10. ASSUME NEW o \in Clerks, Pay!OpenLedger(o) PROVE Opening(o)
  <2>1. PICK me : me = proc[o]
    OBVIOUS
  <2>2. me \in Hand /\ me.pc = "opening" /\ ClerkInv(me)
    BY <1>t, <1>i, <1>10, <2>1 DEF Pay!OpenLedger, Pay!At
  <2>3. PICK h : h = [me EXCEPT !.pc = "writing"]
    OBVIOUS
  <2>4. h \in Hand /\ h.pc = "writing" /\ h.agent = me.agent /\ h.seen = me.seen /\ h.op = me.op
        /\ h.mission = me.mission /\ h.gold = me.gold /\ h.rows = me.rows
    BY <2>2, <2>3 DEF Hand, WithCopy
  <2>5. ClerkInv(h)
    BY <2>2, <2>4 DEF ClerkInv, WithCopy
  <2>6. /\ proc' = [proc EXCEPT ![o] = h] /\ UNCHANGED <<agents, office, payrolls, rolls>>
        /\ ledger' = [ledger EXCEPT !.torn = TRUE]
    BY <1>t, <1>10, <2>1, <2>3 DEF Pay!OpenLedger
  <2>7. Into(o, h)
    BY <1>t, <2>5, <2>6 DEF Into
  <2>8. QED
    BY <2>1, <2>2, <2>4, <2>6, <2>7 DEF Opening
<1>11. ASSUME NEW o \in Clerks, Pay!Credit(o) PROVE Crediting(o)
  <2>1. PICK me : me = proc[o]
    OBVIOUS
  <2>2. me \in Hand /\ me.pc = "crediting" /\ ClerkInv(me)
    BY <1>t, <1>i, <1>11, <2>1 DEF Pay!Credit, Pay!At
  <2>3. PICK h : h = [me EXCEPT !.pc = "payroll"]
    OBVIOUS
  <2>4. h \in Hand /\ h.pc = "payroll" /\ h.op = me.op
    BY <2>2, <2>3 DEF Hand, WithCopy
  <2>5. ClerkInv(h)
    BY <2>2, <2>4 DEF ClerkInv, WithCopy
  <2>6. me.agent \in office.agents /\ me.seen \in Balances
    BY <2>2 DEF ClerkInv, WithCopy
  <2>7. PICK n \in Nat : n = me.seen.done + 1
    BY <2>6 DEF Balances
  <2>8. PICK r : r = [agents[me.agent] EXCEPT !.done = n]
    OBVIOUS
  <2>9. r \in Balances /\ Sound(r) /\ r.gold = agents[me.agent].gold
        /\ (Ranked(agents[me.agent]) => Ranked(r))
    <3>1. agents[me.agent] \in Balances /\ Sound(agents[me.agent])
      BY <1>t, <1>i, <2>6
    <3>2. r \in Balances /\ r.skill = agents[me.agent].skill /\ r.lost = agents[me.agent].lost
          /\ r.assigned = agents[me.agent].assigned /\ r.gold = agents[me.agent].gold
          /\ r.born = agents[me.agent].born /\ r.rank = agents[me.agent].rank
          /\ r.total = agents[me.agent].total
      BY <2>7, <2>8, <3>1 DEF Balances
    <3>3. QED
      BY <3>1, <3>2 DEF Sound, Ranked
  <2>10. /\ proc' = [proc EXCEPT ![o] = h] /\ UNCHANGED <<ledger, office, payrolls, rolls>>
         /\ agents' = [agents EXCEPT ![me.agent] = r]
    BY <1>t, <1>11, <2>1, <2>3, <2>7, <2>8 DEF Pay!Credit
  <2>11. Into(o, h)
    BY <1>t, <2>5, <2>10 DEF Into
  <2>12. QED
    BY <2>1, <2>2, <2>4, <2>6, <2>9, <2>10, <2>11 DEF Crediting
<1>12. ASSUME NEW o \in Clerks, Pay!WriteLedger(o) PROVE Writing(o)
  <2>1. PICK me : me = proc[o]
    OBVIOUS
  <2>2. me \in Hand /\ me.pc = "writing" /\ ClerkInv(me)
    BY <1>t, <1>i, <1>12, <2>1 DEF Pay!WriteLedger, Pay!At
  <2>3. PICK h : h = Pay!After(me)
    OBVIOUS
  <2>4. h \in Hand /\ ClerkInv(h) /\ h.pc \in Idle
    BY <1>0, <2>2, <2>3, AfterIs DEF WithCopy, Idle
  <2>5. me.rows \in Seq(Entry) /\ me.agent \in Agents /\ me.gold \in Int /\ me.mission \in Nat
    BY <2>2 DEF Hand
  <2>6. PICK entry : entry = [id |-> Pay!NextId(me.rows), agent |-> me.agent, amount |-> me.gold,
                              mission |-> me.mission]
    OBVIOUS
  <2>7. entry \in Entry /\ entry.agent = me.agent /\ entry.amount = me.gold
    BY <2>5, <2>6, NextIdIs DEF Entry
  <2>8. /\ proc' = [proc EXCEPT ![o] = h] /\ UNCHANGED <<agents, office, payrolls, rolls>>
        /\ ledger' = [torn |-> FALSE, rows |-> Append(me.rows, entry)]
    BY <1>12, <2>1, <2>3, <2>6 DEF Pay!WriteLedger
  <2>9. Into(o, h)
    BY <1>t, <2>4, <2>8 DEF Into
  <2>10. QED
    BY <2>1, <2>2, <2>4, <2>5, <2>7, <2>8, <2>9 DEF Writing
<1>13. QED
  BY <1>0, <1>1, <1>2, <1>3, <1>4, <1>5, <1>6, <1>7, <1>8, <1>9, <1>10, <1>11, <1>12 DEF Pay!Next
\* Each of them keeps the invariant.
LEMMA EconomyStep ==
  ASSUME EconomyInv, Pay!Next
  PROVE  EconomyInv'
<1>1. office.clerks \subseteq Clerks
  BY OfficeIs DEF EconomyInv, EconomyTypes
<1>2. /\ ledger \in [torn : BOOLEAN, rows : Seq(Entry)] /\ rolls \in Nat
      /\ agents \in [office.agents -> Balances]
  BY DEF EconomyInv, EconomyTypes
<1>3. ASSUME NEW o \in Clerks, Taking(o) \/ Loading(o) \/ Dying(o) PROVE EconomyInv'
  <2>1. PICK h \in Hand : Into(o, h) /\ UNCHANGED <<agents, ledger, rolls>>
    BY <1>3 DEF Taking, Loading, Dying
  <2>2. QED
    BY <1>2, <2>1, EconomyMoves DEF Into
<1>4. ASSUME NEW o \in Clerks, Opening(o) PROVE EconomyInv'
  <2>1. PICK h \in Hand : /\ Into(o, h) /\ UNCHANGED <<agents, rolls>>
                         /\ ledger' = [ledger EXCEPT !.torn = TRUE]
    BY <1>4 DEF Opening
  <2>2. ledger' \in [torn : BOOLEAN, rows : Seq(Entry)]
    BY <1>2, <2>1
  <2>3. QED
    BY <1>2, <2>1, <2>2, EconomyMoves DEF Into
<1>5. ASSUME NEW o \in Clerks, Writing(o) PROVE EconomyInv'
  <2>1. PICK h \in Hand, entry \in Entry :
          /\ Into(o, h) /\ proc[o].rows \in Seq(Entry) /\ UNCHANGED <<agents, rolls>>
          /\ ledger' = [torn |-> FALSE, rows |-> Append(proc[o].rows, entry)]
    BY <1>5 DEF Writing
  <2>2. Append(proc[o].rows, entry) \in Seq(Entry)
    BY <2>1
  <2>3. ledger' \in [torn : BOOLEAN, rows : Seq(Entry)]
    BY <2>1, <2>2
  <2>4. QED
    BY <1>2, <2>1, <2>3, EconomyMoves DEF Into
<1>6. ASSUME NEW o \in Clerks, Saving(o) \/ Crediting(o) PROVE EconomyInv'
  <2>1. PICK h \in Hand, a \in office.agents, r \in Balances :
          Into(o, h) /\ Sound(r) /\ agents' = [agents EXCEPT ![a] = r] /\ ledger' = ledger
    BY <1>6 DEF Saving, Crediting
  <2>2. rolls' \in Nat
    <3>1. CASE Saving(o)
      <4>1. proc[o].op = "reroll" \/ proc[o].op # "reroll"
        OBVIOUS
      <4>2. QED
        BY <1>2, <3>1, <4>1 DEF Saving
    <3>2. CASE Crediting(o)
      BY <1>2, <3>2 DEF Crediting
    <3>3. QED
      BY <1>6, <3>1, <3>2
  <2>3. QED
    BY <1>2, <2>1, <2>2, EconomyMoves DEF Into
<1>7. QED
  BY <1>1, <1>3, <1>4, <1>5, <1>6, Forms


(* The economy is one half of the mission, which the other half leaves alone. *)
LEMMA PartsPay == PartsSpec => Pay!Spec
<1>1. PartsInit => Pay!Init
  BY DEF PartsInit
<1>2. [PartsNext]_<<part, pay, vars>> => [Pay!Next]_Pay!vars
  BY DEF PartsNext, pay, Pay!vars
<1>3. QED
  BY <1>1, <1>2, PTL DEF PartsSpec, Pay!Spec

(* However many clerks race and whoever of them dies, the records stay typed *)
(* and sound: train, equip, award, reroll and credit write fields of one     *)
(* copy that fit together.                                                   *)
THEOREM EconomyInvHolds == PartsSpec => []EconomyInv
<1>1. EconomyInv /\ [Pay!Next]_Pay!vars => EconomyInv'
  <2> SUFFICES ASSUME EconomyInv, [Pay!Next]_Pay!vars PROVE EconomyInv'
    OBVIOUS
  <2>1. CASE Pay!Next
    BY <2>1, EconomyStep
  <2>2. CASE UNCHANGED Pay!vars
    BY <2>2 DEF Pay!vars, EconomyInv, EconomyTypes, ClerkInv
  <2>3. QED
    BY <2>1, <2>2
<1>2. QED
  BY <1>1, EconomyInit, PartsPay, PTL DEF Pay!Spec
-----------------------------------------------------------------------------
(***************************************************************************)
(* One clerk at a time, and none dies: what it read is what is stored, the *)
(* ledger it loaded is the ledger, and what it still owes the ledger was   *)
(* moved already.                                                          *)
(***************************************************************************)
Owing == {"loading", "opening", "writing"}
Current(me, recs, file) ==
  /\ me.pc = "saving" => IF me.op = "reroll" THEN Ranked(me.seen) ELSE me.seen = recs[me.agent]
  /\ me.pc \in Owing => me.gold # 0 /\ recs[me.agent].gold - me.gold \in Nat
  /\ me.pc \in {"opening", "writing"} => me.rows = file.rows
  /\ file.torn = (me.pc = "writing")
Solo(o) == /\ \A a \in office.agents : Ranked(agents[a])
           /\ Current(proc[o], agents, ledger)
SoloInv == Pay!Alone => \A o \in office.clerks : Solo(o)

\* The gold of an account as far as the ledger tells, and what a step does to
\* the accounts, the ledger and the dice: nothing, an entered movement, a roll.
Net(o, a) == agents[a].gold - (IF proc[o].pc \in Owing /\ proc[o].agent = a THEN proc[o].gold ELSE 0)
Stays(o, a) == Net(o, a)' = Net(o, a)
Still(o) == /\ \A a \in office.agents : Stays(o, a)
            /\ ledger'.rows = ledger.rows /\ rolls' = rolls
Moves(o) == \E a \in office.agents, entry \in Entry :
  /\ Net(o, a)' = Net(o, a) + entry.amount /\ entry.amount # 0 /\ Net(o, a)' \in Nat
  /\ entry.agent = a /\ ledger'.rows = Append(ledger.rows, entry)
  /\ (\A b \in office.agents \ {a} : Stays(o, b)) /\ rolls' = rolls
Rolls(o) == \E a \in office.agents :
  /\ Net(o, a)' \in Nat /\ (\A b \in office.agents \ {a} : Stays(o, b))
  /\ ledger'.rows = ledger.rows /\ rolls' = rolls + 1

LEMMA SoloStep ==
  ASSUME EconomyInv, NEW o, office.clerks = {o}, ~office.crashes, Solo(o), Pay!Next
  PROVE  Solo(o)' /\ (Still(o) \/ Moves(o) \/ Rolls(o))
<1>t. /\ o \in Clerks /\ proc \in [Clerks -> Hand] /\ agents \in [office.agents -> Balances]
      /\ ledger \in [torn : BOOLEAN, rows : Seq(Entry)] /\ ClerkInv(proc[o])
  BY OfficeIs DEF EconomyInv, EconomyTypes
<1>g. /\ \A a \in office.agents : agents[a].gold \in Nat
      /\ proc[o].gold \in Int
  BY <1>t DEF Hand, Balances
<1>s. (\A a \in office.agents : Ranked(agents[a])) /\ Current(proc[o], agents, ledger)
  BY DEF Solo
<1>h. ASSUME NEW h \in Hand, Into(o, h) PROVE proc'[o] = h /\ office' = office
  BY <1>t, <1>h DEF Into
<1>r. ASSUME NEW a \in office.agents, NEW r \in Balances, agents' = [agents EXCEPT ![a] = r]
      PROVE  agents'[a] = r /\ \A b \in office.agents \ {a} : agents'[b] = agents[b]
  BY <1>t, <1>r
<1>1. CASE Taking(o)
  <2>1. PICK h \in Hand :
          /\ Into(o, h) /\ proc[o].pc \in Idle /\ h.pc \in Idle \union {"saving"}
          /\ h.pc = "saving" =>
               IF h.op = "reroll" THEN Ranked(agents[h.agent]) => Ranked(h.seen)
               ELSE h.seen = agents[h.agent]
          /\ UNCHANGED <<agents, ledger, rolls>>
    BY <1>1 DEF Taking
  <2>2. proc'[o] = h /\ office' = office /\ ClerkInv(h)
    BY <1>h, <2>1 DEF Into
  <2>3. Current(h, agents, ledger)
    <3>1. h.pc = "saving" => h.agent \in office.agents
      BY <2>2 DEF ClerkInv, WithCopy
    <3>2. h.pc = "saving" => IF h.op = "reroll" THEN Ranked(h.seen) ELSE h.seen = agents[h.agent]
      BY <1>s, <2>1, <3>1
    <3>3. h.pc \notin Owing /\ h.pc # "writing" /\ ~ledger.torn
      BY <1>s, <2>1 DEF Current, Idle, Owing
    <3>4. QED
      BY <1>t, <3>2, <3>3 DEF Current, Owing
  <2>4. Solo(o)'
    BY <1>s, <2>1, <2>2, <2>3 DEF Solo
  <2>5. Still(o)
    BY <2>1, <2>2 DEF Still, Stays, Net, Idle, Owing
  <2>6. QED
    BY <2>4, <2>5
<1>2. CASE Loading(o)
  <2>1. PICK h \in Hand :
          /\ Into(o, h) /\ proc[o].pc = "loading" /\ h.pc = "opening"
          /\ h.agent = proc[o].agent /\ h.gold = proc[o].gold /\ h.rows = Pay!Loaded(ledger)
          /\ UNCHANGED <<agents, ledger, rolls>>
    BY <1>2 DEF Loading
  <2>2. proc'[o] = h /\ office' = office
    BY <1>h, <2>1
  <2>3. ~ledger.torn /\ h.rows = ledger.rows
    BY <1>s, <2>1 DEF Current, Pay!Loaded
  <2>4. Current(h, agents, ledger)
    BY <1>s, <1>t, <2>1, <2>3 DEF Current, Owing
  <2>5. Solo(o)'
    BY <1>s, <2>1, <2>2, <2>4 DEF Solo
  <2>6. Still(o)
    BY <2>1, <2>2 DEF Still, Stays, Net, Owing
  <2>7. QED
    BY <2>5, <2>6
<1>3. CASE Opening(o)
  <2>1. PICK h \in Hand :
          /\ Into(o, h) /\ proc[o].pc = "opening" /\ h.pc = "writing"
          /\ h.agent = proc[o].agent /\ h.gold = proc[o].gold /\ h.rows = proc[o].rows
          /\ ledger' = [ledger EXCEPT !.torn = TRUE] /\ UNCHANGED <<agents, rolls>>
    BY <1>3 DEF Opening
  <2>2. proc'[o] = h /\ office' = office
    BY <1>h, <2>1
  <2>3. ledger'.torn = TRUE /\ ledger'.rows = ledger.rows
    BY <1>t, <2>1
  <2>4. Current(h, agents, ledger')
    BY <1>s, <1>t, <2>1, <2>3 DEF Current, Owing
  <2>5. Solo(o)'
    BY <1>s, <2>1, <2>2, <2>4 DEF Solo
  <2>6. Still(o)
    BY <2>1, <2>2, <2>3 DEF Still, Stays, Net, Owing
  <2>7. QED
    BY <2>5, <2>6
<1>4. CASE Writing(o)
  <2>1. PICK h \in Hand, entry \in Entry :
          /\ Into(o, h) /\ proc[o].pc = "writing" /\ h.pc \in Idle
          /\ entry.agent = proc[o].agent /\ entry.amount = proc[o].gold
          /\ ledger' = [torn |-> FALSE, rows |-> Append(proc[o].rows, entry)]
          /\ proc[o].rows \in Seq(Entry) /\ UNCHANGED <<agents, rolls>>
    BY <1>4 DEF Writing
  <2>2. proc'[o] = h /\ office' = office
    BY <1>h, <2>1
  <2>3. /\ ledger'.torn = FALSE /\ ledger'.rows = Append(ledger.rows, entry)
        /\ proc[o].gold # 0 /\ agents[proc[o].agent].gold - proc[o].gold \in Nat
    BY <1>s, <2>1 DEF Current, Owing
  <2>4. Current(h, agents, ledger')
    BY <2>1, <2>3 DEF Current, Idle, Owing
  <2>5. Solo(o)'
    BY <1>s, <2>1, <2>2, <2>4 DEF Solo
  <2>6. proc[o].agent \in office.agents
    BY <1>t, <2>1 DEF ClerkInv, WithCopy
  <2>7. Moves(o)
    <3>1. PICK a \in office.agents : a = proc[o].agent
      BY <2>6
    <3>2. Net(o, a)' = agents[a].gold /\ Net(o, a) = agents[a].gold - proc[o].gold
      BY <1>g, <2>1, <2>2, <3>1 DEF Net, Idle, Owing
    <3>3. Net(o, a)' = Net(o, a) + entry.amount /\ entry.amount # 0 /\ Net(o, a)' \in Nat
      BY <1>g, <2>1, <2>3, <3>1, <3>2
    <3>4. \A b \in office.agents \ {a} : Stays(o, b)
      BY <2>1, <2>2, <3>1 DEF Stays, Net, Idle, Owing
    <3>5. QED
      BY <2>1, <2>3, <3>1, <3>3, <3>4 DEF Moves
  <2>8. QED
    BY <2>5, <2>7
<1>5. CASE Crediting(o)
  <2>1. PICK h \in Hand, a \in office.agents, r \in Balances :
          /\ Into(o, h) /\ proc[o].pc = "crediting" /\ h.pc = "payroll"
          /\ agents' = [agents EXCEPT ![a] = r]
          /\ r.gold = agents[a].gold /\ (Ranked(agents[a]) => Ranked(r))
          /\ UNCHANGED <<ledger, rolls>>
    BY <1>5 DEF Crediting
  <2>2. proc'[o] = h /\ office' = office /\ agents'[a] = r
        /\ \A b \in office.agents \ {a} : agents'[b] = agents[b]
    BY <1>h, <1>r, <2>1
  <2>3. Current(h, agents', ledger)
    BY <1>s, <2>1 DEF Current, Owing
  <2>4. Solo(o)'
    BY <1>s, <2>1, <2>2, <2>3 DEF Solo
  <2>5. Still(o)
    BY <2>1, <2>2 DEF Still, Stays, Net, Owing
  <2>6. QED
    BY <2>4, <2>5
<1>6. CASE Saving(o)
  <2> DEFINE me == proc[o]
             owed == Pay!Owed(me)
  <2>1. PICK h \in Hand, r \in Balances :
          /\ Into(o, h) /\ me.pc = "saving" /\ me.agent \in office.agents
          /\ agents' = [agents EXCEPT ![me.agent] = r] /\ ledger' = ledger /\ owed \in Int
          /\ me.op = "reroll" => r = me.seen /\ owed = 0 /\ rolls' = rolls + 1
          /\ me.op # "reroll" =>
               /\ rolls' = rolls
               /\ me.seen = agents[me.agent] => /\ r.gold = agents[me.agent].gold + owed
                                                /\ Ranked(agents[me.agent]) => Ranked(r)
          /\ IF owed = 0 THEN h.pc \in Idle
             ELSE h.pc = "loading" /\ h.agent = me.agent /\ h.gold = owed
    BY <1>6 DEF Saving
  <2>2. proc'[o] = h /\ office' = office
    BY <1>h, <2>1
  <2>3. PICK a \in office.agents : a = me.agent
    BY <2>1
  <2>4. agents'[a] = r /\ (\A b \in office.agents \ {a} : agents'[b] = agents[b])
    BY <1>r, <2>1, <2>3
  <2>5. ~ledger.torn /\ (IF me.op = "reroll" THEN Ranked(me.seen) ELSE me.seen = agents[a])
    BY <1>s, <2>1, <2>3 DEF Current
  <2>6. Ranked(r) /\ r.gold \in Nat
    BY <1>s, <2>1, <2>3, <2>5 DEF Balances
  <2>7. me.op # "reroll" => r.gold = agents[a].gold + owed
    BY <2>1, <2>3, <2>5
  <2>8. Current(h, agents', ledger)
    <3>1. CASE owed = 0
      BY <1>t, <2>1, <2>5, <3>1 DEF Current, Idle, Owing
    <3>2. CASE owed # 0
      <4>1. h.pc = "loading" /\ h.agent = a /\ h.gold = owed /\ me.op # "reroll"
        BY <2>1, <2>3, <3>2
      <4>2. agents'[h.agent].gold - h.gold \in Nat
        BY <1>g, <2>1, <2>4, <2>7, <4>1
      <4>3. QED
        BY <1>t, <2>5, <3>2, <4>1, <4>2 DEF Current, Owing
    <3>3. QED
      BY <3>1, <3>2
  <2>9. Solo(o)'
    <3>1. \A b \in office.agents : Ranked(agents'[b])
      BY <1>s, <2>4, <2>6
    <3>2. QED
      BY <2>1, <2>2, <2>8, <3>1 DEF Solo
  <2>10. \A b \in office.agents \ {a} : Stays(o, b)
    BY <2>1, <2>2, <2>3, <2>4 DEF Stays, Net, Idle, Owing
  <2>11. CASE me.op = "reroll"
    <3>1. Net(o, a)' = r.gold
      BY <2>1, <2>2, <2>3, <2>4, <2>6, <2>11 DEF Net, Idle, Owing
    <3>2. Rolls(o)
      BY <2>1, <2>6, <2>10, <2>11, <3>1 DEF Rolls
    <3>3. QED
      BY <2>9, <3>2
  <2>12. CASE me.op # "reroll"
    <3>1. Net(o, a) = agents[a].gold
      BY <1>g, <2>1 DEF Net, Owing
    <3>2. Net(o, a)' = r.gold - owed
      BY <2>1, <2>2, <2>3, <2>4, <2>6 DEF Net, Idle, Owing
    <3>3. Stays(o, a)
      BY <1>g, <2>1, <2>7, <2>12, <3>1, <3>2 DEF Stays
    <3>4. Still(o)
      BY <2>1, <2>10, <2>12, <3>3 DEF Still
    <3>5. QED
      BY <2>9, <3>4
  <2>13. QED
    BY <2>11, <2>12
<1>7. QED
  BY <1>1, <1>2, <1>3, <1>4, <1>5, <1>6, Forms DEF Dying

LEMMA AloneIs ==
  ASSUME office \in Offices, Pay!Alone
  PROVE  ~office.crashes /\ \E o : office.clerks = {o}
<1>1. IsFiniteSet(office.clerks)
  BY OfficeIs
<1>2. Cardinality(office.clerks) = 1 /\ ~office.crashes
  BY DEF Pay!Alone, Pay!Cardinality, Cardinality
<1>3. QED
  BY <1>1, <1>2, FS_Singleton

LEMMA SoloInit == Pay!Init => SoloInv
<1> SUFFICES ASSUME Pay!Init, NEW o \in office.clerks PROVE Solo(o)
  BY DEF SoloInv
<1>1. office \in Offices /\ o \in Clerks /\ Agents # {}
  BY OfficeIs DEF Pay!Init
<1>2. \A a \in office.agents : Ranked(agents[a])
  BY RecruitsAre DEF Pay!Init
<1>3. proc[o].pc = "free" /\ ledger.torn = FALSE
  BY <1>1, FreeIs DEF Pay!Init
<1>4. Current(proc[o], agents, ledger)
  BY <1>3 DEF Current, Owing
<1>5. QED
  BY <1>2, <1>4 DEF Solo

(* SoloInv: one clerk at a time and none dying, what a clerk is about to     *)
(* save was computed from the record as it is stored, and what it is about   *)
(* to write from the ledger as it is.                                        *)
THEOREM SoloInvHolds == PartsSpec => []SoloInv
<1>1. EconomyInv /\ SoloInv /\ [Pay!Next]_Pay!vars => SoloInv'
  <2> SUFFICES ASSUME EconomyInv, SoloInv, [Pay!Next]_Pay!vars, Pay!Alone', NEW o \in office'.clerks
               PROVE  Solo(o)'
    BY DEF SoloInv
  <2>1. CASE Pay!Next
    <3>1. office' = office
      BY <2>1, Forms DEF Taking, Saving, Loading, Opening, Writing, Crediting, Dying, Into
    <3>2. Pay!Alone /\ o \in office.clerks
      BY <3>1 DEF Pay!Alone
    <3>3. ~office.crashes /\ office.clerks = {o}
      BY <3>2, AloneIs DEF EconomyInv, EconomyTypes
    <3>4. QED
      BY <2>1, <3>2, <3>3, SoloStep DEF SoloInv
  <2>2. CASE UNCHANGED Pay!vars
    <3>1. office' = office /\ agents' = agents /\ proc' = proc /\ ledger' = ledger
      BY <2>2 DEF Pay!vars
    <3>2. Pay!Alone
      BY <3>1 DEF Pay!Alone
    <3>3. Solo(o)
      BY <3>1, <3>2 DEF SoloInv
    <3>4. QED
      BY <3>1, <3>3 DEF Solo
  <2>3. QED
    BY <2>1, <2>2
<1>2. QED
  BY <1>1, EconomyInvHolds, SoloInit, PartsPay, PTL DEF Pay!Spec

(* PointsMatchRank: one grant per threshold crossed since the roll, for any  *)
(* ranks, rates and offers: apply_award compares with the rank held, which   *)
(* no penalty lowers.                                                        *)
THEOREM PointsMatchRankHolds == PartsSpec => []PointsMatchRank
<1>1. EconomyInv /\ SoloInv => PointsMatchRank
  <2> SUFFICES ASSUME EconomyInv, SoloInv, Pay!Alone, NEW a \in office.agents
               PROVE  agents[a].total = StartingPoints +
                        SkillPointsPerRank * Pay!Cardinality(
                          {t \in Thresholds : agents[a].born < t /\ t <= agents[a].rank})
    BY DEF PointsMatchRank, Pay!PointsMatchRank
  <2>1. PICK o : office.clerks = {o}
    BY AloneIs DEF EconomyInv, EconomyTypes
  <2>2. Ranked(agents[a])
    BY <2>1 DEF SoloInv, Solo
  <2>3. QED
    BY <2>2 DEF Ranked, Passed, Pay!Cardinality, Cardinality
<1>2. QED
  BY <1>1, EconomyInvHolds, SoloInvHolds, PTL

(* PointsInSkills: the points assigned are in the skills or were lost in a   *)
(* roll, whoever races and dies; alone, they were there to assign, if they   *)
(* were when the agent was seeded.                                           *)
THEOREM PointsInSkillsHolds ==
  ASSUME Budgeted
  PROVE  PartsSpec => []PointsInSkills
<1>1. EconomyInv /\ SoloInv => PointsInSkills
  <2> SUFFICES ASSUME EconomyInv, SoloInv, NEW a \in office.agents
               PROVE  /\ agents[a].assigned = Pay!Points(agents[a].skill) + agents[a].lost
                      /\ \A d \in Pay!Domains : agents[a].skill[d] <= Caps[d]
                      /\ Pay!Alone => agents[a].assigned <= agents[a].total
    BY DEF PointsInSkills, Pay!PointsInSkills
  <2>1. Sound(agents[a])
    BY DEF EconomyInv
  <2>2. ASSUME Pay!Alone PROVE agents[a].assigned <= agents[a].total
    <3>1. PICK o : office.clerks = {o}
      BY <2>2, AloneIs DEF EconomyInv, EconomyTypes
    <3>2. Ranked(agents[a])
      BY <2>2, <3>1 DEF SoloInv, Solo
    <3>3. QED
      BY <3>2 DEF Ranked
  <2>3. QED
    BY <2>1, <2>2 DEF Sound
<1>2. QED
  BY <1>1, EconomyInvHolds, SoloInvHolds, PTL

(***************************************************************************)
(* The economy, worked by one clerk, implements the Bank: an account is    *)
(* worth its gold less what the ledger does not tell yet.                  *)
(***************************************************************************)
Accounts == [a \in Agents |-> IF Pay!Alone /\ a \in office.agents THEN Pay!Cleared(a) ELSE 0]
Book == IF ~Pay!Alone THEN <<>>
        ELSE [i \in DOMAIN ledger.rows |->
                [agent |-> ledger.rows[i].agent, amount |-> ledger.rows[i].amount]]
Rolled == IF Pay!Alone THEN rolls ELSE 0

LEMMA AccountsAre ==
  ASSUME NEW o, office.clerks = {o}
  PROVE  \A a : Pay!Cleared(a) = Net(o, a)
<1>1. Pay!TheClerk = o
  BY DEF Pay!TheClerk
<1>2. QED
  BY <1>1 DEF Pay!Cleared, Pay!Entering, Net, Owing

LEMMA AccountsAreNext ==
  ASSUME NEW o, office'.clerks = {o}
  PROVE  \A a : Pay!Cleared(a)' = Net(o, a)'
<1>1. Pay!TheClerk' = o
  BY DEF Pay!TheClerk
<1>2. QED
  BY <1>1 DEF Pay!Cleared, Pay!Entering, Net, Owing

LEMMA BankInit == Pay!Init => Pay!B!Init
<1> SUFFICES ASSUME Pay!Init PROVE Pay!B!Init
  OBVIOUS
<1>1. EconomyInv /\ SoloInv
  BY EconomyInit, SoloInit
<1>2. Accounts \in [Agents -> Nat]
  <2> SUFFICES ASSUME Pay!Alone, NEW a \in office.agents PROVE Pay!Cleared(a) \in Nat
    BY DEF Accounts
  <2>1. PICK o : office.clerks = {o}
    BY AloneIs DEF Pay!Init
  <2>2. o \in Clerks /\ Agents # {}
    BY <2>1, OfficeIs DEF Pay!Init
  <2>3. proc[o].pc = "free"
    BY <2>2, FreeIs DEF Pay!Init
  <2>4. agents[a].gold \in Nat
    BY <1>1 DEF EconomyInv, EconomyTypes, Balances
  <2>5. Net(o, a) \in Nat
    BY <2>3, <2>4 DEF Net, Owing
  <2>6. QED
    BY <2>1, <2>5, AccountsAre
<1>3. Book = <<>>
  BY DEF Book, Pay!Init
<1>4. Rolled = 0
  BY DEF Rolled, Pay!Init
<1>5. QED
  BY <1>2, <1>3, <1>4 DEF Pay!B!Init, Accounts, Book, Rolled

LEMMA BankStep ==
  ASSUME EconomyInv, SoloInv, [Pay!Next]_Pay!vars
  PROVE  [Pay!B!Next]_<<Accounts, Book, Rolled>>
<1>1. office' = office /\ Pay!Alone' = Pay!Alone
  <2>1. office' = office
    BY Forms DEF Taking, Saving, Loading, Opening, Writing, Crediting, Dying, Into, Pay!vars
  <2>2. QED
    BY <2>1 DEF Pay!Alone
<1>2. CASE ~Pay!Alone
  BY <1>1, <1>2 DEF Accounts, Book, Rolled
<1>3. CASE UNCHANGED Pay!vars
  <2>1. UNCHANGED <<agents, ledger, proc, office, rolls>>
    BY <1>3 DEF Pay!vars
  <2>2. Pay!TheClerk' = Pay!TheClerk
    BY <2>1 DEF Pay!TheClerk
  <2>3. \A a : Pay!Cleared(a)' = Pay!Cleared(a)
    BY <2>1, <2>2 DEF Pay!Cleared, Pay!Entering
  <2>4. QED
    BY <1>1, <2>1, <2>3 DEF Accounts, Book, Rolled
<1>4. CASE Pay!Alone /\ Pay!Next
  <2>1. PICK o : office.clerks = {o} /\ ~office.crashes
    BY <1>4, AloneIs DEF EconomyInv, EconomyTypes
  <2>2. Still(o) \/ Moves(o) \/ Rolls(o)
    BY <1>4, <2>1, SoloStep DEF SoloInv
  <2>3. /\ Accounts = [a \in Agents |-> IF a \in office.agents THEN Net(o, a) ELSE 0]
        /\ Accounts' = [a \in Agents |-> IF a \in office.agents THEN Net(o, a)' ELSE 0]
    BY <1>1, <1>4, <2>1, AccountsAre, AccountsAreNext DEF Accounts
  <2>4. /\ Book = [i \in DOMAIN ledger.rows |->
                     [agent |-> ledger.rows[i].agent, amount |-> ledger.rows[i].amount]]
        /\ Book' = [i \in DOMAIN ledger'.rows |->
                     [agent |-> ledger'.rows[i].agent, amount |-> ledger'.rows[i].amount]]
        /\ Rolled = rolls /\ Rolled' = rolls'
    BY <1>1, <1>4 DEF Book, Rolled
  <2>5. office.agents \subseteq Agents
    BY OfficeIs DEF EconomyInv, EconomyTypes
  <2>6. CASE Still(o)
    BY <2>3, <2>4, <2>6 DEF Still, Stays
  <2>7. ASSUME NEW a \in office.agents
        PROVE  Accounts'[a] = Net(o, a)' /\ Accounts[a] = Net(o, a) /\ a \in Agents
    BY <2>3, <2>5
  <2>8. CASE Rolls(o)
    <3>1. PICK a \in office.agents :
            /\ Net(o, a)' \in Nat /\ (\A b \in office.agents \ {a} : Stays(o, b))
            /\ ledger'.rows = ledger.rows /\ rolls' = rolls + 1
      BY <2>8 DEF Rolls
    <3>2. Accounts' = [Accounts EXCEPT ![a] = Accounts'[a]]
      BY <2>3, <2>7, <3>1 DEF Stays
    <3>3. Pay!B!Roll(a)
      BY <2>4, <2>7, <3>1, <3>2 DEF Pay!B!Roll, Accounts, Book, Rolled
    <3>4. QED
      BY <2>7, <3>3 DEF Pay!B!Next
  <2>9. CASE Moves(o)
    <3>1. PICK a \in office.agents, entry \in Entry :
            /\ Net(o, a)' = Net(o, a) + entry.amount /\ entry.amount # 0 /\ Net(o, a)' \in Nat
            /\ entry.agent = a /\ ledger'.rows = Append(ledger.rows, entry)
            /\ (\A b \in office.agents \ {a} : Stays(o, b)) /\ rolls' = rolls
      BY <2>9 DEF Moves
    <3>2. entry.amount = Accounts'[a] - Accounts[a] /\ Accounts'[a] \in Nat
      <4>1. o \in Clerks
        BY <2>1, OfficeIs DEF EconomyInv, EconomyTypes
      <4>2. agents[a].gold \in Nat /\ proc[o].gold \in Int
        BY <4>1 DEF EconomyInv, EconomyTypes, Balances, Hand
      <4>3. Net(o, a) \in Int /\ entry.amount \in Int
        BY <4>2 DEF Net, Entry
      <4>4. QED
        BY <2>7, <3>1, <4>3
    <3>3. Accounts' = [Accounts EXCEPT ![a] = Accounts[a] + entry.amount]
      BY <2>3, <2>7, <3>1 DEF Stays
    <3>4. Book' = Append(Book, [agent |-> a, amount |-> entry.amount])
      <4>1. ledger.rows \in Seq(Entry)
        BY DEF EconomyInv, EconomyTypes
      <4>2. PICK told : told = [agent |-> a, amount |-> entry.amount]
        OBVIOUS
      <4> DEFINE Telling(row) == [agent |-> row.agent, amount |-> row.amount]
                 n == Len(ledger.rows)
      <4>3. n \in Nat /\ DOMAIN ledger.rows = 1..n /\ DOMAIN ledger'.rows = 1..(n + 1)
            /\ \A i \in 1..(n + 1) : ledger'.rows[i] = IF i = n + 1 THEN entry ELSE ledger.rows[i]
        BY <3>1, <4>1
      <4>4. Telling(entry) = told
        BY <3>1, <4>2
      <4>5. Book = [i \in 1..n |-> Telling(ledger.rows[i])]
            /\ Book' = [i \in 1..(n + 1) |-> Telling(ledger'.rows[i])]
        BY <2>4, <4>3
      <4> HIDE DEF Telling
      <4>6. Book' = [i \in 1..(n + 1) |-> IF i = n + 1 THEN told ELSE Telling(ledger.rows[i])]
        BY <4>3, <4>4, <4>5
      <4>7. Append(Book, told) = [i \in 1..(n + 1) |-> IF i = n + 1 THEN told ELSE Telling(ledger.rows[i])]
        <5> DEFINE T == {Telling(ledger.rows[i]) : i \in 1..n} \union {told}
        <5>1. Book \in Seq(T) /\ Len(Book) = n
          BY <4>3, <4>5
        <5>2. \A i \in 1..n : Book[i] = Telling(ledger.rows[i])
          BY <4>3, <4>5
        <5>3. DOMAIN Append(Book, told) = 1..(n + 1)
              /\ \A i \in 1..(n + 1) : Append(Book, told)[i] = IF i = n + 1 THEN told ELSE Book[i]
          BY <4>3, <5>1
        <5> HIDE DEF T, n
        <5>4. Append(Book, told) \in [1..(n + 1) -> T]
          <6>1. told \in T
            BY DEF T
          <6>2. Append(Book, told) \in Seq(T) /\ Len(Append(Book, told)) = n + 1
            BY <5>1, <6>1
          <6>3. Append(Book, told) \in [1..Len(Append(Book, told)) -> T]
            BY <6>2, LenProperties
          <6>4. QED
            BY <6>2, <6>3
        <5>5. \A i \in 1..(n + 1) : Append(Book, told)[i] = IF i = n + 1 THEN told ELSE Telling(ledger.rows[i])
          BY <4>3, <5>2, <5>3
        <5>6. QED
          BY <5>4, <5>5
      <4>8. QED
        BY <4>2, <4>6, <4>7
    <3>5. Pay!B!Move(a)
      BY <2>4, <2>7, <3>1, <3>2, <3>3, <3>4 DEF Pay!B!Move, Accounts, Book, Rolled
    <3>6. QED
      BY <2>7, <3>5 DEF Pay!B!Next
  <2>10. QED
    BY <2>2, <2>6, <2>8, <2>9
<1>5. QED
  BY <1>2, <1>3, <1>4

(* BankSpec: while one clerk works the economy and none dies, gold moves in  *)
(* single steps that the ledger enters, from accounts that stay solvent, but *)
(* for the reroll screen's.                                                  *)
THEOREM BankHolds == PartsSpec => BankSpec
<1>1. EconomyInv /\ SoloInv /\ [Pay!Next]_Pay!vars => [Pay!B!Next]_<<Accounts, Book, Rolled>>
  BY BankStep
<1>2. QED
  BY <1>1, BankInit, EconomyInvHolds, SoloInvHolds, PartsPay, PTL
     DEF Pay!Spec, BankSpec, Pay!BankSpec, Pay!B!Spec, Accounts, Book, Rolled
=============================================================================
