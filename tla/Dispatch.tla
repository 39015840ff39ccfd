------------------------------ MODULE Dispatch ------------------------------
(***************************************************************************)
(* One run of Dispatcher.execute (lib/dispatch/dispatcher.py): intake      *)
(* checks, waves of ready tasks under a semaphore, the conduct ledger,     *)
(* payroll, the verdict in the ops log and the engagement rows of the      *)
(* project the mission is tagged with.                                     *)
(*                                                                         *)
(* The coroutines of a wave interleave only where the code awaits: to take *)
(* the semaphore and to wait for the provider.  One action is the code     *)
(* between two awaits.  After the last wave nothing is awaited, but each   *)
(* settlement is a write to disk, so each is a step of its own: the        *)
(* process can die between two of them (Interrupt) and other processes     *)
(* share the agent records (StrikeAgent).                                  *)
(***************************************************************************)
EXTENDS Integers, FiniteSets, Sequences

CONSTANTS
  Tasks,    \* positions in mission.tasks, numbers: the list order is theirs
  Agents,   \* agent ids
  Plans     \* the missions an operator may hand to execute

(***************************************************************************)
(* A plan is the part of a Mission, and of the channel serving it, that    *)
(* execute never changes.  A dependency outside `list` names no task.      *)
(***************************************************************************)
Plan == [list    : SUBSET Tasks,             \* mission.tasks
         owner   : [Tasks -> Agents],        \* task.agent_id
         deps    : [Tasks -> SUBSET Tasks],  \* task.depends_on
         known   : SUBSET Tasks,             \* tasks with an expectation
         crew    : SUBSET Agents,            \* mission.crew_ids
         asked   : Nat \ {0},                \* max_concurrent of the caller
         channel : Nat,                      \* the channel's limit, 0 if none
         tagged  : BOOLEAN]                  \* mission.project_id is set

ASSUME TasksAssumption == Tasks \subseteq Nat /\ IsFiniteSet(Tasks)
ASSUME PlansAssumption == Plans \subseteq Plan

NotCached == -1

TaskStatus    == {"pending", "running", "complete", "failed"}
MissionStatus == {"draft", "dispatched", "complete", "failed"}
RowStatus     == {"none", "queued", "swarming", "review", "smoked"}
Phases        == {"intake", "loop", "wave", "conclude", "payroll", "settle",
                  "done", "refused", "interrupted"}

(***************************************************************************)
(* How the provider's answer to a task ends: right, or wrong against the   *)
(* known answer, refused on usage policy, any other error, or no answer    *)
(* before the task's deadline (the request outlives the task).             *)
(***************************************************************************)
Answers == {"right", "wrong", "refused", "error", "late"}

VARIABLES
  plan,      \* the mission, fixed by Init
  phase,     \* where execute is
  mission,   \* mission.status
  task,      \* task.status
  wave,      \* the tasks of the asyncio.gather being awaited
  cache,     \* violations on the agent records in _agent_cache, or NotCached
  held,      \* violations on the agent record a running coroutine holds
  records,   \* agents whose record is on disk
  conduct,   \* conduct.violations on disk
  unpaid,    \* crew the payroll has not come to yet
  paid,      \* tasks paid to each agent
  bonus,     \* agents paid the completion bonus
  verdicts,  \* log_mission_fail and log_mission_complete entries, in order
  rows,      \* status of each agent's engagement row on the tagged project
  answer,    \* history: how each task's exchange ended
  orphans    \* exchanges the provider left behind at a deadline

vars == <<plan, phase, mission, task, wave, cache, held, records, conduct,
          unpaid, paid, bonus, verdicts, rows, answer, orphans>>

moneyVars  == <<unpaid, paid, bonus>>
agentVars  == <<cache, held, conduct>>
-----------------------------------------------------------------------------
(* Mission.all_complete, any_failed and get_ready_tasks. *)

InStatus(s) == {t \in plan.list : task[t] = s}
Completed   == InStatus("complete")
Running     == InStatus("running")

AllComplete == \A t \in plan.list : task[t] = "complete"
AnyFailed   == \E t \in plan.list : task[t] = "failed"

Ready == {t \in plan.list : /\ task[t] = "pending"
                            /\ plan.deps[t] \subseteq Completed}

\* The semaphore's size: the channel's own ceiling wins over the caller's.
Limit == IF plan.channel # 0 /\ plan.channel < plan.asked
         THEN plan.channel ELSE plan.asked

\* transition_engagements on the rows of the crew that are still active.
Moved(status) ==
  [a \in Agents |-> IF plan.tagged /\ a \in plan.crew /\ rows[a] # "none"
                    THEN status ELSE rows[a]]

\* What _load_agent answers with: the cached record, else the one on disk.
Loadable(a)  == cache[a] # NotCached \/ a \in records
Violations(a) == IF cache[a] # NotCached THEN cache[a] ELSE conduct[a]

DoneBy(a) == {t \in Completed : plan.owner[t] = a}
-----------------------------------------------------------------------------
Init ==
  /\ plan \in Plans
  /\ phase = "intake"
  /\ mission = "draft"
  /\ task = [t \in Tasks |-> "pending"]
  /\ wave = {}
  /\ cache = [a \in Agents |-> NotCached]
  /\ held = [t \in Tasks |-> 0]
  /\ records \in SUBSET Agents
  /\ conduct = [a \in Agents |-> 0]
  /\ unpaid = {}
  /\ paid = [a \in Agents |-> 0]
  /\ bonus = {}
  /\ verdicts = <<>>
  /\ \E s \in {"queued", "review", "smoked"} :
       rows = [a \in Agents |-> IF plan.tagged /\ a \in plan.crew
                                THEN s ELSE "none"]
  /\ answer = [t \in Tasks |-> "none"]
  /\ orphans = {}
-----------------------------------------------------------------------------
(* Intake. *)

\* The posture, the channel's capabilities or the provider's availability
\* refuse the mission; so do an empty task list and a missing crew record.
Refuse ==
  /\ phase = "intake"
  /\ phase' = "refused"
  /\ mission' = "failed"
  /\ verdicts' = Append(verdicts, "fail")
  /\ UNCHANGED <<plan, task, wave, agentVars, records, moneyVars, rows,
                 answer, orphans>>

Begin ==
  /\ phase = "intake"
  /\ plan.list # {}
  /\ plan.crew \subseteq records
  /\ phase' = "loop"
  /\ mission' = "dispatched"
  /\ cache' = [a \in Agents |-> IF a \in plan.crew THEN conduct[a]
                                ELSE cache[a]]
  /\ rows' = Moved("swarming")
  /\ UNCHANGED <<plan, task, wave, held, records, conduct, moneyVars,
                 verdicts, answer, orphans>>
-----------------------------------------------------------------------------
(***************************************************************************)
(* The head of the while loop.  Its branch that sleeps until a running     *)
(* task ends is not an action: gather returns when every task of the wave  *)
(* has ended, so no task runs at the head of the loop.                     *)
(***************************************************************************)
\* Mutant of NextWave: the loop tests all_complete alone.
NextWaveAfterFailure ==
  /\ phase = "loop"
  /\ ~AllComplete
  /\ Ready # {}
  /\ wave' = Ready
  /\ phase' = "wave"
  /\ UNCHANGED <<plan, mission, task, agentVars, records, moneyVars,
                 verdicts, rows, answer, orphans>>

NextWave ==
  /\ phase = "loop"
  /\ ~AllComplete /\ ~AnyFailed
  /\ Ready # {}
  /\ wave' = Ready
  /\ phase' = "wave"
  /\ UNCHANGED <<plan, mission, task, agentVars, records, moneyVars,
                 verdicts, rows, answer, orphans>>

\* Mutant of Stuck: the test for a running task is the wrong way round.
StuckWhileRunning ==
  /\ phase = "loop"
  /\ ~AllComplete /\ ~AnyFailed
  /\ Ready = {} /\ Running # {}
  /\ verdicts' = Append(verdicts, "fail")
  /\ mission' = "failed"
  /\ phase' = "conclude"
  /\ UNCHANGED <<plan, task, wave, agentVars, records, moneyVars, rows,
                 answer, orphans>>

\* "Dependency cycle detected": logged as a failure, then break.
Stuck ==
  /\ phase = "loop"
  /\ ~AllComplete /\ ~AnyFailed
  /\ Ready = {} /\ Running = {}
  /\ verdicts' = Append(verdicts, "fail")
  /\ mission' = "failed"
  /\ phase' = "conclude"
  /\ UNCHANGED <<plan, task, wave, agentVars, records, moneyVars, rows,
                 answer, orphans>>

LeaveLoop ==
  /\ phase = "loop"
  /\ AllComplete \/ AnyFailed
  /\ phase' = "conclude"
  /\ UNCHANGED <<plan, mission, task, wave, agentVars, records, moneyVars,
                 verdicts, rows, answer, orphans>>

\* asyncio.gather returns.
WaveEnds ==
  /\ phase = "wave"
  /\ \A t \in wave : task[t] \in {"complete", "failed"}
  /\ phase' = "loop"
  /\ wave' = {}
  /\ UNCHANGED <<plan, mission, task, agentVars, records, moneyVars,
                 verdicts, rows, answer, orphans>>
-----------------------------------------------------------------------------
(***************************************************************************)
(* run_task.  The semaphore serves its waiters in the order gather created *)
(* them, which is the order of the task list.                              *)
(***************************************************************************)
TakesSlot(t) ==
  /\ phase = "wave"
  /\ t \in wave
  /\ task[t] = "pending"
  /\ \A u \in wave : task[u] = "pending" => t <= u
  /\ Cardinality(Running) < Limit

StartTask(t) ==
  /\ TakesSlot(t)
  /\ LET a == plan.owner[t] IN
       /\ Loadable(a)
       /\ held' = [held EXCEPT ![t] = Violations(a)]
       /\ cache' = [cache EXCEPT ![a] = Violations(a)]
  /\ task' = [task EXCEPT ![t] = "running"]
  /\ UNCHANGED <<plan, phase, mission, wave, records, conduct, moneyVars,
                 verdicts, rows, answer, orphans>>

\* The record is gone: the task fails at once and its slot is released.
MissAgent(t) ==
  /\ TakesSlot(t)
  /\ ~Loadable(plan.owner[t])
  /\ task' = [task EXCEPT ![t] = "failed"]
  /\ UNCHANGED <<plan, phase, mission, wave, agentVars, records, moneyVars,
                 verdicts, rows, answer, orphans>>

\* Mutant of Verified: a wrong answer is reported and still stands.
VerifiedAnyway(t, a) == IF a \in {"right", "wrong"} THEN "complete" ELSE "failed"

\* _verify_result: only a completed answer to a task with an expectation is
\* checked, and a wrong one fails the task before payroll sees it.
Verified(t, a) == IF a = "right" \/ (a = "wrong" /\ t \notin plan.known)
                  THEN "complete" ELSE "failed"

\* Mutant of Charge: the agent cache is not refreshed.
ChargeDiskOnly(t, a) ==
  /\ conduct' = IF a \in records THEN [conduct EXCEPT ![a] = held[t] + 1]
                ELSE conduct
  /\ UNCHANGED cache

\* _record_violation: one more than on the record the coroutine holds.
Charge(t, a) ==
  IF a \in records
  THEN /\ conduct' = [conduct EXCEPT ![a] = held[t] + 1]
       /\ cache' = [cache EXCEPT ![a] = held[t] + 1]
  ELSE UNCHANGED <<conduct, cache>>

FinishTask(t, a) ==
  /\ phase = "wave"
  /\ task[t] = "running"
  /\ task' = [task EXCEPT ![t] = Verified(t, a)]
  /\ answer' = [answer EXCEPT ![t] = a]
  /\ IF a = "refused" THEN Charge(t, plan.owner[t])
     ELSE UNCHANGED <<conduct, cache>>
  /\ orphans' = IF a = "late" THEN orphans \cup {t} ELSE orphans
  /\ UNCHANGED <<plan, phase, mission, wave, held, records, moneyVars,
                 verdicts, rows>>

\* What a timed-out exchange left running ends by itself: wait_for gives up
\* on the answer but nobody kills the subprocess.
OrphanEnds(t) ==
  /\ t \in orphans
  /\ orphans' = orphans \ {t}
  /\ UNCHANGED <<plan, phase, mission, task, wave, agentVars, records,
                 moneyVars, verdicts, rows, answer>>
-----------------------------------------------------------------------------
(* After the loop: outcome, payroll, verdict, engagements. *)

\* Mutant of Conclude: any completed task completes the mission.
ConcludeByAny ==
  /\ phase = "conclude"
  /\ mission' = IF Completed = {} THEN "failed" ELSE "complete"
  /\ unpaid' = plan.crew
  /\ phase' = "payroll"
  /\ UNCHANGED <<plan, task, wave, agentVars, records, paid, bonus, verdicts,
                 rows, answer, orphans>>

Conclude ==
  /\ phase = "conclude"
  /\ mission' = IF AnyFailed THEN "failed" ELSE "complete"
  /\ unpaid' = plan.crew
  /\ phase' = "payroll"
  /\ UNCHANGED <<plan, task, wave, agentVars, records, paid, bonus, verdicts,
                 rows, answer, orphans>>

\* Mutant of PayAgent: a failed mission pays nobody.
PayAgentOnSuccess(a) ==
  /\ phase = "payroll"
  /\ a \in unpaid
  /\ unpaid' = unpaid \ {a}
  /\ IF a \in records /\ mission = "complete"
     THEN /\ paid' = [paid EXCEPT ![a] = @ + Cardinality(DoneBy(a))]
          /\ bonus' = bonus \cup {a}
     ELSE UNCHANGED <<paid, bonus>>
  /\ UNCHANGED <<plan, phase, mission, task, wave, agentVars, records,
                 verdicts, rows, answer, orphans>>

\* One turn of award_mission; the order of the crew list is left open.
PayAgent(a) ==
  /\ phase = "payroll"
  /\ a \in unpaid
  /\ unpaid' = unpaid \ {a}
  /\ IF a \in records /\ DoneBy(a) # {}
     THEN /\ paid' = [paid EXCEPT ![a] = @ + Cardinality(DoneBy(a))]
          /\ bonus' = IF mission = "complete" THEN bonus \cup {a} ELSE bonus
     ELSE UNCHANGED <<paid, bonus>>
  /\ UNCHANGED <<plan, phase, mission, task, wave, agentVars, records,
                 verdicts, rows, answer, orphans>>

LogVerdict ==
  /\ phase = "payroll"
  /\ unpaid = {}
  /\ verdicts' = Append(verdicts, IF AnyFailed THEN "fail" ELSE "complete")
  /\ phase' = "settle"
  /\ UNCHANGED <<plan, mission, task, wave, agentVars, records, moneyVars,
                 rows, answer, orphans>>

\* _settle_engagements and apply_mission_outcome.
Settle ==
  /\ phase = "settle"
  /\ rows' = Moved(IF mission = "complete" THEN "review" ELSE "smoked")
  /\ phase' = "done"
  /\ UNCHANGED <<plan, mission, task, wave, agentVars, records, moneyVars,
                 verdicts, answer, orphans>>
-----------------------------------------------------------------------------
(* The environment. *)

\* The process dies, or a step of run_task raises: gather re-raises it, and
\* asyncio.run cancels the siblings.  Nothing after the loop happens.
Interrupt ==
  /\ phase \in {"loop", "wave", "conclude", "payroll", "settle"}
  /\ phase' = "interrupted"
  /\ UNCHANGED <<plan, mission, task, wave, agentVars, records, moneyVars,
                 verdicts, rows, answer, orphans>>

\* Another process removes an agent's record.
StrikeAgent(a) ==
  /\ a \in records
  /\ phase \notin {"done", "refused", "interrupted"}
  /\ records' = records \ {a}
  /\ UNCHANGED <<plan, phase, mission, task, wave, agentVars, moneyVars,
                 verdicts, rows, answer, orphans>>

RunTask(t) == StartTask(t) \/ MissAgent(t) \/ \E a \in Answers : FinishTask(t, a)

Dispatcher ==
  \/ Refuse \/ Begin
  \/ NextWave \/ Stuck \/ LeaveLoop \/ WaveEnds
  \/ \E t \in Tasks : RunTask(t)
  \/ Conclude \/ (\E a \in Agents : PayAgent(a)) \/ LogVerdict \/ Settle

Environment ==
  \/ Interrupt
  \/ \E a \in Agents : StrikeAgent(a)
  \/ \E t \in Tasks : OrphanEnds(t)

Next == Dispatcher \/ Environment

Spec == Init /\ [][Next]_vars

\* The event loop keeps running, and every provider answers or reaches the
\* task's deadline, so no step of the dispatcher is put off for ever.
FairSpec == Spec /\ WF_vars(Dispatcher)
-----------------------------------------------------------------------------
(* Properties. *)

Out == {"loop", "wave", "conclude", "payroll", "settle"}

\* Type invariant: the state of execute and of the records it touches.
TypeOK ==
  /\ plan \in Plans
  /\ phase \in Phases
  /\ mission \in MissionStatus
  /\ task \in [Tasks -> TaskStatus]
  /\ wave \subseteq Tasks
  /\ cache \in [Agents -> Nat \cup {NotCached}]
  /\ held \in [Tasks -> Nat]
  /\ records \subseteq Agents
  /\ conduct \in [Agents -> Nat]
  /\ unpaid \subseteq Agents
  /\ paid \in [Agents -> Nat]
  /\ bonus \subseteq Agents
  /\ verdicts \in Seq({"fail", "complete"})
  /\ rows \in [Agents -> RowStatus]
  /\ answer \in [Tasks -> Answers \cup {"none"}]
  /\ orphans \subseteq Tasks

\* No task is started, or failed for want of its agent, before every task
\* it depends on is complete (get_ready_tasks, whole waves at a time).
DependenciesFirst ==
  \A t \in plan.list : task[t] # "pending" => plan.deps[t] \subseteq Completed

\* The tasks between their two semaphore operations never exceed the smaller
\* of the caller's limit and the channel's.
WithinLimit == Cardinality(Running) <= Limit

\* Once a task has failed only its own wave goes on: while a wave is out, the
\* failed tasks and the running ones all belong to it, so no wave is released
\* after a failure and no task of an earlier wave is still running.
FailureEndsWithItsWave ==
  phase = "wave" => InStatus("failed") \cup Running \subseteq wave

\* The tasks of an agent that were answered rightly, or whose answer nothing
\* can check.
Answered(a) == {t \in plan.list :
                  /\ plan.owner[t] = a
                  /\ \/ answer[t] = "right"
                     \/ answer[t] = "wrong" /\ t \notin plan.known}

\* Payroll pays for verified work only: an agent is paid for no more tasks
\* than it answered, never for a refused, late or wrong one, and nobody is
\* paid before the mission's outcome stands.
PaidForVerifiedWork ==
  \A a \in Agents :
    /\ paid[a] <= Cardinality(Answered(a))
    /\ paid[a] > 0 => phase \in {"payroll", "settle", "done", "interrupted"}

\* When payroll is through, every crew member whose record was never struck
\* has been paid for each of its completed tasks, once.
PayrollSettles ==
  phase \in {"settle", "done"} =>
    \A a \in plan.crew \cap records : paid[a] = Cardinality(DoneBy(a))

\* The mission's dependencies name its own tasks and have no cycle: every set
\* of tasks has one that depends on none of the others.
Resolvable ==
  /\ \A t \in plan.list : plan.deps[t] \subseteq plan.list
  /\ \A S \in SUBSET plan.list : S # {} => \E t \in S : plan.deps[t] \cap S = {}

\* A mission reported complete has every one of its tasks complete, and the
\* completion bonus is paid on no other mission.
CompleteMeansAllTasks ==
  mission = "complete" \/ bonus # {} => AllComplete

\* ... which holds of every mission whose dependencies can be resolved.
CompleteIfResolvable == Resolvable => CompleteMeansAllTasks

\* A resolvable mission that was marked failed is never turned into a
\* completed one.
FailedIsFinal ==
  [][Resolvable /\ mission = "failed" => mission' = "failed"]_vars

\* What was refused, by agent.
RefusedOf(a) == {t \in plan.list : plan.owner[t] = a /\ answer[t] = "refused"}

\* The conduct ledger never charges more refusals than were drawn, and where
\* an agent's tasks cannot overlap (one slot, or one task each) it charges
\* every one of them.
SerialConduct ==
  \A a \in Agents :
    /\ conduct[a] <= Cardinality(RefusedOf(a))
    /\ a \in records /\
       (Limit = 1 \/ Cardinality({t \in plan.list : plan.owner[t] = a}) <= 1)
         => conduct[a] = Cardinality(RefusedOf(a))

\* The crew's rows on the tagged project are swarming exactly while the
\* mission is out, and stay so if the process dies; afterwards they tell the
\* mission's outcome.
RowsFollowMission ==
  plan.tagged => \A a \in plan.crew :
    /\ rows[a] = "swarming" <=> phase \in Out \cup {"interrupted"}
    /\ phase = "done" => rows[a] = (IF mission = "complete" THEN "review"
                                    ELSE "smoked")

\* The channel serves no more exchanges at a time than its own limit.
ChannelCeiling ==
  plan.channel # 0 => Cardinality(Running \cup orphans) <= plan.channel

\* Every mission comes to an end, whatever its dependencies, unless its
\* process is interrupted.
Ends == <>(phase \in {"done", "refused", "interrupted"})
=============================================================================
