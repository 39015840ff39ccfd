---------------------------- MODULE Engagements ----------------------------
(***************************************************************************)
(* Projects and their engagement rows (lib/data/project.py) under the      *)
(* commands of `nim.agency project` (lib/cli/project.py), each run by a    *)
(* process of its own.  A project is one JSON record.  Every command reads *)
(* the whole record, decides on its copy, and later writes back the fields *)
(* it changed: DataStore.update merges field by field, and a list is one   *)
(* field, so the rows (and the journal) are written as they were read.     *)
(* Nothing locks the record.  An action is the code from one access to     *)
(* the record to the next; a cycle also waits for the operator's consent   *)
(* and, while its mission is out, for the provider.                        *)
(***************************************************************************)
EXTENDS Integers, FiniteSets, Sequences

CONSTANTS
  Operators,  \* processes that can run at a time
  Agents,
  Projects,
  Cap,        \* policy.max_concurrent_engagements of each project
  MaxCycles,  \* policy.max_cycles of each project, 0 when unset
  Forces,     \* what --force may be
  MaxRounds,  \* bound: cycles one command may be asked to run (-n)
  MaxRows,    \* bound: engagements ever made
  MaxJournal  \* bound: journal length from which no cycle is started

ASSUME ProjectsAssumption == Projects # {}
ASSUME CapAssumption == Cap \in [Projects -> Nat \ {0}]
ASSUME PolicyAssumption ==
  MaxCycles \in [Projects -> Nat] /\ Forces \subseteq BOOLEAN

VARIABLES
  store,   \* the project records on disk
  proc,    \* the process of each operator
  made,    \* engagements made so far; numbers the rows
  died     \* history: projects whose process died while a mission was out

vars == <<store, proc, made, died>>

EngagementStatus == {"queued", "swarming", "review", "completed", "smoked"}
ProjectStatus    == {"draft", "active", "paused", "complete"}

Row == [id : Nat, agent : Agents, status : EngagementStatus, released : BOOLEAN]

Steps == {"idle", "booking", "assigning", "releasing", "setting", "completing",
          "confirming", "swarming", "out", "reporting", "journalling"}
-----------------------------------------------------------------------------
(* The helpers of lib/data/project.py, on a record. *)

ActiveRows(r)     == {e \in r.rows : ~e.released}
Engaged(r, a)     == \E e \in ActiveRows(r) : e.agent = a
CycleInFlight(r)  == \E e \in ActiveRows(r) : e.status = "swarming"
NextCycle(journal) ==
  LET cycles == {journal[i] : i \in DOMAIN journal} \cup {0}
  IN (CHOOSE m \in cycles : \A c \in cycles : c <= m) + 1

\* policy.max_cycles lets the project run its cycle number c.
Permitted(p, c) == MaxCycles[p] = 0 \/ c <= MaxCycles[p]

\* agent_bookings: unreleased rows elsewhere whose status is not terminal.
Bookings(a, p) ==
  {q \in Projects \ {p} : \E e \in ActiveRows(store[q]) :
                            e.agent = a /\ e.status # "completed"}

\* transition_engagements: the crew's active rows take the status.
Transition(rows, crew, status) ==
  {[e EXCEPT !.status = IF ~e.released /\ e.agent \in crew THEN status ELSE @]
     : e \in rows}

\* complete_project.
AllReleased(rows) ==
  {[e EXCEPT !.status = IF e.released THEN @ ELSE "completed",
             !.released = TRUE] : e \in rows}
-----------------------------------------------------------------------------
NewProject == [status |-> "draft", rows |-> {}, journal |-> <<>>]

\* What a process knows of its command: the project, the parts of the record
\* it read and will write back, the agent or status it was given; for a cycle
\* its crew, the agents it has loaded, its number, the rounds left and the
\* mission's outcome.
Idle == [pc |-> "idle", on |-> CHOOSE p \in Projects : TRUE,
         rows |-> {}, journal |-> <<>>, agent |-> "none", status |-> "active",
         crew |-> {}, loaded |-> {}, cycle |-> 0, left |-> 0,
         outcome |-> "none"]

Init ==
  /\ store = [p \in Projects |-> NewProject]
  /\ proc = [o \in Operators |-> Idle]
  /\ made = 0
  /\ died = {}

At(o, pc) == proc[o].pc = pc

\* A command is typed and reads its project.
Reads(o, p, pc) == proc' = [proc EXCEPT ![o] =
                     [Idle EXCEPT !.pc = pc, !.on = p, !.rows = store[p].rows]]

Goes(o, pc) == proc' = [proc EXCEPT ![o].pc = pc]
Ends(o)     == proc' = [proc EXCEPT ![o] = Idle]
-----------------------------------------------------------------------------
(* project assign: assign_agent. *)

\* Mutant of StartAssign: an agent may be engaged twice.
StartAssignTwice(o, p, a) ==
  /\ made < MaxRows
  /\ At(o, "idle")
  /\ proc' = [proc EXCEPT ![o] = [Idle EXCEPT !.pc = "booking",
                       !.on = p, !.rows = store[p].rows, !.agent = a]]
  /\ UNCHANGED <<store, made, died>>

StartAssign(o, p, a) ==
  /\ made < MaxRows
  /\ At(o, "idle")
  /\ ~Engaged(store[p], a)
  /\ proc' = [proc EXCEPT ![o] = [Idle EXCEPT !.pc = "booking",
                       !.on = p, !.rows = store[p].rows, !.agent = a]]
  /\ UNCHANGED <<store, made, died>>

\* Mutant of CheckBookings: the engagement being made is not counted.
CheckBookingsElsewhere(o) ==
  /\ At(o, "booking")
  /\ IF Cardinality(Bookings(proc[o].agent, proc[o].on)) <= Cap[proc[o].on]
     THEN Goes(o, "assigning")
     ELSE Ends(o)
  /\ UNCHANGED <<store, made, died>>

\* The bookings elsewhere and this one must fit this project's cap.
CheckBookings(o) ==
  /\ At(o, "booking")
  /\ IF Cardinality(Bookings(proc[o].agent, proc[o].on)) + 1 <= Cap[proc[o].on]
     THEN Goes(o, "assigning")
     ELSE Ends(o)
  /\ UNCHANGED <<store, made, died>>

Assign(o) ==
  /\ At(o, "assigning")
  /\ store' = [store EXCEPT ![proc[o].on].rows = proc[o].rows \cup
       {[id |-> made + 1, agent |-> proc[o].agent, status |-> "queued",
         released |-> FALSE]}]
  /\ made' = made + 1
  /\ Ends(o)
  /\ UNCHANGED died

(* project release: release_agent. *)

StartRelease(o, p, a) ==
  /\ At(o, "idle")
  /\ Engaged(store[p], a)
  /\ proc' = [proc EXCEPT ![o] = [Idle EXCEPT !.pc = "releasing",
                       !.on = p, !.rows = store[p].rows, !.agent = a]]
  /\ UNCHANGED <<store, made, died>>

\* Mutant of Release: the row is removed instead of closed.
ReleaseByRemoval(o) ==
  /\ At(o, "releasing")
  /\ store' = [store EXCEPT ![proc[o].on].rows =
       {e \in proc[o].rows : e.agent # proc[o].agent}]
  /\ Ends(o)
  /\ UNCHANGED <<made, died>>

Release(o) ==
  /\ At(o, "releasing")
  /\ store' = [store EXCEPT ![proc[o].on].rows =
       {[e EXCEPT !.released = @ \/ e.agent = proc[o].agent]
          : e \in proc[o].rows}]
  /\ Ends(o)
  /\ UNCHANGED <<made, died>>

(* project pause and project resume. *)

StartSetStatus(o, p, s) ==
  /\ At(o, "idle")
  /\ store[p].status # "complete"
  /\ proc' = [proc EXCEPT ![o] = [Idle EXCEPT !.pc = "setting", !.on = p, !.status = s]]
  /\ UNCHANGED <<store, made, died>>

SetStatus(o) ==
  /\ At(o, "setting")
  /\ store' = [store EXCEPT ![proc[o].on].status = proc[o].status]
  /\ Ends(o)
  /\ UNCHANGED <<made, died>>

(* project complete: complete_project. *)

StartComplete(o, p) ==
  /\ At(o, "idle")
  /\ store[p].status # "complete"
  /\ ~CycleInFlight(store[p])
  /\ Reads(o, p, "completing")
  /\ UNCHANGED <<store, made, died>>

Complete(o) ==
  /\ At(o, "completing")
  /\ store' = [store EXCEPT ![proc[o].on].rows = AllReleased(proc[o].rows),
                            ![proc[o].on].status = "complete"]
  /\ Ends(o)
  /\ UNCHANGED <<made, died>>
-----------------------------------------------------------------------------
(* project cycle: the checks, then n rounds of a briefing, a mission and a  *)
(* journal entry.                                                          *)

StartCycle(o, p, force, n) ==
  LET crew == {e.agent : e \in ActiveRows(store[p])} IN
  /\ Len(store[p].journal) < MaxJournal
  /\ At(o, "idle")
  /\ store[p].status = "active"
  /\ crew # {}
  /\ CycleInFlight(store[p]) => force
  /\ Permitted(p, NextCycle(store[p].journal))
  /\ proc' = [proc EXCEPT ![o] =
       [Idle EXCEPT !.pc = "confirming", !.on = p, !.crew = crew,
                    !.loaded = crew, !.cycle = NextCycle(store[p].journal),
                    !.left = n]]
  /\ UNCHANGED <<store, made, died>>

\* The operator says no, or the briefing refuses for want of a capability.
Decline(o) ==
  /\ At(o, "confirming")
  /\ Ends(o)
  /\ UNCHANGED <<store, made, died>>

\* The dispatcher refuses the mission (it has no task, the provider is gone):
\* the mission fails and no row moves.
RefuseMission(o) ==
  /\ At(o, "confirming")
  /\ proc' = [proc EXCEPT ![o].pc = "reporting", ![o].outcome = "failed"]
  /\ UNCHANGED <<store, made, died>>

\* _mission_project: the dispatcher reads the project for itself.
Dispatch(o) ==
  /\ At(o, "confirming")
  /\ proc[o].crew # {}
  /\ proc' = [proc EXCEPT ![o].pc = "swarming",
                          ![o].rows = store[proc[o].on].rows]
  /\ UNCHANGED <<store, made, died>>

\* transition_engagements writes the rows it was given, if it moved one.
Moves(o, rows) ==
  store' = IF rows = proc[o].rows THEN store
           ELSE [store EXCEPT ![proc[o].on].rows = rows]

Swarm(o) ==
  LET rows == Transition(proc[o].rows, proc[o].crew, "swarming") IN
  /\ At(o, "swarming")
  /\ Moves(o, rows)
  /\ proc' = [proc EXCEPT ![o].pc = "out", ![o].rows = rows]
  /\ UNCHANGED <<made, died>>

\* Mutant of Land: the rows of a failed mission are left alone.
LandIfComplete(o, outcome) ==
  /\ At(o, "out")
  /\ IF outcome = "complete"
     THEN Moves(o, Transition(proc[o].rows, proc[o].crew, "review"))
     ELSE UNCHANGED store
  /\ proc' = [proc EXCEPT ![o].pc = "reporting", ![o].outcome = outcome,
                          ![o].rows = {}]
  /\ died' = died \ {proc[o].on}
  /\ UNCHANGED made

\* apply_mission_outcome, on the rows the dispatcher read before the mission.
Land(o, outcome) ==
  /\ At(o, "out")
  /\ Moves(o, Transition(proc[o].rows, proc[o].crew,
                         IF outcome = "complete" THEN "review" ELSE "smoked"))
  /\ proc' = [proc EXCEPT ![o].pc = "reporting", ![o].outcome = outcome,
                          ![o].rows = {}]
  /\ died' = died \ {proc[o].on}
  /\ UNCHANGED made

\* The report is saved and the project read again.
Reread(o) ==
  LET r == store[proc[o].on] IN
  /\ At(o, "reporting")
  /\ proc' = [proc EXCEPT ![o].pc = "journalling", ![o].rows = r.rows,
                          ![o].journal = r.journal]
  /\ UNCHANGED <<store, made, died>>

\* append_journal, and the head of the next round: rows and cycle number come
\* from the copy just written, the loaded agents from the start of the command
\* (an agent engaged since is a KeyError), the project's status from nowhere.
Journal(o) ==
  LET me      == proc[o]
      journal == Append(me.journal, me.cycle)
      crew    == {e.agent : e \in {r \in me.rows : ~r.released}}
  IN
  /\ At(o, "journalling")
  /\ store' = [store EXCEPT ![me.on].journal = journal]
  /\ IF /\ me.outcome = "complete" /\ me.left > 1
        /\ Permitted(me.on, NextCycle(journal))
        /\ crew \subseteq me.loaded
     THEN proc' = [proc EXCEPT ![o] =
            [me EXCEPT !.pc = "confirming", !.rows = {}, !.journal = <<>>,
                       !.crew = crew, !.cycle = NextCycle(journal),
                       !.left = @ - 1, !.outcome = "none"]]
     ELSE Ends(o)
  /\ UNCHANGED <<made, died>>
-----------------------------------------------------------------------------
\* The process dies (or is interrupted) between two of its steps.
Crash(o) ==
  /\ ~At(o, "idle")
  /\ died' = IF At(o, "out") THEN died \cup {proc[o].on} ELSE died
  /\ Ends(o)
  /\ UNCHANGED <<store, made>>

Typed(o, p) ==
  \/ \E a \in Agents : StartAssign(o, p, a) \/ StartRelease(o, p, a)
  \/ \E s \in {"active", "paused"} : StartSetStatus(o, p, s)
  \/ StartComplete(o, p)
  \/ \E force \in Forces, n \in 1..MaxRounds : StartCycle(o, p, force, n)

Step(o) ==
  \/ CheckBookings(o) \/ Assign(o) \/ Release(o) \/ SetStatus(o) \/ Complete(o)
  \/ Decline(o) \/ RefuseMission(o) \/ Dispatch(o) \/ Swarm(o)
  \/ (\E outcome \in {"complete", "failed"} : Land(o, outcome))
  \/ Reread(o) \/ Journal(o)

Next == \E o \in Operators :
          \/ \E p \in Projects : Typed(o, p)
          \/ Step(o)
          \/ Crash(o)

Spec == Init /\ [][Next]_vars
-----------------------------------------------------------------------------
(* Properties. *)

Record == [status : ProjectStatus, rows : SUBSET Row, journal : Seq(Nat)]

Process == [pc : Steps, on : Projects, rows : SUBSET Row, journal : Seq(Nat),
            agent : Agents \cup {"none"}, status : ProjectStatus,
            crew : SUBSET Agents, loaded : SUBSET Agents, cycle : Nat,
            left : Nat, outcome : {"none", "complete", "failed"}]

\* Type invariant: the records and what the processes remember of them.
TypeOK ==
  /\ store \in [Projects -> Record]
  /\ proc \in [Operators -> Process]
  /\ made \in Nat
  /\ died \subseteq Projects
  /\ \A o \in Operators :
       proc[o].pc \in {"booking", "assigning"} => proc[o].agent \in Agents

\* One active engagement per agent per project, however many processes assign,
\* release and cycle at the same time: whoever writes the rows writes a list
\* that was in order when it was read.
OneEngagement ==
  \A p \in Projects : \A e, f \in ActiveRows(store[p]) :
    e.agent = f.agent => e = f

\* The projects an agent is booked on, everywhere.
Booked(a) == {p \in Projects : Engaged(store[p], a)}

\* An agent is never booked on more projects than the most permissive of them
\* allows: each assignment counted the bookings elsewhere.
WithinCap ==
  \A a \in Agents : Booked(a) # {} =>
    \E p \in Booked(a) : Cardinality(Booked(a)) <= Cap[p]

\* Rows are swarming only while a mission is out, or after its process died;
\* once a later cycle has landed not even then.
SwarmingMeansOut ==
  \A p \in Projects : CycleInFlight(store[p]) =>
    \/ p \in died
    \/ \E o \in Operators : At(o, "out") /\ proc[o].on = p

\* A released row is history: it stays on the record, and stays released.
ReleasedIsHistory ==
  [][\A p \in Projects : \A e \in store[p].rows \ ActiveRows(store[p]) :
       \E f \in store'[p].rows : f.id = e.id /\ f.released]_vars

\* Cycles serialize per project: no two missions of a project are out at once.
CyclesSerialize ==
  \A o1, o2 \in Operators :
    At(o1, "out") /\ At(o2, "out") /\ proc[o1].on = proc[o2].on => o1 = o2
=============================================================================
