-------------------------- MODULE EngagementProofs --------------------------
(***************************************************************************)
(* Theorems about Engagements, for any number of processes, projects and   *)
(* agents.                                                                 *)
(***************************************************************************)
EXTENDS Engagements, FiniteSetTheorems, WellFoundedInduction, TLAPS

Bounded(journal, k) ==
  \E n \in Nat : \A i \in 1..k : journal[i] <= n

\* The cycle numbers of a journal have an upper bound.
LEMMA JournalIsBounded ==
  ASSUME NEW journal \in Seq(Nat)
  PROVE  Bounded(journal, Len(journal))
<1> DEFINE R   == {ss \in Nat \X Nat : ss[1] < ss[2]}
           Bad == {k \in 0..Len(journal) : ~Bounded(journal, k)}
<1>1. SUFFICES ASSUME Bad # {} PROVE FALSE
  OBVIOUS
<1>2. IsWellFoundedOn(R, Nat)
  BY NatLessThanWellFounded DEF OpToRel
<1>3. Bad \subseteq Nat
  OBVIOUS
<1>4. PICK k \in Bad : \A j \in Bad : ~ (<<j, k>> \in R)
  <2> HIDE DEF R, Bad
  <2>1. QED
    BY <1>1, <1>2, <1>3, WFMin
<1>5. k # 0
  BY DEF Bounded
<1>6. Bounded(journal, k - 1)
  <2>1. k - 1 \in 0..Len(journal) /\ <<k - 1, k>> \in R
    BY <1>5
  <2>2. k - 1 \notin Bad
    BY <1>4, <2>1
  <2>3. QED
    BY <2>1, <2>2
<1>7. PICK n \in Nat : \A i \in 1..(k - 1) : journal[i] <= n
  BY <1>6 DEF Bounded
<1>8. k \in 1..Len(journal) /\ journal[k] \in Nat
  BY <1>5
<1>9. \A i \in 1..k : journal[i] <= (IF journal[k] <= n THEN n ELSE journal[k])
  <2> SUFFICES ASSUME NEW i \in 1..k
               PROVE  journal[i] <= (IF journal[k] <= n THEN n ELSE journal[k])
    OBVIOUS
  <2>1. journal[i] \in Nat
    BY <1>8
  <2>2. CASE i = k
    BY <2>2, <1>8
  <2>3. CASE i # k
    BY <2>1, <2>3, <1>7, <1>8
  <2>4. QED
    BY <2>2, <2>3
<1>10. Bounded(journal, k)
  BY <1>8, <1>9 DEF Bounded
<1>11. QED
  BY <1>10

\* next_cycle gives a number, and one that the journal does not hold yet.
LEMMA NextCycleIsNew ==
  ASSUME NEW journal \in Seq(Nat)
  PROVE  /\ NextCycle(journal) \in Nat \ {0}
         /\ \A i \in DOMAIN journal : journal[i] < NextCycle(journal)
<1> DEFINE cycles == {journal[i] : i \in DOMAIN journal} \cup {0}
           R      == {ss \in Nat \X Nat : ss[1] < ss[2]}
           Above  == {n \in Nat : \A c \in cycles : c <= n}
<1>1. cycles \subseteq Nat
  OBVIOUS
<1>2. Above # {}
  <2>1. PICK n \in Nat : \A i \in 1..Len(journal) : journal[i] <= n
    BY JournalIsBounded DEF Bounded
  <2>2. n \in Above
    BY <2>1
  <2>3. QED
    BY <2>2
<1>3. IsWellFoundedOn(R, Nat)
  BY NatLessThanWellFounded DEF OpToRel
<1>4. PICK m \in Above : \A n \in Above : ~ (<<n, m>> \in R)
  <2>1. Above \subseteq Nat
    OBVIOUS
  <2> HIDE DEF R, Above
  <2>2. QED
    BY <1>2, <1>3, <2>1, WFMin
<1>5. m \in cycles
  <2>1. CASE m = 0
    BY <2>1
  <2>2. CASE m # 0
    <3>1. m - 1 \in Nat /\ <<m - 1, m>> \in R
      BY <2>2
    <3> m - 1 \notin Above
      BY <1>4, <3>1
    <3>2. PICK c \in cycles : ~ (c <= m - 1)
      BY <3>1
    <3>3. c <= m /\ c \in Nat
      BY <1>1, <1>4
    <3>4. c = m
      BY <3>2, <3>3
    <3>5. QED
      BY <3>4
  <2>3. QED
    BY <2>1, <2>2
<1>6. \E x \in cycles : \A c \in cycles : c <= x
  BY <1>4, <1>5
<1> DEFINE top == CHOOSE x \in cycles : \A c \in cycles : c <= x
<1>7. top \in cycles /\ \A c \in cycles : c <= top
  BY <1>6
<1>8. NextCycle(journal) = top + 1
  BY DEF NextCycle
<1> HIDE DEF top
<1>9. top \in Nat /\ \A i \in DOMAIN journal : journal[i] \in Nat /\ journal[i] <= top
  BY <1>1, <1>7
<1>10. QED
  BY <1>8, <1>9
-----------------------------------------------------------------------------
(* Types. *)

\* What the helpers make of rows are rows.
LEMMA RowsOfHelpers ==
  ASSUME NEW rows \in SUBSET Row, NEW crew \in SUBSET Agents,
         NEW status \in EngagementStatus
  PROVE  /\ Transition(rows, crew, status) \in SUBSET Row
         /\ AllReleased(rows) \in SUBSET Row
<1>1. ASSUME NEW e \in rows, NEW s \in EngagementStatus, NEW r \in BOOLEAN
      PROVE  [e EXCEPT !.status = s, !.released = r] \in Row
  BY DEF Row
<1>2. ASSUME NEW e \in rows, NEW s \in EngagementStatus
      PROVE  [e EXCEPT !.status = s] \in Row
  BY DEF Row
<1>3. ASSUME NEW e \in rows
      PROVE  e.status \in EngagementStatus
  BY DEF Row
<1>4. Transition(rows, crew, status) \in SUBSET Row
  <2>1. ASSUME NEW e \in rows
        PROVE  [e EXCEPT !.status = IF ~e.released /\ e.agent \in crew
                                    THEN status ELSE @] \in Row
    <3>1. CASE ~e.released /\ e.agent \in crew
      BY <3>1, <1>2
    <3>2. CASE ~(~e.released /\ e.agent \in crew)
      BY <3>2, <1>2, <1>3
    <3>3. QED
      BY <3>1, <3>2
  <2>2. QED
    BY <2>1 DEF Transition
<1>5. AllReleased(rows) \in SUBSET Row
  <2>1. ASSUME NEW e \in rows
        PROVE  [e EXCEPT !.status = IF e.released THEN @ ELSE "completed",
                         !.released = TRUE] \in Row
    <3>1. "completed" \in EngagementStatus
      BY DEF EngagementStatus
    <3>2. CASE e.released
      BY <3>2, <1>1, <1>3
    <3>3. CASE ~e.released
      BY <3>3, <3>1, <1>1
    <3>4. QED
      BY <3>2, <3>3
  <2>2. QED
    BY <2>1 DEF AllReleased
<1>6. QED
  BY <1>4, <1>5

\* The agents of a set of rows are agents.
LEMMA CrewOfRows ==
  ASSUME NEW rows \in SUBSET Row
  PROVE  {e.agent : e \in {r \in rows : ~r.released}} \in SUBSET Agents
  BY DEF Row

\* An idle process is a process.
LEMMA IdleProcess == Idle \in Process /\ Idle.pc = "idle"
<1>1. (CHOOSE p \in Projects : TRUE) \in Projects
  BY ProjectsAssumption
<1> DEFINE some == CHOOSE p \in Projects : TRUE
<1>2. <<>> \in Seq(Nat) /\ {} \in SUBSET Row /\ {} \in SUBSET Agents
  OBVIOUS
<1>3. Idle = [pc |-> "idle", on |-> some, rows |-> {}, journal |-> <<>>,
              agent |-> "none", status |-> "active", crew |-> {},
              loaded |-> {}, cycle |-> 0, left |-> 0, outcome |-> "none"]
  BY DEF Idle
<1>4. some \in Projects
  BY <1>1
<1> HIDE DEF some
<1>5. QED
  BY <1>2, <1>3, <1>4 DEF Process, Steps, ProjectStatus

(* TypeOK: the records and the processes stay well typed. *)
THEOREM TypeCorrect == Spec => []TypeOK
<1>1. Init => TypeOK
  <2> SUFFICES ASSUME Init PROVE TypeOK
    OBVIOUS
  <2>1. NewProject \in Record
    <3>1. <<>> \in Seq(Nat) /\ {} \in SUBSET Row
      OBVIOUS
    <3>2. QED
      BY <3>1 DEF NewProject, Record, ProjectStatus
  <2>2. QED
    BY <2>1, IdleProcess DEF Init, TypeOK
<1>2. TypeOK /\ [Next]_vars => TypeOK'
  <2> SUFFICES ASSUME TypeOK, [Next]_vars PROVE TypeOK'
    OBVIOUS
  <2>0. /\ \A p \in Projects : store[p] \in Record
        /\ \A o \in Operators : proc[o] \in Process
    BY DEF TypeOK
  <2>1. CASE UNCHANGED vars
    BY <2>1 DEF vars, TypeOK
  \* A step of o leaves it a process; the records it writes are records.
  <2>2. ASSUME NEW o \in Operators, NEW me \in Process,
               proc' = [proc EXCEPT ![o] = me],
               me.pc \in {"booking", "assigning"} => me.agent \in Agents,
               store' \in [Projects -> Record], made' \in Nat,
               died' \subseteq Projects
        PROVE  TypeOK'
    BY <2>2 DEF TypeOK
  <2>3. ASSUME NEW p \in Projects, NEW rows \in SUBSET Row
        PROVE  [store EXCEPT ![p].rows = rows] \in [Projects -> Record]
    BY <2>0 DEF TypeOK, Record
  <2>4. ASSUME NEW o \in Operators, NEW p \in Projects, Typed(o, p) PROVE TypeOK'
    <3>0. store[p].rows \in SUBSET Row /\ store[p].journal \in Seq(Nat)
      BY <2>0 DEF Record
    <3>00. ASSUME NEW pc \in Steps, NEW me \in Process, me.pc = pc,
                  pc = "booking" => me.agent \in Agents, pc # "assigning",
                  proc' = [proc EXCEPT ![o] = me], UNCHANGED <<store, made, died>>
           PROVE  TypeOK'
      BY <3>00, <2>2 DEF TypeOK
    <3>1. ASSUME NEW a \in Agents, StartAssign(o, p, a) PROVE TypeOK'
      <4> DEFINE me == [Idle EXCEPT !.pc = "booking", !.on = p,
                                    !.rows = store[p].rows, !.agent = a]
      <4>1. me \in Process /\ me.pc = "booking" /\ me.agent = a
        BY <3>0, IdleProcess DEF Process, Steps
      <4>2. proc' = [proc EXCEPT ![o] = me] /\ UNCHANGED <<store, made, died>>
        BY <3>1 DEF StartAssign
      <4> HIDE DEF me
      <4>3. QED
        BY <3>00, <4>1, <4>2 DEF Steps
    <3>2. ASSUME NEW a \in Agents, StartRelease(o, p, a) PROVE TypeOK'
      <4> DEFINE me == [Idle EXCEPT !.pc = "releasing", !.on = p,
                                    !.rows = store[p].rows, !.agent = a]
      <4>1. me \in Process /\ me.pc = "releasing"
        BY <3>0, IdleProcess DEF Process, Steps
      <4>2. proc' = [proc EXCEPT ![o] = me] /\ UNCHANGED <<store, made, died>>
        BY <3>2 DEF StartRelease
      <4> HIDE DEF me
      <4>3. QED
        BY <3>00, <4>1, <4>2 DEF Steps
    <3>3. ASSUME NEW s \in {"active", "paused"}, StartSetStatus(o, p, s) PROVE TypeOK'
      <4> DEFINE me == [Idle EXCEPT !.pc = "setting", !.on = p, !.status = s]
      <4>1. me \in Process /\ me.pc = "setting"
        BY IdleProcess DEF Process, Steps, ProjectStatus
      <4>2. proc' = [proc EXCEPT ![o] = me] /\ UNCHANGED <<store, made, died>>
        BY <3>3 DEF StartSetStatus
      <4> HIDE DEF me
      <4>3. QED
        BY <3>00, <4>1, <4>2 DEF Steps
    <3>4. CASE StartComplete(o, p)
      <4> DEFINE me == [Idle EXCEPT !.pc = "completing", !.on = p,
                                    !.rows = store[p].rows]
      <4>1. me \in Process /\ me.pc = "completing"
        BY <3>0, IdleProcess DEF Process, Steps
      <4>2. proc' = [proc EXCEPT ![o] = me] /\ UNCHANGED <<store, made, died>>
        BY <3>4 DEF StartComplete, Reads
      <4> HIDE DEF me
      <4>3. QED
        BY <3>00, <4>1, <4>2 DEF Steps
    <3>5. ASSUME NEW force \in Forces, NEW n \in 1..MaxRounds,
                 StartCycle(o, p, force, n)
          PROVE  TypeOK'
      <4> DEFINE crew  == {e.agent : e \in ActiveRows(store[p])}
                 cycle == NextCycle(store[p].journal)
                 me    == [Idle EXCEPT !.pc = "confirming", !.on = p, !.crew = crew,
                                       !.loaded = crew, !.cycle = cycle, !.left = n]
      <4>1. crew \in SUBSET Agents
        BY <3>0, CrewOfRows DEF ActiveRows
      <4>2. cycle \in Nat
        BY <3>0, NextCycleIsNew
      <4>3. n \in Nat
        OBVIOUS
      <4>4. proc' = [proc EXCEPT ![o] = me] /\ UNCHANGED <<store, made, died>>
        BY <3>5 DEF StartCycle
      <4> HIDE DEF crew, cycle
      <4>5. me \in Process /\ me.pc = "confirming"
        BY <4>1, <4>2, <4>3, IdleProcess DEF Process, Steps
      <4> HIDE DEF me
      <4>6. QED
        BY <3>00, <4>4, <4>5 DEF Steps
    <3>6. QED
      BY <2>4, <3>1, <3>2, <3>3, <3>4, <3>5 DEF Typed
  <2>5. ASSUME NEW o \in Operators, Step(o) PROVE TypeOK'
    <3> DEFINE me == proc[o]
    <3>0. me \in Process
      BY <2>0
    <3>1. /\ me.on \in Projects /\ me.rows \in SUBSET Row
          /\ me.crew \in SUBSET Agents /\ me.journal \in Seq(Nat)
          /\ me.cycle \in Nat /\ me.status \in ProjectStatus
      BY <3>0 DEF Process
    <3>2. /\ store[me.on].rows \in SUBSET Row
          /\ store[me.on].journal \in Seq(Nat)
      BY <3>1, <2>0 DEF Record
    \* A command that ends leaves an idle process.
    <3>3. ASSUME Ends(o), store' \in [Projects -> Record], made' \in Nat,
                 died' \subseteq Projects
          PROVE  TypeOK'
      BY <3>3, <2>2, IdleProcess DEF Ends
    <3>4. ASSUME NEW to \in Process, proc' = [proc EXCEPT ![o] = to],
                 to.pc \notin {"booking", "assigning"},
                 store' \in [Projects -> Record], made' = made,
                 died' \subseteq Projects
          PROVE  TypeOK'
      BY <3>4, <2>2 DEF TypeOK
    <3>5. store \in [Projects -> Record] /\ made \in Nat /\ died \subseteq Projects
      BY DEF TypeOK
    <3>6. CASE CheckBookings(o)
      <4>1. UNCHANGED <<store, made, died>> /\ At(o, "booking")
        BY <3>6 DEF CheckBookings
      <4>2. CASE Ends(o)
        BY <4>1, <4>2, <3>3, <3>5
      <4>3. CASE Goes(o, "assigning")
        <5> DEFINE to == [proc[o] EXCEPT !.pc = "assigning"]
        <5>1. to \in Process /\ to.agent = proc[o].agent
          BY <3>0 DEF Process, Steps
        <5>2. proc[o].agent \in Agents
          BY <4>1 DEF TypeOK, At
        <5>3. proc' = [proc EXCEPT ![o] = to]
          BY <4>3 DEF Goes
        <5> HIDE DEF to
        <5>4. QED
          BY <5>1, <5>2, <5>3, <4>1, <3>5, <2>2
      <4>4. QED
        BY <3>6, <4>2, <4>3 DEF CheckBookings
    <3>7. CASE Assign(o)
      <4> DEFINE new == [id |-> made + 1, agent |-> proc[o].agent,
                         status |-> "queued", released |-> FALSE]
      <4>1. proc[o].agent \in Agents
        BY <3>7 DEF Assign, At, TypeOK
      <4>2. new \in Row
        BY <4>1, <3>5 DEF Row, EngagementStatus
      <4>3. store' = [store EXCEPT ![me.on].rows = me.rows \cup {new}]
        BY <3>7 DEF Assign
      <4> HIDE DEF new
      <4>4. store' \in [Projects -> Record]
        BY <3>1, <4>2, <4>3, <2>3
      <4>5. QED
        BY <3>7, <3>3, <3>5, <4>4 DEF Assign
    <3>8. CASE Release(o)
      <4> DEFINE rows == {[e EXCEPT !.released = @ \/ e.agent = proc[o].agent]
                            : e \in proc[o].rows}
      <4>1. rows \in SUBSET Row
        BY <3>1 DEF Row
      <4>2. store' = [store EXCEPT ![me.on].rows = rows]
        BY <3>8 DEF Release
      <4> HIDE DEF rows
      <4>3. store' \in [Projects -> Record]
        BY <3>1, <4>1, <4>2, <2>3
      <4>4. QED
        BY <3>8, <3>3, <3>5, <4>3 DEF Release
    <3>9. CASE SetStatus(o)
      <4>1. store' \in [Projects -> Record]
        BY <3>9, <3>1, <3>5 DEF SetStatus, Record
      <4>2. QED
        BY <3>9, <3>3, <3>5, <4>1 DEF SetStatus
    <3>10. CASE Complete(o)
      <4>1. AllReleased(proc[o].rows) \in SUBSET Row
        BY <3>1, RowsOfHelpers DEF EngagementStatus
      <4>2. store' \in [Projects -> Record]
        BY <3>10, <3>5, <4>1 DEF Complete, Record, ProjectStatus
      <4>3. QED
        BY <3>10, <3>3, <3>5, <4>2 DEF Complete
    <3>11. CASE Decline(o)
      BY <3>11, <3>3, <3>5 DEF Decline
    <3>12. CASE RefuseMission(o)
      <4> DEFINE to == [proc[o] EXCEPT !.pc = "reporting", !.outcome = "failed"]
      <4>1. to \in Process /\ to.pc = "reporting"
        BY <3>0 DEF Process, Steps
      <4>2. proc' = [proc EXCEPT ![o] = to] /\ UNCHANGED <<store, made, died>>
        BY <3>12 DEF RefuseMission
      <4> HIDE DEF to
      <4>3. QED
        BY <3>4, <3>5, <4>1, <4>2
    <3>13. CASE Dispatch(o)
      <4> DEFINE to == [proc[o] EXCEPT !.pc = "swarming",
                                       !.rows = store[proc[o].on].rows]
      <4>1. to \in Process /\ to.pc = "swarming"
        BY <3>0, <3>2 DEF Process, Steps
      <4>2. proc' = [proc EXCEPT ![o] = to] /\ UNCHANGED <<store, made, died>>
        BY <3>13 DEF Dispatch
      <4> HIDE DEF to
      <4>3. QED
        BY <3>4, <3>5, <4>1, <4>2
    <3>14. CASE Swarm(o)
      <4> DEFINE rows == Transition(proc[o].rows, proc[o].crew, "swarming")
                 to   == [proc[o] EXCEPT !.pc = "out", !.rows = rows]
      <4>1. rows \in SUBSET Row
        BY <3>1, RowsOfHelpers DEF EngagementStatus
      <4>2. /\ Moves(o, rows) /\ proc' = [proc EXCEPT ![o] = to]
            /\ UNCHANGED <<made, died>>
        BY <3>14 DEF Swarm
      <4> HIDE DEF rows
      <4>3. store' \in [Projects -> Record]
        BY <3>1, <3>5, <4>1, <4>2, <2>3 DEF Moves
      <4>4. to \in Process /\ to.pc = "out"
        BY <3>0, <4>1 DEF Process, Steps
      <4> HIDE DEF to
      <4>5. QED
        BY <3>4, <3>5, <4>2, <4>3, <4>4
    <3>15. ASSUME NEW outcome \in {"complete", "failed"}, Land(o, outcome)
           PROVE  TypeOK'
      <4> DEFINE status == IF outcome = "complete" THEN "review" ELSE "smoked"
                 rows   == Transition(proc[o].rows, proc[o].crew, status)
                 to     == [proc[o] EXCEPT !.pc = "reporting",
                                           !.outcome = outcome, !.rows = {}]
      <4>1. rows \in SUBSET Row
        BY <3>1, RowsOfHelpers DEF EngagementStatus
      <4>2. /\ Moves(o, rows) /\ proc' = [proc EXCEPT ![o] = to]
            /\ died' \subseteq died /\ UNCHANGED made
        BY <3>15 DEF Land
      <4> HIDE DEF rows
      <4>3. store' \in [Projects -> Record]
        BY <3>1, <3>5, <4>1, <4>2, <2>3 DEF Moves
      <4>4. to \in Process /\ to.pc = "reporting"
        BY <3>0 DEF Process, Steps
      <4> HIDE DEF to
      <4>5. QED
        BY <3>4, <3>5, <4>2, <4>3, <4>4
    <3>16. CASE Reread(o)
      <4> DEFINE to == [proc[o] EXCEPT !.pc = "journalling",
                           !.rows = store[proc[o].on].rows,
                           !.journal = store[proc[o].on].journal]
      <4>1. to \in Process /\ to.pc = "journalling"
        BY <3>0, <3>2 DEF Process, Steps
      <4>2. proc' = [proc EXCEPT ![o] = to] /\ UNCHANGED <<store, made, died>>
        BY <3>16 DEF Reread
      <4> HIDE DEF to
      <4>3. QED
        BY <3>4, <3>5, <4>1, <4>2
    <3>17. CASE Journal(o)
      <4> DEFINE journal == Append(proc[o].journal, proc[o].cycle)
                 crew    == {e.agent : e \in {r \in proc[o].rows : ~r.released}}
                 cycle   == NextCycle(journal)
                 to      == [proc[o] EXCEPT !.pc = "confirming", !.rows = {},
                               !.journal = <<>>, !.crew = crew, !.cycle = cycle,
                               !.left = @ - 1, !.outcome = "none"]
      <4>1. journal \in Seq(Nat)
        BY <3>1
      <4>2. crew \in SUBSET Agents
        BY <3>1, CrewOfRows
      <4>3. store' = [store EXCEPT ![me.on].journal = journal]
        BY <3>17 DEF Journal
      <4>4. \/ proc[o].left > 1 /\ proc' = [proc EXCEPT ![o] = to]
            \/ Ends(o)
        BY <3>17 DEF Journal
      <4>5. UNCHANGED <<made, died>>
        BY <3>17 DEF Journal
      <4> HIDE DEF journal, crew
      <4>6. cycle \in Nat
        BY <4>1, NextCycleIsNew
      <4>7. store' \in [Projects -> Record]
        BY <3>1, <3>5, <4>1, <4>3 DEF Record
      <4> HIDE DEF cycle
      <4>8. ASSUME proc[o].left > 1 PROVE to \in Process /\ to.pc = "confirming"
        <5>1. proc[o].left - 1 \in Nat
          BY <3>0, <4>8 DEF Process
        <5>2. <<>> \in Seq(Nat) /\ {} \in SUBSET Row
          OBVIOUS
        <5>3. QED
          BY <3>0, <4>2, <4>6, <5>1, <5>2 DEF Process, Steps
      <4> HIDE DEF to
      <4>9. QED
        BY <3>3, <3>4, <3>5, <4>4, <4>5, <4>7, <4>8
    <3>18. QED
      BY <2>5, <3>6, <3>7, <3>8, <3>9, <3>10, <3>11, <3>12, <3>13, <3>14,
         <3>15, <3>16, <3>17 DEF Step
  <2>6. ASSUME NEW o \in Operators, Crash(o) PROVE TypeOK'
    <3>1. proc[o].on \in Projects
      BY <2>0 DEF Process
    <3>2. QED
      BY <2>6, <2>2, <3>1, IdleProcess DEF Crash, Ends, TypeOK
  <2>7. QED
    BY <2>1, <2>4, <2>5, <2>6 DEF Next
<1>3. QED
  BY <1>1, <1>2, PTL DEF Spec
-----------------------------------------------------------------------------
(* One engagement per agent. *)

Single(rows) ==
  \A e, f \in rows : ~e.released /\ ~f.released /\ e.agent = f.agent => e = f

\* Every list of rows, on disk or in a process, is in order; the one a process
\* will add an agent to does not hold the agent yet.
OneInv ==
  /\ \A p \in Projects : Single(store[p].rows)
  /\ \A o \in Operators : Single(proc[o].rows)
  /\ \A o \in Operators : proc[o].pc \in {"booking", "assigning"} =>
       \A e \in proc[o].rows : ~e.released => e.agent # proc[o].agent

Closed(rows, agent) == {[e EXCEPT !.released = @ \/ e.agent = agent] : e \in rows}

\* What the commands make of a list that is in order is in order.
LEMMA SingleKept ==
  ASSUME NEW rows \in SUBSET Row, Single(rows), NEW crew, NEW status, NEW agent
  PROVE  /\ Single(Transition(rows, crew, status))
         /\ Single(AllReleased(rows))
         /\ Single(Closed(rows, agent))
<1>1. \A e \in rows : e = [id |-> e.id, agent |-> e.agent, status |-> e.status,
                            released |-> e.released]
  BY DEF Row
<1>2. Single(Transition(rows, crew, status))
  BY <1>1 DEF Single, Transition
<1>3. Single(AllReleased(rows))
  BY <1>1 DEF Single, AllReleased
<1>4. Single(Closed(rows, agent))
  <2>1. SUFFICES ASSUME NEW e \in rows, NEW f \in rows,
                        NEW e1, e1 = [e EXCEPT !.released = @ \/ e.agent = agent],
                        NEW f1, f1 = [f EXCEPT !.released = @ \/ f.agent = agent],
                        ~e1.released, ~f1.released, e1.agent = f1.agent
                 PROVE  e = f
    BY DEF Single, Closed
  <2>2. /\ e1.agent = e.agent /\ e1.released = (e.released \/ e.agent = agent)
        /\ f1.agent = f.agent /\ f1.released = (f.released \/ f.agent = agent)
    BY <2>1 DEF Row
  <2>3. QED
    BY <2>1, <2>2 DEF Single
<1>5. QED
  BY <1>2, <1>3, <1>4

(* OneEngagement: an agent has at most one active row on a project, for any  *)
(* number of processes that assign, release, complete and run cycles.       *)
THEOREM OneEngagementHolds == Spec => []OneEngagement
<1>1. Init => OneInv
  BY DEF Init, OneInv, Single, NewProject, Idle
<1>2. TypeOK /\ OneInv /\ [Next]_vars => OneInv'
  <2> SUFFICES ASSUME TypeOK, OneInv, [Next]_vars PROVE OneInv'
    OBVIOUS
  <2>0. /\ store \in [Projects -> Record] /\ proc \in [Operators -> Process]
        /\ \A p \in Projects : store[p].rows \in SUBSET Row /\ Single(store[p].rows)
        /\ \A o \in Operators : /\ proc[o].on \in Projects
                               /\ proc[o].rows \in SUBSET Row
                               /\ Single(proc[o].rows)
    BY DEF TypeOK, OneInv, Record, Process
  <2>1. CASE UNCHANGED vars
    BY <2>1 DEF vars, OneInv
  \* It is enough to look at the process that moves and the rows it writes.
  <2>2. ASSUME NEW o \in Operators, NEW me, proc' = [proc EXCEPT ![o] = me],
               Single(me.rows),
               me.pc \in {"booking", "assigning"} =>
                 \A e \in me.rows : ~e.released => e.agent # me.agent,
               \A p \in Projects : Single(store'[p].rows)
        PROVE  OneInv'
    BY <2>2, <2>0 DEF OneInv
  <2>3. ASSUME NEW o \in Operators, Ends(o),
               \A p \in Projects : Single(store'[p].rows)
        PROVE  OneInv'
    <3>1. Single(Idle.rows) /\ Idle.pc = "idle"
      BY DEF Idle, Single
    <3>2. QED
      BY <2>2, <2>3, <3>1 DEF Ends
  <2>4. ASSUME NEW o \in Operators, NEW p \in Projects, Typed(o, p) PROVE OneInv'
    <3>1. ASSUME NEW a \in Agents, StartAssign(o, p, a) PROVE OneInv'
      <4> DEFINE me == [Idle EXCEPT !.pc = "booking", !.on = p,
                                    !.rows = store[p].rows, !.agent = a]
      <4>1. me.rows = store[p].rows /\ me.agent = a
        BY DEF Idle
      <4>2. proc' = [proc EXCEPT ![o] = me] /\ UNCHANGED store
        BY <3>1 DEF StartAssign
      <4>3. \A e \in me.rows : ~e.released => e.agent # me.agent
        BY <3>1, <4>1 DEF StartAssign, Engaged, ActiveRows
      <4> HIDE DEF me
      <4>4. QED
        BY <2>0, <2>2, <4>1, <4>2, <4>3
    <3>2. ASSUME NEW a \in Agents, StartRelease(o, p, a) PROVE OneInv'
      <4> DEFINE me == [Idle EXCEPT !.pc = "releasing", !.on = p,
                                    !.rows = store[p].rows, !.agent = a]
      <4>1. me.rows = store[p].rows /\ me.pc = "releasing"
        BY DEF Idle
      <4>2. proc' = [proc EXCEPT ![o] = me] /\ UNCHANGED store
        BY <3>2 DEF StartRelease
      <4> HIDE DEF me
      <4>3. QED
        BY <2>0, <2>2, <4>1, <4>2
    <3>3. ASSUME NEW s \in {"active", "paused"}, StartSetStatus(o, p, s) PROVE OneInv'
      <4> DEFINE me == [Idle EXCEPT !.pc = "setting", !.on = p, !.status = s]
      <4>1. Single(me.rows) /\ me.pc = "setting"
        BY DEF Idle, Single
      <4>2. proc' = [proc EXCEPT ![o] = me] /\ UNCHANGED store
        BY <3>3 DEF StartSetStatus
      <4> HIDE DEF me
      <4>3. QED
        BY <2>0, <2>2, <4>1, <4>2
    <3>4. CASE StartComplete(o, p)
      <4> DEFINE me == [Idle EXCEPT !.pc = "completing", !.on = p,
                                    !.rows = store[p].rows]
      <4>1. me.rows = store[p].rows /\ me.pc = "completing"
        BY DEF Idle
      <4>2. proc' = [proc EXCEPT ![o] = me] /\ UNCHANGED store
        BY <3>4 DEF StartComplete, Reads
      <4> HIDE DEF me
      <4>3. QED
        BY <2>0, <2>2, <4>1, <4>2
    <3>5. ASSUME NEW force \in Forces, NEW n \in 1..MaxRounds,
                 StartCycle(o, p, force, n)
          PROVE  OneInv'
      <4> DEFINE crew  == {e.agent : e \in ActiveRows(store[p])}
                 cycle == NextCycle(store[p].journal)
                 me    == [Idle EXCEPT !.pc = "confirming", !.on = p, !.crew = crew,
                                       !.loaded = crew, !.cycle = cycle, !.left = n]
      <4>1. proc' = [proc EXCEPT ![o] = me] /\ UNCHANGED store
        BY <3>5 DEF StartCycle
      <4> HIDE DEF crew, cycle
      <4>2. Single(me.rows) /\ me.pc = "confirming"
        BY DEF Idle, Single
      <4> HIDE DEF me
      <4>3. QED
        BY <2>0, <2>2, <4>1, <4>2
    <3>6. QED
      BY <2>4, <3>1, <3>2, <3>3, <3>4, <3>5 DEF Typed
  <2>5. ASSUME NEW o \in Operators, Step(o) PROVE OneInv'
    <3> DEFINE me == proc[o]
    <3>1. CASE CheckBookings(o)
      <4>1. CASE Ends(o)
        BY <3>1, <4>1, <2>0, <2>3 DEF CheckBookings
      <4>2. CASE Goes(o, "assigning")
        <5> DEFINE to == [proc[o] EXCEPT !.pc = "assigning"]
        <5>1. to.rows = me.rows /\ to.agent = me.agent /\ me.pc = "booking"
          BY <2>0, <3>1 DEF Process, CheckBookings, At
        <5>2. proc' = [proc EXCEPT ![o] = to] /\ UNCHANGED store
          BY <3>1, <4>2 DEF Goes, CheckBookings
        <5> HIDE DEF to
        <5>3. \A e \in to.rows : ~e.released => e.agent # to.agent
          BY <5>1 DEF OneInv
        <5>4. QED
          BY <2>0, <2>2, <5>1, <5>2, <5>3
      <4>3. QED
        BY <3>1, <4>1, <4>2 DEF CheckBookings
    <3>2. CASE Assign(o)
      <4> DEFINE new  == [id |-> made + 1, agent |-> me.agent,
                          status |-> "queued", released |-> FALSE]
                 rows == me.rows \cup {new}
      <4>1. \A e \in me.rows : ~e.released => e.agent # me.agent
        BY <3>2 DEF OneInv, Assign, At
      <4>2. Single(rows)
        <5>1. new.agent = me.agent
          OBVIOUS
        <5> HIDE DEF new
        <5>2. QED
          BY <2>0, <4>1, <5>1 DEF Single
      <4>3. store' = [store EXCEPT ![me.on].rows = rows] /\ Ends(o)
        BY <3>2 DEF Assign
      <4> HIDE DEF rows
      <4>4. \A p \in Projects : Single(store'[p].rows)
        BY <2>0, <4>2, <4>3 DEF Record
      <4>5. QED
        BY <2>3, <4>3, <4>4
    <3>3. CASE Release(o)
      <4> DEFINE rows == Closed(me.rows, me.agent)
      <4>1. Single(rows)
        BY <2>0, SingleKept
      <4>2. store' = [store EXCEPT ![me.on].rows = rows] /\ Ends(o)
        BY <3>3 DEF Release, Closed
      <4> HIDE DEF rows
      <4>3. \A p \in Projects : Single(store'[p].rows)
        BY <2>0, <4>1, <4>2 DEF Record
      <4>4. QED
        BY <2>3, <4>2, <4>3
    <3>4. CASE SetStatus(o)
      <4>1. \A p \in Projects : store'[p].rows = store[p].rows
        BY <3>4, <2>0 DEF SetStatus, Record
      <4>2. QED
        BY <3>4, <4>1, <2>0, <2>3 DEF SetStatus
    <3>5. CASE Complete(o)
      <4> DEFINE rows == AllReleased(me.rows)
      <4>1. Single(rows)
        BY <2>0, SingleKept
      <4>2. /\ store' = [store EXCEPT ![me.on].rows = rows,
                                      ![me.on].status = "complete"]
            /\ Ends(o)
        BY <3>5 DEF Complete
      <4> HIDE DEF rows
      <4>3. \A p \in Projects : Single(store'[p].rows)
        BY <2>0, <4>1, <4>2 DEF Record
      <4>4. QED
        BY <2>3, <4>2, <4>3
    <3>6. CASE Decline(o)
      BY <3>6, <2>0, <2>3 DEF Decline
    <3>7. CASE RefuseMission(o)
      <4> DEFINE to == [proc[o] EXCEPT !.pc = "reporting", !.outcome = "failed"]
      <4>1. to.rows = me.rows /\ to.pc = "reporting"
        BY <2>0 DEF Process
      <4>2. proc' = [proc EXCEPT ![o] = to] /\ UNCHANGED store
        BY <3>7 DEF RefuseMission
      <4> HIDE DEF to
      <4>3. QED
        BY <2>0, <2>2, <4>1, <4>2
    <3>8. CASE Dispatch(o)
      <4> DEFINE to == [proc[o] EXCEPT !.pc = "swarming", !.rows = store[me.on].rows]
      <4>1. to.rows = store[me.on].rows /\ to.pc = "swarming"
        BY <2>0 DEF Process
      <4>2. proc' = [proc EXCEPT ![o] = to] /\ UNCHANGED store
        BY <3>8 DEF Dispatch
      <4> HIDE DEF to
      <4>3. QED
        BY <2>0, <2>2, <4>1, <4>2
    <3>9. CASE Swarm(o)
      <4> DEFINE rows == Transition(me.rows, me.crew, "swarming")
                 to   == [proc[o] EXCEPT !.pc = "out", !.rows = rows]
      <4>1. Single(rows)
        BY <2>0, SingleKept
      <4>2. Moves(o, rows) /\ proc' = [proc EXCEPT ![o] = to]
        BY <3>9 DEF Swarm
      <4> HIDE DEF rows
      <4>3. \A p \in Projects : Single(store'[p].rows)
        BY <2>0, <4>1, <4>2 DEF Record, Moves
      <4>4. to.rows = rows /\ to.pc = "out"
        BY <2>0 DEF Process
      <4> HIDE DEF to
      <4>5. QED
        BY <2>2, <4>1, <4>2, <4>3, <4>4
    <3>10. ASSUME NEW outcome \in {"complete", "failed"}, Land(o, outcome)
           PROVE  OneInv'
      <4> DEFINE status == IF outcome = "complete" THEN "review" ELSE "smoked"
                 rows   == Transition(me.rows, me.crew, status)
                 to     == [proc[o] EXCEPT !.pc = "reporting",
                                           !.outcome = outcome, !.rows = {}]
      <4>1. Single(rows)
        BY <2>0, SingleKept
      <4>2. Moves(o, rows) /\ proc' = [proc EXCEPT ![o] = to]
        BY <3>10 DEF Land
      <4> HIDE DEF rows
      <4>3. \A p \in Projects : Single(store'[p].rows)
        BY <2>0, <4>1, <4>2 DEF Record, Moves
      <4>4. Single(to.rows) /\ to.pc = "reporting"
        BY <2>0 DEF Process, Single
      <4> HIDE DEF to
      <4>5. QED
        BY <2>2, <4>2, <4>3, <4>4
    <3>11. CASE Reread(o)
      <4> DEFINE to == [proc[o] EXCEPT !.pc = "journalling",
                           !.rows = store[proc[o].on].rows,
                           !.journal = store[proc[o].on].journal]
      <4>1. to.rows = store[me.on].rows /\ to.pc = "journalling"
        BY <2>0 DEF Process
      <4>2. proc' = [proc EXCEPT ![o] = to] /\ UNCHANGED store
        BY <3>11 DEF Reread
      <4> HIDE DEF to
      <4>3. QED
        BY <2>0, <2>2, <4>1, <4>2
    <3>12. CASE Journal(o)
      <4> DEFINE journal == Append(proc[o].journal, proc[o].cycle)
                 crew    == {e.agent : e \in {r \in proc[o].rows : ~r.released}}
                 to      == [proc[o] EXCEPT !.pc = "confirming", !.rows = {},
                               !.journal = <<>>, !.crew = crew,
                               !.cycle = NextCycle(journal),
                               !.left = @ - 1, !.outcome = "none"]
      <4>1. store' = [store EXCEPT ![me.on].journal = journal]
        BY <3>12 DEF Journal
      <4>2. proc' = [proc EXCEPT ![o] = to] \/ Ends(o)
        BY <3>12 DEF Journal
      <4> HIDE DEF journal, crew
      <4>3. \A p \in Projects : store'[p].rows = store[p].rows
        BY <4>1, <2>0 DEF Record
      <4>4. Single(to.rows) /\ to.pc = "confirming"
        BY <2>0 DEF Process, Single
      <4> HIDE DEF to
      <4>5. QED
        BY <2>0, <2>2, <2>3, <4>2, <4>3, <4>4
    <3>13. QED
      BY <2>5, <3>1, <3>2, <3>3, <3>4, <3>5, <3>6, <3>7, <3>8, <3>9, <3>10,
         <3>11, <3>12 DEF Step
  <2>6. ASSUME NEW o \in Operators, Crash(o) PROVE OneInv'
    BY <2>6, <2>0, <2>3 DEF Crash
  <2>7. QED
    BY <2>1, <2>4, <2>5, <2>6 DEF Next
<1>3. OneInv => OneEngagement
  BY DEF OneInv, OneEngagement, Single, ActiveRows
<1>4. QED
  BY <1>1, <1>2, <1>3, TypeCorrect, PTL DEF Spec
-----------------------------------------------------------------------------
(***************************************************************************)
(* One operator.  While one process at a time works on the projects, the   *)
(* list a command holds is the list on disk.  That carries what the        *)
(* command checked over to what it writes; engagements_overlap and         *)
(* engagements_history show what is lost with a second operator.           *)
(***************************************************************************)
Alone == \A o1, o2 \in Operators : o1 = o2

Holding == {"booking", "assigning", "releasing", "completing", "swarming",
            "out", "journalling"}

FreshCopies == \A o \in Operators :
  proc[o].pc \in Holding => proc[o].rows = store[proc[o].on].rows

\* A cycle takes everyone along who is engaged on its project.
WholeCrew == \A o \in Operators :
  proc[o].pc \in {"confirming", "swarming", "out"} =>
    \A e \in ActiveRows(store[proc[o].on]) : e.agent \in proc[o].crew

\* What one step of a process o does to the rows, in a flat form.
RowsKept   == \A p \in Projects : store'[p].rows = store[p].rows
Rewritten(p, rows) ==
  \A q \in Projects : store'[q].rows = IF q = p THEN rows ELSE store[q].rows

NewRow(agent) == [id |-> made + 1, agent |-> agent, status |-> "queued",
                  released |-> FALSE]

Quiet(o) ==
  LET me == proc[o]  to == proc'[o] IN
  /\ RowsKept /\ me.pc # "out" /\ died' = died
  /\ \/ to.pc \in {"idle", "setting", "reporting"}
     \/ /\ to.pc \in {"booking", "releasing", "completing", "journalling"}
        /\ to.rows = store[to.on].rows
     \/ /\ to.pc = "assigning" /\ me.pc = "booking"
        /\ to.on = me.on /\ to.rows = me.rows /\ to.agent = me.agent
        /\ Cardinality(Bookings(me.agent, me.on)) + 1 <= Cap[me.on]
     \/ /\ to.pc = "confirming"
        /\ to.crew = {e.agent : e \in ActiveRows(store[to.on])}
     \/ /\ to.pc = "swarming" /\ me.pc = "confirming"
        /\ to.on = me.on /\ to.crew = me.crew /\ to.rows = store[to.on].rows

Books(o) == LET me == proc[o] IN
  /\ me.pc = "assigning" /\ proc'[o].pc = "idle" /\ died' = died
  /\ Rewritten(me.on, me.rows \cup {NewRow(me.agent)})

Frees(o) == LET me == proc[o] IN
  /\ proc'[o].pc = "idle" /\ died' = died
  /\ \/ me.pc = "releasing" /\ Rewritten(me.on, Closed(me.rows, me.agent))
     \/ me.pc = "completing" /\ Rewritten(me.on, AllReleased(me.rows))

Sets(o) == LET me == proc[o]  to == proc'[o] IN
  \/ /\ me.pc = "swarming" /\ to.pc = "out" /\ died' = died
     /\ to.on = me.on /\ to.crew = me.crew
     /\ to.rows = Transition(me.rows, me.crew, "swarming")
     /\ Rewritten(me.on, to.rows)
  \/ /\ me.pc = "out" /\ to.pc = "reporting" /\ died' = died \ {me.on}
     /\ \E s \in {"review", "smoked"} :
          Rewritten(me.on, Transition(me.rows, me.crew, s))

DiesOut(o) ==
  /\ proc[o].pc = "out" /\ proc'[o].pc = "idle"
  /\ RowsKept /\ died' = died \cup {proc[o].on}

Turn(o) ==
  /\ \A u \in Operators : u # o => proc'[u] = proc[u]
  /\ Quiet(o) \/ Books(o) \/ Frees(o) \/ Sets(o) \/ DiesOut(o)

LEMMA TypedIsTurn ==
  ASSUME TypeOK, NEW o \in Operators, NEW p \in Projects, Typed(o, p)
  PROVE  Turn(o)
<1>1. At(o, "idle") /\ \A u \in Operators : u # o => proc'[u] = proc[u]
  BY DEF Typed, StartAssign, StartRelease, StartSetStatus, StartComplete,
         StartCycle, Reads, TypeOK
<1>2. ASSUME NEW me, proc' = [proc EXCEPT ![o] = me],
             UNCHANGED <<store, died>>, At(o, "idle"),
             \/ me.pc = "setting"
             \/ /\ me.pc \in {"booking", "releasing", "completing"}
                /\ me.rows = store[me.on].rows
             \/ /\ me.pc = "confirming"
                /\ me.crew = {e.agent : e \in ActiveRows(store[me.on])}
      PROVE  Quiet(o)
  <2>1. proc'[o] = me
    BY <1>2 DEF TypeOK
  <2>2. QED
    BY <1>2, <2>1 DEF Quiet, RowsKept, At
<1>3. ASSUME NEW a \in Agents, StartAssign(o, p, a) PROVE Quiet(o)
  <2> DEFINE me == [Idle EXCEPT !.pc = "booking", !.on = p,
                                !.rows = store[p].rows, !.agent = a]
  <2>1. me.pc = "booking" /\ me.on = p /\ me.rows = store[p].rows
    BY DEF Idle
  <2>2. proc' = [proc EXCEPT ![o] = me] /\ UNCHANGED <<store, died>>
    BY <1>3 DEF StartAssign
  <2> HIDE DEF me
  <2>3. QED
    BY <1>1, <1>2, <2>1, <2>2
<1>4. ASSUME NEW a \in Agents, StartRelease(o, p, a) PROVE Quiet(o)
  <2> DEFINE me == [Idle EXCEPT !.pc = "releasing", !.on = p,
                                !.rows = store[p].rows, !.agent = a]
  <2>1. me.pc = "releasing" /\ me.on = p /\ me.rows = store[p].rows
    BY DEF Idle
  <2>2. proc' = [proc EXCEPT ![o] = me] /\ UNCHANGED <<store, died>>
    BY <1>4 DEF StartRelease
  <2> HIDE DEF me
  <2>3. QED
    BY <1>1, <1>2, <2>1, <2>2
<1>5. ASSUME NEW s \in {"active", "paused"}, StartSetStatus(o, p, s)
      PROVE  Quiet(o)
  <2> DEFINE me == [Idle EXCEPT !.pc = "setting", !.on = p, !.status = s]
  <2>1. me.pc = "setting"
    BY DEF Idle
  <2>2. proc' = [proc EXCEPT ![o] = me] /\ UNCHANGED <<store, died>>
    BY <1>5 DEF StartSetStatus
  <2> HIDE DEF me
  <2>3. QED
    BY <1>1, <1>2, <2>1, <2>2
<1>6. ASSUME StartComplete(o, p) PROVE Quiet(o)
  <2> DEFINE me == [Idle EXCEPT !.pc = "completing", !.on = p,
                                !.rows = store[p].rows]
  <2>1. me.pc = "completing" /\ me.on = p /\ me.rows = store[p].rows
    BY DEF Idle
  <2>2. proc' = [proc EXCEPT ![o] = me] /\ UNCHANGED <<store, died>>
    BY <1>6 DEF StartComplete, Reads
  <2> HIDE DEF me
  <2>3. QED
    BY <1>1, <1>2, <2>1, <2>2
<1>7. ASSUME NEW force \in Forces, NEW n \in 1..MaxRounds,
             StartCycle(o, p, force, n)
      PROVE  Quiet(o)
  <2> DEFINE crew  == {e.agent : e \in ActiveRows(store[p])}
             cycle == NextCycle(store[p].journal)
             me    == [Idle EXCEPT !.pc = "confirming", !.on = p, !.crew = crew,
                                   !.loaded = crew, !.cycle = cycle, !.left = n]
  <2>1. proc' = [proc EXCEPT ![o] = me] /\ UNCHANGED <<store, died>>
    BY <1>7 DEF StartCycle
  <2> HIDE DEF cycle
  <2>2. me.pc = "confirming" /\ me.on = p /\ me.crew = crew
    BY DEF Idle
  <2> HIDE DEF me
  <2>3. QED
    BY <1>1, <1>2, <2>1, <2>2
<1>8. Quiet(o)
  BY <1>3, <1>4, <1>5, <1>6, <1>7 DEF Typed
<1>9. QED
  BY <1>1, <1>8 DEF Turn

LEMMA StepIsTurn ==
  ASSUME TypeOK, FreshCopies, NEW o \in Operators, Step(o)
  PROVE  Turn(o)
<1> DEFINE me == proc[o]
<1>0. /\ me \in Process /\ me.on \in Projects /\ store \in [Projects -> Record]
      /\ me.rows \in SUBSET Row
  BY DEF TypeOK, Process
<1>1. me.pc \in Holding => me.rows = store[me.on].rows
  BY DEF FreshCopies
<1>2. \A u \in Operators : u # o => proc'[u] = proc[u]
  BY DEF Step, CheckBookings, Assign, Release, SetStatus, Complete, Decline,
         RefuseMission, Dispatch, Swarm, Land, Reread, Journal, Goes, Ends, TypeOK
<1>3. ASSUME NEW to, proc' = [proc EXCEPT ![o] = to] PROVE proc'[o] = to
  BY <1>3 DEF TypeOK
<1>4. ASSUME Ends(o) PROVE proc'[o].pc = "idle"
  <2>1. proc'[o] = Idle
    BY <1>3, <1>4 DEF Ends
  <2>2. QED
    BY <2>1 DEF Idle
<1>5. ASSUME NEW rows, store' = [store EXCEPT ![me.on].rows = rows]
      PROVE  Rewritten(me.on, rows)
  BY <1>0, <1>5 DEF Rewritten, Record
<1>6. UNCHANGED store => RowsKept
  BY DEF RowsKept
<1>7. ASSUME NEW rows, Moves(o, rows), me.pc \in Holding
      PROVE  Rewritten(me.on, rows)
  <2>1. CASE rows = me.rows
    BY <1>1, <1>7, <2>1 DEF Moves, Rewritten
  <2>2. CASE rows # me.rows
    BY <1>5, <1>7, <2>2 DEF Moves
  <2>3. QED
    BY <2>1, <2>2
<1>8. CASE CheckBookings(o)
  <2>1. me.pc = "booking" /\ RowsKept /\ died' = died
    BY <1>6, <1>8 DEF CheckBookings, At
  <2>2. CASE Ends(o)
    BY <1>2, <1>4, <2>1, <2>2 DEF Quiet, Turn
  <2>3. CASE /\ Goes(o, "assigning")
             /\ Cardinality(Bookings(me.agent, me.on)) + 1 <= Cap[me.on]
    <3> DEFINE to == [proc[o] EXCEPT !.pc = "assigning"]
    <3>1. proc' = [proc EXCEPT ![o] = to]
      BY <2>3 DEF Goes
    <3>2. /\ to.pc = "assigning" /\ to.on = me.on /\ to.rows = me.rows
          /\ to.agent = me.agent
      BY <1>0 DEF Process
    <3> HIDE DEF to
    <3>3. QED
      BY <1>2, <1>3, <2>1, <2>3, <3>1, <3>2 DEF Quiet, Turn
  <2>4. QED
    BY <1>8, <2>2, <2>3 DEF CheckBookings
<1>9. CASE Assign(o)
  <2>1. /\ me.pc = "assigning" /\ Ends(o) /\ died' = died
        /\ store' = [store EXCEPT ![me.on].rows = me.rows \cup {NewRow(me.agent)}]
    BY <1>9 DEF Assign, At, NewRow
  <2>2. QED
    BY <1>2, <1>4, <1>5, <2>1 DEF Books, Turn
<1>10. CASE Release(o)
  <2>1. /\ me.pc = "releasing" /\ Ends(o) /\ died' = died
        /\ store' = [store EXCEPT ![me.on].rows = Closed(me.rows, me.agent)]
    BY <1>10 DEF Release, At, Closed
  <2>2. QED
    BY <1>2, <1>4, <1>5, <2>1 DEF Frees, Turn
<1>11. CASE Complete(o)
  <2>1. /\ me.pc = "completing" /\ Ends(o) /\ died' = died
        /\ store' = [store EXCEPT ![me.on].rows = AllReleased(me.rows),
                                  ![me.on].status = "complete"]
    BY <1>11 DEF Complete, At
  <2>2. Rewritten(me.on, AllReleased(me.rows))
    BY <1>0, <2>1 DEF Rewritten, Record
  <2>3. QED
    BY <1>2, <1>4, <2>1, <2>2 DEF Frees, Turn
<1>12. CASE SetStatus(o) \/ Decline(o)
  <2>1. me.pc # "out" /\ Ends(o) /\ died' = died /\ RowsKept
    BY <1>0, <1>12 DEF SetStatus, Decline, At, RowsKept, Record
  <2>2. QED
    BY <1>2, <1>4, <2>1 DEF Quiet, Turn
<1>13. CASE RefuseMission(o)
  <2> DEFINE to == [proc[o] EXCEPT !.pc = "reporting", !.outcome = "failed"]
  <2>1. /\ proc' = [proc EXCEPT ![o] = to] /\ RowsKept /\ died' = died
        /\ me.pc # "out"
    BY <1>6, <1>13 DEF RefuseMission, At
  <2>2. to.pc = "reporting"
    BY <1>0 DEF Process
  <2> HIDE DEF to
  <2>3. QED
    BY <1>2, <1>3, <2>1, <2>2 DEF Quiet, Turn
<1>14. CASE Dispatch(o)
  <2> DEFINE to == [proc[o] EXCEPT !.pc = "swarming", !.rows = store[me.on].rows]
  <2>1. /\ proc' = [proc EXCEPT ![o] = to] /\ RowsKept /\ died' = died
        /\ me.pc = "confirming"
    BY <1>6, <1>14 DEF Dispatch, At
  <2>2. /\ to.pc = "swarming" /\ to.on = me.on /\ to.crew = me.crew
        /\ to.rows = store[me.on].rows
    BY <1>0 DEF Process
  <2> HIDE DEF to
  <2>3. QED
    BY <1>2, <1>3, <2>1, <2>2 DEF Quiet, Turn
<1>15. CASE Swarm(o)
  <2> DEFINE rows == Transition(me.rows, me.crew, "swarming")
             to   == [proc[o] EXCEPT !.pc = "out", !.rows = rows]
  <2>1. /\ proc' = [proc EXCEPT ![o] = to] /\ died' = died
        /\ me.pc = "swarming" /\ Moves(o, rows)
    BY <1>15 DEF Swarm, At
  <2> HIDE DEF rows
  <2>2. to.pc = "out" /\ to.on = me.on /\ to.crew = me.crew /\ to.rows = rows
    BY <1>0 DEF Process
  <2> HIDE DEF to
  <2>3. Rewritten(me.on, rows)
    BY <1>7, <2>1 DEF Holding
  <2>4. rows = Transition(me.rows, me.crew, "swarming")
    BY DEF rows
  <2>5. QED
    BY <1>2, <1>3, <2>1, <2>2, <2>3, <2>4 DEF Sets, Turn
<1>16. ASSUME NEW outcome \in {"complete", "failed"}, Land(o, outcome)
       PROVE  Turn(o)
  <2> DEFINE s    == IF outcome = "complete" THEN "review" ELSE "smoked"
             rows == Transition(me.rows, me.crew, s)
             to   == [proc[o] EXCEPT !.pc = "reporting", !.outcome = outcome,
                                     !.rows = {}]
  <2>1. /\ proc' = [proc EXCEPT ![o] = to] /\ died' = died \ {me.on}
        /\ me.pc = "out" /\ Moves(o, rows)
    BY <1>16 DEF Land, At
  <2>2. s \in {"review", "smoked"} /\ to.pc = "reporting"
    BY <1>0 DEF Process
  <2> HIDE DEF s, to
  <2>3. Rewritten(me.on, rows)
    BY <1>7, <2>1 DEF Holding
  <2>4. QED
    BY <1>2, <1>3, <2>1, <2>2, <2>3 DEF Sets, Turn
<1>17. CASE Reread(o)
  <2> DEFINE to == [proc[o] EXCEPT !.pc = "journalling",
                       !.rows = store[proc[o].on].rows,
                       !.journal = store[proc[o].on].journal]
  <2>1. /\ proc' = [proc EXCEPT ![o] = to] /\ RowsKept /\ died' = died
        /\ me.pc # "out"
    BY <1>6, <1>17 DEF Reread, At
  <2>2. /\ to.pc = "journalling" /\ to.on = me.on /\ to.rows = store[me.on].rows
    BY <1>0 DEF Process
  <2> HIDE DEF to
  <2>3. QED
    BY <1>2, <1>3, <2>1, <2>2 DEF Quiet, Turn
<1>18. CASE Journal(o)
  <2> DEFINE journal == Append(proc[o].journal, proc[o].cycle)
             crew    == {e.agent : e \in {r \in proc[o].rows : ~r.released}}
             cycle   == NextCycle(journal)
             to      == [proc[o] EXCEPT !.pc = "confirming", !.rows = {},
                           !.journal = <<>>, !.crew = crew, !.cycle = cycle,
                           !.left = @ - 1, !.outcome = "none"]
  <2>1. /\ store' = [store EXCEPT ![me.on].journal = journal]
        /\ me.pc = "journalling" /\ died' = died
    BY <1>18 DEF Journal, At
  <2>2. proc' = [proc EXCEPT ![o] = to] \/ Ends(o)
    BY <1>18 DEF Journal
  <2> HIDE DEF journal, cycle
  <2>3. RowsKept
    BY <1>0, <2>1 DEF RowsKept, Record
  <2>4. crew = {e.agent : e \in ActiveRows(store[me.on])}
    BY <1>1, <2>1 DEF ActiveRows, Holding
  <2>5. to.pc = "confirming" /\ to.on = me.on /\ to.crew = crew
    BY <1>0 DEF Process
  <2> HIDE DEF crew, to
  <2>6. QED
    BY <1>2, <1>3, <1>4, <2>1, <2>2, <2>3, <2>4, <2>5 DEF Quiet, Turn
<1>19. QED
  BY <1>8, <1>9, <1>10, <1>11, <1>12, <1>13, <1>14, <1>15, <1>16, <1>17, <1>18
     DEF Step

LEMMA NextIsTurn ==
  ASSUME TypeOK, FreshCopies, Next
  PROVE  \E o \in Operators : Turn(o)
<1>1. ASSUME NEW o \in Operators, Crash(o) PROVE Turn(o)
  <2>1. /\ Ends(o) /\ RowsKept
        /\ died' = IF proc[o].pc = "out" THEN died \cup {proc[o].on} ELSE died
    BY <1>1 DEF Crash, At, RowsKept
  <2>2. proc'[o] = Idle /\ \A u \in Operators : u # o => proc'[u] = proc[u]
    BY <2>1 DEF Ends, TypeOK
  <2>3. proc'[o].pc = "idle"
    BY <2>2 DEF Idle
  <2>4. QED
    BY <2>1, <2>2, <2>3 DEF Quiet, DiesOut, Turn
<1>2. QED
  BY <1>1, TypedIsTurn, StepIsTurn DEF Next

\* The rows the helpers make of a list: an active one was active before, and
\* what was released stays, released.
LEMMA TransitionKeeps ==
  ASSUME NEW rows \in SUBSET Row, NEW crew, NEW s
  PROVE  /\ \A f \in Transition(rows, crew, s) : ~f.released =>
              \E e \in rows : /\ ~e.released /\ e.agent = f.agent
                              /\ f.status = IF e.agent \in crew THEN s ELSE e.status
         /\ \A e \in rows : e.released =>
              \E f \in Transition(rows, crew, s) : f.id = e.id /\ f.released
<1> DEFINE m(e) == [e EXCEPT !.status = IF ~e.released /\ e.agent \in crew
                                        THEN s ELSE @]
<1>1. ASSUME NEW e \in rows
      PROVE  /\ m(e).id = e.id /\ m(e).released = e.released /\ m(e).agent = e.agent
             /\ ~e.released => m(e).status = IF e.agent \in crew THEN s ELSE e.status
  BY DEF Row
<1>2. Transition(rows, crew, s) = {m(e) : e \in rows}
  BY DEF Transition
<1> HIDE DEF m
<1>3. QED
  BY <1>1, <1>2

LEMMA ClosedKeeps ==
  ASSUME NEW rows \in SUBSET Row, NEW agent
  PROVE  /\ \A f \in Closed(rows, agent) : ~f.released =>
              \E e \in rows : ~e.released /\ e.agent = f.agent /\ f.status = e.status
         /\ \A e \in rows : e.released =>
              \E f \in Closed(rows, agent) : f.id = e.id /\ f.released
<1>1. ASSUME NEW e \in rows, NEW f, f = [e EXCEPT !.released = @ \/ e.agent = agent]
      PROVE  /\ f.released = (e.released \/ e.agent = agent)
             /\ f.id = e.id /\ e.agent = f.agent /\ f.status = e.status
  BY <1>1 DEF Row
<1>2. QED
  BY <1>1 DEF Closed

LEMMA AllReleasedKeeps ==
  ASSUME NEW rows \in SUBSET Row
  PROVE  /\ \A f \in AllReleased(rows) : f.released
         /\ \A e \in rows : e.released =>
              \E f \in AllReleased(rows) : f.id = e.id /\ f.released
<1> DEFINE m(e) == [e EXCEPT !.status = IF e.released THEN @ ELSE "completed",
                             !.released = TRUE]
<1>1. \A e \in rows : m(e).id = e.id /\ m(e).released
  BY DEF Row
<1>2. AllReleased(rows) = {m(e) : e \in rows}
  BY DEF AllReleased
<1> HIDE DEF m
<1>3. QED
  BY <1>1, <1>2

NoneCompleted ==
  \A p \in Projects : \A e \in ActiveRows(store[p]) : e.status # "completed"

\* What CheckBookings found still holds when the row is written.
RoomLeft == \A o \in Operators : proc[o].pc = "assigning" =>
  Cardinality(Bookings(proc[o].agent, proc[o].on)) + 1 <= Cap[proc[o].on]

\* Of the projects an agent is booked on, no more than k have a cap of k or
\* less: WithinCap in the form that booking and releasing keep.
CapKept == \A a \in Agents :
  /\ IsFiniteSet(Booked(a))
  /\ \A k \in Nat : Cardinality({p \in Booked(a) : Cap[p] <= k}) <= k

AloneInv == FreshCopies /\ WholeCrew /\ NoneCompleted /\ RoomLeft
            /\ SwarmingMeansOut /\ CapKept

\* Bookings kept or given up leave the caps kept.
LEMMA FewerBooked ==
  ASSUME CapKept, \A a \in Agents : Booked(a)' \subseteq Booked(a)
  PROVE  CapKept'
<1> SUFFICES ASSUME NEW a \in Agents
             PROVE  /\ IsFiniteSet(Booked(a)')
                    /\ \A k \in Nat : Cardinality({p \in Booked(a)' : Cap[p] <= k}) <= k
  BY DEF CapKept
<1>1. IsFiniteSet(Booked(a)) /\ Booked(a)' \subseteq Booked(a)
  BY DEF CapKept
<1>2. ASSUME NEW k \in Nat PROVE Cardinality({p \in Booked(a)' : Cap[p] <= k}) <= k
  <2> DEFINE S == {p \in Booked(a) : Cap[p] <= k}
             T == {p \in Booked(a)' : Cap[p] <= k}
  <2>1. T \subseteq S /\ S \subseteq Booked(a)
    BY <1>1
  <2>2. IsFiniteSet(S) /\ Cardinality(S) <= k
    BY <1>1, <2>1, FS_Subset DEF CapKept
  <2> HIDE DEF S, T
  <2>3. Cardinality(T) <= Cardinality(S) /\ IsFiniteSet(T)
    BY <2>1, <2>2, FS_Subset
  <2>4. Cardinality(T) \in Nat /\ Cardinality(S) \in Nat
    BY <2>2, <2>3, FS_CardinalityType
  <2>5. Cardinality(T) <= k
    BY <2>2, <2>3, <2>4
  <2>6. QED
    BY <2>5 DEF T
<1>3. QED
  BY <1>1, <1>2, FS_Subset

\* An agent booked on one more project, within its cap.
LEMMA OneMoreBooked ==
  ASSUME CapKept, NEW agent \in Agents, NEW on \in Projects, Cap[on] \in Nat,
         IsFiniteSet(Booked(agent) \ {on}),
         Cardinality(Booked(agent) \ {on}) + 1 <= Cap[on],
         Booked(agent)' = Booked(agent) \cup {on},
         \A a \in Agents : a # agent => Booked(a)' = Booked(a)
  PROVE  CapKept'
<1> DEFINE All == Booked(agent)'
<1>1. IsFiniteSet(All) /\ Cardinality(All) <= Cap[on] /\ Cardinality(All) \in Nat
  <2>1. All = (Booked(agent) \ {on}) \cup {on}
    OBVIOUS
  <2>2. /\ IsFiniteSet((Booked(agent) \ {on}) \cup {on})
        /\ Cardinality((Booked(agent) \ {on}) \cup {on})
             = Cardinality(Booked(agent) \ {on}) + 1
    BY FS_AddElement, on \notin Booked(agent) \ {on}, Zenon
  <2> HIDE DEF All
  <2>3. QED
    BY <2>1, <2>2, FS_CardinalityType
<1>2. ASSUME NEW k \in Nat PROVE Cardinality({p \in All : Cap[p] <= k}) <= k
  <2> DEFINE S == {p \in Booked(agent) : Cap[p] <= k}
             T == {p \in All : Cap[p] <= k}
  <2>1. CASE Cap[on] <= k
    <3>1. T \subseteq All
      OBVIOUS
    <3> HIDE DEF T, All
    <3>2. Cardinality(T) <= Cardinality(All) /\ IsFiniteSet(T)
      BY <1>1, <3>1, FS_Subset
    <3>3. Cardinality(T) \in Nat
      BY <3>2, FS_CardinalityType
    <3>4. Cardinality(T) <= k
      BY <1>1, <2>1, <3>2, <3>3
    <3>5. QED
      BY <3>4 DEF T
  <2>2. CASE ~(Cap[on] <= k)
    <3>1. T = S
      BY <2>2
    <3>2. Cardinality(S) <= k
      BY DEF CapKept
    <3>3. QED
      BY <3>1, <3>2
  <2>3. QED
    BY <2>1, <2>2
<1>3. SUFFICES ASSUME NEW a \in Agents
               PROVE  /\ IsFiniteSet(Booked(a)')
                      /\ \A k \in Nat : Cardinality({p \in Booked(a)' : Cap[p] <= k}) <= k
  BY DEF CapKept
<1>4. CASE a = agent
  BY <1>1, <1>2, <1>4
<1>5. CASE a # agent
  <2>1. Booked(a)' = Booked(a)
    BY <1>5
  <2>2. QED
    BY <2>1 DEF CapKept
<1>6. QED
  BY <1>4, <1>5

(* CapKept is WithinCap: were all the caps of the projects an agent is booked *)
(* on smaller than their number n, n of them would have a cap below n.       *)
LEMMA CapKeptIsEnough ==
  ASSUME CapKept
  PROVE  WithinCap
<1> SUFFICES ASSUME NEW a \in Agents, Booked(a) # {},
                    \A p \in Booked(a) : ~ (Cardinality(Booked(a)) <= Cap[p])
             PROVE  FALSE
  BY DEF WithinCap
<1> DEFINE n == Cardinality(Booked(a))
<1>1. IsFiniteSet(Booked(a)) /\ n \in Nat /\ n # 0
  BY FS_CardinalityType, FS_EmptySet DEF CapKept
<1>2. n - 1 \in Nat /\ \A p \in Booked(a) : Cap[p] <= n - 1
  <2> HIDE DEF n
  <2>1. ASSUME NEW p \in Booked(a) PROVE Cap[p] <= n - 1
    <3>1. Cap[p] \in Nat /\ ~ (n <= Cap[p])
      BY CapAssumption DEF n, Booked
    <3>2. QED
      BY <1>1, <3>1
  <2>2. QED
    BY <1>1, <2>1
<1>3. {p \in Booked(a) : Cap[p] <= n - 1} = Booked(a)
  BY <1>2
<1>4. n <= n - 1
  BY <1>2, <1>3 DEF CapKept
<1>5. QED
  BY <1>1, <1>4

LEMMA AloneStep ==
  ASSUME TypeOK, TypeOK', Alone, AloneInv, NEW o \in Operators, Turn(o)
  PROVE  AloneInv'
<1> DEFINE me == proc[o]
           to == proc'[o]
           Elsewhere(a, p) == {q \in Projects \ {p} :
             \E e \in ActiveRows(store'[q]) : e.agent = a /\ e.status # "completed"}
<1>0. /\ \A p \in Projects : store[p].rows \in SUBSET Row /\ store'[p].rows \in SUBSET Row
      /\ \A u \in Operators : u = o
      /\ me.on \in Projects /\ to.on \in Projects
  BY DEF TypeOK, Record, Process, Alone
<1>1. /\ me.pc \in Holding => me.rows = store[me.on].rows
      /\ me.pc \in {"confirming", "swarming", "out"} =>
           \A e \in ActiveRows(store[me.on]) : e.agent \in me.crew
      /\ me.pc = "assigning" =>
           Cardinality(Bookings(me.agent, me.on)) + 1 <= Cap[me.on]
  BY DEF AloneInv, FreshCopies, WholeCrew, RoomLeft
\* What the parts of the invariant come to for the one process there is.
<1>2. ASSUME to.pc \in Holding => to.rows = store'[to.on].rows,
             to.pc \in {"confirming", "swarming", "out"} =>
               \A e \in ActiveRows(store'[to.on]) : e.agent \in to.crew,
             to.pc = "assigning" =>
               Cardinality(Elsewhere(to.agent, to.on)) + 1 <= Cap[to.on],
             NoneCompleted', SwarmingMeansOut', CapKept'
      PROVE  AloneInv'
  <2>1. FreshCopies' /\ WholeCrew'
    BY <1>0, <1>2 DEF FreshCopies, WholeCrew
  <2>2. RoomLeft'
    BY <1>0, <1>2 DEF RoomLeft, Bookings
  <2>3. QED
    BY <1>2, <2>1, <2>2 DEF AloneInv
<1>3. ASSUME NEW rows, Rewritten(me.on, rows)
      PROVE  \A p \in Projects : ActiveRows(store'[p]) =
               IF p = me.on THEN {e \in rows : ~e.released} ELSE ActiveRows(store[p])
  BY <1>3 DEF Rewritten, ActiveRows
<1>4. CASE Books(o)
  <2> DEFINE new == NewRow(me.agent)
  <2>1. /\ me.pc = "assigning" /\ to.pc = "idle" /\ died' = died
        /\ Rewritten(me.on, me.rows \cup {new}) /\ me.agent \in Agents
        /\ me.rows = store[me.on].rows
        /\ Cardinality(Bookings(me.agent, me.on)) + 1 <= Cap[me.on]
    BY <1>1, <1>4 DEF Books, TypeOK, Holding
  <2>2. new.agent = me.agent /\ new.status = "queued" /\ new.released = FALSE
    BY DEF NewRow
  <2> HIDE DEF new
  <2>3. \A p \in Projects : ActiveRows(store'[p]) =
          IF p = me.on THEN ActiveRows(store[p]) \cup {new} ELSE ActiveRows(store[p])
    BY <1>3, <2>1, <2>2 DEF ActiveRows
  <2>4. NoneCompleted'
    BY <2>2, <2>3 DEF AloneInv, NoneCompleted
  <2>5. \A p \in Projects : CycleInFlight(store'[p]) => CycleInFlight(store[p])
    BY <2>2, <2>3 DEF CycleInFlight
  <2>6. SwarmingMeansOut'
    BY <1>0, <2>1, <2>5 DEF AloneInv, SwarmingMeansOut, At
  <2>7. Booked(me.agent) \ {me.on} = Bookings(me.agent, me.on)
    BY DEF Booked, Engaged, Bookings, AloneInv, NoneCompleted
  <2>8. PICK agent \in Agents, on \in Projects : agent = me.agent /\ on = me.on
    BY <1>0, <2>1
  <2>9. /\ Booked(agent)' = Booked(agent) \cup {on}
        /\ \A a \in Agents : a # agent => Booked(a)' = Booked(a)
    BY <2>2, <2>3, <2>8 DEF Booked, Engaged
  <2>10. IsFiniteSet(Booked(agent) \ {on})
    BY FS_Subset DEF AloneInv, CapKept
  <2>11. Cap[on] \in Nat /\ Cardinality(Booked(agent) \ {on}) + 1 <= Cap[on]
    BY <2>1, <2>7, <2>8, CapAssumption
  <2>12. CapKept'
    BY <2>9, <2>10, <2>11, OneMoreBooked DEF AloneInv
  <2>13. QED
    BY <1>2, <2>1, <2>4, <2>6, <2>12 DEF Holding
<1>5. CASE Frees(o)
  <2>1. to.pc = "idle" /\ died' = died /\ me.pc \in {"releasing", "completing"}
        /\ me.rows = store[me.on].rows
    BY <1>1, <1>5 DEF Frees, Holding
  <2>2. \A p \in Projects : \A f \in ActiveRows(store'[p]) :
          \E e \in ActiveRows(store[p]) : e.agent = f.agent /\ e.status = f.status
    <3>1. CASE Rewritten(me.on, Closed(me.rows, me.agent))
      BY <1>0, <1>3, <2>1, <3>1, ClosedKeeps DEF ActiveRows
    <3>2. CASE Rewritten(me.on, AllReleased(me.rows))
      BY <1>0, <1>3, <2>1, <3>2, AllReleasedKeeps DEF ActiveRows
    <3>3. QED
      BY <1>5, <3>1, <3>2 DEF Frees
  <2>3. NoneCompleted'
    BY <2>2 DEF AloneInv, NoneCompleted
  <2>4. \A p \in Projects : CycleInFlight(store'[p]) => CycleInFlight(store[p])
    BY <2>2 DEF CycleInFlight
  <2>5. SwarmingMeansOut'
    BY <1>0, <2>1, <2>4 DEF AloneInv, SwarmingMeansOut, At
  <2>6. \A a \in Agents : Booked(a)' \subseteq Booked(a)
    BY <2>2 DEF Booked, Engaged
  <2>7. CapKept'
    BY <2>6, FewerBooked DEF AloneInv
  <2>8. QED
    BY <1>2, <2>1, <2>3, <2>5, <2>7 DEF Holding
<1>6. CASE Sets(o)
  <2>1. PICK s \in {"swarming", "review", "smoked"} :
          /\ Rewritten(me.on, Transition(me.rows, me.crew, s))
          /\ \/ /\ s = "swarming" /\ me.pc = "swarming" /\ to.pc = "out"
                /\ died' = died /\ to.on = me.on /\ to.crew = me.crew
                /\ to.rows = Transition(me.rows, me.crew, "swarming")
             \/ /\ s # "swarming" /\ me.pc = "out" /\ to.pc = "reporting"
                /\ died' = died \ {me.on}
    BY <1>6 DEF Sets
  <2>2. /\ me.rows = store[me.on].rows
        /\ \A e \in ActiveRows(store[me.on]) : e.agent \in me.crew
    BY <1>1, <2>1 DEF Holding
  <2>3. \A p \in Projects : \A f \in ActiveRows(store'[p]) :
          \E e \in ActiveRows(store[p]) :
            e.agent = f.agent /\ f.status = IF p = me.on THEN s ELSE e.status
    <3>1. \A f \in Transition(me.rows, me.crew, s) : ~f.released =>
            \E e \in me.rows : /\ ~e.released /\ e.agent = f.agent
                               /\ f.status = IF e.agent \in me.crew THEN s ELSE e.status
      BY <1>0, <2>2, TransitionKeeps
    <3>2. \A f \in Transition(me.rows, me.crew, s) : ~f.released =>
            \E e \in ActiveRows(store[me.on]) : e.agent = f.agent /\ f.status = s
      BY <2>2, <3>1 DEF ActiveRows
    <3>3. QED
      BY <1>3, <2>1, <3>2
  <2>4. NoneCompleted'
    BY <2>3 DEF AloneInv, NoneCompleted
  <2>5. \A p \in Projects : CycleInFlight(store'[p]) =>
          IF p = me.on THEN s = "swarming" ELSE CycleInFlight(store[p])
    BY <2>3 DEF CycleInFlight
  <2>6. SwarmingMeansOut'
    BY <1>0, <2>1, <2>5 DEF AloneInv, SwarmingMeansOut, At
  <2>7. \A a \in Agents : Booked(a)' \subseteq Booked(a)
    BY <2>3 DEF Booked, Engaged
  <2>8. CapKept'
    BY <2>7, FewerBooked DEF AloneInv
  <2>9. to.pc = "out" => to.rows = store'[to.on].rows
    BY <1>0, <2>1 DEF Rewritten
  <2>10. to.pc = "out" => \A e \in ActiveRows(store'[to.on]) : e.agent \in to.crew
    BY <1>0, <2>1, <2>2, <2>3
  <2>11. QED
    BY <1>2, <2>1, <2>4, <2>6, <2>8, <2>9, <2>10 DEF Holding
<1>7. CASE RowsKept
  <2>1. \A p \in Projects : ActiveRows(store'[p]) = ActiveRows(store[p])
    BY <1>7 DEF RowsKept, ActiveRows
  <2>2. \A a \in Agents : Booked(a)' = Booked(a)
    BY <2>1 DEF Booked, Engaged
  <2>3. NoneCompleted'
    BY <2>1 DEF AloneInv, NoneCompleted
  <2>4. CapKept'
    BY <2>2, FewerBooked DEF AloneInv
  <2>5. ASSUME NEW p \in Projects PROVE CycleInFlight(store'[p]) = CycleInFlight(store[p])
    BY <2>1 DEF CycleInFlight
  <2>6. CASE Quiet(o)
    <3>1. SwarmingMeansOut'
      BY <1>0, <2>5, <2>6 DEF AloneInv, SwarmingMeansOut, Quiet, At
    <3>2. /\ to.pc \in Holding => to.rows = store'[to.on].rows
          /\ to.pc \in {"confirming", "swarming", "out"} =>
               \A e \in ActiveRows(store'[to.on]) : e.agent \in to.crew
      BY <1>0, <1>1, <1>7, <2>1, <2>6 DEF Quiet, RowsKept, Holding
    <3>3. to.pc = "assigning" =>
            Cardinality(Elsewhere(to.agent, to.on)) + 1 <= Cap[to.on]
      <4> SUFFICES ASSUME to.pc = "assigning"
                   PROVE  Cardinality(Elsewhere(to.agent, to.on)) + 1 <= Cap[to.on]
        OBVIOUS
      <4>1. /\ to.on = me.on /\ to.agent = me.agent
            /\ Cardinality(Bookings(me.agent, me.on)) + 1 <= Cap[me.on]
        BY <2>6 DEF Quiet
      <4>2. Elsewhere(me.agent, me.on) = Bookings(me.agent, me.on)
        BY <2>1 DEF Bookings
      <4>3. QED
        BY <4>1, <4>2
    <3>4. QED
      BY <1>2, <2>3, <2>4, <3>1, <3>2, <3>3
  <2>7. CASE DiesOut(o)
    <3>1. SwarmingMeansOut'
      BY <1>0, <2>5, <2>7 DEF AloneInv, SwarmingMeansOut, DiesOut, At
    <3>2. to.pc = "idle"
      BY <2>7 DEF DiesOut
    <3>3. QED
      BY <1>2, <2>3, <2>4, <3>1, <3>2 DEF Holding
  <2>8. QED
    BY <1>4, <1>5, <1>6, <2>6, <2>7 DEF Turn
<1>8. QED
  BY <1>4, <1>5, <1>6, <1>7 DEF Turn, Quiet, DiesOut

(* AloneInv holds of a single operator.                                      *)
LEMMA AloneHolds ==
  ASSUME Alone
  PROVE  Spec => []AloneInv
<1>1. Init => AloneInv
  <2> SUFFICES ASSUME Init PROVE AloneInv
    OBVIOUS
  <2>1. /\ \A p \in Projects : ActiveRows(store[p]) = {}
        /\ \A o \in Operators : proc[o].pc = "idle"
    BY DEF Init, NewProject, Idle, ActiveRows
  <2>2. \A a \in Agents : Booked(a) = {}
    BY <2>1 DEF Booked, Engaged
  <2>3. CapKept
    <3> SUFFICES ASSUME NEW a \in Agents, NEW k \in Nat
                 PROVE  /\ IsFiniteSet(Booked(a))
                        /\ Cardinality({p \in Booked(a) : Cap[p] <= k}) <= k
      BY DEF CapKept
    <3>1. {p \in Booked(a) : Cap[p] <= k} = {} /\ Booked(a) = {}
      BY <2>2
    <3>2. QED
      BY <3>1, FS_EmptySet
  <2>4. QED
    BY <2>1, <2>3 DEF AloneInv, FreshCopies, WholeCrew, NoneCompleted, RoomLeft,
       SwarmingMeansOut, CycleInFlight, Holding
<1>2. TypeOK /\ TypeOK' /\ AloneInv /\ [Next]_vars => AloneInv'
  <2> SUFFICES ASSUME TypeOK, TypeOK', AloneInv, [Next]_vars PROVE AloneInv'
    OBVIOUS
  <2>1. CASE Next
    BY <2>1, NextIsTurn, AloneStep DEF AloneInv
  <2>2. CASE UNCHANGED vars
    BY <2>2 DEF vars, AloneInv, FreshCopies, WholeCrew, NoneCompleted, RoomLeft,
       SwarmingMeansOut, CapKept, At, Bookings, Booked, Engaged
  <2>3. QED
    BY <2>1, <2>2
<1>3. QED
  BY <1>1, <1>2, TypeCorrect, PTL DEF Spec

(* WithinCap: one operator cannot book an agent on more projects than the    *)
(* most permissive of them allows, however its commands are interrupted.     *)
THEOREM WithinCapHolds ==
  ASSUME Alone
  PROVE  Spec => []WithinCap
<1>1. AloneInv => WithinCap
  BY CapKeptIsEnough DEF AloneInv
<1>2. QED
  BY <1>1, AloneHolds, PTL

(* SwarmingMeansOut: with one operator a row says "swarming" only while the  *)
(* mission is out or after its process died (apply_mission_outcome reaches   *)
(* every row that transition_engagements had moved).                         *)
THEOREM SwarmingMeansOutHolds ==
  ASSUME Alone
  PROVE  Spec => []SwarmingMeansOut
<1>1. AloneInv => SwarmingMeansOut
  BY DEF AloneInv
<1>2. QED
  BY <1>1, AloneHolds, PTL

(* ReleasedIsHistory: no command of a single operator takes a released row   *)
(* off the record or opens it again.                                         *)
THEOREM ReleasedIsHistoryHolds ==
  ASSUME Alone
  PROVE  Spec => ReleasedIsHistory
<1> DEFINE Kept == \A p \in Projects : \A e \in store[p].rows \ ActiveRows(store[p]) :
                     \E f \in store'[p].rows : f.id = e.id /\ f.released
<1>1. TypeOK /\ AloneInv /\ [Next]_vars => [Kept]_vars
  <2> SUFFICES ASSUME TypeOK, AloneInv, Next PROVE Kept
    OBVIOUS
  <2>1. PICK o \in Operators : Turn(o)
    BY NextIsTurn DEF AloneInv
  <2> DEFINE me == proc[o]
  <2>2. /\ \A p \in Projects : store[p].rows \in SUBSET Row
        /\ me.on \in Projects
        /\ me.pc \in Holding => me.rows = store[me.on].rows
    BY DEF TypeOK, Record, Process, AloneInv, FreshCopies
  <2>3. RowsKept => Kept
    BY DEF RowsKept, ActiveRows
  <2>4. ASSUME NEW rows, Rewritten(me.on, rows), me.pc \in Holding,
               \A e \in me.rows : e.released =>
                 \E f \in rows : f.id = e.id /\ f.released
        PROVE  Kept
    BY <2>2, <2>4 DEF Rewritten, ActiveRows
  <2>5. CASE Books(o)
    BY <2>4, <2>5 DEF Books, Holding
  <2>6. me.rows \in SUBSET Row \/ me.pc \notin Holding
    BY <2>2
  <2>7. CASE Frees(o)
    BY <2>4, <2>6, <2>7, ClosedKeeps, AllReleasedKeeps DEF Frees, Holding
  <2>8. CASE Sets(o)
    BY <2>4, <2>6, <2>8, TransitionKeeps DEF Sets, Holding
  <2>9. QED
    BY <2>1, <2>3, <2>5, <2>7, <2>8 DEF Turn, Quiet, DiesOut
<1>2. QED
  BY <1>1, TypeCorrect, AloneHolds, PTL DEF Spec, ReleasedIsHistory
=============================================================================
