------------------------------ MODULE Console ------------------------------
(***************************************************************************)
(* The terminal interface (tui/): one process with one keyboard loop and,  *)
(* while a mission runs, one worker thread.  The screens work on copies:   *)
(* the roster is loaded now and then, the dossier shows an element of it,  *)
(* the crue screen an element of the list of crues.  A screen that changes *)
(* an agent changes its copy and writes the whole copy back over the       *)
(* record, so whatever moved in between is written away.                   *)
(*                                                                         *)
(* ds.update reads, merges and writes a file in one step here: what a      *)
(* death inside it does is DataStore's subject.                            *)
(***************************************************************************)
EXTENDS Integers, FiniteSets, FiniteSetsExt

CONSTANTS
    Agents, Crues,
    StartGold, StartXp,   \* of every agent on the roster
    Price,                \* of a tool in the shop
    LevelCost,            \* experience a capability level costs
    WageGold, WageXp,     \* what a mission pays each of its crew
    ScaledGold,           \* what a gold reroll sets
    MaxWrites,            \* bound: records the screens write
    MaxMissions           \* bound: missions launched

ASSUME AmountsAssumption ==
    {StartGold, StartXp, Price, LevelCost, WageGold, WageXp, ScaledGold} \subseteq Nat
ASSUME BoundsAssumption == {MaxWrites, MaxMissions} \subseteq Nat

VARIABLES
    agents,    \* the agents' records on disk
    crues,     \* the crues on disk: their members counter, or Gone
    roster,    \* the loaded roster: copies of the agents not retired
    dossier,   \* the agent on screen and its copy
    company,   \* the loaded crues
    crue,      \* the crue on screen
    screen,    \* which screen is up
    worker,    \* the dispatch thread
    missions,  \* history: missions launched
    writes,    \* history: records the screens wrote
    due,       \* history: what each agent's balances and role should be
    loose      \* history: a mission was left in the background or its thread
               \* raised, or an agent was edited in the composer

store == <<agents, crues>>
copies == <<roster, dossier, company, crue>>
vars == <<store, copies, screen, worker, missions, writes, due, loose>>

Gone == -1              \* no such record
Nobody == [id |-> "nobody"]
NoCrue == "none"
NoWorker == [crew |-> {}, on |-> FALSE]

NewAgent == [gold |-> StartGold, xp |-> StartXp, role |-> 0, crues |-> {}, retired |-> FALSE]
Settled(a) == [gold |-> a.gold, xp |-> a.xp, role |-> a.role]

\* query leaves retired agents out.
Loaded(recs) == [a \in {x \in Agents : ~recs[x].retired} |-> recs[a]]
Existing(c) == [k \in {x \in Crues : c[x] # Gone} |-> c[k]]

Init ==
    /\ agents = [a \in Agents |-> NewAgent]
    /\ crues = [c \in Crues |-> 0]
    /\ roster = Loaded(agents)
    /\ company = Existing(crues)
    /\ dossier = Nobody /\ crue = NoCrue /\ screen = "menu"
    /\ worker = NoWorker /\ missions = 0 /\ writes = 0
    /\ due = [a \in Agents |-> Settled(NewAgent)]
    /\ loose = FALSE

Counts == writes < MaxWrites /\ writes' = writes + 1
OnScreen(a) == screen = "dossier" /\ dossier # Nobody /\ dossier.id = a

-----------------------------------------------------------------------------
(* Moving between screens.                                                 *)

\* The roster shows what was loaded last; entering it loads nothing.
OpenDossier(a) ==
    /\ screen = "menu" /\ a \in DOMAIN roster
    /\ dossier' = [id |-> a, copy |-> roster[a]]
    /\ screen' = "dossier"
    /\ UNCHANGED <<store, roster, company, crue, worker, missions, writes, due, loose>>

\* Opening the crues does load them.
OpenCrue(c) ==
    /\ screen = "menu" /\ crues[c] # Gone
    /\ company' = Existing(crues)
    /\ crue' = c
    /\ screen' = "crue"
    /\ UNCHANGED <<store, roster, dossier, worker, missions, writes, due, loose>>

Back ==
    /\ screen \in {"dossier", "crue"}
    /\ screen' = "menu"
    /\ UNCHANGED <<store, copies, worker, missions, writes, due, loose>>

\* The statistics load the roster, and nothing else does without a write.
Stats ==
    /\ screen = "menu"
    /\ roster' = Loaded(agents)
    /\ UNCHANGED <<store, dossier, company, crue, screen, worker, missions, writes, due, loose>>

\* Quitting ends the process and, the thread being a daemon, the mission.
Quit ==
    /\ screen = "menu"
    /\ roster' = Loaded(agents)
    /\ company' = Existing(crues)
    /\ dossier' = Nobody /\ crue' = NoCrue
    /\ worker' = NoWorker
    /\ UNCHANGED <<store, screen, missions, writes, due, loose>>

-----------------------------------------------------------------------------
(* The dossier's screens write the copy.                                   *)

\* Mutant: the roster is not loaded again after a write.
WriteCopyUnread(a, copy) ==
    /\ agents' = [agents EXCEPT ![a] = copy]
    /\ dossier' = [id |-> a, copy |-> copy]
    /\ UNCHANGED roster

\* ds.update("agent", id, agent) with the whole copy, then _load_roster; the
\* dossier shows the agent of the new roster.
WriteCopy(a, copy) ==
    /\ agents' = [agents EXCEPT ![a] = copy]
    /\ roster' = Loaded(agents')
    /\ dossier' = [id |-> a, copy |-> IF a \in DOMAIN roster' THEN roster'[a] ELSE copy]

\* _purchase_tool: no ledger entry is made.
Purchase(a) ==
    /\ OnScreen(a) /\ Counts
    /\ dossier.copy.gold >= Price
    /\ WriteCopy(a, [dossier.copy EXCEPT !.gold = @ - Price])
    /\ due' = [due EXCEPT ![a].gold = @ - Price]
    /\ UNCHANGED <<crues, company, crue, screen, worker, missions, loose>>

\* _upgrade_capability spends experience.
Upgrade(a) ==
    /\ OnScreen(a) /\ Counts
    /\ dossier.copy.xp >= LevelCost
    /\ WriteCopy(a, [dossier.copy EXCEPT !.xp = @ - LevelCost])
    /\ due' = [due EXCEPT ![a].xp = @ - LevelCost]
    /\ UNCHANGED <<crues, company, crue, screen, worker, missions, loose>>

\* _reroll_gold (the rerolls of skills, tools and profile write the same way).
RerollGold(a) ==
    /\ OnScreen(a) /\ Counts
    /\ WriteCopy(a, [dossier.copy EXCEPT !.gold = ScaledGold])
    /\ due' = [due EXCEPT ![a].gold = ScaledGold]
    /\ UNCHANGED <<crues, company, crue, screen, worker, missions, loose>>

\* _full_regenerate: a new agent under the old id and tag, in no crue.
Regenerate(a) ==
    /\ OnScreen(a) /\ Counts
    /\ WriteCopy(a, NewAgent)
    /\ due' = [due EXCEPT ![a] = Settled(NewAgent)]
    /\ UNCHANGED <<crues, company, crue, screen, worker, missions, loose>>

\* _save_agent_edit writes the form's fields only.
SaveEdit(a) ==
    /\ OnScreen(a) /\ Counts
    /\ agents' = [agents EXCEPT ![a].role = 1 - dossier.copy.role]
    /\ roster' = Loaded(agents')
    /\ dossier' = [id |-> a, copy |-> agents'[a]]
    /\ due' = [due EXCEPT ![a].role = 1 - dossier.copy.role]
    /\ UNCHANGED <<crues, company, crue, screen, worker, missions, loose>>

\* Mutant: the roster still shows the agent.
TerminateUnread(a) ==
    /\ OnScreen(a) /\ Counts
    /\ agents' = [agents EXCEPT ![a].retired = TRUE]
    /\ screen' = "menu"
    /\ UNCHANGED <<crues, copies, worker, missions, due, loose>>

\* X: soft delete; the dossier keeps its copy but the roster screen comes up.
Terminate(a) ==
    /\ OnScreen(a) /\ Counts
    /\ agents' = [agents EXCEPT ![a].retired = TRUE]
    /\ roster' = Loaded(agents')
    /\ screen' = "menu"
    /\ UNCHANGED <<crues, dossier, company, crue, worker, missions, due, loose>>

-----------------------------------------------------------------------------
(* The crue screen writes two records.                                     *)

Members(c) == {a \in DOMAIN roster : c \in roster[a].crues}

\* Mutant: only the agent's record is written.
CommitHalf(a, member, delta) ==
    /\ screen = "crue" /\ a \in DOMAIN roster /\ Counts
    /\ agents' = [agents EXCEPT ![a] = [roster[a] EXCEPT !.crues = member]]
    /\ company' = [company EXCEPT ![crue] = Max({0, @ + delta})]
    /\ roster' = Loaded(agents')
    /\ UNCHANGED <<crues, dossier, crue, screen, worker, missions, due, loose>>

\* _commit_crue_member: the roster's copy of the agent with the membership
\* changed, then the crue with its counter moved; then the roster is loaded.
Commit(a, member, delta) ==
    /\ screen = "crue" /\ a \in DOMAIN roster /\ Counts
    /\ agents' = [agents EXCEPT ![a] = [roster[a] EXCEPT !.crues = member]]
    /\ company' = [company EXCEPT ![crue] = Max({0, @ + delta})]
    /\ crues' = IF crues[crue] = Gone THEN crues
                ELSE [crues EXCEPT ![crue] = company'[crue]]
    /\ roster' = Loaded(agents')
    /\ UNCHANGED <<dossier, crue, screen, worker, missions, due, loose>>

Join(a)  == crue \in Crues /\ a \notin Members(crue) /\ Commit(a, roster[a].crues \union {crue}, 1)
Leave(a) == crue \in Crues /\ a \in Members(crue) /\ Commit(a, roster[a].crues \ {crue}, -1)

\* _delete_crue: its members keep pointing at it.
Disband ==
    /\ screen = "crue" /\ Counts
    /\ crues' = [crues EXCEPT ![crue] = Gone]
    /\ company' = Existing(crues')
    /\ crue' = NoCrue /\ screen' = "menu"
    /\ UNCHANGED <<agents, roster, dossier, worker, missions, due, loose>>

\* The composer saves an agent; COMPOSE_VIEWS has no roster to reload.
ComposeAgent(a) ==
    /\ screen = "menu" /\ ~agents[a].retired /\ Counts
    /\ agents' = [agents EXCEPT ![a].role = 1 - @]
    /\ due' = [due EXCEPT ![a].role = 1 - @]
    /\ loose' = TRUE
    /\ UNCHANGED <<crues, copies, screen, worker, missions>>

-----------------------------------------------------------------------------
(* A mission: launched from the menu's form, run and paid by the worker.   *)

Launch(crew) ==
    /\ screen = "menu" /\ ~worker.on
    /\ crew # {} /\ crew \subseteq DOMAIN roster
    /\ missions < MaxMissions /\ missions' = missions + 1
    /\ worker' = [NoWorker EXCEPT !.on = TRUE, !.crew = crew]
    /\ screen' = "run"
    /\ UNCHANGED <<store, copies, writes, due, loose>>

\* Q on the run screen: "Mission continues in background".
Background ==
    /\ screen = "run" /\ worker.on
    /\ screen' = "menu"
    /\ loose' = TRUE
    /\ UNCHANGED <<store, copies, worker, missions, writes, due>>

DoneWatching ==
    /\ screen = "run" /\ ~worker.on
    /\ screen' = "menu"
    /\ UNCHANGED <<store, copies, worker, missions, writes, due, loose>>

\* award_mission: one member of the crew after the other, retired or not.
Pay(a) ==
    /\ worker.on /\ a \in worker.crew
    /\ agents' = [agents EXCEPT ![a].gold = @ + WageGold, ![a].xp = @ + WageXp]
    /\ due' = [due EXCEPT ![a].gold = @ + WageGold, ![a].xp = @ + WageXp]
    /\ worker' = [worker EXCEPT !.crew = @ \ {a}]
    /\ UNCHANGED <<crues, copies, screen, missions, writes, loose>>

\* The worker's last act; whatever screen is up keeps its own copy.
Finish ==
    /\ worker.on /\ worker.crew = {}
    /\ roster' = Loaded(agents)
    /\ worker' = NoWorker
    /\ UNCHANGED <<store, dossier, company, crue, screen, missions, writes, due, loose>>

\* The thread raises, say where the report cannot be written: what was paid
\* stays paid, and no roster is loaded.
Raise ==
    /\ worker.on
    /\ worker' = NoWorker
    /\ loose' = TRUE
    /\ UNCHANGED <<store, copies, screen, missions, writes, due>>

Next ==
    \/ \E a \in Agents :
         \/ OpenDossier(a) \/ Purchase(a) \/ Upgrade(a) \/ RerollGold(a) \/ Regenerate(a)
         \/ SaveEdit(a) \/ Terminate(a) \/ Join(a) \/ Leave(a) \/ ComposeAgent(a) \/ Pay(a)
    \/ \E c \in Crues : OpenCrue(c)
    \/ \E crew \in SUBSET Agents : Launch(crew)
    \/ Back \/ Stats \/ Quit \/ Disband \/ Background \/ DoneWatching
    \/ Finish \/ Raise

Spec == Init /\ [][Next]_vars

-----------------------------------------------------------------------------
(* Properties.                                                             *)

\* An operator who watches his missions to their end and leaves agents out of
\* the composer never writes a stale copy over a record: every agent has
\* what it was paid less what it spent, and the role it was last given
\* (_load_roster after every write, current_agent taken from it).
NothingReverted == ~loose => \A a \in Agents : Settled(agents[a]) = due[a]

\* A crue's counter never falls short of its members, though counter and
\* membership are kept in two records and changed from copies.
MembersCounted ==
    \A c \in Crues : crues[c] # Gone =>
        Cardinality({a \in Agents : ~agents[a].retired /\ c \in agents[a].crues}) <= crues[c]

\* A terminated agent stays terminated: no screen writes a copy from before.
TerminatedStay ==
    [][\A a \in Agents : agents[a].retired => agents'[a].retired]_vars
=============================================================================
