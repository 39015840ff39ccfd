----------------------------- MODULE Paymaster -----------------------------
(***************************************************************************)
(* The economy (lib/data/economy.py): awards, payroll, dojo and depot, of  *)
(* agents as the generator rolls them and the interface's reroll screen    *)
(* (tui/views/progression.py) rolls them again.                            *)
(* Every operation reads an agent's record, computes new balances from the *)
(* copy, writes those fields back (a reroll writes the whole copy), and    *)
(* then appends the gold it moved to the ledger: loads the file, truncates *)
(* it, writes it again with one more entry; a reroll appends nothing.      *)
(* Nothing spans the two files and nothing locks either.  Several          *)
(* processes, the clerks, may do this at a time (the dispatcher, the CLI,  *)
(* the TUI's dojo with the agent it has on screen).                        *)
(***************************************************************************)
EXTENDS Generator

CONSTANTS
  Clerks, Agents,
  SkillPointsPerRank,
  XpPerTask, GoldPerTask, MissionBonusXp, MissionBonusGold,
  MaxProficiency,
  RankFixed, Derived,  \* <<rank, points>> of generate's callers that fix the
                  \* rank (seeds), and points of those that leave it to the dice
  Offices,        \* the situations considered: who works, for which agents,
                  \* whether clerks may die, and the bounds that differ: the
                  \* manual credits (records of xp and gold, either sign), the
                  \* ledger entries from which no gold moves, the rerolls, the
                  \* missions paid
  Starts(_, _),   \* whether a situation starts with a recruit
  MaxTasks,       \* bound: completed tasks of an agent in a mission
  MaxXp           \* bound: experience from which nobody earns more

RatesAssumption ==
  /\ {SkillPointsPerRank, XpPerTask, MissionBonusXp, MissionBonusGold, MaxProficiency} \subseteq Nat
  /\ GoldPerTask \in Nat \ {0}

\* generate's own default of points is within those an agent has; seed.py
\* assigns what it likes.
RecruitsAssumption ==
  /\ RankFixed \subseteq Thresholds \X Nat
  /\ Derived \in 0..StartingPoints

OfficesAssumption ==
  \A f \in Offices :
    /\ f.clerks \subseteq Clerks /\ IsFiniteSet(f.clerks) /\ f.agents \subseteq Agents /\ f.agents # {}
    /\ f.crashes \in BOOLEAN
    /\ \A offer \in f.offers : offer.xp \in Int /\ offer.gold \in Int

VARIABLES
  agents,  \* the agents' records
  ledger,  \* the ledger file: its last complete content, and whether it is torn
  proc,    \* the clerks
  office,  \* which of the situations this is
  paid,    \* history: missions paid so far; numbers them
  rolls    \* history: rerolls saved

vars == <<agents, ledger, proc, office, paid, rolls>>
-----------------------------------------------------------------------------
\* Mutant of Promoted: compares with the rank the old experience unlocks.
PromotedByXp(seen, xp) == Unlocked(xp) > Unlocked(seen.xp)

\* Promotion compares with the rank held, which penalties do not take away.
Promoted(seen, xp) == Unlocked(xp) > seen.rank

Grant(seen, xp) ==
  SkillPointsPerRank * Cardinality({t \in Thresholds : seen.rank < t /\ t <= Unlocked(xp)})

\* apply_award: the record as it is now with the fields computed from the copy.
Award(now, seen, xp, gold) ==
  LET new     == Floor(seen.xp + xp)
      settled == [now EXCEPT !.xp = new, !.gold = Floor(seen.gold + gold)]
  IN IF Promoted(seen, new)
     THEN [settled EXCEPT !.rank = Unlocked(new),
                          !.total = seen.total + Grant(seen, new)]
     ELSE settled

\* The gold an award moves: a penalty takes no more than there is.
Movement(seen, gold) == Floor(seen.gold + gold) - seen.gold

\* Mutant of Trained: the skill is raised on the record as it is now.
TrainedOnFile(now, seen, d, points) ==
  [now EXCEPT !.skill[d] = @ + points, !.lost = seen.lost, !.total = seen.total,
              !.assigned = seen.assigned + points]

\* train: skills and the pool are written from the copy, the total included.
Trained(now, seen, d, points) ==
  [now EXCEPT !.skill = [seen.skill EXCEPT ![d] = @ + points], !.lost = seen.lost,
              !.total = seen.total, !.assigned = seen.assigned + points]

\* equip.
Equipped(now, seen, t) ==
  [now EXCEPT !.tool = [seen.tool EXCEPT ![t] = @ + 1], !.gold = seen.gold - Cost[t]]

\* What the reroll screen makes of the copy it holds: one die of five (two of
\* them outside the economy), or the whole agent, which keeps its id and tag.
RerollSkills(copy) ==
  {[copy EXCEPT !.skill = skill, !.lost = copy.assigned - Points(skill)] :
     skill \in RandomSkills(copy.assigned)}
RerollTools(copy) ==
  LET purse == copy.gold + MapThenSumSet(LAMBDA t : Cost[t], {t \in Tools : copy.tool[t] > 0})
  IN  {[copy EXCEPT !.tool = k.tool, !.gold = purse - k.spent] :
         k \in RandomStarterTools(copy.rank, Least(BudgetCap, purse))}
RerollGold(copy) == {[copy EXCEPT !.gold = gold] : gold \in ScaledGold(copy.xp)}

Rerolled(copy) ==
  RerollSkills(copy) \union RerollTools(copy) \union RerollGold(copy)
    \union Generate(FALSE, 0, Derived)

\* _append_to_log numbers the entry.
NextId(rows) == Largest({rows[i].id : i \in DOMAIN rows} \union {0}) + 1

\* A torn file does not parse and counts as empty.
Loaded(file) == IF file.torn THEN <<>> ELSE file.rows
-----------------------------------------------------------------------------
\* The agents the command line, the interface and the seeds generate.
Recruits ==
  Generate(FALSE, 0, Derived) \union UNION {Generate(TRUE, f[1], f[2]) : f \in RankFixed}

\* What a clerk has in hand: the agent, the copy of its record, the operation
\* with its amounts and its object, the gold to enter, the ledger as loaded;
\* on payroll also the mission, whether it is complete, and the tasks still to
\* pay for.
NoCopy == [none |-> TRUE]
Free == [pc |-> "free", agent |-> CHOOSE a \in Agents : TRUE, seen |-> NoCopy,
         op |-> "award", on |-> 0, xp |-> 0, gold |-> 0, rows |-> <<>>, mission |-> 0,
         complete |-> FALSE, work |-> [a \in Agents |-> 0]]

Init ==
  /\ office \in Offices
  /\ agents \in [office.agents -> {r \in Recruits : Starts(office, r)}]
  /\ ledger = [torn |-> FALSE, rows |-> <<>>]
  /\ proc = [o \in Clerks |-> Free]
  /\ paid = 0 /\ rolls = 0

At(o, pc) == proc[o].pc = pc
Room(n)   == Len(ledger.rows) + n <= office.entries

\* An operation begins with a copy of the record.
Begin(o, a, hand) ==
  /\ At(o, "free")
  /\ proc' = [proc EXCEPT ![o] = [hand EXCEPT !.pc = "saving", !.agent = a]]
  /\ UNCHANGED <<agents, ledger, office, paid, rolls>>

\* agent credit.
StartCredit(o, a, offer) ==
  /\ Room(1)
  /\ agents[a].xp + offer.xp <= MaxXp
  /\ offer.xp # 0 \/ offer.gold # 0
  /\ Begin(o, a, [Free EXCEPT !.seen = agents[a], !.xp = offer.xp, !.gold = offer.gold])

\* The dojo: xp holds the points asked for.
StartTrain(o, a, d, points) ==
  /\ points <= agents[a].total - agents[a].assigned
  /\ agents[a].skill[d] + points <= Caps[d]
  /\ Begin(o, a, [Free EXCEPT !.op = "train", !.seen = agents[a], !.on = d, !.xp = points])

\* Mutant of StartEquip: the price is not looked at.
StartEquipUnpriced(o, a, t) ==
  /\ Room(1)
  /\ agents[a].tool[t] < MaxProficiency
  /\ Begin(o, a, [Free EXCEPT !.op = "equip", !.seen = agents[a], !.on = t, !.gold = -Cost[t]])

\* The depot; a free tool moves no gold.
StartEquip(o, a, t) ==
  /\ Room(1)
  /\ agents[a].tool[t] < MaxProficiency
  /\ Cost[t] <= agents[a].gold
  /\ Begin(o, a, [Free EXCEPT !.op = "equip", !.seen = agents[a], !.on = t, !.gold = -Cost[t]])

\* The reroll screen changes the copy it shows and saves all of it.
StartReroll(o, a) ==
  /\ rolls < office.rolls
  /\ \E roll \in Rerolled(agents[a]) :
       Begin(o, a, [Free EXCEPT !.op = "reroll", !.seen = roll])

\* The payroll of a mission that ended, with the tasks each agent completed.
StartPayroll(o, work, complete) ==
  /\ paid < office.missions /\ Room(Cardinality(office.agents))
  /\ \A a \in office.agents : agents[a].xp + MaxTasks * XpPerTask + MissionBonusXp <= MaxXp
  /\ At(o, "free")
  /\ proc' = [proc EXCEPT ![o] =
       [Free EXCEPT !.pc = "payroll", !.mission = paid + 1,
                    !.complete = complete, !.work = work]]
  /\ paid' = paid + 1
  /\ UNCHANGED <<agents, ledger, office, rolls>>

\* The next agent of the crew with a completed task is read.
PayNext(o, a) ==
  LET me == proc[o] IN
  /\ At(o, "payroll")
  /\ me.work[a] > 0
  /\ proc' = [proc EXCEPT ![o] =
       [me EXCEPT !.pc = "saving", !.agent = a, !.seen = agents[a],
          !.work = [me.work EXCEPT ![a] = 0],
          !.xp = me.work[a] * XpPerTask + IF me.complete THEN MissionBonusXp ELSE 0,
          !.gold = me.work[a] * GoldPerTask
                     + IF me.complete THEN MissionBonusGold ELSE 0]]
  /\ UNCHANGED <<agents, ledger, office, paid, rolls>>

EndPayroll(o) ==
  /\ At(o, "payroll")
  /\ \A a \in Agents : proc[o].work[a] = 0
  /\ proc' = [proc EXCEPT ![o] = Free]
  /\ UNCHANGED <<agents, ledger, office, paid, rolls>>

\* What the record becomes and what the ledger is owed.
Saved(me, now) ==
  CASE me.op = "award"  -> Award(now, me.seen, me.xp, me.gold)
    [] me.op = "train"  -> Trained(now, me.seen, me.on, me.xp)
    [] me.op = "equip"  -> Equipped(now, me.seen, me.on)
    [] me.op = "reroll" -> me.seen

Owed(me) == IF me.op = "award" THEN Movement(me.seen, me.gold) ELSE me.gold

\* Where a clerk goes when an operation is done.
After(me) == IF me.mission = 0 THEN Free
             ELSE [me EXCEPT !.pc = IF me.complete THEN "crediting" ELSE "payroll",
                             !.gold = 0, !.rows = <<>>]

\* The balances are persisted; an amount of 0 is not entered.
Save(o) ==
  LET me == proc[o] IN
  /\ At(o, "saving")
  /\ agents' = [agents EXCEPT ![me.agent] = Saved(me, @)]
  /\ rolls' = IF me.op = "reroll" THEN rolls + 1 ELSE rolls
  /\ proc' = [proc EXCEPT ![o] =
       IF Owed(me) = 0 THEN After(me)
       ELSE [me EXCEPT !.pc = "loading", !.gold = Owed(me)]]
  /\ UNCHANGED <<ledger, office, paid>>

LoadLedger(o) ==
  /\ At(o, "loading")
  /\ proc' = [proc EXCEPT ![o].pc = "opening", ![o].rows = Loaded(ledger)]
  /\ UNCHANGED <<agents, ledger, office, paid, rolls>>

\* open(path, "w") empties the file.
OpenLedger(o) ==
  /\ At(o, "opening")
  /\ ledger' = [ledger EXCEPT !.torn = TRUE]
  /\ proc' = [proc EXCEPT ![o].pc = "writing"]
  /\ UNCHANGED <<agents, office, paid, rolls>>

WriteLedger(o) ==
  LET me    == proc[o]
      entry == [id |-> NextId(me.rows), agent |-> me.agent, amount |-> me.gold,
                mission |-> me.mission]
  IN
  /\ At(o, "writing")
  /\ ledger' = [torn |-> FALSE, rows |-> Append(me.rows, entry)]
  /\ proc' = [proc EXCEPT ![o] = After(me)]
  /\ UNCHANGED <<agents, office, paid, rolls>>

\* The missions_completed credit, from the copy read before the award.
Credit(o) ==
  /\ At(o, "crediting")
  /\ agents' = [agents EXCEPT ![proc[o].agent].done = proc[o].seen.done + 1]
  /\ proc' = [proc EXCEPT ![o].pc = "payroll"]
  /\ UNCHANGED <<ledger, office, paid, rolls>>

Crash(o) ==
  /\ office.crashes
  /\ ~At(o, "free")
  /\ proc' = [proc EXCEPT ![o] = Free]
  /\ UNCHANGED <<agents, ledger, office, paid, rolls>>

Next == \E o \in office.clerks :
  \/ \E a \in office.agents :
       \/ \E offer \in office.offers : StartCredit(o, a, offer)
       \/ \E d \in Domains : \E points \in 1..Caps[d] : StartTrain(o, a, d, points)
       \/ \E t \in Tools : StartEquip(o, a, t)
       \/ StartReroll(o, a)
       \/ PayNext(o, a)
  \/ \E work \in [office.agents -> 0..MaxTasks], complete \in BOOLEAN :
       StartPayroll(o, [a \in Agents |-> IF a \in office.agents THEN work[a] ELSE 0], complete)
  \/ EndPayroll(o) \/ Save(o) \/ LoadLedger(o) \/ OpenLedger(o)
  \/ WriteLedger(o) \/ Credit(o) \/ Crash(o)

Spec == Init /\ [][Next]_vars
-----------------------------------------------------------------------------
(* Properties. *)

\* One process at a time, and none dies.
Alone == Cardinality(office.clerks) = 1 /\ ~office.crashes

\* One grant per threshold crossed since the agent was rolled, whatever rank
\* the roll gave it: penalties and new promotions never grant the points of a
\* rank twice, and no operation takes them back.
PointsMatchRank ==
  Alone => \A a \in office.agents :
    agents[a].total = StartingPoints +
      SkillPointsPerRank *
        Cardinality({t \in Thresholds : agents[a].born < t /\ t <= agents[a].rank})

\* The points assigned are the points in the skills and those a roll found no
\* room for, whoever trains and rerolls whom and whoever dies; no skill passes
\* its cap; and with one process at a time they were there to assign.
PointsInSkills ==
  \A a \in office.agents :
    /\ agents[a].assigned = Points(agents[a].skill) + agents[a].lost
    /\ \A d \in Domains : agents[a].skill[d] <= Caps[d]
    /\ Alone => agents[a].assigned <= agents[a].total

\* With one clerk and no crash the economy implements the Bank: an account has
\* moved once the ledger says so, the book is the ledger, and only the reroll
\* screen moves gold that no entry tells of ("every gold movement lands in the
\* immutable transaction ledger" is true of economy.py alone).
TheClerk == CHOOSE o \in office.clerks : TRUE
Entering == proc[TheClerk].pc \in {"loading", "opening", "writing"}
Cleared(a) == agents[a].gold - IF Entering /\ proc[TheClerk].agent = a
                               THEN proc[TheClerk].gold ELSE 0

B == INSTANCE Bank WITH
       Accounts <- Agents,
       balance <- [a \in Agents |-> IF Alone /\ a \in office.agents THEN Cleared(a) ELSE 0],
       book <- IF ~Alone THEN <<>>
               ELSE [i \in DOMAIN ledger.rows |->
                  [agent |-> ledger.rows[i].agent, amount |-> ledger.rows[i].amount]],
       rolls <- IF Alone THEN rolls ELSE 0

BankSpec == B!Spec
=============================================================================
