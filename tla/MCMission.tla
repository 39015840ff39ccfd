----------------------------- MODULE MCMission -----------------------------
(***************************************************************************)
(* The dispatcher and the economy it pays from.  Dispatch says whom the    *)
(* payroll comes to and for what, Paymaster what a payment, a purchase or  *)
(* a roll does to the records; they share no variable, and a behaviour of  *)
(* this module is a behaviour of one of them, which the other watches.     *)
(*                                                                         *)
(* Three situations of the economy: one clerk and one recruit of every     *)
(* kind the dice can make; one clerk and a crew of two; two clerks that    *)
(* race and may die, with one recruit.                                     *)
(***************************************************************************)
EXTENDS MCDispatch, TLC

CONSTANTS
  o1, o2,
  Thresholds, XpRolls, Variations, BaseGold, XpPerGold, StartingPoints, Caps, Slack,
  Tools, Cost, MinRank, Essentials, FreeIssue, PaidIssue, BudgetCap, MaxPaid,
  Clerks, SkillPointsPerRank, XpPerTask, GoldPerTask, MissionBonusXp, MissionBonusGold,
  MaxProficiency, RankFixed, Derived, Offices, MaxTasks, MaxXp

VARIABLES part, agents, ledger, proc, office, payrolls, rolls

MCVariations == {-1, 0}
MCCaps == <<2, 1>>
MCCost == [bash |-> 0, kit |-> 1, rig |-> 2]
MCMinRank == [bash |-> 0, kit |-> 0, rig |-> 2]
MCRankFixed == {<<0, 3>>, <<2, 1>>}

\* xp only, a penalty of each kind, and a fine larger than any balance.
MCOffers == {[xp |-> 2, gold |-> 0], [xp |-> -2, gold |-> 0],
             [xp |-> 1, gold |-> 1], [xp |-> 0, gold |-> -2]}

\* A clerk with a single agent may meet any recruit, the others a plain one.
Plain(r) == r.xp = 0 /\ r.rank = 0 /\ r.skill = <<1, 0>> /\ r.tool["kit"] = 0
MCStarts(o, r) == (Cardinality(o.clerks) > 1 \/ Cardinality(o.agents) > 1) => Plain(r)
MCOffices == {
  [clerks |-> {o1}, agents |-> {a1}, crashes |-> FALSE,
   offers |-> MCOffers, entries |-> 2, rolls |-> 2, missions |-> 1],
  [clerks |-> {o1}, agents |-> {a1, a2}, crashes |-> FALSE,
   offers |-> MCOffers, entries |-> 2, rolls |-> 0, missions |-> 2],
  [clerks |-> {o1, o2}, agents |-> {a1}, crashes |-> TRUE,
   offers |-> {[xp |-> 2, gold |-> 0]}, entries |-> 1, rolls |-> 1, missions |-> 0]}

Pay == INSTANCE Paymaster WITH paid <- payrolls, Starts <- MCStarts
pay == <<agents, ledger, proc, office, payrolls, rolls>>

ASSUME PayAssumption ==
  /\ Pay!RanksAssumption /\ Pay!TablesAssumption /\ Pay!RatesAssumption
  /\ Pay!RecruitsAssumption /\ Pay!OfficesAssumption

\* The part that watches starts from one of its initial states.
PartsInit ==
  \/ /\ part = "dispatch" /\ Init
     /\ Pay!Init /\ office.crashes /\ agents = [a \in {a1} |-> CHOOSE r \in Pay!Recruits : Plain(r)]
  \/ /\ part = "pay" /\ Pay!Init
     /\ Init /\ plan = Empty /\ records = {} /\ \A a \in Agents : rows[a] = "queued"
PartsNext ==
  \/ part = "dispatch" /\ Next /\ UNCHANGED <<part, pay>>
  \/ part = "pay" /\ Pay!Next /\ UNCHANGED <<part, vars>>
PartsSpec ==
  /\ PartsInit /\ [][PartsNext]_<<part, pay, vars>>
  /\ WF_vars(part = "dispatch" /\ Dispatcher /\ UNCHANGED <<part, pay>>)

\* One grant per threshold crossed since the roll (Paymaster.PointsMatchRank).
PointsMatchRank == Pay!PointsMatchRank

\* The points assigned are in the skills or lost in a roll
\* (Paymaster.PointsInSkills).
PointsInSkills == Pay!PointsInSkills

\* With one clerk and no crash the economy implements Bank
\* (Paymaster.BankSpec).
BankSpec == Pay!BankSpec

\* Every mission the dispatcher takes comes to an end (Dispatch.Ends).
MissionEnds == part = "dispatch" => Ends
=============================================================================
