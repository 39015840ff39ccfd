----------------------------- MODULE Generator -----------------------------
(***************************************************************************)
(* The economy of a generated agent (lib/data/generator.py): what the dice *)
(* may make of its experience, rank, gold, skill points and tools.  Every  *)
(* operator gives the set of the outcomes.  Classification, names, persona *)
(* and capabilities have no part in the economy.                           *)
(***************************************************************************)
EXTENDS Integers, FiniteSets, Sequences, FiniteSetsExt

CONSTANTS
  Thresholds,     \* xp_threshold of the ranks
  XpRolls,        \* bound: the rolls of experience considered
  Variations,     \* bound: the variations of the starting gold considered
  BaseGold,       \* defaults.starting_gold
  XpPerGold,      \* experience worth one more gold at the start
  StartingPoints, \* defaults.skill_points
  Caps,           \* max_points of the skill domains, in their order
  Slack,          \* how far a domain strays from the even share
  Tools,          \* the depot's tools
  Cost,           \* of each tool
  MinRank,        \* threshold of the rank each tool requires
  Essentials,     \* tools a starter considers whatever its rank and budget
  FreeIssue, PaidIssue,  \* proficiencies of a starter's tools
  BudgetCap,      \* gold a starter spends at most
  MaxPaid         \* paid tools a starter tries at most

RanksAssumption ==
  Thresholds \subseteq Nat /\ IsFiniteSet(Thresholds) /\ 0 \in Thresholds
TablesAssumption ==
  /\ XpRolls \subseteq Nat /\ Variations \subseteq Int
  /\ {BaseGold, StartingPoints, Slack, BudgetCap, MaxPaid} \subseteq Nat
  /\ XpPerGold \in Nat \ {0}
  /\ Caps \in Seq(Nat \ {0}) /\ Caps # <<>>
  /\ IsFiniteSet(Tools)
  /\ Cost \in [Tools -> Nat] /\ MinRank \in [Tools -> Thresholds]
  /\ Essentials \subseteq Tools /\ {FreeIssue, PaidIssue} \subseteq Nat \ {0}

Floor(n) == IF n < 0 THEN 0 ELSE n
Least(m, n) == IF m < n THEN m ELSE n
Largest(S) == CHOOSE n \in S : \A m \in S : m <= n
Domains == DOMAIN Caps
Points(skill) == MapThenSumSet(LAMBDA d : skill[d], Domains)

\* _rank_for_xp, as the threshold of the rank: where two
\* ranks share one (Synthesizer and Theorist) the choice between them moves
\* no number.
Unlocked(xp) == Largest({t \in Thresholds : t <= xp})

\* _get_rank_for_xp, unless the caller fixes the rank.
RankHeld(rankFixed, rank, xp) == IF rankFixed THEN rank ELSE Unlocked(xp)

\* _scale_gold.
ScaledGold(xp) == {Floor(BaseGold + xp \div XpPerGold + v) : v \in Variations}

\* What one domain may take of the points that remain: about an even share,
\* and the last one all of them, within the cap.
Shares(i, remaining) ==
  LET room == Least(remaining, Caps[i])
      even == remaining \div (Len(Caps) - i + 1)
  IN  IF i = Len(Caps) THEN {room} ELSE Floor(even - Slack)..Least(room, even + Slack)

\* random_skills: the domains in turn.  Points the last one has no room for
\* are in no skill.
RandomSkills(points) ==
  LET spread[i \in 0..Len(Caps)] ==
        IF i = 0 THEN {[skill |-> [d \in Domains |-> 0], remaining |-> points]}
        ELSE UNION {{[skill |-> [s.skill EXCEPT ![i] = n], remaining |-> s.remaining - n] :
                       n \in Shares(i, s.remaining)} : s \in spread[i - 1]}
  IN  {s.skill : s \in spread[Len(Caps)]}

\* The orders random.shuffle may put a set in.
Shuffles(S) == {f \in [1..Cardinality(S) -> S] : \A i, j \in DOMAIN f : i # j => f[i] # f[j]}

\* random_starter_tools: the free ones, and of the first few paid ones those
\* the budget still covers.
RandomStarterTools(rank, budget) ==
  LET available == {t \in Tools : MinRank[t] <= rank /\ Cost[t] <= budget} \union Essentials
      free      == {t \in available : Cost[t] = 0}
      bought(order) ==
        LET upTo[i \in 0..Least(MaxPaid, Len(order))] ==
              IF i = 0 THEN [tools |-> {}, spent |-> 0]
              ELSE LET b == upTo[i - 1] IN
                   IF b.spent + Cost[order[i]] <= budget
                   THEN [tools |-> b.tools \union {order[i]}, spent |-> b.spent + Cost[order[i]]]
                   ELSE b
        IN  upTo[Least(MaxPaid, Len(order))]
  IN  {LET b == bought(order)
       IN  [tool  |-> [t \in Tools |-> IF t \in free THEN FreeIssue
                                       ELSE IF t \in b.tools THEN PaidIssue ELSE 0],
            spent |-> b.spent] : order \in Shuffles(available \ free)}

\* generate: the rank follows from the experience unless the caller fixes it;
\* the tools are paid from the starting gold.  born and lost are no fields: they
\* remember the rank of the roll and the points it found no room for.
Generate(rankFixed, rank, points) ==
  UNION {LET held == RankHeld(rankFixed, rank, xp)
         IN  UNION {{[xp |-> xp, gold |-> gold - k.spent, rank |-> held, born |-> held,
                      total |-> StartingPoints, assigned |-> points, skill |-> skill,
                      lost |-> points - Points(skill), tool |-> k.tool, done |-> 0] :
                       skill \in RandomSkills(points),
                       k \in RandomStarterTools(held, Least(BudgetCap, gold))} :
                    gold \in ScaledGold(xp)} : xp \in XpRolls}
=============================================================================
