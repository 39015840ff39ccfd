-------------------------------- MODULE Crew --------------------------------
(***************************************************************************)
(* Who goes on a mission (lib/cli/common.py, lib/data/roster.py, the       *)
(* briefing of tui/views/dispatch.py): the agents the operator names, those *)
(* that score on the terms asked for, or the first of the roster.  The     *)
(* command line passes over agents that a project has booked, unless they  *)
(* are named; the interface does not look.                                 *)
(***************************************************************************)
EXTENDS Integers, FiniteSets, Sequences, SequencesExt

CONSTANTS
  Worth,        \* what each agent's competencies score on each term
  Violations,   \* each agent's conduct record
  Penalty,      \* what a violation costs on the score
  Experience    \* each agent's experience, which settles ties

\* An agent's score on some terms; conduct counts only against who scores.
Scored(x, terms) == FoldSet(LAMBDA t, n : n + Worth[x][t], 0, terms)
Score(x, terms) ==
  LET n == Scored(x, terms) IN IF n > 0 THEN n - Penalty * Violations[x] ELSE n

\* The candidates who are not booked, best first; sort is stable.
Precedes(roster, terms, x, y) ==
  \/ Score(x, terms) > Score(y, terms)
  \/ Score(x, terms) = Score(y, terms) /\ Experience[x] > Experience[y]
  \/ /\ Score(x, terms) = Score(y, terms) /\ Experience[x] = Experience[y]
     /\ \E i, j \in DOMAIN roster : i < j /\ roster[i] = x /\ roster[j] = y
Candidates(roster, terms, booked) ==
  LET apt == {x \in Range(roster) \ booked : Score(x, terms) > 0}
  IN  CHOOSE s \in [1..Cardinality(apt) -> apt] :
        /\ Range(s) = apt
        /\ \A i, j \in DOMAIN s : i < j => Precedes(roster, terms, s[i], s[j])

Top(n, s) == SubSeq(s, 1, Min({n, Len(s)}))

\* Mutant: the best are chosen first and the booked among them passed over.
MatchBest(roster, terms, n, booked) ==
  SelectSeq(Top(n, Candidates(roster, terms, {})), LAMBDA x : x \notin booked)

\* match_agents, less the candidates it only mentions: the command line asks
\* for available ones, the interface for any (nobody is booked to it).
Match(roster, terms, n, booked) ==
  Top(n, Candidates(roster, terms, booked))

\* Those of a roster that are in a set, in the roster's order.
Among(roster, S) == FoldLeft(LAMBDA s, x : IF x \in S THEN Append(s, x) ELSE s, <<>>, roster)

\* select_crew: it means to prefer diverse archetypes, but the loop ends at
\* the count, and below the count it takes any agent.
SelectCrew(roster, n, booked) ==
  Top(n, Among(roster, Range(roster) \ booked))

\* resolve_crew, over a form; <<>> is an exit.  Draft stands for a new hire.
ResolveCrew(form, roster, booked, draft) ==
  CASE form.means = "named" -> IF Range(form.names) \subseteq Range(roster) THEN form.names ELSE <<>>
    [] form.means = "skill" ->
         LET found == Match(roster, form.terms, form.count, booked)
         IN  IF found = <<>> THEN <<draft>> ELSE found
    [] form.means = "count" -> SelectCrew(roster, form.count, booked)

\* The interface's crew: its shortlist in the roster's order, and no booking
\* is asked for.
BriefedCrew(form, roster, draft) ==
  CASE form.means = "named" -> Among(roster, Range(form.names))
    [] form.means = "skill" ->
         LET found == Match(roster, form.terms, form.count, {})
         IN  IF found = <<>> THEN <<draft>> ELSE found
    [] form.means = "count" -> Top(form.count, roster)
=============================================================================
