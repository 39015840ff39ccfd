------------------------------- MODULE Orders -------------------------------
(***************************************************************************)
(* A mission from its form to its tool calls, in one process: a provider is *)
(* resolved, a crew chosen (Crew), the order built (lib/dispatch/builder.py, *)
(* lib/cli/common.py), the briefing disclosed and confirmed                 *)
(* (lib/dispatch/briefing.py, lib/cli/dispatch.py, lib/cli/project.py,      *)
(* tui/views/dispatch.py); the dispatcher gates it again and composes each  *)
(* task's prompt, and the tasks are offered harness functions (Syndicates)  *)
(* and call them (Executor).                                                *)
(*                                                                         *)
(* desk is what the operator has been shown and may still confirm; field is *)
(* the mission that runs.  A command-line process dispatches one, or the    *)
(* cycles of one project in turn; the interface runs the mission on a       *)
(* thread, so the operator may brief the next one or open an agent's        *)
(* operational profile meanwhile.  The inventory, the roster and the        *)
(* bookings are shared with other processes; the configuration and the      *)
(* reference tables are read once per process.                              *)
(***************************************************************************)
EXTENDS Composer, Crew, Syndicates, Executor

CONSTANTS
  Entrances,       \* the processes considered: "cli", "tui"
  Forms,           \* what an operator or a project asks for
  Configs,         \* the configurations: [modality, egress]
  Syndicate,       \* the syndicates' slugs
  Records,         \* the records each syndicate may have in the inventory
  Addresses,       \* the addresses a command may name: <<syndicate, channel>>
  DefaultAddress,  \* the one of dispatch.provider
  Ranks,           \* the ranks an agent may be promoted to
  Paths,           \* the arguments a model may name
  Names,           \* the functions a model may name
  DefaultTools, WorkTools,   \* the tools of a template and of a writable cycle
  Roster,          \* the roster at the start; the other agents are yet to be hired
  Bookings,        \* the sets of agents that may be booked at the start
  Nobody,          \* no agent
  MaxMissions, MaxEdits, MaxLooks, MaxCalls   \* bounds

ASSUME OrdersAssumption ==
  /\ Entrances \subseteq {"cli", "tui"}
  /\ Paths \subseteq Entries \union {Nowhere, NoPath}
  /\ \A address \in Addresses \union {DefaultAddress} : address[1] \in Syndicate

\* A form asks for a crew in one of three ways, for one of four missions; a
\* crew that is asked for by number has somebody (crew_count, and the
\* interface's max(1, ...)).
ASSUME FormsAssumption == \A form \in Forms :
  /\ form.means \in {"named", "skill", "count"}
  /\ form.kind \in {"task", "codebase", "security", "cycle"}
  /\ form.names \in Seq(Range(form.names)) /\ form.count \in Nat \ {0}
  /\ IsFiniteSet(form.terms) /\ \A x \in Agents, t \in form.terms : Worth[x][t] \in Nat

\* The roster lists an agent once, and who is booked is on it.
ASSUME RosterAssumption ==
  /\ Bookings \subseteq SUBSET Range(Roster)
  /\ Roster \in Seq(Agents) /\ \A i, j \in DOMAIN Roster : Roster[i] = Roster[j] => i = j
  /\ Penalty \in Nat /\ \A x \in Agents : Violations[x] \in Nat /\ Experience[x] \in Nat

VARIABLES
  lists,       \* the composer's shared lists of secondary roles
  entry,       \* which of the entrances this process is
  config,      \* the configuration it has read
  inventory,   \* the syndicates' records
  rank,        \* each agent's stored rank
  roster,      \* the agents, in the order they are listed
  booked,      \* those a project has booked
  errand,      \* what this command-line process was started for
  desk,        \* the order that was briefed and awaits the operator, or Clear
  field,       \* the mission that runs or was refused, or Clear
  missions, edits, looks, calls   \* counters of the bounds

hq == <<roster, booked, errand>>
vars == <<lists, entry, config, inventory, rank, hq, desk, field, missions, edits, looks, calls>>

Clear == [stage |-> "clear"]
Fresh == [stage |-> "fresh"]
Over == [stage |-> "over"]

Init ==
  /\ lists = FreshLists
  /\ entry \in Entrances
  /\ config \in Configs
  /\ inventory \in [Syndicate -> Records]
  /\ rank = [x \in Agents |-> 1]
  /\ roster = Roster /\ booked \in Bookings /\ errand = Fresh
  /\ desk = Clear /\ field = Clear
  /\ missions = 0 /\ edits = 0 /\ looks = 0 /\ calls = 0

(***************************************************************************)
(* Orders.  A form says how the crew is to be found (named agents, terms, a  *)
(* count), the kind of mission, whether tools are narrowed to some, whether *)
(* a project's cycle may write, and the flag verbose.  An order holds its   *)
(* constraints, its crew and the members that have a task.                  *)
(***************************************************************************)

Template(crew, n, verbose) ==
  [readOnly |-> TRUE, tools |-> DefaultTools, crew |-> crew,
   tasked |-> Range(Top(n, crew)), verbose |-> verbose]

AdhocTaskMission(crew, verbose) == Template(crew, Len(crew), verbose)
CodebaseAnalysisMission(crew, verbose) == Template(crew, 4, verbose)
SecurityAuditMission(crew, verbose) == Template(crew, 2, verbose)

\* --text-only and --tools replace the tools of a template.
ApplyMissionScope(order, tools) == [order EXCEPT !.tools = tools]

\* A cycle takes its posture from the project's policy, and a writable one a
\* working toolset.
ProjectCycleMission(crew, readOnly, verbose) ==
  [AdhocTaskMission(crew, verbose) EXCEPT
     !.readOnly = readOnly, !.tools = IF readOnly THEN DefaultTools ELSE WorkTools]

\* build_mission_from_args, the interface's ad-hoc task and a project's cycle.
Order(form, crew) ==
  LET order == CASE form.kind = "task"     -> AdhocTaskMission(crew, form.verbose)
                 [] form.kind = "codebase" -> CodebaseAnalysisMission(crew, form.verbose)
                 [] form.kind = "security" -> SecurityAuditMission(crew, form.verbose)
                 [] form.kind = "cycle"    -> ProjectCycleMission(crew, form.readOnly, form.verbose)
  IN  IF form.scoped THEN ApplyMissionScope(order, form.tools) ELSE order

(***************************************************************************)
(* The desk.                                                               *)
(***************************************************************************)

\* The scope a briefing and the dispatcher compose for.
MissionScope(order) == IF order.readOnly THEN "read_only" ELSE "supervised"

\* A verbose briefing composes the crew in turn from the agents as stored.
BriefOne(brief, a) ==
  LET p == Compose(brief.lists, a, rank[a], brief.scope)
  IN  [brief EXCEPT !.lists = Extended(brief.lists, a, p), !.profiles[a] = p]

BuildBriefing(order) ==
  FoldLeft(BriefOne,
           [lists |-> lists, scope |-> MissionScope(order),
            profiles |-> [a \in Agents |-> NoProfile]],
           IF order.verbose THEN order.crew ELSE <<>>)

\* The interface dispatches an ad-hoc task on the configured address and
\* shows no prompts; the command line has one errand, and repeats cycles.
MayOrder(form, address) ==
  /\ desk = Clear /\ missions < MaxMissions
  /\ entry = "cli" => /\ field = Clear
                      /\ \/ errand = Fresh
                         \/ errand.stage = "cycles" /\ errand.form = form
  /\ entry = "tui" => /\ address = DefaultAddress
                      /\ form.kind = "task" /\ ~ form.scoped /\ ~ form.verbose

\* The rounds of a command share the provider it resolved.
ProvidersFor(address) ==
  IF errand.stage = "cycles" THEN {errand.provider} ELSE GetProvider(inventory, address[1], address[2])

CrewFor(form, draft) ==
  IF entry = "cli" THEN ResolveCrew(form, roster, booked, draft) ELSE BriefedCrew(form, roster, draft)

\* Whom the generator may make: somebody who is not on the roster.
Hires == IF Range(roster) = Agents THEN {Nobody} ELSE Agents \ Range(roster)

\* The interface leaves the posture to the dispatcher.
RefusedAtDesk(order, p) ==
  \/ order.crew = <<>>
  \/ entry = "cli" /\ ModalityViolation(order, config.modality)
  \/ CapabilityViolation(order, p.syndicate, p.channel, config.egress)

\* Provider, crew, order, briefing and gates.  Whoever was hired for a crew
\* stays on the roster when the order is refused.
TakeOrder(form, address) ==
  /\ MayOrder(form, address)
  /\ missions' = missions + 1
  /\ \E p \in ProvidersFor(address) \ {NoProvider}, draft \in Hires :
       LET crew    == CrewFor(form, draft)
           order   == Order(form, crew)
           brief   == BuildBriefing(order)
           refused == RefusedAtDesk(order, p)
       IN  /\ Nobody \notin Range(crew)
           /\ roster' = IF draft \in Range(crew) THEN Append(roster, draft) ELSE roster
           /\ desk' = IF refused THEN Clear
                      ELSE [stage |-> "briefed", order |-> order, provider |-> p,
                            profiles |-> brief.profiles, edited |-> FALSE,
                            form |-> form, from |-> roster, taken |-> booked]
           /\ lists' = IF refused THEN lists ELSE brief.lists
           /\ errand' = IF entry = "tui" THEN errand
                        ELSE IF refused \/ form.kind # "cycle" THEN Over
                        ELSE [stage |-> "cycles", form |-> form, provider |-> p]
  /\ UNCHANGED <<entry, config, inventory, rank, booked, field, edits, looks, calls>>

Decline ==
  /\ desk.stage = "briefed"
  /\ desk' = Clear
  /\ errand' = IF entry = "cli" THEN Over ELSE errand
  /\ UNCHANGED <<lists, entry, config, inventory, rank, roster, booked, field, missions, edits, looks, calls>>

(***************************************************************************)
(* The field.                                                              *)
(***************************************************************************)

\* The provider that serves: the one disclosed on the command line; the
\* interface's worker resolves the configured address anew.
\* Mutant: the worker resolves the address, as the interface does.
ServingAnew == GetProvider(inventory, DefaultAddress[1], DefaultAddress[2])
Serving ==
  IF entry = "cli" THEN {desk.provider}
  ELSE GetProvider(inventory, DefaultAddress[1], DefaultAddress[2])

RefusedInField(order, p) ==
  \/ p = NoProvider
  \/ ModalityViolation(order, config.modality)
  \/ CapabilityViolation(order, p.syndicate, p.channel, config.egress)

\* The operator confirms: both gates again, then the provider is asked whether
\* it is available and the crew is loaded, either of which may fail.
Launch ==
  /\ desk.stage = "briefed" /\ field.stage # "running"
  /\ \E p \in Serving, ready \in BOOLEAN :
       field' = [stage  |-> IF RefusedInField(desk.order, p) THEN "refused"
                            ELSE IF ready THEN "running" ELSE "failed",
                 brief  |-> desk, provider |-> p, seen |-> rank,
                 prompts |-> [a \in Agents |-> NoProfile],
                 last   |-> [outcome |-> "none"]]
  /\ desk' = Clear
  /\ UNCHANGED <<hq, lists, entry, config, inventory, rank, missions, edits, looks, calls>>

\* Mutant: the scope parameter keeps its default.
StartTaskDefaultScope(a) ==
  /\ field.stage = "running" /\ a \in field.brief.order.tasked /\ field.prompts[a] = NoProfile
  /\ LET p == Compose(lists, a, field.seen[a], "read_only")
     IN  /\ field' = [field EXCEPT !.prompts[a] = p]
         /\ lists' = Extended(lists, a, p)
  /\ UNCHANGED <<hq, entry, config, inventory, rank, desk, missions, edits, looks, calls>>

\* A task starts: its prompt is composed from the agent as it was loaded and
\* kept, and the depot tools it grants are stamped on the task.
StartTask(a) ==
  /\ field.stage = "running" /\ a \in field.brief.order.tasked /\ field.prompts[a] = NoProfile
  /\ LET p == Compose(lists, a, field.seen[a], MissionScope(field.brief.order))
     IN  /\ field' = [field EXCEPT !.prompts[a] = p]
         /\ lists' = Extended(lists, a, p)
  /\ UNCHANGED <<hq, entry, config, inventory, rank, desk, missions, edits, looks, calls>>

\* The functions a running task is offered; with none it is single-shot.
Offered(a) == OfferedFunctions(field.brief.order, field.provider, field.prompts[a].tools)

CallTool(a, name, path, wellFormed) ==
  /\ field.stage = "running" /\ field.prompts[a] # NoProfile /\ calls < MaxCalls
  /\ Offered(a) # {}
  /\ \E r \in Run(name, path, wellFormed, Offered(a),
                    field.brief.order.readOnly, Mutating(name)) :
       field' = [field EXCEPT !.last =
                   [agent |-> a, name |-> name, outcome |-> r.outcome, shows |-> r.shows]]
  /\ calls' = calls + 1
  /\ UNCHANGED <<hq, lists, entry, config, inventory, rank, desk, missions, edits, looks>>

\* The mission ends, or the refusal has been read.
Land ==
  /\ field # Clear
  /\ field' = Clear
  /\ UNCHANGED <<hq, lists, entry, config, inventory, rank, desk, missions, edits, looks, calls>>

(***************************************************************************)
(* Meanwhile.                                                              *)
(***************************************************************************)

\* The dossier composes an agent's profile for display, always read-only.
OpenProfile(a) ==
  /\ entry = "tui" /\ looks < MaxLooks
  /\ lists' = Extended(lists, a, Compose(lists, a, rank[a], "read_only"))
  /\ looks' = looks + 1
  /\ UNCHANGED <<hq, entry, config, inventory, rank, desk, field, missions, edits, calls>>

\* Another process promotes an agent or rewrites a syndicate's record.
Promote(a, r) ==
  /\ edits < MaxEdits /\ rank[a] < r
  /\ rank' = [rank EXCEPT ![a] = r]
  /\ edits' = edits + 1
  /\ UNCHANGED <<hq, lists, entry, config, inventory, desk, field, missions, looks, calls>>

\* Another process assigns an agent to a project or releases it.
Rebook(a) ==
  /\ edits < MaxEdits /\ a \in Range(roster)
  /\ booked' = IF a \in booked THEN booked \ {a} ELSE booked \union {a}
  /\ edits' = edits + 1
  /\ UNCHANGED <<lists, entry, config, inventory, rank, roster, errand, desk, field, missions, looks, calls>>

EditSyndicate(s, r) ==
  /\ edits < MaxEdits /\ inventory[s] # r
  /\ inventory' = [inventory EXCEPT ![s] = r]
  /\ desk' = IF desk = Clear THEN desk ELSE [desk EXCEPT !.edited = TRUE]
  /\ edits' = edits + 1
  /\ UNCHANGED <<hq, lists, entry, config, rank, field, missions, looks, calls>>

Next ==
  \/ \E form \in Forms, address \in Addresses : TakeOrder(form, address)
  \/ Decline
  \/ Launch
  \/ \E a \in Agents : StartTask(a)
  \/ \E a \in Agents, name \in Names, path \in Paths, wellFormed \in BOOLEAN :
       CallTool(a, name, path, wellFormed)
  \/ Land
  \/ \E a \in Agents : OpenProfile(a)
  \/ \E a \in Agents, r \in Ranks : Promote(a, r)
  \/ \E a \in Agents : Rebook(a)
  \/ \E s \in Syndicate, r \in Records : EditSyndicate(s, r)

Spec == Init /\ [][Next]_vars

(***************************************************************************)
(* Properties.                                                             *)
(***************************************************************************)

\* The briefing binds.  What runs is what the operator was shown, and a
\* confirmed order is refused late only in the interface: because the
\* inventory was edited since the briefing, or over the posture, which only
\* the dispatcher looks at there.
BriefingBinds ==
  /\ field.stage = "running" => \/ field.provider = field.brief.provider
                                \/ entry = "tui" /\ field.brief.edited
  /\ field.stage = "refused" =>
       /\ entry = "tui"
       /\ field.brief.edited \/ ModalityViolation(field.brief.order, config.modality)

\* Of an agent that was not promoted since the briefing, everything that was
\* disclosed is executed: constraints, capabilities and depot tools are the
\* same whatever the process composed in between, and no disclosed role is
\* missing.  (The roles may have grown: see PromptsAsDisclosed.)
OnlyRolesDrift ==
  field.stage = "running" =>
    \A a \in Agents :
      LET shown == field.brief.profiles[a]
          run   == field.prompts[a]
      IN  shown # NoProfile /\ run # NoProfile /\ shown.rank = run.rank =>
            /\ [run EXCEPT !.roles = <<>>] = [shown EXCEPT !.roles = <<>>]
            /\ IsPrefix(shown.roles, run.roles)

\* A call that succeeded was within the order, the channel and the agent's
\* depot tools at once, and disclosed nothing from outside the working
\* directory: contents of files inside it, names of its entries.
ServedWithinOrders ==
  field.stage = "running" /\ field.last.outcome = "ok" =>
    LET name  == field.last.name
        order == field.brief.order
    IN  /\ name \in order.tools
        /\ CapabilityOfTool(name) \subseteq
             field.provider.channel.capabilities \intersect RequiredCapabilities(order)
        /\ \E r \in Rows : r.name = name
             /\ r.depot \in field.prompts[field.last.agent].tools \union {NoDepot}
        /\ \A e \in field.last.shows : Inside(IF name = "LS" THEN e ELSE Real(e))

\* A crew that was not named, against the roster and the bookings it was chosen from.
WellChosen(b) ==
  b # Clear /\ b.form.means # "named" =>
    LET crew  == Range(b.order.crew)
        away  == IF entry = "cli" THEN b.taken ELSE {}
        hired == crew \ Range(b.from)
        apt   == {x \in Range(b.from) \ away : Score(x, b.form.terms) > 0}
    IN  /\ crew \intersect away = {}
        /\ Cardinality(crew) = Len(b.order.crew) /\ Len(b.order.crew) <= b.form.count
        /\ b.form.means = "skill" =>
             IF apt = {} THEN crew = hired /\ Cardinality(hired) = 1
             ELSE /\ crew \subseteq apt
                  /\ \A x \in crew, y \in apt \ crew :
                       Score(y, b.form.terms) <= Score(x, b.form.terms)
                  /\ Cardinality(crew) = Min({b.form.count, Cardinality(apt)})

\* Nobody books an agent twice by asking for a competency or a number: such a
\* crew of the command line had no booking when it was chosen.  Asked for
\* terms, either front end leaves out nobody who scores higher than a member
\* and could go, and hires only when nobody who could go scores at all.
CrewQualified ==
  \A b \in {desk} \union (IF field = Clear THEN {} ELSE {field.brief}) : WellChosen(b)

\* lib/dispatch/briefing.py:70: "the prompts disclosed in a briefing are
\* exactly the prompts executed."
PromptsAsDisclosed ==
  field.stage = "running" =>
    \A a \in Agents :
      field.brief.profiles[a] # NoProfile /\ field.prompts[a] # NoProfile =>
        RenderSystemPrompt(field.prompts[a]) = RenderSystemPrompt(field.brief.profiles[a])
=============================================================================
