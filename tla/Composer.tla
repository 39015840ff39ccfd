------------------------------ MODULE Composer ------------------------------
(***************************************************************************)
(* The composition of an agent's operational profile: lib/data/composer.py.*)
(*                                                                         *)
(* A composer is built once per process (get_composer) and keeps every     *)
(* instruction it loaded.  compose copies the instruction and its role, but *)
(* not the list of secondary roles inside the role, and extends that list   *)
(* in place: what the process composed before is therefore part of every    *)
(* later profile.  The argument lists is those shared lists as they are     *)
(* now.  Everything else of a profile is computed from copies.              *)
(*                                                                         *)
(* Texts are model values.  Labels, personas and risk metadata follow from  *)
(* the archetype alone and are left out.                                    *)
(***************************************************************************)
EXTENDS Integers, Sequences, FiniteSets, SequencesExt

CONSTANTS
  Agents,        \* the agents on the roster
  ArchetypeOf,   \* the archetype an agent's focus maps to
  Instruction,   \* the instruction each archetype names
  Base,          \* each instruction: its constraints, its secondary roles and
                 \* whether it has such a list at all
  Blocks,        \* the instruction blocks, by priority
  Depot,         \* the depot tools of each archetype
  Core,          \* the least proficiency of each archetype's capabilities
  NoProfile      \* not composed

Instructions == DOMAIN Base

\* Blocks, roles and constraints are lists, and every agent has an instruction.
ASSUME ComposerAssumption ==
  /\ Blocks \in Seq(Range(Blocks)) /\ \A b \in Range(Blocks) : b.roles \in Seq(Range(b.roles))
  /\ \A i \in Instructions : Base[i].secondary \in Seq(Range(Base[i].secondary))
  /\ \A a \in Agents : Instruction[ArchetypeOf[a]] \in Instructions

\* The lists of a composer that has just been built.
FreshLists == [i \in Instructions |-> Base[i].secondary]

\* A selector that a block leaves out is the set of everything; a block
\* without selectors applies nowhere and has empty ones.
BlockApplies(b, c) ==
  /\ c.archetype \in b.archetypes
  /\ c.rank \in b.ranks
  /\ c.scope \in b.scopes

Applicable(c) ==
  FoldLeft(LAMBDA kept, b : IF BlockApplies(b, c) THEN Append(kept, b) ELSE kept, <<>>, Blocks)

\* One block merged into the running constraints: its own are appended and
\* those it removes are dropped, its own among them.
MergeConstraints(held, b) ==
  SelectSeq(held \o b.constraints, LAMBDA x : x \notin b.removals)

\* The constraints start from a copy of the instruction's.
MergedConstraints(lists, i, c) ==
  FoldLeft(MergeConstraints, Base[i].constraints, Applicable(c))

\* The secondary roles start from the instruction's own list.
MergedRoles(lists, i, c) ==
  FoldLeft(LAMBDA held, b : held \o b.roles, lists[i], Applicable(c))

Locked(c) == UNION {b.locks : b \in Range(Applicable(c))}

ToolAccess(archetype, c) == Depot[archetype] \ Locked(c)

Least(m, n) == IF m < n THEN m ELSE n

Proficiencies(archetype, rank) ==
  [k \in DOMAIN Core[archetype] |->
     Least(5, Core[archetype][k] + Least(2, (rank - 1) \div 2))]

Context(a, rank, scope) == [archetype |-> ArchetypeOf[a], rank |-> rank, scope |-> scope]

Compose(lists, a, rank, scope) ==
  LET c == Context(a, rank, scope)
      i == Instruction[ArchetypeOf[a]]
  IN  [rank         |-> rank,
       roles        |-> MergedRoles(lists, i, c),
       constraints  |-> MergedConstraints(lists, i, c),
       capabilities |-> Proficiencies(c.archetype, rank),
       tools        |-> ToolAccess(c.archetype, c)]

\* What of a profile the provider reads.
RenderSystemPrompt(profile) == <<profile.roles, profile.constraints, profile.tools>>

\* What a composition leaves in the lists.  An instruction without a list
\* gets a fresh one each time, which nothing keeps.
Extended(lists, a, profile) ==
  LET i == Instruction[ArchetypeOf[a]]
  IN  IF Base[i].listed THEN [lists EXCEPT ![i] = profile.roles] ELSE lists
=============================================================================
