----------------------------- MODULE Enrollment -----------------------------
(***************************************************************************)
(* Recruiting and enrolling agents (lib/data/generator.py, create.py of    *)
(* the interface, lib/data/identity.py).  A candidate is rolled with the   *)
(* next free tag and hired later; enrolling issues a key pair into a       *)
(* directory of the vault named by the agent's dogtag, writes a manifest   *)
(* beside it and the fingerprint into the agent's record, in that order    *)
(* and from a copy of the record that may be old.  Several processes do    *)
(* this at once; each may die between two steps.                           *)
(*                                                                         *)
(* ssh-keygen is external: over a key that exists it asks a question that  *)
(* nobody is shown (its output is captured), so it fails.                  *)
(***************************************************************************)
EXTENDS Naturals, FiniteSets, FiniteSetsExt, Functions

CONSTANTS
    Procs,        \* commands and interfaces
    Agents,       \* ids of agents, each given once (uuid4)
    Names,        \* dogtags
    Nobody,       \* no agent
    MaxKeys,      \* bound: key pairs generated
    MaxMishaps    \* bound: changes of name, enrollments of one agent at once
                  \* and processes that die, together

NobodyAssumption == Nobody \notin Agents

VARIABLES
    records,    \* the agents' records, over the ids hired so far
    vault,      \* the depot vault: what each directory holds
    candidate,  \* each process's rolled candidate
    copies,     \* each process's copies of the agents it is to enroll
    job,        \* each process's enrollment under way
    keys,       \* history: key pairs generated
    renames,    \* history: changes of name
    contests,   \* history: enrollments begun while another was at the agent
    disturbed,  \* history: agents renamed or contested
    crashes,    \* history: processes that died
    unseen      \* history: for every agent, those hired while it was a candidate

hist == <<keys, renames, contests, disturbed, crashes, unseen>>
vars == <<records, vault, candidate, copies, job, hist>>

NoPair == 0
Dirs == Names \X (Agents \union {Nobody})
NoCandidate == [rolled |-> FALSE]
Idle == [step |-> "idle"]
NoCopies == [a \in {} |-> Nobody]

Hired == DOMAIN records
Active == {a \in Hired : ~records[a].retired}
Manifest(s, a, k) == [state |-> s, agent |-> a, key |-> k]
NoManifest == Manifest("none", Nobody, NoPair)

Init ==
    /\ records = [a \in {} |-> Nobody]
    /\ vault = [d \in Dirs |-> [key |-> NoPair, manifest |-> NoManifest]]
    /\ candidate = [p \in Procs |-> NoCandidate]
    /\ copies = [p \in Procs |-> NoCopies]
    /\ job = [p \in Procs |-> Idle]
    /\ keys = 0 /\ renames = 0 /\ contests = 0 /\ disturbed = {} /\ crashes = 0
    /\ unseen = [a \in {} |-> {}]

Free(p) == job[p] = Idle
AtDesk(p) == Free(p) /\ ~candidate[p].rolled
Mishaps == renames + contests + crashes

\* is_enrolled, of a record or a copy of one.
Enrolled(r) == r.key # NoPair

-----------------------------------------------------------------------------
(* Recruiting.                                                             *)

\* Mutant: only agents that have their badge are looked at.
NextTagOfBadges(recs) == Max({recs[a].tag : a \in {x \in DOMAIN recs : Enrolled(recs[x])}} \union {0}) + 1

\* next_tag: one above the highest tag of the agents that are not retired.
NextTag(recs) == Max({recs[a].tag : a \in {x \in DOMAIN recs : ~recs[x].retired}} \union {0}) + 1

\* generate: the candidate is on screen, or a moment later it is hired.
Roll(p, n) ==
    /\ Free(p)
    /\ candidate' = [candidate EXCEPT ![p] =
         [rolled |-> TRUE, name |-> n, tag |-> NextTag(records), over |-> Hired]]
    /\ copies' = [copies EXCEPT ![p] = NoCopies]
    /\ UNCHANGED <<records, vault, job, hist>>

\* _apply_create_edit gives a candidate another name, and Q drops it.
Rechristen(p, n) ==
    /\ candidate[p].rolled /\ n # candidate[p].name
    /\ candidate' = [candidate EXCEPT ![p].name = n]
    /\ UNCHANGED <<records, vault, copies, job, hist>>

Drop(p) ==
    /\ candidate[p].rolled
    /\ candidate' = [candidate EXCEPT ![p] = NoCandidate]
    /\ UNCHANGED <<records, vault, copies, job, hist>>

\* create, and then try_enroll of what create returned.
Hire(p, a) ==
    /\ candidate[p].rolled /\ a \notin Hired
    /\ LET c == candidate[p]
           r == [name |-> c.name, tag |-> c.tag, key |-> NoPair,
                 dir |-> <<c.name, Nobody>>, retired |-> FALSE]
       IN  /\ records' = [x \in Hired \union {a} |-> IF x = a THEN r ELSE records[x]]
           /\ copies' = [copies EXCEPT ![p] = [x \in {a} |-> r]]
           /\ unseen' = [x \in Hired \union {a} |->
                IF x = a THEN Hired \ c.over ELSE unseen[x]]
    /\ candidate' = [candidate EXCEPT ![p] = NoCandidate]
    /\ UNCHANGED <<vault, job, keys, renames, contests, disturbed, crashes>>

\* Soft delete.
Retire(p, a) ==
    /\ AtDesk(p) /\ a \in Active
    /\ records' = [records EXCEPT ![a].retired = TRUE]
    /\ copies' = [copies EXCEPT ![p] = NoCopies]
    /\ UNCHANGED <<vault, candidate, job, hist>>

\* _save_agent_edit and _full_regenerate: another name, and with it another
\* dogtag; the process goes on with the record as it then is.
Rename(p, a, n) ==
    /\ AtDesk(p) /\ a \in Active /\ n # records[a].name
    /\ Mishaps < MaxMishaps /\ renames' = renames + 1
    /\ records' = [records EXCEPT ![a].name = n]
    /\ copies' = [copies EXCEPT ![p] = [x \in {a} |-> records'[a]]]
    /\ disturbed' = disturbed \union {a}
    /\ UNCHANGED <<vault, candidate, job, keys, contests, crashes, unseen>>

-----------------------------------------------------------------------------
(* Enrolling.                                                              *)

\* A command finds the agent; a dossier shows it, from a roster loaded then.
LookUp(p, a) ==
    /\ AtDesk(p) /\ a \in Active
    /\ copies' = [copies EXCEPT ![p] = [x \in {a} |-> records[a]]]
    /\ UNCHANGED <<records, vault, candidate, job, hist>>

\* backfill: every agent of the roster that is not enrolled, in one query.
Backfill(p) ==
    /\ AtDesk(p)
    /\ copies' = [copies EXCEPT ![p] =
         [x \in {a \in Active : ~Enrolled(records[a])} |-> records[x]]]
    /\ UNCHANGED <<records, vault, candidate, job, hist>>

\* Mutant: a manifest is taken for another agent's without being asked.
VaultDirUnasked(a, n) ==
    IF vault[<<n, Nobody>>].manifest.state = "none" THEN <<n, Nobody>> ELSE <<n, a>>

\* _agent_vault_dir: the dogtag's directory, unless its manifest names
\* another agent or cannot be read.
VaultDir(a, n) ==
    LET m == vault[<<n, Nobody>>].manifest
    IN  IF m.state = "none" \/ (m.state = "whole" /\ m.agent = a)
          THEN <<n, Nobody>> ELSE <<n, a>>

\* An enrollment begins, perhaps while another process is enrolling the agent.
Begins(p, a) ==
    LET others == {q \in Procs \ {p} : ~Free(q) /\ job[q].agent = a} IN
    /\ Free(p) /\ a \in DOMAIN copies[p] /\ ~Enrolled(copies[p][a])
    /\ others # {} => Mishaps < MaxMishaps
    /\ contests' = IF others # {} THEN contests + 1 ELSE contests
    /\ disturbed' = IF others # {} THEN disturbed \union {a} ELSE disturbed
    /\ UNCHANGED <<keys, renames, crashes, unseen>>

Without(f, a) == Restrict(f, DOMAIN f \ {a})

\* Mutant: key material that is there is taken for the agent's own.
ClaimAny(p, a) ==
    /\ Begins(p, a)
    /\ LET d == VaultDir(a, copies[p][a].name) IN
         job' = [job EXCEPT ![p] =
           [step |-> IF vault[d].key = NoPair THEN "generate" ELSE "manifest",
            agent |-> a, dir |-> d, key |-> vault[d].key]]
    /\ UNCHANGED <<records, vault, candidate, copies>>

\* enroll up to the check for unclaimed key material.
Claim(p, a) ==
    /\ Begins(p, a)
    /\ LET d == VaultDir(a, copies[p][a].name) IN
         /\ vault[d].key = NoPair
         /\ job' = [job EXCEPT ![p] =
              [step |-> "generate", agent |-> a, dir |-> d, key |-> NoPair]]
    /\ UNCHANGED <<records, vault, candidate, copies>>

\* RuntimeError: the attempt is over, and the rest of a backfill with it.
Refuse(p, a) ==
    /\ Free(p) /\ a \in DOMAIN copies[p] /\ ~Enrolled(copies[p][a])
    /\ vault[VaultDir(a, copies[p][a].name)].key # NoPair
    /\ copies' = [copies EXCEPT ![p] = NoCopies]
    /\ UNCHANGED <<records, vault, candidate, job, hist>>

\* generate_key runs ssh-keygen ...
Generate(p) ==
    /\ job[p].step = "generate" /\ vault[job[p].dir].key = NoPair
    /\ keys < MaxKeys /\ keys' = keys + 1
    /\ vault' = [vault EXCEPT ![job[p].dir].key = keys']
    /\ job' = [job EXCEPT ![p].step = "manifest", ![p].key = keys']
    /\ UNCHANGED <<records, candidate, copies, renames, contests, disturbed, crashes, unseen>>

\* ... which may fail, and does where a key is by now.
GenerateFails(p) ==
    /\ job[p].step = "generate"
    /\ job' = [job EXCEPT ![p] = Idle]
    /\ copies' = [copies EXCEPT ![p] = NoCopies]
    /\ UNCHANGED <<records, vault, candidate, hist>>

\* open(manifest_path, "w"), and json.dump.
OpenManifest(p) ==
    /\ job[p].step = "manifest"
    /\ vault' = [vault EXCEPT ![job[p].dir].manifest = Manifest("torn", Nobody, NoPair)]
    /\ job' = [job EXCEPT ![p].step = "fill"]
    /\ UNCHANGED <<records, candidate, copies, hist>>

FillManifest(p) ==
    /\ job[p].step = "fill"
    /\ vault' = [vault EXCEPT ![job[p].dir].manifest =
         Manifest("whole", job[p].agent, job[p].key)]
    /\ job' = [job EXCEPT ![p].step = "record"]
    /\ UNCHANGED <<records, candidate, copies, hist>>

\* ds.update of the record's crypto; the rest of a backfill goes on.
Record(p) ==
    /\ job[p].step = "record"
    /\ LET j == job[p] IN
         /\ records' = [records EXCEPT ![j.agent].key = j.key, ![j.agent].dir = j.dir]
         /\ copies' = [copies EXCEPT ![p] = Without(@, j.agent)]
    /\ job' = [job EXCEPT ![p] = Idle]
    /\ UNCHANGED <<vault, candidate, hist>>

Crash(p) ==
    /\ ~Free(p)
    /\ Mishaps < MaxMishaps /\ crashes' = crashes + 1
    /\ candidate' = [candidate EXCEPT ![p] = NoCandidate]
    /\ copies' = [copies EXCEPT ![p] = NoCopies]
    /\ job' = [job EXCEPT ![p] = Idle]
    /\ UNCHANGED <<records, vault, keys, renames, contests, disturbed, unseen>>

Recruit(p) ==
    \/ \E n \in Names : Roll(p, n) \/ Rechristen(p, n)
    \/ Drop(p)
    \/ \E a \in Agents : Hire(p, a) \/ Retire(p, a) \/ \E n \in Names : Rename(p, a, n)

Enroll(p) ==
    \/ \E a \in Agents : LookUp(p, a) \/ Claim(p, a) \/ Refuse(p, a)
    \/ Backfill(p)
    \/ Generate(p) \/ GenerateFails(p) \/ OpenManifest(p) \/ FillManifest(p) \/ Record(p)

Next == \E p \in Procs : Recruit(p) \/ Enroll(p) \/ Crash(p)

Spec == Init /\ [][Next]_vars

-----------------------------------------------------------------------------
(* Properties.                                                             *)

\* Whatever dies or overlaps, a badge on record is backed: the directory it
\* names holds its key and a whole manifest that names the agent and the key,
\* so no two agents' badges rest on one key (enroll's order: key, manifest,
\* record; _agent_vault_dir's disambiguation).
BadgesBacked ==
    \A a \in Hired : Enrolled(records[a]) =>
        vault[records[a].dir] = [key |-> records[a].key,
                                 manifest |-> Manifest("whole", a, records[a].key)]

\* Pairs nobody's record claims and no process is about to.
Orphans ==
    {d \in Dirs : /\ vault[d].key # NoPair
                  /\ \A a \in Hired : records[a].key # vault[d].key
                  /\ \A p \in Procs : ~Free(p) => job[p].key # vault[d].key}

\* "Orphaned material without a matching record claim": it comes from a
\* process that died inside enroll, from a change of name, or from two
\* processes at one agent, one for one; refusals, retries, backfills and
\* enrollments of different agents that overlap leave none.
OrphansExplained == Cardinality(Orphans) <= crashes + renames + contests

\* "Numeric tag/badge number": two agents on the roster share a tag only if
\* one was still a candidate when the other was hired (next_tag looks at the
\* records alone; a tag is free again once its agent is retired).
TagsDistinct ==
    \A a, b \in Active : a # b /\ records[a].tag = records[b].tag =>
        a \in unseen[b] \/ b \in unseen[a]

\* An agent that keeps its name and is enrolled by one process at a time
\* keeps its first key pair, however old the copies later attempts start from.
KeyKept ==
    [][\A a \in Hired \ disturbed : Enrolled(records[a]) => records'[a].key = records[a].key]_vars
=============================================================================
