----------------------------- MODULE Journals -----------------------------
(***************************************************************************)
(* The dispatch log (lib/dispatch/ops_log.py) as the dispatcher writes it, *)
(* and the operations log (lib/remote/hq_log.py).  A dispatch entry is     *)
(* appended to a CSV file and then put into a JSON file, which is read,    *)
(* extended, cut to its newest entries and written back whole.  The        *)
(* operations log is a CSV file alone.                                     *)
(*                                                                         *)
(* Within a process a task logs all it has to log between two awaits, and  *)
(* no other task of the process in between; processes interleave anywhere  *)
(* and may die.  A JSON file that is missing or cut short reads as empty.  *)
(* The tasks here are one wave; waves and answers are Dispatch's.          *)
(***************************************************************************)
EXTENDS Naturals, Sequences, FiniteSets, FiniteSetsExt, SequencesExt

CONSTANTS
    Procs,       \* agency processes
    Tasks,       \* the tasks of a mission
    NoTask,
    Known,       \* those with a known answer
    Cap,         \* entries the JSON file keeps (10000)
    MaxActs,     \* bound: missions and their tasks, together
    MaxOps,      \* bound: operations messages
    MaxMishaps   \* bound: deaths, files both of two processes make, and
                 \* entries two processes write at once, together

CapAssumption == Cap \in Nat \ {0}
NoTaskAssumption == NoTask \notin Tasks

VARIABLES
    csv, json, ops,   \* the rows and entries of the three files
    there,            \* the files that exist
    at,               \* where each process is
    todo,             \* entries its running task is yet to write, in order
    snap,             \* what a process read of the JSON file
    state,            \* the tasks of the mission a process executes
    mission,          \* its number, 0 for none
    times,            \* tasks whose dispatch time the logger keeps
    said,             \* history: operations messages logged
    acts,             \* history: missions and tasks begun
    outcome,          \* history: what each mission came to
    mishaps           \* history: what went wrong, by kind

files == <<csv, json, ops, there>>
vars == <<csv, json, ops, there, at, todo, snap, state, mission, times, said, acts, outcome, mishaps>>

Mishap == {"death", "race", "clash"}
MishapsSum == FoldSet(LAMBDA k, n : mishaps[k] + n, 0, Mishap)
Counts(k) == MishapsSum < MaxMishaps /\ mishaps' = [mishaps EXCEPT ![k] = @ + 1]

Entry(m, t, type, status) == [mission |-> m, task |-> t, type |-> type, status |-> status]
MissionEntry(m, type, status) == Entry(m, NoTask, type, status)

Fresh == [t \in Tasks |-> "none"]
Goes(p, step) == at' = [at EXCEPT ![p] = step]

Init ==
    /\ csv = <<>> /\ json = <<>> /\ ops = <<>> /\ there = {}
    /\ at = [p \in Procs |-> "down"]
    /\ todo = [p \in Procs |-> <<>>] /\ snap = [p \in Procs |-> <<>>]
    /\ state = [p \in Procs |-> Fresh] /\ mission = [p \in Procs |-> 0]
    /\ times = [p \in Procs |-> {}]
    /\ said = 0 /\ acts = 0 /\ outcome = <<>>
    /\ mishaps = [k \in Mishap |-> 0]

-----------------------------------------------------------------------------
(* A logger is made: each file that is not there gets its header, or [].   *)

Rest == UNCHANGED <<todo, snap, state, mission, times, said, acts, outcome>>

\* The first step: a process starts, with the first file to look for.
Up(p) ==
    /\ at[p] = "down" /\ acts < MaxActs
    /\ Goes(p, "csv?")
    /\ Rest /\ UNCHANGED <<files, mishaps>>

\* Where a process is that looks for a file, and that is about to make it.
Looks == [csv |-> "csv?", json |-> "json?", ops |-> "ops?"]
Lacks == [csv |-> "csv!", json |-> "json!", ops |-> "ops!"]

After(file) == CASE file = "csv" -> "json?" [] file = "json" -> "ops?" [] file = "ops" -> "idle"

Asks(p, file) ==
    /\ at[p] = Looks[file]
    /\ Goes(p, IF file \in there THEN After(file) ELSE Lacks[file])
    /\ Rest /\ UNCHANGED <<files, mishaps>>

\* open(path, 'w'): whatever another process wrote since is gone.
Makes(p, file) ==
    /\ at[p] = Lacks[file]
    /\ there' = there \union {file}
    /\ csv' = IF file = "csv" THEN <<>> ELSE csv
    /\ json' = IF file = "json" THEN <<>> ELSE json
    /\ ops' = IF file = "ops" THEN <<>> ELSE ops
    /\ IF file \in there THEN Counts("race") ELSE UNCHANGED mishaps
    /\ Goes(p, After(file))
    /\ Rest

-----------------------------------------------------------------------------
(* DispatchLogger._write_entry, for the entries a task has to write.       *)

InJson(p) == at[p] \in {"read", "cut", "fill"}

AppendCsv(p) ==
    /\ at[p] = "idle" /\ todo[p] # <<>>
    /\ csv' = Append(csv, Head(todo[p]))
    /\ Goes(p, "read")
    /\ UNCHANGED <<json, ops, there, mishaps>> /\ Rest

ReadJson(p) ==
    /\ at[p] = "read"
    /\ snap' = [snap EXCEPT ![p] = json]
    /\ Goes(p, "cut")
    /\ IF \E q \in Procs \ {p} : InJson(q) THEN Counts("clash") ELSE UNCHANGED mishaps
    /\ UNCHANGED <<files, todo, state, mission, times, said, acts, outcome>>

CutJson(p) ==
    /\ at[p] = "cut"
    /\ json' = <<>> /\ there' = there \union {"json"}
    /\ Goes(p, "fill")
    /\ UNCHANGED <<csv, ops, mishaps>> /\ Rest

\* Mutant: one entry more is dropped at the limit.
NewestFew(s) == IF Len(s) > Cap THEN SubSeq(s, Len(s) - Cap + 2, Len(s)) ELSE s

Newest(s) == IF Len(s) > Cap THEN SubSeq(s, Len(s) - Cap + 1, Len(s)) ELSE s

FillJson(p) ==
    /\ at[p] = "fill"
    /\ json' = Newest(Append(snap[p], Head(todo[p])))
    /\ todo' = [todo EXCEPT ![p] = Tail(@)]
    /\ snap' = [snap EXCEPT ![p] = <<>>]
    /\ Goes(p, "idle")
    /\ UNCHANGED <<csv, ops, there, state, mission, times, said, acts, outcome, mishaps>>

-----------------------------------------------------------------------------
(* What Dispatcher.execute logs.                                           *)

\* A process with nothing to write goes on.
Free(p) == at[p] = "idle" /\ todo[p] = <<>>
Logs(p, entries) ==
    /\ Free(p)
    /\ todo' = [todo EXCEPT ![p] = entries]
    /\ UNCHANGED <<files, at, snap, said, mishaps>>

\* A mission with no tasks, or nobody to serve it: refused, no provider, an
\* agent not found.
Start(p) ==
    /\ mission[p] = 0
    /\ \E list \in SUBSET Tasks, serves \in BOOLEAN :
         LET m == Len(outcome) + 1
             runs == list # {} /\ serves
         IN  /\ acts + 1 + Cardinality(list) <= MaxActs /\ acts' = acts + 1 + Cardinality(list)
             /\ outcome' = Append(outcome, [complete |-> {}, failed |-> {}, ended |-> ~runs])
             /\ IF runs
                THEN /\ Logs(p, <<MissionEntry(m, "mission_start", "ok")>>)
                     /\ mission' = [mission EXCEPT ![p] = m]
                     /\ state' = [state EXCEPT ![p] =
                          [t \in Tasks |-> IF t \in list THEN "pending" ELSE "none"]]
                ELSE /\ Logs(p, <<MissionEntry(m, "mission_fail", "fail")>>)
                     /\ UNCHANGED <<mission, state>>
    /\ UNCHANGED times

\* A task takes the semaphore.  Its agent is gone by now, or ...
\* Mutant: it is not said.
OrphanSilent(p, t) ==
    /\ mission[p] # 0 /\ state[p][t] = "pending"
    /\ Logs(p, <<>>)
    /\ state' = [state EXCEPT ![p][t] = "failed"]
    /\ outcome' = [outcome EXCEPT ![mission[p]].failed = @ \union {t}]
    /\ UNCHANGED <<mission, times, acts>>

Orphan(p, t) ==
    /\ mission[p] # 0 /\ state[p][t] = "pending"
    /\ Logs(p, <<Entry(mission[p], t, "task_fail", "fail")>>)
    /\ state' = [state EXCEPT ![p][t] = "failed"]
    /\ outcome' = [outcome EXCEPT ![mission[p]].failed = @ \union {t}]
    /\ UNCHANGED <<mission, times, acts>>

\* ... it is dispatched, and the provider asked.
Dispatched(p, t) ==
    /\ mission[p] # 0 /\ state[p][t] = "pending"
    /\ Logs(p, <<Entry(mission[p], t, "task_dispatched", "pending"),
                 Entry(mission[p], t, "task_active", "pending")>>)
    /\ times' = [times EXCEPT ![p] = @ \union {<<mission[p], t>>}]
    /\ state' = [state EXCEPT ![p][t] = "running"]
    /\ UNCHANGED <<mission, acts, outcome>>

\* What the ledger of the exchange, the harness and the check of a known
\* answer add.
Findings(m, t) == {<<>>, <<Entry(m, t, "anomaly", "fail"), Entry(m, t, "tool_call", "ok")>>}

\* log_task_complete takes the dispatch time for the time in the queue,
\* log_task_fail leaves it.
Takes(p, t, status) == IF status = "complete" THEN {<<mission[p], t>>} ELSE {}

Verdict(m, t, status) ==
    (IF t \in Known THEN <<Entry(m, t, "task_verify", IF status = "complete" THEN "ok" ELSE "fail")>>
                    ELSE <<>>)
    \o (IF status = "complete" THEN <<Entry(m, t, "task_complete", "ok")>>
                               ELSE <<Entry(m, t, "task_fail", "fail")>>)

Answered(p, t) ==
    /\ mission[p] # 0 /\ state[p][t] = "running"
    /\ \E status \in {"complete", "failed"} :
         /\ \E found \in Findings(mission[p], t) :
              Logs(p, found \o Verdict(mission[p], t, status))
         /\ state' = [state EXCEPT ![p][t] = status]
         /\ times' = [times EXCEPT ![p] = @ \ Takes(p, t, status)]
         /\ outcome' = [outcome EXCEPT ![mission[p]][status] = @ \union {t}]
    /\ UNCHANGED <<mission, acts>>

Ended(p) ==
    LET m == mission[p]
        good == \A t \in Tasks : state[p][t] # "failed"
    IN  /\ m # 0 /\ \A t \in Tasks : state[p][t] \notin {"pending", "running"}
        /\ Logs(p, <<IF good THEN MissionEntry(m, "mission_complete", "ok")
                             ELSE MissionEntry(m, "mission_fail", "fail")>>)
        /\ mission' = [mission EXCEPT ![p] = 0] /\ state' = [state EXCEPT ![p] = Fresh]
        /\ outcome' = [outcome EXCEPT ![m].ended = TRUE]
        /\ UNCHANGED <<times, acts>>

-----------------------------------------------------------------------------
(* The operations log.                                                     *)

\* A message of any kind is a row; a command's exit code, the success of a
\* transfer, a deployment or a health check make its status.
Statuses == {"ok", "fail"}

LogOps(p) ==
    /\ Free(p) /\ mission[p] = 0 /\ said < MaxOps
    /\ said' = said + 1
    /\ \E status \in Statuses : ops' = Append(ops, status)
    /\ UNCHANGED <<csv, json, there, at, todo, snap, state, mission, times, acts, outcome, mishaps>>

-----------------------------------------------------------------------------

\* A process ends, with all it holds in memory.
Ends(p) ==
    /\ at[p] # "down"
    /\ IF Free(p) /\ mission[p] = 0 THEN UNCHANGED mishaps ELSE Counts("death")
    /\ Goes(p, "down")
    /\ todo' = [todo EXCEPT ![p] = <<>>] /\ snap' = [snap EXCEPT ![p] = <<>>]
    /\ state' = [state EXCEPT ![p] = Fresh] /\ mission' = [mission EXCEPT ![p] = 0]
    /\ times' = [times EXCEPT ![p] = {}]
    /\ UNCHANGED <<files, said, acts, outcome>>

Writes(p) ==
    \/ \E file \in {"csv", "json", "ops"} : Asks(p, file) \/ Makes(p, file)
    \/ AppendCsv(p) \/ ReadJson(p) \/ CutJson(p) \/ FillJson(p)

Executes(p) ==
    \/ Start(p) \/ Ended(p) \/ LogOps(p)
    \/ \E t \in Tasks : Orphan(p, t) \/ Dispatched(p, t) \/ Answered(p, t)

Next == \E p \in Procs : Up(p) \/ Writes(p) \/ Executes(p) \/ Ends(p)

Spec == Init /\ [][Next]_vars

-----------------------------------------------------------------------------
(* What the logs are asked.                                                *)

\* get_mission_summary's counts, over the entries it is given.
Count(m, entries, type) ==
    Cardinality({k \in DOMAIN entries : entries[k].mission = m /\ entries[k].type = type})
Summary(m, entries) == [complete |-> Count(m, entries, "task_complete"),
                        failed |-> Count(m, entries, "task_fail")]

-----------------------------------------------------------------------------
(* Properties.                                                             *)

\* As long as nothing goes wrong the JSON file holds the newest rows of the
\* CSV file, in order: cutting it never drops one too many, and making a
\* second logger forgets nothing.
JsonIsTail ==
    ((\A k \in Mishap : mishaps[k] = 0) /\ \A p \in Procs : ~InJson(p)) =>
        json = SubSeq(csv, Max({1, Len(csv) - Cap + 1}), Len(csv))

\* A mission that ended, with nothing left to write.
Settled(m) == outcome[m].ended /\ \A p \in Procs : todo[p] = <<>>
Counted(m) == [complete |-> Cardinality(outcome[m].complete),
               failed |-> Cardinality(outcome[m].failed)]

\* What the CSV file says of a mission that ended is what execute counted,
\* whatever overlaps and whoever dies, and every operations message is kept:
\* only two processes making a file at once can lose a row.
LogsTell ==
    mishaps["race"] = 0 =>
        /\ Len(ops) = said
        /\ \A m \in DOMAIN outcome : Settled(m) => Summary(m, csv) = Counted(m)
=============================================================================
