----------------------------- MODULE MCRecords -----------------------------
(***************************************************************************)
(* The datastore, the terminal interface's screens and the logs share no   *)
(* variable: each is modelled at the level of detail its own hazards need. *)
(* A behaviour of this module is a behaviour of one of the three, which    *)
(* the other two watch.                                                    *)
(***************************************************************************)
EXTENDS Console, TLC

CONSTANTS
  p, q, b1, b2, s1, s2,
  Procs, Records, Slugs, FirstRow, NPlaces, MaxIds, MaxOps, MaxMishaps,
  Tasks, NoTask, Known, Cap, MaxActs, MaxMessages, MaxAccidents

VARIABLES
  part,                                                       \* the one that moves
  files, table, cache, draft, job, drawn, kept, rows, begun, races, crashes, actors,
  csv, json, ops, there, at, todo, snap, state, mission, times, said, acts, outcome, mishaps

data == <<files, table, cache, draft, job, drawn, kept, rows, begun, races, crashes, actors>>
log == <<csv, json, ops, there, at, todo, snap, state, mission, times, said, acts, outcome, mishaps>>

Data == INSTANCE DataStore
Log == INSTANCE Journals WITH MaxOps <- MaxMessages, MaxMishaps <- MaxAccidents

MCProcs == {p, q}
MCRecords == {b1, b2}
MCSlugs == {s1, s2}
MCTasks == {s1, s2}
MCKnown == {s2}
Symmetry == Permutations(MCProcs) \union Permutations(MCRecords)

ASSUME DataAssumption == Data!FirstRowAssumption /\ Data!PlacesAssumption
ASSUME LogAssumption == Log!CapAssumption /\ Log!NoTaskAssumption

PartsInit == part \in {"console", "data", "log"} /\ Init /\ Data!Init /\ Log!Init
PartsNext ==
  \/ part = "console" /\ Next /\ UNCHANGED <<part, data, log>>
  \/ part = "data" /\ Data!Next /\ UNCHANGED <<part, vars, log>>
  \/ part = "log" /\ Log!Next /\ UNCHANGED <<part, vars, data>>
PartsSpec == PartsInit /\ [][PartsNext]_<<part, vars, data, log>>

\* Every lost record or row is paid for by a death in mid-write or by an
\* overlap (DataStore.MishapCostsOne).
MishapCostsOne == Data!MishapCostsOne

\* A record is in two files only while it moves, or after a mishap
\* (DataStore.OneCopy).
OneCopy == Data!OneCopy

\* One process alone never leaves a record pointing at a row that is gone
\* (DataStore.RestrictAlone).
RestrictAlone == Data!RestrictAlone

\* While nothing goes wrong the JSON log is the tail of the CSV log
\* (Journals.JsonIsTail).
JsonIsTail == Log!JsonIsTail

\* What the CSV log says of a mission that ended is what was counted
\* (Journals.LogsTell).
LogsTell == Log!LogsTell
=============================================================================
