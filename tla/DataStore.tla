----------------------------- MODULE DataStore -----------------------------
(***************************************************************************)
(* The JSON datastore (lib/data/crud.py) under the record editor           *)
(* (lib/data/drafts.py), which `nim.agency data` and the terminal          *)
(* interface share.  Several processes work on the same files: the         *)
(* interface lives long, keeps its own cache of the reference tables and   *)
(* may hold a draft open; a command is a process that ends.  There is no   *)
(* lock.  A file is opened for writing, which empties it, and then filled. *)
(*                                                                         *)
(* Modelled are one collection whose files are named by a layout           *)
(* (instruction_block: {category}/{slug}) and one reference table whose    *)
(* slugs its records point at (archetype).                                 *)
(***************************************************************************)
EXTENDS Naturals, FiniteSets, FiniteSetsExt

CONSTANTS
    Procs,       \* processes: commands and interfaces
    Records,     \* ids of instruction blocks, each given once (uuid4)
    NPlaces,     \* files the layout can name, in the order glob sorts them
    Slugs,       \* slugs of rows of the reference table
    FirstRow,    \* the slug the table starts with
    MaxIds,      \* bound: highest id a row is given
    MaxOps,      \* bound: operations begun
    MaxMishaps   \* bound: overlapping operations and deaths, together

FirstRowAssumption == FirstRow \in Slugs
PlacesAssumption == NPlaces \in Nat

Places == 1..NPlaces

Absent == [state |-> "absent"]     \* no such file
Torn   == [state |-> "torn"]       \* a file json.load cannot read
TornTable == {[id |-> 0, slug |-> "torn"]}
NoCache == {[id |-> 0, slug |-> "none"]}
NoDraft == [open |-> FALSE]
Idle    == [kind |-> "idle"]

VARIABLES
    files,     \* the collection's directory: what each file holds
    table,     \* the reference table's file: its rows (the list is in the
               \* order of their ids), or TornTable
    cache,     \* each process's DataStore._reference_cache
    draft,     \* each process's open Draft
    job,       \* what each process is in the middle of writing
    drawn,     \* record ids already given out
    kept,      \* history: records saved and not deleted since
    rows,      \* history: rows added and not deleted since
    begun,     \* history: operations begun
    races,     \* history: operations begun while another was under way
    crashes,   \* history: processes that died inside an operation
    actors     \* history: the processes that ever began an operation

disk == <<files, table>>
mind == <<cache, draft, job>>
past == <<kept, rows, begun, races, crashes, actors>>
vars == <<disk, mind, drawn, past>>

Whole(a)      == files[a].state = "whole"
HoldsRec(a, r) == Whole(a) /\ files[a].id = r
Readable      == table # TornTable
SlugsOf(t)    == {row.slug : row \in t}
IdsOf(t)      == {row.id : row \in t}

\* load_reference without force_reload: the cached rows if there are any.
View(p) == IF cache[p] # NoCache THEN cache[p] ELSE table
CanView(p) == cache[p] # NoCache \/ Readable

\* The live records: refs.records leaves out retired and unreadable ones.
LiveAt(a) == Whole(a) /\ ~files[a].retired

\* The files find_record matches for an id; more than one is "ambiguous".
Matches(r) == {a \in Places : LiveAt(a) /\ files[a].id = r}

\* DataStore.read under a layout: the first file in glob order, retired or not.
Copies(r)  == {a \in Places : HoldsRec(a, r)}

\* Mutant: inbound looks at the retired records instead of the live ones.
HoldersRetired(s) == {a \in Places : Whole(a) /\ files[a].retired /\ s \in files[a].refs}

\* inbound: the live records that point at a slug.
Holders(s) == {a \in Places : LiveAt(a) /\ s \in files[a].refs}

Busy(p) == job[p] # Idle

Init ==
    /\ files = [a \in Places |-> Absent]
    /\ table = {[id |-> 1, slug |-> FirstRow]}
    /\ cache = [p \in Procs |-> NoCache]
    /\ draft = [p \in Procs |-> NoDraft]
    /\ job = [p \in Procs |-> Idle]
    /\ drawn = {} /\ kept = {} /\ rows = {FirstRow}
    /\ begun = 0 /\ races = 0 /\ crashes = 0 /\ actors = {}

-----------------------------------------------------------------------------
(* Drafts: compose a record, checked against the tables as this process    *)
(* sees them.                                                              *)

\* Any choice field reads the table through the process's cache.
Look(p) == cache' = [cache EXCEPT ![p] = View(p)]

\* Draft.new: an empty record; its id is generated when it is created.
OpenNew(p, r, a) ==
    /\ draft[p] = NoDraft /\ ~Busy(p)
    /\ r \notin drawn
    /\ drawn' = drawn \union {r}
    /\ draft' = [draft EXCEPT ![p] =
         [open |-> TRUE, new |-> TRUE, id |-> r, at |-> a, refs |-> {}]]
    /\ UNCHANGED <<disk, cache, job, past>>

\* Draft.load: exactly one live record must match, or the load raises.
Open(p, r) ==
    /\ draft[p] = NoDraft /\ ~Busy(p)
    /\ \E a \in Places :
         /\ Matches(r) = {a}
         /\ draft' = [draft EXCEPT ![p] =
              [open |-> TRUE, new |-> FALSE, id |-> r, at |-> a, refs |-> files[a].refs]]
    /\ UNCHANGED <<disk, cache, job, drawn, past>>

\* Draft.set on category or slug: the file the layout names changes (a new
\* draft's is whatever OpenNew chose).
Rename(p, a) ==
    /\ draft[p].open /\ ~draft[p].new /\ ~Busy(p) /\ a # draft[p].at
    /\ draft' = [draft EXCEPT ![p].at = a]
    /\ UNCHANGED <<disk, cache, job, drawn, past>>

\* Draft.add: a slug the table offers (forms.check_choice).
PointAt(p, s) ==
    /\ draft[p].open /\ ~Busy(p) /\ CanView(p)
    /\ s \in SlugsOf(View(p)) \ draft[p].refs
    /\ Look(p)
    /\ draft' = [draft EXCEPT ![p].refs = @ \union {s}]
    /\ UNCHANGED <<disk, job, drawn, past>>

\* Draft.remove: a slug the draft holds.
PointAway(p, s) ==
    /\ draft[p].open /\ ~Busy(p)
    /\ s \in draft[p].refs
    /\ draft' = [draft EXCEPT ![p].refs = @ \ {s}]
    /\ UNCHANGED <<disk, cache, job, drawn, past>>

\* The process ends, or the form is left with its changes discarded.
Leave(p) ==
    /\ ~Busy(p)
    /\ draft[p].open \/ cache[p] # NoCache
    /\ draft' = [draft EXCEPT ![p] = NoDraft]
    /\ cache' = [cache EXCEPT ![p] = NoCache]
    /\ UNCHANGED <<disk, job, drawn, past>>

-----------------------------------------------------------------------------
(* Writing.  An operation reads and checks, then opens the file, then      *)
(* fills it, and a move removes the old file last.                         *)

\* An operation begins, perhaps while another process is inside one.
Begins(p) ==
    LET others == {q \in Procs \ {p} : Busy(q)} IN
    /\ ~Busy(p)
    /\ begun < MaxOps /\ begun' = begun + 1
    /\ others # {} => races + crashes < MaxMishaps
    /\ races' = IF others # {} THEN races + 1 ELSE races
    /\ actors' = actors \union {p}

RecordJob(a, v, o) ==
    [kind |-> "record", phase |-> "checked", file |-> a, val |-> v, old |-> o]
TableJob(t) == [kind |-> "table", phase |-> "checked", val |-> t]

\* Draft.problems: every reference still resolves, as this process sees it.
NoProblems(p) == CanView(p) /\ draft[p].refs \subseteq SlugsOf(View(p))

\* Draft.save of a new record: create refuses a file that exists.
Create(p) ==
    /\ draft[p].open /\ draft[p].new /\ NoProblems(p)
    /\ files[draft[p].at] = Absent
    /\ Begins(p) /\ Look(p)
    /\ job' = [job EXCEPT ![p] = RecordJob(draft[p].at,
         [state |-> "whole", id |-> draft[p].id, refs |-> draft[p].refs, retired |-> FALSE],
         draft[p].at)]
    /\ UNCHANGED <<disk, draft, drawn, kept, rows, crashes>>

\* Mutant: a move does not look whether another record has the file.
MoveAnywhere(o, a) == o = a \/ files[a] # Torn

\* Where a replace may put a record now at o: _move_collection_item.
MayMove(o, a) == o = a \/ files[a] = Absent

\* Draft.save of a record that exists: the store's audit is kept.
Replace(p) ==
    /\ draft[p].open /\ ~draft[p].new /\ NoProblems(p)
    /\ Copies(draft[p].id) # {}
    /\ LET old == Min(Copies(draft[p].id)) IN
         /\ MayMove(old, draft[p].at)
         /\ job' = [job EXCEPT ![p] = RecordJob(draft[p].at,
              [state |-> "whole", id |-> draft[p].id, refs |-> draft[p].refs,
               retired |-> files[old].retired], old)]
    /\ Begins(p) /\ Look(p)
    /\ UNCHANGED <<disk, draft, drawn, kept, rows, crashes>>

\* Draft.save of a record that is gone: replace returns None, which no
\* caller expects, and the process dies of an AttributeError.
SaveOfNone(p) ==
    /\ draft[p].open /\ ~draft[p].new /\ NoProblems(p) /\ ~Busy(p)
    /\ Copies(draft[p].id) = {}
    /\ draft' = [draft EXCEPT ![p] = NoDraft]
    /\ cache' = [cache EXCEPT ![p] = NoCache]
    /\ UNCHANGED <<disk, job, drawn, past>>

\* Draft.load and Draft.delete in one handler, hard: the file is removed.
DeleteHard(p, r) ==
    /\ draft[p] = NoDraft
    /\ Cardinality(Matches(r)) = 1
    /\ Begins(p)
    /\ files' = [files EXCEPT ![Min(Copies(r))] = Absent]
    /\ kept' = kept \ {r}
    /\ UNCHANGED <<table, mind, drawn, rows, crashes>>

\* ... and soft: the record is written again, retired.
DeleteSoft(p, r) ==
    /\ draft[p] = NoDraft
    /\ Cardinality(Matches(r)) = 1
    /\ Begins(p)
    /\ LET a == Min(Copies(r)) IN
         job' = [job EXCEPT ![p] = RecordJob(a, [files[a] EXCEPT !.retired = TRUE], a)]
    /\ kept' = kept \ {r}
    /\ UNCHANGED <<disk, cache, draft, drawn, rows, crashes>>

\* add_reference_entry: the rows are reloaded, the next id is the highest + 1.
NextId(t) == Max(IdsOf(t) \union {0}) + 1
AddRow(p, s) ==
    /\ draft[p] = NoDraft
    /\ Readable /\ s \notin SlugsOf(table) /\ NextId(table) <= MaxIds
    /\ Begins(p)
    /\ cache' = [cache EXCEPT ![p] = table]
    /\ job' = [job EXCEPT ![p] =
         TableJob(table \union {[id |-> NextId(table), slug |-> s]})]
    /\ UNCHANGED <<disk, draft, drawn, kept, rows, crashes>>

\* replace_reference_entry and update_reference_entry: the row of an id is
\* given other fields; its id and slug stay.
RewriteRow(p, row) ==
    /\ draft[p] = NoDraft
    /\ Readable /\ row.id \in IdsOf(table)
    /\ Begins(p)
    /\ cache' = [cache EXCEPT ![p] = table]
    /\ job' = [job EXCEPT ![p] = TableJob(table)]
    /\ UNCHANGED <<disk, draft, drawn, kept, rows, crashes>>

\* Draft.load and Draft.delete of a row: the row is looked up in the cache,
\* refused while a live record points at its slug, and removed by its id.
DeleteRow(p, row) ==
    /\ draft[p] = NoDraft
    /\ Readable /\ row.id \in IdsOf(table)
    /\ Holders(row.slug) = {}
    /\ Begins(p)
    /\ cache' = [cache EXCEPT ![p] = table]
    /\ job' = [job EXCEPT ![p] =
         TableJob({x \in table : x.id # row.id})]
    /\ UNCHANGED <<disk, draft, drawn, kept, rows, crashes>>

\* open(path, "w"): the file is empty from here until it is filled.
Truncate(p) ==
    /\ Busy(p) /\ job[p].phase = "checked"
    /\ job' = [job EXCEPT ![p].phase = "opened"]
    /\ IF job[p].kind = "record"
         THEN files' = [files EXCEPT ![job[p].file] = Torn] /\ UNCHANGED table
         ELSE table' = TornTable /\ UNCHANGED files
    /\ UNCHANGED <<cache, draft, drawn, past>>

\* Mutant: a move forgets the old file.
FillRecordOnly(p) ==
    /\ Busy(p) /\ job[p].kind = "record" /\ job[p].phase = "opened"
    /\ files' = [files EXCEPT ![job[p].file] = job[p].val]
    /\ job' = [job EXCEPT ![p] = Idle]
    /\ kept' = IF job[p].val.retired THEN kept ELSE kept \union {job[p].val.id}
    /\ draft' = [draft EXCEPT ![p] = NoDraft]
    /\ UNCHANGED <<table, cache, drawn, rows, begun, races, crashes, actors>>

\* json.dump of a record; a move still has the old file to remove.
FillRecord(p) ==
    /\ Busy(p) /\ job[p].kind = "record" /\ job[p].phase = "opened"
    /\ LET j == job[p] IN
         /\ files' = [files EXCEPT ![j.file] = j.val]
         /\ job' = [job EXCEPT ![p] =
              IF j.old = j.file THEN Idle ELSE [j EXCEPT !.phase = "written"]]
         /\ kept' = IF j.val.retired THEN kept ELSE kept \union {j.val.id}
    /\ draft' = [draft EXCEPT ![p] = NoDraft]
    /\ UNCHANGED <<table, cache, drawn, rows, begun, races, crashes, actors>>

\* _move_collection_item's last step.
Unlink(p) ==
    /\ Busy(p) /\ job[p].phase = "written"
    /\ files' = [files EXCEPT ![job[p].old] = Absent]
    /\ job' = [job EXCEPT ![p] = Idle]
    /\ UNCHANGED <<table, cache, draft, drawn, past>>

\* _write_reference: the whole table, which is also the new cache.
FillTable(p) ==
    /\ Busy(p) /\ job[p].kind = "table" /\ job[p].phase = "opened"
    /\ LET t == job[p].val IN
         /\ table' = t
         /\ cache' = [cache EXCEPT ![p] = t]
         /\ rows' = (rows \ (SlugsOf(cache[p]) \ SlugsOf(t))) \union SlugsOf(t)
    /\ job' = [job EXCEPT ![p] = Idle]
    /\ UNCHANGED <<files, draft, drawn, kept, begun, races, crashes, actors>>

\* The process dies inside an operation; what it wrote so far stays.
Crash(p) ==
    /\ Busy(p) /\ races + crashes < MaxMishaps
    /\ crashes' = crashes + 1
    /\ job' = [job EXCEPT ![p] = Idle]
    /\ draft' = [draft EXCEPT ![p] = NoDraft]
    /\ cache' = [cache EXCEPT ![p] = NoCache]
    /\ UNCHANGED <<disk, drawn, kept, rows, begun, races, actors>>

\* compose new, edit and delete begin with a record of their own ...
Opens(p) ==
    \/ \E r \in Records, a \in Places : OpenNew(p, r, a)
    \/ \E r \in Records : Open(p, r) \/ DeleteHard(p, r) \/ DeleteSoft(p, r)

\* ... and the form fills it in and saves it; rows of a table are edited alike.
Edits(p) ==
    \/ \E a \in Places : Rename(p, a)
    \/ \E s \in Slugs : PointAt(p, s) \/ PointAway(p, s) \/ AddRow(p, s)
    \/ Create(p) \/ Replace(p) \/ SaveOfNone(p) \/ Leave(p)
    \/ CanView(p) /\ \E row \in View(p) : RewriteRow(p, row) \/ DeleteRow(p, row)

Writes(p) == Truncate(p) \/ FillRecord(p) \/ Unlink(p) \/ FillTable(p) \/ Crash(p)

Next == \E p \in Procs : Opens(p) \/ Edits(p) \/ Writes(p)

Spec == Init /\ [][Next]_vars

-----------------------------------------------------------------------------
(* Properties.                                                             *)

\* A record some process is rewriting right now.
InHand(r) == \E p \in Procs :
    Busy(p) /\ job[p].kind = "record" /\ job[p].phase = "opened" /\ job[p].val.id = r

LostRecords == {r \in kept : Copies(r) = {} /\ ~InHand(r)}
LostRows    == {s \in rows : Readable /\ s \notin SlugsOf(table)}

\* There is no lock and no atomic write, yet one mishap costs little: every
\* saved record that is gone without a delete is paid for by a process that
\* died in mid-write or by two operations that overlapped, one for one; and
\* only an overlap loses a row of a table that can still be read
\* (_save_collection_item, create, _move_collection_item, force_reload).
MishapCostsOne ==
    /\ Cardinality(LostRecords) <= crashes + races
    /\ Cardinality(LostRows) <= races

\* "remove the old one so the record never exists twice": a record is in two
\* files only while a move is under way, or after a mishap, one for one.
OneCopy ==
    LET moving == {job[p].val.id : p \in {q \in Procs : Busy(q) /\ job[q].phase = "written"}}
        twice  == {r \in Records : Cardinality(Copies(r)) > 1}
    IN  Cardinality(twice \ moving) <= crashes + races

\* Every slug a live record points at is a row of the table.
RefsResolve ==
    Readable => \A a \in Places : LiveAt(a) => files[a].refs \subseteq SlugsOf(table)

\* As long as one process does all the work, through any number of crashes
\* and restarts, no delete leaves a record pointing at a row that is gone
\* (Draft.delete's inbound check with Draft.problems on every save).
RestrictAlone == Cardinality(actors) <= 1 => RefsResolve
=============================================================================
