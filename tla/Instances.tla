----------------------------- MODULE Instances -----------------------------
(***************************************************************************)
(* Instances of the agency (lib/install/instance.py and doctor.py, under   *)
(* cli/install.py): a virtual environment with dependency groups in it and *)
(* a receipt, kept by the datastore, that says where it is.  Where an      *)
(* environment goes is resolved without looking at the receipts            *)
(* (lib/install/paths.py), so two instances may be given one directory.    *)
(* Commands run side by side and may die, pip may fail.                    *)
(*                                                                         *)
(* One receipt is read or written in one step (DataStore looks inside).    *)
(***************************************************************************)
EXTENDS Naturals, FiniteSets, FiniteSetsExt, Functions

CONSTANTS
    Procs,       \* commands
    Names,       \* of instances
    Places,      \* directories an environment may be resolved to
    Groups,      \* dependency groups
    MaxIds,      \* bound: receipts created
    MaxOps,      \* bound: commands begun
    MaxMishaps   \* bound: deaths, failures of pip, commands that overlap and
                 \* environments shared, together

IdsAssumption == MaxIds \in Nat

VARIABLES
    dirs,       \* the directories
    receipts,   \* the install collection, by id
    job,        \* what each command is in the middle of
    begun,      \* history: commands begun
    faults,     \* history: deaths and failures of pip
    races,      \* history: commands begun while another was under way
    shares,     \* history: instances created in another one's directory
    moves       \* history: instances recreated in another directory

hist == <<begun, faults, races, shares, moves>>
vars == <<dirs, receipts, job, hist>>

NoId == 0
Ids == 1..MaxIds
Idle == [step |-> "idle"]

\* A directory: absent, holding no pyvenv.cfg, or a virtual environment.
Dir(s, py, gs, m) == [state |-> s, python |-> py, groups |-> gs, mirror |-> m]
Absent == Dir("absent", FALSE, {}, NoId)
Bare == Dir("bare", FALSE, {}, NoId)
Exists(l) == dirs[l].state # "absent"

Kept == DOMAIN receipts
Named(n) == {r \in Kept : receipts[r].name = n}

\* find: the first receipt of the name.
Find(n) == IF Named(n) = {} THEN NoId ELSE Min(Named(n))

Init ==
    /\ dirs \in [Places -> {Absent, Bare}]
    /\ receipts = [r \in {} |-> NoId]
    /\ job = [p \in Procs |-> Idle]
    /\ begun = 0 /\ faults = 0 /\ races = 0 /\ shares = 0 /\ moves = 0

Free(p) == job[p] = Idle
At(p, step) == job[p].step = step
Mishaps == faults + races + shares
Goes(p, step) == job' = [job EXCEPT ![p].step = step]
Ends(p) == job' = [job EXCEPT ![p] = Idle]

\* A command begins, perhaps beside another, perhaps in another's directory.
Begins(p, shared) ==
    LET race == IF \E q \in Procs \ {p} : ~Free(q) THEN 1 ELSE 0
        share == IF shared THEN 1 ELSE 0
    IN  /\ Free(p)
        /\ begun < MaxOps /\ begun' = begun + 1
        /\ Mishaps + race + share <= MaxMishaps
        /\ races' = races + race /\ shares' = shares + share
        /\ UNCHANGED faults

Fault == Mishaps < MaxMishaps /\ faults' = faults + 1 /\ UNCHANGED <<begun, races, shares, moves>>

-----------------------------------------------------------------------------
(* install create.                                                         *)

Receipt(n, l, gs) == [name |-> n, loc |-> l, groups |-> gs, status |-> "unknown"]

\* An instance that exists is refused, and a directory that is none of ours;
\* --recreate waives both.
MayCreate(n, l, recreate) == recreate \/ (Find(n) = NoId /\ dirs[l].state # "bare")

StartCreate(p, n, l, gs, recreate) ==
    LET old == Find(n) IN
    /\ MayCreate(n, l, recreate)
    /\ Begins(p, \E r \in Kept : receipts[r].loc = l /\ receipts[r].name # n)
    /\ moves' = IF old # NoId /\ receipts[old].loc # l THEN moves + 1 ELSE moves
    /\ job' = [job EXCEPT ![p] =
         [step |-> IF recreate /\ Exists(l) THEN "clear" ELSE "build",
          id |-> old, to |-> Receipt(n, l, gs)]]
    /\ UNCHANGED <<dirs, receipts>>

\* EnvBuilder(clear=True) empties the directory, whatever is in it ...
Clear(p) ==
    /\ At(p, "clear")
    /\ dirs' = [dirs EXCEPT ![job[p].to.loc] = Bare]
    /\ Goes(p, "build")
    /\ UNCHANGED <<receipts, hist>>

\* ... and sets up interpreter and pip beside what is left.
Build(p) ==
    /\ At(p, "build")
    /\ dirs' = [dirs EXCEPT ![job[p].to.loc] = Dir("venv", TRUE, @.groups, @.mirror)]
    /\ Goes(p, "pip")
    /\ UNCHANGED <<receipts, hist>>

Pip(p) ==
    LET l == job[p].to.loc IN
    /\ At(p, "pip") /\ dirs[l].python
    /\ dirs' = [dirs EXCEPT ![l].groups = @ \union job[p].to.groups]
    /\ Goes(p, "save")
    /\ UNCHANGED <<receipts, hist>>

\* pip fails: "the venv is left in place for inspection".
PipFails(p) ==
    /\ At(p, "pip") /\ job[p].to.groups # {}
    /\ Fault
    /\ Ends(p)
    /\ UNCHANGED <<dirs, receipts>>

\* The interpreter is gone by now.
PipMissing(p) ==
    /\ At(p, "pip") /\ ~dirs[job[p].to.loc].python
    /\ Ends(p)
    /\ UNCHANGED <<dirs, receipts, hist>>

Store(r, rec) == [x \in Kept \union {r} |-> IF x = r THEN rec ELSE receipts[x]]

\* The receipt found at the start is replaced; what replace returns for one
\* that is gone is not expected, and the command dies of a TypeError.
SaveOver(p) ==
    LET r == job[p].id IN
    /\ At(p, "save") /\ r # NoId
    /\ IF r \in Kept THEN receipts' = Store(r, job[p].to) /\ Goes(p, "mirror")
                     ELSE Ends(p) /\ UNCHANGED receipts
    /\ UNCHANGED <<dirs, hist>>

\* Or a new one is created, under an id (uuid4) that is nobody's and that glob
\* may sort anywhere.
SaveNew(p, r) ==
    /\ At(p, "save") /\ job[p].id = NoId
    /\ r \in Ids \ Kept
    /\ \A q \in Procs : ~Free(q) => job[q].id # r
    /\ \A l \in Places : dirs[l].mirror # r
    /\ receipts' = Store(r, job[p].to)
    /\ job' = [job EXCEPT ![p].step = "mirror", ![p].id = r]
    /\ UNCHANGED <<dirs, hist>>

\* _write_mirror, which raises where the directory is gone.
Mirror(p) ==
    LET l == job[p].to.loc IN
    /\ At(p, "mirror")
    /\ dirs' = IF Exists(l) THEN [dirs EXCEPT ![l].mirror = job[p].id] ELSE dirs
    /\ Ends(p)
    /\ UNCHANGED <<receipts, hist>>

-----------------------------------------------------------------------------
(* install remove.                                                         *)

\* Mutant: the environment stays.
StartRemoveReceipt(p, n) ==
    LET r == Find(n) IN
    /\ r # NoId /\ dirs[receipts[r].loc].state # "bare"
    /\ Begins(p, FALSE)
    /\ job' = [job EXCEPT ![p] = [step |-> "delete", id |-> r, to |-> receipts[r]]]
    /\ UNCHANGED <<dirs, receipts, moves>>

\* Only the path on the receipt, and only if it is a virtual environment.
StartRemove(p, n) ==
    LET r == Find(n) IN
    /\ r # NoId /\ dirs[receipts[r].loc].state # "bare"
    /\ Begins(p, FALSE)
    /\ job' = [job EXCEPT ![p] =
         [step |-> IF Exists(receipts[r].loc) THEN "rmtree" ELSE "delete",
          id |-> r, to |-> receipts[r]]]
    /\ UNCHANGED <<dirs, receipts, moves>>

\* rmtree goes file by file; pyvenv.cfg may be the first or the last.
RemoveSome(p) ==
    LET l == job[p].to.loc IN
    /\ At(p, "rmtree") /\ Exists(l)
    /\ \E s \in {"bare", dirs[l].state} :
         dirs' = [dirs EXCEPT ![l] = Dir(s, FALSE, {}, NoId)]
    /\ Goes(p, "rmdir")
    /\ UNCHANGED <<receipts, hist>>

RemoveRest(p) ==
    LET l == job[p].to.loc IN
    /\ At(p, "rmdir") /\ Exists(l)
    /\ dirs' = [dirs EXCEPT ![l] = Absent]
    /\ Goes(p, "delete")
    /\ UNCHANGED <<receipts, hist>>

\* The directory is gone, or another command filled it again: rmtree raises.
RemoveFails(p) ==
    LET l == job[p].to.loc IN
    /\ At(p, "rmtree") \/ At(p, "rmdir")
    /\ ~Exists(l) \/ (At(p, "rmdir") /\ dirs[l].python)
    /\ Ends(p)
    /\ UNCHANGED <<dirs, receipts, hist>>

\* Mutant: the receipt stays.
RemoveNoReceipt(p) ==
    /\ At(p, "delete")
    /\ Ends(p)
    /\ UNCHANGED <<dirs, receipts, hist>>

RemoveReceipt(p) ==
    /\ At(p, "delete")
    /\ receipts' = Restrict(receipts, Kept \ {job[p].id})
    /\ Ends(p)
    /\ UNCHANGED <<dirs, hist>>

-----------------------------------------------------------------------------
(* install doctor.                                                         *)

\* The venv runs and holds what the receipt says.
Backed(r) ==
    LET d == dirs[receipts[r].loc] IN d.python /\ receipts[r].groups \subseteq d.groups

\* The checks, and the worst of them.
Verdict(r) ==
    IF ~Backed(r) THEN "broken"
    ELSE IF dirs[receipts[r].loc].mirror # r THEN "degraded" ELSE "ok"

Doctor(p, n) ==
    LET r == Find(n) IN
    /\ r # NoId
    /\ Begins(p, FALSE)
    /\ job' = [job EXCEPT ![p] =
         [step |-> "look", id |-> r, to |-> [receipts[r] EXCEPT !.status = Verdict(r)]]]
    /\ UNCHANGED <<dirs, receipts, moves>>

\* record_status finds the receipt of the name again ...
RecordLook(p) ==
    LET r == Find(job[p].to.name) IN
    /\ At(p, "look")
    /\ IF r = NoId THEN Ends(p)
       ELSE job' = [job EXCEPT ![p] =
              [step |-> "record", id |-> r,
               to |-> [receipts[r] EXCEPT !.status = job[p].to.status]]]
    /\ UNCHANGED <<dirs, receipts, hist>>

\* ... and writes it back whole, or dies where it is gone.
Record(p) ==
    LET r == job[p].id IN
    /\ At(p, "record")
    /\ IF r \notin Kept THEN Ends(p) /\ UNCHANGED receipts
       ELSE /\ receipts' = Store(r, job[p].to)
            /\ IF Exists(job[p].to.loc) THEN Goes(p, "mirror") ELSE Ends(p)
    /\ UNCHANGED <<dirs, hist>>

Crash(p) ==
    /\ ~Free(p)
    /\ Fault
    /\ Ends(p)
    /\ UNCHANGED <<dirs, receipts>>

Creating(p) ==
    \/ \E n \in Names, l \in Places, gs \in SUBSET Groups, recreate \in BOOLEAN :
         StartCreate(p, n, l, gs, recreate)
    \/ Clear(p) \/ Build(p) \/ Pip(p) \/ PipFails(p) \/ PipMissing(p)
    \/ SaveOver(p) \/ (\E r \in Ids : SaveNew(p, r)) \/ Mirror(p)
Removing(p) ==
    \/ \E n \in Names : StartRemove(p, n)
    \/ RemoveSome(p) \/ RemoveRest(p) \/ RemoveFails(p) \/ RemoveReceipt(p)
Examining(p) == (\E n \in Names : Doctor(p, n)) \/ RecordLook(p) \/ Record(p)

Next == \E p \in Procs : Creating(p) \/ Removing(p) \/ Examining(p) \/ Crash(p)

Spec == Init /\ [][Next]_vars

-----------------------------------------------------------------------------
(* Properties.                                                             *)

\* Some command is at the receipt's directory.
InHand(r) == \E p \in Procs : ~Free(p) /\ job[p].to.loc = receipts[r].loc

\* What a receipt promises is there: an interpreter with its groups.  Every
\* receipt of which that is not so, with no command at work on it, is paid
\* for by a death, a failure of pip, an overlap or a directory shared, one
\* for one (create writes the receipt last, remove deletes it last, nothing
\* but the receipt's own path is removed).
ReceiptsBacked ==
    Cardinality({r \in Kept : ~Backed(r) /\ ~InHand(r)}) <= Mishaps

\* An environment nobody's receipt mentions is left by a death, a failure of
\* pip, an overlap, or an instance recreated elsewhere, one for one.
LitterExplained ==
    Cardinality({l \in Places :
        /\ dirs[l].state = "venv" /\ \A r \in Kept : receipts[r].loc # l
        /\ \A p \in Procs : ~Free(p) => job[p].to.loc # l}) <= faults + races + moves

=============================================================================
