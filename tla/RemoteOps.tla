----------------------------- MODULE RemoteOps -----------------------------
(***************************************************************************)
(* Remote operations (lib/remote/protocol.py, safety.py) over the          *)
(* connections of ssh.py: a command is classified, compared with what its  *)
(* host permits, run, and written to one audit file, which every process   *)
(* reads, extends, cuts to its newest entries and writes back whole.  A    *)
(* deployment is three commands in a row.                                  *)
(*                                                                         *)
(* Of a command's text the model keeps what the classifier looks for.      *)
(***************************************************************************)
EXTENDS Connections

CONSTANTS
    Permissions, \* what hosts may permit: subsets of {"read", "write", "deploy"}
    MaxAudit,    \* entries the audit file keeps (1000)
    MaxBatch,    \* commands in a batch
    MaxJobs      \* bound: jobs begun

ASSUME AuditAssumption == MaxAudit \in Nat \ {0}

VARIABLES
    audit,      \* the audit file; one cut short reads as empty
    job,        \* what each task executes
    made,       \* history: responses the executor made, numbered
    begun       \* history: jobs begun

vars == <<sshVars, audit, job, made, begun>>
SshSame == UNCHANGED <<file, known, up, pools, conns, accepted, refused>>

NoJob == [kind |-> "none", perms |-> {}, confirmed |-> FALSE, stop |-> FALSE, left |-> 0,
          good |-> FALSE, id |-> 0, snap |-> <<>>]

Init ==
    /\ SshInit
    /\ audit = <<>> /\ made = 0
    /\ job = [t \in Tasks |-> NoJob]
    /\ begun = 0

-----------------------------------------------------------------------------
(* What may be run.                                                        *)

\* A command: its base command's list and whether a write pattern matches.
Commands == [base: {"none", "garbled", "safe", "dangerous", "unknown"}, pattern: BOOLEAN]

\* classify, strict: nothing is read but an empty command and a safe one.
Classify(c) ==
    IF c.base = "none" \/ (c.base = "safe" /\ ~c.pattern) THEN "read" ELSE "write"

\* A script is bash's, and unknown; what a deployment sends, and what the
\* health check sends, writes or redirects.
CommandsOf(j) == IF j.kind = "batch" THEN Commands
                 ELSE {[base |-> "unknown", pattern |-> FALSE]}

\* _check_permissions; allow and block lists are left empty.
Permitted(j, c) == Classify(c) \in j.perms

\* The jobs a caller may bring: execute_batch (the health check is one, never
\* confirmed), execute_script, deploy_agent, and run_remote, which asks nobody.
Single(kind, n) == [NoJob EXCEPT !.kind = kind, !.left = n, !.stop = TRUE, !.confirmed = TRUE]
Batch(stop, sure) == [Single("batch", MaxBatch) EXCEPT !.stop = stop, !.confirmed = sure]
Batches == {Batch(stop, sure) : stop \in BOOLEAN, sure \in BOOLEAN}
Jobs == {Single("plain", 1)} \union
    {[j EXCEPT !.perms = perms] :
       j \in Batches \union {Single("script", 1), Single("deploy", 3)}, perms \in Permissions}

\* A caller asks for a connection, and has it carry out a job.
Begin(t) ==
    /\ begun < MaxJobs /\ begun' = begun + 1
    /\ \E h \in Hosts, policy \in Policies : Get(t, h, policy)
    /\ UNCHANGED <<audit, job, made>>
Bring(t) ==
    /\ Moves(t) /\ At(t, "have") /\ job[t] = NoJob
    /\ \E j \in Jobs : job' = [job EXCEPT ![t] = j]
    /\ UNCHANGED <<sshVars, audit, made, begun>>

-----------------------------------------------------------------------------
(* RemoteExecutor.execute.                                                 *)

Ready(t) == Moves(t) /\ At(t, "have") /\ job[t] # NoJob

\* A script and a deployment are refused before the executor is asked: no
\* response is logged.
TurnsAway(j) == \/ j.kind = "script" /\ "write" \notin j.perms
                \/ j.kind = "deploy" /\ "deploy" \notin j.perms

Turned(t) ==
    /\ Ready(t) /\ TurnsAway(job[t])
    /\ call' = [call EXCEPT ![t] = NoCall] /\ job' = [job EXCEPT ![t] = NoJob]
    /\ SshSame /\ UNCHANGED <<mishaps, audit, made, begun>>

WritesAudit(u) == call[u].step \in {"snap", "cut"}

\* A response; log_operation reads the file.
Respond(t, good) ==
    /\ Goes(t, "snap")
    /\ made' = made + 1
    /\ job' = [job EXCEPT ![t].good = good, ![t].id = made + 1, ![t].snap = audit]
    /\ IF \E u \in Tasks : WritesAudit(u) THEN Counts("clash") ELSE UNCHANGED mishaps

\* Not permitted; or not confirmed, where the request is asked for an
\* attribute it lacks, and the AttributeError answered like any failure.
Denied(t) ==
    /\ Ready(t) /\ job[t].kind # "plain" /\ ~TurnsAway(job[t])
    /\ \E c \in CommandsOf(job[t]) : ~Permitted(job[t], c) \/ ~job[t].confirmed
    /\ Respond(t, FALSE)
    /\ SshSame /\ UNCHANGED <<audit, begun>>

MayRun(t) ==
    \/ job[t].kind = "plain"
    \/ /\ job[t].confirmed /\ ~TurnsAway(job[t])
       /\ \E c \in CommandsOf(job[t]) : Permitted(job[t], c)

\* connection.run, over what calls itself a connection ...
Issue(t) ==
    /\ Ready(t) /\ MayRun(t) /\ IsConnected(call[t].conn)
    /\ Goes(t, "run")
    /\ SshSame /\ UNCHANGED <<mishaps, audit, job, made, begun>>

\* ... or dialling again.
IssueAfterDial(t) ==
    /\ Ready(t) /\ MayRun(t) /\ Redial(t)
    /\ UNCHANGED <<audit, job, made, begun>>

\* The caller of run_remote gets result or exception, the executor answers.
Answered(t, good) ==
    IF job[t].kind = "plain"
    THEN /\ call' = [call EXCEPT ![t] = NoCall] /\ job' = [job EXCEPT ![t] = NoJob]
         /\ UNCHANGED <<made, mishaps>>
    ELSE Respond(t, good)

\* The command ends, well or not.
RunEnds(t) ==
    /\ Moves(t) /\ At(t, "run") /\ Conn(t).link = "up"
    /\ \E good \in BOOLEAN : Answered(t, good)
    /\ SshSame /\ UNCHANGED <<audit, begun>>

\* No answer in time; or the link is gone, or dialling again raised.
RunFails(t) ==
    /\ Moves(t) /\ (At(t, "run") \/ At(t, "raised"))
    /\ Answered(t, FALSE)
    /\ SshSame /\ UNCHANGED <<audit, begun>>

-----------------------------------------------------------------------------
(* AuditLogger.log_operation, and on to the next command.                  *)

Cut(t) ==
    /\ up[Home[t]] /\ At(t, "snap")
    /\ audit' = <<>>
    /\ Goes(t, "cut")
    /\ SshSame /\ UNCHANGED <<mishaps, job, made, begun>>

\* Mutant: the oldest entries are kept.
Oldest(s) == SubSeq(s, 1, Min({Len(s), MaxAudit}))

Newest(s) == SubSeq(s, Max({1, Len(s) - MaxAudit + 1}), Len(s))

\* stop_on_error, and deploy_agent's returns after a step that failed.
GoesOn(t) == job[t].left > 1 /\ (job[t].stop => job[t].good)

Fill(t) ==
    LET j == job[t] IN
    /\ up[Home[t]] /\ At(t, "cut")
    /\ audit' = Newest(Append(j.snap, j.id))
    /\ IF GoesOn(t)
       THEN /\ Goes(t, "have")
            /\ job' = [job EXCEPT ![t] = [j EXCEPT !.left = @ - 1, !.snap = <<>>, !.id = 0]]
       ELSE /\ call' = [call EXCEPT ![t] = NoCall]
            /\ job' = [job EXCEPT ![t] = NoJob]
    /\ SshSame /\ UNCHANGED <<mishaps, made, begun>>

-----------------------------------------------------------------------------

\* A caller whose connection could not be had is done.
Connects(t) ==
    /\ (\E key \in Keys : Dial(t, key)) \/ Save(t) \/ DialFails(t)
    /\ job' = IF call'[t] = NoCall THEN [job EXCEPT ![t] = NoJob] ELSE job
    /\ UNCHANGED <<audit, made, begun>>

Executes(t) ==
    \/ Begin(t) \/ Bring(t) \/ Turned(t) \/ Denied(t) \/ Issue(t) \/ IssueAfterDial(t)
    \/ RunEnds(t) \/ RunFails(t) \/ Cut(t) \/ Fill(t)

OpsSame == UNCHANGED <<audit, made, begun>>
Closes(t) ==
    /\ Close(t) \/ Shut(t) \/ ShutEnds(t) \/ NextHost(t) \/ CloseDies(t) \/ Clear(t)
    /\ OpsSame /\ UNCHANGED job

\* A process ends, between jobs or in the middle of them.
Ends(p) ==
    /\ up[p]
    /\ IF \E t \in Tasks : Home[t] = p /\ call[t] # NoCall THEN Counts("death")
                                                           ELSE UNCHANGED mishaps
    /\ Gone(p)
    /\ job' = [t \in Tasks |-> IF Home[t] = p THEN NoJob ELSE job[t]]
    /\ OpsSame

Next ==
    \/ \E t \in Tasks : Connects(t) \/ Executes(t) \/ Closes(t)
    \/ \E p \in Procs : Ends(p) \/ (Start(p) /\ OpsSame /\ UNCHANGED job)
    \/ \E c \in DOMAIN conns : Drop(c) /\ OpsSame /\ UNCHANGED job

Spec == Init /\ [][Next]_vars

-----------------------------------------------------------------------------
(* Properties.                                                             *)

\* "Logs all remote operations": as long as no process dies and no two write
\* at once, the audit file holds the newest responses, in order, but for the
\* one being written.
AuditComplete ==
    (mishaps["death"] = 0 /\ mishaps["clash"] = 0 /\ \A t \in Tasks : ~WritesAudit(t)) =>
        audit = [k \in 1..Min({made, MaxAudit}) |-> made - Min({made, MaxAudit}) + k]

=============================================================================
