---------------------------- MODULE Connections ----------------------------
(***************************************************************************)
(* SSH connections (lib/remote/ssh.py): the host keys each process learned *)
(* on first use, the one file they are all kept in, and the pool a process *)
(* shares between its asyncio tasks.  Tasks of one process interleave only *)
(* where they await; processes interleave anywhere, and may die.           *)
(*                                                                         *)
(* A file cut short reads as empty, so an emptied file and a torn one are  *)
(* the same.  A jump host and the formats of options are left out.         *)
(***************************************************************************)
EXTENDS Naturals, Sequences, FiniteSets, FiniteSetsExt

CONSTANTS
    Procs,       \* agency processes
    Tasks,       \* their asyncio tasks
    Home,        \* the process of each task
    Hosts,
    Keys,        \* fingerprints
    NoKey,
    Policies,    \* subset of {"tofu", "strict", "none"}
    MaxConns,    \* bound: connections ever made
    MaxMishaps   \* bound: deaths, dropped links, processes that overlap ,
                 \* pools closed and clashes, together

ASSUME HomeAssumption == Home \in [Tasks -> Procs]
ASSUME NoKeyAssumption == NoKey \notin Keys

VARIABLES
    file,       \* the known_hosts file
    known,      \* what each process has of it, loaded once
    up,         \* processes running
    pools,      \* the hosts each process keeps a list of connections for
    conns,      \* the connections, in the order they were made
    call,       \* what each task is doing with which connection
    accepted,   \* history: <<host, key>> pairs a policy let through
    refused,    \* history: connections refused for their key
    mishaps     \* history: what went wrong, by kind

sshVars == <<file, known, up, pools, conns, call, accepted, refused, mishaps>>

\* A clash: audit entries two processes write at once (RemoteOps).
Mishap == {"death", "drop", "overlap", "close", "clash"}
MishapsSum == FoldSet(LAMBDA k, n : mishaps[k] + n, 0, Mishap)
Counts(k) == MishapsSum < MaxMishaps /\ mishaps' = [mishaps EXCEPT ![k] = @ + 1]

Unknown == [h \in Hosts |-> NoKey]
NoCall == [step |-> "idle", conn |-> 0, pooling |-> FALSE, all |-> {}, rest |-> {}, host |-> NoKey]
At(t, step) == call[t].step = step
Takes(t, step, c) ==
    call' = [call EXCEPT ![t].step = step, ![t].conn = c, ![t].pooling = TRUE]
Goes(t, step) == call' = [call EXCEPT ![t].step = step]
Conn(t) == conns[call[t].conn]
Made(p) == {c \in DOMAIN conns : conns[c].proc = p}
Pooled(p) == {c \in Made(p) : conns[c].pooled}

\* is_connected: the flag and the object, not the link itself.
IsConnected(c) == conns[c].flag /\ conns[c].link # "none"

\* Between two awaits a task keeps its process to itself: while it writes the
\* file, and while it answers for a command (RemoteOps).
Synchronous == {"save", "snap", "cut"}
Awaits(t) == \A u \in Tasks \ {t} : Home[u] = Home[t] => call[u].step \notin Synchronous
Moves(t) == up[Home[t]] /\ Awaits(t)

SshInit ==
    /\ file = Unknown /\ known = [p \in Procs |-> Unknown]
    /\ up = [p \in Procs |-> FALSE]
    /\ pools = [p \in Procs |-> {}]
    /\ conns = <<>>
    /\ call = [t \in Tasks |-> NoCall]
    /\ accepted = {} /\ refused = 0
    /\ mishaps = [k \in Mishap |-> 0]

-----------------------------------------------------------------------------
(* The world and the processes.                                            *)

\* A link drops; nothing tells the connection.
Drop(c) ==
    /\ conns[c].link = "up"
    /\ conns' = [conns EXCEPT ![c].link = "down"]
    /\ Counts("drop")
    /\ UNCHANGED <<file, known, up, pools, call, accepted, refused>>

\* A process makes its pool, and with it its KnownHostsManager.
Start(p) ==
    /\ ~up[p] /\ up' = [up EXCEPT ![p] = TRUE]
    /\ known' = [known EXCEPT ![p] = file]
    /\ IF \E q \in Procs : up[q] THEN Counts("overlap") ELSE UNCHANGED mishaps
    /\ UNCHANGED <<file, pools, conns, call, accepted, refused>>

\* What a process that ends takes with it.
Dead == [proc |-> NoKey, host |-> NoKey, policy |-> "none", link |-> "none", flag |-> FALSE,
         pooled |-> FALSE]
Gone(p) ==
    /\ up' = [up EXCEPT ![p] = FALSE]
    /\ known' = [known EXCEPT ![p] = Unknown]
    /\ pools' = [pools EXCEPT ![p] = {}]
    /\ conns' = [c \in DOMAIN conns |->
         IF conns[c].proc = p THEN Dead ELSE conns[c]]
    /\ call' = [t \in Tasks |-> IF Home[t] = p THEN NoCall ELSE call[t]]
    /\ UNCHANGED <<file, accepted, refused>>

-----------------------------------------------------------------------------
(* KnownHostsManager.verify_or_store and SSHConnection.connect.            *)

\* Mutant: nobody waits for another's connection.
LockedNever(p, h) == FALSE

\* get_connection holds the lock of a host until its connection stands.
Locked(p, h) ==
    \E t \in Tasks : /\ Home[t] = p /\ call[t].pooling
                     /\ call[t].step \in {"dial", "save"} /\ Conn(t).host = h

NewConnection(p, h, policy) ==
    [proc |-> p, host |-> h, policy |-> policy, link |-> "none", flag |-> FALSE, pooled |-> FALSE]

\* get_connection: the first connection of the host that calls itself
\* connected, or a new one.  max_per_host is not looked at.
Get(t, h, policy) ==
    LET p == Home[t]
        ready == {c \in Pooled(p) : conns[c].host = h /\ IsConnected(c)}
    IN  /\ Moves(t) /\ At(t, "idle") /\ ~Locked(p, h)
        /\ pools' = [pools EXCEPT ![p] = @ \union {h}]
        /\ \/ /\ ready # {}
              /\ Takes(t, "have", Min(ready))
              /\ UNCHANGED conns
           \/ /\ ready = {} /\ Len(conns) < MaxConns
              /\ conns' = Append(conns, NewConnection(p, h, policy))
              /\ Takes(t, "dial", Len(conns) + 1)
        /\ UNCHANGED <<file, known, up, accepted, refused, mishaps>>

\* get_connection raises, or the run that dialled again.
Raises(t) ==
    IF call[t].pooling THEN call' = [call EXCEPT ![t] = NoCall] ELSE Goes(t, "raised")

\* The connection stands, and joins the list of its host; where the pool was
\* cleared meanwhile there is no list, and the caller gets a KeyError.
Stands(t) ==
    LET c == call[t].conn
        joins == call[t].pooling /\ conns[c].host \in pools[Home[t]]
    IN  /\ conns' = [conns EXCEPT ![c].link = "up", ![c].flag = TRUE,
                                  ![c].pooled = @ \/ joins]
        /\ IF joins \/ ~call[t].pooling THEN Goes(t, "have") ELSE Raises(t)

\* HostKeyMismatch is no asyncssh.Error: the object keeps its open link.
Refuse(t) ==
    /\ conns' = [conns EXCEPT ![call[t].conn].link = "up"]
    /\ Raises(t)
    /\ refused' = refused + 1

\* Mutant: a key that differs from the one stored is learnt.
VerdictLax(stored, key, policy) ==
    IF policy = "none" \/ stored = key THEN "accept"
    ELSE IF policy = "tofu" THEN "learn" ELSE "refuse"

Verdict(stored, key, policy) ==
    IF policy = "none" \/ stored = key THEN "accept"
    ELSE IF stored = NoKey /\ policy = "tofu" THEN "learn" ELSE "refuse"

\* The handshake ends; the key, whichever the host shows this time, is looked
\* at in the same breath.
Dial(t, key) ==
    LET p == Home[t]
        h == Conn(t).host
        v == Verdict(known[p][h], key, Conn(t).policy)
    IN  /\ Moves(t) /\ At(t, "dial")
        /\ accepted' = IF v = "refuse" \/ Conn(t).policy = "none" THEN accepted
                       ELSE accepted \union {<<h, key>>}
        /\ \/ v = "accept" /\ Stands(t) /\ UNCHANGED <<file, known, refused>>
           \/ v = "refuse" /\ Refuse(t) /\ UNCHANGED <<file, known>>
           \/ /\ v = "learn"
              /\ known' = [known EXCEPT ![p][h] = key]
              /\ file' = Unknown               \* open(..., 'w')
              /\ Goes(t, "save")
              /\ UNCHANGED <<conns, refused>>
        /\ UNCHANGED <<up, pools, mishaps>>

\* All the process knows is written, whatever the file held.
Save(t) ==
    /\ Moves(t) /\ At(t, "save")
    /\ file' = known[Home[t]]
    /\ Stands(t)
    /\ UNCHANGED <<known, up, pools, accepted, refused, mishaps>>

\* connect raises before there is a link.
DialFails(t) ==
    /\ Moves(t) /\ At(t, "dial")
    /\ Raises(t)
    /\ UNCHANGED <<file, known, up, pools, conns, accepted, refused, mishaps>>

\* run on an object that does not call itself connected dials again, under no
\* lock and in no list it is not in already.
Redial(t) ==
    /\ Moves(t) /\ At(t, "have") /\ ~IsConnected(call[t].conn)
    /\ call' = [call EXCEPT ![t].step = "dial", ![t].pooling = FALSE]
    /\ UNCHANGED <<file, known, up, pools, conns, accepted, refused, mishaps>>

-----------------------------------------------------------------------------
(* ConnectionPool.close_all: host after host, awaiting each connection.    *)

Close(t) ==
    LET hs == pools[Home[t]] IN
    /\ Moves(t) /\ At(t, "idle") /\ hs # {}
    /\ Counts("close")
    /\ \E h \in hs : call' = [call EXCEPT ![t] =
         [NoCall EXCEPT !.step = "close", !.all = hs, !.rest = hs \ {h}, !.host = h]]
    /\ UNCHANGED <<file, known, up, pools, conns, accepted, refused>>

\* Open connections further down the list of the host at hand.
Ahead(t) ==
    {c \in Pooled(Home[t]) :
       c > call[t].conn /\ conns[c].link # "none" /\ conns[c].host = call[t].host}

\* The next of them: its link is closed, and its end awaited.
Shut(t) ==
    /\ Moves(t) /\ At(t, "close") /\ Ahead(t) # {}
    /\ conns' = [conns EXCEPT ![Min(Ahead(t))].link = "down"]
    /\ call' = [call EXCEPT ![t].step = "shut", ![t].conn = Min(Ahead(t))]
    /\ UNCHANGED <<file, known, up, pools, accepted, refused, mishaps>>

ShutEnds(t) ==
    LET c == call[t].conn IN
    /\ Moves(t) /\ At(t, "shut")
    /\ conns' = [conns EXCEPT ![c].link = "none", ![c].flag = FALSE]
    /\ Goes(t, "close")
    /\ UNCHANGED <<file, known, up, pools, accepted, refused, mishaps>>

NextHost(t) ==
    /\ Moves(t) /\ At(t, "close") /\ Ahead(t) = {}
    /\ pools[Home[t]] = call[t].all
    /\ \E h \in call[t].rest :
         call' = [call EXCEPT ![t].conn = 0, ![t].rest = @ \ {h}, ![t].host = h]
    /\ UNCHANGED <<file, known, up, pools, conns, accepted, refused, mishaps>>

\* A dictionary that grew ends the loop with a RuntimeError.
CloseDies(t) ==
    /\ Moves(t) /\ At(t, "close") /\ Ahead(t) = {}
    /\ pools[Home[t]] # call[t].all
    /\ call' = [call EXCEPT ![t] = NoCall]
    /\ UNCHANGED <<file, known, up, pools, conns, accepted, refused, mishaps>>

\* All hosts visited: the lists are dropped, with whatever joined one since.
Clear(t) ==
    LET p == Home[t] IN
    /\ Moves(t) /\ At(t, "close") /\ Ahead(t) = {}
    /\ pools[p] = call[t].all /\ call[t].rest = {}
    /\ pools' = [pools EXCEPT ![p] = {}]
    /\ conns' = [c \in DOMAIN conns |-> IF conns[c].proc = p
                                        THEN [conns[c] EXCEPT !.pooled = FALSE] ELSE conns[c]]
    /\ call' = [call EXCEPT ![t] = NoCall]
    /\ UNCHANGED <<file, known, up, accepted, refused, mishaps>>

-----------------------------------------------------------------------------
(* Properties.                                                             *)

\* Trust on first use: a host is let through under the key it first showed and
\* no other, through any number of processes, until two overlap (each writes
\* the whole file from what it loaded at its start) or one dies, which may cut
\* the file short.
FirstKeyKept ==
    (mishaps["overlap"] = 0 /\ mishaps["death"] = 0) =>
        \A x, y \in accepted : x[1] = y[1] => x = y

\* A process has one link to a host, whatever its tasks ask for at once: any
\* other was refused for its key and is left open, until close_all steps in.
OneLinkPerHost ==
    mishaps["close"] = 0 => \A p \in Procs, h \in Hosts :
        Cardinality({c \in Made(p) : conns[c].host = h /\ conns[c].link # "none"}) <= 1 + refused
=============================================================================
