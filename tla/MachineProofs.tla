--------------------------- MODULE MachineProofs ---------------------------
(***************************************************************************)
(* Theorems about what an agency keeps on its machines.  The first part is *)
(* about RemoteOps and the connections it works over, for any number of    *)
(* processes, tasks, hosts and keys.  The second carries theorems over to  *)
(* the composition that TLC runs: a behaviour of MCMachines is, as far as  *)
(* the variables of one part go, a behaviour of that part.                 *)
(***************************************************************************)
EXTENDS MCMachines, FiniteSetTheorems, WellFoundedInduction, TLAPS

\* The least of some numbers is one of them.
LEMMA MinIsLeast ==
  ASSUME NEW S \in SUBSET Nat, S # {}
  PROVE  Min(S) \in S /\ \A y \in S : Min(S) <= y
<1> DEFINE R == {ss \in Nat \X Nat : ss[1] < ss[2]}
<1>1. IsWellFoundedOn(R, Nat)
  BY NatLessThanWellFounded DEF OpToRel
<1>2. PICK x \in S : \A y \in S : ~ (<<y, x>> \in R)
  <2> HIDE DEF R
  <2>1. QED
    BY <1>1, WFMin
<1>3. \A y \in S : x <= y
  <2> SUFFICES ASSUME NEW y \in S PROVE x <= y
    OBVIOUS
  <2>1. <<y, x>> \notin R /\ x \in Nat /\ y \in Nat
    BY <1>2
  <2>2. QED
    BY <2>1
<1>4. QED
  BY <1>3 DEF Min
-----------------------------------------------------------------------------
(* Types. *)

CallSteps == {"idle", "dial", "save", "have", "raised", "run", "snap", "cut",
              "close", "shut"}
Call == [step : CallSteps, conn : Nat, pooling : BOOLEAN, all : SUBSET Hosts,
         rest : SUBSET Hosts, host : Hosts \cup {NoKey}]
Connection == [proc : Procs \cup {NoKey}, host : Hosts \cup {NoKey},
               policy : Policies \cup {"none"}, link : {"none", "up", "down"},
               flag : BOOLEAN, pooled : BOOLEAN]
Fingerprints == [Hosts -> Keys \cup {NoKey}]

\* A task that is at a connection, and one whose connection is its process's.
HasConn == {"dial", "save", "have", "raised", "run", "snap", "cut"}
Owns(t) == /\ call[t].conn \in DOMAIN conns
           /\ Conn(t).proc = Home[t] /\ Conn(t).host \in Hosts

Stores ==
  /\ file \in Fingerprints /\ known \in [Procs -> Fingerprints]
  /\ up \in [Procs -> BOOLEAN] /\ pools \in [Procs -> SUBSET Hosts]
  /\ accepted \subseteq Hosts \X Keys
  /\ refused \in Nat /\ mishaps \in [Mishap -> Nat]
Calls ==
  /\ conns \in Seq(Connection) /\ call \in [Tasks -> Call]
  /\ \A t \in Tasks : call[t].step \in HasConn => Owns(t)
Types == Stores /\ Calls

LEMMA SequenceOf ==
  ASSUME NEW S, NEW s \in Seq(S), NEW r, DOMAIN r = DOMAIN s,
         r = [c \in DOMAIN s |-> r[c]], \A c \in DOMAIN s : r[c] \in S
  PROVE  r \in Seq(S)
<1>1. PICK n \in Nat : DOMAIN s = 1..n
  BY Len(s) \in Nat
<1>2. r \in [1..n -> S]
  BY <1>1
<1>3. QED
  BY <1>2

\* A step that keeps whose connection is whose, of one task.
ConnsKept ==
  /\ conns' \in Seq(Connection) /\ DOMAIN conns \subseteq DOMAIN conns'
  /\ \A c \in DOMAIN conns : /\ conns'[c].proc = conns[c].proc
                             /\ conns'[c].host = conns[c].host

LEMMA CallsFrame ==
  ASSUME Calls, NEW t \in Tasks, NEW to \in Call, call' = [call EXCEPT ![t] = to],
         ConnsKept,
         to.step \in HasConn => /\ to.conn \in DOMAIN conns'
                                /\ conns'[to.conn].proc = Home[t]
                                /\ conns'[to.conn].host \in Hosts
  PROVE  Calls'
<1>1. call' \in [Tasks -> Call]
  BY DEF Calls
<1>2. ASSUME NEW u \in Tasks, call'[u].step \in HasConn PROVE Owns(u)'
  <2>1. CASE u = t
    BY <1>2, <2>1 DEF Owns, Conn, Calls
  <2>2. CASE u # t
    <3>1. call'[u] = call[u] /\ Owns(u)
      BY <1>2, <2>2 DEF Calls
    <3>2. QED
      BY <3>1 DEF Owns, Conn, ConnsKept
  <2>3. QED
    BY <2>1, <2>2
<1>3. QED
  BY <1>1, <1>2 DEF Calls, ConnsKept

\* The ways a step changes the connections.
LEMMA ConnsSame ==
  ASSUME Calls, conns' = conns
  PROVE  ConnsKept
  BY DEF Calls, ConnsKept

LEMMA ConnChanged ==
  ASSUME Calls, NEW c \in DOMAIN conns, NEW l \in {"none", "up", "down"},
         NEW f \in BOOLEAN, NEW b \in BOOLEAN,
         conns' = [conns EXCEPT ![c] = [conns[c] EXCEPT !.link = l, !.flag = f,
                                                        !.pooled = b]]
  PROVE  ConnsKept
<1>1. conns \in Seq(Connection) /\ \A x \in DOMAIN conns : conns[x] \in Connection
  BY DEF Calls
<1>2. DOMAIN conns' = DOMAIN conns /\ conns' = [x \in DOMAIN conns |-> conns'[x]]
  BY <1>1
<1>3. conns'[c] \in Connection /\ conns'[c].proc = conns[c].proc
      /\ conns'[c].host = conns[c].host
  BY <1>1 DEF Connection
<1>4. \A x \in DOMAIN conns : conns'[x] \in Connection
  BY <1>1, <1>3
<1>5. conns' \in Seq(Connection)
  BY <1>1, <1>2, <1>4, SequenceOf
<1>6. QED
  BY <1>1, <1>2, <1>3, <1>5 DEF ConnsKept

\* ... of the task whose connection it is.
LEMMA ConnOf ==
  ASSUME Calls, NEW t \in Tasks, call[t].step \in HasConn
  PROVE  /\ call[t] \in Call /\ call[t].conn \in DOMAIN conns
         /\ Conn(t) \in Connection /\ Conn(t).proc = Home[t] /\ Conn(t).host \in Hosts
         /\ Home[t] \in Procs
  BY HomeAssumption DEF Calls, Owns, Conn

\* A task goes on at the connection it has.
LEMMA GoesOnCalls ==
  ASSUME Calls, ConnsKept, NEW t \in Tasks, NEW step \in CallSteps, Goes(t, step),
         step \in HasConn => call[t].step \in HasConn
  PROVE  Calls'
<1> DEFINE to == [call[t] EXCEPT !.step = step]
<1>1. call' = [call EXCEPT ![t] = to]
  BY DEF Goes
<1>2. to \in Call /\ to.step = step /\ to.conn = call[t].conn
  BY DEF Calls, Call
<1> HIDE DEF to
<1>3. step \in HasConn => /\ call[t].conn \in DOMAIN conns
                          /\ Conn(t).proc = Home[t] /\ Conn(t).host \in Hosts
  BY ConnOf
<1>4. QED
  BY <1>1, <1>2, <1>3, CallsFrame DEF ConnsKept, Conn

LEMMA NoCallIsCall == NoCall \in Call /\ NoCall.step = "idle" /\ NoCall.conn = 0
                      /\ NoCall.pooling = FALSE
  BY DEF NoCall, Call, CallSteps

LEMMA HangsUpCalls ==
  ASSUME Calls, ConnsKept, NEW t \in Tasks, call' = [call EXCEPT ![t] = NoCall]
  PROVE  Calls'
  BY NoCallIsCall, CallsFrame DEF HasConn

LEMMA RaisesCalls ==
  ASSUME Calls, ConnsKept, NEW t \in Tasks, Raises(t), call[t].step \in HasConn
  PROVE  Calls'
  BY HangsUpCalls, GoesOnCalls DEF Raises, HasConn, CallSteps

LEMMA GetCalls ==
  ASSUME Stores, Calls, NEW t \in Tasks, NEW h \in Hosts, NEW policy \in Policies,
         Get(t, h, policy)
  PROVE  Calls'
<1> DEFINE p     == Home[t]
           ready == {c \in Pooled(p) : conns[c].host = h /\ IsConnected(c)}
           to(c, s) == [call[t] EXCEPT !.step = s, !.conn = c, !.pooling = TRUE]
<1>1. conns \in Seq(Connection) /\ call[t] \in Call /\ p \in Procs
  BY HomeAssumption DEF Calls
<1>2. ASSUME NEW c \in Nat, NEW s \in CallSteps
      PROVE  to(c, s) \in Call /\ to(c, s).conn = c
  BY <1>1 DEF Call
<1>3. CASE ready # {} /\ Takes(t, "have", Min(ready)) /\ UNCHANGED conns
  <2>1. ready \subseteq Nat /\ \A c \in ready : c \in DOMAIN conns
                                  /\ conns[c].proc = p /\ conns[c].host = h
    BY <1>1 DEF Pooled, Made
  <2>2. Min(ready) \in ready
    <3> HIDE DEF ready
    <3> QED
      BY <1>3, <2>1, MinIsLeast
  <2> DEFINE c == Min(ready)
  <2>3. call' = [call EXCEPT ![t] = to(c, "have")]
    BY <1>3 DEF Takes
  <2>4. c \in Nat /\ c \in DOMAIN conns /\ conns[c].proc = p /\ conns[c].host = h
    BY <2>1, <2>2
  <2>5. conns' = conns /\ ConnsKept
    BY <1>3, ConnsSame
  <2> HIDE DEF ready, c, to
  <2>6. QED
    BY <1>2, <2>3, <2>4, <2>5, CallsFrame DEF CallSteps
<1>4. CASE conns' = Append(conns, NewConnection(p, h, policy))
           /\ Takes(t, "dial", Len(conns) + 1)
  <2> DEFINE new == NewConnection(p, h, policy)
             c   == Len(conns) + 1
  <2>1. new \in Connection /\ new.proc = p /\ new.host = h
    BY <1>1 DEF NewConnection, Connection
  <2> HIDE DEF new
  <2>2. /\ conns' \in Seq(Connection) /\ c \in DOMAIN conns' /\ conns'[c] = new
        /\ c \in Nat
        /\ \A x \in DOMAIN conns : x \in DOMAIN conns' /\ conns'[x] = conns[x]
    BY <1>1, <1>4, <2>1 DEF new
  <2>3. ConnsKept
    BY <2>2 DEF ConnsKept
  <2>4. call' = [call EXCEPT ![t] = to(c, "dial")]
    BY <1>4 DEF Takes
  <2> HIDE DEF c, to
  <2>5. QED
    BY <1>2, <2>1, <2>2, <2>3, <2>4, CallsFrame DEF CallSteps
<1>5. QED
  BY <1>3, <1>4 DEF Get

LEMMA StandsCalls ==
  ASSUME Stores, Calls, NEW t \in Tasks, Stands(t), call[t].step \in HasConn
  PROVE  Calls'
<1> DEFINE c == call[t].conn
           joins == call[t].pooling /\ conns[c].host \in pools[Home[t]]
           b == conns[c].pooled \/ joins
<1>1. c \in DOMAIN conns /\ call[t] \in Call /\ conns[c] \in Connection
  BY ConnOf DEF Conn
<1>2. conns' = [conns EXCEPT ![c] = [conns[c] EXCEPT !.link = "up", !.flag = TRUE,
                                                     !.pooled = b]]
  BY DEF Stands
<1>3. b \in BOOLEAN
  BY <1>1 DEF Call, Connection
<1> HIDE DEF b
<1>4. ConnsKept
  BY <1>1, <1>2, <1>3, ConnChanged
<1>5. Goes(t, "have") \/ Raises(t)
  BY DEF Stands
<1>6. QED
  BY <1>4, <1>5, GoesOnCalls, RaisesCalls DEF HasConn, CallSteps

LEMMA RefuseCalls ==
  ASSUME Stores, Calls, NEW t \in Tasks, Refuse(t), call[t].step \in HasConn
  PROVE  Calls'
<1> DEFINE c == call[t].conn
<1>1. c \in DOMAIN conns /\ conns[c] \in Connection
  BY ConnOf DEF Conn
<1>2. conns' = [conns EXCEPT ![c] = [conns[c] EXCEPT !.link = "up",
                              !.flag = conns[c].flag, !.pooled = conns[c].pooled]]
  BY <1>1 DEF Refuse, Connection
<1>3. ConnsKept
  BY <1>1, <1>2, ConnChanged DEF Connection
<1>4. QED
  BY <1>3, RaisesCalls DEF Refuse

\* What connects.
LEMMA ConnectsCalls ==
  ASSUME Stores, Calls, NEW t \in Tasks, Connects(t)
  PROVE  Calls'
<1>1. ASSUME NEW key \in Keys, Dial(t, key) PROVE Calls'
  <2>1. call[t].step \in HasConn
    BY <1>1 DEF Dial, At, HasConn
  <2>2. QED
    BY <1>1, <2>1, StandsCalls, RefuseCalls, GoesOnCalls, ConnsSame
       DEF Dial, HasConn, CallSteps
<1>2. CASE Save(t)
  BY <1>2, StandsCalls DEF Save, At, HasConn
<1>3. CASE DialFails(t)
  BY <1>3, RaisesCalls, ConnsSame DEF DialFails, At, HasConn
<1>4. QED
  BY <1>1, <1>2, <1>3 DEF Connects

LEMMA ExecutesCalls ==
  ASSUME Stores, Calls, NEW t \in Tasks, Executes(t)
  PROVE  Calls'
<1> USE DEF CallSteps, HasConn, At
<1>1. CASE Begin(t)
  BY <1>1, GetCalls DEF Begin
<1>2. CASE Bring(t)
  <2>1. UNCHANGED <<conns, call>>
    BY <1>2 DEF Bring, sshVars
  <2>2. QED
    BY <2>1 DEF Calls, Owns, Conn
<1>3. ASSUME UNCHANGED conns, call[t].step \in HasConn,
             \/ call' = [call EXCEPT ![t] = NoCall]
             \/ \E s \in {"run", "snap", "cut", "have"} : Goes(t, s)
      PROVE  Calls'
  BY <1>3, ConnsSame, HangsUpCalls, GoesOnCalls
<1>4. CASE IssueAfterDial(t)
  <2> DEFINE to == [call[t] EXCEPT !.step = "dial", !.pooling = FALSE]
  <2>1. /\ call' = [call EXCEPT ![t] = to] /\ UNCHANGED conns
        /\ call[t].step \in HasConn
    BY <1>4 DEF IssueAfterDial, Redial
  <2>2. to \in Call /\ to.conn = call[t].conn
    BY DEF Calls, Call
  <2> HIDE DEF to
  <2>3. QED
    BY <2>1, <2>2, ConnOf, ConnsSame, CallsFrame DEF Conn
<1>5. CASE Turned(t) \/ Denied(t) \/ Issue(t)
  BY <1>3, <1>5 DEF Turned, Denied, Issue, Ready, Respond, SshSame
<1>6. CASE RunEnds(t) \/ RunFails(t)
  BY <1>3, <1>6 DEF RunEnds, RunFails, Answered, Respond, SshSame
<1>7. CASE Cut(t) \/ Fill(t)
  BY <1>3, <1>7 DEF Cut, Fill, SshSame
<1>8. QED
  BY <1>1, <1>2, <1>4, <1>5, <1>6, <1>7 DEF Executes

LEMMA ClosesCalls ==
  ASSUME Stores, Calls, NEW t \in Tasks, Closes(t)
  PROVE  Calls'
<1>0. /\ call[t] \in Call /\ Home[t] \in Procs /\ pools[Home[t]] \subseteq Hosts
      /\ conns \in Seq(Connection) /\ \A c \in DOMAIN conns : conns[c] \in Connection
  BY HomeAssumption DEF Calls, Stores
<1>1. ASSUME NEW to \in Call, call' = [call EXCEPT ![t] = to], ConnsKept,
             to.step \in {"close", "shut", "idle"}
      PROVE  Calls'
  BY <1>1, CallsFrame DEF HasConn
<1>2. CASE Close(t)
  <2>1. PICK h \in pools[Home[t]] : call' = [call EXCEPT ![t] =
           [NoCall EXCEPT !.step = "close", !.all = pools[Home[t]],
                          !.rest = pools[Home[t]] \ {h}, !.host = h]]
    BY <1>2 DEF Close
  <2> DEFINE to == [NoCall EXCEPT !.step = "close", !.all = pools[Home[t]],
                          !.rest = pools[Home[t]] \ {h}, !.host = h]
  <2>2. to \in Call /\ to.step = "close"
    BY <1>0 DEF NoCall, Call, CallSteps
  <2> HIDE DEF to
  <2>3. QED
    BY <1>1, <1>2, <2>1, <2>2, ConnsSame DEF Close, to
<1>3. CASE Shut(t)
  <2> DEFINE c  == Min(Ahead(t))
             to == [call[t] EXCEPT !.step = "shut", !.conn = c]
  <2>1. Ahead(t) \subseteq DOMAIN conns /\ Ahead(t) \subseteq Nat
    BY <1>0 DEF Ahead, Pooled, Made
  <2>2. c \in DOMAIN conns /\ c \in Nat
    BY <1>3, <2>1, MinIsLeast DEF Shut
  <2>3. /\ call' = [call EXCEPT ![t] = to]
        /\ conns' = [conns EXCEPT ![c] = [conns[c] EXCEPT !.link = "down",
                        !.flag = conns[c].flag, !.pooled = conns[c].pooled]]
    BY <1>0, <1>3, <2>2 DEF Shut, Connection
  <2>4. conns[c].flag \in BOOLEAN /\ conns[c].pooled \in BOOLEAN
    BY <1>0, <2>2 DEF Connection
  <2> HIDE DEF c
  <2>5. ConnsKept
    BY <2>2, <2>3, <2>4, ConnChanged
  <2>6. to \in Call /\ to.step = "shut"
    BY <1>0, <2>2 DEF Call, CallSteps
  <2> HIDE DEF to
  <2>7. QED
    BY <1>1, <2>3, <2>5, <2>6
<1>4. CASE ShutEnds(t)
  <2> DEFINE c  == call[t].conn
             to == [call[t] EXCEPT !.step = "close"]
  <2>1. /\ call' = [call EXCEPT ![t] = to]
        /\ conns' = [conns EXCEPT ![c].link = "none", ![c].flag = FALSE]
    BY <1>4 DEF ShutEnds, Goes
  <2>2. to \in Call /\ to.step = "close"
    BY <1>0 DEF Call, CallSteps
  <2>3. ConnsKept
    <3>1. CASE c \in DOMAIN conns
      <4>1. conns' = [conns EXCEPT ![c] = [conns[c] EXCEPT !.link = "none",
                        !.flag = FALSE, !.pooled = conns[c].pooled]]
        BY <1>0, <2>1, <3>1 DEF Connection
      <4>2. QED
        BY <1>0, <3>1, <4>1, ConnChanged DEF Connection
    <3>2. CASE c \notin DOMAIN conns
      <4>1. conns' = conns
        BY <1>0, <2>1, <3>2
      <4>2. QED
        BY <4>1, ConnsSame
    <3>3. QED
      BY <3>1, <3>2
  <2> HIDE DEF to
  <2>4. QED
    BY <1>1, <2>1, <2>2, <2>3
<1>5. CASE NextHost(t)
  <2>1. PICK h \in call[t].rest : call' = [call EXCEPT ![t].conn = 0, ![t].rest = @ \ {h}, ![t].host = h]
    BY <1>5 DEF NextHost
  <2> DEFINE to == [call[t] EXCEPT !.conn = 0, !.rest = @ \ {h}, !.host = h]
  <2>2. to \in Call /\ to.step = "close"
    BY <1>0, <1>5 DEF Call, CallSteps, NextHost, At
  <2>3. call' = [call EXCEPT ![t] = to]
    BY <2>1
  <2> HIDE DEF to
  <2>4. QED
    BY <1>1, <1>5, <2>2, <2>3, ConnsSame DEF NextHost
<1>6. CASE CloseDies(t)
  BY <1>6, HangsUpCalls, ConnsSame DEF CloseDies
<1>7. CASE Clear(t)
  <2>1. /\ conns' = [c \in DOMAIN conns |-> IF conns[c].proc = Home[t]
                        THEN [conns[c] EXCEPT !.pooled = FALSE] ELSE conns[c]]
        /\ call' = [call EXCEPT ![t] = NoCall]
    BY <1>7 DEF Clear
  <2>2. DOMAIN conns' = DOMAIN conns /\ conns' = [c \in DOMAIN conns |-> conns'[c]]
    BY <2>1
  <2>3. \A c \in DOMAIN conns : /\ conns'[c] \in Connection
                                /\ conns'[c].proc = conns[c].proc
                                /\ conns'[c].host = conns[c].host
    BY <1>0, <2>1 DEF Connection
  <2>4. conns' \in Seq(Connection)
    BY <1>0, <2>2, <2>3, SequenceOf
  <2>5. ConnsKept
    BY <2>2, <2>3, <2>4 DEF ConnsKept
  <2>6. QED
    BY <2>1, <2>5, HangsUpCalls
<1>8. QED
  BY <1>2, <1>3, <1>4, <1>5, <1>6, <1>7 DEF Closes

LEMMA EndsCalls ==
  ASSUME Stores, Calls, NEW p \in Procs, Gone(p)
  PROVE  Calls'
<1>1. /\ conns' = [c \in DOMAIN conns |-> IF conns[c].proc = p THEN Dead ELSE conns[c]]
      /\ call' = [t \in Tasks |-> IF Home[t] = p THEN NoCall ELSE call[t]]
      /\ conns \in Seq(Connection) /\ \A c \in DOMAIN conns : conns[c] \in Connection
  BY DEF Gone, Calls
<1>2. Dead \in Connection
  BY DEF Dead, Connection
<1>3. DOMAIN conns' = DOMAIN conns /\ conns' = [c \in DOMAIN conns |-> conns'[c]]
      /\ \A c \in DOMAIN conns : conns'[c] \in Connection
  BY <1>1, <1>2
<1>4. conns' \in Seq(Connection)
  BY <1>1, <1>3, SequenceOf
<1>5. call' \in [Tasks -> Call]
  BY <1>1, NoCallIsCall DEF Calls
<1>6. ASSUME NEW t \in Tasks, call'[t].step \in HasConn PROVE Owns(t)'
  <2>1. call'[t] = call[t] /\ Home[t] # p
    BY <1>1, <1>6, NoCallIsCall DEF HasConn
  <2>2. Owns(t)
    BY <1>6, <2>1 DEF Calls
  <2>3. QED
    BY <1>1, <2>1, <2>2 DEF Owns, Conn
<1>7. QED
  BY <1>4, <1>5, <1>6 DEF Calls

\* Every step counts at most one mishap.
LEMMA MishapsGrow ==
  ASSUME Next
  PROVE  mishaps' = mishaps \/ \E k \in Mishap : mishaps' = [mishaps EXCEPT ![k] = @ + 1]
  BY DEF Next, Connects, Executes, Closes, Ends, Start, Drop, Dial, Save, DialFails,
         Begin, Get, Bring, Turned, Denied, Issue, IssueAfterDial, Redial, RunEnds,
         RunFails, Cut, Fill, Close, Shut, ShutEnds, NextHost, CloseDies, Clear,
         Respond, Answered, Counts, Mishap, sshVars

LEMMA StoresStep ==
  ASSUME Types, Next
  PROVE  Stores'
<1>1. mishaps' \in [Mishap -> Nat]
  BY MishapsGrow DEF Types, Stores
<1>2. Unknown \in Fingerprints
  BY DEF Unknown, Fingerprints
<1>3. CASE UNCHANGED <<file, known, up, pools, accepted, refused>>
  BY <1>1, <1>3 DEF Types, Stores
<1>4. ASSUME NEW t \in Tasks, Connects(t) PROVE Stores'
  <2>1. ASSUME NEW key \in Keys, Dial(t, key) PROVE Stores'
    <3>1. call[t].step \in HasConn
      BY <2>1 DEF Dial, At, HasConn
    <3>2. Conn(t).host \in Hosts /\ Home[t] \in Procs
      BY <3>1, ConnOf DEF Types
    <3>3. [known EXCEPT ![Home[t]][Conn(t).host] = key] \in [Procs -> Fingerprints]
      BY <3>2 DEF Types, Stores, Fingerprints
    <3>4. QED
      BY <1>1, <1>2, <2>1, <3>2, <3>3 DEF Dial, Refuse, Types, Stores
  <2>2. CASE Save(t)
    BY <1>1, <2>2, HomeAssumption DEF Save, Types, Stores
  <2>3. CASE DialFails(t)
    BY <1>1, <2>3 DEF DialFails, Types, Stores
  <2>4. QED
    BY <1>4, <2>1, <2>2, <2>3 DEF Connects
<1>5. ASSUME NEW t \in Tasks, Begin(t) PROVE Stores'
  BY <1>1, <1>5, HomeAssumption DEF Begin, Get, Types, Stores
<1>6. ASSUME NEW t \in Tasks, Executes(t), ~Begin(t) PROVE Stores'
  BY <1>3, <1>6 DEF Executes, Bring, Turned, Denied, Issue, IssueAfterDial, Redial,
     RunEnds, RunFails, Cut, Fill, SshSame, sshVars
<1>7. ASSUME NEW t \in Tasks, Closes(t) PROVE Stores'
  BY <1>1, <1>7, HomeAssumption
     DEF Closes, Close, Shut, ShutEnds, NextHost, CloseDies, Clear, Types, Stores
<1>8. ASSUME NEW p \in Procs, Ends(p) \/ Start(p) PROVE Stores'
  BY <1>1, <1>2, <1>8 DEF Ends, Gone, Start, Types, Stores
<1>9. ASSUME NEW c \in DOMAIN conns, Drop(c) PROVE Stores'
  BY <1>3, <1>9 DEF Drop
<1>10. QED
  BY <1>4, <1>5, <1>6, <1>7, <1>8, <1>9 DEF Next

(* The connections, the pools and what tasks do with them stay well typed,   *)
(* and a task at a connection has one of its own process.                    *)
THEOREM TypesHold == Spec => []Types
<1>1. Init => Types
  <2> SUFFICES ASSUME Init PROVE Types
    OBVIOUS
  <2>1. Unknown \in Fingerprints /\ <<>> \in Seq(Connection)
    BY DEF Unknown, Fingerprints
  <2>2. Stores
    BY <2>1 DEF Init, SshInit, Stores
  <2>3. Calls
    BY <2>1, NoCallIsCall DEF Init, SshInit, Calls, HasConn
  <2>4. QED
    BY <2>2, <2>3 DEF Types
<1>2. Types /\ [Next]_vars => Types'
  <2> SUFFICES ASSUME Types, [Next]_vars PROVE Types'
    OBVIOUS
  <2>1. CASE Next
    <3>1. ASSUME NEW t \in Tasks, Connects(t) \/ Executes(t) \/ Closes(t) PROVE Calls'
      BY <3>1, ConnectsCalls, ExecutesCalls, ClosesCalls DEF Types
    <3>2. ASSUME NEW p \in Procs, Ends(p) PROVE Calls'
      BY <3>2, EndsCalls DEF Types, Ends
    <3>3. ASSUME NEW p \in Procs, Start(p) PROVE Calls'
      BY <3>3 DEF Start, Types, Calls, Owns, Conn
    <3>4. ASSUME NEW c \in DOMAIN conns, Drop(c) PROVE Calls'
      <4>0. conns \in Seq(Connection) /\ conns[c] \in Connection
        BY DEF Types, Calls
      <4>1. conns' = [conns EXCEPT ![c] =
              [conns[c] EXCEPT !.link = "down", !.flag = conns[c].flag,
                               !.pooled = conns[c].pooled]]
        BY <3>4, <4>0 DEF Drop, Connection
      <4>2. ConnsKept /\ call' = call
        BY <3>4, <4>0, <4>1, ConnChanged DEF Types, Connection, Drop
      <4>3. QED
        BY <4>2 DEF Types, Calls, ConnsKept, Owns, Conn
    <3>5. Calls'
      BY <2>1, <3>1, <3>2, <3>3, <3>4 DEF Next
    <3>6. QED
      BY <2>1, <3>5, StoresStep DEF Types
  <2>2. CASE UNCHANGED vars
    BY <2>2 DEF vars, sshVars, Types, Stores, Calls, Owns, Conn
  <2>3. QED
    BY <2>1, <2>2
<1>3. QED
  BY <1>1, <1>2, PTL DEF Spec
-----------------------------------------------------------------------------
(***************************************************************************)
(* Trust on first use.  As long as processes follow one another, the one   *)
(* that is up knows every key a policy let through, and hands it on in the *)
(* file, which it holds apart from while it writes it.                     *)
(***************************************************************************)
Calm == mishaps["overlap"] = 0 /\ mishaps["death"] = 0

OneUp      == \A p, q \in Procs : up[p] /\ up[q] => p = q
KnowsAll   == \A p \in Procs : up[p] => \A x \in accepted : known[p][x[1]] = x[2]
FileIsKnown == \A p \in Procs : up[p] =>
                 \/ file = known[p]
                 \/ \E t \in Tasks : Home[t] = p /\ call[t].step = "save"
FileHasAll == (\A p \in Procs : ~up[p]) => \A x \in accepted : file[x[1]] = x[2]

FirstInv == Calm => OneUp /\ KnowsAll /\ FileIsKnown /\ FileHasAll

\* Quiet steps: nothing is learnt, and who writes the file goes on with it.
LEMMA FirstFrame ==
  ASSUME FirstInv, Calm' => Calm, UNCHANGED <<file, known, up, accepted>>,
         \A t \in Tasks : call[t].step = "save" => call'[t].step = "save"
  PROVE  FirstInv'
  BY DEF FirstInv, OneUp, KnowsAll, FileIsKnown, FileHasAll

\* A step of a task leaves the calls of the others alone.
LEMMA OthersKept ==
  ASSUME Calls, NEW t \in Tasks, Connects(t) \/ Executes(t) \/ Closes(t)
  PROVE  /\ \A u \in Tasks : u # t => call'[u] = call[u]
         /\ Executes(t) \/ Closes(t) \/ DialFails(t) => call[t].step # "save"
<1>1. \A u \in Tasks : u # t => call'[u] = call[u]
  BY DEF Calls, Connects, Executes, Closes, Dial, Save, DialFails, Begin, Get, Bring,
         Turned, Denied, Issue, IssueAfterDial, Redial, RunEnds, RunFails, Cut, Fill,
         Close, Shut, ShutEnds, NextHost, CloseDies, Clear, Respond, Answered, Takes,
         Goes, Raises, Stands, Refuse, sshVars
<1>2. Executes(t) \/ Closes(t) \/ DialFails(t) => call[t].step # "save"
  BY DEF Executes, Closes, DialFails, Begin, Get, Bring, Turned, Denied, Issue,
         IssueAfterDial, Redial, RunEnds, RunFails, Cut, Fill, Close, Shut, ShutEnds,
         NextHost, CloseDies, Clear, Ready, At
<1>3. QED
  BY <1>1, <1>2

LEMMA FirstDial ==
  ASSUME Types, FirstInv, Calm, Calm', NEW t \in Tasks, NEW key \in Keys, Dial(t, key)
  PROVE  FirstInv'
<1> DEFINE p == Home[t]
           h == Conn(t).host
           v == Verdict(known[p][h], key, Conn(t).policy)
<1>1. /\ p \in Procs /\ h \in Hosts /\ up[p] /\ call[t].step = "dial"
      /\ known \in [Procs -> Fingerprints] /\ known[p] \in Fingerprints
      /\ accepted \subseteq Hosts \X Keys /\ UNCHANGED up
      /\ \A x \in accepted : x[1] \in Hosts /\ x[2] \in Keys
  BY ConnOf DEF Dial, Moves, At, HasConn, Types, Stores
<1>2. /\ \A q \in Procs : up[q] => q = p
      /\ \A x \in accepted : known[p][x[1]] = x[2]
  BY <1>1 DEF FirstInv, OneUp, KnowsAll
<1>3. /\ v = "accept" => Conn(t).policy = "none" \/ known[p][h] = key
      /\ v = "learn" => known[p][h] = NoKey
      /\ v \in {"accept", "learn", "refuse"}
  BY DEF Verdict
<1>4. accepted' \subseteq accepted \cup {<<h, key>>}
      /\ (v = "refuse" \/ Conn(t).policy = "none" => accepted' = accepted)
  BY DEF Dial
<1>5. CASE v # "learn"
  <2>1. UNCHANGED <<file, known>>
    BY <1>5 DEF Dial
  <2>2. \A x \in accepted' : known[p][x[1]] = x[2]
    BY <1>2, <1>3, <1>4, <1>5
  <2>3. \A u \in Tasks : call[u].step = "save" => call'[u].step = "save"
    BY <1>1, OthersKept DEF Connects, Dial, Types, Calls, Stands, Refuse, Raises, Goes
  <2>4. KnowsAll' /\ OneUp' /\ FileHasAll'
    BY <1>1, <1>2, <2>1, <2>2 DEF KnowsAll, OneUp, FileHasAll
  <2>5. FileIsKnown'
    BY <1>1, <2>1, <2>3 DEF FirstInv, FileIsKnown
  <2>6. QED
    BY <2>4, <2>5 DEF FirstInv
<1>6. CASE v = "learn"
  <2>1. /\ known' = [known EXCEPT ![p][h] = key] /\ Goes(t, "save")
    BY <1>6 DEF Dial
  <2>2. /\ known'[p][h] = key
        /\ \A i \in Hosts : i # h => known'[p][i] = known[p][i]
    BY <1>1, <2>1 DEF Fingerprints
  <2>3. \A x \in accepted : x[1] # h
    BY <1>1, <1>2, <1>3, <1>6, NoKeyAssumption
  <2>4. \A x \in accepted' : known'[p][x[1]] = x[2]
    BY <1>1, <1>2, <1>4, <2>2, <2>3
  <2>5. call'[t].step = "save"
    BY <2>1 DEF Goes, Types, Calls, Call
  <2>6. KnowsAll' /\ OneUp' /\ FileHasAll' /\ FileIsKnown'
    BY <1>1, <1>2, <2>4, <2>5 DEF KnowsAll, OneUp, FileHasAll, FileIsKnown
  <2>7. QED
    BY <2>6 DEF FirstInv
<1>7. QED
  BY <1>5, <1>6

LEMMA FirstStep ==
  ASSUME Types, FirstInv, Next
  PROVE  FirstInv'
<1>0. mishaps \in [Mishap -> Nat]
  BY DEF Types, Stores
<1>1. Calm' => Calm
  BY <1>0, MishapsGrow DEF Calm, Mishap
<1>2. SUFFICES ASSUME Calm, Calm' PROVE FirstInv'
  BY <1>1 DEF FirstInv
<1>3. OneUp /\ KnowsAll /\ FileIsKnown /\ FileHasAll
  BY <1>2 DEF FirstInv
<1>4. ASSUME NEW t \in Tasks, NEW key \in Keys, Dial(t, key) PROVE FirstInv'
  BY <1>2, <1>4, FirstDial
<1>5. ASSUME NEW t \in Tasks, Save(t) PROVE FirstInv'
  <2>1. /\ up[Home[t]] /\ Home[t] \in Procs /\ file' = known[Home[t]]
        /\ UNCHANGED <<known, up, accepted>>
    BY <1>5, HomeAssumption DEF Save, Moves
  <2>2. QED
    BY <1>3, <2>1 DEF FirstInv, OneUp, KnowsAll, FileIsKnown, FileHasAll
<1>6. ASSUME NEW t \in Tasks, Executes(t) \/ Closes(t) \/ DialFails(t),
             Connects(t) \/ Executes(t) \/ Closes(t)
      PROVE  FirstInv'
  <2>1. UNCHANGED <<file, known, up, accepted>>
    BY <1>6 DEF Executes, Closes, DialFails, Begin, Get, Bring, Turned, Denied, Issue,
         IssueAfterDial, Redial, RunEnds, RunFails, Cut, Fill, Close, Shut, ShutEnds,
         NextHost, CloseDies, Clear, SshSame, sshVars
  <2>2. \A u \in Tasks : call[u].step = "save" => call'[u].step = "save"
    BY <1>6, OthersKept DEF Types
  <2>3. QED
    BY <1>2, <2>1, <2>2, FirstFrame
<1>7. ASSUME NEW p \in Procs, Ends(p) PROVE FirstInv'
  <2>1. \A t \in Tasks : Home[t] = p => call[t] = NoCall
    BY <1>0, <1>2, <1>7 DEF Ends, Counts, Calm, Mishap
  <2>2. /\ up[p] /\ up' = [up EXCEPT ![p] = FALSE] /\ UNCHANGED <<file, accepted>>
    BY <1>7 DEF Ends, Gone
  <2>3. \A q \in Procs : up[q] => q = p
    BY <1>3, <2>2 DEF OneUp
  <2>4. \A q \in Procs : ~up'[q]
    BY <2>2, <2>3 DEF Types, Stores
  <2>5. file = known[p]
    BY <1>3, <2>1, <2>2, NoCallIsCall DEF FileIsKnown
  <2>6. \A x \in accepted : file[x[1]] = x[2]
    BY <1>3, <2>2, <2>5 DEF KnowsAll
  <2>7. QED
    BY <2>2, <2>4, <2>6 DEF FirstInv, OneUp, KnowsAll, FileIsKnown, FileHasAll
<1>8. ASSUME NEW p \in Procs, Start(p) PROVE FirstInv'
  <2>1. \A q \in Procs : ~up[q]
    BY <1>0, <1>2, <1>8 DEF Start, Counts, Calm, Mishap
  <2>2. /\ \A q \in Procs : up'[q] => q = p
        /\ known'[p] = file /\ UNCHANGED <<file, accepted>> /\ up'[p]
    BY <1>8, <2>1 DEF Start, Types, Stores
  <2>3. \A x \in accepted : file[x[1]] = x[2]
    BY <1>3, <2>1 DEF FileHasAll
  <2>4. QED
    BY <2>2, <2>3 DEF FirstInv, OneUp, KnowsAll, FileIsKnown, FileHasAll
<1>9. ASSUME NEW c \in DOMAIN conns, Drop(c) PROVE FirstInv'
  BY <1>2, <1>9, FirstFrame DEF Drop
<1>10. QED
  BY <1>4, <1>5, <1>6, <1>7, <1>8, <1>9 DEF Next, Connects

(* FirstKeyKept: a host is let through under one key, the first it showed,   *)
(* through any number of processes, tasks and restarts, as long as processes *)
(* do not overlap and none dies at work (verify_or_store).                   *)
THEOREM FirstKeyKeptHolds == Spec => []FirstKeyKept
<1>1. Init => FirstInv
  BY DEF Init, SshInit, FirstInv, OneUp, KnowsAll, FileIsKnown, FileHasAll
<1>2. Types /\ FirstInv /\ [Next]_vars => FirstInv'
  <2>1. UNCHANGED vars /\ FirstInv => FirstInv'
    BY DEF vars, sshVars, FirstInv, Calm, OneUp, KnowsAll, FileIsKnown, FileHasAll
  <2>2. QED
    BY <2>1, FirstStep
<1>3. Types /\ FirstInv => FirstKeyKept
  <2> SUFFICES ASSUME Types, FirstInv, Calm, NEW x \in accepted, NEW y \in accepted,
                      x[1] = y[1]
               PROVE  x = y
    BY DEF FirstKeyKept, Calm
  <2>1. x \in Hosts \X Keys /\ y \in Hosts \X Keys
    BY DEF Types, Stores
  <2>2. x[2] = y[2]
    BY DEF FirstInv, KnowsAll, FileHasAll
  <2>3. QED
    BY <2>1, <2>2
<1>4. QED
  BY <1>1, <1>2, <1>3, TypesHold, PTL DEF Spec
-----------------------------------------------------------------------------
(***************************************************************************)
(* The audit file.  Of those who write it there is one at a time, as long  *)
(* as nothing clashes; it read the file as it was before its response, and *)
(* the file is whole again when it is done.                                *)
(***************************************************************************)
LastOf(n) == [k \in 1..Min({n, MaxAudit}) |-> n - Min({n, MaxAudit}) + k]

LEMMA MinOfTwo ==
  ASSUME NEW a \in Int, NEW b \in Int
  PROVE  Min({a, b}) = IF a <= b THEN a ELSE b
  BY DEF Min

LEMMA MaxOfTwo ==
  ASSUME NEW a \in Int, NEW b \in Int
  PROVE  Max({a, b}) = IF a >= b THEN a ELSE b
  BY DEF Max

\* The newest entries of the last ones and one more are the last ones.
LEMMA NewestOfLast ==
  ASSUME NEW n \in Nat
  PROVE  Newest(Append(LastOf(n), n + 1)) = LastOf(n + 1)
<1> DEFINE s == Append(LastOf(n), n + 1)
<1>0. MaxAudit \in Nat /\ MaxAudit >= 1
  BY AuditAssumption
<1>1. CASE n < MaxAudit
  <2>1. Min({n, MaxAudit}) = n /\ Min({n + 1, MaxAudit}) = n + 1
    BY <1>0, <1>1, MinOfTwo
  <2>2. LastOf(n) = [k \in 1..n |-> k] /\ LastOf(n + 1) = [k \in 1..(n + 1) |-> k]
    BY <2>1 DEF LastOf
  <2>3. LastOf(n) \in Seq(Int) /\ Len(LastOf(n)) = n
    BY <2>2
  <2>4. s = [k \in 1..(n + 1) |-> k] /\ Len(s) = n + 1
    BY <2>2, <2>3
  <2>5. Max({1, Len(s) - MaxAudit + 1}) = 1
    BY <1>0, <1>1, <2>4, MaxOfTwo
  <2> HIDE DEF s
  <2>6. Newest(s) = SubSeq(s, 1, n + 1)
    BY <2>4, <2>5 DEF Newest
  <2>7. SubSeq(s, 1, n + 1) = [k \in 1..(n + 1) |-> k]
    BY <2>4
  <2>8. QED
    BY <2>2, <2>6, <2>7 DEF s
<1>2. CASE ~(n < MaxAudit)
  <2>1. Min({n, MaxAudit}) = MaxAudit /\ Min({n + 1, MaxAudit}) = MaxAudit
    BY <1>0, <1>2, MinOfTwo
  <2>2. /\ LastOf(n) = [k \in 1..MaxAudit |-> n - MaxAudit + k]
        /\ LastOf(n + 1) = [k \in 1..MaxAudit |-> (n + 1) - MaxAudit + k]
    BY <2>1, <1>0, Zenon DEF LastOf
  <2>3. LastOf(n) \in Seq(Int) /\ Len(LastOf(n)) = MaxAudit
    BY <1>0, <2>2
  <2>4. s = [k \in 1..(MaxAudit + 1) |-> n - MaxAudit + k] /\ Len(s) = MaxAudit + 1
    BY <1>0, <2>2, <2>3
  <2>5. Max({1, Len(s) - MaxAudit + 1}) = 2
    BY <1>0, <2>4, MaxOfTwo
  <2> HIDE DEF s
  <2>6. Newest(s) = SubSeq(s, 2, MaxAudit + 1)
    BY <2>4, <2>5 DEF Newest
  <2>7. SubSeq(s, 2, MaxAudit + 1) = [k \in 1..MaxAudit |-> n - MaxAudit + (k + 1)]
    BY <1>0, <2>4
  <2>8. [k \in 1..MaxAudit |-> n - MaxAudit + (k + 1)]
          = [k \in 1..MaxAudit |-> (n + 1) - MaxAudit + k]
    BY <1>0
  <2>9. QED
    BY <2>2, <2>6, <2>7, <2>8, Zenon DEF s
<1>3. QED
  BY <1>1, <1>2

AuditCalm == mishaps["death"] = 0 /\ mishaps["clash"] = 0

Fields  == DOMAIN NoJob
Jobbed  == made \in Nat /\ DOMAIN job = Tasks /\ \A t \in Tasks : DOMAIN job[t] = Fields
OneWriter == \A t, u \in Tasks : WritesAudit(t) /\ WritesAudit(u) => t = u
Whole   == (\A t \in Tasks : ~WritesAudit(t)) => audit = LastOf(made)
Reads(t) == made >= 1 /\ job[t].id = made /\ job[t].snap = LastOf(made - 1)
Pending == \A t \in Tasks : WritesAudit(t) => Reads(t)

AuditInv == Jobbed /\ (AuditCalm => OneWriter /\ Whole /\ Pending)

\* Steps that are no writer's.
LEMMA AuditFrame ==
  ASSUME AuditInv, AuditCalm' => AuditCalm, Jobbed', UNCHANGED <<audit, made>>,
         \A u \in Tasks : WritesAudit(u)' <=> WritesAudit(u),
         \A u \in Tasks : WritesAudit(u) => /\ job'[u].id = job[u].id
                                           /\ job'[u].snap = job[u].snap
  PROVE  AuditInv'
  BY DEF AuditInv, OneWriter, Whole, Pending, Reads

LEMMA JobFields ==
  /\ Fields = {"kind", "perms", "confirmed", "stop", "left", "good", "id", "snap"}
  /\ \A j \in Jobs : DOMAIN j = Fields
<1>1. Fields = {"kind", "perms", "confirmed", "stop", "left", "good", "id", "snap"}
  BY DEF Fields, NoJob
<1>2. \A kind, n : DOMAIN Single(kind, n) = Fields
  BY DEF Single, Fields
<1>3. ASSUME NEW j \in Batches PROVE DOMAIN j = Fields
  <2>1. PICK stop \in BOOLEAN, sure \in BOOLEAN : j = Batch(stop, sure)
    BY DEF Batches
  <2>2. QED
    BY <1>2, <2>1 DEF Batch
<1>4. \A j \in Jobs : DOMAIN j = Fields
  BY <1>2, <1>3 DEF Jobs
<1>5. QED
  BY <1>1, <1>4

\* A task not at the audit file, before a step and after it.
LEMMA AuditQuiet ==
  ASSUME Types, AuditInv, AuditCalm' => AuditCalm, NEW t \in Tasks,
         Connects(t) \/ Executes(t) \/ Closes(t), UNCHANGED <<audit, made>>,
         \/ UNCHANGED job
         \/ \E j : job' = [job EXCEPT ![t] = j] /\ DOMAIN j = Fields,
         ~WritesAudit(t), ~WritesAudit(t)'
  PROVE  AuditInv'
<1>1. \A u \in Tasks : u # t => call'[u] = call[u] /\ job'[u] = job[u]
  BY OthersKept DEF Types, AuditInv, Jobbed
<1>2. Jobbed'
  BY DEF AuditInv, Jobbed
<1>3. QED
  BY <1>1, <1>2, AuditFrame DEF WritesAudit

\* A response: its writer read the file whole.
LEMMA AuditRespond ==
  ASSUME Types, AuditInv, AuditCalm' => AuditCalm, NEW t \in Tasks,
         NEW good \in BOOLEAN, Respond(t, good), ~WritesAudit(t), UNCHANGED audit
  PROVE  AuditInv'
<1>0. /\ made \in Nat /\ DOMAIN job = Tasks /\ DOMAIN job[t] = Fields
      /\ call \in [Tasks -> Call]
  BY DEF AuditInv, Jobbed, Types, Calls
<1>1. /\ made' = made + 1
      /\ job' = [job EXCEPT ![t].good = good, ![t].id = made + 1, ![t].snap = audit]
      /\ call' = [call EXCEPT ![t].step = "snap"]
  BY DEF Respond, Goes
<1>2. Jobbed' /\ job'[t].id = made + 1 /\ job'[t].snap = audit
  <2> DEFINE j == [job[t] EXCEPT !.good = good, !.id = made + 1, !.snap = audit]
  <2>1. job' = [job EXCEPT ![t] = j]
    BY <1>0, <1>1
  <2>2. DOMAIN j = Fields /\ j.id = made + 1 /\ j.snap = audit
    BY <1>0, JobFields
  <2> HIDE DEF j
  <2>3. QED
    BY <1>0, <1>1, <2>1, <2>2 DEF AuditInv, Jobbed
<1>3. ASSUME AuditCalm' PROVE OneWriter' /\ Whole' /\ Pending'
  <2>1. \A u \in Tasks : ~WritesAudit(u)
    BY <1>3 DEF Respond, Counts, AuditCalm, Types, Stores, Mishap
  <2>2. audit = LastOf(made)
    BY <1>3, <2>1 DEF AuditInv, Whole
  <2>3. \A u \in Tasks : WritesAudit(u)' <=> u = t
    BY <1>0, <1>1, <2>1 DEF WritesAudit, Call
  <2>4. Reads(t)'
    BY <1>0, <1>1, <1>2, <2>2 DEF Reads
  <2>5. QED
    BY <2>3, <2>4 DEF OneWriter, Whole, Pending
<1>4. QED
  BY <1>2, <1>3 DEF AuditInv

LEMMA AuditStep ==
  ASSUME Types, AuditInv, Next
  PROVE  AuditInv'
<1>0. AuditCalm' => AuditCalm
  BY MishapsGrow DEF AuditCalm, Mishap, Types, Stores
<1>00. /\ made \in Nat /\ DOMAIN job = Tasks /\ \A t \in Tasks : DOMAIN job[t] = Fields
       /\ call \in [Tasks -> Call] /\ DOMAIN NoJob = Fields
  BY DEF AuditInv, Jobbed, Types, Calls, Fields
<1>1. ASSUME NEW t \in Tasks, Connects(t) PROVE AuditInv'
  <2>1. UNCHANGED <<audit, made>> /\ ~WritesAudit(t)
        /\ (UNCHANGED job \/ job' = [job EXCEPT ![t] = NoJob])
    BY <1>1 DEF Connects, Dial, Save, DialFails, At, WritesAudit
  <2>2. ~WritesAudit(t)'
    BY <1>1, <1>00, NoCallIsCall DEF Connects, Dial, Save, DialFails, Stands, Refuse,
       Raises, Goes, WritesAudit, Call
  <2>3. QED
    BY <1>0, <1>00, <1>1, <2>1, <2>2, AuditQuiet
<1>2. ASSUME NEW t \in Tasks, Closes(t) PROVE AuditInv'
  <2>1. UNCHANGED <<audit, made, job>> /\ ~WritesAudit(t)
    BY <1>2 DEF Closes, OpsSame, Close, Shut, ShutEnds, NextHost, CloseDies, Clear, At,
       WritesAudit
  <2>2. call'[t].step \in {"close", "shut", "idle"}
    <3>1. CASE Close(t)
      BY <1>00, <3>1, NoCallIsCall DEF Close, NoCall
    <3>2. CASE Shut(t)
      BY <1>00, <3>2 DEF Shut, Call
    <3>3. CASE ShutEnds(t)
      BY <1>00, <3>3 DEF ShutEnds, Goes, Call
    <3>4. CASE NextHost(t)
      BY <1>00, <3>4 DEF NextHost, At, Call
    <3>5. CASE CloseDies(t) \/ Clear(t)
      BY <1>00, <3>5, NoCallIsCall DEF CloseDies, Clear
    <3>6. QED
      BY <1>2, <3>1, <3>2, <3>3, <3>4, <3>5 DEF Closes
  <2>3. QED
    BY <1>0, <1>2, <2>1, <2>2, AuditQuiet DEF WritesAudit
<1>3. ASSUME NEW t \in Tasks,
             Begin(t) \/ Bring(t) \/ Turned(t) \/ Issue(t) \/ IssueAfterDial(t)
      PROVE  AuditInv'
  <2>1. UNCHANGED <<audit, made>> /\ ~WritesAudit(t)
        /\ (UNCHANGED job \/ \E j : job' = [job EXCEPT ![t] = j] /\ DOMAIN j = Fields)
    BY <1>3, <1>00, JobFields DEF Begin, Get, Bring, Turned, Issue, IssueAfterDial,
       Redial, Ready, At, WritesAudit
  <2>2. call'[t].step \in {"have", "dial", "idle", "run"}
    <3>1. CASE Begin(t)
      <4>1. \E s, c : s \in {"have", "dial"} /\ Takes(t, s, c)
        BY <3>1 DEF Begin, Get
      <4>2. PICK s, c : s \in {"have", "dial"} /\ Takes(t, s, c)
        BY <4>1
      <4> DEFINE to == [call[t] EXCEPT !.step = s, !.conn = c, !.pooling = TRUE]
      <4>3. call' = [call EXCEPT ![t] = to]
        BY <1>00, <4>2 DEF Takes
      <4>4. to.step = s
        BY <1>00 DEF Call
      <4> HIDE DEF to
      <4>5. QED
        BY <1>00, <4>2, <4>3, <4>4
    <3>2. CASE Bring(t)
      BY <1>00, <3>2 DEF Bring, At, sshVars
    <3>3. CASE Turned(t)
      BY <1>00, <3>3, NoCallIsCall DEF Turned
    <3>4. CASE Issue(t)
      BY <1>00, <3>4 DEF Issue, Goes, Call
    <3>5. CASE IssueAfterDial(t)
      BY <1>00, <3>5 DEF IssueAfterDial, Redial, Call
    <3>6. QED
      BY <1>3, <3>1, <3>2, <3>3, <3>4, <3>5
  <2>3. QED
    BY <1>0, <1>3, <2>1, <2>2, AuditQuiet DEF Executes, WritesAudit
<1>4. ASSUME NEW t \in Tasks, NEW good \in BOOLEAN, Answered(t, good), ~WritesAudit(t),
             RunEnds(t) \/ RunFails(t), UNCHANGED audit
      PROVE  AuditInv'
  <2>1. CASE job[t].kind # "plain"
    BY <1>0, <1>4, <2>1, AuditRespond DEF Answered
  <2>2. CASE job[t].kind = "plain"
    <3>1. /\ call' = [call EXCEPT ![t] = NoCall] /\ job' = [job EXCEPT ![t] = NoJob]
          /\ UNCHANGED made
      BY <1>4, <2>2 DEF Answered
    <3>2. ~WritesAudit(t)'
      BY <1>00, <3>1, NoCallIsCall DEF WritesAudit
    <3>3. QED
      BY <1>0, <1>00, <1>4, <3>1, <3>2, AuditQuiet DEF Executes
  <2>3. QED
    BY <2>1, <2>2
<1>5. ASSUME NEW t \in Tasks, Denied(t) \/ RunEnds(t) \/ RunFails(t) PROVE AuditInv'
  <2>1. ~WritesAudit(t) /\ UNCHANGED audit
    BY <1>5 DEF Denied, RunEnds, RunFails, Ready, At, WritesAudit
  <2>2. QED
    BY <1>0, <1>4, <1>5, <2>1, AuditRespond DEF Denied, RunEnds, RunFails
<1>6. ASSUME NEW t \in Tasks, Cut(t) PROVE AuditInv'
  <2>1. /\ WritesAudit(t) /\ call' = [call EXCEPT ![t].step = "cut"]
        /\ UNCHANGED <<mishaps, job, made>>
    BY <1>6 DEF Cut, At, Goes, WritesAudit
  <2>2. \A u \in Tasks : WritesAudit(u)' <=> WritesAudit(u)
    BY <1>00, <2>1 DEF WritesAudit, Call
  <2>3. QED
    BY <2>1, <2>2 DEF AuditInv, AuditCalm, Jobbed, OneWriter, Whole, Pending, Reads
<1>7. ASSUME NEW t \in Tasks, Fill(t) PROVE AuditInv'
  <2>1. /\ WritesAudit(t) /\ UNCHANGED made
        /\ audit' = Newest(Append(job[t].snap, job[t].id))
    BY <1>7 DEF Fill, At, WritesAudit
  <2>2. Jobbed'
    BY <1>7, <1>00, JobFields DEF Fill, Jobbed
  <2>3. ~WritesAudit(t)'
    BY <1>7, <1>00, NoCallIsCall DEF Fill, Goes, WritesAudit, Call
  <2>4. ASSUME AuditCalm' PROVE OneWriter' /\ Whole' /\ Pending'
    <3>1. OneWriter /\ Reads(t)
      BY <1>0, <2>1, <2>4 DEF AuditInv, Pending
    <3>2. \A u \in Tasks : ~WritesAudit(u)'
      BY <1>7, <2>1, <2>3, <3>1, OthersKept DEF OneWriter, WritesAudit, Executes, Types
    <3>3. made - 1 \in Nat /\ (made - 1) + 1 = made
      BY <1>00, <3>1 DEF Reads
    <3>4. audit' = Newest(Append(LastOf(made - 1), (made - 1) + 1))
      BY <2>1, <3>1, <3>3 DEF Reads
    <3>5. audit' = LastOf(made)
      BY <3>3, <3>4, NewestOfLast
    <3>6. QED
      BY <2>1, <3>2, <3>5 DEF OneWriter, Whole, Pending
  <2>5. QED
    BY <2>2, <2>4 DEF AuditInv
<1>8. ASSUME NEW p \in Procs, Ends(p) PROVE AuditInv'
  <2>1. UNCHANGED <<audit, made>> /\ Jobbed'
    BY <1>8, <1>00 DEF Ends, OpsSame, Jobbed
  <2>2. ASSUME AuditCalm' PROVE OneWriter' /\ Whole' /\ Pending'
    <3>1. \A t \in Tasks : Home[t] = p => call[t] = NoCall
      BY <1>8, <2>2 DEF Ends, Counts, AuditCalm, Types, Stores, Mishap
    <3>2. \A t \in Tasks : /\ call'[t] = call[t]
                           /\ WritesAudit(t) => job'[t] = job[t]
      BY <1>8, <3>1, NoCallIsCall DEF Ends, Gone, WritesAudit
    <3>3. OneWriter /\ Whole /\ Pending
      BY <1>0, <2>2 DEF AuditInv
    <3>4. QED
      BY <2>1, <3>2, <3>3 DEF OneWriter, Whole, Pending, Reads, WritesAudit
  <2>3. QED
    BY <2>1, <2>2 DEF AuditInv
<1>9. CASE UNCHANGED <<audit, made, job, call>>
  BY <1>0, <1>9 DEF AuditInv, Jobbed, OneWriter, Whole, Pending, Reads, WritesAudit
<1>10. ASSUME NEW p \in Procs, Start(p) /\ OpsSame /\ UNCHANGED job PROVE AuditInv'
  BY <1>9, <1>10 DEF Start, OpsSame
<1>11. ASSUME NEW c \in DOMAIN conns, Drop(c) /\ OpsSame /\ UNCHANGED job
       PROVE  AuditInv'
  BY <1>9, <1>11 DEF Drop, OpsSame
<1>12. QED
  BY <1>1, <1>2, <1>3, <1>5, <1>6, <1>7, <1>8, <1>10, <1>11 DEF Next, Executes

(* AuditComplete: until a process dies or two write the audit file at once,  *)
(* the file holds the newest responses in order whenever nobody writes it,   *)
(* whatever its limit and however long it has run (log_operation).           *)
THEOREM AuditCompleteHolds == Spec => []AuditComplete
<1>1. Init => AuditInv
  <2> SUFFICES ASSUME Init PROVE AuditInv
    OBVIOUS
  <2>1. made = 0 /\ audit = <<>> /\ Jobbed /\ \A t \in Tasks : ~WritesAudit(t)
    BY NoCallIsCall DEF Init, SshInit, Jobbed, Fields, WritesAudit
  <2>2. Min({0, MaxAudit}) = 0
    BY AuditAssumption, MinOfTwo
  <2>3. LastOf(0) = <<>>
    <3>1. PICK n \in Nat : n = 0
      OBVIOUS
    <3>2. LastOf(n) \in Seq(Int) /\ Len(LastOf(n)) = n
      <4>1. LastOf(n) = [k \in 1..n |-> n - n + k]
        BY <2>2, <3>1, Zenon DEF LastOf
      <4>2. QED
        BY <4>1
    <3>3. QED
      BY <3>1, <3>2
  <2>4. QED
    BY <2>1, <2>3 DEF AuditInv, OneWriter, Whole, Pending
<1>2. Types /\ AuditInv /\ [Next]_vars => AuditInv'
  <2>1. UNCHANGED vars /\ AuditInv => AuditInv'
    BY DEF vars, sshVars, AuditInv, AuditCalm, Jobbed, OneWriter, Whole, Pending, Reads,
       WritesAudit
  <2>2. QED
    BY <2>1, AuditStep
<1>3. AuditInv => AuditComplete
  BY DEF AuditInv, AuditCalm, Whole, LastOf, AuditComplete
<1>4. QED
  BY <1>1, <1>2, <1>3, TypesHold, PTL DEF Spec

-----------------------------------------------------------------------------
(***************************************************************************)
(* The pool.  Until it is closed, a connection is in its host's list       *)
(* exactly when it calls itself connected; of one host at most one is, and *)
(* none while one is dialled for, which a single task does.  What else     *)
(* has a link was refused for its key.                                     *)
(***************************************************************************)
NoClose == mishaps["close"] = 0

Dialling(t) == call[t].step \in {"dial", "save"}
Using(t)    == call[t].step \in {"have", "run", "snap", "cut"}
Beyond(t)   == call[t].step \in {"close", "shut", "raised"} \* once one was closed

NoneBeyond == \A t \in Tasks : ~Beyond(t)
FlagTells == \A c \in DOMAIN conns : /\ conns[c].flag <=> conns[c].pooled
                                     /\ conns[c].flag => conns[c].link # "none"
Fresh(t)  == /\ Conn(t).link = "none" /\ ~Conn(t).flag /\ call[t].pooling
             /\ Conn(t).host \in pools[Home[t]]
AllFresh  == \A t \in Tasks : Dialling(t) => Fresh(t)
OneDialler == \A t, u \in Tasks :
    Dialling(t) /\ Dialling(u) /\ Home[t] = Home[u] /\ Conn(t).host = Conn(u).host => t = u
Linked(c, p, h) == conns[c].flag /\ conns[c].proc = p /\ conns[c].host = h
NoneYet   == \A t \in Tasks : Dialling(t) =>
    \A c \in DOMAIN conns : ~Linked(c, Home[t], Conn(t).host)
OneLinked == \A c, d \in DOMAIN conns :
    conns[c].flag /\ Linked(d, conns[c].proc, conns[c].host) => c = d
UsesLink  == \A t \in Tasks : Using(t) => Conn(t).flag
Strays    == {c \in DOMAIN conns : conns[c].link # "none" /\ ~conns[c].flag}
StraysFew == Cardinality(Strays) <= refused

Links == /\ NoneBeyond /\ FlagTells /\ AllFresh /\ OneDialler /\ NoneYet /\ OneLinked
         /\ UsesLink /\ StraysFew
LinkInv == NoClose => Links

\* As long as they are linked at most to what they were.
Kept(c) == /\ conns'[c].proc = conns[c].proc /\ conns'[c].host = conns[c].host
           /\ conns'[c].flag = conns[c].flag /\ conns'[c].pooled = conns[c].pooled
           /\ conns'[c].link = "none" <=> conns[c].link = "none"
Lost(c) == conns'[c].link = "none" /\ ~conns'[c].flag /\ ~conns'[c].pooled

LEMMA StraysFinite ==
  ASSUME Types
  PROVE  IsFiniteSet(Strays) /\ Cardinality(Strays) \in Nat
<1>1. PICK n \in Nat : DOMAIN conns = 1..n
  BY Len(conns) \in Nat DEF Types, Calls
<1>2. IsFiniteSet(DOMAIN conns)
  BY <1>1, FS_Interval
<1>3. Strays \subseteq DOMAIN conns
  BY DEF Strays
<1>4. QED
  BY <1>2, <1>3, FS_Subset, FS_CardinalityType

LEMMA FewerStrays ==
  ASSUME Types, StraysFew, Strays' \subseteq Strays, refused' = refused
  PROVE  StraysFew'
<1>1. /\ IsFiniteSet(Strays') /\ Cardinality(Strays') \in Nat
      /\ Cardinality(Strays') <= Cardinality(Strays)
  BY StraysFinite, FS_Subset, FS_CardinalityType
<1>2. Cardinality(Strays)' = Cardinality(Strays')
  OBVIOUS
<1>3. QED
  BY <1>1, <1>2, StraysFinite DEF StraysFew, Types, Stores

LEMMA StraysAndOne ==
  ASSUME Types, NEW c
  PROVE  /\ IsFiniteSet(Strays \cup {c}) /\ Cardinality(Strays \cup {c}) \in Nat
         /\ Cardinality(Strays \cup {c}) <= Cardinality(Strays) + 1
  BY StraysFinite, FS_AddElement, FS_CardinalityType

LEMMA OneStrayMore ==
  ASSUME Types, StraysFew, NEW c, Strays' \subseteq Strays \cup {c}, refused' = refused + 1
  PROVE  StraysFew'
<1>1. /\ IsFiniteSet(Strays \cup {c})
      /\ Cardinality(Strays \cup {c}) <= Cardinality(Strays) + 1
      /\ Cardinality(Strays \cup {c}) \in Nat
  BY StraysAndOne
<1>2. Cardinality(Strays') \in Nat /\ Cardinality(Strays') <= Cardinality(Strays \cup {c})
  BY <1>1, FS_Subset, FS_CardinalityType
<1>3. Cardinality(Strays)' = Cardinality(Strays')
  OBVIOUS
<1>4. QED
  BY <1>1, <1>2, <1>3, StraysFinite DEF StraysFew, Types, Stores

\* Steps that link nothing: a task ends, goes on, or has a connection that
\* stands.
LEMMA LinkFrame ==
  ASSUME Types, Links, refused' = refused, DOMAIN conns' = DOMAIN conns,
         \A c \in DOMAIN conns : Kept(c) \/ Lost(c),
         \A t \in Tasks :
           \/ ~Dialling(t)' /\ ~Using(t)' /\ ~Beyond(t)'
           \/ /\ Dialling(t)' /\ Dialling(t) /\ call'[t].conn = call[t].conn
              /\ call'[t].pooling = call[t].pooling
              /\ Kept(call[t].conn) /\ pools[Home[t]] \subseteq pools'[Home[t]]
           \/ /\ Using(t)' /\ call'[t].conn \in DOMAIN conns
              /\ conns'[call'[t].conn].flag
  PROVE  Links'
<1>1. ASSUME NEW t \in Tasks, Dialling(t)'
      PROVE  /\ Dialling(t) /\ call'[t].conn = call[t].conn
             /\ call'[t].pooling = call[t].pooling
             /\ Kept(call[t].conn) /\ pools[Home[t]] \subseteq pools'[Home[t]]
             /\ call[t].conn \in DOMAIN conns /\ Fresh(t)
             /\ Conn(t)' = conns'[call[t].conn] /\ Conn(t)'.host = Conn(t).host
  <2>1. Dialling(t) /\ Kept(call[t].conn)
    BY <1>1 DEF Dialling, Using, Beyond
  <2>2. call[t].conn \in DOMAIN conns /\ Fresh(t)
    BY <2>1, ConnOf DEF Links, AllFresh, Types, Dialling, HasConn
  <2>3. QED
    BY <1>1, <2>1, <2>2 DEF Dialling, Using, Beyond, Conn, Kept
<1>2. ASSUME NEW c \in DOMAIN conns, conns'[c].flag PROVE Kept(c) /\ conns[c].flag
  BY <1>2 DEF Kept, Lost
<1>3. NoneBeyond'
  BY DEF Links, NoneBeyond, Dialling, Using, Beyond
<1>4. FlagTells'
  BY DEF Links, FlagTells, Kept, Lost
<1>5. AllFresh'
  BY <1>1 DEF AllFresh, Fresh, Kept, Conn
<1>6. OneDialler'
  BY <1>1 DEF Links, OneDialler
<1>7. NoneYet'
  <2> SUFFICES ASSUME NEW t \in Tasks, Dialling(t)', NEW c \in DOMAIN conns,
                      Linked(c, Home[t], Conn(t).host)'
               PROVE  FALSE
    BY DEF NoneYet
  <2>1. Dialling(t) /\ Conn(t)'.host = Conn(t).host
    BY <1>1
  <2>2. Linked(c, Home[t], Conn(t).host)
    BY <1>2, <2>1 DEF Linked, Kept
  <2>3. QED
    BY <2>1, <2>2 DEF Links, NoneYet
<1>8. OneLinked'
  BY <1>2 DEF Links, OneLinked, Linked, Kept
<1>9. UsesLink'
  BY DEF UsesLink, Dialling, Using, Beyond, Conn
<1>10. StraysFew'
  <2>1. Strays' \subseteq Strays
    BY DEF Strays, Kept, Lost
  <2>2. QED
    BY <2>1, FewerStrays DEF Links
<1>11. QED
  BY <1>3, <1>4, <1>5, <1>6, <1>7, <1>8, <1>9, <1>10 DEF Links

\* A task dials for a new connection.
LEMMA LinkDials ==
  ASSUME Types, Links, NEW t \in Tasks, NEW h \in Hosts, NEW policy \in Policies,
         Get(t, h, policy), Takes(t, "dial", Len(conns) + 1),
         conns' = Append(conns, NewConnection(Home[t], h, policy)),
         {c \in Pooled(Home[t]) : conns[c].host = h /\ IsConnected(c)} = {}
  PROVE  Links'
<1> DEFINE p == Home[t]
           new == NewConnection(p, h, policy)
           c == Len(conns) + 1
<1>1. /\ conns \in Seq(Connection) /\ call \in [Tasks -> Call] /\ p \in Procs
      /\ pools \in [Procs -> SUBSET Hosts]
  BY HomeAssumption DEF Types, Calls, Stores
<1>2. /\ new.proc = p /\ new.host = h /\ new.link = "none" /\ ~new.flag /\ ~new.pooled
      /\ new \in Connection
  BY <1>1 DEF NewConnection, Connection
<1> HIDE DEF new
<1>3. /\ \A x \in DOMAIN conns : x # c /\ conns'[x] = conns[x]
      /\ DOMAIN conns' = DOMAIN conns \cup {c} /\ conns'[c] = new
  BY <1>1, <1>2 DEF new
<1> HIDE DEF c
<1>4. /\ \A u \in Tasks : u # t => call'[u] = call[u]
      /\ call'[t].step = "dial" /\ call'[t].conn = c /\ call'[t].pooling
  <2> DEFINE to == [call[t] EXCEPT !.step = "dial", !.conn = c, !.pooling = TRUE]
  <2>1. call' = [call EXCEPT ![t] = to]
    BY <1>1 DEF Takes, c
  <2>2. to.step = "dial" /\ to.conn = c /\ to.pooling
    BY <1>1 DEF Call
  <2> HIDE DEF to
  <2>3. QED
    BY <1>1, <2>1, <2>2
<1>5. /\ h \in pools'[p] /\ \A q \in Procs : pools[q] \subseteq pools'[q]
      /\ refused' = refused /\ ~Locked(p, h)
  BY <1>1 DEF Get
<1>6. \A x \in DOMAIN conns : ~Linked(x, p, h)
  BY DEF Linked, Pooled, Made, IsConnected, Links, FlagTells
<1>7. ASSUME NEW u \in Tasks, u # t, Dialling(u)'
      PROVE  /\ Dialling(u) /\ Fresh(u) /\ call[u].conn \in DOMAIN conns
             /\ Conn(u)' = Conn(u) /\ call'[u] = call[u]
             /\ ~(Home[u] = p /\ Conn(u).host = h) /\ Home[u] \in Procs
  <2>1. Dialling(u) /\ Fresh(u) /\ call[u].conn \in DOMAIN conns /\ call'[u] = call[u]
        /\ Home[u] \in Procs
    BY <1>4, <1>7, ConnOf DEF Dialling, Links, AllFresh, HasConn, Types
  <2>2. Conn(u)' = Conn(u)
    BY <1>3, <2>1 DEF Conn
  <2>3. ~(Home[u] = p /\ Conn(u).host = h)
    BY <1>5, <2>1 DEF Locked, Fresh, Dialling
  <2>4. QED
    BY <2>1, <2>2, <2>3
<1>8. /\ Conn(t)' = new /\ Conn(t)'.host = h
  BY <1>2, <1>3, <1>4 DEF Conn
<1>9. NoneBeyond'
  BY <1>4 DEF Links, NoneBeyond, Beyond
<1>10. FlagTells'
  BY <1>2, <1>3 DEF Links, FlagTells
<1>11. AllFresh'
  BY <1>2, <1>4, <1>5, <1>7, <1>8 DEF AllFresh, Fresh
<1>12. OneDialler'
  BY <1>7, <1>8 DEF Links, OneDialler
<1>13. NoneYet'
  <2>1. \A x \in DOMAIN conns' : \A q, i : Linked(x, q, i)' => x \in DOMAIN conns /\ Linked(x, q, i)
    BY <1>2, <1>3 DEF Linked
  <2>2. QED
    BY <1>6, <1>7, <1>8, <2>1 DEF Links, NoneYet
<1>14. OneLinked'
  BY <1>2, <1>3 DEF Links, OneLinked, Linked
<1>15. UsesLink'
  <2> SUFFICES ASSUME NEW u \in Tasks, Using(u)' PROVE Conn(u)'.flag
    BY DEF UsesLink
  <2>1. u # t /\ call'[u] = call[u] /\ Using(u)
    BY <1>4 DEF Using
  <2>2. call[u].conn \in DOMAIN conns
    BY <2>1, ConnOf DEF Using, HasConn, Types
  <2>3. QED
    BY <1>3, <2>1, <2>2 DEF Links, UsesLink, Conn
<1>16. StraysFew'
  <2>1. Strays' \subseteq Strays
    BY <1>2, <1>3 DEF Strays
  <2>2. QED
    BY <1>5, <2>1, FewerStrays DEF Links
<1>17. QED
  BY <1>9, <1>10, <1>11, <1>12, <1>13, <1>14, <1>15, <1>16 DEF Links

\* A task that dialled has its connection stand, or is refused: others dial
\* for connections of their own.
LEMMA LinkDialled ==
  ASSUME Types, Links, NEW t \in Tasks, Dialling(t), NEW new \in Connection,
         conns' = [conns EXCEPT ![call[t].conn] = new], UNCHANGED pools,
         new.proc = Home[t], new.host = Conn(t).host, new.link # "none",
         new.flag <=> new.pooled,
         \A u \in Tasks : u # t => call'[u] = call[u],
         \/ /\ new.flag /\ refused' = refused
            /\ call'[t].step = "have" /\ call'[t].conn = call[t].conn
         \/ ~new.flag /\ refused' = refused + 1 /\ call'[t].step = "idle"
  PROVE  Links'
<1> DEFINE c == call[t].conn
           h == Conn(t).host
<1>1. /\ conns \in Seq(Connection) /\ c \in DOMAIN conns /\ Conn(t).proc = Home[t]
      /\ DOMAIN conns' = DOMAIN conns /\ Conn(t) = conns[c]
  BY ConnOf DEF Types, Calls, Dialling, HasConn, Conn
<1>2. conns'[c] = new /\ \A x \in DOMAIN conns : x # c => conns'[x] = conns[x]
  BY <1>1
<1>3. Fresh(t) /\ \A x \in DOMAIN conns : ~Linked(x, Home[t], h)
  BY DEF Links, AllFresh, NoneYet
<1>4. ~Dialling(t)' /\ ~Beyond(t)' /\ (Using(t)' => call'[t].conn = c /\ new.flag)
  BY DEF Dialling, Beyond, Using
<1>5. ASSUME NEW u \in Tasks, Dialling(u)'
      PROVE  /\ u # t /\ Dialling(u) /\ Fresh(u) /\ call'[u] = call[u]
             /\ Conn(u)' = Conn(u) /\ ~(Home[u] = Home[t] /\ Conn(u).host = h)
  <2>1. u # t /\ call'[u] = call[u] /\ Dialling(u)
    BY <1>4, <1>5 DEF Dialling
  <2>2. /\ Fresh(u) /\ ~(Home[u] = Home[t] /\ Conn(u).host = h)
        /\ call[u].conn \in DOMAIN conns /\ Conn(u).proc = Home[u]
    BY <2>1, ConnOf DEF Links, AllFresh, OneDialler, Types, Dialling, HasConn
  <2>3. call[u].conn # c
    BY <1>1, <2>2 DEF Conn
  <2>4. QED
    BY <1>2, <2>1, <2>2, <2>3 DEF Conn
<1>6. NoneBeyond'
  BY <1>4 DEF Links, NoneBeyond, Beyond
<1>7. FlagTells'
  BY <1>1, <1>2 DEF Links, FlagTells
<1>8. AllFresh'
  BY <1>5 DEF AllFresh, Fresh
<1>9. OneDialler'
  BY <1>5 DEF Links, OneDialler
<1>10. NoneYet'
  <2>1. \A x \in DOMAIN conns : \A q, i : Linked(x, q, i)' =>
            Linked(x, q, i) \/ (q = Home[t] /\ i = h)
    BY <1>2 DEF Linked
  <2>2. QED
    BY <1>1, <1>5, <2>1 DEF Links, NoneYet
<1>11. OneLinked'
  BY <1>1, <1>2, <1>3 DEF Links, OneLinked, Linked
<1>12. UsesLink'
  <2> SUFFICES ASSUME NEW u \in Tasks, Using(u)' PROVE Conn(u)'.flag
    BY DEF UsesLink
  <2>1. CASE u = t
    BY <1>2, <1>4, <2>1 DEF Conn
  <2>2. CASE u # t
    <3>1. Using(u) /\ call'[u] = call[u]
      BY <2>2 DEF Using
    <3>2. call[u].conn \in DOMAIN conns /\ Conn(u).flag
      BY <3>1, ConnOf DEF Using, HasConn, Types, Links, UsesLink
    <3>3. call[u].conn # c
      BY <1>1, <1>3, <3>2 DEF Conn, Fresh
    <3>4. QED
      BY <1>2, <3>1, <3>2, <3>3 DEF Conn
  <2>3. QED
    BY <2>1, <2>2
<1>13. StraysFew'
  <2>1. Strays' \subseteq Strays \cup {c} /\ (new.flag => Strays' \subseteq Strays)
    BY <1>1, <1>2 DEF Strays
  <2>2. QED
    BY <2>1, FewerStrays, OneStrayMore DEF Links
<1>14. QED
  BY <1>6, <1>7, <1>8, <1>9, <1>10, <1>11, <1>12, <1>13 DEF Links

\* What a task does that dials for nothing and links nothing.
LEMMA LinkQuiet ==
  ASSUME Types, Links, NEW t \in Tasks, UNCHANGED <<conns, refused>>,
         \A u \in Tasks : u # t => call'[u] = call[u],
         \A q \in Procs : pools[q] \subseteq pools'[q],
         \/ call'[t].step = "idle"
         \/ /\ Dialling(t)' /\ Dialling(t) /\ call'[t].conn = call[t].conn
            /\ call'[t].pooling = call[t].pooling
         \/ /\ Using(t)' /\ call'[t].conn \in DOMAIN conns
            /\ conns[call'[t].conn].flag
  PROVE  Links'
<1>1. \A c \in DOMAIN conns : Kept(c)
  BY DEF Kept
<1>2. ASSUME NEW u \in Tasks
      PROVE \/ ~Dialling(u)' /\ ~Using(u)' /\ ~Beyond(u)'
            \/ /\ Dialling(u)' /\ Dialling(u) /\ call'[u].conn = call[u].conn
               /\ call'[u].pooling = call[u].pooling
               /\ Kept(call[u].conn) /\ pools[Home[u]] \subseteq pools'[Home[u]]
            \/ /\ Using(u)' /\ call'[u].conn \in DOMAIN conns
               /\ conns'[call'[u].conn].flag
  <2>1. Dialling(u) \/ Using(u) => call[u].conn \in DOMAIN conns
    BY ConnOf DEF Dialling, Using, HasConn, Types
  <2>2. pools[Home[u]] \subseteq pools'[Home[u]]
    BY HomeAssumption
  <2>3. CASE u = t
    <3>1. call'[t].step = "idle" =>
            ~Dialling(t)' /\ ~Using(t)' /\ ~Beyond(t)'
      BY DEF Dialling, Using, Beyond
    <3>2. QED
      BY <1>1, <2>1, <2>2, <2>3, <3>1
  <2>4. CASE u # t
    <3>1. call'[u] = call[u] /\ ~Beyond(u)
      BY <2>4 DEF Links, NoneBeyond
    <3>2. Using(u) => conns[call[u].conn].flag
      BY DEF Links, UsesLink, Conn
    <3>3. QED
      BY <1>1, <2>1, <2>2, <3>1, <3>2 DEF Dialling, Using, Beyond
  <2>5. QED
    BY <2>3, <2>4
<1>3. QED
  BY <1>1, <1>2, LinkFrame

LEMMA LinkGets ==
  ASSUME Types, Links, NEW t \in Tasks, NEW h \in Hosts, NEW policy \in Policies,
         Get(t, h, policy), \A u \in Tasks : u # t => call'[u] = call[u]
  PROVE  Links'
<1> DEFINE p     == Home[t]
           ready == {c \in Pooled(p) : conns[c].host = h /\ IsConnected(c)}
<1>1. conns \in Seq(Connection) /\ call[t] \in Call /\ call \in [Tasks -> Call]
      /\ p \in Procs /\ pools \in [Procs -> SUBSET Hosts]
  BY HomeAssumption DEF Types, Calls, Stores
<1>2. CASE ready # {} /\ Takes(t, "have", Min(ready)) /\ UNCHANGED conns
  <2>1. ready \subseteq Nat /\ \A c \in ready : c \in DOMAIN conns /\ conns[c].flag
    BY <1>1 DEF Pooled, Made, IsConnected
  <2> DEFINE c == Min(ready)
  <2>2. c \in ready
    <3> HIDE DEF ready
    <3> QED
      BY <1>2, <2>1, MinIsLeast
  <2> DEFINE to == [call[t] EXCEPT !.step = "have", !.conn = c, !.pooling = TRUE]
  <2>3. call' = [call EXCEPT ![t] = to]
    BY <1>2 DEF Takes
  <2>4. to.step = "have" /\ to.conn = c
    BY <1>1 DEF Call
  <2>5. c \in DOMAIN conns /\ conns[c].flag
    BY <2>1, <2>2
  <2>6. \A q \in Procs : pools[q] \subseteq pools'[q]
    BY <1>1 DEF Get
  <2> HIDE DEF ready, c, to
  <2>7. call'[t].step = "have" /\ call'[t].conn = c
    BY <1>1, <2>3, <2>4
  <2>8. Using(t)'
    BY <2>7 DEF Using
  <2>9. UNCHANGED <<conns, refused>>
    BY <1>2 DEF Get
  <2>10. QED
    BY <2>5, <2>6, <2>7, <2>8, <2>9, LinkQuiet
<1>3. CASE ready = {} /\ conns' = Append(conns, NewConnection(p, h, policy))
           /\ Takes(t, "dial", Len(conns) + 1)
  BY <1>3, LinkDials
<1>4. QED
  BY <1>2, <1>3 DEF Get

LEMMA LinkStands ==
  ASSUME Types, Links, NEW t \in Tasks, Dialling(t), Stands(t), UNCHANGED <<pools, refused>>,
         \A u \in Tasks : u # t => call'[u] = call[u]
  PROVE  Links'
<1> DEFINE c   == call[t].conn
           new == [conns[c] EXCEPT !.link = "up", !.flag = TRUE, !.pooled = TRUE]
<1>1. /\ c \in DOMAIN conns /\ conns[c] \in Connection /\ conns[c].proc = Home[t]
      /\ Conn(t) = conns[c] /\ call[t] \in Call /\ call \in [Tasks -> Call]
      /\ conns \in Seq(Connection)
  BY ConnOf DEF Dialling, HasConn, Types, Calls, Conn
<1>2. call[t].pooling /\ conns[c].host \in pools[Home[t]]
  BY <1>1 DEF Links, AllFresh, Fresh
<1>3. conns' = [conns EXCEPT ![c] = new] /\ Goes(t, "have")
  BY <1>1, <1>2 DEF Stands
<1>4. /\ new \in Connection /\ new.proc = Home[t] /\ new.host = Conn(t).host
      /\ new.link # "none" /\ new.flag /\ new.pooled
  BY <1>1 DEF Connection
<1> HIDE DEF new
<1>5. call'[t].step = "have" /\ call'[t].conn = call[t].conn
  BY <1>1, <1>3 DEF Goes, Call
<1>6. QED
  BY <1>3, <1>4, <1>5, LinkDialled

LEMMA LinkRefuse ==
  ASSUME Types, Links, NEW t \in Tasks, Dialling(t), Refuse(t), UNCHANGED pools,
         \A u \in Tasks : u # t => call'[u] = call[u]
  PROVE  Links'
<1> DEFINE c   == call[t].conn
           new == [conns[c] EXCEPT !.link = "up"]
<1>1. /\ c \in DOMAIN conns /\ conns[c] \in Connection /\ conns[c].proc = Home[t]
      /\ Conn(t) = conns[c] /\ call[t] \in Call /\ call \in [Tasks -> Call]
      /\ conns \in Seq(Connection)
  BY ConnOf DEF Dialling, HasConn, Types, Calls, Conn
<1>2. call[t].pooling /\ ~conns[c].flag /\ ~conns[c].pooled
  BY <1>1 DEF Links, AllFresh, Fresh, FlagTells
<1>3. conns' = [conns EXCEPT ![c] = new] /\ call' = [call EXCEPT ![t] = NoCall]
      /\ refused' = refused + 1
  BY <1>1, <1>2 DEF Refuse, Raises
<1>4. /\ new \in Connection /\ new.proc = Home[t] /\ new.host = Conn(t).host
      /\ new.link # "none" /\ ~new.flag /\ ~new.pooled
  BY <1>1, <1>2 DEF Connection
<1> HIDE DEF new
<1>5. call'[t].step = "idle"
  BY <1>1, <1>3, NoCallIsCall
<1>6. QED
  BY <1>3, <1>4, <1>5, LinkDialled

LEMMA LinkStep ==
  ASSUME Types, Links, Next, NoClose'
  PROVE  Links'
<1>0. /\ call \in [Tasks -> Call] /\ pools \in [Procs -> SUBSET Hosts]
      /\ conns \in Seq(Connection) /\ mishaps \in [Mishap -> Nat]
      /\ \A t \in Tasks : call[t] \in Call /\ Home[t] \in Procs
  BY HomeAssumption DEF Types, Calls, Stores
<1>1. ASSUME NEW t \in Tasks, Connects(t) PROVE Links'
  <2>1. \A u \in Tasks : u # t => call'[u] = call[u]
    BY <1>1, OthersKept DEF Types
  <2>2. Dialling(t) /\ Fresh(t) /\ UNCHANGED pools
    BY <1>1 DEF Connects, Dial, Save, DialFails, At, Dialling, Links, AllFresh
  <2>3. ASSUME NEW key \in Keys, Dial(t, key) PROVE Links'
    <3>1. CASE Stands(t) /\ UNCHANGED refused
      BY <2>1, <2>2, <3>1, LinkStands
    <3>2. CASE Refuse(t)
      BY <2>1, <2>2, <3>2, LinkRefuse
    <3>3. CASE Goes(t, "save") /\ UNCHANGED <<conns, refused>>
      <4>1. /\ Dialling(t)' /\ call'[t].conn = call[t].conn
            /\ call'[t].pooling = call[t].pooling
        BY <1>0, <3>3 DEF Goes, Dialling, Call
      <4>2. QED
        BY <2>1, <2>2, <3>3, <4>1, LinkQuiet
    <3>4. QED
      BY <2>3, <3>1, <3>2, <3>3 DEF Dial
  <2>4. CASE Save(t)
    BY <2>1, <2>2, <2>4, LinkStands DEF Save
  <2>5. CASE DialFails(t)
    <3>1. call'[t].step = "idle" /\ UNCHANGED <<conns, refused>>
      BY <1>0, <2>2, <2>5, NoCallIsCall DEF DialFails, Raises, Fresh
    <3>2. QED
      BY <2>1, <2>2, <3>1, LinkQuiet
  <2>6. QED
    BY <1>1, <2>3, <2>4, <2>5 DEF Connects
<1>2. ASSUME NEW t \in Tasks, Executes(t) PROVE Links'
  <2>1. \A u \in Tasks : u # t => call'[u] = call[u]
    BY <1>2, OthersKept DEF Types
  <2>2. CASE Begin(t)
    BY <2>1, <2>2, LinkGets DEF Begin
  <2>3. CASE IssueAfterDial(t)
    <3>1. Using(t) /\ ~IsConnected(call[t].conn)
      BY <2>3 DEF IssueAfterDial, Redial, At, Using
    <3>2. call[t].conn \in DOMAIN conns
      BY <3>1, ConnOf DEF Using, HasConn, Types
    <3>3. FALSE
      BY <3>1, <3>2 DEF Links, UsesLink, FlagTells, IsConnected, Conn
    <3>4. QED
      BY <3>3
  <2>4. ASSUME UNCHANGED <<conns, refused, pools>>,
               \/ call' = [call EXCEPT ![t] = NoCall]
               \/ \E s \in {"run", "snap", "cut", "have"} : Goes(t, s) /\ Using(t)
               \/ UNCHANGED call /\ Using(t)
        PROVE  Links'
    <3>1. CASE call' = [call EXCEPT ![t] = NoCall]
      BY <1>0, <2>1, <2>4, <3>1, NoCallIsCall, LinkQuiet
    <3>2. CASE Using(t) /\ (UNCHANGED call \/ \E s \in {"run", "snap", "cut", "have"} : Goes(t, s))
      <4>1. Using(t)' /\ call'[t].conn = call[t].conn
        BY <1>0, <3>2 DEF Goes, Using, Call
      <4>2. call[t].conn \in DOMAIN conns /\ conns[call[t].conn].flag
        BY <3>2, ConnOf DEF Using, HasConn, Types, Links, UsesLink, Conn
      <4>3. QED
        BY <2>1, <2>4, <4>1, <4>2, LinkQuiet
    <3>3. QED
      BY <2>4, <3>1, <3>2
  <2>5. CASE Bring(t) \/ Turned(t) \/ Denied(t) \/ Issue(t)
    BY <2>4, <2>5 DEF Bring, Turned, Denied, Issue, Ready, At, Respond, SshSame, sshVars,
       Using
  <2>6. CASE RunEnds(t) \/ RunFails(t)
    BY <2>4, <2>6 DEF RunEnds, RunFails, Answered, At, Respond, SshSame, Using, Links,
       NoneBeyond, Beyond
  <2>7. CASE Cut(t) \/ Fill(t)
    BY <2>4, <2>7 DEF Cut, Fill, At, SshSame, Using
  <2>8. QED
    BY <1>2, <2>2, <2>3, <2>5, <2>6, <2>7 DEF Executes
<1>3. ASSUME NEW t \in Tasks, Closes(t) PROVE Links'
  <2>1. CASE Close(t)
    BY <1>0, <2>1 DEF Close, Counts, NoClose, Mishap
  <2>2. CASE ~Close(t)
    BY <1>3, <2>2 DEF Closes, Shut, ShutEnds, NextHost, CloseDies, Clear, At, Beyond,
       Links, NoneBeyond
  <2>3. QED
    BY <2>1, <2>2
<1>4. ASSUME NEW p \in Procs, Ends(p) PROVE Links'
  <2>1. /\ conns' = [c \in DOMAIN conns |-> IF conns[c].proc = p THEN Dead ELSE conns[c]]
        /\ call' = [t \in Tasks |-> IF Home[t] = p THEN NoCall ELSE call[t]]
        /\ pools' = [pools EXCEPT ![p] = {}] /\ refused' = refused
    BY <1>4 DEF Ends, Gone
  <2>2. \A c \in DOMAIN conns : /\ conns[c].proc # p => Kept(c)
                                /\ conns[c].proc = p => Lost(c)
    BY <2>1 DEF Kept, Lost, Dead
  <2>3. DOMAIN conns' = DOMAIN conns
    BY <2>1
  <2>4. ASSUME NEW u \in Tasks
        PROVE \/ ~Dialling(u)' /\ ~Using(u)' /\ ~Beyond(u)'
              \/ /\ Dialling(u)' /\ Dialling(u) /\ call'[u].conn = call[u].conn
                 /\ call'[u].pooling = call[u].pooling
                 /\ Kept(call[u].conn) /\ pools[Home[u]] \subseteq pools'[Home[u]]
              \/ /\ Using(u)' /\ call'[u].conn \in DOMAIN conns
                 /\ conns'[call'[u].conn].flag
    <3>1. CASE Home[u] = p
      BY <2>1, <3>1, NoCallIsCall DEF Dialling, Using, Beyond
    <3>2. CASE Home[u] # p
      <4>1. call'[u] = call[u] /\ pools'[Home[u]] = pools[Home[u]] /\ ~Beyond(u)
        BY <1>0, <2>1, <3>2 DEF Links, NoneBeyond
      <4>2. Dialling(u) \/ Using(u) =>
              call[u].conn \in DOMAIN conns /\ Kept(call[u].conn)
        BY <2>2, <3>2, ConnOf DEF Dialling, Using, HasConn, Types, Conn
      <4>3. Using(u) => conns'[call[u].conn].flag
        BY <4>2 DEF Links, UsesLink, Conn, Kept
      <4>4. QED
        BY <4>1, <4>2, <4>3 DEF Dialling, Using, Beyond
    <3>3. QED
      BY <3>1, <3>2
  <2>5. QED
    BY <2>1, <2>2, <2>3, <2>4, LinkFrame
<1>5. ASSUME UNCHANGED <<call, pools, refused>>, DOMAIN conns' = DOMAIN conns,
             \A c \in DOMAIN conns : Kept(c)
      PROVE  Links'
  <2>1. ASSUME NEW u \in Tasks
        PROVE \/ ~Dialling(u)' /\ ~Using(u)' /\ ~Beyond(u)'
              \/ /\ Dialling(u)' /\ Dialling(u) /\ call'[u].conn = call[u].conn
                 /\ call'[u].pooling = call[u].pooling
                 /\ Kept(call[u].conn) /\ pools[Home[u]] \subseteq pools'[Home[u]]
              \/ /\ Using(u)' /\ call'[u].conn \in DOMAIN conns
                 /\ conns'[call'[u].conn].flag
    <3>1. Dialling(u) \/ Using(u) => call[u].conn \in DOMAIN conns
      BY ConnOf DEF Dialling, Using, HasConn, Types
    <3>2. ~Beyond(u) /\ (Using(u) => conns'[call[u].conn].flag)
      BY <1>5, <3>1 DEF Links, NoneBeyond, UsesLink, Conn, Kept
    <3>3. QED
      BY <1>5, <3>1, <3>2 DEF Dialling, Using, Beyond
  <2>2. QED
    BY <1>5, <2>1, LinkFrame
<1>6. ASSUME NEW p \in Procs, Start(p) PROVE Links'
  BY <1>5, <1>6 DEF Start, Kept
<1>7. ASSUME NEW c \in DOMAIN conns, Drop(c) PROVE Links'
  <2>1. DOMAIN conns' = DOMAIN conns /\ conns[c] \in Connection
    BY <1>0, <1>7 DEF Drop
  <2>2. \A x \in DOMAIN conns : Kept(x)
    BY <1>0, <1>7, <2>1 DEF Drop, Kept, Connection
  <2>3. QED
    BY <1>5, <1>7, <2>1, <2>2 DEF Drop
<1>8. QED
  BY <1>1, <1>2, <1>3, <1>4, <1>6, <1>7 DEF Next

(* OneLinkPerHost: whatever tasks of a process ask for at once, and however  *)
(* links drop and processes come and go, a process has one link to a host    *)
(* besides those it refused for their key, until its pool is closed          *)
(* (get_connection, connect).                                                *)
THEOREM OneLinkPerHostHolds == Spec => []OneLinkPerHost
<1>1. Init => LinkInv
  <2> SUFFICES ASSUME Init PROVE Links
    BY DEF LinkInv
  <2>1. conns = <<>> /\ refused = 0 /\ \A t \in Tasks : call[t].step = "idle"
    BY NoCallIsCall DEF Init, SshInit
  <2>2. Strays = {}
    BY <2>1 DEF Strays
  <2>3. StraysFew
    BY <2>1, <2>2, FS_EmptySet DEF StraysFew
  <2>4. QED
    BY <2>1, <2>3 DEF Links, NoneBeyond, FlagTells, AllFresh, OneDialler, NoneYet, OneLinked,
       UsesLink, Dialling, Using, Beyond
<1>2. Types /\ LinkInv /\ [Next]_vars => LinkInv'
  <2>1. UNCHANGED vars /\ LinkInv => LinkInv'
    BY DEF vars, sshVars, LinkInv, NoClose, Links, NoneBeyond, FlagTells, AllFresh, Fresh,
       OneDialler, NoneYet, OneLinked, Linked, UsesLink, StraysFew, Strays, Dialling,
       Using, Beyond, Conn
  <2>2. Types /\ Next /\ NoClose' => NoClose
    BY MishapsGrow DEF NoClose, Mishap, Types, Stores
  <2>3. QED
    BY <2>1, <2>2, LinkStep DEF LinkInv
<1>3. Types /\ LinkInv => OneLinkPerHost
  <2> SUFFICES ASSUME Types, Links, NEW p \in Procs, NEW h \in Hosts
               PROVE  Cardinality({c \in Made(p) : conns[c].host = h
                                                 /\ conns[c].link # "none"}) <= 1 + refused
    BY DEF LinkInv, NoClose, OneLinkPerHost
  <2> DEFINE held == {c \in Made(p) : conns[c].host = h /\ conns[c].link # "none"}
  <2>1. \E d : held \subseteq Strays \cup {d}
    <3>1. \A c, d \in held : c \in Strays \/ d \in Strays \/ c = d
      BY DEF Made, Links, OneLinked, Linked, Strays
    <3>2. QED
      BY <3>1
  <2>2. PICK d : held \subseteq Strays \cup {d}
    BY <2>1
  <2>3. /\ IsFiniteSet(Strays \cup {d}) /\ Cardinality(Strays \cup {d}) \in Nat
        /\ Cardinality(Strays \cup {d}) <= Cardinality(Strays) + 1
    BY StraysAndOne
  <2> HIDE DEF held
  <2>4. Cardinality(held) \in Nat /\ Cardinality(held) <= Cardinality(Strays \cup {d})
    BY <2>2, <2>3, FS_Subset, FS_CardinalityType
  <2>5. Cardinality(held) <= 1 + refused
    BY <2>3, <2>4, StraysFinite DEF Links, StraysFew, Types, Stores
  <2>6. QED
    BY <2>5 DEF held
<1>4. QED
  BY <1>1, <1>2, <1>3, TypesHold, PTL DEF Spec

-----------------------------------------------------------------------------
(***************************************************************************)
(* The composition.                                                        *)
(***************************************************************************)
BadgeProofs == INSTANCE EnrollmentProofs WITH
  Procs <- Clerks, job <- enrolling, keys <- pairs, crashes <- deaths,
  MaxKeys <- MaxPairs, MaxMishaps <- MaxMixups
SafeProofs == INSTANCE VaultProofs WITH
  Procs <- Clerks, job <- writing, keys <- masters, MaxKeys <- MaxMasters

\* What the vault does here is what VaultProofs speaks of.
LEMMA SafeSpec == PartsSpec => SafeProofs!Spec
<1> USE DEF Safe!files, SafeProofs!files, Safe!memory, SafeProofs!memory, Safe!hist,
            SafeProofs!hist, Safe!vars, SafeProofs!vars, Safe!Keyless, SafeProofs!Keyless,
            Safe!Garbled, SafeProofs!Garbled, Safe!GoodKeys, SafeProofs!GoodKeys, Safe!Idle,
            SafeProofs!Idle, Safe!NoPhrase, SafeProofs!NoPhrase, Safe!AbsentMaster,
            SafeProofs!AbsentMaster, Safe!TornMaster, SafeProofs!TornMaster,
            Safe!AbsentCred, SafeProofs!AbsentCred, Safe!TornCred, SafeProofs!TornCred,
            Safe!Init, SafeProofs!Init, Safe!Free, SafeProofs!Free, Safe!IsInitialized,
            SafeProofs!IsInitialized, Safe!IsUnlocked, SafeProofs!IsUnlocked, Safe!Writing,
            SafeProofs!Writing, Safe!GetCredential, SafeProofs!GetCredential, Safe!Shows,
            SafeProofs!Shows, Safe!MasterJob, SafeProofs!MasterJob, Safe!Initialize,
            SafeProofs!Initialize, Safe!OpenMaster, SafeProofs!OpenMaster, Safe!FillMaster,
            SafeProofs!FillMaster, Safe!Opens, SafeProofs!Opens, Safe!Unlock,
            SafeProofs!Unlock, Safe!FillSession, SafeProofs!FillSession, Safe!Lock,
            SafeProofs!Lock, Safe!Expire, SafeProofs!Expire, Safe!Enter, SafeProofs!Enter,
            Safe!Quit, SafeProofs!Quit, Safe!CredJob, SafeProofs!CredJob, Safe!Store,
            SafeProofs!Store, Safe!Update, SafeProofs!Update, Safe!Delete,
            SafeProofs!Delete, Safe!OpenCred, SafeProofs!OpenCred, Safe!FillCred,
            SafeProofs!FillCred, Safe!ChangeRefused, SafeProofs!ChangeRefused,
            Safe!ChangePassphrase, SafeProofs!ChangePassphrase, Safe!Crash,
            SafeProofs!Crash, Safe!Next, SafeProofs!Next
<1>1. PartsInit => SafeProofs!Init
  BY DEF PartsInit
<1>2. Safe!Next => SafeProofs!Next
  OBVIOUS
<1>3. [PartsNext]_<<part, vars, badge, safe, install>> => [SafeProofs!Next]_SafeProofs!vars
  BY <1>2 DEF PartsNext, safe
<1>4. QED
  BY <1>1, <1>3, PTL DEF PartsSpec, SafeProofs!Spec

(* CredentialsReadable: while the passphrase is not changed and the vault  *)
(* is set up once, what the vault stored it reads (vault.py).              *)
THEOREM CredentialsReadableHolds == PartsSpec => []CredentialsReadable
<1>1. SafeProofs!CredentialsReadable => CredentialsReadable
  BY DEF CredentialsReadable, Safe!CredentialsReadable, SafeProofs!CredentialsReadable, Safe!CutShort,
     SafeProofs!CutShort, Safe!Cardinality, SafeProofs!Cardinality, Safe!IsFiniteSet,
     SafeProofs!IsFiniteSet, Safe!Writing, SafeProofs!Writing, Safe!GetCredential,
     SafeProofs!GetCredential, Safe!Free, SafeProofs!Free, Safe!Idle, SafeProofs!Idle
<1>2. SafeProofs!Spec => []SafeProofs!CredentialsReadable
  BY SafeProofs!CredentialsReadableHolds
<1>3. QED
  BY <1>1, <1>2, SafeSpec, PTL

\* What enrolling does here is what EnrollmentProofs speaks of.
LEMMA BadgeSpec == PartsSpec => BadgeProofs!Spec
<1> USE DEF Badge!hist, BadgeProofs!hist, Badge!vars, BadgeProofs!vars, Badge!NoPair,
            BadgeProofs!NoPair, Badge!Dirs, BadgeProofs!Dirs, Badge!NoCandidate,
            BadgeProofs!NoCandidate, Badge!Idle, BadgeProofs!Idle, Badge!NoCopies,
            BadgeProofs!NoCopies, Badge!Hired, BadgeProofs!Hired, Badge!Active,
            BadgeProofs!Active, Badge!Manifest, BadgeProofs!Manifest, Badge!NoManifest,
            BadgeProofs!NoManifest, Badge!Init, BadgeProofs!Init, Badge!Free,
            BadgeProofs!Free, Badge!AtDesk, BadgeProofs!AtDesk, Badge!Mishaps,
            BadgeProofs!Mishaps, Badge!Enrolled, BadgeProofs!Enrolled, Badge!NextTag,
            BadgeProofs!NextTag, Badge!Roll, BadgeProofs!Roll, Badge!Rechristen,
            BadgeProofs!Rechristen, Badge!Drop, BadgeProofs!Drop, Badge!Hire,
            BadgeProofs!Hire, Badge!Retire, BadgeProofs!Retire, Badge!Rename,
            BadgeProofs!Rename, Badge!LookUp, BadgeProofs!LookUp, Badge!Backfill,
            BadgeProofs!Backfill, Badge!VaultDir, BadgeProofs!VaultDir, Badge!Begins,
            BadgeProofs!Begins, Badge!Without, BadgeProofs!Without, Badge!Claim,
            BadgeProofs!Claim, Badge!Refuse, BadgeProofs!Refuse, Badge!Generate,
            BadgeProofs!Generate, Badge!GenerateFails, BadgeProofs!GenerateFails,
            Badge!OpenManifest, BadgeProofs!OpenManifest, Badge!FillManifest,
            BadgeProofs!FillManifest, Badge!Record, BadgeProofs!Record, Badge!Crash,
            BadgeProofs!Crash, Badge!Recruit, BadgeProofs!Recruit, Badge!Enroll,
            BadgeProofs!Enroll, Badge!Next, BadgeProofs!Next, Badge!Max, BadgeProofs!Max,
            Badge!Restrict, BadgeProofs!Restrict
<1>1. PartsInit => BadgeProofs!Init
  BY DEF PartsInit
<1>2. Badge!Next => BadgeProofs!Next
  OBVIOUS
<1>3. [PartsNext]_<<part, vars, badge, safe, install>> => [BadgeProofs!Next]_BadgeProofs!vars
  BY <1>2 DEF PartsNext, badge
<1>4. QED
  BY <1>1, <1>3, PTL DEF PartsSpec, BadgeProofs!Spec

(* BadgesBacked: a badge on record is backed by the key and the manifest   *)
(* of its directory, whatever dies or overlaps (identity.py, enroll).      *)
THEOREM BadgesBackedHolds == PartsSpec => []BadgesBacked
<1>1. BadgeProofs!BadgesBacked => BadgesBacked
  BY DEF BadgesBacked, Badge!BadgesBacked, BadgeProofs!BadgesBacked, Badge!Hired, BadgeProofs!Hired,
     Badge!Enrolled, BadgeProofs!Enrolled, Badge!Manifest, BadgeProofs!Manifest,
     Badge!NoPair, BadgeProofs!NoPair
<1>2. BadgeProofs!Spec => []BadgeProofs!BadgesBacked
  BY BadgeProofs!BadgesBackedHolds
<1>3. QED
  BY <1>1, <1>2, BadgeSpec, PTL

(* TagsDistinct: two agents on the roster share a tag only if one was a    *)
(* candidate when the other was hired (generator.py, next_tag).            *)
THEOREM TagsDistinctHolds == PartsSpec => []TagsDistinct
<1>1. BadgeProofs!TagsDistinct => TagsDistinct
  BY DEF TagsDistinct, Badge!TagsDistinct, BadgeProofs!TagsDistinct, Badge!Active, BadgeProofs!Active,
     Badge!Hired, BadgeProofs!Hired
<1>2. BadgeProofs!Spec => []BadgeProofs!TagsDistinct
  BY BadgeProofs!TagsDistinctHolds
<1>3. QED
  BY <1>1, <1>2, BadgeSpec, PTL

(* OrphansExplained: pairs nobody's record claims come one for one from    *)
(* deaths, changes of name and attempts that overlap (identity.py).        *)
THEOREM OrphansExplainedHolds == PartsSpec => []OrphansExplained
<1>1. BadgeProofs!OrphansExplained => OrphansExplained
  BY DEF OrphansExplained, Badge!OrphansExplained, BadgeProofs!OrphansExplained, Badge!Orphans,
     BadgeProofs!Orphans, Badge!Hired, BadgeProofs!Hired, Badge!Dirs, BadgeProofs!Dirs, Badge!Free,
     BadgeProofs!Free, Badge!Idle, BadgeProofs!Idle, Badge!NoPair, BadgeProofs!NoPair,
     Badge!Cardinality, BadgeProofs!Cardinality, Badge!IsFiniteSet, BadgeProofs!IsFiniteSet
<1>2. BadgeProofs!NobodyAssumption
  BY BadgeAssumption DEF Badge!NobodyAssumption, BadgeProofs!NobodyAssumption
<1>3. BadgeProofs!Spec => []BadgeProofs!OrphansExplained
  BY <1>2, BadgeProofs!OrphansExplainedHolds
<1>4. QED
  BY <1>1, <1>3, BadgeSpec, PTL

(* KeyKept: an agent that keeps its name and is enrolled by one process at *)
(* a time keeps its first key (identity.py, enroll).                       *)
THEOREM KeyKeptHolds == PartsSpec => KeyKept
<1>1. BadgeProofs!Spec => BadgeProofs!KeyKept
  BY BadgeProofs!KeyKeptHolds
<1>2. BadgeProofs!KeyKept => KeyKept
  BY PTL DEF KeyKept, Badge!KeyKept, BadgeProofs!KeyKept, Badge!Hired, BadgeProofs!Hired, Badge!Enrolled,
     BadgeProofs!Enrolled, Badge!NoPair, BadgeProofs!NoPair, Badge!vars, BadgeProofs!vars,
     Badge!hist, BadgeProofs!hist
<1>3. QED
  BY <1>1, <1>2, BadgeSpec, PTL

(* The theorems above, of the composition: no other part touches what       *)
(* remote operations keep (ssh.py, protocol.py).                           *)
THEOREM RemoteHoldsInParts ==
  PartsSpec => [](FirstKeyKept /\ AuditComplete /\ OneLinkPerHost)
<1>1. PartsInit => Init
  BY DEF PartsInit
<1>2. [PartsNext]_<<part, vars, badge, safe, install>> => [Next]_vars
  BY DEF PartsNext
<1>3. PartsSpec => Spec
  BY <1>1, <1>2, PTL DEF PartsSpec, Spec
<1>4. QED
  BY <1>3, FirstKeyKeptHolds, AuditCompleteHolds, OneLinkPerHostHolds, PTL

-----------------------------------------------------------------------------
(***************************************************************************)
(* LitterExplained: an inductive invariant of Instances, about the         *)
(* variables of the composition.                                           *)
(***************************************************************************)

\* At most so many.
Few(X, m) == IsFiniteSet(X) /\ Cardinality(X) <= m

LEMMA FewLess ==
  ASSUME NEW X, NEW Y, X \subseteq Y, NEW k \in Nat, NEW m \in Nat, k <= m, Few(Y, k)
  PROVE  Few(X, m)
<1>1. IsFiniteSet(X) /\ Cardinality(X) <= Cardinality(Y)
  BY FS_Subset DEF Few
<1>2. Cardinality(X) \in Nat /\ Cardinality(Y) \in Nat
  BY <1>1, FS_CardinalityType DEF Few
<1>3. QED
  BY <1>1, <1>2 DEF Few

LEMMA FewMore ==
  ASSUME NEW X, NEW Y, NEW s, X \subseteq Y \union {s}, NEW k \in Nat, Few(Y, k)
  PROVE  Few(X, k + 1)
<1>1. Cardinality(Y) \in Nat
  BY FS_CardinalityType DEF Few
<1>2. IsFiniteSet(Y \union {s}) /\ Cardinality(Y \union {s}) <= Cardinality(Y) + 1
  BY <1>1, FS_AddElement DEF Few
<1>3. Cardinality(Y \union {s}) \in Nat
  BY <1>2, FS_CardinalityType
<1>4. Few(Y \union {s}, k + 1)
  BY <1>1, <1>2, <1>3 DEF Few
<1>5. QED
  BY <1>4, FewLess

LEMMA FewBut ==
  ASSUME NEW Y, NEW s \in Y, NEW k \in Nat, Few(Y, k + 1)
  PROVE  Few(Y \ {s}, k)
<1>1. Cardinality(Y) \in Nat
  BY FS_CardinalityType DEF Few
<1>2. IsFiniteSet(Y \ {s}) /\ Cardinality(Y \ {s}) = Cardinality(Y) - 1
  BY <1>1, FS_RemoveElement DEF Few
<1>3. QED
  BY <1>1, <1>2 DEF Few

\* No more than what they are charged to.
Charged(X, Y, to) == \A x \in X : \E y \in Y : to[y] = x

LEMMA FewCharged ==
  ASSUME NEW X, NEW Y, NEW to, Charged(X, Y, to), NEW k \in Nat, Few(Y, k)
  PROVE  Few(X, k)
<1> DEFINE im == [e \in Y |-> to[e]]
           T == {im[e] : e \in Y}
<1>1. im \in Surjection(Y, T)
  BY DEF Surjection
<1>2. IsFiniteSet(T) /\ Cardinality(T) <= Cardinality(Y)
  BY <1>1, FS_Surjection DEF Few
<1>3. Cardinality(T) \in Nat /\ Cardinality(Y) \in Nat
  BY <1>2, FS_CardinalityType DEF Few
<1>4. Few(T, k)
  BY <1>2, <1>3 DEF Few
<1>5. X \subseteq T
  BY DEF Charged
<1> HIDE DEF T
<1>6. QED
  BY <1>4, <1>5, FewLess

\* What a command is in the middle of, and what it holds meanwhile.
WriteSteps == {"clear", "build", "pip", "save"}
InstallSteps == WriteSteps \union {"mirror", "rmtree", "rmdir", "delete", "look", "record"}
ReceiptType == [name : Names, loc : Places, groups : SUBSET Groups,
                status : {"unknown", "broken", "degraded", "ok"}]
JobType == [step : InstallSteps, id : Install!Ids \union {Install!NoId}, to : ReceiptType]
DirType == [state : {"absent", "bare", "venv"}, python : BOOLEAN, groups : SUBSET Groups,
            mirror : Install!Ids \union {Install!NoId}]

InstallTypes ==
  /\ dirs \in [Places -> DirType]
  /\ \A l \in Places : dirs[l].state = "absent" => ~dirs[l].python
  /\ Install!Kept \subseteq Install!Ids /\ receipts \in [Install!Kept -> ReceiptType]
  /\ doing \in [Clerks -> JobType \union {Install!Idle}]
  /\ \A w \in Clerks : doing[w].step = "record" => doing[w].id # Install!NoId
  /\ faults \in Nat /\ races \in Nat /\ moves \in Nat

\* A command that will write a receipt, unless the one it is to replace is
\* gone: then it fails where it would write.
Building(w) == doing[w].step \in WriteSteps
Recording(w) == doing[w].step = "record"
Clearing(w) == doing[w].step \in {"rmtree", "rmdir"}
Doomed(w) == /\ Building(w) \/ Recording(w)
             /\ doing[w].id # Install!NoId /\ doing[w].id \notin Install!Kept

\* A directory a receipt mentions; at which a receipt is about to be written;
\* that is about to be removed; that a failure will leave without a receipt.
Mentioned(l) == \E r \in Install!Kept : receipts[r].loc = l
Tended(l) == \E w \in Clerks : (Building(w) \/ Recording(w)) /\ ~Doomed(w) /\ doing[w].to.loc = l
Cleared(l) == \E w \in Clerks : Clearing(w) /\ doing[w].to.loc = l
Forsaken(l) == \E w \in Clerks : Building(w) /\ Doomed(w) /\ doing[w].to.loc = l
Venv(l) == dirs[l].state = "venv"

\* An environment whose removal stopped half way.
Cracked(l) == /\ Venv(l) /\ ~dirs[l].python
              /\ ~ \E w \in Clerks : doing[w].step = "rmdir" /\ doing[w].to.loc = l
Bereft(l) == Venv(l) /\ ~Mentioned(l) /\ ~Tended(l) /\ ~Cleared(l)
Exposed(l) == Forsaken(l) \/ Cracked(l) \/ Bereft(l)

\* What must be paid for: a directory exposed, a command that may yet expose
\* one.
Working(w) == doing[w].step \notin {"idle", "mirror"} /\ ~Doomed(w)
Debts == {<<"at", l>> : l \in {l \in Places : Exposed(l)}} \union
         {<<"by", w>> : w \in {w \in Clerks : Working(w)}}
Paid == faults + races + moves

\* A command that will not, left alone, expose a directory nobody paid for.
Aligned(w) == doing[w].id \in Install!Kept /\ receipts[doing[w].id].loc = doing[w].to.loc
Doubled(w) == \E r \in Install!Kept : r # doing[w].id /\ receipts[r].loc = doing[w].to.loc
SafeRmdir(l) == ~dirs[l].python \/ Mentioned(l) \/ Tended(l) \/ Forsaken(l)
SafeDelete(l) == ~Venv(l) \/ Tended(l) \/ Cleared(l) \/ Exposed(l)
Harmless(w) ==
  LET unmentioned == doing[w].id \notin Install!Kept IN
  \/ Building(w) /\ (doing[w].id = Install!NoId \/ Aligned(w))
  \/ Recording(w) /\ Aligned(w)
  \/ doing[w].step = "look"
  \/ doing[w].step = "rmtree" /\ (Aligned(w) \/ unmentioned)
  \/ doing[w].step = "rmdir" /\ (Aligned(w) \/ (unmentioned /\ SafeRmdir(doing[w].to.loc)))
  \/ /\ doing[w].step = "delete"
     /\ unmentioned \/ (Aligned(w) /\ (Doubled(w) \/ SafeDelete(doing[w].to.loc)))

\* Mishaps pay for all debts, but for one while a harmless command is at work.
Solvent ==
  \/ Few(Debts, Paid)
  \/ Few(Debts, Paid + 1) /\ \E w \in Clerks : Working(w) /\ Harmless(w)

\* What a step leaves to be paid for is charged to what was there before.
\* A harmless command stays so, or one of the old debts is not needed.
Forgiven(X, Y, to) == \E e \in Y : Charged(X, Y \ {e}, to)

LEMMA SolventStep ==
  ASSUME Solvent, Paid \in Nat, Paid' \in Nat, Paid <= Paid',
         NEW to, Charged(Debts', Debts, to),
         \A w \in Clerks : Working(w) /\ Harmless(w) =>
           \/ Working(w)' /\ Harmless(w)'
           \/ Paid + 1 <= Paid'
           \/ Forgiven(Debts', Debts, to)
  PROVE  Solvent'
<1> DEFINE k == Paid
           m == Paid'
           D == Debts
           DD == Debts'
<1>0. k \in Nat /\ m \in Nat /\ k + 1 \in Nat /\ m + 1 \in Nat /\ k <= m /\ k + 1 <= m + 1
  <2> HIDE DEF k, m
  <2>1. k \in Nat /\ m \in Nat /\ k <= m
    BY DEF k, m
  <2>2. QED
    BY <2>1
<1>1. CASE Few(Debts, Paid)
  <2>1. Few(DD, k)
    BY <1>0, <1>1, FewCharged
  <2>2. Few(DD, m)
    <3> HIDE DEF k, m, DD
    <3>1. QED
      BY <1>0, <2>1, FewLess
  <2>3. QED
    BY <2>2 DEF Solvent
<1>2. CASE Few(Debts, Paid + 1) /\ \E w \in Clerks : Working(w) /\ Harmless(w)
  <2>1. Few(DD, k + 1)
    BY <1>0, <1>2, FewCharged
  <2>2. PICK w \in Clerks : Working(w) /\ Harmless(w)
    BY <1>2
  <2>3. CASE Working(w)' /\ Harmless(w)'
    <3>1. Few(DD, m + 1)
      <4> HIDE DEF k, m, DD
      <4>1. QED
        BY <1>0, <2>1, FewLess
    <3>2. QED
      BY <2>3, <3>1 DEF Solvent
  <2>4. CASE Paid + 1 <= Paid'
    <3>1. k + 1 <= m
      BY <2>4
    <3>2. Few(DD, m)
      <4> HIDE DEF k, m, DD
      <4>1. QED
        BY <1>0, <2>1, <3>1, FewLess
    <3>3. QED
      BY <3>2 DEF Solvent
  <2>5. CASE Forgiven(Debts', Debts, to)
    <3>1. PICK e \in D : Charged(DD, D \ {e}, to)
      BY <2>5 DEF Forgiven
    <3>2. Few(D \ {e}, k)
      <4>1. Few(D, k + 1)
        BY <1>2
      <4> HIDE DEF k, m, D
      <4>2. QED
        BY <1>0, <4>1, FewBut
    <3>3. Few(DD, m)
      <4> HIDE DEF k, m, D, DD
      <4>1. Few(DD, k)
        BY <1>0, <3>1, <3>2, FewCharged
      <4>2. QED
        BY <1>0, <4>1, FewLess
    <3>4. QED
      BY <3>3 DEF Solvent
  <2>6. QED
    BY <2>2, <2>3, <2>4, <2>5
<1>3. QED
  BY <1>1, <1>2 DEF Solvent

\* Nothing new is to be paid for.
LEMMA SolventSame ==
  ASSUME Solvent, Paid \in Nat, Paid' \in Nat, Paid <= Paid', Debts' \subseteq Debts,
         \A w \in Clerks : Working(w) /\ Harmless(w) =>
           \/ Working(w)' /\ Harmless(w)'
           \/ Paid + 1 <= Paid'
           \/ Debts' # Debts
  PROVE  Solvent'
<1> DEFINE to == [e \in Debts |-> e]
<1>1. Charged(Debts', Debts, to)
  BY DEF Charged
<1>2. ASSUME Debts' # Debts PROVE Forgiven(Debts', Debts, to)
  <2>1. PICK e \in Debts : e \notin Debts'
    BY <1>2
  <2>2. Charged(Debts', Debts \ {e}, to)
    BY <2>1 DEF Charged
  <2>3. QED
    BY <2>2 DEF Forgiven
<1> HIDE DEF to
<1>3. \A w \in Clerks : Working(w) /\ Harmless(w) =>
           \/ Working(w)' /\ Harmless(w)'
           \/ Paid + 1 <= Paid'
           \/ Forgiven(Debts', Debts, to)
  BY <1>2
<1>4. QED
  BY <1>1, <1>3, SolventStep

\* One debt stands for another.
LEMMA SolventSwap ==
  ASSUME Solvent, Paid \in Nat, Paid' \in Nat, Paid <= Paid',
         NEW x, NEW y \in Debts, Debts' \subseteq (Debts \ {y}) \union {x},
         \A w \in Clerks : Working(w) /\ Harmless(w) =>
           \/ Working(w)' /\ Harmless(w)'
           \/ Paid + 1 <= Paid'
           \/ Debts' \subseteq Debts \ {y}
  PROVE  Solvent'
<1> DEFINE to == [e \in Debts |-> IF e = y THEN x ELSE e]
<1>1. Charged(Debts', Debts, to)
  BY DEF Charged
<1>2. ASSUME Debts' \subseteq Debts \ {y} PROVE Forgiven(Debts', Debts, to)
  <2>1. Charged(Debts', Debts \ {y}, to)
    BY <1>2 DEF Charged
  <2>2. QED
    BY <2>1 DEF Forgiven
<1> HIDE DEF to
<1>3. \A w \in Clerks : Working(w) /\ Harmless(w) =>
           \/ Working(w)' /\ Harmless(w)'
           \/ Paid + 1 <= Paid'
           \/ Forgiven(Debts', Debts, to)
  BY <1>2
<1>4. QED
  BY <1>1, <1>3, SolventStep

\* One more debt, for one more mishap, or for a harmless command that begins
\* alone.
LEMMA SolventMore ==
  ASSUME Solvent, Paid \in Nat, Paid' \in Nat, Paid + 1 <= Paid', NEW x,
         Debts' \subseteq Debts \union {x},
         \A w \in Clerks : Working(w) /\ Harmless(w) => Working(w)' /\ Harmless(w)'
  PROVE  Solvent'
<1> DEFINE k == Paid
           m == Paid'
           DD == Debts'
<1>0. k \in Nat /\ m \in Nat /\ k + 1 \in Nat /\ m + 1 \in Nat /\ k + 1 <= m /\ (k + 1) + 1 <= m + 1
      /\ (k + 1) + 1 \in Nat
  <2> HIDE DEF k, m
  <2>1. k \in Nat /\ m \in Nat /\ k + 1 <= m
    BY DEF k, m
  <2>2. QED
    BY <2>1
<1>1. CASE Few(Debts, Paid)
  <2>1. Few(DD, k + 1)
    BY <1>0, <1>1, FewMore
  <2>2. Few(DD, m)
    <3> HIDE DEF k, m, DD
    <3>1. QED
      BY <1>0, <2>1, FewLess
  <2>3. QED
    BY <2>2 DEF Solvent
<1>2. CASE Few(Debts, Paid + 1) /\ \E w \in Clerks : Working(w) /\ Harmless(w)
  <2>1. Few(DD, (k + 1) + 1)
    BY <1>0, <1>2, FewMore
  <2>2. Few(DD, m + 1)
    <3> HIDE DEF k, m, DD
    <3>1. QED
      BY <1>0, <2>1, FewLess
  <2>3. QED
    BY <1>2, <2>2 DEF Solvent
<1>3. QED
  BY <1>1, <1>2 DEF Solvent

LEMMA SolventFirst ==
  ASSUME Solvent, Paid \in Nat, Paid' \in Nat, Paid <= Paid', NEW x,
         Debts' \subseteq Debts \union {x}, \A w \in Clerks : ~Working(w),
         (\E w \in Clerks : Working(w)' /\ Harmless(w)') \/ Paid + 1 <= Paid'
  PROVE  Solvent'
<1>1. CASE Paid + 1 <= Paid'
  BY <1>1, SolventMore
<1>2. CASE \E w \in Clerks : Working(w)' /\ Harmless(w)'
  <2> DEFINE k == Paid
             m == Paid'
             DD == Debts'
  <2>1. Few(DD, k + 1)
    BY FewMore DEF Solvent
  <2>2. Few(DD, m + 1)
    <3>1. k \in Nat /\ m \in Nat /\ k <= m
      BY DEF k, m
    <3> HIDE DEF k, m, DD
    <3>2. k + 1 \in Nat /\ m + 1 \in Nat /\ k + 1 <= m + 1
      BY <3>1
    <3>3. QED
      BY <2>1, <3>2, FewLess
  <2>3. QED
    BY <1>2, <2>2 DEF Solvent
<1>3. QED
  BY <1>1, <1>2

LEMMA PaidGrows ==
  ASSUME InstallTypes, faults' \in Nat, races' \in Nat, moves' \in Nat,
         faults <= faults', races <= races', moves <= moves'
  PROVE  /\ Paid \in Nat /\ Paid' \in Nat /\ Paid <= Paid'
         /\ (faults + 1 <= faults' \/ races + 1 <= races' \/ moves + 1 <= moves') =>
              Paid + 1 <= Paid'
<1>1. \A a, b, c, d, e, ff \in Nat : a <= d /\ b <= e /\ c <= ff =>
        /\ a + b + c \in Nat /\ d + e + ff \in Nat /\ a + b + c <= d + e + ff
        /\ (a + 1 <= d \/ b + 1 <= e \/ c + 1 <= ff) => a + b + c + 1 <= d + e + ff
  OBVIOUS
<1>2. QED
  BY <1>1 DEF Paid, InstallTypes

LEMMA PaidSame ==
  ASSUME InstallTypes, UNCHANGED Install!hist
  PROVE  Paid \in Nat /\ Paid' \in Nat /\ Paid <= Paid'
  BY PaidGrows DEF InstallTypes, Install!hist

-----------------------------------------------------------------------------
\* What a step does to the commands.
LEMMA JobTurns ==
  ASSUME InstallTypes, NEW w \in Clerks, NEW to \in JobType \union {Install!Idle},
         doing' = [doing EXCEPT ![w] = to],
         to \in JobType /\ to.step = "record" => to.id # Install!NoId
  PROVE  /\ doing'[w] = to
         /\ \A v \in Clerks : v # w => doing'[v] = doing[v]
         /\ doing' \in [Clerks -> JobType \union {Install!Idle}]
         /\ \A v \in Clerks : doing'[v].step = "record" => doing'[v].id # Install!NoId
<1>1. /\ doing'[w] = to
      /\ \A v \in Clerks : v # w => doing'[v] = doing[v]
      /\ doing' \in [Clerks -> JobType \union {Install!Idle}]
  BY DEF InstallTypes
<1>2. Install!Idle.step = "idle"
  BY DEF Install!Idle
<1>3. ASSUME NEW v \in Clerks, doing'[v].step = "record" PROVE doing'[v].id # Install!NoId
  <2>1. CASE v # w
    BY <1>1, <1>3, <2>1 DEF InstallTypes
  <2>2. CASE v = w
    <3>1. to.step = "record"
      BY <1>1, <1>3, <2>2
    <3>2. to \in JobType
      BY <1>2, <3>1
    <3>3. QED
      BY <1>1, <2>2, <3>1, <3>2
  <2>3. QED
    BY <2>1, <2>2
<1>4. QED
  BY <1>1, <1>3

\* It is busy, at a step that is not the first.
LEMMA JobFieldsAre ==
  ASSUME InstallTypes, NEW w \in Clerks, doing[w].step # "idle"
  PROVE  /\ doing[w] \in JobType /\ doing[w].step \in InstallSteps
         /\ doing[w].id \in Install!Ids \union {Install!NoId}
         /\ doing[w].to \in ReceiptType /\ doing[w].to.loc \in Places
         /\ doing[w] # Install!Idle
<1>1. doing[w] # Install!Idle
  BY DEF Install!Idle
<1>2. doing[w] \in JobType
  BY <1>1 DEF InstallTypes
<1>3. QED
  BY <1>1, <1>2 DEF JobType, ReceiptType

LEMMA JobGoes ==
  ASSUME InstallTypes, NEW w \in Clerks, doing[w].step # "idle", NEW s \in InstallSteps,
         s # "record", Install!Goes(w, s)
  PROVE  /\ doing'[w].step = s /\ doing'[w].id = doing[w].id /\ doing'[w].to = doing[w].to
         /\ \A v \in Clerks : v # w => doing'[v] = doing[v]
         /\ doing' \in [Clerks -> JobType \union {Install!Idle}]
         /\ \A v \in Clerks : doing'[v].step = "record" => doing'[v].id # Install!NoId
<1> DEFINE to == [doing[w] EXCEPT !.step = s]
<1>1. doing[w] \in JobType
  BY JobFieldsAre
<1>2. to \in JobType /\ to.step = s /\ to.id = doing[w].id /\ to.to = doing[w].to
  BY <1>1 DEF JobType
<1>3. doing' = [doing EXCEPT ![w] = to]
  BY DEF Install!Goes
<1> HIDE DEF to
<1>4. to \in JobType \union {Install!Idle} /\ to.step # "record"
  BY <1>2
<1>5. QED
  BY <1>2, <1>3, <1>4, JobTurns

LEMMA JobEnds ==
  ASSUME InstallTypes, NEW w \in Clerks, Install!Ends(w)
  PROVE  /\ doing'[w] = Install!Idle /\ doing'[w].step = "idle"
         /\ \A v \in Clerks : v # w => doing'[v] = doing[v]
         /\ doing' \in [Clerks -> JobType \union {Install!Idle}]
         /\ \A v \in Clerks : doing'[v].step = "record" => doing'[v].id # Install!NoId
<1>1. Install!Idle.step = "idle" /\ Install!Idle \in JobType \union {Install!Idle}
  BY DEF Install!Idle
<1>2. doing' = [doing EXCEPT ![w] = Install!Idle]
  BY DEF Install!Ends
<1>3. QED
  BY <1>1, <1>2, JobTurns

\* The command of a name's first receipt.
LEMMA FindKept ==
  ASSUME InstallTypes, NEW m \in Names, Install!Find(m) # Install!NoId
  PROVE  Install!Find(m) \in Install!Kept
<1>1. Install!Named(m) \in SUBSET Nat /\ Install!Named(m) # {}
      /\ Install!Named(m) \subseteq Install!Kept
  <2>1. Install!Ids \subseteq Nat
    BY InstallAssumption DEF Install!IdsAssumption, Install!Ids
  <2>2. Install!Named(m) \subseteq Install!Kept /\ Install!Kept \subseteq Nat
    BY <2>1 DEF InstallTypes, Install!Named
  <2>3. QED
    BY <2>2 DEF Install!Find
<1>2. Install!Min(Install!Named(m)) = Min(Install!Named(m))
  BY DEF Install!Min, Min
<1>3. QED
  BY <1>1, <1>2, MinIsLeast DEF Install!Find

LEMMA NoIdIsNone ==
  ASSUME InstallTypes
  PROVE  Install!NoId \notin Install!Kept /\ Install!NoId \notin Install!Ids
  BY DEF InstallTypes, Install!Ids, Install!NoId

\* A receipt is stored.
LEMMA StoredIs ==
  ASSUME InstallTypes, NEW r \in Install!Ids, NEW to \in ReceiptType,
         receipts' = Install!Store(r, to)
  PROVE  /\ Install!Kept' = Install!Kept \union {r} /\ Install!Kept' \subseteq Install!Ids
         /\ receipts' \in [Install!Kept' -> ReceiptType]
         /\ receipts'[r] = to
         /\ \A u \in Install!Kept : u # r => receipts'[u] = receipts[u]
  BY DEF InstallTypes, Install!Store, Install!Kept

\* A directory changes.
LEMMA DirTurns ==
  ASSUME InstallTypes, NEW l \in Places, NEW to \in DirType,
         to.state = "absent" => ~to.python, dirs' = [dirs EXCEPT ![l] = to]
  PROVE  /\ dirs' \in [Places -> DirType]
         /\ \A m \in Places : dirs'[m].state = "absent" => ~dirs'[m].python
         /\ dirs'[l] = to /\ \A m \in Places : m # l => dirs'[m] = dirs[m]
  BY DEF InstallTypes

LEMMA DirIs ==
  ASSUME NEW s \in {"absent", "bare", "venv"}, NEW py \in BOOLEAN, NEW gs \in SUBSET Groups,
         NEW r \in Install!Ids \union {Install!NoId}
  PROVE  /\ Install!Dir(s, py, gs, r) \in DirType
         /\ Install!Dir(s, py, gs, r).state = s /\ Install!Dir(s, py, gs, r).python = py
  BY DEF Install!Dir, DirType

LEMMA DirFields ==
  ASSUME InstallTypes, NEW l \in Places
  PROVE  /\ dirs[l] \in DirType /\ dirs[l].state \in {"absent", "bare", "venv"}
         /\ dirs[l].python \in BOOLEAN /\ dirs[l].groups \in SUBSET Groups
         /\ dirs[l].mirror \in Install!Ids \union {Install!NoId}
  BY DEF InstallTypes, DirType

\* The states in which nothing is at work hold what they should.
LEMMA InstallTypesInit == Install!Init => InstallTypes
<1> SUFFICES ASSUME Install!Init PROVE InstallTypes
  OBVIOUS
<1>1. /\ Install!Absent \in DirType /\ ~Install!Absent.python
      /\ Install!Bare \in DirType /\ ~Install!Bare.python
  BY DEF Install!Absent, Install!Bare, Install!Dir, DirType
<1>2. /\ dirs \in [Places -> DirType]
      /\ \A l \in Places : dirs[l].state = "absent" => ~dirs[l].python
  BY <1>1 DEF Install!Init
<1>3. Install!Kept = {} /\ receipts \in [Install!Kept -> ReceiptType]
  BY DEF Install!Init, Install!Kept
<1>4. /\ doing \in [Clerks -> JobType \union {Install!Idle}]
      /\ \A w \in Clerks : doing[w].step = "record" => doing[w].id # Install!NoId
  BY DEF Install!Init, Install!Idle
<1>5. faults \in Nat /\ races \in Nat /\ moves \in Nat
  BY DEF Install!Init
<1>6. QED
  BY <1>2, <1>3, <1>4, <1>5 DEF InstallTypes

\* The parts of the type invariant that a step changes.
JobsOK ==
  /\ doing \in [Clerks -> JobType \union {Install!Idle}]
  /\ \A w \in Clerks : doing[w].step = "record" => doing[w].id # Install!NoId
DirsOK ==
  /\ dirs \in [Places -> DirType]
  /\ \A l \in Places : dirs[l].state = "absent" => ~dirs[l].python
KeptOK == Install!Kept \subseteq Install!Ids /\ receipts \in [Install!Kept -> ReceiptType]
PaidOK == faults \in Nat /\ races \in Nat /\ moves \in Nat

LEMMA InstallParts == InstallTypes <=> JobsOK /\ DirsOK /\ KeptOK /\ PaidOK
  BY DEF InstallTypes, JobsOK, DirsOK, KeptOK, PaidOK

\* A command begins.
LEMMA BeginsPaid ==
  ASSUME InstallTypes, NEW w \in Clerks, NEW b, Install!Begins(w, b)
  PROVE  /\ faults' = faults /\ races' \in Nat /\ races <= races'
         /\ doing[w] = Install!Idle /\ doing[w].step = "idle"
         /\ \/ races + 1 <= races'
            \/ \A v \in Clerks : v # w => doing[v] = Install!Idle
  BY DEF InstallTypes, Install!Begins, Install!Free, Install!Idle

LEMMA StartCreatePaid ==
  ASSUME InstallTypes, NEW w \in Clerks, NEW m \in Names, NEW l \in Places,
         NEW gs \in SUBSET Groups, NEW b \in BOOLEAN, Install!StartCreate(w, m, l, gs, b)
  PROVE  /\ faults' = faults /\ races' \in Nat /\ races <= races'
         /\ doing[w] = Install!Idle /\ doing[w].step = "idle"
         /\ \/ races + 1 <= races'
            \/ \A v \in Clerks : v # w => doing[v] = Install!Idle
         /\ moves' \in Nat /\ moves <= moves'
         /\ moves + 1 <= moves' \/ Install!Find(m) = Install!NoId
              \/ receipts[Install!Find(m)].loc = l
<1> DEFINE shared == \E r \in Install!Kept : receipts[r].loc = l /\ receipts[r].name # m
<1>1. Install!Begins(w, shared)
  BY DEF Install!StartCreate
<1> HIDE DEF shared
<1>2. /\ faults' = faults /\ races' \in Nat /\ races <= races'
      /\ doing[w] = Install!Idle /\ doing[w].step = "idle"
      /\ \/ races + 1 <= races'
         \/ \A v \in Clerks : v # w => doing[v] = Install!Idle
  BY <1>1, BeginsPaid
<1>3. /\ moves' \in Nat /\ moves <= moves'
      /\ moves + 1 <= moves' \/ Install!Find(m) = Install!NoId
           \/ receipts[Install!Find(m)].loc = l
  BY DEF InstallTypes, Install!StartCreate
<1>4. QED
  BY <1>2, <1>3

LEMMA StartCreateJob ==
  ASSUME InstallTypes, NEW w \in Clerks, NEW m \in Names, NEW l \in Places,
         NEW gs \in SUBSET Groups, NEW b \in BOOLEAN, Install!StartCreate(w, m, l, gs, b)
  PROVE  \E to \in JobType :
           /\ doing' = [doing EXCEPT ![w] = to] /\ to.step \in {"clear", "build"}
           /\ to.id = Install!Find(m) /\ to.to.loc = l
           /\ to.id = Install!NoId \/ to.id \in Install!Kept
<1> DEFINE s == IF b /\ Install!Exists(l) THEN "clear" ELSE "build"
           to == [step |-> s, id |-> Install!Find(m), to |-> Install!Receipt(m, l, gs)]
<1>1. doing' = [doing EXCEPT ![w] = to]
  BY DEF Install!StartCreate
<1>2. Install!Find(m) \in Install!Kept \/ Install!Find(m) = Install!NoId
  BY FindKept
<1>3. Install!Receipt(m, l, gs) \in ReceiptType /\ Install!Receipt(m, l, gs).loc = l
  BY DEF Install!Receipt, ReceiptType
<1>4. Install!Find(m) \in Install!Ids \union {Install!NoId}
  BY <1>2 DEF InstallTypes
<1>5. s \in {"clear", "build"} /\ s \in InstallSteps
  BY DEF InstallSteps, WriteSteps
<1> HIDE DEF s
<1>6. to \in JobType /\ to.step = s /\ to.id = Install!Find(m) /\ to.to.loc = l
  BY <1>3, <1>4, <1>5 DEF JobType
<1>7. QED
  BY <1>1, <1>2, <1>5, <1>6

LEMMA StartRemoveJob ==
  ASSUME InstallTypes, NEW w \in Clerks, NEW m \in Names, Install!StartRemove(w, m)
  PROVE  \E to \in JobType :
           /\ doing' = [doing EXCEPT ![w] = to] /\ to.step \in {"rmtree", "delete"}
           /\ to.id \in Install!Kept /\ to.to.loc = receipts[to.id].loc
           /\ to.step = "delete" => dirs[to.to.loc].state = "absent"
<1> DEFINE r == Install!Find(m)
           s == IF Install!Exists(receipts[r].loc) THEN "rmtree" ELSE "delete"
           to == [step |-> s, id |-> r, to |-> receipts[r]]
<1>1. doing' = [doing EXCEPT ![w] = to] /\ r # Install!NoId
  BY DEF Install!StartRemove
<1>2. r \in Install!Kept
  BY <1>1, FindKept
<1>3. r \in Install!Ids /\ receipts[r] \in ReceiptType
  BY <1>2 DEF InstallTypes
<1>4. /\ s \in {"rmtree", "delete"} /\ s \in InstallSteps
      /\ s = "delete" => dirs[receipts[r].loc].state = "absent"
  BY DEF InstallSteps, Install!Exists
<1> HIDE DEF s, r
<1>5. to \in JobType /\ to.step = s /\ to.id = r /\ to.to = receipts[r]
  BY <1>3, <1>4 DEF JobType
<1>6. QED
  BY <1>1, <1>2, <1>4, <1>5

\* A command looks at a receipt.
Looks(w, to) ==
  /\ to \in JobType /\ doing' = [doing EXCEPT ![w] = to]
  /\ to.id \in Install!Kept /\ to.to.loc = receipts[to.id].loc

LEMMA DoctorJob ==
  ASSUME InstallTypes, NEW w \in Clerks, NEW m \in Names, Install!Doctor(w, m)
  PROVE  \E to : Looks(w, to) /\ to.step = "look"
<1> DEFINE r == Install!Find(m)
           rec == [receipts[r] EXCEPT !.status = Install!Verdict(r)]
           to == [step |-> "look", id |-> r, to |-> rec]
<1>1. doing' = [doing EXCEPT ![w] = to] /\ r # Install!NoId
  BY DEF Install!Doctor
<1>2. r \in Install!Kept
  BY <1>1, FindKept
<1>3. r \in Install!Ids /\ receipts[r] \in ReceiptType
  BY <1>2 DEF InstallTypes
<1>4. Install!Verdict(r) \in {"broken", "degraded", "ok"}
  BY DEF Install!Verdict
<1>5. rec \in ReceiptType /\ rec.loc = receipts[r].loc
  BY <1>3, <1>4 DEF ReceiptType
<1> HIDE DEF rec, r
<1>6. to \in JobType /\ to.step = "look" /\ to.id = r /\ to.to = rec
  BY <1>3, <1>5 DEF JobType, InstallSteps
<1>7. QED
  BY <1>1, <1>2, <1>5, <1>6 DEF Looks

LEMMA RecordLookJob ==
  ASSUME InstallTypes, NEW w \in Clerks, Install!RecordLook(w)
  PROVE  \/ Install!Ends(w)
         \/ \E to : Looks(w, to) /\ to.step = "record"
<1> DEFINE m == doing[w].to.name
           r == Install!Find(m)
           rec == [receipts[r] EXCEPT !.status = doing[w].to.status]
           to == [step |-> "record", id |-> r, to |-> rec]
<1>1. doing[w].step = "look"
  BY DEF Install!RecordLook, Install!At
<1>2. doing[w].to \in ReceiptType
  BY <1>1, JobFieldsAre
<1>3. CASE r = Install!NoId
  BY <1>3 DEF Install!RecordLook
<1>4. CASE r # Install!NoId
  <2>1. doing' = [doing EXCEPT ![w] = to]
    BY <1>4 DEF Install!RecordLook
  <2>2. r \in Install!Kept
    BY <1>2, <1>4, FindKept DEF ReceiptType
  <2>3. r \in Install!Ids /\ receipts[r] \in ReceiptType
    BY <2>2 DEF InstallTypes
  <2>4. rec \in ReceiptType /\ rec.loc = receipts[r].loc
    BY <1>2, <2>3 DEF ReceiptType
  <2> HIDE DEF rec, r
  <2>5. to \in JobType /\ to.step = "record" /\ to.id = r /\ to.to = rec
    BY <2>3, <2>4 DEF JobType, InstallSteps
  <2>6. QED
    BY <2>1, <2>2, <2>4, <2>5 DEF Looks
<1>5. QED
  BY <1>3, <1>4

\* Types are kept.
LEMMA InstallTypesStep ==
  ASSUME InstallTypes, [Install!Next]_Install!vars
  PROVE  InstallTypes'
<1> USE DEF JobsOK, DirsOK, KeptOK, PaidOK
<1>0. JobsOK /\ DirsOK /\ KeptOK /\ PaidOK
  BY InstallParts
<1> SUFFICES JobsOK' /\ DirsOK' /\ KeptOK' /\ PaidOK'
  BY InstallParts, PTL
<1>1. CASE UNCHANGED Install!vars
  BY <1>0, <1>1 DEF Install!vars, Install!hist, Install!Kept
<1> SUFFICES ASSUME Install!Next PROVE JobsOK' /\ DirsOK' /\ KeptOK' /\ PaidOK'
  BY <1>1
<1>2. PICK w \in Clerks : \/ Install!Creating(w) \/ Install!Removing(w)
                          \/ Install!Examining(w) \/ Install!Crash(w)
  BY DEF Install!Next
<1>a. ASSUME UNCHANGED receipts PROVE KeptOK'
  BY <1>0, <1>a DEF Install!Kept
<1>b. ASSUME UNCHANGED Install!hist PROVE PaidOK'
  BY <1>0, <1>b DEF Install!hist
<1>c. ASSUME Install!Ends(w) PROVE JobsOK'
  BY <1>c, JobEnds
<1>d. ASSUME NEW to \in JobType, doing' = [doing EXCEPT ![w] = to],
             to.step = "record" => to.id # Install!NoId
      PROVE  JobsOK'
  BY <1>d, JobTurns
<1>e. ASSUME NEW s \in InstallSteps, s # "record", doing[w].step # "idle", Install!Goes(w, s)
      PROVE  JobsOK'
  BY <1>e, JobGoes
<1>f. ASSUME Install!Fault PROVE PaidOK'
  BY <1>0, <1>f DEF Install!Fault
<1>g. ASSUME UNCHANGED dirs PROVE DirsOK'
  BY <1>0, <1>g
<1>h. ASSUME NEW s \in {"absent", "bare", "venv"}, NEW py \in BOOLEAN, NEW gs \in SUBSET Groups,
             NEW r \in Install!Ids \union {Install!NoId}, s = "absent" => ~py,
             NEW l \in Places, dirs' = [dirs EXCEPT ![l] = Install!Dir(s, py, gs, r)]
      PROVE  DirsOK'
  BY <1>h, DirIs, DirTurns
<1>i. ASSUME doing[w].step # "idle"
      PROVE  /\ doing[w].to \in ReceiptType /\ doing[w].to.loc \in Places
             /\ doing[w].to.groups \in SUBSET Groups
             /\ doing[w].id \in Install!Ids \union {Install!NoId}
  BY <1>i, JobFieldsAre DEF ReceiptType
<1>j. ASSUME NEW r \in Install!Ids, NEW to \in ReceiptType, receipts' = Install!Store(r, to)
      PROVE  KeptOK'
  BY <1>j, StoredIs
<1>3. CASE Install!Creating(w)
  <2>1. ASSUME NEW m \in Names, NEW l \in Places, NEW gs \in SUBSET Groups, NEW b \in BOOLEAN,
               Install!StartCreate(w, m, l, gs, b)
        PROVE  JobsOK' /\ DirsOK' /\ KeptOK' /\ PaidOK'
    <3>1. JobsOK'
      BY <2>1, <1>d, StartCreateJob
    <3>2. DirsOK' /\ KeptOK'
      BY <2>1, <1>a, <1>g DEF Install!StartCreate
    <3>3. faults' = faults /\ races' \in Nat /\ moves' \in Nat
      BY <2>1, StartCreatePaid
    <3>4. QED
      BY <3>1, <3>2, <3>3, <1>0
  <2>2. CASE Install!Clear(w)
    <3>1. JobsOK'
      BY <2>2, <1>e DEF Install!Clear, Install!At, InstallSteps, WriteSteps
    <3>2. DirsOK'
      BY <2>2, <1>h, <1>i DEF Install!Clear, Install!At, Install!Bare
    <3>3. QED
      BY <2>2, <3>1, <3>2, <1>a, <1>b DEF Install!Clear
  <2>3. CASE Install!Build(w)
    <3>1. JobsOK'
      BY <2>3, <1>e DEF Install!Build, Install!At, InstallSteps, WriteSteps
    <3>2. DirsOK'
      <4> DEFINE l == doing[w].to.loc
      <4>1. l \in Places /\ dirs' = [dirs EXCEPT ![l] =
              Install!Dir("venv", TRUE, dirs[l].groups, dirs[l].mirror)]
        BY <2>3, <1>0, <1>i DEF Install!Build, Install!At
      <4> HIDE DEF l
      <4>2. dirs[l].groups \in SUBSET Groups /\ dirs[l].mirror \in Install!Ids \union {Install!NoId}
        BY <4>1, DirFields
      <4>3. QED
        BY <4>1, <4>2, <1>h
    <3>3. QED
      BY <2>3, <3>1, <3>2, <1>a, <1>b DEF Install!Build
  <2>4. CASE Install!Pip(w)
    <3>1. JobsOK'
      BY <2>4, <1>e DEF Install!Pip, Install!At, InstallSteps, WriteSteps
    <3>2. DirsOK'
      <4> DEFINE l == doing[w].to.loc
                 to == [dirs[l] EXCEPT !.groups = @ \union doing[w].to.groups]
      <4>1. l \in Places /\ dirs' = [dirs EXCEPT ![l] = to]
            /\ doing[w].to.groups \in SUBSET Groups
        BY <2>4, <1>0, <1>i DEF Install!Pip, Install!At
      <4>2. to \in DirType /\ to.state = dirs[l].state /\ to.python = dirs[l].python
        BY <4>1, DirFields DEF DirType
      <4> HIDE DEF l, to
      <4>3. QED
        BY <4>1, <4>2, <1>0, DirTurns
    <3>3. QED
      BY <2>4, <3>1, <3>2, <1>a, <1>b DEF Install!Pip
  <2>5. CASE Install!PipFails(w)
    BY <2>5, <1>a, <1>c, <1>f, <1>g DEF Install!PipFails
  <2>6. CASE Install!PipMissing(w)
    BY <2>6, <1>a, <1>b, <1>c, <1>g DEF Install!PipMissing
  <2>7. CASE Install!SaveOver(w)
    <3>1. doing[w].step = "save"
      BY <2>7 DEF Install!SaveOver, Install!At
    <3>2. JobsOK'
      BY <2>7, <3>1, <1>c, <1>e DEF Install!SaveOver, InstallSteps
    <3>3. KeptOK'
      BY <2>7, <3>1, <1>0, <1>a, <1>i, <1>j DEF Install!SaveOver
    <3>4. QED
      BY <2>7, <3>2, <3>3, <1>b, <1>g DEF Install!SaveOver
  <2>8. ASSUME NEW r \in Install!Ids, Install!SaveNew(w, r)
        PROVE  JobsOK' /\ DirsOK' /\ KeptOK' /\ PaidOK'
    <3>1. doing[w].step = "save"
      BY <2>8 DEF Install!SaveNew, Install!At
    <3>2. JobsOK'
      <4> DEFINE to == [doing[w] EXCEPT !.step = "mirror", !.id = r]
      <4>1. doing' = [doing EXCEPT ![w] = to]
        BY <2>8 DEF Install!SaveNew
      <4>2. doing[w] \in JobType
        BY <3>1, JobFieldsAre
      <4>3. to \in JobType /\ to.step = "mirror"
        BY <4>2 DEF JobType, InstallSteps
      <4> HIDE DEF to
      <4>4. QED
        BY <4>1, <4>3, <1>d
    <3>3. KeptOK'
      BY <2>8, <3>1, <1>i, <1>j DEF Install!SaveNew
    <3>4. QED
      BY <2>8, <3>2, <3>3, <1>b, <1>g DEF Install!SaveNew
  <2>9. CASE Install!Mirror(w)
    <3>1. DirsOK'
      <4> DEFINE l == doing[w].to.loc
                 to == [dirs[l] EXCEPT !.mirror = doing[w].id]
      <4>1. l \in Places /\ (dirs' = [dirs EXCEPT ![l] = to] \/ dirs' = dirs)
            /\ doing[w].id \in Install!Ids \union {Install!NoId}
        BY <2>9, <1>0, <1>i DEF Install!Mirror, Install!At
      <4>2. to \in DirType /\ to.state = dirs[l].state /\ to.python = dirs[l].python
        BY <4>1, DirFields DEF DirType
      <4> HIDE DEF l, to
      <4>3. QED
        BY <4>1, <4>2, <1>0, <1>g, DirTurns
    <3>2. QED
      BY <2>9, <3>1, <1>a, <1>b, <1>c DEF Install!Mirror
  <2>10. QED
    BY <1>3, <2>1, <2>2, <2>3, <2>4, <2>5, <2>6, <2>7, <2>8, <2>9 DEF Install!Creating
<1>4. CASE Install!Removing(w)
  <2>1. ASSUME NEW m \in Names, Install!StartRemove(w, m)
        PROVE  JobsOK' /\ DirsOK' /\ KeptOK' /\ PaidOK'
    <3>1. JobsOK'
      BY <2>1, <1>d, StartRemoveJob
    <3>2. DirsOK' /\ KeptOK'
      BY <2>1, <1>a, <1>g DEF Install!StartRemove
    <3>3. faults' = faults /\ races' \in Nat /\ moves' = moves
      BY <2>1, BeginsPaid DEF Install!StartRemove
    <3>4. QED
      BY <3>1, <3>2, <3>3, <1>0
  <2>2. CASE Install!RemoveSome(w)
    <3>1. JobsOK'
      BY <2>2, <1>e DEF Install!RemoveSome, Install!At, InstallSteps
    <3>2. DirsOK'
      <4> DEFINE l == doing[w].to.loc
      <4>1. PICK s \in {"bare", dirs[l].state} :
              dirs' = [dirs EXCEPT ![l] = Install!Dir(s, FALSE, {}, Install!NoId)]
        BY <2>2 DEF Install!RemoveSome
      <4>2. l \in Places
        BY <2>2, <1>i DEF Install!RemoveSome, Install!At
      <4> HIDE DEF l
      <4>3. s \in {"absent", "bare", "venv"}
        BY <4>2, DirFields
      <4>4. QED
        BY <4>1, <4>2, <4>3, <1>h
    <3>3. QED
      BY <2>2, <3>1, <3>2, <1>a, <1>b DEF Install!RemoveSome
  <2>3. CASE Install!RemoveRest(w)
    <3>1. JobsOK'
      BY <2>3, <1>e DEF Install!RemoveRest, Install!At, InstallSteps
    <3>2. DirsOK'
      BY <2>3, <1>h, <1>i DEF Install!RemoveRest, Install!At, Install!Absent
    <3>3. QED
      BY <2>3, <3>1, <3>2, <1>a, <1>b DEF Install!RemoveRest
  <2>4. CASE Install!RemoveFails(w)
    BY <2>4, <1>a, <1>b, <1>c, <1>g DEF Install!RemoveFails
  <2>5. CASE Install!RemoveReceipt(w)
    <3>1. KeptOK'
      BY <2>5, <1>0 DEF Install!RemoveReceipt, Install!Restrict, Install!Kept
    <3>2. QED
      BY <2>5, <3>1, <1>b, <1>c, <1>g DEF Install!RemoveReceipt
  <2>6. QED
    BY <1>4, <2>1, <2>2, <2>3, <2>4, <2>5 DEF Install!Removing
<1>5. CASE Install!Examining(w)
  <2>1. ASSUME NEW to, Looks(w, to) PROVE JobsOK'
    BY <2>1, <1>d, NoIdIsNone DEF Looks
  <2>2. ASSUME NEW m \in Names, Install!Doctor(w, m)
        PROVE  JobsOK' /\ DirsOK' /\ KeptOK' /\ PaidOK'
    <3>1. JobsOK'
      BY <2>1, <2>2, DoctorJob
    <3>2. DirsOK' /\ KeptOK'
      BY <2>2, <1>a, <1>g DEF Install!Doctor
    <3>3. faults' = faults /\ races' \in Nat /\ moves' = moves
      BY <2>2, BeginsPaid DEF Install!Doctor
    <3>4. QED
      BY <3>1, <3>2, <3>3, <1>0
  <2>3. CASE Install!RecordLook(w)
    <3>1. JobsOK'
      BY <2>1, <2>3, <1>c, RecordLookJob
    <3>2. QED
      BY <2>3, <3>1, <1>a, <1>b, <1>g DEF Install!RecordLook
  <2>4. CASE Install!Record(w)
    <3>1. doing[w].step = "record"
      BY <2>4 DEF Install!Record, Install!At
    <3>2. JobsOK'
      BY <2>4, <3>1, <1>c, <1>e DEF Install!Record, InstallSteps
    <3>3. KeptOK'
      BY <2>4, <3>1, <1>0, <1>a, <1>i, <1>j DEF Install!Record
    <3>4. QED
      BY <2>4, <3>2, <3>3, <1>b, <1>g DEF Install!Record
  <2>5. QED
    BY <1>5, <2>2, <2>3, <2>4 DEF Install!Examining
<1>6. CASE Install!Crash(w)
  BY <1>6, <1>a, <1>c, <1>f, <1>g DEF Install!Crash
<1>7. QED
  BY <1>2, <1>3, <1>4, <1>5, <1>6

-----------------------------------------------------------------------------
\* A debt is a directory or a command.
LEMMA DebtsAre ==
  /\ \A d \in Debts : \/ \E l \in Places : d = <<"at", l>> /\ Exposed(l)
                      \/ \E w \in Clerks : d = <<"by", w>> /\ Working(w)
  /\ \A l \in Places : <<"at", l>> \in Debts <=> Exposed(l)
  /\ \A w \in Clerks : <<"by", w>> \in Debts <=> Working(w)
  BY DEF Debts

LEMMA DebtsLess ==
  ASSUME \A l \in Places : Exposed(l)' => Exposed(l),
         \A w \in Clerks : Working(w)' => Working(w)
  PROVE  Debts' \subseteq Debts
  BY DEF Debts

LEMMA DebtsFewer ==
  ASSUME NEW w \in Clerks, \A l \in Places : Exposed(l)' => Exposed(l), ~Working(w)',
         \A v \in Clerks : Working(v)' => Working(v)
  PROVE  Debts' \subseteq Debts \ {<<"by", w>>}
  BY DEF Debts

LEMMA DebtsMoved ==
  ASSUME NEW w \in Clerks, NEW x \in Places,
         \A l \in Places : Exposed(l)' => Exposed(l) \/ l = x, ~Working(w)',
         \A v \in Clerks : Working(v)' => Working(v)
  PROVE  Debts' \subseteq (Debts \ {<<"by", w>>}) \union {<<"at", x>>}
  BY DEF Debts

\* A step of one command that writes no receipt.
OneMoves(w) == receipts' = receipts /\ \A v \in Clerks : v # w => doing'[v] = doing[v]

LEMMA OthersSame ==
  ASSUME NEW w \in Clerks, OneMoves(w)
  PROVE  /\ Install!Kept' = Install!Kept
         /\ \A l \in Places : Mentioned(l)' <=> Mentioned(l)
         /\ \A v \in Clerks : v # w =>
              /\ Building(v)' <=> Building(v)
              /\ Recording(v)' <=> Recording(v)
              /\ Clearing(v)' <=> Clearing(v)
              /\ Doomed(v)' <=> Doomed(v)
              /\ Working(v)' <=> Working(v)
              /\ Aligned(v)' <=> Aligned(v)
              /\ Doubled(v)' <=> Doubled(v)
<1>1. Install!Kept' = Install!Kept
  BY DEF OneMoves, Install!Kept
<1>2. ASSUME NEW v \in Clerks, v # w
      PROVE  /\ Building(v)' <=> Building(v)
             /\ Recording(v)' <=> Recording(v)
             /\ Clearing(v)' <=> Clearing(v)
             /\ Doomed(v)' <=> Doomed(v)
             /\ Working(v)' <=> Working(v)
             /\ Aligned(v)' <=> Aligned(v)
             /\ Doubled(v)' <=> Doubled(v)
  BY <1>1, <1>2 DEF OneMoves, Building, Recording, Clearing, Doomed, Working, Aligned, Doubled
<1>3. \A l \in Places : Mentioned(l)' <=> Mentioned(l)
  BY <1>1 DEF OneMoves, Mentioned
<1>4. QED
  BY <1>1, <1>2, <1>3

\* Another command stays harmless where its directory stays safe.
LEMMA HarmlessStays ==
  ASSUME NEW w \in Clerks, OneMoves(w), NEW v \in Clerks, v # w, Harmless(v),
         NEW l, l = doing[v].to.loc,
         doing[v].step = "rmdir" => (SafeRmdir(l) => SafeRmdir(l)'),
         doing[v].step = "delete" => (SafeDelete(l) => SafeDelete(l)')
  PROVE  Harmless(v)'
<1>1. doing'[v] = doing[v] /\ Install!Kept' = Install!Kept
  BY OthersSame DEF OneMoves
<1>2. /\ Building(v)' <=> Building(v)
      /\ Recording(v)' <=> Recording(v)
      /\ Aligned(v)' <=> Aligned(v)
      /\ Doubled(v)' <=> Doubled(v)
  BY OthersSame
<1>3. QED
  BY <1>1, <1>2 DEF Harmless

\* A command that has touched nothing takes something on.
LEMMA TakesOn ==
  ASSUME InstallTypes, NEW w \in Clerks, OneMoves(w), dirs' = dirs,
         doing[w].step \in {"idle", "look"}, ~Doomed(w)', doing'[w].step # "rmdir"
  PROVE  /\ \A l \in Places : Exposed(l)' => Exposed(l)
         /\ \A v \in Clerks : v # w => /\ Working(v)' <=> Working(v)
                                       /\ Harmless(v) => Harmless(v)'
<1>1. ~Building(w) /\ ~Recording(w) /\ ~Clearing(w)
  BY DEF Building, Recording, Clearing, WriteSteps
<1>2. ASSUME NEW l \in Places
      PROVE  /\ Tended(l) => Tended(l)'
             /\ Cleared(l) => Cleared(l)'
             /\ Forsaken(l)' <=> Forsaken(l)
             /\ Cracked(l)' <=> Cracked(l)
             /\ Bereft(l)' => Bereft(l)
             /\ Mentioned(l)' <=> Mentioned(l)
             /\ Bereft(l) => Bereft(l)' \/ Tended(l)' \/ Cleared(l)'
  <2>1. Tended(l) => Tended(l)'
    BY <1>1, OthersSame DEF OneMoves, Tended
  <2>2. Cleared(l) => Cleared(l)'
    BY <1>1, OthersSame DEF OneMoves, Cleared
  <2>3. Forsaken(l)' <=> Forsaken(l)
    BY <1>1, OthersSame DEF OneMoves, Forsaken
  <2>4. Cracked(l)' <=> Cracked(l)
    BY <1>1 DEF OneMoves, Cracked, Venv, Clearing
  <2>5. (Venv(l)' <=> Venv(l)) /\ (Mentioned(l)' <=> Mentioned(l))
    BY OthersSame DEF Venv
  <2>6. QED
    BY <2>1, <2>2, <2>3, <2>4, <2>5 DEF Bereft
<1>3. \A l \in Places : Exposed(l)' => Exposed(l)
  BY <1>2 DEF Exposed
<1>4. ASSUME NEW v \in Clerks, v # w, Harmless(v) PROVE Harmless(v)'
  <2> PICK l : l = doing[v].to.loc
    OBVIOUS
  <2>1. doing[v].step \in {"rmdir", "delete"} => l \in Places
    BY JobFieldsAre
  <2>2. l \in Places => (SafeRmdir(l) => SafeRmdir(l)') /\ (SafeDelete(l) => SafeDelete(l)')
    BY <1>2 DEF SafeRmdir, SafeDelete, Exposed, Venv
  <2>3. QED
    BY <1>4, <2>1, <2>2, HarmlessStays
<1>5. QED
  BY <1>3, <1>4, OthersSame

\* A command gives up, or is done, and leaves all as it is.
Quits(w) ==
  /\ OneMoves(w) /\ doing[w].step # "idle" /\ doing'[w].step = "idle"
  /\ \A l \in Places : (Venv(l)' <=> Venv(l)) /\ dirs'[l].python = dirs[l].python

LEMMA QuitFrame ==
  ASSUME InstallTypes, NEW w \in Clerks, Quits(w), NEW l \in Places
  PROVE  /\ Mentioned(l)' <=> Mentioned(l)
         /\ Tended(l)' => Tended(l)
         /\ Cleared(l)' => Cleared(l)
         /\ Forsaken(l)' => Forsaken(l)
         /\ Cracked(l) => Cracked(l)'
         /\ Bereft(l) => Bereft(l)'
         /\ doing[w].to.loc # l \/ ~(Building(w) \/ Recording(w) \/ Clearing(w)) =>
              /\ Tended(l) <=> Tended(l)'
              /\ Cleared(l) <=> Cleared(l)'
              /\ Forsaken(l) <=> Forsaken(l)'
              /\ Cracked(l) <=> Cracked(l)'
              /\ Bereft(l) <=> Bereft(l)'
         /\ Building(w) \/ Recording(w) => /\ Cleared(l) <=> Cleared(l)'
                                           /\ Cracked(l) <=> Cracked(l)'
         /\ Recording(w) \/ Clearing(w) => Forsaken(l) <=> Forsaken(l)'
         /\ Clearing(w) \/ Doomed(w) => (Tended(l) <=> Tended(l)')
<1>1. ~Building(w)' /\ ~Recording(w)' /\ ~Clearing(w)'
  BY DEF Quits, Building, Recording, Clearing, WriteSteps
<1>2. ~(Building(w) /\ Recording(w)) /\ ~(Building(w) /\ Clearing(w)) /\ ~(Recording(w) /\ Clearing(w))
  BY DEF Building, Recording, Clearing, WriteSteps
<1>3. /\ Mentioned(l)' <=> Mentioned(l)
      /\ \A v \in Clerks : v # w =>
              /\ Building(v)' <=> Building(v)
              /\ Recording(v)' <=> Recording(v)
              /\ Clearing(v)' <=> Clearing(v)
              /\ Doomed(v)' <=> Doomed(v)
              /\ doing'[v] = doing[v]
  BY OthersSame DEF Quits, OneMoves
<1> DEFINE here == doing[w].to.loc = l
<1>4. /\ Tended(l)' => Tended(l)
      /\ ~here \/ ~(Building(w) \/ Recording(w)) \/ Doomed(w) => (Tended(l) => Tended(l)')
  BY <1>1, <1>3 DEF Tended
<1>5. /\ Cleared(l)' => Cleared(l)
      /\ ~here \/ ~Clearing(w) => (Cleared(l) => Cleared(l)')
  BY <1>1, <1>3 DEF Cleared
<1>6. /\ Forsaken(l)' => Forsaken(l)
      /\ ~here \/ ~Building(w) => (Forsaken(l) => Forsaken(l)')
  BY <1>1, <1>3 DEF Forsaken
<1>7. (Venv(l)' <=> Venv(l)) /\ dirs'[l].python = dirs[l].python
  BY DEF Quits
<1>8. /\ Cracked(l) => Cracked(l)'
      /\ ~here \/ ~Clearing(w) => (Cracked(l)' => Cracked(l))
  BY <1>1, <1>3, <1>7 DEF Cracked, Clearing
<1>9. /\ Bereft(l) => Bereft(l)'
      /\ ~here \/ ~(Building(w) \/ Recording(w) \/ Clearing(w)) => (Bereft(l)' => Bereft(l))
  BY <1>3, <1>4, <1>5, <1>7 DEF Bereft
<1> HIDE DEF here
<1>10. (doing[w].to.loc # l) = ~here
  BY DEF here
<1>11. QED
  BY <1>2, <1>3, <1>4, <1>5, <1>6, <1>8, <1>9, <1>10

\* A command that quits exposes at most its directory; what was harmless
\* stays so, but where it may have been the last one at hand.
LEMMA QuitsLeave ==
  ASSUME InstallTypes, NEW w \in Clerks, Quits(w), NEW x, x = doing[w].to.loc
  PROVE  /\ x \in Places /\ ~Working(w)'
         /\ \A l \in Places : Exposed(l) => Exposed(l)' \/ (l = x /\ Building(w) /\ Doomed(w))
         /\ \A l \in Places : Exposed(l)' => Exposed(l) \/ (l = x /\ Working(w))
         /\ ~(Building(w) \/ Recording(w) \/ Clearing(w)) => \A l \in Places : Exposed(l)' => Exposed(l)
         /\ \A v \in Clerks : v # w => (Working(v)' <=> Working(v))
<1>1. x \in Places
  BY JobFieldsAre DEF Quits
<1>2. ~Working(w)'
  BY DEF Quits, Working
<1>3. \A v \in Clerks : v # w => (Working(v)' <=> Working(v))
  BY OthersSame DEF Quits
<1>4. ~(Building(w) /\ Recording(w)) /\ ~(Building(w) /\ Clearing(w)) /\ ~(Recording(w) /\ Clearing(w))
  BY DEF Building, Recording, Clearing, WriteSteps
<1>5. Building(w) \/ Recording(w) \/ Clearing(w) => Working(w) \/ Doomed(w)
  BY DEF Building, Recording, Clearing, WriteSteps, Working
<1>6. Doomed(w) => Building(w) \/ Recording(w)
  BY DEF Doomed
<1>7. ASSUME NEW l \in Places
      PROVE  /\ Exposed(l) => Exposed(l)' \/ (l = x /\ Building(w) /\ Doomed(w))
             /\ Exposed(l)' => Exposed(l) \/ (l = x /\ Working(w))
             /\ ~(Building(w) \/ Recording(w) \/ Clearing(w)) => (Exposed(l)' => Exposed(l))
  <2>1. CASE l # x \/ ~(Building(w) \/ Recording(w) \/ Clearing(w))
    BY <2>1, QuitFrame DEF Exposed
  <2>2. CASE l = x /\ (Building(w) \/ Recording(w) \/ Clearing(w))
    <3>1. CASE Working(w)
      <4>1. ~Doomed(w)
        BY <3>1 DEF Working
      <4>2. Forsaken(l) => Forsaken(l)'
        <5> SUFFICES ASSUME Forsaken(l) PROVE Forsaken(l)'
          OBVIOUS
        <5>1. PICK v \in Clerks : Building(v) /\ Doomed(v) /\ doing[v].to.loc = l
          BY DEF Forsaken
        <5>2. Building(v)' /\ Doomed(v)' /\ doing'[v].to.loc = l
          BY <4>1, <5>1, OthersSame DEF Quits, OneMoves
        <5>3. QED
          BY <5>2 DEF Forsaken
      <4>3. Cracked(l) => Cracked(l)'
        BY QuitFrame
      <4>4. Bereft(l) => Bereft(l)'
        BY QuitFrame
      <4>5. QED
        BY <2>2, <3>1, <4>2, <4>3, <4>4 DEF Exposed
    <3>2. CASE Doomed(w)
      <4>1. /\ Cleared(l) <=> Cleared(l)'
            /\ Cracked(l) <=> Cracked(l)'
            /\ Tended(l) <=> Tended(l)'
            /\ Mentioned(l) <=> Mentioned(l)'
            /\ Forsaken(l)' => Forsaken(l)
            /\ Bereft(l) => Bereft(l)'
        BY <1>6, <3>2, QuitFrame
      <4>2. Bereft(l)' => Bereft(l)
        BY <4>1 DEF Bereft, Quits
      <4>3. Recording(w) => (Forsaken(l) <=> Forsaken(l)')
        BY QuitFrame
      <4>4. QED
        BY <1>6, <2>2, <3>2, <4>1, <4>2, <4>3 DEF Exposed
    <3>3. QED
      BY <1>5, <2>2, <3>1, <3>2
  <2>3. QED
    BY <2>1, <2>2
<1>8. QED
  BY <1>1, <1>2, <1>3, <1>7

LEMMA QuitHarmless ==
  ASSUME InstallTypes, NEW w \in Clerks, Quits(w), NEW v \in Clerks, v # w, Harmless(v),
         NEW x, x = doing[w].to.loc,
         \/ ~(Building(w) \/ Recording(w) \/ Clearing(w))
         \/ (SafeRmdir(x) => SafeRmdir(x)' \/ ~Cleared(x)') /\ (SafeDelete(x) => SafeDelete(x)')
  PROVE  Harmless(v)'
<1> PICK l : l = doing[v].to.loc
  OBVIOUS
<1>1. doing[v].step \in {"rmdir", "delete"} => l \in Places
  BY JobFieldsAre
<1>2. OneMoves(w)
  BY DEF Quits
<1>3. doing'[v] = doing[v]
  BY <1>2 DEF OneMoves
<1>4. doing[v].step = "rmdir" => Cleared(l)'
  BY <1>3 DEF Cleared, Clearing
<1>5. ASSUME l # x \/ ~(Building(w) \/ Recording(w) \/ Clearing(w)), l \in Places
      PROVE  (SafeRmdir(l) => SafeRmdir(l)') /\ (SafeDelete(l) => SafeDelete(l)')
  <2>1. /\ Mentioned(l)' <=> Mentioned(l)
        /\ Tended(l) <=> Tended(l)'
        /\ Cleared(l) <=> Cleared(l)'
        /\ Forsaken(l) <=> Forsaken(l)'
        /\ Cracked(l) <=> Cracked(l)'
        /\ Bereft(l) <=> Bereft(l)'
    BY <1>5, QuitFrame
  <2>2. (Venv(l)' <=> Venv(l)) /\ dirs'[l].python = dirs[l].python
    BY <1>5 DEF Quits
  <2>3. QED
    BY <2>1, <2>2 DEF SafeRmdir, SafeDelete, Exposed
<1>6. CASE l = x
  BY <1>1, <1>2, <1>4, <1>5, <1>6, HarmlessStays
<1>7. CASE l # x
  BY <1>1, <1>2, <1>5, <1>7, HarmlessStays
<1>8. QED
  BY <1>6, <1>7

\* A command dies or pip fails: that is paid for.
LEMMA QuitPays ==
  ASSUME InstallTypes, Solvent, NEW w \in Clerks, Quits(w), faults' = faults + 1,
         races' = races, moves' = moves
  PROVE  Solvent'
<1> PICK x : x = doing[w].to.loc
  OBVIOUS
<1>0. Paid \in Nat /\ Paid' \in Nat /\ Paid <= Paid' /\ Paid + 1 <= Paid'
  <2>1. faults \in Nat /\ races \in Nat /\ moves \in Nat
    BY DEF InstallTypes
  <2>2. faults' \in Nat /\ faults <= faults' /\ faults + 1 <= faults'
    BY <2>1
  <2>3. QED
    BY <2>1, <2>2, PaidGrows
<1>1. CASE Working(w)
  <2>1. Debts' \subseteq (Debts \ {<<"by", w>>}) \union {<<"at", x>>}
    BY QuitsLeave, DebtsMoved
  <2>2. <<"by", w>> \in Debts
    BY <1>1, DebtsAre
  <2>3. QED
    BY <1>0, <2>1, <2>2, SolventSwap
<1>2. CASE ~Working(w)
  <2>1. Debts' \subseteq Debts
    BY <1>2, QuitsLeave, DebtsLess
  <2>2. QED
    BY <1>0, <2>1, SolventSame
<1>3. QED
  BY <1>1, <1>2

\* A command quits that exposes nothing: its own debt is gone.
LEMMA QuitClean ==
  ASSUME InstallTypes, Solvent, NEW w \in Clerks, Quits(w), UNCHANGED Install!hist, Working(w),
         \A l \in Places : Exposed(l)' => Exposed(l)
  PROVE  Solvent'
<1>1. Debts' \subseteq Debts \ {<<"by", w>>}
  BY QuitsLeave, DebtsFewer
<1>2. <<"by", w>> \in Debts
  BY DebtsAre
<1>3. Debts' # Debts /\ Debts' \subseteq Debts
  BY <1>1, <1>2
<1>4. QED
  BY <1>3, PaidSame, SolventSame

\* A command that would write finds that its receipt is gone.
LEMMA QuitDoomed ==
  ASSUME InstallTypes, Solvent, NEW w \in Clerks, Quits(w), UNCHANGED Install!hist, Doomed(w)
  PROVE  Solvent'
<1> PICK x : x = doing[w].to.loc
  OBVIOUS
<1>0. ~Working(w)
  BY DEF Working
<1>1. Debts' \subseteq Debts /\ x \in Places
  BY <1>0, QuitsLeave, DebtsLess
<1>2. Tended(x) => Tended(x)'
  BY <1>1, QuitFrame
<1>3. (Cleared(x) => Cleared(x)') /\ (Mentioned(x) => Mentioned(x)')
  BY <1>1, QuitFrame DEF Doomed
<1>4. ASSUME NEW v \in Clerks, Working(v), Harmless(v)
      PROVE  (Working(v)' /\ Harmless(v)') \/ Debts' # Debts
  <2>1. v # w /\ Working(v)'
    BY <1>0, <1>4, QuitsLeave
  <2>2. CASE Exposed(x)' <=> Exposed(x)
    <3>1. SafeDelete(x) => SafeDelete(x)'
      BY <1>1, <1>2, <1>3, <2>2 DEF SafeDelete, Quits
    <3>2. SafeRmdir(x) => SafeRmdir(x)' \/ ~Cleared(x)'
      <4>1. CASE Forsaken(x) /\ dirs[x].python /\ Cleared(x)'
        <5>1. Exposed(x) /\ dirs'[x].python
          BY <1>1, <4>1 DEF Exposed, Quits
        <5>2. ~Cracked(x)' /\ ~Bereft(x)'
          BY <4>1, <5>1 DEF Cracked, Bereft
        <5>3. QED
          BY <2>2, <5>1, <5>2 DEF Exposed, SafeRmdir
      <4>2. CASE ~(Forsaken(x) /\ dirs[x].python /\ Cleared(x)')
        BY <1>1, <1>2, <1>3, <4>2 DEF SafeRmdir, Quits
      <4>3. QED
        BY <4>1, <4>2
    <3>3. QED
      BY <1>4, <2>1, <3>1, <3>2, QuitHarmless
  <2>3. CASE ~(Exposed(x)' <=> Exposed(x))
    <3>1. Exposed(x) /\ ~Exposed(x)'
      BY <1>0, <1>1, <2>3, QuitsLeave
    <3>2. <<"at", x>> \in Debts /\ <<"at", x>> \notin Debts'
      <4>1. <<"at", x>> \in Debts
        BY <1>1, <3>1, DebtsAre
      <4>2. <<"at", x>> \notin Debts'
        BY <1>1, <3>1 DEF Debts
      <4>3. QED
        BY <4>1, <4>2
    <3>3. QED
      BY <3>2
  <2>4. QED
    BY <2>2, <2>3
<1>5. QED
  BY <1>1, <1>4, PaidSame, SolventSame

\* rmtree raises, for the directory is gone or holds an interpreter again.
LEMMA RemoveFailsSolvent ==
  ASSUME InstallTypes, Solvent, NEW w \in Clerks, Install!RemoveFails(w)
  PROVE  Solvent'
<1> PICK x : x = doing[w].to.loc
  OBVIOUS
<1>0. Clearing(w) /\ ~Doomed(w) /\ Working(w) /\ ~Building(w) /\ ~Recording(w)
  BY DEF Install!RemoveFails, Install!At, Clearing, Building, Recording, Doomed, Working,
         WriteSteps
<1>1. Quits(w)
  BY <1>0, JobEnds DEF Install!RemoveFails, Quits, OneMoves, Clearing, Venv
<1>2. x \in Places
  BY <1>1, QuitsLeave
<1>3. CASE dirs[x].state = "absent"
  <2>1. ~Cracked(x)' /\ ~Bereft(x)'
    BY <1>1, <1>2, <1>3 DEF Quits, Cracked, Bereft, Venv
  <2>2. Forsaken(x)' => Forsaken(x)
    BY <1>1, <1>2, QuitFrame
  <2>3. \A l \in Places : Exposed(l)' => Exposed(l)
    BY <1>1, <2>1, <2>2, QuitsLeave DEF Exposed
  <2>4. QED
    BY <1>0, <1>1, <2>3, QuitClean DEF Install!RemoveFails
<1>4. CASE dirs[x].state # "absent"
  <2>1. doing[w].step = "rmdir" /\ dirs[x].python /\ UNCHANGED Install!hist
    BY <1>4 DEF Install!RemoveFails, Install!Exists, Install!At
  <2>2. CASE \A l \in Places : Exposed(l)' => Exposed(l)
    BY <1>0, <1>1, <2>1, <2>2, QuitClean
  <2>3. CASE ~ \A l \in Places : Exposed(l)' => Exposed(l)
    <3>1. Exposed(x)' /\ ~Exposed(x)
      BY <1>1, <2>3, QuitsLeave
    <3>2. ~Forsaken(x) /\ ~Forsaken(x)' /\ ~Cracked(x)' /\ Bereft(x)'
      <4>1. ~Forsaken(x) /\ (Forsaken(x)' => Forsaken(x))
        BY <1>1, <1>2, <3>1, QuitFrame DEF Exposed
      <4>2. ~Cracked(x)'
        BY <1>1, <1>2, <2>1 DEF Quits, Cracked
      <4>3. QED
        BY <3>1, <4>1, <4>2 DEF Exposed
    <3>3. ~Mentioned(x) /\ ~Tended(x) /\ ~Cleared(x)'
      BY <1>0, <1>1, <1>2, <3>2, QuitFrame DEF Bereft
    <3>4. ~Harmless(w)
      <4>1. ~Aligned(w)
        BY <3>3 DEF Aligned, Mentioned
      <4>2. ~SafeRmdir(x)
        BY <2>1, <3>2, <3>3 DEF SafeRmdir
      <4>3. QED
        BY <1>0, <2>1, <4>1, <4>2 DEF Harmless
    <3>5. SafeDelete(x)'
      BY <3>1 DEF SafeDelete
    <3>6. \A v \in Clerks : Working(v) /\ Harmless(v) => Working(v)' /\ Harmless(v)'
      BY <1>1, <3>3, <3>4, <3>5, QuitsLeave, QuitHarmless
    <3>7. Debts' \subseteq (Debts \ {<<"by", w>>}) \union {<<"at", x>>}
      BY <1>1, QuitsLeave, DebtsMoved
    <3>8. <<"by", w>> \in Debts
      BY <1>0, DebtsAre
    <3>9. QED
      BY <2>1, <3>6, <3>7, <3>8, PaidSame, SolventSwap
  <2>4. QED
    BY <2>2, <2>3
<1>5. QED
  BY <1>3, <1>4

\* A command goes on.
LEMMA GoesOnSolvent ==
  ASSUME InstallTypes, Solvent, NEW w \in Clerks, OneMoves(w), UNCHANGED Install!hist,
         \A l \in Places : Exposed(l)' => Exposed(l), Working(w)' => Working(w),
         \A l \in Places : SafeRmdir(l) => SafeRmdir(l)',
         \A l \in Places : SafeDelete(l) => SafeDelete(l)',
         Working(w) /\ Harmless(w) => Working(w)' /\ Harmless(w)'
  PROVE  Solvent'
<1>1. Debts' \subseteq Debts
  BY OthersSame, DebtsLess
<1>2. ASSUME NEW v \in Clerks, Working(v), Harmless(v)
      PROVE  Working(v)' /\ Harmless(v)'
  <2>1. CASE v = w
    BY <1>2, <2>1
  <2>2. CASE v # w
    <3> PICK l : l = doing[v].to.loc
      OBVIOUS
    <3>1. doing[v].step \in {"rmdir", "delete"} => l \in Places
      BY JobFieldsAre
    <3>2. Harmless(v)'
      BY <1>2, <2>2, <3>1, HarmlessStays
    <3>3. QED
      BY <1>2, <2>2, <3>2, OthersSame
  <2>3. QED
    BY <2>1, <2>2
<1>3. QED
  BY <1>1, <1>2, PaidSame, SolventSame

\* ... with the environment it makes.
LEMMA BuildsOn ==
  ASSUME InstallTypes, NEW w \in Clerks, OneMoves(w), Building(w), Building(w)',
         doing'[w].id = doing[w].id, doing'[w].to = doing[w].to,
         NEW x, x = doing[w].to.loc
  PROVE  /\ x \in Places /\ (Working(w)' <=> Working(w)) /\ (Harmless(w) => Harmless(w)')
         /\ Tended(x) \/ Forsaken(x)
         /\ \A l \in Places :
              /\ Mentioned(l)' <=> Mentioned(l)
              /\ Tended(l)' <=> Tended(l)
              /\ Cleared(l)' <=> Cleared(l)
              /\ Forsaken(l)' <=> Forsaken(l)
              /\ dirs'[l] = dirs[l] => (Cracked(l)' <=> Cracked(l)) /\ (Bereft(l)' <=> Bereft(l))
<1>1. /\ doing[w].step \in WriteSteps /\ doing'[w].step \in WriteSteps
      /\ ~Clearing(w) /\ ~Clearing(w)' /\ ~Recording(w) /\ ~Recording(w)'
  BY DEF Building, Clearing, Recording, WriteSteps
<1>2. x \in Places
  BY <1>1, JobFieldsAre DEF WriteSteps
<1>3. Install!Kept' = Install!Kept
  BY OthersSame
<1>4. Doomed(w)' <=> Doomed(w)
  BY <1>1, <1>3 DEF Doomed
<1>5. Working(w)' <=> Working(w)
  BY <1>1, <1>4 DEF Working, WriteSteps
<1>6. Aligned(w)' <=> Aligned(w)
  BY <1>3 DEF Aligned, OneMoves
<1>7. Harmless(w) => Harmless(w)'
  BY <1>1, <1>6 DEF Harmless, Recording, WriteSteps
<1>8. Tended(x) \/ Forsaken(x)
  BY DEF Tended, Forsaken
<1>9. ASSUME NEW l \in Places
      PROVE  /\ Mentioned(l)' <=> Mentioned(l)
             /\ Tended(l)' <=> Tended(l)
             /\ Cleared(l)' <=> Cleared(l)
             /\ Forsaken(l)' <=> Forsaken(l)
             /\ dirs'[l] = dirs[l] => (Cracked(l)' <=> Cracked(l)) /\ (Bereft(l)' <=> Bereft(l))
  <2>1. \A v \in Clerks :
              /\ Building(v)' <=> Building(v)
              /\ Recording(v)' <=> Recording(v)
              /\ Clearing(v)' <=> Clearing(v)
              /\ Doomed(v)' <=> Doomed(v)
              /\ doing'[v].to = doing[v].to
              /\ doing'[v].step = "rmdir" <=> doing[v].step = "rmdir"
    BY <1>1, <1>4, OthersSame DEF OneMoves, WriteSteps
  <2>2. Mentioned(l)' <=> Mentioned(l)
    BY OthersSame
  <2>3. Tended(l)' <=> Tended(l)
    BY <2>1 DEF Tended
  <2>4. Cleared(l)' <=> Cleared(l)
    BY <2>1 DEF Cleared
  <2>5. Forsaken(l)' <=> Forsaken(l)
    BY <2>1 DEF Forsaken
  <2>6. dirs'[l] = dirs[l] => (Venv(l)' <=> Venv(l)) /\ (Cracked(l)' <=> Cracked(l))
    BY <2>1 DEF Cracked, Venv
  <2>7. QED
    BY <2>2, <2>3, <2>4, <2>5, <2>6 DEF Bereft
<1>10. QED
  BY <1>2, <1>5, <1>7, <1>8, <1>9

LEMMA ClearSolvent ==
  ASSUME InstallTypes, Solvent, NEW w \in Clerks, Install!Clear(w)
  PROVE  Solvent'
<1> PICK x : x = doing[w].to.loc
  OBVIOUS
<1>1. /\ OneMoves(w) /\ Building(w) /\ Building(w)' /\ UNCHANGED Install!hist
      /\ doing'[w].id = doing[w].id /\ doing'[w].to = doing[w].to
  BY JobGoes DEF Install!Clear, Install!At, OneMoves, Building, InstallSteps, WriteSteps
<1>2. x \in Places
  BY <1>1, BuildsOn
<1>3. /\ dirs'[x].state = "bare" /\ ~dirs'[x].python
      /\ \A l \in Places : l # x => dirs'[l] = dirs[l]
  BY <1>2, DirIs, DirTurns DEF Install!Clear, Install!Bare, InstallTypes, Install!Dir
<1>4. ASSUME NEW l \in Places
      PROVE  /\ Exposed(l)' => Exposed(l)
             /\ SafeRmdir(l) => SafeRmdir(l)'
             /\ SafeDelete(l) => SafeDelete(l)'
  <2>1. CASE l = x
    <3>1. ~Venv(l)' /\ ~dirs'[l].python
      BY <1>3, <2>1 DEF Venv
    <3>2. QED
      BY <1>1, <3>1, BuildsOn DEF Exposed, Cracked, Bereft, SafeRmdir, SafeDelete
  <2>2. CASE l # x
    BY <1>1, <1>3, <2>2, BuildsOn DEF Exposed, SafeRmdir, SafeDelete, Venv
  <2>3. QED
    BY <2>1, <2>2
<1>5. (Working(w)' <=> Working(w)) /\ (Harmless(w) => Harmless(w)')
  BY <1>1, BuildsOn
<1>6. QED
  BY <1>1, <1>4, <1>5, GoesOnSolvent

LEMMA BuildSolvent ==
  ASSUME InstallTypes, Solvent, NEW w \in Clerks, Install!Build(w)
  PROVE  Solvent'
<1> PICK x : x = doing[w].to.loc
  OBVIOUS
<1>1. /\ OneMoves(w) /\ Building(w) /\ Building(w)' /\ UNCHANGED Install!hist
      /\ doing'[w].id = doing[w].id /\ doing'[w].to = doing[w].to
  BY JobGoes DEF Install!Build, Install!At, OneMoves, Building, InstallSteps, WriteSteps
<1>2. x \in Places
  BY <1>1, BuildsOn
<1>3. /\ dirs'[x].state = "venv" /\ dirs'[x].python
      /\ \A l \in Places : l # x => dirs'[l] = dirs[l]
  BY <1>2 DEF Install!Build, InstallTypes, Install!Dir
<1>4. ASSUME NEW l \in Places
      PROVE  /\ Exposed(l)' => Exposed(l)
             /\ SafeRmdir(l) => SafeRmdir(l)'
             /\ SafeDelete(l) => SafeDelete(l)'
  <2>1. CASE l = x
    <3>1. ~Cracked(l)'
      BY <1>3, <2>1 DEF Cracked
    <3>2. (Tended(l) /\ Tended(l)') \/ (Forsaken(l) /\ Forsaken(l)')
      BY <1>1, <2>1, BuildsOn
    <3>3. QED
      BY <1>1, <3>1, <3>2, BuildsOn DEF Exposed, Bereft, SafeRmdir, SafeDelete
  <2>2. CASE l # x
    BY <1>1, <1>3, <2>2, BuildsOn DEF Exposed, SafeRmdir, SafeDelete, Venv
  <2>3. QED
    BY <2>1, <2>2
<1>5. (Working(w)' <=> Working(w)) /\ (Harmless(w) => Harmless(w)')
  BY <1>1, BuildsOn
<1>6. QED
  BY <1>1, <1>4, <1>5, GoesOnSolvent

LEMMA PipSolvent ==
  ASSUME InstallTypes, Solvent, NEW w \in Clerks, Install!Pip(w)
  PROVE  Solvent'
<1> PICK x : x = doing[w].to.loc
  OBVIOUS
<1>1. /\ OneMoves(w) /\ Building(w) /\ Building(w)' /\ UNCHANGED Install!hist
      /\ doing'[w].id = doing[w].id /\ doing'[w].to = doing[w].to
  BY JobGoes DEF Install!Pip, Install!At, OneMoves, Building, InstallSteps, WriteSteps
<1>2. x \in Places
  BY <1>1, BuildsOn
<1>3. /\ dirs'[x].state = dirs[x].state /\ dirs[x].python /\ dirs'[x].python
      /\ \A l \in Places : l # x => dirs'[l] = dirs[l]
  <2>1. dirs[x] \in DirType /\ dirs[x].python
    BY <1>2, DirFields DEF Install!Pip
  <2>2. PICK gs : dirs' = [dirs EXCEPT ![x] = [dirs[x] EXCEPT !.groups = gs]]
    BY <1>2 DEF Install!Pip, InstallTypes
  <2>3. QED
    BY <1>2, <2>1, <2>2 DEF InstallTypes, DirType
<1>4. ASSUME NEW l \in Places
      PROVE  /\ Exposed(l)' => Exposed(l)
             /\ SafeRmdir(l) => SafeRmdir(l)'
             /\ SafeDelete(l) => SafeDelete(l)'
  <2>1. CASE l = x
    <3>1. ~Cracked(l)' /\ (Venv(l)' <=> Venv(l))
      BY <1>3, <2>1 DEF Cracked, Venv
    <3>2. (Tended(l) /\ Tended(l)') \/ (Forsaken(l) /\ Forsaken(l)')
      BY <1>1, <2>1, BuildsOn
    <3>3. QED
      BY <1>1, <3>1, <3>2, BuildsOn DEF Exposed, Bereft, SafeRmdir, SafeDelete
  <2>2. CASE l # x
    BY <1>1, <1>3, <2>2, BuildsOn DEF Exposed, SafeRmdir, SafeDelete, Venv
  <2>3. QED
    BY <2>1, <2>2
<1>5. (Working(w)' <=> Working(w)) /\ (Harmless(w) => Harmless(w)')
  BY <1>1, BuildsOn
<1>6. QED
  BY <1>1, <1>4, <1>5, GoesOnSolvent

\* ... with an environment it removes.
LEMMA ClearsOn ==
  ASSUME InstallTypes, NEW w \in Clerks, OneMoves(w), doing[w].step \in {"rmtree", "rmdir"},
         doing'[w].step \in {"rmdir", "delete"},
         doing'[w].id = doing[w].id, doing'[w].to = doing[w].to, NEW x, x = doing[w].to.loc
  PROVE  /\ x \in Places /\ Working(w) /\ Working(w)' /\ (Aligned(w)' <=> Aligned(w))
         /\ \A l \in Places :
              /\ Mentioned(l)' <=> Mentioned(l)
              /\ Tended(l)' <=> Tended(l)
              /\ Forsaken(l)' <=> Forsaken(l)
              /\ l # x => (Cleared(l)' <=> Cleared(l))
              /\ l # x /\ dirs'[l] = dirs[l] =>
                   (Cracked(l)' <=> Cracked(l)) /\ (Bereft(l)' <=> Bereft(l))
<1>1. /\ ~Building(w) /\ ~Building(w)' /\ ~Recording(w) /\ ~Recording(w)'
      /\ ~Doomed(w) /\ ~Doomed(w)' /\ Clearing(w)
  BY DEF Building, Clearing, Recording, WriteSteps, Doomed
<1>2. x \in Places
  BY JobFieldsAre
<1>3. Working(w) /\ Working(w)'
  BY <1>1 DEF Working
<1>4. Aligned(w)' <=> Aligned(w)
  BY OthersSame DEF Aligned, OneMoves
<1>5. ASSUME NEW l \in Places
      PROVE  /\ Mentioned(l)' <=> Mentioned(l)
             /\ Tended(l)' <=> Tended(l)
             /\ Forsaken(l)' <=> Forsaken(l)
             /\ l # x => (Cleared(l)' <=> Cleared(l))
             /\ l # x /\ dirs'[l] = dirs[l] =>
                  (Cracked(l)' <=> Cracked(l)) /\ (Bereft(l)' <=> Bereft(l))
  <2>1. \A v \in Clerks :
              /\ Building(v)' <=> Building(v)
              /\ Recording(v)' <=> Recording(v)
              /\ Doomed(v)' <=> Doomed(v)
              /\ doing'[v].to = doing[v].to
              /\ v # w => (Clearing(v)' <=> Clearing(v)) /\ doing'[v].step = doing[v].step
    BY <1>1, OthersSame DEF OneMoves
  <2>2. Mentioned(l)' <=> Mentioned(l)
    BY OthersSame
  <2>3. Tended(l)' <=> Tended(l)
    BY <2>1 DEF Tended
  <2>4. l # x => (Cleared(l)' <=> Cleared(l))
    BY <2>1 DEF Cleared
  <2>5. Forsaken(l)' <=> Forsaken(l)
    BY <2>1 DEF Forsaken
  <2>6. l # x /\ dirs'[l] = dirs[l] => (Venv(l)' <=> Venv(l)) /\ (Cracked(l)' <=> Cracked(l))
    BY <2>1 DEF Cracked, Venv
  <2>7. QED
    BY <2>2, <2>3, <2>4, <2>5, <2>6 DEF Bereft
<1>6. QED
  BY <1>2, <1>3, <1>4, <1>5

LEMMA RemoveSomeSolvent ==
  ASSUME InstallTypes, Solvent, NEW w \in Clerks, Install!RemoveSome(w)
  PROVE  Solvent'
<1> PICK x : x = doing[w].to.loc
  OBVIOUS
<1>1. /\ OneMoves(w) /\ doing[w].step = "rmtree" /\ doing'[w].step = "rmdir"
      /\ doing'[w].id = doing[w].id /\ doing'[w].to = doing[w].to /\ UNCHANGED Install!hist
  BY JobGoes DEF Install!RemoveSome, Install!At, OneMoves, InstallSteps
<1>2. x \in Places
  BY <1>1, ClearsOn
<1>3. ~dirs'[x].python /\ \A l \in Places : l # x => dirs'[l] = dirs[l]
  <2>1. PICK s : dirs' = [dirs EXCEPT ![x] = Install!Dir(s, FALSE, {}, Install!NoId)]
    BY DEF Install!RemoveSome
  <2>2. QED
    BY <1>2, <2>1 DEF InstallTypes, Install!Dir
<1>4. Cleared(x)' /\ ~Cracked(x)' /\ ~Bereft(x)'
  BY <1>1 DEF Cleared, Clearing, Cracked, Bereft
<1>5. ASSUME NEW l \in Places
      PROVE  /\ Exposed(l)' => Exposed(l)
             /\ SafeRmdir(l) => SafeRmdir(l)'
             /\ SafeDelete(l) => SafeDelete(l)'
  <2>1. CASE l = x
    BY <1>1, <1>3, <1>4, <2>1, ClearsOn DEF Exposed, SafeRmdir, SafeDelete
  <2>2. CASE l # x
    BY <1>1, <1>3, <2>2, ClearsOn DEF Exposed, SafeRmdir, SafeDelete, Venv
  <2>3. QED
    BY <2>1, <2>2
<1>6. Working(w) /\ Working(w)'
  BY <1>1, ClearsOn
<1>7. Harmless(w) => Harmless(w)'
  <2>1. SafeRmdir(x)'
    BY <1>3 DEF SafeRmdir
  <2>2. (Aligned(w)' <=> Aligned(w)) /\ Install!Kept' = Install!Kept
    BY <1>1, ClearsOn, OthersSame
  <2>3. SafeRmdir(doing[w].to.loc)'
    BY <1>1, <2>1
  <2>4. QED
    BY <1>1, <2>2, <2>3 DEF Harmless, Building, Recording, WriteSteps
<1>8. QED
  BY <1>1, <1>5, <1>6, <1>7, GoesOnSolvent

LEMMA RemoveRestSolvent ==
  ASSUME InstallTypes, Solvent, NEW w \in Clerks, Install!RemoveRest(w)
  PROVE  Solvent'
<1> PICK x : x = doing[w].to.loc
  OBVIOUS
<1>1. /\ OneMoves(w) /\ doing[w].step = "rmdir" /\ doing'[w].step = "delete"
      /\ doing'[w].id = doing[w].id /\ doing'[w].to = doing[w].to /\ UNCHANGED Install!hist
  BY JobGoes DEF Install!RemoveRest, Install!At, OneMoves, InstallSteps
<1>2. x \in Places
  BY <1>1, ClearsOn
<1>3. /\ dirs'[x].state = "absent" /\ ~dirs'[x].python
      /\ \A l \in Places : l # x => dirs'[l] = dirs[l]
  BY <1>2 DEF Install!RemoveRest, InstallTypes, Install!Absent, Install!Dir
<1>4. ~Venv(x)' /\ ~Cracked(x)' /\ ~Bereft(x)'
  BY <1>3 DEF Venv, Cracked, Bereft
<1>5. ASSUME NEW l \in Places
      PROVE  /\ Exposed(l)' => Exposed(l)
             /\ SafeRmdir(l) => SafeRmdir(l)'
             /\ SafeDelete(l) => SafeDelete(l)'
  <2>1. CASE l = x
    BY <1>1, <1>3, <1>4, <2>1, ClearsOn DEF Exposed, SafeRmdir, SafeDelete
  <2>2. CASE l # x
    BY <1>1, <1>3, <2>2, ClearsOn DEF Exposed, SafeRmdir, SafeDelete, Venv
  <2>3. QED
    BY <2>1, <2>2
<1>6. Working(w) /\ Working(w)'
  BY <1>1, ClearsOn
<1>7. Harmless(w) => Harmless(w)'
  <2>1. SafeDelete(doing[w].to.loc)'
    BY <1>1, <1>4 DEF SafeDelete
  <2>2. (Aligned(w)' <=> Aligned(w)) /\ Install!Kept' = Install!Kept
    BY <1>1, ClearsOn, OthersSame
  <2>3. QED
    BY <1>1, <2>1, <2>2 DEF Harmless, Building, Recording, WriteSteps
<1>8. QED
  BY <1>1, <1>5, <1>6, <1>7, GoesOnSolvent

\* The last step of a command that has stored its receipt.
LEMMA MirrorSolvent ==
  ASSUME InstallTypes, Solvent, NEW w \in Clerks, Install!Mirror(w)
  PROVE  Solvent'
<1> PICK x : x = doing[w].to.loc
  OBVIOUS
<1>1. doing[w].step = "mirror" /\ UNCHANGED Install!hist
  BY DEF Install!Mirror, Install!At
<1>2. /\ ~Building(w) /\ ~Recording(w) /\ ~Clearing(w) /\ ~Working(w)
  BY <1>1 DEF Building, Recording, Clearing, WriteSteps, Working
<1>3. \A l \in Places : dirs'[l].state = dirs[l].state /\ dirs'[l].python = dirs[l].python
  <2>1. x \in Places
    BY <1>1, JobFieldsAre
  <2>2. PICK r : dirs' = dirs \/ dirs' = [dirs EXCEPT ![x] = [dirs[x] EXCEPT !.mirror = r]]
    BY <2>1 DEF Install!Mirror, InstallTypes
  <2>3. QED
    BY <2>1, <2>2 DEF InstallTypes, DirType
<1>4. Quits(w)
  BY <1>1, <1>3, JobEnds DEF Install!Mirror, Quits, OneMoves, Venv
<1>5. Debts' \subseteq Debts
  BY <1>2, <1>4, QuitsLeave, DebtsLess
<1>6. \A v \in Clerks : Working(v) /\ Harmless(v) => Working(v)' /\ Harmless(v)'
  BY <1>2, <1>4, QuitsLeave, QuitHarmless
<1>7. QED
  BY <1>1, <1>5, <1>6, PaidSame, SolventSame

\* A command fails for the interpreter is gone.
LEMMA PipMissingSolvent ==
  ASSUME InstallTypes, Solvent, NEW w \in Clerks, Install!PipMissing(w)
  PROVE  Solvent'
<1> PICK x : x = doing[w].to.loc
  OBVIOUS
<1>1. /\ doing[w].step = "pip" /\ UNCHANGED Install!hist /\ ~dirs[x].python /\ dirs' = dirs
      /\ Building(w)
  BY DEF Install!PipMissing, Install!At, Building, WriteSteps
<1>2. Quits(w)
  BY <1>1, JobEnds DEF Install!PipMissing, Quits, OneMoves, Venv
<1>3. CASE Doomed(w)
  BY <1>1, <1>2, <1>3, QuitDoomed
<1>4. CASE ~Doomed(w)
  <2>1. Working(w)
    BY <1>1, <1>4 DEF Working
  <2>2. x \in Places
    BY <1>2, QuitsLeave
  <2>3. /\ Forsaken(x)' => Forsaken(x)
        /\ Cracked(x) <=> Cracked(x)'
        /\ Cleared(x) <=> Cleared(x)'
    BY <1>1, <1>2, <2>2, QuitFrame
  <2>4. Bereft(x)' => Cracked(x)'
    BY <1>1 DEF Bereft, Cracked, Cleared, Clearing
  <2>5. \A l \in Places : Exposed(l)' => Exposed(l)
    BY <1>2, <2>3, <2>4, QuitsLeave DEF Exposed
  <2>6. QED
    BY <1>1, <1>2, <2>1, <2>5, QuitClean
<1>5. QED
  BY <1>3, <1>4

LEMMA FaultSolvent ==
  ASSUME InstallTypes, Solvent, NEW w \in Clerks, Install!PipFails(w) \/ Install!Crash(w)
  PROVE  Solvent'
<1>1. doing[w].step # "idle"
  <2>1. CASE Install!PipFails(w)
    BY <2>1 DEF Install!PipFails, Install!At
  <2>2. CASE Install!Crash(w)
    BY <2>2 DEF Install!Crash, Install!Free, InstallTypes, JobType, InstallSteps, WriteSteps
  <2>3. QED
    BY <2>1, <2>2
<1>2. Quits(w)
  BY <1>1, JobEnds DEF Install!PipFails, Install!Crash, Quits, OneMoves, Venv
<1>3. faults' = faults + 1 /\ races' = races /\ moves' = moves
  BY DEF Install!PipFails, Install!Crash, Install!Fault
<1>4. QED
  BY <1>2, <1>3, QuitPays

\* A new receipt: the command's debt is paid, and no job is about it.
LEMMA SaveNewSolvent ==
  ASSUME InstallTypes, Solvent, NEW w \in Clerks, NEW r \in Install!Ids, Install!SaveNew(w, r)
  PROVE  Solvent'
<1> PICK x : x = doing[w].to.loc
  OBVIOUS
<1>1. /\ doing[w].step = "save" /\ doing[w].id = Install!NoId /\ UNCHANGED Install!hist
      /\ Building(w) /\ ~Doomed(w) /\ Working(w) /\ dirs' = dirs
  BY DEF Install!SaveNew, Install!At, Building, WriteSteps, Doomed, Working
<1>2. x \in Places /\ doing[w] \in JobType /\ doing[w].to \in ReceiptType
  BY <1>1, JobFieldsAre
<1>3. /\ doing'[w].step = "mirror"
      /\ \A v \in Clerks : v # w => doing'[v] = doing[v]
  BY <1>2 DEF Install!SaveNew, InstallTypes, JobType
<1>4. /\ Install!Kept' = Install!Kept \union {r} /\ receipts'[r] = doing[w].to
      /\ \A u \in Install!Kept : u # r => receipts'[u] = receipts[u]
  BY <1>2, StoredIs DEF Install!SaveNew
<1>5. ~Building(w)' /\ ~Recording(w)' /\ ~Clearing(w)' /\ ~Working(w)' /\ ~Clearing(w)
  BY <1>1, <1>3 DEF Building, Recording, Clearing, WriteSteps, Working
<1>6. ASSUME NEW v \in Clerks, v # w
      PROVE  /\ Building(v)' <=> Building(v)
             /\ Recording(v)' <=> Recording(v)
             /\ Clearing(v)' <=> Clearing(v)
             /\ Doomed(v)' <=> Doomed(v)
             /\ Working(v)' <=> Working(v)
             /\ doing'[v] = doing[v]
  <2>1. Building(v) \/ Recording(v) => doing[v].id # r
    <3>1. Building(v) \/ Recording(v) => doing[v] # Install!Idle
      BY DEF Building, Recording, WriteSteps, Install!Idle
    <3>2. QED
      BY <3>1 DEF Install!SaveNew, Install!Free
  <2>2. QED
    BY <1>3, <1>4, <1>6, <2>1 DEF Building, Recording, Clearing, Doomed, Working
<1>7. ASSUME NEW l \in Places PROVE Exposed(l)' => Exposed(l)
  <2>1. Forsaken(l)' => Forsaken(l)
    BY <1>5, <1>6 DEF Forsaken
  <2>2. Cracked(l)' => Cracked(l)
    BY <1>1, <1>3 DEF Cracked, Venv
  <2>3. Cleared(l) => Cleared(l)'
    BY <1>5, <1>6 DEF Cleared
  <2>4. l # x => (Tended(l) => Tended(l)')
    BY <1>6 DEF Tended
  <2>5. Mentioned(l) \/ l = x => Mentioned(l)'
    BY <1>4 DEF Mentioned, Install!SaveNew
  <2>6. Bereft(l)' => Bereft(l)
    BY <1>1, <2>3, <2>4, <2>5 DEF Bereft, Venv
  <2>7. QED
    BY <2>1, <2>2, <2>6 DEF Exposed
<1>8. Debts' \subseteq Debts \ {<<"by", w>>}
  BY <1>5, <1>6, <1>7, DebtsFewer
<1>9. <<"by", w>> \in Debts
  BY <1>1, DebtsAre
<1>10. Debts' # Debts /\ Debts' \subseteq Debts
  BY <1>8, <1>9
<1>11. QED
  BY <1>1, <1>10, PaidSame, SolventSame

\* A command begins: beside another for a race, alone it is harmless, unless
\* it moves an instance.
LEMMA StartSolvent ==
  ASSUME InstallTypes, Solvent, NEW w \in Clerks, OneMoves(w), dirs' = dirs,
         doing[w] = Install!Idle, doing[w].step = "idle",
         ~Doomed(w)', doing'[w].step \notin {"idle", "mirror", "rmdir"},
         faults' = faults, races' \in Nat, races <= races', moves' \in Nat, moves <= moves',
         races + 1 <= races' \/ \A v \in Clerks : v # w => doing[v] = Install!Idle,
         Harmless(w)' \/ moves + 1 <= moves'
  PROVE  Solvent'
<1>1. /\ Paid \in Nat /\ Paid' \in Nat /\ Paid <= Paid'
      /\ races + 1 <= races' \/ moves + 1 <= moves' => Paid + 1 <= Paid'
  <2>1. faults \in Nat /\ faults' \in Nat /\ faults <= faults'
    BY DEF InstallTypes
  <2>2. QED
    BY <2>1, PaidGrows
<1>2. Debts' \subseteq Debts \union {<<"by", w>>}
  BY TakesOn DEF Debts
<1>3. ~Working(w)
  BY DEF Working
<1>4. Working(w)'
  BY DEF Working
<1>5. CASE races + 1 <= races'
  <2>1. \A v \in Clerks : Working(v) /\ Harmless(v) => Working(v)' /\ Harmless(v)'
    BY <1>3, TakesOn
  <2>2. QED
    BY <1>1, <1>2, <1>5, <2>1, SolventMore
<1>6. CASE \A v \in Clerks : v # w => doing[v] = Install!Idle
  <2>1. \A v \in Clerks : ~Working(v)
    BY <1>3, <1>6 DEF Working, Install!Idle
  <2>2. QED
    BY <1>1, <1>2, <1>4, <2>1, SolventFirst
<1>7. QED
  BY <1>5, <1>6

LEMMA StartCreateSolvent ==
  ASSUME InstallTypes, Solvent, NEW w \in Clerks, NEW m \in Names, NEW l \in Places,
         NEW gs \in SUBSET Groups, NEW b \in BOOLEAN, Install!StartCreate(w, m, l, gs, b)
  PROVE  Solvent'
<1>1. PICK to \in JobType :
           /\ doing' = [doing EXCEPT ![w] = to] /\ to.step \in {"clear", "build"}
           /\ to.id = Install!Find(m) /\ to.to.loc = l
           /\ to.id = Install!NoId \/ to.id \in Install!Kept
  BY StartCreateJob
<1>2. doing'[w] = to /\ OneMoves(w) /\ dirs' = dirs
  BY <1>1 DEF OneMoves, InstallTypes, Install!StartCreate
<1>3. Install!Kept' = Install!Kept
  BY <1>2, OthersSame
<1>4. ~Doomed(w)' /\ Building(w)'
  BY <1>1, <1>2, <1>3 DEF Doomed, Building, WriteSteps
<1>5. Harmless(w)' \/ moves + 1 <= moves'
  <2>1. to.id = Install!NoId \/ receipts[to.id].loc = l \/ moves + 1 <= moves'
    BY <1>1, StartCreatePaid
  <2>2. to.id = Install!NoId => Harmless(w)'
    BY <1>2, <1>4 DEF Harmless
  <2>3. to.id # Install!NoId /\ receipts[to.id].loc = l => Harmless(w)'
    BY <1>1, <1>2, <1>3, <1>4 DEF Harmless, Aligned, OneMoves
  <2>4. QED
    BY <2>1, <2>2, <2>3
<1>6. QED
  BY <1>1, <1>2, <1>4, <1>5, StartCreatePaid, StartSolvent

LEMMA StartRemoveSolvent ==
  ASSUME InstallTypes, Solvent, NEW w \in Clerks, NEW m \in Names, Install!StartRemove(w, m)
  PROVE  Solvent'
<1>1. PICK to \in JobType :
           /\ doing' = [doing EXCEPT ![w] = to] /\ to.step \in {"rmtree", "delete"}
           /\ to.id \in Install!Kept /\ to.to.loc = receipts[to.id].loc
           /\ to.step = "delete" => dirs[to.to.loc].state = "absent"
  BY StartRemoveJob
<1>2. doing'[w] = to /\ OneMoves(w) /\ dirs' = dirs /\ moves' = moves /\ Install!Begins(w, FALSE)
  BY <1>1 DEF OneMoves, InstallTypes, Install!StartRemove
<1>3. Install!Kept' = Install!Kept
  BY <1>2, OthersSame
<1>4. ~Doomed(w)'
  BY <1>1, <1>2 DEF Doomed, Building, Recording, WriteSteps
<1>5. Harmless(w)'
  <2>1. Aligned(w)'
    BY <1>1, <1>2, <1>3 DEF Aligned, OneMoves
  <2>2. to.step = "delete" => SafeDelete(doing[w].to.loc)'
    BY <1>1, <1>2 DEF SafeDelete, Venv
  <2>3. QED
    BY <1>1, <1>2, <2>1, <2>2 DEF Harmless
<1>6. moves' \in Nat /\ moves <= moves'
  BY <1>2 DEF InstallTypes
<1>7. QED
  BY <1>1, <1>2, <1>4, <1>5, <1>6, BeginsPaid, StartSolvent

LEMMA DoctorSolvent ==
  ASSUME InstallTypes, Solvent, NEW w \in Clerks, NEW m \in Names, Install!Doctor(w, m)
  PROVE  Solvent'
<1>1. PICK to : Looks(w, to) /\ to.step = "look"
  BY DoctorJob
<1>2. doing'[w] = to /\ OneMoves(w) /\ dirs' = dirs /\ moves' = moves /\ Install!Begins(w, FALSE)
  BY <1>1 DEF OneMoves, InstallTypes, Install!Doctor, Looks
<1>3. ~Doomed(w)' /\ Harmless(w)'
  BY <1>1, <1>2 DEF Doomed, Building, Recording, WriteSteps, Harmless
<1>4. moves' \in Nat /\ moves <= moves'
  BY <1>2 DEF InstallTypes
<1>5. QED
  BY <1>1, <1>2, <1>3, <1>4, BeginsPaid, StartSolvent

LEMMA RecordLookSolvent ==
  ASSUME InstallTypes, Solvent, NEW w \in Clerks, Install!RecordLook(w)
  PROVE  Solvent'
<1>1. /\ doing[w].step = "look" /\ UNCHANGED Install!hist /\ dirs' = dirs /\ receipts' = receipts
      /\ Working(w) /\ ~Building(w) /\ ~Recording(w) /\ ~Clearing(w)
  BY DEF Install!RecordLook, Install!At, Building, Recording, Clearing, WriteSteps, Working, Doomed
<1>2. CASE Install!Ends(w)
  <2>1. Quits(w)
    BY <1>1, <1>2, JobEnds DEF Quits, OneMoves, Venv
  <2>2. QED
    BY <1>1, <2>1, QuitsLeave, QuitClean
<1>3. CASE \E to : Looks(w, to) /\ to.step = "record"
  <2>1. PICK to : Looks(w, to) /\ to.step = "record"
    BY <1>3
  <2>2. doing'[w] = to /\ OneMoves(w)
    BY <1>1, <2>1 DEF OneMoves, InstallTypes, Looks
  <2>3. Install!Kept' = Install!Kept
    BY <2>2, OthersSame
  <2>4. Aligned(w)' /\ ~Doomed(w)'
    BY <1>1, <2>1, <2>2, <2>3 DEF Aligned, Looks, Doomed
  <2>5. Working(w)' /\ Harmless(w)'
    BY <2>1, <2>2, <2>4 DEF Working, Harmless, Recording
  <2>6. Debts' \subseteq Debts
    BY <1>1, <2>1, <2>2, <2>4, TakesOn, DebtsLess
  <2>7. \A v \in Clerks : Working(v) /\ Harmless(v) => Working(v)' /\ Harmless(v)'
    BY <1>1, <2>1, <2>2, <2>4, <2>5, TakesOn
  <2>8. QED
    BY <1>1, <2>6, <2>7, PaidSame, SolventSame
<1>4. QED
  BY <1>2, <1>3, RecordLookJob

\* A receipt is written over: it is at the command's directory now, and the
\* one it was at may be bereft.
LEMMA StoreSolvent ==
  ASSUME InstallTypes, Solvent, NEW w \in Clerks, UNCHANGED Install!hist, dirs' = dirs,
         Building(w) \/ Recording(w), doing[w].id \in Install!Kept,
         receipts' = Install!Store(doing[w].id, doing[w].to),
         \A v \in Clerks : v # w => doing'[v] = doing[v], doing'[w].step \in {"mirror", "idle"}
  PROVE  Solvent'
<1> PICK x : x = doing[w].to.loc
  OBVIOUS
<1> PICK r : r = doing[w].id
  OBVIOUS
<1> PICK y : y = receipts[r].loc
  OBVIOUS
<1>1. doing[w].step # "idle" /\ ~Doomed(w) /\ Working(w) /\ ~Clearing(w)
  BY DEF Building, Recording, Clearing, WriteSteps, Doomed, Working
<1>2. x \in Places /\ doing[w].to \in ReceiptType /\ r \in Install!Ids /\ y \in Places
  BY <1>1, JobFieldsAre DEF InstallTypes, ReceiptType
<1>3. /\ Install!Kept' = Install!Kept /\ receipts'[r].loc = x /\ r \in Install!Kept
      /\ \A u \in Install!Kept : u # r => receipts'[u] = receipts[u]
  BY <1>2, StoredIs
<1>4. ~Building(w)' /\ ~Recording(w)' /\ ~Clearing(w)' /\ ~Working(w)'
  BY DEF Building, Recording, Clearing, WriteSteps, Working
<1>5. ASSUME NEW v \in Clerks, v # w
      PROVE  /\ Building(v)' <=> Building(v)
             /\ Recording(v)' <=> Recording(v)
             /\ Clearing(v)' <=> Clearing(v)
             /\ Doomed(v)' <=> Doomed(v)
             /\ Working(v)' <=> Working(v)
             /\ doing'[v] = doing[v]
  BY <1>3, <1>5 DEF Building, Recording, Clearing, Doomed, Working
<1>6. ASSUME NEW l \in Places
      PROVE  /\ Forsaken(l)' <=> Forsaken(l)
             /\ Cracked(l)' <=> Cracked(l)
             /\ Cleared(l)' <=> Cleared(l)
             /\ Tended(l)' => Tended(l)
             /\ l # x => (Tended(l) => Tended(l)')
             /\ l # y => (Mentioned(l) => Mentioned(l)')
             /\ Bereft(l)' => Bereft(l) \/ l = y
             /\ Venv(l)' <=> Venv(l)
  <2>1. Forsaken(l)' <=> Forsaken(l)
    BY <1>1, <1>4, <1>5 DEF Forsaken
  <2>2. (Cracked(l)' <=> Cracked(l)) /\ (Venv(l)' <=> Venv(l))
    <3>1. \A v \in Clerks : /\ doing[v].step = "rmdir" => doing'[v] = doing[v]
                            /\ doing'[v].step = "rmdir" => doing'[v] = doing[v]
      BY <1>5 DEF Building, Recording, WriteSteps
    <3>2. QED
      BY <3>1 DEF Cracked, Venv
  <2>3. Cleared(l)' <=> Cleared(l)
    BY <1>1, <1>4, <1>5 DEF Cleared
  <2>4. (Tended(l)' => Tended(l)) /\ (l # x => (Tended(l) => Tended(l)'))
    BY <1>4, <1>5 DEF Tended
  <2>5. l # y => (Mentioned(l) => Mentioned(l)')
    BY <1>3 DEF Mentioned
  <2>6. l = x => Mentioned(l)'
    BY <1>3 DEF Mentioned
  <2>7. Bereft(l)' => Bereft(l) \/ l = y
    BY <2>2, <2>3, <2>4, <2>5, <2>6 DEF Bereft
  <2>8. QED
    BY <2>1, <2>2, <2>3, <2>4, <2>5, <2>7
<1>7. Mentioned(x)'
  BY <1>3 DEF Mentioned
<1>8. \A l \in Places : Exposed(l)' => Exposed(l) \/ l = y
  BY <1>6 DEF Exposed
<1>9. \A v \in Clerks : Working(v)' => Working(v)
  BY <1>4, <1>5
<1>10. <<"by", w>> \in Debts
  BY <1>1, DebtsAre
<1>11. CASE \A l \in Places : Exposed(l)' => Exposed(l)
  <2>1. Debts' \subseteq Debts \ {<<"by", w>>}
    BY <1>4, <1>9, <1>11, DebtsFewer
  <2>2. Debts' # Debts /\ Debts' \subseteq Debts
    BY <1>10, <2>1
  <2>3. QED
    BY <2>2, PaidSame, SolventSame
<1>12. CASE ~ \A l \in Places : Exposed(l)' => Exposed(l)
  <2>1. Exposed(y)' /\ ~Exposed(y)
    BY <1>8, <1>12
  <2>2. Bereft(y)' /\ Venv(y)
    BY <1>2, <1>6, <2>1 DEF Exposed, Bereft
  <2>3. ~Mentioned(y)' /\ ~Tended(y)' /\ ~Cleared(y)' /\ y # x
    BY <1>7, <2>2 DEF Bereft
  <2>4. ~Tended(y) /\ ~Cleared(y)
    BY <1>2, <1>6, <2>3
  <2>5. ~Harmless(w)
    BY <1>1, <1>3, <2>3, NoIdIsNone DEF Harmless, Aligned, Building, Recording, WriteSteps
  <2>6. ASSUME NEW v \in Clerks, v # w, Working(v), Harmless(v) PROVE Harmless(v)'
    <3> PICK l : l = doing[v].to.loc
      OBVIOUS
    <3>1. l \in Places /\ doing'[v] = doing[v] /\ ~Doomed(v)
      BY <1>5, <2>6, JobFieldsAre DEF Working
    <3>2. doing[v].id # r => (Aligned(v) => Aligned(v)')
      BY <1>3, <3>1 DEF Aligned
    <3>3. doing[v].id = r /\ Aligned(v) => l = y
      BY DEF Aligned
    <3>4. l = y => ~(Building(v) \/ Recording(v) \/ Clearing(v))
      BY <2>4, <3>1 DEF Tended, Cleared
    <3>5. CASE Building(v) \/ Recording(v)
      BY <2>6, <3>1, <3>2, <3>3, <3>4, <3>5, <1>5 DEF Harmless, Building, Recording, WriteSteps
    <3>6. CASE doing[v].step \in {"look", "rmtree"}
      BY <1>3, <2>6, <3>1, <3>2, <3>3, <3>4, <3>6 DEF Harmless, Building, Recording, Clearing,
         WriteSteps
    <3>7. CASE doing[v].step = "rmdir"
      <4>1. l # y
        BY <3>4, <3>7 DEF Clearing
      <4>2. SafeRmdir(l) => SafeRmdir(l)'
        BY <1>6, <1>7, <3>1, <4>1 DEF SafeRmdir
      <4>3. Aligned(v) \/ (doing[v].id \notin Install!Kept /\ SafeRmdir(l))
        BY <2>6, <3>7 DEF Harmless, Building, Recording, WriteSteps
      <4>4. Aligned(v)' \/ (doing'[v].id \notin Install!Kept' /\ SafeRmdir(l)')
        BY <1>3, <3>1, <3>2, <3>3, <4>1, <4>2, <4>3
      <4>5. QED
        BY <3>1, <3>7, <4>4 DEF Harmless
    <3>8. CASE doing[v].step = "delete"
      <4>1. doing[v].id \notin Install!Kept \/ (Aligned(v) /\ (Doubled(v) \/ SafeDelete(l)))
        BY <2>6, <3>8 DEF Harmless, Building, Recording, WriteSteps
      <4>2. CASE doing[v].id \notin Install!Kept
        BY <1>3, <3>1, <3>8, <4>2 DEF Harmless
      <4>3. CASE doing[v].id = r
        <5>1. l = y /\ (Doubled(v) \/ SafeDelete(l))
          BY <1>3, <3>3, <4>1, <4>3
        <5>2. ~SafeDelete(l)
          BY <2>1, <2>2, <2>4, <5>1 DEF SafeDelete
        <5>3. ~Doubled(v)
          BY <1>3, <2>3, <4>3, <5>1 DEF Doubled, Mentioned
        <5>4. QED
          BY <5>1, <5>2, <5>3
      <4>4. CASE doing[v].id # r /\ doing[v].id \in Install!Kept
        <5>1. Aligned(v)' /\ Aligned(v) /\ (Doubled(v) \/ SafeDelete(l))
          BY <3>2, <4>1, <4>4
        <5>2. l = y => SafeDelete(l)'
          BY <2>1 DEF SafeDelete
        <5>3. l # y /\ Doubled(v) => Doubled(v)'
          BY <1>3, <3>1 DEF Doubled
        <5>4. l = x => Doubled(v)'
          BY <1>3, <3>1, <4>4 DEF Doubled
        <5>5. ~Bereft(l)
          BY <5>1 DEF Bereft, Mentioned, Aligned
        <5>6. l # x /\ SafeDelete(l) => SafeDelete(l)'
          BY <1>6, <3>1, <5>5 DEF SafeDelete, Exposed
        <5>7. QED
          BY <3>1, <3>8, <5>1, <5>2, <5>3, <5>4, <5>6 DEF Harmless
      <4>5. QED
        BY <4>2, <4>3, <4>4
    <3>9. QED
      BY <2>6, <3>5, <3>6, <3>7, <3>8 DEF Harmless
  <2>7. \A v \in Clerks : Working(v) /\ Harmless(v) => Working(v)' /\ Harmless(v)'
    BY <1>5, <2>5, <2>6
  <2>8. Debts' \subseteq (Debts \ {<<"by", w>>}) \union {<<"at", y>>}
    BY <1>2, <1>4, <1>8, <1>9, DebtsMoved
  <2>9. QED
    BY <1>10, <2>7, <2>8, PaidSame, SolventSwap
<1>13. QED
  BY <1>11, <1>12

\* A receipt is deleted: its directory may be bereft, which the command pays
\* for; another that is to replace the receipt is doomed, and pays for its own.
Heir(w, v) == v # w /\ (Building(v) \/ Recording(v)) /\ doing[v].id = doing[w].id
Bequest(w) ==
  [d \in Debts |->
     IF d = <<"by", w>> THEN <<"at", receipts[doing[w].id].loc>>
     ELSE IF \E v \in Clerks : Heir(w, v) /\ d = <<"by", v>>
     THEN <<"at", doing[d[2]].to.loc>> ELSE d]

LEMMA BequestIs ==
  ASSUME NEW w \in Clerks, Working(w)
  PROVE  /\ Bequest(w)[<<"by", w>>] = <<"at", receipts[doing[w].id].loc>>
         /\ \A v \in Clerks : Heir(w, v) /\ Working(v) =>
              Bequest(w)[<<"by", v>>] = <<"at", doing[v].to.loc>>
         /\ \A v \in Clerks : v # w /\ ~Heir(w, v) /\ Working(v) =>
              Bequest(w)[<<"by", v>>] = <<"by", v>>
         /\ \A l \in Places : Exposed(l) => Bequest(w)[<<"at", l>>] = <<"at", l>>
<1>1. /\ \A l \in Places : Exposed(l) => <<"at", l>> \in Debts
      /\ \A v \in Clerks : Working(v) => <<"by", v>> \in Debts
  BY DebtsAre
<1> USE DEF Bequest
<1>2. Bequest(w)[<<"by", w>>] = <<"at", receipts[doing[w].id].loc>>
  BY <1>1
<1>3. ASSUME NEW v \in Clerks, Heir(w, v), Working(v)
      PROVE  Bequest(w)[<<"by", v>>] = <<"at", doing[v].to.loc>>
  BY <1>1, <1>3 DEF Heir
<1>4. ASSUME NEW v \in Clerks, v # w, ~Heir(w, v), Working(v)
      PROVE  Bequest(w)[<<"by", v>>] = <<"by", v>>
  BY <1>1, <1>4
<1>5. ASSUME NEW l \in Places, Exposed(l)
      PROVE  Bequest(w)[<<"at", l>>] = <<"at", l>>
  BY <1>1, <1>5
<1>6. QED
  BY <1>2, <1>3, <1>4, <1>5

LEMMA DeleteFrame ==
  ASSUME InstallTypes, NEW w \in Clerks, Install!RemoveReceipt(w),
         NEW r \in Install!Kept, r = doing[w].id, NEW y, y = receipts[r].loc
  PROVE  /\ Working(w) /\ ~Working(w)' /\ y \in Places
         /\ Install!Kept' = Install!Kept \ {r}
         /\ \A u \in Install!Kept \ {r} : receipts'[u] = receipts[u]
         /\ \A v \in Clerks : v # w =>
              /\ doing'[v] = doing[v]
              /\ Working(v)' <=> Working(v) /\ ~Heir(w, v)
              /\ Working(v) /\ Building(v) /\ Heir(w, v) => Forsaken(doing[v].to.loc)'
         /\ \A l \in Places :
              /\ Venv(l)' <=> Venv(l)
              /\ dirs'[l].python = dirs[l].python
              /\ Cracked(l)' <=> Cracked(l)
              /\ Cleared(l)' <=> Cleared(l)
              /\ Forsaken(l) => Forsaken(l)'
              /\ Forsaken(l)' => Forsaken(l) \/ \E v \in Clerks :
                                   Heir(w, v) /\ Working(v) /\ doing[v].to.loc = l
              /\ Tended(l) => Tended(l)' \/ \E v \in Clerks :
                                   Heir(w, v) /\ Working(v) /\ doing[v].to.loc = l
              /\ l # y => (Mentioned(l) => Mentioned(l)')
<1>1. doing[w].step = "delete" /\ dirs' = dirs
  BY DEF Install!RemoveReceipt, Install!At
<1>2. /\ doing'[w].step = "idle" /\ \A v \in Clerks : v # w => doing'[v] = doing[v]
  BY JobEnds DEF Install!RemoveReceipt
<1>3. /\ ~Building(w) /\ ~Recording(w) /\ ~Clearing(w) /\ ~Doomed(w)
      /\ ~Building(w)' /\ ~Recording(w)' /\ ~Clearing(w)' /\ ~Working(w)' /\ Working(w)
  BY <1>1, <1>2 DEF Building, Recording, Clearing, Doomed, Working, WriteSteps
<1>4. /\ Install!Kept' = Install!Kept \ {r}
      /\ \A u \in Install!Kept \ {r} : receipts'[u] = receipts[u]
  BY DEF Install!RemoveReceipt, Install!Restrict, Install!Kept
<1>5. y \in Places
  BY DEF InstallTypes, ReceiptType
<1>6. r # Install!NoId
  BY NoIdIsNone
<1>7. ASSUME NEW v \in Clerks, v # w
      PROVE  /\ Building(v)' <=> Building(v)
             /\ Recording(v)' <=> Recording(v)
             /\ Clearing(v)' <=> Clearing(v)
             /\ Doomed(v) => Doomed(v)'
             /\ Doomed(v)' => Doomed(v) \/ (Heir(w, v) /\ Working(v))
             /\ Heir(w, v) => Doomed(v)'
             /\ Working(v)' <=> Working(v) /\ ~Heir(w, v)
             /\ doing'[v] = doing[v]
  <2>1. /\ Building(v)' <=> Building(v)
        /\ Recording(v)' <=> Recording(v)
        /\ Clearing(v)' <=> Clearing(v)
    BY <1>2, <1>7 DEF Building, Recording, Clearing
  <2>2. Heir(w, v) => ~Doomed(v) /\ Working(v)
    BY DEF Heir, Doomed, Working, Building, Recording, WriteSteps
  <2>3. (Building(v) \/ Recording(v)) /\ doing[v].id = r <=> Heir(w, v)
    BY <1>7 DEF Heir
  <2>4. /\ Doomed(v) => Doomed(v)'
        /\ Doomed(v)' => Doomed(v) \/ Heir(w, v)
        /\ Heir(w, v) => Doomed(v)'
    BY <1>2, <1>4, <1>6, <1>7, <2>1, <2>3 DEF Doomed
  <2>5. Working(v)' <=> Working(v) /\ ~Heir(w, v)
    BY <1>2, <1>7, <2>2, <2>4 DEF Working
  <2>6. QED
    BY <1>2, <1>7, <2>1, <2>2, <2>4, <2>5
<1>8. ASSUME NEW v \in Clerks, v # w, Building(v), Heir(w, v)
      PROVE  Forsaken(doing[v].to.loc)'
  <2>1. Building(v)' /\ Doomed(v)' /\ doing'[v] = doing[v]
    BY <1>7, <1>8
  <2>2. QED
    BY <2>1 DEF Forsaken
<1>9. ASSUME NEW l \in Places
      PROVE   /\ Venv(l)' <=> Venv(l)
              /\ dirs'[l].python = dirs[l].python
              /\ Cracked(l)' <=> Cracked(l)
              /\ Cleared(l)' <=> Cleared(l)
              /\ Forsaken(l) => Forsaken(l)'
              /\ Forsaken(l)' => Forsaken(l) \/ \E v \in Clerks :
                                   Heir(w, v) /\ Working(v) /\ doing[v].to.loc = l
              /\ Tended(l) => Tended(l)' \/ \E v \in Clerks :
                                   Heir(w, v) /\ Working(v) /\ doing[v].to.loc = l
              /\ l # y => (Mentioned(l) => Mentioned(l)')
  <2>1. (Venv(l)' <=> Venv(l)) /\ dirs'[l].python = dirs[l].python
    BY <1>1 DEF Venv
  <2>2. Cracked(l)' <=> Cracked(l)
    BY <1>1, <1>2, <2>1 DEF Cracked
  <2>3. Cleared(l)' <=> Cleared(l)
    BY <1>3, <1>7 DEF Cleared
  <2>4. Forsaken(l) => Forsaken(l)'
    BY <1>3, <1>7 DEF Forsaken
  <2>5. Forsaken(l)' => Forsaken(l) \/ \E v \in Clerks :
                                   Heir(w, v) /\ Working(v) /\ doing[v].to.loc = l
    BY <1>3, <1>7 DEF Forsaken
  <2>6. Tended(l) => Tended(l)' \/ \E v \in Clerks :
                                   Heir(w, v) /\ Working(v) /\ doing[v].to.loc = l
    BY <1>3, <1>7 DEF Tended
  <2>7. l # y => (Mentioned(l) => Mentioned(l)')
    BY <1>4 DEF Mentioned
  <2>8. QED
    BY <2>1, <2>2, <2>3, <2>4, <2>5, <2>6, <2>7
<1>10. QED
  BY <1>2, <1>3, <1>4, <1>5, <1>7, <1>8, <1>9

LEMMA DeleteCharged ==
  ASSUME InstallTypes, NEW w \in Clerks, Install!RemoveReceipt(w),
         NEW r \in Install!Kept, r = doing[w].id, NEW y, y = receipts[r].loc
  PROVE  /\ \A l \in Places : Exposed(l)' => Exposed(l) \/ l = y \/ \E v \in Clerks :
                                   Heir(w, v) /\ Working(v) /\ doing[v].to.loc = l
         /\ Charged(Debts', Debts, Bequest(w))
         /\ (Exposed(y)' => Exposed(y) \/ \E v \in Clerks :
                                   Heir(w, v) /\ Working(v) /\ doing[v].to.loc = y) =>
              Forgiven(Debts', Debts, Bequest(w))
         /\ \A v \in Clerks : Heir(w, v) /\ Working(v) /\ ~Exposed(doing[v].to.loc)' =>
              Forgiven(Debts', Debts, Bequest(w))
<1> DEFINE Left(l) == \E v \in Clerks : Heir(w, v) /\ Working(v) /\ doing[v].to.loc = l
<1>a. /\ Working(w) /\ ~Working(w)' /\ y \in Places
      /\ \A v \in Clerks : v # w =>
           /\ doing'[v] = doing[v]
           /\ Working(v)' <=> Working(v) /\ ~Heir(w, v)
      /\ \A v \in Clerks : Heir(w, v) => v # w
  BY DeleteFrame DEF Heir
<1>b. ASSUME NEW l \in Places
      PROVE  /\ Venv(l)' <=> Venv(l)
             /\ Cracked(l)' <=> Cracked(l)
             /\ Cleared(l)' <=> Cleared(l)
             /\ Forsaken(l)' => Forsaken(l) \/ Left(l)
             /\ Tended(l) => Tended(l)' \/ Left(l)
             /\ l # y => (Mentioned(l) => Mentioned(l)')
  BY DeleteFrame
<1>c. /\ \A v \in Clerks : Heir(w, v) /\ Working(v) =>
           Bequest(w)[<<"by", v>>] = <<"at", doing[v].to.loc>> /\ <<"by", v>> \in Debts
      /\ \A v \in Clerks : v # w /\ ~Heir(w, v) /\ Working(v) =>
           Bequest(w)[<<"by", v>>] = <<"by", v>> /\ <<"by", v>> \in Debts
      /\ \A l \in Places : Exposed(l) =>
           Bequest(w)[<<"at", l>>] = <<"at", l>> /\ <<"at", l>> \in Debts
      /\ Bequest(w)[<<"by", w>>] = <<"at", y>> /\ <<"by", w>> \in Debts
  BY <1>a, BequestIs, DebtsAre
<1>1. ASSUME NEW l \in Places PROVE Exposed(l)' => Exposed(l) \/ l = y \/ Left(l)
  <2>1. Bereft(l)' => Bereft(l) \/ l = y \/ Left(l)
    BY <1>b DEF Bereft
  <2>2. QED
    BY <1>b, <2>1 DEF Exposed
<1>2. ASSUME NEW l \in Places, Exposed(l)
      PROVE  \E d \in Debts : Bequest(w)[d] = <<"at", l>> /\ d # <<"by", w>>
  BY <1>2, <1>c
<1>3. ASSUME NEW l \in Places, Left(l)
      PROVE  \E d \in Debts : Bequest(w)[d] = <<"at", l>> /\ d # <<"by", w>>
  <2>1. PICK v \in Clerks : Heir(w, v) /\ Working(v) /\ doing[v].to.loc = l
    BY <1>3
  <2>2. <<"by", v>> \in Debts /\ <<"by", v>> # <<"by", w>>
    BY <1>a, <1>c, <2>1
  <2>3. QED
    BY <1>c, <2>1, <2>2
<1>4. <<"by", w>> \in Debts /\ Bequest(w)[<<"by", w>>] = <<"at", y>>
  BY <1>c
<1>5. ASSUME NEW v \in Clerks, Working(v)'
      PROVE  /\ <<"by", v>> \in Debts /\ Bequest(w)[<<"by", v>>] = <<"by", v>>
             /\ v # w /\ ~Heir(w, v)
  <2>1. v # w /\ Working(v) /\ ~Heir(w, v)
    BY <1>a, <1>5
  <2>2. QED
    BY <1>c, <2>1
<1>6. \A d \in Debts' : \/ \E l \in Places : d = <<"at", l>> /\ Exposed(l)'
                        \/ \E v \in Clerks : d = <<"by", v>> /\ Working(v)'
  BY DEF Debts
<1>7. Charged(Debts', Debts, Bequest(w))
  <2> SUFFICES ASSUME NEW d \in Debts' PROVE \E e \in Debts : Bequest(w)[e] = d
    BY DEF Charged
  <2>1. ASSUME NEW l \in Places, d = <<"at", l>>, Exposed(l)'
        PROVE \E e \in Debts : Bequest(w)[e] = d
    BY <1>1, <1>2, <1>3, <1>4, <2>1
  <2>2. ASSUME NEW v \in Clerks, d = <<"by", v>>, Working(v)'
        PROVE \E e \in Debts : Bequest(w)[e] = d
    BY <1>5, <2>2
  <2>3. QED
    BY <1>6, <2>1, <2>2
<1>8. ASSUME Exposed(y)' => Exposed(y) \/ Left(y)
      PROVE  Forgiven(Debts', Debts, Bequest(w))
  <2> DEFINE D == Debts \ {<<"by", w>>}
  <2>1. Charged(Debts', D, Bequest(w))
    <3> SUFFICES ASSUME NEW d \in Debts' PROVE \E e \in D : Bequest(w)[e] = d
      BY DEF Charged
    <3>1. ASSUME NEW l \in Places, d = <<"at", l>>, Exposed(l)'
          PROVE \E e \in D : Bequest(w)[e] = d
      <4>1. Exposed(l) \/ Left(l)
        BY <1>1, <1>8, <3>1
      <4>2. QED
        BY <1>2, <1>3, <3>1, <4>1
    <3>2. ASSUME NEW v \in Clerks, d = <<"by", v>>, Working(v)'
          PROVE \E e \in D : Bequest(w)[e] = d
      <4>1. <<"by", v>> \in D
        BY <1>5, <3>2
      <4>2. QED
        BY <1>5, <3>2, <4>1
    <3>3. QED
      BY <1>6, <3>1, <3>2
  <2>2. QED
    BY <1>4, <2>1 DEF Forgiven
<1>9. ASSUME NEW v \in Clerks, Heir(w, v), Working(v), NEW m, m = doing[v].to.loc, ~Exposed(m)'
      PROVE  Forgiven(Debts', Debts, Bequest(w))
  <2> DEFINE D == Debts \ {<<"by", v>>}
  <2>0. /\ <<"by", v>> \in Debts /\ Bequest(w)[<<"by", v>>] = <<"at", m>>
        /\ <<"by", v>> # <<"by", w>>
    BY <1>a, <1>c, <1>9
  <2>1. Charged(Debts', D, Bequest(w))
    <3> SUFFICES ASSUME NEW d \in Debts' PROVE \E e \in D : Bequest(w)[e] = d
      BY DEF Charged
    <3>1. ASSUME NEW l \in Places, d = <<"at", l>>, Exposed(l)'
          PROVE \E e \in D : Bequest(w)[e] = d
      <4>1. l # m
        BY <1>9, <3>1
      <4>2. PICK e \in Debts : Bequest(w)[e] = <<"at", l>>
        BY <1>1, <1>2, <1>3, <1>4, <3>1
      <4>3. e # <<"by", v>>
        BY <2>0, <4>1, <4>2
      <4>4. QED
        BY <3>1, <4>2, <4>3
    <3>2. ASSUME NEW u \in Clerks, d = <<"by", u>>, Working(u)'
          PROVE \E e \in D : Bequest(w)[e] = d
      <4>1. <<"by", u>> \in Debts /\ Bequest(w)[<<"by", u>>] = <<"by", u>> /\ u # v
        BY <1>5, <1>9, <3>2
      <4>2. <<"by", u>> \in D
        BY <4>1
      <4>3. QED
        BY <3>2, <4>1, <4>2
    <3>3. QED
      BY <1>6, <3>1, <3>2
  <2>2. QED
    BY <2>0, <2>1 DEF Forgiven
<1>10. ASSUME NEW v \in Clerks, Heir(w, v), Working(v), ~Exposed(doing[v].to.loc)'
       PROVE  Forgiven(Debts', Debts, Bequest(w))
  <2>1. PICK m : m = doing[v].to.loc
    OBVIOUS
  <2>2. doing'[v] = doing[v]
    BY <1>a, <1>10
  <2>3. ~Exposed(m)'
    BY <1>10, <2>1, <2>2
  <2>4. QED
    BY <1>9, <1>10, <2>1, <2>3
<1>11. QED
  BY <1>1, <1>7, <1>8, <1>10

LEMMA DeleteHarmless ==
  ASSUME InstallTypes, NEW w \in Clerks, Install!RemoveReceipt(w),
         NEW r \in Install!Kept, r = doing[w].id, NEW v \in Clerks, Working(v), Harmless(v)
  PROVE  (Working(v)' /\ Harmless(v)') \/ Forgiven(Debts', Debts, Bequest(w))
<1> PICK y : y = receipts[r].loc
  OBVIOUS
<1> PICK l : l = doing[v].to.loc
  OBVIOUS
<1> DEFINE Left(m) == \E u \in Clerks : Heir(w, u) /\ Working(u) /\ doing[u].to.loc = m
<1>1. /\ Working(w) /\ y \in Places /\ Install!Kept' = Install!Kept \ {r}
      /\ \A u \in Install!Kept \ {r} : receipts'[u] = receipts[u]
  BY DeleteFrame
<1>0. doing[w].step = "delete"
  BY DEF Install!RemoveReceipt, Install!At
<1>2. ASSUME NEW m \in Places
      PROVE  /\ Venv(m)' <=> Venv(m)
             /\ dirs'[m].python = dirs[m].python
             /\ Cracked(m)' <=> Cracked(m)
             /\ Cleared(m)' <=> Cleared(m)
             /\ Forsaken(m) => Forsaken(m)'
             /\ Forsaken(m)' => Forsaken(m) \/ Left(m)
             /\ Tended(m) => Tended(m)' \/ Left(m)
             /\ m # y => (Mentioned(m) => Mentioned(m)')
  BY DeleteFrame
<1>3. (Exposed(y)' => Exposed(y) \/ Left(y)) => Forgiven(Debts', Debts, Bequest(w))
  BY DeleteCharged
<1>4. ASSUME NEW m \in Places, Left(m), ~Exposed(m)'
      PROVE  Forgiven(Debts', Debts, Bequest(w))
  <2>1. PICK u \in Clerks : Heir(w, u) /\ Working(u) /\ doing[u].to.loc = m
    BY <1>4
  <2>2. doing'[u] = doing[u]
    BY <2>1, DeleteFrame DEF Heir
  <2>3. ~Exposed(doing[u].to.loc)'
    BY <1>4, <2>1, <2>2
  <2>4. QED
    BY <2>1, <2>3, DeleteCharged
<1>5. l \in Places
  BY JobFieldsAre DEF Working
<1>6. CASE v = w
  <2>1. Aligned(w) /\ l = y /\ (Doubled(w) \/ SafeDelete(y))
    BY <1>0, <1>6 DEF Harmless, Building, Recording, WriteSteps, Aligned
  <2>2. Exposed(y)' => Exposed(y) \/ Left(y)
    <3>1. Doubled(w) => Mentioned(y)'
      BY <1>1, <1>6, <2>1 DEF Doubled, Mentioned
    <3>2. Bereft(y)' => Exposed(y) \/ Left(y)
      BY <1>1, <1>2, <2>1, <3>1 DEF Bereft, SafeDelete
    <3>3. QED
      BY <1>1, <1>2, <3>2 DEF Exposed
  <2>3. QED
    BY <1>3, <2>2
<1>7. CASE v # w /\ Heir(w, v)
  <2>1. doing[v].id = r /\ (Building(v) \/ Recording(v))
    BY <1>7 DEF Heir
  <2>2. Aligned(v)
    BY <2>1, NoIdIsNone DEF Harmless, Building, Recording, WriteSteps
  <2>3. l = y
    BY <2>1, <2>2 DEF Aligned
  <2>4. Left(y)
    BY <1>7, <2>3
  <2>5. QED
    BY <1>3, <2>4
<1>8. CASE v # w /\ ~Heir(w, v)
  <2>1. doing'[v] = doing[v] /\ Working(v)'
    BY <1>8, DeleteFrame
  <2>2. doing[v].id \notin Install!Kept \/ doing[v].id = r => doing'[v].id \notin Install!Kept'
    BY <1>1, <2>1
  <2>3. doing[v].id # r => (Aligned(v) => Aligned(v)')
    BY <1>1, <2>1 DEF Aligned
  <2>4. Building(v) \/ Recording(v) => doing[v].id # r
    BY <1>8 DEF Heir
  <2>5. CASE Building(v) \/ Recording(v)
    BY <1>8, <2>1, <2>3, <2>4, <2>5 DEF Harmless, Building, Recording, WriteSteps
  <2>6. CASE doing[v].step \in {"look", "rmtree"}
    <3>1. CASE doing[v].step = "look"
      BY <2>1, <3>1 DEF Harmless
    <3>2. CASE doing[v].step = "rmtree"
      <4>1. Aligned(v) \/ doing[v].id \notin Install!Kept
        BY <3>2 DEF Harmless, Building, Recording, WriteSteps
      <4>2. Aligned(v)' \/ doing'[v].id \notin Install!Kept'
        BY <2>2, <2>3, <4>1
      <4>3. QED
        BY <2>1, <3>2, <4>2 DEF Harmless
    <3>3. QED
      BY <2>6, <3>1, <3>2
  <2>7. CASE doing[v].step = "rmdir"
    <3>1. Aligned(v) \/ (doing[v].id \notin Install!Kept /\ SafeRmdir(l))
      BY <2>7 DEF Harmless, Building, Recording, WriteSteps
    <3>2. CASE Aligned(v) /\ doing[v].id # r
      BY <2>1, <2>3, <2>7, <3>2 DEF Harmless
    <3>3. CASE ~(Aligned(v) /\ doing[v].id # r)
      <4>1. doing'[v].id \notin Install!Kept' /\ SafeRmdir(l)
        <5>1. Aligned(v) => SafeRmdir(l)
          BY DEF Aligned, SafeRmdir, Mentioned
        <5>2. QED
          BY <2>2, <3>1, <3>3, <5>1
      <4>2. CASE SafeRmdir(l)'
        BY <2>1, <2>7, <4>1, <4>2 DEF Harmless
      <4>3. CASE ~SafeRmdir(l)'
        <5>1. dirs[l].python /\ dirs'[l].python /\ ~Forsaken(l) /\ ~Forsaken(l)'
              /\ ~Mentioned(l)' /\ ~Tended(l)'
          BY <1>2, <1>5, <4>3 DEF SafeRmdir
        <5>2. Cleared(l)'
          BY <2>1, <2>7 DEF Cleared, Clearing
        <5>3. ~Exposed(l)'
          BY <5>1, <5>2 DEF Exposed, Cracked, Bereft
        <5>4. l = y \/ Left(l)
          BY <1>2, <1>5, <4>1, <5>1 DEF SafeRmdir
        <5>5. QED
          BY <1>3, <1>4, <1>5, <5>3, <5>4
      <4>4. QED
        BY <4>2, <4>3
    <3>4. QED
      BY <3>2, <3>3
  <2>8. CASE doing[v].step = "delete"
    <3>1. doing[v].id \notin Install!Kept \/ (Aligned(v) /\ (Doubled(v) \/ SafeDelete(l)))
      BY <2>8 DEF Harmless, Building, Recording, WriteSteps
    <3>2. CASE doing[v].id \notin Install!Kept \/ doing[v].id = r
      BY <2>1, <2>2, <2>8, <3>2 DEF Harmless
    <3>3. CASE doing[v].id \in Install!Kept /\ doing[v].id # r
      <4>1. Aligned(v) /\ Aligned(v)' /\ (Doubled(v) \/ SafeDelete(l))
        BY <2>3, <3>1, <3>3
      <4>2. CASE Doubled(v)' \/ SafeDelete(l)'
        BY <2>1, <2>8, <4>1, <4>2 DEF Harmless
      <4>3. CASE ~Doubled(v)' /\ ~SafeDelete(l)'
        <5>1. Venv(l)' /\ ~Tended(l)' /\ ~Cleared(l)' /\ ~Exposed(l)'
          BY <4>3 DEF SafeDelete
        <5>2. Doubled(v) => l = y
          BY <1>1, <2>1, <4>3 DEF Doubled
        <5>3. ~Bereft(l)
          BY <4>1 DEF Bereft, Mentioned, Aligned
        <5>4. SafeDelete(l) => Left(l)
          BY <1>2, <1>5, <5>1, <5>3 DEF SafeDelete, Exposed
        <5>5. QED
          BY <1>3, <1>4, <1>5, <4>1, <5>1, <5>2, <5>4
      <4>4. QED
        BY <4>2, <4>3
    <3>4. QED
      BY <3>2, <3>3
  <2>9. QED
    BY <2>5, <2>6, <2>7, <2>8 DEF Harmless
<1>9. QED
  BY <1>6, <1>7, <1>8

LEMMA DeleteSolvent ==
  ASSUME InstallTypes, Solvent, NEW w \in Clerks, Install!RemoveReceipt(w)
  PROVE  Solvent'
<1> PICK r : r = doing[w].id
  OBVIOUS
<1>1. /\ doing[w].step = "delete" /\ UNCHANGED Install!hist /\ dirs' = dirs
      /\ receipts' = Install!Restrict(receipts, Install!Kept \ {r})
  BY DEF Install!RemoveReceipt, Install!At
<1>2. CASE r \in Install!Kept
  <2>1. Charged(Debts', Debts, Bequest(w))
    BY <1>2, DeleteCharged
  <2>2. \A v \in Clerks : Working(v) /\ Harmless(v) =>
          (Working(v)' /\ Harmless(v)') \/ Forgiven(Debts', Debts, Bequest(w))
    BY <1>2, DeleteHarmless
  <2>3. PICK to : to = Bequest(w)
    OBVIOUS
  <2>4. QED
    BY <1>1, <2>1, <2>2, <2>3, PaidSame, SolventStep
<1>3. CASE r \notin Install!Kept
  <2>1. receipts' = receipts
    BY <1>1, <1>3 DEF Install!Restrict, InstallTypes
  <2>2. /\ Working(w) /\ ~Building(w) /\ ~Recording(w) /\ ~Clearing(w)
    BY <1>1 DEF Building, Recording, Clearing, WriteSteps, Working, Doomed
  <2>3. Quits(w)
    BY <1>1, <2>1, JobEnds DEF Install!RemoveReceipt, Quits, OneMoves, Venv
  <2>4. QED
    BY <1>1, <2>2, <2>3, QuitsLeave, QuitClean
<1>4. QED
  BY <1>2, <1>3

LEMMA SaveOverSolvent ==
  ASSUME InstallTypes, Solvent, NEW w \in Clerks, Install!SaveOver(w)
  PROVE  Solvent'
<1>1. /\ doing[w].step = "save" /\ UNCHANGED Install!hist /\ dirs' = dirs
      /\ Building(w) /\ doing[w].id # Install!NoId
  BY DEF Install!SaveOver, Install!At, Building, WriteSteps
<1>2. CASE doing[w].id \in Install!Kept
  <2>1. Install!Goes(w, "mirror") /\ receipts' = Install!Store(doing[w].id, doing[w].to)
    BY <1>2 DEF Install!SaveOver
  <2>2. doing'[w].step = "mirror" /\ \A v \in Clerks : v # w => doing'[v] = doing[v]
    BY <1>1, <2>1, JobGoes DEF InstallSteps
  <2>3. QED
    BY <1>1, <1>2, <2>1, <2>2, StoreSolvent
<1>3. CASE doing[w].id \notin Install!Kept
  <2>1. Install!Ends(w) /\ receipts' = receipts
    BY <1>3 DEF Install!SaveOver
  <2>2. Quits(w) /\ Doomed(w)
    BY <1>1, <1>3, <2>1, JobEnds DEF Quits, OneMoves, Venv, Doomed
  <2>3. QED
    BY <1>1, <2>2, QuitDoomed
<1>4. QED
  BY <1>2, <1>3

LEMMA RecordSolvent ==
  ASSUME InstallTypes, Solvent, NEW w \in Clerks, Install!Record(w)
  PROVE  Solvent'
<1>1. /\ doing[w].step = "record" /\ UNCHANGED Install!hist /\ dirs' = dirs
      /\ Recording(w) /\ doing[w].id # Install!NoId
  BY DEF Install!Record, Install!At, Recording, InstallTypes
<1>2. CASE doing[w].id \in Install!Kept
  <2>1. /\ Install!Goes(w, "mirror") \/ Install!Ends(w)
        /\ receipts' = Install!Store(doing[w].id, doing[w].to)
    BY <1>2 DEF Install!Record
  <2>2. doing'[w].step \in {"mirror", "idle"} /\ \A v \in Clerks : v # w => doing'[v] = doing[v]
    BY <1>1, <2>1, JobGoes, JobEnds DEF InstallSteps
  <2>3. QED
    BY <1>1, <1>2, <2>1, <2>2, StoreSolvent
<1>3. CASE doing[w].id \notin Install!Kept
  <2>1. Install!Ends(w) /\ receipts' = receipts
    BY <1>3 DEF Install!Record
  <2>2. Quits(w) /\ Doomed(w)
    BY <1>1, <1>3, <2>1, JobEnds DEF Quits, OneMoves, Venv, Doomed
  <2>3. QED
    BY <1>1, <2>2, QuitDoomed
<1>4. QED
  BY <1>2, <1>3

LEMMA SolventInit == Install!Init => Solvent
<1> SUFFICES ASSUME Install!Init PROVE Solvent
  OBVIOUS
<1>1. \A w \in Clerks : doing[w].step = "idle"
  BY DEF Install!Init, Install!Idle
<1>2. \A l \in Places : ~Venv(l)
  BY DEF Install!Init, Install!Absent, Install!Bare, Install!Dir, Venv
<1>3. Debts = {}
  BY <1>1, <1>2 DEF Debts, Exposed, Forsaken, Cracked, Bereft, Working, Building, WriteSteps
<1>4. Paid = 0
  BY DEF Paid, Install!Init
<1>5. Few(Debts, Paid)
  BY <1>3, <1>4, FS_EmptySet DEF Few
<1>6. QED
  BY <1>5 DEF Solvent

LEMMA SolventNext ==
  ASSUME InstallTypes, Solvent, [Install!Next]_Install!vars
  PROVE  Solvent'
<1>1. CASE UNCHANGED Install!vars
  <2>1. /\ dirs' = dirs /\ receipts' = receipts /\ doing' = doing /\ faults' = faults
        /\ races' = races /\ moves' = moves
    BY <1>1 DEF Install!vars, Install!hist
  <2>2. QED
    BY <2>1 DEF Solvent, Debts, Paid, Exposed, Forsaken, Cracked, Bereft, Working, Harmless,
       Building, Recording, Clearing, Doomed, Mentioned, Tended, Cleared, Venv, Aligned,
       Doubled, SafeRmdir, SafeDelete, Install!Kept
<1>2. CASE Install!Next
  <2>1. PICK w \in Clerks : \/ Install!Creating(w) \/ Install!Removing(w)
                            \/ Install!Examining(w) \/ Install!Crash(w)
    BY <1>2 DEF Install!Next
  <2>2. CASE Install!Creating(w)
    BY <2>2, StartCreateSolvent, ClearSolvent, BuildSolvent, PipSolvent, FaultSolvent,
       PipMissingSolvent, SaveOverSolvent, SaveNewSolvent, MirrorSolvent DEF Install!Creating
  <2>3. CASE Install!Removing(w)
    BY <2>3, StartRemoveSolvent, RemoveSomeSolvent, RemoveRestSolvent, RemoveFailsSolvent,
       DeleteSolvent DEF Install!Removing
  <2>4. CASE Install!Examining(w)
    BY <2>4, DoctorSolvent, RecordLookSolvent, RecordSolvent DEF Install!Examining
  <2>5. CASE Install!Crash(w)
    BY <2>5, FaultSolvent
  <2>6. QED
    BY <2>1, <2>2, <2>3, <2>4, <2>5
<1>3. QED
  BY <1>1, <1>2

\* What is left lying is exposed; while something harmless is at work, one of
\* the debts is its own.
LEMMA SolventExplains == InstallTypes /\ Solvent => LitterExplained
<1> SUFFICES ASSUME InstallTypes, Solvent PROVE LitterExplained
  OBVIOUS
<1> DEFINE litter == {l \in Places :
             /\ dirs[l].state = "venv" /\ \A r \in Install!Kept : receipts[r].loc # l
             /\ \A w \in Clerks : ~Install!Free(w) => doing[w].to.loc # l}
           lying == {<<"at", l>> : l \in litter}
           k == Paid
<1>1. \A l \in litter : Bereft(l)
  BY DEF Bereft, Venv, Mentioned, Tended, Cleared, Building, Recording, Clearing, WriteSteps,
         Install!Free, Install!Idle
<1>2. lying \subseteq Debts
  BY <1>1 DEF Debts, Exposed
<1>3. k \in Nat /\ k + 1 \in Nat
  <2>1. \A a, b, c \in Nat : a + b + c \in Nat /\ a + b + c + 1 \in Nat
    OBVIOUS
  <2>2. QED
    BY <2>1 DEF Paid, InstallTypes
<1>4. Few(lying, k)
  <2>1. CASE Few(Debts, Paid)
    <3>1. Few(Debts, k)
      BY <2>1
    <3> HIDE DEF k, lying
    <3>2. QED
      BY <1>2, <1>3, <3>1, FewLess
  <2>2. CASE Few(Debts, Paid + 1) /\ \E w \in Clerks : Working(w) /\ Harmless(w)
    <3>1. PICK w \in Clerks : Working(w)
      BY <2>2
    <3>2. <<"by", w>> \in Debts /\ lying \subseteq Debts \ {<<"by", w>>}
      BY <1>2, <3>1, DebtsAre
    <3>3. Few(Debts, k + 1)
      BY <2>2
    <3> HIDE DEF k, lying
    <3>4. Few(Debts \ {<<"by", w>>}, k)
      BY <1>3, <3>2, <3>3, FewBut
    <3>5. QED
      BY <1>3, <3>2, <3>4, FewLess
  <2>3. QED
    BY <2>1, <2>2 DEF Solvent
<1>5. Few(litter, k)
  <2> DEFINE to == [d \in lying |-> d[2]]
  <2>1. Charged(litter, lying, to)
    <3> HIDE DEF litter
    <3>1. \A l \in litter : <<"at", l>> \in lying /\ to[<<"at", l>>] = l
      OBVIOUS
    <3> HIDE DEF lying, to
    <3>2. QED
      BY <3>1 DEF Charged
  <2> HIDE DEF litter, lying, to, k
  <2>2. QED
    BY <1>3, <1>4, <2>1, FewCharged
<1>6. Cardinality(litter) <= faults + races + moves
  BY <1>5 DEF Few, Paid
<1>7. QED
  BY <1>6 DEF LitterExplained, Install!LitterExplained, Install!Cardinality, Cardinality,
     Install!IsFiniteSet, IsFiniteSet

(* LitterExplained: an environment no receipt mentions and no command is   *)
(* at is left by a death, a failure of pip, an overlap or an instance      *)
(* recreated elsewhere, one for one (lib/install/instance.py).             *)
THEOREM LitterExplainedHolds == PartsSpec => []LitterExplained
<1>1. PartsInit => InstallTypes /\ Solvent
  BY InstallTypesInit, SolventInit DEF PartsInit
<1>2. InstallTypes /\ Solvent /\ [PartsNext]_<<part, vars, badge, safe, install>> =>
        InstallTypes' /\ Solvent'
  <2>1. [PartsNext]_<<part, vars, badge, safe, install>> => [Install!Next]_Install!vars
    BY DEF PartsNext, install, Install!vars, Install!hist
  <2>2. QED
    BY <2>1, InstallTypesStep, SolventNext
<1>3. QED
  BY <1>1, <1>2, SolventExplains, PTL DEF PartsSpec
-----------------------------------------------------------------------------
(***************************************************************************)
(* ReceiptsBacked: an inductive invariant of Instances, about the          *)
(* variables of the composition.                                           *)
(***************************************************************************)

\* A command under way; one that removes; one whose next steps leave a virtual
\* environment where its receipt says, unless another command comes between.
Active(w) == doing[w].step \notin {"idle", "mirror"}
Site(w) == doing[w].to.loc
Removes(w) == doing[w].step \in {"rmtree", "rmdir", "delete"}
Fit(w) ==
  \/ doing[w].step \in {"clear", "build"}
  \/ doing[w].step = "pip" /\ dirs[Site(w)].python
  \/ /\ doing[w].step = "save" /\ dirs[Site(w)].python
     /\ doing[w].to.groups \subseteq dirs[Site(w)].groups

\* Who answers for a directory as it is: a command that is fit, or removes.
Mends(w) == Fit(w) \/ Removes(w)
Mended(l) == \E v \in Clerks : Mends(v) /\ Site(v) = l
MendedBut(l, w) == \E v \in Clerks : v # w /\ Mends(v) /\ Site(v) = l

\* Receipts that differ in name and in place, each backed or answered for.
Differ(r, s) == receipts[r].name # receipts[s].name /\ receipts[r].loc # receipts[s].loc
Distinct(G) == \A r \in G, s \in G : r # s => Differ(r, s)
Sound(G) == Distinct(G) /\ \A r \in G : Install!Backed(r) \/ Mended(receipts[r].loc)

\* Another receipt in the way of a command: at its directory; or of its name.
AtSite(w, s) == s # doing[w].id /\ receipts[s].loc = Site(w)
Akin(w, s) == AtSite(w, s) \/ (s # doing[w].id /\ receipts[s].name = doing[w].to.name)

\* A command that will make a new receipt takes the place of one at most, and
\* two of them take the place of two only under different names.
New(w) == Building(w) /\ doing[w].id = Install!NoId
Taking(w, G) == New(w) /\ \E s \in G : AtSite(w, s)
Fair(G) ==
  /\ \A v \in Clerks : Taking(v, G) => \A s \in G : Akin(v, s) => AtSite(v, s)
  /\ \A v \in Clerks, w \in Clerks :
       Taking(v, G) /\ Taking(w, G) /\ doing[w].to.name = doing[v].to.name => Site(w) = Site(v)

\* What must be paid for: a receipt that is not among them, a command under way.
Bill(G) == {<<"for", r>> : r \in Install!Kept \ G} \union
           {<<"by", w>> : w \in {w \in Clerks : Active(w)}}

\* A command in nobody's way.
Unheld(w, G) == doing[w].id \in Install!Kept \ G
Apart(w, G) ==
  /\ New(w) => \A s \in G : ~Akin(w, s)
  /\ Building(w) /\ Unheld(w, G) => \A s \in G, t \in G : Akin(w, s) /\ Akin(w, t) => s = t
  /\ (Building(w) \/ Removes(w)) /\ ~Unheld(w, G) => \A s \in G : ~AtSite(w, s)

\* A command that, left alone, ends at nobody's cost.
Stuck(w) ==
  /\ doing[w].step \in {"rmtree", "rmdir"}
  /\ ~Install!Exists(Site(w)) \/ (doing[w].step = "rmdir" /\ dirs[Site(w)].python)
Unchanging(w) == receipts[doing[w].id].loc = Site(w) /\ receipts[doing[w].id].groups = doing[w].to.groups
Blameless(w, G) ==
  /\ Active(w)
  /\ Building(w) /\ (doing[w].id = Install!NoId \/ doing[w].id \in G) => Mended(Site(w))
  /\ Recording(w) /\ doing[w].id \in G => Unchanging(w)
  /\ Stuck(w) => \A s \in G : receipts[s].loc = Site(w) =>
                     Install!Backed(s) \/ MendedBut(Site(w), w)

\* Mishaps pay for the bill, but for one while no command is in another's way
\* and one of them is blameless.
Peaceful(G) == (\A w \in Clerks : Apart(w, G)) /\ \E w \in Clerks : Blameless(w, G)
Settled(G) ==
  \/ Few(Bill(G), Install!Mishaps)
  \/ Few(Bill(G), Install!Mishaps + 1) /\ Peaceful(G)

Trusted(G) == G \subseteq Install!Kept /\ Sound(G) /\ Fair(G) /\ Settled(G)
Honest == \E G \in SUBSET Install!Ids : Trusted(G)

\* A command's name is that of the receipt it is about.
SameNames == \A w \in Clerks :
  doing[w].step # "idle" /\ doing[w].id \in Install!Kept =>
    receipts[doing[w].id].name = doing[w].to.name

-----------------------------------------------------------------------------
\* Bills.
LEMMA BillHas ==
  ASSUME NEW G
  PROVE  /\ \A r : r \in Install!Kept \ G => <<"for", r>> \in Bill(G)
         /\ \A w \in Clerks : Active(w) => <<"by", w>> \in Bill(G)
  BY DEF Bill

\* Enough is paid, less than one more, or more than that.
LEMMA BillPaid ==
  ASSUME NEW G, Settled(G), Install!Mishaps \in Nat
  PROVE  Few(Bill(G), Install!Mishaps + 1)
<1> DEFINE k == Install!Mishaps
           B == Bill(G)
<1>1. k \in Nat /\ (Few(B, k) \/ Few(B, k + 1))
  BY DEF Settled
<1> HIDE DEF k, B
<1>2. k + 1 \in Nat /\ k <= k + 1
  BY <1>1
<1>3. Few(B, k + 1)
  BY <1>1, <1>2, FewLess
<1>4. QED
  BY <1>3 DEF k, B

LEMMA MishapsCount ==
  ASSUME InstallTypes, shares \in Nat, faults' \in Nat, races' \in Nat, shares' \in Nat,
         faults <= faults', races <= races', shares <= shares'
  PROVE  /\ Install!Mishaps \in Nat /\ Install!Mishaps' \in Nat
         /\ Install!Mishaps <= Install!Mishaps'
         /\ (faults + 1 <= faults' \/ races + 1 <= races' \/ shares + 1 <= shares') =>
              Install!Mishaps + 1 <= Install!Mishaps'
<1>1. \A a, b, c, d, e, ff \in Nat : a <= d /\ b <= e /\ c <= ff =>
        /\ a + b + c \in Nat /\ d + e + ff \in Nat /\ a + b + c <= d + e + ff
        /\ (a + 1 <= d \/ b + 1 <= e \/ c + 1 <= ff) => a + b + c + 1 <= d + e + ff
  OBVIOUS
<1>2. QED
  BY <1>1 DEF Install!Mishaps, InstallTypes

\* Mishaps can be counted, and are not taken back.
Counted == Install!Mishaps \in Nat /\ Install!Mishaps' \in Nat /\ Install!Mishaps <= Install!Mishaps'

\* A command goes, and nothing else is to be paid for.
LEMMA SettledBut ==
  ASSUME NEW G, NEW H, Settled(G), Counted, NEW w \in Clerks, Active(w),
         Bill(H)' \subseteq Bill(G) \ {<<"by", w>>}
  PROVE  Settled(H)'
<1> DEFINE k == Install!Mishaps
           m == Install!Mishaps'
           B == Bill(G)
           BB == Bill(H)'
           e == <<"by", w>>
<1>1. k \in Nat /\ m \in Nat /\ k <= m
  BY DEF Counted
<1>2. Few(B, k + 1) /\ e \in B /\ BB \subseteq B \ {e}
  BY BillPaid, BillHas DEF Counted
<1>3. Few(BB, m)
  <2> HIDE DEF k, m, B, BB, e
  <2>1. Few(B \ {e}, k)
    BY <1>1, <1>2, FewBut
  <2>2. QED
    BY <1>1, <1>2, <2>1, FewLess
<1>4. QED
  BY <1>3 DEF Settled

\* It goes, and one receipt takes the place of another on the bill.
LEMMA SettledSwap ==
  ASSUME NEW G, NEW H, Settled(G), Counted, NEW w \in Clerks, Active(w),
         NEW y \in Install!Kept \ G, NEW x,
         Bill(H)' \subseteq (Bill(G) \ {<<"by", w>>, <<"for", y>>}) \union {x}
  PROVE  Settled(H)'
<1> DEFINE k == Install!Mishaps
           m == Install!Mishaps'
           B == Bill(G)
           BB == Bill(H)'
           e == <<"by", w>>
           d == <<"for", y>>
<1>1. k \in Nat /\ m \in Nat /\ k <= m
  BY DEF Counted
<1>2. Few(B, k + 1) /\ e \in B /\ d \in B /\ d # e /\ BB \subseteq (B \ {e, d}) \union {x}
  BY BillPaid, BillHas DEF Counted
<1>3. Few(BB, m)
  <2> HIDE DEF k, m, B, BB, e, d
  <2>1. Few(B \ {e}, k)
    BY <1>1, <1>2, FewBut
  <2>2. DEFINE to == [z \in B \ {e} |-> IF z = d THEN x ELSE z]
  <2>3. Charged(BB, B \ {e}, to)
    BY <1>2 DEF Charged
  <2> HIDE DEF to
  <2>4. Few(BB, k)
    BY <1>1, <2>1, <2>3, FewCharged
  <2>5. QED
    BY <1>1, <2>4, FewLess
<1>4. QED
  BY <1>3 DEF Settled

\* It goes, and one receipt more is to be paid for.
LEMMA SettledFor ==
  ASSUME NEW G, NEW H, Settled(G), Counted, NEW w \in Clerks, Active(w), NEW x,
         Bill(H)' \subseteq (Bill(G) \ {<<"by", w>>}) \union {x},
         \/ Few(Bill(G), Install!Mishaps)
         \/ Install!Mishaps + 1 <= Install!Mishaps'
         \/ Peaceful(G) => Peaceful(H)'
  PROVE  Settled(H)'
<1> DEFINE k == Install!Mishaps
           m == Install!Mishaps'
           B == Bill(G)
           BB == Bill(H)'
           e == <<"by", w>>
           to == [z \in B |-> IF z = e THEN x ELSE z]
<1>1. k \in Nat /\ m \in Nat /\ k <= m
  BY DEF Counted
<1>2. Few(B, k + 1) /\ e \in B /\ BB \subseteq (B \ {e}) \union {x}
  BY BillPaid, BillHas DEF Counted
<1>3. Charged(BB, B, to)
  BY <1>2 DEF Charged
<1>4. (Few(B, k) => Few(BB, m)) /\ Few(BB, m + 1) /\ (k + 1 <= m => Few(BB, m))
  <2> HIDE DEF k, m, B, BB, e, to
  <2>1. k + 1 \in Nat /\ m + 1 \in Nat /\ k + 1 <= m + 1
    BY <1>1
  <2>2. Few(BB, k + 1)
    BY <1>2, <1>3, <2>1, FewCharged
  <2>3. Few(BB, m + 1)
    BY <2>1, <2>2, FewLess
  <2>4. ASSUME Few(B, k) PROVE Few(BB, m)
    <3>1. Few(BB, k)
      BY <1>1, <1>3, <2>4, FewCharged
    <3>2. QED
      BY <1>1, <3>1, FewLess
  <2>5. ASSUME k + 1 <= m PROVE Few(BB, m)
    BY <1>1, <2>1, <2>2, <2>5, FewLess
  <2>6. QED
    BY <2>3, <2>4, <2>5
<1>5. QED
  BY <1>4 DEF Settled

\* Nothing more is to be paid for.
LEMMA SettledSame ==
  ASSUME NEW G, Settled(G), Counted, Bill(G)' \subseteq Bill(G), Peaceful(G) => Peaceful(G)'
  PROVE  Settled(G)'
<1> DEFINE k == Install!Mishaps
           m == Install!Mishaps'
           B == Bill(G)
           BB == Bill(G)'
<1>1. k \in Nat /\ m \in Nat /\ k <= m /\ BB \subseteq B
  BY DEF Counted
<1>2. (Few(B, k) => Few(BB, m)) /\ (Few(B, k + 1) => Few(BB, m + 1))
  <2> HIDE DEF k, m, B, BB
  <2>1. k + 1 \in Nat /\ m + 1 \in Nat /\ k + 1 <= m + 1
    BY <1>1
  <2>2. QED
    BY <1>1, <2>1, FewLess
<1>3. QED
  BY <1>2 DEF Settled

-----------------------------------------------------------------------------
\* A command goes; a set of receipts stays as it was; one of them was answered
\* for by that command alone.
Leaves(w) ==
  /\ Active(w) /\ ~Active(w)' /\ dirs' = dirs
  /\ \A v \in Clerks : v # w => doing'[v] = doing[v]
Keeps(H) ==
  /\ H \subseteq Install!Kept /\ H \subseteq Install!Kept'
  /\ \A s \in H : /\ receipts'[s].name = receipts[s].name /\ receipts'[s].loc = receipts[s].loc
                  /\ receipts'[s].groups = receipts[s].groups
Needs(w, s) ==
  /\ receipts[s].loc = Site(w) /\ ~Install!Backed(s) /\ ~MendedBut(Site(w), w)

LEMMA LeaveFrame ==
  ASSUME NEW w \in Clerks, Leaves(w)
  PROVE  /\ ~Active(w)' /\ ~Mends(w)' /\ ~Building(w)' /\ ~Removes(w)' /\ ~New(w)'
         /\ \A v \in Clerks : v # w =>
              /\ doing'[v] = doing[v] /\ Site(v)' = Site(v)
              /\ Active(v)' <=> Active(v)
              /\ Mends(v)' <=> Mends(v)
              /\ Building(v)' <=> Building(v)
              /\ Removes(v)' <=> Removes(v)
              /\ Recording(v)' <=> Recording(v)
              /\ New(v)' <=> New(v)
              /\ Stuck(v)' <=> Stuck(v)
<1> USE DEF Leaves, Active, Mends, Fit, Removes, Building, Recording, WriteSteps, New, Site,
            Stuck, Install!Exists
<1>1. /\ ~Active(w)' /\ ~Mends(w)' /\ ~Building(w)' /\ ~Removes(w)' /\ ~New(w)'
  OBVIOUS
<1>2. ASSUME NEW v \in Clerks, v # w
      PROVE  /\ doing'[v] = doing[v] /\ Site(v)' = Site(v)
             /\ Active(v)' <=> Active(v)
             /\ Mends(v)' <=> Mends(v)
             /\ Building(v)' <=> Building(v)
             /\ Removes(v)' <=> Removes(v)
             /\ Recording(v)' <=> Recording(v)
             /\ New(v)' <=> New(v)
             /\ Stuck(v)' <=> Stuck(v)
  BY <1>2
<1>3. QED
  BY <1>1, <1>2

LEMMA MendedLeft ==
  ASSUME NEW w \in Clerks, Leaves(w), NEW l
  PROVE  /\ Mended(l)' <=> MendedBut(l, w)
         /\ Mended(l) => MendedBut(l, w) \/ (l = Site(w) /\ Mends(w))
<1>1. Mended(l)' <=> MendedBut(l, w)
  BY LeaveFrame DEF Mended, MendedBut
<1>2. Mended(l) => MendedBut(l, w) \/ (l = Site(w) /\ Mends(w))
  BY DEF Mended, MendedBut
<1>3. QED
  BY <1>1, <1>2

LEMMA MendedButLeft ==
  ASSUME NEW w \in Clerks, Leaves(w), NEW l, NEW v \in Clerks, MendedBut(l, v)
  PROVE  MendedBut(l, v)' \/ (l = Site(w) /\ Mends(w) /\ v # w)
<1>1. PICK u \in Clerks : u # v /\ Mends(u) /\ Site(u) = l
  BY DEF MendedBut
<1>2. CASE u = w
  BY <1>1, <1>2
<1>3. CASE u # w
  <2>1. Mends(u)' /\ Site(u)' = l
    BY <1>1, <1>3, LeaveFrame
  <2>2. QED
    BY <1>1, <2>1 DEF MendedBut
<1>4. QED
  BY <1>2, <1>3

LEMMA BackedKept ==
  ASSUME dirs' = dirs, NEW H, Keeps(H), NEW s \in H
  PROVE  /\ Install!Backed(s)' <=> Install!Backed(s)
         /\ s \in Install!Kept /\ s \in Install!Kept'
  BY DEF Keeps, Install!Backed

LEMMA DistinctKept ==
  ASSUME NEW G, Distinct(G), NEW H \in SUBSET G, Keeps(H)
  PROVE  Distinct(H)'
  BY DEF Distinct, Differ, Keeps

LEMMA SoundLeft ==
  ASSUME NEW G, Sound(G), NEW H \in SUBSET G, NEW w \in Clerks, Leaves(w), Keeps(H),
         \A s \in H : ~Needs(w, s)
  PROVE  Sound(H)'
<1>1. Distinct(H)'
  BY DistinctKept DEF Sound
<1>2. ASSUME NEW s \in H PROVE Install!Backed(s)' \/ Mended(receipts[s].loc)'
  <2>1. receipts'[s].loc = receipts[s].loc /\ (Install!Backed(s)' <=> Install!Backed(s))
    BY BackedKept DEF Keeps, Leaves
  <2>2. Install!Backed(s) \/ MendedBut(receipts[s].loc, w)
    <3> DEFINE l == receipts[s].loc
    <3>1. Install!Backed(s) \/ Mended(l)
      BY DEF Sound
    <3>2. Mended(l) => MendedBut(l, w) \/ (l = Site(w) /\ Mends(w))
      BY MendedLeft
    <3>3. QED
      BY <3>1, <3>2 DEF Needs
  <2>3. Mended(receipts[s].loc)' <=> MendedBut(receipts[s].loc, w)
    <3>1. PICK l : l = receipts[s].loc
      OBVIOUS
    <3>2. Mended(l)' <=> MendedBut(l, w)
      BY MendedLeft
    <3>3. Mended(receipts[s].loc)' <=> Mended(l)'
      BY <2>1, <3>1 DEF Mended
    <3>4. QED
      BY <3>1, <3>2, <3>3
  <2>4. QED
    BY <2>1, <2>2, <2>3
<1>3. QED
  BY <1>1, <1>2 DEF Sound

\* Who is in whose way.
LEMMA WaysLeft ==
  ASSUME NEW w \in Clerks, Leaves(w), NEW H, Keeps(H)
  PROVE  \A v \in Clerks, s \in H : v # w =>
           /\ AtSite(v, s)' <=> AtSite(v, s)
           /\ Akin(v, s)' <=> Akin(v, s)
  BY LeaveFrame DEF AtSite, Akin, Keeps

LEMMA FairLeft ==
  ASSUME NEW G, Fair(G), NEW H \in SUBSET G, NEW w \in Clerks, Leaves(w), Keeps(H)
  PROVE  Fair(H)'
<1>1. \A v \in Clerks, s \in H : v # w =>
           /\ AtSite(v, s)' <=> AtSite(v, s)
           /\ Akin(v, s)' <=> Akin(v, s)
  BY WaysLeft
<1>2. \A v \in Clerks : Taking(v, H)' => v # w /\ Taking(v, G)
  BY <1>1, LeaveFrame DEF Taking
<1>3. ASSUME NEW v \in Clerks, Taking(v, H)', NEW s \in H, Akin(v, s)' PROVE AtSite(v, s)'
  BY <1>1, <1>2, <1>3 DEF Fair
<1>4. ASSUME NEW v \in Clerks, NEW u \in Clerks, Taking(v, H)', Taking(u, H)',
             doing'[u].to.name = doing'[v].to.name
      PROVE  Site(u)' = Site(v)'
  <2>1. v # w /\ u # w /\ Taking(v, G) /\ Taking(u, G)
    BY <1>2, <1>4
  <2>2. doing'[v] = doing[v] /\ doing'[u] = doing[u] /\ Site(v)' = Site(v) /\ Site(u)' = Site(u)
    BY <2>1, LeaveFrame
  <2>3. QED
    BY <1>4, <2>1, <2>2 DEF Fair
<1>5. QED
  BY <1>3, <1>4 DEF Fair

\* The identifiers of the receipts that appear are nobody's.
Appear(w) ==
  /\ Install!Kept \subseteq Install!Kept'
  /\ \A v \in Clerks : v # w /\ Active(v) => doing[v].id \notin Install!Kept' \ Install!Kept

LEMMA ApartLeft ==
  ASSUME SameNames, NEW G, Distinct(G), \A v \in Clerks : Apart(v, G), G \subseteq Install!Kept,
         NEW H \in SUBSET G, NEW w \in Clerks, Leaves(w), Keeps(H), Appear(w)
  PROVE  \A v \in Clerks : Apart(v, H)'
<1>1. Apart(w, H)'
  BY LeaveFrame DEF Apart
<1>2. ASSUME NEW v \in Clerks, v # w PROVE Apart(v, H)'
  <2>1. /\ doing'[v] = doing[v]
        /\ Building(v)' <=> Building(v)
        /\ Removes(v)' <=> Removes(v)
        /\ New(v)' <=> New(v)
    BY <1>2, LeaveFrame
  <2>2. \A s \in H : (AtSite(v, s)' <=> AtSite(v, s)) /\ (Akin(v, s)' <=> Akin(v, s))
    BY <1>2, WaysLeft
  <2>3. Apart(v, G)
    BY <1>2
  <2>4. (Building(v) \/ Removes(v)) => Active(v) /\ doing[v].step # "idle"
    BY DEF Building, Removes, Active, WriteSteps
  <2>5. New(v)' => \A s \in H : ~Akin(v, s)'
    BY <2>1, <2>2, <2>3 DEF Apart
  <2>6. ASSUME Building(v)', Unheld(v, H)', NEW s \in H, NEW t \in H, Akin(v, s)', Akin(v, t)'
        PROVE  s = t
    <3>1. doing[v].id \in Install!Kept /\ doing[v].id \notin H
      BY <1>2, <2>1, <2>4, <2>6 DEF Unheld, Appear
    <3>2. Akin(v, s) /\ Akin(v, t) /\ Building(v)
      BY <2>1, <2>2, <2>6
    <3>3. CASE doing[v].id \notin G
      BY <2>3, <3>1, <3>2, <3>3 DEF Apart, Unheld
    <3>4. CASE doing[v].id \in G
      <4>1. ~AtSite(v, s)
        BY <2>3, <3>2, <3>4 DEF Apart, Unheld
      <4>2. s # doing[v].id /\ receipts[s].name = doing[v].to.name
        BY <3>2, <4>1 DEF Akin
      <4>3. receipts[doing[v].id].name = doing[v].to.name
        BY <2>4, <3>1, <3>2 DEF SameNames
      <4>4. QED
        BY <3>4, <4>2, <4>3 DEF Distinct, Differ
    <3>5. QED
      BY <3>3, <3>4
  <2>7. ASSUME Building(v)' \/ Removes(v)', ~Unheld(v, H)', NEW s \in H
        PROVE  ~AtSite(v, s)'
    <3>1. ~Unheld(v, G)
      BY <2>1, <2>7 DEF Unheld, Appear
    <3>2. QED
      BY <2>1, <2>2, <2>3, <2>7, <3>1 DEF Apart
  <2>8. QED
    BY <2>5, <2>6, <2>7 DEF Apart
<1>3. QED
  BY <1>1, <1>2

\* A command is not blamed for another one that goes, and takes with it at most
\* the receipt at its directory.
LEMMA BlamelessLeft ==
  ASSUME NEW G, Distinct(G), NEW H \in SUBSET G, NEW w \in Clerks, Leaves(w), Keeps(H),
         Mends(w) => \E s \in G \ H : receipts[s].loc = Site(w),
         NEW v \in Clerks, v # w, Apart(v, G), Blameless(v, G), Install!NoId \notin G
  PROVE  Blameless(v, H)'
<1>1. /\ doing'[v] = doing[v] /\ Site(v)' = Site(v)
      /\ Active(v)' <=> Active(v)
      /\ Building(v)' <=> Building(v)
      /\ Recording(v)' <=> Recording(v)
      /\ Stuck(v)' <=> Stuck(v)
  BY LeaveFrame
<1>2. Active(v)'
  BY <1>1 DEF Blameless
<1>3. ASSUME Building(v), doing[v].id = Install!NoId \/ doing[v].id \in H PROVE Mended(Site(v))'
  <2>1. PICK l : l = Site(v)
    OBVIOUS
  <2>2. MendedBut(l, w) \/ (l = Site(w) /\ Mends(w))
    <3>1. Mended(l)
      BY <1>3, <2>1 DEF Blameless
    <3>2. QED
      BY <3>1, MendedLeft
  <2>3. ~(l = Site(w) /\ Mends(w))
    <3>1. SUFFICES ASSUME l = Site(w), Mends(w) PROVE FALSE
      OBVIOUS
    <3>2. PICK s \in G \ H : receipts[s].loc = l
      BY <3>1
    <3>3. CASE doing[v].id = Install!NoId
      <4>1. Akin(v, s)
        BY <2>1, <3>2, <3>3 DEF Akin, AtSite
      <4>2. QED
        BY <1>3, <3>2, <3>3, <4>1 DEF Apart, New
    <3>4. CASE doing[v].id \in H
      <4>1. AtSite(v, s)
        BY <2>1, <3>2, <3>4 DEF AtSite
      <4>2. QED
        BY <1>3, <3>2, <3>4, <4>1 DEF Apart, Unheld
    <3>5. QED
      BY <1>3, <3>3, <3>4
  <2>4. Mended(l)'
    BY <2>2, <2>3, MendedLeft
  <2>5. QED
    BY <1>1, <2>1, <2>4 DEF Mended
<1>4. ASSUME Recording(v), doing[v].id \in H PROVE Unchanging(v)'
  <2>1. Unchanging(v)
    BY <1>4 DEF Blameless
  <2>2. QED
    BY <1>1, <1>4, <2>1 DEF Unchanging, Keeps
<1>5. ASSUME Stuck(v), NEW s \in H, receipts'[s].loc = Site(v)'
      PROVE  Install!Backed(s)' \/ MendedBut(Site(v), v)'
  <2>1. PICK l : l = Site(v)
    OBVIOUS
  <2>2. receipts[s].loc = l
    BY <1>1, <1>5, <2>1 DEF Keeps
  <2>3. Install!Backed(s)' <=> Install!Backed(s)
    BY BackedKept DEF Leaves
  <2>4. Install!Backed(s) \/ MendedBut(l, v)
    BY <1>5, <2>1, <2>2 DEF Blameless
  <2>5. ~(l = Site(w) /\ Mends(w))
    BY <2>2 DEF Distinct, Differ
  <2>6. MendedBut(l, v) => MendedBut(l, v)'
    BY <2>5, MendedButLeft
  <2>7. MendedBut(Site(v), v)' <=> MendedBut(l, v)'
    BY <1>1, <2>1 DEF MendedBut
  <2>8. QED
    BY <2>3, <2>4, <2>6, <2>7
<1>6. QED
  BY <1>1, <1>2, <1>3, <1>4, <1>5 DEF Blameless

-----------------------------------------------------------------------------
\* A command goes: at no cost; at no cost, since another receipt is no longer
\* to be paid for; or at the cost of one.
LEMMA LosesNone ==
  ASSUME Counted, NEW G, Trusted(G), NEW w \in Clerks, Leaves(w), NEW H,
         H \subseteq Install!Kept', Sound(H)', Fair(H)',
         Install!Kept' \ H \subseteq Install!Kept \ G
  PROVE  Trusted(H)'
<1>1. \A v \in Clerks : Active(v)' => v # w /\ Active(v)
  BY LeaveFrame
<1>2. Bill(H)' \subseteq Bill(G) \ {<<"by", w>>}
  BY <1>1 DEF Bill
<1>3. Settled(H)'
  BY <1>2, SettledBut DEF Trusted, Leaves
<1>4. QED
  BY <1>3 DEF Trusted

LEMMA LosesOther ==
  ASSUME Counted, NEW G, Trusted(G), NEW w \in Clerks, Leaves(w), NEW H,
         H \subseteq Install!Kept', Sound(H)', Fair(H)',
         NEW y \in Install!Kept \ G, NEW x,
         Install!Kept' \ H \subseteq ((Install!Kept \ G) \ {y}) \union {x}
  PROVE  Trusted(H)'
<1>1. \A v \in Clerks : Active(v)' => v # w /\ Active(v)
  BY LeaveFrame
<1>2. Bill(H)' \subseteq (Bill(G) \ {<<"by", w>>, <<"for", y>>}) \union {<<"for", x>>}
  BY <1>1 DEF Bill
<1>3. Settled(H)'
  BY <1>2, SettledSwap DEF Trusted, Leaves
<1>4. QED
  BY <1>3 DEF Trusted

LEMMA LosesOne ==
  ASSUME Counted, NEW G, Trusted(G), NEW w \in Clerks, Leaves(w), NEW H,
         H \subseteq Install!Kept', Sound(H)', Fair(H)',
         NEW x, Install!Kept' \ H \subseteq (Install!Kept \ G) \union {x},
         \/ Few(Bill(G), Install!Mishaps)
         \/ Install!Mishaps + 1 <= Install!Mishaps'
         \/ Peaceful(G) => Peaceful(H)'
  PROVE  Trusted(H)'
<1>1. \A v \in Clerks : Active(v)' => v # w /\ Active(v)
  BY LeaveFrame
<1>2. Bill(H)' \subseteq (Bill(G) \ {<<"by", w>>}) \union {<<"for", x>>}
  BY <1>1 DEF Bill
<1>3. Settled(H)'
  BY <1>2, SettledFor DEF Trusted, Leaves
<1>4. QED
  BY <1>3 DEF Trusted

\* Peace outlasts a command that is not the blameless one.
LEMMA PeaceLeft ==
  ASSUME InstallTypes, SameNames, NEW G, Trusted(G), Peaceful(G), NEW H \in SUBSET G,
         NEW w \in Clerks, Leaves(w), Keeps(H), Appear(w), ~Blameless(w, G),
         Mends(w) => \E s \in G \ H : receipts[s].loc = Site(w)
  PROVE  Peaceful(H)'
<1>1. Install!NoId \notin G /\ G \subseteq Install!Kept /\ Distinct(G)
  BY NoIdIsNone DEF Trusted, Sound
<1>2. \A v \in Clerks : Apart(v, G)
  BY DEF Peaceful
<1>3. \A v \in Clerks : Apart(v, H)'
  BY <1>1, <1>2, ApartLeft
<1>4. PICK v \in Clerks : Blameless(v, G)
  BY DEF Peaceful
<1>5. v # w
  BY <1>4
<1>6. Blameless(v, H)'
  BY <1>1, <1>2, <1>4, <1>5, BlamelessLeft
<1>7. QED
  BY <1>3, <1>6 DEF Peaceful

\* A command ends without a receipt written or deleted.
LEMMA EndsHonest ==
  ASSUME InstallTypes, SameNames, Counted, Honest, NEW w \in Clerks, Leaves(w),
         receipts' = receipts,
         \/ Install!Mishaps + 1 <= Install!Mishaps'
         \/ ~Mends(w) \/ Stuck(w)
         \/ Building(w) /\ doing[w].id \notin Install!Kept /\ doing[w].id # Install!NoId
  PROVE  Honest'
<1>1. PICK G \in SUBSET Install!Ids : Trusted(G)
  BY DEF Honest
<1>2. Install!Kept' = Install!Kept /\ G \subseteq Install!Kept /\ Distinct(G) /\ Sound(G) /\ Fair(G)
  BY <1>1 DEF Install!Kept, Trusted, Sound
<1>3. CASE \A s \in G : ~Needs(w, s)
  <2>1. Keeps(G)
    BY <1>2 DEF Keeps
  <2>2. Sound(G)' /\ Fair(G)'
    BY <1>2, <1>3, <2>1, SoundLeft, FairLeft
  <2>3. Trusted(G)'
    BY <1>1, <1>2, <2>2, LosesNone
  <2>4. QED
    BY <2>3 DEF Honest
<1>4. ASSUME NEW s \in G, Needs(w, s) PROVE Honest'
  <2>1. PICK H \in SUBSET G : H = G \ {s}
    OBVIOUS
  <2>2. Keeps(H)
    BY <1>2 DEF Keeps
  <2>3. \A r \in H : ~Needs(w, r)
    BY <1>2, <1>4, <2>1 DEF Needs, Distinct, Differ
  <2>4. Sound(H)' /\ Fair(H)'
    BY <1>2, <2>2, <2>3, SoundLeft, FairLeft
  <2>5. receipts[s].loc = Site(w) /\ ~Install!Backed(s) /\ ~MendedBut(Site(w), w) /\ s \in G \ H
    BY <1>4, <2>1 DEF Needs
  <2>6. Mends(w)
    <3>1. PICK l : l = Site(w)
      OBVIOUS
    <3>2. Mended(l) /\ ~MendedBut(l, w)
      BY <1>2, <2>5, <3>1 DEF Sound
    <3>3. QED
      BY <3>2, MendedLeft
  <2>7. Install!Mishaps + 1 <= Install!Mishaps' \/ (Peaceful(G) => ~Blameless(w, G))
    <3>1. CASE Install!Mishaps + 1 <= Install!Mishaps'
      BY <3>1
    <3>2. CASE Stuck(w)
      BY <2>5, <3>2 DEF Blameless
    <3>3. CASE Building(w) /\ doing[w].id \notin Install!Kept /\ doing[w].id # Install!NoId
      <4>1. AtSite(w, s)
        BY <1>2, <2>5, <3>3 DEF AtSite
      <4>2. ~Apart(w, G)
        BY <3>3, <4>1 DEF Apart, Unheld
      <4>3. QED
        BY <4>2 DEF Peaceful
    <3>4. QED
      BY <2>6, <3>1, <3>2, <3>3
  <2>8. Appear(w)
    BY <1>2 DEF Appear
  <2>9. Install!Mishaps + 1 <= Install!Mishaps' \/ (Peaceful(G) => Peaceful(H)')
    BY <1>1, <2>2, <2>5, <2>7, <2>8, PeaceLeft
  <2>10. H \subseteq Install!Kept' /\ Install!Kept' \ H \subseteq (Install!Kept \ G) \union {s}
    BY <1>2, <2>1
  <2>11. Trusted(H)'
    BY <1>1, <2>4, <2>9, <2>10, LosesOne
  <2>12. QED
    BY <2>11 DEF Honest
<1>5. QED
  BY <1>3, <1>4

-----------------------------------------------------------------------------
\* A command goes on with its directory.
Continues(w) ==
  /\ Building(w) \/ Removes(w)
  /\ Building(w)' <=> Building(w)
  /\ Removes(w)' <=> Removes(w)
  /\ doing'[w].id = doing[w].id /\ doing'[w].to = doing[w].to
  /\ \A v \in Clerks : v # w => doing'[v] = doing[v]
  /\ receipts' = receipts
  /\ \A l \in Places : l # Site(w) => dirs'[l] = dirs[l]

LEMMA ContinueFrame ==
  ASSUME NEW w \in Clerks, Continues(w), NEW v \in Clerks
  PROVE  /\ Site(v)' = Site(v) /\ doing'[v].id = doing[v].id /\ doing'[v].to = doing[v].to
         /\ Active(v)' <=> Active(v)
         /\ Building(v)' <=> Building(v)
         /\ Removes(v)' <=> Removes(v)
         /\ Recording(v)' <=> Recording(v)
         /\ New(v)' <=> New(v)
         /\ Install!Kept' = Install!Kept
  BY DEF Continues, Site, Active, Building, Removes, Recording, New, WriteSteps, Install!Kept

LEMMA ContinueWays ==
  ASSUME NEW w \in Clerks, Continues(w), NEW G
  PROVE  /\ Fair(G) => Fair(G)'
         /\ \A v \in Clerks : Apart(v, G) => Apart(v, G)'
<1>1. \A v \in Clerks : \A s \in G : (AtSite(v, s)' <=> AtSite(v, s)) /\ (Akin(v, s)' <=> Akin(v, s))
  BY ContinueFrame DEF Continues, AtSite, Akin
<1>2. \A v \in Clerks : Taking(v, G)' <=> Taking(v, G)
  BY <1>1, ContinueFrame DEF Taking
<1>3. ASSUME Fair(G) PROVE Fair(G)'
  <2>1. ASSUME NEW v \in Clerks, Taking(v, G)', NEW s \in G, Akin(v, s)' PROVE AtSite(v, s)'
    BY <1>1, <1>2, <1>3, <2>1 DEF Fair
  <2>2. ASSUME NEW v \in Clerks, NEW u \in Clerks, Taking(v, G)', Taking(u, G)',
               doing'[u].to.name = doing'[v].to.name
        PROVE  Site(u)' = Site(v)'
    <3>1. /\ Taking(v, G) /\ Taking(u, G) /\ doing[u].to.name = doing[v].to.name
          /\ Site(u)' = Site(u) /\ Site(v)' = Site(v)
      BY <1>2, <2>2, ContinueFrame
    <3>2. QED
      BY <1>3, <3>1 DEF Fair
  <2>3. QED
    BY <2>1, <2>2 DEF Fair
<1>4. ASSUME NEW v \in Clerks, Apart(v, G) PROVE Apart(v, G)'
  <2>1. Unheld(v, G)' <=> Unheld(v, G)
    BY ContinueFrame DEF Unheld
  <2>2. /\ Building(v)' <=> Building(v)
        /\ Removes(v)' <=> Removes(v)
        /\ New(v)' <=> New(v)
    BY ContinueFrame
  <2>3. \A s \in G : (AtSite(v, s)' <=> AtSite(v, s)) /\ (Akin(v, s)' <=> Akin(v, s))
    BY <1>1
  <2>4. QED
    BY <1>4, <2>1, <2>2, <2>3 DEF Apart
<1>5. QED
  BY <1>3, <1>4

LEMMA ContinueHonest ==
  ASSUME InstallTypes, Counted, Honest, NEW w \in Clerks, Continues(w), Mends(w)', ~Stuck(w)'
  PROVE  Honest'
<1>1. PICK G \in SUBSET Install!Ids : Trusted(G)
  BY DEF Honest
<1>2. /\ G \subseteq Install!Kept /\ Install!Kept' = Install!Kept /\ receipts' = receipts
      /\ Sound(G) /\ Distinct(G) /\ Fair(G) /\ Settled(G)
  BY <1>1 DEF Trusted, Sound, Continues, Install!Kept
<1>3. PICK l \in Places : l = Site(w)
  BY JobFieldsAre DEF Continues, Site, Building, Removes, WriteSteps
<1>4. \A v \in Clerks : v # w => doing'[v] = doing[v] /\ Site(v)' = Site(v)
  BY ContinueFrame DEF Continues
<1>5. ASSUME NEW v \in Clerks, Mends(v), Site(v) # l PROVE v # w /\ Mends(v)'
  <2>1. Site(v) \in Places /\ v # w
    BY <1>3, <1>5, JobFieldsAre DEF Site, Mends, Fit, Removes
  <2>2. doing'[v] = doing[v] /\ dirs'[Site(v)] = dirs[Site(v)]
    BY <1>3, <1>5, <2>1 DEF Continues
  <2>3. QED
    BY <1>5, <2>1, <2>2 DEF Mends, Fit, Removes, Site
<1>6. Site(w)' = l
  BY <1>3, ContinueFrame
<1>7. ASSUME NEW m, Mended(m) \/ m = l PROVE Mended(m)'
  <2>1. CASE m = l
    BY <1>6, <2>1 DEF Mended
  <2>2. CASE m # l
    <3>1. PICK v \in Clerks : Mends(v) /\ Site(v) = m
      BY <1>7, <2>2 DEF Mended
    <3>2. Mends(v)' /\ Site(v)' = m
      BY <1>4, <1>5, <2>2, <3>1
    <3>3. QED
      BY <3>2 DEF Mended
  <2>3. QED
    BY <2>1, <2>2
<1>8. ASSUME NEW v \in Clerks, v # w, NEW m, MendedBut(m, v) \/ m = l PROVE MendedBut(m, v)'
  <2>1. CASE m = l
    BY <1>6, <1>8, <2>1 DEF MendedBut
  <2>2. CASE m # l
    <3>1. PICK u \in Clerks : u # v /\ Mends(u) /\ Site(u) = m
      BY <1>8, <2>2 DEF MendedBut
    <3>2. Mends(u)' /\ Site(u)' = m
      BY <1>4, <1>5, <2>2, <3>1
    <3>3. QED
      BY <3>1, <3>2 DEF MendedBut
  <2>3. QED
    BY <2>1, <2>2
<1>9. \A r \in G : receipts[r].loc \in Places
  BY <1>2 DEF InstallTypes, ReceiptType
<1>10. \A r \in G : receipts[r].loc # l /\ Install!Backed(r) => Install!Backed(r)'
  BY <1>2, <1>3, <1>9 DEF Continues, Install!Backed
<1>11. ASSUME NEW r \in G PROVE Install!Backed(r)' \/ Mended(receipts[r].loc)'
  <2>1. PICK m : m = receipts[r].loc
    OBVIOUS
  <2>2. Install!Backed(r) \/ Mended(m)
    BY <1>2, <2>1 DEF Sound
  <2>3. Install!Backed(r)' \/ Mended(m)'
    BY <1>7, <1>10, <2>1, <2>2
  <2>4. QED
    BY <1>2, <2>1, <2>3 DEF Mended
<1>12. Distinct(G)'
  BY <1>2 DEF Distinct, Differ
<1>13. Sound(G)' /\ Fair(G)'
  BY <1>2, <1>11, <1>12, ContinueWays DEF Sound
<1>14. Bill(G)' \subseteq Bill(G)
  BY <1>2, ContinueFrame DEF Bill
<1>15. ASSUME NEW v \in Clerks, Blameless(v, G) PROVE Blameless(v, G)'
  <2>1. /\ Site(v)' = Site(v) /\ doing'[v].id = doing[v].id /\ doing'[v].to = doing[v].to
        /\ Active(v)' <=> Active(v)
        /\ Building(v)' <=> Building(v)
        /\ Recording(v)' <=> Recording(v)
    BY ContinueFrame
  <2>2. PICK m : m = Site(v)
    OBVIOUS
  <2>3. ASSUME Building(v), doing[v].id = Install!NoId \/ doing[v].id \in G PROVE Mended(Site(v))'
    <3>1. Mended(m)
      BY <1>15, <2>2, <2>3 DEF Blameless
    <3>2. Mended(m)'
      BY <1>7, <3>1
    <3>3. QED
      BY <2>1, <2>2, <3>2 DEF Mended
  <2>4. ASSUME Recording(v), doing[v].id \in G PROVE Unchanging(v)'
    BY <1>2, <1>15, <2>1, <2>4 DEF Blameless, Unchanging
  <2>5. ASSUME Stuck(v)', NEW s \in G, receipts'[s].loc = Site(v)'
        PROVE  Install!Backed(s)' \/ MendedBut(Site(v), v)'
    <3>1. v # w
      BY <2>5
    <3>2. receipts[s].loc = m
      BY <1>2, <2>1, <2>2, <2>5
    <3>3. MendedBut(m, v)' => MendedBut(Site(v), v)'
      BY <2>1, <2>2 DEF MendedBut
    <3>4. CASE m = l
      BY <1>8, <3>1, <3>3, <3>4
    <3>5. CASE m # l
      <4>1. m \in Places
        BY <1>9, <3>2
      <4>2. doing'[v] = doing[v] /\ dirs'[m] = dirs[m]
        BY <1>3, <1>4, <3>1, <3>5, <4>1 DEF Continues
      <4>3. Stuck(v)
        BY <2>2, <2>5, <4>2 DEF Stuck, Site, Install!Exists
      <4>4. Install!Backed(s) \/ MendedBut(m, v)
        BY <1>15, <2>2, <3>2, <4>3 DEF Blameless
      <4>5. QED
        BY <1>8, <1>10, <3>1, <3>2, <3>3, <3>5, <4>4
    <3>6. QED
      BY <3>4, <3>5
  <2>6. Active(v)'
    BY <1>15, <2>1 DEF Blameless
  <2>7. QED
    BY <2>1, <2>3, <2>4, <2>5, <2>6 DEF Blameless
<1>16. Peaceful(G) => Peaceful(G)'
  BY <1>15, ContinueWays DEF Peaceful
<1>17. Settled(G)'
  BY <1>2, <1>14, <1>16, SettledSame
<1>18. QED
  BY <1>2, <1>13, <1>17 DEF Honest, Trusted

-----------------------------------------------------------------------------
\* A command goes and writes a receipt, which joins those that are kept.
Writes(w, r) ==
  /\ Leaves(w) /\ receipts' = Install!Store(r, doing[w].to)
  /\ doing[w].to \in ReceiptType /\ r \in Install!Ids

LEMMA WriteFrame ==
  ASSUME InstallTypes, NEW w \in Clerks, NEW r, Writes(w, r)
  PROVE  /\ Install!Kept' = Install!Kept \union {r}
         /\ receipts'[r] = doing[w].to /\ receipts'[r].loc = Site(w)
         /\ \A u \in Install!Kept : u # r => receipts'[u] = receipts[u]
         /\ \A H \in SUBSET Install!Kept : r \notin H => Keeps(H)
         /\ Building(w) /\ doing[w].step = "save" /\ Fit(w) => Install!Backed(r)'
<1>1. /\ Install!Kept' = Install!Kept \union {r}
      /\ receipts'[r] = doing[w].to
      /\ \A u \in Install!Kept : u # r => receipts'[u] = receipts[u]
  BY StoredIs DEF Writes
<1>2. receipts'[r].loc = Site(w)
  BY <1>1 DEF Site
<1>3. ASSUME NEW H \in SUBSET Install!Kept, r \notin H PROVE Keeps(H)
  BY <1>1, <1>3 DEF Keeps
<1>4. ASSUME doing[w].step = "save", Fit(w) PROVE Install!Backed(r)'
  BY <1>1, <1>4 DEF Fit, Site, Writes, Leaves, Install!Backed
<1>5. QED
  BY <1>1, <1>2, <1>3, <1>4

LEMMA WriteSound ==
  ASSUME InstallTypes, NEW w \in Clerks, NEW r, Writes(w, r), NEW G, Sound(G),
         NEW K \in SUBSET G, r \notin K, K \subseteq Install!Kept,
         \A s \in K : receipts[s].loc # Site(w) /\ receipts[s].name # doing[w].to.name,
         Install!Backed(r)' \/ MendedBut(Site(w), w)
  PROVE  Sound(K \union {r})'
<1>1. Keeps(K) /\ receipts'[r].loc = Site(w) /\ receipts'[r].name = doing[w].to.name
  BY WriteFrame
<1>2. \A s \in K : ~Needs(w, s)
  BY DEF Needs
<1>3. Sound(K)'
  BY <1>1, <1>2, SoundLeft DEF Writes
<1>4. \A s \in K : receipts'[s].loc = receipts[s].loc /\ receipts'[s].name = receipts[s].name
  BY <1>1 DEF Keeps
<1>5. Distinct(K \union {r})'
  BY <1>1, <1>3, <1>4 DEF Sound, Distinct, Differ
<1>6. Install!Backed(r)' \/ Mended(receipts[r].loc)'
  <2>1. PICK l : l = Site(w)
    OBVIOUS
  <2>2. MendedBut(l, w) => Mended(l)'
    BY MendedLeft DEF Writes
  <2>3. Mended(l)' => Mended(receipts[r].loc)'
    BY <1>1, <2>1 DEF Mended
  <2>4. QED
    BY <2>1, <2>2, <2>3
<1>7. QED
  BY <1>3, <1>5, <1>6 DEF Sound

LEMMA WriteFair ==
  ASSUME InstallTypes, NEW w \in Clerks, NEW r, Writes(w, r), NEW G, Fair(G), Distinct(G),
         NEW K \in SUBSET G, r \notin K, G \subseteq Install!Kept,
         \/ \A v \in Clerks : New(v) => \A s \in G : ~Akin(v, s)
         \/ /\ \E s \in G : receipts[s].loc = Site(w)
            /\ \/ r \in G /\ doing[w].to.name = receipts[r].name
               \/ New(w)
  PROVE  Fair(K \union {r})'
<1>1. /\ Keeps(K) /\ receipts'[r].loc = Site(w) /\ receipts'[r].name = doing[w].to.name
      /\ r # Install!NoId /\ Install!NoId \notin G
  BY WriteFrame, NoIdIsNone DEF Writes
<1> DEFINE H == K \union {r}
<1>2. \A v \in Clerks, s \in K : v # w =>
        /\ AtSite(v, s)' <=> AtSite(v, s)
        /\ Akin(v, s)' <=> Akin(v, s)
  BY <1>1, WaysLeft DEF Writes
<1>3. \A v \in Clerks : Taking(v, H)' => v # w
  BY LeaveFrame DEF Taking, Writes
<1>4. \A v \in Clerks : v # w => doing'[v] = doing[v] /\ Site(v)' = Site(v) /\ (New(v)' <=> New(v))
  BY LeaveFrame DEF Writes
<1>5. ASSUME NEW v \in Clerks, v # w, New(v)
      PROVE  /\ AtSite(v, r)' <=> Site(v) = Site(w)
             /\ Akin(v, r)' <=> (Site(v) = Site(w) \/ doing[w].to.name = doing[v].to.name)
             /\ doing[v].id = Install!NoId
  BY <1>1, <1>4, <1>5 DEF AtSite, Akin, New
<1>6. CASE \A v \in Clerks : New(v) => \A s \in G : ~Akin(v, s)
  <2>1. ASSUME NEW v \in Clerks, Taking(v, H)' PROVE v # w /\ New(v) /\ Site(v) = Site(w)
    <3>1. v # w /\ New(v)
      BY <1>3, <1>4, <2>1 DEF Taking
    <3>2. PICK t \in H : AtSite(v, t)'
      BY <2>1 DEF Taking
    <3>3. t \notin K
      BY <1>2, <1>6, <3>1, <3>2 DEF Akin
    <3>4. QED
      BY <1>5, <3>1, <3>2, <3>3
  <2>2. ASSUME NEW v \in Clerks, Taking(v, H)', NEW t \in H, Akin(v, t)' PROVE AtSite(v, t)'
    <3>1. v # w /\ New(v) /\ Site(v) = Site(w)
      BY <2>1, <2>2
    <3>2. t \notin K
      BY <1>2, <1>6, <2>2, <3>1
    <3>3. QED
      BY <1>5, <3>1, <3>2
  <2>3. ASSUME NEW v \in Clerks, NEW u \in Clerks, Taking(v, H)', Taking(u, H)'
        PROVE  Site(u)' = Site(v)'
    BY <1>4, <2>1, <2>3
  <2> HIDE DEF H
  <2>4. Fair(H)'
    BY <2>2, <2>3 DEF Fair
  <2>5. QED
    BY <2>4 DEF H
<1>7. CASE /\ \E s \in G : receipts[s].loc = Site(w)
           /\ \/ r \in G /\ doing[w].to.name = receipts[r].name
              \/ New(w)
  <2>1. PICK s \in G : receipts[s].loc = Site(w)
    BY <1>7
  <2>2. ASSUME NEW v \in Clerks, Taking(v, H)' PROVE v # w /\ New(v) /\ Taking(v, G)
    <3>1. v # w /\ New(v)
      BY <1>3, <1>4, <2>2 DEF Taking
    <3>2. PICK t \in H : AtSite(v, t)'
      BY <2>2 DEF Taking
    <3>3. CASE t \in K
      BY <1>2, <3>1, <3>2, <3>3 DEF Taking
    <3>4. CASE t = r
      <4>1. Site(v) = Site(w)
        BY <1>5, <3>1, <3>2, <3>4
      <4>2. AtSite(v, s)
        BY <1>1, <1>5, <2>1, <3>1, <4>1 DEF AtSite
      <4>3. QED
        BY <3>1, <4>2 DEF Taking
    <3>5. QED
      BY <3>3, <3>4
  <2>3. ASSUME NEW v \in Clerks, Taking(v, H)', NEW t \in H, Akin(v, t)' PROVE AtSite(v, t)'
    <3>1. v # w /\ New(v) /\ Taking(v, G)
      BY <2>2, <2>3
    <3>2. CASE t \in K
      BY <1>2, <2>3, <3>1, <3>2 DEF Fair
    <3>3. CASE t = r
      <4>1. SUFFICES ASSUME Site(v) # Site(w) PROVE FALSE
        BY <1>5, <3>1, <3>3
      <4>2. doing[w].to.name = doing[v].to.name /\ doing[v].id = Install!NoId
        BY <1>5, <2>3, <3>1, <3>3, <4>1
      <4>3. CASE r \in G /\ doing[w].to.name = receipts[r].name
        <5>1. Akin(v, r)
          BY <1>1, <4>2, <4>3 DEF Akin
        <5>2. AtSite(v, r)
          BY <3>1, <4>3, <5>1 DEF Fair
        <5>3. PICK z \in H : AtSite(v, z)'
          BY <2>3 DEF Taking
        <5>4. z \in K
          BY <1>5, <3>1, <4>1, <5>3
        <5>5. AtSite(v, z)
          BY <1>2, <3>1, <5>3, <5>4
        <5>6. QED
          BY <4>3, <5>2, <5>4, <5>5 DEF AtSite, Distinct, Differ
      <4>4. CASE New(w)
        <5>1. Taking(w, G)
          BY <1>1, <2>1, <4>4 DEF Taking, AtSite, New
        <5>2. QED
          BY <3>1, <4>1, <4>2, <5>1 DEF Fair
      <4>5. QED
        BY <1>7, <4>3, <4>4
    <3>4. QED
      BY <3>2, <3>3
  <2>4. ASSUME NEW v \in Clerks, NEW u \in Clerks, Taking(v, H)', Taking(u, H)',
               doing'[u].to.name = doing'[v].to.name
        PROVE  Site(u)' = Site(v)'
    <3>1. v # w /\ u # w /\ Taking(v, G) /\ Taking(u, G)
      BY <2>2, <2>4
    <3>2. /\ doing'[v] = doing[v] /\ doing'[u] = doing[u]
          /\ Site(v)' = Site(v) /\ Site(u)' = Site(u)
      BY <1>4, <3>1
    <3>3. QED
      BY <2>4, <3>1, <3>2 DEF Fair
  <2> HIDE DEF H
  <2>5. Fair(H)'
    BY <2>3, <2>4 DEF Fair
  <2>6. QED
    BY <2>5 DEF H
<1>8. QED
  BY <1>6, <1>7

\* A command that answers for nothing is needed by no receipt.
LEMMA NeedsMends ==
  ASSUME NEW G, Sound(G), NEW s \in G, NEW w \in Clerks, Needs(w, s)
  PROVE  Mends(w)
<1>1. PICK l : l = Site(w)
  OBVIOUS
<1>2. Mended(l) /\ ~MendedBut(l, w)
  BY <1>1 DEF Sound, Needs
<1>3. QED
  BY <1>2 DEF Mended, MendedBut

LEMMA MishapsSame ==
  ASSUME InstallTypes, shares \in Nat, UNCHANGED Install!hist
  PROVE  Counted
  BY MishapsCount DEF Counted, Install!hist, InstallTypes

LEMMA LeavesNow ==
  ASSUME InstallTypes, NEW w \in Clerks, Active(w), dirs' = dirs,
         Install!Goes(w, "mirror") \/ Install!Ends(w)
  PROVE  Leaves(w)
<1>1. doing[w].step # "idle" /\ "mirror" \in InstallSteps
  BY DEF Active, InstallSteps
<1>2. CASE Install!Goes(w, "mirror")
  <2>1. doing'[w].step = "mirror" /\ \A v \in Clerks : v # w => doing'[v] = doing[v]
    BY <1>1, <1>2, JobGoes
  <2>2. QED
    BY <2>1 DEF Leaves, Active
<1>3. CASE Install!Ends(w)
  <2>1. doing'[w].step = "idle" /\ \A v \in Clerks : v # w => doing'[v] = doing[v]
    BY <1>3, JobEnds
  <2>2. QED
    BY <2>1 DEF Leaves, Active
<1>4. QED
  BY <1>2, <1>3

\* create writes over the receipt it found.
LEMMA OverHonest ==
  ASSUME InstallTypes, SameNames, Counted, Honest, NEW w \in Clerks, NEW r \in Install!Kept,
         Writes(w, r), doing[w].id = r, doing[w].step = "save"
  PROVE  Honest'
<1>1. PICK G \in SUBSET Install!Ids : Trusted(G)
  BY DEF Honest
<1>2. /\ G \subseteq Install!Kept /\ Install!Kept' = Install!Kept
      /\ Sound(G) /\ Fair(G) /\ Distinct(G) /\ Settled(G)
      /\ r # Install!NoId /\ Leaves(w) /\ Building(w) /\ ~Removes(w) /\ Active(w)
  BY <1>1, WriteFrame, NoIdIsNone
     DEF Trusted, Sound, Building, WriteSteps, Writes, Leaves, Removes
<1>3. receipts[r].name = doing[w].to.name
  BY <1>2 DEF SameNames, Active
<1>4. \A H \in SUBSET G : r \notin H => Keeps(H)
  BY <1>2, WriteFrame
<1>5. \A s \in G : Needs(w, s) => Mends(w)
  BY <1>2, NeedsMends
<1>6. Mends(w) => Install!Backed(r)'
  BY <1>2, WriteFrame DEF Mends
<1>7. ASSUME NEW H \in SUBSET G, r \notin H, \A s \in H : ~Needs(w, s)
      PROVE  Sound(H)' /\ Fair(H)'
  BY <1>2, <1>4, <1>7, SoundLeft, FairLeft
<1>8. ASSUME NEW s \in G, s # r, Needs(w, s), r \in G, Few(Bill(G), Install!Mishaps) PROVE Honest'
  <2>1. PICK K \in SUBSET G : K = G \ {s, r}
    OBVIOUS
  <2>2. PICK H \in SUBSET G : H = K \union {r}
    BY <1>8, <2>1
  <2>3. receipts[s].loc = Site(w) /\ Mends(w)
    BY <1>5, <1>8 DEF Needs
  <2>4. \A t \in K : receipts[t].loc # Site(w) /\ receipts[t].name # doing[w].to.name
    BY <1>2, <1>3, <1>8, <2>1, <2>3 DEF Distinct, Differ
  <2>5. r \notin K /\ K \subseteq Install!Kept
    BY <1>2, <2>1
  <2>6. Sound(K \union {r})'
    BY <1>2, <1>6, <2>3, <2>4, <2>5, WriteSound
  <2>7. Fair(K \union {r})'
    BY <1>2, <1>3, <1>8, <2>3, <2>5, WriteFair
  <2>8. Sound(H)' /\ Fair(H)'
    BY <2>2, <2>6, <2>7
  <2>9. H \subseteq Install!Kept' /\ Install!Kept' \ H \subseteq (Install!Kept \ G) \union {s}
    BY <1>2, <2>1, <2>2
  <2>10. Trusted(H)'
    BY <1>1, <1>2, <1>8, <2>8, <2>9, LosesOne
  <2>11. QED
    BY <2>10 DEF Honest
<1>9. ASSUME NEW s \in G, s # r, Needs(w, s), r \notin G, Few(Bill(G), Install!Mishaps) PROVE Honest'
  <2>1. PICK H \in SUBSET G : H = G \ {s}
    OBVIOUS
  <2>2. r \notin H /\ \A t \in H : ~Needs(w, t)
    BY <1>2, <1>9, <2>1 DEF Needs, Distinct, Differ
  <2>3. H \subseteq Install!Kept' /\ Install!Kept' \ H \subseteq (Install!Kept \ G) \union {s}
    BY <1>2, <2>1
  <2>4. Trusted(H)'
    BY <1>1, <1>2, <1>7, <1>9, <2>2, <2>3, LosesOne
  <2>5. QED
    BY <2>4 DEF Honest
<1>10. ASSUME \A s \in G : s # r => ~Needs(w, s), Few(Bill(G), Install!Mishaps) PROVE Honest'
  <2>1. PICK H \in SUBSET G : H = G \ {r}
    OBVIOUS
  <2>2. r \notin H /\ \A t \in H : ~Needs(w, t)
    BY <1>10, <2>1
  <2>3. H \subseteq Install!Kept' /\ Install!Kept' \ H \subseteq (Install!Kept \ G) \union {r}
    BY <1>2, <2>1
  <2>4. Trusted(H)'
    BY <1>1, <1>2, <1>7, <1>10, <2>2, <2>3, LosesOne
  <2>5. QED
    BY <2>4 DEF Honest
<1>11. ASSUME Peaceful(G), r \in G PROVE Honest'
  <2>1. PICK K \in SUBSET G : K = G \ {r}
    OBVIOUS
  <2>2. \A s \in K : receipts[s].loc # Site(w) /\ receipts[s].name # doing[w].to.name
    <3>1. \A s \in G : ~AtSite(w, s)
      BY <1>2, <1>11 DEF Peaceful, Apart, Unheld
    <3>2. QED
      BY <1>2, <1>3, <1>11, <2>1, <3>1 DEF AtSite, Distinct, Differ
  <2>3. r \notin K /\ K \subseteq Install!Kept /\ G = K \union {r}
    BY <1>2, <1>11, <2>1
  <2>4. CASE Install!Backed(r)' \/ MendedBut(Site(w), w)
    <3>1. Sound(K \union {r})'
      BY <1>2, <2>2, <2>3, <2>4, WriteSound
    <3>2. \A v \in Clerks : New(v) => \A s \in G : ~Akin(v, s)
      BY <1>11 DEF Peaceful, Apart
    <3>3. Fair(K \union {r})'
      BY <1>2, <2>3, <3>2, WriteFair
    <3>4. Sound(G)' /\ Fair(G)'
      BY <2>3, <3>1, <3>3
    <3>5. Trusted(G)'
      BY <1>1, <1>2, <3>4, LosesNone
    <3>6. QED
      BY <3>5 DEF Honest
  <2>5. CASE ~Install!Backed(r)' /\ ~MendedBut(Site(w), w)
    <3>1. ~Mends(w)
      BY <1>6, <2>5
    <3>2. ~Blameless(w, G)
      <4>1. PICK l : l = Site(w)
        OBVIOUS
      <4>2. ~Mended(l)
        BY <2>5, <3>1, <4>1 DEF Mended, MendedBut
      <4>3. QED
        BY <1>2, <1>11, <4>1, <4>2 DEF Blameless
    <3>3. \A t \in K : ~Needs(w, t)
      BY <2>2 DEF Needs
    <3>4. Keeps(K) /\ Sound(K)' /\ Fair(K)'
      BY <1>4, <1>7, <2>3, <3>3
    <3>5. Appear(w)
      BY <1>2 DEF Appear
    <3>6. Peaceful(K)'
      BY <1>1, <1>2, <1>11, <3>1, <3>2, <3>4, <3>5, PeaceLeft
    <3>7. K \subseteq Install!Kept' /\ Install!Kept' \ K \subseteq (Install!Kept \ G) \union {r}
      BY <1>2, <2>1
    <3>8. Trusted(K)'
      BY <1>1, <1>2, <3>4, <3>6, <3>7, LosesOne
    <3>9. QED
      BY <3>8 DEF Honest
  <2>6. QED
    BY <2>4, <2>5
<1>12. ASSUME Peaceful(G), r \notin G, NEW s \in G, Needs(w, s) PROVE Honest'
  <2>1. PICK K \in SUBSET G : K = G \ {s}
    OBVIOUS
  <2>2. PICK H \in SUBSET Install!Ids : H = K \union {r}
    BY <1>2, <2>1 DEF InstallTypes
  <2>3. AtSite(w, s)
    BY <1>12 DEF AtSite, Needs
  <2>4. \A t \in G : Akin(w, t) => t = s
    BY <1>2, <1>12, <2>3 DEF Peaceful, Apart, Unheld, Akin
  <2>5. \A t \in K : receipts[t].loc # Site(w) /\ receipts[t].name # doing[w].to.name
    BY <1>12, <2>1, <2>4 DEF Akin, AtSite
  <2>6. Install!Backed(r)'
    BY <1>5, <1>6, <1>12
  <2>7. r \notin K /\ K \subseteq Install!Kept
    BY <1>2, <1>12, <2>1
  <2>8. Sound(K \union {r})'
    BY <1>2, <2>5, <2>6, <2>7, WriteSound
  <2>9. \A v \in Clerks : New(v) => \A t \in G : ~Akin(v, t)
    BY <1>12 DEF Peaceful, Apart
  <2>10. Fair(K \union {r})'
    BY <1>2, <2>7, <2>9, WriteFair
  <2>11. Sound(H)' /\ Fair(H)'
    BY <2>2, <2>8, <2>10
  <2>12. /\ H \subseteq Install!Kept' /\ r \in Install!Kept \ G
         /\ Install!Kept' \ H \subseteq ((Install!Kept \ G) \ {r}) \union {s}
    BY <1>2, <1>12, <2>1, <2>2
  <2>13. Trusted(H)'
    BY <1>1, <1>2, <2>11, <2>12, LosesOther
  <2>14. QED
    BY <2>13 DEF Honest
<1>13. ASSUME r \notin G, \A s \in G : ~Needs(w, s) PROVE Honest'
  <2>1. Sound(G)' /\ Fair(G)'
    BY <1>7, <1>13
  <2>2. Trusted(G)'
    BY <1>1, <1>2, <2>1, LosesNone
  <2>3. QED
    BY <2>2 DEF Honest
<1>14. Few(Bill(G), Install!Mishaps) \/ Peaceful(G)
  BY <1>2 DEF Settled
<1>15. QED
  BY <1>8, <1>9, <1>10, <1>11, <1>12, <1>13, <1>14

\* create writes a new one.
LEMMA NewHonest ==
  ASSUME InstallTypes, SameNames, Counted, Honest, NEW w \in Clerks,
         NEW r \in Install!Ids \ Install!Kept,
         Writes(w, r), New(w), doing[w].step = "save", Appear(w)
  PROVE  Honest'
<1>1. PICK G \in SUBSET Install!Ids : Trusted(G)
  BY DEF Honest
<1>2. /\ G \subseteq Install!Kept /\ Install!Kept' = Install!Kept \union {r} /\ r \notin G
      /\ Sound(G) /\ Fair(G) /\ Distinct(G) /\ Settled(G) /\ Install!NoId \notin G
      /\ Leaves(w) /\ Building(w) /\ ~Removes(w) /\ Active(w) /\ doing[w].id = Install!NoId
  BY <1>1, WriteFrame, NoIdIsNone DEF Trusted, Sound, New, Writes, Leaves, Removes
<1>3. \A H \in SUBSET G : Keeps(H)
  BY <1>2, WriteFrame
<1>4. \A s \in G : Needs(w, s) => Mends(w)
  BY <1>2, NeedsMends
<1>5. Mends(w) => Install!Backed(r)'
  BY <1>2, WriteFrame DEF Mends
<1>6. ASSUME NEW s \in G, Needs(w, s), Few(Bill(G), Install!Mishaps) PROVE Honest'
  <2>1. PICK K \in SUBSET G : K = G \ {s}
    OBVIOUS
  <2>2. PICK H \in SUBSET Install!Ids : H = K \union {r}
    OBVIOUS
  <2>3. receipts[s].loc = Site(w) /\ Mends(w) /\ AtSite(w, s)
    BY <1>2, <1>4, <1>6 DEF Needs, AtSite
  <2>4. Taking(w, G)
    BY <2>3 DEF Taking
  <2>5. \A t \in G : Akin(w, t) => t = s
    BY <1>2, <2>3, <2>4 DEF Fair, AtSite, Distinct, Differ
  <2>6. \A t \in K : receipts[t].loc # Site(w) /\ receipts[t].name # doing[w].to.name
    BY <1>2, <2>1, <2>5 DEF Akin, AtSite
  <2>7. r \notin K /\ K \subseteq Install!Kept
    BY <1>2, <2>1
  <2>8. Sound(K \union {r})'
    BY <1>2, <1>5, <2>3, <2>6, <2>7, WriteSound
  <2>9. Fair(K \union {r})'
    BY <1>2, <2>3, <2>7, WriteFair
  <2>10. Sound(H)' /\ Fair(H)'
    BY <2>2, <2>8, <2>9
  <2>11. H \subseteq Install!Kept' /\ Install!Kept' \ H \subseteq (Install!Kept \ G) \union {s}
    BY <1>2, <2>1, <2>2
  <2>12. Trusted(H)'
    BY <1>1, <1>2, <1>6, <2>10, <2>11, LosesOne
  <2>13. QED
    BY <2>12 DEF Honest
<1>7. ASSUME \A s \in G : ~Needs(w, s), Few(Bill(G), Install!Mishaps) PROVE Honest'
  <2>1. Sound(G)' /\ Fair(G)'
    BY <1>2, <1>3, <1>7, SoundLeft, FairLeft
  <2>2. G \subseteq Install!Kept' /\ Install!Kept' \ G \subseteq (Install!Kept \ G) \union {r}
    BY <1>2
  <2>3. Trusted(G)'
    BY <1>1, <1>2, <1>7, <2>1, <2>2, LosesOne
  <2>4. QED
    BY <2>3 DEF Honest
<1>8. ASSUME Peaceful(G) PROVE Honest'
  <2>1. \A v \in Clerks : New(v) => \A s \in G : ~Akin(v, s)
    BY <1>8 DEF Peaceful, Apart
  <2>2. \A s \in G : receipts[s].loc # Site(w) /\ receipts[s].name # doing[w].to.name
    BY <1>2, <2>1 DEF Akin, AtSite
  <2>3. PICK H \in SUBSET Install!Ids : H = G \union {r}
    OBVIOUS
  <2>4. CASE Install!Backed(r)' \/ MendedBut(Site(w), w)
    <3>1. Sound(G \union {r})'
      BY <1>2, <2>2, <2>4, WriteSound
    <3>2. Fair(G \union {r})'
      BY <1>2, <2>1, WriteFair
    <3>3. Sound(H)' /\ Fair(H)'
      BY <2>3, <3>1, <3>2
    <3>4. H \subseteq Install!Kept' /\ Install!Kept' \ H \subseteq Install!Kept \ G
      BY <1>2, <2>3
    <3>5. Trusted(H)'
      BY <1>1, <1>2, <3>3, <3>4, LosesNone
    <3>6. QED
      BY <3>5 DEF Honest
  <2>5. CASE ~Install!Backed(r)' /\ ~MendedBut(Site(w), w)
    <3>1. ~Mends(w)
      BY <1>5, <2>5
    <3>2. ~Blameless(w, G)
      <4>1. PICK l : l = Site(w)
        OBVIOUS
      <4>2. ~Mended(l)
        BY <2>5, <3>1, <4>1 DEF Mended, MendedBut
      <4>3. QED
        BY <1>2, <4>1, <4>2 DEF Blameless
    <3>3. Sound(G)' /\ Fair(G)'
      BY <1>2, <1>3, <1>4, <3>1, SoundLeft, FairLeft
    <3>4. Peaceful(G)'
      BY <1>1, <1>2, <1>3, <1>8, <3>1, <3>2, PeaceLeft
    <3>5. G \subseteq Install!Kept' /\ Install!Kept' \ G \subseteq (Install!Kept \ G) \union {r}
      BY <1>2
    <3>6. Trusted(G)'
      BY <1>1, <1>2, <3>3, <3>4, <3>5, LosesOne
    <3>7. QED
      BY <3>6 DEF Honest
  <2>6. QED
    BY <2>4, <2>5
<1>9. Few(Bill(G), Install!Mishaps) \/ Peaceful(G)
  BY <1>2 DEF Settled
<1>10. QED
  BY <1>6, <1>7, <1>8, <1>9

\* doctor writes back what it read.
LEMMA RecordsHonest ==
  ASSUME InstallTypes, SameNames, Counted, Honest, NEW w \in Clerks, NEW r \in Install!Kept,
         Writes(w, r), doing[w].id = r, Recording(w)
  PROVE  Honest'
<1>1. PICK G \in SUBSET Install!Ids : Trusted(G)
  BY DEF Honest
<1>2. /\ G \subseteq Install!Kept /\ Install!Kept' = Install!Kept
      /\ Sound(G) /\ Fair(G) /\ Distinct(G) /\ Settled(G)
      /\ Leaves(w) /\ ~Mends(w)
  BY <1>1, WriteFrame DEF Trusted, Sound, Writes, Recording, Mends, Fit, Removes
<1>3. \A s \in G : ~Needs(w, s)
  BY <1>2, NeedsMends
<1>4. receipts[r].name = doing[w].to.name
  BY <1>2 DEF SameNames, Recording
<1>5. Appear(w)
  BY <1>2 DEF Appear
<1>6. CASE r \notin G \/ Unchanging(w)
  <2>1. Keeps(G)
    BY <1>2, <1>4, <1>6, WriteFrame DEF Keeps, Unchanging, Site
  <2>2. Sound(G)' /\ Fair(G)'
    BY <1>2, <1>3, <2>1, SoundLeft, FairLeft
  <2>3. Trusted(G)'
    BY <1>1, <1>2, <2>2, LosesNone
  <2>4. QED
    BY <2>3 DEF Honest
<1>7. CASE r \in G /\ ~Unchanging(w)
  <2>1. PICK H \in SUBSET G : H = G \ {r}
    OBVIOUS
  <2>2. Keeps(H)
    BY <1>2, <2>1, WriteFrame
  <2>3. Sound(H)' /\ Fair(H)'
    BY <1>2, <1>3, <2>2, SoundLeft, FairLeft
  <2>4. ~Blameless(w, G)
    BY <1>7 DEF Blameless
  <2>5. Peaceful(G) => Peaceful(H)'
    BY <1>1, <1>2, <1>5, <2>2, <2>4, PeaceLeft
  <2>6. H \subseteq Install!Kept' /\ Install!Kept' \ H \subseteq (Install!Kept \ G) \union {r}
    BY <1>2, <2>1
  <2>7. Trusted(H)'
    BY <1>1, <1>2, <2>3, <2>5, <2>6, LosesOne
  <2>8. QED
    BY <2>7 DEF Honest
<1>8. QED
  BY <1>6, <1>7

\* remove deletes the receipt it found.
LEMMA DeletesHonest ==
  ASSUME InstallTypes, Counted, Honest, NEW w \in Clerks, Leaves(w), Removes(w), NEW r,
         doing[w].id = r, receipts' = Restrict(receipts, Install!Kept \ {r})
  PROVE  Honest'
<1>1. PICK G \in SUBSET Install!Ids : Trusted(G)
  BY DEF Honest
<1>2. /\ G \subseteq Install!Kept /\ Install!Kept' = Install!Kept \ {r}
      /\ Sound(G) /\ Fair(G) /\ Distinct(G) /\ Settled(G)
      /\ \A u \in Install!Kept' : receipts'[u] = receipts[u]
  BY <1>1 DEF Trusted, Sound, Install!Kept, Restrict
<1>3. ASSUME NEW H \in SUBSET G, r \notin H, \A s \in H : ~Needs(w, s)
      PROVE  Sound(H)' /\ Fair(H)' /\ H \subseteq Install!Kept'
  <2>1. Keeps(H)
    BY <1>2, <1>3 DEF Keeps
  <2>2. QED
    BY <1>2, <1>3, <2>1, SoundLeft, FairLeft
<1>4. CASE \A s \in G : s # r => ~Needs(w, s)
  <2>1. PICK H \in SUBSET G : H = G \ {r}
    OBVIOUS
  <2>2. Sound(H)' /\ Fair(H)' /\ H \subseteq Install!Kept'
    BY <1>3, <1>4, <2>1
  <2>3. Install!Kept' \ H \subseteq Install!Kept \ G
    BY <1>2, <2>1
  <2>4. Trusted(H)'
    BY <1>1, <2>2, <2>3, LosesNone
  <2>5. QED
    BY <2>4 DEF Honest
<1>5. ASSUME NEW s \in G, s # r, Needs(w, s) PROVE Honest'
  <2>1. PICK H \in SUBSET G : H = G \ {r, s}
    OBVIOUS
  <2>2. \A t \in H : ~Needs(w, t)
    BY <1>2, <1>5, <2>1 DEF Needs, Distinct, Differ
  <2>3. Sound(H)' /\ Fair(H)' /\ H \subseteq Install!Kept'
    BY <1>3, <2>1, <2>2
  <2>4. CASE Few(Bill(G), Install!Mishaps)
    <3>1. Install!Kept' \ H \subseteq (Install!Kept \ G) \union {s}
      BY <1>2, <2>1
    <3>2. Trusted(H)'
      BY <1>1, <2>3, <2>4, <3>1, LosesOne
    <3>3. QED
      BY <3>2 DEF Honest
  <2>5. CASE Peaceful(G)
    <3>1. AtSite(w, s)
      BY <1>5 DEF Needs, AtSite
    <3>2. r \in Install!Kept \ G
      BY <2>5, <3>1 DEF Peaceful, Apart, Unheld
    <3>3. Install!Kept' \ H \subseteq ((Install!Kept \ G) \ {r}) \union {s}
      BY <1>2, <2>1
    <3>4. Trusted(H)'
      BY <1>1, <2>3, <3>2, <3>3, LosesOther
    <3>5. QED
      BY <3>4 DEF Honest
  <2>6. QED
    BY <1>2, <2>4, <2>5 DEF Settled
<1>6. QED
  BY <1>4, <1>5

-----------------------------------------------------------------------------
\* A command begins.
Starts(w) ==
  /\ doing[w] = Install!Idle /\ Active(w)'
  /\ \A v \in Clerks : v # w => doing'[v] = doing[v]
  /\ dirs' = dirs /\ receipts' = receipts
Alone(w) == \A v \in Clerks : v # w => doing[v] = Install!Idle

LEMMA IdleIs ==
  ASSUME NEW w \in Clerks, doing[w] = Install!Idle
  PROVE  /\ ~Active(w) /\ ~Mends(w) /\ ~Building(w) /\ ~Removes(w) /\ ~New(w)
         /\ doing[w].step = "idle"
  BY DEF Install!Idle, Active, Mends, Fit, Building, WriteSteps, Removes, New

LEMMA StartFrame ==
  ASSUME NEW w \in Clerks, Starts(w)
  PROVE  \A v \in Clerks : v # w =>
           /\ doing'[v] = doing[v] /\ Site(v)' = Site(v)
           /\ Active(v)' <=> Active(v)
           /\ Mends(v)' <=> Mends(v)
           /\ Building(v)' <=> Building(v)
           /\ Removes(v)' <=> Removes(v)
           /\ Recording(v)' <=> Recording(v)
           /\ New(v)' <=> New(v)
           /\ Stuck(v)' <=> Stuck(v)
           /\ \A G : Unheld(v, G)' <=> Unheld(v, G)
           /\ \A s : AtSite(v, s)' <=> AtSite(v, s)
           /\ \A s : Akin(v, s)' <=> Akin(v, s)
  BY DEF Starts, Active, Mends, Fit, Removes, Building, Recording, WriteSteps, New, Site,
         Stuck, Install!Exists, Unheld, AtSite, Akin, Install!Kept

LEMMA MendedStarts ==
  ASSUME NEW w \in Clerks, Starts(w), NEW l, Mended(l)
  PROVE  Mended(l)'
<1>1. PICK v \in Clerks : Mends(v) /\ Site(v) = l
  BY DEF Mended
<1>2. v # w
  BY <1>1, IdleIs DEF Starts
<1>3. Mends(v)' /\ Site(v)' = l
  BY <1>1, <1>2, StartFrame
<1>4. QED
  BY <1>3 DEF Mended

LEMMA MendedButStarts ==
  ASSUME NEW w \in Clerks, Starts(w), NEW l, NEW u \in Clerks, MendedBut(l, u)
  PROVE  MendedBut(l, u)'
<1>1. PICK v \in Clerks : v # u /\ Mends(v) /\ Site(v) = l
  BY DEF MendedBut
<1>2. v # w
  BY <1>1, IdleIs DEF Starts
<1>3. Mends(v)' /\ Site(v)' = l
  BY <1>1, <1>2, StartFrame
<1>4. QED
  BY <1>1, <1>3 DEF MendedBut

LEMMA SoundStarts ==
  ASSUME NEW w \in Clerks, Starts(w), NEW G, Sound(G), NEW H \in SUBSET G
  PROVE  Sound(H)'
<1>1. receipts' = receipts /\ dirs' = dirs
  BY DEF Starts
<1>2. Distinct(H)'
  BY <1>1 DEF Sound, Distinct, Differ
<1>3. ASSUME NEW s \in H PROVE Install!Backed(s)' \/ Mended(receipts[s].loc)'
  <2>1. PICK l : l = receipts[s].loc
    OBVIOUS
  <2>2. Install!Backed(s) \/ Mended(l)
    BY <2>1 DEF Sound
  <2>3. Install!Backed(s) => Install!Backed(s)'
    BY <1>1 DEF Install!Backed
  <2>4. Mended(l) => Mended(l)'
    BY MendedStarts
  <2>5. Mended(l)' => Mended(receipts[s].loc)'
    BY <1>1, <2>1 DEF Mended
  <2>6. QED
    BY <2>2, <2>3, <2>4, <2>5
<1>4. QED
  BY <1>2, <1>3 DEF Sound

LEMMA FairStarts ==
  ASSUME NEW w \in Clerks, Starts(w), NEW G, Fair(G), NEW H \in SUBSET G,
         \/ ~Taking(w, H)'
         \/ /\ \A v \in Clerks : ~Taking(v, G)
            /\ \A s \in H : Akin(w, s)' => AtSite(w, s)'
  PROVE  Fair(H)'
<1>1. ASSUME NEW v \in Clerks, v # w, Taking(v, H)' PROVE Taking(v, G)
  BY <1>1, StartFrame DEF Taking
<1>2. ASSUME NEW v \in Clerks, Taking(v, H)', NEW s \in H, Akin(v, s)' PROVE AtSite(v, s)'
  <2>1. CASE v = w
    BY <1>2, <2>1
  <2>2. CASE v # w
    <3>1. Taking(v, G) /\ Akin(v, s)
      BY <1>1, <1>2, <2>2, StartFrame
    <3>2. AtSite(v, s)
      BY <3>1 DEF Fair
    <3>3. QED
      BY <2>2, <3>2, StartFrame
  <2>3. QED
    BY <2>1, <2>2
<1>3. ASSUME NEW v \in Clerks, NEW u \in Clerks, Taking(v, H)', Taking(u, H)',
             doing'[u].to.name = doing'[v].to.name
      PROVE  Site(u)' = Site(v)'
  <2>1. CASE u = v
    BY <2>1 DEF Site
  <2>2. CASE u # v /\ ~Taking(w, H)'
    <3>1. v # w /\ u # w
      BY <1>3, <2>2
    <3>2. Taking(v, G) /\ Taking(u, G)
      BY <1>1, <1>3, <3>1
    <3>3. /\ doing'[v] = doing[v] /\ doing'[u] = doing[u]
          /\ Site(v)' = Site(v) /\ Site(u)' = Site(u)
      BY <3>1, StartFrame
    <3>4. QED
      BY <1>3, <3>2, <3>3 DEF Fair
  <2>3. CASE u # v /\ \A x \in Clerks : ~Taking(x, G)
    BY <1>1, <1>3, <2>3
  <2>4. QED
    BY <2>1, <2>2, <2>3
<1>4. QED
  BY <1>2, <1>3 DEF Fair

LEMMA BlamelessStarts ==
  ASSUME NEW w \in Clerks, Starts(w), NEW G, NEW v \in Clerks, v # w, Blameless(v, G)
  PROVE  Blameless(v, G)'
<1>1. /\ doing'[v] = doing[v] /\ Site(v)' = Site(v)
      /\ Active(v)' <=> Active(v)
      /\ Building(v)' <=> Building(v)
      /\ Recording(v)' <=> Recording(v)
      /\ Stuck(v)' <=> Stuck(v)
      /\ receipts' = receipts /\ dirs' = dirs
  BY StartFrame DEF Starts
<1>2. PICK l : l = Site(v)
  OBVIOUS
<1>3. (Mended(l) => Mended(l)') /\ (MendedBut(l, v) => MendedBut(l, v)')
  BY MendedStarts, MendedButStarts
<1>4. (Mended(l)' => Mended(Site(v))') /\ (MendedBut(l, v)' => MendedBut(Site(v), v)')
  BY <1>1, <1>2 DEF Mended, MendedBut
<1>5. Building(v) /\ (doing[v].id = Install!NoId \/ doing[v].id \in G) => Mended(Site(v))'
  BY <1>2, <1>3, <1>4 DEF Blameless
<1>6. Recording(v) /\ doing[v].id \in G => Unchanging(v)'
  BY <1>1 DEF Blameless, Unchanging
<1>7. ASSUME Stuck(v), NEW s \in G, receipts[s].loc = Site(v)
      PROVE  Install!Backed(s)' \/ MendedBut(Site(v), v)'
  <2>1. Install!Backed(s) \/ MendedBut(l, v)
    BY <1>2, <1>7 DEF Blameless
  <2>2. Install!Backed(s) => Install!Backed(s)'
    BY <1>1 DEF Install!Backed
  <2>3. QED
    BY <1>3, <1>4, <2>1, <2>2
<1>8. QED
  BY <1>1, <1>5, <1>6, <1>7 DEF Blameless

\* Enough is paid for one thing more, or two.
LEMMA FewPaid ==
  ASSUME Counted, NEW X, NEW Y, NEW a, NEW b
  PROVE  /\ X \subseteq Y \union {a} =>
              /\ Few(Y, Install!Mishaps) => Few(X, Install!Mishaps' + 1)
              /\ Few(Y, Install!Mishaps) /\ Install!Mishaps + 1 <= Install!Mishaps' =>
                   Few(X, Install!Mishaps')
              /\ Few(Y, Install!Mishaps + 1) /\ Install!Mishaps + 1 <= Install!Mishaps' =>
                   Few(X, Install!Mishaps' + 1)
              /\ Few(Y, Install!Mishaps + 1) /\ (Install!Mishaps + 1) + 1 <= Install!Mishaps' =>
                   Few(X, Install!Mishaps')
         /\ X \subseteq (Y \union {a}) \union {b} =>
              (Few(Y, Install!Mishaps) /\ (Install!Mishaps + 1) + 1 <= Install!Mishaps' =>
                   Few(X, Install!Mishaps'))
<1> DEFINE k == Install!Mishaps
           m == Install!Mishaps'
<1>1. k \in Nat /\ m \in Nat /\ k <= m
  BY DEF Counted
<1> HIDE DEF k, m
<1>2. /\ k + 1 \in Nat /\ (k + 1) + 1 \in Nat /\ m + 1 \in Nat /\ k + 1 <= m + 1
      /\ k + 1 <= m => (k + 1) + 1 <= m + 1
  BY <1>1
<1>3. ASSUME X \subseteq Y \union {a}, Few(Y, k)
      PROVE  Few(X, m + 1) /\ (k + 1 <= m => Few(X, m))
  <2>1. Few(X, k + 1)
    BY <1>1, <1>3, FewMore
  <2>2. QED
    BY <1>1, <1>2, <2>1, FewLess
<1>4. ASSUME X \subseteq Y \union {a}, Few(Y, k + 1)
      PROVE  /\ k + 1 <= m => Few(X, m + 1)
             /\ (k + 1) + 1 <= m => Few(X, m)
  <2>1. Few(X, (k + 1) + 1)
    BY <1>2, <1>4, FewMore
  <2>2. QED
    BY <1>1, <1>2, <2>1, FewLess
<1>5. ASSUME X \subseteq (Y \union {a}) \union {b}, Few(Y, k), (k + 1) + 1 <= m
      PROVE  Few(X, m)
  <2>1. Few(Y \union {a}, k + 1)
    BY <1>1, <1>5, FewMore
  <2>2. Few(X, (k + 1) + 1)
    BY <1>2, <1>5, <2>1, FewMore
  <2>3. QED
    BY <1>1, <1>2, <1>5, <2>2, FewLess
<1>6. QED
  BY <1>3, <1>4, <1>5 DEF k, m

\* It begins in nobody's way, or in the directory of another name's receipt,
\* which counts as a mishap.
LEMMA StartsHonest ==
  ASSUME InstallTypes, Counted, NEW G \in SUBSET Install!Ids, Trusted(G),
         NEW w \in Clerks, Starts(w), Blameless(w, G)',
         Alone(w) \/ Install!Mishaps + 1 <= Install!Mishaps',
         \/ Apart(w, G)'
         \/ /\ Install!Mishaps + 1 <= Install!Mishaps'
            /\ Alone(w) \/ (Install!Mishaps + 1) + 1 <= Install!Mishaps'
            /\ New(w)' => \A s \in G : receipts'[s].name # doing'[w].to.name
  PROVE  Honest'
<1>1. /\ G \subseteq Install!Kept /\ Sound(G) /\ Fair(G) /\ Distinct(G) /\ Settled(G)
      /\ Install!Kept' = Install!Kept /\ receipts' = receipts
  BY DEF Trusted, Sound, Starts, Install!Kept
<1>2. ASSUME Alone(w), NEW v \in Clerks, v # w
      PROVE  ~Active(v) /\ ~Building(v) /\ ~Removes(v) /\ ~New(v)
  <2>1. doing[v] = Install!Idle
    BY <1>2 DEF Alone
  <2>2. QED
    BY <2>1, IdleIs
<1>3. ~Active(w) /\ ~New(w)
  BY IdleIs DEF Starts
<1>4. Peaceful(G) => ~Alone(w)
  BY <1>2, <1>3 DEF Peaceful, Blameless
<1>5. Bill(G)' \subseteq Bill(G) \union {<<"by", w>>}
  BY StartFrame, <1>1, <1>3 DEF Bill
<1>6. Few(Bill(G), Install!Mishaps) \/ (Few(Bill(G), Install!Mishaps + 1) /\ Peaceful(G))
  BY <1>1 DEF Settled
<1>7. Sound(G)'
  BY <1>1, SoundStarts
<1>8. ASSUME Fair(G)', Settled(G)' PROVE Honest'
  BY <1>1, <1>7, <1>8 DEF Honest, Trusted
<1>9. ASSUME Apart(w, G)' PROVE Honest'
  <2>1. ~Taking(w, G)'
    BY <1>9 DEF Apart, Taking, Akin
  <2>2. Fair(G)'
    BY <1>1, <2>1, FairStarts
  <2>3. CASE Few(Bill(G), Install!Mishaps) /\ Install!Mishaps + 1 <= Install!Mishaps'
    <3>1. Few(Bill(G)', Install!Mishaps')
      BY <1>5, <2>3, FewPaid
    <3>2. QED
      BY <1>8, <2>2, <3>1 DEF Settled
  <2>4. CASE Few(Bill(G), Install!Mishaps) /\ Alone(w)
    <3>1. Few(Bill(G)', Install!Mishaps' + 1)
      BY <1>5, <2>4, FewPaid
    <3>2. ASSUME NEW v \in Clerks, v # w PROVE Apart(v, G)'
      <4>1. ~Building(v)' /\ ~Removes(v)' /\ ~New(v)'
        BY <1>2, <2>4, <3>2, StartFrame
      <4>2. QED
        BY <4>1 DEF Apart
    <3>3. Peaceful(G)'
      BY <1>9, <3>2 DEF Peaceful
    <3>4. QED
      BY <1>8, <2>2, <3>1, <3>3 DEF Settled
  <2>5. CASE Few(Bill(G), Install!Mishaps + 1) /\ Peaceful(G)
    <3>1. Few(Bill(G)', Install!Mishaps' + 1)
      BY <1>4, <1>5, <2>5, FewPaid
    <3>2. ASSUME NEW v \in Clerks, v # w PROVE Apart(v, G)'
      <4>1. Apart(v, G)
        BY <2>5 DEF Peaceful
      <4>2. /\ Building(v)' <=> Building(v)
            /\ Removes(v)' <=> Removes(v)
            /\ New(v)' <=> New(v)
            /\ Unheld(v, G)' <=> Unheld(v, G)
            /\ \A s \in G : (AtSite(v, s)' <=> AtSite(v, s)) /\ (Akin(v, s)' <=> Akin(v, s))
        BY <3>2, StartFrame
      <4>3. QED
        BY <4>1, <4>2 DEF Apart
    <3>3. PICK v \in Clerks : Blameless(v, G)
      BY <2>5 DEF Peaceful
    <3>4. v # w
      BY <1>3, <3>3 DEF Blameless
    <3>5. Blameless(v, G)'
      BY <3>3, <3>4, BlamelessStarts
    <3>6. Peaceful(G)'
      BY <1>9, <3>2, <3>5 DEF Peaceful
    <3>7. QED
      BY <1>8, <2>2, <3>1, <3>6 DEF Settled
  <2>6. QED
    BY <1>6, <2>3, <2>4, <2>5
<1>10. ASSUME Install!Mishaps + 1 <= Install!Mishaps',
              Alone(w) \/ (Install!Mishaps + 1) + 1 <= Install!Mishaps',
              New(w)' => \A s \in G : receipts'[s].name # doing'[w].to.name
       PROVE  Honest'
  <2>1. ASSUME \A v \in Clerks : ~Taking(v, G) PROVE Fair(G)'
    <3>1. ~Taking(w, G)' \/ \A s \in G : Akin(w, s)' => AtSite(w, s)'
      BY <1>10 DEF Akin, Taking
    <3>2. QED
      BY <1>1, <2>1, <3>1, FairStarts
  <2>2. CASE Few(Bill(G), Install!Mishaps) /\ Alone(w)
    <3>1. Few(Bill(G)', Install!Mishaps')
      BY <1>5, <1>10, <2>2, FewPaid
    <3>2. \A v \in Clerks : ~Taking(v, G)
      BY <1>2, <1>3, <2>2 DEF Taking
    <3>3. QED
      BY <1>8, <2>1, <3>1, <3>2 DEF Settled
  <2>3. CASE Few(Bill(G), Install!Mishaps + 1) /\ Peaceful(G)
    <3>1. Few(Bill(G)', Install!Mishaps')
      BY <1>4, <1>5, <1>10, <2>3, FewPaid
    <3>2. \A v \in Clerks : ~Taking(v, G)
      BY <2>3 DEF Peaceful, Apart, Taking, Akin
    <3>3. QED
      BY <1>8, <2>1, <3>1, <3>2 DEF Settled
  <2>4. CASE Few(Bill(G), Install!Mishaps) /\ (Install!Mishaps + 1) + 1 <= Install!Mishaps'
    <3>1. CASE ~Taking(w, G)'
      <4>1. Few(Bill(G)', Install!Mishaps')
        BY <1>5, <1>10, <2>4, FewPaid
      <4>2. Fair(G)'
        BY <1>1, <3>1, FairStarts
      <4>3. QED
        BY <1>8, <4>1, <4>2 DEF Settled
    <3>2. CASE Taking(w, G)'
      <4>1. PICK s \in G : AtSite(w, s)'
        BY <3>2 DEF Taking
      <4>2. PICK H \in SUBSET G : H = G \ {s}
        OBVIOUS
      <4>3. ~Taking(w, H)'
        BY <1>1, <4>1, <4>2 DEF Taking, AtSite, Distinct, Differ
      <4>4. Sound(H)' /\ Fair(H)'
        BY <1>1, <4>3, SoundStarts, FairStarts
      <4>5. Bill(H)' \subseteq (Bill(G) \union {<<"by", w>>}) \union {<<"for", s>>}
        BY <1>1, <1>3, <4>2, StartFrame DEF Bill
      <4>6. Few(Bill(H)', Install!Mishaps')
        BY <2>4, <4>5, FewPaid
      <4>7. Trusted(H)'
        BY <1>1, <4>4, <4>6 DEF Trusted, Settled
      <4>8. QED
        BY <4>7 DEF Honest
    <3>3. QED
      BY <3>1, <3>2
  <2>5. QED
    BY <1>6, <1>10, <2>2, <2>3, <2>4
<1>11. QED
  BY <1>9, <1>10

\* A command looks at a receipt, or writes the mirror: nothing changes that a
\* receipt is trusted for.
Watches(w) ==
  /\ ~Building(w) /\ ~Removes(w) /\ ~Building(w)' /\ ~Removes(w)'
  /\ Active(w)' <=> Active(w)
  /\ \A v \in Clerks : v # w => doing'[v] = doing[v]
  /\ receipts' = receipts
  /\ \A l \in Places : /\ dirs'[l].state = dirs[l].state /\ dirs'[l].python = dirs[l].python
                       /\ dirs'[l].groups = dirs[l].groups

LEMMA WatchFrame ==
  ASSUME InstallTypes, NEW w \in Clerks, Watches(w)
  PROVE  /\ \A v \in Clerks : v # w =>
              /\ doing'[v] = doing[v] /\ Site(v)' = Site(v)
              /\ Recording(v)' <=> Recording(v)
              /\ Stuck(v)' <=> Stuck(v)
              /\ \A s : AtSite(v, s)' <=> AtSite(v, s)
              /\ \A s : Akin(v, s)' <=> Akin(v, s)
              /\ \A G : Unheld(v, G)' <=> Unheld(v, G)
         /\ \A v \in Clerks :
              /\ Active(v)' <=> Active(v)
              /\ Mends(v)' <=> Mends(v)
              /\ Building(v)' <=> Building(v)
              /\ Removes(v)' <=> Removes(v)
              /\ New(v)' <=> New(v)
         /\ ~Mends(w)
<1>1. ASSUME NEW v \in Clerks, v # w
      PROVE  /\ doing'[v] = doing[v] /\ Site(v)' = Site(v)
             /\ Recording(v)' <=> Recording(v)
             /\ Active(v)' <=> Active(v)
             /\ Building(v)' <=> Building(v)
             /\ Removes(v)' <=> Removes(v)
             /\ New(v)' <=> New(v)
             /\ \A s : AtSite(v, s)' <=> AtSite(v, s)
             /\ \A s : Akin(v, s)' <=> Akin(v, s)
             /\ \A G : Unheld(v, G)' <=> Unheld(v, G)
  BY <1>1 DEF Watches, Site, Recording, Active, Building, Removes, New, WriteSteps,
              AtSite, Akin, Unheld, Install!Kept
<1>2. ASSUME NEW v \in Clerks, v # w
      PROVE  (Mends(v)' <=> Mends(v)) /\ (Stuck(v)' <=> Stuck(v))
  <2>1. CASE doing[v].step = "idle"
    BY <1>1, <1>2, <2>1 DEF Mends, Fit, Removes, Stuck
  <2>2. CASE doing[v].step # "idle"
    <3>1. Site(v) \in Places /\ Site(v)' = Site(v) /\ doing'[v] = doing[v]
      BY <1>1, <1>2, <2>2, JobFieldsAre DEF Site
    <3>2. /\ dirs'[Site(v)].state = dirs[Site(v)].state
          /\ dirs'[Site(v)].python = dirs[Site(v)].python
          /\ dirs'[Site(v)].groups = dirs[Site(v)].groups
      BY <3>1 DEF Watches
    <3>3. QED
      BY <3>1, <3>2 DEF Mends, Fit, Removes, Stuck, Install!Exists, Site
  <2>3. QED
    BY <2>1, <2>2
<1>3. /\ ~Mends(w) /\ ~Mends(w)' /\ ~New(w) /\ ~New(w)'
      /\ Active(w)' <=> Active(w)
      /\ Building(w)' <=> Building(w)
      /\ Removes(w)' <=> Removes(w)
  BY DEF Watches, Mends, Fit, Building, Removes, WriteSteps, New
<1>4. QED
  BY <1>1, <1>2, <1>3

LEMMA WatchHonest ==
  ASSUME InstallTypes, Counted, Honest, NEW w \in Clerks, Watches(w),
         Recording(w)' => Unchanging(w)'
  PROVE  Honest'
<1>1. PICK G \in SUBSET Install!Ids : Trusted(G)
  BY DEF Honest
<1>2. /\ G \subseteq Install!Kept /\ Install!Kept' = Install!Kept /\ receipts' = receipts
      /\ Sound(G) /\ Distinct(G) /\ Fair(G) /\ Settled(G)
  BY <1>1 DEF Trusted, Sound, Watches, Install!Kept
<1>3. ASSUME NEW l PROVE (Mended(l) => Mended(l)')
  <2>1. SUFFICES ASSUME Mended(l) PROVE Mended(l)'
    OBVIOUS
  <2>2. PICK v \in Clerks : Mends(v) /\ Site(v) = l
    BY <2>1 DEF Mended
  <2>3. Mends(v)' /\ Site(v)' = l
    BY <2>2, WatchFrame
  <2>4. QED
    BY <2>3 DEF Mended
<1>4. ASSUME NEW l, NEW u \in Clerks, MendedBut(l, u) PROVE MendedBut(l, u)'
  <2>1. PICK v \in Clerks : v # u /\ Mends(v) /\ Site(v) = l
    BY <1>4 DEF MendedBut
  <2>2. Mends(v)' /\ Site(v)' = l
    BY <2>1, WatchFrame
  <2>3. QED
    BY <2>1, <2>2 DEF MendedBut
<1>5. \A r \in G : Install!Backed(r) => Install!Backed(r)'
  <2>1. \A r \in G : receipts[r].loc \in Places
    BY <1>2 DEF InstallTypes, ReceiptType
  <2>2. QED
    BY <1>2, <2>1 DEF Install!Backed, Watches
<1>6. ASSUME NEW r \in G PROVE Install!Backed(r)' \/ Mended(receipts[r].loc)'
  <2>1. PICK m : m = receipts[r].loc
    OBVIOUS
  <2>2. Install!Backed(r) \/ Mended(m)
    BY <1>2, <2>1 DEF Sound
  <2>3. Install!Backed(r)' \/ Mended(m)'
    BY <1>3, <1>5, <2>2
  <2>4. QED
    BY <1>2, <2>1, <2>3 DEF Mended
<1>7. Distinct(G)'
  BY <1>2 DEF Distinct, Differ
<1>8. ASSUME NEW v \in Clerks, Taking(v, G)' PROVE v # w /\ Taking(v, G)
  <2>1. v # w
    BY <1>8 DEF Taking, New, Watches
  <2>2. QED
    BY <1>8, <2>1, WatchFrame DEF Taking
<1>9. Fair(G)'
  <2>1. ASSUME NEW v \in Clerks, Taking(v, G)', NEW s \in G, Akin(v, s)' PROVE AtSite(v, s)'
    <3>1. Taking(v, G) /\ Akin(v, s)
      BY <1>8, <2>1, WatchFrame
    <3>2. AtSite(v, s)
      BY <1>2, <3>1 DEF Fair
    <3>3. QED
      BY <1>8, <2>1, <3>2, WatchFrame
  <2>2. ASSUME NEW v \in Clerks, NEW u \in Clerks, Taking(v, G)', Taking(u, G)',
               doing'[u].to.name = doing'[v].to.name
        PROVE  Site(u)' = Site(v)'
    <3>1. v # w /\ u # w /\ Taking(v, G) /\ Taking(u, G)
      BY <1>8, <2>2
    <3>2. /\ doing'[v] = doing[v] /\ doing'[u] = doing[u]
          /\ Site(v)' = Site(v) /\ Site(u)' = Site(u)
      BY <3>1, WatchFrame
    <3>3. QED
      BY <1>2, <2>2, <3>1, <3>2 DEF Fair
  <2>3. QED
    BY <2>1, <2>2 DEF Fair
<1>10. Bill(G)' \subseteq Bill(G)
  BY <1>2, WatchFrame DEF Bill
<1>11. ASSUME NEW v \in Clerks, Apart(v, G) PROVE Apart(v, G)'
  <2>1. CASE v = w
    BY <2>1 DEF Apart, New, Watches
  <2>2. CASE v # w
    <3>1. /\ Building(v)' <=> Building(v)
          /\ Removes(v)' <=> Removes(v)
          /\ New(v)' <=> New(v)
          /\ Unheld(v, G)' <=> Unheld(v, G)
          /\ \A s \in G : (AtSite(v, s)' <=> AtSite(v, s)) /\ (Akin(v, s)' <=> Akin(v, s))
      BY <2>2, WatchFrame
    <3>2. QED
      BY <1>11, <3>1 DEF Apart
  <2>3. QED
    BY <2>1, <2>2
<1>12. ASSUME NEW v \in Clerks, Blameless(v, G) PROVE Blameless(v, G)'
  <2>1. CASE v = w
    <3>1. Active(w)'
      BY <1>12, <2>1 DEF Blameless, Watches
    <3>2. ~Building(w)' /\ ~Stuck(w)'
      BY DEF Watches, Stuck, Removes
    <3>3. QED
      BY <2>1, <3>1, <3>2 DEF Blameless
  <2>2. CASE v # w
    <3>1. /\ doing'[v] = doing[v] /\ Site(v)' = Site(v)
          /\ Active(v)' <=> Active(v)
          /\ Building(v)' <=> Building(v)
          /\ Recording(v)' <=> Recording(v)
          /\ Stuck(v)' <=> Stuck(v)
      BY <2>2, WatchFrame
    <3>2. PICK l : l = Site(v)
      OBVIOUS
    <3>3. (Mended(l) => Mended(l)') /\ (MendedBut(l, v) => MendedBut(l, v)')
      BY <1>3, <1>4
    <3>4. (Mended(l)' => Mended(Site(v))') /\ (MendedBut(l, v)' => MendedBut(Site(v), v)')
      BY <3>1, <3>2 DEF Mended, MendedBut
    <3>5. Building(v) /\ (doing[v].id = Install!NoId \/ doing[v].id \in G) => Mended(Site(v))'
      BY <1>12, <3>2, <3>3, <3>4 DEF Blameless
    <3>6. Recording(v) /\ doing[v].id \in G => Unchanging(v)'
      BY <1>2, <1>12, <3>1 DEF Blameless, Unchanging
    <3>7. ASSUME Stuck(v), NEW s \in G, receipts[s].loc = Site(v)
          PROVE  Install!Backed(s)' \/ MendedBut(Site(v), v)'
      <4>1. Install!Backed(s) \/ MendedBut(l, v)
        BY <1>12, <3>2, <3>7 DEF Blameless
      <4>2. QED
        BY <1>5, <3>3, <3>4, <4>1
    <3>8. QED
      BY <1>2, <1>12, <3>1, <3>5, <3>6, <3>7 DEF Blameless
  <2>3. QED
    BY <2>1, <2>2
<1>13. Peaceful(G) => Peaceful(G)'
  BY <1>11, <1>12 DEF Peaceful
<1>14. Settled(G)'
  BY <1>2, <1>10, <1>13, SettledSame
<1>15. QED
  BY <1>2, <1>6, <1>7, <1>9, <1>14 DEF Honest, Trusted, Sound

-----------------------------------------------------------------------------
\* The commands, one by one.
LEMMA ContinuesNow ==
  ASSUME InstallTypes, NEW w \in Clerks, NEW s, NEW to, Install!Goes(w, s),
         \/ Building(w) /\ s \in WriteSteps
         \/ Removes(w) /\ s \in {"rmdir", "delete"},
         receipts' = receipts, dirs' = [dirs EXCEPT ![doing[w].to.loc] = to]
  PROVE  /\ Continues(w) /\ doing'[w].step = s /\ doing'[w].to = doing[w].to
         /\ Site(w) = doing[w].to.loc /\ Site(w)' = Site(w) /\ Site(w) \in Places
         /\ dirs'[Site(w)] = to
<1>1. doing[w].step # "idle" /\ s \in InstallSteps /\ s # "record"
  BY DEF Building, Removes, WriteSteps, InstallSteps
<1>2. /\ doing'[w].step = s /\ doing'[w].id = doing[w].id /\ doing'[w].to = doing[w].to
      /\ \A v \in Clerks : v # w => doing'[v] = doing[v]
  BY <1>1, JobGoes
<1>3. Site(w) = doing[w].to.loc /\ Site(w)' = Site(w) /\ Site(w) \in Places
  BY <1>1, <1>2, JobFieldsAre DEF Site
<1>4. dirs'[Site(w)] = to /\ \A l \in Places : l # Site(w) => dirs'[l] = dirs[l]
  BY <1>3 DEF InstallTypes
<1>5. (Building(w)' <=> Building(w)) /\ (Removes(w)' <=> Removes(w))
  BY <1>2 DEF Building, Removes, WriteSteps
<1>6. Building(w) \/ Removes(w)
  OBVIOUS
<1>7. QED
  BY <1>2, <1>3, <1>4, <1>5, <1>6 DEF Continues

LEMMA ClearHonest ==
  ASSUME InstallTypes, shares \in Nat, Honest, NEW w \in Clerks, Install!Clear(w)
  PROVE  Honest'
<1>1. /\ Building(w) /\ "build" \in WriteSteps /\ Install!Goes(w, "build")
      /\ receipts' = receipts /\ dirs' = [dirs EXCEPT ![doing[w].to.loc] = Install!Bare]
      /\ UNCHANGED Install!hist
  BY DEF Install!Clear, Install!At, Building, WriteSteps
<1>2. Continues(w) /\ doing'[w].step = "build"
  BY <1>1, ContinuesNow
<1>3. Mends(w)' /\ ~Stuck(w)'
  BY <1>2 DEF Mends, Fit, Stuck
<1>4. QED
  BY <1>1, <1>2, <1>3, MishapsSame, ContinueHonest

LEMMA BuildHonest ==
  ASSUME InstallTypes, shares \in Nat, Honest, NEW w \in Clerks, Install!Build(w)
  PROVE  Honest'
<1> DEFINE l == doing[w].to.loc
           to == Install!Dir("venv", TRUE, dirs[l].groups, dirs[l].mirror)
<1>1. /\ Building(w) /\ "pip" \in WriteSteps /\ Install!Goes(w, "pip")
      /\ receipts' = receipts /\ dirs' = [dirs EXCEPT ![l] = to]
      /\ UNCHANGED Install!hist
  BY DEF Install!Build, Install!At, Building, WriteSteps
<1>2. to.python
  BY DEF Install!Dir
<1> HIDE DEF to
<1>3. /\ Continues(w) /\ doing'[w].step = "pip" /\ Site(w)' = Site(w)
      /\ dirs'[Site(w)] = to
  BY <1>1, ContinuesNow
<1>4. Mends(w)' /\ ~Stuck(w)'
  BY <1>2, <1>3 DEF Mends, Fit, Stuck, Site
<1>5. QED
  BY <1>1, <1>3, <1>4, MishapsSame, ContinueHonest

LEMMA PipHonest ==
  ASSUME InstallTypes, shares \in Nat, Honest, NEW w \in Clerks, Install!Pip(w)
  PROVE  Honest'
<1> DEFINE l == doing[w].to.loc
           to == [dirs[l] EXCEPT !.groups = @ \union doing[w].to.groups]
<1>1. /\ Building(w) /\ "save" \in WriteSteps /\ Install!Goes(w, "save")
      /\ receipts' = receipts /\ dirs' = [dirs EXCEPT ![l] = to]
      /\ UNCHANGED Install!hist /\ dirs[l].python /\ doing[w].step # "idle"
  BY DEF Install!Pip, Install!At, Building, WriteSteps
<1>2. to.python /\ doing[w].to.groups \subseteq to.groups
  <2>1. dirs[l] \in DirType
    BY <1>1, JobFieldsAre DEF InstallTypes
  <2>2. QED
    BY <1>1, <2>1 DEF DirType
<1> HIDE DEF to
<1>3. /\ Continues(w) /\ doing'[w].step = "save" /\ Site(w)' = Site(w)
      /\ dirs'[Site(w)] = to /\ doing'[w].to = doing[w].to
  BY <1>1, ContinuesNow
<1>4. Mends(w)' /\ ~Stuck(w)'
  BY <1>2, <1>3 DEF Mends, Fit, Stuck, Site
<1>5. QED
  BY <1>1, <1>3, <1>4, MishapsSame, ContinueHonest

LEMMA RemoveSomeHonest ==
  ASSUME InstallTypes, shares \in Nat, Honest, NEW w \in Clerks, Install!RemoveSome(w)
  PROVE  Honest'
<1> DEFINE l == doing[w].to.loc
<1>1. /\ Removes(w) /\ Install!Goes(w, "rmdir") /\ receipts' = receipts
      /\ UNCHANGED Install!hist /\ dirs[l].state # "absent"
  BY DEF Install!RemoveSome, Install!At, Install!Exists, Removes
<1>2. PICK s \in {"bare", dirs[l].state} :
        dirs' = [dirs EXCEPT ![l] = Install!Dir(s, FALSE, {}, Install!NoId)]
  BY DEF Install!RemoveSome
<1> DEFINE to == Install!Dir(s, FALSE, {}, Install!NoId)
<1>3. ~to.python /\ to.state # "absent" /\ dirs' = [dirs EXCEPT ![l] = to]
  BY <1>1, <1>2 DEF Install!Dir
<1> HIDE DEF to
<1>4. /\ Continues(w) /\ doing'[w].step = "rmdir" /\ Site(w)' = Site(w)
      /\ dirs'[Site(w)] = to
  BY <1>1, <1>3, ContinuesNow
<1>5. Mends(w)' /\ ~Stuck(w)'
  BY <1>3, <1>4 DEF Mends, Removes, Stuck, Site, Install!Exists
<1>6. QED
  BY <1>1, <1>4, <1>5, MishapsSame, ContinueHonest

LEMMA RemoveRestHonest ==
  ASSUME InstallTypes, shares \in Nat, Honest, NEW w \in Clerks, Install!RemoveRest(w)
  PROVE  Honest'
<1>1. /\ Removes(w) /\ Install!Goes(w, "delete") /\ receipts' = receipts
      /\ UNCHANGED Install!hist /\ dirs' = [dirs EXCEPT ![doing[w].to.loc] = Install!Absent]
  BY DEF Install!RemoveRest, Install!At, Removes
<1>2. Continues(w) /\ doing'[w].step = "delete"
  BY <1>1, ContinuesNow
<1>3. Mends(w)' /\ ~Stuck(w)'
  BY <1>2 DEF Mends, Removes, Stuck
<1>4. QED
  BY <1>1, <1>2, <1>3, MishapsSame, ContinueHonest

\* The mirror is written; or a command dies before it is.
LEMMA MirrorHonest ==
  ASSUME InstallTypes, Counted, Honest, NEW w \in Clerks, doing[w].step = "mirror",
         Install!Ends(w), receipts' = receipts,
         \/ dirs' = dirs
         \/ dirs' = [dirs EXCEPT ![doing[w].to.loc].mirror = doing[w].id]
  PROVE  Honest'
<1>1. doing'[w].step = "idle" /\ \A v \in Clerks : v # w => doing'[v] = doing[v]
  BY JobEnds
<1>2. \A l \in Places : /\ dirs'[l].state = dirs[l].state /\ dirs'[l].python = dirs[l].python
                        /\ dirs'[l].groups = dirs[l].groups
  <2>1. SUFFICES ASSUME dirs' = [dirs EXCEPT ![doing[w].to.loc].mirror = doing[w].id], NEW l \in Places
                 PROVE  /\ dirs'[l].state = dirs[l].state /\ dirs'[l].python = dirs[l].python
                        /\ dirs'[l].groups = dirs[l].groups
    OBVIOUS
  <2>2. dirs[l] \in DirType /\ dirs \in [Places -> DirType]
    BY DEF InstallTypes
  <2>3. QED
    BY <2>1, <2>2 DEF DirType
<1>3. /\ ~Building(w) /\ ~Removes(w) /\ ~Building(w)' /\ ~Removes(w)'
      /\ ~Active(w) /\ ~Active(w)' /\ ~Recording(w)'
  BY <1>1 DEF Building, Removes, Active, Recording, WriteSteps
<1>4. Watches(w)
  BY <1>1, <1>2, <1>3 DEF Watches
<1>5. QED
  BY <1>3, <1>4, WatchHonest

\* A command ends, or dies, and leaves its receipt alone.
LEMMA FaultCounted ==
  ASSUME InstallTypes, shares \in Nat, Install!Fault
  PROVE  Counted /\ Install!Mishaps + 1 <= Install!Mishaps'
<1>1. /\ faults \in Nat /\ races \in Nat
      /\ faults' = faults + 1 /\ races' = races /\ shares' = shares
  BY DEF InstallTypes, Install!Fault
<1>2. faults' \in Nat /\ faults <= faults' /\ faults + 1 <= faults'
  BY <1>1
<1>3. QED
  BY <1>1, <1>2, MishapsCount DEF Counted

LEMMA LeavesHere ==
  ASSUME InstallTypes, NEW w \in Clerks, Active(w), dirs' = dirs, Install!Ends(w)
  PROVE  Leaves(w)
  BY LeavesNow

LEMMA FaultHonest ==
  ASSUME InstallTypes, SameNames, shares \in Nat, Honest, NEW w \in Clerks,
         Install!PipFails(w) \/ Install!Crash(w)
  PROVE  Honest'
<1>1. /\ Install!Fault /\ Install!Ends(w) /\ dirs' = dirs /\ receipts' = receipts
      /\ doing[w].step # "idle"
  <2>1. CASE Install!PipFails(w)
    BY <2>1 DEF Install!PipFails, Install!At
  <2>2. CASE Install!Crash(w)
    BY <2>2 DEF Install!Crash, Install!Free, InstallTypes, JobType, InstallSteps, WriteSteps
  <2>3. QED
    BY <2>1, <2>2
<1>2. Counted /\ Install!Mishaps + 1 <= Install!Mishaps'
  BY <1>1, FaultCounted
<1>3. CASE doing[w].step = "mirror"
  BY <1>1, <1>2, <1>3, MirrorHonest
<1>4. CASE doing[w].step # "mirror"
  <2>1. Leaves(w)
    BY <1>1, <1>4, LeavesHere DEF Active
  <2>2. QED
    BY <1>1, <1>2, <2>1, EndsHonest
<1>5. QED
  BY <1>3, <1>4

LEMMA PipMissingHonest ==
  ASSUME InstallTypes, SameNames, shares \in Nat, Honest, NEW w \in Clerks, Install!PipMissing(w)
  PROVE  Honest'
<1>1. /\ Install!Ends(w) /\ dirs' = dirs /\ receipts' = receipts /\ UNCHANGED Install!hist
      /\ Active(w) /\ ~Mends(w)
  BY DEF Install!PipMissing, Install!At, Active, Mends, Fit, Removes, Site
<1>2. QED
  BY <1>1, LeavesHere, MishapsSame, EndsHonest

LEMMA RemoveFailsHonest ==
  ASSUME InstallTypes, SameNames, shares \in Nat, Honest, NEW w \in Clerks, Install!RemoveFails(w)
  PROVE  Honest'
<1>1. /\ Install!Ends(w) /\ dirs' = dirs /\ receipts' = receipts /\ UNCHANGED Install!hist
      /\ Active(w) /\ Stuck(w)
  BY DEF Install!RemoveFails, Install!At, Install!Exists, Active, Stuck, Site
<1>2. QED
  BY <1>1, LeavesHere, MishapsSame, EndsHonest

LEMMA MirrorsHonest ==
  ASSUME InstallTypes, shares \in Nat, Honest, NEW w \in Clerks, Install!Mirror(w)
  PROVE  Honest'
<1>1. /\ doing[w].step = "mirror" /\ Install!Ends(w) /\ receipts' = receipts
      /\ UNCHANGED Install!hist
      /\ \/ dirs' = dirs
         \/ dirs' = [dirs EXCEPT ![doing[w].to.loc].mirror = doing[w].id]
  BY DEF Install!Mirror, Install!At
<1>2. QED
  BY <1>1, MishapsSame, MirrorHonest

LEMMA SaveOverHonest ==
  ASSUME InstallTypes, SameNames, shares \in Nat, Honest, NEW w \in Clerks, Install!SaveOver(w)
  PROVE  Honest'
<1>1. /\ doing[w].step = "save" /\ UNCHANGED Install!hist /\ dirs' = dirs
      /\ Active(w) /\ Building(w) /\ doing[w].id # Install!NoId
  BY DEF Install!SaveOver, Install!At, Active, Building, WriteSteps
<1>2. Counted /\ doing[w].to \in ReceiptType
  BY <1>1, MishapsSame, JobFieldsAre
<1>3. CASE doing[w].id \in Install!Kept
  <2>1. Install!Goes(w, "mirror") /\ receipts' = Install!Store(doing[w].id, doing[w].to)
    BY <1>3 DEF Install!SaveOver
  <2>2. Leaves(w) /\ doing[w].id \in Install!Ids
    BY <1>1, <1>3, <2>1, LeavesNow DEF InstallTypes
  <2>3. Writes(w, doing[w].id)
    BY <1>2, <2>1, <2>2 DEF Writes
  <2>4. QED
    BY <1>1, <1>2, <1>3, <2>3, OverHonest
<1>4. CASE doing[w].id \notin Install!Kept
  <2>1. Install!Ends(w) /\ receipts' = receipts
    BY <1>4 DEF Install!SaveOver
  <2>2. QED
    BY <1>1, <1>2, <1>4, <2>1, LeavesHere, EndsHonest
<1>5. QED
  BY <1>3, <1>4

LEMMA SaveNewHonest ==
  ASSUME InstallTypes, SameNames, shares \in Nat, Honest, NEW w \in Clerks, NEW r \in Install!Ids,
         Install!SaveNew(w, r)
  PROVE  Honest'
<1>1. /\ doing[w].step = "save" /\ UNCHANGED Install!hist /\ dirs' = dirs
      /\ Active(w) /\ New(w) /\ r \notin Install!Kept
      /\ receipts' = Install!Store(r, doing[w].to)
      /\ \A v \in Clerks : doing[v] # Install!Idle => doing[v].id # r
      /\ doing' = [doing EXCEPT ![w] = [doing[w] EXCEPT !.step = "mirror", !.id = r]]
  BY DEF Install!SaveNew, Install!At, Install!Free, Active, New, Building, WriteSteps
<1>2. Counted /\ doing[w].to \in ReceiptType /\ doing[w] \in JobType
  BY <1>1, MishapsSame, JobFieldsAre
<1> DEFINE to == [doing[w] EXCEPT !.step = "mirror", !.id = r]
<1>3. to \in JobType /\ to.step = "mirror"
  BY <1>2 DEF JobType, InstallSteps
<1>4. doing' = [doing EXCEPT ![w] = to]
  BY <1>1
<1> HIDE DEF to
<1>5. doing'[w].step = "mirror" /\ \A v \in Clerks : v # w => doing'[v] = doing[v]
  BY <1>3, <1>4, JobTurns
<1>6. Leaves(w)
  BY <1>1, <1>5 DEF Leaves, Active
<1>7. Writes(w, r)
  BY <1>1, <1>2, <1>6 DEF Writes
<1>8. Install!Kept' = Install!Kept \union {r}
  BY <1>1, <1>2, StoredIs
<1>9. \A v \in Clerks : Active(v) => doing[v] # Install!Idle
  BY IdleIs
<1>10. Appear(w)
  BY <1>1, <1>8, <1>9 DEF Appear
<1>11. QED
  BY <1>1, <1>2, <1>7, <1>10, NewHonest

LEMMA RemoveReceiptHonest ==
  ASSUME InstallTypes, shares \in Nat, Honest, NEW w \in Clerks, Install!RemoveReceipt(w)
  PROVE  Honest'
<1>1. /\ Install!Ends(w) /\ dirs' = dirs /\ UNCHANGED Install!hist
      /\ Active(w) /\ Removes(w)
      /\ receipts' = Restrict(receipts, Install!Kept \ {doing[w].id})
  BY DEF Install!RemoveReceipt, Install!At, Install!Restrict, Restrict, Active, Removes
<1>2. QED
  BY <1>1, LeavesHere, MishapsSame, DeletesHonest

LEMMA RecordHonest ==
  ASSUME InstallTypes, SameNames, shares \in Nat, Honest, NEW w \in Clerks, Install!Record(w)
  PROVE  Honest'
<1>1. /\ Recording(w) /\ UNCHANGED Install!hist /\ dirs' = dirs /\ doing[w].step # "idle"
      /\ Active(w) /\ ~Mends(w)
  BY DEF Install!Record, Install!At, Recording, Active, Mends, Fit, Removes
<1>2. Counted /\ doing[w].to \in ReceiptType
  BY <1>1, MishapsSame, JobFieldsAre
<1>3. CASE doing[w].id \in Install!Kept
  <2>1. /\ Install!Goes(w, "mirror") \/ Install!Ends(w)
        /\ receipts' = Install!Store(doing[w].id, doing[w].to)
    BY <1>3 DEF Install!Record
  <2>2. Leaves(w) /\ doing[w].id \in Install!Ids
    BY <1>1, <1>3, <2>1, LeavesNow DEF InstallTypes
  <2>3. Writes(w, doing[w].id)
    BY <1>2, <2>1, <2>2 DEF Writes
  <2>4. QED
    BY <1>1, <1>2, <1>3, <2>3, RecordsHonest
<1>4. CASE doing[w].id \notin Install!Kept
  <2>1. Install!Ends(w) /\ receipts' = receipts
    BY <1>4 DEF Install!Record
  <2>2. QED
    BY <1>1, <1>2, <2>1, LeavesHere, EndsHonest
<1>5. QED
  BY <1>3, <1>4

\* What a command that looks finds: the receipt of the name, as it is.
LEMMA FindNamed ==
  ASSUME InstallTypes, NEW m \in Names
  PROVE  /\ Install!Find(m) # Install!NoId =>
              Install!Find(m) \in Install!Kept /\ receipts[Install!Find(m)].name = m
         /\ Install!Find(m) = Install!NoId => \A r \in Install!Kept : receipts[r].name # m
<1>1. Install!Named(m) \in SUBSET Nat
  <2>1. Install!Ids \subseteq Nat
    BY InstallAssumption DEF Install!IdsAssumption, Install!Ids
  <2>2. QED
    BY <2>1 DEF InstallTypes, Install!Named
<1>2. Install!Min(Install!Named(m)) = Min(Install!Named(m))
  BY DEF Install!Min, Min
<1>3. CASE Install!Named(m) = {}
  BY <1>3 DEF Install!Named, Install!Find
<1>4. CASE Install!Named(m) # {}
  <2>1. Install!Find(m) = Min(Install!Named(m)) /\ Min(Install!Named(m)) \in Install!Named(m)
    BY <1>1, <1>2, <1>4, MinIsLeast DEF Install!Find
  <2>2. Install!Find(m) \in Install!Kept /\ receipts[Install!Find(m)].name = m
    BY <2>1 DEF Install!Named
  <2>3. Install!Find(m) # Install!NoId
    BY <2>2, NoIdIsNone
  <2>4. QED
    BY <2>2, <2>3
<1>5. QED
  BY <1>3, <1>4

LEMMA RecordLookHonest ==
  ASSUME InstallTypes, SameNames, shares \in Nat, Honest, NEW w \in Clerks, Install!RecordLook(w)
  PROVE  Honest'
<1>1. /\ doing[w].step = "look" /\ UNCHANGED Install!hist /\ dirs' = dirs /\ receipts' = receipts
      /\ Active(w) /\ ~Building(w) /\ ~Removes(w) /\ ~Mends(w)
  BY DEF Install!RecordLook, Install!At, Active, Building, Removes, Mends, Fit, WriteSteps
<1>2. Counted
  BY <1>1, MishapsSame
<1> DEFINE r == Install!Find(doing[w].to.name)
           rec == [receipts[r] EXCEPT !.status = doing[w].to.status]
           to == [step |-> "record", id |-> r, to |-> rec]
<1>3. CASE r = Install!NoId
  <2>1. Install!Ends(w)
    BY <1>3 DEF Install!RecordLook
  <2>2. QED
    BY <1>1, <1>2, <2>1, LeavesHere, EndsHonest
<1>4. CASE r # Install!NoId
  <2>1. doing' = [doing EXCEPT ![w] = to]
    BY <1>4 DEF Install!RecordLook
  <2>2. doing[w].to \in ReceiptType /\ doing[w].to.name \in Names
    BY <1>1, JobFieldsAre DEF ReceiptType
  <2>3. r \in Install!Kept
    BY <1>4, <2>2, FindNamed
  <2>4. receipts[r] \in ReceiptType /\ receipts' = receipts
    BY <1>1, <2>3 DEF InstallTypes
  <2>5. rec.loc = receipts[r].loc /\ rec.groups = receipts[r].groups
    BY <2>4 DEF ReceiptType
  <2> HIDE DEF rec, r
  <2>6. /\ doing'[w] = to
        /\ \A v \in Clerks : v # w => doing'[v] = doing[v]
    BY <2>1 DEF InstallTypes
  <2>7. Recording(w)' => Unchanging(w)'
    BY <2>4, <2>5, <2>6 DEF Unchanging, Site
  <2>8. Active(w)' /\ ~Building(w)' /\ ~Removes(w)'
    BY <2>6 DEF Active, Building, Removes, WriteSteps
  <2>9. Watches(w)
    BY <1>1, <2>6, <2>8 DEF Watches
  <2>10. QED
    BY <1>2, <2>7, <2>9, WatchHonest
<1>5. QED
  BY <1>3, <1>4

\* A command begins.
LEMMA BeginsCounted ==
  ASSUME InstallTypes, shares \in Nat, NEW w \in Clerks, NEW b \in BOOLEAN, Install!Begins(w, b)
  PROVE  /\ Counted /\ doing[w] = Install!Idle
         /\ Alone(w) \/ Install!Mishaps + 1 <= Install!Mishaps'
         /\ b => /\ Install!Mishaps + 1 <= Install!Mishaps'
                 /\ Alone(w) \/ (Install!Mishaps + 1) + 1 <= Install!Mishaps'
<1> DEFINE race == IF \E v \in Clerks \ {w} : ~Install!Free(v) THEN 1 ELSE 0
           share == IF b THEN 1 ELSE 0
<1>1. /\ doing[w] = Install!Idle /\ faults' = faults
      /\ races' = races + race /\ shares' = shares + share
  BY DEF Install!Begins, Install!Free
<1>2. race = 1 \/ (race = 0 /\ Alone(w))
  BY DEF Alone, Install!Free
<1>3. (b => share = 1) /\ (share = 0 \/ share = 1)
  OBVIOUS
<1> HIDE DEF race, share
<1>4. \A a, c, d \in Nat, x, y \in {0, 1} :
        /\ a + c + d \in Nat /\ a + (c + x) + (d + y) \in Nat
        /\ a + c + d <= a + (c + x) + (d + y)
        /\ x = 1 \/ y = 1 => (a + c + d) + 1 <= a + (c + x) + (d + y)
        /\ x = 1 /\ y = 1 => ((a + c + d) + 1) + 1 <= a + (c + x) + (d + y)
  OBVIOUS
<1>5. /\ Install!Mishaps = faults + races + shares
      /\ Install!Mishaps' = faults + (races + race) + (shares + share)
  BY <1>1 DEF Install!Mishaps
<1>6. faults \in Nat /\ races \in Nat /\ race \in {0, 1} /\ share \in {0, 1}
  BY <1>2, <1>3 DEF InstallTypes
<1>7. /\ Install!Mishaps \in Nat /\ Install!Mishaps' \in Nat
      /\ Install!Mishaps <= Install!Mishaps'
      /\ race = 1 \/ share = 1 => Install!Mishaps + 1 <= Install!Mishaps'
      /\ race = 1 /\ share = 1 => (Install!Mishaps + 1) + 1 <= Install!Mishaps'
  BY <1>4, <1>5, <1>6
<1>8. QED
  BY <1>1, <1>2, <1>3, <1>7 DEF Counted

\* Where it begins.
LEMMA StartsNow ==
  ASSUME InstallTypes, NEW w \in Clerks, doing[w] = Install!Idle, NEW to,
         doing' = [doing EXCEPT ![w] = to], to.step \notin {"idle", "mirror"},
         dirs' = dirs, receipts' = receipts
  PROVE  Starts(w) /\ doing'[w] = to /\ Install!Kept' = Install!Kept
  BY DEF Starts, Active, InstallTypes, Install!Kept

LEMMA DoctorHonest ==
  ASSUME InstallTypes, shares \in Nat, Honest, NEW w \in Clerks, NEW m \in Names,
         Install!Doctor(w, m)
  PROVE  Honest'
<1>1. Install!Begins(w, FALSE) /\ dirs' = dirs /\ receipts' = receipts
  BY DEF Install!Doctor
<1>2. PICK to : doing' = [doing EXCEPT ![w] = to] /\ to.step = "look"
  BY DoctorJob DEF Looks
<1>3. /\ Counted /\ doing[w] = Install!Idle
      /\ Alone(w) \/ Install!Mishaps + 1 <= Install!Mishaps'
  BY <1>1, BeginsCounted
<1>4. Starts(w) /\ doing'[w].step = "look"
  BY <1>1, <1>2, <1>3, StartsNow
<1>5. PICK G \in SUBSET Install!Ids : Trusted(G)
  BY DEF Honest
<1>6. Apart(w, G)' /\ Blameless(w, G)'
  BY <1>4 DEF Apart, New, Building, Removes, WriteSteps, Blameless, Active, Recording, Stuck
<1>7. QED
  BY <1>3, <1>4, <1>5, <1>6, StartsHonest

LEMMA StartRemoveHonest ==
  ASSUME InstallTypes, shares \in Nat, Honest, NEW w \in Clerks, NEW m \in Names,
         Install!StartRemove(w, m)
  PROVE  Honest'
<1> DEFINE r == Install!Find(m)
           s == IF Install!Exists(receipts[r].loc) THEN "rmtree" ELSE "delete"
           to == [step |-> s, id |-> r, to |-> receipts[r]]
<1>1. /\ Install!Begins(w, FALSE) /\ dirs' = dirs /\ receipts' = receipts
      /\ doing' = [doing EXCEPT ![w] = to] /\ r # Install!NoId
  BY DEF Install!StartRemove
<1>2. r \in Install!Kept
  BY <1>1, FindNamed
<1>3. /\ Counted /\ doing[w] = Install!Idle
      /\ Alone(w) \/ Install!Mishaps + 1 <= Install!Mishaps'
  BY <1>1, BeginsCounted
<1>4. /\ s \in {"rmtree", "delete"}
      /\ s = "rmtree" => dirs[receipts[r].loc].state # "absent"
  BY DEF Install!Exists
<1> HIDE DEF r, s
<1>5. /\ Starts(w) /\ doing'[w] = to /\ Install!Kept' = Install!Kept
  BY <1>1, <1>3, <1>4, StartsNow
<1>6. /\ doing'[w].step = s /\ doing'[w].id = r /\ doing'[w].to = receipts[r]
  BY <1>5
<1> HIDE DEF to
<1>7. PICK G \in SUBSET Install!Ids : Trusted(G)
  BY DEF Honest
<1>8. G \subseteq Install!Kept /\ Distinct(G)
  BY <1>7 DEF Trusted, Sound
<1>9. ~Building(w)' /\ ~New(w)' /\ ~Recording(w)' /\ Active(w)'
  BY <1>4, <1>6 DEF Building, New, Recording, Active, WriteSteps
<1>10. ~Stuck(w)'
  BY <1>1, <1>4, <1>6 DEF Stuck, Site, Install!Exists
<1>11. ASSUME ~Unheld(w, G)', NEW u \in G PROVE ~AtSite(w, u)'
  <2>1. r \in G
    BY <1>2, <1>5, <1>6, <1>11 DEF Unheld
  <2>2. u # r => receipts[u].loc # receipts[r].loc
    BY <1>8, <2>1 DEF Distinct, Differ
  <2>3. QED
    BY <1>1, <1>6, <2>2 DEF AtSite, Site
<1>12. Apart(w, G)' /\ Blameless(w, G)'
  BY <1>9, <1>10, <1>11 DEF Apart, Blameless
<1>13. QED
  BY <1>3, <1>5, <1>7, <1>12, StartsHonest

LEMMA StartCreateHonest ==
  ASSUME InstallTypes, shares \in Nat, Honest, NEW w \in Clerks, NEW m \in Names, NEW l \in Places,
         NEW gs \in SUBSET Groups, NEW b \in BOOLEAN, Install!StartCreate(w, m, l, gs, b)
  PROVE  Honest'
<1> DEFINE r == Install!Find(m)
           s == IF b /\ Install!Exists(l) THEN "clear" ELSE "build"
           to == [step |-> s, id |-> r, to |-> Install!Receipt(m, l, gs)]
           shared == \E u \in Install!Kept : receipts[u].loc = l /\ receipts[u].name # m
<1>1. /\ Install!Begins(w, shared) /\ dirs' = dirs /\ receipts' = receipts
      /\ doing' = [doing EXCEPT ![w] = to]
  BY DEF Install!StartCreate
<1>2. /\ r # Install!NoId => r \in Install!Kept /\ receipts[r].name = m
      /\ r = Install!NoId => \A u \in Install!Kept : receipts[u].name # m
  BY FindNamed
<1>3. ~shared => \A u \in Install!Kept : receipts[u].loc = l => receipts[u].name = m
  OBVIOUS
<1>4. /\ s \in {"clear", "build"} /\ shared \in BOOLEAN
      /\ Install!Receipt(m, l, gs).name = m /\ Install!Receipt(m, l, gs).loc = l
  BY DEF Install!Receipt
<1> HIDE DEF shared, r, s
<1>5. /\ Counted /\ doing[w] = Install!Idle
      /\ Alone(w) \/ Install!Mishaps + 1 <= Install!Mishaps'
      /\ shared => /\ Install!Mishaps + 1 <= Install!Mishaps'
                   /\ Alone(w) \/ (Install!Mishaps + 1) + 1 <= Install!Mishaps'
  BY <1>1, <1>4, BeginsCounted
<1>6. /\ Starts(w) /\ doing'[w] = to /\ Install!Kept' = Install!Kept
  BY <1>1, <1>4, <1>5, StartsNow
<1>7. /\ doing'[w].step \in {"clear", "build"} /\ doing'[w].id = r
      /\ doing'[w].to.name = m /\ doing'[w].to.loc = l
  BY <1>4, <1>6
<1> HIDE DEF to
<1>8. PICK G \in SUBSET Install!Ids : Trusted(G)
  BY DEF Honest
<1>9. G \subseteq Install!Kept /\ Distinct(G)
  BY <1>8 DEF Trusted, Sound
<1>10. /\ Building(w)' /\ ~Removes(w)' /\ ~Recording(w)' /\ Active(w)' /\ ~Stuck(w)'
       /\ New(w)' <=> r = Install!NoId
       /\ Site(w)' = l
  BY <1>7 DEF Building, Removes, Recording, Active, Stuck, New, WriteSteps, Site
<1>11. Mended(Site(w))'
  <2>1. Mends(w)'
    BY <1>7 DEF Mends, Fit
  <2>2. QED
    BY <2>1 DEF Mended
<1>12. Blameless(w, G)'
  BY <1>10, <1>11 DEF Blameless
<1>13. ASSUME NEW u \in G
       PROVE  /\ AtSite(w, u)' <=> u # r /\ receipts[u].loc = l
              /\ Akin(w, u)' <=> u # r /\ (receipts[u].loc = l \/ receipts[u].name = m)
  BY <1>1, <1>7, <1>10 DEF AtSite, Akin
<1>14. CASE ~shared
  <2>1. ASSUME NEW u \in G, Akin(w, u)' PROVE u # r /\ receipts[u].name = m /\ r # Install!NoId
    BY <1>2, <1>3, <1>9, <1>13, <1>14, <2>1
  <2>2. ASSUME NEW u \in G, NEW t \in G, Akin(w, u)', Akin(w, t)' PROVE u = t
    <3>1. receipts[u].name = receipts[t].name
      BY <2>1, <2>2
    <3>2. QED
      BY <1>9, <3>1 DEF Distinct, Differ
  <2>3. ASSUME ~Unheld(w, G)', NEW u \in G PROVE ~AtSite(w, u)'
    <3>1. SUFFICES ASSUME AtSite(w, u)' PROVE FALSE
      OBVIOUS
    <3>2. Akin(w, u)'
      BY <3>1 DEF Akin
    <3>3. u # r /\ receipts[u].name = m /\ r # Install!NoId
      BY <2>1, <3>2
    <3>4. r \in G /\ receipts[r].name = m
      BY <1>2, <1>6, <1>7, <2>3, <3>3 DEF Unheld
    <3>5. QED
      BY <1>9, <3>3, <3>4 DEF Distinct, Differ
  <2>4. Apart(w, G)'
    BY <1>10, <2>1, <2>2, <2>3 DEF Apart
  <2>5. QED
    BY <1>5, <1>6, <1>8, <1>12, <2>4, StartsHonest
<1>15. CASE shared
  <2>1. New(w)' => \A u \in G : receipts'[u].name # doing'[w].to.name
    BY <1>1, <1>2, <1>7, <1>9, <1>10
  <2>2. QED
    BY <1>5, <1>6, <1>8, <1>12, <1>15, <2>1, StartsHonest
<1>16. QED
  BY <1>14, <1>15

\* Every step keeps it.
LEMMA HonestInit == Install!Init => Honest /\ SameNames /\ shares \in Nat
<1> SUFFICES ASSUME Install!Init PROVE Honest /\ SameNames /\ shares \in Nat
  OBVIOUS
<1>1. Install!Kept = {} /\ \A w \in Clerks : doing[w] = Install!Idle
  BY DEF Install!Init, Install!Kept
<1>2. \A w \in Clerks : doing[w].step = "idle" /\ ~Active(w) /\ ~New(w)
  BY <1>1, IdleIs
<1>3. Install!Mishaps = 0 /\ shares \in Nat
  BY DEF Install!Init, Install!Mishaps
<1>4. Bill({}) = {}
  BY <1>1, <1>2 DEF Bill
<1>5. Few(Bill({}), Install!Mishaps)
  BY <1>3, <1>4, FS_EmptySet DEF Few
<1>6. Trusted({})
  BY <1>2, <1>5 DEF Trusted, Sound, Distinct, Fair, Taking, Settled
<1>7. Honest /\ SameNames
  BY <1>2, <1>6 DEF Honest, SameNames
<1>8. QED
  BY <1>3, <1>7

LEMMA BeginsShares ==
  ASSUME shares \in Nat, NEW w, NEW b, Install!Begins(w, b)
  PROVE  shares' \in Nat
<1>1. shares' = shares + 1 \/ shares' = shares + 0
  BY DEF Install!Begins
<1>2. QED
  BY <1>1

LEMMA SharesCount ==
  ASSUME shares \in Nat, [Install!Next]_Install!vars
  PROVE  shares' \in Nat
<1>1. CASE UNCHANGED Install!vars
  BY <1>1 DEF Install!vars, Install!hist
<1>2. CASE Install!Next
  <2>1. PICK w \in Clerks : \/ Install!Creating(w) \/ Install!Removing(w)
                            \/ Install!Examining(w) \/ Install!Crash(w)
    BY <1>2 DEF Install!Next
  <2>2. ASSUME NEW m \in Names, NEW l \in Places, NEW gs \in SUBSET Groups, NEW b \in BOOLEAN,
               Install!StartCreate(w, m, l, gs, b)
        PROVE  shares' \in Nat
    <3>1. \E c : Install!Begins(w, c)
      BY <2>2 DEF Install!StartCreate
    <3>2. QED
      BY <3>1, BeginsShares
  <2>3. ASSUME NEW m \in Names, Install!StartRemove(w, m) \/ Install!Doctor(w, m)
        PROVE  shares' \in Nat
    BY <2>3, BeginsShares DEF Install!StartRemove, Install!Doctor
  <2>4. CASE Install!Creating(w)
    BY <2>2, <2>4 DEF Install!Creating, Install!Clear, Install!Build, Install!Pip,
       Install!PipFails, Install!PipMissing, Install!SaveOver, Install!SaveNew, Install!Mirror,
       Install!Fault, Install!hist
  <2>5. CASE Install!Removing(w)
    BY <2>3, <2>5 DEF Install!Removing, Install!RemoveSome, Install!RemoveRest,
       Install!RemoveFails, Install!RemoveReceipt, Install!hist
  <2>6. CASE Install!Examining(w)
    BY <2>3, <2>6 DEF Install!Examining, Install!RecordLook, Install!Record, Install!hist
  <2>7. CASE Install!Crash(w)
    BY <2>7 DEF Install!Crash, Install!Fault
  <2>8. QED
    BY <2>1, <2>4, <2>5, <2>6, <2>7
<1>3. QED
  BY <1>1, <1>2

\* A command keeps to its receipt, or begins with the name of one that is
\* kept, or is idle; a receipt keeps its name, and a new one is nobody's.
SameNamed(w) == doing[w].step # "idle" /\ doing[w].id \in Install!Kept =>
                  receipts[doing[w].id].name = doing[w].to.name
NamesKept == \A r \in Install!Kept' : r \in Install!Kept /\ receipts'[r].name = receipts[r].name

LEMMA NamesStep ==
  ASSUME SameNames, NEW w \in Clerks, NamesKept, SameNamed(w)',
         \A v \in Clerks : v # w => doing'[v] = doing[v]
  PROVE  SameNames'
<1>1. ASSUME NEW v \in Clerks, v # w PROVE SameNamed(v)'
  BY <1>1 DEF SameNames, SameNamed, NamesKept
<1>2. \A v \in Clerks : SameNamed(v)'
  BY <1>1
<1>3. QED
  BY <1>2 DEF SameNames, SameNamed

LEMMA NamesFrame ==
  ASSUME receipts' = receipts
  PROVE  NamesKept
  BY DEF NamesKept, Install!Kept

LEMMA NamesGo ==
  ASSUME InstallTypes, SameNames, NEW w \in Clerks, doing[w].step # "idle",
         NEW s \in InstallSteps, s # "record", Install!Goes(w, s), NamesKept
  PROVE  SameNames'
<1>1. /\ doing'[w].id = doing[w].id /\ doing'[w].to = doing[w].to
      /\ \A v \in Clerks : v # w => doing'[v] = doing[v]
  BY JobGoes
<1>2. SameNamed(w)'
  BY <1>1 DEF SameNames, SameNamed, NamesKept
<1>3. QED
  BY <1>1, <1>2, NamesStep

LEMMA NamesEnd ==
  ASSUME InstallTypes, SameNames, NEW w \in Clerks, Install!Ends(w), NamesKept
  PROVE  SameNames'
<1>1. doing'[w].step = "idle" /\ \A v \in Clerks : v # w => doing'[v] = doing[v]
  BY JobEnds
<1>2. SameNamed(w)'
  BY <1>1 DEF SameNamed
<1>3. QED
  BY <1>1, <1>2, NamesStep

LEMMA NamesBegin ==
  ASSUME InstallTypes, SameNames, NEW w \in Clerks, NEW to, doing' = [doing EXCEPT ![w] = to],
         receipts' = receipts,
         to.id \in Install!Kept => to.to.name = receipts[to.id].name
  PROVE  SameNames'
<1>1. doing'[w] = to /\ \A v \in Clerks : v # w => doing'[v] = doing[v]
  BY DEF InstallTypes
<1>2. SameNamed(w)'
  BY <1>1 DEF SameNamed, Install!Kept
<1>3. QED
  BY <1>1, <1>2, NamesFrame, NamesStep

LEMMA NamesStore ==
  ASSUME InstallTypes, SameNames, NEW w \in Clerks, doing[w].step # "idle",
         doing[w].id \in Install!Kept, receipts' = Install!Store(doing[w].id, doing[w].to)
  PROVE  NamesKept
<1>1. doing[w].to \in ReceiptType /\ doing[w].id \in Install!Ids
  BY JobFieldsAre DEF InstallTypes
<1>2. /\ Install!Kept' = Install!Kept \union {doing[w].id}
      /\ receipts'[doing[w].id] = doing[w].to
      /\ \A u \in Install!Kept : u # doing[w].id => receipts'[u] = receipts[u]
  BY <1>1, StoredIs
<1>3. receipts[doing[w].id].name = doing[w].to.name
  BY DEF SameNames
<1>4. QED
  BY <1>2, <1>3 DEF NamesKept

LEMMA NamesCreating ==
  ASSUME InstallTypes, SameNames, NEW w \in Clerks, Install!Creating(w)
  PROVE  SameNames'
<1>1. ASSUME NEW m \in Names, NEW l \in Places, NEW gs \in SUBSET Groups, NEW b \in BOOLEAN,
             Install!StartCreate(w, m, l, gs, b)
      PROVE  SameNames'
  <2> DEFINE s == IF b /\ Install!Exists(l) THEN "clear" ELSE "build"
             to == [step |-> s, id |-> Install!Find(m), to |-> Install!Receipt(m, l, gs)]
  <2>1. doing' = [doing EXCEPT ![w] = to] /\ receipts' = receipts
    BY <1>1 DEF Install!StartCreate
  <2>2. to.id = Install!Find(m) /\ to.to.name = m
    BY DEF Install!Receipt
  <2> HIDE DEF to
  <2>3. to.id \in Install!Kept => to.to.name = receipts[to.id].name
    BY <2>2, FindNamed, NoIdIsNone
  <2>4. QED
    BY <2>1, <2>3, NamesBegin
<1>2. CASE Install!Clear(w)
  BY <1>2, NamesFrame, NamesGo DEF Install!Clear, Install!At, InstallSteps, WriteSteps
<1>3. CASE Install!Build(w)
  BY <1>3, NamesFrame, NamesGo DEF Install!Build, Install!At, InstallSteps, WriteSteps
<1>4. CASE Install!Pip(w)
  BY <1>4, NamesFrame, NamesGo DEF Install!Pip, Install!At, InstallSteps, WriteSteps
<1>5. CASE Install!PipFails(w) \/ Install!PipMissing(w) \/ Install!Mirror(w)
  BY <1>5, NamesFrame, NamesEnd DEF Install!PipFails, Install!PipMissing, Install!Mirror
<1>6. CASE Install!SaveOver(w)
  <2>1. doing[w].step = "save" /\ doing[w].step # "idle"
    BY <1>6 DEF Install!SaveOver, Install!At
  <2>2. CASE doing[w].id \in Install!Kept
    <3>1. Install!Goes(w, "mirror") /\ receipts' = Install!Store(doing[w].id, doing[w].to)
      BY <1>6, <2>2 DEF Install!SaveOver
    <3>2. QED
      BY <2>1, <2>2, <3>1, NamesStore, NamesGo DEF InstallSteps
  <2>3. CASE doing[w].id \notin Install!Kept
    BY <1>6, <2>3, NamesFrame, NamesEnd DEF Install!SaveOver
  <2>4. QED
    BY <2>2, <2>3
<1>7. ASSUME NEW r \in Install!Ids, Install!SaveNew(w, r) PROVE SameNames'
  <2>1. /\ doing[w].step # "idle" /\ r \notin Install!Kept
        /\ receipts' = Install!Store(r, doing[w].to)
        /\ \A v \in Clerks : doing[v] # Install!Idle => doing[v].id # r
        /\ doing' = [doing EXCEPT ![w] = [doing[w] EXCEPT !.step = "mirror", !.id = r]]
    BY <1>7 DEF Install!SaveNew, Install!At, Install!Free
  <2>2. doing[w] \in JobType /\ doing[w].to \in ReceiptType
    BY <2>1, JobFieldsAre
  <2>3. /\ doing'[w].id = r /\ doing'[w].to = doing[w].to
        /\ \A v \in Clerks : v # w => doing'[v] = doing[v]
    BY <2>1, <2>2 DEF InstallTypes, JobType
  <2>4. /\ Install!Kept' = Install!Kept \union {r} /\ receipts'[r] = doing[w].to
        /\ \A u \in Install!Kept : u # r => receipts'[u] = receipts[u]
    BY <2>1, <2>2, StoredIs
  <2>5. SameNamed(w)'
    BY <2>3, <2>4 DEF SameNamed
  <2>6. ASSUME NEW v \in Clerks, v # w PROVE SameNamed(v)'
    <3>1. SUFFICES ASSUME doing[v].step # "idle", doing[v].id \in Install!Kept'
                   PROVE  receipts'[doing[v].id].name = doing[v].to.name
      BY <2>3, <2>6 DEF SameNamed
    <3>2. doing[v].id # r
      BY <2>1, <3>1 DEF Install!Idle
    <3>3. QED
      BY <2>4, <3>1, <3>2 DEF SameNames
  <2>7. \A v \in Clerks : SameNamed(v)'
    BY <2>5, <2>6
  <2>8. QED
    BY <2>7 DEF SameNames, SameNamed
<1>8. QED
  BY <1>1, <1>2, <1>3, <1>4, <1>5, <1>6, <1>7 DEF Install!Creating

LEMMA NamesRemoving ==
  ASSUME InstallTypes, SameNames, NEW w \in Clerks, Install!Removing(w)
  PROVE  SameNames'
<1>1. ASSUME NEW m \in Names, Install!StartRemove(w, m) PROVE SameNames'
  <2> DEFINE r == Install!Find(m)
             s == IF Install!Exists(receipts[r].loc) THEN "rmtree" ELSE "delete"
             to == [step |-> s, id |-> r, to |-> receipts[r]]
  <2>1. doing' = [doing EXCEPT ![w] = to] /\ receipts' = receipts
    BY <1>1 DEF Install!StartRemove
  <2>2. to.id \in Install!Kept => to.to.name = receipts[to.id].name
    OBVIOUS
  <2> HIDE DEF to
  <2>3. QED
    BY <2>1, <2>2, NamesBegin
<1>2. CASE Install!RemoveSome(w)
  BY <1>2, NamesFrame, NamesGo DEF Install!RemoveSome, Install!At, InstallSteps
<1>3. CASE Install!RemoveRest(w)
  BY <1>3, NamesFrame, NamesGo DEF Install!RemoveRest, Install!At, InstallSteps
<1>4. CASE Install!RemoveFails(w)
  BY <1>4, NamesFrame, NamesEnd DEF Install!RemoveFails
<1>5. CASE Install!RemoveReceipt(w)
  <2>1. Install!Ends(w) /\ receipts' = Restrict(receipts, Install!Kept \ {doing[w].id})
    BY <1>5 DEF Install!RemoveReceipt, Install!Restrict, Restrict
  <2>2. NamesKept
    BY <2>1 DEF NamesKept, Restrict, Install!Kept
  <2>3. QED
    BY <2>1, <2>2, NamesEnd
<1>6. QED
  BY <1>1, <1>2, <1>3, <1>4, <1>5 DEF Install!Removing

LEMMA NamesExamining ==
  ASSUME InstallTypes, SameNames, NEW w \in Clerks, Install!Examining(w)
  PROVE  SameNames'
<1>1. ASSUME NEW m \in Names, Install!Doctor(w, m) PROVE SameNames'
  <2> DEFINE r == Install!Find(m)
             rec == [receipts[r] EXCEPT !.status = Install!Verdict(r)]
             to == [step |-> "look", id |-> r, to |-> rec]
  <2>1. doing' = [doing EXCEPT ![w] = to] /\ receipts' = receipts /\ r # Install!NoId
    BY <1>1 DEF Install!Doctor
  <2>2. receipts[r] \in ReceiptType
    BY <2>1, FindNamed DEF InstallTypes
  <2>3. rec.name = receipts[r].name
    BY <2>2 DEF ReceiptType
  <2> HIDE DEF rec, r
  <2>4. to.id = r /\ to.to = rec
    OBVIOUS
  <2> HIDE DEF to
  <2>5. QED
    BY <2>1, <2>3, <2>4, NamesBegin
<1>2. CASE Install!RecordLook(w)
  <2> DEFINE r == Install!Find(doing[w].to.name)
             rec == [receipts[r] EXCEPT !.status = doing[w].to.status]
             to == [step |-> "record", id |-> r, to |-> rec]
  <2>1. doing[w].step = "look" /\ receipts' = receipts
    BY <1>2 DEF Install!RecordLook, Install!At
  <2>2. CASE r = Install!NoId
    BY <1>2, <2>1, <2>2, NamesFrame, NamesEnd DEF Install!RecordLook
  <2>3. CASE r # Install!NoId
    <3>1. doing' = [doing EXCEPT ![w] = to]
      BY <1>2, <2>3 DEF Install!RecordLook
    <3>2. doing[w].to.name \in Names
      BY <2>1, JobFieldsAre DEF ReceiptType
    <3>3. receipts[r] \in ReceiptType
      BY <2>3, <3>2, FindNamed DEF InstallTypes
    <3>4. rec.name = receipts[r].name
      BY <3>3 DEF ReceiptType
    <3> HIDE DEF rec, r
    <3>5. to.id = r /\ to.to = rec
      OBVIOUS
    <3> HIDE DEF to
    <3>6. QED
      BY <2>1, <3>1, <3>4, <3>5, NamesBegin
  <2>4. QED
    BY <2>2, <2>3
<1>3. CASE Install!Record(w)
  <2>1. doing[w].step = "record" /\ doing[w].step # "idle"
    BY <1>3 DEF Install!Record, Install!At
  <2>2. CASE doing[w].id \in Install!Kept
    <3>1. /\ Install!Goes(w, "mirror") \/ Install!Ends(w)
          /\ receipts' = Install!Store(doing[w].id, doing[w].to)
      BY <1>3, <2>2 DEF Install!Record
    <3>2. NamesKept
      BY <2>1, <2>2, <3>1, NamesStore
    <3>3. QED
      BY <2>1, <3>1, <3>2, NamesGo, NamesEnd DEF InstallSteps
  <2>3. CASE doing[w].id \notin Install!Kept
    BY <1>3, <2>3, NamesFrame, NamesEnd DEF Install!Record
  <2>4. QED
    BY <2>2, <2>3
<1>4. QED
  BY <1>1, <1>2, <1>3 DEF Install!Examining

LEMMA SameNamesStep ==
  ASSUME InstallTypes, SameNames, [Install!Next]_Install!vars
  PROVE  SameNames'
<1>1. CASE UNCHANGED Install!vars
  BY <1>1 DEF Install!vars, SameNames, Install!Kept
<1>2. CASE Install!Next
  <2>1. PICK w \in Clerks : \/ Install!Creating(w) \/ Install!Removing(w)
                            \/ Install!Examining(w) \/ Install!Crash(w)
    BY <1>2 DEF Install!Next
  <2>2. Install!Crash(w) => SameNames'
    BY NamesFrame, NamesEnd DEF Install!Crash
  <2>3. QED
    BY <2>1, <2>2, NamesCreating, NamesRemoving, NamesExamining
<1>3. QED
  BY <1>1, <1>2

LEMMA HonestNext ==
  ASSUME InstallTypes, SameNames, shares \in Nat, Honest, [Install!Next]_Install!vars
  PROVE  Honest'
<1>1. CASE UNCHANGED Install!vars
  <2>1. /\ dirs' = dirs /\ receipts' = receipts /\ doing' = doing /\ faults' = faults
        /\ races' = races /\ shares' = shares
    BY <1>1 DEF Install!vars, Install!hist
  <2>2. PICK G \in SUBSET Install!Ids : Trusted(G)
    BY DEF Honest
  <2>3. Install!Kept' = Install!Kept /\ Install!Mishaps' = Install!Mishaps /\ Bill(G)' = Bill(G)
    BY <2>1 DEF Install!Kept, Install!Mishaps, Bill, Active
  <2>4. Sound(G)' <=> Sound(G)
    BY <2>1 DEF Sound, Distinct, Differ, Install!Backed, Mended, Mends, Fit, Removes, Site
  <2>5. Fair(G)' <=> Fair(G)
    BY <2>1 DEF Fair, Taking, New, Building, Akin, AtSite, Site
  <2>6. Peaceful(G)' <=> Peaceful(G)
    <3>1. \A w \in Clerks : Apart(w, G)' <=> Apart(w, G)
      BY <2>1, <2>3 DEF Apart, New, Building, Removes, Akin, AtSite, Site, Unheld
    <3>2. \A w \in Clerks : Blameless(w, G)' <=> Blameless(w, G)
      BY <2>1 DEF Blameless, Active, Building, Recording, Stuck, Unchanging, Mended, MendedBut,
         Mends, Fit, Removes, Site, Install!Backed, Install!Exists
    <3>3. QED
      BY <3>1, <3>2 DEF Peaceful
  <2>7. Settled(G)'
    BY <2>2, <2>3, <2>6 DEF Trusted, Settled
  <2>8. QED
    BY <2>2, <2>3, <2>4, <2>5, <2>7 DEF Honest, Trusted, Install!Ids
<1>2. CASE Install!Next
  <2>1. PICK w \in Clerks : \/ Install!Creating(w) \/ Install!Removing(w)
                            \/ Install!Examining(w) \/ Install!Crash(w)
    BY <1>2 DEF Install!Next
  <2>2. CASE Install!Creating(w)
    BY <2>2, StartCreateHonest, ClearHonest, BuildHonest, PipHonest, FaultHonest,
       PipMissingHonest, SaveOverHonest, SaveNewHonest, MirrorsHonest DEF Install!Creating
  <2>3. CASE Install!Removing(w)
    BY <2>3, StartRemoveHonest, RemoveSomeHonest, RemoveRestHonest, RemoveFailsHonest,
       RemoveReceiptHonest DEF Install!Removing
  <2>4. CASE Install!Examining(w)
    BY <2>4, DoctorHonest, RecordLookHonest, RecordHonest DEF Install!Examining
  <2>5. CASE Install!Crash(w)
    BY <2>5, FaultHonest
  <2>6. QED
    BY <2>1, <2>2, <2>3, <2>4, <2>5
<1>3. QED
  BY <1>1, <1>2

\* What is not backed, with nobody at work on it, is on the bill; while nobody
\* is in the way, one of the commands on it is blameless.
LEMMA HonestBacks == InstallTypes /\ shares \in Nat /\ Honest => ReceiptsBacked
<1> SUFFICES ASSUME InstallTypes, shares \in Nat, Honest PROVE ReceiptsBacked
  OBVIOUS
<1>1. PICK G \in SUBSET Install!Ids : Trusted(G)
  BY DEF Honest
<1> DEFINE broken == {r \in Install!Kept : ~Install!Backed(r) /\ ~Install!InHand(r)}
           billed == {<<"for", r>> : r \in broken}
           k == Install!Mishaps
           B == Bill(G)
<1>2. ASSUME NEW r \in broken PROVE r \in Install!Kept \ G
  <2>1. SUFFICES ASSUME r \in G PROVE FALSE
    OBVIOUS
  <2>2. PICK v \in Clerks : Mends(v) /\ Site(v) = receipts[r].loc
    BY <1>1, <2>1 DEF Trusted, Sound, Mended
  <2>3. doing[v] # Install!Idle
    BY <2>2, IdleIs
  <2>4. QED
    BY <2>2, <2>3 DEF Install!InHand, Install!Free, Site
<1>3. billed \subseteq B
  BY <1>2, BillHas
<1>4. k \in Nat /\ k + 1 \in Nat
  <2>1. \A a, b, c \in Nat : a + b + c \in Nat /\ a + b + c + 1 \in Nat
    OBVIOUS
  <2>2. QED
    BY <2>1 DEF Install!Mishaps, InstallTypes
<1>5. Few(billed, k)
  <2>1. CASE Few(B, k)
    <3> HIDE DEF k, billed, B
    <3>1. QED
      BY <1>3, <1>4, <2>1, FewLess
  <2>2. CASE Few(B, k + 1) /\ Peaceful(G)
    <3>1. PICK w \in Clerks : Active(w)
      BY <2>2 DEF Peaceful, Blameless
    <3>2. <<"by", w>> \in B /\ billed \subseteq B \ {<<"by", w>>}
      BY <1>3, <3>1, BillHas
    <3> HIDE DEF k, billed, B
    <3>3. Few(B \ {<<"by", w>>}, k)
      BY <1>4, <2>2, <3>2, FewBut
    <3>4. QED
      BY <1>4, <3>2, <3>3, FewLess
  <2>3. QED
    BY <1>1, <2>1, <2>2 DEF Trusted, Settled
<1>6. Few(broken, k)
  <2> DEFINE to == [d \in billed |-> d[2]]
  <2>1. Charged(broken, billed, to)
    <3> HIDE DEF broken
    <3>1. \A r \in broken : <<"for", r>> \in billed /\ to[<<"for", r>>] = r
      OBVIOUS
    <3> HIDE DEF billed, to
    <3>2. QED
      BY <3>1 DEF Charged
  <2> HIDE DEF broken, billed, to, k
  <2>2. QED
    BY <1>4, <1>5, <2>1, FewCharged
<1>7. Cardinality(broken) <= Install!Mishaps
  BY <1>6 DEF Few
<1>8. QED
  BY <1>7 DEF ReceiptsBacked, Install!ReceiptsBacked, Install!Cardinality, Cardinality,
     Install!IsFiniteSet, IsFiniteSet

(* ReceiptsBacked: every receipt whose environment lacks what it promises, *)
(* with no command at work on it, is paid for by a death, a failure of     *)
(* pip, an overlap or a directory shared, one for one: create writes the   *)
(* receipt last, remove deletes it last, and nothing but the receipt's own *)
(* path is removed (lib/install/instance.py).                              *)
THEOREM ReceiptsBackedHolds == PartsSpec => []ReceiptsBacked
<1>1. PartsInit => InstallTypes /\ Honest /\ SameNames /\ shares \in Nat
  BY InstallTypesInit, HonestInit DEF PartsInit
<1>2. InstallTypes /\ Honest /\ SameNames /\ shares \in Nat
      /\ [PartsNext]_<<part, vars, badge, safe, install>> =>
        InstallTypes' /\ Honest' /\ SameNames' /\ (shares \in Nat)'
  <2>1. [PartsNext]_<<part, vars, badge, safe, install>> => [Install!Next]_Install!vars
    BY DEF PartsNext, install, Install!vars, Install!hist
  <2>2. QED
    BY <2>1, InstallTypesStep, HonestNext, SameNamesStep, SharesCount
<1>3. QED
  BY <1>1, <1>2, HonestBacks, PTL DEF PartsSpec
=============================================================================
