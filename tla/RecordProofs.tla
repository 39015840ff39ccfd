---------------------------- MODULE RecordProofs ----------------------------
(***************************************************************************)
(* Theorems about the screens, the datastore and the logs, for any number  *)
(* of agents, crues, processes, records, files and tasks, and for the      *)
(* composition that TLC runs.                                              *)
(***************************************************************************)
EXTENDS MCRecords, Sequences, FiniteSetTheorems, TLAPS

-----------------------------------------------------------------------------
(***************************************************************************)
(* The screens.  What a screen shows is as old as the last load; but who   *)
(* is retired, and who is in which crue, only screens change, and each     *)
(* loads the roster again.                                                 *)
(***************************************************************************)
AgentRec == [gold : Int, xp : Int, role : Int, crues : SUBSET Crues, retired : BOOLEAN]
Balances == [gold : Int, xp : Int, role : Int]

ScreenTypes ==
  /\ agents \in [Agents -> AgentRec] /\ crues \in [Crues -> Int]
  /\ due \in [Agents -> Balances]
  /\ \A a \in DOMAIN roster : roster[a] \in AgentRec
  /\ screen = "dossier" /\ dossier # Nobody => dossier.copy \in AgentRec

RosterTells ==
  /\ DOMAIN roster = {a \in Agents : ~agents[a].retired}
  /\ \A a \in DOMAIN roster : ~roster[a].retired /\ roster[a].crues = agents[a].crues
DossierTells == \A a \in Agents : OnScreen(a) =>
  /\ ~agents[a].retired /\ ~dossier.copy.retired
  /\ dossier.copy.crues = agents[a].crues
CrueTells == screen = "crue" =>
  /\ crue \in Crues /\ crue \in DOMAIN company
  /\ company[crue] = crues[crue] /\ crues[crue] # Gone

ScreensInv == ScreenTypes /\ RosterTells /\ DossierTells /\ CrueTells

LEMMA Amounts ==
  /\ StartGold \in Int /\ StartXp \in Int /\ Price \in Int /\ LevelCost \in Int
  /\ WageGold \in Int /\ WageXp \in Int /\ ScaledGold \in Int
  BY AmountsAssumption

LEMMA NewAgentRec == NewAgent \in AgentRec /\ ~NewAgent.retired /\ NewAgent.crues = {}
  BY Amounts DEF NewAgent, AgentRec

\* The roster loaded.
LEMMA LoadedTells ==
  ASSUME agents' \in [Agents -> AgentRec], roster' = Loaded(agents')
  PROVE  RosterTells' /\ \A a \in DOMAIN roster' : roster'[a] \in AgentRec
  BY DEF Loaded, RosterTells

\* One agent's record is written, as it was or from the screen's copy.
WritesAgent(a, new) ==
  /\ agents' = [agents EXCEPT ![a] = new]
  /\ new \in AgentRec /\ (new.retired <=> agents[a].retired)

\* A copy on the dossier screen is written over its record.
LEMMA WritesCopy ==
  ASSUME ScreensInv, NEW a \in Agents, OnScreen(a), NEW copy \in AgentRec, ~copy.retired,
         WriteCopy(a, copy), UNCHANGED <<crues, screen>>, due' \in [Agents -> Balances]
  PROVE  /\ ScreensInv' /\ dossier'.copy = copy /\ dossier'.id = a /\ agents'[a] = copy
         /\ roster' = Loaded(agents') /\ WritesAgent(a, copy)
<1>1. agents' = [agents EXCEPT ![a] = copy] /\ agents' \in [Agents -> AgentRec]
      /\ agents'[a] = copy /\ roster' = Loaded(agents') /\ WritesAgent(a, copy)
  BY DEF ScreensInv, ScreenTypes, WriteCopy, DossierTells, WritesAgent
<1>2. RosterTells' /\ \A x \in DOMAIN roster' : roster'[x] \in AgentRec
  BY <1>1, LoadedTells
<1>3. dossier' = [id |-> a, copy |-> copy]
  BY <1>1 DEF WriteCopy, Loaded
<1>4. ScreenTypes' /\ DossierTells' /\ CrueTells'
  BY <1>1, <1>2, <1>3 DEF ScreensInv, ScreenTypes, DossierTells, CrueTells, OnScreen
<1>5. QED
  BY <1>1, <1>2, <1>3, <1>4 DEF ScreensInv

\* The copy on screen and the agent it is of.
LEMMA CopyOf ==
  ASSUME ScreensInv, NEW a \in Agents, OnScreen(a)
  PROVE  /\ dossier.copy \in AgentRec /\ ~dossier.copy.retired /\ ~agents[a].retired
         /\ dossier.copy.crues = agents[a].crues /\ agents[a] \in AgentRec
         /\ due[a] \in Balances /\ screen = "dossier"
  BY DEF ScreensInv, ScreenTypes, DossierTells, OnScreen

\* The screens that write the whole copy, and what they make of it.
Rewrites(a) ==
  \/ Purchase(a) \/ Upgrade(a) \/ RerollGold(a) \/ Regenerate(a)
Redraws(a, copy, d) ==
  /\ WriteCopy(a, copy) /\ ~copy.retired /\ copy.crues \subseteq agents[a].crues
  /\ due' = [due EXCEPT ![a] = d]
  /\ Settled(agents[a]) = due[a] /\ dossier.copy = agents[a] => Settled(copy) = d

LEMMA RewriteOf ==
  ASSUME ScreensInv, NEW a \in Agents, Rewrites(a)
  PROVE  /\ OnScreen(a) /\ UNCHANGED <<crues, company, crue, screen, worker, loose>>
         /\ \E copy \in AgentRec, d \in Balances : Redraws(a, copy, d)
<1>0. OnScreen(a) /\ UNCHANGED <<crues, company, crue, screen, worker, loose>>
  BY DEF Rewrites, Purchase, Upgrade, RerollGold, Regenerate
<1>1. /\ dossier.copy \in AgentRec /\ ~dossier.copy.retired
      /\ dossier.copy.crues = agents[a].crues /\ agents[a] \in AgentRec
      /\ due \in [Agents -> Balances] /\ due[a] \in Balances
  BY <1>0, CopyOf DEF ScreensInv, ScreenTypes
<1> DEFINE c == dossier.copy
<1>2. CASE Purchase(a)
  <2> DEFINE copy == [c EXCEPT !.gold = @ - Price]
             d == [due[a] EXCEPT !.gold = @ - Price]
  <2>1. copy \in AgentRec /\ d \in Balances /\ ~copy.retired /\ copy.crues = c.crues
    BY <1>1, Amounts DEF AgentRec, Balances
  <2>2. WriteCopy(a, copy) /\ due' = [due EXCEPT ![a] = d]
    BY <1>1, <1>2 DEF Purchase
  <2>3. Settled(agents[a]) = due[a] /\ c = agents[a] => Settled(copy) = d
    BY <1>1, Amounts DEF Settled, AgentRec, Balances
  <2> HIDE DEF copy, d
  <2>4. QED
    BY <1>0, <1>1, <2>1, <2>2, <2>3 DEF Redraws
<1>3. CASE Upgrade(a)
  <2> DEFINE copy == [c EXCEPT !.xp = @ - LevelCost]
             d == [due[a] EXCEPT !.xp = @ - LevelCost]
  <2>1. copy \in AgentRec /\ d \in Balances /\ ~copy.retired /\ copy.crues = c.crues
    BY <1>1, Amounts DEF AgentRec, Balances
  <2>2. WriteCopy(a, copy) /\ due' = [due EXCEPT ![a] = d]
    BY <1>1, <1>3 DEF Upgrade
  <2>3. Settled(agents[a]) = due[a] /\ c = agents[a] => Settled(copy) = d
    BY <1>1, Amounts DEF Settled, AgentRec, Balances
  <2> HIDE DEF copy, d
  <2>4. QED
    BY <1>0, <1>1, <2>1, <2>2, <2>3 DEF Redraws
<1>4. CASE RerollGold(a)
  <2> DEFINE copy == [c EXCEPT !.gold = ScaledGold]
             d == [due[a] EXCEPT !.gold = ScaledGold]
  <2>1. copy \in AgentRec /\ d \in Balances /\ ~copy.retired /\ copy.crues = c.crues
    BY <1>1, Amounts DEF AgentRec, Balances
  <2>2. WriteCopy(a, copy) /\ due' = [due EXCEPT ![a] = d]
    BY <1>1, <1>4 DEF RerollGold
  <2>3. Settled(agents[a]) = due[a] /\ c = agents[a] => Settled(copy) = d
    BY <1>1, Amounts DEF Settled, AgentRec, Balances
  <2> HIDE DEF copy, d
  <2>4. QED
    BY <1>0, <1>1, <2>1, <2>2, <2>3 DEF Redraws
<1>5. CASE Regenerate(a)
  <2>1. Settled(NewAgent) \in Balances
    BY NewAgentRec DEF Settled, AgentRec, Balances
  <2>2. QED
    BY <1>0, <1>5, <2>1, NewAgentRec DEF Regenerate, Redraws
<1>6. QED
  BY <1>2, <1>3, <1>4, <1>5 DEF Rewrites

\* An agent's balances or role are set where they are, and nothing loaded:
\* the composer and the payroll.
LEMMA SetsInPlace ==
  ASSUME ScreensInv, NEW a \in Agents, NEW new \in AgentRec,
         agents' = [agents EXCEPT ![a] = new], due' \in [Agents -> Balances],
         new.crues = agents[a].crues, new.retired <=> agents[a].retired,
         UNCHANGED <<crues, copies, screen>>
  PROVE  ScreensInv'
<1>1. agents' \in [Agents -> AgentRec]
      /\ \A x \in Agents : /\ agents'[x].crues = agents[x].crues
                           /\ agents'[x].retired <=> agents[x].retired
  BY DEF ScreensInv, ScreenTypes
<1>2. UNCHANGED <<crues, roster, dossier, company, crue, screen>>
  BY DEF copies
<1>3. QED
  BY <1>1, <1>2 DEF ScreensInv, ScreenTypes, RosterTells, DossierTells, CrueTells, OnScreen

\* The roster is loaded again after an agent was written, and no dossier is
\* left on screen.
LEMMA LoadsAgain ==
  ASSUME ScreensInv, agents' \in [Agents -> AgentRec], due' \in [Agents -> Balances],
         roster' = Loaded(agents'), crues' \in [Crues -> Int], screen' # "dossier",
         CrueTells'
  PROVE  ScreensInv'
  BY LoadedTells DEF ScreensInv, ScreenTypes, DossierTells, OnScreen

\* A record with its gold and experience set, field by field.
Awarded(r, gold, xp) == [r EXCEPT !.gold = gold, !.xp = xp]

LEMMA TwoSet ==
  ASSUME NEW r \in AgentRec, NEW d \in Balances, NEW gold \in Int, NEW xp \in Int
  PROVE  /\ Awarded(r, gold, xp) \in AgentRec
         /\ Awarded(r, gold, xp).gold = gold
         /\ Awarded(r, gold, xp).xp = xp
         /\ Awarded(r, gold, xp).role = r.role
         /\ Awarded(r, gold, xp).crues = r.crues
         /\ Awarded(r, gold, xp).retired <=> r.retired
         /\ Awarded(d, gold, xp) \in Balances
         /\ Awarded(d, gold, xp).gold = gold
         /\ Awarded(d, gold, xp).xp = xp
         /\ Awarded(d, gold, xp).role = d.role
  BY DEF AgentRec, Balances, Awarded

LEMMA SettledIs ==
  ASSUME NEW r \in AgentRec
  PROVE  /\ Settled(r) \in Balances /\ Settled(r).gold = r.gold
         /\ Settled(r).xp = r.xp /\ Settled(r).role = r.role
  BY DEF AgentRec, Balances, Settled

LEMMA SameBalances ==
  ASSUME NEW d \in Balances, NEW e \in Balances,
         d.gold = e.gold, d.xp = e.xp, d.role = e.role
  PROVE  d = e
  BY DEF Balances

\* Payments and edits of the composer.
LEMMA SetOf ==
  ASSUME ScreensInv, NEW a \in Agents, Pay(a) \/ ComposeAgent(a)
  PROVE  /\ \E new \in AgentRec :
              /\ agents' = [agents EXCEPT ![a] = new]
              /\ new.crues = agents[a].crues /\ (new.retired <=> agents[a].retired)
              /\ Settled(agents[a]) = due[a] => Settled(new) = due'[a]
         /\ due' \in [Agents -> Balances] /\ \A x \in Agents : x # a => due'[x] = due[x]
         /\ UNCHANGED <<crues, copies, screen>>
<1>1. agents[a] \in AgentRec /\ due \in [Agents -> Balances] /\ due[a] \in Balances
      /\ agents \in [Agents -> AgentRec]
  BY DEF ScreensInv, ScreenTypes
<1>2. CASE Pay(a)
  <2> DEFINE gold == agents[a].gold + WageGold
             xp == agents[a].xp + WageXp
             dg == due[a].gold + WageGold
             dx == due[a].xp + WageXp
             new == Awarded(agents[a], gold, xp)
             d == Awarded(due[a], dg, dx)
  <2>1. gold \in Int /\ xp \in Int /\ dg \in Int /\ dx \in Int
    BY <1>1, Amounts DEF AgentRec, Balances
  <2>2. agents' = [agents EXCEPT ![a] = new]
    BY <1>1, <1>2 DEF Pay, Awarded
  <2>3. due' = [due EXCEPT ![a] = d]
    BY <1>1, <1>2 DEF Pay, Awarded
  <2>4. Settled(agents[a]) = due[a] => dg = gold /\ dx = xp /\ due[a].role = agents[a].role
    BY <1>1, SettledIs
  <2> HIDE DEF gold, xp, dg, dx
  <2>5. /\ new \in AgentRec /\ new.crues = agents[a].crues
        /\ new.retired <=> agents[a].retired
        /\ new.gold = gold /\ new.xp = xp /\ new.role = agents[a].role
        /\ d \in Balances /\ d.gold = dg /\ d.xp = dx /\ d.role = due[a].role
    BY <1>1, <2>1, TwoSet
  <2> HIDE DEF new, d
  <2>6. Settled(agents[a]) = due[a] => Settled(new) = d
    BY <2>4, <2>5, SettledIs, SameBalances
  <2>7. QED
    BY <1>1, <1>2, <2>2, <2>3, <2>5, <2>6 DEF Pay
<1>3. CASE ComposeAgent(a)
  <2> DEFINE new == [agents[a] EXCEPT !.role = 1 - @]
             d == [due[a] EXCEPT !.role = 1 - @]
  <2>1. new \in AgentRec /\ d \in Balances
        /\ new.crues = agents[a].crues /\ (new.retired <=> agents[a].retired)
    BY <1>1 DEF AgentRec, Balances
  <2>2. agents' = [agents EXCEPT ![a] = new] /\ due' = [due EXCEPT ![a] = d]
    BY <1>1, <1>3 DEF ComposeAgent
  <2>3. Settled(agents[a]) = due[a] => Settled(new) = d
    BY <1>1 DEF Settled, AgentRec, Balances
  <2> HIDE DEF new, d
  <2>4. QED
    BY <1>1, <1>3, <2>1, <2>2, <2>3 DEF ComposeAgent
<1>4. QED
  BY <1>2, <1>3


\* A crue's counter is never less than the change left it, nor than nothing.
LEMMA MaxOfTwo ==
  ASSUME NEW n \in Int
  PROVE  Max({0, n}) \in Int /\ Max({0, n}) >= 0 /\ Max({0, n}) >= n
<1>1. \E x \in {0, n} : \A y \in {0, n} : x >= y
  <2>1. CASE n >= 0
    BY <2>1
  <2>2. CASE ~(n >= 0)
    BY <2>2
  <2>3. QED
    BY <2>1, <2>2
<1>2. Max({0, n}) \in {0, n} /\ \A y \in {0, n} : Max({0, n}) >= y
  BY <1>1 DEF Max
<1>3. QED
  BY <1>2

\* A member taken in or let go: the roster's copy has the record's crues,
\* and the counter on screen is the one on disk.
Enlisted(r, member) == [r EXCEPT !.crues = member]
CounterKeeps(delta) ==
  \E n \in Int : /\ n >= 0 /\ n >= crues[crue] + delta
                /\ crues' = [crues EXCEPT ![crue] = n]
Membership(a, member, delta) ==
  /\ Commit(a, member, delta) /\ CounterKeeps(delta)
  /\ a \in DOMAIN roster /\ crue \in Crues /\ member \in SUBSET Crues
  /\ agents' = [agents EXCEPT ![a] = Enlisted(roster[a], member)]
Joined(a) ==
  /\ crue \notin agents[a].crues
  /\ Membership(a, agents[a].crues \union {crue}, 1)
Left(a) ==
  /\ crue \in agents[a].crues
  /\ Membership(a, agents[a].crues \ {crue}, -1)

LEMMA EnlistedRec ==
  ASSUME NEW r \in AgentRec, NEW member \in SUBSET Crues
  PROVE  /\ Enlisted(r, member) \in AgentRec /\ Enlisted(r, member).crues = member
         /\ Enlisted(r, member).retired <=> r.retired
         /\ Settled(Enlisted(r, member)) = Settled(r)
  BY DEF AgentRec, Enlisted, Settled

LEMMA CommitOf ==
  ASSUME ScreensInv, NEW a \in Agents, NEW member \in SUBSET Crues, NEW delta \in Int,
         crue \in Crues, Commit(a, member, delta)
  PROVE  Membership(a, member, delta)
<1>1. /\ screen = "crue" /\ a \in DOMAIN roster
      /\ agents' = [agents EXCEPT ![a] = Enlisted(roster[a], member)]
      /\ company' = [company EXCEPT ![crue] = Max({0, company[crue] + delta})]
      /\ crues[crue] # Gone => crues' = [crues EXCEPT ![crue] = company'[crue]]
  BY DEF Commit, Enlisted
<1>2. /\ company[crue] = crues[crue] /\ crues[crue] # Gone /\ crue \in DOMAIN company
      /\ crues[crue] \in Int
  BY <1>1 DEF ScreensInv, ScreenTypes, CrueTells
<1> DEFINE n == Max({0, crues[crue] + delta})
<1>3. n \in Int /\ n >= 0 /\ n >= crues[crue] + delta
  BY <1>2, MaxOfTwo
<1>4. crues' = [crues EXCEPT ![crue] = n]
  BY <1>1, <1>2
<1> HIDE DEF n
<1>5. CounterKeeps(delta)
  BY <1>3, <1>4 DEF CounterKeeps
<1>6. QED
  BY <1>1, <1>5 DEF Membership

LEMMA JoinOrLeave ==
  ASSUME ScreensInv, NEW a \in Agents, Join(a) \/ Leave(a)
  PROVE  Joined(a) \/ Left(a)
<1>1. screen = "crue" /\ a \in DOMAIN roster /\ crue \in Crues
  BY DEF Join, Leave, Commit
<1>2. roster[a].crues = agents[a].crues /\ agents[a].crues \in SUBSET Crues
  BY <1>1 DEF ScreensInv, ScreenTypes, RosterTells, AgentRec
<1>3. CASE Join(a)
  <2>1. Commit(a, agents[a].crues \union {crue}, 1) /\ crue \notin agents[a].crues
    BY <1>1, <1>2, <1>3 DEF Join, Members
  <2>2. QED
    BY <1>1, <1>2, <2>1, CommitOf DEF Joined
<1>4. CASE Leave(a)
  <2>1. Commit(a, agents[a].crues \ {crue}, -1) /\ crue \in agents[a].crues
    BY <1>1, <1>2, <1>4 DEF Leave, Members
  <2>2. QED
    BY <1>1, <1>2, <2>1, CommitOf DEF Left
<1>5. QED
  BY <1>3, <1>4

\* What the two of them keep of the screens.
LEMMA MembershipKeeps ==
  ASSUME ScreensInv, NEW a \in Agents, NEW member, NEW delta, Membership(a, member, delta)
  PROVE  /\ ScreensInv' /\ agents'[a].crues = member
         /\ WritesAgent(a, Enlisted(roster[a], member))
<1>1. /\ screen = "crue" /\ a \in DOMAIN roster /\ crue \in Crues /\ member \in SUBSET Crues
      /\ agents' = [agents EXCEPT ![a] = Enlisted(roster[a], member)]
      /\ roster' = Loaded(agents') /\ UNCHANGED <<due, screen, crue, dossier>>
  BY DEF Membership, Commit
<1>2. roster[a] \in AgentRec /\ ~roster[a].retired /\ ~agents[a].retired
      /\ agents \in [Agents -> AgentRec] /\ crues \in [Crues -> Int]
  BY <1>1 DEF ScreensInv, ScreenTypes, RosterTells
<1>3. agents' \in [Agents -> AgentRec] /\ agents'[a].crues = member
      /\ WritesAgent(a, Enlisted(roster[a], member))
  BY <1>1, <1>2, EnlistedRec DEF WritesAgent
<1>4. PICK n \in Int : n >= 0 /\ crues' = [crues EXCEPT ![crue] = n]
  BY DEF Membership, CounterKeeps
<1>5. crues' \in [Crues -> Int] /\ crues'[crue] = n /\ crues'[crue] # Gone
      /\ crues[crue] # Gone
  BY <1>1, <1>2, <1>4 DEF Gone, ScreensInv, CrueTells
<1>6. company'[crue] = crues'[crue] /\ crue \in DOMAIN company'
  BY <1>1, <1>2, <1>5 DEF Membership, Commit, ScreensInv, CrueTells
<1>7. CrueTells' /\ screen' # "dossier" /\ due' \in [Agents -> Balances]
  BY <1>1, <1>5, <1>6 DEF CrueTells, ScreensInv, ScreenTypes
<1>8. QED
  BY <1>1, <1>3, <1>5, <1>7, LoadsAgain


\* Steps that write nothing to disk but maybe a crue's end.
Moves ==
  \/ \E a \in Agents : OpenDossier(a)
  \/ \E c \in Crues : OpenCrue(c)
  \/ \E crew \in SUBSET Agents : Launch(crew)
  \/ Back \/ Stats \/ Quit \/ Disband \/ Background \/ DoneWatching \/ Finish \/ Raise
\* Steps that write an agent's record.
Edits(a) ==
  \/ Rewrites(a) \/ SaveEdit(a) \/ Terminate(a)
  \/ Join(a) \/ Leave(a) \/ ComposeAgent(a) \/ Pay(a)

LEMMA NextSplits == ASSUME Next PROVE Moves \/ \E a \in Agents : Edits(a)
  BY DEF Next, Moves, Edits, Rewrites

LEMMA MovesKeep ==
  ASSUME ScreensInv, Moves
  PROVE  ScreensInv' /\ UNCHANGED <<agents, due>>
<1>1. UNCHANGED <<agents, due>> /\ (crues' # crues => Disband)
  BY DEF Moves, OpenDossier, OpenCrue, Launch, Back, Stats, Quit, Disband, Background,
         DoneWatching, Finish, Raise, store
<1>2. agents \in [Agents -> AgentRec] /\ due \in [Agents -> Balances]
      /\ crues \in [Crues -> Int]
  BY DEF ScreensInv, ScreenTypes
<1>3. roster' = roster \/ roster' = Loaded(agents')
  BY DEF Moves, OpenDossier, OpenCrue, Launch, Back, Stats, Quit, Disband, Background,
         DoneWatching, Finish, Raise, store, copies
<1>4. RosterTells' /\ \A x \in DOMAIN roster' : roster'[x] \in AgentRec
  <2>1. CASE roster' = roster
    BY <1>1, <2>1 DEF ScreensInv, ScreenTypes, RosterTells
  <2>2. CASE roster' = Loaded(agents')
    BY <1>1, <1>2, <2>2, LoadedTells
  <2>3. QED
    BY <1>3, <2>1, <2>2
<1>5. crues' \in [Crues -> Int]
  <2>1. CASE Disband
    <3>1. crues' = [crues EXCEPT ![crue] = Gone] /\ Gone \in Int
      BY <2>1 DEF Disband, Gone
    <3>2. QED
      BY <1>2, <3>1
  <2>2. QED
    BY <1>1, <1>2, <2>1
<1>6. (screen' = "dossier" /\ dossier' # Nobody => dossier'.copy \in AgentRec) /\ DossierTells'
  <2>1. CASE \E a \in Agents : OpenDossier(a)
    BY <2>1, <1>1, <1>2 DEF OpenDossier, ScreensInv, ScreenTypes, RosterTells, DossierTells,
                            OnScreen, store
  <2>2. CASE ~(\E a \in Agents : OpenDossier(a))
    <3>1. screen' = "dossier" => screen = "dossier" /\ UNCHANGED dossier
      BY <2>2 DEF Moves, OpenDossier, OpenCrue, Launch, Back, Stats, Quit, Disband,
                  Background, DoneWatching, Finish, Raise, copies
    <3>2. QED
      BY <3>1, <1>1 DEF DossierTells, OnScreen, ScreensInv, ScreenTypes
  <2>3. QED
    BY <2>1, <2>2
<1>7. CrueTells'
  <2>1. CASE \E c \in Crues : OpenCrue(c)
    BY <2>1, <1>2 DEF OpenCrue, Existing, CrueTells, store
  <2>2. CASE ~(\E c \in Crues : OpenCrue(c))
    BY <2>2, <1>1 DEF Moves, OpenDossier, OpenCrue, Launch, Back, Stats, Quit, Disband,
                      Background, DoneWatching, Finish, Raise, ScreensInv, CrueTells, copies
  <2>3. QED
    BY <2>1, <2>2
<1>8. QED
  BY <1>1, <1>2, <1>4, <1>5, <1>6, <1>7 DEF ScreensInv, ScreenTypes


Recast(r, role) == [r EXCEPT !.role = role]

LEMMA RecastRec ==
  ASSUME NEW r \in AgentRec, NEW d \in Balances, NEW role \in Int
  PROVE  /\ Recast(r, role) \in AgentRec /\ Recast(r, role).crues = r.crues
         /\ Recast(r, role).retired <=> r.retired
         /\ Recast(d, role) \in Balances
         /\ Settled(r) = d => Settled(Recast(r, role)) = Recast(d, role)
  BY DEF AgentRec, Balances, Recast, Settled

\* The form's field is written, and the dossier shows the new record.
LEMMA SaveEditKeeps ==
  ASSUME ScreensInv, NEW a \in Agents, SaveEdit(a)
  PROVE  /\ ScreensInv' /\ roster' = Loaded(agents')
         /\ dossier'.id = a /\ dossier'.copy = agents'[a]
         /\ \E role \in Int : /\ WritesAgent(a, Recast(agents[a], role))
                              /\ due' = [due EXCEPT ![a] = Recast(due[a], role)]
<1> DEFINE role == 1 - dossier.copy.role
<1>1. OnScreen(a) /\ UNCHANGED <<crues, company, crue, screen, worker, loose>>
      /\ roster' = Loaded(agents') /\ dossier' = [id |-> a, copy |-> agents'[a]]
  BY DEF SaveEdit
<1>2. /\ dossier.copy \in AgentRec /\ agents[a] \in AgentRec /\ ~agents[a].retired
      /\ due[a] \in Balances /\ screen = "dossier"
      /\ agents \in [Agents -> AgentRec] /\ due \in [Agents -> Balances]
  BY <1>1, CopyOf DEF ScreensInv, ScreenTypes
<1>3. role \in Int
  BY <1>2 DEF AgentRec
<1>4. agents' = [agents EXCEPT ![a] = Recast(agents[a], role)]
      /\ due' = [due EXCEPT ![a] = Recast(due[a], role)]
  BY <1>2 DEF SaveEdit, Recast
<1> HIDE DEF role
<1>5. WritesAgent(a, Recast(agents[a], role)) /\ agents' \in [Agents -> AgentRec]
      /\ agents'[a].crues = agents[a].crues /\ ~agents'[a].retired
      /\ due' \in [Agents -> Balances] /\ agents'[a] \in AgentRec
  BY <1>2, <1>3, <1>4, RecastRec DEF WritesAgent
<1>6. RosterTells' /\ \A x \in DOMAIN roster' : roster'[x] \in AgentRec
  BY <1>1, <1>5, LoadedTells
<1>7. DossierTells' /\ CrueTells'
  BY <1>1, <1>2, <1>5 DEF DossierTells, CrueTells, OnScreen
<1>8. ScreensInv'
  BY <1>1, <1>2, <1>5, <1>6, <1>7 DEF ScreensInv, ScreenTypes
<1>9. QED
  BY <1>1, <1>3, <1>4, <1>5, <1>8

LEMMA EditsKeep ==
  ASSUME ScreensInv, NEW a \in Agents, Edits(a)
  PROVE  ScreensInv'
<1>1. agents \in [Agents -> AgentRec] /\ due \in [Agents -> Balances]
      /\ crues \in [Crues -> Int]
  BY DEF ScreensInv, ScreenTypes
<1>2. CASE Rewrites(a)
  <2>1. OnScreen(a) /\ UNCHANGED <<crues, screen>>
    BY <1>2, RewriteOf
  <2>2. PICK copy \in AgentRec, d \in Balances : Redraws(a, copy, d)
    BY <1>2, RewriteOf
  <2>3. WriteCopy(a, copy) /\ ~copy.retired /\ due' \in [Agents -> Balances]
    BY <1>1, <2>2 DEF Redraws
  <2>4. QED
    BY <2>1, <2>3, WritesCopy
<1>3. CASE SaveEdit(a)
  BY <1>3, SaveEditKeeps
<1>4. CASE Terminate(a)
  <2>1. agents' = [agents EXCEPT ![a] = [agents[a] EXCEPT !.retired = TRUE]]
        /\ [agents[a] EXCEPT !.retired = TRUE] \in AgentRec
    BY <1>1, <1>4 DEF Terminate, AgentRec
  <2>2. agents' \in [Agents -> AgentRec] /\ roster' = Loaded(agents') /\ screen' = "menu"
        /\ UNCHANGED <<due, crues>>
    BY <1>1, <1>4, <2>1 DEF Terminate
  <2>3. CrueTells'
    BY <2>2 DEF CrueTells
  <2>4. QED
    BY <1>1, <2>2, <2>3, LoadsAgain
<1>5. CASE Join(a) \/ Leave(a)
  BY <1>5, JoinOrLeave, MembershipKeeps DEF Joined, Left
<1>6. CASE ComposeAgent(a) \/ Pay(a)
  BY <1>6, SetOf, SetsInPlace
<1>7. QED
  BY <1>2, <1>3, <1>4, <1>5, <1>6 DEF Edits

LEMMA ScreensInit == Init => ScreensInv
<1> SUFFICES ASSUME Init PROVE ScreensInv
  OBVIOUS
<1>1. agents \in [Agents -> AgentRec] /\ \A a \in Agents : agents[a] = NewAgent
  BY NewAgentRec DEF Init
<1>2. crues \in [Crues -> Int] /\ screen = "menu" /\ roster = Loaded(agents)
  BY DEF Init
<1>3. due \in [Agents -> Balances]
  BY NewAgentRec, SettledIs DEF Init
<1>4. RosterTells /\ \A a \in DOMAIN roster : roster[a] \in AgentRec
  BY <1>1, <1>2, NewAgentRec DEF RosterTells, Loaded
<1>5. QED
  BY <1>1, <1>2, <1>3, <1>4 DEF ScreensInv, ScreenTypes, DossierTells, CrueTells, OnScreen

LEMMA ScreensStep == ScreensInv /\ [Next]_vars => ScreensInv'
<1> SUFFICES ASSUME ScreensInv, [Next]_vars PROVE ScreensInv'
  OBVIOUS
<1>1. CASE UNCHANGED vars
  BY <1>1 DEF vars, store, copies, ScreensInv, ScreenTypes, RosterTells, DossierTells,
              CrueTells, OnScreen
<1>2. CASE Next
  BY <1>2, NextSplits, MovesKeep, EditsKeep
<1>3. QED
  BY <1>1, <1>2


\* A step writes no agent's record, or one, and no agent comes back by it.
LEMMA EditWrites ==
  ASSUME ScreensInv, NEW a \in Agents, Edits(a)
  PROVE  /\ \E new \in AgentRec : /\ agents' = [agents EXCEPT ![a] = new]
                                  /\ agents[a].retired => new.retired
         /\ \E d \in Balances : due' = [due EXCEPT ![a] = d]
<1>1. agents \in [Agents -> AgentRec] /\ due \in [Agents -> Balances]
      /\ agents[a] \in AgentRec /\ due[a] \in Balances
  BY DEF ScreensInv, ScreenTypes
<1>2. CASE Rewrites(a)
  <2>1. OnScreen(a)
    BY <1>2, RewriteOf
  <2>2. PICK copy \in AgentRec, d \in Balances : Redraws(a, copy, d)
    BY <1>2, RewriteOf
  <2>3. QED
    BY <2>1, <2>2, CopyOf DEF Redraws, WriteCopy
<1>3. CASE SaveEdit(a)
  <2>1. PICK role \in Int : /\ WritesAgent(a, Recast(agents[a], role))
                            /\ due' = [due EXCEPT ![a] = Recast(due[a], role)]
    BY <1>3, SaveEditKeeps
  <2>2. Recast(due[a], role) \in Balances
    BY <1>1, RecastRec
  <2>3. QED
    BY <2>1, <2>2 DEF WritesAgent
<1>4. CASE Terminate(a)
  <2> DEFINE new == [agents[a] EXCEPT !.retired = TRUE]
  <2>1. agents' = [agents EXCEPT ![a] = new] /\ new \in AgentRec /\ new.retired
        /\ due' = [due EXCEPT ![a] = due[a]]
    BY <1>1, <1>4 DEF Terminate, AgentRec
  <2> HIDE DEF new
  <2>2. QED
    BY <1>1, <2>1
<1>5. CASE Join(a) \/ Leave(a)
  <2>1. PICK member, delta : Membership(a, member, delta)
    BY <1>5, JoinOrLeave DEF Joined, Left
  <2>2. due' = [due EXCEPT ![a] = due[a]] /\ WritesAgent(a, Enlisted(roster[a], member))
    BY <1>1, <2>1, MembershipKeeps DEF Membership, Commit
  <2>3. QED
    BY <1>1, <2>2 DEF WritesAgent
<1>6. CASE ComposeAgent(a) \/ Pay(a)
  <2>1. due' \in [Agents -> Balances] /\ \A x \in Agents : x # a => due'[x] = due[x]
    BY <1>6, SetOf
  <2>2. due' = [due EXCEPT ![a] = due'[a]] /\ due'[a] \in Balances
    BY <1>1, <2>1
  <2>3. QED
    BY <1>6, <2>2, SetOf
<1>7. QED
  BY <1>2, <1>3, <1>4, <1>5, <1>6 DEF Edits

LEMMA TerminatedStep ==
  ScreensInv /\ [Next]_vars => \A a \in Agents : agents[a].retired => agents'[a].retired
<1> SUFFICES ASSUME ScreensInv, [Next]_vars, NEW a \in Agents, agents[a].retired
             PROVE  agents'[a].retired
  OBVIOUS
<1>1. agents \in [Agents -> AgentRec]
  BY DEF ScreensInv, ScreenTypes
<1>2. CASE UNCHANGED vars
  BY <1>2 DEF vars, store
<1>3. CASE Moves
  BY <1>3, MovesKeep
<1>4. ASSUME NEW x \in Agents, Edits(x) PROVE agents'[a].retired
  BY <1>1, <1>4, EditWrites
<1>5. QED
  BY <1>2, <1>3, <1>4, NextSplits

\* What holds while every mission is watched to its end and the composer left
\* alone: the worker runs only under its screen, and any other screen shows
\* what is on disk.
WorkerType == worker \in [crew : SUBSET Agents, on : BOOLEAN]
Attended == ~loose =>
  /\ \A a \in Agents : Settled(agents[a]) = due[a]
  /\ worker.on => screen = "run"
  /\ ~worker.on => roster = Loaded(agents)
  /\ \A a \in Agents : OnScreen(a) => dossier.copy = agents[a]
WatchInv == ScreensInv /\ WorkerType /\ Attended

LEMMA WorkerStep == WorkerType /\ [Next]_vars => WorkerType'
<1> SUFFICES ASSUME WorkerType, [Next]_vars PROVE WorkerType'
  OBVIOUS
<1>1. CASE worker' = worker \/ worker' = NoWorker
  <2>1. NoWorker \in [crew : SUBSET Agents, on : BOOLEAN]
    BY DEF NoWorker
  <2>2. QED
    BY <1>1, <2>1 DEF WorkerType
<1>2. ASSUME NEW crew \in SUBSET Agents, Launch(crew) PROVE WorkerType'
  BY <1>2 DEF Launch, WorkerType, NoWorker
<1>3. ASSUME NEW a \in Agents, Pay(a) PROVE WorkerType'
  BY <1>3 DEF Pay, WorkerType
<1>4. QED
  BY <1>1, <1>2, <1>3 DEF Next, vars, OpenDossier, OpenCrue, Back, Stats, Quit, Purchase, Upgrade,
     RerollGold, Regenerate, SaveEdit, Terminate, Join, Leave, Commit, Disband, ComposeAgent,
     Background, DoneWatching, Finish, Raise


\* A change of one agent that moves its balances as they are due.
LEMMA SettlesOn ==
  ASSUME ScreensInv, \A x \in Agents : Settled(agents[x]) = due[x],
         NEW a \in Agents, NEW new \in AgentRec, NEW d \in Balances,
         agents' = [agents EXCEPT ![a] = new], due' = [due EXCEPT ![a] = d],
         Settled(new) = d
  PROVE  \A x \in Agents : Settled(agents'[x]) = due'[x]
<1>1. agents \in [Agents -> AgentRec] /\ due \in [Agents -> Balances]
  BY DEF ScreensInv, ScreenTypes
<1>2. QED
  BY <1>1

LEMMA AttendedMoves ==
  ASSUME WatchInv, Moves, ~loose'
  PROVE  Attended'
<1>1. UNCHANGED <<agents, due>>
  BY MovesKeep DEF WatchInv
<1>2. ~loose
  BY DEF Moves, OpenDossier, OpenCrue, Launch, Back, Stats, Quit, Disband, Background,
         DoneWatching, Finish, Raise
<1>3. /\ \A a \in Agents : Settled(agents[a]) = due[a]
      /\ worker.on => screen = "run"
      /\ ~worker.on => roster = Loaded(agents)
      /\ \A a \in Agents : OnScreen(a) => dossier.copy = agents[a]
  BY <1>2 DEF WatchInv, Attended
<1>4. ~NoWorker.on
  BY DEF NoWorker
<1>5. CASE \E a \in Agents : OpenDossier(a)
  <2>1. PICK a \in Agents : OpenDossier(a)
    BY <1>5
  <2>2. ~worker.on /\ roster = Loaded(agents) /\ roster[a] = agents[a]
        /\ dossier' = [id |-> a, copy |-> roster[a]] /\ UNCHANGED <<worker, roster, store>>
    BY <1>3, <2>1 DEF OpenDossier, Loaded
  <2>3. QED
    BY <1>1, <1>3, <2>2 DEF Attended, OnScreen
<1>6. CASE \E crew \in SUBSET Agents : Launch(crew)
  <2>1. worker'.on /\ screen' = "run" /\ UNCHANGED <<roster, dossier>>
    BY <1>6 DEF Launch, copies, NoWorker
  <2>2. QED
    BY <1>1, <1>3, <2>1 DEF Attended, OnScreen
<1>7. CASE \/ \E c \in Crues : OpenCrue(c)
           \/ Back \/ Stats \/ Quit \/ Disband \/ DoneWatching \/ Finish
  <2>1. /\ screen' = "dossier" => screen = "dossier" /\ UNCHANGED dossier
        /\ roster' = roster \/ roster' = Loaded(agents)
        /\ worker' = NoWorker => roster' = Loaded(agents)
        /\ worker' # NoWorker => UNCHANGED worker
        /\ worker' # NoWorker /\ screen' # screen => ~worker.on
    BY <1>3, <1>7, <1>4 DEF OpenCrue, Back, Stats, Quit, Disband, DoneWatching, Finish, copies
  <2>2. QED
    BY <1>1, <1>3, <1>4, <2>1 DEF Attended, OnScreen
<1>8. QED
  BY <1>2, <1>5, <1>6, <1>7 DEF Moves, Background, Raise


LEMMA AttendedEdits ==
  ASSUME WatchInv, NEW a \in Agents, Edits(a), ~loose'
  PROVE  Attended'
<1>1. ~loose /\ ~ComposeAgent(a)
  BY DEF Edits, Rewrites, Purchase, Upgrade, RerollGold, Regenerate, SaveEdit, Terminate, Join,
         Leave, Commit, Pay, ComposeAgent
<1>2. /\ \A x \in Agents : Settled(agents[x]) = due[x]
      /\ worker.on => screen = "run"
      /\ ~worker.on => roster = Loaded(agents)
      /\ \A x \in Agents : OnScreen(x) => dossier.copy = agents[x]
  BY <1>1 DEF WatchInv, Attended
<1>3. /\ ScreensInv /\ agents \in [Agents -> AgentRec] /\ due \in [Agents -> Balances]
      /\ agents[a] \in AgentRec /\ due[a] \in Balances
  BY DEF WatchInv, ScreensInv, ScreenTypes
<1>4. CASE Rewrites(a)
  <2>1. OnScreen(a) /\ UNCHANGED <<worker, screen, crues>>
    BY <1>3, <1>4, RewriteOf
  <2>2. PICK copy \in AgentRec, d \in Balances : Redraws(a, copy, d)
    BY <1>3, <1>4, RewriteOf
  <2>3. WriteCopy(a, copy) /\ ~copy.retired /\ due' = [due EXCEPT ![a] = d]
        /\ Settled(copy) = d
    BY <1>2, <2>1, <2>2 DEF Redraws
  <2>4. due' \in [Agents -> Balances]
    BY <1>3, <2>3
  <2>5. dossier'.copy = agents'[a] /\ dossier'.id = a /\ roster' = Loaded(agents')
        /\ agents' = [agents EXCEPT ![a] = copy]
    BY <1>3, <2>1, <2>3, <2>4, WritesCopy DEF WritesAgent
  <2>6. \A x \in Agents : Settled(agents'[x]) = due'[x]
    BY <1>2, <1>3, <2>3, <2>5, SettlesOn
  <2>7. QED
    BY <1>2, <2>1, <2>5, <2>6 DEF Attended, OnScreen
<1>5. CASE SaveEdit(a)
  <2>1. PICK role \in Int : /\ WritesAgent(a, Recast(agents[a], role))
                            /\ due' = [due EXCEPT ![a] = Recast(due[a], role)]
    BY <1>3, <1>5, SaveEditKeeps
  <2>2. /\ Recast(due[a], role) \in Balances /\ Recast(agents[a], role) \in AgentRec
        /\ Settled(Recast(agents[a], role)) = Recast(due[a], role)
    BY <1>2, <1>3, RecastRec
  <2>3. \A x \in Agents : Settled(agents'[x]) = due'[x]
    BY <1>2, <1>3, <2>1, <2>2, SettlesOn DEF WritesAgent
  <2>4. roster' = Loaded(agents') /\ dossier'.id = a /\ dossier'.copy = agents'[a]
        /\ UNCHANGED <<screen, worker>>
    BY <1>3, <1>5, SaveEditKeeps DEF SaveEdit
  <2>5. QED
    BY <1>2, <2>3, <2>4 DEF Attended, OnScreen
<1>6. CASE Terminate(a)
  <2> DEFINE new == [agents[a] EXCEPT !.retired = TRUE]
  <2>1. agents' = [agents EXCEPT ![a] = new] /\ new \in AgentRec
        /\ Settled(new) = Settled(agents[a]) /\ due' = [due EXCEPT ![a] = due[a]]
    BY <1>3, <1>6 DEF Terminate, AgentRec, Settled
  <2> HIDE DEF new
  <2>2. \A x \in Agents : Settled(agents'[x]) = due'[x]
    BY <1>2, <1>3, <2>1, SettlesOn
  <2>3. roster' = Loaded(agents') /\ screen' = "menu" /\ UNCHANGED worker /\ screen = "dossier"
    BY <1>6 DEF Terminate, OnScreen
  <2>4. QED
    BY <1>2, <2>2, <2>3 DEF Attended, OnScreen
<1>7. CASE Join(a) \/ Leave(a)
  <2>1. PICK member, delta : Membership(a, member, delta)
    BY <1>3, <1>7, JoinOrLeave DEF Joined, Left
  <2>2. screen = "crue" /\ a \in DOMAIN roster /\ roster' = Loaded(agents')
        /\ UNCHANGED <<screen, worker, due>> /\ member \in SUBSET Crues
        /\ agents' = [agents EXCEPT ![a] = Enlisted(roster[a], member)]
    BY <2>1 DEF Membership, Commit
  <2>3. roster[a] = agents[a]
    BY <1>2, <2>2 DEF Loaded
  <2>4. Enlisted(agents[a], member) \in AgentRec
        /\ Settled(Enlisted(agents[a], member)) = due[a]
    BY <1>2, <1>3, <2>2, EnlistedRec
  <2>5. \A x \in Agents : Settled(agents'[x]) = due'[x]
    BY <1>2, <1>3, <2>2, <2>3, <2>4
  <2>6. QED
    BY <1>2, <2>2, <2>5 DEF Attended, OnScreen
<1>8. CASE Pay(a)
  <2>1. PICK new \in AgentRec : /\ agents' = [agents EXCEPT ![a] = new]
                                /\ Settled(agents[a]) = due[a] => Settled(new) = due'[a]
    BY <1>3, <1>8, SetOf
  <2>2. due' \in [Agents -> Balances] /\ \A x \in Agents : x # a => due'[x] = due[x]
    BY <1>3, <1>8, SetOf
  <2>3. \A x \in Agents : Settled(agents'[x]) = due'[x]
    BY <1>2, <1>3, <2>1, <2>2
  <2>4. worker.on /\ worker'.on /\ UNCHANGED screen
    BY <1>8 DEF Pay, WatchInv, WorkerType
  <2>5. QED
    BY <1>2, <2>3, <2>4 DEF Attended, OnScreen
<1>9. QED
  BY <1>1, <1>4, <1>5, <1>6, <1>7, <1>8 DEF Edits

LEMMA WatchStep == WatchInv /\ [Next]_vars => WatchInv'
<1> SUFFICES ASSUME WatchInv, [Next]_vars PROVE WatchInv'
  OBVIOUS
<1>1. ScreensInv' /\ WorkerType'
  BY ScreensStep, WorkerStep DEF WatchInv
<1>2. ASSUME UNCHANGED vars PROVE Attended'
  BY <1>2 DEF vars, store, copies, WatchInv, Attended, OnScreen
<1>3. ASSUME Next PROVE Attended'
  BY <1>3, NextSplits, AttendedMoves, AttendedEdits DEF Attended
<1>4. QED
  BY <1>1, <1>2, <1>3 DEF WatchInv

LEMMA WatchInit == Init => WatchInv
<1> SUFFICES ASSUME Init PROVE WatchInv
  OBVIOUS
<1>1. WorkerType
  <2>1. NoWorker \in [crew : SUBSET Agents, on : BOOLEAN]
    BY DEF NoWorker
  <2>2. QED
    BY <2>1 DEF Init, WorkerType
<1>2. Attended
  BY DEF Init, Attended, OnScreen, NoWorker
<1>3. QED
  BY <1>1, <1>2, ScreensInit DEF WatchInv


\* A crue's members and its counter.
InCrue(c) == {a \in Agents : ~agents[a].retired /\ c \in agents[a].crues}
Counted(c) ==
  IsFiniteSet(InCrue(c)) /\ (crues[c] # Gone => Cardinality(InCrue(c)) <= crues[c])
CountInv == ScreensInv /\ \A c \in Crues : Counted(c)

\* Fewer members, or one more where the counter is one more as well.
LEMMA FewerCounted ==
  ASSUME NEW S, NEW T, IsFiniteSet(S), T \subseteq S
  PROVE  IsFiniteSet(T) /\ Cardinality(T) <= Cardinality(S)
         /\ Cardinality(S) \in Nat /\ Cardinality(T) \in Nat
  BY FS_Subset, FS_CardinalityType

LEMMA OneMoreCounted ==
  ASSUME NEW S, NEW x, IsFiniteSet(S), x \notin S
  PROVE  IsFiniteSet(S \union {x}) /\ Cardinality(S \union {x}) = Cardinality(S) + 1
         /\ Cardinality(S) \in Nat
  BY FS_AddElement, FS_CardinalityType

LEMMA OneLessCounted ==
  ASSUME NEW S, NEW x, IsFiniteSet(S), x \in S
  PROVE  IsFiniteSet(S \ {x}) /\ Cardinality(S \ {x}) = Cardinality(S) - 1
         /\ Cardinality(S) \in Nat
  BY FS_RemoveElement, FS_CardinalityType

\* Steps that take nobody into a crue and leave the counters alone.
LEMMA NobodyJoins ==
  ASSUME CountInv, NEW c \in Crues, InCrue(c)' \subseteq InCrue(c),
         crues'[c] = crues[c] \/ crues'[c] = Gone
  PROVE  Counted(c)'
<1>1. IsFiniteSet(InCrue(c)) /\ crues[c] \in Int
      /\ (crues[c] # Gone => Cardinality(InCrue(c)) <= crues[c])
  BY DEF CountInv, Counted, ScreensInv, ScreenTypes
<1>2. IsFiniteSet(InCrue(c)') /\ Cardinality(InCrue(c)') <= Cardinality(InCrue(c))
      /\ Cardinality(InCrue(c)) \in Nat /\ Cardinality(InCrue(c)') \in Nat
  BY <1>1, FewerCounted
<1>3. QED
  BY <1>1, <1>2 DEF Counted

LEMMA CountedMoves ==
  ASSUME CountInv, Moves
  PROVE  \A c \in Crues : Counted(c)'
<1> TAKE c \in Crues
<1>1. UNCHANGED agents
  BY MovesKeep DEF CountInv
<1>2. InCrue(c)' \subseteq InCrue(c)
  BY <1>1 DEF InCrue
<1>3. crues \in [Crues -> Int] /\ (crues' = crues \/ crues' = [crues EXCEPT ![crue] = Gone])
  BY DEF CountInv, ScreensInv, ScreenTypes, Moves, OpenDossier, OpenCrue, Launch, Back, Stats,
         Quit, Disband, Background, DoneWatching, Finish, Raise, store
<1>4. crues'[c] = crues[c] \/ crues'[c] = Gone
  BY <1>3
<1>5. QED
  BY <1>2, <1>4, NobodyJoins


LEMMA FewerIn ==
  ASSUME ScreensInv, NEW a \in Agents, NEW new, agents' = [agents EXCEPT ![a] = new],
         new.crues \subseteq agents[a].crues, agents[a].retired => new.retired,
         NEW c
  PROVE  InCrue(c)' \subseteq InCrue(c)
<1>1. agents \in [Agents -> AgentRec]
  BY DEF ScreensInv, ScreenTypes
<1>2. QED
  BY <1>1 DEF InCrue

LEMMA CountedEdits ==
  ASSUME CountInv, NEW a \in Agents, Edits(a)
  PROVE  \A c \in Crues : Counted(c)'
<1>1. /\ ScreensInv /\ agents \in [Agents -> AgentRec] /\ crues \in [Crues -> Int]
      /\ agents[a] \in AgentRec /\ \A c \in Crues : Counted(c)
  BY DEF CountInv, ScreensInv, ScreenTypes
<1>2. ASSUME UNCHANGED crues,
             \E new : /\ agents' = [agents EXCEPT ![a] = new]
                      /\ new.crues \subseteq agents[a].crues
                      /\ agents[a].retired => new.retired
      PROVE  \A c \in Crues : Counted(c)'
  <2> TAKE c \in Crues
  <2>1. InCrue(c)' \subseteq InCrue(c)
    BY <1>1, <1>2, FewerIn
  <2>2. QED
    BY <1>2, <2>1, NobodyJoins
<1>3. CASE Rewrites(a)
  <2>1. OnScreen(a) /\ UNCHANGED crues
    BY <1>1, <1>3, RewriteOf
  <2>2. PICK copy \in AgentRec, d \in Balances : Redraws(a, copy, d)
    BY <1>1, <1>3, RewriteOf
  <2>3. agents' = [agents EXCEPT ![a] = copy] /\ copy.crues \subseteq agents[a].crues
        /\ ~agents[a].retired
    BY <1>1, <2>1, <2>2, CopyOf DEF Redraws, WriteCopy
  <2>4. QED
    BY <1>2, <2>1, <2>3
<1>4. CASE SaveEdit(a)
  <2>1. PICK role \in Int : agents' = [agents EXCEPT ![a] = Recast(agents[a], role)]
    BY <1>1, <1>4, SaveEditKeeps DEF WritesAgent
  <2>2. Recast(agents[a], role).crues = agents[a].crues
        /\ (Recast(agents[a], role).retired <=> agents[a].retired) /\ UNCHANGED crues
    <3>1. PICK d \in Balances : TRUE
      BY <1>1, SettledIs
    <3>2. QED
      BY <1>1, <1>4, <3>1, RecastRec DEF SaveEdit
  <2>3. QED
    BY <1>2, <2>1, <2>2
<1>5. CASE Terminate(a)
  <2> DEFINE new == [agents[a] EXCEPT !.retired = TRUE]
  <2>1. agents' = [agents EXCEPT ![a] = new] /\ new.crues = agents[a].crues /\ new.retired
        /\ UNCHANGED crues
    BY <1>1, <1>5 DEF Terminate, AgentRec
  <2> HIDE DEF new
  <2>2. QED
    BY <1>2, <2>1
<1>6. CASE ComposeAgent(a) \/ Pay(a)
  <2>1. PICK new \in AgentRec : /\ agents' = [agents EXCEPT ![a] = new]
                                /\ new.crues = agents[a].crues
                                /\ new.retired <=> agents[a].retired
    BY <1>1, <1>6, SetOf
  <2>2. UNCHANGED crues
    BY <1>1, <1>6, SetOf
  <2>3. QED
    BY <1>2, <2>1, <2>2
<1>7. ASSUME NEW member, NEW delta, Membership(a, member, delta)
      PROVE  /\ agents' \in [Agents -> AgentRec] /\ agents'[a].crues = member
             /\ ~agents'[a].retired /\ ~agents[a].retired /\ crue \in Crues
             /\ \A x \in Agents : x # a => agents'[x] = agents[x]
             /\ \A c \in Crues : c # crue => crues'[c] = crues[c]
             /\ CounterKeeps(delta)
  <2>1. /\ a \in DOMAIN roster /\ agents' = [agents EXCEPT ![a] = Enlisted(roster[a], member)]
        /\ CounterKeeps(delta) /\ crue \in Crues
    BY <1>7 DEF Membership
  <2>2. ~agents[a].retired
    BY <1>1, <2>1 DEF ScreensInv, RosterTells
  <2>3. WritesAgent(a, Enlisted(roster[a], member)) /\ agents'[a].crues = member
    BY <1>1, <1>7, MembershipKeeps
  <2>4. QED
    BY <1>1, <2>1, <2>2, <2>3 DEF WritesAgent, CounterKeeps
<1>8. CASE Joined(a)
  <2>1. /\ agents' \in [Agents -> AgentRec] /\ agents'[a].crues = agents[a].crues \union {crue}
        /\ ~agents'[a].retired /\ ~agents[a].retired /\ crue \in Crues
        /\ \A x \in Agents : x # a => agents'[x] = agents[x]
        /\ \A c \in Crues : c # crue => crues'[c] = crues[c]
        /\ CounterKeeps(1) /\ crue \notin agents[a].crues
    BY <1>7, <1>8 DEF Joined
  <2> TAKE c \in Crues
  <2>2. CASE c # crue
    <3>1. InCrue(c)' \subseteq InCrue(c) /\ crues'[c] = crues[c]
      BY <1>1, <2>1, <2>2 DEF InCrue
    <3>2. QED
      BY <3>1, NobodyJoins
  <2>3. CASE c = crue
    <3>1. InCrue(c)' = InCrue(c) \union {a} /\ a \notin InCrue(c)
      BY <1>1, <2>1, <2>3 DEF InCrue
    <3>2. IsFiniteSet(InCrue(c)) /\ crues[c] \in Int
          /\ (crues[c] # Gone => Cardinality(InCrue(c)) <= crues[c])
      BY <1>1, <2>1, <2>3 DEF Counted
    <3>3. IsFiniteSet(InCrue(c)') /\ Cardinality(InCrue(c)') = Cardinality(InCrue(c)) + 1
          /\ Cardinality(InCrue(c)) \in Nat
      BY <3>1, <3>2, OneMoreCounted
    <3>4. crues'[c] >= crues[c] + 1 /\ crues'[c] \in Int
      BY <1>1, <2>1, <2>3 DEF CounterKeeps
    <3>5. crues[c] # Gone
      BY <1>1, <2>3, <1>8 DEF Joined, Membership, Commit, ScreensInv, CrueTells
    <3>6. QED
      BY <3>2, <3>3, <3>4, <3>5 DEF Counted
  <2>4. QED
    BY <2>2, <2>3
<1>9. CASE Left(a)
  <2>1. /\ agents' \in [Agents -> AgentRec] /\ agents'[a].crues = agents[a].crues \ {crue}
        /\ ~agents'[a].retired /\ ~agents[a].retired /\ crue \in Crues
        /\ \A x \in Agents : x # a => agents'[x] = agents[x]
        /\ \A c \in Crues : c # crue => crues'[c] = crues[c]
        /\ CounterKeeps(-1) /\ crue \in agents[a].crues
    BY <1>7, <1>9 DEF Left
  <2> TAKE c \in Crues
  <2>2. CASE c # crue
    <3>1. InCrue(c)' \subseteq InCrue(c) /\ crues'[c] = crues[c]
      BY <1>1, <2>1, <2>2 DEF InCrue
    <3>2. QED
      BY <3>1, NobodyJoins
  <2>3. CASE c = crue
    <3>1. InCrue(c)' = InCrue(c) \ {a} /\ a \in InCrue(c)
      BY <1>1, <2>1, <2>3 DEF InCrue
    <3>2. IsFiniteSet(InCrue(c)) /\ crues[c] \in Int
          /\ (crues[c] # Gone => Cardinality(InCrue(c)) <= crues[c])
      BY <1>1, <2>1, <2>3 DEF Counted
    <3>3. IsFiniteSet(InCrue(c)') /\ Cardinality(InCrue(c)') = Cardinality(InCrue(c)) - 1
          /\ Cardinality(InCrue(c)) \in Nat
      BY <3>1, <3>2, OneLessCounted
    <3>4. crues'[c] >= crues[c] - 1 /\ crues'[c] \in Int
      BY <1>1, <2>1, <2>3 DEF CounterKeeps
    <3>5. crues[c] # Gone
      BY <1>1, <2>3, <1>9 DEF Left, Membership, Commit, ScreensInv, CrueTells
    <3>6. QED
      BY <3>2, <3>3, <3>4, <3>5 DEF Counted
  <2>4. QED
    BY <2>2, <2>3
<1>10. QED
  BY <1>1, <1>3, <1>4, <1>5, <1>6, <1>8, <1>9, JoinOrLeave DEF Edits

LEMMA CountStep == CountInv /\ [Next]_vars => CountInv'
<1> SUFFICES ASSUME CountInv, [Next]_vars PROVE CountInv'
  OBVIOUS
<1>1. ScreensInv'
  BY ScreensStep DEF CountInv
<1>2. ASSUME UNCHANGED vars PROVE \A c \in Crues : Counted(c)'
  BY <1>2 DEF vars, store, CountInv, Counted, InCrue
<1>3. ASSUME Next PROVE \A c \in Crues : Counted(c)'
  BY <1>3, NextSplits, CountedMoves, CountedEdits
<1>4. QED
  BY <1>1, <1>2, <1>3 DEF CountInv

LEMMA CountInit == Init => CountInv
<1> SUFFICES ASSUME Init, NEW c \in Crues PROVE Counted(c)
  BY ScreensInit DEF CountInv
<1>1. InCrue(c) = {}
  BY NewAgentRec DEF Init, InCrue
<1>2. QED
  BY <1>1, FS_EmptySet DEF Init, Counted


(* NothingReverted: while missions are watched to their end and the        *)
(* composer changes no agent, no screen writes a stale copy over a record: *)
(* every agent has what it was paid less what it spent (screens.py,        *)
(* _load_roster after every write).                                        *)
THEOREM NothingRevertedHolds == Spec => []NothingReverted
<1>1. WatchInv => NothingReverted
  BY DEF WatchInv, Attended, NothingReverted
<1>2. QED
  BY <1>1, WatchInit, WatchStep, PTL DEF Spec

(* MembersCounted: a crue's counter never falls short of its members       *)
(* (_commit_crue_member).                                                  *)
THEOREM MembersCountedHolds == Spec => []MembersCounted
<1>1. CountInv => MembersCounted
  BY DEF CountInv, Counted, InCrue, MembersCounted
<1>2. QED
  BY <1>1, CountInit, CountStep, PTL DEF Spec

(* TerminatedStay: no screen brings a terminated agent back by writing a   *)
(* copy from before (_handle_view_input, then _load_roster).                     *)
THEOREM TerminatedStayHolds == Spec => TerminatedStay
<1>1. Spec => []ScreensInv
  BY ScreensInit, ScreensStep, PTL DEF Spec
<1>2. QED
  BY <1>1, TerminatedStep, PTL DEF Spec, TerminatedStay

(* The three of them, of the composition: the datastore's processes and    *)
(* the logs touch nothing that the screens keep.                           *)
THEOREM ScreensHoldInParts ==
  PartsSpec => [](NothingReverted /\ MembersCounted) /\ TerminatedStay
<1>1. PartsInit => Init
  BY DEF PartsInit
<1>2. [PartsNext]_<<part, vars, data, log>> => [Next]_vars
  BY DEF PartsNext
<1>3. PartsSpec => Spec
  BY <1>1, <1>2, PTL DEF PartsSpec, Spec
<1>4. QED
  BY <1>3, NothingRevertedHolds, MembersCountedHolds, TerminatedStayHolds, PTL


-----------------------------------------------------------------------------
(***************************************************************************)
(* The logs.                                                               *)
(***************************************************************************)
Kinds == {"mission_start", "mission_complete", "mission_fail", "task_dispatched", "task_active",
          "task_verify", "task_complete", "task_fail", "anomaly", "tool_call"}
Marks == {"ok", "fail", "pending"}
Ent == [mission : Nat, task : Tasks \union {NoTask}, type : Kinds, status : Marks]
Early == {"down", "csv?", "csv!", "json?", "json!", "ops?", "ops!"}
InFile == {"read", "cut", "fill"}
States == {"none", "pending", "running", "complete", "failed"}
Outcome == [complete : SUBSET Tasks, failed : SUBSET Tasks, ended : BOOLEAN]

LogTypes ==
  /\ csv \in Seq(Ent) /\ json \in Seq(Ent) /\ ops \in Seq(Marks) /\ said \in Nat
  /\ at \in [Procs -> Early \union {"idle"} \union InFile]
  /\ todo \in [Procs -> Seq(Ent)] /\ snap \in [Procs -> Seq(Ent)]
  /\ \A w \in Procs : at[w] \in InFile => todo[w] # <<>>
  /\ state \in [Procs -> [Tasks -> States]] /\ mission \in [Procs -> Nat]
  /\ outcome \in Seq(Outcome) /\ \A w \in Procs : mission[w] <= Len(outcome)
  /\ mishaps \in [Log!Mishap -> Nat]

LEMMA LogAmounts == Cap \in Nat /\ Cap >= 1 /\ NoTask \notin Tasks
  BY LogAssumption DEF Log!CapAssumption, Log!NoTaskAssumption

LEMMA EntryIs ==
  ASSUME NEW m \in Nat, NEW x \in Tasks \union {NoTask}, NEW y \in Kinds, NEW z \in Marks
  PROVE  Log!Entry(m, x, y, z) \in Ent /\ Log!Entry(m, x, y, z).type = y
         /\ Log!Entry(m, x, y, z).mission = m
  BY DEF Ent, Log!Entry

\* What the steps that put entries down leave alone.
LEMMA CountsUp ==
  ASSUME LogTypes, NEW k \in Log!Mishap, Log!Counts(k)
  PROVE  mishaps' \in [Log!Mishap -> Nat] /\ mishaps'[k] # 0 /\ mishaps'[k] = mishaps[k] + 1
         /\ \A x \in Log!Mishap : x # k => mishaps'[x] = mishaps[x]
  BY DEF LogTypes, Log!Counts

\* The steps of a process, by what they change.
LogLooks(w) == Log!Up(w) \/ \E file \in {"csv", "json", "ops"} : Log!Asks(w, file)
LogSays(w) ==
  \/ Log!Start(w) \/ Log!Ended(w)
  \/ \E t \in Tasks : Log!Orphan(w, t) \/ Log!Dispatched(w, t) \/ Log!Answered(w, t)

LEMMA LooksAre ==
  ASSUME LogTypes, NEW w \in Procs, LogLooks(w)
  PROVE  /\ UNCHANGED <<csv, json, ops, there, todo, snap, state, mission, times, said, acts,
                        outcome, mishaps>>
         /\ at[w] \in Early
         /\ \E step \in Early \union {"idle"} : at' = [at EXCEPT ![w] = step]
<1>1. UNCHANGED <<csv, json, ops, there, todo, snap, state, mission, times, said, acts,
                  outcome, mishaps>>
  BY DEF LogLooks, Log!Up, Log!Asks, Log!Rest, Log!files
<1>2. CASE Log!Up(w)
  BY <1>1, <1>2 DEF Log!Up, Log!Goes, Early
<1>3. ASSUME NEW file \in {"csv", "json", "ops"}, Log!Asks(w, file)
      PROVE  /\ at[w] \in Early
             /\ \E step \in Early \union {"idle"} : at' = [at EXCEPT ![w] = step]
  <2>1. at[w] = Log!Looks[file]
        /\ at' = [at EXCEPT ![w] = IF file \in there THEN Log!After(file) ELSE Log!Lacks[file]]
    BY <1>3 DEF Log!Asks, Log!Goes
  <2>2. Log!Looks[file] \in Early /\ Log!Lacks[file] \in Early
        /\ Log!After(file) \in Early \union {"idle"}
    <3>1. file = "csv" \/ file = "json" \/ file = "ops"
      OBVIOUS
    <3>2. QED
      BY <3>1 DEF Log!Looks, Log!Lacks, Log!After, Early
  <2>3. QED
    BY <2>1, <2>2
<1>4. QED
  BY <1>1, <1>2, <1>3 DEF LogLooks

LEMMA MakesAre ==
  ASSUME LogTypes, NEW w \in Procs, NEW file \in {"csv", "json", "ops"}, Log!Makes(w, file)
  PROVE  /\ UNCHANGED <<todo, snap, state, mission, times, said, acts, outcome>>
         /\ at[w] = Log!Lacks[file] /\ at[w] \in Early
         /\ at' = [at EXCEPT ![w] = Log!After(file)]
         /\ Log!After(file) \in Early \union {"idle"}
         /\ mishaps' \in [Log!Mishap -> Nat]
         /\ IF file \in there THEN mishaps'["race"] # 0 ELSE UNCHANGED mishaps
         /\ csv' \in Seq(Ent) /\ json' \in Seq(Ent) /\ ops' \in Seq(Marks)
<1>1. /\ UNCHANGED <<todo, snap, state, mission, times, said, acts, outcome>>
      /\ at[w] = Log!Lacks[file] /\ at' = [at EXCEPT ![w] = Log!After(file)]
      /\ csv' = <<>> \/ csv' = csv
      /\ json' = <<>> \/ json' = json
      /\ ops' = <<>> \/ ops' = ops
  BY DEF Log!Makes, Log!Goes, Log!Rest
<1>2. at[w] \in Early /\ Log!After(file) \in Early \union {"idle"}
  BY <1>1 DEF Log!Lacks, Log!After, Early
<1>3. csv' \in Seq(Ent) /\ json' \in Seq(Ent) /\ ops' \in Seq(Marks)
  <2>1. csv \in Seq(Ent) /\ json \in Seq(Ent) /\ ops \in Seq(Marks)
    BY DEF LogTypes
  <2>2. <<>> \in Seq(Ent) /\ <<>> \in Seq(Marks)
    OBVIOUS
  <2> HIDE DEF Ent
  <2>3. QED
    BY <1>1, <2>1, <2>2
<1>4. CASE file \in there
  <2>1. Log!Counts("race") /\ "race" \in Log!Mishap
    BY <1>4 DEF Log!Makes, Log!Mishap
  <2>2. QED
    BY <1>1, <1>2, <1>3, <1>4, <2>1, CountsUp
<1>5. CASE file \notin there
  <2>1. UNCHANGED mishaps
    BY <1>5 DEF Log!Makes
  <2>2. QED
    BY <1>1, <1>2, <1>3, <1>5, <2>1 DEF LogTypes
<1>6. QED
  BY <1>4, <1>5


\* What a task says of itself: remarks, and its report at the end.
Verdicts == {"task_complete", "task_fail"}
TypeOf(status) == IF status = "complete" THEN "task_complete" ELSE "task_fail"
Remarks(s, m) ==
  s \in Seq(Ent) /\ \A i \in 1..Len(s) : s[i].mission = m /\ s[i].type \notin Verdicts
Report(s, m, type) ==
  /\ s \in Seq(Ent) /\ Len(s) >= 1 /\ s[Len(s)].type = type
  /\ \A i \in 1..Len(s) : s[i].mission = m /\ (s[i].type \in Verdicts => i = Len(s))

LEMMA RemarksThenReport ==
  ASSUME NEW s, NEW v, NEW m, NEW type, Remarks(s, m), Report(v, m, type)
  PROVE  Report(s \o v, m, type)
<1>1. s \in Seq(Ent) /\ v \in Seq(Ent) /\ Len(v) >= 1 /\ Len(s) \in Nat /\ Len(v) \in Nat
  BY DEF Remarks, Report
<1> HIDE DEF Ent
<1>2. s \o v \in Seq(Ent) /\ Len(s \o v) = Len(s) + Len(v)
      /\ \A i \in 1..(Len(s) + Len(v)) :
           (s \o v)[i] = IF i <= Len(s) THEN s[i] ELSE v[i - Len(s)]
  BY <1>1
<1>3. (s \o v)[Len(s \o v)] = v[Len(v)]
  BY <1>1, <1>2
<1>4. ASSUME NEW i \in 1..Len(s \o v)
      PROVE  (s \o v)[i].mission = m /\ ((s \o v)[i].type \in Verdicts => i = Len(s \o v))
  <2>1. CASE i <= Len(s)
    BY <1>1, <1>2, <2>1 DEF Remarks
  <2>2. CASE ~(i <= Len(s))
    <3> DEFINE j == i - Len(s)
    <3>1. j \in 1..Len(v) /\ (s \o v)[i] = v[j] /\ (j = Len(v) => i = Len(s \o v))
      BY <1>1, <1>2, <2>2
    <3> HIDE DEF j
    <3>2. v[j].mission = m /\ (v[j].type \in Verdicts => j = Len(v))
      BY <3>1 DEF Report
    <3>3. QED
      BY <3>1, <3>2
  <2>3. QED
    BY <2>1, <2>2
<1>5. QED
  BY <1>1, <1>2, <1>3, <1>4 DEF Report

LEMMA OneRemark ==
  ASSUME NEW m \in Nat, NEW e \in Ent, e.mission = m, e.type \notin Verdicts
  PROVE  Remarks(<<e>>, m)
  BY DEF Remarks

LEMMA OneReport ==
  ASSUME NEW m \in Nat, NEW e \in Ent, e.mission = m
  PROVE  Report(<<e>>, m, e.type)
  BY DEF Report

LEMMA TwoRemarks ==
  ASSUME NEW m \in Nat, NEW e \in Ent, e.mission = m, e.type \notin Verdicts,
         NEW f \in Ent, f.mission = m, f.type \notin Verdicts
  PROVE  Remarks(<<e, f>>, m)
  BY DEF Remarks

LEMMA AnswerReports ==
  ASSUME NEW m \in Nat, NEW t \in Tasks, NEW status \in {"complete", "failed"},
         NEW found \in Log!Findings(m, t)
  PROVE  Report(found \o Log!Verdict(m, t, status), m, TypeOf(status))
<1>1. Remarks(<<>>, m)
  BY DEF Remarks
<1> DEFINE anomaly == Log!Entry(m, t, "anomaly", "fail")
           call == Log!Entry(m, t, "tool_call", "ok")
           verify == Log!Entry(m, t, "task_verify", IF status = "complete" THEN "ok" ELSE "fail")
           done == Log!Entry(m, t, "task_complete", "ok")
           fails == Log!Entry(m, t, "task_fail", "fail")
           checks == IF t \in Known THEN <<verify>> ELSE <<>>
           ends == IF status = "complete" THEN <<done>> ELSE <<fails>>
<1>2. /\ anomaly \in Ent /\ anomaly.mission = m /\ anomaly.type \notin Verdicts
      /\ call \in Ent /\ call.mission = m /\ call.type \notin Verdicts
      /\ verify \in Ent /\ verify.mission = m /\ verify.type \notin Verdicts
      /\ done \in Ent /\ done.mission = m /\ done.type = "task_complete"
      /\ fails \in Ent /\ fails.mission = m /\ fails.type = "task_fail"
  <2>1. t \in Tasks \union {NoTask}
    OBVIOUS
  <2>2. anomaly \in Ent /\ anomaly.mission = m /\ anomaly.type = "anomaly"
    BY <2>1, EntryIs DEF Kinds, Marks
  <2>3. call \in Ent /\ call.mission = m /\ call.type = "tool_call"
    BY <2>1, EntryIs DEF Kinds, Marks
  <2>4. verify \in Ent /\ verify.mission = m /\ verify.type = "task_verify"
    <3>1. (IF status = "complete" THEN "ok" ELSE "fail") \in Marks
      BY DEF Marks
    <3>2. QED
      BY <2>1, <3>1, EntryIs DEF Kinds
  <2>5. done \in Ent /\ done.mission = m /\ done.type = "task_complete"
    BY <2>1, EntryIs DEF Kinds, Marks
  <2>6. fails \in Ent /\ fails.mission = m /\ fails.type = "task_fail"
    BY <2>1, EntryIs DEF Kinds, Marks
  <2> HIDE DEF anomaly, call, verify, done, fails
  <2>7. QED
    BY <2>2, <2>3, <2>4, <2>5, <2>6 DEF Verdicts
<1>3. found = <<>> \/ found = <<anomaly, call>>
  BY DEF Log!Findings
<1>4. Log!Verdict(m, t, status) = checks \o ends
  BY DEF Log!Verdict
<1> HIDE DEF anomaly, call, verify, done, fails
<1>5. Remarks(found, m) /\ Remarks(checks, m)
  BY <1>1, <1>2, <1>3, OneRemark, TwoRemarks
<1>6. Report(ends, m, TypeOf(status))
  BY <1>2, OneReport DEF TypeOf
<1> HIDE DEF checks, ends
<1>7. QED
  BY <1>4, <1>5, <1>6, RemarksThenReport


\* What execute puts down, whatever it is: entries of one mission, which are
\* remarks or, with its outcome, the report on a task.
Finds(o, status, t) == [o EXCEPT ![status] = @ \union {t}]
Moved(w, t, status) == state' = [state EXCEPT ![w] = [state[w] EXCEPT ![t] = status]]
PutsDown(w, s) ==
  /\ at[w] = "idle" /\ todo[w] = <<>> /\ todo' = [todo EXCEPT ![w] = s]
  /\ UNCHANGED <<csv, json, ops, there, at, snap, said, mishaps>>
Opening(w, runs) ==
  /\ outcome' = Append(outcome, [complete |-> {}, failed |-> {}, ended |-> ~runs])
  /\ \E s : PutsDown(w, s) /\ Remarks(s, Len(outcome) + 1)
  /\ mission[w] = 0
  /\ IF runs THEN /\ mission' = [mission EXCEPT ![w] = Len(outcome) + 1]
                  /\ \E first \in [Tasks -> States] : state' = [state EXCEPT ![w] = first]
             ELSE UNCHANGED <<mission, state>>
Reporting(w, t, status) ==
  /\ mission[w] # 0 /\ state[w][t] \in {"pending", "running"} /\ Moved(w, t, status)
  /\ outcome' = [outcome EXCEPT ![mission[w]] = Finds(outcome[mission[w]], status, t)]
  /\ \E s : PutsDown(w, s) /\ Report(s, mission[w], TypeOf(status))
  /\ UNCHANGED mission
Dispatching(w, t) ==
  /\ mission[w] # 0 /\ state[w][t] = "pending" /\ Moved(w, t, "running")
  /\ \E s : PutsDown(w, s) /\ Remarks(s, mission[w])
  /\ UNCHANGED <<mission, outcome>>
Closing(w) ==
  /\ mission[w] # 0
  /\ outcome' = [outcome EXCEPT ![mission[w]] = [outcome[mission[w]] EXCEPT !.ended = TRUE]]
  /\ \E s : PutsDown(w, s) /\ Remarks(s, mission[w])
  /\ mission' = [mission EXCEPT ![w] = 0]
  /\ \E first \in [Tasks -> States] : state' = [state EXCEPT ![w] = first]
Speaks(w) ==
  \/ \E runs \in BOOLEAN : Opening(w, runs)
  \/ \E t \in Tasks, status \in {"complete", "failed"} : Reporting(w, t, status)
  \/ \E t \in Tasks : Dispatching(w, t)
  \/ Closing(w)

LEMMA LogsPutsDown ==
  ASSUME NEW w, NEW s, Log!Logs(w, s)
  PROVE  PutsDown(w, s)
  BY DEF Log!Logs, Log!Free, PutsDown, Log!files

LEMMA MissionRemark ==
  ASSUME NEW m \in Nat, NEW type \in Kinds \ Verdicts, NEW mark \in Marks
  PROVE  Remarks(<<Log!MissionEntry(m, type, mark)>>, m)
<1> DEFINE e == Log!Entry(m, NoTask, type, mark)
<1>1. e \in Ent /\ e.type = type /\ e.mission = m
  BY EntryIs
<1> HIDE DEF e
<1>2. Remarks(<<e>>, m)
  BY <1>1, OneRemark
<1>3. QED
  BY <1>2 DEF Log!MissionEntry, e

LEMMA SaysSpeaks ==
  ASSUME LogTypes, NEW w \in Procs, LogSays(w)
  PROVE  Speaks(w)
<1>1. mission[w] \in Nat /\ Len(outcome) \in Nat /\ state[w] \in [Tasks -> States]
  BY DEF LogTypes
<1>2. CASE Log!Start(w)
  <2>1. PICK list \in SUBSET Tasks, serves \in BOOLEAN :
          LET m == Len(outcome) + 1
              runs == list # {} /\ serves
          IN  /\ outcome' = Append(outcome, [complete |-> {}, failed |-> {}, ended |-> ~runs])
              /\ IF runs
                 THEN /\ Log!Logs(w, <<Log!MissionEntry(m, "mission_start", "ok")>>)
                      /\ mission' = [mission EXCEPT ![w] = m]
                      /\ state' = [state EXCEPT ![w] =
                           [t \in Tasks |-> IF t \in list THEN "pending" ELSE "none"]]
                 ELSE /\ Log!Logs(w, <<Log!MissionEntry(m, "mission_fail", "fail")>>)
                      /\ UNCHANGED <<mission, state>>
    BY <1>2 DEF Log!Start
  <2> DEFINE m == Len(outcome) + 1
             runs == list # {} /\ serves
             first == [t \in Tasks |-> IF t \in list THEN "pending" ELSE "none"]
  <2>2. m \in Nat /\ runs \in BOOLEAN /\ first \in [Tasks -> States] /\ mission[w] = 0
    BY <1>1, <1>2 DEF Log!Start, States
  <2>3. /\ Remarks(<<Log!MissionEntry(m, "mission_start", "ok")>>, m)
        /\ Remarks(<<Log!MissionEntry(m, "mission_fail", "fail")>>, m)
    <3> HIDE DEF m
    <3>1. "mission_start" \in Kinds \ Verdicts /\ "mission_fail" \in Kinds \ Verdicts
          /\ "ok" \in Marks /\ "fail" \in Marks
      BY DEF Kinds, Verdicts, Marks
    <3>2. QED
      BY <2>2, <3>1, MissionRemark
  <2>4. \E s : PutsDown(w, s) /\ Remarks(s, m)
    BY <2>1, <2>3, LogsPutsDown
  <2>5. Opening(w, runs)
    BY <2>1, <2>2, <2>4 DEF Opening
  <2>6. QED
    BY <2>2, <2>5 DEF Speaks
<1>3. ASSUME NEW t \in Tasks, Log!Orphan(w, t) PROVE Speaks(w)
  <2> DEFINE e == Log!Entry(mission[w], t, "task_fail", "fail")
  <2>1. e \in Ent /\ e.mission = mission[w] /\ e.type = "task_fail"
    BY <1>1, EntryIs DEF Kinds, Marks
  <2>2. Log!Logs(w, <<e>>)
    BY <1>3 DEF Log!Orphan
  <2> HIDE DEF e
  <2>3. Report(<<e>>, mission[w], TypeOf("failed"))
    BY <1>1, <2>1, OneReport DEF TypeOf
  <2>4. \E s : PutsDown(w, s) /\ Report(s, mission[w], TypeOf("failed"))
    BY <2>2, <2>3, LogsPutsDown
  <2>5. Reporting(w, t, "failed")
    BY <1>3, <2>4 DEF Log!Orphan, Reporting, Moved, Finds
  <2>6. QED
    BY <2>5 DEF Speaks
<1>4. ASSUME NEW t \in Tasks, Log!Dispatched(w, t) PROVE Speaks(w)
  <2> DEFINE e == Log!Entry(mission[w], t, "task_dispatched", "pending")
             f == Log!Entry(mission[w], t, "task_active", "pending")
  <2>1. e \in Ent /\ e.mission = mission[w] /\ e.type = "task_dispatched"
    BY <1>1, EntryIs DEF Kinds, Marks
  <2>2. f \in Ent /\ f.mission = mission[w] /\ f.type = "task_active"
    BY <1>1, EntryIs DEF Kinds, Marks
  <2>3. Log!Logs(w, <<e, f>>)
    BY <1>4 DEF Log!Dispatched
  <2> HIDE DEF e, f
  <2>4. Remarks(<<e, f>>, mission[w])
    BY <1>1, <2>1, <2>2, TwoRemarks DEF Verdicts
  <2>5. Dispatching(w, t)
    BY <1>4, <2>3, <2>4, LogsPutsDown DEF Log!Dispatched, Dispatching, Moved
  <2>6. QED
    BY <2>5 DEF Speaks
<1>5. ASSUME NEW t \in Tasks, Log!Answered(w, t) PROVE Speaks(w)
  <2>1. PICK status \in {"complete", "failed"} :
          /\ \E found \in Log!Findings(mission[w], t) :
               Log!Logs(w, found \o Log!Verdict(mission[w], t, status))
          /\ state' = [state EXCEPT ![w][t] = status]
          /\ outcome' = [outcome EXCEPT ![mission[w]][status] = @ \union {t}]
    BY <1>5 DEF Log!Answered
  <2>2. PICK found \in Log!Findings(mission[w], t) :
          Log!Logs(w, found \o Log!Verdict(mission[w], t, status))
    BY <2>1
  <2>3. Report(found \o Log!Verdict(mission[w], t, status), mission[w], TypeOf(status))
    BY <1>1, AnswerReports
  <2>4. \E s : PutsDown(w, s) /\ Report(s, mission[w], TypeOf(status))
    BY <2>2, <2>3, LogsPutsDown
  <2>5. Reporting(w, t, status)
    BY <1>5, <2>1, <2>4 DEF Log!Answered, Reporting, Moved, Finds
  <2>6. QED
    BY <2>5 DEF Speaks
<1>6. CASE Log!Ended(w)
  <2> DEFINE good == \A t \in Tasks : state[w][t] # "failed"
  <2>1. \E s : PutsDown(w, s) /\ Remarks(s, mission[w])
    <3>1. /\ Remarks(<<Log!MissionEntry(mission[w], "mission_complete", "ok")>>, mission[w])
          /\ Remarks(<<Log!MissionEntry(mission[w], "mission_fail", "fail")>>, mission[w])
      <4>1. "mission_complete" \in Kinds \ Verdicts /\ "mission_fail" \in Kinds \ Verdicts
            /\ "ok" \in Marks /\ "fail" \in Marks
        BY DEF Kinds, Verdicts, Marks
      <4>2. QED
        BY <1>1, <4>1, MissionRemark
    <3>2. Log!Logs(w, <<IF good THEN Log!MissionEntry(mission[w], "mission_complete", "ok")
                                ELSE Log!MissionEntry(mission[w], "mission_fail", "fail")>>)
      BY <1>6 DEF Log!Ended
    <3> HIDE DEF good
    <3>3. QED
      BY <3>1, <3>2, LogsPutsDown
  <2>2. Log!Fresh \in [Tasks -> States] /\ state' = [state EXCEPT ![w] = Log!Fresh]
    BY <1>6 DEF Log!Ended, Log!Fresh, States
  <2>3. /\ mission[w] # 0 /\ mission' = [mission EXCEPT ![w] = 0]
        /\ outcome' = [outcome EXCEPT ![mission[w]] = [outcome[mission[w]] EXCEPT !.ended = TRUE]]
    BY <1>6 DEF Log!Ended
  <2>4. QED
    BY <2>1, <2>2, <2>3 DEF Closing, Speaks
<1>7. QED
  BY <1>2, <1>3, <1>4, <1>5, <1>6 DEF LogSays


LEMMA SeqUpdate ==
  ASSUME NEW S, NEW s \in Seq(S), NEW i \in 1..Len(s), NEW e \in S
  PROVE  /\ [s EXCEPT ![i] = e] \in Seq(S) /\ Len([s EXCEPT ![i] = e]) = Len(s)
         /\ \A j \in 1..Len(s) : [s EXCEPT ![i] = e][j] = IF j = i THEN e ELSE s[j]
  OBVIOUS

LEMMA FindsIs ==
  ASSUME NEW o \in Outcome, NEW t \in Tasks, NEW status \in {"complete", "failed"}
  PROVE  /\ Finds(o, status, t) \in Outcome
         /\ Finds(o, status, t)[status] = o[status] \union {t}
         /\ \A x \in {"complete", "failed"} \ {status} : Finds(o, status, t)[x] = o[x]
         /\ Finds(o, status, t).ended <=> o.ended
<1>1. CASE status = "complete"
  BY <1>1 DEF Outcome, Finds
<1>2. CASE status = "failed"
  BY <1>2 DEF Outcome, Finds
<1>3. QED
  BY <1>1, <1>2

LEMMA EndsIt ==
  ASSUME NEW o \in Outcome
  PROVE  /\ [o EXCEPT !.ended = TRUE] \in Outcome /\ [o EXCEPT !.ended = TRUE].ended
         /\ \A x \in {"complete", "failed"} : [o EXCEPT !.ended = TRUE][x] = o[x]
  BY DEF Outcome

\* The outcomes after execute has spoken.
LEMMA SpeaksOutcome ==
  ASSUME LogTypes, NEW w \in Procs, Speaks(w)
  PROVE  /\ outcome' \in Seq(Outcome) /\ Len(outcome') >= Len(outcome)
         /\ mission' \in [Procs -> Nat] /\ \A v \in Procs : mission'[v] <= Len(outcome')
         /\ state' \in [Procs -> [Tasks -> States]]
         /\ \E s \in Seq(Ent) : PutsDown(w, s)
<1>1. /\ outcome \in Seq(Outcome) /\ mission \in [Procs -> Nat] /\ Len(outcome) \in Nat
      /\ \A v \in Procs : mission[v] <= Len(outcome)
      /\ state \in [Procs -> [Tasks -> States]]
  BY DEF LogTypes
<1>2. ASSUME NEW runs \in BOOLEAN, Opening(w, runs)
      PROVE  /\ outcome' \in Seq(Outcome) /\ Len(outcome') = Len(outcome) + 1
             /\ mission' \in [Procs -> Nat] /\ \A v \in Procs : mission'[v] <= Len(outcome')
             /\ state' \in [Procs -> [Tasks -> States]]
             /\ \E s \in Seq(Ent) : PutsDown(w, s)
  <2> DEFINE o == [complete |-> {}, failed |-> {}, ended |-> ~runs]
  <2>1. o \in Outcome
    BY DEF Outcome
  <2>2. outcome' = Append(outcome, o)
    BY <1>2 DEF Opening
  <2> HIDE DEF o
  <2>3. outcome' \in Seq(Outcome) /\ Len(outcome') = Len(outcome) + 1
    BY <1>1, <2>1, <2>2
  <2>4. mission' \in [Procs -> Nat] /\ \A v \in Procs : mission'[v] <= Len(outcome) + 1
    <3> DEFINE m == Len(outcome) + 1
    <3>1. mission' = mission \/ mission' = [mission EXCEPT ![w] = m]
      BY <1>2 DEF Opening
    <3>2. m \in Nat /\ \A v \in Procs : mission[v] \in Nat /\ mission[v] <= m
      BY <1>1
    <3> HIDE DEF m
    <3>3. mission' \in [Procs -> Nat] /\ \A v \in Procs : mission'[v] <= m
      BY <1>1, <3>1, <3>2
    <3>4. QED
      BY <3>3 DEF m
  <2>5. state' \in [Procs -> [Tasks -> States]] /\ \E s \in Seq(Ent) : PutsDown(w, s)
    BY <1>1, <1>2 DEF Opening, Remarks
  <2>6. QED
    BY <2>3, <2>4, <2>5
<1>3. ASSUME NEW t \in Tasks, NEW status \in {"complete", "failed"}, Reporting(w, t, status)
      PROVE  /\ outcome' \in Seq(Outcome) /\ Len(outcome') = Len(outcome)
             /\ state' \in [Procs -> [Tasks -> States]] /\ UNCHANGED mission
             /\ \E s \in Seq(Ent) : PutsDown(w, s)
  <2>1. mission[w] \in 1..Len(outcome) /\ outcome[mission[w]] \in Outcome
    BY <1>1, <1>3 DEF Reporting
  <2>2. Finds(outcome[mission[w]], status, t) \in Outcome
    BY <2>1, FindsIs
  <2>3. outcome' \in Seq(Outcome) /\ Len(outcome') = Len(outcome)
    BY <1>1, <1>3, <2>1, <2>2, SeqUpdate DEF Reporting
  <2>4. status \in States
    BY DEF States
  <2>5. QED
    BY <1>1, <1>3, <2>3, <2>4 DEF Reporting, Report, Moved
<1>4. ASSUME NEW t \in Tasks, Dispatching(w, t)
      PROVE  state' \in [Procs -> [Tasks -> States]] /\ \E s \in Seq(Ent) : PutsDown(w, s)
  BY <1>1, <1>4 DEF Dispatching, Remarks, Moved, States
<1>5. ASSUME Closing(w)
      PROVE  /\ outcome' \in Seq(Outcome) /\ Len(outcome') = Len(outcome)
             /\ state' \in [Procs -> [Tasks -> States]]
             /\ mission' \in [Procs -> Nat] /\ \A v \in Procs : mission'[v] <= Len(outcome)
             /\ \E s \in Seq(Ent) : PutsDown(w, s)
  <2>1. mission[w] \in 1..Len(outcome) /\ outcome[mission[w]] \in Outcome
    BY <1>1, <1>5 DEF Closing
  <2>2. [outcome[mission[w]] EXCEPT !.ended = TRUE] \in Outcome
    BY <2>1, EndsIt
  <2>3. outcome' \in Seq(Outcome) /\ Len(outcome') = Len(outcome)
    BY <1>1, <1>5, <2>1, <2>2, SeqUpdate DEF Closing
  <2>4. QED
    BY <1>1, <1>5, <2>3 DEF Closing, Remarks
<1>6. CASE \E runs \in BOOLEAN : Opening(w, runs)
  BY <1>1, <1>2, <1>6
<1>7. CASE \E t \in Tasks, status \in {"complete", "failed"} : Reporting(w, t, status)
  BY <1>1, <1>3, <1>7
<1>8. CASE \E t \in Tasks : Dispatching(w, t)
  BY <1>1, <1>4, <1>8 DEF Dispatching
<1>9. CASE Closing(w)
  BY <1>1, <1>5, <1>9
<1>10. QED
  BY <1>6, <1>7, <1>8, <1>9 DEF Speaks

LEMMA LogNextSplits ==
  ASSUME LogTypes, Log!Next
  PROVE  \E w \in Procs :
           \/ LogLooks(w) \/ \E file \in {"csv", "json", "ops"} : Log!Makes(w, file)
           \/ Log!AppendCsv(w) \/ Log!ReadJson(w) \/ Log!CutJson(w) \/ Log!FillJson(w)
           \/ Log!LogOps(w) \/ Speaks(w) \/ Log!Ends(w)
  BY SaysSpeaks DEF Log!Next, Log!Writes, Log!Executes, LogLooks, LogSays


LEMMA TailIs ==
  ASSUME NEW S, NEW s \in Seq(S), s # <<>>
  PROVE  Head(s) \in S /\ Tail(s) \in Seq(S) /\ Len(Tail(s)) = Len(s) - 1 /\ Len(s) >= 1
         /\ \A i \in 1..Len(Tail(s)) : Tail(s)[i] = s[i + 1]
  OBVIOUS

LEMMA NewestIs ==
  ASSUME NEW S, NEW s \in Seq(S)
  PROVE  Log!Newest(s) \in Seq(S)
<1>1. CASE Len(s) > Cap
  BY <1>1, LogAmounts DEF Log!Newest
<1>2. CASE ~(Len(s) > Cap)
  BY <1>2, LogAmounts DEF Log!Newest
<1>3. QED
  BY <1>1, <1>2

LEMMA LogTypesInit == Log!Init => LogTypes
<1> SUFFICES ASSUME Log!Init PROVE LogTypes
  OBVIOUS
<1>1. Log!Fresh \in [Tasks -> States] /\ <<>> \in Seq(Ent) /\ <<>> \in Seq(Marks)
      /\ <<>> \in Seq(Outcome) /\ Len(<<>>) = 0
  BY DEF Log!Fresh, States
<1>2. QED
  BY <1>1 DEF Log!Init, LogTypes, Early, InFile

LEMMA LogTypesStep == LogTypes /\ [Log!Next]_log => LogTypes'
<1> SUFFICES ASSUME LogTypes, [Log!Next]_log PROVE LogTypes'
  OBVIOUS
<1> DEFINE Steps == Early \union {"idle"} \union InFile
<1>1. /\ csv \in Seq(Ent) /\ json \in Seq(Ent) /\ ops \in Seq(Marks) /\ said \in Nat
      /\ at \in [Procs -> Steps]
      /\ todo \in [Procs -> Seq(Ent)] /\ snap \in [Procs -> Seq(Ent)]
      /\ \A w \in Procs : at[w] \in InFile => todo[w] # <<>>
      /\ state \in [Procs -> [Tasks -> States]] /\ mission \in [Procs -> Nat]
      /\ outcome \in Seq(Outcome) /\ \A w \in Procs : mission[w] <= Len(outcome)
      /\ mishaps \in [Log!Mishap -> Nat] /\ "death" \in Log!Mishap /\ "clash" \in Log!Mishap
      /\ <<>> \in Seq(Ent)
  BY DEF LogTypes, Log!Mishap
<1>2. CASE UNCHANGED log
  BY <1>2 DEF log, LogTypes
<1>3. ASSUME NEW w \in Procs, LogLooks(w) PROVE LogTypes'
  BY <1>1, <1>3, LooksAre DEF LogTypes, Early, InFile
<1>4. ASSUME NEW w \in Procs, NEW file \in {"csv", "json", "ops"}, Log!Makes(w, file)
      PROVE  LogTypes'
  BY <1>1, <1>4, MakesAre DEF LogTypes, Early, InFile
<1>5. ASSUME NEW w \in Procs, Log!AppendCsv(w) PROVE LogTypes'
  <2>1. Head(todo[w]) \in Ent /\ todo[w] # <<>>
    BY <1>1, <1>5, TailIs DEF Log!AppendCsv
  <2>2. csv' \in Seq(Ent)
    <3> HIDE DEF Ent
    <3>1. QED
      BY <1>1, <1>5, <2>1 DEF Log!AppendCsv
  <2>3. QED
    BY <1>1, <1>5, <2>1, <2>2 DEF Log!AppendCsv, Log!Goes, Log!Rest, LogTypes, Early, InFile
<1>6. ASSUME NEW w \in Procs, Log!ReadJson(w) PROVE LogTypes'
  <2>1. mishaps' \in [Log!Mishap -> Nat]
    BY <1>1, <1>6, CountsUp DEF Log!ReadJson
  <2>2. QED
    BY <1>1, <1>6, <2>1 DEF Log!ReadJson, Log!Goes, Log!files, LogTypes, Early, InFile
<1>7. ASSUME NEW w \in Procs, Log!CutJson(w) PROVE LogTypes'
  BY <1>1, <1>7 DEF Log!CutJson, Log!Goes, Log!Rest, LogTypes, Early, InFile
<1>8. ASSUME NEW w \in Procs, Log!FillJson(w) PROVE LogTypes'
  <2>1. todo[w] # <<>>
    BY <1>1, <1>8 DEF Log!FillJson, InFile
  <2>2. Head(todo[w]) \in Ent /\ Tail(todo[w]) \in Seq(Ent)
    BY <1>1, <2>1, TailIs
  <2>3. Append(snap[w], Head(todo[w])) \in Seq(Ent)
    <3> HIDE DEF Ent
    <3>1. QED
      BY <1>1, <2>2
  <2>4. json' \in Seq(Ent)
    BY <1>8, <2>3, NewestIs DEF Log!FillJson
  <2>5. /\ todo' = [todo EXCEPT ![w] = Tail(todo[w])] /\ snap' = [snap EXCEPT ![w] = <<>>]
        /\ at' = [at EXCEPT ![w] = "idle"]
        /\ UNCHANGED <<csv, ops, said, state, mission, outcome, mishaps>>
    BY <1>1, <1>8 DEF Log!FillJson, Log!Goes
  <2>6. QED
    BY <1>1, <2>2, <2>4, <2>5 DEF LogTypes, Early, InFile
<1>9. ASSUME NEW w \in Procs, Log!LogOps(w) PROVE LogTypes'
  <2>1. PICK status \in {"ok", "fail"} : ops' = Append(ops, status)
    BY <1>9 DEF Log!LogOps, Log!Statuses
  <2>2. ops' \in Seq(Marks)
    <3>1. status \in Marks
      BY DEF Marks
    <3> HIDE DEF Marks
    <3>2. QED
      BY <1>1, <2>1, <3>1
  <2>3. QED
    BY <1>1, <1>9, <2>2 DEF Log!LogOps, LogTypes
<1>10. ASSUME NEW w \in Procs, Speaks(w) PROVE LogTypes'
  <2>1. PICK s \in Seq(Ent) : PutsDown(w, s)
    BY <1>10, SpeaksOutcome
  <2>2. todo' \in [Procs -> Seq(Ent)] /\ \A v \in Procs : at[v] \in InFile => todo'[v] # <<>>
    BY <1>1, <2>1 DEF PutsDown, InFile
  <2>3. QED
    BY <1>1, <1>10, <2>1, <2>2, SpeaksOutcome DEF PutsDown, LogTypes
<1>11. ASSUME NEW w \in Procs, Log!Ends(w) PROVE LogTypes'
  <2>1. mishaps' \in [Log!Mishap -> Nat]
    BY <1>1, <1>11, CountsUp DEF Log!Ends
  <2>2. Log!Fresh \in [Tasks -> States]
    BY DEF Log!Fresh, States
  <2>3. /\ at' = [at EXCEPT ![w] = "down"] /\ todo' = [todo EXCEPT ![w] = <<>>]
        /\ snap' = [snap EXCEPT ![w] = <<>>] /\ state' = [state EXCEPT ![w] = Log!Fresh]
        /\ mission' = [mission EXCEPT ![w] = 0]
        /\ UNCHANGED <<csv, json, ops, said, outcome>>
    BY <1>11 DEF Log!Ends, Log!Goes, Log!files
  <2>4. mission' \in [Procs -> Nat] /\ \A v \in Procs : mission'[v] <= Len(outcome)
    BY <1>1, <2>3
  <2>5. QED
    BY <1>1, <2>1, <2>2, <2>3, <2>4 DEF LogTypes, Early, InFile
<1>12. QED
  BY <1>2, <1>3, <1>4, <1>5, <1>6, <1>7, <1>8, <1>9, <1>10, <1>11, LogNextSplits


\* The newest entries of a log, and how they are kept when it grows.
TailOf(s) == SubSeq(s, Max({1, Len(s) - Cap + 1}), Len(s))

LEMMA MaxIs ==
  ASSUME NEW n \in Int
  PROVE  Max({1, n}) = IF n > 1 THEN n ELSE 1
<1>1. \E x \in {1, n} : \A y \in {1, n} : x >= y
  <2>1. CASE n > 1
    BY <2>1
  <2>2. CASE ~(n > 1)
    BY <2>2
  <2>3. QED
    BY <2>1, <2>2
<1>2. Max({1, n}) \in {1, n} /\ \A y \in {1, n} : Max({1, n}) >= y
  BY <1>1 DEF Max
<1>3. QED
  BY <1>2

LEMMA SubSeqIs ==
  ASSUME NEW S, NEW s \in Seq(S), NEW i \in Nat, NEW j \in Nat, i >= 1, j <= Len(s), i <= j + 1
  PROVE  /\ SubSeq(s, i, j) \in Seq(S) /\ Len(SubSeq(s, i, j)) = j - i + 1
         /\ \A k \in 1..(j - i + 1) : SubSeq(s, i, j)[k] = s[i + k - 1]
  OBVIOUS

LEMMA SameSeq ==
  ASSUME NEW S, NEW s \in Seq(S), NEW v \in Seq(S), Len(s) = Len(v),
         \A k \in 1..Len(s) : s[k] = v[k]
  PROVE  s = v
  OBVIOUS

LEMMA AppendIs ==
  ASSUME NEW S, NEW s \in Seq(S), NEW e \in S
  PROVE  /\ Append(s, e) \in Seq(S) /\ Len(Append(s, e)) = Len(s) + 1 /\ Len(s) \in Nat
         /\ Append(s, e)[Len(s) + 1] = e
         /\ \A k \in 1..Len(s) : Append(s, e)[k] = s[k]
  OBVIOUS

LEMMA TailOfIs ==
  ASSUME NEW S, NEW s \in Seq(S)
  PROVE  /\ TailOf(s) \in Seq(S)
         /\ Len(s) <= Cap => TailOf(s) = s
         /\ Len(s) > Cap => /\ Len(TailOf(s)) = Cap
                            /\ \A k \in 1..Cap : TailOf(s)[k] = s[Len(s) - Cap + k]
<1>1. Cap \in Nat /\ Cap >= 1 /\ Len(s) \in Nat
  BY LogAmounts
<1>2. CASE Len(s) > Cap
  <2> DEFINE i == Len(s) - Cap + 1
  <2>1. i \in Nat /\ i > 1 /\ i <= Len(s) + 1 /\ Len(s) - i + 1 = Cap
        /\ \A k \in 1..Cap : i + k - 1 = Len(s) - Cap + k
    BY <1>1, <1>2
  <2>2. TailOf(s) = SubSeq(s, i, Len(s))
    <3>1. Max({1, i}) = i
      <4> HIDE DEF i
      <4>1. i \in Int /\ i > 1
        BY <2>1
      <4>2. QED
        BY <4>1, MaxIs
    <3>2. QED
      BY <3>1 DEF TailOf
  <2>3. /\ SubSeq(s, i, Len(s)) \in Seq(S) /\ Len(SubSeq(s, i, Len(s))) = Cap
        /\ \A k \in 1..Cap : SubSeq(s, i, Len(s))[k] = s[i + k - 1]
    <3> HIDE DEF i
    <3>1. QED
      BY <1>1, <2>1, SubSeqIs
  <2>4. QED
    BY <1>1, <1>2, <2>1, <2>2, <2>3
<1>3. CASE ~(Len(s) > Cap)
  <2>1. TailOf(s) = SubSeq(s, 1, Len(s))
    BY <1>1, <1>3, MaxIs DEF TailOf
  <2>2. SubSeq(s, 1, Len(s)) = s
    BY <1>1
  <2>3. QED
    BY <1>1, <1>3, <2>1, <2>2
<1>4. QED
  BY <1>2, <1>3

LEMMA TailGrows ==
  ASSUME NEW S, NEW s \in Seq(S), NEW e \in S
  PROVE  Log!Newest(Append(TailOf(s), e)) = TailOf(Append(s, e))
<1>1. Cap \in Nat /\ Cap >= 1 /\ Len(s) \in Nat
  BY LogAmounts
<1> DEFINE v == Append(s, e)
           r == Append(TailOf(s), e)
<1>2. /\ v \in Seq(S) /\ Len(v) = Len(s) + 1 /\ v[Len(s) + 1] = e
      /\ \A k \in 1..Len(s) : v[k] = s[k]
  BY AppendIs
<1>3. /\ TailOf(s) \in Seq(S) /\ r \in Seq(S) /\ Len(r) = Len(TailOf(s)) + 1
      /\ Len(TailOf(s)) \in Nat /\ r[Len(TailOf(s)) + 1] = e
      /\ \A k \in 1..Len(TailOf(s)) : r[k] = TailOf(s)[k]
  BY TailOfIs, AppendIs
<1> HIDE DEF v, r
<1>4. CASE Len(s) < Cap
  <2>1. TailOf(s) = s
    BY <1>1, <1>4, TailOfIs
  <2>2. r = v /\ Len(v) <= Cap
    BY <1>1, <1>2, <1>4, <2>1 DEF r, v
  <2>3. TailOf(v) = v
    BY <1>2, <2>2, TailOfIs
  <2>4. Log!Newest(v) = v
    BY <1>1, <1>2, <2>2 DEF Log!Newest
  <2>5. QED
    BY <2>2, <2>3, <2>4 DEF r, v
<1>5. CASE Len(s) >= Cap
  <2>1. /\ Len(TailOf(s)) = Cap
        /\ \A k \in 1..Cap : TailOf(s)[k] = s[Len(s) - Cap + k]
    <3>1. CASE Len(s) = Cap
      <4>1. TailOf(s) = s
        BY <1>1, <3>1, TailOfIs
      <4>2. QED
        BY <1>1, <3>1, <4>1
    <3>2. CASE Len(s) > Cap
      BY <3>2, TailOfIs
    <3>3. QED
      BY <1>1, <1>5, <3>1, <3>2
  <2>2. Len(r) = Cap + 1 /\ Len(v) > Cap
    BY <1>1, <1>2, <1>3, <1>5, <2>1
  <2>3. Log!Newest(r) = SubSeq(r, 2, Cap + 1)
    BY <1>1, <2>2 DEF Log!Newest
  <2>4. /\ Log!Newest(r) \in Seq(S) /\ Len(Log!Newest(r)) = Cap
        /\ \A k \in 1..Cap : Log!Newest(r)[k] = r[k + 1]
    BY <1>1, <1>3, <2>2, <2>3, SubSeqIs
  <2>5. /\ TailOf(v) \in Seq(S) /\ Len(TailOf(v)) = Cap
        /\ \A k \in 1..Cap : TailOf(v)[k] = v[Len(v) - Cap + k]
    BY <1>2, <2>2, TailOfIs
  <2>6. ASSUME NEW k \in 1..Cap PROVE Log!Newest(r)[k] = TailOf(v)[k]
    <3>1. CASE k = Cap
      <4>1. r[k + 1] = e
        BY <1>3, <2>1, <3>1
      <4>2. Len(v) - Cap + k = Len(s) + 1
        BY <1>1, <1>2, <3>1
      <4>3. QED
        BY <1>2, <2>4, <2>5, <4>1, <4>2
    <3>2. CASE k # Cap
      <4>1. k + 1 \in 1..Cap /\ r[k + 1] = TailOf(s)[k + 1]
        BY <1>1, <1>3, <2>1, <3>2
      <4>2. TailOf(s)[k + 1] = s[Len(s) - Cap + (k + 1)]
        BY <2>1, <4>1
      <4>3. Len(s) - Cap + (k + 1) \in 1..Len(s) /\ Len(v) - Cap + k = Len(s) - Cap + (k + 1)
        BY <1>1, <1>2, <1>5, <3>2
      <4>4. QED
        BY <1>2, <2>4, <2>5, <4>1, <4>2, <4>3
    <3>3. QED
      BY <3>1, <3>2
  <2>7. QED
    BY <2>4, <2>5, <2>6, SameSeq DEF r, v
<1>6. QED
  BY <1>1, <1>4, <1>5


\* A process past its search knows that the files are there, and a file that
\* is not there holds nothing.
AtFiles == {"idle"} \union InFile
FilesInv ==
  /\ \A w \in Procs : /\ at[w] \in {"json?", "json!", "ops?", "ops!"} \union AtFiles => "csv" \in there
                      /\ at[w] \in {"ops?", "ops!"} \union AtFiles => "json" \in there
                      /\ at[w] \in AtFiles => "ops" \in there
  /\ "csv" \notin there => csv = <<>>
  /\ "json" \notin there => json = <<>>
  /\ "ops" \notin there => ops = <<>> /\ said = 0
  /\ mishaps["race"] = 0 => Len(ops) = said

LEMMA FilesInit == Log!Init => FilesInv
  BY DEF Log!Init, FilesInv, AtFiles, InFile

LEMMA MakesFresh ==
  ASSUME LogTypes, FilesInv, NEW w \in Procs, NEW file \in {"csv", "json", "ops"},
         Log!Makes(w, file), mishaps'["race"] = 0
  PROVE  UNCHANGED <<csv, json, ops, mishaps>>
<1>1. file \notin there /\ UNCHANGED mishaps
  BY MakesAre
<1>2. /\ csv' = IF file = "csv" THEN <<>> ELSE csv
      /\ json' = IF file = "json" THEN <<>> ELSE json
      /\ ops' = IF file = "ops" THEN <<>> ELSE ops
  BY DEF Log!Makes
<1>3. QED
  BY <1>1, <1>2 DEF FilesInv

LEMMA FilesStep == LogTypes /\ FilesInv /\ [Log!Next]_log => FilesInv'
<1> SUFFICES ASSUME LogTypes, FilesInv, [Log!Next]_log PROVE FilesInv'
  OBVIOUS
<1>1. at \in [Procs -> Early \union {"idle"} \union InFile] /\ ops \in Seq(Marks) /\ said \in Nat
      /\ Log!Mishap = {"death", "race", "clash"}
  BY DEF LogTypes, Log!Mishap
<1>2. CASE UNCHANGED log
  BY <1>2 DEF log, FilesInv
<1>3. ASSUME NEW w \in Procs, Log!Up(w) PROVE FilesInv'
  BY <1>1, <1>3 DEF Log!Up, Log!Goes, Log!Rest, Log!files, FilesInv, AtFiles, InFile
<1>4. ASSUME NEW w \in Procs, NEW file \in {"csv", "json", "ops"}, Log!Asks(w, file)
      PROVE  FilesInv'
  <2>1. /\ at[w] = Log!Looks[file]
        /\ at' = [at EXCEPT ![w] = IF file \in there THEN Log!After(file) ELSE Log!Lacks[file]]
        /\ UNCHANGED <<csv, json, ops, there, said, mishaps>>
    BY <1>4 DEF Log!Asks, Log!Goes, Log!Rest, Log!files
  <2>2. CASE file = "csv"
    BY <1>1, <2>1, <2>2 DEF Log!Looks, Log!Lacks, Log!After, FilesInv, AtFiles, InFile
  <2>3. CASE file = "json"
    BY <1>1, <2>1, <2>3 DEF Log!Looks, Log!Lacks, Log!After, FilesInv, AtFiles, InFile
  <2>4. CASE file = "ops"
    BY <1>1, <2>1, <2>4 DEF Log!Looks, Log!Lacks, Log!After, FilesInv, AtFiles, InFile
  <2>5. QED
    BY <2>2, <2>3, <2>4
<1>5. ASSUME NEW w \in Procs, NEW file \in {"csv", "json", "ops"}, Log!Makes(w, file)
      PROVE  FilesInv'
  <2>1. /\ at[w] = Log!Lacks[file] /\ at' = [at EXCEPT ![w] = Log!After(file)]
        /\ there' = there \union {file} /\ UNCHANGED said
        /\ csv' = IF file = "csv" THEN <<>> ELSE csv
        /\ json' = IF file = "json" THEN <<>> ELSE json
        /\ ops' = IF file = "ops" THEN <<>> ELSE ops
    BY <1>5 DEF Log!Makes, Log!Goes, Log!Rest
  <2>2. mishaps'["race"] = 0 => UNCHANGED <<ops, mishaps>>
    BY <1>5, MakesFresh
  <2>3. mishaps'["race"] = 0 => Len(ops') = said'
    BY <2>1, <2>2 DEF FilesInv
  <2>4. CASE file = "csv"
    BY <1>1, <2>1, <2>3, <2>4 DEF Log!Lacks, Log!After, FilesInv, AtFiles, InFile
  <2>5. CASE file = "json"
    BY <1>1, <2>1, <2>3, <2>5 DEF Log!Lacks, Log!After, FilesInv, AtFiles, InFile
  <2>6. CASE file = "ops"
    BY <1>1, <2>1, <2>3, <2>6 DEF Log!Lacks, Log!After, FilesInv, AtFiles, InFile
  <2>7. QED
    BY <2>4, <2>5, <2>6
<1>6. ASSUME NEW w \in Procs,
             Log!AppendCsv(w) \/ Log!ReadJson(w) \/ Log!CutJson(w) \/ Log!FillJson(w)
      PROVE  FilesInv'
  <2>1. /\ at[w] \in AtFiles /\ \E step \in AtFiles : at' = [at EXCEPT ![w] = step]
        /\ UNCHANGED <<ops, said>>
        /\ there' = there \/ there' = there \union {"json"}
        /\ mishaps' = mishaps \/ Log!Counts("clash")
    BY <1>6 DEF Log!AppendCsv, Log!ReadJson, Log!CutJson, Log!FillJson, Log!Goes, Log!Rest,
                Log!files, AtFiles, InFile
  <2>2. mishaps'["race"] = mishaps["race"]
    BY <1>1, <2>1, CountsUp
  <2>3. {"csv", "json", "ops"} \subseteq there
    BY <2>1 DEF FilesInv, AtFiles
  <2>4. there' = there
    BY <2>1, <2>3
  <2>5. QED
    BY <1>1, <2>1, <2>2, <2>3, <2>4 DEF FilesInv
<1>7. ASSUME NEW w \in Procs, Log!LogOps(w) PROVE FilesInv'
  <2>1. at[w] = "idle" /\ said' = said + 1
        /\ (\E status \in Log!Statuses : ops' = Append(ops, status))
        /\ UNCHANGED <<csv, json, there, at, mishaps>>
    BY <1>7 DEF Log!LogOps, Log!Free
  <2>2. Len(ops') = Len(ops) + 1
    BY <1>1, <2>1
  <2>3. "ops" \in there
    BY <2>1 DEF FilesInv, AtFiles
  <2>4. QED
    BY <2>1, <2>2, <2>3 DEF FilesInv
<1>8. ASSUME NEW w \in Procs, Speaks(w) PROVE FilesInv'
  <2>1. UNCHANGED <<csv, json, ops, there, at, said, mishaps>>
    BY <1>8, SpeaksOutcome DEF PutsDown
  <2>2. QED
    BY <2>1 DEF FilesInv
<1>9. ASSUME NEW w \in Procs, Log!Ends(w) PROVE FilesInv'
  <2>1. at' = [at EXCEPT ![w] = "down"] /\ UNCHANGED <<csv, json, ops, there, said>>
        /\ (mishaps' = mishaps \/ Log!Counts("death"))
    BY <1>9 DEF Log!Ends, Log!Goes, Log!files
  <2>2. mishaps'["race"] = mishaps["race"]
    BY <1>1, <2>1, CountsUp
  <2>3. QED
    BY <1>1, <2>1, <2>2 DEF FilesInv, AtFiles, InFile
<1>10. QED
  BY <1>2, <1>3, <1>4, <1>5, <1>6, <1>7, <1>8, <1>9, LogNextSplits DEF LogLooks


\* Where the two files stand while nothing has gone wrong, by who is at the
\* JSON file: nobody; one, that has read it or not; or one that has read it
\* and one more whose row is in the CSV file since.  (Of two that have not
\* read it the first to read is a clash.)
Calm == \A k \in Log!Mishap : mishaps[k] = 0
Cutting(w) == at[w] \in {"cut", "fill"}
Only(W) == \A w \in Procs \ W : at[w] \notin InFile
Added(w) == Head(todo[w])
ToRead(w) == \E base \in Seq(Ent) : csv = Append(base, Added(w)) /\ json = TailOf(base)
ToFill(w) == \E base \in Seq(Ent) : csv = Append(base, Added(w)) /\ snap[w] = TailOf(base)
ToFillAndRead(w, v) == \E base \in Seq(Ent) :
  csv = Append(Append(base, Added(w)), Added(v)) /\ snap[w] = TailOf(base)
TailInv == Calm =>
  /\ \A w, v \in Procs : Cutting(w) /\ Cutting(v) => w = v
  /\ Only({}) => json = TailOf(csv)
  /\ \A w \in Procs : at[w] = "read" /\ Only({w}) => ToRead(w)
  /\ \A w \in Procs : Cutting(w) /\ Only({w}) => ToFill(w)
  /\ \A w, v \in Procs : Cutting(w) /\ at[v] = "read" /\ Only({w, v}) => ToFillAndRead(w, v)

LEMMA TailInit == Log!Init => TailInv
<1> SUFFICES ASSUME Log!Init PROVE TailInv
  OBVIOUS
<1>1. json = <<>> /\ csv = <<>> /\ \A w \in Procs : at[w] \notin InFile
  BY DEF Log!Init, InFile
<1>2. ASSUME NEW s \in Seq(Ent), Len(s) = 0 PROVE TailOf(s) = s
  <2>1. Len(s) <= Cap
    BY <1>2, LogAmounts
  <2>2. QED
    BY <2>1, TailOfIs, Zenon
<1>3. csv \in Seq(Ent) /\ Len(csv) = 0
  BY <1>1
<1>4. QED
  BY <1>1, <1>2, <1>3 DEF TailInv, Only, Cutting, InFile

\* A step away from the JSON file.
LEMMA TailSame ==
  ASSUME TailInv, Calm' => Calm /\ UNCHANGED <<csv, json>>,
         \A w \in Procs : at'[w] = at[w] \/ (at[w] \notin InFile /\ at'[w] \notin InFile),
         \A w \in Procs : at[w] \in InFile => todo'[w] = todo[w] /\ snap'[w] = snap[w]
  PROVE  TailInv'
<1> SUFFICES ASSUME Calm' PROVE TailInv'
  BY DEF TailInv
<1>1. Calm /\ UNCHANGED <<csv, json>>
  OBVIOUS
<1>2. \A w \in Procs :
        /\ at'[w] = "read" => at[w] = "read" /\ Added(w)' = Added(w)
        /\ Cutting(w)' => Cutting(w) /\ Added(w)' = Added(w) /\ snap'[w] = snap[w]
        /\ at'[w] \notin InFile => at[w] \notin InFile
  BY DEF Cutting, InFile, Added
<1>3. \A W : Only(W)' => Only(W)
  BY <1>2 DEF Only
<1>4. ASSUME NEW w \in Procs
      PROVE  /\ at'[w] = "read" /\ ToRead(w) => ToRead(w)'
             /\ Cutting(w)' /\ ToFill(w) => ToFill(w)'
             /\ \A v \in Procs :
                  Cutting(w)' /\ at'[v] = "read" /\ ToFillAndRead(w, v) => ToFillAndRead(w, v)'
  BY <1>1, <1>2 DEF ToRead, ToFill, ToFillAndRead
<1>5. QED
  BY <1>1, <1>2, <1>3, <1>4 DEF TailInv

LEMMA TailStep == LogTypes /\ FilesInv /\ TailInv /\ [Log!Next]_log => TailInv'
<1> SUFFICES ASSUME LogTypes, FilesInv, TailInv, [Log!Next]_log PROVE TailInv'
  OBVIOUS
<1>1. /\ at \in [Procs -> Early \union {"idle"} \union InFile]
      /\ csv \in Seq(Ent) /\ json \in Seq(Ent)
      /\ todo \in [Procs -> Seq(Ent)] /\ snap \in [Procs -> Seq(Ent)]
      /\ \A w \in Procs : at[w] \in InFile => todo[w] # <<>>
      /\ {"death", "race", "clash"} \subseteq Log!Mishap
  BY DEF LogTypes, Log!Mishap
<1>2. \A w \in Procs : at[w] \in InFile => Added(w) \in Ent
  BY <1>1, TailIs DEF Added
<1>3. ASSUME Calm
      PROVE  /\ \A w, v \in Procs : Cutting(w) /\ Cutting(v) => w = v
             /\ Only({}) => json = TailOf(csv)
             /\ \A w \in Procs : at[w] = "read" /\ Only({w}) => ToRead(w)
             /\ \A w \in Procs : Cutting(w) /\ Only({w}) => ToFill(w)
             /\ \A w, v \in Procs :
                  Cutting(w) /\ at[v] = "read" /\ Only({w, v}) => ToFillAndRead(w, v)
  BY <1>3 DEF TailInv
<1>4. CASE UNCHANGED log
  BY <1>4, TailSame DEF log, Calm
<1>5. ASSUME NEW w \in Procs, LogLooks(w) PROVE TailInv'
  <2>1. /\ \A v \in Procs : at'[v] = at[v] \/ (at[v] \notin InFile /\ at'[v] \notin InFile)
        /\ UNCHANGED <<csv, json, todo, snap, mishaps>>
    BY <1>1, <1>5, LooksAre DEF Early, InFile
  <2>2. QED
    BY <2>1, TailSame DEF Calm
<1>6. ASSUME NEW w \in Procs, NEW file \in {"csv", "json", "ops"}, Log!Makes(w, file)
      PROVE  TailInv'
  <2>1. /\ \A v \in Procs : at'[v] = at[v] \/ (at[v] \notin InFile /\ at'[v] \notin InFile)
        /\ UNCHANGED <<todo, snap>>
    BY <1>1, <1>6, MakesAre DEF Early, InFile
  <2>2. Calm' => UNCHANGED <<csv, json, mishaps>>
    BY <1>1, <1>6, MakesFresh DEF Calm
  <2>3. Calm' => Calm
    BY <2>2 DEF Calm
  <2>4. QED
    BY <2>1, <2>2, <2>3, TailSame
<1>7. ASSUME NEW w \in Procs, Log!LogOps(w) PROVE TailInv'
  BY <1>7, TailSame DEF Log!LogOps, Calm
<1>8. ASSUME NEW w \in Procs, Speaks(w) PROVE TailInv'
  <2>1. PICK s : PutsDown(w, s)
    BY <1>8, SpeaksOutcome
  <2>2. \A v \in Procs : at[v] \in InFile => todo'[v] = todo[v]
    BY <1>1, <2>1 DEF PutsDown, InFile
  <2>3. QED
    BY <2>1, <2>2, TailSame DEF PutsDown, Calm
<1>9. ASSUME NEW w \in Procs, Log!Ends(w) PROVE TailInv'
  <2>1. /\ at' = [at EXCEPT ![w] = "down"] /\ todo' = [todo EXCEPT ![w] = <<>>]
        /\ snap' = [snap EXCEPT ![w] = <<>>] /\ UNCHANGED <<csv, json>>
        /\ (mishaps' = mishaps \/ Log!Counts("death"))
        /\ (mishaps' = mishaps => at[w] = "idle" \/ Log!Counts("death"))
    BY <1>9 DEF Log!Ends, Log!Goes, Log!files, Log!Free
  <2>2. Calm' => Calm /\ at[w] = "idle"
    <3>1. Calm' => ~Log!Counts("death")
      BY <1>1, CountsUp DEF Calm
    <3>2. QED
      BY <2>1, <3>1 DEF Calm
  <2>3. CASE Calm'
    <3>1. /\ \A v \in Procs : at'[v] = at[v] \/ (at[v] \notin InFile /\ at'[v] \notin InFile)
          /\ \A v \in Procs : at[v] \in InFile => todo'[v] = todo[v] /\ snap'[v] = snap[v]
      BY <1>1, <2>1, <2>2, <2>3 DEF InFile
    <3>2. QED
      BY <2>1, <2>2, <3>1, TailSame
  <2>4. QED
    BY <2>3 DEF TailInv
<1>10. ASSUME NEW w \in Procs, Log!AppendCsv(w) PROVE TailInv'
  <2> SUFFICES ASSUME Calm' PROVE TailInv'
    BY DEF TailInv
  <2>1. /\ at[w] = "idle" /\ at' = [at EXCEPT ![w] = "read"] /\ csv' = Append(csv, Added(w))
        /\ UNCHANGED <<json, todo, snap, mishaps>>
    BY <1>10 DEF Log!AppendCsv, Log!Goes, Log!Rest, Added
  <2>2. Calm /\ at'[w] = "read" /\ \A v \in Procs : v # w => at'[v] = at[v]
    BY <1>1, <2>1 DEF Calm
  <2>3. \A v \in Procs : Cutting(v)' <=> Cutting(v)
    BY <2>1, <2>2 DEF Cutting
  <2>4. ~Only({})' /\ \A v \in Procs : Only({v})' => v = w /\ Only({})
    BY <2>1, <2>2 DEF Only, InFile
  <2>5. ASSUME Only({w})' PROVE ToRead(w)'
    <3>1. json = TailOf(csv)
      BY <1>3, <2>2, <2>4, <2>5
    <3>2. QED
      BY <1>1, <2>1, <3>1 DEF ToRead, Added
  <2>6. ASSUME NEW v \in Procs, NEW x \in Procs, Cutting(v)', at'[x] = "read", Only({v, x})'
        PROVE  ToFillAndRead(v, x)'
    <3>1. Cutting(v) /\ v # w /\ x = w
      BY <2>1, <2>2, <2>3, <2>6 DEF Only, Cutting, InFile
    <3>2. Only({v})
      BY <2>1, <2>2, <2>6, <3>1 DEF Only, InFile
    <3>3. PICK base \in Seq(Ent) : csv = Append(base, Added(v)) /\ snap[v] = TailOf(base)
      BY <1>3, <2>2, <3>1, <3>2 DEF ToFill
    <3>4. csv' = Append(Append(base, Added(v)'), Added(w)') /\ snap'[v] = TailOf(base)
      BY <2>1, <3>3 DEF Added
    <3>5. QED
      BY <3>1, <3>4 DEF ToFillAndRead
  <2>7. \A v \in Procs : Cutting(v)' => ~Only({v})'
    BY <2>2, <2>3, <2>4 DEF Cutting
  <2>8. QED
    BY <1>3, <2>2, <2>3, <2>4, <2>5, <2>6, <2>7 DEF TailInv
<1>11. ASSUME NEW w \in Procs, Log!ReadJson(w) PROVE TailInv'
  <2> SUFFICES ASSUME Calm' PROVE TailInv'
    BY DEF TailInv
  <2>1. /\ at[w] = "read" /\ at' = [at EXCEPT ![w] = "cut"] /\ snap' = [snap EXCEPT ![w] = json]
        /\ UNCHANGED <<csv, json, todo>>
    BY <1>11 DEF Log!ReadJson, Log!Goes, Log!files
  <2>2. Calm /\ Only({w})
    <3>1. ~Log!Counts("clash")
      BY <1>1, CountsUp DEF Calm
    <3>2. UNCHANGED mishaps /\ ~(\E v \in Procs \ {w} : Log!InJson(v))
      BY <1>11, <3>1 DEF Log!ReadJson
    <3>3. QED
      BY <3>2 DEF Calm, Only, Log!InJson, InFile
  <2>3. at'[w] = "cut" /\ \A v \in Procs : v # w => at'[v] \notin InFile
    BY <1>1, <2>1, <2>2 DEF Only
  <2>4. PICK base \in Seq(Ent) : csv = Append(base, Added(w)) /\ json = TailOf(base)
    BY <1>3, <2>1, <2>2 DEF ToRead
  <2>5. ToFill(w)'
    BY <1>1, <2>1, <2>4 DEF ToFill, Added
  <2>6. ~Only({})' /\ \A v \in Procs : (Cutting(v)' => v = w) /\ at'[v] # "read"
    BY <2>3 DEF Only, Cutting, InFile
  <2>7. QED
    BY <2>5, <2>6 DEF TailInv
<1>12. ASSUME NEW w \in Procs, Log!CutJson(w) PROVE TailInv'
  <2> SUFFICES ASSUME Calm' PROVE TailInv'
    BY DEF TailInv
  <2>1. /\ at[w] = "cut" /\ at' = [at EXCEPT ![w] = "fill"]
        /\ UNCHANGED <<csv, todo, snap, mishaps>>
    BY <1>12 DEF Log!CutJson, Log!Goes, Log!Rest
  <2>2. Calm /\ \A v \in Procs : /\ Cutting(v)' <=> Cutting(v)
                                 /\ at'[v] = "read" <=> at[v] = "read"
                                 /\ at'[v] \in InFile <=> at[v] \in InFile
    BY <1>1, <2>1 DEF Calm, Cutting, InFile
  <2>3. \A W : Only(W)' <=> Only(W)
    BY <2>2 DEF Only
  <2>4. ~Only({}) /\ \A v \in Procs : at[v] = "read" => ~Only({v})
    BY <2>1 DEF Only, InFile
  <2>5. \A v, x \in Procs : /\ ToFill(v) => ToFill(v)'
                            /\ ToFillAndRead(v, x) => ToFillAndRead(v, x)'
    BY <2>1 DEF ToFill, ToFillAndRead, Added
  <2>6. QED
    BY <1>3, <2>2, <2>3, <2>4, <2>5 DEF TailInv
<1>13. ASSUME NEW w \in Procs, Log!FillJson(w) PROVE TailInv'
  <2> SUFFICES ASSUME Calm' PROVE TailInv'
    BY DEF TailInv
  <2>1. /\ at[w] = "fill" /\ at' = [at EXCEPT ![w] = "idle"]
        /\ json' = Log!Newest(Append(snap[w], Added(w)))
        /\ todo' = [todo EXCEPT ![w] = Tail(@)] /\ snap' = [snap EXCEPT ![w] = <<>>]
        /\ UNCHANGED <<csv, mishaps>>
    BY <1>13 DEF Log!FillJson, Log!Goes, Added
  <2>2. /\ Calm /\ at'[w] = "idle" /\ Cutting(w) /\ Added(w) \in Ent
        /\ \A v \in Procs : v # w => /\ at'[v] = at[v] /\ todo'[v] = todo[v]
    BY <1>1, <1>2, <2>1 DEF Calm, Cutting, InFile
  <2>3. \A v \in Procs : ~Cutting(v)'
    BY <1>3, <2>2 DEF Cutting
  <2>4. ASSUME Only({})' PROVE json' = TailOf(csv')
    <3>1. Only({w})
      BY <2>2, <2>4 DEF Only
    <3>2. PICK base \in Seq(Ent) : csv = Append(base, Added(w)) /\ snap[w] = TailOf(base)
      BY <1>3, <2>2, <3>1 DEF ToFill
    <3>3. QED
      BY <2>1, <2>2, <3>2, TailGrows
  <2>5. ASSUME NEW v \in Procs, at'[v] = "read", Only({v})' PROVE ToRead(v)'
    <3>1. v # w /\ at[v] = "read" /\ Only({w, v})
      BY <2>2, <2>5 DEF Only, InFile
    <3>2. PICK base \in Seq(Ent) : csv = Append(Append(base, Added(w)), Added(v))
                                   /\ snap[w] = TailOf(base)
      BY <1>3, <2>2, <3>1 DEF ToFillAndRead
    <3>3. json' = TailOf(Append(base, Added(w))) /\ Append(base, Added(w)) \in Seq(Ent)
      BY <2>1, <2>2, <3>2, TailGrows, AppendIs
    <3>4. Added(v)' = Added(v) /\ csv' = csv
      BY <2>1, <2>2, <3>1 DEF Added
    <3>5. QED
      BY <3>2, <3>3, <3>4 DEF ToRead
  <2>6. QED
    BY <2>3, <2>4, <2>5 DEF TailInv
<1>14. QED
  BY <1>4, <1>5, <1>6, <1>7, <1>8, <1>9, <1>10, <1>11, <1>12, <1>13, LogNextSplits


\* The instance's own copies of the library's operators are the library's.
LEMMA LogLibrary == /\ \A S : Log!Cardinality(S) = Cardinality(S)
                    /\ \A S : Log!Max(S) = Max(S)
<1>1. \A S : Log!Cardinality(S) = Cardinality(S)
  BY DEF Log!Cardinality, Cardinality
<1>2. \A S : Log!Max(S) = Max(S)
  BY DEF Log!Max, Max
<1>3. QED
  BY <1>1, <1>2

\* How the count of a summary grows with the log.
CountRows(m, s, type) == {k \in DOMAIN s : s[k].mission = m /\ s[k].type = type}

LEMMA CountIs ==
  ASSUME NEW m, NEW s \in Seq(Ent), NEW type
  PROVE  /\ IsFiniteSet(CountRows(m, s, type))
         /\ Log!Count(m, s, type) = Cardinality(CountRows(m, s, type))
         /\ Log!Count(m, s, type) \in Nat
<1>1. Len(s) \in Nat /\ DOMAIN s = 1..Len(s)
  <2> HIDE DEF Ent
  <2>1. QED
    OBVIOUS
<1>2. IsFiniteSet(1..Len(s))
  BY <1>1, FS_Interval
<1>3. IsFiniteSet(CountRows(m, s, type))
  BY <1>1, <1>2, FS_Subset DEF CountRows
<1>4. Log!Count(m, s, type) = Cardinality(CountRows(m, s, type))
  BY LogLibrary DEF Log!Count, CountRows
<1>5. QED
  BY <1>3, <1>4, FS_CardinalityType

LEMMA CountNone ==
  ASSUME NEW m, NEW s \in Seq(Ent), NEW type, \A k \in 1..Len(s) : s[k].mission # m
  PROVE  Log!Count(m, s, type) = 0
<1>1. DOMAIN s = 1..Len(s)
  <2> HIDE DEF Ent
  <2>1. QED
    OBVIOUS
<1>2. CountRows(m, s, type) = {}
  BY <1>1 DEF CountRows
<1>3. QED
  BY <1>2, CountIs, FS_EmptySet

LEMMA CountGrows ==
  ASSUME NEW m, NEW s \in Seq(Ent), NEW type, NEW e \in Ent
  PROVE  Log!Count(m, Append(s, e), type) =
           Log!Count(m, s, type) + (IF e.mission = m /\ e.type = type THEN 1 ELSE 0)
<1> DEFINE v == Append(s, e)
           n == Len(s) + 1
<1>1. /\ v \in Seq(Ent) /\ Len(v) = n /\ v[n] = e /\ \A k \in 1..Len(s) : v[k] = s[k]
      /\ DOMAIN s = 1..Len(s) /\ DOMAIN v = 1..n /\ Len(s) \in Nat
  <2> HIDE DEF Ent
  <2>1. QED
    BY AppendIs
<1>2. n \notin 1..Len(s) /\ 1..n = (1..Len(s)) \union {n}
  BY <1>1
<1> HIDE DEF v, n
<1>3. CASE e.mission = m /\ e.type = type
  <2>1. CountRows(m, v, type) = CountRows(m, s, type) \union {n} /\ n \notin CountRows(m, s, type)
    BY <1>1, <1>2, <1>3 DEF CountRows
  <2>2. Cardinality(CountRows(m, v, type)) = Cardinality(CountRows(m, s, type)) + 1
    BY <2>1, CountIs, OneMoreCounted
  <2>3. QED
    BY <1>1, <1>3, <2>2, CountIs DEF v
<1>4. CASE ~(e.mission = m /\ e.type = type)
  <2>1. CountRows(m, v, type) = CountRows(m, s, type)
    BY <1>1, <1>2, <1>4 DEF CountRows
  <2>2. /\ Log!Count(m, v, type) = Cardinality(CountRows(m, v, type))
        /\ Log!Count(m, s, type) = Cardinality(CountRows(m, s, type))
        /\ Log!Count(m, s, type) \in Nat
    BY <1>1, CountIs
  <2>3. Log!Count(m, v, type) = Log!Count(m, s, type) + 0
    BY <2>1, <2>2
  <2>4. QED
    BY <1>4, <2>3 DEF v
<1>5. QED
  BY <1>3, <1>4

\* Whose a mission is, and which entries are of it.
Ends2 == {"complete", "failed"}
LastType(s) == s[Len(s)].type
MissionsInv ==
  /\ \A w, v \in Procs : mission[w] # 0 /\ mission[w] = mission[v] => w = v
  /\ \A w \in Procs : mission[w] # 0 => ~outcome[mission[w]].ended
  /\ \A w \in Procs : \A i \in 1..Len(todo[w]) :
       /\ todo[w][i].mission \in 1..Len(outcome)
       /\ todo[w][i].type \in Verdicts =>
            mission[w] # 0 /\ i = Len(todo[w]) /\ todo[w][i].mission = mission[w]
  /\ \A i \in 1..Len(csv) : csv[i].mission \in 1..Len(outcome)
  /\ \A w \in Procs : mission[w] # 0 => \A t \in Tasks :
       state[w][t] \in {"pending", "running"} => \A x \in Ends2 : t \notin outcome[mission[w]][x]
  /\ \A m \in 1..Len(outcome) : \A x \in Ends2 : IsFiniteSet(outcome[m][x])

\* What the CSV log says of a mission, with the report that is on its way,
\* is what its process counted; a mission whose process died is past telling.
Owes(w, type) ==
  todo[w] # <<>> /\ LastType(todo[w]) = type /\ (at[w] \notin InFile \/ Len(todo[w]) > 1)
Owed(w, type) == IF Owes(w, type) THEN 1 ELSE 0
Tells(m, x) ==
  /\ outcome[m].ended => Log!Count(m, csv, TypeOf(x)) = Cardinality(outcome[m][x])
  /\ \A w \in Procs : mission[w] = m =>
       Log!Count(m, csv, TypeOf(x)) + Owed(w, TypeOf(x)) = Cardinality(outcome[m][x])
TellInv == mishaps["race"] = 0 => \A m \in 1..Len(outcome) : \A x \in Ends2 : Tells(m, x)

LEMMA TypeOfIs == TypeOf("complete") = "task_complete" /\ TypeOf("failed") = "task_fail"
                  /\ \A x \in Ends2 : TypeOf(x) \in Verdicts
                  /\ \A u, z \in Ends2 : TypeOf(u) = TypeOf(z) => u = z
  BY DEF TypeOf, Ends2, Verdicts

LEMMA MissionsInit == Log!Init => MissionsInv /\ TellInv
<1> SUFFICES ASSUME Log!Init PROVE MissionsInv /\ TellInv
  OBVIOUS
<1>1. outcome = <<>> /\ csv = <<>> /\ \A w \in Procs : todo[w] = <<>> /\ mission[w] = 0
  BY DEF Log!Init
<1>2. Len(outcome) = 0 /\ Len(csv) = 0 /\ \A w \in Procs : Len(todo[w]) = 0
  BY <1>1
<1>3. QED
  BY <1>1, <1>2 DEF MissionsInv, TellInv

\* Steps that leave the missions, their entries and the CSV file alone.
LEMMA MissionsSame ==
  ASSUME MissionsInv, UNCHANGED <<outcome, mission, state, todo>>,
         csv' = csv \/ csv' = <<>>
  PROVE  MissionsInv'
<1>1. \A i \in 1..Len(csv') : i \in 1..Len(csv) /\ csv'[i] = csv[i]
  <2>1. CASE csv' = <<>>
    <3>1. Len(csv') = 0
      BY <2>1
    <3>2. QED
      BY <3>1
  <2>2. CASE csv' = csv
    BY <2>2
  <2>3. QED
    BY <2>1, <2>2
<1>2. QED
  BY <1>1 DEF MissionsInv

LEMMA TellSame ==
  ASSUME TellInv, UNCHANGED <<outcome, mission, todo>>,
         mishaps'["race"] = 0 => mishaps["race"] = 0 /\ UNCHANGED csv,
         \A w \in Procs : at'[w] \in InFile <=> at[w] \in InFile
  PROVE  TellInv'
<1> SUFFICES ASSUME mishaps'["race"] = 0 PROVE TellInv'
  BY DEF TellInv
<1>1. \A w \in Procs : \A type : Owed(w, type)' = Owed(w, type)
  BY DEF Owed, Owes, LastType
<1>2. \A m : \A x \in Ends2 : Tells(m, x) => Tells(m, x)'
  BY <1>1 DEF Tells
<1>3. QED
  BY <1>2 DEF TellInv

\* A process that opens a mission, reports, dispatches or closes.
LEMMA MissionsOpening ==
  ASSUME LogTypes, MissionsInv, NEW w \in Procs, NEW runs \in BOOLEAN, Opening(w, runs)
  PROVE  MissionsInv'
<1> DEFINE o == [complete |-> {}, failed |-> {}, ended |-> ~runs]
           m == Len(outcome) + 1
<1>1. /\ o \in Outcome /\ (o.ended <=> ~runs) /\ \A x \in Ends2 : o[x] = {}
  <2>1. o \in Outcome /\ (o.ended <=> ~runs)
    BY DEF Outcome
  <2>2. o["complete"] = {} /\ o["failed"] = {}
    OBVIOUS
  <2> HIDE DEF o
  <2>3. QED
    BY <2>1, <2>2 DEF Ends2
<1>2. PICK s : PutsDown(w, s) /\ Remarks(s, m)
  BY DEF Opening
<1>3. /\ outcome' = Append(outcome, o) /\ mission[w] = 0
      /\ (runs => mission' = [mission EXCEPT ![w] = m])
      /\ (~runs => mission' = mission)
      /\ \A v \in Procs : v # w => state'[v] = state[v]
  BY DEF Opening, LogTypes
<1> HIDE DEF o
<1>4. /\ Len(outcome') = m /\ m \in Nat /\ Len(outcome) \in Nat /\ outcome'[m] = o
      /\ \A k \in 1..Len(outcome) : outcome'[k] = outcome[k] /\ k \in 1..m /\ k # m
      /\ \A k \in 1..m : k = m \/ k \in 1..Len(outcome)
  BY <1>1, <1>3, AppendIs DEF LogTypes
<1>5. mission \in [Procs -> Nat] /\ \A v \in Procs : mission[v] # 0 => mission[v] \in 1..Len(outcome)
  BY <1>4 DEF LogTypes
<1>6. /\ todo'[w] = s /\ csv' = csv /\ s \in Seq(Ent)
      /\ \A v \in Procs : v # w => todo'[v] = todo[v]
  BY <1>2 DEF PutsDown, LogTypes, Remarks
<1> HIDE DEF m
<1>7. /\ mission'[w] = IF runs THEN m ELSE 0
      /\ \A v \in Procs : v # w => mission'[v] = mission[v]
  BY <1>3, <1>5
<1>8. \A u, v \in Procs : mission'[u] # 0 /\ mission'[u] = mission'[v] => u = v
  BY <1>4, <1>5, <1>7 DEF MissionsInv
<1>9. \A v \in Procs : mission'[v] # 0 => ~outcome'[mission'[v]].ended
  BY <1>1, <1>4, <1>5, <1>7 DEF MissionsInv
<1>10. ASSUME NEW v \in Procs, NEW i \in 1..Len(todo'[v])
       PROVE  /\ todo'[v][i].mission \in 1..Len(outcome')
              /\ todo'[v][i].type \in Verdicts =>
                   mission'[v] # 0 /\ i = Len(todo'[v]) /\ todo'[v][i].mission = mission'[v]
  <2>1. CASE v = w
    <3>1. m \in 1..m
      BY <1>4 DEF m
    <3>2. QED
      BY <1>2, <1>4, <1>6, <2>1, <3>1 DEF Remarks
  <2>2. CASE v # w
    BY <1>4, <1>6, <1>7, <2>2 DEF MissionsInv
  <2>3. QED
    BY <2>1, <2>2
<1>11. \A i \in 1..Len(csv') : csv'[i].mission \in 1..Len(outcome')
  BY <1>4, <1>6 DEF MissionsInv
<1>12. ASSUME NEW v \in Procs, mission'[v] # 0, NEW t \in Tasks, state'[v][t] \in {"pending", "running"},
              NEW x \in Ends2
       PROVE  t \notin outcome'[mission'[v]][x]
  <2>1. CASE v = w
    BY <1>1, <1>4, <1>7, <1>12, <2>1
  <2>2. CASE v # w
    BY <1>3, <1>4, <1>5, <1>7, <1>12, <2>2 DEF MissionsInv
  <2>3. QED
    BY <2>1, <2>2
<1>13. \A k \in 1..Len(outcome') : \A x \in Ends2 : IsFiniteSet(outcome'[k][x])
  BY <1>1, <1>4, FS_EmptySet DEF MissionsInv
<1>14. QED
  BY <1>8, <1>9, <1>10, <1>11, <1>12, <1>13 DEF MissionsInv

\* A change of one outcome, by the process whose mission it is.
LEMMA OutcomeUpdate ==
  ASSUME LogTypes, MissionsInv, NEW w \in Procs, mission[w] # 0, NEW o \in Outcome,
         outcome' = [outcome EXCEPT ![mission[w]] = o]
  PROVE  /\ mission[w] \in 1..Len(outcome) /\ Len(outcome') = Len(outcome)
         /\ outcome'[mission[w]] = o /\ outcome[mission[w]] \in Outcome
         /\ \A k \in 1..Len(outcome) : k # mission[w] => outcome'[k] = outcome[k]
         /\ \A v \in Procs : v # w => mission[v] # mission[w]
<1>1. mission[w] \in 1..Len(outcome) /\ outcome \in Seq(Outcome)
  BY DEF LogTypes
<1>2. \A v \in Procs : v # w => mission[v] # mission[w]
  BY DEF MissionsInv
<1>3. QED
  BY <1>1, <1>2, SeqUpdate

LEMMA MissionsReporting ==
  ASSUME LogTypes, MissionsInv, NEW w \in Procs, NEW t \in Tasks, NEW status \in Ends2,
         Reporting(w, t, status)
  PROVE  MissionsInv'
<1> DEFINE o == Finds(outcome[mission[w]], status, t)
<1>1. PICK s : PutsDown(w, s) /\ Report(s, mission[w], TypeOf(status))
  BY DEF Reporting
<1>2. mission[w] \in 1..Len(outcome) /\ outcome[mission[w]] \in Outcome
  BY DEF Reporting, LogTypes
<1>3. /\ o \in Outcome /\ o[status] = outcome[mission[w]][status] \union {t}
      /\ \A x \in Ends2 \ {status} : o[x] = outcome[mission[w]][x]
      /\ (o.ended <=> outcome[mission[w]].ended)
  BY <1>2, FindsIs DEF Ends2
<1>4. /\ outcome' = [outcome EXCEPT ![mission[w]] = o] /\ mission[w] # 0 /\ mission' = mission
      /\ Moved(w, t, status)
  BY DEF Reporting
<1> HIDE DEF o
<1>5. /\ Len(outcome') = Len(outcome) /\ outcome'[mission[w]] = o
      /\ \A k \in 1..Len(outcome) : k # mission[w] => outcome'[k] = outcome[k]
      /\ \A v \in Procs : v # w => mission[v] # mission[w]
  BY <1>3, <1>4, OutcomeUpdate
<1>6. \A v \in Procs : mission[v] # 0 => mission[v] \in 1..Len(outcome)
  BY DEF LogTypes
<1>7. /\ todo'[w] = s /\ csv' = csv /\ s \in Seq(Ent)
      /\ \A v \in Procs : v # w => todo'[v] = todo[v]
  BY <1>1 DEF PutsDown, LogTypes, Report
<1>8. /\ state'[w][t] = status /\ \A z \in Tasks : z # t => state'[w][z] = state[w][z]
      /\ \A v \in Procs : v # w => state'[v] = state[v]
  BY <1>4 DEF Moved, LogTypes
<1>9. \A v \in Procs : mission'[v] # 0 => ~outcome'[mission'[v]].ended
  BY <1>3, <1>4, <1>5, <1>6 DEF MissionsInv
<1>10. ASSUME NEW v \in Procs, NEW i \in 1..Len(todo'[v])
       PROVE  /\ todo'[v][i].mission \in 1..Len(outcome')
              /\ todo'[v][i].type \in Verdicts =>
                   mission'[v] # 0 /\ i = Len(todo'[v]) /\ todo'[v][i].mission = mission'[v]
  <2>1. CASE v = w
    BY <1>1, <1>2, <1>4, <1>5, <1>7, <2>1 DEF Report
  <2>2. CASE v # w
    BY <1>4, <1>5, <1>7, <2>2 DEF MissionsInv
  <2>3. QED
    BY <2>1, <2>2
<1>11. ASSUME NEW v \in Procs, mission'[v] # 0, NEW z \in Tasks, state'[v][z] \in {"pending", "running"},
              NEW x \in Ends2
       PROVE  z \notin outcome'[mission'[v]][x]
  <2>1. CASE v = w
    <3>1. z # t
      BY <1>8, <1>11, <2>1 DEF Ends2
    <3>2. z \notin outcome[mission[w]][x]
      BY <1>4, <1>8, <1>11, <2>1, <3>1 DEF MissionsInv
    <3>3. QED
      BY <1>3, <1>4, <1>5, <2>1, <3>1, <3>2
  <2>2. CASE v # w
    BY <1>4, <1>5, <1>6, <1>8, <1>11, <2>2 DEF MissionsInv
  <2>3. QED
    BY <2>1, <2>2
<1>12. \A k \in 1..Len(outcome') : \A x \in Ends2 : IsFiniteSet(outcome'[k][x])
  <2>1. \A x \in Ends2 : IsFiniteSet(o[x])
    <3>1. \A x \in Ends2 : IsFiniteSet(outcome[mission[w]][x])
      BY <1>2 DEF MissionsInv
    <3>2. IsFiniteSet(outcome[mission[w]][status] \union {t})
      BY <3>1, FS_AddElement
    <3>3. QED
      BY <1>3, <3>1, <3>2
  <2>2. QED
    BY <1>5, <2>1 DEF MissionsInv
<1>13. QED
  BY <1>4, <1>5, <1>7, <1>9, <1>10, <1>11, <1>12 DEF MissionsInv

LEMMA MissionsDispatching ==
  ASSUME LogTypes, MissionsInv, NEW w \in Procs, NEW t \in Tasks, Dispatching(w, t)
  PROVE  MissionsInv'
<1>1. PICK s : PutsDown(w, s) /\ Remarks(s, mission[w])
  BY DEF Dispatching
<1>2. mission[w] \in 1..Len(outcome)
  BY DEF Dispatching, LogTypes
<1>3. UNCHANGED <<mission, outcome>> /\ state[w][t] = "pending" /\ Moved(w, t, "running")
      /\ mission[w] # 0
  BY DEF Dispatching
<1>4. /\ todo'[w] = s /\ csv' = csv /\ s \in Seq(Ent)
      /\ \A v \in Procs : v # w => todo'[v] = todo[v]
  BY <1>1 DEF PutsDown, LogTypes, Remarks
<1>5. /\ \A z \in Tasks : z # t => state'[w][z] = state[w][z]
      /\ \A v \in Procs : v # w => state'[v] = state[v]
  BY <1>3 DEF Moved, LogTypes
<1>6. \A v \in Procs : \A i \in 1..Len(todo'[v]) :
        /\ todo'[v][i].mission \in 1..Len(outcome')
        /\ todo'[v][i].type \in Verdicts =>
             mission'[v] # 0 /\ i = Len(todo'[v]) /\ todo'[v][i].mission = mission'[v]
  BY <1>1, <1>2, <1>3, <1>4 DEF Remarks, MissionsInv
<1>7. \A v \in Procs : mission'[v] # 0 => \A z \in Tasks :
        state'[v][z] \in {"pending", "running"} => \A x \in Ends2 : z \notin outcome'[mission'[v]][x]
  BY <1>3, <1>5 DEF MissionsInv
<1>8. QED
  BY <1>3, <1>4, <1>6, <1>7 DEF MissionsInv

LEMMA MissionsClosing ==
  ASSUME LogTypes, MissionsInv, NEW w \in Procs, Closing(w)
  PROVE  MissionsInv'
<1> DEFINE o == [outcome[mission[w]] EXCEPT !.ended = TRUE]
<1>1. PICK s : PutsDown(w, s) /\ Remarks(s, mission[w])
  BY DEF Closing
<1>2. mission[w] \in 1..Len(outcome) /\ outcome[mission[w]] \in Outcome
  BY DEF Closing, LogTypes
<1>3. o \in Outcome /\ \A x \in Ends2 : o[x] = outcome[mission[w]][x]
  BY <1>2, EndsIt DEF Ends2
<1>4. /\ outcome' = [outcome EXCEPT ![mission[w]] = o] /\ mission[w] # 0
      /\ mission'[w] = 0 /\ \A v \in Procs : v # w => mission'[v] = mission[v] /\ state'[v] = state[v]
  BY DEF Closing, LogTypes
<1> HIDE DEF o
<1>5. /\ Len(outcome') = Len(outcome) /\ outcome'[mission[w]] = o
      /\ \A k \in 1..Len(outcome) : k # mission[w] => outcome'[k] = outcome[k]
      /\ \A v \in Procs : v # w => mission[v] # mission[w]
  BY <1>3, <1>4, OutcomeUpdate
<1>6. \A v \in Procs : mission[v] # 0 => mission[v] \in 1..Len(outcome)
  BY DEF LogTypes
<1>7. /\ todo'[w] = s /\ csv' = csv /\ s \in Seq(Ent)
      /\ \A v \in Procs : v # w => todo'[v] = todo[v]
  BY <1>1 DEF PutsDown, LogTypes, Remarks
<1>8. \A v \in Procs : \A i \in 1..Len(todo'[v]) :
        /\ todo'[v][i].mission \in 1..Len(outcome')
        /\ todo'[v][i].type \in Verdicts =>
             mission'[v] # 0 /\ i = Len(todo'[v]) /\ todo'[v][i].mission = mission'[v]
  BY <1>1, <1>2, <1>4, <1>5, <1>7 DEF Remarks, MissionsInv
<1>9. \A k \in 1..Len(outcome') : \A x \in Ends2 : outcome'[k][x] = outcome[k][x]
  BY <1>3, <1>5
<1>10. \A u, v \in Procs : mission'[u] # 0 /\ mission'[u] = mission'[v] => u = v
  BY <1>4 DEF MissionsInv
<1>11. \A v \in Procs : mission'[v] # 0 =>
         /\ ~outcome'[mission'[v]].ended
         /\ \A z \in Tasks : state'[v][z] \in {"pending", "running"} =>
              \A x \in Ends2 : z \notin outcome'[mission'[v]][x]
  BY <1>4, <1>5, <1>6 DEF MissionsInv
<1>12. QED
  BY <1>5, <1>7, <1>8, <1>9, <1>10, <1>11 DEF MissionsInv

LEMMA MissionsStep == LogTypes /\ FilesInv /\ MissionsInv /\ [Log!Next]_log => MissionsInv'
<1> SUFFICES ASSUME LogTypes, FilesInv, MissionsInv, [Log!Next]_log PROVE MissionsInv'
  OBVIOUS
<1>1. CASE UNCHANGED log
  BY <1>1, MissionsSame DEF log
<1>2. ASSUME NEW w \in Procs, LogLooks(w) PROVE MissionsInv'
  <2>1. UNCHANGED <<csv, outcome, mission, state, todo>>
    BY <1>2, LooksAre
  <2>2. QED
    BY <2>1, MissionsSame
<1>3. ASSUME NEW w \in Procs, NEW file \in {"csv", "json", "ops"}, Log!Makes(w, file)
      PROVE  MissionsInv'
  <2>1. UNCHANGED <<outcome, mission, state, todo>> /\ (csv' = csv \/ csv' = <<>>)
    BY <1>3 DEF Log!Makes, Log!Rest
  <2>2. QED
    BY <2>1, MissionsSame
<1>4. ASSUME NEW w \in Procs, Log!ReadJson(w) \/ Log!CutJson(w) \/ Log!LogOps(w)
      PROVE  MissionsInv'
  <2>1. UNCHANGED <<csv, outcome, mission, state, todo>>
    BY <1>4 DEF Log!ReadJson, Log!CutJson, Log!LogOps, Log!files, Log!Rest
  <2>2. QED
    BY <2>1, MissionsSame
<1>5. ASSUME NEW w \in Procs, Log!AppendCsv(w) PROVE MissionsInv'
  <2>1. /\ csv' = Append(csv, todo[w][1]) /\ todo[w] # <<>>
        /\ UNCHANGED <<outcome, mission, state, todo>>
    BY <1>5 DEF Log!AppendCsv, Log!Rest
  <2>2. 1 \in 1..Len(todo[w]) /\ todo[w][1] \in Ent /\ csv \in Seq(Ent)
    BY <2>1, TailIs DEF LogTypes
  <2>3. todo[w][1].mission \in 1..Len(outcome)
    BY <2>2 DEF MissionsInv
  <2>4. /\ Len(csv') = Len(csv) + 1 /\ csv'[Len(csv) + 1] = todo[w][1] /\ Len(csv) \in Nat
        /\ \A i \in 1..Len(csv) : csv'[i] = csv[i]
    BY <2>1, <2>2, AppendIs
  <2>5. \A i \in 1..Len(csv') : i \in 1..Len(csv) \/ i = Len(csv) + 1
    BY <2>4
  <2>6. \A i \in 1..Len(csv') : csv'[i].mission \in 1..Len(outcome)
    BY <2>3, <2>4, <2>5 DEF MissionsInv
  <2>7. QED
    BY <2>1, <2>6 DEF MissionsInv
<1>6. ASSUME NEW w \in Procs, Log!FillJson(w) PROVE MissionsInv'
  <2>1. /\ todo' = [todo EXCEPT ![w] = Tail(@)] /\ todo[w] # <<>> /\ todo[w] \in Seq(Ent)
        /\ UNCHANGED <<csv, outcome, mission, state>>
    BY <1>6 DEF Log!FillJson, LogTypes, InFile
  <2>2. /\ todo'[w] = Tail(todo[w]) /\ \A v \in Procs : v # w => todo'[v] = todo[v]
    BY <2>1 DEF LogTypes
  <2>3. /\ Len(todo'[w]) = Len(todo[w]) - 1 /\ Len(todo'[w]) \in Nat
        /\ \A i \in 1..Len(todo'[w]) : todo'[w][i] = todo[w][i + 1]
    <3> DEFINE r == Tail(todo[w])
    <3>1. /\ Len(r) = Len(todo[w]) - 1 /\ Len(todo[w]) >= 1 /\ Len(todo[w]) \in Nat
          /\ \A i \in 1..Len(r) : r[i] = todo[w][i + 1]
      <4> HIDE DEF Ent
      <4>1. QED
        BY <2>1, TailIs
    <3>2. todo'[w] = r
      BY <2>2
    <3> HIDE DEF r
    <3>3. QED
      BY <3>1, <3>2
  <2>4. ASSUME NEW v \in Procs, NEW i \in 1..Len(todo'[v])
        PROVE  /\ todo'[v][i].mission \in 1..Len(outcome)
               /\ todo'[v][i].type \in Verdicts =>
                    mission[v] # 0 /\ i = Len(todo'[v]) /\ todo'[v][i].mission = mission[v]
    <3>1. CASE v = w
      <4>1. i + 1 \in 1..Len(todo[w]) /\ todo'[w][i] = todo[w][i + 1]
            /\ (i = Len(todo'[w]) <=> i + 1 = Len(todo[w]))
        BY <2>3, <3>1
      <4>2. QED
        BY <3>1, <4>1 DEF MissionsInv
    <3>2. CASE v # w
      BY <2>2, <3>2 DEF MissionsInv
    <3>3. QED
      BY <3>1, <3>2
  <2>5. QED
    BY <2>1, <2>4 DEF MissionsInv
<1>7. ASSUME NEW w \in Procs, Speaks(w) PROVE MissionsInv'
  BY <1>7, MissionsOpening, MissionsReporting, MissionsDispatching, MissionsClosing
     DEF Speaks, Ends2
<1>8. ASSUME NEW w \in Procs, Log!Ends(w) PROVE MissionsInv'
  <2>1. /\ UNCHANGED <<csv, outcome>> /\ todo'[w] = <<>> /\ mission'[w] = 0
        /\ \A v \in Procs : v # w =>
             todo'[v] = todo[v] /\ mission'[v] = mission[v] /\ state'[v] = state[v]
    BY <1>8 DEF Log!Ends, Log!files, LogTypes
  <2>2. Len(todo'[w]) = 0
    BY <2>1
  <2>3. \A v \in Procs : \A i \in 1..Len(todo'[v]) : v # w
    BY <2>2
  <2>4. QED
    BY <2>1, <2>3 DEF MissionsInv
<1>9. QED
  BY <1>1, <1>2, <1>3, <1>4, <1>5, <1>6, <1>7, <1>8, LogNextSplits

\* What a process owes before and after it puts something down.
LEMMA OwesAfter ==
  ASSUME LogTypes, NEW w \in Procs, NEW s \in Seq(Ent), PutsDown(w, s), NEW type
  PROVE  /\ Owed(w, type) = 0
         /\ Owed(w, type)' = IF s # <<>> /\ LastType(s) = type THEN 1 ELSE 0
         /\ \A v \in Procs : v # w => Owed(v, type)' = Owed(v, type)
<1>1. /\ at[w] = "idle" /\ todo[w] = <<>> /\ todo'[w] = s /\ at' = at
      /\ \A v \in Procs : v # w => todo'[v] = todo[v]
  BY DEF PutsDown, LogTypes
<1>2. \A v \in Procs : v # w => Owed(v, type)' = Owed(v, type)
  BY <1>1 DEF Owed, Owes, LastType
<1>3. "idle" \notin InFile
  BY DEF InFile
<1>4. QED
  BY <1>1, <1>2, <1>3 DEF Owed, Owes, LastType

LEMMA RemarksOweNothing ==
  ASSUME NEW m, NEW s, Remarks(s, m), NEW x \in Ends2
  PROVE  ~(s # <<>> /\ LastType(s) = TypeOf(x))
<1>1. ASSUME s # <<>> PROVE Len(s) \in 1..Len(s)
  <2> HIDE DEF Ent
  <2>1. s \in Seq(Ent)
    BY DEF Remarks
  <2>2. QED
    BY <1>1, <2>1
<1>2. QED
  BY <1>1, TypeOfIs DEF Remarks, LastType

LEMMA ReportOwes ==
  ASSUME NEW m, NEW s, NEW x \in Ends2, NEW y \in Ends2, Report(s, m, TypeOf(x))
  PROVE  (s # <<>> /\ LastType(s) = TypeOf(y)) <=> x = y
<1>1. s # <<>>
  BY DEF Report
<1>2. LastType(s) = TypeOf(x)
  BY DEF Report, LastType
<1>3. QED
  BY <1>1, <1>2, TypeOfIs

\* What is said of a mission whose outcome, and whose process's report, stay.
LEMMA TellsKept ==
  ASSUME NEW m, NEW x \in Ends2, Tells(m, x), outcome'[m] = outcome[m], csv' = csv,
         \A v \in Procs : mission'[v] = m =>
           mission[v] = m /\ Owed(v, TypeOf(x))' = Owed(v, TypeOf(x))
  PROVE  Tells(m, x)'
  BY DEF Tells

\* In this form the counts are numbers.
LEMMA TellNumbers ==
  ASSUME LogTypes, MissionsInv, NEW m \in 1..Len(outcome), NEW x \in Ends2
  PROVE  /\ Log!Count(m, csv, TypeOf(x)) \in Nat /\ Cardinality(outcome[m][x]) \in Nat
         /\ IsFiniteSet(outcome[m][x])
<1>1. IsFiniteSet(outcome[m][x]) /\ csv \in Seq(Ent)
  BY DEF LogTypes, MissionsInv
<1>2. QED
  BY <1>1, CountIs, FS_CardinalityType

LEMMA TellOpening ==
  ASSUME LogTypes, MissionsInv, TellInv, NEW w \in Procs, NEW runs \in BOOLEAN, Opening(w, runs)
  PROVE  TellInv'
<1> SUFFICES ASSUME mishaps'["race"] = 0 PROVE TellInv'
  BY DEF TellInv
<1> DEFINE o == [complete |-> {}, failed |-> {}, ended |-> ~runs]
           m == Len(outcome) + 1
<1>1. o \in Outcome /\ \A x \in Ends2 : o[x] = {}
  <2>1. o \in Outcome
    BY DEF Outcome
  <2>2. o["complete"] = {} /\ o["failed"] = {}
    OBVIOUS
  <2> HIDE DEF o
  <2>3. QED
    BY <2>1, <2>2 DEF Ends2
<1>2. PICK s : PutsDown(w, s) /\ Remarks(s, m)
  BY DEF Opening
<1>3. /\ outcome' = Append(outcome, o) /\ mission[w] = 0
      /\ (mission' = [mission EXCEPT ![w] = m] \/ mission' = mission)
  BY DEF Opening
<1> HIDE DEF o
<1>4. /\ Len(outcome') = m /\ m \in Nat /\ Len(outcome) \in Nat /\ outcome'[m] = o
      /\ \A k \in 1..Len(outcome) : outcome'[k] = outcome[k] /\ k # m /\ k # 0
      /\ \A k \in 1..m : k = m \/ k \in 1..Len(outcome)
      /\ m \notin 1..Len(outcome) /\ m # 0
  BY <1>1, <1>3, AppendIs DEF LogTypes
<1>5. mission \in [Procs -> Nat] /\ \A v \in Procs : mission[v] # m
  BY <1>4 DEF LogTypes
<1> HIDE DEF m
<1>6. \A v \in Procs : IF v = w THEN mission'[v] \in {0, m} ELSE mission'[v] = mission[v]
  BY <1>3, <1>5
<1>7. csv' = csv /\ mishaps' = mishaps /\ s \in Seq(Ent)
  BY <1>2 DEF PutsDown, Remarks
<1>8. ASSUME NEW k \in 1..Len(outcome), NEW x \in Ends2 PROVE Tells(k, x)'
  <2>1. Tells(k, x) /\ outcome'[k] = outcome[k]
    BY <1>4, <1>7 DEF TellInv
  <2>2. \A v \in Procs : mission'[v] = k => v # w /\ mission[v] = k
    BY <1>4, <1>6
  <2>3. \A v \in Procs : v # w => Owed(v, TypeOf(x))' = Owed(v, TypeOf(x))
    BY <1>2, <1>7, OwesAfter
  <2>4. QED
    BY <1>7, <2>1, <2>2, <2>3, TellsKept
<1>9. ASSUME NEW k, k = m, NEW x \in Ends2 PROVE Tells(k, x)'
  <2>1. Cardinality(outcome'[k][x]) = 0
    BY <1>1, <1>4, <1>9, FS_EmptySet
  <2>2. Log!Count(k, csv', TypeOf(x)) = 0
    <3>1. \A i \in 1..Len(csv) : csv[i].mission # m
      BY <1>4 DEF MissionsInv
    <3>2. csv \in Seq(Ent)
      BY DEF LogTypes
    <3>3. QED
      BY <1>7, <1>9, <3>1, <3>2, CountNone
  <2>3. \A v \in Procs : mission'[v] = k => v = w
    BY <1>5, <1>6, <1>9
  <2>4. Owed(w, TypeOf(x))' = 0
    BY <1>2, <1>7, OwesAfter, RemarksOweNothing
  <2>5. QED
    BY <2>1, <2>2, <2>3, <2>4 DEF Tells
<1>10. \A k \in 1..Len(outcome') : \A x \in Ends2 : Tells(k, x)'
  BY <1>4, <1>8, <1>9
<1>11. QED
  BY <1>10 DEF TellInv

LEMMA TellReporting ==
  ASSUME LogTypes, MissionsInv, TellInv, NEW w \in Procs, NEW t \in Tasks, NEW status \in Ends2,
         Reporting(w, t, status)
  PROVE  TellInv'
<1> SUFFICES ASSUME mishaps'["race"] = 0 PROVE TellInv'
  BY DEF TellInv
<1> DEFINE o == Finds(outcome[mission[w]], status, t)
<1>1. PICK s : PutsDown(w, s) /\ Report(s, mission[w], TypeOf(status))
  BY DEF Reporting
<1>2. mission[w] \in 1..Len(outcome) /\ outcome[mission[w]] \in Outcome
      /\ t \notin outcome[mission[w]][status]
  BY DEF Reporting, LogTypes, MissionsInv
<1>3. /\ o \in Outcome /\ o[status] = outcome[mission[w]][status] \union {t}
      /\ \A x \in Ends2 \ {status} : o[x] = outcome[mission[w]][x]
      /\ (o.ended <=> outcome[mission[w]].ended)
  BY <1>2, FindsIs DEF Ends2
<1>4. /\ outcome' = [outcome EXCEPT ![mission[w]] = o] /\ mission[w] # 0 /\ mission' = mission
  BY DEF Reporting
<1> HIDE DEF o
<1>5. /\ Len(outcome') = Len(outcome) /\ outcome'[mission[w]] = o
      /\ \A k \in 1..Len(outcome) : k # mission[w] => outcome'[k] = outcome[k]
      /\ \A v \in Procs : v # w => mission[v] # mission[w]
  BY <1>3, <1>4, OutcomeUpdate
<1>6. csv' = csv /\ mishaps' = mishaps /\ s \in Seq(Ent)
  BY <1>1 DEF PutsDown, Report
<1>7. ASSUME NEW k \in 1..Len(outcome), NEW x \in Ends2, k # mission[w] PROVE Tells(k, x)'
  <2>1. Tells(k, x) /\ outcome'[k] = outcome[k]
    BY <1>5, <1>6, <1>7 DEF TellInv
  <2>2. \A v \in Procs : mission'[v] = k => v # w /\ mission[v] = k
    BY <1>4, <1>7
  <2>3. \A v \in Procs : v # w => Owed(v, TypeOf(x))' = Owed(v, TypeOf(x))
    BY <1>1, <1>6, OwesAfter
  <2>4. QED
    BY <1>6, <2>1, <2>2, <2>3, TellsKept
<1>8. ASSUME NEW k, k = mission[w], NEW x \in Ends2 PROVE Tells(k, x)'
  <2>1. Owed(w, TypeOf(x)) = 0 /\ Owed(w, TypeOf(x))' = IF x = status THEN 1 ELSE 0
    <3>1. (s # <<>> /\ LastType(s) = TypeOf(x)) <=> status = x
      BY <1>1, ReportOwes
    <3>2. QED
      BY <1>1, <1>6, <3>1, OwesAfter
  <2>2. Tells(k, x) /\ k \in 1..Len(outcome) /\ mission[w] # 0
    BY <1>2, <1>4, <1>6, <1>8 DEF TellInv
  <2>3. ~outcome[k].ended
    BY <1>8, <2>2 DEF MissionsInv
  <2>4. /\ Log!Count(k, csv, TypeOf(x)) \in Nat /\ Cardinality(outcome[k][x]) \in Nat
        /\ IsFiniteSet(outcome[k][x])
    BY <2>2, TellNumbers
  <2>5. Log!Count(k, csv, TypeOf(x)) = Cardinality(outcome[k][x])
    BY <1>8, <2>1, <2>2, <2>4 DEF Tells
  <2>6. Cardinality(o[x]) = Cardinality(outcome[k][x]) + IF x = status THEN 1 ELSE 0
    <3>1. CASE x = status
      <4>1. Cardinality(outcome[k][x] \union {t}) = Cardinality(outcome[k][x]) + 1
        BY <1>2, <1>8, <2>4, <3>1, OneMoreCounted
      <4>2. QED
        BY <1>3, <1>8, <3>1, <4>1
    <3>2. CASE x # status
      BY <1>3, <1>8, <2>4, <3>2
    <3>3. QED
      BY <3>1, <3>2
  <2>7. outcome'[k] = o /\ ~o.ended /\ \A v \in Procs : mission'[v] = k => v = w
    BY <1>3, <1>4, <1>5, <1>8, <2>3
  <2>8. QED
    BY <1>6, <2>1, <2>5, <2>6, <2>7 DEF Tells
<1>9. \A k \in 1..Len(outcome') : \A x \in Ends2 : Tells(k, x)'
  BY <1>5, <1>7, <1>8
<1>10. QED
  BY <1>9 DEF TellInv

LEMMA TellRemarking ==
  ASSUME LogTypes, MissionsInv, TellInv, NEW w \in Procs,
         Closing(w) \/ \E t \in Tasks : Dispatching(w, t)
  PROVE  TellInv'
<1> SUFFICES ASSUME mishaps'["race"] = 0 PROVE TellInv'
  BY DEF TellInv
<1>1. PICK s : PutsDown(w, s) /\ Remarks(s, mission[w])
  BY DEF Closing, Dispatching
<1>2. csv' = csv /\ mishaps' = mishaps /\ s \in Seq(Ent)
  BY <1>1 DEF PutsDown, Remarks
<1>3. ASSUME NEW x \in Ends2 PROVE Owed(w, TypeOf(x)) = 0
  BY <1>1, <1>2, OwesAfter
<1>4. ASSUME NEW v \in Procs, NEW x \in Ends2 PROVE Owed(v, TypeOf(x))' = Owed(v, TypeOf(x))
  <2>1. ~(s # <<>> /\ LastType(s) = TypeOf(x))
    BY <1>1, RemarksOweNothing
  <2>2. QED
    BY <1>1, <1>2, <2>1, OwesAfter
<1>5. \A k \in 1..Len(outcome) : \A x \in Ends2 : Tells(k, x)
  BY <1>2 DEF TellInv
<1>6. ASSUME NEW t \in Tasks, Dispatching(w, t) PROVE TellInv'
  <2>1. UNCHANGED <<mission, outcome>>
    BY <1>6 DEF Dispatching
  <2>2. \A k \in 1..Len(outcome) : \A x \in Ends2 : Tells(k, x)'
    BY <1>2, <1>4, <1>5, <2>1, TellsKept
  <2>3. QED
    BY <2>1, <2>2 DEF TellInv
<1>7. ASSUME Closing(w) PROVE TellInv'
  <2> DEFINE o == [outcome[mission[w]] EXCEPT !.ended = TRUE]
  <2>1. mission[w] \in 1..Len(outcome) /\ outcome[mission[w]] \in Outcome /\ mission[w] # 0
    BY <1>7 DEF Closing, LogTypes
  <2>2. o \in Outcome /\ \A x \in Ends2 : o[x] = outcome[mission[w]][x]
    BY <2>1, EndsIt DEF Ends2
  <2>3. /\ outcome' = [outcome EXCEPT ![mission[w]] = o]
        /\ mission'[w] = 0 /\ \A v \in Procs : v # w => mission'[v] = mission[v]
    BY <1>7 DEF Closing, LogTypes
  <2> HIDE DEF o
  <2>4. /\ Len(outcome') = Len(outcome) /\ outcome'[mission[w]] = o
        /\ \A k \in 1..Len(outcome) : k # mission[w] => outcome'[k] = outcome[k]
        /\ \A v \in Procs : v # w => mission[v] # mission[w]
    BY <2>1, <2>2, <2>3, OutcomeUpdate
  <2>5. ASSUME NEW k \in 1..Len(outcome), NEW x \in Ends2, k # mission[w] PROVE Tells(k, x)'
    <3>1. Tells(k, x) /\ outcome'[k] = outcome[k] /\ k # 0
      BY <1>5, <2>4, <2>5
    <3>2. \A v \in Procs : mission'[v] = k => mission[v] = k
      BY <2>3, <2>5, <3>1
    <3>3. QED
      BY <1>2, <1>4, <3>1, <3>2, TellsKept
  <2>6. ASSUME NEW k, k = mission[w], NEW x \in Ends2 PROVE Tells(k, x)'
    <3>1. Tells(k, x) /\ k \in 1..Len(outcome)
      BY <1>5, <2>1, <2>6
    <3>2. Log!Count(k, csv, TypeOf(x)) + 0 = Cardinality(outcome[k][x])
      BY <1>3, <2>6, <3>1 DEF Tells
    <3>3. Log!Count(k, csv, TypeOf(x)) = Cardinality(outcome[k][x])
      BY <3>1, <3>2, TellNumbers
    <3>4. outcome'[k][x] = outcome[k][x] /\ \A v \in Procs : mission'[v] # k
      BY <2>1, <2>2, <2>3, <2>4, <2>6
    <3>5. QED
      BY <1>2, <3>3, <3>4 DEF Tells
  <2>7. \A k \in 1..Len(outcome') : \A x \in Ends2 : Tells(k, x)'
    BY <2>4, <2>5, <2>6
  <2>8. QED
    BY <2>7 DEF TellInv
<1>8. QED
  BY <1>6, <1>7

\* A row goes into the CSV file: the report, and then nothing is owed, or a
\* remark before it.
LEMMA TellAppending ==
  ASSUME LogTypes, MissionsInv, TellInv, NEW w \in Procs, Log!AppendCsv(w)
  PROVE  TellInv'
<1> SUFFICES ASSUME mishaps'["race"] = 0 PROVE TellInv'
  BY DEF TellInv
<1> DEFINE e == todo[w][1]
<1>1. /\ csv' = Append(csv, e) /\ todo[w] # <<>> /\ at[w] = "idle"
      /\ at'[w] = "read" /\ \A v \in Procs : v # w => at'[v] = at[v]
      /\ UNCHANGED <<outcome, mission, state, todo, mishaps>>
  BY DEF Log!AppendCsv, Log!Rest, Log!Goes, LogTypes
<1>2. 1 \in 1..Len(todo[w]) /\ e \in Ent /\ csv \in Seq(Ent) /\ Len(todo[w]) \in Nat
  BY <1>1, TailIs DEF LogTypes
<1>3. e.type \in Verdicts => mission[w] # 0 /\ 1 = Len(todo[w]) /\ e.mission = mission[w]
  BY <1>2 DEF MissionsInv
<1>4. LastType(todo[w]) \in Verdicts /\ Len(todo[w]) = 1 => e.type = LastType(todo[w])
  BY DEF LastType
<1> HIDE DEF e
<1>5. \A m : \A x \in Ends2 :
        Log!Count(m, csv', TypeOf(x)) =
          Log!Count(m, csv, TypeOf(x)) + (IF e.mission = m /\ e.type = TypeOf(x) THEN 1 ELSE 0)
  BY <1>1, <1>2, CountGrows
<1>6. ASSUME NEW k \in 1..Len(outcome), NEW x \in Ends2 PROVE Tells(k, x)'
  <2>1. Tells(k, x) /\ TypeOf(x) \in Verdicts
    BY <1>1, TypeOfIs DEF TellInv
  <2>2. Log!Count(k, csv, TypeOf(x)) \in Nat /\ Cardinality(outcome[k][x]) \in Nat
    BY TellNumbers
  <2>3. CASE e.mission = k /\ e.type = TypeOf(x)
    <3>1. mission[w] = k /\ mission[w] # 0 /\ Len(todo[w]) = 1
      BY <1>3, <2>1, <2>3
    <3>2. ~outcome[k].ended /\ \A v \in Procs : mission[v] = k => v = w
      BY <3>1 DEF MissionsInv
    <3>3. Owed(w, TypeOf(x)) = 1 /\ Owed(w, TypeOf(x))' = 0
      <4>1. LastType(todo[w]) = TypeOf(x)
        BY <2>3, <3>1 DEF LastType, e
      <4>2. QED
        BY <1>1, <3>1, <4>1 DEF Owed, Owes, InFile
    <3>4. Log!Count(k, csv', TypeOf(x)) = Cardinality(outcome[k][x])
      BY <1>5, <2>1, <2>2, <2>3, <3>1, <3>3 DEF Tells
    <3>5. QED
      BY <1>1, <2>2, <3>2, <3>3, <3>4 DEF Tells
  <2>4. CASE ~(e.mission = k /\ e.type = TypeOf(x))
    <3>1. Log!Count(k, csv', TypeOf(x)) = Log!Count(k, csv, TypeOf(x))
      <4>1. Log!Count(k, csv', TypeOf(x)) = Log!Count(k, csv, TypeOf(x)) + 0
        BY <1>5, <2>4
      <4>2. QED
        BY <2>2, <4>1
    <3>2. ASSUME NEW v \in Procs, mission[v] = k
          PROVE  Owed(v, TypeOf(x))' = Owed(v, TypeOf(x))
      <4>1. CASE v # w
        BY <1>1, <4>1 DEF Owed, Owes, LastType
      <4>2. CASE v = w
        <5>1. k # 0
          OBVIOUS
        <5>2. LastType(todo[w]) = TypeOf(x) => Len(todo[w]) > 1
          <6>1. CASE Len(todo[w]) = 1
            BY <1>3, <2>1, <2>4, <3>2, <4>2, <6>1 DEF LastType, e
          <6>2. Len(todo[w]) = 1 \/ Len(todo[w]) > 1
            <7>1. \A n \in Nat : 1 \in 1..n => n = 1 \/ n > 1
              OBVIOUS
            <7>2. QED
              BY <1>2, <7>1, Zenon
          <6>3. QED
            BY <6>1, <6>2, Zenon
        <5>3. QED
          BY <1>1, <4>2, <5>2 DEF Owed, Owes, LastType, InFile
      <4>3. QED
        BY <4>1, <4>2
    <3>3. QED
      BY <1>1, <2>1, <3>1, <3>2 DEF Tells
  <2>5. QED
    BY <2>3, <2>4
<1>7. QED
  BY <1>1, <1>6 DEF TellInv

\* An entry goes into the JSON file, and is done with.
LEMMA TellFilling ==
  ASSUME LogTypes, MissionsInv, TellInv, NEW w \in Procs, Log!FillJson(w)
  PROVE  TellInv'
<1> SUFFICES ASSUME mishaps'["race"] = 0 PROVE TellInv'
  BY DEF TellInv
<1> DEFINE s == todo[w]
           r == Tail(todo[w])
<1>1. /\ at[w] = "fill" /\ at'[w] = "idle" /\ \A v \in Procs : v # w => at'[v] = at[v]
      /\ todo'[w] = r /\ \A v \in Procs : v # w => todo'[v] = todo[v]
      /\ UNCHANGED <<csv, outcome, mission, mishaps>>
  BY DEF Log!FillJson, Log!Goes, LogTypes
<1>2. s \in Seq(Ent) /\ s # <<>>
  BY <1>1 DEF LogTypes, InFile
<1>3. /\ r \in Seq(Ent) /\ Len(r) = Len(s) - 1 /\ Len(s) >= 1 /\ Len(s) \in Nat
      /\ \A i \in 1..Len(r) : r[i] = s[i + 1]
  <2> HIDE DEF Ent
  <2>1. QED
    BY <1>2, TailIs
<1> HIDE DEF s, r
<1>4. (r # <<>> <=> Len(s) > 1) /\ (Len(s) > 1 => LastType(r) = LastType(s))
  <2>1. r = <<>> <=> Len(r) = 0
    <3> HIDE DEF Ent
    <3>1. QED
      BY <1>3
  <2>2. Len(s) > 1 => Len(r) \in 1..Len(r) /\ Len(r) + 1 = Len(s)
    BY <1>3
  <2>3. QED
    BY <1>3, <2>1, <2>2 DEF LastType
<1>5. ASSUME NEW v \in Procs, NEW type PROVE Owed(v, type)' = Owed(v, type)
  <2>1. CASE v = w
    <3>1. Owes(w, type) <=> Len(s) > 1 /\ LastType(s) = type
      BY <1>1, <1>2 DEF Owes, InFile, s
    <3>2. Owes(w, type)' <=> r # <<>> /\ LastType(r) = type
      BY <1>1 DEF Owes, InFile
    <3>3. Owes(w, type)' <=> Owes(w, type)
      BY <1>4, <3>1, <3>2
    <3>4. QED
      BY <2>1, <3>3 DEF Owed
  <2>2. CASE v # w
    BY <1>1, <2>2 DEF Owed, Owes, LastType
  <2>3. QED
    BY <2>1, <2>2
<1>6. \A k \in 1..Len(outcome) : \A x \in Ends2 : Tells(k, x)'
  BY <1>1, <1>5, TellsKept DEF TellInv
<1>7. QED
  BY <1>1, <1>6 DEF TellInv

LEMMA TellEnding ==
  ASSUME LogTypes, TellInv, NEW w \in Procs, Log!Ends(w)
  PROVE  TellInv'
<1> SUFFICES ASSUME mishaps'["race"] = 0 PROVE TellInv'
  BY DEF TellInv
<1>1. /\ UNCHANGED <<csv, outcome>> /\ mission'[w] = 0
      /\ \A v \in Procs : v # w =>
           mission'[v] = mission[v] /\ todo'[v] = todo[v] /\ at'[v] = at[v]
  BY DEF Log!Ends, Log!files, Log!Goes, LogTypes
<1>2. mishaps["race"] = 0
  <2>1. "death" \in Log!Mishap /\ "race" \in Log!Mishap
    BY DEF Log!Mishap
  <2>2. mishaps' = mishaps \/ Log!Counts("death")
    BY DEF Log!Ends
  <2>3. QED
    BY <2>1, <2>2, CountsUp
<1>3. \A v \in Procs : \A type : v # w => Owed(v, type)' = Owed(v, type)
  BY <1>1 DEF Owed, Owes, LastType
<1>4. ASSUME NEW k \in 1..Len(outcome), NEW x \in Ends2 PROVE Tells(k, x)'
  <2>1. Tells(k, x) /\ k # 0
    BY <1>2 DEF TellInv
  <2>2. \A v \in Procs : mission'[v] = k =>
          mission[v] = k /\ Owed(v, TypeOf(x))' = Owed(v, TypeOf(x))
    BY <1>1, <1>3, <2>1
  <2>3. QED
    BY <1>1, <2>1, <2>2, TellsKept
<1>5. QED
  BY <1>1, <1>4 DEF TellInv

LEMMA TellStep ==
  LogTypes /\ FilesInv /\ MissionsInv /\ TellInv /\ [Log!Next]_log => TellInv'
<1> SUFFICES ASSUME LogTypes, FilesInv, MissionsInv, TellInv, [Log!Next]_log PROVE TellInv'
  OBVIOUS
<1>1. at \in [Procs -> Early \union {"idle"} \union InFile] /\ "race" \in Log!Mishap
      /\ "clash" \in Log!Mishap
  BY DEF LogTypes, Log!Mishap
<1>2. CASE UNCHANGED log
  BY <1>2, TellSame DEF log
<1>3. ASSUME NEW w \in Procs, LogLooks(w) PROVE TellInv'
  <2>1. UNCHANGED <<csv, outcome, mission, todo, mishaps>>
        /\ \A v \in Procs : at'[v] \in InFile <=> at[v] \in InFile
    BY <1>1, <1>3, LooksAre DEF Early, InFile
  <2>2. QED
    BY <2>1, TellSame
<1>4. ASSUME NEW w \in Procs, NEW file \in {"csv", "json", "ops"}, Log!Makes(w, file)
      PROVE  TellInv'
  <2>1. UNCHANGED <<outcome, mission, todo>>
        /\ \A v \in Procs : at'[v] \in InFile <=> at[v] \in InFile
    BY <1>1, <1>4, MakesAre DEF Early, InFile
  <2>2. mishaps'["race"] = 0 => mishaps["race"] = 0 /\ UNCHANGED csv
    BY <1>4, MakesFresh
  <2>3. QED
    BY <2>1, <2>2, TellSame
<1>5. ASSUME NEW w \in Procs, Log!ReadJson(w) \/ Log!CutJson(w) \/ Log!LogOps(w)
      PROVE  TellInv'
  <2>1. UNCHANGED <<csv, outcome, mission, todo>>
    BY <1>5 DEF Log!ReadJson, Log!CutJson, Log!LogOps, Log!files, Log!Rest
  <2>2. \A v \in Procs : at'[v] \in InFile <=> at[v] \in InFile
    BY <1>1, <1>5 DEF Log!ReadJson, Log!CutJson, Log!LogOps, Log!Goes, InFile
  <2>3. mishaps' = mishaps \/ Log!Counts("clash")
    BY <1>5 DEF Log!ReadJson, Log!CutJson, Log!LogOps
  <2>4. mishaps'["race"] = mishaps["race"]
    BY <1>1, <2>3, CountsUp
  <2>5. QED
    BY <2>1, <2>2, <2>4, TellSame
<1>6. ASSUME NEW w \in Procs, Speaks(w) PROVE TellInv'
  BY <1>6, TellOpening, TellReporting, TellRemarking DEF Speaks, Ends2
<1>7. QED
  BY <1>2, <1>3, <1>4, <1>5, <1>6, TellAppending, TellFilling, TellEnding, LogNextSplits

-----------------------------------------------------------------------------
\* A behaviour of the three parts is one of the logs.
LEMMA LogsMove == /\ PartsInit => Log!Init
                  /\ [PartsNext]_<<part, vars, data, log>> => [Log!Next]_log
<1>1. PartsInit => Log!Init
  BY DEF PartsInit
<1>2. [PartsNext]_<<part, vars, data, log>> => [Log!Next]_log
  BY DEF PartsNext
<1>3. QED
  BY <1>1, <1>2

\* While no process dies, none makes a file another has made, and no two
\* write an entry at once, the JSON log is the newest Cap rows of the CSV
\* log, whenever no process is between its file's read and its writing:
\* _write_entry's cut keeps the newest 10,000, neither one more nor fewer,
\* and a logger made beside another forgets nothing.
THEOREM JsonIsTailHolds == PartsSpec => []JsonIsTail
<1> DEFINE Inv == LogTypes /\ FilesInv /\ TailInv
<1>1. PartsInit => Inv
  BY LogsMove, LogTypesInit, FilesInit, TailInit
<1>2. Inv /\ [PartsNext]_<<part, vars, data, log>> => Inv'
  BY LogsMove, LogTypesStep, FilesStep, TailStep
<1>3. Inv => JsonIsTail
  <2> SUFFICES ASSUME TailInv, \A k \in Log!Mishap : mishaps[k] = 0, \A w \in Procs : ~Log!InJson(w)
               PROVE  json = SubSeq(csv, Log!Max({1, Len(csv) - Cap + 1}), Len(csv))
    BY DEF JsonIsTail, Log!JsonIsTail
  <2>1. Calm /\ Only({})
    BY DEF Calm, Only, InFile, Log!InJson
  <2>2. json = TailOf(csv)
    BY <2>1 DEF TailInv
  <2>3. QED
    BY <2>2, LogLibrary DEF TailOf
<1>4. QED
  BY <1>1, <1>2, <1>3, PTL DEF PartsSpec

\* Unless two processes make a file at once, the CSV log tells of every
\* mission that ended, once nothing is left to write, as many tasks complete
\* and as many failed as execute counted, and the operations log has every
\* message: whoever dies in the middle, and however two processes' rows mix.
THEOREM LogsTellHolds == PartsSpec => []LogsTell
<1> DEFINE Inv == LogTypes /\ FilesInv /\ MissionsInv /\ TellInv
<1>1. PartsInit => Inv
  BY LogsMove, LogTypesInit, FilesInit, MissionsInit
<1>2. Inv /\ [PartsNext]_<<part, vars, data, log>> => Inv'
  BY LogsMove, LogTypesStep, FilesStep, MissionsStep, TellStep
<1>3. Inv => LogsTell
  <2> SUFFICES ASSUME LogTypes, FilesInv, MissionsInv, TellInv, mishaps["race"] = 0
               PROVE  /\ Len(ops) = said
                      /\ \A m \in DOMAIN outcome : Log!Settled(m) => Log!Summary(m, csv) = Log!Counted(m)
    BY DEF LogsTell, Log!LogsTell
  <2>1. Len(ops) = said
    BY DEF FilesInv
  <2>2. ASSUME NEW m \in DOMAIN outcome, Log!Settled(m) PROVE Log!Summary(m, csv) = Log!Counted(m)
    <3>1. m \in 1..Len(outcome) /\ outcome[m].ended
      BY <2>2 DEF Log!Settled, LogTypes
    <3>2. \A x \in Ends2 : Log!Count(m, csv, TypeOf(x)) = Cardinality(outcome[m][x])
      BY <3>1 DEF TellInv, Tells
    <3>3. /\ Log!Count(m, csv, "task_complete") = Log!Cardinality(outcome[m].complete)
          /\ Log!Count(m, csv, "task_fail") = Log!Cardinality(outcome[m].failed)
      BY <3>2, TypeOfIs, LogLibrary DEF Ends2
    <3>4. QED
      BY <3>3 DEF Log!Summary, Log!Counted
  <2>3. QED
    BY <2>1, <2>2
<1>4. QED
  BY <1>1, <1>2, <1>3, PTL DEF PartsSpec

-----------------------------------------------------------------------------
(***************************************************************************)
(* The datastore.                                                          *)
(***************************************************************************)
Rows == [id : Nat, slug : Slugs]
GoodTable(t) ==
  /\ t \subseteq Rows
  /\ \A x, y \in t : x.id = y.id => x = y
  /\ \E n \in Nat : \A x \in t : x.id <= n
RecVals == [state : {"whole"}, id : Records, refs : SUBSET Slugs, retired : BOOLEAN]
FileVals == {Data!Absent, Data!Torn} \union RecVals
Drafts == [open : {TRUE}, new : BOOLEAN, id : Records, at : Data!Places, refs : SUBSET Slugs]
RecordJobs == [kind : {"record"}, phase : {"checked", "opened", "written"},
               file : Data!Places, val : RecVals, old : Data!Places]
TableJobs == [kind : {"table"}, phase : {"checked", "opened"}, val : {t \in SUBSET Rows : GoodTable(t)}]

DataTypes ==
  /\ files \in [Data!Places -> FileVals]
  /\ table = Data!TornTable \/ GoodTable(table)
  /\ cache = [w \in Procs |-> cache[w]]
  /\ \A w \in Procs : cache[w] = Data!NoCache \/ GoodTable(cache[w])
  /\ draft \in [Procs -> {Data!NoDraft} \union Drafts]
  /\ job \in [Procs -> {Data!Idle} \union RecordJobs \union TableJobs]
  /\ races \in Nat /\ crashes \in Nat

LEMMA DataAmounts == FirstRow \in Slugs /\ NPlaces \in Nat
  BY DataAssumption DEF Data!FirstRowAssumption, Data!PlacesAssumption

\* The instance's own copies of the library's operators are the library's.
LEMMA DataLibrary == /\ \A S : Data!Cardinality(S) = Cardinality(S)
                     /\ \A S : Data!Max(S) = Max(S)
                     /\ \A S : Data!Min(S) = Min(S)
<1>1. \A S : Data!Cardinality(S) = Cardinality(S)
  BY DEF Data!Cardinality, Cardinality
<1>2. \A S : Data!Max(S) = Max(S)
  BY DEF Data!Max, Max
<1>3. \A S : Data!Min(S) = Min(S)
  BY DEF Data!Min, Min
<1>4. QED
  BY <1>1, <1>2, <1>3

LEMMA MinOf ==
  ASSUME NEW T \in SUBSET Nat, T # {}
  PROVE  Min(T) \in T
<1> DEFINE R == {ss \in Nat \X Nat : ss[1] < ss[2]}
<1>1. PICK m \in T : \A k \in T : ~(<<k, m>> \in R)
  <2>1. IsWellFoundedOn(R, Nat)
    BY NatLessThanWellFounded DEF OpToRel
  <2> HIDE DEF R
  <2>2. QED
    BY <2>1, WFMin
<1>2. ASSUME NEW k \in T PROVE m <= k
  <2>1. \A i, j \in Nat : i < j => <<i, j>> \in R
    OBVIOUS
  <2>2. k \in Nat /\ m \in Nat
    OBVIOUS
  <2> HIDE DEF R
  <2>3. ~(<<k, m>> \in R)
    BY <1>1
  <2>4. ~(k < m)
    BY <2>1, <2>2, <2>3
  <2>5. QED
    BY <2>2, <2>4
<1>3. QED
  BY <1>1, <1>2 DEF Min

\* The highest of the ids so far.
LEMMA NextIdIs ==
  ASSUME NEW t, GoodTable(t)
  PROVE  /\ Data!NextId(t) \in Nat /\ \A x \in t : x.id < Data!NextId(t)
<1> DEFINE T == Data!IdsOf(t) \union {0}
           Above == {k \in Nat : \A i \in T : i <= k}
           R == {ss \in Nat \X Nat : ss[1] < ss[2]}
<1>1. PICK n \in Nat : \A x \in t : x.id <= n
  BY DEF GoodTable
<1>2. T \subseteq Nat /\ 0 \in T /\ \A i \in T : i <= n
  BY <1>1 DEF GoodTable, Rows, Data!IdsOf
<1>3. PICK m \in Above : \A k \in Above : ~(<<k, m>> \in R)
  <2>1. IsWellFoundedOn(R, Nat)
    BY NatLessThanWellFounded DEF OpToRel
  <2>2. Above \subseteq Nat /\ Above # {}
    BY <1>2
  <2> HIDE DEF Above, R
  <2>3. QED
    BY <2>1, <2>2, WFMin
<1> HIDE DEF T
<1>4. m \in T
  <2>1. CASE m = 0
    BY <1>2, <2>1
  <2>2. CASE m # 0
    <3>1. m - 1 \in Nat /\ <<m - 1, m>> \in R
      BY <2>2
    <3>2. PICK i \in T : ~(i <= m - 1)
      BY <1>3, <3>1
    <3>3. i <= m /\ i \in Nat /\ m \in Nat
      BY <1>2
    <3>4. i = m
      BY <3>1, <3>2, <3>3
    <3>5. QED
      BY <3>4
  <2>3. QED
    BY <2>1, <2>2
<1>5. Max(T) \in T /\ \A i \in T : Max(T) >= i
  <2>1. \E x \in T : \A i \in T : x >= i
    BY <1>2, <1>4
  <2>2. QED
    BY <2>1 DEF Max
<1>6. Data!NextId(t) = Max(T) + 1
  BY DataLibrary DEF Data!NextId, T
<1>7. \A x \in t : x.id \in T
  BY DEF T, Data!IdsOf
<1>8. Max(T) \in Nat /\ \A x \in t : x.id \in Nat /\ x.id <= Max(T)
  BY <1>2, <1>5, <1>7
<1>9. QED
  BY <1>6, <1>8

LEMMA CopiesIn ==
  ASSUME DataTypes, NEW r, Data!Copies(r) # {}
  PROVE  /\ Data!Min(Data!Copies(r)) \in Data!Places
         /\ files[Data!Min(Data!Copies(r))] \in RecVals
         /\ files[Data!Min(Data!Copies(r))].id = r
         /\ Data!Min(Data!Copies(r)) \in Data!Copies(r)
<1> DEFINE C == Data!Copies(r)
<1>1. C \subseteq Data!Places /\ Data!Places \subseteq Nat
  BY DataAmounts DEF Data!Copies, Data!Places
<1>2. Min(C) \in C
  BY <1>1, MinOf
<1>3. \A a \in C : files[a] \in RecVals /\ files[a].id = r
  BY <1>1 DEF Data!Copies, Data!HoldsRec, Data!Whole, DataTypes, FileVals, Data!Absent, Data!Torn
<1>4. QED
  BY <1>1, <1>2, <1>3, DataLibrary

LEMMA DataTypesInit == Data!Init => DataTypes
<1> SUFFICES ASSUME Data!Init PROVE DataTypes
  OBVIOUS
<1>1. GoodTable({[id |-> 1, slug |-> FirstRow]})
  BY DataAmounts DEF GoodTable, Rows
<1>2. QED
  BY <1>1 DEF Data!Init, DataTypes, FileVals

\* What an operation that begins, and one that goes on, leaves alone.
LEMMA BeginsTypes ==
  ASSUME DataTypes, NEW w \in Procs, Data!Begins(w)
  PROVE  /\ job[w] = Data!Idle /\ races' \in Nat /\ actors' = actors \union {w}
         /\ races' = IF \E v \in Procs \ {w} : job[v] # Data!Idle THEN races + 1 ELSE races
  BY DEF Data!Begins, Data!Busy, DataTypes

LEMMA ViewIs ==
  ASSUME DataTypes, NEW w \in Procs, Data!CanView(w)
  PROVE  GoodTable(Data!View(w))
  BY DEF DataTypes, Data!CanView, Data!View, Data!Readable

\* The kinds of a job are told apart.
LEMMA JobsAre ==
  ASSUME DataTypes, NEW w \in Procs
  PROVE  /\ Data!Busy(w) <=> job[w] # Data!Idle
         /\ job[w] = Data!Idle => job[w].kind = "idle"
         /\ job[w].kind = "record" => Data!Busy(w) /\ job[w] \in RecordJobs
         /\ job[w].kind = "table" => Data!Busy(w) /\ job[w] \in TableJobs /\ GoodTable(job[w].val)
         /\ Data!Busy(w) => job[w].kind \in {"record", "table"}
         /\ Data!Busy(w) /\ job[w].phase = "written" => job[w].kind = "record"
  BY DEF DataTypes, Data!Busy, Data!Idle, RecordJobs, TableJobs

\* What a process does to a draft between operations.
Drafting(w) ==
  /\ ~Data!Busy(w) /\ UNCHANGED <<files, table, job, kept, rows, begun, races, crashes, actors>>
  /\ \E d \in {Data!NoDraft} \union Drafts :
       /\ draft' = [draft EXCEPT ![w] = d]
       /\ \/ d = Data!NoDraft /\ UNCHANGED drawn
          \/ d.open /\ d.new /\ d.id \notin drawn /\ drawn' = drawn \union {d.id}
          \/ d.open /\ ~d.new /\ Data!Copies(d.id) # {} /\ UNCHANGED drawn
          \/ /\ d.open /\ draft[w].open /\ d.id = draft[w].id /\ (d.new <=> draft[w].new)
             /\ UNCHANGED drawn
  /\ \/ cache' = cache
     \/ cache' = [cache EXCEPT ![w] = Data!NoCache]
     \/ cache' = [cache EXCEPT ![w] = Data!View(w)] /\ Data!CanView(w)

LEMMA DraftingIs ==
  ASSUME DataTypes, NEW w \in Procs,
         \/ \E r \in Records, a \in Data!Places : Data!OpenNew(w, r, a)
         \/ \E r \in Records : Data!Open(w, r)
         \/ \E a \in Data!Places : Data!Rename(w, a)
         \/ \E s \in Slugs : Data!PointAt(w, s) \/ Data!PointAway(w, s)
         \/ Data!Leave(w) \/ Data!SaveOfNone(w)
  PROVE  Drafting(w)
<1>1. /\ Data!NoDraft \notin Drafts /\ ~Data!NoDraft.open
      /\ draft[w] = Data!NoDraft \/ draft[w] \in Drafts
  BY DEF DataTypes, Data!NoDraft, Drafts
<1>2. ASSUME NEW r \in Records, NEW a \in Data!Places, Data!OpenNew(w, r, a) PROVE Drafting(w)
  <2> DEFINE d == [open |-> TRUE, new |-> TRUE, id |-> r, at |-> a, refs |-> {}]
  <2>1. d \in Drafts /\ d.open /\ d.new /\ d.id = r
    BY DEF Drafts
  <2>2. /\ draft' = [draft EXCEPT ![w] = d] /\ r \notin drawn /\ drawn' = drawn \union {r}
        /\ ~Data!Busy(w) /\ cache' = cache
        /\ UNCHANGED <<files, table, job, kept, rows, begun, races, crashes, actors>>
    BY <1>2 DEF Data!OpenNew, Data!disk, Data!past
  <2> HIDE DEF d
  <2>3. QED
    BY <2>1, <2>2 DEF Drafting
<1>3. ASSUME NEW r \in Records, Data!Open(w, r) PROVE Drafting(w)
  <2>1. PICK a \in Data!Places :
          /\ Data!Matches(r) = {a}
          /\ draft' = [draft EXCEPT ![w] =
               [open |-> TRUE, new |-> FALSE, id |-> r, at |-> a, refs |-> files[a].refs]]
    BY <1>3 DEF Data!Open
  <2> DEFINE d == [open |-> TRUE, new |-> FALSE, id |-> r, at |-> a, refs |-> files[a].refs]
  <2>2. a \in Data!Copies(r) /\ files[a] \in RecVals
    BY <2>1 DEF Data!Matches, Data!LiveAt, Data!Copies, Data!HoldsRec, Data!Whole, DataTypes,
                FileVals, Data!Absent, Data!Torn
  <2>3. d \in Drafts /\ d.open /\ ~d.new /\ d.id = r
    BY <2>2 DEF Drafts, RecVals
  <2>4. /\ draft' = [draft EXCEPT ![w] = d] /\ UNCHANGED drawn
        /\ ~Data!Busy(w) /\ cache' = cache
        /\ UNCHANGED <<files, table, job, kept, rows, begun, races, crashes, actors>>
    BY <1>3, <2>1 DEF Data!Open, Data!disk, Data!past
  <2> HIDE DEF d
  <2>5. QED
    BY <2>2, <2>3, <2>4 DEF Drafting
<1>4. ASSUME NEW a \in Data!Places, Data!Rename(w, a) PROVE Drafting(w)
  <2> DEFINE d == [draft[w] EXCEPT !.at = a]
  <2>1. draft[w].open /\ draft[w] \in Drafts
    BY <1>1, <1>4 DEF Data!Rename
  <2>2. d \in Drafts /\ d.open /\ d.id = draft[w].id /\ d.new = draft[w].new
    BY <2>1 DEF Drafts
  <2>3. /\ draft' = [draft EXCEPT ![w] = d] /\ UNCHANGED drawn
        /\ ~Data!Busy(w) /\ cache' = cache
        /\ UNCHANGED <<files, table, job, kept, rows, begun, races, crashes, actors>>
    BY <1>4, <2>1 DEF Data!Rename, Data!disk, Data!past
  <2> HIDE DEF d
  <2>4. QED
    BY <2>1, <2>2, <2>3 DEF Drafting
<1>5. ASSUME NEW s \in Slugs, Data!PointAt(w, s) \/ Data!PointAway(w, s) PROVE Drafting(w)
  <2>1. draft[w].open /\ draft[w] \in Drafts
    BY <1>1, <1>5 DEF Data!PointAt, Data!PointAway
  <2>2. ASSUME NEW refs \in SUBSET Slugs, draft' = [draft EXCEPT ![w].refs = refs]
        PROVE  \E d \in Drafts : /\ draft' = [draft EXCEPT ![w] = d] /\ d.open /\ d.id = draft[w].id
                                 /\ d.new = draft[w].new
    <3> DEFINE d == [draft[w] EXCEPT !.refs = refs]
    <3>1. d \in Drafts /\ d.open /\ d.id = draft[w].id /\ d.new = draft[w].new
      BY <2>1 DEF Drafts
    <3>2. draft' = [draft EXCEPT ![w] = d]
      BY <2>2
    <3> HIDE DEF d
    <3>3. QED
      BY <3>1, <3>2
  <2>3. draft[w].refs \in SUBSET Slugs
    BY <2>1 DEF Drafts
  <2>4. \E refs \in SUBSET Slugs : draft' = [draft EXCEPT ![w].refs = refs]
    <3>1. CASE Data!PointAt(w, s)
      <4>1. draft[w].refs \union {s} \in SUBSET Slugs
        BY <2>3
      <4>2. draft' = [draft EXCEPT ![w].refs = draft[w].refs \union {s}]
        BY <3>1 DEF Data!PointAt
      <4>3. QED
        BY <4>1, <4>2
    <3>2. CASE Data!PointAway(w, s)
      <4>1. draft[w].refs \ {s} \in SUBSET Slugs
        BY <2>3
      <4>2. draft' = [draft EXCEPT ![w].refs = draft[w].refs \ {s}]
        BY <3>2 DEF Data!PointAway
      <4>3. QED
        BY <4>1, <4>2
    <3>3. QED
      BY <1>5, <3>1, <3>2
  <2>5. /\ ~Data!Busy(w) /\ UNCHANGED drawn
        /\ cache' = cache \/ (cache' = [cache EXCEPT ![w] = Data!View(w)] /\ Data!CanView(w))
        /\ UNCHANGED <<files, table, job, kept, rows, begun, races, crashes, actors>>
    BY <1>5 DEF Data!PointAt, Data!PointAway, Data!Look, Data!disk, Data!past
  <2>6. QED
    BY <2>1, <2>2, <2>4, <2>5 DEF Drafting
<1>6. CASE Data!Leave(w) \/ Data!SaveOfNone(w)
  BY <1>6 DEF Data!Leave, Data!SaveOfNone, Drafting, Data!disk, Data!past
<1>7. QED
  BY <1>2, <1>3, <1>4, <1>5, <1>6

\* The operations that begin, by the job they leave: a record of a draft, or
\* of a file that has it, and a table.
BeginsRecord(w, j) ==
  /\ Data!Begins(w) /\ j \in RecordJobs /\ j.phase = "checked" /\ job' = [job EXCEPT ![w] = j]
  /\ \/ /\ draft[w].open /\ draft[w].new /\ j.val.id = draft[w].id
        /\ j.old = j.file /\ files[j.file] = Data!Absent
     \/ /\ Data!Copies(j.val.id) # {} /\ j.old = Data!Min(Data!Copies(j.val.id))
        /\ j.old = j.file \/ files[j.file] = Data!Absent
  /\ kept' \subseteq kept
  /\ \/ j.val.retired /\ cache' = cache
     \/ /\ Data!CanView(w) /\ j.val.refs \subseteq Data!SlugsOf(Data!View(w))
        /\ cache' = [cache EXCEPT ![w] = Data!View(w)]
  /\ UNCHANGED <<files, table, draft, drawn, rows, crashes>>
BeginsTable(w, t) ==
  /\ Data!Begins(w) /\ job' = [job EXCEPT ![w] = Data!TableJob(t)]
  /\ Data!Readable /\ GoodTable(t)
  /\ \E s : \A x \in t : x \in table \/ x.slug = s
  /\ \E i : \A x \in table : x \in t \/ x.id = i
  /\ \/ table \subseteq t
     \/ \E row \in Data!View(w) : /\ Data!CanView(w) /\ Data!Holders(row.slug) = {}
                                  /\ t = {x \in table : x.id # row.id}
  /\ cache' = [cache EXCEPT ![w] = table]
  /\ UNCHANGED <<files, table, draft, drawn, kept, rows, crashes>>
Deletes(w) ==
  /\ Data!Begins(w)
  /\ \E r \in Records, a \in Data!Places :
       /\ Data!HoldsRec(a, r) /\ files' = [files EXCEPT ![a] = Data!Absent]
       /\ kept' = kept \ {r}
  /\ UNCHANGED <<table, cache, draft, job, drawn, rows, crashes>>

LEMMA RetiredIs ==
  ASSUME NEW x \in RecVals
  PROVE  /\ [x EXCEPT !.retired = TRUE] \in RecVals /\ [x EXCEPT !.retired = TRUE].id = x.id
         /\ [x EXCEPT !.retired = TRUE].retired
  BY DEF RecVals

LEMMA RecordJobIs ==
  ASSUME NEW a \in Data!Places, NEW x \in RecVals, NEW o \in Data!Places
  PROVE  /\ Data!RecordJob(a, x, o) \in RecordJobs /\ Data!RecordJob(a, x, o).phase = "checked"
         /\ Data!RecordJob(a, x, o).val = x /\ Data!RecordJob(a, x, o).old = o
         /\ Data!RecordJob(a, x, o).file = a
  BY DEF Data!RecordJob, RecordJobs

LEMMA OneMatch ==
  ASSUME NEW r, Data!Cardinality(Data!Matches(r)) = 1
  PROVE  Data!Copies(r) # {}
<1>1. Data!Matches(r) # {}
  BY DataLibrary, FS_EmptySet
<1>2. QED
  BY <1>1 DEF Data!Matches, Data!Copies, Data!HoldsRec, Data!LiveAt

LEMMA BeginsRecordIs ==
  ASSUME DataTypes, NEW w \in Procs,
         \/ Data!Create(w) \/ Data!Replace(w) \/ \E r \in Records : Data!DeleteSoft(w, r)
  PROVE  \E j \in RecordJobs : BeginsRecord(w, j)
<1>1. draft[w].open => draft[w] \in Drafts
  BY DEF DataTypes, Data!NoDraft
<1>2. CASE Data!Create(w)
  <2> DEFINE x == [state |-> "whole", id |-> draft[w].id, refs |-> draft[w].refs, retired |-> FALSE]
             j == Data!RecordJob(draft[w].at, x, draft[w].at)
  <2>1. draft[w].open /\ draft[w].new /\ draft[w] \in Drafts
    BY <1>1, <1>2 DEF Data!Create
  <2>2. x \in RecVals /\ x.id = draft[w].id /\ x.refs = draft[w].refs /\ draft[w].at \in Data!Places
    BY <2>1 DEF RecVals, Drafts
  <2>3. /\ Data!Begins(w) /\ job' = [job EXCEPT ![w] = j]
        /\ Data!CanView(w) /\ draft[w].refs \subseteq Data!SlugsOf(Data!View(w))
        /\ cache' = [cache EXCEPT ![w] = Data!View(w)]
        /\ files[draft[w].at] = Data!Absent
        /\ UNCHANGED <<files, table, draft, drawn, kept, rows, crashes>>
    BY <1>2 DEF Data!Create, Data!NoProblems, Data!Look, Data!disk
  <2> HIDE DEF x
  <2>4. /\ j \in RecordJobs /\ j.phase = "checked" /\ j.val = x /\ j.old = j.file
        /\ j.file = draft[w].at
    BY <2>2, RecordJobIs
  <2> HIDE DEF j
  <2>5. QED
    BY <2>1, <2>2, <2>3, <2>4 DEF BeginsRecord
<1>3. CASE Data!Replace(w)
  <2> DEFINE o == Data!Min(Data!Copies(draft[w].id))
             x == [state |-> "whole", id |-> draft[w].id, refs |-> draft[w].refs,
                   retired |-> files[o].retired]
             j == Data!RecordJob(draft[w].at, x, o)
  <2>1. draft[w].open /\ draft[w] \in Drafts /\ Data!Copies(draft[w].id) # {}
    BY <1>1, <1>3 DEF Data!Replace
  <2>2. o \in Data!Places /\ files[o] \in RecVals
    BY <2>1, CopiesIn
  <2>3. /\ Data!Begins(w) /\ job' = [job EXCEPT ![w] = j]
        /\ Data!CanView(w) /\ draft[w].refs \subseteq Data!SlugsOf(Data!View(w))
        /\ cache' = [cache EXCEPT ![w] = Data!View(w)]
        /\ o = draft[w].at \/ files[draft[w].at] = Data!Absent
        /\ UNCHANGED <<files, table, draft, drawn, kept, rows, crashes>>
    BY <1>3 DEF Data!Replace, Data!NoProblems, Data!Look, Data!MayMove, Data!disk
  <2> HIDE DEF o
  <2>4. x \in RecVals /\ x.id = draft[w].id /\ x.refs = draft[w].refs /\ draft[w].at \in Data!Places
    BY <2>1, <2>2 DEF RecVals, Drafts
  <2> HIDE DEF x
  <2>5. /\ j \in RecordJobs /\ j.phase = "checked" /\ j.val = x /\ j.old = o
        /\ j.file = draft[w].at
    BY <2>2, <2>4, RecordJobIs
  <2> HIDE DEF j
  <2>6. Data!Copies(j.val.id) # {} /\ j.old = Data!Min(Data!Copies(j.val.id))
    BY <2>1, <2>4, <2>5 DEF o
  <2>7. QED
    BY <2>3, <2>4, <2>5, <2>6 DEF BeginsRecord
<1>4. ASSUME NEW r \in Records, Data!DeleteSoft(w, r) PROVE \E j \in RecordJobs : BeginsRecord(w, j)
  <2> DEFINE o == Data!Min(Data!Copies(r))
             x == [files[o] EXCEPT !.retired = TRUE]
             j == Data!RecordJob(o, x, o)
  <2>1. Data!Copies(r) # {}
    BY <1>4, OneMatch DEF Data!DeleteSoft
  <2>2. o \in Data!Places /\ files[o] \in RecVals /\ files[o].id = r
    BY <2>1, CopiesIn
  <2>3. /\ Data!Begins(w) /\ job' = [job EXCEPT ![w] = j] /\ cache' = cache
        /\ kept' \subseteq kept
        /\ UNCHANGED <<files, table, draft, drawn, rows, crashes>>
    BY <1>4 DEF Data!DeleteSoft, Data!disk
  <2>4. x \in RecVals /\ x.id = r /\ x.retired
    BY <2>2, RetiredIs
  <2>5. j \in RecordJobs /\ j.phase = "checked" /\ j.val = x /\ j.old = o /\ j.file = o
    BY <2>2, <2>4, RecordJobIs
  <2>6. Data!Copies(j.val.id) # {} /\ j.old = Data!Min(Data!Copies(j.val.id))
    BY <2>1, <2>4, <2>5
  <2> HIDE DEF x, o, j
  <2>7. QED
    BY <2>3, <2>4, <2>5, <2>6 DEF BeginsRecord
<1>5. QED
  BY <1>2, <1>3, <1>4

LEMMA BeginsTableIs ==
  ASSUME DataTypes, NEW w \in Procs,
         \/ \E s \in Slugs : Data!AddRow(w, s)
         \/ Data!CanView(w) /\ \E row \in Data!View(w) : Data!RewriteRow(w, row) \/ Data!DeleteRow(w, row)
  PROVE  \E t : BeginsTable(w, t)
<1>1. Data!Readable => GoodTable(table)
  BY DEF DataTypes, Data!Readable
<1>2. ASSUME NEW s \in Slugs, Data!AddRow(w, s) PROVE \E t : BeginsTable(w, t)
  <2> DEFINE row == [id |-> Data!NextId(table), slug |-> s]
             t == table \union {row}
  <2>1. /\ Data!Begins(w) /\ job' = [job EXCEPT ![w] = Data!TableJob(t)] /\ Data!Readable
        /\ cache' = [cache EXCEPT ![w] = table]
        /\ UNCHANGED <<files, table, draft, drawn, kept, rows, crashes>>
    BY <1>2 DEF Data!AddRow, Data!disk
  <2>2. GoodTable(table) /\ Data!NextId(table) \in Nat /\ \A x \in table : x.id < Data!NextId(table)
    BY <1>1, <2>1, NextIdIs
  <2>3. row \in Rows /\ row.id = Data!NextId(table)
    BY <2>2 DEF Rows
  <2> HIDE DEF row
  <2>4. /\ t \subseteq Rows
        /\ \A x \in t : x.id <= Data!NextId(table)
        /\ \A x, y \in t : x.id = y.id => x = y
    BY <2>2, <2>3 DEF GoodTable, Rows
  <2>5. GoodTable(t)
    BY <2>2, <2>4 DEF GoodTable
  <2>6. QED
    BY <2>1, <2>5 DEF BeginsTable
<1>3. ASSUME NEW row \in Data!View(w), Data!CanView(w), Data!RewriteRow(w, row)
      PROVE  \E t : BeginsTable(w, t)
  <2>1. BeginsTable(w, table)
    BY <1>1, <1>3 DEF Data!RewriteRow, Data!disk, BeginsTable
  <2>2. QED
    BY <2>1
<1>4. ASSUME NEW row \in Data!View(w), Data!CanView(w), Data!DeleteRow(w, row)
      PROVE  \E t : BeginsTable(w, t)
  <2> DEFINE t == {x \in table : x.id # row.id}
  <2>1. /\ Data!Begins(w) /\ job' = [job EXCEPT ![w] = Data!TableJob(t)] /\ Data!Readable
        /\ cache' = [cache EXCEPT ![w] = table] /\ Data!Holders(row.slug) = {}
        /\ UNCHANGED <<files, table, draft, drawn, kept, rows, crashes>>
    BY <1>4 DEF Data!DeleteRow, Data!disk
  <2>2. GoodTable(t)
    BY <1>1, <2>1 DEF GoodTable
  <2>3. QED
    BY <1>4, <2>1, <2>2 DEF BeginsTable
<1>5. QED
  BY <1>2, <1>3, <1>4

LEMMA DeletesIs ==
  ASSUME DataTypes, NEW w \in Procs, NEW r \in Records, Data!DeleteHard(w, r)
  PROVE  Deletes(w)
<1>1. Data!Copies(r) # {}
  BY OneMatch DEF Data!DeleteHard
<1>2. Data!Min(Data!Copies(r)) \in Data!Places /\ Data!HoldsRec(Data!Min(Data!Copies(r)), r)
  BY <1>1, CopiesIn DEF Data!Copies
<1>3. QED
  BY <1>2 DEF Data!DeleteHard, Deletes, Data!mind

LEMMA DataNextSplits ==
  ASSUME DataTypes, Data!Next
  PROVE  \E w \in Procs :
           \/ Drafting(w) \/ Deletes(w)
           \/ (\E j \in RecordJobs : BeginsRecord(w, j)) \/ (\E t : BeginsTable(w, t))
           \/ Data!Truncate(w) \/ Data!FillRecord(w) \/ Data!Unlink(w) \/ Data!FillTable(w)
           \/ Data!Crash(w)
  BY DraftingIs, BeginsRecordIs, BeginsTableIs, DeletesIs
     DEF Data!Next, Data!Opens, Data!Edits, Data!Writes

\* The writes, by what they do to the job, the files and the table.
LEMMA PhaseIs ==
  ASSUME NEW j \in RecordJobs, NEW x \in {"checked", "opened", "written"}
  PROVE  /\ [j EXCEPT !.phase = x] \in RecordJobs /\ [j EXCEPT !.phase = x].phase = x
         /\ [j EXCEPT !.phase = x].val = j.val /\ [j EXCEPT !.phase = x].file = j.file
         /\ [j EXCEPT !.phase = x].old = j.old
  BY DEF RecordJobs

LEMMA TablePhaseIs ==
  ASSUME NEW j \in TableJobs
  PROVE  /\ [j EXCEPT !.phase = "opened"] \in TableJobs
         /\ [j EXCEPT !.phase = "opened"].val = j.val
  BY DEF TableJobs

TruncatesRecord(w) ==
  /\ job[w] \in RecordJobs /\ job[w].phase = "checked"
  /\ job' = [job EXCEPT ![w] = [job[w] EXCEPT !.phase = "opened"]]
  /\ files' = [files EXCEPT ![job[w].file] = Data!Torn]
  /\ UNCHANGED <<table, cache, draft, drawn, kept, rows, races, crashes, actors>>
TruncatesTable(w) ==
  /\ job[w] \in TableJobs
  /\ job' = [job EXCEPT ![w] = [job[w] EXCEPT !.phase = "opened"]]
  /\ table' = Data!TornTable
  /\ UNCHANGED <<files, cache, draft, drawn, kept, rows, races, crashes, actors>>
FillsRecord(w) ==
  /\ job[w] \in RecordJobs /\ job[w].phase = "opened"
  /\ files' = [files EXCEPT ![job[w].file] = job[w].val]
  /\ \/ job[w].old = job[w].file /\ job' = [job EXCEPT ![w] = Data!Idle]
     \/ /\ job[w].old # job[w].file
        /\ job' = [job EXCEPT ![w] = [job[w] EXCEPT !.phase = "written"]]
  /\ draft' = [draft EXCEPT ![w] = Data!NoDraft]
  /\ kept' \subseteq kept \union {job[w].val.id}
  /\ UNCHANGED <<table, cache, drawn, rows, races, crashes, actors>>
Unlinks(w) ==
  /\ job[w] \in RecordJobs /\ job[w].phase = "written"
  /\ files' = [files EXCEPT ![job[w].old] = Data!Absent]
  /\ job' = [job EXCEPT ![w] = Data!Idle]
  /\ UNCHANGED <<table, cache, draft, drawn, kept, rows, races, crashes, actors>>
FillsTable(w) ==
  /\ job[w] \in TableJobs /\ table' = job[w].val /\ GoodTable(job[w].val)
  /\ cache' = [cache EXCEPT ![w] = job[w].val]
  /\ rows' = (rows \ (Data!SlugsOf(cache[w]) \ Data!SlugsOf(job[w].val)))
               \union Data!SlugsOf(job[w].val)
  /\ job' = [job EXCEPT ![w] = Data!Idle]
  /\ UNCHANGED <<files, draft, drawn, kept, races, crashes, actors>>
Dies(w) ==
  /\ Data!Busy(w) /\ crashes' = crashes + 1
  /\ job' = [job EXCEPT ![w] = Data!Idle]
  /\ draft' = [draft EXCEPT ![w] = Data!NoDraft]
  /\ cache' = [cache EXCEPT ![w] = Data!NoCache]
  /\ UNCHANGED <<files, table, drawn, kept, rows, races, actors>>
WritesOn(w) ==
  \/ TruncatesRecord(w) \/ TruncatesTable(w) \/ FillsRecord(w) \/ Unlinks(w) \/ FillsTable(w)
  \/ Dies(w)

LEMMA WritesAre ==
  ASSUME DataTypes, NEW w \in Procs,
         \/ Data!Truncate(w) \/ Data!FillRecord(w) \/ Data!Unlink(w) \/ Data!FillTable(w)
         \/ Data!Crash(w)
  PROVE  WritesOn(w)
<1>1. CASE Data!Truncate(w)
  <2>1. CASE job[w].kind = "record"
    BY <1>1, <2>1, JobsAre DEF Data!Truncate, Data!past, WritesOn, TruncatesRecord
  <2>2. CASE job[w].kind # "record"
    BY <1>1, <2>2, JobsAre DEF Data!Truncate, Data!past, WritesOn, TruncatesTable
  <2>3. QED
    BY <2>1, <2>2
<1>2. CASE Data!FillRecord(w)
  BY <1>2, JobsAre DEF Data!FillRecord, WritesOn, FillsRecord
<1>3. CASE Data!Unlink(w)
  BY <1>3, JobsAre DEF Data!Unlink, Data!past, WritesOn, Unlinks
<1>4. CASE Data!FillTable(w)
  BY <1>4, JobsAre DEF Data!FillTable, WritesOn, FillsTable
<1>5. CASE Data!Crash(w)
  BY <1>5 DEF Data!Crash, Data!disk, WritesOn, Dies
<1>6. QED
  BY <1>1, <1>2, <1>3, <1>4, <1>5

LEMMA DataSteps ==
  ASSUME DataTypes, Data!Next
  PROVE  \E w \in Procs :
           \/ Drafting(w) \/ Deletes(w)
           \/ (\E j \in RecordJobs : BeginsRecord(w, j)) \/ (\E t : BeginsTable(w, t))
           \/ WritesOn(w)
  BY DataNextSplits, WritesAre

LEMMA DataTypesStep == DataTypes /\ [Data!Next]_data => DataTypes'
<1> SUFFICES ASSUME DataTypes, [Data!Next]_data PROVE DataTypes'
  OBVIOUS
<1> DEFINE Jobs == {Data!Idle} \union RecordJobs \union TableJobs
<1>1. /\ files \in [Data!Places -> FileVals] /\ (table = Data!TornTable \/ GoodTable(table))
      /\ cache = [w \in Procs |-> cache[w]]
      /\ \A w \in Procs : cache[w] = Data!NoCache \/ GoodTable(cache[w])
      /\ draft \in [Procs -> {Data!NoDraft} \union Drafts]
      /\ job \in [Procs -> Jobs]
      /\ races \in Nat /\ crashes \in Nat
      /\ Data!Absent \in FileVals /\ Data!Torn \in FileVals /\ RecVals \subseteq FileVals
      /\ Data!Idle \in Jobs /\ RecordJobs \subseteq Jobs /\ TableJobs \subseteq Jobs
  BY DEF DataTypes, FileVals
<1>2. ASSUME NEW w \in Procs, NEW c, cache' = [cache EXCEPT ![w] = c],
             c = Data!NoCache \/ GoodTable(c)
      PROVE  /\ cache' = [v \in Procs |-> cache'[v]]
             /\ \A v \in Procs : cache'[v] = Data!NoCache \/ GoodTable(cache'[v])
  BY <1>1, <1>2
<1>3. CASE UNCHANGED data
  BY <1>1, <1>3 DEF data, DataTypes
<1>4. ASSUME NEW w \in Procs, Drafting(w) PROVE DataTypes'
  <2>1. /\ cache' = [v \in Procs |-> cache'[v]]
        /\ \A v \in Procs : cache'[v] = Data!NoCache \/ GoodTable(cache'[v])
    BY <1>1, <1>2, <1>4, ViewIs DEF Drafting
  <2>2. draft' \in [Procs -> {Data!NoDraft} \union Drafts]
    BY <1>1, <1>4 DEF Drafting
  <2>3. UNCHANGED <<files, table, job, races, crashes>>
    BY <1>4 DEF Drafting
  <2>4. QED
    BY <1>1, <2>1, <2>2, <2>3 DEF DataTypes
<1>5. ASSUME NEW w \in Procs, Deletes(w) PROVE DataTypes'
  <2>1. files' \in [Data!Places -> FileVals] /\ races' \in Nat
        /\ UNCHANGED <<table, cache, draft, job, crashes>>
    BY <1>1, <1>5, BeginsTypes DEF Deletes
  <2>2. QED
    BY <1>1, <2>1 DEF DataTypes
<1>6. ASSUME NEW w \in Procs, NEW j \in RecordJobs, BeginsRecord(w, j) PROVE DataTypes'
  <2>1. /\ cache' = [v \in Procs |-> cache'[v]]
        /\ \A v \in Procs : cache'[v] = Data!NoCache \/ GoodTable(cache'[v])
    BY <1>1, <1>2, <1>6, ViewIs DEF BeginsRecord
  <2>2. job' \in [Procs -> Jobs] /\ races' \in Nat /\ UNCHANGED <<files, table, draft, crashes>>
    BY <1>1, <1>6, BeginsTypes DEF BeginsRecord
  <2>3. QED
    BY <1>1, <2>1, <2>2 DEF DataTypes
<1>7. ASSUME NEW w \in Procs, NEW t, BeginsTable(w, t) PROVE DataTypes'
  <2>1. GoodTable(table)
    BY <1>1, <1>7 DEF BeginsTable, Data!Readable
  <2>2. /\ cache' = [v \in Procs |-> cache'[v]]
        /\ \A v \in Procs : cache'[v] = Data!NoCache \/ GoodTable(cache'[v])
    BY <1>2, <1>7, <2>1 DEF BeginsTable
  <2>3. Data!TableJob(t) \in TableJobs
    BY <1>7 DEF BeginsTable, Data!TableJob, TableJobs, GoodTable
  <2>4. job' \in [Procs -> Jobs] /\ races' \in Nat /\ UNCHANGED <<files, table, draft, crashes>>
    BY <1>1, <1>7, <2>3, BeginsTypes DEF BeginsTable
  <2>5. QED
    BY <1>1, <2>2, <2>4 DEF DataTypes
<1>8. ASSUME NEW w \in Procs, TruncatesRecord(w) PROVE DataTypes'
  <2>1. job' \in [Procs -> Jobs] /\ files' \in [Data!Places -> FileVals]
    BY <1>1, <1>8, PhaseIs DEF TruncatesRecord
  <2>2. QED
    BY <1>1, <1>8, <2>1 DEF TruncatesRecord, DataTypes
<1>9. ASSUME NEW w \in Procs, TruncatesTable(w) PROVE DataTypes'
  <2>1. job' \in [Procs -> Jobs]
    BY <1>1, <1>9, TablePhaseIs DEF TruncatesTable
  <2>2. QED
    BY <1>1, <1>9, <2>1 DEF TruncatesTable, DataTypes
<1>10. ASSUME NEW w \in Procs, FillsRecord(w) PROVE DataTypes'
  <2>1. job' \in [Procs -> Jobs]
    BY <1>1, <1>10, PhaseIs DEF FillsRecord
  <2>2. files' \in [Data!Places -> FileVals] /\ draft' \in [Procs -> {Data!NoDraft} \union Drafts]
    <3>1. job[w].val \in RecVals
      BY <1>10 DEF FillsRecord, RecordJobs
    <3>2. QED
      BY <1>1, <1>10, <3>1 DEF FillsRecord
  <2>3. QED
    BY <1>1, <1>10, <2>1, <2>2 DEF FillsRecord, DataTypes
<1>11. ASSUME NEW w \in Procs, Unlinks(w) PROVE DataTypes'
  BY <1>1, <1>11 DEF Unlinks, DataTypes
<1>12. ASSUME NEW w \in Procs, FillsTable(w) PROVE DataTypes'
  <2>1. /\ cache' = [v \in Procs |-> cache'[v]]
        /\ \A v \in Procs : cache'[v] = Data!NoCache \/ GoodTable(cache'[v])
    BY <1>2, <1>12 DEF FillsTable
  <2>2. QED
    BY <1>1, <1>12, <2>1 DEF FillsTable, DataTypes
<1>13. ASSUME NEW w \in Procs, Dies(w) PROVE DataTypes'
  <2>1. /\ cache' = [v \in Procs |-> cache'[v]]
        /\ \A v \in Procs : cache'[v] = Data!NoCache \/ GoodTable(cache'[v])
    BY <1>2, <1>13 DEF Dies
  <2>2. QED
    BY <1>1, <1>13, <2>1 DEF Dies, DataTypes
<1>14. QED
  BY <1>3, <1>4, <1>5, <1>6, <1>7, <1>8, <1>9, <1>10, <1>11, <1>12, <1>13, DataSteps DEF WritesOn


-----------------------------------------------------------------------------
\* A draft of a new record has an id nobody else has.
JobOn(w, r) == job[w].kind = "record" /\ job[w].val.id = r
Drawn ==
  /\ \A a \in Data!Places : Data!Whole(a) => files[a].id \in drawn
  /\ \A w \in Procs : draft[w].open => draft[w].id \in drawn
  /\ \A w \in Procs : job[w].kind = "record" => job[w].val.id \in drawn
Unborn == \A w \in Procs : draft[w].open /\ draft[w].new =>
  /\ \A a \in Data!Places : ~Data!HoldsRec(a, draft[w].id)
  /\ \A v \in Procs : v # w => /\ draft[v].open => draft[v].id # draft[w].id
                               /\ ~JobOn(v, draft[w].id)

LEMMA DrawnInit == Data!Init => Drawn /\ Unborn
  BY DEF Data!Init, Drawn, Unborn, Data!Whole, Data!Absent, Data!NoDraft, Data!Idle

\* A process takes a job on a record that has a draft or a file, or none.
LEMMA JobsOn ==
  ASSUME DataTypes, NEW w \in Procs, NEW j \in RecordJobs, BeginsRecord(w, j)
  PROVE  /\ job[w] = Data!Idle /\ job'[w] = j /\ \A v \in Procs : v # w => job'[v] = job[v]
         /\ \/ draft[w].open /\ j.val.id = draft[w].id
            \/ \E a \in Data!Places : Data!HoldsRec(a, j.val.id)
         /\ j.kind = "record"
<1>1. job[w] = Data!Idle /\ job \in [Procs -> {Data!Idle} \union RecordJobs \union TableJobs]
  BY BeginsTypes DEF BeginsRecord, DataTypes
<1>2. job' = [job EXCEPT ![w] = j] /\ j.kind = "record"
  BY DEF BeginsRecord, RecordJobs
<1>3. \/ draft[w].open /\ j.val.id = draft[w].id
      \/ \E a \in Data!Places : Data!HoldsRec(a, j.val.id)
  BY DEF BeginsRecord, Data!Copies
<1>4. QED
  BY <1>1, <1>2, <1>3

\* Nothing is saved that no job was saving.
LEMMA DrawnSame ==
  ASSUME DataTypes, Drawn, Unborn, UNCHANGED drawn,
         \A w \in Procs : draft'[w] = draft[w] \/ draft'[w] = Data!NoDraft,
         \A a \in Data!Places : Data!Whole(a)' =>
           (Data!Whole(a) /\ files'[a] = files[a])
           \/ (\E w \in Procs : JobOn(w, files'[a].id) /\ draft'[w] = Data!NoDraft),
         \A w \in Procs : job'[w].kind = "record" => JobOn(w, job'[w].val.id)
  PROVE  Drawn' /\ Unborn'
<1>1. ~Data!NoDraft.open
  BY DEF Data!NoDraft
<1>2. Drawn'
  BY <1>1 DEF Drawn, JobOn
<1>3. Unborn'
  <2> SUFFICES ASSUME NEW w \in Procs, draft'[w].open, draft'[w].new
               PROVE  /\ \A a \in Data!Places : ~(Data!Whole(a)' /\ files'[a].id = draft'[w].id)
                      /\ \A v \in Procs : v # w =>
                           /\ draft'[v].open => draft'[v].id # draft'[w].id
                           /\ ~(job'[v].kind = "record" /\ job'[v].val.id = draft'[w].id)
    BY DEF Unborn, Data!HoldsRec, JobOn
  <2>1. draft'[w] = draft[w] /\ draft[w].open /\ draft[w].new
    BY <1>1
  <2>2. ASSUME NEW a \in Data!Places, Data!Whole(a)' PROVE files'[a].id # draft[w].id
    <3>1. CASE Data!Whole(a) /\ files'[a] = files[a]
      BY <2>1, <3>1 DEF Unborn, Data!HoldsRec
    <3>2. ASSUME NEW v \in Procs, JobOn(v, files'[a].id), draft'[v] = Data!NoDraft
          PROVE  files'[a].id # draft[w].id
      <4>1. v # w
        BY <1>1, <3>2
      <4>2. QED
        BY <2>1, <3>2, <4>1 DEF Unborn
    <3>3. QED
      BY <2>2, <3>1, <3>2
  <2>3. ASSUME NEW v \in Procs, v # w
        PROVE  /\ draft'[v].open => draft'[v].id # draft'[w].id
               /\ ~(job'[v].kind = "record" /\ job'[v].val.id = draft'[w].id)
    BY <1>1, <2>1, <2>3 DEF Unborn, JobOn
  <2>4. QED
    BY <2>1, <2>2, <2>3
<1>4. QED
  BY <1>2, <1>3

LEMMA DrawnStep == DataTypes /\ Drawn /\ Unborn /\ [Data!Next]_data => Drawn' /\ Unborn'
<1> SUFFICES ASSUME DataTypes, Drawn, Unborn, [Data!Next]_data PROVE Drawn' /\ Unborn'
  OBVIOUS
<1>1. /\ files \in [Data!Places -> FileVals] /\ draft \in [Procs -> {Data!NoDraft} \union Drafts]
      /\ job \in [Procs -> {Data!Idle} \union RecordJobs \union TableJobs]
      /\ ~Data!NoDraft.open /\ Data!Idle.kind # "record"
      /\ Data!Absent.state # "whole" /\ Data!Torn.state # "whole"
  BY DEF DataTypes, Data!NoDraft, Data!Idle, Data!Absent, Data!Torn
<1>2. CASE UNCHANGED data
  BY <1>2, DrawnSame DEF data, Data!Whole, JobOn
<1>3. ASSUME NEW w \in Procs, Drafting(w) PROVE Drawn' /\ Unborn'
  <2>1. PICK d \in {Data!NoDraft} \union Drafts :
          /\ draft' = [draft EXCEPT ![w] = d]
          /\ \/ d = Data!NoDraft /\ UNCHANGED drawn
             \/ d.open /\ d.new /\ d.id \notin drawn /\ drawn' = drawn \union {d.id}
             \/ d.open /\ ~d.new /\ Data!Copies(d.id) # {} /\ UNCHANGED drawn
             \/ /\ d.open /\ draft[w].open /\ d.id = draft[w].id /\ (d.new <=> draft[w].new)
                /\ UNCHANGED drawn
    BY <1>3 DEF Drafting
  <2>2. /\ UNCHANGED <<files, job>> /\ draft'[w] = d /\ \A v \in Procs : v # w => draft'[v] = draft[v]
        /\ drawn \subseteq drawn'
    BY <1>1, <1>3, <2>1 DEF Drafting
  <2>3. CASE d = Data!NoDraft
    <3>1. UNCHANGED drawn
      BY <1>1, <2>1, <2>3
    <3>2. QED
      BY <2>2, <2>3, <3>1, DrawnSame DEF Data!Whole, JobOn
  <2>4. CASE d.open /\ d.new /\ d.id \notin drawn /\ drawn' = drawn \union {d.id}
    <3>1. Drawn'
      BY <2>2, <2>4 DEF Drawn, Data!Whole
    <3>2. Unborn'
      BY <1>1, <2>2, <2>4 DEF Drawn, Unborn, Data!HoldsRec, Data!Whole, JobOn
    <3>3. QED
      BY <3>1, <3>2
  <2>5. CASE d.open /\ ~d.new /\ Data!Copies(d.id) # {} /\ UNCHANGED drawn
    <3>1. PICK a \in Data!Places : Data!HoldsRec(a, d.id)
      BY <2>5 DEF Data!Copies
    <3>2. Drawn'
      BY <2>2, <2>5, <3>1 DEF Drawn, Data!Whole, Data!HoldsRec
    <3>3. Unborn'
      BY <2>2, <2>5, <3>1 DEF Unborn, Data!HoldsRec, Data!Whole, JobOn
    <3>4. QED
      BY <3>2, <3>3
  <2>6. CASE d.open /\ draft[w].open /\ d.id = draft[w].id /\ (d.new <=> draft[w].new) /\ UNCHANGED drawn
    <3>1. Drawn'
      BY <2>2, <2>6 DEF Drawn, Data!Whole
    <3>2. Unborn'
      BY <2>2, <2>6 DEF Unborn, Data!HoldsRec, Data!Whole, JobOn
    <3>3. QED
      BY <3>1, <3>2
  <2>7. QED
    BY <2>1, <2>3, <2>4, <2>5, <2>6
<1>4. ASSUME NEW w \in Procs, Deletes(w) PROVE Drawn' /\ Unborn'
  <2>1. PICK a \in Data!Places : files' = [files EXCEPT ![a] = Data!Absent]
    BY <1>4 DEF Deletes
  <2>2. \A b \in Data!Places : Data!Whole(b)' => Data!Whole(b) /\ files'[b] = files[b]
    BY <1>1, <2>1 DEF Data!Whole
  <2>3. UNCHANGED <<draft, job, drawn>>
    BY <1>4 DEF Deletes
  <2>4. QED
    BY <2>2, <2>3, DrawnSame DEF JobOn
<1>5. ASSUME NEW w \in Procs, NEW j \in RecordJobs, BeginsRecord(w, j) PROVE Drawn' /\ Unborn'
  <2>1. /\ job'[w] = j /\ \A v \in Procs : v # w => job'[v] = job[v]
        /\ \/ draft[w].open /\ j.val.id = draft[w].id
           \/ \E a \in Data!Places : Data!HoldsRec(a, j.val.id)
    BY <1>5, JobsOn
  <2>2. UNCHANGED <<files, draft, drawn>>
    BY <1>5 DEF BeginsRecord
  <2>3. Drawn'
    BY <2>1, <2>2 DEF Drawn, Data!Whole, Data!HoldsRec
  <2>4. Unborn'
    BY <2>1, <2>2 DEF Unborn, Data!HoldsRec, Data!Whole, JobOn
  <2>5. QED
    BY <2>3, <2>4
<1>6. ASSUME NEW w \in Procs, NEW t, BeginsTable(w, t) PROVE Drawn' /\ Unborn'
  <2>1. /\ job' = [job EXCEPT ![w] = Data!TableJob(t)] /\ Data!TableJob(t).kind = "table"
        /\ UNCHANGED <<files, draft, drawn>>
    BY <1>6 DEF BeginsTable, Data!TableJob
  <2>2. \A v \in Procs : job'[v].kind = "record" => JobOn(v, job'[v].val.id)
    BY <1>1, <2>1 DEF JobOn
  <2>3. QED
    BY <2>1, <2>2, DrawnSame DEF Data!Whole
<1>7. ASSUME NEW w \in Procs, TruncatesRecord(w) PROVE Drawn' /\ Unborn'
  <2>1. /\ \A v \in Procs : job'[v].kind = "record" => JobOn(v, job'[v].val.id)
        /\ \A b \in Data!Places : Data!Whole(b)' => Data!Whole(b) /\ files'[b] = files[b]
    BY <1>1, <1>7, PhaseIs DEF TruncatesRecord, JobOn, Data!Whole, RecordJobs
  <2>2. QED
    BY <1>7, <2>1, DrawnSame DEF TruncatesRecord
<1>8. ASSUME NEW w \in Procs, TruncatesTable(w) PROVE Drawn' /\ Unborn'
  <2>1. \A v \in Procs : job'[v].kind = "record" => JobOn(v, job'[v].val.id)
    BY <1>1, <1>8, TablePhaseIs DEF TruncatesTable, JobOn, TableJobs
  <2>2. QED
    BY <1>8, <2>1, DrawnSame DEF TruncatesTable, Data!Whole
<1>9. ASSUME NEW w \in Procs, FillsRecord(w) PROVE Drawn' /\ Unborn'
  <2>1. \A v \in Procs : job'[v].kind = "record" => JobOn(v, job'[v].val.id)
    BY <1>1, <1>9, PhaseIs DEF FillsRecord, JobOn, RecordJobs
  <2>2. draft'[w] = Data!NoDraft /\ \A v \in Procs : v # w => draft'[v] = draft[v]
    BY <1>1, <1>9 DEF FillsRecord
  <2>3. JobOn(w, job[w].val.id)
    BY <1>9 DEF FillsRecord, RecordJobs, JobOn
  <2>4. \A b \in Data!Places : files'[b] = files[b] \/ files'[b] = job[w].val
    BY <1>1, <1>9 DEF FillsRecord
  <2>5. QED
    BY <1>9, <2>1, <2>2, <2>3, <2>4, DrawnSame DEF FillsRecord, Data!Whole
<1>10. ASSUME NEW w \in Procs, Unlinks(w) PROVE Drawn' /\ Unborn'
  <2>1. /\ \A v \in Procs : job'[v].kind = "record" => JobOn(v, job'[v].val.id)
        /\ \A b \in Data!Places : Data!Whole(b)' => Data!Whole(b) /\ files'[b] = files[b]
    BY <1>1, <1>10 DEF Unlinks, JobOn, Data!Whole
  <2>2. QED
    BY <1>10, <2>1, DrawnSame DEF Unlinks
<1>11. ASSUME NEW w \in Procs, FillsTable(w) \/ Dies(w) PROVE Drawn' /\ Unborn'
  <2>1. /\ \A v \in Procs : job'[v].kind = "record" => JobOn(v, job'[v].val.id)
        /\ \A v \in Procs : draft'[v] = draft[v] \/ draft'[v] = Data!NoDraft
        /\ UNCHANGED <<files, drawn>>
    BY <1>1, <1>11 DEF FillsTable, Dies, JobOn
  <2>2. QED
    BY <2>1, DrawnSame DEF Data!Whole
<1>12. QED
  BY <1>2, <1>3, <1>4, <1>5, <1>6, <1>7, <1>8, <1>9, <1>10, <1>11, DataSteps DEF WritesOn

\* A record that is in order: one process at most writes it, and it is in
\* one file, or in the two of a move.  A mishap costs at most one its order.
Room(j) == IF j.phase = "written" THEN {j.old, j.file} ELSE {j.old}
Tidy(r) ==
  /\ \A v, w \in Procs : JobOn(v, r) /\ JobOn(w, r) => v = w
  /\ \A w \in Procs : JobOn(w, r) => Data!Copies(r) \subseteq Room(job[w])
  /\ (\A w \in Procs : ~JobOn(w, r)) => \E a \in Nat : Data!Copies(r) \subseteq {a}
Untidy == {r \in Records : ~Tidy(r)}
CopyInv == IsFiniteSet(Untidy) /\ Cardinality(Untidy) <= crashes + races

\* A step that takes no job on a record and adds no file of it.
LEMMA TidySame ==
  ASSUME NEW r, Tidy(r), Data!Copies(r)' \subseteq Data!Copies(r),
         \A w \in Procs : JobOn(w, r)' <=> JobOn(w, r),
         \A w \in Procs : JobOn(w, r) => Room(job'[w]) = Room(job[w])
  PROVE  Tidy(r)'
  BY DEF Tidy

LEMMA CopyInit == Data!Init => CopyInv
<1> SUFFICES ASSUME Data!Init PROVE CopyInv
  OBVIOUS
<1>1. ASSUME NEW r PROVE Tidy(r)
  <2>1. Data!Copies(r) = {} /\ \A w \in Procs : ~JobOn(w, r)
    BY DEF Data!Init, Data!Copies, Data!HoldsRec, Data!Whole, Data!Absent, JobOn, Data!Idle
  <2>2. Data!Copies(r) \subseteq {0} /\ 0 \in Nat
    BY <2>1
  <2>3. QED
    BY <2>1, <2>2 DEF Tidy
<1>2. Untidy = {}
  BY <1>1 DEF Untidy
<1>3. QED
  BY <1>2, FS_EmptySet DEF CopyInv, Data!Init

\* The counts of a step that disturbs nobody, and of a mishap.
LEMMA NobodyUntidied ==
  ASSUME CopyInv, DataTypes, \A r \in Records : Tidy(r) => Tidy(r)',
         crashes' + races' >= crashes + races, crashes' + races' \in Nat
  PROVE  CopyInv'
<1>1. Untidy' \subseteq Untidy
  BY DEF Untidy
<1>2. IsFiniteSet(Untidy') /\ Cardinality(Untidy') <= Cardinality(Untidy)
  BY <1>1, FS_Subset DEF CopyInv
<1>3. Cardinality(Untidy) \in Nat /\ Cardinality(Untidy') \in Nat
  BY <1>2, FS_CardinalityType DEF CopyInv
<1>4. QED
  BY <1>2, <1>3 DEF CopyInv, DataTypes

LEMMA CountsGo ==
  ASSUME DataTypes, races' \in Nat, races' >= races, crashes' = crashes
  PROVE  crashes' + races' >= crashes + races /\ crashes' + races' \in Nat
  BY DEF DataTypes

LEMMA OneUntidied ==
  ASSUME CopyInv, DataTypes, NEW x, \A r \in Records : r # x /\ Tidy(r) => Tidy(r)',
         crashes' + races' = crashes + races + 1
  PROVE  CopyInv'
<1>1. Untidy' \subseteq Untidy \union {x}
  BY DEF Untidy
<1>2. IsFiniteSet(Untidy \union {x}) /\ Cardinality(Untidy \union {x}) <= Cardinality(Untidy) + 1
  <2>1. Cardinality(Untidy) \in Nat
    BY FS_CardinalityType DEF CopyInv
  <2>2. QED
    BY <2>1, FS_AddElement DEF CopyInv
<1>3. IsFiniteSet(Untidy') /\ Cardinality(Untidy') <= Cardinality(Untidy \union {x})
  BY <1>1, <1>2, FS_Subset
<1>4. /\ Cardinality(Untidy) \in Nat /\ Cardinality(Untidy') \in Nat
      /\ Cardinality(Untidy \union {x}) \in Nat
  BY <1>2, <1>3, FS_CardinalityType DEF CopyInv
<1>5. QED
  BY <1>2, <1>3, <1>4 DEF CopyInv, DataTypes

\* An operation begins: alone it disturbs nobody, beside another at most its
\* own record.
LEMMA CopyBegins ==
  ASSUME DataTypes, Drawn, Unborn, CopyInv, NEW w \in Procs, NEW j \in RecordJobs, BeginsRecord(w, j)
  PROVE  CopyInv'
<1> DEFINE x == j.val.id
           beside == \E v \in Procs \ {w} : job[v] # Data!Idle
<1>1. /\ job[w] = Data!Idle /\ job'[w] = j /\ \A v \in Procs : v # w => job'[v] = job[v]
      /\ j.kind = "record" /\ j.phase = "checked" /\ ~JobOn(w, x) /\ UNCHANGED <<files, crashes>>
  <2>1. /\ job[w] = Data!Idle /\ job'[w] = j /\ \A v \in Procs : v # w => job'[v] = job[v]
        /\ j.kind = "record"
    BY JobsOn
  <2>2. ~JobOn(w, x)
    BY <2>1 DEF JobOn, Data!Idle
  <2>3. QED
    BY <2>1, <2>2 DEF BeginsRecord
<1>2. races' = (IF beside THEN races + 1 ELSE races) /\ races \in Nat /\ crashes \in Nat
  BY BeginsTypes DEF BeginsRecord, DataTypes
<1>3. \A r : Data!Copies(r)' = Data!Copies(r)
  BY <1>1 DEF Data!Copies, Data!HoldsRec, Data!Whole
<1>4. ASSUME NEW r, r # x, Tidy(r) PROVE Tidy(r)'
  <2>1. \A v \in Procs : JobOn(v, r)' <=> JobOn(v, r)
    BY <1>1, <1>4 DEF JobOn, Data!Idle
  <2>2. \A v \in Procs : JobOn(v, r) => Room(job'[v]) = Room(job[v])
    BY <1>1, <1>4 DEF JobOn, Data!Idle
  <2>3. QED
    BY <1>3, <1>4, <2>1, <2>2, TidySame
<1>5. CASE beside
  BY <1>1, <1>2, <1>4, <1>5, OneUntidied
<1>6. ASSUME ~beside, NEW r, r = x, Tidy(r) PROVE Tidy(r)'
  <2>1. \A v \in Procs : ~JobOn(v, r)
    BY <1>1, <1>6 DEF JobOn, Data!Idle
  <2>2. \A v \in Procs : JobOn(v, r)' <=> v = w
    BY <1>1, <1>6, <2>1 DEF JobOn
  <2>3. Data!Copies(r) \subseteq {j.old}
    <3>1. CASE draft[w].open /\ draft[w].new /\ j.val.id = draft[w].id
      BY <1>6, <3>1 DEF Unborn, Data!Copies
    <3>2. CASE Data!Copies(j.val.id) # {} /\ j.old = Data!Min(Data!Copies(j.val.id))
      <4>1. j.old \in Data!Copies(r)
        BY <1>6, <3>2, CopiesIn
      <4>2. PICK a \in Nat : Data!Copies(r) \subseteq {a}
        BY <1>6, <2>1 DEF Tidy
      <4>3. QED
        BY <4>1, <4>2
    <3>3. QED
      BY <3>1, <3>2 DEF BeginsRecord
  <2>4. Room(job'[w]) = {j.old}
    BY <1>1 DEF Room
  <2>5. QED
    BY <1>3, <2>2, <2>3, <2>4 DEF Tidy
<1>7. CASE ~beside
  <2>1. \A r \in Records : Tidy(r) => Tidy(r)'
    BY <1>4, <1>6, <1>7
  <2>2. QED
    BY <1>1, <1>2, <1>7, <2>1, NobodyUntidied
<1>8. QED
  BY <1>5, <1>7

\* A process fills its file, removes the old one, or dies.
LEMMA CopyFills ==
  ASSUME DataTypes, NEW w \in Procs, FillsRecord(w), NEW r, Tidy(r)
  PROVE  Tidy(r)'
<1> DEFINE j == job[w]
<1>1. /\ j \in RecordJobs /\ j.kind = "record" /\ j.phase = "opened" /\ j.file \in Data!Places
      /\ files' = [files EXCEPT ![j.file] = j.val]
      /\ \/ j.old = j.file /\ job' = [job EXCEPT ![w] = Data!Idle]
         \/ job' = [job EXCEPT ![w] = [j EXCEPT !.phase = "written"]]
  BY DEF FillsRecord, RecordJobs
<1>2. [j EXCEPT !.phase = "written"].kind = "record"
      /\ Room([j EXCEPT !.phase = "written"]) = {j.old, j.file} /\ Room(j) = {j.old}
      /\ [j EXCEPT !.phase = "written"].val = j.val
  <2>1. [j EXCEPT !.phase = "written"] \in RecordJobs
    BY <1>1, PhaseIs
  <2>2. [j EXCEPT !.phase = "written"].kind = "record"
    BY <2>1 DEF RecordJobs
  <2>3. QED
    BY <1>1, <2>2, PhaseIs DEF Room
<1>3. \A v \in Procs : v # w => job'[v] = job[v]
  BY <1>1 DEF DataTypes
<1>4. job'[w] = Data!Idle \/ job'[w] = [j EXCEPT !.phase = "written"]
  BY <1>1 DEF DataTypes
<1>5. \A a \in Data!Places : files'[a] = IF a = j.file THEN j.val ELSE files[a]
  BY <1>1 DEF DataTypes
<1>6. CASE r # j.val.id
  <2>1. Data!Copies(r)' \subseteq Data!Copies(r)
    BY <1>5, <1>6 DEF Data!Copies, Data!HoldsRec, Data!Whole
  <2>2. ~JobOn(w, r) /\ ~JobOn(w, r)'
    <3>1. job'[w].kind # "record" \/ job'[w].val = j.val
      <4>1. CASE job'[w] = Data!Idle
        BY <4>1 DEF Data!Idle
      <4>2. CASE job'[w] = [j EXCEPT !.phase = "written"]
        <5> DEFINE i == [j EXCEPT !.phase = "written"]
        <5>1. i.val = j.val /\ job'[w] = i
          BY <1>2, <4>2
        <5> HIDE DEF i
        <5>2. QED
          BY <5>1
      <4>3. QED
        BY <1>4, <4>1, <4>2
    <3>2. QED
      BY <1>6, <3>1 DEF JobOn
  <2>3. \A v \in Procs : v # w => (JobOn(v, r)' <=> JobOn(v, r)) /\ Room(job'[v]) = Room(job[v])
    BY <1>3 DEF JobOn
  <2>4. QED
    BY <2>1, <2>2, <2>3, TidySame
<1>7. CASE r = j.val.id
  <2>1. JobOn(w, r) /\ \A v \in Procs : JobOn(v, r) => v = w
    BY <1>1, <1>7 DEF JobOn, Tidy
  <2>2. Data!Copies(r) \subseteq {j.old}
    BY <1>2, <2>1 DEF Tidy
  <2>3. Data!Copies(r)' \subseteq {j.old, j.file}
    BY <1>5, <2>2 DEF Data!Copies, Data!HoldsRec, Data!Whole
  <2>4. \A v \in Procs : JobOn(v, r)' => v = w
    BY <1>3, <2>1 DEF JobOn
  <2>5. CASE j.old = j.file /\ job' = [job EXCEPT ![w] = Data!Idle]
    <3>1. job'[w] = Data!Idle
      BY <2>5 DEF DataTypes
    <3>2. \A v \in Procs : ~JobOn(v, r)'
      BY <2>4, <3>1 DEF JobOn, Data!Idle
    <3>3. j.file \in Nat
      BY <1>1, DataAmounts DEF Data!Places
    <3>4. QED
      BY <2>3, <2>5, <3>2, <3>3 DEF Tidy
  <2>6. CASE job' = [job EXCEPT ![w] = [j EXCEPT !.phase = "written"]]
    <3>1. job'[w] = [j EXCEPT !.phase = "written"]
      BY <2>6 DEF DataTypes
    <3>2. JobOn(w, r)' /\ Room(job'[w]) = {j.old, j.file}
      BY <1>2, <1>7, <3>1 DEF JobOn
    <3>3. QED
      BY <2>3, <2>4, <3>2 DEF Tidy
  <2>7. QED
    BY <1>1, <2>5, <2>6
<1>8. QED
  BY <1>6, <1>7

LEMMA CopyUnlinks ==
  ASSUME DataTypes, NEW w \in Procs, Unlinks(w), NEW r, Tidy(r)
  PROVE  Tidy(r)'
<1> DEFINE j == job[w]
<1>1. /\ j \in RecordJobs /\ j.kind = "record" /\ j.phase = "written"
      /\ j.file \in Data!Places /\ j.old \in Data!Places
      /\ files' = [files EXCEPT ![j.old] = Data!Absent]
      /\ job' = [job EXCEPT ![w] = Data!Idle]
  BY DEF Unlinks, RecordJobs
<1>2. job'[w] = Data!Idle /\ \A v \in Procs : v # w => job'[v] = job[v]
  BY <1>1 DEF DataTypes
<1>3. \A a \in Data!Places : files'[a] = IF a = j.old THEN Data!Absent ELSE files[a]
  BY <1>1 DEF DataTypes
<1>4. Data!Copies(r)' \subseteq Data!Copies(r) \ {j.old}
  BY <1>3 DEF Data!Copies, Data!HoldsRec, Data!Whole, Data!Absent
<1>5. CASE ~JobOn(w, r)
  <2>1. /\ \A v \in Procs : JobOn(v, r)' <=> JobOn(v, r)
        /\ \A v \in Procs : JobOn(v, r) => Room(job'[v]) = Room(job[v])
    BY <1>2, <1>5 DEF JobOn, Data!Idle
  <2>2. QED
    BY <1>4, <2>1, TidySame
<1>6. CASE JobOn(w, r)
  <2>1. Data!Copies(r) \subseteq {j.old, j.file}
    BY <1>1, <1>6 DEF Tidy, Room
  <2>2. Data!Copies(r)' \subseteq {j.file} /\ j.file \in Nat
    BY <1>1, <1>4, <2>1, DataAmounts DEF Data!Places
  <2>3. \A v \in Procs : ~JobOn(v, r)'
    BY <1>2, <1>6 DEF Tidy, JobOn, Data!Idle
  <2>4. QED
    BY <2>2, <2>3 DEF Tidy
<1>7. QED
  BY <1>5, <1>6

LEMMA CopyStep == DataTypes /\ Drawn /\ Unborn /\ CopyInv /\ [Data!Next]_data => CopyInv'
<1> SUFFICES ASSUME DataTypes, Drawn, Unborn, CopyInv, [Data!Next]_data PROVE CopyInv'
  OBVIOUS
<1>1. /\ job \in [Procs -> {Data!Idle} \union RecordJobs \union TableJobs]
      /\ files \in [Data!Places -> FileVals] /\ races \in Nat /\ crashes \in Nat
      /\ Data!Idle.kind # "record"
      /\ Data!Absent.state # "whole" /\ Data!Torn.state # "whole"
  BY DEF DataTypes, Data!Idle, Data!Absent, Data!Torn
<1>2. ASSUME UNCHANGED job, \A r : Data!Copies(r)' \subseteq Data!Copies(r)
      PROVE  \A r : Tidy(r) => Tidy(r)'
  BY <1>2, TidySame DEF JobOn
<1>3. ASSUME UNCHANGED files PROVE \A r : Data!Copies(r)' = Data!Copies(r)
  BY <1>3 DEF Data!Copies, Data!HoldsRec, Data!Whole
<1>4. CASE UNCHANGED data
  BY <1>1, <1>2, <1>3, <1>4, NobodyUntidied DEF data
<1>5. ASSUME NEW w \in Procs, Drafting(w) PROVE CopyInv'
  BY <1>1, <1>2, <1>3, <1>5, NobodyUntidied DEF Drafting
<1>6. ASSUME NEW w \in Procs, Deletes(w) PROVE CopyInv'
  <2>1. PICK a \in Data!Places : files' = [files EXCEPT ![a] = Data!Absent]
    BY <1>6 DEF Deletes
  <2>2. \A r : Data!Copies(r)' \subseteq Data!Copies(r)
    BY <1>1, <2>1 DEF Data!Copies, Data!HoldsRec, Data!Whole
  <2>3. UNCHANGED <<job, crashes>> /\ races' \in Nat /\ races' >= races
    BY <1>1, <1>6, BeginsTypes DEF Deletes
  <2>4. \A r \in Records : Tidy(r) => Tidy(r)'
    BY <1>2, <2>2, <2>3
  <2>5. crashes' + races' >= crashes + races /\ crashes' + races' \in Nat
    BY <2>3, CountsGo
  <2>6. QED
    BY <2>4, <2>5, NobodyUntidied
<1>7. ASSUME NEW w \in Procs, NEW j \in RecordJobs, BeginsRecord(w, j) PROVE CopyInv'
  BY <1>7, CopyBegins
<1>8. ASSUME NEW w \in Procs, job[w].kind # "record", job'[w].kind # "record", UNCHANGED files,
             \A v \in Procs : v # w => job'[v] = job[v]
      PROVE  \A r : Tidy(r) => Tidy(r)'
  <2>1. \A r : \A v \in Procs :
          (JobOn(v, r)' <=> JobOn(v, r)) /\ (JobOn(v, r) => Room(job'[v]) = Room(job[v]))
    BY <1>8 DEF JobOn
  <2>2. QED
    BY <1>3, <1>8, <2>1, TidySame
<1>9. ASSUME NEW w \in Procs, NEW t, BeginsTable(w, t) PROVE CopyInv'
  <2>1. /\ job[w] = Data!Idle /\ races' \in Nat /\ races' >= races /\ crashes' = crashes
        /\ job' = [job EXCEPT ![w] = Data!TableJob(t)] /\ Data!TableJob(t).kind = "table"
        /\ files' = files
    BY <1>1, <1>9, BeginsTypes DEF BeginsTable, Data!TableJob
  <2>2. \A r : Tidy(r) => Tidy(r)'
    BY <1>1, <1>8, <2>1
  <2>3. crashes' + races' >= crashes + races /\ crashes' + races' \in Nat
    BY <2>1, CountsGo
  <2>4. QED
    BY <2>2, <2>3, NobodyUntidied
<1>10. ASSUME NEW w \in Procs, TruncatesRecord(w) PROVE CopyInv'
  <2> DEFINE j == job[w]
             i == [job[w] EXCEPT !.phase = "opened"]
  <2>1. /\ j \in RecordJobs /\ i \in RecordJobs /\ i.val = j.val
        /\ Room(i) = {j.old} /\ Room(j) = {j.old}
    BY <1>10, PhaseIs DEF TruncatesRecord, Room
  <2>2. /\ job'[w] = i /\ \A v \in Procs : v # w => job'[v] = job[v]
        /\ UNCHANGED <<races, crashes>>
    BY <1>1, <1>10 DEF TruncatesRecord
  <2>3. \A r : Data!Copies(r)' \subseteq Data!Copies(r)
    BY <1>1, <1>10 DEF TruncatesRecord, Data!Copies, Data!HoldsRec, Data!Whole
  <2>4. i.kind = "record" /\ j.kind = "record"
    BY <2>1 DEF RecordJobs
  <2> HIDE DEF i
  <2>5. \A r : \A v \in Procs : (JobOn(v, r)' <=> JobOn(v, r)) /\ Room(job'[v]) = Room(job[v])
    BY <2>1, <2>2, <2>4 DEF JobOn
  <2>6. \A r : Tidy(r) => Tidy(r)'
    BY <2>3, <2>5, TidySame
  <2>7. QED
    BY <1>1, <2>2, <2>6, NobodyUntidied
<1>11. ASSUME NEW w \in Procs, TruncatesTable(w) PROVE CopyInv'
  <2> DEFINE i == [job[w] EXCEPT !.phase = "opened"]
  <2>1. i.kind = "table" /\ job[w].kind = "table"
    BY <1>11, TablePhaseIs DEF TruncatesTable, TableJobs
  <2>2. job'[w] = i /\ \A v \in Procs : v # w => job'[v] = job[v]
    BY <1>1, <1>11 DEF TruncatesTable
  <2> HIDE DEF i
  <2>3. \A r : Tidy(r) => Tidy(r)'
    BY <1>8, <1>11, <2>1, <2>2 DEF TruncatesTable
  <2>4. QED
    BY <1>1, <1>11, <2>3, NobodyUntidied DEF TruncatesTable
<1>12. ASSUME NEW w \in Procs, FillsRecord(w) PROVE CopyInv'
  <2>1. \A r \in Records : Tidy(r) => Tidy(r)'
    BY <1>12, CopyFills
  <2>2. crashes' + races' >= crashes + races /\ crashes' + races' \in Nat
    BY <1>1, <1>12 DEF FillsRecord
  <2>3. QED
    BY <2>1, <2>2, NobodyUntidied
<1>13. ASSUME NEW w \in Procs, Unlinks(w) PROVE CopyInv'
  <2>1. \A r \in Records : Tidy(r) => Tidy(r)'
    BY <1>13, CopyUnlinks
  <2>2. crashes' + races' >= crashes + races /\ crashes' + races' \in Nat
    BY <1>1, <1>13 DEF Unlinks
  <2>3. QED
    BY <2>1, <2>2, NobodyUntidied
<1>14. ASSUME NEW w \in Procs, FillsTable(w) PROVE CopyInv'
  <2>1. job[w].kind = "table" /\ job'[w] = Data!Idle /\ \A v \in Procs : v # w => job'[v] = job[v]
    BY <1>1, <1>14 DEF FillsTable, TableJobs
  <2>2. \A r : Tidy(r) => Tidy(r)'
    BY <1>1, <1>8, <1>14, <2>1 DEF FillsTable
  <2>3. QED
    BY <1>1, <1>14, <2>2, NobodyUntidied DEF FillsTable
<1>15. ASSUME NEW w \in Procs, Dies(w) PROVE CopyInv'
  <2>1. job'[w] = Data!Idle /\ \A v \in Procs : v # w => job'[v] = job[v]
    BY <1>1, <1>15 DEF Dies
  <2>2. ASSUME NEW r, Tidy(r), ~JobOn(w, r) PROVE Tidy(r)'
    <3>1. \A v \in Procs :
            (JobOn(v, r)' <=> JobOn(v, r)) /\ (JobOn(v, r) => Room(job'[v]) = Room(job[v]))
      BY <1>1, <2>1, <2>2 DEF JobOn
    <3>2. QED
      BY <1>3, <1>15, <2>2, <3>1, TidySame DEF Dies
  <2>3. \A r : r # job[w].val.id /\ Tidy(r) => Tidy(r)'
    BY <2>2 DEF JobOn
  <2>4. QED
    BY <1>1, <1>15, <2>3, OneUntidied DEF Dies
<1>16. QED
  BY <1>4, <1>5, <1>6, <1>7, <1>9, <1>10, <1>11, <1>12, <1>13, <1>14, <1>15, DataSteps DEF WritesOn

-----------------------------------------------------------------------------
\* A behaviour of the three parts is one of the datastore.
LEMMA DataMoves == /\ PartsInit => Data!Init
                   /\ [PartsNext]_<<part, vars, data, log>> => [Data!Next]_data
<1>1. PartsInit => Data!Init
  BY DEF PartsInit
<1>2. [PartsNext]_<<part, vars, data, log>> => [Data!Next]_data
  BY DEF PartsNext
<1>3. QED
  BY <1>1, <1>2

\* At most one record for each death inside an operation, and for each
\* operation begun while another was under way, is in two files, except
\* while its move is between the new file and the old one's removal
\* (_move_collection_item: "remove the old one so the record never exists
\* twice").
THEOREM OneCopyHolds == PartsSpec => []OneCopy
<1> DEFINE Inv == DataTypes /\ Drawn /\ Unborn /\ CopyInv
<1>1. PartsInit => Inv
  BY DataMoves, DataTypesInit, DrawnInit, CopyInit
<1>2. Inv /\ [PartsNext]_<<part, vars, data, log>> => Inv'
  BY DataMoves, DataTypesStep, DrawnStep, CopyStep
<1>3. Inv => OneCopy
  <2> DEFINE moving == {job[w].val.id : w \in {v \in Procs : Data!Busy(v) /\ job[v].phase = "written"}}
             twice  == {r \in Records : Data!Cardinality(Data!Copies(r)) > 1}
  <2> SUFFICES ASSUME Inv PROVE Data!Cardinality(twice \ moving) <= crashes + races
    BY DEF OneCopy, Data!OneCopy
  <2>1. ASSUME NEW r \in twice, r \notin moving PROVE ~Tidy(r)
    <3> SUFFICES ASSUME Tidy(r) PROVE FALSE
      OBVIOUS
    <3>1. PICK a : Data!Copies(r) \subseteq {a}
      <4>1. CASE \A w \in Procs : ~JobOn(w, r)
        BY <4>1 DEF Tidy
      <4>2. CASE \E w \in Procs : JobOn(w, r)
        <5>1. PICK w \in Procs : JobOn(w, r)
          BY <4>2
        <5>2. Data!Busy(w) /\ job[w].phase # "written"
          BY <2>1, <5>1, JobsAre DEF JobOn
        <5>3. Data!Copies(r) \subseteq {job[w].old}
          BY <5>1, <5>2 DEF Tidy, Room
        <5>4. QED
          BY <5>3
      <4>3. QED
        BY <4>1, <4>2
    <3>2. Data!Copies(r) = {} \/ Data!Copies(r) = {a}
      BY <3>1
    <3>3. ASSUME NEW C, C = {} \/ C = {a} PROVE ~(Cardinality(C) > 1)
      <4>1. Cardinality({}) = 0 /\ Cardinality({a}) = 1
        BY FS_EmptySet, FS_Singleton
      <4>2. Cardinality(C) = 0 \/ Cardinality(C) = 1
        BY <3>3, <4>1
      <4>3. QED
        BY <4>2
    <3>4. Data!Cardinality(Data!Copies(r)) > 1
      BY <2>1
    <3>5. Data!Cardinality(Data!Copies(r)) = Cardinality(Data!Copies(r))
      BY DataLibrary
    <3>6. Cardinality(Data!Copies(r)) > 1
      BY <3>4, <3>5
    <3>7. QED
      BY <3>2, <3>3, <3>6
  <2>2. twice \ moving \subseteq Untidy
    BY <2>1 DEF Untidy
  <2> HIDE DEF twice, moving
  <2>3. /\ IsFiniteSet(twice \ moving) /\ Cardinality(twice \ moving) <= Cardinality(Untidy)
        /\ Cardinality(twice \ moving) \in Nat /\ Cardinality(Untidy) \in Nat
    BY <2>2, FS_Subset, FS_CardinalityType DEF CopyInv
  <2>4. QED
    BY <2>3, DataLibrary DEF CopyInv, DataTypes
<1>4. QED
  BY <1>1, <1>2, <1>3, PTL DEF PartsSpec

-----------------------------------------------------------------------------
\* One process at work.  Whoever else has looked, and whatever died before,
\* what it takes from its cache is what the table holds; the table it is
\* about to write has every slug a live record points at, and the record it
\* is about to write points at rows of the table.
Fits(t) == \A a \in Data!Places : Data!LiveAt(a) => files[a].refs \subseteq Data!SlugsOf(t)
ByItself(w) ==
  /\ Data!Readable /\ cache[w] # Data!NoCache => cache[w] = table
  /\ job[w].kind = "table" => Fits(job[w].val)
  /\ job[w].kind = "record" /\ Data!Readable /\ ~job[w].val.retired =>
       job[w].val.refs \subseteq Data!SlugsOf(table)
SoloInv ==
  /\ IsFiniteSet(actors)
  /\ \A v \in Procs : Data!Busy(v) => v \in actors
  /\ \A w : actors \subseteq {w} =>
       (Data!Readable => Fits(table)) /\ (w \in Procs => ByItself(w))

LEMMA SoloInit == Data!Init => SoloInv
<1> SUFFICES ASSUME Data!Init PROVE SoloInv
  OBVIOUS
<1>1. /\ actors = {} /\ \A v \in Procs : job[v] = Data!Idle /\ cache[v] = Data!NoCache
      /\ \A a \in Data!Places : ~Data!LiveAt(a)
  BY DEF Data!Init, Data!LiveAt, Data!Whole, Data!Absent
<1>2. IsFiniteSet(actors)
  BY <1>1, FS_EmptySet
<1>3. \A v \in Procs : job[v].kind = "idle" /\ ~Data!Busy(v)
  BY <1>1 DEF Data!Idle, Data!Busy
<1>4. QED
  BY <1>1, <1>2, <1>3 DEF SoloInv, ByItself, Fits

\* A step that leaves the files, the table and the jobs alone.
LEMMA SoloLooks ==
  ASSUME SoloInv, UNCHANGED <<files, table, job, actors>>,
         \A w \in Procs : \/ cache'[w] = cache[w] \/ cache'[w] = Data!NoCache
                          \/ cache'[w] = Data!View(w)
  PROVE  SoloInv'
<1>1. \A t : Fits(t)' <=> Fits(t)
  BY DEF Fits, Data!LiveAt, Data!Whole
<1>2. ASSUME NEW w \in Procs, ByItself(w) PROVE ByItself(w)'
  <2>1. Data!Readable' /\ cache'[w] # Data!NoCache => cache'[w] = table'
    BY <1>2 DEF ByItself, Data!Readable, Data!View
  <2>2. (job[w].kind = "table" => Fits(job[w].val))'
    BY <1>2 DEF ByItself, Fits, Data!LiveAt, Data!Whole
  <2>3. (job[w].kind = "record" /\ Data!Readable /\ ~job[w].val.retired =>
           job[w].val.refs \subseteq Data!SlugsOf(table))'
    BY <1>2 DEF ByItself, Data!Readable, Data!SlugsOf
  <2>4. QED
    BY <2>1, <2>2, <2>3 DEF ByItself
<1>3. \A v \in Procs : Data!Busy(v)' <=> Data!Busy(v)
  BY DEF Data!Busy
<1>4. (Data!Readable => Fits(table)) <=> (Data!Readable => Fits(table))'
  BY <1>1 DEF Data!Readable
<1>5. QED
  BY <1>2, <1>3, <1>4 DEF SoloInv

\* A step of one process at its work: what it does is told only if no other
\* has begun anything.
LEMMA SoloWorks ==
  ASSUME SoloInv, NEW w \in Procs, actors' = actors \union {w},
         \A v \in Procs : v # w => job'[v] = job[v],
         (actors \subseteq {w} /\ (Data!Readable => Fits(table)) /\ ByItself(w)) =>
            (Data!Readable' => Fits(table)') /\ ByItself(w)'
  PROVE  SoloInv'
<1>1. IsFiniteSet(actors')
  BY FS_AddElement DEF SoloInv
<1>2. \A v \in Procs : Data!Busy(v)' => v \in actors'
  BY DEF SoloInv, Data!Busy
<1>3. ASSUME NEW u, actors' \subseteq {u}
      PROVE  (Data!Readable => Fits(table))' /\ (u \in Procs => ByItself(u)')
  <2>1. u = w /\ actors \subseteq {w}
    BY <1>3
  <2>2. QED
    BY <2>1 DEF SoloInv
<1>4. QED
  BY <1>1, <1>2, <1>3 DEF SoloInv


LEMMA SoloRecord ==
  ASSUME DataTypes, SoloInv, NEW w \in Procs, NEW j \in RecordJobs, BeginsRecord(w, j)
  PROVE  SoloInv'
<1>1. /\ actors' = actors \union {w} /\ job'[w] = j /\ \A v \in Procs : v # w => job'[v] = job[v]
      /\ files' = files /\ table' = table /\ j.kind = "record"
  BY BeginsTypes DEF BeginsRecord, DataTypes, RecordJobs
<1>2. ASSUME Data!Readable => Fits(table), ByItself(w)
      PROVE  (Data!Readable' => Fits(table)') /\ ByItself(w)'
  <2>1. Data!Readable' => Fits(table)'
    BY <1>1, <1>2 DEF Data!Readable, Fits, Data!LiveAt, Data!Whole
  <2>2. cache'[w] = cache[w] \/ (Data!CanView(w) /\ cache'[w] = Data!View(w))
    BY DEF BeginsRecord, DataTypes
  <2>3. (Data!Readable /\ cache[w] # Data!NoCache => cache[w] = table)'
    BY <1>1, <1>2, <2>2 DEF ByItself, Data!Readable, Data!View
  <2>4. Data!Readable /\ ~j.val.retired => j.val.refs \subseteq Data!SlugsOf(table)
    BY <1>2 DEF BeginsRecord, ByItself, Data!Readable, Data!View
  <2>5. (job[w].kind = "table" => Fits(job[w].val))'
    BY <1>1
  <2>6. (job[w].kind = "record" /\ Data!Readable /\ ~job[w].val.retired =>
           job[w].val.refs \subseteq Data!SlugsOf(table))'
    BY <1>1, <2>4 DEF Data!Readable, Data!SlugsOf
  <2>7. QED
    BY <2>1, <2>3, <2>5, <2>6 DEF ByItself
<1>3. QED
  BY <1>1, <1>2, SoloWorks

LEMMA SoloTable ==
  ASSUME DataTypes, SoloInv, NEW w \in Procs, NEW t, BeginsTable(w, t)
  PROVE  SoloInv'
<1>1. /\ actors' = actors \union {w} /\ job'[w] = Data!TableJob(t)
      /\ \A v \in Procs : v # w => job'[v] = job[v]
      /\ files' = files /\ table' = table /\ cache'[w] = table /\ Data!Readable
  BY BeginsTypes DEF BeginsTable, DataTypes
<1>2. job'[w].kind = "table" /\ job'[w].val = t
  BY <1>1 DEF Data!TableJob
<1>3. ASSUME Data!Readable => Fits(table), ByItself(w)
      PROVE  (Data!Readable' => Fits(table)') /\ ByItself(w)'
  <2>1. Data!Readable' => Fits(table)'
    BY <1>1, <1>3 DEF Data!Readable, Fits, Data!LiveAt, Data!Whole
  <2>2. Fits(t)
    <3>1. CASE table \subseteq t
      BY <1>1, <1>3, <3>1 DEF Fits, Data!SlugsOf
    <3>2. ASSUME NEW row \in Data!View(w), Data!Holders(row.slug) = {},
                 t = {x \in table : x.id # row.id}
          PROVE  Fits(t)
      <4>1. row \in table /\ GoodTable(table)
        BY <1>1, <1>3, <3>2 DEF ByItself, Data!View, Data!Readable, DataTypes
      <4>2. \A x \in table : x \notin t => x.slug = row.slug
        BY <3>2, <4>1 DEF GoodTable
      <4>3. \A s \in Data!SlugsOf(table) : s \in Data!SlugsOf(t) \/ s = row.slug
        BY <4>2 DEF Data!SlugsOf
      <4>4. ASSUME NEW a \in Data!Places, Data!LiveAt(a)
            PROVE  files[a].refs \subseteq Data!SlugsOf(t)
        <5>1. row.slug \notin files[a].refs
          BY <3>2, <4>4 DEF Data!Holders
        <5>2. files[a].refs \subseteq Data!SlugsOf(table)
          BY <1>1, <1>3, <4>4 DEF Fits
        <5>3. QED
          BY <4>3, <5>1, <5>2
      <4>5. QED
        BY <4>4 DEF Fits
    <3>3. QED
      BY <3>1, <3>2 DEF BeginsTable
  <2>3. (Data!Readable /\ cache[w] # Data!NoCache => cache[w] = table)'
    BY <1>1
  <2>4. (job[w].kind = "table" => Fits(job[w].val))'
    BY <1>1, <1>2, <2>2 DEF Fits, Data!LiveAt, Data!Whole
  <2>5. (job[w].kind = "record" /\ Data!Readable /\ ~job[w].val.retired =>
           job[w].val.refs \subseteq Data!SlugsOf(table))'
    BY <1>2
  <2>6. QED
    BY <2>1, <2>3, <2>4, <2>5 DEF ByItself
<1>4. QED
  BY <1>1, <1>3, SoloWorks

\* The files change, but no live record points at more than before.
LEMMA FitsFewer ==
  ASSUME NEW t, Fits(t),
         \A a \in Data!Places : \/ files'[a] = files[a] \/ files'[a].state # "whole"
                                \/ files'[a].retired \/ files'[a].refs \subseteq Data!SlugsOf(t)
  PROVE  \A a \in Data!Places : Data!LiveAt(a)' => files'[a].refs \subseteq Data!SlugsOf(t)
  BY DEF Fits, Data!LiveAt, Data!Whole

LEMMA SoloDeletes ==
  ASSUME DataTypes, SoloInv, NEW w \in Procs, Deletes(w)
  PROVE  SoloInv'
<1>1. /\ actors' = actors \union {w} /\ job' = job /\ cache' = cache /\ table' = table
      /\ job[w] = Data!Idle
  BY BeginsTypes DEF Deletes
<1>2. \A a \in Data!Places : files'[a] = files[a] \/ files'[a].state # "whole"
  BY DEF Deletes, DataTypes, Data!Absent
<1>3. job[w].kind = "idle"
  BY <1>1 DEF Data!Idle
<1>4. ASSUME Data!Readable => Fits(table), ByItself(w)
      PROVE  (Data!Readable' => Fits(table)') /\ ByItself(w)'
  <2>1. Data!Readable' => Fits(table)'
    BY <1>1, <1>2, <1>4, FitsFewer DEF Data!Readable, Fits, Data!SlugsOf
  <2>2. QED
    BY <1>1, <1>3, <1>4, <2>1 DEF ByItself, Data!Readable
<1>5. QED
  BY <1>1, <1>4, SoloWorks


\* A write, by the process that began it.
LEMMA SoloWrites ==
  ASSUME DataTypes, SoloInv, NEW w \in Procs, WritesOn(w)
  PROVE  SoloInv'
<1>1. /\ actors' = actors /\ Data!Busy(w)
      /\ \A v \in Procs : v # w => job'[v] = job[v]
  BY DEF WritesOn, TruncatesRecord, TruncatesTable, FillsRecord, Unlinks, FillsTable, Dies,
         DataTypes, Data!Busy, Data!Idle, RecordJobs, TableJobs
<1>2. actors' = actors \union {w}
  BY <1>1 DEF SoloInv
<1>3. Data!Idle.kind = "idle" /\ Data!Torn.state # "whole" /\ Data!Absent.state # "whole"
  BY DEF Data!Idle, Data!Torn, Data!Absent
<1>4. SUFFICES ASSUME Data!Readable => Fits(table), ByItself(w)
      PROVE  (Data!Readable' => Fits(table)') /\ ByItself(w)'
  BY <1>1, <1>2, SoloWorks
<1>5. CASE TruncatesRecord(w)
  <2> DEFINE j == job[w]
             i == [job[w] EXCEPT !.phase = "opened"]
  <2>1. /\ j \in RecordJobs /\ i \in RecordJobs /\ i.val = j.val
    BY <1>5, PhaseIs DEF TruncatesRecord
  <2>2. /\ job'[w] = i /\ cache' = cache /\ table' = table /\ i.kind = "record" /\ j.kind = "record"
    BY <1>5, <2>1 DEF TruncatesRecord, DataTypes, RecordJobs
  <2>3. \A a \in Data!Places : files'[a] = files[a] \/ files'[a].state # "whole"
    BY <1>3, <1>5 DEF TruncatesRecord, DataTypes
  <2>4. Data!Readable' => Fits(table)'
    BY <1>4, <2>2, <2>3, FitsFewer DEF Data!Readable, Fits, Data!SlugsOf
  <2> HIDE DEF i
  <2>5. ByItself(w)'
    BY <1>4, <2>1, <2>2 DEF ByItself, Data!Readable
  <2>6. QED
    BY <2>4, <2>5
<1>6. CASE TruncatesTable(w)
  <2> DEFINE i == [job[w] EXCEPT !.phase = "opened"]
  <2>1. i.kind = "table" /\ i.val = job[w].val /\ job[w].kind = "table"
    BY <1>6, TablePhaseIs DEF TruncatesTable, TableJobs
  <2>2. job'[w] = i /\ files' = files /\ ~Data!Readable'
    BY <1>6 DEF TruncatesTable, DataTypes, Data!Readable
  <2> HIDE DEF i
  <2>3. (job[w].kind = "table" => Fits(job[w].val))'
    BY <1>4, <2>1, <2>2 DEF ByItself, Fits, Data!LiveAt, Data!Whole
  <2>4. QED
    BY <2>2, <2>3 DEF ByItself
<1>7. CASE FillsRecord(w)
  <2> DEFINE j == job[w]
             i == [job[w] EXCEPT !.phase = "written"]
  <2>1. /\ j \in RecordJobs /\ i \in RecordJobs /\ i.val = j.val
    BY <1>7, PhaseIs DEF FillsRecord
  <2>2. /\ job'[w] = i \/ job'[w] = Data!Idle
        /\ cache' = cache /\ table' = table /\ i.kind = "record" /\ j.kind = "record"
    BY <1>7, <2>1 DEF FillsRecord, DataTypes, RecordJobs
  <2>3. \A a \in Data!Places : files'[a] = files[a] \/ files'[a] = j.val
    BY <1>7 DEF FillsRecord, DataTypes
  <2>4. Data!Readable => j.val.retired \/ j.val.refs \subseteq Data!SlugsOf(table)
    BY <1>4, <2>2 DEF ByItself
  <2>5. Data!Readable' => Fits(table)'
    BY <1>4, <2>2, <2>3, <2>4, FitsFewer DEF Data!Readable, Fits, Data!SlugsOf
  <2> HIDE DEF i
  <2>6. ByItself(w)'
    BY <1>3, <1>4, <2>1, <2>2 DEF ByItself, Data!Readable
  <2>7. QED
    BY <2>5, <2>6
<1>8. CASE Unlinks(w)
  <2>1. job'[w] = Data!Idle /\ cache' = cache /\ table' = table
    BY <1>8 DEF Unlinks, DataTypes
  <2>2. \A a \in Data!Places : files'[a] = files[a] \/ files'[a].state # "whole"
    BY <1>3, <1>8 DEF Unlinks, DataTypes
  <2>3. Data!Readable' => Fits(table)'
    BY <1>4, <2>1, <2>2, FitsFewer DEF Data!Readable, Fits, Data!SlugsOf
  <2>4. ByItself(w)'
    BY <1>3, <1>4, <2>1 DEF ByItself, Data!Readable
  <2>5. QED
    BY <2>3, <2>4
<1>9. CASE FillsTable(w)
  <2>1. /\ job'[w] = Data!Idle /\ cache'[w] = table' /\ files' = files /\ table' = job[w].val
        /\ job[w].kind = "table"
    BY <1>9 DEF FillsTable, DataTypes, TableJobs
  <2>2. Fits(table)'
    BY <1>4, <2>1 DEF ByItself, Fits, Data!LiveAt, Data!Whole
  <2>3. ByItself(w)'
    BY <1>3, <2>1 DEF ByItself
  <2>4. QED
    BY <2>2, <2>3
<1>10. CASE Dies(w)
  <2>1. /\ job'[w] = Data!Idle /\ cache'[w] = Data!NoCache /\ files' = files /\ table' = table
    BY <1>10 DEF Dies, DataTypes
  <2>2. Data!Readable' => Fits(table)'
    BY <1>4, <2>1 DEF Data!Readable, Fits, Data!LiveAt, Data!Whole
  <2>3. ByItself(w)'
    BY <1>3, <2>1 DEF ByItself
  <2>4. QED
    BY <2>2, <2>3
<1>11. QED
  BY <1>5, <1>6, <1>7, <1>8, <1>9, <1>10 DEF WritesOn

LEMMA SoloStep == DataTypes /\ SoloInv /\ [Data!Next]_data => SoloInv'
<1> SUFFICES ASSUME DataTypes, SoloInv, [Data!Next]_data PROVE SoloInv'
  OBVIOUS
<1>1. CASE UNCHANGED data
  BY <1>1, SoloLooks DEF data
<1>2. ASSUME NEW w \in Procs, Drafting(w) PROVE SoloInv'
  <2>1. \A v \in Procs : \/ cache'[v] = cache[v] \/ cache'[v] = Data!NoCache
                         \/ cache'[v] = Data!View(v)
    BY <1>2 DEF Drafting, DataTypes
  <2>2. UNCHANGED <<files, table, job, actors>>
    BY <1>2 DEF Drafting
  <2>3. QED
    BY <2>1, <2>2, SoloLooks
<1>3. QED
  BY <1>1, <1>2, SoloDeletes, SoloRecord, SoloTable, SoloWrites, DataSteps

\* As long as one process begins every operation, through any number of its
\* deaths, every slug a live record points at is a row of the table whenever
\* the table can be read (Draft.delete's inbound check, Draft.problems, and
\* the cache that _write_reference renews).
THEOREM RestrictAloneHolds == PartsSpec => []RestrictAlone
<1>1. PartsInit => DataTypes /\ SoloInv
  BY DataMoves, DataTypesInit, SoloInit
<1>2. (DataTypes /\ SoloInv) /\ [PartsNext]_<<part, vars, data, log>> => (DataTypes /\ SoloInv)'
  BY DataMoves, DataTypesStep, SoloStep
<1>3. SoloInv => RestrictAlone
  <2> SUFFICES ASSUME SoloInv, Data!Cardinality(actors) <= 1 PROVE Data!RefsResolve
    BY DEF RestrictAlone, Data!RestrictAlone
  <2>1. Cardinality(actors) <= 1 /\ Cardinality(actors) \in Nat /\ IsFiniteSet(actors)
    BY DataLibrary, FS_CardinalityType DEF SoloInv
  <2>2. \E w : actors \subseteq {w}
    <3>1. CASE Cardinality(actors) = 0
      BY <2>1, <3>1, FS_EmptySet
    <3>2. CASE Cardinality(actors) = 1
      BY <2>1, <3>2, FS_Singleton
    <3>3. QED
      BY <2>1, <3>1, <3>2
  <2>3. QED
    BY <2>2 DEF SoloInv, Fits, Data!RefsResolve
<1>4. QED
  BY <1>1, <1>2, <1>3, PTL DEF PartsSpec

-----------------------------------------------------------------------------
(***************************************************************************)
(* What a mishap costs the datastore.                                      *)
(***************************************************************************)
Few(X, n) == IsFiniteSet(X) /\ Cardinality(X) <= n

LEMMA FewLess ==
  ASSUME NEW X, NEW Y, X \subseteq Y, NEW n \in Nat, NEW m \in Nat, n <= m, Few(Y, n)
  PROVE  Few(X, m)
<1>1. IsFiniteSet(X) /\ Cardinality(X) <= Cardinality(Y)
  BY FS_Subset DEF Few
<1>2. Cardinality(X) \in Nat /\ Cardinality(Y) \in Nat
  BY <1>1, FS_CardinalityType DEF Few
<1>3. QED
  BY <1>1, <1>2 DEF Few

LEMMA FewMore ==
  ASSUME NEW X, NEW Y, NEW s, X \subseteq Y \union {s}, NEW n \in Nat, Few(Y, n)
  PROVE  Few(X, n + 1)
<1>1. Cardinality(Y) \in Nat
  BY FS_CardinalityType DEF Few
<1>2. IsFiniteSet(Y \union {s}) /\ Cardinality(Y \union {s}) <= Cardinality(Y) + 1
  BY <1>1, FS_AddElement DEF Few
<1>3. Cardinality(Y \union {s}) \in Nat
  BY <1>2, FS_CardinalityType
<1>4. Few(Y \union {s}, n + 1)
  BY <1>1, <1>2, <1>3 DEF Few
<1>5. QED
  BY <1>4, FewLess

\* The slugs on record, or that a process is about to write.
TableWriter(w) == job[w].kind = "table"
Offered == rows \union
  {s \in Slugs : \E w \in Procs : TableWriter(w) /\ s \in Data!SlugsOf(job[w].val)}

\* The table lacks at most one of them for each overlap, and one that is
\* about to be written; what a process is about to write lacks no more, but
\* for the row it was asked to remove.
RowInv ==
  /\ Data!Readable => /\ Data!SlugsOf(table) \subseteq rows
                      /\ Few(rows \ Data!SlugsOf(table), races)
                      /\ Few(Offered \ Data!SlugsOf(table), races + 1)
  /\ \A w \in Procs : TableWriter(w) =>
       /\ Few((Offered \ Data!SlugsOf(cache[w])) \ Data!SlugsOf(job[w].val), races)
       /\ \E s : Data!SlugsOf(cache[w]) \ Data!SlugsOf(job[w].val) \subseteq {s}

LEMMA RowInit == Data!Init => RowInv
<1> SUFFICES ASSUME Data!Init PROVE RowInv
  OBVIOUS
<1>1. \A w \in Procs : ~TableWriter(w)
  BY DEF Data!Init, TableWriter, Data!Idle
<1>2. Offered \subseteq rows /\ rows = {FirstRow} /\ Data!SlugsOf(table) = {FirstRow} /\ races = 0
  BY <1>1 DEF Offered, Data!Init, Data!SlugsOf
<1>3. Few({}, 0)
  BY FS_EmptySet DEF Few
<1>4. rows \ Data!SlugsOf(table) \subseteq {} /\ Offered \ Data!SlugsOf(table) \subseteq {}
  BY <1>2
<1>5. Few(rows \ Data!SlugsOf(table), races) /\ Few(Offered \ Data!SlugsOf(table), races + 1)
  BY <1>2, <1>3, <1>4, FewLess
<1>6. QED
  BY <1>1, <1>2, <1>5 DEF RowInv

\* A step that writes no table, and asks for none to be written.
LEMMA RowSame ==
  ASSUME DataTypes, RowInv, races' \in Nat, races' >= races, rows' = rows,
         table' = table \/ table' = Data!TornTable,
         \A w \in Procs : TableWriter(w)' =>
           TableWriter(w) /\ job'[w].val = job[w].val /\ cache'[w] = cache[w]
  PROVE  RowInv'
<1>1. Offered' \subseteq Offered /\ races \in Nat
  BY DEF Offered, DataTypes
<1>2. ASSUME Data!Readable'
      PROVE  /\ (Data!SlugsOf(table) \subseteq rows)'
             /\ Few(rows \ Data!SlugsOf(table), races)'
             /\ Few(Offered \ Data!SlugsOf(table), races + 1)'
  <2>1. table' = table /\ Data!Readable
    BY <1>2 DEF Data!Readable
  <2>2. /\ Data!SlugsOf(table) \subseteq rows
        /\ Few(rows \ Data!SlugsOf(table), races)
        /\ Few(Offered \ Data!SlugsOf(table), races + 1)
    BY <2>1 DEF RowInv
  <2>3. Data!SlugsOf(table)' = Data!SlugsOf(table)
    BY <2>1
  <2>4. Few(rows' \ Data!SlugsOf(table)', races')
    BY <1>1, <2>2, <2>3, FewLess
  <2>5. Few(Offered' \ Data!SlugsOf(table)', races' + 1)
    <3>1. Offered' \ Data!SlugsOf(table)' \subseteq Offered \ Data!SlugsOf(table)
      BY <1>1, <2>3
    <3>2. \A m, n \in Nat : m >= n => n + 1 \in Nat /\ m + 1 \in Nat /\ n + 1 <= m + 1
      OBVIOUS
    <3>3. races + 1 \in Nat /\ races' + 1 \in Nat /\ races + 1 <= races' + 1
      BY <1>1, <3>2
    <3>4. QED
      BY <2>2, <3>1, <3>3, FewLess
  <2>6. QED
    BY <2>2, <2>3, <2>4, <2>5
<1>3. ASSUME NEW w \in Procs, TableWriter(w)'
      PROVE  /\ Few((Offered \ Data!SlugsOf(cache[w])) \ Data!SlugsOf(job[w].val), races)'
             /\ \E s : Data!SlugsOf(cache'[w]) \ Data!SlugsOf(job'[w].val) \subseteq {s}
  <2>1. TableWriter(w) /\ job'[w].val = job[w].val /\ cache'[w] = cache[w]
    BY <1>3
  <2>2. /\ Few((Offered \ Data!SlugsOf(cache[w])) \ Data!SlugsOf(job[w].val), races)
        /\ \E s : Data!SlugsOf(cache[w]) \ Data!SlugsOf(job[w].val) \subseteq {s}
    BY <2>1 DEF RowInv
  <2>3. (Offered' \ Data!SlugsOf(cache'[w])) \ Data!SlugsOf(job'[w].val)
          \subseteq (Offered \ Data!SlugsOf(cache[w])) \ Data!SlugsOf(job[w].val)
    BY <1>1, <2>1
  <2>4. QED
    BY <1>1, <2>1, <2>2, <2>3, FewLess
<1>4. QED
  BY <1>2, <1>3 DEF RowInv

\* An operation on the table begins: beside another it costs a race, alone
\* nothing else is offered.
LEMMA RowBegins ==
  ASSUME DataTypes, RowInv, NEW w \in Procs, NEW t, BeginsTable(w, t)
  PROVE  RowInv'
<1> DEFINE T == Data!SlugsOf(table)
           V == Data!SlugsOf(t)
           beside == \E v \in Procs : TableWriter(v)
<1>1. /\ job[w] = Data!Idle /\ races \in Nat /\ races' \in Nat /\ races' >= races
      /\ beside => races' = races + 1
  <2>1. ~TableWriter(w) \/ job[w] # Data!Idle
    BY DEF TableWriter, Data!Idle
  <2>2. beside => \E v \in Procs \ {w} : job[v] # Data!Idle
    BY BeginsTypes DEF TableWriter, Data!Idle, BeginsTable
  <2>3. QED
    BY <2>2, BeginsTypes DEF BeginsTable, DataTypes
<1>2. /\ job'[w] = Data!TableJob(t) /\ cache'[w] = table
      /\ \A v \in Procs : v # w => job'[v] = job[v] /\ cache'[v] = cache[v]
      /\ rows' = rows /\ table' = table
  BY DEF BeginsTable, DataTypes
<1>3. /\ Data!TableJob(t).val = t /\ Data!TableJob(t).kind = "table" /\ ~TableWriter(w)
      /\ V \subseteq Slugs /\ Data!Readable
  BY <1>1 DEF Data!TableJob, TableWriter, Data!Idle, BeginsTable, GoodTable, Rows, Data!SlugsOf
<1>4. PICK s : V \subseteq T \union {s}
  BY DEF BeginsTable, Data!SlugsOf
<1>5. \E i : T \ V \subseteq {i}
  <2>1. PICK i : \A x \in table : x \in t \/ x.id = i
    BY DEF BeginsTable
  <2>2. \A x, y \in table : x.id = y.id => x = y
    BY <1>3 DEF DataTypes, Data!Readable, GoodTable
  <2>3. CASE \A x \in table : x \in t
    BY <2>3 DEF Data!SlugsOf
  <2>4. ASSUME NEW z \in table, z \notin t PROVE T \ V \subseteq {z.slug}
    BY <2>1, <2>2, <2>4 DEF Data!SlugsOf
  <2>5. QED
    BY <2>3, <2>4
<1>6. /\ T \subseteq rows /\ Few(rows \ T, races) /\ Few(Offered \ T, races + 1)
  BY <1>3 DEF RowInv
<1>7. /\ Offered' \subseteq Offered \union V /\ Offered' \subseteq Offered \union {s}
  <2>1. \A v \in Procs : TableWriter(v)' /\ v # w => TableWriter(v) /\ job'[v].val = job[v].val
    BY <1>2 DEF TableWriter
  <2>2. job'[w].val = t
    BY <1>2, <1>3
  <2>3. Offered' \subseteq Offered \union V
    BY <1>2, <2>1, <2>2 DEF Offered
  <2>4. QED
    BY <1>4, <1>6, <2>3 DEF Offered
<1>8. Few(Offered \ T, races')
  <2>1. CASE beside
    BY <1>1, <1>6, <2>1
  <2>2. CASE ~beside
    <3>1. Offered \ T \subseteq rows \ T
      BY <2>2 DEF Offered
    <3>2. QED
      BY <1>1, <1>6, <3>1, FewLess
  <2>3. QED
    BY <2>1, <2>2
<1>9. Few(Offered' \ T, races' + 1)
  <2>1. Offered' \ T \subseteq (Offered \ T) \union {s}
    BY <1>7
  <2>2. QED
    BY <1>1, <1>8, <2>1, FewMore
<1>10. Few(rows \ T, races')
  BY <1>1, <1>6, FewLess
<1>11. Few((Offered' \ T) \ V, races')
  <2>1. (Offered' \ T) \ V \subseteq Offered \ T
    BY <1>7
  <2>2. QED
    BY <1>1, <1>8, <2>1, FewLess
<1>12. ASSUME NEW v \in Procs, v # w, TableWriter(v)
       PROVE  /\ Few((Offered' \ Data!SlugsOf(cache[v])) \ Data!SlugsOf(job[v].val), races')
              /\ \E x : Data!SlugsOf(cache[v]) \ Data!SlugsOf(job[v].val) \subseteq {x}
  <2> DEFINE C == Data!SlugsOf(cache[v])
             W == Data!SlugsOf(job[v].val)
  <2>1. Few((Offered \ C) \ W, races) /\ \E x : C \ W \subseteq {x}
    BY <1>12 DEF RowInv
  <2> HIDE DEF C, W
  <2>2. (Offered' \ C) \ W \subseteq ((Offered \ C) \ W) \union {s}
    BY <1>7
  <2>3. Few((Offered' \ C) \ W, races + 1)
    BY <1>1, <2>1, <2>2, FewMore
  <2>4. QED
    BY <1>1, <1>12, <2>1, <2>3 DEF C, W
<1>13. ASSUME NEW v \in Procs, TableWriter(v)'
       PROVE  /\ Few((Offered \ Data!SlugsOf(cache[v])) \ Data!SlugsOf(job[v].val), races)'
              /\ \E x : Data!SlugsOf(cache'[v]) \ Data!SlugsOf(job'[v].val) \subseteq {x}
  <2>1. CASE v = w
    BY <1>2, <1>3, <1>5, <1>11, <2>1
  <2>2. CASE v # w
    BY <1>2, <1>12, <1>13, <2>2 DEF TableWriter
  <2>3. QED
    BY <2>1, <2>2
<1>14. QED
  BY <1>2, <1>6, <1>9, <1>10, <1>13 DEF RowInv

\* A process writes the table it made: what it was asked to remove is gone
\* from the record too, unless another one is about to write it back.
LEMMA RowFills ==
  ASSUME DataTypes, RowInv, NEW w \in Procs, FillsTable(w)
  PROVE  RowInv'
<1> DEFINE C == Data!SlugsOf(cache[w])
           V == Data!SlugsOf(job[w].val)
<1>1. /\ TableWriter(w) /\ job'[w] = Data!Idle /\ table' = job[w].val /\ races' = races
      /\ races \in Nat /\ rows' = (rows \ (C \ V)) \union V
      /\ \A v \in Procs : v # w => job'[v] = job[v] /\ cache'[v] = cache[v]
  BY DEF FillsTable, DataTypes, TableWriter, TableJobs
<1>2. ~TableWriter(w)'
  BY <1>1 DEF TableWriter, Data!Idle
<1>3. V \subseteq Slugs
  BY DEF FillsTable, GoodTable, Rows, Data!SlugsOf
<1>4. V \subseteq Offered
  BY <1>1, <1>3 DEF Offered
<1>5. Offered' \subseteq Offered
  <2>1. rows' \subseteq Offered
    BY <1>1, <1>4 DEF Offered
  <2>2. \A v \in Procs : TableWriter(v)' => TableWriter(v) /\ job'[v].val = job[v].val
    BY <1>1, <1>2 DEF TableWriter
  <2>3. QED
    BY <2>1, <2>2 DEF Offered
<1>6. Few((Offered \ C) \ V, races) /\ \E s : C \ V \subseteq {s}
  BY <1>1 DEF RowInv
<1>7. Data!SlugsOf(table)' = V
  BY <1>1 DEF Data!SlugsOf
<1>8. Few(rows' \ V, races)
  <2>1. rows' \ V \subseteq (Offered \ C) \ V
    BY <1>1 DEF Offered
  <2>2. QED
    BY <1>1, <1>6, <2>1, FewLess
<1>9. Few(Offered' \ V, races + 1)
  <2>1. PICK s : C \ V \subseteq {s}
    BY <1>6
  <2>2. Offered' \ V \subseteq ((Offered \ C) \ V) \union {s}
    BY <1>5, <2>1
  <2>3. QED
    BY <1>1, <1>6, <2>2, FewMore
<1>10. ASSUME NEW v \in Procs, TableWriter(v)'
       PROVE  /\ Few((Offered \ Data!SlugsOf(cache[v])) \ Data!SlugsOf(job[v].val), races)'
              /\ \E s : Data!SlugsOf(cache'[v]) \ Data!SlugsOf(job'[v].val) \subseteq {s}
  <2>1. v # w /\ TableWriter(v) /\ job'[v] = job[v] /\ cache'[v] = cache[v]
    BY <1>1, <1>2, <1>10 DEF TableWriter
  <2>2. /\ Few((Offered \ Data!SlugsOf(cache[v])) \ Data!SlugsOf(job[v].val), races)
        /\ \E s : Data!SlugsOf(cache[v]) \ Data!SlugsOf(job[v].val) \subseteq {s}
    BY <2>1 DEF RowInv
  <2>3. (Offered' \ Data!SlugsOf(cache'[v])) \ Data!SlugsOf(job'[v].val)
          \subseteq (Offered \ Data!SlugsOf(cache[v])) \ Data!SlugsOf(job[v].val)
    BY <1>5, <2>1
  <2>4. QED
    BY <1>1, <2>1, <2>2, <2>3, FewLess
<1>11. V \subseteq rows'
  BY <1>1
<1>12. QED
  BY <1>1, <1>7, <1>8, <1>9, <1>10, <1>11 DEF RowInv

LEMMA RowStep == DataTypes /\ RowInv /\ [Data!Next]_data => RowInv'
<1> SUFFICES ASSUME DataTypes, RowInv, [Data!Next]_data PROVE RowInv'
  OBVIOUS
<1>1. /\ job \in [Procs -> {Data!Idle} \union RecordJobs \union TableJobs]
      /\ cache = [w \in Procs |-> cache[w]]
      /\ races \in Nat /\ races >= races /\ Data!Idle.kind # "table"
  BY DEF DataTypes, Data!Idle
<1>2. ASSUME NEW w \in Procs, ~TableWriter(w)', \A v \in Procs : v # w => job'[v] = job[v],
             \A v \in Procs : v # w => cache'[v] = cache[v],
             rows' = rows, table' = table, races' \in Nat, races' >= races
      PROVE  RowInv'
  <2>1. \A v \in Procs : TableWriter(v)' =>
          TableWriter(v) /\ job'[v].val = job[v].val /\ cache'[v] = cache[v]
    BY <1>2 DEF TableWriter
  <2>2. QED
    BY <1>2, <2>1, RowSame
<1>3. CASE UNCHANGED data
  BY <1>1, <1>3, RowSame DEF data, TableWriter
<1>4. ASSUME NEW w \in Procs, Drafting(w) PROVE RowInv'
  <2>1. ~TableWriter(w)' /\ \A v \in Procs : v # w => job'[v] = job[v] /\ cache'[v] = cache[v]
    BY <1>1, <1>4, JobsAre DEF Drafting, TableWriter
  <2>2. QED
    BY <1>1, <1>2, <1>4, <2>1 DEF Drafting
<1>5. ASSUME NEW w \in Procs, Deletes(w) PROVE RowInv'
  <2>1. job'[w].kind # "table" /\ races' \in Nat /\ races' >= races
    BY <1>1, <1>5, BeginsTypes DEF Deletes
  <2>2. QED
    BY <1>2, <1>5, <2>1 DEF Deletes, TableWriter
<1>6. ASSUME NEW w \in Procs, NEW j \in RecordJobs, BeginsRecord(w, j) PROVE RowInv'
  <2>1. job'[w].kind = "record" /\ \A v \in Procs : v # w => job'[v] = job[v]
    BY <1>6, JobsOn
  <2>2. \A v \in Procs : v # w => cache'[v] = cache[v]
    BY <1>1, <1>6 DEF BeginsRecord
  <2>3. Data!Begins(w)
    BY <1>6 DEF BeginsRecord
  <2>4. races' \in Nat /\ races' >= races
    BY <1>1, <2>3, BeginsTypes
  <2>5. QED
    BY <1>2, <1>6, <2>1, <2>2, <2>4 DEF BeginsRecord, TableWriter
<1>7. ASSUME NEW w \in Procs, NEW t, BeginsTable(w, t) PROVE RowInv'
  BY <1>7, RowBegins
<1>8. ASSUME NEW w \in Procs, TruncatesRecord(w) PROVE RowInv'
  <2> DEFINE i == [job[w] EXCEPT !.phase = "opened"]
  <2>1. i \in RecordJobs
    BY <1>8, PhaseIs DEF TruncatesRecord
  <2>2. i.kind = "record"
    BY <2>1 DEF RecordJobs
  <2>3. job' = [job EXCEPT ![w] = i]
    BY <1>8 DEF TruncatesRecord
  <2> HIDE DEF i
  <2>4. job'[w] = i /\ \A v \in Procs : v # w => job'[v] = job[v]
    BY <1>1, <2>3
  <2>5. QED
    BY <1>1, <1>2, <1>8, <2>2, <2>4 DEF TruncatesRecord, TableWriter
<1>9. ASSUME NEW w \in Procs, TruncatesTable(w) PROVE RowInv'
  <2> DEFINE i == [job[w] EXCEPT !.phase = "opened"]
  <2>1. i.val = job[w].val /\ job' = [job EXCEPT ![w] = i] /\ job[w].kind = "table"
    BY <1>9, TablePhaseIs DEF TruncatesTable, TableJobs
  <2> HIDE DEF i
  <2>2. \A v \in Procs : TableWriter(v)' => TableWriter(v) /\ job'[v].val = job[v].val
    BY <1>1, <2>1 DEF TableWriter
  <2>3. QED
    BY <1>1, <1>9, <2>2, RowSame DEF TruncatesTable
<1>10. ASSUME NEW w \in Procs, FillsRecord(w) PROVE RowInv'
  <2>1. job'[w].kind # "table" /\ \A v \in Procs : v # w => job'[v] = job[v]
    <3>1. CASE job' = [job EXCEPT ![w] = Data!Idle]
      BY <1>1, <3>1
    <3>2. CASE job' = [job EXCEPT ![w] = [job[w] EXCEPT !.phase = "written"]]
      <4> DEFINE i == [job[w] EXCEPT !.phase = "written"]
      <4>1. i \in RecordJobs
        BY <1>10, PhaseIs DEF FillsRecord
      <4>2. i.kind = "record" /\ job' = [job EXCEPT ![w] = i]
        BY <3>2, <4>1 DEF RecordJobs
      <4> HIDE DEF i
      <4>3. QED
        BY <1>1, <4>2
    <3>3. QED
      BY <1>10, <3>1, <3>2 DEF FillsRecord
  <2>2. QED
    BY <1>1, <1>2, <1>10, <2>1 DEF FillsRecord, TableWriter
<1>11. ASSUME NEW w \in Procs, Unlinks(w) PROVE RowInv'
  BY <1>1, <1>2, <1>11 DEF Unlinks, TableWriter
<1>12. ASSUME NEW w \in Procs, FillsTable(w) PROVE RowInv'
  BY <1>12, RowFills
<1>13. ASSUME NEW w \in Procs, Dies(w) PROVE RowInv'
  <2>1. /\ job'[w] = Data!Idle /\ \A v \in Procs : v # w => job'[v] = job[v]
        /\ \A v \in Procs : v # w => cache'[v] = cache[v]
    BY <1>1, <1>13 DEF Dies
  <2>2. QED
    BY <1>1, <1>2, <1>13, <2>1 DEF Dies, TableWriter
<1>14. QED
  BY <1>3, <1>4, <1>5, <1>6, <1>7, <1>8, <1>9, <1>10, <1>11, <1>12, <1>13, DataSteps DEF WritesOn

\* The files a process is still to write or remove.
RecordWriter(w) == job[w].kind = "record"
Moving(w) == job[w].old # job[w].file
Aims(w, a) ==
  /\ RecordWriter(w)
  /\ \/ job[w].phase # "written" /\ a = job[w].file
     \/ Moving(w) /\ a = job[w].old

\* The records that are lost, or may be: somebody saves or deletes them, or is
\* about to write over one of their files.
Missing(r) == r \in kept /\ Data!Copies(r) = {}
Aimed(r) == \E a \in Data!Places, w \in Procs : Data!HoldsRec(a, r) /\ Aims(w, a)
AtRisk == {r \in Records : (\E w \in Procs : JobOn(w, r)) \/ Missing(r) \/ Aimed(r)}

\* A process whose record will be there when it is done: nobody is to remove
\* the file it writes.
Survivor(x) ==
  /\ RecordWriter(x)
  /\ \A y \in Procs : y # x /\ RecordWriter(y) /\ Moving(y) => job[y].old # job[x].file
  /\ job[x].phase = "written" =>
       /\ Data!HoldsRec(job[x].file, job[x].val.id)
       /\ \A y \in Procs : y # x => ~Aims(y, job[x].file)

\* Nobody else is to write over what there was of a process's record.
Apart(w) == \A a \in Data!Places :
  Data!HoldsRec(a, job[w].val.id) /\ (a = job[w].file => job[w].phase = "checked") =>
    \A y \in Procs : y # w => ~Aims(y, a)
Intact(w) == job[w].val.id \in kept => Data!HoldsRec(job[w].old, job[w].val.id)

\* As long as every operation under way costs another record its safety, one
\* of them survives.
Tight ==
  /\ \E x \in Procs : Survivor(x)
  /\ \A v, w \in Procs : RecordWriter(v) /\ RecordWriter(w) /\ job[v].val.id = job[w].val.id => v = w
  /\ \A w \in Procs : RecordWriter(w) => Apart(w) /\ (job[w].phase = "checked" => Intact(w))
Account ==
  \/ Few(AtRisk, crashes + races)
  \/ Few(AtRisk, crashes + races + 1) /\ Tight
KeptInv ==
  /\ kept \subseteq Records /\ kept \subseteq drawn
  /\ \A w \in Procs : draft[w].open /\ draft[w].new => draft[w].id \notin kept
  /\ \A w \in Procs : RecordWriter(w) /\ job[w].phase = "written" => Moving(w)

LEMMA HoldsOne ==
  ASSUME NEW a, NEW r, NEW s, Data!HoldsRec(a, r), Data!HoldsRec(a, s)
  PROVE  r = s
  BY DEF Data!HoldsRec

LEMMA HoldsRecord ==
  ASSUME DataTypes, NEW a \in Data!Places, NEW r, Data!HoldsRec(a, r)
  PROVE  r \in Records /\ files[a] # Data!Absent
<1>1. files[a] \in FileVals /\ files[a].state = "whole" /\ files[a].id = r
  BY DEF DataTypes, Data!HoldsRec, Data!Whole
<1>2. Data!Absent.state # "whole" /\ Data!Torn.state # "whole"
  BY DEF Data!Absent, Data!Torn
<1>3. QED
  BY <1>1, <1>2 DEF FileVals, RecVals

LEMMA WritersAre ==
  ASSUME DataTypes, NEW w \in Procs, RecordWriter(w)
  PROVE  /\ job[w] \in RecordJobs /\ job[w] # Data!Idle /\ job[w].val.id \in Records
         /\ job[w].file \in Data!Places /\ job[w].old \in Data!Places
         /\ job[w].phase \in {"checked", "opened", "written"}
         /\ JobOn(w, job[w].val.id) /\ job[w].val.id \in AtRisk
<1>1. job[w] \in RecordJobs /\ job[w] # Data!Idle
  BY JobsAre DEF RecordWriter, Data!Busy
<1>2. /\ job[w].val \in RecVals /\ job[w].file \in Data!Places /\ job[w].old \in Data!Places
      /\ job[w].phase \in {"checked", "opened", "written"}
  BY <1>1 DEF RecordJobs
<1>3. job[w].val.id \in Records
  BY <1>2 DEF RecVals
<1>4. JobOn(w, job[w].val.id)
  BY DEF JobOn, RecordWriter
<1>5. QED
  BY <1>1, <1>2, <1>3, <1>4 DEF AtRisk

\* What a step may bring into danger.
LEMMA RiskGoes ==
  ASSUME DataTypes, NEW X,
         \A v \in Procs : \A r : JobOn(v, r)' => JobOn(v, r) \/ r \in X,
         \A a \in Data!Places : \A v \in Procs : \A r :
           Data!HoldsRec(a, r) /\ Aims(v, a)' => Aims(v, a) \/ r \in X,
         \A r \in kept' : r \in kept \/ r \in AtRisk,
         \A a \in Data!Places : \A r : Data!HoldsRec(a, r)' => Data!HoldsRec(a, r) \/ r \in AtRisk,
         \A a \in Data!Places : \A r :
           Data!HoldsRec(a, r) => Data!HoldsRec(a, r)' \/ r \in AtRisk \/ r \notin kept'
  PROVE  AtRisk' \subseteq AtRisk \union X
<1> SUFFICES ASSUME NEW r \in Records,
                    (\E w \in Procs : JobOn(w, r)') \/ Missing(r)' \/ Aimed(r)',
                    r \notin X, r \notin AtRisk
             PROVE  FALSE
  BY DEF AtRisk
<1>1. ~\E w \in Procs : JobOn(w, r)'
  BY DEF AtRisk
<1>2. ~Missing(r)'
  <2> SUFFICES ASSUME r \in kept', Data!Copies(r)' = {} PROVE FALSE
    BY DEF Missing
  <2>1. r \in kept
    OBVIOUS
  <2>2. PICK a \in Data!Places : Data!HoldsRec(a, r)
    BY <2>1 DEF AtRisk, Missing, Data!Copies
  <2>3. Data!HoldsRec(a, r)'
    BY <2>2
  <2>4. a \in Data!Copies(r)'
    BY <2>2, <2>3 DEF Data!Copies
  <2>5. QED
    BY <2>4
<1>3. ~Aimed(r)'
  <2> SUFFICES ASSUME NEW a \in Data!Places, NEW w \in Procs, Data!HoldsRec(a, r)', Aims(w, a)'
               PROVE  FALSE
    BY DEF Aimed, Data!Places
  <2>1. Data!HoldsRec(a, r)
    OBVIOUS
  <2>2. Aims(w, a)
    BY <2>1
  <2>3. QED
    BY <2>1, <2>2 DEF AtRisk, Aimed
<1>4. QED
  BY <1>1, <1>2, <1>3

\* What becomes of the account when nothing else comes into danger.
LEMMA AccountGoes ==
  ASSUME DataTypes, DataTypes', Account, AtRisk' \subseteq AtRisk,
         races' + crashes' >= races + crashes,
         Tight /\ races' + crashes' = races + crashes =>
           Tight' \/ \E s \in AtRisk : s \notin AtRisk'
  PROVE  Account'
<1> DEFINE n == crashes + races
           m == crashes' + races'
<1>1. n \in Nat /\ m \in Nat /\ m >= n
  BY DEF DataTypes
<1>2. CASE Few(AtRisk, n)
  <2>1. Few(AtRisk', m)
    BY <1>1, <1>2, FewLess
  <2>2. QED
    BY <2>1 DEF Account
<1>3. ASSUME Few(AtRisk, n + 1), Tight PROVE Account'
  <2>1. CASE m # n
    <3>1. n + 1 \in Nat /\ n + 1 <= m
      BY <1>1, <2>1
    <3> HIDE DEF n, m
    <3>2. Few(AtRisk', m)
      BY <1>1, <1>3, <3>1, FewLess
    <3>3. QED
      BY <3>2 DEF Account, m
  <2>2. ASSUME m = n, NEW s \in AtRisk, s \notin AtRisk' PROVE Account'
    <3>1. IsFiniteSet(AtRisk) /\ Cardinality(AtRisk) <= n + 1 /\ Cardinality(AtRisk) \in Nat
      BY <1>3, FS_CardinalityType DEF Few
    <3>2. /\ IsFiniteSet(AtRisk \ {s})
          /\ Cardinality(AtRisk \ {s}) = Cardinality(AtRisk) - 1
      BY <2>2, <3>1, FS_RemoveElement
    <3>3. Few(AtRisk \ {s}, n)
      BY <1>1, <3>1, <3>2 DEF Few
    <3>4. AtRisk' \subseteq AtRisk \ {s}
      BY <2>2
    <3>5. Few(AtRisk', n)
      BY <1>1, <3>3, <3>4, FewLess
    <3>6. QED
      BY <2>2, <3>5 DEF Account
  <2>3. CASE m = n /\ Tight'
    <3>1. Few(AtRisk', n + 1)
      BY <1>1, <1>3, FewLess
    <3>2. QED
      BY <2>3, <3>1 DEF Account
  <2>4. races' + crashes' = races + crashes <=> m = n
    BY DEF DataTypes
  <2>5. QED
    BY <1>3, <2>1, <2>2, <2>3, <2>4
<1>4. QED
  BY <1>2, <1>3 DEF Account

LEMMA LostInit == Data!Init => KeptInv /\ Account
<1> SUFFICES ASSUME Data!Init PROVE KeptInv /\ Account
  OBVIOUS
<1>1. /\ kept = {} /\ crashes = 0 /\ races = 0 /\ \A w \in Procs : ~RecordWriter(w) /\ ~draft[w].open
      /\ \A w \in Procs : \A r : ~JobOn(w, r)
      /\ \A a \in Data!Places : \A r : ~Data!HoldsRec(a, r)
  BY DEF Data!Init, RecordWriter, JobOn, Data!Idle, Data!NoDraft, Data!HoldsRec, Data!Whole, Data!Absent
<1>2. AtRisk = {}
  BY <1>1 DEF AtRisk, Missing, Aimed
<1>3. Few(AtRisk, crashes + races)
  BY <1>1, <1>2, FS_EmptySet DEF Few
<1>4. QED
  BY <1>1, <1>3 DEF KeptInv, Account

\* A step that leaves the files and the records' jobs as they are.
LEMMA TightSame ==
  ASSUME Tight, UNCHANGED files, kept' \subseteq kept,
         \A v \in Procs : RecordWriter(v)' => RecordWriter(v),
         \A v \in Procs : RecordWriter(v) => job'[v] = job[v]
  PROVE  Tight'
<1>1. \A v \in Procs : RecordWriter(v)' <=> RecordWriter(v)
  BY DEF RecordWriter
<1>2. \A v \in Procs : \A a : Aims(v, a)' <=> Aims(v, a)
  BY <1>1 DEF Aims, Moving
<1>3. \A a : \A r : Data!HoldsRec(a, r)' <=> Data!HoldsRec(a, r)
  BY DEF Data!HoldsRec, Data!Whole
<1>4. \A x \in Procs : Survivor(x) => Survivor(x)'
  BY <1>1, <1>2, <1>3 DEF Survivor, Moving
<1>5. \A w \in Procs : RecordWriter(w) /\ Apart(w) => Apart(w)'
  BY <1>1, <1>2, <1>3 DEF Apart, Data!Places
<1>6. \A w \in Procs : RecordWriter(w) /\ Intact(w) => Intact(w)'
  BY <1>1, <1>3 DEF Intact
<1>7. QED
  BY <1>1, <1>4, <1>5, <1>6 DEF Tight

\* A process goes on writing: the file it aims at is as it says, and what the
\* others aim at is as it was.
GoesOn(w, b) ==
  /\ RecordWriter(w) /\ b \in Data!Places /\ Aims(w, b)
  /\ \A v \in Procs : v # w => job'[v] = job[v]
  /\ \A a \in Data!Places : a # b => files'[a] = files[a]
  /\ \A r : Data!HoldsRec(b, r)' => r = job[w].val.id
  /\ kept' \subseteq kept \union {job[w].val.id}
  /\ \/ job'[w] = Data!Idle
     \/ /\ job'[w].kind = "record" /\ job'[w].val = job[w].val /\ job'[w].file = job[w].file
        /\ job'[w].old = job[w].old /\ job'[w].phase \in {"opened", "written"}
        /\ job[w].phase # "written" /\ b = job[w].file

LEMMA GoesOnIs ==
  ASSUME NEW w \in Procs, NEW b, GoesOn(w, b)
  PROVE  /\ \A v \in Procs : RecordWriter(v)' => RecordWriter(v) /\ job'[v].val = job[v].val
                               /\ job'[v].file = job[v].file /\ job'[v].old = job[v].old
         /\ \A v \in Procs : \A a : Aims(v, a)' => Aims(v, a)
         /\ \A v \in Procs : \A r : JobOn(v, r)' => JobOn(v, r)
         /\ \A a \in Data!Places : a # b => \A r : Data!HoldsRec(a, r)' <=> Data!HoldsRec(a, r)
         /\ \A v \in Procs : v # w => (RecordWriter(v)' <=> RecordWriter(v))
<1>1. \A v \in Procs : RecordWriter(v)' => RecordWriter(v) /\ job'[v].val = job[v].val
                         /\ job'[v].file = job[v].file /\ job'[v].old = job[v].old
  BY DEF GoesOn, RecordWriter, Data!Idle
<1>2. \A v \in Procs : \A a : Aims(v, a)' => Aims(v, a)
  BY DEF GoesOn, RecordWriter, Data!Idle, Aims, Moving
<1>3. \A v \in Procs : \A r : JobOn(v, r)' => JobOn(v, r)
  BY <1>1 DEF JobOn, RecordWriter
<1>4. \A a \in Data!Places : a # b => \A r : Data!HoldsRec(a, r)' <=> Data!HoldsRec(a, r)
  BY DEF GoesOn, Data!HoldsRec, Data!Whole
<1>5. \A v \in Procs : v # w => (RecordWriter(v)' <=> RecordWriter(v))
  BY DEF GoesOn, RecordWriter
<1>6. QED
  BY <1>1, <1>2, <1>3, <1>4, <1>5

LEMMA RiskOn ==
  ASSUME DataTypes, NEW w \in Procs, NEW b, GoesOn(w, b)
  PROVE  AtRisk' \subseteq AtRisk
<1>1. job[w].val.id \in AtRisk
  BY WritersAre DEF GoesOn
<1>2. \A a \in Data!Places : \A r : Data!HoldsRec(a, r)' => Data!HoldsRec(a, r) \/ r \in AtRisk
  BY <1>1, GoesOnIs DEF GoesOn
<1>3. \A a \in Data!Places : \A r : Data!HoldsRec(a, r) => Data!HoldsRec(a, r)' \/ r \in AtRisk
  <2> SUFFICES ASSUME NEW a \in Data!Places, NEW r, Data!HoldsRec(a, r) PROVE Data!HoldsRec(a, r)' \/ r \in AtRisk
    OBVIOUS
  <2>1. CASE a = b
    BY <2>1, HoldsRecord DEF AtRisk, Aimed, GoesOn
  <2>2. CASE a # b
    BY <2>2, GoesOnIs
  <2>3. QED
    BY <2>1, <2>2
<1>4. \A r \in kept' : r \in kept \/ r \in AtRisk
  BY <1>1 DEF GoesOn
<1>5. AtRisk' \subseteq AtRisk \union {}
  BY <1>2, <1>3, <1>4, GoesOnIs, RiskGoes
<1>6. QED
  BY <1>5

\* The others are as well off as they were.
LEMMA OthersOn ==
  ASSUME DataTypes, Tight, NEW w \in Procs, NEW b, GoesOn(w, b)
  PROVE  /\ \A x \in Procs : x # w /\ Survivor(x) => Survivor(x)'
         /\ \A v, x \in Procs : RecordWriter(v)' /\ RecordWriter(x)' /\ job'[v].val.id = job'[x].val.id => v = x
         /\ \A v \in Procs : v # w /\ RecordWriter(v)' =>
              Apart(v)' /\ (job'[v].phase = "checked" => Intact(v)')
<1>1. ASSUME NEW x \in Procs, x # w, Survivor(x) PROVE Survivor(x)'
  <2>1. job'[x] = job[x] /\ RecordWriter(x) /\ job[x].file \in Data!Places
    BY <1>1, WritersAre DEF GoesOn, Survivor
  <2>2. \A y \in Procs : y # x /\ RecordWriter(y)' /\ Moving(y)' => job'[y].old # job[x].file
    BY <1>1, GoesOnIs DEF Survivor, Moving
  <2>3. ASSUME job[x].phase = "written"
        PROVE  /\ files'[job[x].file].state = "whole" /\ files'[job[x].file].id = job[x].val.id
               /\ \A y \in Procs : y # x => ~Aims(y, job[x].file)'
    <3>1. /\ Data!HoldsRec(job[x].file, job[x].val.id)
          /\ \A y \in Procs : y # x => ~Aims(y, job[x].file)
      BY <1>1, <2>3 DEF Survivor
    <3>2. job[x].file # b
      BY <1>1, <3>1 DEF GoesOn
    <3>3. files'[job[x].file] = files[job[x].file]
      BY <2>1, <3>2 DEF GoesOn
    <3>4. \A y \in Procs : \A a : Aims(y, a)' => Aims(y, a)
      BY GoesOnIs
    <3>5. \A y \in Procs : y # x => ~Aims(y, job[x].file)'
      <4> SUFFICES ASSUME NEW y \in Procs, y # x PROVE ~Aims(y, job[x].file)'
        OBVIOUS
      <4>1. \A a : ~Aims(y, a) => ~Aims(y, a)'
        BY <3>4
      <4>2. QED
        BY <2>1, <3>1, <4>1 DEF Aims, Moving, RecordWriter
    <3>6. QED
      BY <3>1, <3>3, <3>5 DEF Data!HoldsRec, Data!Whole
  <2>4. QED
    BY <2>1, <2>2, <2>3 DEF Survivor, RecordWriter, Data!HoldsRec, Data!Whole
<1>2. ASSUME NEW v \in Procs, v # w, RecordWriter(v)'
      PROVE  Apart(v)' /\ (job'[v].phase = "checked" => Intact(v)')
  <2>1. /\ job'[v] = job[v] /\ RecordWriter(v) /\ Apart(v) /\ (job[v].phase = "checked" => Intact(v))
        /\ job[v].val.id # job[w].val.id /\ job[v].old \in Data!Places
    BY <1>2, GoesOnIs, WritersAre DEF GoesOn, Tight
  <2>2. ASSUME NEW a \in Data!Places, Data!HoldsRec(a, job[v].val.id)',
               a = job[v].file => job[v].phase = "checked",
               NEW y \in Procs, y # v
        PROVE  ~Aims(y, a)'
    <3>1. \A r : Data!HoldsRec(b, r)' => r = job[w].val.id
      BY DEF GoesOn
    <3>2. a # b
      BY <2>1, <2>2, <3>1 DEF Data!HoldsRec, Data!Whole
    <3>3. files'[a] = files[a]
      BY <3>2 DEF GoesOn
    <3>4. Data!HoldsRec(a, job[v].val.id)
      BY <2>1, <2>2, <3>3 DEF Data!HoldsRec, Data!Whole
    <3>5. ~Aims(y, a)
      BY <2>1, <2>2, <3>4 DEF Apart
    <3>6. QED
      BY <3>5, GoesOnIs
  <2>3. ASSUME job[v].phase = "checked", job[v].val.id \in kept'
        PROVE  files'[job[v].old].state = "whole" /\ files'[job[v].old].id = job[v].val.id
    <3>1. Data!HoldsRec(job[v].old, job[v].val.id)
      BY <2>1, <2>3 DEF GoesOn, Intact
    <3>2. ~Aims(w, job[v].old)
      BY <1>2, <2>1, <2>3, <3>1 DEF Apart
    <3>3. files'[job[v].old] = files[job[v].old]
      BY <2>1, <3>2 DEF GoesOn
    <3>4. QED
      BY <3>1, <3>3 DEF Data!HoldsRec, Data!Whole
  <2>4. Apart(v)'
    BY <2>1, <2>2 DEF Apart, Data!HoldsRec, Data!Whole, Data!Places
  <2>5. QED
    BY <2>1, <2>3, <2>4 DEF Intact, Data!HoldsRec, Data!Whole
<1>3. \A v, x \in Procs : RecordWriter(v)' /\ RecordWriter(x)' /\ job'[v].val.id = job'[x].val.id => v = x
  BY GoesOnIs DEF Tight
<1>4. QED
  BY <1>1, <1>2, <1>3

\* A process opens its file.
LEMMA TruncateGoes ==
  ASSUME DataTypes, NEW w \in Procs, TruncatesRecord(w), NEW b, b = job[w].file
  PROVE  /\ GoesOn(w, b) /\ RecordWriter(w)' /\ job[w].phase = "checked"
         /\ job'[w].phase = "opened" /\ UNCHANGED <<crashes, races>>
<1> DEFINE i == [job[w] EXCEPT !.phase = "opened"]
<1>1. /\ i \in RecordJobs /\ i.phase = "opened" /\ i.val = job[w].val
      /\ i.file = job[w].file /\ i.old = job[w].old
      /\ job' = [job EXCEPT ![w] = i]
      /\ job[w] \in RecordJobs /\ job[w].phase = "checked"
  BY PhaseIs DEF TruncatesRecord
<1> HIDE DEF i
<1>2. i.kind = "record" /\ job[w].kind = "record" /\ job[w].file \in Data!Places
  BY <1>1 DEF RecordJobs
<1>3. job'[w] = i /\ \A v \in Procs : v # w => job'[v] = job[v]
  BY <1>1 DEF DataTypes
<1>4. \A a \in Data!Places : files'[a] = IF a = job[w].file THEN Data!Torn ELSE files[a]
  BY DEF TruncatesRecord, DataTypes
<1>5. \A r : ~Data!HoldsRec(b, r)'
  BY <1>2, <1>4 DEF Data!HoldsRec, Data!Whole, Data!Torn
<1>6. Aims(w, b)
  BY <1>1, <1>2 DEF Aims, RecordWriter
<1>8. kept' = kept /\ UNCHANGED <<crashes, races>>
  BY DEF TruncatesRecord
<1>9. RecordWriter(w)' /\ RecordWriter(w)
  BY <1>2, <1>3 DEF RecordWriter
<1>10. /\ job'[w].kind = "record" /\ job'[w].val = job[w].val /\ job'[w].file = job[w].file
       /\ job'[w].old = job[w].old /\ job'[w].phase = "opened" /\ job[w].phase # "written"
  BY <1>1, <1>2, <1>3
<1>11. GoesOn(w, b)
  <2>1. /\ b \in Data!Places /\ \A r : Data!HoldsRec(b, r)' => r = job[w].val.id
        /\ \A a \in Data!Places : a # b => files'[a] = files[a]
    BY <1>2, <1>4, <1>5
  <2>2. QED
    BY <1>3, <1>6, <1>8, <1>9, <1>10, <2>1 DEF GoesOn
<1>12. QED
  BY <1>1, <1>8, <1>9, <1>10, <1>11

LEMMA LostTruncates ==
  ASSUME DataTypes, DataTypes', Account, NEW w \in Procs, TruncatesRecord(w)
  PROVE  Account'
<1> PICK b : b = job[w].file
  OBVIOUS
<1>1. /\ GoesOn(w, b) /\ RecordWriter(w)' /\ job[w].phase = "checked"
      /\ job'[w].phase = "opened" /\ UNCHANGED <<crashes, races>>
  BY TruncateGoes
<1>2. /\ AtRisk' \subseteq AtRisk /\ RecordWriter(w) /\ \A v \in Procs : v # w => job'[v] = job[v]
      /\ job'[w].file = b /\ job'[w].old = job[w].old /\ job'[w].val = job[w].val
  BY <1>1, RiskOn, GoesOnIs DEF GoesOn
<1>3. ASSUME Tight PROVE Tight'
  <2>1. /\ \A x \in Procs : x # w /\ Survivor(x) => Survivor(x)'
        /\ \A v, x \in Procs : RecordWriter(v)' /\ RecordWriter(x)' /\ job'[v].val.id = job'[x].val.id => v = x
        /\ \A v \in Procs : v # w /\ RecordWriter(v)' =>
             Apart(v)' /\ (job'[v].phase = "checked" => Intact(v)')
    BY <1>1, <1>3, OthersOn
  <2>2. Survivor(w) => Survivor(w)'
    <3>1. Survivor(w) => \A y \in Procs : y # w /\ RecordWriter(y)' /\ Moving(y)' => job'[y].old # job'[w].file
      BY <1>1, <1>2, GoesOnIs DEF Survivor, Moving
    <3>2. QED
      BY <1>1, <3>1 DEF Survivor
  <2>3. Apart(w)'
    <3> SUFFICES ASSUME NEW a \in Data!Places, Data!HoldsRec(a, job[w].val.id)', a # b,
                        NEW y \in Procs, y # w
                 PROVE  ~Aims(y, a)'
      BY <1>1, <1>2 DEF Apart, Data!Places
    <3>1. files'[a] = files[a]
      BY <1>1 DEF GoesOn
    <3>2. Data!HoldsRec(a, job[w].val.id)
      BY <1>2, <3>1 DEF Data!HoldsRec, Data!Whole
    <3>3. ~Aims(y, a)
      BY <1>2, <1>3, <3>2 DEF Apart, Tight
    <3>4. QED
      BY <1>1, <3>3, GoesOnIs
  <2>4. \E x \in Procs : Survivor(x)'
    BY <1>3, <2>1, <2>2 DEF Tight
  <2>5. QED
    BY <1>1, <2>1, <2>3, <2>4 DEF Tight
<1>4. races' + crashes' >= races + crashes
  BY <1>1 DEF DataTypes
<1>5. QED
  BY <1>2, <1>3, <1>4, AccountGoes

\* The one that ends well: its record is in a file nobody aims at, and no
\* other file of it is aimed at.
LEMMA EndsWell ==
  ASSUME DataTypes, Tight, NEW w \in Procs, NEW b, GoesOn(w, b), job'[w] = Data!Idle,
         NEW r, r = job[w].val.id, NEW c \in Data!Places, c = job[w].file,
         Data!HoldsRec(c, r)', \A y \in Procs : y # w => ~Aims(y, c)',
         job[w].phase # "checked", b = c \/ \A u : ~Data!HoldsRec(b, u)'
  PROVE  \E s \in AtRisk : s \notin AtRisk'
<1>1. r \in AtRisk /\ RecordWriter(w)
  BY WritersAre DEF GoesOn
<1>2. \A v \in Procs : ~JobOn(v, r)'
  <2>1. \A v \in Procs : JobOn(v, r)' => JobOn(v, r) /\ v # w
    BY GoesOnIs DEF JobOn, Data!Idle
  <2>2. QED
    BY <1>1, <2>1 DEF Tight, JobOn, RecordWriter
<1>3. ~Missing(r)'
  <2>1. c \in Data!Copies(r)'
    BY DEF Data!Copies, Data!Places
  <2>2. QED
    BY <2>1 DEF Missing
<1>4. ~Aimed(r)'
  <2> SUFFICES ASSUME NEW a \in Data!Places, NEW y \in Procs, Data!HoldsRec(a, r)', Aims(y, a)'
               PROVE  FALSE
    BY DEF Aimed, Data!Places
  <2>1. y # w
    BY DEF Aims, RecordWriter, Data!Idle
  <2>2. a # c
    BY <2>1
  <2>3. Data!HoldsRec(a, r)
    <3>1. CASE a = b
      BY <2>2, <3>1
    <3>2. CASE a # b
      BY <3>2, GoesOnIs
    <3>3. QED
      BY <3>1, <3>2
  <2>4. Aims(y, a)
    BY GoesOnIs
  <2>5. QED
    BY <1>1, <2>1, <2>2, <2>3, <2>4 DEF Tight, Apart
<1>5. QED
  BY <1>1, <1>2, <1>3, <1>4 DEF AtRisk

\* A process fills its file.
LEMMA FillGoes ==
  ASSUME DataTypes, NEW w \in Procs, FillsRecord(w), NEW b, b = job[w].file, NEW r, r = job[w].val.id
  PROVE  /\ GoesOn(w, b) /\ Data!HoldsRec(b, r)' /\ job[w].phase = "opened"
         /\ UNCHANGED <<crashes, races>>
         /\ \/ job[w].old = b /\ job'[w] = Data!Idle
            \/ job[w].old # b /\ RecordWriter(w)' /\ job'[w].phase = "written"
<1>1. /\ job[w] \in RecordJobs /\ job[w].phase = "opened" /\ kept' \subseteq kept \union {r}
      /\ UNCHANGED <<crashes, races>>
      /\ files' = [files EXCEPT ![job[w].file] = job[w].val]
  BY DEF FillsRecord
<1>2. job[w].kind = "record" /\ b \in Data!Places /\ job[w].val \in RecVals /\ RecordWriter(w)
  BY <1>1 DEF RecordJobs, RecordWriter
<1>3. \A a \in Data!Places : files'[a] = IF a = b THEN job[w].val ELSE files[a]
  BY <1>1 DEF DataTypes
<1>4. Data!HoldsRec(b, r)' /\ \A u : Data!HoldsRec(b, u)' => u = r
  BY <1>2, <1>3 DEF Data!HoldsRec, Data!Whole, RecVals
<1>5. Aims(w, b)
  BY <1>1, <1>2 DEF Aims
<1>6. CASE job[w].old = job[w].file /\ job' = [job EXCEPT ![w] = Data!Idle]
  <2>1. job'[w] = Data!Idle /\ \A v \in Procs : v # w => job'[v] = job[v]
    BY <1>6 DEF DataTypes
  <2>2. GoesOn(w, b)
    BY <1>1, <1>2, <1>3, <1>4, <1>5, <2>1 DEF GoesOn
  <2>3. QED
    BY <1>1, <1>4, <1>6, <2>1, <2>2
<1>7. CASE job[w].old # job[w].file /\ job' = [job EXCEPT ![w] = [job[w] EXCEPT !.phase = "written"]]
  <2> DEFINE i == [job[w] EXCEPT !.phase = "written"]
  <2>1. /\ i \in RecordJobs /\ i.phase = "written" /\ i.val = job[w].val
        /\ i.file = job[w].file /\ i.old = job[w].old /\ job' = [job EXCEPT ![w] = i]
    BY <1>1, <1>7, PhaseIs
  <2> HIDE DEF i
  <2>2. i.kind = "record" /\ job'[w] = i /\ \A v \in Procs : v # w => job'[v] = job[v]
    BY <2>1 DEF RecordJobs, DataTypes
  <2>3. GoesOn(w, b)
    BY <1>1, <1>2, <1>3, <1>4, <1>5, <2>1, <2>2 DEF GoesOn
  <2>4. QED
    BY <1>1, <1>4, <1>7, <2>1, <2>2, <2>3 DEF RecordWriter
<1>8. QED
  BY <1>6, <1>7 DEF FillsRecord

\* Somebody else who has the same file still to fill survives.
LEMMA RivalSurvives ==
  ASSUME DataTypes, NEW w \in Procs, Survivor(w), NEW b, b = job[w].file, GoesOn(w, b),
         NEW y \in Procs, y # w, Aims(y, b), job[w].phase # "written"
  PROVE  Survivor(y)'
<1>1. RecordWriter(y)' /\ job'[y] = job[y] /\ RecordWriter(y)
  BY GoesOnIs DEF GoesOn, Aims
<1>2. job[y].phase # "written" /\ job[y].file = b
  BY <1>1 DEF Aims, Survivor
<1>3. \A v \in Procs : v # y /\ RecordWriter(v)' /\ Moving(v)' => job'[v].old # b
  BY GoesOnIs DEF Survivor, Moving
<1>4. QED
  BY <1>1, <1>2, <1>3 DEF Survivor

LEMMA ApartOn ==
  ASSUME DataTypes, Tight, NEW w \in Procs, NEW b, b = job[w].file, GoesOn(w, b), RecordWriter(w)',
         job'[w].phase # "checked", job'[w].file = b, job'[w].val = job[w].val
  PROVE  Apart(w)'
<1> SUFFICES ASSUME NEW a \in Data!Places, Data!HoldsRec(a, job[w].val.id)', a # b,
                    NEW y \in Procs, y # w
             PROVE  ~Aims(y, a)'
  BY DEF Apart, Data!Places
<1>1. files'[a] = files[a] /\ RecordWriter(w)
  BY DEF GoesOn
<1>2. Data!HoldsRec(a, job[w].val.id)
  BY <1>1 DEF Data!HoldsRec, Data!Whole
<1>3. ~Aims(y, a)
  BY <1>1, <1>2 DEF Apart, Tight
<1>4. QED
  BY <1>3, GoesOnIs

LEMMA LostFills ==
  ASSUME DataTypes, DataTypes', Account, NEW w \in Procs, FillsRecord(w)
  PROVE  Account'
<1> PICK b, r : b = job[w].file /\ r = job[w].val.id
  OBVIOUS
<1>1. /\ GoesOn(w, b) /\ Data!HoldsRec(b, r)' /\ job[w].phase = "opened"
      /\ UNCHANGED <<crashes, races>>
      /\ \/ job[w].old = b /\ job'[w] = Data!Idle
         \/ job[w].old # b /\ RecordWriter(w)' /\ job'[w].phase = "written"
  BY FillGoes
<1>2. /\ AtRisk' \subseteq AtRisk /\ RecordWriter(w) /\ b \in Data!Places
      /\ RecordWriter(w)' => job'[w].file = b /\ job'[w].old = job[w].old /\ job'[w].val = job[w].val
  BY <1>1, RiskOn, GoesOnIs DEF GoesOn
<1>3. ASSUME Tight PROVE Tight' \/ \E s \in AtRisk : s \notin AtRisk'
  <2>1. /\ \A x \in Procs : x # w /\ Survivor(x) => Survivor(x)'
        /\ \A v, x \in Procs : RecordWriter(v)' /\ RecordWriter(x)' /\ job'[v].val.id = job'[x].val.id => v = x
        /\ \A v \in Procs : v # w /\ RecordWriter(v)' =>
             Apart(v)' /\ (job'[v].phase = "checked" => Intact(v)')
    BY <1>1, <1>3, OthersOn
  <2>2. RecordWriter(w)' => Apart(w)' /\ job'[w].phase = "written"
    <3>1. ~Data!Idle.kind = "record"
      BY DEF Data!Idle
    <3>2. RecordWriter(w)' => job'[w].phase = "written"
      BY <1>1, <3>1 DEF RecordWriter
    <3>3. RecordWriter(w)' => Apart(w)'
      BY <1>1, <1>2, <1>3, <3>2, ApartOn
    <3>4. QED
      BY <3>2, <3>3
  <2>3. ASSUME NEW x \in Procs, Survivor(x)' PROVE Tight'
    BY <2>1, <2>2, <2>3 DEF Tight
  <2>4. CASE \E x \in Procs : x # w /\ Survivor(x)
    BY <2>1, <2>3, <2>4
  <2>5. ASSUME Survivor(w), NEW y \in Procs, y # w, Aims(y, b) PROVE Tight'
    <3>1. Survivor(y)'
      BY <1>1, <2>5, RivalSurvives
    <3>2. QED
      BY <2>3, <3>1
  <2>6. ASSUME Survivor(w), \A y \in Procs : y # w => ~Aims(y, b)
        PROVE  Tight' \/ \E s \in AtRisk : s \notin AtRisk'
    <3>1. \A y \in Procs : y # w => ~Aims(y, b)'
      BY <1>1, <2>6, GoesOnIs
    <3>2. CASE job'[w] = Data!Idle
      BY <1>1, <1>2, <1>3, <3>1, <3>2, EndsWell
    <3>3. CASE RecordWriter(w)' /\ job'[w].phase = "written"
      <4>1. \A y \in Procs : y # w /\ RecordWriter(y)' /\ Moving(y)' => job'[y].old # b
        BY <1>1, <2>6, GoesOnIs DEF Survivor, Moving
      <4>2. ASSUME NEW y \in Procs, y # w PROVE ~Aims(y, job[w].file)'
        BY <1>2, <3>1, <3>3, <4>2 DEF Aims, Moving, RecordWriter
      <4>3. files'[b].state = "whole" /\ files'[b].id = job'[w].val.id
        BY <1>1, <1>2, <3>3 DEF Data!HoldsRec, Data!Whole
      <4>4. Survivor(w)'
        BY <1>2, <3>3, <4>1, <4>2, <4>3 DEF Survivor, Data!HoldsRec, Data!Whole
      <4>5. QED
        BY <2>3, <4>4
    <3>4. QED
      BY <1>1, <3>2, <3>3
  <2>7. QED
    BY <1>3, <2>4, <2>5, <2>6 DEF Tight
<1>4. races' + crashes' >= races + crashes
  BY <1>1 DEF DataTypes
<1>5. QED
  BY <1>2, <1>3, <1>4, AccountGoes

LEMMA LostUnlinks ==
  ASSUME DataTypes, DataTypes', KeptInv, Account, NEW w \in Procs, Unlinks(w)
  PROVE  Account'
<1> PICK b, c, r : b = job[w].old /\ c = job[w].file /\ r = job[w].val.id
  OBVIOUS
<1>1. /\ job[w] \in RecordJobs /\ RecordWriter(w) /\ job[w].phase = "written" /\ b # c
      /\ b \in Data!Places /\ c \in Data!Places
  BY DEF Unlinks, RecordJobs, RecordWriter, KeptInv, Moving
<1>2. /\ job'[w] = Data!Idle /\ \A v \in Procs : v # w => job'[v] = job[v]
      /\ \A a \in Data!Places : files'[a] = IF a = b THEN Data!Absent ELSE files[a]
      /\ UNCHANGED <<kept, crashes, races>>
  BY DEF Unlinks, DataTypes
<1>3. \A u : ~Data!HoldsRec(b, u)'
  BY <1>1, <1>2 DEF Data!HoldsRec, Data!Whole, Data!Absent
<1>4. Aims(w, b)
  BY <1>1 DEF Aims, Moving
<1>5. GoesOn(w, b)
  BY <1>1, <1>2, <1>3, <1>4 DEF GoesOn
<1>6. AtRisk' \subseteq AtRisk /\ ~RecordWriter(w)'
  BY <1>2, <1>5, RiskOn DEF RecordWriter, Data!Idle
<1>7. ASSUME Tight PROVE Tight' \/ \E s \in AtRisk : s \notin AtRisk'
  <2>1. /\ \A x \in Procs : x # w /\ Survivor(x) => Survivor(x)'
        /\ \A v, x \in Procs : RecordWriter(v)' /\ RecordWriter(x)' /\ job'[v].val.id = job'[x].val.id => v = x
        /\ \A v \in Procs : v # w /\ RecordWriter(v)' =>
             Apart(v)' /\ (job'[v].phase = "checked" => Intact(v)')
    BY <1>5, <1>7, OthersOn
  <2>2. CASE \E x \in Procs : x # w /\ Survivor(x)
    BY <1>6, <2>1, <2>2 DEF Tight
  <2>3. CASE Survivor(w)
    <3>1. Data!HoldsRec(c, r) /\ \A y \in Procs : y # w => ~Aims(y, c)
      BY <1>1, <2>3 DEF Survivor
    <3>2. Data!HoldsRec(c, r)' /\ \A y \in Procs : y # w => ~Aims(y, c)'
      BY <1>1, <1>5, <3>1, GoesOnIs
    <3>3. QED
      BY <1>1, <1>2, <1>3, <1>5, <1>7, <3>2, EndsWell
  <2>4. QED
    BY <1>7, <2>2, <2>3 DEF Tight
<1>8. races' + crashes' >= races + crashes
  BY <1>2 DEF DataTypes
<1>9. QED
  BY <1>6, <1>7, <1>8, AccountGoes

\* A step that takes nobody a record to write, and removes none that is kept.
LEMMA QuietGoes ==
  ASSUME DataTypes, kept' \subseteq kept,
         \A v \in Procs : RecordWriter(v)' => RecordWriter(v) /\ job'[v] = job[v],
         \A a \in Data!Places : \/ files'[a] = files[a]
                                \/ /\ files'[a] = Data!Absent
                                   /\ \A r : Data!HoldsRec(a, r) => r \notin kept'
  PROVE  AtRisk' \subseteq AtRisk
<1>1. \A v \in Procs : \A r : JobOn(v, r)' => JobOn(v, r)
  BY DEF JobOn, RecordWriter
<1>2. \A v \in Procs : \A a : Aims(v, a)' => Aims(v, a)
  BY DEF Aims, Moving, RecordWriter
<1>3. \A a \in Data!Places : \A r : Data!HoldsRec(a, r)' => Data!HoldsRec(a, r)
  BY DEF Data!HoldsRec, Data!Whole, Data!Absent
<1>4. \A a \in Data!Places : \A r : Data!HoldsRec(a, r) => Data!HoldsRec(a, r)' \/ r \notin kept'
  BY DEF Data!HoldsRec, Data!Whole, Data!Absent
<1>5. AtRisk' \subseteq AtRisk \union {}
  BY <1>1, <1>2, <1>3, <1>4, RiskGoes
<1>6. QED
  BY <1>5

\* While the account is tight, whoever begins is beside the survivor.
LEMMA BesideSurvivor ==
  ASSUME DataTypes, NEW w \in Procs, Data!Begins(w)
  PROVE  /\ races' \in Nat /\ races' >= races /\ (Tight => races' = races + 1)
         /\ (\E v \in Procs : v # w /\ job[v] # Data!Idle) => races' = races + 1
<1>1. /\ job[w] = Data!Idle /\ races' \in Nat /\ races \in Nat
      /\ races' = IF \E v \in Procs \ {w} : job[v] # Data!Idle THEN races + 1 ELSE races
  BY BeginsTypes DEF DataTypes
<1>2. (\E v \in Procs : v # w /\ job[v] # Data!Idle) => races' = races + 1
  BY <1>1
<1>3. ASSUME Tight PROVE races' = races + 1
  <2>1. PICK x \in Procs : RecordWriter(x)
    BY <1>3 DEF Tight, Survivor
  <2>2. job[x] # Data!Idle
    BY <2>1, WritersAre
  <2>3. QED
    BY <1>1, <1>2, <2>2
<1>4. QED
  BY <1>1, <1>2, <1>3

LEMMA MoreRaces ==
  ASSUME NEW n \in Nat, NEW m \in Nat, NEW k \in Nat, m >= n
  PROVE  m + k >= n + k /\ (m = n + 1 => m + k # n + k)
  OBVIOUS

LEMMA LostQuiet ==
  ASSUME DataTypes, DataTypes', Account, NEW w \in Procs,
         \/ Drafting(w) \/ Deletes(w) \/ (\E t : BeginsTable(w, t))
         \/ TruncatesTable(w) \/ FillsTable(w) \/ Dies(w)
  PROVE  Account'
<1>1. /\ job \in [Procs -> {Data!Idle} \union RecordJobs \union TableJobs]
      /\ races \in Nat /\ crashes \in Nat /\ Data!Idle.kind # "record"
      /\ files \in [Data!Places -> FileVals]
  BY DEF DataTypes, Data!Idle
<1>2. ASSUME kept' = kept, UNCHANGED files,
             ~RecordWriter(w), ~RecordWriter(w)', \A v \in Procs : v # w => job'[v] = job[v],
             races' \in Nat, races' >= races, crashes' = crashes
      PROVE  Account'
  <2>1. \A v \in Procs : /\ RecordWriter(v)' => RecordWriter(v)
                         /\ RecordWriter(v) => job'[v] = job[v]
    BY <1>2 DEF RecordWriter
  <2>2. AtRisk' \subseteq AtRisk
    BY <1>2, <2>1, QuietGoes
  <2>3. Tight => Tight'
    BY <1>2, <2>1, TightSame
  <2>4. races' + crashes' >= races + crashes
    BY <1>1, <1>2, MoreRaces
  <2>5. QED
    BY <2>2, <2>3, <2>4, AccountGoes
<1>3. CASE Drafting(w)
  <2>1. job' = job /\ ~Data!Busy(w) /\ UNCHANGED <<files, kept, races, crashes>>
    BY <1>3 DEF Drafting
  <2>2. ~RecordWriter(w)
    BY <1>1, <2>1, JobsAre DEF RecordWriter
  <2>3. QED
    BY <1>1, <1>2, <2>1, <2>2 DEF RecordWriter
<1>4. CASE Deletes(w)
  <2>1. /\ job' = job /\ kept' \subseteq kept /\ crashes' = crashes /\ Data!Begins(w)
        /\ \A a \in Data!Places : \/ files'[a] = files[a]
                                  \/ /\ files'[a] = Data!Absent
                                     /\ \A r : Data!HoldsRec(a, r) => r \notin kept'
    <3>1. PICK r \in Records, a \in Data!Places :
            /\ Data!HoldsRec(a, r) /\ files' = [files EXCEPT ![a] = Data!Absent]
            /\ kept' = kept \ {r}
      BY <1>4 DEF Deletes
    <3>2. \A u : Data!HoldsRec(a, u) => u \notin kept'
      BY <3>1, HoldsOne
    <3>3. QED
      BY <1>1, <1>4, <3>1, <3>2 DEF Deletes
  <2>2. \A v \in Procs : RecordWriter(v)' => RecordWriter(v) /\ job'[v] = job[v]
    BY <2>1 DEF RecordWriter
  <2>3. AtRisk' \subseteq AtRisk
    BY <2>1, <2>2, QuietGoes
  <2>4. races' \in Nat /\ races' >= races /\ (Tight => races' = races + 1)
    BY <2>1, BesideSurvivor
  <2>5. races' + crashes' >= races + crashes /\ (Tight => races' + crashes' # races + crashes)
    BY <1>1, <2>1, <2>4, MoreRaces
  <2>6. QED
    BY <2>3, <2>5, AccountGoes
<1>5. ASSUME NEW t, BeginsTable(w, t) PROVE Account'
  <2>1. /\ job' = [job EXCEPT ![w] = Data!TableJob(t)] /\ Data!Begins(w)
        /\ UNCHANGED <<files, kept, crashes>>
    BY <1>5 DEF BeginsTable
  <2>2. Data!TableJob(t).kind # "record" /\ job[w] = Data!Idle /\ races' \in Nat /\ races' >= races
    BY <2>1, BeginsTypes, BesideSurvivor DEF Data!TableJob
  <2>3. QED
    BY <1>1, <1>2, <2>1, <2>2 DEF RecordWriter
<1>6. CASE TruncatesTable(w)
  <2> DEFINE i == [job[w] EXCEPT !.phase = "opened"]
  <2>1. i \in TableJobs /\ job[w] \in TableJobs /\ job' = [job EXCEPT ![w] = i]
    BY <1>6, TablePhaseIs DEF TruncatesTable
  <2> HIDE DEF i
  <2>2. i.kind # "record" /\ job[w].kind # "record" /\ job'[w] = i
        /\ \A v \in Procs : v # w => job'[v] = job[v]
    BY <1>1, <2>1 DEF TableJobs
  <2>3. QED
    BY <1>1, <1>2, <1>6, <2>2 DEF TruncatesTable, RecordWriter
<1>7. CASE FillsTable(w)
  <2>1. job[w].kind # "record" /\ job'[w] = Data!Idle
        /\ \A v \in Procs : v # w => job'[v] = job[v]
    BY <1>1, <1>7 DEF FillsTable, TableJobs
  <2>2. QED
    BY <1>1, <1>2, <1>7, <2>1 DEF FillsTable, RecordWriter
<1>8. CASE Dies(w)
  <2>1. /\ job'[w] = Data!Idle /\ \A v \in Procs : v # w => job'[v] = job[v]
        /\ UNCHANGED <<files, kept, races>> /\ crashes' = crashes + 1
    BY <1>1, <1>8 DEF Dies
  <2>2. \A v \in Procs : RecordWriter(v)' => RecordWriter(v) /\ job'[v] = job[v]
    BY <1>1, <2>1 DEF RecordWriter
  <2>3. AtRisk' \subseteq AtRisk
    BY <2>1, <2>2, QuietGoes
  <2>4. races' + crashes' >= races + crashes /\ races' + crashes' # races + crashes
    BY <1>1, <2>1
  <2>5. QED
    BY <2>3, <2>4, AccountGoes
<1>9. QED
  BY <1>3, <1>4, <1>5, <1>6, <1>7, <1>8

\* Where a process that begins is to write or remove, there is its record or
\* nothing.
LEMMA BeginsAt ==
  ASSUME DataTypes, KeptInv, NEW w \in Procs, NEW j \in RecordJobs, BeginsRecord(w, j)
  PROVE  /\ \A a : \A u : Data!HoldsRec(a, u) /\ (a = j.file \/ a = j.old) => u = j.val.id
         /\ j.old # j.file => Data!HoldsRec(j.old, j.val.id)
         /\ j.val.id \in kept => Data!HoldsRec(j.old, j.val.id)
<1>1. \A a : files[a] = Data!Absent => \A u : ~Data!HoldsRec(a, u)
  BY DEF Data!HoldsRec, Data!Whole, Data!Absent
<1>2. CASE draft[w].open /\ draft[w].new /\ j.val.id = draft[w].id
           /\ j.old = j.file /\ files[j.file] = Data!Absent
  BY <1>1, <1>2 DEF KeptInv
<1>3. CASE Data!Copies(j.val.id) # {} /\ j.old = Data!Min(Data!Copies(j.val.id))
           /\ (j.old = j.file \/ files[j.file] = Data!Absent)
  <2>1. Data!HoldsRec(j.old, j.val.id)
    BY <1>3, CopiesIn DEF Data!Copies
  <2>2. \A u : Data!HoldsRec(j.old, u) => u = j.val.id
    BY <2>1, HoldsOne
  <2>3. QED
    BY <1>1, <1>3, <2>1, <2>2
<1>4. QED
  BY <1>2, <1>3 DEF BeginsRecord

LEMMA BeginsAlone ==
  ASSUME DataTypes, KeptInv, NEW w \in Procs, NEW j \in RecordJobs, BeginsRecord(w, j),
         \A v \in Procs : v # w => job[v] = Data!Idle
  PROVE  Tight'
<1>1. /\ job'[w] = j /\ j.kind = "record" /\ j.phase = "checked" /\ UNCHANGED files
      /\ kept' \subseteq kept /\ \A v \in Procs : v # w => job'[v] = Data!Idle
  BY JobsOn DEF BeginsRecord
<1>2. \A v \in Procs : v # w => ~RecordWriter(v)'
  BY <1>1 DEF RecordWriter, Data!Idle
<1>3. RecordWriter(w)' /\ \A a : \A v \in Procs : v # w => ~Aims(v, a)'
  BY <1>1, <1>2 DEF RecordWriter, Aims
<1>4. Survivor(w)'
  BY <1>1, <1>2, <1>3 DEF Survivor
<1>5. Apart(w)'
  BY <1>3 DEF Apart
<1>6. Intact(w)'
  BY <1>1, BeginsAt DEF Intact, Data!HoldsRec, Data!Whole
<1>7. QED
  BY <1>2, <1>4, <1>5, <1>6 DEF Tight

\* A process that begins on a record nobody endangers changes nothing for the
\* others.
LEMMA BeginsBeside ==
  ASSUME DataTypes, KeptInv, Tight, NEW w \in Procs, NEW j \in RecordJobs, BeginsRecord(w, j),
         j.val.id \notin AtRisk
  PROVE  Tight'
<1> PICK r, c, o : r = j.val.id /\ c = j.file /\ o = j.old
  OBVIOUS
<1>1. /\ job[w] = Data!Idle /\ job'[w] = j /\ j.kind = "record" /\ j.phase = "checked" /\ UNCHANGED files
      /\ kept' \subseteq kept /\ \A v \in Procs : v # w => job'[v] = job[v]
      /\ c \in Data!Places /\ o \in Data!Places /\ r \in Records
  BY JobsOn DEF BeginsRecord, RecordJobs, RecVals
<1>2. /\ \A a : \A u : Data!HoldsRec(a, u)' <=> Data!HoldsRec(a, u)
      /\ \A v \in Procs : v # w => /\ RecordWriter(v)' <=> RecordWriter(v)
                                   /\ \A a : Aims(v, a)' <=> Aims(v, a)
                                   /\ ~JobOn(v, r)
  <2>1. \A v \in Procs : v # w => /\ RecordWriter(v)' <=> RecordWriter(v)
                                  /\ \A a : Aims(v, a)' <=> Aims(v, a)
    BY <1>1 DEF RecordWriter, Aims, Moving
  <2>2. \A a : \A u : Data!HoldsRec(a, u)' <=> Data!HoldsRec(a, u)
    BY <1>1 DEF Data!HoldsRec, Data!Whole
  <2>3. \A v \in Procs : ~JobOn(v, r)
    BY <1>1 DEF AtRisk
  <2>4. QED
    BY <2>1, <2>2, <2>3
<1>3. /\ ~RecordWriter(w) /\ RecordWriter(w)'
      /\ \A a : \A u : Data!HoldsRec(a, u) /\ Aims(w, a)' => u = r
  <2>1. ~RecordWriter(w) /\ RecordWriter(w)'
    BY <1>1 DEF RecordWriter, Data!Idle
  <2>2. \A a : Aims(w, a)' => a = c \/ a = o
    BY <1>1 DEF Aims, Moving
  <2>3. QED
    BY <2>1, <2>2, BeginsAt
<1>4. \A a \in Data!Places : \A v \in Procs : Data!HoldsRec(a, r) => ~Aims(v, a)
  BY <1>1 DEF AtRisk, Aimed
<1>5. ASSUME NEW x \in Procs, Survivor(x) PROVE Survivor(x)'
  <2> PICK b, s : b = job[x].file /\ s = job[x].val.id
    OBVIOUS
  <2>1. x # w /\ RecordWriter(x) /\ b \in Data!Places /\ r # s /\ job'[x] = job[x]
    BY <1>1, <1>2, <1>3, <1>5, WritersAre DEF Survivor, JobOn, RecordWriter
  <2>2. ~(o # c /\ o = b)
    <3> SUFFICES ASSUME o # c, o = b PROVE FALSE
      OBVIOUS
    <3>1. Data!HoldsRec(b, r)
      BY BeginsAt
    <3>2. CASE job[x].phase = "written"
      BY <1>5, <2>1, <3>1, <3>2, HoldsOne DEF Survivor
    <3>3. CASE job[x].phase # "written"
      BY <1>4, <2>1, <3>1, <3>3 DEF Aims
    <3>4. QED
      BY <3>2, <3>3
  <2>3. \A y \in Procs : y # x /\ RecordWriter(y)' /\ Moving(y)' => job'[y].old # b
    <3> SUFFICES ASSUME NEW y \in Procs, y # x, RecordWriter(y)', Moving(y)' PROVE job'[y].old # b
      OBVIOUS
    <3>1. CASE y = w
      BY <1>1, <2>2, <3>1 DEF Moving
    <3>2. CASE y # w
      BY <1>1, <1>2, <1>5, <3>2 DEF Survivor, Moving
    <3>3. QED
      BY <3>1, <3>2
  <2>4. ASSUME job[x].phase = "written"
        PROVE  Data!HoldsRec(b, s)' /\ \A y \in Procs : y # x => ~Aims(y, b)'
    <3>1. Data!HoldsRec(b, s) /\ \A y \in Procs : y # x => ~Aims(y, b)
      BY <1>5, <2>4 DEF Survivor
    <3>2. ~Aims(w, b)'
      BY <1>3, <2>1, <3>1
    <3>3. QED
      BY <1>2, <3>1, <3>2
  <2>5. RecordWriter(x)' /\ job'[x].file = b /\ job'[x].val.id = s
    BY <1>2, <2>1
  <2>6. QED
    BY <2>1, <2>3, <2>4, <2>5 DEF Survivor, Aims, Moving, RecordWriter, Data!HoldsRec, Data!Whole
<1>6. ASSUME NEW v \in Procs, RecordWriter(v)', v # w
      PROVE  Apart(v)' /\ (job'[v].phase = "checked" => Intact(v)') /\ job'[v].val.id # r
  <2> PICK s : s = job[v].val.id
    OBVIOUS
  <2>1. /\ RecordWriter(v) /\ job'[v] = job[v] /\ s # r /\ Apart(v)
        /\ job[v].phase = "checked" => Intact(v)
    BY <1>1, <1>2, <1>6 DEF Tight, JobOn, RecordWriter
  <2>2. ASSUME NEW a \in Data!Places, Data!HoldsRec(a, s)', a = job[v].file => job[v].phase = "checked",
               NEW y \in Procs, y # v
        PROVE  ~Aims(y, a)'
    <3>1. Data!HoldsRec(a, s) /\ ~Aims(y, a)
      BY <1>2, <2>1, <2>2 DEF Apart
    <3>2. QED
      BY <1>2, <1>3, <2>1, <3>1
  <2>3. Apart(v)'
    BY <2>1, <2>2 DEF Apart, Data!HoldsRec, Data!Whole, Data!Places
  <2>4. job[v].phase = "checked" => Intact(v)'
    BY <1>1, <2>1 DEF Intact, Data!HoldsRec, Data!Whole
  <2>5. QED
    BY <2>1, <2>3, <2>4
<1>7. Apart(w)' /\ Intact(w)'
  <2>1. \A a \in Data!Places : Data!HoldsRec(a, r)' => \A y \in Procs : y # w => ~Aims(y, a)'
    BY <1>2, <1>4
  <2>2. Apart(w)'
    BY <1>1, <2>1 DEF Apart, Data!HoldsRec, Data!Whole, Data!Places
  <2>3. Intact(w)'
    BY <1>1, BeginsAt DEF Intact, Data!HoldsRec, Data!Whole
  <2>4. QED
    BY <2>2, <2>3
<1>8. ASSUME NEW v \in Procs, NEW x \in Procs, RecordWriter(v)', RecordWriter(x)',
             job'[v].val.id = job'[x].val.id
      PROVE  v = x
  <2>1. job'[w].val.id = r
    BY <1>1
  <2>2. CASE v = w \/ x = w
    BY <1>6, <1>8, <2>1, <2>2
  <2>3. CASE v # w /\ x # w
    BY <1>1, <1>2, <1>8, <2>3 DEF Tight
  <2>4. QED
    BY <2>2, <2>3
<1>9. QED
  BY <1>5, <1>6, <1>7, <1>8 DEF Tight

LEMMA LostBegins ==
  ASSUME DataTypes, DataTypes', KeptInv, Account, NEW w \in Procs, NEW j \in RecordJobs,
         BeginsRecord(w, j)
  PROVE  Account'
<1> PICK r : r = j.val.id
  OBVIOUS
<1> DEFINE n == crashes + races
           m == crashes' + races'
<1>1. /\ Data!Begins(w) /\ job'[w] = j /\ j.kind = "record" /\ j.phase = "checked"
      /\ UNCHANGED <<files, crashes>>
      /\ kept' \subseteq kept /\ \A v \in Procs : v # w => job'[v] = job[v]
  BY JobsOn DEF BeginsRecord
<1>2. AtRisk' \subseteq AtRisk \union {r}
  <2>1. \A v \in Procs : \A u : JobOn(v, u)' => JobOn(v, u) \/ u \in {r}
    BY <1>1 DEF JobOn
  <2>2. \A a \in Data!Places : \A v \in Procs : \A u :
          Data!HoldsRec(a, u) /\ Aims(v, a)' => Aims(v, a) \/ u \in {r}
    <3> SUFFICES ASSUME NEW a \in Data!Places, NEW v \in Procs, NEW u,
                        Data!HoldsRec(a, u), Aims(v, a)', ~Aims(v, a)
                 PROVE  u = r
      OBVIOUS
    <3>1. v = w
      BY <1>1 DEF Aims, Moving, RecordWriter
    <3>2. a = j.file \/ a = j.old
      BY <1>1, <3>1 DEF Aims, Moving
    <3>3. QED
      BY <3>2, BeginsAt
  <2>3. \A a : \A u : Data!HoldsRec(a, u)' <=> Data!HoldsRec(a, u)
    BY <1>1 DEF Data!HoldsRec, Data!Whole
  <2>4. QED
    BY <1>1, <2>1, <2>2, <2>3, RiskGoes
<1>3. /\ races' \in Nat /\ races' >= races /\ (Tight => races' = races + 1)
      /\ (\E v \in Procs : v # w /\ job[v] # Data!Idle) => races' = races + 1
  BY <1>1, BesideSurvivor
<1>4. n \in Nat /\ m \in Nat /\ m >= n /\ (races' = races + 1 => m = n + 1)
  BY <1>1, <1>3 DEF DataTypes
<1> HIDE DEF n, m
<1>5. CASE Few(AtRisk, n)
  <2>1. Few(AtRisk', n + 1)
    BY <1>2, <1>4, <1>5, FewMore
  <2>2. CASE races' = races + 1
    <3>1. Few(AtRisk', m)
      BY <1>4, <2>1, <2>2
    <3>2. QED
      BY <3>1 DEF Account, m
  <2>3. CASE races' # races + 1
    <3>1. \A v \in Procs : v # w => job[v] = Data!Idle
      BY <1>3, <2>3
    <3>2. Tight'
      BY <3>1, BeginsAlone
    <3>3. Few(AtRisk', m + 1)
      <4>1. n + 1 \in Nat /\ m + 1 \in Nat /\ n + 1 <= m + 1
        BY <1>4
      <4>2. QED
        BY <2>1, <4>1, FewLess
    <3>4. QED
      BY <3>2, <3>3 DEF Account, m
  <2>4. QED
    BY <2>2, <2>3
<1>6. ASSUME Few(AtRisk, n + 1), Tight PROVE Account'
  <2>1. m = n + 1 /\ n + 1 \in Nat
    BY <1>3, <1>4, <1>6
  <2>2. CASE r \in AtRisk
    <3>1. AtRisk' \subseteq AtRisk
      BY <1>2, <2>2
    <3>2. Few(AtRisk', m)
      BY <1>6, <2>1, <3>1, FewLess
    <3>3. QED
      BY <3>2 DEF Account, m
  <2>3. CASE r \notin AtRisk
    <3>1. Tight'
      BY <1>6, <2>3, BeginsBeside
    <3>2. Few(AtRisk', m + 1)
      BY <1>2, <1>6, <2>1, FewMore
    <3>3. QED
      BY <3>1, <3>2 DEF Account, m
  <2>4. QED
    BY <2>2, <2>3
<1>7. QED
  BY <1>5, <1>6 DEF Account, n

LEMMA KeptSame ==
  ASSUME KeptInv, kept' \subseteq kept, UNCHANGED drawn, NEW w \in Procs,
         \A v \in Procs : draft'[v] = draft[v] \/ draft'[v] = Data!NoDraft,
         \A v \in Procs : v # w => job'[v] = job[v],
         RecordWriter(w)' => job'[w].phase # "written" \/ job'[w].old # job'[w].file \/ job'[w] = job[w]
  PROVE  KeptInv'
<1>1. /\ kept' \subseteq Records /\ kept' \subseteq drawn'
      /\ \A v \in Procs : draft'[v].open /\ draft'[v].new => draft'[v].id \notin kept'
  BY DEF KeptInv, Data!NoDraft
<1>2. \A v \in Procs : RecordWriter(v)' /\ job'[v].phase = "written" => job'[v].old # job'[v].file
  BY DEF KeptInv, RecordWriter, Moving
<1>3. QED
  BY <1>1, <1>2 DEF KeptInv, Moving

LEMMA KeptStep == DataTypes /\ Drawn /\ Unborn /\ KeptInv /\ [Data!Next]_data => KeptInv'
<1> SUFFICES ASSUME DataTypes, Drawn, Unborn, KeptInv, [Data!Next]_data PROVE KeptInv'
  OBVIOUS
<1>1. /\ job \in [Procs -> {Data!Idle} \union RecordJobs \union TableJobs]
      /\ draft \in [Procs -> {Data!NoDraft} \union Drafts]
      /\ ~Data!NoDraft.open /\ Data!Idle.kind # "record"
  BY DEF DataTypes, Data!NoDraft, Data!Idle
<1>2. CASE UNCHANGED data
  BY <1>2 DEF data, KeptInv, RecordWriter, Moving
<1>3. ASSUME NEW w \in Procs, Drafting(w) PROVE KeptInv'
  <2>1. PICK d \in {Data!NoDraft} \union Drafts :
          /\ draft' = [draft EXCEPT ![w] = d]
          /\ \/ d = Data!NoDraft /\ UNCHANGED drawn
             \/ d.open /\ d.new /\ d.id \notin drawn /\ drawn' = drawn \union {d.id}
             \/ d.open /\ ~d.new /\ Data!Copies(d.id) # {} /\ UNCHANGED drawn
             \/ /\ d.open /\ draft[w].open /\ d.id = draft[w].id /\ (d.new <=> draft[w].new)
                /\ UNCHANGED drawn
    BY <1>3 DEF Drafting
  <2>2. /\ draft'[w] = d /\ \A v \in Procs : v # w => draft'[v] = draft[v]
        /\ UNCHANGED <<kept, job>> /\ drawn \subseteq drawn'
    BY <1>1, <1>3, <2>1 DEF Drafting
  <2>3. d.open /\ d.new => d.id \notin kept
    BY <1>1, <2>1 DEF KeptInv
  <2>4. QED
    BY <2>2, <2>3 DEF KeptInv, RecordWriter, Moving
<1>4. ASSUME NEW w \in Procs, Deletes(w) PROVE KeptInv'
  <2>1. kept' \subseteq kept /\ UNCHANGED <<draft, drawn, job>>
    BY <1>4 DEF Deletes
  <2>2. QED
    BY <2>1 DEF KeptInv, RecordWriter, Moving
<1>5. ASSUME NEW w \in Procs, NEW j \in RecordJobs, BeginsRecord(w, j) PROVE KeptInv'
  <2>1. /\ job'[w] = j /\ j.phase = "checked" /\ \A v \in Procs : v # w => job'[v] = job[v]
        /\ kept' \subseteq kept /\ UNCHANGED <<draft, drawn>>
    BY <1>5, JobsOn DEF BeginsRecord
  <2>2. QED
    BY <2>1, KeptSame
<1>6. ASSUME NEW w \in Procs, NEW t, BeginsTable(w, t) PROVE KeptInv'
  <2>1. job' = [job EXCEPT ![w] = Data!TableJob(t)] /\ Data!TableJob(t).kind = "table"
        /\ UNCHANGED <<draft, drawn, kept>>
    BY <1>6 DEF BeginsTable, Data!TableJob
  <2>2. QED
    BY <1>1, <2>1, KeptSame DEF RecordWriter
<1>7. ASSUME NEW w \in Procs, TruncatesRecord(w) PROVE KeptInv'
  <2> DEFINE i == [job[w] EXCEPT !.phase = "opened"]
  <2>1. i.phase = "opened" /\ job' = [job EXCEPT ![w] = i] /\ UNCHANGED <<draft, drawn, kept>>
    BY <1>7, PhaseIs DEF TruncatesRecord
  <2> HIDE DEF i
  <2>2. job'[w].phase = "opened" /\ \A v \in Procs : v # w => job'[v] = job[v]
    BY <1>1, <2>1
  <2>3. QED
    BY <2>1, <2>2, KeptSame
<1>8. ASSUME NEW w \in Procs, TruncatesTable(w) PROVE KeptInv'
  <2> DEFINE i == [job[w] EXCEPT !.phase = "opened"]
  <2>1. i \in TableJobs /\ job' = [job EXCEPT ![w] = i] /\ UNCHANGED <<draft, drawn, kept>>
    BY <1>8, TablePhaseIs DEF TruncatesTable
  <2> HIDE DEF i
  <2>2. job'[w].kind # "record" /\ \A v \in Procs : v # w => job'[v] = job[v]
    BY <1>1, <2>1 DEF TableJobs
  <2>3. QED
    BY <2>1, <2>2, KeptSame DEF RecordWriter
<1>9. ASSUME NEW w \in Procs, FillsRecord(w) PROVE KeptInv'
  <2> PICK b, r : b = job[w].file /\ r = job[w].val.id
    OBVIOUS
  <2>1. /\ GoesOn(w, b)
        /\ \/ job[w].old = b /\ job'[w] = Data!Idle
           \/ job[w].old # b /\ RecordWriter(w)' /\ job'[w].phase = "written"
    BY <1>9, FillGoes
  <2>2. /\ RecordWriter(w) /\ job[w].val.id \in Records /\ JobOn(w, r) /\ r \in drawn
        /\ \A v \in Procs : v # w => job'[v] = job[v]
        /\ kept' \subseteq kept \union {r}
    <3>1. RecordWriter(w) /\ job[w].val.id \in Records
      BY <2>1, WritersAre DEF GoesOn
    <3>2. QED
      BY <2>1, <3>1 DEF GoesOn, RecordWriter, JobOn, Drawn
  <2>3. /\ draft'[w] = Data!NoDraft /\ drawn' = drawn
        /\ \A v \in Procs : v # w => draft'[v] = draft[v]
    BY <1>1, <1>9 DEF FillsRecord
  <2>4. RecordWriter(w)' => Moving(w)'
    BY <1>1, <2>1, GoesOnIs DEF RecordWriter, Moving
  <2>5. \A v \in Procs : draft'[v].open /\ draft'[v].new => draft'[v].id \notin kept'
    BY <1>1, <2>2, <2>3 DEF KeptInv, Unborn
  <2>6. \A v \in Procs : RecordWriter(v)' /\ job'[v].phase = "written" => job'[v].old # job'[v].file
    BY <2>2, <2>4 DEF KeptInv, RecordWriter, Moving
  <2>7. kept' \subseteq Records /\ kept' \subseteq drawn'
    BY <2>1, <2>2, <2>3 DEF KeptInv
  <2>8. QED
    BY <2>5, <2>6, <2>7 DEF KeptInv, Moving
<1>10. ASSUME NEW w \in Procs, Unlinks(w) \/ FillsTable(w) \/ Dies(w) PROVE KeptInv'
  <2>1. /\ job'[w].kind # "record" /\ \A v \in Procs : v # w => job'[v] = job[v]
        /\ UNCHANGED <<drawn, kept>>
        /\ \A v \in Procs : draft'[v] = draft[v] \/ draft'[v] = Data!NoDraft
    BY <1>1, <1>10 DEF Unlinks, FillsTable, Dies
  <2>2. QED
    BY <2>1, KeptSame DEF RecordWriter
<1>11. QED
  BY <1>2, <1>3, <1>4, <1>5, <1>6, <1>7, <1>8, <1>9, <1>10, DataSteps DEF WritesOn

LEMMA LostStep ==
  DataTypes /\ Drawn /\ Unborn /\ KeptInv /\ Account /\ [Data!Next]_data => Account'
<1> SUFFICES ASSUME DataTypes, Drawn, Unborn, KeptInv, Account, [Data!Next]_data PROVE Account'
  OBVIOUS
<1>1. DataTypes'
  BY DataTypesStep
<1>2. CASE UNCHANGED data
  <2>1. /\ UNCHANGED <<files, job, kept, crashes, races>>
    BY <1>2 DEF data
  <2>2. AtRisk' \subseteq AtRisk
    <3>1. \A v \in Procs : RecordWriter(v)' => RecordWriter(v) /\ job'[v] = job[v]
      BY <2>1 DEF RecordWriter
    <3>2. \A a \in Data!Places : files'[a] = files[a]
      BY <2>1
    <3>3. QED
      BY <2>1, <3>1, <3>2, QuietGoes
  <2>3. Tight => Tight'
    BY <2>1, TightSame DEF RecordWriter
  <2>4. races' + crashes' >= races + crashes
    BY <2>1 DEF DataTypes
  <2>5. QED
    BY <1>1, <2>2, <2>3, <2>4, AccountGoes
<1>3. QED
  BY <1>1, <1>2, DataSteps, LostQuiet, LostBegins, LostTruncates, LostFills, LostUnlinks DEF WritesOn

\* What the account says of the records, and of the rows.
LEMMA RecordsCost ==
  ASSUME DataTypes, KeptInv, Account
  PROVE  Few(Data!LostRecords, crashes + races)
<1>1. crashes + races \in Nat
  BY DEF DataTypes
<1>2. Data!LostRecords \subseteq AtRisk
  BY DEF Data!LostRecords, AtRisk, Missing, KeptInv
<1>3. CASE Few(AtRisk, crashes + races)
  BY <1>1, <1>2, <1>3, FewLess
<1>4. ASSUME Few(AtRisk, crashes + races + 1), Tight PROVE Few(Data!LostRecords, crashes + races)
  <2> PICK x \in Procs : Survivor(x)
    BY <1>4 DEF Tight
  <2> PICK s : s = job[x].val.id
    OBVIOUS
  <2>1. /\ RecordWriter(x) /\ job[x] # Data!Idle /\ s \in AtRisk
        /\ job[x].file \in Data!Places /\ job[x].old \in Data!Places
        /\ job[x].phase \in {"checked", "opened", "written"}
    BY WritersAre DEF Survivor
  <2>2. s \notin Data!LostRecords
    <3>1. CASE job[x].phase = "written"
      BY <2>1, <3>1 DEF Survivor, Data!LostRecords, Data!Copies
    <3>2. CASE job[x].phase = "opened"
      BY <2>1, <3>2 DEF Data!LostRecords, Data!InHand, Data!Busy, RecordWriter
    <3>3. CASE job[x].phase = "checked"
      BY <1>4, <2>1, <3>3 DEF Tight, Intact, Data!LostRecords, Data!Copies
    <3>4. QED
      BY <2>1, <3>1, <3>2, <3>3
  <2>3. IsFiniteSet(AtRisk) /\ Cardinality(AtRisk) <= crashes + races + 1 /\ Cardinality(AtRisk) \in Nat
    BY <1>4, FS_CardinalityType DEF Few
  <2>4. IsFiniteSet(AtRisk \ {s}) /\ Cardinality(AtRisk \ {s}) = Cardinality(AtRisk) - 1
    BY <2>1, <2>3, FS_RemoveElement
  <2>5. Few(AtRisk \ {s}, crashes + races)
    BY <1>1, <2>3, <2>4 DEF Few
  <2>6. Data!LostRecords \subseteq AtRisk \ {s}
    BY <1>2, <2>2
  <2>7. QED
    BY <1>1, <2>5, <2>6, FewLess
<1>5. QED
  BY <1>3, <1>4 DEF Account

LEMMA RowsCost ==
  ASSUME DataTypes, RowInv
  PROVE  Few(Data!LostRows, races)
<1>1. races \in Nat
  BY DEF DataTypes
<1>2. CASE Data!Readable
  <2>1. Data!LostRows \subseteq rows \ Data!SlugsOf(table)
    BY DEF Data!LostRows
  <2>2. QED
    BY <1>1, <1>2, <2>1, FewLess DEF RowInv
<1>3. CASE ~Data!Readable
  <2>1. Data!LostRows = {}
    BY <1>3 DEF Data!LostRows
  <2>2. QED
    BY <1>1, <2>1, FS_EmptySet DEF Few
<1>4. QED
  BY <1>2, <1>3

\* A record somebody saved, and nobody deleted, is lost only by a process
\* that died in mid-write or by an operation begun beside another, one for
\* one, and a row only by an overlap (_save_collection_item and
\* _write_reference empty a file before they fill it; add_reference_entry
\* reads the table again, and then writes all of it).
THEOREM MishapCostsOneHolds == PartsSpec => []MishapCostsOne
<1> DEFINE Inv == DataTypes /\ Drawn /\ Unborn /\ KeptInv /\ Account /\ RowInv
<1>1. PartsInit => Inv
  BY DataMoves, DataTypesInit, DrawnInit, LostInit, RowInit
<1>2. Inv /\ [PartsNext]_<<part, vars, data, log>> => Inv'
  BY DataMoves, DataTypesStep, DrawnStep, KeptStep, LostStep, RowStep
<1>3. Inv => MishapCostsOne
  BY RecordsCost, RowsCost, DataLibrary DEF Few, MishapCostsOne, Data!MishapCostsOne
<1>4. QED
  BY <1>1, <1>2, <1>3, PTL DEF PartsSpec
=============================================================================
