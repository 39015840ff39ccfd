----------------------------- MODULE MCMachines -----------------------------
(***************************************************************************)
(* Installed instances, the agents' keys, the vault and the remote hosts   *)
(* share no variable.  A behaviour of this module is a behaviour of one of *)
(* the four, which the other three watch.                                  *)
(***************************************************************************)
EXTENDS RemoteOps, TLC

CONSTANTS
  x1, x2, y1, y2, z1, z2, z3, g,   \* model values; a permutation renames them everywhere
  Clerks,                          \* processes that enroll, unlock and install
  Agents, Nobody, MaxPairs, MaxMixups,
  Passphrases, Creds, MaxMasters, MaxChanges, MaxCrashes,
  Names, Places, Groups, MaxIds, MaxOps, MaxFaults

VARIABLES
  part,                                                       \* the one that moves
  records, vault, candidate, copies, enrolling, pairs, renames, contests, disturbed, deaths, unseen,
  master, session, creds, fernet, shown, writing, masters, rivals, changes, crashes,
  dirs, receipts, doing, commands, faults, races, shares, moves

Badge == INSTANCE Enrollment WITH
  Procs <- Clerks, job <- enrolling, keys <- pairs, crashes <- deaths,
  MaxKeys <- MaxPairs, MaxMishaps <- MaxMixups
Safe == INSTANCE Vault WITH Procs <- Clerks, job <- writing, keys <- masters, MaxKeys <- MaxMasters
Install == INSTANCE Instances WITH
  Procs <- Clerks, job <- doing, begun <- commands, MaxMishaps <- MaxFaults

badge == <<records, vault, candidate, copies, enrolling, pairs, renames, contests, disturbed,
           deaths, unseen>>
safe == <<master, session, creds, fernet, shown, writing, masters, rivals, changes, crashes>>
install == <<dirs, receipts, doing, commands, faults, races, shares, moves>>

ASSUME BadgeAssumption == Badge!NobodyAssumption
ASSUME InstallAssumption == Install!IdsAssumption

First == {x1, x2}
Second == {y1, y2}
MCTasks == {z1, z2, z3}
MCClerks == {z1, z2}
MCHome == z1 :> "p" @@ z2 :> "p" @@ z3 :> "q"
Symmetry == Permutations(First) \union Permutations(Second) \union Permutations(MCClerks)

PartsInit ==
  /\ part \in {"remote", "badge", "safe", "install"}
  /\ Init /\ Badge!Init /\ Safe!Init /\ Install!Init
  /\ part = "install" \/ dirs = [x \in Places |-> Install!Absent]
PartsNext ==
  \/ part = "remote" /\ Next /\ UNCHANGED <<part, badge, safe, install>>
  \/ part = "badge" /\ Badge!Next /\ UNCHANGED <<part, vars, safe, install>>
  \/ part = "safe" /\ Safe!Next /\ UNCHANGED <<part, vars, badge, install>>
  \/ part = "install" /\ Install!Next /\ UNCHANGED <<part, vars, badge, safe>>
PartsSpec == PartsInit /\ [][PartsNext]_<<part, vars, badge, safe, install>>

\* A badge on record is backed by its key and manifest
\* (Enrollment.BadgesBacked).
BadgesBacked == Badge!BadgesBacked

\* A key nobody claims is left by a death, a rename or a contest, one for one
\* (Enrollment.OrphansExplained).
OrphansExplained == Badge!OrphansExplained

\* Two agents share a tag only if one was a candidate when the other was hired
\* (Enrollment.TagsDistinct).
TagsDistinct == Badge!TagsDistinct

\* Stored credentials can be read with the vault's passphrase, but one for
\* each death
\* (Vault.CredentialsReadable).
CredentialsReadable == Safe!CredentialsReadable

\* An undisturbed agent keeps its first key pair (Enrollment.KeyKept).
KeyKept == Badge!KeyKept

\* What a receipt promises is there but for a mishap, one for one
\* (Instances.ReceiptsBacked).
ReceiptsBacked == Install!ReceiptsBacked

\* An environment without a receipt is left by a mishap or an instance
\* recreated elsewhere, one for one (Instances.LitterExplained).
LitterExplained == Install!LitterExplained
=============================================================================
