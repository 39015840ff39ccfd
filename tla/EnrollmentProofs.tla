-------------------------- MODULE EnrollmentProofs --------------------------
(***************************************************************************)
(* Theorems about Enrollment, for any number of processes, agents, names,  *)
(* key pairs and mishaps.                                                  *)
(***************************************************************************)
EXTENDS Enrollment, FiniteSetTheorems, WellFoundedInduction, TLAPS

Records == [name : Names, tag : Nat, key : Nat, dir : Dirs, retired : BOOLEAN]
Manifests == [state : {"none", "torn", "whole"}, agent : Agents \union {Nobody}, key : Nat]
Candidates == [rolled : {TRUE}, name : Names, tag : Nat, over : SUBSET Agents]
Copies == UNION {[S -> Records] : S \in SUBSET Agents}
Jobs == [step : {"generate", "manifest", "fill", "record"}, agent : Agents, dir : Dirs, key : Nat]

TypeOK ==
    /\ Hired \subseteq Agents /\ records \in [Hired -> Records]
    /\ vault \in [Dirs -> [key : Nat, manifest : Manifests]]
    /\ candidate \in [Procs -> {NoCandidate} \union Candidates]
    /\ copies \in [Procs -> Copies]
    /\ job \in [Procs -> {Idle} \union Jobs]
    /\ keys \in Nat /\ renames \in Nat /\ contests \in Nat /\ crashes \in Nat
    /\ disturbed \subseteq Agents
    /\ unseen \in [Hired -> SUBSET Agents]

\* The tags given so far have an upper bound.
TagsBounded ==
    \E n \in Nat : /\ \A a \in Hired : records[a].tag <= n
                   /\ \A p \in Procs : candidate[p].rolled => candidate[p].tag <= n

-----------------------------------------------------------------------------
(* The next tag lies above the tags it looks at.                           *)

LEMMA NextTagAbove ==
  ASSUME NEW recs, NEW n \in Nat,
         \A a \in DOMAIN recs : recs[a].tag \in Nat /\ recs[a].tag <= n
  PROVE  /\ NextTag(recs) \in Nat /\ NextTag(recs) <= n + 1
         /\ \A a \in DOMAIN recs : ~recs[a].retired => recs[a].tag < NextTag(recs)
<1> DEFINE T == {recs[a].tag : a \in {x \in DOMAIN recs : ~recs[x].retired}} \union {0}
           Above == {k \in Nat : \A t \in T : t <= k}
           R == {ss \in Nat \X Nat : ss[1] < ss[2]}
<1>1. T \subseteq 0..n /\ 0 \in T
  OBVIOUS
<1>2. n \in Above
  BY <1>1
<1>3. PICK m \in Above : \A k \in Above : ~ (<<k, m>> \in R)
  <2>1. IsWellFoundedOn(R, Nat)
    BY NatLessThanWellFounded DEF OpToRel
  <2>2. Above \subseteq Nat /\ Above # {}
    BY <1>2
  <2> HIDE DEF Above, R
  <2>3. QED
    BY <2>1, <2>2, WFMin
<1>4. m \in T
  <2>1. CASE m = 0
    BY <1>1, <2>1
  <2>2. CASE m # 0
    <3>1. m - 1 \in Nat /\ <<m - 1, m>> \in R
      BY <2>2
    <3>2. PICK t \in T : ~ (t <= m - 1)
      BY <1>3, <3>1
    <3>3. t <= m /\ t \in Nat /\ m \in Nat
      BY <1>1
    <3> HIDE DEF T, Above, R
    <3>4. t = m
      BY <3>1, <3>2, <3>3
    <3>5. QED
      BY <3>4
  <2>3. QED
    BY <2>1, <2>2
<1>5. Max(T) \in T /\ \A t \in T : Max(T) >= t
  <2>1. \E x \in T : \A t \in T : x >= t
    BY <1>1, <1>4
  <2> HIDE DEF T
  <2>2. QED
    BY <2>1 DEF Max
<1>6. NextTag(recs) = Max(T) + 1
  BY DEF NextTag
<1>7. \A a \in DOMAIN recs : ~recs[a].retired => recs[a].tag \in T
  OBVIOUS
<1> HIDE DEF T
<1>8. Max(T) \in Nat /\ Max(T) <= n
  <2>1. Max(T) \in 0..n
    BY <1>1, <1>5
  <2> DEFINE m1 == Max(T)
  <2>2. m1 \in 0..n
    BY <2>1
  <2> HIDE DEF m1
  <2>3. m1 \in Nat /\ m1 <= n
    BY <2>2
  <2>4. QED
    BY <2>3 DEF m1
<1>9. QED
  <2>1. ASSUME NEW a \in DOMAIN recs, ~recs[a].retired
        PROVE  recs[a].tag < NextTag(recs)
    BY <1>5, <1>6, <1>7, <1>8, <2>1
  <2>2. QED
    BY <1>6, <1>8, <2>1

-----------------------------------------------------------------------------
(* What every record, copy, manifest and job looks like.                   *)

\* An idle process has no job; what it enrolls has the job's shape.
LEMMA JobShape ==
  ASSUME TypeOK, NEW p \in Procs
  PROVE  /\ job[p].step \in {"generate", "manifest", "fill", "record"} => job[p] \in Jobs
         /\ ~Free(p) => job[p] \in Jobs
BY DEF TypeOK, Jobs, Idle, Free

\* The directory of an agent and a name.
LEMMA VaultDirIsDir ==
  ASSUME NEW a \in Agents, NEW n \in Names
  PROVE  VaultDir(a, n) \in Dirs
BY DEF VaultDir, Dirs

LEMMA TypeInit == Init => TypeOK /\ TagsBounded
<1> SUFFICES ASSUME Init PROVE TypeOK /\ TagsBounded
  OBVIOUS
<1>1. Hired = {} /\ records \in [Hired -> Records] /\ unseen \in [Hired -> SUBSET Agents]
  BY DEF Init, Hired
<1>2. vault \in [Dirs -> [key : Nat, manifest : Manifests]]
  BY DEF Init, NoManifest, Manifest, Manifests, NoPair
<1>3. NoCopies \in Copies
  <2>1. NoCopies \in [{} -> Records] /\ {} \in SUBSET Agents
    BY DEF NoCopies
  <2>2. QED
    BY <2>1 DEF Copies
<1>4. \A p \in Procs : ~candidate[p].rolled
  BY DEF Init, NoCandidate
<1>5. TagsBounded
  BY <1>1, <1>4 DEF TagsBounded
<1>6. QED
  BY <1>1, <1>2, <1>3, <1>5 DEF Init, TypeOK

\* A process has copies of one agent, or of some.
LEMMA CopiesOf ==
  ASSUME NEW S \in SUBSET Agents, NEW f \in [S -> Records]
  PROVE  f \in Copies
BY DEF Copies

\* A step that gives no tag keeps the bound.
LEMMA SameTags ==
  ASSUME TagsBounded,
         \A a \in DOMAIN records' : a \in Hired /\ records'[a].tag = records[a].tag,
         \A p \in Procs : candidate'[p].rolled =>
             candidate[p].rolled /\ candidate'[p].tag = candidate[p].tag
  PROVE  TagsBounded'
<1>1. PICK n \in Nat : /\ \A a \in Hired : records[a].tag <= n
                       /\ \A p \in Procs : candidate[p].rolled => candidate[p].tag <= n
  BY DEF TagsBounded
<1>2. /\ \A a \in DOMAIN records' : records'[a].tag <= n
      /\ \A p \in Procs : candidate'[p].rolled => candidate'[p].tag <= n
  BY <1>1
<1>3. QED
  BY <1>2 DEF TagsBounded, Hired

LEMMA TypeStep == TypeOK /\ TagsBounded /\ [Next]_vars => TypeOK' /\ TagsBounded'
<1> SUFFICES ASSUME TypeOK, TagsBounded, [Next]_vars PROVE TypeOK' /\ TagsBounded'
  OBVIOUS
<1>0. NoCopies \in Copies /\ Hired' = DOMAIN records'
  <2>1. NoCopies \in [{} -> Records]
    BY DEF NoCopies
  <2>2. QED
    BY <2>1, CopiesOf DEF Hired
<1>1. CASE UNCHANGED vars
  BY <1>1 DEF vars, hist, TypeOK, TagsBounded, Hired
<1>2. ASSUME NEW p \in Procs, NEW n \in Names, Roll(p, n)
      PROVE  TypeOK' /\ TagsBounded'
  <2>1. PICK m \in Nat : /\ \A a \in Hired : records[a].tag <= m
                         /\ \A q \in Procs : candidate[q].rolled => candidate[q].tag <= m
    BY DEF TagsBounded
  <2>2. NextTag(records) \in Nat /\ NextTag(records) <= m + 1
    <3>1. \A a \in DOMAIN records : records[a].tag \in Nat /\ records[a].tag <= m
      BY <2>1 DEF TypeOK, Records, Hired
    <3>2. QED
      BY <3>1, NextTagAbove
  <2>3. [rolled |-> TRUE, name |-> n, tag |-> NextTag(records), over |-> Hired] \in Candidates
    BY <2>2 DEF Candidates, TypeOK
  <2>4. TypeOK'
    BY <1>0, <1>2, <2>3 DEF Roll, hist, TypeOK, Hired
  <2>5. \A q \in Procs : candidate'[q].rolled => candidate'[q].tag <= m + 1
    <3> SUFFICES ASSUME NEW q \in Procs, candidate'[q].rolled PROVE candidate'[q].tag <= m + 1
      OBVIOUS
    <3>1. CASE q = p
      BY <1>2, <2>2, <3>1 DEF Roll, TypeOK
    <3>2. CASE q # p
      <4>1. candidate'[q] = candidate[q] /\ candidate[q] \in Candidates
        BY <1>2, <3>2 DEF Roll, TypeOK, NoCandidate
      <4>2. candidate[q].tag \in Nat /\ candidate[q].tag <= m
        BY <2>1, <4>1 DEF Candidates
      <4>3. QED
        BY <4>1, <4>2
    <3>3. QED
      BY <3>1, <3>2
  <2>6. \A a \in Hired : records[a].tag <= m + 1
    <3>1. \A a \in Hired : records[a].tag \in Nat /\ records[a].tag <= m
      BY <2>1 DEF TypeOK, Records
    <3>2. QED
      BY <3>1
  <2>7. m + 1 \in Nat /\ records' = records
    BY <1>2 DEF Roll
  <2>8. TagsBounded'
    BY <2>5, <2>6, <2>7 DEF TagsBounded, Hired
  <2>9. QED
    BY <2>4, <2>8
<1>3. ASSUME NEW p \in Procs, NEW n \in Names, Rechristen(p, n)
      PROVE  TypeOK' /\ TagsBounded'
  <2>1. candidate[p] \in Candidates
    BY <1>3 DEF Rechristen, TypeOK, NoCandidate
  <2>2. /\ [candidate[p] EXCEPT !.name = n] \in Candidates
        /\ [candidate[p] EXCEPT !.name = n].tag = candidate[p].tag
    BY <2>1 DEF Candidates
  <2>3. TypeOK'
    BY <1>3, <2>2 DEF Rechristen, hist, TypeOK, Hired
  <2>4. \A q \in Procs : candidate'[q].rolled =>
            candidate[q].rolled /\ candidate'[q].tag = candidate[q].tag
    BY <1>3, <2>2 DEF Rechristen, TypeOK
  <2>5. QED
    BY <1>3, <2>3, <2>4, SameTags DEF Rechristen, Hired
<1>4. ASSUME NEW p \in Procs, Drop(p)
      PROVE  TypeOK' /\ TagsBounded'
  <2>1. TypeOK'
    BY <1>4 DEF Drop, hist, TypeOK, Hired
  <2>2. \A q \in Procs : candidate'[q].rolled =>
            candidate[q].rolled /\ candidate'[q].tag = candidate[q].tag
    BY <1>4 DEF Drop, TypeOK, NoCandidate
  <2>3. QED
    BY <1>4, <2>1, <2>2, SameTags DEF Drop, Hired
<1>5. ASSUME NEW p \in Procs, NEW a \in Agents, Hire(p, a)
      PROVE  TypeOK' /\ TagsBounded'
  <2> DEFINE c == candidate[p]
             r == [name |-> c.name, tag |-> c.tag, key |-> NoPair,
                   dir |-> <<c.name, Nobody>>, retired |-> FALSE]
  <2>1. c \in Candidates /\ c.rolled
    BY <1>5 DEF Hire, TypeOK, NoCandidate
  <2>2. r \in Records /\ r.tag = c.tag
    BY <2>1 DEF Candidates, Records, Dirs, NoPair
  <2>3. /\ records' = [x \in Hired \union {a} |-> IF x = a THEN r ELSE records[x]]
        /\ copies' = [copies EXCEPT ![p] = [x \in {a} |-> r]]
        /\ unseen' = [x \in Hired \union {a} |-> IF x = a THEN Hired \ c.over ELSE unseen[x]]
        /\ candidate' = [candidate EXCEPT ![p] = NoCandidate]
        /\ UNCHANGED <<vault, job, keys, renames, contests, disturbed, crashes>>
    BY <1>5 DEF Hire
  <2> HIDE DEF r, c
  <2>4. Hired' = Hired \union {a} /\ records' \in [Hired' -> Records]
    BY <1>0, <2>2, <2>3 DEF TypeOK
  <2>5. unseen' \in [Hired' -> SUBSET Agents]
    BY <2>3, <2>4 DEF TypeOK
  <2>6. copies' \in [Procs -> Copies]
    <3>1. [x \in {a} |-> r] \in Copies
      BY <2>2, CopiesOf
    <3>2. QED
      BY <2>3, <3>1 DEF TypeOK
  <2>7. TypeOK'
    BY <2>3, <2>4, <2>5, <2>6 DEF TypeOK
  <2>8. PICK m \in Nat : /\ \A x \in Hired : records[x].tag <= m
                         /\ \A q \in Procs : candidate[q].rolled => candidate[q].tag <= m
    BY DEF TagsBounded
  <2>9. \A x \in Hired' : records'[x].tag <= m
    BY <2>1, <2>2, <2>3, <2>4, <2>8 DEF c
  <2>10. \A q \in Procs : candidate'[q].rolled => candidate'[q].tag <= m
    BY <2>3, <2>8 DEF TypeOK, NoCandidate
  <2>11. QED
    BY <2>7, <2>9, <2>10 DEF TagsBounded
<1>6. ASSUME NEW p \in Procs, NEW a \in Agents, Retire(p, a)
      PROVE  TypeOK' /\ TagsBounded'
  <2>1. a \in Hired /\ records' = [records EXCEPT ![a].retired = TRUE]
    BY <1>6 DEF Retire, Active
  <2>2. /\ [records[a] EXCEPT !.retired = TRUE] \in Records
        /\ [records[a] EXCEPT !.retired = TRUE].tag = records[a].tag
    BY <2>1 DEF TypeOK, Records
  <2>3. Hired' = Hired /\ records' \in [Hired -> Records]
    BY <1>0, <2>1, <2>2 DEF TypeOK
  <2>4. \A x \in Hired : records'[x].tag = records[x].tag
    BY <2>1, <2>2 DEF TypeOK
  <2>5. TypeOK'
    BY <1>0, <1>6, <2>3 DEF Retire, hist, TypeOK
  <2>6. QED
    BY <1>0, <1>6, <2>3, <2>4, <2>5, SameTags DEF Retire
<1>7. ASSUME NEW p \in Procs, NEW a \in Agents, NEW n \in Names, Rename(p, a, n)
      PROVE  TypeOK' /\ TagsBounded'
  <2>1. /\ a \in Hired /\ records' = [records EXCEPT ![a].name = n]
        /\ copies' = [copies EXCEPT ![p] = [x \in {a} |-> records'[a]]]
        /\ renames' = renames + 1 /\ disturbed' = disturbed \union {a}
        /\ UNCHANGED <<vault, candidate, job, keys, contests, crashes, unseen>>
    BY <1>7 DEF Rename, Active
  <2>2. /\ [records[a] EXCEPT !.name = n] \in Records
        /\ [records[a] EXCEPT !.name = n].tag = records[a].tag
    BY <2>1 DEF TypeOK, Records
  <2>3. /\ Hired' = Hired /\ records' \in [Hired -> Records]
        /\ [x \in {a} |-> records'[a]] \in [{a} -> Records]
    BY <1>0, <2>1, <2>2 DEF TypeOK
  <2>4. copies' \in [Procs -> Copies]
    <3>1. [x \in {a} |-> records'[a]] \in Copies
      BY <2>3, CopiesOf
    <3>2. QED
      BY <2>1, <3>1 DEF TypeOK
  <2>5. \A x \in Hired : records'[x].tag = records[x].tag
    BY <2>1, <2>2 DEF TypeOK
  <2>6. TypeOK'
    BY <2>1, <2>3, <2>4 DEF TypeOK
  <2>7. QED
    BY <1>0, <2>1, <2>3, <2>5, <2>6, SameTags
<1>8. ASSUME NEW p \in Procs, NEW a \in Agents, LookUp(p, a)
      PROVE  TypeOK' /\ TagsBounded'
  <2>1. [x \in {a} |-> records[a]] \in Copies
    <3>1. [x \in {a} |-> records[a]] \in [{a} -> Records]
      BY <1>8 DEF LookUp, Active, TypeOK
    <3>2. QED
      BY <3>1, CopiesOf
  <2>2. QED
    BY <1>8, <2>1 DEF LookUp, hist, TypeOK, TagsBounded, Hired
<1>9. ASSUME NEW p \in Procs, Backfill(p)
      PROVE  TypeOK' /\ TagsBounded'
  <2> DEFINE S == {a \in Active : ~Enrolled(records[a])}
  <2>1. [x \in S |-> records[x]] \in Copies
    <3>1. S \in SUBSET Agents /\ [x \in S |-> records[x]] \in [S -> Records]
      BY DEF Active, TypeOK
    <3>2. QED
      BY <3>1, CopiesOf
  <2>2. QED
    BY <1>9, <2>1 DEF Backfill, hist, TypeOK, TagsBounded, Hired
<1>10. ASSUME NEW p \in Procs, NEW a \in Agents, Claim(p, a)
       PROVE  TypeOK' /\ TagsBounded'
  <2> DEFINE d == VaultDir(a, copies[p][a].name)
  <2>1. a \in DOMAIN copies[p] /\ copies[p] \in Copies
    BY <1>10 DEF Claim, Begins, TypeOK
  <2>2. copies[p][a].name \in Names
    BY <2>1 DEF Copies, Records
  <2>3. d \in Dirs
    BY <2>2, VaultDirIsDir
  <2>4. /\ job' = [job EXCEPT ![p] =
                     [step |-> "generate", agent |-> a, dir |-> d, key |-> NoPair]]
        /\ contests' \in {contests, contests + 1} /\ disturbed' \in {disturbed, disturbed \union {a}}
        /\ UNCHANGED <<records, vault, candidate, copies, keys, renames, crashes, unseen>>
    BY <1>10 DEF Claim, Begins
  <2> HIDE DEF d
  <2>5. [step |-> "generate", agent |-> a, dir |-> d, key |-> NoPair] \in Jobs
    BY <2>3 DEF Jobs, NoPair
  <2>6. QED
    BY <2>4, <2>5 DEF TypeOK, TagsBounded, Hired
<1>11. ASSUME NEW p \in Procs, NEW a \in Agents, Refuse(p, a)
       PROVE  TypeOK' /\ TagsBounded'
  BY <1>0, <1>11 DEF Refuse, hist, TypeOK, TagsBounded, Hired
<1>12. ASSUME NEW p \in Procs, Generate(p)
       PROVE  TypeOK' /\ TagsBounded'
  <2>1. job[p] \in Jobs /\ job[p].dir \in Dirs /\ keys' \in Nat
    BY <1>12, JobShape DEF Generate, Jobs, TypeOK
  <2>2. [job[p] EXCEPT !.step = "manifest", !.key = keys'] \in Jobs
    BY <2>1 DEF Jobs
  <2>3. [vault[job[p].dir] EXCEPT !.key = keys'] \in [key : Nat, manifest : Manifests]
    BY <2>1 DEF TypeOK
  <2>4. QED
    BY <1>12, <2>1, <2>2, <2>3 DEF Generate, TypeOK, TagsBounded, Hired
<1>13. ASSUME NEW p \in Procs, GenerateFails(p)
       PROVE  TypeOK' /\ TagsBounded'
  BY <1>0, <1>13 DEF GenerateFails, hist, TypeOK, TagsBounded, Hired
<1>14. ASSUME NEW p \in Procs, OpenManifest(p) \/ FillManifest(p)
       PROVE  TypeOK' /\ TagsBounded'
  <2>1. job[p] \in Jobs
    BY <1>14, JobShape DEF OpenManifest, FillManifest
  <2>2. /\ Manifest("torn", Nobody, NoPair) \in Manifests
        /\ Manifest("whole", job[p].agent, job[p].key) \in Manifests
    BY <2>1 DEF Jobs, Manifest, Manifests, NoPair
  <2>3. PICK m \in Manifests, s \in {"fill", "record"} :
           /\ vault' = [vault EXCEPT ![job[p].dir].manifest = m]
           /\ job' = [job EXCEPT ![p].step = s]
    BY <1>14, <2>2 DEF OpenManifest, FillManifest
  <2>4. /\ [job[p] EXCEPT !.step = s] \in Jobs
        /\ [vault[job[p].dir] EXCEPT !.manifest = m] \in [key : Nat, manifest : Manifests]
    BY <2>1 DEF Jobs, TypeOK
  <2>5. job' \in [Procs -> {Idle} \union Jobs] /\ vault' \in [Dirs -> [key : Nat, manifest : Manifests]]
    BY <2>1, <2>3, <2>4 DEF TypeOK, Jobs
  <2>6. QED
    BY <1>14, <2>5 DEF OpenManifest, FillManifest, hist, TypeOK, TagsBounded, Hired
<1>15. ASSUME NEW p \in Procs, Record(p)
       PROVE  TypeOK' /\ TagsBounded'
  <2> DEFINE j == job[p]
             b == j.agent
  <2>1. j \in Jobs /\ b \in Agents /\ j.key \in Nat /\ j.dir \in Dirs
    BY <1>15, JobShape DEF Record, Jobs
  <2>2. /\ records' = [records EXCEPT ![b] = [[@ EXCEPT !.key = j.key] EXCEPT !.dir = j.dir]]
        /\ copies' = [copies EXCEPT ![p] = Without(@, b)]
        /\ job' = [job EXCEPT ![p] = Idle] /\ UNCHANGED <<vault, candidate, hist>>
    BY <1>15 DEF Record
  <2> HIDE DEF j, b
  <2>3. /\ Hired' = Hired /\ records' \in [Hired -> Records]
        /\ \A x \in Hired : records'[x].tag = records[x].tag
    BY <1>0, <2>1, <2>2 DEF TypeOK, Records, Hired
  <2>4. Without(copies[p], b) \in Copies
    <3>1. PICK S \in SUBSET Agents : copies[p] \in [S -> Records]
      BY DEF TypeOK, Copies
    <3>2. Without(copies[p], b) \in [S \ {b} -> Records]
      BY <3>1 DEF Without, Restrict
    <3>3. QED
      BY <3>1, <3>2, CopiesOf
  <2>5. TypeOK'
    BY <2>2, <2>3, <2>4 DEF TypeOK, hist
  <2>6. QED
    BY <1>0, <2>2, <2>3, <2>5, SameTags
<1>16. ASSUME NEW p \in Procs, Crash(p)
       PROVE  TypeOK' /\ TagsBounded'
  <2>1. TypeOK'
    BY <1>0, <1>16 DEF Crash, TypeOK, Hired
  <2>2. \A q \in Procs : candidate'[q].rolled =>
            candidate[q].rolled /\ candidate'[q].tag = candidate[q].tag
    BY <1>16 DEF Crash, TypeOK, NoCandidate
  <2>3. QED
    BY <1>16, <2>1, <2>2, SameTags DEF Crash, Hired
<1>17. QED
  BY <1>1, <1>2, <1>3, <1>4, <1>5, <1>6, <1>7, <1>8, <1>9, <1>10, <1>11, <1>12, <1>13, <1>14,
     <1>15, <1>16 DEF Next, Recruit, Enroll

(* Types: records, copies, manifests and jobs keep their shape.            *)
THEOREM TypeCorrect == Spec => [](TypeOK /\ TagsBounded)
BY TypeInit, TypeStep, PTL DEF Spec

-----------------------------------------------------------------------------
(* Badges.  BadgesBacked is not inductive: between generating a pair and   *)
(* recording it, a process must have the directory to itself.              *)

HasPair(p) == job[p].step \in {"manifest", "fill", "record"}

\* The pair of a job is in its directory; what it filled in stands.
PairsHeld ==
    \A p \in Procs : HasPair(p) =>
        /\ vault[job[p].dir].key = job[p].key /\ job[p].key # NoPair
        /\ job[p].step = "record" =>
             vault[job[p].dir].manifest = Manifest("whole", job[p].agent, job[p].key)
\* No two jobs that have a pair share a directory.
PairsApart ==
    \A p, q \in Procs : HasPair(p) /\ HasPair(q) /\ p # q => job[p].dir # job[q].dir
\* No badge names the directory of a job that has a pair.
PairsFresh ==
    \A p \in Procs, a \in Hired :
        HasPair(p) /\ Enrolled(records[a]) => records[a].dir # job[p].dir

BadgeInv == PairsHeld /\ PairsApart /\ PairsFresh /\ BadgesBacked

\* A step that leaves the vault alone, gives nobody a pair or a badge.
LEMMA BadgeQuiet ==
  ASSUME TypeOK, BadgeInv, vault' = vault,
         \A p \in Procs : HasPair(p)' => HasPair(p) /\ job'[p] = job[p],
         \A a \in DOMAIN records' : Enrolled(records'[a]) =>
             a \in Hired /\ records'[a].key = records[a].key /\ records'[a].dir = records[a].dir
  PROVE  BadgeInv'
<1>1. \A a \in DOMAIN records' : Enrolled(records'[a]) => Enrolled(records[a])
  BY DEF Enrolled
<1>2. Hired' = DOMAIN records'
  BY DEF Hired
<1>3. PairsHeld'
  BY DEF BadgeInv, PairsHeld
<1>4. PairsApart'
  BY DEF BadgeInv, PairsApart
<1>5. PairsFresh'
  BY <1>1, <1>2 DEF BadgeInv, PairsFresh
<1>6. BadgesBacked'
  BY <1>1, <1>2 DEF BadgeInv, BadgesBacked
<1>7. QED
  BY <1>3, <1>4, <1>5, <1>6 DEF BadgeInv

LEMMA BadgeStep == TypeOK /\ TypeOK' /\ BadgeInv /\ [Next]_vars => BadgeInv'
<1> SUFFICES ASSUME TypeOK, TypeOK', BadgeInv, [Next]_vars PROVE BadgeInv'
  OBVIOUS
<1>0. Hired' = DOMAIN records' /\ ~(Idle.step \in {"manifest", "fill", "record"})
  BY DEF Hired, Idle
<1>1. CASE UNCHANGED vars
  BY <1>1, BadgeQuiet DEF vars, hist, HasPair, Hired
<1>2. ASSUME NEW p \in Procs, UNCHANGED <<records, vault, job>>
      PROVE  BadgeInv'
  BY <1>2, BadgeQuiet DEF HasPair, Hired
<1>3. ASSUME NEW p \in Procs, UNCHANGED <<records, vault>>, job' = [job EXCEPT ![p] = Idle]
      PROVE  BadgeInv'
  <2>1. \A q \in Procs : HasPair(q)' => HasPair(q) /\ job'[q] = job[q]
    BY <1>0, <1>3 DEF HasPair, TypeOK
  <2>2. QED
    BY <1>3, <2>1, BadgeQuiet DEF Hired
<1>4. ASSUME NEW p \in Procs, NEW a \in Agents, Hire(p, a)
      PROVE  BadgeInv'
  <2>1. /\ UNCHANGED <<vault, job>>
        /\ \A x \in DOMAIN records' : x \in Hired \union {a} /\ (x # a => records'[x] = records[x])
        /\ ~Enrolled(records'[a])
    BY <1>4 DEF Hire, Enrolled
  <2>2. QED
    BY <2>1, BadgeQuiet DEF HasPair
<1>5. ASSUME NEW p \in Procs, NEW a \in Agents, NEW n \in Names, Rename(p, a, n)
      PROVE  BadgeInv'
  <2>1. /\ UNCHANGED <<vault, job>>
        /\ \A x \in DOMAIN records' : /\ x \in Hired /\ records'[x].key = records[x].key
                                      /\ records'[x].dir = records[x].dir
    BY <1>5 DEF Rename, Active, TypeOK, Records, Hired
  <2>2. QED
    BY <2>1, BadgeQuiet DEF HasPair
<1>6. ASSUME NEW p \in Procs, NEW a \in Agents, Retire(p, a)
      PROVE  BadgeInv'
  <2>1. /\ UNCHANGED <<vault, job>>
        /\ \A x \in DOMAIN records' : /\ x \in Hired /\ records'[x].key = records[x].key
                                      /\ records'[x].dir = records[x].dir
    BY <1>6 DEF Retire, Active, TypeOK, Records, Hired
  <2>2. QED
    BY <2>1, BadgeQuiet DEF HasPair
<1>7. ASSUME NEW p \in Procs, NEW a \in Agents, Claim(p, a)
      PROVE  BadgeInv'
  <2>1. PICK d : job' = [job EXCEPT ![p] =
                           [step |-> "generate", agent |-> a, dir |-> d, key |-> NoPair]]
    BY <1>7 DEF Claim
  <2>2. \A q \in Procs : HasPair(q)' => HasPair(q) /\ job'[q] = job[q]
    BY <2>1 DEF HasPair, TypeOK
  <2>3. QED
    BY <1>7, <2>2, BadgeQuiet DEF Claim, Hired
<1>8. ASSUME NEW p \in Procs, Generate(p)
      PROVE  BadgeInv'
  <2> DEFINE d == job[p].dir
  <2>1. /\ d \in Dirs /\ vault[d].key = NoPair /\ keys' # NoPair /\ ~HasPair(p)
        /\ vault' = [vault EXCEPT ![d].key = keys']
        /\ job' = [job EXCEPT ![p].step = "manifest", ![p].key = keys']
        /\ records' = records
    BY <1>8, JobShape DEF Generate, Jobs, HasPair, TypeOK, NoPair
  <2>2. /\ job'[p].step = "manifest" /\ job'[p].dir = d /\ job'[p].key = keys'
        /\ \A q \in Procs \ {p} : job'[q] = job[q]
    BY <1>8, <2>1, JobShape DEF Generate, Jobs, TypeOK
  <2>3. /\ vault'[d].key = keys'
        /\ \A x \in Dirs \ {d} : vault'[x] = vault[x]
    BY <2>1 DEF TypeOK
  <2> HIDE DEF d
  <2>4. \A q \in Procs \ {p} : HasPair(q) => job[q].dir # d /\ job[q].dir \in Dirs
    BY <2>1, JobShape DEF BadgeInv, PairsHeld, HasPair, Jobs
  <2>5. \A a \in Hired : Enrolled(records[a]) => records[a].dir # d /\ records[a].dir \in Dirs
    <3> SUFFICES ASSUME NEW a \in Hired, Enrolled(records[a])
                 PROVE  records[a].dir # d /\ records[a].dir \in Dirs
      OBVIOUS
    <3>1. vault[records[a].dir].key = records[a].key
      <4>1. vault[records[a].dir] = [key |-> records[a].key,
                                     manifest |-> Manifest("whole", a, records[a].key)]
        BY DEF BadgeInv, BadgesBacked
      <4>2. QED
        BY <4>1
    <3>2. records[a].key # NoPair /\ records[a].dir \in Dirs
      BY DEF Enrolled, TypeOK, Records
    <3>3. QED
      BY <2>1, <3>1, <3>2
  <2>6. PairsHeld'
    <3> SUFFICES ASSUME NEW q \in Procs, HasPair(q)'
                 PROVE  /\ vault'[job'[q].dir].key = job'[q].key /\ job'[q].key # NoPair
                        /\ job'[q].step = "record" =>
                             vault'[job'[q].dir].manifest =
                               Manifest("whole", job'[q].agent, job'[q].key)
      BY DEF PairsHeld
    <3>1. CASE q = p
      BY <2>1, <2>2, <2>3, <3>1
    <3>2. CASE q # p
      <4>1. HasPair(q) /\ job'[q] = job[q]
        BY <2>2, <3>2 DEF HasPair
      <4>2. vault'[job[q].dir] = vault[job[q].dir]
        BY <2>3, <2>4, <3>2, <4>1
      <4>3. QED
        BY <4>1, <4>2 DEF BadgeInv, PairsHeld
    <3>3. QED
      BY <3>1, <3>2
  <2>7. PairsApart'
    BY <2>2, <2>4 DEF BadgeInv, PairsApart, HasPair
  <2>8. PairsFresh'
    BY <2>1, <2>2, <2>5 DEF BadgeInv, PairsFresh, HasPair, Hired
  <2>9. BadgesBacked'
    BY <2>1, <2>3, <2>5 DEF BadgeInv, BadgesBacked, Hired
  <2>10. QED
    BY <2>6, <2>7, <2>8, <2>9 DEF BadgeInv
<1>9. ASSUME NEW p \in Procs, OpenManifest(p) \/ FillManifest(p)
      PROVE  BadgeInv'
  <2> DEFINE d == job[p].dir
  <2>1. job[p] \in Jobs /\ d \in Dirs /\ HasPair(p) /\ records' = records
    BY <1>9, JobShape DEF OpenManifest, FillManifest, Jobs, HasPair
  <2>2. PICK m : vault' = [vault EXCEPT ![d].manifest = m]
    BY <1>9 DEF OpenManifest, FillManifest
  <2>3. /\ vault'[d].key = vault[d].key
        /\ \A x \in Dirs \ {d} : vault'[x] = vault[x]
    BY <2>1, <2>2 DEF TypeOK
  <2>4. /\ \A q \in Procs \ {p} : job'[q] = job[q]
        /\ job'[p].dir = d /\ job'[p].key = job[p].key /\ job'[p].agent = job[p].agent
        /\ job'[p].step = "fill" \/ (job'[p].step = "record" /\ FillManifest(p))
    BY <1>9, <2>1 DEF OpenManifest, FillManifest, Jobs, TypeOK
  <2>5. FillManifest(p) => vault'[d].manifest = Manifest("whole", job[p].agent, job[p].key)
    BY <2>1 DEF FillManifest, TypeOK
  <2> HIDE DEF d
  <2>6. \A q \in Procs \ {p} : HasPair(q) => job[q].dir # d /\ job[q].dir \in Dirs
    BY <2>1, JobShape DEF BadgeInv, PairsApart, HasPair, Jobs, d
  <2>7. \A a \in Hired : Enrolled(records[a]) => records[a].dir # d /\ records[a].dir \in Dirs
    BY <2>1 DEF BadgeInv, PairsFresh, TypeOK, Records, d
  <2>8. vault[d].key = job[p].key /\ job[p].key # NoPair
    BY <2>1 DEF BadgeInv, PairsHeld, d
  <2>9. PairsHeld'
    BY <2>1, <2>3, <2>4, <2>5, <2>6, <2>8 DEF BadgeInv, PairsHeld, HasPair
  <2>10. PairsApart'
    BY <2>1, <2>4, <2>6 DEF BadgeInv, PairsApart, HasPair
  <2>11. PairsFresh'
    BY <2>1, <2>4, <2>7 DEF BadgeInv, PairsFresh, HasPair, Hired
  <2>12. BadgesBacked'
    BY <2>1, <2>3, <2>7 DEF BadgeInv, BadgesBacked, Hired
  <2>13. QED
    BY <2>9, <2>10, <2>11, <2>12 DEF BadgeInv
<1>10. ASSUME NEW p \in Procs, Record(p)
       PROVE  BadgeInv'
  <2> DEFINE j == job[p]
             b == j.agent
  <2>1. /\ j \in Jobs /\ HasPair(p) /\ j.step = "record"
        /\ vault[j.dir].key = j.key
        /\ vault[j.dir].manifest = Manifest("whole", b, j.key)
    BY <1>10, JobShape DEF Record, HasPair, BadgeInv, PairsHeld
  <2>2. /\ records' = [records EXCEPT ![b].key = j.key, ![b].dir = j.dir]
        /\ job' = [job EXCEPT ![p] = Idle] /\ vault' = vault
    BY <1>10 DEF Record
  <2>3. \A q \in Procs : HasPair(q)' => q # p /\ HasPair(q) /\ job'[q] = job[q]
    BY <1>0, <2>2 DEF HasPair, TypeOK
  <2>4. /\ Hired' = Hired
        /\ \A a \in Hired \ {b} : records'[a] = records[a]
        /\ b \in Hired => records'[b].key = j.key /\ records'[b].dir = j.dir
    BY <1>0, <2>2 DEF TypeOK, Records, Hired
  <2>5. vault[j.dir] = [key |-> j.key, manifest |-> Manifest("whole", b, j.key)]
    BY <2>1 DEF TypeOK, Jobs
  <2> HIDE DEF j
  <2>6. PairsHeld' /\ PairsApart'
    BY <2>2, <2>3 DEF BadgeInv, PairsHeld, PairsApart
  <2>7. PairsFresh'
    <3> SUFFICES ASSUME NEW q \in Procs, NEW a \in Hired, HasPair(q)', Enrolled(records'[a])
                 PROVE  records'[a].dir # job'[q].dir
      BY <2>4 DEF PairsFresh
    <3>1. CASE a = b
      <4>1. j.dir # job[q].dir
        BY <2>1, <2>3 DEF BadgeInv, PairsApart, j
      <4>2. QED
        BY <2>3, <2>4, <3>1, <4>1
    <3>2. CASE a # b
      BY <2>3, <2>4, <3>2 DEF BadgeInv, PairsFresh
    <3>3. QED
      BY <3>1, <3>2
  <2>8. BadgesBacked'
    <3> SUFFICES ASSUME NEW a \in Hired, Enrolled(records'[a])
                 PROVE  vault[records'[a].dir] =
                          [key |-> records'[a].key,
                           manifest |-> Manifest("whole", a, records'[a].key)]
      BY <2>2, <2>4 DEF BadgesBacked
    <3>1. CASE a = b
      BY <2>4, <2>5, <3>1
    <3>2. CASE a # b
      BY <2>4, <3>2 DEF BadgeInv, BadgesBacked
    <3>3. QED
      BY <3>1, <3>2
  <2>9. QED
    BY <2>6, <2>7, <2>8 DEF BadgeInv
<1>11. QED
  <2>1. ASSUME NEW p \in Procs, Recruit(p) PROVE BadgeInv'
    <3>1. ASSUME NEW n \in Names, Roll(p, n) \/ Rechristen(p, n) PROVE BadgeInv'
      BY <1>2, <3>1 DEF Roll, Rechristen
    <3>2. CASE Drop(p)
      BY <1>2, <3>2 DEF Drop
    <3>3. QED
      BY <1>4, <1>5, <1>6, <2>1, <3>1, <3>2 DEF Recruit
  <2>2. ASSUME NEW p \in Procs, Enroll(p) PROVE BadgeInv'
    <3>1. ASSUME NEW a \in Agents, LookUp(p, a) \/ Refuse(p, a) PROVE BadgeInv'
      BY <1>2, <3>1 DEF LookUp, Refuse
    <3>2. CASE Backfill(p)
      BY <1>2, <3>2 DEF Backfill
    <3>3. CASE GenerateFails(p)
      BY <1>3, <3>3 DEF GenerateFails
    <3>4. QED
      BY <1>7, <1>8, <1>9, <1>10, <2>2, <3>1, <3>2, <3>3 DEF Enroll
  <2>3. ASSUME NEW p \in Procs, Crash(p) PROVE BadgeInv'
    BY <1>3, <2>3 DEF Crash
  <2>4. QED
    BY <1>1, <2>1, <2>2, <2>3 DEF Next

LEMMA BadgesHeld == Spec => []BadgeInv
<1>1. Init => BadgeInv
  <2>1. ASSUME Init PROVE Hired = {} /\ \A p \in Procs : ~HasPair(p)
    BY <2>1 DEF Init, Hired, HasPair, Idle
  <2>2. QED
    BY <2>1 DEF BadgeInv, PairsHeld, PairsApart, PairsFresh, BadgesBacked
<1>2. QED
  BY <1>1, BadgeStep, TypeCorrect, PTL DEF Spec

(* BadgesBacked: a badge on record is backed by the key and the manifest,  *)
(* whatever dies or overlaps (identity.py, enroll).                        *)
THEOREM BadgesBackedHolds == Spec => []BadgesBacked
<1>1. BadgeInv => BadgesBacked
  BY DEF BadgeInv
<1>2. QED
  BY <1>1, BadgesHeld, PTL

-----------------------------------------------------------------------------
(* Tags.  A candidate's tag is taken by nobody on the roster it was rolled *)
(* over, and stays so.                                                     *)

CandidateTags ==
    \A p \in Procs : candidate[p].rolled =>
        /\ candidate[p].over \subseteq Hired
        /\ \A a \in Active \intersect candidate[p].over : records[a].tag # candidate[p].tag

TagInv == CandidateTags /\ TagsDistinct

\* A step that hires nobody, brings nobody back and rolls no candidate.
LEMMA TagQuiet ==
  ASSUME TypeOK, TagInv, Hired' = Hired, unseen' = unseen,
         \A a \in Hired : records'[a].tag = records[a].tag /\ (records[a].retired => records'[a].retired),
         \A p \in Procs : candidate'[p].rolled =>
             /\ candidate[p].rolled /\ candidate'[p].tag = candidate[p].tag
             /\ candidate'[p].over = candidate[p].over
  PROVE  TagInv'
<1>1. Active' \subseteq Active
  BY DEF Active
<1>2. CandidateTags'
  BY <1>1 DEF TagInv, CandidateTags, Active
<1>3. TagsDistinct'
  BY <1>1 DEF TagInv, TagsDistinct, Active
<1>4. QED
  BY <1>2, <1>3 DEF TagInv

LEMMA TagStep == TypeOK /\ TagsBounded /\ TagInv /\ [Next]_vars => TagInv'
<1> SUFFICES ASSUME TypeOK, TagsBounded, TagInv, [Next]_vars PROVE TagInv'
  OBVIOUS
<1>0. Hired' = DOMAIN records' /\ ~NoCandidate.rolled
  BY DEF Hired, NoCandidate
<1>1. ASSUME UNCHANGED <<records, candidate, unseen>> PROVE TagInv'
  BY <1>0, <1>1, TagQuiet DEF Hired
<1>2. ASSUME NEW p \in Procs, NEW n \in Names, Roll(p, n)
      PROVE  TagInv'
  <2>1. PICK m \in Nat : \A a \in Hired : records[a].tag <= m
    BY DEF TagsBounded
  <2>2. /\ NextTag(records) \in Nat
        /\ \A a \in Active : records[a].tag < NextTag(records) /\ records[a].tag \in Nat
    <3>1. \A a \in DOMAIN records : records[a].tag \in Nat /\ records[a].tag <= m
      BY <2>1 DEF TypeOK, Records, Hired
    <3>2. QED
      BY <3>1, NextTagAbove DEF Active, Hired
  <2>3. /\ UNCHANGED <<records, unseen>> /\ Hired' = Hired /\ Active' = Active
        /\ candidate'[p].over = Hired /\ candidate'[p].tag = NextTag(records)
        /\ \A q \in Procs \ {p} : candidate'[q] = candidate[q]
    BY <1>2 DEF Roll, hist, Hired, Active, TypeOK
  <2>4. CandidateTags'
    <3> SUFFICES ASSUME NEW q \in Procs, candidate'[q].rolled
                 PROVE  /\ candidate'[q].over \subseteq Hired
                        /\ \A a \in Active \intersect candidate'[q].over :
                             records[a].tag # candidate'[q].tag
      BY <2>3 DEF CandidateTags
    <3>1. CASE q = p
      BY <2>2, <2>3, <3>1
    <3>2. CASE q # p
      BY <2>3, <3>2 DEF TagInv, CandidateTags
    <3>3. QED
      BY <3>1, <3>2
  <2>5. TagsDistinct'
    BY <2>3 DEF TagInv, TagsDistinct
  <2>6. QED
    BY <2>4, <2>5 DEF TagInv
<1>3. ASSUME NEW p \in Procs, NEW n \in Names, Rechristen(p, n)
      PROVE  TagInv'
  <2>1. candidate[p] \in Candidates
    BY <1>3 DEF Rechristen, TypeOK, NoCandidate
  <2>2. \A q \in Procs : candidate'[q].rolled =>
             /\ candidate[q].rolled /\ candidate'[q].tag = candidate[q].tag
             /\ candidate'[q].over = candidate[q].over
    BY <1>3, <2>1 DEF Rechristen, TypeOK, Candidates
  <2>3. QED
    BY <1>3, <2>2, TagQuiet DEF Rechristen, hist, Hired
<1>4. ASSUME NEW p \in Procs, Drop(p) \/ Crash(p)
      PROVE  TagInv'
  <2>1. \A q \in Procs : candidate'[q].rolled => candidate'[q] = candidate[q]
    BY <1>0, <1>4 DEF Drop, Crash, TypeOK
  <2>2. QED
    BY <1>4, <2>1, TagQuiet DEF Drop, Crash, hist, Hired
<1>5. ASSUME NEW p \in Procs, NEW b \in Agents, Hire(p, b)
      PROVE  TagInv'
  <2> DEFINE c == candidate[p]
  <2>1. /\ b \notin Hired /\ c.rolled
        /\ Hired' = Hired \union {b} /\ records'[b].tag = c.tag
        /\ \A a \in Hired : records'[a] = records[a] /\ unseen'[a] = unseen[a]
        /\ unseen'[b] = Hired \ c.over
        /\ candidate' = [candidate EXCEPT ![p] = NoCandidate]
    BY <1>0, <1>5 DEF Hire
  <2>2. \A q \in Procs : candidate'[q].rolled => candidate[q].rolled /\ candidate'[q] = candidate[q]
    BY <1>0, <2>1 DEF TypeOK
  <2>3. Active' \subseteq Active \union {b} /\ Active \subseteq Hired
    BY <2>1 DEF Active
  <2>4. CandidateTags'
    <3> SUFFICES ASSUME NEW q \in Procs, candidate[q].rolled, candidate'[q] = candidate[q]
                 PROVE  /\ candidate[q].over \subseteq Hired'
                        /\ \A a \in Active' \intersect candidate[q].over :
                             records'[a].tag # candidate[q].tag
      BY <2>2 DEF CandidateTags
    <3>1. candidate[q].over \subseteq Hired
      BY DEF TagInv, CandidateTags
    <3>2. \A a \in Active' \intersect candidate[q].over :
             a \in Active \intersect candidate[q].over /\ records'[a] = records[a]
      BY <2>1, <2>3, <3>1
    <3>3. QED
      BY <2>1, <3>1, <3>2 DEF TagInv, CandidateTags
  <2>5. \A a \in Active : records[a].tag = c.tag => a \in unseen'[b]
    BY <2>1, <2>3 DEF TagInv, CandidateTags
  <2>6. TagsDistinct'
    <3> SUFFICES ASSUME NEW x \in Active', NEW y \in Active', x # y,
                        records'[x].tag = records'[y].tag
                 PROVE  x \in unseen'[y] \/ y \in unseen'[x]
      BY DEF TagsDistinct
    <3>1. CASE x = b
      BY <2>1, <2>3, <2>5, <3>1
    <3>2. CASE y = b
      BY <2>1, <2>3, <2>5, <3>2
    <3>3. CASE x # b /\ y # b
      BY <2>1, <2>3, <3>3 DEF TagInv, TagsDistinct
    <3>4. QED
      BY <3>1, <3>2, <3>3
  <2>7. QED
    BY <2>4, <2>6 DEF TagInv
<1>6. ASSUME NEW p \in Procs, NEW a \in Agents, Retire(p, a)
      PROVE  TagInv'
  <2>1. Hired' = Hired /\ UNCHANGED <<candidate, unseen>>
    BY <1>6 DEF Retire, hist, TypeOK, Hired
  <2>2. \A x \in Hired : /\ records'[x].tag = records[x].tag
                         /\ records[x].retired => records'[x].retired
    BY <1>6 DEF Retire, TypeOK, Records
  <2>3. QED
    BY <2>1, <2>2, TagQuiet
<1>7. ASSUME NEW p \in Procs, NEW a \in Agents, NEW n \in Names, Rename(p, a, n)
       PROVE  TagInv'
  <2>1. Hired' = Hired /\ UNCHANGED <<candidate, unseen>>
    BY <1>7 DEF Rename, TypeOK, Hired
  <2>2. \A x \in Hired : /\ records'[x].tag = records[x].tag
                         /\ records[x].retired => records'[x].retired
    BY <1>7 DEF Rename, TypeOK, Records
  <2>3. QED
    BY <2>1, <2>2, TagQuiet
<1>8. ASSUME NEW p \in Procs, Record(p)
      PROVE  TagInv'
  <2>1. /\ Hired' = Hired /\ UNCHANGED <<candidate, unseen>>
        /\ \A x \in Hired : /\ records'[x].tag = records[x].tag
                            /\ records[x].retired => records'[x].retired
    BY <1>8 DEF Record, hist, TypeOK, Records, Hired
  <2>2. QED
    BY <2>1, TagQuiet
<1>9. ASSUME NEW p \in Procs, NEW a \in Agents, LookUp(p, a) \/ Claim(p, a) \/ Refuse(p, a)
      PROVE  TagInv'
  BY <1>1, <1>9 DEF LookUp, Claim, Begins, Refuse, hist
<1>10. ASSUME NEW p \in Procs, \/ Backfill(p) \/ Generate(p) \/ GenerateFails(p)
                              \/ OpenManifest(p) \/ FillManifest(p)
      PROVE  TagInv'
  BY <1>1, <1>10 DEF Backfill, Generate, GenerateFails, OpenManifest, FillManifest, hist
<1>11. CASE UNCHANGED vars
  BY <1>1, <1>11 DEF vars, hist
<1>12. QED
  <2>1. ASSUME NEW p \in Procs, Recruit(p) PROVE TagInv'
    BY <1>2, <1>3, <1>4, <1>5, <1>6, <1>7, <2>1 DEF Recruit
  <2>2. ASSUME NEW p \in Procs, Enroll(p) PROVE TagInv'
    BY <1>8, <1>9, <1>10, <2>2 DEF Enroll
  <2>3. QED
    BY <1>4, <1>11, <2>1, <2>2 DEF Next

(* TagsDistinct: agents on the roster share a tag only if one was still a  *)
(* candidate when the other was hired (generator.py, next_tag).            *)
THEOREM TagsDistinctHolds == Spec => []TagsDistinct
<1>1. Init => TagInv
  <2>1. ASSUME Init PROVE Active = {} /\ \A p \in Procs : ~candidate[p].rolled
    BY <2>1 DEF Init, Active, Hired, NoCandidate
  <2>2. QED
    BY <2>1 DEF TagInv, CandidateTags, TagsDistinct
<1>2. TagInv => TagsDistinct
  BY DEF TagInv
<1>3. Spec => []TagInv
  BY <1>1, TagStep, TypeCorrect, PTL DEF Spec
<1>4. QED
  BY <1>2, <1>3, PTL

-----------------------------------------------------------------------------
(* The first key.  Of an agent that keeps its name, and is enrolled by one *)
(* process at a time, every attempt looks at the same two directories.     *)

\* The dogtag's directory is another's, for good.
Blocked(m, a) == m.state = "torn" \/ (m.state = "whole" /\ m.agent # a)
RightDir(a, d) ==
    LET n == records[a].name
    IN  d = <<n, Nobody>> \/ (d = <<n, a>> /\ Blocked(vault[<<n, Nobody>>].manifest, a))

CopiesTrue ==
    \A p \in Procs : /\ DOMAIN copies[p] \subseteq Hired
                     /\ \A a \in DOMAIN copies[p] \ disturbed : copies[p][a].name = records[a].name
OneAtATime ==
    \A p \in Procs : ~Free(p) =>
        /\ job[p].agent \in Hired
        /\ \A q \in Procs : ~Free(q) /\ job[q].agent = job[p].agent /\ p # q =>
             job[p].agent \in disturbed
Unbadged ==
    \A p \in Procs : ~Free(p) /\ job[p].agent \notin disturbed =>
        ~Enrolled(records[job[p].agent]) /\ RightDir(job[p].agent, job[p].dir)
Badged ==
    \A a \in Hired \ disturbed : Enrolled(records[a]) => RightDir(a, records[a].dir)

KeyInv == CopiesTrue /\ OneAtATime /\ Unbadged /\ Badged

\* What the steps between claiming and recording have in common with those
\* that touch no badge.
LEMMA KeyQuiet ==
  ASSUME TypeOK, KeyInv, CopiesTrue',
         \A p \in Procs : ~Free(p)' =>
             ~Free(p) /\ job'[p].agent = job[p].agent /\ job'[p].dir = job[p].dir,
         Hired \subseteq Hired', disturbed \subseteq disturbed',
         \A a \in Hired \ disturbed' : /\ records'[a].name = records[a].name
                                       /\ records'[a].key = records[a].key
                                       /\ records'[a].dir = records[a].dir,
         \A a \in Hired' \ Hired : ~Enrolled(records'[a]),
         \A a \in Agents, n \in Names :
             Blocked(vault[<<n, Nobody>>].manifest, a) =>
                 Blocked(vault'[<<n, Nobody>>].manifest, a)
  PROVE  KeyInv'
<1>1. \A a \in Hired \ disturbed', d \in Dirs : RightDir(a, d) => RightDir(a, d)'
  <2> SUFFICES ASSUME NEW a \in Hired \ disturbed', NEW d \in Dirs, RightDir(a, d)
               PROVE  RightDir(a, d)'
    OBVIOUS
  <2>1. a \in Agents /\ records[a].name \in Names /\ records'[a].name = records[a].name
    BY DEF TypeOK, Records
  <2>2. Blocked(vault[<<records[a].name, Nobody>>].manifest, a) =>
            Blocked(vault'[<<records[a].name, Nobody>>].manifest, a)
    BY <2>1
  <2> HIDE DEF Blocked
  <2>3. QED
    BY <2>1, <2>2 DEF RightDir
<1>2. \A a \in Hired \ disturbed' : Enrolled(records'[a]) <=> Enrolled(records[a])
  BY DEF Enrolled
<1>3. OneAtATime'
  BY DEF KeyInv, OneAtATime
<1>4. Unbadged'
  <2> SUFFICES ASSUME NEW p \in Procs, ~Free(p)', job'[p].agent \notin disturbed'
               PROVE  /\ ~Enrolled(records'[job'[p].agent])
                      /\ RightDir(job[p].agent, job[p].dir)'
    BY DEF Unbadged
  <2> DEFINE a == job[p].agent
             d == job[p].dir
  <2>1. /\ ~Free(p) /\ a \notin disturbed' /\ a \notin disturbed
        /\ job'[p].agent = a /\ job'[p].dir = d
    OBVIOUS
  <2>2. a \in Hired \ disturbed' /\ d \in Dirs
    BY <2>1, JobShape DEF KeyInv, OneAtATime, Jobs
  <2>3. ~Enrolled(records[a]) /\ RightDir(a, d)
    BY <2>1 DEF KeyInv, Unbadged
  <2>4. \A x \in Hired \ disturbed', y \in Dirs :
           x = job'[p].agent /\ y = job'[p].dir =>
             (RightDir(x, y)' => RightDir(job[p].agent, job[p].dir)')
    BY DEF RightDir
  <2>5. QED
    BY <1>1, <1>2, <2>1, <2>2, <2>3, <2>4
<1>5. Badged'
  <2> SUFFICES ASSUME NEW a \in Hired', a \notin disturbed', Enrolled(records'[a])
               PROVE  RightDir(a, records[a].dir)'
    BY DEF Badged
  <2>1. a \in Hired \ disturbed /\ a \notin disturbed'
    OBVIOUS
  <2>2. RightDir(a, records[a].dir) /\ records[a].dir \in Dirs
    BY <1>2, <2>1 DEF KeyInv, Badged, TypeOK, Records
  <2>3. \A y \in Dirs : y = records'[a].dir => (RightDir(a, y)' => RightDir(a, records[a].dir)')
    BY DEF RightDir
  <2>4. QED
    BY <1>1, <2>1, <2>2, <2>3
<1>6. QED
  BY <1>3, <1>4, <1>5 DEF KeyInv

\* What a process looks up it copies as it is.
LEMMA CopiesQuiet ==
  ASSUME TypeOK, KeyInv, Hired \subseteq Hired', disturbed \subseteq disturbed', NEW p \in Procs,
         \A a \in Hired \ disturbed' : records'[a].name = records[a].name,
         NEW f, copies' = [copies EXCEPT ![p] = f],
         DOMAIN f \subseteq Hired', \A a \in DOMAIN f \ disturbed' : f[a].name = records'[a].name
  PROVE  CopiesTrue'
<1> SUFFICES ASSUME NEW q \in Procs
             PROVE  /\ DOMAIN copies'[q] \subseteq Hired'
                    /\ \A a \in DOMAIN copies'[q] \ disturbed' : copies'[q][a].name = records'[a].name
  BY DEF CopiesTrue
<1>1. CASE q = p
  BY <1>1 DEF TypeOK
<1>2. CASE q # p
  <2>1. copies'[q] = copies[q]
    BY <1>2 DEF TypeOK
  <2>2. /\ DOMAIN copies[q] \subseteq Hired
        /\ \A a \in DOMAIN copies[q] \ disturbed : copies[q][a].name = records[a].name
    BY DEF KeyInv, CopiesTrue
  <2>3. QED
    BY <2>1, <2>2
<1>3. QED
  BY <1>1, <1>2

\* Where an agent's record, or what it has begun, says it belongs, is where
\* the next attempt looks; and what blocks a dogtag's directory is not lost.
LEMMA SameDir ==
  ASSUME TypeOK, BadgeInv, KeyInv, NEW a \in Hired \ disturbed, Enrolled(records[a])
  PROVE  vault[VaultDir(a, records[a].name)].key # NoPair
<1> DEFINE n == records[a].name
           d == records[a].dir
<1>1. a \in Agents /\ n \in Names /\ d \in Dirs
  BY DEF TypeOK, Records
<1>2. /\ vault[d] = [key |-> records[a].key, manifest |-> Manifest("whole", a, records[a].key)]
      /\ records[a].key # NoPair
  BY DEF BadgeInv, BadgesBacked, Enrolled
<1>3. vault[d].key # NoPair /\ vault[d].manifest.state = "whole" /\ vault[d].manifest.agent = a
  BY <1>2 DEF Manifest
<1>4. RightDir(a, d)
  BY DEF KeyInv, Badged
<1>5. CASE d = <<n, Nobody>>
  BY <1>3, <1>5 DEF VaultDir
<1>6. CASE d = <<n, a>> /\ Blocked(vault[<<n, Nobody>>].manifest, a)
  BY <1>3, <1>6 DEF VaultDir, Blocked
<1>7. QED
  BY <1>4, <1>5, <1>6 DEF RightDir

LEMMA NewDirIsRight ==
  ASSUME TypeOK, NEW a \in Hired
  PROVE  RightDir(a, VaultDir(a, records[a].name))
<1> DEFINE m == vault[<<records[a].name, Nobody>>].manifest
<1>1. m.state \in {"none", "torn", "whole"}
  <2>1. <<records[a].name, Nobody>> \in Dirs
    BY DEF TypeOK, Records, Dirs
  <2>2. m \in Manifests
    BY <2>1 DEF TypeOK
  <2>3. QED
    BY <2>2 DEF Manifests
<1>2. QED
  BY <1>1 DEF RightDir, VaultDir, Blocked

LEMMA KeyStep ==
  ASSUME TypeOK, BadgeInv, KeyInv, [Next]_vars
  PROVE  KeyInv'
<1>0. /\ Hired' = DOMAIN records' /\ DOMAIN NoCopies = {}
      /\ \A q \in Procs : Free(q)' <=> job'[q] = Idle
  BY DEF Hired, Free, NoCopies
<1> DEFINE NoBadge == /\ Hired' = Hired /\ disturbed' = disturbed /\ vault' = vault
                      /\ \A a \in Hired : /\ records'[a].name = records[a].name
                                          /\ records'[a].key = records[a].key
                                          /\ records'[a].dir = records[a].dir
           JobsEnd == \A q \in Procs : job'[q] \in {job[q], Idle}
\* Steps that end jobs at most.
<1>1. ASSUME NoBadge, JobsEnd, CopiesTrue' PROVE KeyInv'
  <2>1. \A q \in Procs : ~Free(q)' =>
            ~Free(q) /\ job'[q].agent = job[q].agent /\ job'[q].dir = job[q].dir
    BY <1>0, <1>1 DEF Free
  <2>2. QED
    BY <1>1, <2>1, KeyQuiet
<1>2. ASSUME NEW p \in Procs, NoBadge, JobsEnd, NEW S \in SUBSET Hired,
             copies' = [copies EXCEPT ![p] = [x \in S |-> records[x]]]
      PROVE  KeyInv'
  <2> DEFINE f == [x \in S |-> records[x]]
  <2>1. DOMAIN f \subseteq Hired' /\ \A x \in DOMAIN f \ disturbed' : f[x].name = records'[x].name
    BY <1>2
  <2>2. CopiesTrue'
    <3> HIDE DEF f
    <3>1. copies' = [copies EXCEPT ![p] = f]
      BY <1>2 DEF f
    <3>2. QED
      BY <1>2, <2>1, <3>1, CopiesQuiet
  <2>3. QED
    BY <1>1, <1>2, <2>2
<1>3. ASSUME NEW p \in Procs, NoBadge, JobsEnd, copies' = [copies EXCEPT ![p] = NoCopies]
      PROVE  KeyInv'
  <2>1. CopiesTrue'
    BY <1>0, <1>3, CopiesQuiet
  <2>2. QED
    BY <1>1, <1>3, <2>1
<1>4. ASSUME UNCHANGED <<records, vault, copies, job, disturbed>> PROVE KeyInv'
  <2>1. CopiesTrue'
    BY <1>4 DEF KeyInv, CopiesTrue, Hired
  <2>2. QED
    BY <1>1, <1>4, <2>1 DEF Hired
<1>5. ASSUME NEW p \in Procs, NEW n \in Names, Roll(p, n) PROVE KeyInv'
  <2>1. NoBadge /\ JobsEnd /\ copies' = [copies EXCEPT ![p] = NoCopies]
    BY <1>5 DEF Roll, hist, Hired
  <2>2. QED
    BY <1>3, <2>1
<1>6. ASSUME NEW p \in Procs, (\E n \in Names : Rechristen(p, n)) \/ Drop(p) PROVE KeyInv'
  BY <1>4, <1>6 DEF Rechristen, Drop, hist
<1>7. ASSUME NEW p \in Procs, NEW a \in Agents, Hire(p, a) PROVE KeyInv'
  <2> DEFINE f == [x \in {a} |-> records'[a]]
  <2>1. /\ a \notin Hired /\ Hired' = Hired \union {a} /\ disturbed' = disturbed
        /\ \A x \in Hired : records'[x] = records[x]
        /\ ~Enrolled(records'[a])
        /\ vault' = vault /\ job' = job
    BY <1>0, <1>7 DEF Hire, Enrolled
  <2>2. copies' = [copies EXCEPT ![p] = f]
    BY <1>7 DEF Hire
  <2>3. DOMAIN f = {a} /\ f[a] = records'[a]
    OBVIOUS
  <2> HIDE DEF f
  <2>4. CopiesTrue'
    BY <2>1, <2>2, <2>3, CopiesQuiet
  <2>5. \A q \in Procs : ~Free(q)' =>
            ~Free(q) /\ job'[q].agent = job[q].agent /\ job'[q].dir = job[q].dir
    BY <2>1 DEF Free
  <2>6. \A x \in Hired' \ Hired : ~Enrolled(records'[x])
    BY <2>1
  <2>7. QED
    BY <2>1, <2>4, <2>5, <2>6, KeyQuiet
<1>8. ASSUME NEW p \in Procs, NEW a \in Agents, Retire(p, a) PROVE KeyInv'
  <2>1. \A x \in Hired : /\ records'[x].name = records[x].name
                         /\ records'[x].key = records[x].key
                         /\ records'[x].dir = records[x].dir
    BY <1>8 DEF Retire, TypeOK, Records
  <2>2. NoBadge /\ JobsEnd /\ copies' = [copies EXCEPT ![p] = NoCopies]
    BY <1>8, <2>1 DEF Retire, hist, Hired, TypeOK
  <2>3. QED
    BY <1>3, <2>2
<1>9. ASSUME NEW p \in Procs, NEW a \in Agents, NEW n \in Names, Rename(p, a, n) PROVE KeyInv'
  <2> DEFINE f == [x \in {a} |-> records'[a]]
  <2>1. /\ a \in Hired /\ Hired' = Hired /\ disturbed' = disturbed \union {a}
        /\ \A x \in Hired \ {a} : records'[x] = records[x]
        /\ vault' = vault /\ job' = job
    BY <1>0, <1>9 DEF Rename, Active, TypeOK, Hired
  <2>2. copies' = [copies EXCEPT ![p] = f]
    BY <1>9 DEF Rename
  <2>3. DOMAIN f = {a} /\ f[a] = records'[a]
    OBVIOUS
  <2> HIDE DEF f
  <2>4. CopiesTrue'
    BY <2>1, <2>2, <2>3, CopiesQuiet
  <2>5. \A q \in Procs : ~Free(q)' =>
            ~Free(q) /\ job'[q].agent = job[q].agent /\ job'[q].dir = job[q].dir
    BY <2>1 DEF Free
  <2>6. QED
    BY <2>1, <2>4, <2>5, KeyQuiet
<1>10. ASSUME NEW p \in Procs, NEW a \in Agents, LookUp(p, a) PROVE KeyInv'
  <2>1. NoBadge /\ JobsEnd /\ {a} \in SUBSET Hired
    BY <1>10 DEF LookUp, hist, Hired, Active
  <2>2. copies' = [copies EXCEPT ![p] = [x \in {a} |-> records[x]]]
    <3>1. [x \in {a} |-> records[a]] = [x \in {a} |-> records[x]]
      OBVIOUS
    <3>2. QED
      BY <1>10, <3>1 DEF LookUp
  <2>3. QED
    BY <1>2, <2>1, <2>2
<1>11. ASSUME NEW p \in Procs, Backfill(p) PROVE KeyInv'
  <2> DEFINE S == {a \in Active : ~Enrolled(records[a])}
  <2>1. NoBadge /\ JobsEnd /\ S \in SUBSET Hired
    BY <1>11 DEF Backfill, hist, Hired, Active
  <2>2. copies' = [copies EXCEPT ![p] = [x \in S |-> records[x]]]
    BY <1>11 DEF Backfill
  <2> HIDE DEF S
  <2>3. QED
    BY <1>2, <2>1, <2>2
<1>12. ASSUME NEW p \in Procs, NEW a \in Agents, Refuse(p, a) PROVE KeyInv'
  <2>1. NoBadge /\ JobsEnd /\ copies' = [copies EXCEPT ![p] = NoCopies]
    BY <1>12 DEF Refuse, hist, Hired
  <2>2. QED
    BY <1>3, <2>1
<1>13. ASSUME NEW p \in Procs, GenerateFails(p) \/ Crash(p) PROVE KeyInv'
  <2>1. JobsEnd
    BY <1>13 DEF GenerateFails, Crash, TypeOK
  <2>2. NoBadge /\ copies' = [copies EXCEPT ![p] = NoCopies]
    BY <1>13 DEF GenerateFails, Crash, hist, Hired
  <2>3. QED
    BY <1>3, <2>1, <2>2
<1>14. ASSUME NEW p \in Procs, Generate(p) \/ OpenManifest(p) PROVE KeyInv'
  <2>1. job[p] \in Jobs /\ ~Free(p) /\ UNCHANGED <<records, copies, disturbed>>
    BY <1>14, JobShape DEF Generate, OpenManifest, hist, Free, Idle
  <2>2. CopiesTrue'
    BY <2>1 DEF KeyInv, CopiesTrue, Hired
  <2>3. \A q \in Procs \ {p} : job'[q] = job[q]
    BY <1>14 DEF Generate, OpenManifest, TypeOK
  <2>4. job'[p].agent = job[p].agent /\ job'[p].dir = job[p].dir
    <3>1. CASE Generate(p)
      BY <2>1, <3>1 DEF Generate, Jobs, TypeOK
    <3>2. CASE OpenManifest(p)
      BY <2>1, <3>2 DEF OpenManifest, Jobs, TypeOK
    <3>3. QED
      BY <1>14, <3>1, <3>2
  <2>5. \A d \in Dirs : \/ vault'[d].manifest = vault[d].manifest
                        \/ vault'[d].manifest.state = "torn"
    <3>1. CASE Generate(p)
      BY <2>1, <3>1 DEF Generate, TypeOK
    <3>2. CASE OpenManifest(p)
      BY <2>1, <3>2 DEF OpenManifest, Manifest, TypeOK
    <3>3. QED
      BY <1>14, <3>1, <3>2
  <2>6. \A a \in Agents, n \in Names :
           Blocked(vault[<<n, Nobody>>].manifest, a) => Blocked(vault'[<<n, Nobody>>].manifest, a)
    BY <2>5 DEF Dirs, Blocked
  <2>7. \A q \in Procs : ~Free(q)' =>
            ~Free(q) /\ job'[q].agent = job[q].agent /\ job'[q].dir = job[q].dir
    BY <1>0, <2>1, <2>3, <2>4 DEF Free
  <2>8. Hired' = Hired
    BY <2>1 DEF Hired
  <2>9. QED
    BY <2>1, <2>2, <2>6, <2>7, <2>8, KeyQuiet
<1>15. ASSUME NEW p \in Procs, FillManifest(p) PROVE KeyInv'
  <2> DEFINE b == job[p].agent
             d == job[p].dir
  <2>1. /\ job[p] \in Jobs /\ ~Free(p) /\ d \in Dirs
        /\ UNCHANGED <<records, copies, disturbed>> /\ Hired' = Hired
    BY <1>15, JobShape DEF FillManifest, hist, Free, Idle, Jobs, Hired
  <2>2. /\ vault'[d].manifest.state = "whole" /\ vault'[d].manifest.agent = b
        /\ \A x \in Dirs \ {d} : vault'[x] = vault[x]
    BY <1>15, <2>1 DEF FillManifest, Manifest, TypeOK
  <2>3. \A q \in Procs : ~Free(q)' =>
            ~Free(q) /\ job'[q].agent = job[q].agent /\ job'[q].dir = job[q].dir
    BY <1>0, <1>15, <2>1 DEF FillManifest, Jobs, TypeOK, Free
  <2> HIDE DEF b, d
  <2>4. \A a \in Hired, x \in Dirs :
           RightDir(a, x) /\ (a # b \/ x = d) =>
             /\ records'[a].name = records[a].name
             /\ \/ x = <<records[a].name, Nobody>>
                \/ x = <<records[a].name, a>> /\ Blocked(vault'[<<records[a].name, Nobody>>].manifest, a)
    <3> SUFFICES ASSUME NEW a \in Hired, NEW x \in Dirs, RightDir(a, x), a # b \/ x = d,
                        x # <<records[a].name, Nobody>>
                 PROVE  /\ x = <<records[a].name, a>>
                        /\ Blocked(vault'[<<records[a].name, Nobody>>].manifest, a)
      BY <2>1
    <3> DEFINE h == <<records[a].name, Nobody>>
    <3>1. x = <<records[a].name, a>> /\ Blocked(vault[h].manifest, a) /\ h \in Dirs
      BY DEF RightDir, TypeOK, Records, Dirs
    <3>2. CASE h # d
      BY <2>2, <3>1, <3>2
    <3>3. CASE h = d
      BY <2>2, <3>1, <3>3 DEF Blocked
    <3>4. QED
      BY <3>1, <3>2, <3>3
  <2>5. CopiesTrue' /\ OneAtATime'
    BY <2>1, <2>3 DEF KeyInv, CopiesTrue, OneAtATime
  <2>6. Unbadged'
    <3> SUFFICES ASSUME NEW q \in Procs, ~Free(q)', job'[q].agent \notin disturbed'
                 PROVE  /\ ~Enrolled(records'[job'[q].agent])
                        /\ RightDir(job[q].agent, job[q].dir)'
      BY DEF Unbadged
    <3> DEFINE a == job[q].agent
               x == job[q].dir
    <3>1. /\ ~Free(q) /\ a \notin disturbed /\ a \in Hired /\ x \in Dirs
          /\ job'[q].agent = a /\ job'[q].dir = x
      BY <2>1, <2>3, JobShape DEF KeyInv, OneAtATime, Jobs
    <3>2. ~Enrolled(records[a]) /\ RightDir(a, x)
      BY <3>1 DEF KeyInv, Unbadged
    <3>3. a # b \/ x = d
      <4>1. CASE q = p
        BY <4>1 DEF d
      <4>2. CASE q # p
        BY <2>1, <3>1, <4>2 DEF KeyInv, OneAtATime, b
      <4>3. QED
        BY <4>1, <4>2
    <3>4. RightDir(job[q].agent, job[q].dir)'
      BY <2>4, <3>1, <3>2, <3>3 DEF RightDir
    <3>5. QED
      BY <2>1, <3>1, <3>2, <3>4
  <2>7. Badged'
    <3> SUFFICES ASSUME NEW a \in Hired, a \notin disturbed, Enrolled(records[a])
                 PROVE  RightDir(a, records[a].dir)'
      BY <2>1 DEF Badged
    <3>1. RightDir(a, records[a].dir) /\ records[a].dir \in Dirs
      BY DEF KeyInv, Badged, TypeOK, Records
    <3>2. a # b
      BY <2>1 DEF KeyInv, Unbadged, b
    <3>3. QED
      BY <2>1, <2>4, <3>1, <3>2 DEF RightDir
  <2>8. QED
    BY <2>5, <2>6, <2>7 DEF KeyInv
<1>16. ASSUME NEW p \in Procs, Record(p) PROVE KeyInv'
  <2> DEFINE b == job[p].agent
             d == job[p].dir
  <2>1. /\ job[p] \in Jobs /\ ~Free(p) /\ d \in Dirs /\ b \in Hired
        /\ UNCHANGED <<vault, disturbed>> /\ Hired' = Hired
    BY <1>0, <1>16, JobShape DEF Record, hist, Free, Idle, Jobs, Hired, KeyInv, OneAtATime
  <2>2. /\ records' = [records EXCEPT ![b].key = job[p].key, ![b].dir = d]
        /\ copies' = [copies EXCEPT ![p] = Without(@, b)]
        /\ job' = [job EXCEPT ![p] = Idle]
    BY <1>16 DEF Record
  <2>3. /\ \A a \in Hired : records'[a].name = records[a].name
        /\ \A a \in Hired \ {b} : records'[a] = records[a]
        /\ records'[b].dir = d
    BY <2>1, <2>2 DEF TypeOK, Records
  <2>4. \A q \in Procs : ~Free(q)' => q # p /\ ~Free(q) /\ job'[q] = job[q]
    BY <1>0, <2>2 DEF TypeOK, Free
  <2> HIDE DEF b, d
  <2>5. CopiesTrue'
    <3> DEFINE f == Without(copies[p], b)
    <3>1. /\ DOMAIN f \subseteq Hired
          /\ \A a \in DOMAIN f \ disturbed : f[a].name = records[a].name
      BY DEF KeyInv, CopiesTrue, Without, Restrict
    <3>2. copies' = [copies EXCEPT ![p] = f]
      BY <2>2
    <3> HIDE DEF f
    <3>3. /\ DOMAIN f \subseteq Hired'
          /\ \A a \in DOMAIN f \ disturbed' : f[a].name = records'[a].name
      BY <2>1, <2>3, <3>1
    <3>4. QED
      BY <2>1, <2>3, <3>2, <3>3, CopiesQuiet
  <2>6. OneAtATime'
    BY <2>1, <2>4 DEF KeyInv, OneAtATime
  <2>7. \A a \in Hired : \A x : RightDir(a, x) => RightDir(a, x)'
    BY <2>1, <2>3 DEF RightDir
  <2>8. Unbadged'
    <3> SUFFICES ASSUME NEW q \in Procs, ~Free(q)', job'[q].agent \notin disturbed'
                 PROVE  /\ ~Enrolled(records'[job'[q].agent])
                        /\ RightDir(job[q].agent, job[q].dir)'
      BY DEF Unbadged
    <3>1. /\ ~Free(q) /\ q # p /\ job'[q] = job[q] /\ job[q].agent \in Hired
          /\ job[q].agent \notin disturbed
      BY <2>1, <2>4 DEF KeyInv, OneAtATime
    <3>2. job[q].agent # b
      BY <2>1, <3>1 DEF KeyInv, OneAtATime, b
    <3>3. ~Enrolled(records[job[q].agent]) /\ RightDir(job[q].agent, job[q].dir)
      BY <3>1 DEF KeyInv, Unbadged
    <3>4. RightDir(job[q].agent, job[q].dir)'
      BY <2>1, <2>3, <3>1, <3>3 DEF RightDir
    <3>5. QED
      BY <2>3, <3>1, <3>2, <3>3, <3>4
  <2>9. Badged'
    <3> SUFFICES ASSUME NEW a \in Hired, a \notin disturbed, Enrolled(records'[a])
                 PROVE  RightDir(a, records[a].dir)'
      BY <2>1 DEF Badged
    <3>1. CASE a = b
      <4>1. RightDir(b, d)
        BY <2>1, <3>1 DEF KeyInv, Unbadged, b, d
      <4>2. QED
        BY <2>1, <2>3, <3>1, <4>1 DEF RightDir
    <3>2. CASE a # b
      <4>1. RightDir(a, records[a].dir)
        BY <2>3, <3>2 DEF KeyInv, Badged
      <4>2. QED
        BY <2>1, <2>3, <3>2, <4>1 DEF RightDir
    <3>3. QED
      BY <3>1, <3>2
  <2>10. QED
    BY <2>5, <2>6, <2>8, <2>9 DEF KeyInv
<1>17. ASSUME NEW p \in Procs, NEW a \in Agents, Claim(p, a) PROVE KeyInv'
  <2> DEFINE d == VaultDir(a, copies[p][a].name)
             others == {q \in Procs \ {p} : ~Free(q) /\ job[q].agent = a}
  <2>1. /\ UNCHANGED <<records, vault, candidate, copies>> /\ Hired' = Hired
        /\ a \in Hired /\ a \in DOMAIN copies[p]
    BY <1>17 DEF Claim, Begins, KeyInv, CopiesTrue, Hired
  <2>2. /\ disturbed \subseteq disturbed'
        /\ others # {} => a \in disturbed'
    BY <1>17 DEF Claim, Begins
  <2>3. /\ vault[d].key = NoPair
        /\ job'[p].agent = a /\ job'[p].dir = d
        /\ \A q \in Procs \ {p} : job'[q] = job[q]
    BY <1>17 DEF Claim, TypeOK
  <2>4. \A q \in Procs \ {p} : ~Free(q)' => ~Free(q)
    BY <2>3 DEF Free
  <2>5. \A q \in Procs \ {p} : ~Free(q) /\ job[q].agent = a => a \in disturbed'
    BY <2>2
  <2>6. a \notin disturbed' => ~Enrolled(records[a]) /\ RightDir(a, d)
    <3> SUFFICES ASSUME a \notin disturbed' PROVE ~Enrolled(records[a]) /\ RightDir(a, d)
      OBVIOUS
    <3>1. a \notin disturbed /\ copies[p][a].name = records[a].name
      BY <2>1, <2>2 DEF KeyInv, CopiesTrue
    <3>2. RightDir(a, d)
      BY <2>1, <3>1, NewDirIsRight
    <3>3. ~Enrolled(records[a])
      BY <2>1, <2>3, <3>1, SameDir
    <3>4. QED
      BY <3>2, <3>3
  <2> HIDE DEF d, others
  <2>7. CopiesTrue'
    BY <2>1, <2>2 DEF KeyInv, CopiesTrue
  <2>8. OneAtATime'
    <3> SUFFICES ASSUME NEW q \in Procs, ~Free(q)'
                 PROVE  /\ job'[q].agent \in Hired'
                        /\ \A r \in Procs : ~Free(r)' /\ job'[r].agent = job'[q].agent /\ q # r =>
                             job'[q].agent \in disturbed'
      BY DEF OneAtATime
    <3>1. CASE q = p
      BY <2>1, <2>3, <2>4, <2>5, <3>1
    <3>2. CASE q # p
      <4>1. ~Free(q) /\ job'[q] = job[q] /\ job[q].agent \in Hired
        BY <2>3, <2>4, <3>2 DEF KeyInv, OneAtATime
      <4>2. ASSUME NEW r \in Procs, ~Free(r)', job'[r].agent = job'[q].agent, q # r
            PROVE  job'[q].agent \in disturbed'
        <5>1. CASE r = p
          BY <2>3, <2>5, <3>2, <4>1, <4>2, <5>1
        <5>2. CASE r # p
          BY <2>2, <2>3, <2>4, <4>1, <4>2, <5>2 DEF KeyInv, OneAtATime
        <5>3. QED
          BY <5>1, <5>2
      <4>3. QED
        BY <2>1, <4>1, <4>2
    <3>3. QED
      BY <3>1, <3>2
  <2>9. \A b \in Hired : \A x : RightDir(b, x) => RightDir(b, x)'
    BY <2>1 DEF RightDir
  <2>10. Unbadged'
    <3> SUFFICES ASSUME NEW q \in Procs, ~Free(q)', job'[q].agent \notin disturbed'
                 PROVE  /\ ~Enrolled(records'[job'[q].agent])
                        /\ RightDir(job[q].agent, job[q].dir)'
      BY DEF Unbadged
    <3>1. CASE q = p
      BY <2>1, <2>3, <2>6, <3>1 DEF RightDir
    <3>2. CASE q # p
      <4>1. /\ ~Free(q) /\ job'[q] = job[q] /\ job[q].agent \in Hired
            /\ job[q].agent \notin disturbed
        BY <2>2, <2>3, <2>4, <3>2 DEF KeyInv, OneAtATime
      <4>2. ~Enrolled(records[job[q].agent]) /\ RightDir(job[q].agent, job[q].dir)
        BY <4>1 DEF KeyInv, Unbadged
      <4>3. QED
        BY <2>1, <4>1, <4>2 DEF RightDir
    <3>3. QED
      BY <3>1, <3>2
  <2>11. Badged'
    BY <2>1, <2>2 DEF KeyInv, Badged, RightDir
  <2>12. QED
    BY <2>7, <2>8, <2>10, <2>11 DEF KeyInv
<1>18. ASSUME UNCHANGED vars PROVE KeyInv'
  BY <1>4, <1>18 DEF vars, hist
<1>19. ASSUME NEW p \in Procs, Recruit(p) PROVE KeyInv'
  BY <1>5, <1>6, <1>7, <1>8, <1>9, <1>19 DEF Recruit
<1>20. ASSUME NEW p \in Procs, Enroll(p) PROVE KeyInv'
  BY <1>10, <1>11, <1>12, <1>13, <1>14, <1>15, <1>16, <1>17, <1>20 DEF Enroll
<1>21. QED
  BY <1>13, <1>18, <1>19, <1>20 DEF Next

LEMMA KeysHeld == Spec => []KeyInv
<1>1. Init => KeyInv
  <2>1. ASSUME Init PROVE /\ Hired = {}
                          /\ \A p \in Procs : Free(p) /\ DOMAIN copies[p] = {}
    BY <2>1 DEF Init, Hired, Free, NoCopies
  <2>2. QED
    BY <2>1 DEF KeyInv, CopiesTrue, OneAtATime, Unbadged, Badged
<1>2. QED
  BY <1>1, KeyStep, BadgesHeld, TypeCorrect, PTL DEF Spec

\* Only recording changes a key, and a process records for an agent that is
\* not disturbed only the first time.
LEMMA KeyKeptStep ==
  ASSUME TypeOK, KeyInv, Next, NEW a \in Hired \ disturbed, Enrolled(records[a])
  PROVE  records'[a].key = records[a].key
<1>1. ASSUME NEW p \in Procs, Recruit(p) PROVE records'[a].key = records[a].key
  <2>1. CASE \E b \in Agents : Hire(p, b)
    BY <2>1 DEF Hire
  <2>2. CASE \E b \in Agents : Retire(p, b)
    BY <2>2 DEF Retire, TypeOK, Records
  <2>3. CASE \E b \in Agents, n \in Names : Rename(p, b, n)
    BY <2>3 DEF Rename, TypeOK, Records
  <2>4. CASE records' = records
    BY <2>4
  <2>5. QED
    BY <1>1, <2>1, <2>2, <2>3, <2>4 DEF Recruit, Roll, Rechristen, Drop
<1>2. ASSUME NEW p \in Procs, Record(p) PROVE records'[a].key = records[a].key
  <2>1. job[p].agent \in Hired /\ job[p].agent # a
    BY <1>2 DEF Record, Free, Idle, KeyInv, OneAtATime, Unbadged
  <2>2. records'[a] = records[a]
    BY <1>2, <2>1 DEF Record, TypeOK
  <2>3. QED
    BY <2>2
<1>3. ASSUME NEW p \in Procs, Enroll(p), ~Record(p) PROVE records' = records
  BY <1>3 DEF Enroll, LookUp, Claim, Refuse, Backfill, Generate, GenerateFails, OpenManifest, FillManifest
<1>4. ASSUME NEW p \in Procs, Crash(p) PROVE records' = records
  BY <1>4 DEF Crash
<1>5. QED
  BY <1>1, <1>2, <1>3, <1>4 DEF Next

(* KeyKept: of an agent that keeps its name and is enrolled by one process *)
(* at a time, no later attempt replaces the key, however old the copy it   *)
(* starts from (identity.py: the directory is found again by name and      *)
(* manifest, and the key in it refuses the attempt).                       *)
THEOREM KeyKeptHolds == Spec => KeyKept
<1>1. TypeOK /\ KeyInv /\ [Next]_vars =>
          [\A a \in Hired \ disturbed : Enrolled(records[a]) => records'[a].key = records[a].key]_vars
  BY KeyKeptStep
<1>2. QED
  BY <1>1, TypeCorrect, KeysHeld, PTL DEF Spec, KeyKept

-----------------------------------------------------------------------------
(* Orphans.  OrphansExplained is a count, and becomes inductive with what  *)
(* may still become an orphan.  A claim is an enrollment under way, or a   *)
(* name that somebody may yet enroll an agent by, because a record or a    *)
(* copy without a badge has it and no key was issued under it.  The first  *)
(* badge of an agent costs nothing, so one claim of an agent without a     *)
(* badge is free; every other is paid for by a mishap, as orphans are.     *)

KeysApart ==
    /\ \A d \in Dirs : vault[d].key <= keys
    /\ \A d, e \in Dirs : vault[d].key = vault[e].key /\ vault[d].key # NoPair => d = e

\* A directory named by an agent is used only beside one that is taken, a
\* whole manifest has its key, and a job finds none where it writes.
DirInv ==
    /\ \A d \in Dirs : vault[d].manifest.state = "whole" => vault[d].key # NoPair
    /\ \A n \in Names, a \in Agents :
           vault[<<n, a>>].key # NoPair => vault[<<n, Nobody>>].manifest.state # "none"
JobInv == \A p \in Procs : ~Free(p) =>
    /\ job[p].step = "generate" => job[p].key = NoPair
    /\ job[p].step \in {"manifest", "fill"} => vault[job[p].dir].manifest.state # "whole"
    /\ \E n \in Names : \/ job[p].dir = <<n, Nobody>>
                        \/ /\ job[p].dir = <<n, job[p].agent>>
                           /\ vault[<<n, Nobody>>].manifest.state # "none"

\* Under this name a key was issued to the agent, or is being issued.
WorksOn(p, a, n) == ~Free(p) /\ job[p].agent = a /\ job[p].dir[1] = n
Issued(a, n) ==
    \/ vault[<<n, Nobody>>].manifest.state = "whole" /\ vault[<<n, Nobody>>].manifest.agent = a
    \/ vault[<<n, a>>].key # NoPair
Spent(a, n) == Issued(a, n) \/ \E p \in Procs : WorksOn(p, a, n)
Known(a, n) ==
    \/ a \in Hired /\ ~Enrolled(records[a]) /\ records[a].name = n
    \/ \E p \in Procs : a \in DOMAIN copies[p] /\ ~Enrolled(copies[p][a]) /\ copies[p][a].name = n
NameClaims == {c \in {"name"} \X Agents \X Names : Known(c[2], c[3]) /\ ~Spent(c[2], c[3])}
JobClaims == {c \in {"job"} \X Agents \X Procs : ~Free(c[3]) /\ job[c[3]].agent = c[2]}
Claims == NameClaims \union JobClaims

Badgeless == {a \in Hired : ~Enrolled(records[a])}

\* Some claims are free, and the rest and the orphans are paid for.
Gratis(S, C, U) ==
    /\ S \subseteq C /\ \A c \in S : c[2] \in U
    /\ \A c, d \in S : c[2] = d[2] => c = d
Paid(O, H, m) == IsFiniteSet(O) /\ IsFiniteSet(H) /\ Cardinality(O) + Cardinality(H) <= m
Covered(O, C, U, m) == \E S : Gratis(S, C, U) /\ Paid(O, C \ S, m)
OrphanInv == Covered(Orphans, Claims, Badgeless, crashes + renames + contests)

LEMMA Fewer ==
  ASSUME NEW S, IsFiniteSet(S), NEW T, T \subseteq S
  PROVE  IsFiniteSet(T) /\ Cardinality(T) <= Cardinality(S) /\ Cardinality(T) \in Nat /\ Cardinality(S) \in Nat
  BY FS_Subset, FS_CardinalityType

LEMMA OneMore ==
  ASSUME NEW S, IsFiniteSet(S), NEW y, NEW T, T \subseteq S \union {y}
  PROVE  IsFiniteSet(T) /\ Cardinality(T) <= Cardinality(S) + 1 /\ Cardinality(T) \in Nat /\ Cardinality(S) \in Nat
<1>1. /\ IsFiniteSet(S \union {y}) /\ Cardinality(S) \in Nat
      /\ Cardinality(S \union {y}) = Cardinality(S) \/ Cardinality(S \union {y}) = Cardinality(S) + 1
  BY FS_AddElement, FS_CardinalityType
<1>2. IsFiniteSet(T) /\ Cardinality(T) <= Cardinality(S \union {y}) /\ Cardinality(T) \in Nat
  BY <1>1, Fewer
<1>3. QED
  BY <1>1, <1>2

LEMMA OneLess ==
  ASSUME NEW S, IsFiniteSet(S), NEW x \in S, NEW T, T \subseteq S \ {x}
  PROVE  IsFiniteSet(T) /\ Cardinality(T) + 1 <= Cardinality(S) /\ Cardinality(T) \in Nat /\ Cardinality(S) \in Nat
<1>1. /\ IsFiniteSet(S \ {x}) /\ Cardinality(S \ {x}) = Cardinality(S) - 1 /\ Cardinality(S) \in Nat
  BY FS_RemoveElement, FS_CardinalityType
<1>2. IsFiniteSet(T) /\ Cardinality(T) <= Cardinality(S \ {x}) /\ Cardinality(T) \in Nat
  BY <1>1, Fewer
<1>3. QED
  BY <1>1, <1>2

LEMMA OneForOne ==
  ASSUME NEW S, IsFiniteSet(S), NEW x \in S, NEW y, NEW T, T \subseteq (S \ {x}) \union {y}
  PROVE  IsFiniteSet(T) /\ Cardinality(T) <= Cardinality(S) /\ Cardinality(T) \in Nat /\ Cardinality(S) \in Nat
<1> DEFINE Q == S \ {x}
<1>1. IsFiniteSet(Q) /\ Cardinality(Q) + 1 <= Cardinality(S) /\ Cardinality(Q) \in Nat /\ Cardinality(S) \in Nat
  BY OneLess
<1> HIDE DEF Q
<1>2. IsFiniteSet(T) /\ Cardinality(T) <= Cardinality(Q) + 1 /\ Cardinality(T) \in Nat
  <2>1. T \subseteq Q \union {y}
    BY DEF Q
  <2>2. QED
    BY <1>1, <2>1, OneMore
<1>3. QED
  BY <1>1, <1>2

\* Nothing new to pay for.
LEMMA CoveredFewer ==
  ASSUME NEW O, NEW C, NEW U, NEW m \in Nat, Covered(O, C, U, m),
         NEW O1, NEW C1, NEW U1, NEW k \in Nat, O1 \subseteq O, C1 \subseteq C, U \subseteq U1, m <= k
  PROVE  Covered(O1, C1, U1, k)
<1>1. PICK S : Gratis(S, C, U) /\ Paid(O, C \ S, m)
  BY DEF Covered
<1> DEFINE S1 == S \cap C1
<1>2. Gratis(S1, C1, U1)
  BY <1>1 DEF Gratis
<1>3. C1 \ S1 \subseteq C \ S
  OBVIOUS
<1>4. /\ IsFiniteSet(O1) /\ Cardinality(O1) <= Cardinality(O) /\ Cardinality(O1) \in Nat /\ Cardinality(O) \in Nat
      /\ IsFiniteSet(C1 \ S1) /\ Cardinality(C1 \ S1) <= Cardinality(C \ S)
      /\ Cardinality(C1 \ S1) \in Nat /\ Cardinality(C \ S) \in Nat
  BY <1>1, <1>3, Fewer DEF Paid
<1>5. Paid(O1, C1 \ S1, k)
  BY <1>1, <1>4 DEF Paid
<1>6. QED
  BY <1>2, <1>5 DEF Covered

\* One more claim.
LEMMA CoveredClaim ==
  ASSUME NEW O, NEW C, NEW U, NEW m \in Nat, Covered(O, C, U, m), NEW y,
         NEW C1, C1 \subseteq C \union {y}
  PROVE  Covered(O, C1, U, m + 1)
<1>1. PICK S : Gratis(S, C, U) /\ Paid(O, C \ S, m)
  BY DEF Covered
<1> DEFINE S1 == S \cap C1
<1>2. Gratis(S1, C1, U)
  BY <1>1 DEF Gratis
<1>3. C1 \ S1 \subseteq (C \ S) \union {y}
  OBVIOUS
<1>4. /\ IsFiniteSet(C1 \ S1) /\ Cardinality(C1 \ S1) <= Cardinality(C \ S) + 1
      /\ Cardinality(C1 \ S1) \in Nat /\ Cardinality(C \ S) \in Nat /\ Cardinality(O) \in Nat
  BY <1>1, <1>3, OneMore, FS_CardinalityType DEF Paid
<1>5. Paid(O, C1 \ S1, m + 1)
  BY <1>1, <1>4 DEF Paid
<1>6. QED
  BY <1>2, <1>5 DEF Covered

\* One more orphan.
LEMMA CoveredOrphan ==
  ASSUME NEW O, NEW C, NEW U, NEW m \in Nat, Covered(O, C, U, m), NEW y,
         NEW O1, O1 \subseteq O \union {y}
  PROVE  Covered(O1, C, U, m + 1)
<1>1. PICK S : Gratis(S, C, U) /\ Paid(O, C \ S, m)
  BY DEF Covered
<1>2. /\ IsFiniteSet(O1) /\ Cardinality(O1) <= Cardinality(O) + 1
      /\ Cardinality(O1) \in Nat /\ Cardinality(C \ S) \in Nat /\ Cardinality(O) \in Nat
  BY <1>1, OneMore, FS_CardinalityType DEF Paid
<1>3. Paid(O1, C \ S, m + 1)
  BY <1>1, <1>2 DEF Paid
<1>4. QED
  BY <1>1, <1>3 DEF Covered

\* One claim of an agent becomes another.
LEMMA CoveredSwap ==
  ASSUME NEW O, NEW C, NEW U, NEW m \in Nat, Covered(O, C, U, m), NEW x \in C, NEW y, x[2] = y[2],
         NEW C1, C1 \subseteq (C \ {x}) \union {y}
  PROVE  Covered(O, C1, U, m)
<1>1. PICK S : Gratis(S, C, U) /\ Paid(O, C \ S, m)
  BY DEF Covered
<1>2. CASE x \in S
  <2> DEFINE S1 == ((S \ {x}) \union {y}) \cap C1
  <2>1. Gratis(S1, C1, U)
    <3>1. \A c \in S \ {x} : c[2] # x[2]
      BY <1>1, <1>2 DEF Gratis
    <3>2. \A c \in S1 : c[2] \in U
      BY <1>1, <1>2 DEF Gratis
    <3>3. \A c, d \in S1 : c[2] = d[2] => c = d
      BY <1>1, <3>1 DEF Gratis
    <3>4. QED
      BY <3>2, <3>3 DEF Gratis
  <2>2. C1 \ S1 \subseteq C \ S
    OBVIOUS
  <2>3. /\ IsFiniteSet(C1 \ S1) /\ Cardinality(C1 \ S1) <= Cardinality(C \ S)
        /\ Cardinality(C1 \ S1) \in Nat /\ Cardinality(C \ S) \in Nat /\ Cardinality(O) \in Nat
    BY <1>1, <2>2, Fewer, FS_CardinalityType DEF Paid
  <2>4. Paid(O, C1 \ S1, m)
    BY <1>1, <2>3 DEF Paid
  <2>5. QED
    BY <2>1, <2>4 DEF Covered
<1>3. CASE x \notin S
  <2> DEFINE S1 == S \cap C1
  <2>1. Gratis(S1, C1, U)
    BY <1>1 DEF Gratis
  <2>2. C1 \ S1 \subseteq ((C \ S) \ {x}) \union {y} /\ x \in C \ S
    BY <1>3
  <2>3. /\ IsFiniteSet(C1 \ S1) /\ Cardinality(C1 \ S1) <= Cardinality(C \ S)
        /\ Cardinality(C1 \ S1) \in Nat /\ Cardinality(C \ S) \in Nat /\ Cardinality(O) \in Nat
    BY <1>1, <2>2, OneForOne, FS_CardinalityType DEF Paid
  <2>4. Paid(O, C1 \ S1, m)
    BY <1>1, <2>3 DEF Paid
  <2>5. QED
    BY <2>1, <2>4 DEF Covered
<1>4. QED
  BY <1>2, <1>3

\* A claim of an agent without a badge is met, and it has one.
LEMMA CoveredFirst ==
  ASSUME NEW O, NEW C, NEW U, NEW m \in Nat, Covered(O, C, U, m), NEW x \in C,
         NEW C1, C1 \subseteq C \ {x}
  PROVE  Covered(O, C1, U \ {x[2]}, m)
<1>1. PICK S : Gratis(S, C, U) /\ Paid(O, C \ S, m)
  BY DEF Covered
<1> DEFINE S1 == {c \in S \cap C1 : c[2] # x[2]}
<1>2. Gratis(S1, C1, U \ {x[2]})
  BY <1>1 DEF Gratis
<1>3. /\ IsFiniteSet(C1 \ S1) /\ Cardinality(C1 \ S1) <= Cardinality(C \ S)
      /\ Cardinality(C1 \ S1) \in Nat /\ Cardinality(C \ S) \in Nat /\ Cardinality(O) \in Nat
  <2>1. IsFiniteSet(C \ S) /\ IsFiniteSet(O) /\ Cardinality(O) \in Nat
    BY <1>1, FS_CardinalityType DEF Paid
  <2>2. CASE \E y \in S : y[2] = x[2] /\ y # x
    <3>1. PICK y \in S : y[2] = x[2] /\ y # x
      BY <2>2
    <3>2. \A c \in S : c[2] = x[2] => c = y
      BY <1>1, <3>1 DEF Gratis
    <3>3. x \in C \ S /\ C1 \ S1 \subseteq ((C \ S) \ {x}) \union {y}
      BY <3>1, <3>2
    <3> DEFINE H == C \ S
               T == C1 \ S1
    <3>4. IsFiniteSet(H) /\ x \in H /\ T \subseteq (H \ {x}) \union {y}
      BY <2>1, <3>3
    <3> HIDE DEF H, T
    <3>5. /\ IsFiniteSet(T) /\ Cardinality(T) <= Cardinality(H)
          /\ Cardinality(T) \in Nat /\ Cardinality(H) \in Nat
      BY <3>4, OneForOne
    <3>6. QED
      BY <2>1, <3>5 DEF H, T
  <2>3. CASE ~\E y \in S : y[2] = x[2] /\ y # x
    <3>1. C1 \ S1 \subseteq C \ S
      BY <2>3
    <3>2. QED
      BY <2>1, <3>1, Fewer
  <2>4. QED
    BY <2>2, <2>3
<1>4. Paid(O, C1 \ S1, m)
  BY <1>1, <1>3 DEF Paid
<1>5. QED
  BY <1>2, <1>4 DEF Covered

\* A claim of an agent with a badge is met, and its old pair is an orphan.
LEMMA CoveredAgain ==
  ASSUME NEW O, NEW C, NEW U, NEW m \in Nat, NEW C1, NEW O1, NEW x, NEW y,
         Covered(O, C, U, m), x \in C, x[2] \notin U, C1 \subseteq C \ {x}, O1 \subseteq O \union {y}
  PROVE  Covered(O1, C1, U, m)
<1>1. PICK S : Gratis(S, C, U) /\ Paid(O, C \ S, m)
  BY DEF Covered
<1> DEFINE S1 == S \cap C1
<1>2. Gratis(S1, C1, U)
  BY <1>1 DEF Gratis
<1>3. x \in C \ S /\ C1 \ S1 \subseteq (C \ S) \ {x}
  BY <1>1 DEF Gratis
<1>4. /\ IsFiniteSet(C1 \ S1) /\ Cardinality(C1 \ S1) + 1 <= Cardinality(C \ S)
      /\ Cardinality(C1 \ S1) \in Nat /\ Cardinality(C \ S) \in Nat
  BY <1>1, <1>3, OneLess DEF Paid
<1>5. /\ IsFiniteSet(O1) /\ Cardinality(O1) <= Cardinality(O) + 1
      /\ Cardinality(O1) \in Nat /\ Cardinality(O) \in Nat
  BY <1>1, OneMore DEF Paid
<1>6. Paid(O1, C1 \ S1, m)
  BY <1>1, <1>4, <1>5 DEF Paid
<1>7. QED
  BY <1>2, <1>6 DEF Covered

\* A claim that is free from the start.
LEMMA CoveredFree ==
  ASSUME NEW O, NEW C, NEW U, NEW m \in Nat, Covered(O, C, U, m), NEW y, y[2] \notin U,
         NEW C1, C1 \subseteq C \union {y}
  PROVE  Covered(O, C1, U \union {y[2]}, m)
<1>1. PICK S : Gratis(S, C, U) /\ Paid(O, C \ S, m)
  BY DEF Covered
<1> DEFINE S1 == (S \union {y}) \cap C1
<1>2. Gratis(S1, C1, U \union {y[2]})
  BY <1>1 DEF Gratis
<1>3. C1 \ S1 \subseteq C \ S
  OBVIOUS
<1>4. /\ IsFiniteSet(C1 \ S1) /\ Cardinality(C1 \ S1) <= Cardinality(C \ S)
      /\ Cardinality(C1 \ S1) \in Nat /\ Cardinality(C \ S) \in Nat /\ Cardinality(O) \in Nat
  BY <1>1, <1>3, Fewer, FS_CardinalityType DEF Paid
<1>5. Paid(O, C1 \ S1, m)
  BY <1>1, <1>4 DEF Paid
<1>6. QED
  BY <1>2, <1>5 DEF Covered


\* What a step does to the vault and the jobs.
LEMMA VaultSteps ==
  ASSUME TypeOK, Next
  PROVE  \E p \in Procs :
           \/ UNCHANGED <<vault, job, keys>>
           \/ (GenerateFails(p) \/ Record(p) \/ Crash(p)) /\ UNCHANGED <<vault, keys>>
              /\ ~Free(p) /\ job' = [job EXCEPT ![p] = Idle]
           \/ (\E a \in Agents : Claim(p, a)) /\ UNCHANGED <<vault, keys>>
           \/ Generate(p) \/ OpenManifest(p) \/ FillManifest(p)
<1>1. ASSUME NEW p \in Procs, GenerateFails(p) \/ Record(p) \/ Crash(p)
      PROVE  UNCHANGED <<vault, keys>> /\ ~Free(p) /\ job' = [job EXCEPT ![p] = Idle]
  BY <1>1 DEF GenerateFails, Record, Crash, hist, Free, Idle
<1>2. ASSUME NEW p \in Procs, NEW a \in Agents, Claim(p, a) PROVE UNCHANGED <<vault, keys>>
  BY <1>2 DEF Claim, Begins
<1>3. ASSUME NEW p \in Procs, Recruit(p) PROVE UNCHANGED <<vault, job, keys>>
  BY <1>3 DEF Recruit, Roll, Rechristen, Drop, Hire, Retire, Rename, hist
<1>4. ASSUME NEW p \in Procs, NEW a \in Agents, LookUp(p, a) \/ Refuse(p, a) \/ Backfill(p)
      PROVE  UNCHANGED <<vault, job, keys>>
  BY <1>4 DEF LookUp, Refuse, Backfill, hist
<1>5. ASSUME NEW p \in Procs, Backfill(p) PROVE UNCHANGED <<vault, job, keys>>
  BY <1>5 DEF Backfill, hist
<1>6. QED
  BY <1>1, <1>2, <1>3, <1>4, <1>5 DEF Next, Enroll

PairInv == KeysApart /\ DirInv /\ JobInv

LEMMA PairInit == Init => PairInv
<1> SUFFICES ASSUME Init PROVE PairInv
  OBVIOUS
<1>1. /\ \A d \in Dirs : vault[d].key = NoPair /\ vault[d].manifest.state = "none"
      /\ \A p \in Procs : Free(p)
      /\ keys = 0 /\ NoPair = 0
  BY DEF Init, NoManifest, Manifest, Free, NoPair
<1>2. QED
  BY <1>1 DEF PairInv, KeysApart, DirInv, JobInv, Dirs

\* Where a claim goes, and that it finds no key under the name it uses.
LEMMA ClaimsDir ==
  ASSUME TypeOK, DirInv, NEW a \in Agents, NEW n \in Names, vault[VaultDir(a, n)].key = NoPair
  PROVE  /\ \/ VaultDir(a, n) = <<n, Nobody>>
            \/ /\ VaultDir(a, n) = <<n, a>>
               /\ vault[<<n, Nobody>>].manifest.state # "none"
         /\ ~Issued(a, n)
<1> DEFINE m == vault[<<n, Nobody>>].manifest
<1>1. <<n, Nobody>> \in Dirs /\ <<n, a>> \in Dirs
  BY DEF Dirs
<1>2. m.state = "whole" => vault[<<n, Nobody>>].key # NoPair
  BY <1>1 DEF DirInv
<1>3. vault[<<n, a>>].key # NoPair => m.state # "none"
  BY DEF DirInv
<1>4. CASE m.state = "none" \/ (m.state = "whole" /\ m.agent = a)
  <2>1. VaultDir(a, n) = <<n, Nobody>>
    BY <1>4 DEF VaultDir
  <2>2. QED
    BY <1>2, <1>3, <1>4, <2>1 DEF Issued
<1>5. CASE ~(m.state = "none" \/ (m.state = "whole" /\ m.agent = a))
  <2>1. VaultDir(a, n) = <<n, a>>
    BY <1>5 DEF VaultDir
  <2>2. QED
    BY <1>5, <2>1 DEF Issued
<1>6. QED
  BY <1>4, <1>5

LEMMA PairStep ==
  ASSUME NobodyAssumption, TypeOK, BadgeInv, KeyInv, PairInv, [Next]_vars
  PROVE  PairInv'
<1>0. /\ job \in [Procs -> {Idle} \union Jobs] /\ vault \in [Dirs -> [key : Nat, manifest : Manifests]]
      /\ keys \in Nat /\ NoPair = 0 /\ Idle.step = "idle"
      /\ \A n \in Names : <<n, Nobody>> \in Dirs /\ \A a \in Agents : <<n, a>> \in Dirs
  BY DEF TypeOK, NoPair, Idle, Dirs
<1>1. CASE UNCHANGED <<vault, job, keys>>
  BY <1>1 DEF PairInv, KeysApart, DirInv, JobInv, Free
<1>2. ASSUME UNCHANGED <<vault, keys>> PROVE KeysApart' /\ DirInv'
  BY <1>2 DEF PairInv, KeysApart, DirInv
<1>3. ASSUME NEW p \in Procs, UNCHANGED <<vault, keys>>, job' = [job EXCEPT ![p] = Idle]
      PROVE  PairInv'
  <2>1. \A q \in Procs : ~Free(q)' => q # p /\ ~Free(q) /\ job'[q] = job[q]
    BY <1>0, <1>3 DEF Free
  <2>2. JobInv'
    BY <1>3, <2>1 DEF PairInv, JobInv
  <2>3. QED
    BY <1>2, <1>3, <2>2 DEF PairInv
<1>4. ASSUME NEW p \in Procs, NEW a \in Agents, Claim(p, a), UNCHANGED <<vault, keys>> PROVE PairInv'
  <2> DEFINE n == copies[p][a].name
             d == VaultDir(a, n)
             j == [step |-> "generate", agent |-> a, dir |-> d, key |-> NoPair]
  <2>1. a \in DOMAIN copies[p] /\ copies[p] \in Copies
    BY <1>4 DEF Claim, Begins, TypeOK
  <2>2. n \in Names
    BY <2>1 DEF Copies, Records
  <2>3. vault[d].key = NoPair /\ job' = [job EXCEPT ![p] = j]
    BY <1>4 DEF Claim
  <2>4. \/ d = <<n, Nobody>>
        \/ d = <<n, a>> /\ vault[<<n, Nobody>>].manifest.state # "none"
    BY <2>2, <2>3, ClaimsDir DEF PairInv
  <2>5. j.step = "generate" /\ j.key = NoPair /\ j.dir = d /\ j.agent = a
    OBVIOUS
  <2> HIDE DEF j, d, n
  <2>6. job'[p] = j /\ \A q \in Procs \ {p} : job'[q] = job[q]
    BY <1>0, <2>3
  <2>7. JobInv'
    BY <1>4, <2>2, <2>4, <2>5, <2>6 DEF PairInv, JobInv, Free
  <2>8. QED
    BY <1>2, <1>4, <2>7 DEF PairInv
<1>5. ASSUME NEW p \in Procs, Generate(p) PROVE PairInv'
  <2> DEFINE d == job[p].dir
  <2>1. /\ d \in Dirs /\ vault[d].key = NoPair /\ keys' = keys + 1 /\ ~Free(p)
        /\ vault' = [vault EXCEPT ![d].key = keys']
        /\ job' = [job EXCEPT ![p].step = "manifest", ![p].key = keys']
    BY <1>5, JobShape DEF Generate, Jobs, TypeOK, Free, Idle
  <2>2. /\ job'[p].step = "manifest" /\ job'[p].dir = d /\ job'[p].agent = job[p].agent
        /\ \A q \in Procs \ {p} : job'[q] = job[q]
    BY <1>5, <2>1, JobShape DEF Generate, Jobs, TypeOK
  <2>3. /\ vault'[d].key = keys' /\ vault'[d].manifest = vault[d].manifest
        /\ \A x \in Dirs \ {d} : vault'[x] = vault[x]
        /\ \A x \in Dirs : vault[x].key \in Nat /\ vault'[x].manifest = vault[x].manifest
    BY <1>0, <2>1
  <2>4. vault[d].manifest.state # "whole"
    BY <2>1 DEF PairInv, DirInv
  <2>5. \/ \E n \in Names : d = <<n, Nobody>>
        \/ \E n \in Names : d = <<n, job[p].agent>> /\ vault[<<n, Nobody>>].manifest.state # "none"
    BY <2>1 DEF PairInv, JobInv
  <2> HIDE DEF d
  <2>6. KeysApart'
    <3>1. \A x \in Dirs : vault[x].key <= keys
      BY DEF PairInv, KeysApart
    <3>2. \A x \in Dirs : vault'[x].key <= keys'
      BY <1>0, <2>1, <2>3, <3>1
    <3>3. ASSUME NEW x \in Dirs, NEW y \in Dirs, vault'[x].key = vault'[y].key, vault'[x].key # NoPair
          PROVE  x = y
      <4>1. \A u \in Dirs \ {d} : vault'[u].key # keys'
        BY <1>0, <2>1, <2>3, <3>1
      <4>2. CASE x = d \/ y = d
        BY <2>3, <3>3, <4>1, <4>2
      <4>3. CASE x # d /\ y # d
        BY <2>3, <3>3, <4>3 DEF PairInv, KeysApart
      <4>4. QED
        BY <4>2, <4>3
    <3>4. QED
      BY <3>2, <3>3 DEF KeysApart
  <2>7. DirInv'
    <3>1. \A x \in Dirs : vault'[x].manifest.state = "whole" => vault'[x].key # NoPair
      BY <2>3, <2>4 DEF PairInv, DirInv
    <3>2. ASSUME NEW n \in Names, NEW a \in Agents, vault'[<<n, a>>].key # NoPair
          PROVE  vault'[<<n, Nobody>>].manifest.state # "none"
      <4>1. <<n, a>> \in Dirs /\ <<n, Nobody>> \in Dirs
        BY <1>0
      <4>2. CASE <<n, a>> # d
        BY <2>3, <3>2, <4>1, <4>2 DEF PairInv, DirInv
      <4>3. CASE <<n, a>> = d
        <5>1. a # Nobody
          BY DEF NobodyAssumption
        <5>2. vault[<<n, Nobody>>].manifest.state # "none"
          BY <2>5, <4>3, <5>1
        <5>3. QED
          BY <2>3, <4>1, <5>2
      <4>4. QED
        BY <4>2, <4>3
    <3>3. QED
      BY <3>1, <3>2 DEF DirInv
  <2>8. JobInv'
    <3> SUFFICES ASSUME NEW q \in Procs, ~Free(q)'
                 PROVE  /\ job'[q].step = "generate" => job'[q].key = NoPair
                        /\ job'[q].step \in {"manifest", "fill"} => vault'[job'[q].dir].manifest.state # "whole"
                        /\ \E n \in Names : \/ job'[q].dir = <<n, Nobody>>
                                            \/ /\ job'[q].dir = <<n, job'[q].agent>>
                                               /\ vault'[<<n, Nobody>>].manifest.state # "none"
      BY DEF JobInv
    <3>1. CASE q = p
      BY <1>0, <2>2, <2>3, <2>4, <2>5, <3>1 DEF d
    <3>2. CASE q # p
      <4>1. job'[q] = job[q] /\ ~Free(q) /\ job[q] \in Jobs
        BY <2>2, <3>2, JobShape DEF Free
      <4>2. job[q].dir \in Dirs
        BY <4>1 DEF Jobs
      <4>3. vault'[job[q].dir].manifest = vault[job[q].dir].manifest
        BY <2>3, <4>2
      <4>4. \A n \in Names : vault'[<<n, Nobody>>].manifest = vault[<<n, Nobody>>].manifest
        BY <1>0, <2>3
      <4>5. QED
        BY <4>1, <4>3, <4>4 DEF PairInv, JobInv
    <3>3. QED
      BY <3>1, <3>2
  <2>9. QED
    BY <2>6, <2>7, <2>8 DEF PairInv
<1>6. ASSUME NEW p \in Procs, OpenManifest(p) \/ FillManifest(p) PROVE PairInv'
  <2> DEFINE d == job[p].dir
  <2>1. job[p] \in Jobs /\ d \in Dirs /\ HasPair(p) /\ ~Free(p) /\ keys' = keys
    BY <1>6, JobShape DEF OpenManifest, FillManifest, Jobs, HasPair, Free, Idle, hist
  <2>2. PICK m : vault' = [vault EXCEPT ![d].manifest = m]
                 /\ \/ m.state = "torn" /\ job'[p].step = "fill"
                    \/ m.state = "whole" /\ job'[p].step = "record"
    <3>1. CASE OpenManifest(p)
      <4>1. Manifest("torn", Nobody, NoPair).state = "torn" /\ job'[p].step = "fill"
        BY <1>0, <2>1, <3>1 DEF Manifest, OpenManifest, Jobs
      <4>2. QED
        BY <3>1, <4>1 DEF OpenManifest
    <3>2. CASE FillManifest(p)
      <4>1. Manifest("whole", job[p].agent, job[p].key).state = "whole" /\ job'[p].step = "record"
        BY <1>0, <2>1, <3>2 DEF Manifest, FillManifest, Jobs
      <4>2. QED
        BY <3>2, <4>1 DEF FillManifest
    <3>3. QED
      BY <1>6, <3>1, <3>2
  <2>3. /\ vault'[d].key = vault[d].key /\ vault'[d].manifest = m
        /\ \A x \in Dirs \ {d} : vault'[x] = vault[x]
        /\ \A x \in Dirs : vault'[x].key = vault[x].key
    BY <1>0, <2>1, <2>2
  <2>4. /\ \A q \in Procs \ {p} : job'[q] = job[q]
        /\ job'[p].dir = d /\ job'[p].agent = job[p].agent
    BY <1>0, <1>6, <2>1 DEF OpenManifest, FillManifest, Jobs
  <2>5. \A q \in Procs \ {p} : HasPair(q) => job[q].dir # d
    BY <2>1 DEF BadgeInv, PairsApart
  <2>6. vault[d].key # NoPair
    BY <2>1 DEF BadgeInv, PairsHeld
  <2> HIDE DEF d
  <2>7. KeysApart'
    BY <2>1, <2>3 DEF PairInv, KeysApart
  <2>8. \A x \in Dirs : vault[x].manifest.state # "none" => vault'[x].manifest.state # "none"
    BY <2>2, <2>3
  <2>9. DirInv'
    <3>1. \A x \in Dirs : vault'[x].manifest.state = "whole" => vault'[x].key # NoPair
      BY <2>3, <2>6 DEF PairInv, DirInv
    <3>2. \A n \in Names, a \in Agents :
             vault'[<<n, a>>].key # NoPair => vault'[<<n, Nobody>>].manifest.state # "none"
      BY <1>0, <2>3, <2>8 DEF PairInv, DirInv
    <3>3. QED
      BY <3>1, <3>2 DEF DirInv
  <2>10. JobInv'
    <3> SUFFICES ASSUME NEW q \in Procs, ~Free(q)'
                 PROVE  /\ job'[q].step = "generate" => job'[q].key = NoPair
                        /\ job'[q].step \in {"manifest", "fill"} => vault'[job'[q].dir].manifest.state # "whole"
                        /\ \E n \in Names : \/ job'[q].dir = <<n, Nobody>>
                                            \/ /\ job'[q].dir = <<n, job'[q].agent>>
                                               /\ vault'[<<n, Nobody>>].manifest.state # "none"
      BY DEF JobInv
    <3>1. \E n \in Names : \/ job[q].dir = <<n, Nobody>>
                           \/ /\ job[q].dir = <<n, job[q].agent>>
                              /\ vault'[<<n, Nobody>>].manifest.state # "none"
      <4>1. ~Free(q)
        BY <2>1, <2>4 DEF Free
      <4>2. QED
        BY <1>0, <2>8, <4>1 DEF PairInv, JobInv
    <3>2. CASE q = p
      BY <2>2, <2>3, <2>4, <3>1, <3>2 DEF d
    <3>3. CASE q # p
      <4>1. job'[q] = job[q] /\ ~Free(q) /\ job[q] \in Jobs
        BY <2>4, <3>3, JobShape DEF Free
      <4>2. HasPair(q) => vault'[job[q].dir] = vault[job[q].dir]
        BY <2>3, <2>5, <3>3, <4>1 DEF Jobs
      <4>3. QED
        BY <3>1, <4>1, <4>2 DEF PairInv, JobInv, HasPair
    <3>4. QED
      BY <3>2, <3>3
  <2>11. QED
    BY <2>7, <2>9, <2>10 DEF PairInv
<1>7. QED
  BY <1>1, <1>3, <1>4, <1>5, <1>6, VaultSteps DEF vars, hist


LEMMA OrphanInit == Init => OrphanInv
<1> SUFFICES ASSUME Init PROVE OrphanInv
  OBVIOUS
<1>1. /\ Hired = {} /\ \A p \in Procs : Free(p) /\ DOMAIN copies[p] = {}
      /\ \A d \in Dirs : vault[d].key = NoPair
      /\ crashes + renames + contests = 0
  BY DEF Init, Hired, Free, NoCopies, NoManifest, Manifest
<1>2. \A a, n : ~Known(a, n)
  BY <1>1 DEF Known
<1>3. Orphans = {} /\ Claims = {}
  BY <1>1, <1>2 DEF Orphans, Claims, NameClaims, JobClaims
<1>4. Gratis({}, Claims, Badgeless) /\ Paid(Orphans, Claims \ {}, 0)
  <2>1. IsFiniteSet({}) /\ Cardinality({}) = 0
    BY FS_EmptySet
  <2>2. Paid({}, {}, 0)
    BY <2>1 DEF Paid
  <2>3. Gratis({}, {}, Badgeless) /\ {} \ {} = {}
    BY DEF Gratis
  <2>4. QED
    BY <1>3, <2>2, <2>3
<1>5. QED
  BY <1>1, <1>4 DEF OrphanInv, Covered

\* A step of which each name claim was one, or is the new one.
LEMMA NamesGo ==
  ASSUME NEW y,
         \A a \in Agents, n \in Names :
           (Known(a, n) /\ ~Spent(a, n))' => (Known(a, n) /\ ~Spent(a, n)) \/ <<"name", a, n>> = y
  PROVE  NameClaims' \subseteq NameClaims \union {y}
<1> SUFFICES ASSUME NEW c, c \in NameClaims' PROVE c \in NameClaims \/ c = y
  OBVIOUS
<1>1. PICK a \in Agents, n \in Names : c = <<"name", a, n>>
  BY DEF NameClaims
<1>2. (Known(a, n) /\ ~Spent(a, n))'
  BY <1>1 DEF NameClaims
<1>3. QED
  BY <1>1, <1>2 DEF NameClaims


\* The vault, the jobs and the badges stay.
LEMMA OrphansStay ==
  ASSUME UNCHANGED <<vault, job>>, Hired \subseteq Hired',
         \A a \in Hired : records'[a].key = records[a].key
  PROVE  /\ Orphans' \subseteq Orphans /\ JobClaims' = JobClaims
         /\ \A a \in Agents, n \in Names : Spent(a, n)' <=> Spent(a, n)
<1>1. Orphans' \subseteq Orphans
  BY DEF Orphans, Free
<1>2. JobClaims' = JobClaims
  BY DEF JobClaims, Free
<1>3. \A a \in Agents, n \in Names : Spent(a, n)' <=> Spent(a, n)
  BY DEF Spent, Issued, WorksOn, Free
<1>4. QED
  BY <1>1, <1>2, <1>3

Budget == crashes + renames + contests

LEMMA BudgetIs == ASSUME TypeOK PROVE Budget \in Nat
  BY DEF TypeOK, Budget

\* What a process only looks up, or drops.
LEMMA OrphanLooks ==
  ASSUME TypeOK, TypeOK', OrphanInv, UNCHANGED <<vault, job, crashes, renames, contests>>,
         Hired' = Hired, \A a \in Hired : records'[a].key = records[a].key /\ records'[a].name = records[a].name,
         NEW p \in Procs, \A q \in Procs \ {p} : copies'[q] = copies[q],
         \/ copies'[p] = copies[p]
         \/ \A a \in DOMAIN copies'[p] : a \in Hired /\ copies'[p][a] = records[a]
  PROVE  OrphanInv'
<1>1. Badgeless' = Badgeless
  BY DEF Badgeless, Enrolled
<1>2. ASSUME NEW a \in Agents, NEW n \in Names, Known(a, n)' PROVE Known(a, n)
  <2>1. CASE a \in Hired' /\ ~Enrolled(records'[a]) /\ records'[a].name = n
    BY <2>1 DEF Known, Enrolled
  <2>2. CASE \E q \in Procs : a \in DOMAIN copies'[q] /\ ~Enrolled(copies'[q][a]) /\ copies'[q][a].name = n
    <3>1. PICK q \in Procs : a \in DOMAIN copies'[q] /\ ~Enrolled(copies'[q][a]) /\ copies'[q][a].name = n
      BY <2>2
    <3>2. CASE copies'[q] = copies[q]
      BY <3>1, <3>2 DEF Known
    <3>3. CASE a \in Hired /\ copies'[q][a] = records[a]
      BY <3>1, <3>3 DEF Known
    <3>4. QED
      BY <3>1, <3>2, <3>3
  <2>3. QED
    BY <1>2, <2>1, <2>2 DEF Known
<1>3. Claims' \subseteq Claims /\ Orphans' \subseteq Orphans
  <2>1. NameClaims' \subseteq NameClaims
    BY <1>2, OrphansStay DEF NameClaims
  <2>2. QED
    BY <2>1, OrphansStay DEF Claims
<1>4. Budget' = Budget /\ Budget \in Nat
  BY BudgetIs DEF Budget
<1>5. QED
  BY <1>1, <1>3, <1>4, CoveredFewer DEF OrphanInv, Budget

LEMMA OrphanRenames ==
  ASSUME TypeOK, TypeOK', OrphanInv, NEW p \in Procs, NEW a \in Agents, NEW n \in Names, Rename(p, a, n)
  PROVE  OrphanInv'
<1>1. /\ a \in Hired /\ records' = [records EXCEPT ![a].name = n] /\ renames' = renames + 1
      /\ copies' = [copies EXCEPT ![p] = [x \in {a} |-> records'[a]]]
      /\ UNCHANGED <<vault, job, crashes, contests>>
  BY DEF Rename, Active
<1>2. /\ Hired' = Hired /\ \A b \in Hired : records'[b].key = records[b].key
      /\ records'[a].name = n /\ \A b \in Hired \ {a} : records'[b] = records[b]
  BY <1>1 DEF TypeOK, Records, Hired
<1>3. Badgeless' = Badgeless
  BY <1>2 DEF Badgeless, Enrolled
<1>4. /\ copies'[p] = [x \in {a} |-> records'[a]] /\ \A q \in Procs \ {p} : copies'[q] = copies[q]
  BY <1>1 DEF TypeOK
<1>5. ASSUME NEW b \in Agents, NEW m \in Names, Known(b, m)' PROVE Known(b, m) \/ (b = a /\ m = n)
  <2>1. CASE b \in Hired' /\ ~Enrolled(records'[b]) /\ records'[b].name = m
    BY <1>2, <2>1 DEF Known, Enrolled
  <2>2. CASE \E q \in Procs : b \in DOMAIN copies'[q] /\ ~Enrolled(copies'[q][b]) /\ copies'[q][b].name = m
    BY <1>2, <1>4, <2>2 DEF Known
  <2>3. QED
    BY <1>5, <2>1, <2>2 DEF Known
<1>6. Claims' \subseteq Claims \union {<<"name", a, n>>} /\ Orphans' \subseteq Orphans
  <2>1. Orphans' \subseteq Orphans /\ JobClaims' = JobClaims
        /\ \A b \in Agents, m \in Names : Spent(b, m)' <=> Spent(b, m)
    BY <1>1, <1>2, OrphansStay
  <2>2. NameClaims' \subseteq NameClaims \union {<<"name", a, n>>}
    BY <1>5, <2>1, NamesGo
  <2>3. QED
    BY <2>1, <2>2 DEF Claims
<1>7. Budget' = Budget + 1 /\ Budget \in Nat /\ Budget' \in Nat
  BY <1>1, BudgetIs DEF Budget, TypeOK
<1>8. Covered(Orphans, Claims', Badgeless, Budget')
  BY <1>6, <1>7, CoveredClaim DEF OrphanInv, Budget
<1>9. QED
  BY <1>3, <1>6, <1>7, <1>8, CoveredFewer DEF OrphanInv, Budget

LEMMA OrphanHires ==
  ASSUME TypeOK, TypeOK', OrphanInv, NEW p \in Procs, NEW a \in Agents, Hire(p, a)
  PROVE  OrphanInv'
<1> DEFINE n == candidate[p].name
           r == [name |-> n, tag |-> candidate[p].tag, key |-> NoPair, dir |-> <<n, Nobody>>, retired |-> FALSE]
<1>1. /\ a \notin Hired
      /\ records' = [x \in Hired \union {a} |-> IF x = a THEN r ELSE records[x]]
      /\ copies' = [copies EXCEPT ![p] = [x \in {a} |-> r]]
      /\ UNCHANGED <<vault, job, crashes, renames, contests>>
  BY DEF Hire
<1>2. ~Enrolled(r) /\ r.name = n
  BY DEF Enrolled
<1> HIDE DEF r
<1>3. /\ Hired' = Hired \union {a} /\ records'[a] = r /\ \A b \in Hired : records'[b] = records[b]
  BY <1>1 DEF Hired
<1>4. Badgeless' = Badgeless \union {a} /\ a \notin Badgeless
  BY <1>1, <1>2, <1>3 DEF Badgeless
<1>5. copies'[p] = [x \in {a} |-> r] /\ \A q \in Procs \ {p} : copies'[q] = copies[q]
  BY <1>1 DEF TypeOK
<1>6. ASSUME NEW b \in Agents, NEW m \in Names, Known(b, m)' PROVE Known(b, m) \/ (b = a /\ m = n)
  <2>1. CASE b \in Hired' /\ ~Enrolled(records'[b]) /\ records'[b].name = m
    BY <1>2, <1>3, <2>1 DEF Known
  <2>2. CASE \E q \in Procs : b \in DOMAIN copies'[q] /\ ~Enrolled(copies'[q][b]) /\ copies'[q][b].name = m
    BY <1>2, <1>5, <2>2 DEF Known
  <2>3. QED
    BY <1>6, <2>1, <2>2 DEF Known
<1> DEFINE y == <<"name", a, n>>
<1>7. Claims' \subseteq Claims \union {y} /\ Orphans' \subseteq Orphans
  <2>1. Orphans' \subseteq Orphans /\ JobClaims' = JobClaims
        /\ \A b \in Agents, m \in Names : Spent(b, m)' <=> Spent(b, m)
    BY <1>1, <1>3, OrphansStay
  <2>2. NameClaims' \subseteq NameClaims \union {y}
    BY <1>6, <2>1, NamesGo
  <2>3. QED
    BY <2>1, <2>2 DEF Claims
<1>8. Budget' = Budget /\ Budget \in Nat /\ y[2] = a
  BY <1>1, BudgetIs DEF Budget
<1> HIDE DEF y
<1>9. Covered(Orphans, Claims', Badgeless', Budget)
  BY <1>4, <1>7, <1>8, CoveredFree DEF OrphanInv, Budget
<1>10. QED
  BY <1>7, <1>8, <1>9, CoveredFewer DEF OrphanInv, Budget

\* Steps of an enrollment that leave its agent and directory.
LEMMA OrphanWorks ==
  ASSUME TypeOK, TypeOK', OrphanInv, UNCHANGED <<records, copies, crashes, renames, contests>>,
         \A q \in Procs : /\ Free(q)' <=> Free(q)
                          /\ ~Free(q) => job'[q].agent = job[q].agent /\ job'[q].dir = job[q].dir,
         \A a \in Agents, n \in Names : Issued(a, n) => Issued(a, n)',
         Orphans' \subseteq Orphans
  PROVE  OrphanInv'
<1>1. \A a \in Agents, n \in Names : (Known(a, n)' <=> Known(a, n)) /\ (Spent(a, n) => Spent(a, n)')
  <2>1. \A a \in Agents, n \in Names : Known(a, n)' <=> Known(a, n)
    BY DEF Known, Hired
  <2>2. \A a \in Agents, n \in Names : (\E q \in Procs : WorksOn(q, a, n)) => (\E q \in Procs : WorksOn(q, a, n))'
    BY DEF WorksOn
  <2>3. QED
    BY <2>1, <2>2 DEF Spent
<1>2. NameClaims' \subseteq NameClaims
  BY <1>1 DEF NameClaims
<1>3. JobClaims' \subseteq JobClaims
  BY DEF JobClaims
<1>4. Badgeless' = Badgeless /\ Budget' = Budget /\ Budget \in Nat
  BY BudgetIs DEF Badgeless, Hired, Budget
<1>5. QED
  BY <1>2, <1>3, <1>4, CoveredFewer DEF OrphanInv, Budget, Claims


LEMMA OrphanClaims ==
  ASSUME TypeOK, TypeOK', PairInv, OrphanInv, NEW p \in Procs, NEW a \in Agents, Claim(p, a)
  PROVE  OrphanInv'
<1> DEFINE n == copies[p][a].name
           d == VaultDir(a, n)
           j == [step |-> "generate", agent |-> a, dir |-> d, key |-> NoPair]
           others == {q \in Procs \ {p} : ~Free(q) /\ job[q].agent = a}
           x == <<"name", a, n>>
           y == <<"job", a, p>>
<1>1. /\ a \in DOMAIN copies[p] /\ ~Enrolled(copies[p][a]) /\ Free(p) /\ copies[p] \in Copies
      /\ vault[d].key = NoPair /\ job' = [job EXCEPT ![p] = j]
      /\ contests' = IF others # {} THEN contests + 1 ELSE contests
      /\ UNCHANGED <<records, vault, copies, crashes, renames>>
  BY DEF Claim, Begins, TypeOK
<1>2. n \in Names /\ Known(a, n)
  BY <1>1 DEF Copies, Records, Known
<1>3. (d = <<n, Nobody>> \/ d = <<n, a>>) /\ ~Issued(a, n)
  BY <1>1, <1>2, ClaimsDir DEF PairInv
<1>4. j.agent = a /\ j.dir = d /\ j.dir[1] = n /\ j.key = NoPair /\ j # Idle
  BY <1>3 DEF Idle
<1> HIDE DEF j, d, n
<1>5. job'[p] = j /\ \A q \in Procs \ {p} : job'[q] = job[q]
  BY <1>1 DEF TypeOK
<1>6. \A b \in Agents, m \in Names : /\ Known(b, m)' <=> Known(b, m)
                                     /\ Spent(b, m) => Spent(b, m)'
  <2>1. \A b \in Agents, m \in Names : Known(b, m)' <=> Known(b, m)
    BY <1>1 DEF Known, Hired
  <2>2. \A b \in Agents, m \in Names : Issued(b, m)' <=> Issued(b, m)
    BY <1>1 DEF Issued
  <2>3. \A b \in Agents, m \in Names, q \in Procs : WorksOn(q, b, m) => WorksOn(q, b, m)'
    BY <1>1, <1>5 DEF WorksOn, Free
  <2>4. QED
    BY <2>1, <2>2, <2>3 DEF Spent
<1>7. \A m \in Names : m = n => Spent(a, m)'
  <2>1. \A m \in Names : m = n => WorksOn(p, a, m)'
    BY <1>4, <1>5 DEF WorksOn, Free
  <2>2. QED
    BY <2>1 DEF Spent
<1>8. NameClaims' \subseteq NameClaims \ {x}
  <2>1. ASSUME NEW c, c \in NameClaims' PROVE c \in NameClaims /\ c # x
    <3>1. PICK b \in Agents, m \in Names : c = <<"name", b, m>>
      BY <2>1 DEF NameClaims
    <3>2. (Known(b, m) /\ ~Spent(b, m))'
      BY <2>1, <3>1 DEF NameClaims
    <3>3. ~(b = a /\ m = n)
      BY <1>7, <3>2
    <3>4. Known(b, m) /\ ~Spent(b, m)
      BY <1>6, <3>2
    <3>5. QED
      BY <3>1, <3>3, <3>4 DEF NameClaims
  <2>2. QED
    BY <2>1
<1>9. JobClaims' \subseteq JobClaims \union {y}
  BY <1>4, <1>5 DEF JobClaims, Free
<1>10. Orphans' \subseteq Orphans /\ Badgeless' = Badgeless
  <2>1. Badgeless' = Badgeless
    BY <1>1 DEF Badgeless, Hired
  <2>2. \A q \in Procs : ~Free(q) => ~Free(q)' /\ job'[q].key = job[q].key
    BY <1>1, <1>5 DEF Free
  <2>3. QED
    BY <1>1, <2>1, <2>2 DEF Orphans, Hired
<1>11. Budget \in Nat
  BY BudgetIs
<1>12. CASE others # {}
  <2>1. Budget' = Budget + 1
    BY <1>1, <1>12 DEF Budget, TypeOK
  <2> Budget' \in Nat
    BY <1>11, <2>1
  <2>2. Claims' \subseteq Claims \union {y}
    BY <1>8, <1>9 DEF Claims
  <2>3. Covered(Orphans, Claims', Badgeless, Budget')
    BY <1>11, <2>1, <2>2, CoveredClaim DEF OrphanInv, Budget
  <2>4. QED
    BY <1>10, <1>11, <2>3, CoveredFewer DEF OrphanInv, Budget
<1>13. CASE others = {}
  <2>1. Budget' = Budget
    BY <1>1, <1>13 DEF Budget
  <2>2. ~Spent(a, n)
    BY <1>1, <1>3, <1>13 DEF Spent, WorksOn
  <2>3. x \in NameClaims
    BY <1>2, <2>2 DEF NameClaims
  <2>4. x \notin JobClaims /\ x[2] = y[2]
    BY DEF JobClaims
  <2>5. x \in Claims /\ Claims' \subseteq (Claims \ {x}) \union {y}
    BY <1>8, <1>9, <2>3, <2>4 DEF Claims
  <2> HIDE DEF x, y
  <2>6. Covered(Orphans, Claims', Badgeless, Budget)
    BY <1>11, <2>4, <2>5, CoveredSwap DEF OrphanInv, Budget
  <2>7. QED
    BY <1>10, <1>11, <2>1, <2>6, CoveredFewer DEF OrphanInv, Budget
<1>14. QED
  BY <1>12, <1>13

\* A job that ends leaves at most the name it worked under, and its pair.
LEMMA JobEnds ==
  ASSUME TypeOK, PairInv, NEW p \in Procs, ~Free(p), job' = [job EXCEPT ![p] = Idle],
         vault' = vault,
         \A a \in Agents, n \in Names : Known(a, n)' => Known(a, n)
  PROVE  /\ <<"job", job[p].agent, p>> \in Claims
         /\ Claims' \subseteq (Claims \ {<<"job", job[p].agent, p>>})
                                \union {<<"name", job[p].agent, job[p].dir[1]>>}
         /\ Issued(job[p].agent, job[p].dir[1]) => Claims' \subseteq Claims \ {<<"job", job[p].agent, p>>}
<1> DEFINE a == job[p].agent
           n == job[p].dir[1]
           x == <<"job", a, p>>
           y == <<"name", a, n>>
<1>1. job'[p] = Idle /\ \A q \in Procs \ {p} : job'[q] = job[q]
  BY DEF TypeOK
<1>2. a \in Agents
  BY JobShape DEF Jobs
<1>3. x \in JobClaims
  BY <1>2 DEF JobClaims
<1>4. JobClaims' \subseteq JobClaims \ {x}
  BY <1>1 DEF JobClaims, Free
<1>5. \A b \in Agents, m \in Names : Issued(b, m)' <=> Issued(b, m)
  BY DEF Issued
<1>6. \A b \in Agents, m \in Names : Spent(b, m) => Spent(b, m)' \/ (b = a /\ m = n)
  <2>1. \A b \in Agents, m \in Names, q \in Procs :
           WorksOn(q, b, m) => WorksOn(q, b, m)' \/ (b = a /\ m = n)
    BY <1>1 DEF WorksOn, Free
  <2>2. QED
    BY <1>5, <2>1 DEF Spent
<1>7. NameClaims' \subseteq NameClaims \union {y}
  BY <1>6, NamesGo
<1>8. Issued(a, n) => NameClaims' \subseteq NameClaims
  <2>1. ASSUME Issued(a, n), NEW c, c \in NameClaims' PROVE c \in NameClaims
    <3>1. PICK b \in Agents, m \in Names : c = <<"name", b, m>>
      BY <2>1 DEF NameClaims
    <3>2. (Known(b, m) /\ ~Spent(b, m))'
      BY <2>1, <3>1 DEF NameClaims
    <3>3. ~(b = a /\ m = n)
      <4>1. ~Issued(b, m)'
        BY <3>2 DEF Spent
      <4>2. QED
        BY <1>5, <2>1, <4>1
    <3>4. QED
      BY <1>6, <3>1, <3>2, <3>3 DEF NameClaims
  <2>2. QED
    BY <2>1
<1>9. x \notin NameClaims /\ x # y
  BY DEF NameClaims
<1> HIDE DEF x, y, a, n
<1>10. /\ x \in Claims /\ Claims' \subseteq (Claims \ {x}) \union {y}
       /\ Issued(a, n) => Claims' \subseteq Claims \ {x}
  BY <1>3, <1>4, <1>7, <1>8, <1>9 DEF Claims
<1>11. QED
  BY <1>10 DEF x, y, a, n

LEMMA OrphanFails ==
  ASSUME TypeOK, TypeOK', BadgeInv, PairInv, OrphanInv, NEW p \in Procs, GenerateFails(p) \/ Crash(p)
  PROVE  OrphanInv'
<1> DEFINE x == <<"job", job[p].agent, p>>
           y == <<"name", job[p].agent, job[p].dir[1]>>
<1>1. /\ ~Free(p) /\ job' = [job EXCEPT ![p] = Idle] /\ vault' = vault /\ records' = records
      /\ copies' = [copies EXCEPT ![p] = NoCopies]
      /\ UNCHANGED <<renames, contests>>
      /\ \/ crashes' = crashes + 1
         \/ crashes' = crashes /\ job[p].step = "generate"
  BY DEF GenerateFails, Crash, hist, Free, Idle
<1>2. \A b \in Agents, m \in Names : Known(b, m)' => Known(b, m)
  <2>1. DOMAIN copies'[p] = {} /\ \A q \in Procs \ {p} : copies'[q] = copies[q]
    BY <1>1 DEF TypeOK, NoCopies
  <2>2. QED
    BY <1>1, <2>1 DEF Known, Hired
<1>3. x \in Claims /\ Claims' \subseteq (Claims \ {x}) \union {y} /\ x[2] = y[2]
  BY <1>1, <1>2, JobEnds
<1>4. Badgeless' = Badgeless /\ Hired' = Hired
  BY <1>1 DEF Badgeless, Hired
<1>5. job'[p] = Idle /\ \A q \in Procs \ {p} : job'[q] = job[q]
  BY <1>1 DEF TypeOK
<1>6. ASSUME NEW d \in Orphans', d \notin Orphans PROVE d = job[p].dir /\ job[p].step # "generate"
  <2>1. /\ d \in Dirs /\ vault[d].key # NoPair /\ \A a \in Hired : records[a].key # vault[d].key
        /\ \A q \in Procs \ {p} : ~Free(q) => job[q].key # vault[d].key
    BY <1>1, <1>4, <1>5, <1>6 DEF Orphans, Free
  <2>2. job[p].key = vault[d].key
    BY <1>6, <2>1 DEF Orphans
  <2>3. job[p].step # "generate" /\ HasPair(p) /\ job[p].dir \in Dirs
    BY <1>1, <2>1, <2>2, JobShape DEF PairInv, JobInv, Jobs, HasPair
  <2>4. vault[job[p].dir].key = vault[d].key
    BY <2>2, <2>3 DEF BadgeInv, PairsHeld
  <2>5. QED
    BY <2>1, <2>3, <2>4 DEF PairInv, KeysApart
<1> HIDE DEF x, y
<1>7. Budget \in Nat
  BY BudgetIs
<1>8. Covered(Orphans, Claims', Badgeless, Budget)
  BY <1>3, <1>7, CoveredSwap DEF OrphanInv, Budget
<1>9. CASE crashes' = crashes + 1
  <2>1. Budget' = Budget + 1
    BY <1>1, <1>9 DEF Budget, TypeOK
  <2> Budget' \in Nat
    BY <1>7, <2>1
  <2>2. Orphans' \subseteq Orphans \union {job[p].dir}
    BY <1>6
  <2>3. Covered(Orphans', Claims', Badgeless, Budget')
    BY <1>7, <1>8, <2>1, <2>2, CoveredOrphan
  <2>4. QED
    BY <1>4, <2>3 DEF OrphanInv, Budget
<1>10. CASE crashes' = crashes /\ job[p].step = "generate"
  <2>1. Budget' = Budget /\ Orphans' \subseteq Orphans
    BY <1>1, <1>6, <1>10 DEF Budget
  <2>2. QED
    BY <1>4, <1>7, <1>8, <2>1, CoveredFewer DEF OrphanInv, Budget
<1>11. QED
  BY <1>1, <1>9, <1>10

LEMMA OrphanRecords ==
  ASSUME TypeOK, TypeOK', BadgeInv, KeyInv, PairInv, OrphanInv, NEW p \in Procs, Record(p)
  PROVE  OrphanInv'
<1> DEFINE j == job[p]
           a == j.agent
           x == <<"job", a, p>>
<1>1. /\ j \in Jobs /\ ~Free(p) /\ HasPair(p) /\ j.step = "record" /\ a \in Agents /\ j.dir \in Dirs
      /\ job' = [job EXCEPT ![p] = Idle] /\ vault' = vault
      /\ records' = [records EXCEPT ![a].key = j.key, ![a].dir = j.dir]
      /\ copies' = [copies EXCEPT ![p] = Without(copies[p], a)]
      /\ UNCHANGED <<renames, contests, crashes>>
  BY JobShape DEF Record, hist, Free, Idle, HasPair, Jobs
<1>2. /\ vault[j.dir].key = j.key /\ j.key # NoPair
      /\ vault[j.dir].manifest.state = "whole" /\ vault[j.dir].manifest.agent = a
  <2>1. /\ vault[j.dir].key = j.key /\ j.key # NoPair
        /\ vault[j.dir].manifest = Manifest("whole", a, j.key)
    BY <1>1 DEF BadgeInv, PairsHeld
  <2>2. QED
    BY <2>1 DEF Manifest
<1>3. a \in Hired
  BY <1>1 DEF KeyInv, OneAtATime
<1>4. /\ Hired' = Hired /\ records'[a].key = j.key
      /\ \A b \in Hired \ {a} : records'[b] = records[b]
  BY <1>1, <1>3 DEF TypeOK, Records, Hired
<1>5. job'[p] = Idle /\ \A q \in Procs \ {p} : job'[q] = job[q]
  BY <1>1 DEF TypeOK
<1>6. \A b \in Agents, m \in Names : Known(b, m)' => Known(b, m)
  <2>1. /\ copies'[p] = Without(copies[p], a) /\ \A q \in Procs \ {p} : copies'[q] = copies[q]
    BY <1>1 DEF TypeOK
  <2>2. /\ DOMAIN copies'[p] \subseteq DOMAIN copies[p]
        /\ \A b \in DOMAIN copies'[p] : copies'[p][b] = copies[p][b]
    BY <2>1 DEF Without, Restrict
  <2>3. \A b \in Hired : ~Enrolled(records'[b]) => b # a
    BY <1>2, <1>4 DEF Enrolled
  <2>4. QED
    BY <1>4, <2>1, <2>2, <2>3 DEF Known
<1>7. Issued(a, j.dir[1])
  <2>1. PICK n \in Names : j.dir = <<n, Nobody>> \/ j.dir = <<n, a>>
    BY <1>1 DEF PairInv, JobInv
  <2>2. QED
    BY <1>2, <2>1 DEF Issued
<1>8. x \in Claims /\ Claims' \subseteq Claims \ {x} /\ x[2] = a
  BY <1>1, <1>6, <1>7, JobEnds
<1>9. Budget' = Budget /\ Budget \in Nat
  BY <1>1, BudgetIs DEF Budget
<1>10. Badgeless' = Badgeless \ {a}
  BY <1>2, <1>4 DEF Badgeless, Enrolled
<1>11. ASSUME NEW d \in Orphans', d \notin Orphans PROVE d = records[a].dir /\ Enrolled(records[a])
  <2>1. /\ d \in Dirs /\ vault[d].key # NoPair /\ vault[d].key # j.key
        /\ \A b \in Hired \ {a} : records[b].key # vault[d].key
        /\ \A q \in Procs \ {p} : ~Free(q) => job[q].key # vault[d].key
    BY <1>1, <1>3, <1>4, <1>5, <1>11 DEF Orphans, Free
  <2>2. records[a].key = vault[d].key
    BY <1>11, <2>1 DEF Orphans
  <2>3. Enrolled(records[a]) /\ records[a].dir \in Dirs
    BY <1>3, <2>1, <2>2 DEF Enrolled, TypeOK, Records
  <2>4. vault[records[a].dir].key = records[a].key
    <3>1. vault[records[a].dir] = [key |-> records[a].key,
                                   manifest |-> Manifest("whole", a, records[a].key)]
      BY <1>3, <2>3 DEF BadgeInv, BadgesBacked
    <3>2. QED
      BY <3>1
  <2>5. QED
    BY <2>1, <2>2, <2>3, <2>4 DEF PairInv, KeysApart
<1> HIDE DEF x
<1>12. CASE Enrolled(records[a])
  <2>1. a \notin Badgeless /\ Badgeless' = Badgeless
    BY <1>10, <1>12 DEF Badgeless
  <2>2. Orphans' \subseteq Orphans \union {records[a].dir}
    BY <1>11
  <2>3. Covered(Orphans, Claims, Badgeless, Budget) /\ x[2] \notin Badgeless
    BY <1>8, <2>1 DEF OrphanInv, Budget
  <2>4. Covered(Orphans', Claims', Badgeless, Budget)
    BY <1>8, <1>9, <2>2, <2>3, CoveredAgain
  <2>5. QED
    BY <1>9, <2>1, <2>4 DEF OrphanInv, Budget
<1>13. CASE ~Enrolled(records[a])
  <2>1. Orphans' \subseteq Orphans
    BY <1>11, <1>13
  <2>2. Covered(Orphans, Claims', Badgeless \ {x[2]}, Budget)
    BY <1>8, <1>9, CoveredFirst DEF OrphanInv, Budget
  <2>3. QED
    BY <1>8, <1>9, <1>10, <2>1, <2>2, CoveredFewer DEF OrphanInv, Budget
<1>14. QED
  BY <1>12, <1>13

\* Generating a pair, and writing its manifest.
LEMMA OrphanWrites ==
  ASSUME TypeOK, TypeOK', PairInv, OrphanInv, NEW p \in Procs,
         Generate(p) \/ OpenManifest(p) \/ FillManifest(p)
  PROVE  OrphanInv'
<1> DEFINE d == job[p].dir
<1>1. /\ ~Free(p) /\ d \in Dirs /\ job[p] \in Jobs
      /\ \A q \in Procs \ {p} : job'[q] = job[q]
      /\ \A e \in Dirs \ {d} : vault'[e] = vault[e]
      /\ UNCHANGED <<records, copies, crashes, renames, contests>>
  <2>1. ~Free(p) /\ UNCHANGED <<records, copies, crashes, renames, contests>>
    BY DEF Generate, OpenManifest, FillManifest, hist, Free, Idle
  <2>2. d \in Dirs /\ job[p] \in Jobs
    BY <2>1, JobShape DEF Jobs
  <2>3. QED
    BY <2>1, <2>2 DEF Generate, OpenManifest, FillManifest, TypeOK
<1>2. /\ ~Free(p)' /\ job'[p].agent = job[p].agent /\ job'[p].dir = d
  BY <1>1 DEF Generate, OpenManifest, FillManifest, TypeOK, Jobs, Free, Idle
<1>3. \A e \in Dirs : vault[e].key # NoPair => vault'[e].key = vault[e].key
  BY <1>1 DEF Generate, OpenManifest, FillManifest, TypeOK
<1>4. \A e \in Dirs : vault[e].manifest.state = "whole" => vault'[e].manifest = vault[e].manifest
  <2>1. CASE Generate(p)
    BY <1>1, <2>1 DEF Generate, TypeOK
  <2>2. CASE OpenManifest(p) \/ FillManifest(p)
    <3>1. vault[d].manifest.state # "whole"
      BY <1>1, <2>2 DEF OpenManifest, FillManifest, PairInv, JobInv
    <3>2. QED
      BY <1>1, <3>1
  <2>3. QED
    BY <2>1, <2>2
<1>5. \A a \in Agents, n \in Names : Issued(a, n) => Issued(a, n)'
  <2>1. \A n \in Names : <<n, Nobody>> \in Dirs /\ \A a \in Agents : <<n, a>> \in Dirs
    BY DEF Dirs
  <2>2. QED
    BY <1>3, <1>4, <2>1 DEF Issued
<1>6. Orphans' \subseteq Orphans
  <2>1. CASE Generate(p)
    <3>1. vault'[d].key = job'[p].key /\ job[p].key = NoPair
      BY <1>1, <2>1 DEF Generate, TypeOK, Jobs, PairInv, JobInv
    <3>2. ASSUME NEW e, e \in Orphans' PROVE e \in Orphans
      <4>1. e \in Dirs /\ e # d
        BY <1>2, <3>1, <3>2 DEF Orphans
      <4>2. QED
        BY <1>1, <3>1, <3>2, <4>1 DEF Orphans, Hired, Free
    <3>3. QED
      BY <3>2
  <2>2. CASE OpenManifest(p) \/ FillManifest(p)
    <3>1. (\A e \in Dirs : vault'[e].key = vault[e].key) /\ job'[p].key = job[p].key
      BY <1>1, <2>2 DEF OpenManifest, FillManifest, TypeOK, Jobs
    <3>2. \A q \in Procs : (Free(q)' <=> Free(q)) /\ job'[q].key = job[q].key
      BY <1>1, <1>2, <3>1 DEF Free
    <3>3. QED
      BY <1>1, <3>1, <3>2 DEF Orphans, Hired
  <2>3. QED
    BY <2>1, <2>2
<1>7. \A q \in Procs : /\ Free(q)' <=> Free(q)
                       /\ ~Free(q) => job'[q].agent = job[q].agent /\ job'[q].dir = job[q].dir
  BY <1>1, <1>2 DEF Free
<1>8. QED
  BY <1>1, <1>5, <1>6, <1>7, OrphanWorks

\* Recruiting and looking up, which leave the badges and the names.
LEMMA OrphanReads ==
  ASSUME TypeOK, TypeOK', OrphanInv, NEW p \in Procs,
         \/ \E n \in Names : Roll(p, n) \/ Rechristen(p, n)
         \/ Drop(p) \/ Backfill(p)
         \/ \E a \in Agents : Retire(p, a) \/ LookUp(p, a) \/ Refuse(p, a)
  PROVE  OrphanInv'
<1>1. UNCHANGED <<vault, job, crashes, renames, contests>>
  BY DEF Roll, Rechristen, Drop, Retire, LookUp, Refuse, Backfill, hist
<1>2. /\ Hired' = Hired
      /\ \A a \in Hired : records'[a].key = records[a].key /\ records'[a].name = records[a].name
  <2>1. CASE UNCHANGED records
    BY <2>1 DEF Hired
  <2>2. CASE \E a \in Agents : Retire(p, a)
    BY <2>2 DEF Retire, Hired, TypeOK, Records
  <2>3. QED
    BY <2>1, <2>2 DEF Roll, Rechristen, Drop, LookUp, Refuse, Backfill
<1>3. \A q \in Procs \ {p} : copies'[q] = copies[q]
  BY DEF Roll, Rechristen, Drop, Retire, LookUp, Refuse, Backfill, TypeOK
<1>4. \/ copies'[p] = copies[p]
      \/ \A a \in DOMAIN copies'[p] : a \in Hired /\ copies'[p][a] = records[a]
  <2>1. CASE copies' = copies
    BY <2>1
  <2>2. CASE copies' = [copies EXCEPT ![p] = NoCopies]
    BY <2>2 DEF TypeOK, NoCopies
  <2>3. ASSUME NEW a \in Agents, LookUp(p, a)
        PROVE  \A b \in DOMAIN copies'[p] : b \in Hired /\ copies'[p][b] = records[b]
    BY <2>3 DEF LookUp, TypeOK, Active
  <2>4. CASE Backfill(p)
    BY <2>4 DEF Backfill, TypeOK, Active
  <2>5. QED
    BY <2>1, <2>2, <2>3, <2>4 DEF Roll, Rechristen, Drop, Retire, Refuse
<1>5. QED
  BY <1>1, <1>2, <1>3, <1>4, OrphanLooks

LEMMA OrphanStep ==
  ASSUME TypeOK, TypeOK', BadgeInv, KeyInv, PairInv, OrphanInv, [Next]_vars
  PROVE  OrphanInv'
<1>1. CASE UNCHANGED vars
  BY <1>1 DEF vars, hist, OrphanInv, Covered, Gratis, Paid, Orphans, Claims, NameClaims, JobClaims,
              Badgeless, Known, Spent, Issued, WorksOn, Hired, Free
<1>2. ASSUME NEW p \in Procs, Recruit(p) PROVE OrphanInv'
  <2>1. ASSUME NEW a \in Agents, Hire(p, a) PROVE OrphanInv'
    BY <2>1, OrphanHires
  <2>2. ASSUME NEW a \in Agents, NEW n \in Names, Rename(p, a, n) PROVE OrphanInv'
    BY <2>2, OrphanRenames
  <2>3. QED
    BY <1>2, <2>1, <2>2, OrphanReads DEF Recruit
<1>3. ASSUME NEW p \in Procs, Enroll(p) PROVE OrphanInv'
  <2>1. ASSUME NEW a \in Agents, Claim(p, a) PROVE OrphanInv'
    BY <2>1, OrphanClaims
  <2>2. QED
    BY <1>3, <2>1, OrphanReads, OrphanWrites, OrphanFails, OrphanRecords DEF Enroll
<1>4. ASSUME NEW p \in Procs, Crash(p) PROVE OrphanInv'
  BY <1>4, OrphanFails
<1>5. QED
  BY <1>1, <1>2, <1>3, <1>4 DEF Next

\* What is covered has no more orphans than there were mishaps.
LEMMA OrphansAreFew == TypeOK /\ OrphanInv => OrphansExplained
<1> SUFFICES ASSUME TypeOK, OrphanInv PROVE OrphansExplained
  OBVIOUS
<1>1. PICK S : Paid(Orphans, Claims \ S, Budget)
  BY DEF OrphanInv, Covered, Budget
<1> DEFINE H == Claims \ S
<1>2. Cardinality(Orphans) \in Nat /\ Cardinality(H) \in Nat
  BY <1>1, FS_CardinalityType DEF Paid
<1>3. Cardinality(Orphans) + Cardinality(H) <= Budget
  BY <1>1 DEF Paid
<1> HIDE DEF H
<1>4. Budget \in Nat
  BY BudgetIs
<1>5. Cardinality(Orphans) <= Budget
  BY <1>2, <1>3, <1>4
<1>6. QED
  BY <1>5 DEF OrphansExplained, Budget

\* Whatever agents, names and processes there are, key pairs nobody's record
\* claims are at most as many as the deaths inside enroll, the changes of
\* name and the attempts that overlapped at one agent.
THEOREM OrphansExplainedHolds == ASSUME NobodyAssumption PROVE Spec => []OrphansExplained
<1>1. Init => PairInv /\ OrphanInv
  BY PairInit, OrphanInit
<1>2. TypeOK /\ TypeOK' /\ BadgeInv /\ KeyInv /\ PairInv /\ OrphanInv /\ [Next]_vars
        => PairInv' /\ OrphanInv'
  BY PairStep, OrphanStep
<1>3. Spec => [](PairInv /\ OrphanInv)
  BY <1>1, <1>2, TypeCorrect, BadgesHeld, KeysHeld, PTL DEF Spec
<1>4. QED
  BY <1>3, TypeCorrect, OrphansAreFew, PTL
=============================================================================
