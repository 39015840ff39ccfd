---------------------------- MODULE VaultProofs ----------------------------
(***************************************************************************)
(* Theorems about Vault, for any number of processes, credentials, keys,   *)
(* changes and crashes.                                                    *)
(***************************************************************************)
EXTENDS Vault, FiniteSetTheorems, TLAPS

KeyBytes == Nat \union {Garbled}
Kinds == {"absent", "torn", "whole"}
MasterJobs == [kind : {"master"}, opened : BOOLEAN, phrase : Passphrases, key : KeyBytes]
CredJobs == [kind : {"cred"}, cred : Creds, opened : BOOLEAN, key : KeyBytes]
SessionJobs == [kind : {"session"}]
Jobs == {Idle} \union MasterJobs \union CredJobs \union SessionJobs

TypeOK ==
    /\ master \in [state : Kinds, phrase : Passphrases \union {NoPhrase}, key : KeyBytes]
    /\ session \in {"none", "torn", "valid", "stale"}
    /\ creds \in [Creds -> [state : Kinds, key : KeyBytes]]
    /\ fernet \in [Procs -> KeyBytes]
    /\ shown \in [Procs -> BOOLEAN]
    /\ job \in [Procs -> Jobs]
    /\ {keys, changes, crashes} \subseteq Nat
    /\ rivals \in BOOLEAN

\* What a process is writing says which kind of job it has.
LEMMA JobKinds ==
  ASSUME TypeOK, NEW p \in Procs
  PROVE  /\ Writing(p, "master") => job[p] \in MasterJobs
         /\ Writing(p, "cred") => job[p] \in CredJobs
         /\ Writing(p, "session") => job[p] \in SessionJobs
BY DEF TypeOK, Jobs, MasterJobs, CredJobs, SessionJobs, Writing, Free, Idle

\* A job that has opened its file is still the job it was.
LEMMA OpenedJob ==
  ASSUME NEW j, j \in MasterJobs \/ j \in CredJobs
  PROVE  /\ j \in MasterJobs => [j EXCEPT !.opened = TRUE] \in MasterJobs
         /\ j \in CredJobs => [j EXCEPT !.opened = TRUE] \in CredJobs
         /\ [j EXCEPT !.opened = TRUE].kind = j.kind
         /\ [j EXCEPT !.opened = TRUE].key = j.key
         /\ j \in CredJobs => [j EXCEPT !.opened = TRUE].cred = j.cred
         /\ [j EXCEPT !.opened = TRUE].opened
BY DEF MasterJobs, CredJobs

(* TypeOK: files, keys in memory and jobs keep their shape.                *)
THEOREM TypeCorrect == Spec => []TypeOK
<1>1. Init => TypeOK
  <2>1. /\ Keyless \in KeyBytes /\ Idle \in Jobs
        /\ AbsentMaster \in [state : Kinds, phrase : Passphrases \union {NoPhrase}, key : KeyBytes]
        /\ AbsentCred \in [state : Kinds, key : KeyBytes]
    BY DEF Keyless, KeyBytes, Jobs, AbsentMaster, AbsentCred, Kinds
  <2>2. ASSUME Init PROVE shown \in [Procs -> BOOLEAN] /\ rivals \in BOOLEAN
    BY <2>2 DEF Init
  <2>3. ASSUME Init PROVE {keys, changes, crashes} \subseteq Nat
    BY <2>3 DEF Init
  <2>4. QED
    BY <2>1, <2>2, <2>3 DEF Init, TypeOK
<1>2. TypeOK /\ [Next]_vars => TypeOK'
  <2> SUFFICES ASSUME TypeOK, [Next]_vars PROVE TypeOK'
    OBVIOUS
  <2>0. /\ Keyless \in KeyBytes /\ Idle \in Jobs
        /\ SessionJobs \subseteq Jobs /\ [kind |-> "session"] \in SessionJobs
        /\ TornMaster \in [state : Kinds, phrase : Passphrases \union {NoPhrase}, key : KeyBytes]
        /\ {AbsentCred, TornCred} \subseteq [state : Kinds, key : KeyBytes]
    BY DEF Keyless, KeyBytes, Jobs, SessionJobs, TornMaster, AbsentMaster, AbsentCred, TornCred,
           Kinds
  <2>1. CASE UNCHANGED vars
    BY <2>1 DEF vars, files, memory, hist, TypeOK
  <2>2. CASE Expire
    BY <2>2 DEF Expire, memory, hist, TypeOK
  <2>3. ASSUME NEW p \in Procs, NEW x \in Passphrases, Initialize(p, x)
        PROVE  TypeOK'
    <3>1. keys' \in Nat /\ MasterJob(x, keys') \in Jobs
      BY <2>3 DEF Initialize, TypeOK, MasterJob, Jobs, MasterJobs, KeyBytes
    <3>2. rivals' \in BOOLEAN
      BY <2>3 DEF Initialize
    <3>3. QED
      BY <2>3, <3>1, <3>2 DEF Initialize, files, TypeOK
  <2>4. ASSUME NEW p \in Procs, NEW x \in Passphrases, Unlock(p, x)
        PROVE  TypeOK'
    BY <2>0, <2>4 DEF Unlock, hist, TypeOK
  <2>5. ASSUME NEW p \in Procs, NEW x \in Passphrases, ChangeRefused(p, x)
        PROVE  TypeOK'
    BY <2>5 DEF ChangeRefused, files, hist, TypeOK
  <2>6. ASSUME NEW p \in Procs, NEW x \in Passphrases, NEW y \in Passphrases,
               ChangePassphrase(p, x, y)
        PROVE  TypeOK'
    <3>1. changes' \in Nat /\ MasterJob(y, Garbled) \in Jobs
      BY <2>6 DEF ChangePassphrase, TypeOK, MasterJob, Jobs, MasterJobs, KeyBytes
    <3>2. rivals' \in BOOLEAN
      BY <2>6 DEF ChangePassphrase
    <3>3. QED
      BY <2>6, <3>1, <3>2 DEF ChangePassphrase, files, TypeOK
  <2>7. ASSUME NEW p \in Procs, NEW c \in Creds, Store(p, c) \/ Update(p, c)
        PROVE  TypeOK'
    <3>1. PICK k \in KeyBytes : job' = [job EXCEPT ![p] = CredJob(c, k)]
      BY <2>7 DEF Store, Update, TypeOK
    <3>2. CredJob(c, k) \in Jobs
      BY DEF CredJob, Jobs, CredJobs
    <3>3. QED
      BY <2>7, <3>1, <3>2 DEF Store, Update, files, hist, TypeOK
  <2>8. ASSUME NEW p \in Procs, NEW c \in Creds, Delete(p, c)
        PROVE  TypeOK'
    BY <2>0, <2>8 DEF Delete, memory, hist, TypeOK
  <2>9. ASSUME NEW p \in Procs, OpenMaster(p)
        PROVE  TypeOK'
    <3>1. [job[p] EXCEPT !.opened = TRUE] \in Jobs
      BY <2>9, JobKinds, OpenedJob DEF OpenMaster, Jobs
    <3>2. QED
      BY <2>0, <2>9, <3>1 DEF OpenMaster, hist, TypeOK
  <2>10. ASSUME NEW p \in Procs, FillMaster(p)
         PROVE  TypeOK'
    <3>1. job[p].phrase \in Passphrases /\ job[p].key \in KeyBytes
      BY <2>10, JobKinds DEF FillMaster, MasterJobs
    <3>2. master' \in [state : Kinds, phrase : Passphrases \union {NoPhrase}, key : KeyBytes]
      BY <2>10, <3>1 DEF FillMaster, Kinds
    <3>3. /\ session' \in {"none", "torn", "valid", "stale"}
          /\ fernet' \in [Procs -> KeyBytes] /\ shown' \in [Procs -> BOOLEAN]
      BY <2>10, <3>1 DEF FillMaster, Shows, TypeOK
    <3>4. QED
      BY <2>0, <2>10, <3>2, <3>3 DEF FillMaster, hist, TypeOK
  <2>11. ASSUME NEW p \in Procs, FillSession(p)
         PROVE  TypeOK'
    BY <2>0, <2>11 DEF FillSession, Shows, hist, TypeOK
  <2>12. ASSUME NEW p \in Procs, OpenCred(p)
         PROVE  TypeOK'
    <3>1. [job[p] EXCEPT !.opened = TRUE] \in Jobs
      BY <2>12, JobKinds, OpenedJob DEF OpenCred, Jobs
    <3>2. QED
      BY <2>0, <2>12, <3>1 DEF OpenCred, hist, TypeOK
  <2>13. ASSUME NEW p \in Procs, FillCred(p)
         PROVE  TypeOK'
    <3>1. job[p].cred \in Creds /\ job[p].key \in KeyBytes
      BY <2>13, JobKinds DEF FillCred, CredJobs
    <3>2. creds' \in [Creds -> [state : Kinds, key : KeyBytes]]
      BY <2>13, <3>1 DEF FillCred, TypeOK, Kinds
    <3>3. QED
      BY <2>0, <2>13, <3>2 DEF FillCred, hist, TypeOK
  <2>14. ASSUME NEW p \in Procs, Lock(p) \/ Enter(p) \/ Quit(p)
         PROVE  TypeOK'
    BY <2>0, <2>14 DEF Lock, Enter, Quit, Shows, files, hist, TypeOK
  <2>15. ASSUME NEW p \in Procs, Crash(p)
         PROVE  TypeOK'
    BY <2>0, <2>15 DEF Crash, files, TypeOK
  <2>16. QED
    BY <2>1, <2>2, <2>3, <2>4, <2>5, <2>6, <2>7, <2>8, <2>9, <2>10, <2>11, <2>12, <2>13,
       <2>14, <2>15 DEF Next
<1>3. QED
  BY <1>1, <1>2, PTL DEF Spec

-----------------------------------------------------------------------------
(* The key of the credentials.  CredentialsReadable is not inductive: what *)
(* matters is which keys are at hand, in memory and in jobs, and that the  *)
(* master file is written once.                                            *)

Calm == changes = 0 /\ ~rivals

\* One process writes the master file, which is absent until it opens it and
\* torn until it fills it.
OneWriter ==
    \A p, q \in Procs : Writing(p, "master") /\ Writing(q, "master") => p = q
WriterFits ==
    \A p \in Procs : Writing(p, "master") =>
        master.state = IF job[p].opened THEN "torn" ELSE "absent"

\* While the master file is not whole nobody has a key, and nothing was
\* encrypted; once it is, its key is the only one there is.
Closed ==
    master.state # "whole" =>
        /\ \A p \in Procs : fernet[p] = Keyless /\ ~Writing(p, "cred")
        /\ \A c \in Creds : creds[c].state # "whole"
OneKey ==
    master.state = "whole" =>
        /\ \A p \in Procs : /\ fernet[p] \in {Keyless, master.key}
                            /\ Writing(p, "cred") => job[p].key = master.key
        /\ \A c \in Creds : creds[c].state = "whole" => creds[c].key = master.key

KeyInv == Calm => OneWriter /\ WriterFits /\ Closed /\ OneKey

\* A job that is over, or of another kind, writes nothing of this kind.
LEMMA NewJob ==
  ASSUME TypeOK, NEW p \in Procs, NEW j, job' = [job EXCEPT ![p] = j]
  PROVE  /\ job'[p] = j
         /\ \A q \in Procs \ {p} : job'[q] = job[q]
         /\ \A q \in Procs \ {p}, kind \in {"master", "cred"} :
              Writing(q, kind)' <=> Writing(q, kind)
         /\ \A kind \in {"master", "cred"} : j = Idle => ~Writing(p, kind)'
         /\ \A kind \in {"master", "cred"} : j # Idle => (Writing(p, kind)' <=> j.kind = kind)
BY DEF TypeOK, Writing, Free

(* KeyInv is kept by every step.                                           *)
LEMMA KeyInvKept ==
  ASSUME TypeOK, KeyInv, [Next]_vars
  PROVE  KeyInv'
<1> SUFFICES ASSUME Calm' PROVE OneWriter' /\ WriterFits' /\ Closed' /\ OneKey'
  BY DEF KeyInv
<1> Calm
  <2>1. changes' \in {changes, changes + 1} /\ (rivals => rivals')
    <3> DEFINE Ok == changes' \in {changes, changes + 1} /\ (rivals => rivals')
    <3>1. CASE UNCHANGED vars
      BY <3>1 DEF vars, hist
    <3>2. CASE Expire
      BY <3>2 DEF Expire, hist
    <3>3. ASSUME NEW p \in Procs, NEW x \in Passphrases,
                 Initialize(p, x) \/ Unlock(p, x) \/ ChangeRefused(p, x)
          PROVE  Ok
      <4>1. CASE Initialize(p, x)
        BY <4>1 DEF Initialize
      <4>2. CASE Unlock(p, x) \/ ChangeRefused(p, x)
        BY <4>2 DEF Unlock, ChangeRefused, hist
      <4>3. QED
        BY <3>3, <4>1, <4>2
    <3>4. ASSUME NEW p \in Procs, NEW x \in Passphrases, NEW y \in Passphrases,
                 ChangePassphrase(p, x, y)
          PROVE  Ok
      BY <3>4 DEF ChangePassphrase
    <3>5. ASSUME NEW p \in Procs, NEW c \in Creds, Store(p, c) \/ Update(p, c) \/ Delete(p, c)
          PROVE  Ok
      BY <3>5 DEF Store, Update, Delete, hist
    <3>6. ASSUME NEW p \in Procs, \/ OpenMaster(p) \/ FillMaster(p) \/ FillSession(p)
                                  \/ OpenCred(p) \/ FillCred(p)
          PROVE  Ok
      BY <3>6 DEF OpenMaster, FillMaster, FillSession, OpenCred, FillCred, hist
    <3>7. ASSUME NEW p \in Procs, Lock(p) \/ Enter(p) \/ Quit(p) \/ Crash(p)
          PROVE  Ok
      BY <3>7 DEF Lock, Enter, Quit, Crash, hist
    <3>8. QED
      BY <3>1, <3>2, <3>3, <3>4, <3>5, <3>6, <3>7 DEF Next
  <2>2. QED
    BY <2>1 DEF Calm, TypeOK
<1> OneWriter /\ WriterFits /\ Closed /\ OneKey
  BY DEF KeyInv
<1>1. CASE UNCHANGED vars
  BY <1>1 DEF vars, files, memory, hist, Calm, OneWriter, WriterFits, Closed, OneKey, Writing, Free
<1>2. CASE Expire
  BY <1>2 DEF Expire, memory, hist, Calm, OneWriter, WriterFits, Closed, OneKey, Writing, Free
<1>3. ASSUME NEW p \in Procs, NEW x \in Passphrases, Initialize(p, x)
      PROVE  OneWriter' /\ WriterFits' /\ Closed' /\ OneKey'
  <2>1. Calm /\ \A q \in Procs : ~Writing(q, "master")
    BY <1>3 DEF Initialize, Calm
  <2>2. MasterJob(x, keys').kind = "master" /\ ~MasterJob(x, keys').opened
    BY DEF MasterJob
  <2>3. MasterJob(x, keys') # Idle
    BY DEF MasterJob, Idle
  <2>4. /\ \A q \in Procs \ {p} : ~Writing(q, "master")'
        /\ \A q \in Procs : Writing(q, "cred")' => Writing(q, "cred")
        /\ ~job'[p].opened
    BY <1>3, <2>1, <2>2, <2>3, NewJob DEF Initialize
  <2>5. master.state = "absent" /\ UNCHANGED <<master, creds, fernet>>
    BY <1>3 DEF Initialize, IsInitialized, files
  <2>6. QED
    BY <2>1, <2>4, <2>5 DEF OneWriter, WriterFits, Closed, OneKey
<1>4. ASSUME NEW p \in Procs, NEW x \in Passphrases, Unlock(p, x) \/ ChangeRefused(p, x)
      PROVE  OneWriter' /\ WriterFits' /\ Closed' /\ OneKey'
  <2>1. /\ Calm /\ master.state = "whole" /\ UNCHANGED <<master, creds>>
        /\ fernet' = [fernet EXCEPT ![p] = master.key]
    BY <1>4 DEF Unlock, ChangeRefused, Opens, Calm, files, hist
  <2>2. \A q \in Procs : ~Writing(q, "master")
    BY <2>1 DEF WriterFits
  <2>3. \A q \in Procs : ~Writing(q, "master")' /\ (Writing(q, "cred")' => Writing(q, "cred") /\ job'[q] = job[q])
    <3>1. CASE job' = job
      BY <2>2, <3>1 DEF Writing, Free
    <3>2. CASE job' = [job EXCEPT ![p] = [kind |-> "session"]]
      <4>1. [kind |-> "session"].kind \notin {"master", "cred"} /\ [kind |-> "session"] # Idle
        BY DEF Idle
      <4>2. QED
        BY <2>2, <3>2, <4>1, NewJob
    <3>3. QED
      BY <1>4, <3>1, <3>2 DEF Unlock, ChangeRefused
  <2>4. \A q \in Procs : fernet'[q] \in {fernet[q], master.key}
    BY <2>1 DEF TypeOK
  <2>5. OneWriter' /\ WriterFits'
    BY <2>3 DEF OneWriter, WriterFits
  <2>6. Closed'
    BY <2>1 DEF Closed
  <2>7. OneKey'
    BY <2>1, <2>3, <2>4 DEF OneKey
  <2>8. QED
    BY <2>5, <2>6, <2>7
<1>5. ASSUME NEW p \in Procs, NEW x \in Passphrases, NEW y \in Passphrases,
             ChangePassphrase(p, x, y)
      PROVE  FALSE
  BY <1>5 DEF ChangePassphrase, Calm, TypeOK
<1>6. ASSUME NEW p \in Procs, NEW c \in Creds, Store(p, c) \/ Update(p, c)
      PROVE  OneWriter' /\ WriterFits' /\ Closed' /\ OneKey'
  <2>1. /\ Calm /\ fernet[p] # Keyless /\ UNCHANGED <<master, creds, fernet>>
        /\ creds[c].state = "whole" \/ Store(p, c)
    BY <1>6 DEF Store, Update, Calm, files, hist
  <2>2. master.state = "whole"
    BY <2>1 DEF Closed
  <2>3. job' = [job EXCEPT ![p] = CredJob(c, master.key)]
    <3>1. fernet[p] = master.key /\ (creds[c].state = "whole" => creds[c].key = master.key)
      BY <2>1, <2>2 DEF OneKey
    <3>2. CASE Store(p, c)
      BY <3>1, <3>2 DEF Store
    <3>3. CASE Update(p, c)
      BY <3>1, <3>3 DEF Update
    <3>4. QED
      BY <1>6, <3>2, <3>3
  <2>4. /\ CredJob(c, master.key).kind = "cred" /\ CredJob(c, master.key).key = master.key
        /\ CredJob(c, master.key) # Idle
    BY DEF CredJob, Idle
  <2>5. \A q \in Procs : /\ ~Writing(q, "master")
                         /\ Writing(q, "master")' => Writing(q, "master")
                         /\ Writing(q, "cred")' => job'[q].key = master.key
    <3>1. \A q \in Procs : /\ ~Writing(q, "master")
                           /\ Writing(q, "cred") => job[q].key = master.key
      BY <2>1, <2>2 DEF WriterFits, OneKey
    <3>2. /\ ~Writing(p, "master")' /\ job'[p].key = master.key
          /\ \A q \in Procs \ {p} : /\ job'[q] = job[q]
                                    /\ Writing(q, "master")' => Writing(q, "master")
                                    /\ Writing(q, "cred")' => Writing(q, "cred")
      BY <2>3, <2>4, NewJob
    <3> SUFFICES ASSUME NEW q \in Procs
                 PROVE  /\ ~Writing(q, "master")
                        /\ Writing(q, "master")' => Writing(q, "master")
                        /\ Writing(q, "cred")' => job'[q].key = master.key
      OBVIOUS
    <3>3. CASE q = p
      BY <3>1, <3>2, <3>3
    <3>4. CASE q # p
      <4>1. /\ job'[q] = job[q]
            /\ Writing(q, "master")' => Writing(q, "master")
            /\ Writing(q, "cred")' => Writing(q, "cred")
        BY <3>2, <3>4
      <4>2. QED
        BY <3>1, <4>1
    <3>5. QED
      BY <3>3, <3>4
  <2>6. QED
    BY <2>1, <2>2, <2>5 DEF OneWriter, WriterFits, Closed, OneKey
<1>7. ASSUME NEW p \in Procs, NEW c \in Creds, Delete(p, c)
      PROVE  OneWriter' /\ WriterFits' /\ Closed' /\ OneKey'
  <2>1. \A d \in Creds : creds'[d].state = "whole" => creds'[d] = creds[d]
    BY <1>7 DEF Delete, AbsentCred, TypeOK
  <2>2. QED
    BY <1>7, <2>1 DEF Delete, memory, hist, Calm, OneWriter, WriterFits, Closed, OneKey,
                      Writing, Free
<1>8. ASSUME NEW p \in Procs, OpenMaster(p)
      PROVE  OneWriter' /\ WriterFits' /\ Closed' /\ OneKey'
  <2>1. /\ Calm /\ Writing(p, "master") /\ ~job[p].opened /\ UNCHANGED <<creds, fernet>>
        /\ job' = [job EXCEPT ![p] = [job[p] EXCEPT !.opened = TRUE]]
        /\ master'.state = "torn"
    BY <1>8 DEF OpenMaster, Calm, hist, TornMaster, AbsentMaster
  <2>2. job[p] \in MasterJobs /\ master.state = "absent"
    BY <2>1, JobKinds DEF WriterFits
  <2>3. \A q \in Procs \ {p} : ~Writing(q, "master")
    BY <2>1 DEF OneWriter
  <2>4. [job[p] EXCEPT !.opened = TRUE].kind = "master" /\ [job[p] EXCEPT !.opened = TRUE].opened
    BY <2>2 DEF MasterJobs
  <2>5. [job[p] EXCEPT !.opened = TRUE] # Idle
    BY <2>4 DEF Idle
  <2>6. /\ \A q \in Procs \ {p} : ~Writing(q, "master")'
        /\ \A q \in Procs : Writing(q, "cred")' => Writing(q, "cred")
        /\ job'[p].opened
    BY <2>1, <2>3, <2>4, <2>5, NewJob
  <2>7. QED
    BY <2>1, <2>2, <2>6 DEF OneWriter, WriterFits, Closed, OneKey
<1>9. ASSUME NEW p \in Procs, FillMaster(p)
      PROVE  OneWriter' /\ WriterFits' /\ Closed' /\ OneKey'
  <2>1. /\ Calm /\ Writing(p, "master") /\ job[p].opened /\ UNCHANGED creds
        /\ job' = [job EXCEPT ![p] = Idle]
        /\ master'.state = "whole" /\ master'.key = job[p].key
        /\ fernet' = fernet \/ fernet' = [fernet EXCEPT ![p] = job[p].key]
    BY <1>9 DEF FillMaster, Calm, hist
  <2>2. /\ master.state = "torn"
        /\ \A q \in Procs \ {p} : ~Writing(q, "master")
    BY <2>1 DEF WriterFits, OneWriter
  <2>3. \A q \in Procs : ~Writing(q, "master")' /\ (Writing(q, "cred")' => Writing(q, "cred"))
    BY <2>1, <2>2, NewJob
  <2>4. \A q \in Procs : ~Writing(q, "cred") /\ fernet[q] = Keyless
    BY <2>1, <2>2 DEF Closed
  <2>5. \A q \in Procs : fernet'[q] \in {Keyless, master'.key}
    BY <2>1, <2>4 DEF TypeOK
  <2>6. QED
    BY <2>1, <2>2, <2>3, <2>4, <2>5 DEF OneWriter, WriterFits, Closed, OneKey
<1>10. ASSUME NEW p \in Procs, FillSession(p)
       PROVE  OneWriter' /\ WriterFits' /\ Closed' /\ OneKey'
  <2>1. \A q \in Procs : /\ Writing(q, "master")' => Writing(q, "master") /\ job'[q] = job[q]
                         /\ Writing(q, "cred")' => Writing(q, "cred") /\ job'[q] = job[q]
    BY <1>10, NewJob DEF FillSession
  <2>2. QED
    BY <1>10, <2>1 DEF FillSession, hist, Calm, OneWriter, WriterFits, Closed, OneKey
<1>11. ASSUME NEW p \in Procs, OpenCred(p)
       PROVE  OneWriter' /\ WriterFits' /\ Closed' /\ OneKey'
  <2>1. job[p] \in CredJobs /\ job' = [job EXCEPT ![p] = [job[p] EXCEPT !.opened = TRUE]]
    BY <1>11, JobKinds DEF OpenCred
  <2>2. /\ [job[p] EXCEPT !.opened = TRUE].kind = "cred"
        /\ [job[p] EXCEPT !.opened = TRUE].key = job[p].key
    BY <2>1 DEF CredJobs
  <2>3. [job[p] EXCEPT !.opened = TRUE] # Idle
    BY <2>2 DEF Idle
  <2>4. \A q \in Procs : /\ Writing(q, "master")' => Writing(q, "master") /\ job'[q] = job[q]
                         /\ Writing(q, "cred")' => Writing(q, "cred") /\ job'[q].key = job[q].key
    <3>1. Writing(p, "cred")
      BY <1>11 DEF OpenCred
    <3>2. QED
      BY <2>1, <2>2, <2>3, <3>1, NewJob
  <2>5. \A d \in Creds : creds'[d].state = "whole" => creds'[d] = creds[d]
    BY <1>11 DEF OpenCred, TornCred, AbsentCred, TypeOK
  <2>6. QED
    BY <1>11, <2>4, <2>5 DEF OpenCred, hist, Calm, OneWriter, WriterFits, Closed, OneKey
<1>12. ASSUME NEW p \in Procs, FillCred(p)
       PROVE  OneWriter' /\ WriterFits' /\ Closed' /\ OneKey'
  <2>1. Calm /\ Writing(p, "cred")
    BY <1>12 DEF FillCred, Calm, hist
  <2>2. master.state = "whole" /\ job[p].key = master.key
    <3>1. master.state = "whole"
      BY <2>1 DEF Closed
    <3>2. QED
      BY <2>1, <3>1 DEF OneKey
  <2>3. \A q \in Procs : /\ Writing(q, "master")' => Writing(q, "master") /\ job'[q] = job[q]
                         /\ Writing(q, "cred")' => Writing(q, "cred") /\ job'[q] = job[q]
    BY <1>12, NewJob DEF FillCred
  <2>4. \A d \in Creds : creds'[d].state = "whole" => creds'[d].key = master.key
    <3> SUFFICES ASSUME NEW d \in Creds, creds'[d].state = "whole"
                 PROVE  creds'[d].key = master.key
      OBVIOUS
    <3>1. CASE d = job[p].cred /\ creds[d].state # "absent"
      BY <1>12, <2>2, <3>1 DEF FillCred, TypeOK
    <3>2. CASE ~(d = job[p].cred /\ creds[d].state # "absent")
      <4>1. creds'[d] = creds[d]
        BY <1>12, <3>2 DEF FillCred, TypeOK
      <4>2. QED
        BY <2>1, <2>2, <4>1 DEF OneKey
    <3>3. QED
      BY <3>1, <3>2
  <2>5. QED
    <3>1. UNCHANGED <<master, fernet>>
      BY <1>12, <2>1 DEF FillCred
    <3>2. OneWriter' /\ WriterFits'
      BY <2>3, <3>1 DEF OneWriter, WriterFits
    <3>3. Closed'
      BY <2>2, <3>1 DEF Closed
    <3>4. OneKey'
      BY <2>2, <2>3, <2>4, <3>1 DEF OneKey
    <3>5. QED
      BY <3>2, <3>3, <3>4
<1>13. ASSUME NEW p \in Procs, Lock(p) \/ Enter(p) \/ Quit(p)
       PROVE  OneWriter' /\ WriterFits' /\ Closed' /\ OneKey'
  <2>1. /\ Calm /\ UNCHANGED <<master, creds, job>>
        /\ fernet' = fernet \/ fernet' = [fernet EXCEPT ![p] = Keyless]
    BY <1>13 DEF Lock, Enter, Quit, files, hist, Calm
  <2>2. \A q \in Procs : fernet'[q] \in {Keyless, fernet[q]}
    BY <2>1 DEF TypeOK
  <2>3. OneWriter' /\ WriterFits'
    BY <2>1 DEF OneWriter, WriterFits, Writing, Free
  <2>4. \A q \in Procs : Writing(q, "cred")' <=> Writing(q, "cred")
    BY <2>1 DEF Writing, Free
  <2>5. Closed'
    BY <2>1, <2>2, <2>4 DEF Closed
  <2>6. OneKey'
    BY <2>1, <2>2, <2>4 DEF OneKey
  <2>7. QED
    BY <2>3, <2>5, <2>6
<1>14. ASSUME NEW p \in Procs, Crash(p)
       PROVE  OneWriter' /\ WriterFits' /\ Closed' /\ OneKey'
  <2>1. /\ Calm /\ UNCHANGED <<master, creds>>
        /\ fernet' = [fernet EXCEPT ![p] = Keyless]
    BY <1>14 DEF Crash, files, Calm
  <2>2. \A q \in Procs : /\ fernet'[q] \in {Keyless, fernet[q]}
                         /\ Writing(q, "master")' => Writing(q, "master") /\ job'[q] = job[q]
                         /\ Writing(q, "cred")' => Writing(q, "cred") /\ job'[q] = job[q]
    BY <1>14, <2>1, NewJob DEF Crash, TypeOK
  <2>3. OneWriter' /\ WriterFits'
    BY <2>1, <2>2 DEF OneWriter, WriterFits
  <2>4. Closed'
    BY <2>1, <2>2 DEF Closed
  <2>5. OneKey'
    BY <2>1, <2>2 DEF OneKey
  <2>6. QED
    BY <2>3, <2>4, <2>5
<1>15. QED
  BY <1>1, <1>2, <1>3, <1>4, <1>5, <1>6, <1>7, <1>8, <1>9, <1>10, <1>11, <1>12, <1>13, <1>14
  DEF Next

(* KeyInv holds in every state.                                            *)
THEOREM KeysAgree == Spec => []KeyInv
<1>1. Init => KeyInv
  <2>1. ASSUME Init PROVE KeyInv
    <3>1. /\ master.state = "absent" /\ \A c \in Creds : creds[c].state = "absent"
          /\ \A p \in Procs : fernet[p] = Keyless /\ job[p] = Idle
      BY <2>1 DEF Init, AbsentMaster, AbsentCred
    <3>2. QED
      BY <3>1 DEF KeyInv, OneWriter, WriterFits, Closed, OneKey, Writing, Free
  <2>2. QED
    BY <2>1
<1>2. TypeOK /\ KeyInv /\ [Next]_vars => KeyInv'
  BY KeyInvKept
<1>3. QED
  BY <1>1, <1>2, TypeCorrect, PTL DEF Spec

-----------------------------------------------------------------------------
(* What was cut short: each file by a process of its own that died.        *)

CutInv == IsFiniteSet(CutShort) /\ Cardinality(CutShort) <= crashes

Holds(p, c) == Writing(p, "cred") /\ job[p].opened /\ job[p].cred = c

\* Nothing is cut short by a step of p that leaves the jobs of the others
\* alone, tears only what p goes on to hold, and drops nothing torn.
LEMMA NothingCut ==
  ASSUME NEW p \in Procs,
         \A q \in Procs \ {p}, c \in Creds : Holds(q, c) => Holds(q, c)',
         \A c \in Creds : creds'[c].state = "torn" => creds[c].state = "torn" \/ Holds(p, c)',
         \A c \in Creds : creds'[c].state = "torn" /\ Holds(p, c) => Holds(p, c)'
  PROVE  CutShort' \subseteq CutShort
<1> SUFFICES ASSUME NEW c \in CutShort' PROVE c \in CutShort
  OBVIOUS
<1>1. c \in Creds /\ creds'[c].state = "torn" /\ \A q \in Procs : ~Holds(q, c)'
  BY DEF CutShort, Holds
<1>2. creds[c].state = "torn" /\ \A q \in Procs : ~Holds(q, c)
  BY <1>1
<1>3. QED
  BY <1>1, <1>2 DEF CutShort, Holds

\* The jobs of the others: what NewJob says, of Holds.
LEMMA OthersHold ==
  ASSUME TypeOK, NEW p \in Procs, NEW j, job' = [job EXCEPT ![p] = j]
  PROVE  /\ \A q \in Procs \ {p}, c \in Creds : Holds(q, c) => Holds(q, c)'
         /\ \A c \in Creds : Holds(p, c)' => Writing(p, "cred")'
BY NewJob DEF Holds

\* A process that writes a credential goes on, or ends its own.
LEMMA CutShortGrows ==
  ASSUME TypeOK, [Next]_vars
  PROVE  \/ CutShort' \subseteq CutShort /\ crashes' = crashes
         \/ /\ crashes' = crashes + 1
            /\ \E c : CutShort' \subseteq CutShort \union {c}
<1> DEFINE Same == CutShort' \subseteq CutShort /\ crashes' = crashes
<1>1. CASE UNCHANGED vars
  BY <1>1 DEF vars, files, memory, hist, CutShort, Writing, Free
<1>2. CASE Expire
  BY <1>2 DEF Expire, memory, hist, CutShort, Writing, Free
<1>3. ASSUME NEW p \in Procs, NEW j, Free(p), job' = [job EXCEPT ![p] = j],
             creds' = creds, crashes' = crashes
      PROVE  Same
  <2>1. \A c \in Creds : ~Holds(p, c)
    BY <1>3 DEF Holds, Writing
  <2>2. QED
    BY <1>3, <2>1, OthersHold, NothingCut
<1>4. ASSUME NEW p \in Procs, NEW x \in Passphrases, NEW y \in Passphrases,
             \/ Initialize(p, x) \/ Unlock(p, x) \/ ChangePassphrase(p, x, y)
      PROVE  Same
  <2>1. Free(p) /\ creds' = creds /\ crashes' = crashes
    BY <1>4 DEF Initialize, Unlock, ChangePassphrase, files, hist
  <2>2. PICK j : job' = [job EXCEPT ![p] = j]
    BY <1>4 DEF Initialize, Unlock, ChangePassphrase
  <2>3. QED
    BY <1>3, <2>1, <2>2
<1>5. ASSUME NEW p \in Procs, NEW c \in Creds, Store(p, c) \/ Update(p, c)
      PROVE  Same
  <2>1. Free(p) /\ creds' = creds /\ crashes' = crashes
    BY <1>5 DEF Store, Update, files, hist
  <2>2. PICK j : job' = [job EXCEPT ![p] = j]
    BY <1>5 DEF Store, Update
  <2>3. QED
    BY <1>3, <2>1, <2>2
<1>6. ASSUME NEW p \in Procs, NEW x \in Passphrases,
             ChangeRefused(p, x)
      PROVE  Same
  BY <1>6 DEF ChangeRefused, files, hist, CutShort, Writing, Free
<1>7. ASSUME NEW p \in Procs, NEW c \in Creds, Delete(p, c)
      PROVE  Same
  <2>1. \A d \in Creds : creds'[d].state = "torn" => creds[d].state = "torn"
    BY <1>7 DEF Delete, AbsentCred, TypeOK
  <2>2. QED
    BY <1>7, <2>1 DEF Delete, memory, hist, CutShort, Writing, Free
<1>8. ASSUME NEW p \in Procs, OpenMaster(p) \/ FillMaster(p) \/ FillSession(p)
      PROVE  Same
  <2>1. /\ creds' = creds /\ crashes' = crashes
        /\ Writing(p, "master") \/ Writing(p, "session")
    BY <1>8 DEF OpenMaster, FillMaster, FillSession, hist
  <2>2. \A c \in Creds : ~Holds(p, c)
    BY <2>1 DEF Holds, Writing
  <2>3. PICK j : job' = [job EXCEPT ![p] = j]
    <3>1. CASE OpenMaster(p)
      BY <3>1 DEF OpenMaster
    <3>2. CASE FillMaster(p) \/ FillSession(p)
      BY <3>2 DEF FillMaster, FillSession
    <3>3. QED
      BY <1>8, <3>1, <3>2
  <2>4. QED
    BY <2>1, <2>2, <2>3, OthersHold, NothingCut
<1>9. ASSUME NEW p \in Procs, OpenCred(p)
      PROVE  Same
  <2>1. /\ Writing(p, "cred") /\ ~job[p].opened /\ crashes' = crashes
        /\ creds' = [creds EXCEPT ![job[p].cred] = TornCred]
        /\ job' = [job EXCEPT ![p] = [job[p] EXCEPT !.opened = TRUE]]
    BY <1>9 DEF OpenCred, hist
  <2>2. /\ job[p] \in CredJobs
        /\ [job[p] EXCEPT !.opened = TRUE].kind = "cred"
        /\ [job[p] EXCEPT !.opened = TRUE].cred = job[p].cred
        /\ [job[p] EXCEPT !.opened = TRUE].opened
    BY <2>1, JobKinds DEF CredJobs
  <2>3. [job[p] EXCEPT !.opened = TRUE] # Idle
    BY <2>2 DEF Idle
  <2>4. \A c \in Creds : ~Holds(p, c)
    BY <2>1 DEF Holds
  <2>5. \A c \in Creds : c = job[p].cred => Holds(p, c)'
    <3>1. Writing(p, "cred")' /\ job'[p].opened /\ job'[p].cred = job[p].cred
      BY <2>1, <2>2, <2>3, NewJob
    <3>2. QED
      BY <3>1 DEF Holds
  <2>6. \A c \in Creds : creds'[c].state = "torn" => creds[c].state = "torn" \/ c = job[p].cred
    BY <2>1 DEF TypeOK
  <2>7. \A q \in Procs \ {p}, c \in Creds : Holds(q, c) => Holds(q, c)'
    BY <2>1, OthersHold
  <2>8. \A c \in Creds : creds'[c].state = "torn" => creds[c].state = "torn" \/ Holds(p, c)'
    BY <2>5, <2>6 DEF Holds
  <2>9. QED
    BY <2>1, <2>4, <2>7, <2>8, NothingCut
<1>10. ASSUME NEW p \in Procs, FillCred(p)
       PROVE  Same
  <2>1. Writing(p, "cred") /\ job' = [job EXCEPT ![p] = Idle] /\ crashes' = crashes
    BY <1>10 DEF FillCred, hist
  <2>2. job[p].cred \in Creds
    BY <2>1, JobKinds DEF CredJobs
  <2>3. creds'[job[p].cred].state # "torn"
    BY <1>10, <2>2 DEF FillCred, TypeOK
  <2>4. \A c \in Creds \ {job[p].cred} : creds'[c] = creds[c]
    BY <1>10 DEF FillCred, TypeOK
  <2>5. \A c \in Creds : Holds(p, c) => c = job[p].cred
    BY DEF Holds
  <2>6. QED
    BY <2>1, <2>2, <2>3, <2>4, <2>5, OthersHold, NothingCut
<1>11. ASSUME NEW p \in Procs, Crash(p)
       PROVE  /\ crashes' = crashes + 1
              /\ CutShort' \subseteq CutShort \union {job[p].cred}
  <2>1. crashes' = crashes + 1 /\ creds' = creds /\ job' = [job EXCEPT ![p] = Idle]
    BY <1>11 DEF Crash, files
  <2> SUFFICES ASSUME NEW c \in CutShort', c # job[p].cred PROVE c \in CutShort
    BY <2>1
  <2>2. c \in Creds /\ creds[c].state = "torn" /\ \A q \in Procs : ~Holds(q, c)'
    BY <2>1 DEF CutShort, Holds
  <2>3. \A q \in Procs : ~Holds(q, c)
    <3>1. ~Holds(p, c)
      BY DEF Holds
    <3>2. QED
      BY <2>1, <2>2, <3>1, OthersHold
  <2>4. QED
    BY <2>2, <2>3 DEF CutShort, Holds
<1>12. ASSUME NEW p \in Procs, Lock(p) \/ Enter(p) \/ Quit(p)
       PROVE  Same
  BY <1>12 DEF Lock, Enter, Quit, files, hist, CutShort, Writing, Free
<1>13. QED
  <2> DEFINE Result == \/ Same
                       \/ /\ crashes' = crashes + 1
                          /\ \E c : CutShort' \subseteq CutShort \union {c}
  <2>1. (Same \/ UNCHANGED vars \/ Expire) => Result
    BY <1>1, <1>2
  <2>2. ASSUME NEW p \in Procs, Crash(p) PROVE Result
    BY <1>11, <2>2
  <2> HIDE DEF Same, Result
  <2>3. ASSUME NEW p \in Procs, NEW x \in Passphrases, Initialize(p, x) \/ Unlock(p, x)
        PROVE  Same
    BY <1>4, <2>3
  <2>4. ASSUME Next PROVE Result
    BY <1>4, <1>5, <1>6, <1>7, <1>8, <1>9, <1>10, <1>12, <2>1, <2>2, <2>3, <2>4 DEF Next
  <2>5. Result
    BY <2>1, <2>4
  <2>6. QED
    BY <2>5 DEF Result, Same

(* CredentialsReadable: no credential that was stored gets out of reach of *)
(* the master key while its passphrase is not changed, and each torn file  *)
(* has a crash of its own (vault.py: initialize, unlock, import_credential,*)
(* update_credential).                                                     *)
THEOREM CredentialsReadableHolds == Spec => []CredentialsReadable
<1>1. Init => CutInv
  <2>1. ASSUME Init PROVE CutShort = {} /\ crashes = 0
    BY <2>1 DEF Init, CutShort, AbsentCred
  <2>2. QED
    BY <2>1, FS_EmptySet DEF CutInv
<1>2. TypeOK /\ CutInv /\ [Next]_vars => CutInv'
  <2> SUFFICES ASSUME TypeOK, CutInv, [Next]_vars PROVE CutInv'
    OBVIOUS
  <2>1. crashes \in Nat /\ Cardinality(CutShort) \in Nat
    BY FS_CardinalityType DEF TypeOK, CutInv
  <2>2. CASE CutShort' \subseteq CutShort /\ crashes' = crashes
    <3>1. /\ IsFiniteSet(CutShort') /\ Cardinality(CutShort') \in Nat
          /\ Cardinality(CutShort') <= Cardinality(CutShort)
      BY <2>2, FS_Subset, FS_CardinalityType DEF CutInv
    <3>2. QED
      BY <2>1, <2>2, <3>1 DEF CutInv
  <2>3. ASSUME NEW c, CutShort' \subseteq CutShort \union {c}, crashes' = crashes + 1
        PROVE  CutInv'
    <3>1. /\ IsFiniteSet(CutShort \union {c})
          /\ Cardinality(CutShort \union {c}) \in Nat
          /\ Cardinality(CutShort \union {c}) <= Cardinality(CutShort) + 1
      BY <2>1, FS_AddElement, FS_CardinalityType DEF CutInv
    <3>2. /\ IsFiniteSet(CutShort') /\ Cardinality(CutShort') \in Nat
          /\ Cardinality(CutShort') <= Cardinality(CutShort \union {c})
      BY <2>3, <3>1, FS_Subset, FS_CardinalityType
    <3>3. QED
      BY <2>1, <2>3, <3>1, <3>2 DEF CutInv
  <2>4. QED
    BY <2>2, <2>3, CutShortGrows
<1>3. KeyInv /\ CutInv => CredentialsReadable
  <2> SUFFICES ASSUME KeyInv, CutInv PROVE CredentialsReadable
    OBVIOUS
  <2>1. ASSUME Calm, NEW c \in Creds, creds[c].state = "whole"
        PROVE  master.state = "whole" /\ GetCredential(c, master.key)
    BY <2>1 DEF KeyInv, Closed, OneKey, GetCredential
  <2>2. QED
    BY <2>1 DEF CutInv, CredentialsReadable, Calm
<1>4. QED
  BY <1>1, <1>2, <1>3, TypeCorrect, KeysAgree, PTL DEF Spec
=============================================================================
