------------------------------- MODULE Vault -------------------------------
(***************************************************************************)
(* The credential vault (lib/remote/vault.py) with the screens that use it *)
(* (tui/views/substations.py).  A master key is made once and kept in a    *)
(* file, encrypted under the operator's passphrase; credentials are files  *)
(* encrypted under the master key.  A process that unlocked the vault      *)
(* keeps the key in memory; a session file says to all processes that      *)
(* somebody unlocked it lately, and expires.  Files are emptied and then   *)
(* filled, there is no lock, and a process may die in between.             *)
(*                                                                         *)
(* The cipher is external: what was encrypted under one key is read with   *)
(* that key and no other, and a wrong passphrase is told apart.            *)
(***************************************************************************)
EXTENDS Naturals, FiniteSets

CONSTANTS
    Procs,        \* interfaces and programs that use the vault
    Passphrases,
    Creds,        \* ids of credentials, each given once (uuid4)
    MaxKeys,      \* bound: master keys generated
    MaxChanges,   \* bound: changes of the passphrase
    MaxCrashes    \* bound: processes that die inside a write

VARIABLES
    master,     \* .master.key
    session,    \* .session: none, torn, valid or stale
    creds,      \* the files of credentials/
    fernet,     \* each process's key, or Keyless
    shown,      \* each interface's vault_unlocked
    job,        \* what each process is writing
    keys,       \* history: master keys generated
    rivals,     \* history: a vault was set up by two processes at once
    changes,    \* history: changes of the passphrase
    crashes     \* history: processes that died inside a write

files == <<master, session, creds>>
memory == <<fernet, shown, job>>
hist == <<keys, rivals, changes, crashes>>
vars == <<files, memory, hist>>

Keyless == 0
Garbled == MaxKeys + 1      \* bytes that are no Fernet key
GoodKeys == 1..MaxKeys
Idle == [kind |-> "idle"]
NoPhrase == "none"
AbsentMaster == [state |-> "absent", phrase |-> NoPhrase, key |-> Keyless]
TornMaster == [AbsentMaster EXCEPT !.state = "torn"]
AbsentCred == [state |-> "absent", key |-> Keyless]
TornCred == [AbsentCred EXCEPT !.state = "torn"]

Init ==
    /\ master = AbsentMaster /\ session = "none"
    /\ creds = [c \in Creds |-> AbsentCred]
    /\ fernet = [p \in Procs |-> Keyless]
    /\ shown = [p \in Procs |-> FALSE]
    /\ job = [p \in Procs |-> Idle]
    /\ keys = 0 /\ rivals = FALSE /\ changes = 0 /\ crashes = 0

Free(p) == job[p] = Idle
IsInitialized == master.state # "absent"
\* is_unlocked: a process that holds no key believes a valid session.
IsUnlocked(p) == fernet[p] # Keyless \/ session = "valid"
Writing(p, kind) == ~Free(p) /\ job[p].kind = kind

\* get_credential: it parses, and was encrypted under the key at hand.
GetCredential(c, k) == creds[c].state = "whole" /\ creds[c].key = k

\* The passphrase was taken: the screen opens.
Shows(p) == shown' = [shown EXCEPT ![p] = TRUE]

-----------------------------------------------------------------------------
(* Setting up, unlocking, locking.                                         *)

MasterJob(x, k) == [kind |-> "master", opened |-> FALSE, phrase |-> x, key |-> k]

\* Mutant: initialize does not look for a vault that is there.
InitializeOver(p, x) ==
    /\ Free(p) /\ keys < MaxKeys /\ keys' = keys + 1
    /\ rivals' = (rivals \/ \E q \in Procs : Writing(q, "master"))
    /\ job' = [job EXCEPT ![p] = MasterJob(x, keys')]
    /\ UNCHANGED <<files, fernet, shown, changes, crashes>>

\* initialize: refused if the file is there; else a key of its own.
Initialize(p, x) ==
    /\ Free(p) /\ ~IsInitialized
    /\ keys < MaxKeys /\ keys' = keys + 1
    /\ rivals' = (rivals \/ \E q \in Procs : Writing(q, "master"))
    /\ job' = [job EXCEPT ![p] = MasterJob(x, keys')]
    /\ UNCHANGED <<files, fernet, shown, changes, crashes>>

\* open(master_path, 'w').
OpenMaster(p) ==
    /\ Writing(p, "master") /\ ~job[p].opened
    /\ master' = TornMaster
    /\ job' = [job EXCEPT ![p].opened = TRUE]
    /\ UNCHANGED <<session, creds, fernet, shown, hist>>

\* json.dump; a new vault is unlocked at once, and a changed passphrase ends
\* the session.
FillMaster(p) ==
    /\ Writing(p, "master") /\ job[p].opened
    /\ LET j == job[p] IN
         /\ master' = [state |-> "whole", phrase |-> j.phrase, key |-> j.key]
         /\ IF j.key = Garbled
              THEN session' = "none" /\ UNCHANGED <<fernet, shown>>
              ELSE /\ fernet' = [fernet EXCEPT ![p] = j.key]
                   /\ Shows(p)
                   /\ UNCHANGED session
    /\ job' = [job EXCEPT ![p] = Idle]
    /\ UNCHANGED <<creds, hist>>

\* The passphrase opens the master key: a torn file does not parse, a wrong
\* passphrase raises InvalidPassphrase, garbled bytes are no Fernet key.
Opens(x) == master.state = "whole" /\ master.phrase = x /\ master.key \in GoodKeys

\* unlock: the key is in memory, and a session is to be written.
Unlock(p, x) ==
    /\ Free(p) /\ Opens(x)
    /\ fernet' = [fernet EXCEPT ![p] = master.key]
    /\ session' = "torn"
    /\ job' = [job EXCEPT ![p] = [kind |-> "session"]]
    /\ UNCHANGED <<master, creds, shown, hist>>

\* _create_session is done, and the screen opens; what fills a file that was
\* unlinked is lost.
FillSession(p) ==
    /\ Writing(p, "session")
    /\ session' = IF session = "torn" THEN "valid" ELSE session
    /\ Shows(p)
    /\ job' = [job EXCEPT ![p] = Idle]
    /\ UNCHANGED <<master, creds, fernet, hist>>

\* lock: the key is forgotten here, and the session of all is cleared.
Lock(p) ==
    /\ Free(p) /\ fernet[p] # Keyless
    /\ fernet' = [fernet EXCEPT ![p] = Keyless]
    /\ session' = "none"
    /\ UNCHANGED <<master, creds, shown, job, hist>>

\* SESSION_TIMEOUT_HOURS pass.
Expire ==
    /\ session = "valid" /\ session' = "stale"
    /\ UNCHANGED <<master, creds, memory, hist>>

\* _enter_substations_mode: a session that is not valid is cleared, and the
\* prompt comes up.
Enter(p) ==
    /\ Free(p) /\ IsInitialized
    /\ IF IsUnlocked(p)
         THEN Shows(p) /\ UNCHANGED session
         ELSE session' = "none" /\ UNCHANGED shown
    /\ UNCHANGED <<master, creds, fernet, job, hist>>

\* The process ends.
Quit(p) ==
    /\ Free(p) /\ (fernet[p] # Keyless \/ shown[p])
    /\ fernet' = [fernet EXCEPT ![p] = Keyless]
    /\ shown' = [shown EXCEPT ![p] = FALSE]
    /\ UNCHANGED <<files, job, hist>>

-----------------------------------------------------------------------------
(* Credentials.                                                            *)

CredJob(c, k) == [kind |-> "cred", cred |-> c, opened |-> FALSE, key |-> k]

\* import_to_vault, import_credential: _require_unlock, a file of its own.
Store(p, c) ==
    /\ Free(p) /\ creds[c].state = "absent" /\ fernet[p] # Keyless
    /\ \A q \in Procs : Writing(q, "cred") => job[q].cred # c
    /\ job' = [job EXCEPT ![p] = CredJob(c, fernet[p])]
    /\ UNCHANGED <<files, fernet, shown, hist>>

\* update_credential: read, changed in part, and written over; what is not
\* given, perhaps the data, stays as it was encrypted.
Update(p, c) ==
    /\ Free(p) /\ creds[c].state = "whole" /\ fernet[p] # Keyless
    /\ \E k \in {fernet[p], creds[c].key} : job' = [job EXCEPT ![p] = CredJob(c, k)]
    /\ UNCHANGED <<files, fernet, shown, hist>>

Delete(p, c) ==
    /\ Free(p) /\ creds[c].state # "absent" /\ fernet[p] # Keyless
    /\ creds' = [creds EXCEPT ![c] = AbsentCred]
    /\ UNCHANGED <<master, session, memory, hist>>

OpenCred(p) ==
    /\ Writing(p, "cred") /\ ~job[p].opened
    /\ creds' = [creds EXCEPT ![job[p].cred] = TornCred]
    /\ job' = [job EXCEPT ![p].opened = TRUE]
    /\ UNCHANGED <<master, session, fernet, shown, hist>>

FillCred(p) ==
    /\ Writing(p, "cred") /\ job[p].opened
    /\ creds' = [creds EXCEPT ![job[p].cred] =
         IF @.state = "absent" THEN @ ELSE [state |-> "whole", key |-> job[p].key]]
    /\ job' = [job EXCEPT ![p] = Idle]
    /\ UNCHANGED <<master, session, fernet, shown, hist>>

-----------------------------------------------------------------------------
(* Changing the passphrase.                                                *)

\* change_passphrase unlocks without a session and then decodes, as base64,
\* the two halves of the key it holds, which are raw bytes already.
\* Mostly the decoder refuses them (binascii.Error) ...
ChangeRefused(p, x) ==
    /\ Free(p) /\ Opens(x)
    /\ fernet' = [fernet EXCEPT ![p] = master.key]
    /\ UNCHANGED <<files, shown, job, hist>>

\* ... else what it makes of them is stored under the new passphrase.
ChangePassphrase(p, x, y) ==
    /\ Free(p) /\ Opens(x)
    /\ changes < MaxChanges /\ changes' = changes + 1
    /\ fernet' = [fernet EXCEPT ![p] = master.key]
    /\ rivals' = (rivals \/ \E q \in Procs : Writing(q, "master"))
    /\ job' = [job EXCEPT ![p] = MasterJob(y, Garbled)]
    /\ UNCHANGED <<files, shown, keys, crashes>>

Crash(p) ==
    /\ ~Free(p)
    /\ crashes < MaxCrashes /\ crashes' = crashes + 1
    /\ job' = [job EXCEPT ![p] = Idle]
    /\ fernet' = [fernet EXCEPT ![p] = Keyless]
    /\ shown' = [shown EXCEPT ![p] = FALSE]
    /\ UNCHANGED <<files, keys, rivals, changes>>

Next ==
    \/ Expire
    \/ \E p \in Procs :
         \/ \E x \in Passphrases : Initialize(p, x) \/ Unlock(p, x) \/ ChangeRefused(p, x)
         \/ \E x, y \in Passphrases : ChangePassphrase(p, x, y)
         \/ \E c \in Creds : Store(p, c) \/ Update(p, c) \/ Delete(p, c)
         \/ OpenMaster(p) \/ FillMaster(p) \/ FillSession(p) \/ OpenCred(p) \/ FillCred(p)
         \/ Lock(p) \/ Enter(p) \/ Quit(p) \/ Crash(p)

Spec == Init /\ [][Next]_vars

-----------------------------------------------------------------------------
(* Properties.                                                             *)

\* As long as nobody changes the passphrase and one process set the vault up,
\* every credential that is whole can be read by whoever has the passphrase:
\* the master file is whole and its key is the credential's, through any
\* crashes, sessions and number of processes (a credential is written only
\* by a process that unlocked, initialize refuses a vault that is there).
\* One that is not whole is being written, or was cut short by a process that
\* died, one for one.
CutShort == {c \in Creds : /\ creds[c].state = "torn"
                           /\ \A p \in Procs : ~(Writing(p, "cred") /\ job[p].opened /\ job[p].cred = c)}
CredentialsReadable ==
    /\ (changes = 0 /\ ~rivals) => \A c \in Creds : creds[c].state = "whole" =>
         master.state = "whole" /\ GetCredential(c, master.key)
    /\ Cardinality(CutShort) <= crashes

\* "Change the vault master passphrase": whoever has the passphrase on file
\* can read what is stored.
PassphraseOpens ==
    (crashes = 0 /\ ~rivals) => \A c \in Creds : creds[c].state = "whole" =>
        \/ master.state = "torn" /\ \E p \in Procs : Writing(p, "master")
        \/ \E x \in Passphrases : Opens(x) /\ GetCredential(c, master.key)
=============================================================================
