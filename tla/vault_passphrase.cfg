CONSTANTS
    p = p
    q = q
    c = c
    d = d
    Procs <- MCProcs
    Passphrases <- MCPassphrases
    Creds <- MCCreds
    MaxKeys = 1
    MaxChanges = 1
    MaxCrashes = 0
SPECIFICATION Spec
CHECK_DEADLOCK FALSE
INVARIANT PassphraseOpens
