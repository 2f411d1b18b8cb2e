SPECIFICATION FairSpec
CONSTANTS
    Tab = {t1, t2}
    Email = {alice1, alice2, bob}
    Recipient = {rAlice, rBob}
    Canonical <- MCCanonical
    Terms = {d1, d2, None}
    MaxKeys = 1
    MaxChanges = 2
    None = None
    t1 = t1
    t2 = t2
    alice1 = alice1
    alice2 = alice2
    bob = bob
    rAlice = rAlice
    rBob = rBob
    d1 = d1
    d2 = d2
INVARIANTS TypeOK AdmittedOnlyConsented
PROPERTY AcceptingLetsIn
