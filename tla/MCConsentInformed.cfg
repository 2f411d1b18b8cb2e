SPECIFICATION Spec
CONSTANTS
    Tab = {t1}
    Email = {alice1}
    Recipient = {rAlice}
    Canonical <- MCCanonical
    Terms = {d1, d2}
    MaxKeys = 1
    MaxChanges = 2
    None = None
    t1 = t1
    alice1 = alice1
    bob = bob
    rAlice = rAlice
    rBob = rBob
    d1 = d1
    d2 = d2
INVARIANT ConsentIsInformed
