SPECIFICATION Spec
CONSTANTS
    Request = {r1, r2}
    Token = {"recipient", Junk}
    Junk = Junk
    Share = {"file-limited", "folder-readall"}
    Name = {"Plan.pdf"}
    MaxDatasets = 2
    MaxCount = 1
    MaxEntries = 3
    None = None
    r1 = r1
    r2 = r2
SYMMETRY RequestSymmetry
INVARIANTS TypeOK LimitHeld Apart
