SPECIFICATION Spec
CONSTANTS
    Tab = {t1, t2}
    Claims = {"good", "mfa_missing"}
    Path = {p1, p2}
    IdleTTL = 1
    AbsoluteTTL = 3
    Leeway = 1
    FlowTTL = 2
    EndSession = TRUE
    MaxTime = 4
    MaxFlows = 2
    None = None
    p1 = p1
    p2 = p2
    t1 = t1
    t2 = t2
SYMMETRY TabSymmetry
INVARIANTS TypeOK NoSilentReinstatement ReinstatementBounded LogoutEndsSSO NoSpuriousRefusal ReturnsWhereAsked SingleUse
