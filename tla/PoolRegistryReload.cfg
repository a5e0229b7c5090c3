SPECIFICATION Spec
CONSTANTS
    Rosters = {r1, r2}
    Labels = {l1}
    Savers = {s1}
    Reloader = Reloader
    Nobody = Nobody
    Invalid = Invalid
    None = None
    May = {"signal"}
    Grace = 1
    MaxClock = 1
INVARIANT LiveIsFile
CHECK_DEADLOCK FALSE
