SPECIFICATION Spec
CONSTANTS
    Rosters = {r1, r2}
    Labels = {l1, l2}
    Savers = {s1}
    Reloader = Reloader
    Nobody = Nobody
    Invalid = Invalid
    None = None
    May = {}
    Grace = 2
    MaxClock = 4
INVARIANT GraceIsHonoured
CHECK_DEADLOCK FALSE
