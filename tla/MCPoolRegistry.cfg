SPECIFICATION Spec
CONSTANTS
    Rosters = {r1, r2}
    Labels = {l1, l2}
    Savers = {s1, s2}
    Reloader = Reloader
    Nobody = Nobody
    Invalid = Invalid
    None = None
    May = {"edit", "signal", "failure", "restart"}
    Grace = 2
    MaxClock = 4
SYMMETRY Symmetry
INVARIANTS
    CurrentIsAccepted
    OnlyGraceIsAccepted
    GraceUnlessRelabelled
    LiveIsFileUnlessOvertaken
CHECK_DEADLOCK FALSE
