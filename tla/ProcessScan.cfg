SPECIFICATION FairSpec
CONSTANTS
    game = game
    tool = tool
    guard = guard
    None = None
    Denied = "denied"
    Pathless = "pathless"
    Pids = {1, 2}
    Programs <- MCPrograms
    PathOf <- MCPathOf
    BaseOf <- MCBaseOf
    Inside <- MCInside
    Policies <- MCPolicies
    MaxAttempts = 3
    Slack = 0
INVARIANTS
    TypeOK
    NoListIsAnError
    StayersAreJudged
PROPERTIES
    ScanEnds
