SPECIFICATION FairSpec
CONSTANTS
    Policies <- MCPolicies
    MinLimit = 1
    MinInterval = 1
    Jump = 3
    MaxAdjusts = 1
    MaxScan = 1
INVARIANTS
    TypeOK
    SilenceIsShort
PROPERTIES
    SpacedNotifications
    ClearIsLicensed
    NoHastyClear
    HookServes
