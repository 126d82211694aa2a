SPECIFICATION QuerySpec
CONSTANTS
    sys = sys
    sysSub = sysSub
    home = home
    homeSub = homeSub
    dots = dots
    Bad = Bad
    Missing = Missing
    Directory = Directory
    Broken = Broken
    NoDoc = NoDoc
    Nothing = Nothing
    Docs <- MCDocs
    DefaultDoc <- MCDefaultDoc
    Paths <- MCPaths
    Below <- MCBelow
    Rejected = {dots}
    SystemPaths = {sys}
    Span = 16
    MinHeartbeat = 1
    MinScanMs = 2
    DefaultHeartbeat = 6
    DefaultScanMs = 4
    DefaultPath = TRUE
    Readers = {r1, r2}
    DomainChars = {"a", "."}
    PatternChars = {"a", ".", "*"}
    PathChars = {"a", "/"}
    Dot = "."
    Star = "*"
    Slash = "/"
    MaxLength = 4
INVARIANTS
    DefaultIsCreated
