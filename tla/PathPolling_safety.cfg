SPECIFICATION Spec
CONSTANTS
    a = a
    b = b
    outer = outer
    inner = inner
    p1 = p1
    p2 = p2
    Paths <- MCPaths
    Prints = {p1, p2}
    Absent = Absent
    Roots <- MCRoots
    Below <- MCBelow
INVARIANTS
    TypeOK
    MemoryIsExplained
PROPERTIES
    EventsAreReal
    ChangesAreReported
