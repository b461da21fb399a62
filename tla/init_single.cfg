SPECIFICATION Spec
CONSTANTS
    Path <- MCPath
    Content <- MCContent
    Disks <- MCDisks
    Parses = {one, two}
    NoContent = NoContent
    Session = {sOne}
    MaxInits = 2
    MaxOpens = 1
    MaxEdits = 2
    MaxFaults = 1
    pA = pA
    pB = pB
    one = one
    two = two
    broken = broken
    sOne = sOne
CHECK_DEADLOCK FALSE
INVARIANTS
    TypeOK
    NeverHalfBuilt
PROPERTIES
    PublishedUpToDate
    PublishedReparsed
