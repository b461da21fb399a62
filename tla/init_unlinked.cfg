SPECIFICATION Spec
CONSTANTS
    Path <- MCPath
    Content <- MCContent
    Disks <- MCDisks
    Parses = {one, two}
    NoContent = NoContent
    Session = {sOne}
    MaxInits = 1
    MaxOpens = 1
    MaxEdits = 0
    MaxFaults = 0
    pA = pA
    pB = pB
    one = one
    two = two
    broken = broken
    sOne = sOne
CHECK_DEADLOCK FALSE
PROPERTY PublishedLinked
