SPECIFICATION Spec
CONSTANTS
    Path <- MCPath
    Rank <- MCRank
    Content <- MCContent
    Name <- MCName
    Parses <- MCParses
    Defs <- MCDefs
    Refs <- MCRefs
    Component <- MCComponent
    Template <- MCTemplate
    Bound <- MCBound
    Literals <- MCLiterals
    Disks <- MCDisks
    Routes = {}
    ForeignKeys = TRUE
    NoContent = NoContent
    NoSymbol = NoSymbol
    Process = {wOne}
    ScanLimit = 1
    MaxEdits = 1
    MaxRequests = 1
    MaxFaults = 0
    MaxLosses = 0
    pA = pA
    pB = pB
    wOne = wOne
    wTwo = wTwo
    lib = lib
    consumer = consumer
    both = both
    broken = broken
    page = page
    helper = helper
    caller = caller
CHECK_DEADLOCK FALSE
INVARIANT StaleListComplete
