SPECIFICATION FairHSpec
CONSTANTS
    Path <- MCPath
    Rank <- MCRank
    Content <- MCContent
    Name <- MCName
    Parses <- MCParses
    Defs <- MCDefs
    Refs <- MCRefs
    Component <- MCComponent
    Template <- MCTemplate
    Bound <- MCBound
    Literals <- MCLiterals
    Disks <- MCOneDisk
    Routes = {}
    ForeignKeys = TRUE
    NoContent = NoContent
    NoSymbol = NoSymbol
    Process = {wOne, wTwo}
    ScanLimit = 2
    MaxEdits = 1
    MaxRequests = 1
    MaxFaults = 1
    MaxLosses = 0
    pA = pA
    pB = pB
    wOne = wOne
    wTwo = wTwo
    lib = lib
    consumer = consumer
    both = both
    broken = broken
    page = page
    helper = helper
    caller = caller
CHECK_DEADLOCK FALSE
INVARIANTS
    HashNamesRows
    NoDanglingEdges
    EdgesRestored
PROPERTIES
    ReplacedTogether
    ImplementsFileIndex
    IndexConverges
