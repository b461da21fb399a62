SPECIFICATION Spec
CONSTANTS
    Path <- MCPath
    Rank <- MCRank
    Content <- MCContent
    Name <- MCName
    Parses <- MCParses
    Defs <- MCDefs
    Refs <- MCRefs
    Component <- MCComponent
    Template <- MCTemplate
    Bound <- MCBound
    Literals <- MCLiterals
    Disks <- MCDisks
    Routes = {helper}
    ForeignKeys = FALSE
    NoContent = NoContent
    NoSymbol = NoSymbol
    Process = {wOne}
    ScanLimit = 2
    MaxEdits = 2
    MaxRequests = 1
    MaxFaults = 1
    MaxLosses = 1
    pA = pA
    pB = pB
    wOne = wOne
    wTwo = wTwo
    lib = lib
    consumer = consumer
    both = both
    broken = broken
    page = page
    helper = helper
    caller = caller
CHECK_DEADLOCK FALSE
INVARIANTS
    TypeOK
    HashNamesRows
    NoDanglingEdges
    EdgesRestored
    StatesMatchEdges
    FeaturesMatchSymbols
    FeaturesNeverPanic
