SPECIFICATION Spec
CONSTANTS
    NoName = NoName
    File <- MCFile
    Repositories <- MCRepositories
    Builtins <- MCBuiltins
INVARIANTS
    TypeOK
    AnnotationWins
    TerminalContracts
    ConfidentEdgesTyped
    OutsideReceiversUnlinked
    SingletonFollowed
    AliasesClosed
    IncrementalMatchesFull
