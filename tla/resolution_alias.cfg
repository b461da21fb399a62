SPECIFICATION Spec
CONSTANTS
    NoName = NoName
    File <- MCFile
    Repositories <- AliasRepositories
    Builtins <- MCBuiltins
INVARIANT AliasFollowed
