SPECIFICATION DispatchSpec
CONSTANTS
    NoHandler = NoHandler
    Ids <- MCIds
INVARIANT NoneReplaced
