SPECIFICATION Spec
CONSTANTS
    Writable <- MCWritable
    Derived <- MCDerived
    Value = {0, 1, 2}
    Result <- MCResult
    Incomplete = Incomplete
    Unset = Unset
    Raises = Raises
    Reads <- MCReads
    Compute <- TotalCompute
    LimitReads <- CrossLimitReads
    Verdict <- CrossVerdict
    Eval <- TotalEval
    TestDictionary = FALSE
INVARIANTS
    TypeOK
    CacheMatchesStore
    CacheMatchesServed
    UnsavedIsQueued
PROPERTIES
    CommitIsValidated
    ImplementsCommittedGraph
