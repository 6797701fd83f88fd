SPECIFICATION SpecFromEmpty
CONSTANTS
    Writable <- MCWritable
    Derived <- MCDerived
    Value = {0, 1, 2}
    Result <- MCResult
    Incomplete = Incomplete
    Unset = Unset
    Raises = Raises
    Reads <- MCReads
    Compute <- PartialCompute
    LimitReads <- CrossLimitReads
    Verdict <- CrossVerdict
    Eval <- PartialEval
    TestDictionary = FALSE
INVARIANTS
    CacheMatchesStore
