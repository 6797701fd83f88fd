SPECIFICATION FairSpec
CONSTANTS
    Writable <- MCWritable
    Derived <- MCDerived
    Value = {0, 2}
    Result <- MCResult
    Incomplete = Incomplete
    Unset = Unset
    Raises = Raises
    Reads <- MCReads
    Compute <- PartialCompute
    LimitReads <- CrossLimitReads
    Verdict <- CrossVerdict
    Eval <- PartialEval
    TestDictionary = TRUE
INVARIANTS
    SaveInvariant
PROPERTIES
    CommitIsValidated
    SaveEnds
