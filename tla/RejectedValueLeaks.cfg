SPECIFICATION DemoSpec
CONSTANTS
    Writable <- MCWritable
    Derived <- MCDerived
    Value = {0, 1, 2}
    Result <- MCResult
    Incomplete = Incomplete
    Unset = Unset
    Raises = Raises
    Reads <- MCReads
    Compute <- TotalCompute
    LimitReads <- OwnLimitReads
    Verdict <- OwnVerdict
    Eval <- TotalEval
    TestDictionary = FALSE
INVARIANTS
    ShownWithinLimits
