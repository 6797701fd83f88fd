SPECIFICATION Spec
CONSTANTS
    Worker = {w1, w2}
    Dictionary = {d1, d2}
    Fact = {jobs, kids}
    Value = {one, two}
    Unset = Unset
    None = None
    Typed <- MCTyped
    Allowed <- MCAllowed
    Throwing <- MCThrowing
    Targets <- MCTargets
    Edits <- MCEdits
    Refused <- MCRefused
    Files <- MCFiles
    MaxGraphs <- MCMaxGraphs
    d1 = d1
    d2 = d2
    jobs = jobs
    kids = kids
    one = one
    two = two
SYMMETRY Workers
INVARIANTS
    TypeOK
    PersisterRests
    ServerInvariant
PROPERTIES
    UndisturbedSetIsRight
    UndisturbedSwapAgrees
