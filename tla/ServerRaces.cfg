SPECIFICATION Spec
CONSTANTS
    Worker = {w1, w2}
    Dictionary = {d1}
    Fact = {jobs, kids}
    Value = {one, two}
    Unset = Unset
    None = None
    Typed <- MCTyped
    Allowed <- JobsAlone
    Throwing <- Nothing
    Targets <- Plain
    Edits <- MCEdits
    Refused <- MCRefused
    Files <- MCFiles
    MaxGraphs <- MCMaxGraphs
    d1 = d1
    d2 = d2
    jobs = jobs
    kids = kids
    one = one
    two = two
SYMMETRY Workers
PROPERTIES
    NoBadValueSucceeds
