SPECIFICATION Spec
CONSTANTS
    Bound = 32
    Literal <- MCLiteral
INVARIANTS
    TypeOK
    RegularIsOrdinary
    ComputedValuesAreOrdered
    ZeroDenominatorsComeFromOverflow
PROPERTIES
    OperationsAreExact
