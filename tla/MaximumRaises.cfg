SPECIFICATION Spec
CONSTANTS
    Root <- MCRoot
    Member <- MCMember
    Collection = "collection"
    Item <- MCItem
    Derived <- MCDerived
    Value <- MCValue
    Expression <- MCExpression
    Operation <- MCOperation
    Outer <- MCOuter
    Inner <- MCInner
    Depth <- MCDepth
    MaxDepth <- MCMaxDepth
    Type <- MCType
    Unset = Unset
    i1 = i1
    i2 = i2
INVARIANTS
    MaximumIsIncomplete
