SPECIFICATION Spec
CONSTANTS
    Key <- MCKey
    Item <- MCItem
    Collection <- MCCollection
    Field <- MCField
    ItemsOf <- MCItemsOf
    Value <- MCValue
    Unset = Unset
    Limited <- MCLimited
    MaxSize <- MCMaxSize
    Allowed <- MCAllowed
    Throwing <- MCThrowing
    MaxItems <- MCMaxItems
    OuterItem = {i1, i2}
    first = i1
    InnerItem = {j1}
    MaxOuter = 3
    MaxInner = 1
    good = good
    bad = bad
    odd = odd
    Thrown = {}
PROPERTIES
    DeleteCascades
