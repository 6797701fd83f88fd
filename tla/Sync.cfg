SPECIFICATION Spec
CONSTANTS
    Plain <- MCPlain
    Member <- MCMember
    CollectionOf <- MCCollectionOf
    ItemOf <- MCItemOf
    Value <- MCValue
    Kind <- MCKind
    Items <- MCItems
    Invalid = {"bad street", "bad city"}
    BadStreet = {"bad street"}
    Full <- MCFull
    Shown <- MCShown
    NotRead = NotRead
    Unset = Unset
    Releases = 3
    Total <- MCTotal
    Declared <- MCDeclared
INVARIANTS
    TypeOK
    CheckedFits
    OnlyMisfitsGo
    EveryFileLoads
    EachMigrationOnce
    ReadsAreCommitted
    SyncInvariant
