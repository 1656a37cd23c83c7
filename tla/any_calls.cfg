SPECIFICATION CallSpec
CONSTANTS
    Identifier <- Names
    Predefined <- PredefinedNames
    MaxTab = 3
    MaxBtab = 3
    MaxAtab = 1
    MaxEtab = 1
    MaxScopes = 3
    Objects <- Classes
    TypeInfos <- Types
    Numbers <- SmallNumbers
INVARIANTS TablesIntact EntriesInOneBlock
