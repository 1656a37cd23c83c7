SPECIFICATION Spec
CONSTANTS
    Identifier <- Identifiers
    Predefined <- PredefinedNames
    ProgramName = "p"
    MaxTab = 8
    MaxBtab = 6
    MaxAtab = 3
    MaxEtab = 3
    MaxScopes = 6
    Vocabularies <- OnlyEnumerations
INVARIANTS
    FormalsAreDeclared
