SPECIFICATION Spec
CONSTANTS
    Identifier <- Identifiers
    Predefined <- PredefinedNames
    ProgramName = "p"
    MaxTab = 8
    MaxBtab = 6
    MaxAtab = 2
    MaxEtab = 1
    MaxScopes = 6
    Vocabularies <- OnlyShadowing
INVARIANTS
    CallsAreInScope
