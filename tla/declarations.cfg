SPECIFICATION Spec
CONSTANTS
    Identifier <- Identifiers
    Predefined <- PredefinedNames
    ProgramName = "p"
    MaxTab = 7
    MaxBtab = 5
    MaxAtab = 2
    MaxEtab = 1
    MaxScopes = 6
    Vocabularies <- EveryVocabulary
INVARIANTS
    TypeOK
    StorageIsDisjoint
    FramesAreLegal
    FormalsAreParameters
    LevelIsNesting
    ScopesAreClosed
PROPERTIES
    DeclarationsAreStable
    ImplementsScopes
