SPECIFICATION ToolchainSpec
CONSTANTS
    Identifier <- Names
    Predefined <- PredefinedNames
    MaxTab = 200
    MaxBtab = 30
    MaxAtab = 20
    MaxEtab = 5
    MaxScopes = 6
    MaxParameterSlots = 16
    IntMax = 9999
    FrameBase <- ScaledBase
    LevelStride = 100
    MaxDisplay = 6
    MaxStack = 200
    MaxCallDepth = 25
    Canary = 777
    Programs <- EveryProgram
INVARIANTS
    MeaningPreserved
    AcceptedIsGenerated
    GeneratedIsBalanced
    
PROPERTIES
    Finishes
