SPECIFICATION TrackedSpec
CONSTANTS
    IntMax = 999
    FrameBase <- ScaledBase
    LevelStride = 100
    MaxDisplay = 4
    MaxStack = 100
    MaxCallDepth = 25
    Canary = 777
    Library <- Generated
    Heights <- GeneratedHeights
INVARIANTS
    LinkageIntact
    DisplayHoldsLatest
    NoMachineFault
    DepthLimitIdle
    BalancedInvariant
PROPERTIES
    ReturnRestoresCaller
    HiddenWordsStable
    Termination
    ImplementsActivations
