SPECIFICATION Spec
CONSTANTS
    IntMax = 999
    FrameBase <- ScaledBase
    LevelStride = 100
    MaxDisplay = 4
    MaxStack = 28
    MaxCallDepth = 2
    Canary = 777
    Library <- AnyCode
INVARIANTS
    TypeOK
    OverflowMeansFull
    EndsInMain
    OutcomesAreSound
    DivisionIsExact
    PromotionAgrees
    ComparisonsAreAnOrder
