SPECIFICATION FrontSpec
CONSTANTS
    Programs <- EveryText
    Mistaken <- ShortNames
    Alphabet <- EveryType
    MaxEdits = 1
    Leftovers <- Nothing
INVARIANTS
    ReadsWhatIsWritten
    CaughtAreEmptyParts
    NothingDropped
    OnlySignsForgotten
