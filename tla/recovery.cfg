SPECIFICATION FrontSpec
CONSTANTS
    Programs <- OnlyShort
    Mistaken <- ShortNames
    Alphabet <- SomeTypes
    MaxEdits = 1
    Leftovers <- Nothing
INVARIANTS
    AlwaysAnswers
