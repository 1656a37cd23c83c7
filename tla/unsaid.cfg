SPECIFICATION FrontSpec
CONSTANTS
    Programs <- UnsaidTexts
    Mistaken <- ShortNames
    Alphabet = {"minus"}
    MaxEdits = 1
    Leftovers <- Anything
INVARIANT
    NothingForgotten
