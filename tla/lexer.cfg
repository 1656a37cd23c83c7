SPECIFICATION LexerSpec

CONSTANTS
    Texts <- AllTexts
    MaxLexeme = 256

INVARIANTS
    ReadsByTheRules

PROPERTIES
    ReachesTheEnd
