CONSTANTS
    Slices = {x, y}
    Texts <- MCTexts
    Digits = 2
    DigitBits = 1
    IntMax = 9
    m = 147
    Seeds = {188}
    CharIsSigned = TRUE
SYMMETRY Symmetric
SPECIFICATION Spec
INVARIANTS
    TypeOK
    CompareIsTheOrder
    HexTellsApart
    HashOfContent
    HashSeparates
