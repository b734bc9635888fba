CONSTANTS
    NChar = 5
    NLiteral = 4
    MaxFreq = 11
    CodeWidth = 4
    Positions = {0, 63, 64, 255, 256, 767, 768, 1535, 1536, 2047}
SPECIFICATION Spec
INVARIANTS
    SiblingProperty
    CountsBounded
    RoundTrip
    ShortCodes
PROPERTY
    UpdateEnds
