CONSTANTS
    NChar = 314
    NLiteral = 256
    MaxFreq = 32768
    CodeWidth = 16
    Positions = {0}
SPECIFICATION SkewedFile
INVARIANT
    RoundTrip
