SPECIFICATION HartSpec
CONSTANTS
    Xlen = 8
    WordBits = 4
    HalfBits = 3
    ByteBits = 2
    Corners = {0, 1, 3, 8, 15, 16, 127, 128, 136, 240, 255}
    Imms = {0, 5, 255}
    Offsets = {8, 252}
    MaxSteps = 1
    Plain <- MCPlain
    Values <- MCValues
    Zimms <- MCZimms
    MaxCsrs = 3
    Chars = {"a", "b"}
    Newline = "newline"
    Nul = "nul"
    Markers <- MCMarkers
    ConsSize = 4
    MaxChars = 8
INVARIANTS AtomicTypeOK DivisionIdentity FormsAgree AmosAgree ConsoleStops
PROPERTY CsrViews
\* a program ends
CHECK_DEADLOCK FALSE
