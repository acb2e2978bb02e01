SPECIFICATION Spec
CONSTANTS
    Gets = {g1, g2}
    Checks = {c1}
    Slots = 1
    MaxRetries = 2
    MaxFileSize = 1
    Sizes = {0, 1, 2}
    Lengths = {1, 2}
SYMMETRY GetSymmetry
INVARIANTS SlotsAreExact LoggedOnce KnownSizeExposesCuts
PROPERTIES OneAnswerPerReply
CHECK_DEADLOCK FALSE
