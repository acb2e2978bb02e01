SPECIFICATION LiveSpec
CONSTANTS
    Gets = {g1, g2}
    Checks = {c1}
    Slots = 1
    MaxRetries = 1
    MaxFileSize = 0
    Sizes = {0}
    Lengths = {1}
PROPERTIES LeaverEnds RetriesEnd
CHECK_DEADLOCK FALSE
