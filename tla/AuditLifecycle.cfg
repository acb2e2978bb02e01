SPECIFICATION LiveSpec
CONSTANTS
    Events = {e1, e2, e3, e4}
    RingMax = 2
    ChanCap = 2
    BatchMax = 2
    DBFails = TRUE
    Dies = TRUE
    MaxRuns = 2
INVARIANTS TypeOK NoSendOnClosedChannel RowsFollowCalls EveryEventAccounted OrderlyStopLosesLessThanABatch
PROPERTIES ImplementsTrail StopEnds WaitingIsWritten
CHECK_DEADLOCK FALSE
