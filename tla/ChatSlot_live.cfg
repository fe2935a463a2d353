SPECIFICATION LiveSpec
CONSTANTS
    m1 = m1  m2 = m2  k1 = k1  k2 = k2
    None = None
    Msgs <- OneMsg
    Continuable <- OneMsg
    Calls <- TwoCalls
    MaxAttempts = 2
    TailOverlap = FALSE
CHECK_DEADLOCK FALSE
PROPERTIES StreamStaysDeleted NothingHangs
