SPECIFICATION Spec
CONSTANTS
    m1 = m1  m2 = m2  k1 = k1  k2 = k2
    None = None
    Msgs <- TwoMsgs
    Continuable <- NoMsgs
    Calls <- TwoCalls
    MaxAttempts = 2
    TailOverlap = FALSE
SYMMETRY Symmetry
CHECK_DEADLOCK FALSE
INVARIANTS SlotOwned WaitHonest
