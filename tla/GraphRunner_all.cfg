SPECIFICATION LiveSpec
CONSTANTS
    draft = draft  go = go  check = check
    None = None
    Boxes <- Document
    Rank <- InOrder
    Wires <- Forward
    Backs <- Around
    Walk <- Round
    Asking <- Askers
    Parking <- Confirms
    Manual <- Buttons
    Gating <- Gates
    Repeats <- Once
    Cap = 1
    MaxIterations = 2
    MaxStarts = 2
    MaxPresses = 1
    MaxEdits = 1
CHECK_DEADLOCK FALSE
INVARIANTS QuietWhenIdle NoGhostPark DoneIsCurrent PressKept
PROPERTY RunTerminates
