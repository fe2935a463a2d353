SPECIFICATION FairSpec
CONSTANTS
    o1 = o1  o2 = o2  p1 = p1  p2 = p2  p3 = p3
    None = None
    Ops = {o1, o2}
    Pids = {p1, p2, p3}
    MaxRestarts = 1
    Queueing = {"stop", "toggle", "quit"}
    LateEngine = FALSE
\* The app exits on Quit.
CHECK_DEADLOCK FALSE
INVARIANTS NoStray EngineAccounted
PROPERTIES StopHolds Settles
