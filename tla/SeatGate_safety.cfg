SPECIFICATION Spec
CONSTANTS
    Callers = {c1, c2, c3}
    Requests = {r1, r2}
    Slots = {0, 2}
    Windows = {1, 2}
    NoCaller = NoCaller
SYMMETRY Symmetry
INVARIANTS
    SeatAccounting
    GeneratingKeepsSeat
    NumbersAreTrue
PROPERTIES
    PoolSpec
