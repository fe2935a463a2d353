SPECIFICATION FairSpec
CONSTANTS
    Callers = {c1, c2}
    Requests = {r1}
    Slots = {1}
    Windows = {1, 2}
    NoCaller = NoCaller
PROPERTIES
    SeatsComeBack
