SPECIFICATION MCSpec
CONSTANTS
    x1 = x1  x2 = x2  e1 = e1  e2 = e2  few = few  many = many
    Proxies = {x1, x2}
    Engines = {e1, e2}
    ModelSets = {few, many}
    None = None
    MayDie = {"proxy", "engine", "loading"}
    Signals = TRUE
    MaxPresses = 1
    MaxDeaths = 2
\* The farm may have gone.
CHECK_DEADLOCK FALSE
INVARIANTS OneProxy RoutesWhatItSays
PROPERTIES DownIsHeeded ChainMoves
