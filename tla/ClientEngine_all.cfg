SPECIFICATION ClientSpec
CONSTANTS
    f = f  f2 = f2  p1 = p1  p2 = p2
    MaxVersion = 3
    Held <- SomeHeld
    HalfDone <- SomeHalfDone
    Contexts = {NoFarm, f, f2}
    NoFarm = NoFarm
    Env <- SomeEnv
    Procs = {p1, p2}
    MaxRestarts = 1
    MaxOvertakes = 1
    None = None
SYMMETRY Symmetry
INVARIANTS OneEngine  EngineAlways CleanLaunchApplies
