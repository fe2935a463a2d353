SPECIFICATION FairSpec
CONSTANTS
    a = a
    b = b
    gguf = gguf
    stt = stt
    v1 = v1
    v2 = v2
    w = w
    Files = {a, b}
    Small = {}
    Pinned = {b}
    Stores = {gguf, stt}
    StoreOf <- TwoStores
    Versions = {v1, v2, w}
    Size <- Sizes
    Good = v1
    Bad = Bad
    Absent = Absent
    None = None
    CutBetweenSaves = {}
    ReplacedWhileCopied = FALSE
 
PROPERTIES NoCopyNoDelete ServesAgain
