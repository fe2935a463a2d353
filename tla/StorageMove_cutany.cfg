SPECIFICATION FairSpec
CONSTANTS
    a = a
    b = b
    gguf = gguf
    stt = stt
    v1 = v1
    v2 = v2
    w = w
    Files = {a, b}
    Small = {a}
    Pinned = {b}
    Stores = {gguf, stt}
    StoreOf <- TwoStores
    Versions = {v1, w}
    Size <- Sizes
    Good = v1
    Bad = Bad
    Absent = Absent
    None = None
    CutBetweenSaves = {"crash", "fails"}
    ReplacedWhileCopied = TRUE
PROPERTIES NeverClobbers OldFolderKept JobEnds
\* A journal that could not be written leaves the services down: the move stops there.
CHECK_DEADLOCK FALSE
