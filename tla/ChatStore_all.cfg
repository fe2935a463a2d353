SPECIFICATION Spec
CONSTANTS
    t1 = t1
    t2 = t2
    Threads <- TwoThreads
    None = None
    MaxChain = 2
    MaxJournal = 3
    MaxSessions = 2
    DeleteUnseen = FALSE
INVARIANTS JournalIsMemory RepliesTrue
PROPERTIES KeptSpec
\* The reader may stop calling.
CHECK_DEADLOCK FALSE
