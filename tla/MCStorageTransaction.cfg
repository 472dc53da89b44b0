SPECIFICATION FairSpec
CONSTANTS
    Txs = {t1, t2, t3}
    t1 = t1
    t2 = t2
    t3 = t3
    NoTx = NoTx
INVARIANTS
    LostOnlyByStale
    FreshCopy
PROPERTIES
    IsAtomic
    EveryTxEnds
CHECK_DEADLOCK FALSE
