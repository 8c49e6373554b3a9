SPECIFICATION FairSpec
CONSTANTS
    t1 = t1
    t2 = t2
    t3 = t3
    e1 = e1
    e2 = e2
    e3 = e3
    u1 = u1
    r1 = r1
    r2 = r2
    pA = pA
    pB = pB
    Txn = {t1, t2}
    Event = {e1, e2, e3}
    InlineEvent = {}
    Replica = {r1}
    Partition = {pA, pB}
    TxnOf <- MCTxnOf
    KeyPartition <- MCKeyPartition
    BatchSize = 2
    MaxAttempts = 2
    MaxAborts = 0
    MaxResends = 1
PROPERTIES
    OnlyFailureReorders
    ImplementsResponsive
