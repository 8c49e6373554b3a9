SPECIFICATION Spec
CONSTANTS
    t1 = t1
    t2 = t2
    t3 = t3
    e1 = e1
    e2 = e2
    e3 = e3
    u1 = u1
    r1 = r1
    r2 = r2
    pA = pA
    pB = pB
    Txn = {t1, t3}
    Event = {e1, u1}
    InlineEvent = {u1}
    Replica = {r1, r2}
    Partition = {pA}
    TxnOf <- InlineTxnOf
    KeyPartition <- InlineKeyPartition
    BatchSize = 2
    MaxAttempts = 2
    MaxAborts = 1
    MaxResends = 1
INVARIANT SkippedPublishIsHeld
