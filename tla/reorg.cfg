SPECIFICATION Spec
ACTION_CONSTRAINT WholeBlocks
CONSTANTS
    g = g  a = a  b = b  c = c  d = d  e = e  f = f
    t1 = t1  t2 = t2  t3 = t3  t4 = t4  t5 = t5
    s1 = s1  s2 = s2
    None = None
    Genesis = g
    Txs = {t1, t2, t3, t4, t5}
    Sources = {s1, s2}
    MatchedBy <- SomeMatches
    Blocks <- ForkBlocks
    Parent <- ForkParent
    Slot <- ForkSlot
    TxsOf <- ForkTxsOf
    Intersect = g
    NativeBytes = {TRUE}
    Unreadable = {}
    Foreign = {}
    LookupBySlot = {TRUE, FALSE}
    RollsBack = {TRUE, FALSE}
    StatusCodes = {"Unavailable", "Unauthenticated"}
    InitialDelay = 1
    MaxDelay = 1
    MissCap = 1
INVARIANTS TypeOK AllOrNothing SyncedRows
PROPERTY FollowsChain
