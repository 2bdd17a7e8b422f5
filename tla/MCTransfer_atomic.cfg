\* Three blocks: a head can be detached, rebuilt and published again while a
\* publication of the other thread still holds its address, and a batch of two
\* can be published on top of a third block.
SPECIFICATION FairSpec
CONSTANTS
    Thread = {t1, t2}
    Node = {n1, n2, n3}
    Null = Null
INVARIANTS TypeOK NoDataRace DescriptorsExact
PROPERTIES ImplementsExchange LockFree
