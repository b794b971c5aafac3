CONSTANTS
    k1 = k1
    k2 = k2
    k3 = k3
    k4 = k4
    Nil = Nil
    NULL = NULL
    Keys <- MCKeys
    Values <- MCValues
    Hash <- MCHash
    DefaultCapacity = 2
SPECIFICATION FairSpec
INVARIANTS
    TypeOK
    SearchNeverFails
    EntriesAreFindable
    SizeIsEntryCount
    RehashFits
PROPERTIES
    GrowthEnds
    ImplementsDictionary
