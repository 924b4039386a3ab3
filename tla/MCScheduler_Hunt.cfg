CONSTANTS
    s1 = s1 s2 = s2 s3 = s3
    e1 = e1 e2 = e2 e3 = e3 e4 = e4
    i1 = i1 i2 = i2 i3 = i3 i4 = i4 i5 = i5 i6 = i6
    None = None
    Sids <- TwoSids
    Entries <- TwoEntries
    EntrySid <- EntryOwner
    TaskTypes <- MutexTypes
    mutex_with <- MutexWith
    NetTypes <- MutexTypes
    BusyTypes <- MutexTypes
    InitType <- InitialType
    DefaultSids = {}
    TaskIds <- Tasks5
    MaxDrains = 1
    Triggers = {}
    Loop = Loop
    Hunter = Hunter
    Stopper = Stopper
    Ops = {"hunt", "restart"}
SPECIFICATION Spec
SYMMETRY TaskSymmetry
INVARIANTS
    RegisteredIsLive
    RowsCurrent

    
