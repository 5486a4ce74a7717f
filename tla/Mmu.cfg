\* Two entries, two lists, two frames, two address spaces.
CONSTANTS
    u0 = u0
    d0 = d0
    f0 = f0
    f1 = f1
    NumEntries = 2
    NumWired = 1
    User = {u0}
    Kernel = {}
    Direct = {d0}
    Page0 = u0
    ResetPage = d0
    Asid = {0, 1}
    Asid0 = 0
    Frame = {f0, f1}
    Frame0 = f0
    DirectFrame <- DirectMap
    Words <- FlagWords
    Bucket = {0, 1}
    TLB_HASH <- HashOf
    Way = {0}
    Hole = {}
SPECIFICATION MmuSpec
VIEW Kept
INVARIANTS MmuTypeOK CachedIsMapped Linked
PROPERTY ImplementsTlb
