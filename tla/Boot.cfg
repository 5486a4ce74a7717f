\* Three sizes of RAM: the one configured, one that covers a device, one that
\* covers all.  Addresses are the real ones.
CONSTANTS
    MaxRegions = 6
    Word = 1073741824
    QueueLen = 2
    MsgLen = 2
    RamSizes = {16777216, 419430400, 536870912}
    RomSize = 4096
    Probes = {4096, 268435456, 385875968, 503316480, 503316484}
    Words = {{}, {512, 2048, 8192}}
SPECIFICATION FairSpec
INVARIANTS TypeOK OneRegion RunsSetUp TicksFollowInit
PROPERTIES BootCompletes OutputDrains
