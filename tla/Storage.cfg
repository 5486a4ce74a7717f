\* A card of each kind with at most one flaw, its driver, and two callers; three faults.
CONSTANTS
    Kinds = {"V1", "V2", "V2HC"}
    FlawSets = {{}, {"echo"}, {"volts"}, {"csd"}}
    NumSectors = 2
    BlockSize = 2
    MaxBlocks = 2
    Data = {d0, d1}
    Garbage = garbage
    IdleRetries = 2
    MaxPolls = 2
    MaxFaults = 3
SPECIFICATION Spec
INVARIANTS InitSound MachineTransfers
PROPERTIES ImplementsDevice EveryCallEnds
