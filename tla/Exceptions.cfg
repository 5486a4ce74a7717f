\* Three exceptions deep.
CONSTANTS
    Last = 7
    Kind <- LoopKind
    Target <- LoopTarget
    Refill = 20
    General = 21
    KernelTop = 23
    MaxNest = 3
SPECIFICATION FairSpec
INVARIANTS HandlersInv UserStaysUser LinkIntact
PROPERTIES ReturnsWhereItWas ImplementsProgram UserIsInterrupted
