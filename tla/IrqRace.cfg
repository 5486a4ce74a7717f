\* Everything at once: characters typed, read and reset, the clock, exceptions.
CONSTANTS
    RingSize = 2
    ByteMax = 4
    Does = {"type", "tick", "rbuf", "csr", "clear", "status", "ack", "exception", "mtc0"}
    IrqEnables = {TRUE, FALSE}
SPECIFICATION FairSpec
INVARIANT UsedInBounds
PROPERTY TicksGetThrough
