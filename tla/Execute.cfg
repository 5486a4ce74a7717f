\* Each instruction with every pair of operands in words of four bits; pairs of
\* halves, LL and SC, at every address, the kernel changing the pages meanwhile.
CONSTANTS
    ByteBits = 1
    Reg = {0, 1, 2}
    PageBytes = 4
    MemBytes = 8
    Mappings <- EveryMapping
    Starts <- EveryStart
SPECIFICATION Spec
INVARIANTS ResultsExact HalvesMakeAWord
PROPERTIES StoresAllowed ImplementsIsa
\* Programs end.
CHECK_DEADLOCK FALSE
