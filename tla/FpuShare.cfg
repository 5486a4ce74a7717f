\* Two processes and a kernel take turns with one pair of registers.
CONSTANTS
    Pairs = 1
    Proc = {p, q}
    Instrs <- AnyAndFew
    Words = {"nan"}
    Val = {"zero", "nan"}
    Zero = "zero"
    Single <- KindOf
    Double <- KindOfPair
    p = p
    q = q
    ControlWords <- FewWords
SPECIFICATION Spec
INVARIANT KernelGetsThrough
PROPERTIES ImplementsOwnFpu StaysLocked FlagsSticky
\* A kernel that has taken an exception of its own stops.
CHECK_DEADLOCK FALSE
