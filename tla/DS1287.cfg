\* Ten years of days of eight seconds, from every moment and from a clock never
\* set; and edge values in every format while the clock is stopped.
CONSTANTS
    SecondsPerMinute = 2
    MinutesPerHour = 2
    HoursPerDay = 2
    YearsPerCentury = 10
    TicksPerSecond = 2
    Bytes <- EdgeBytes
    Written = {"sec", "hr"}
    CtrlBWords <- EveryWord
    Periods = {0, 1}
    Beyond <- Ends
    Starts <- EveryStart
SPECIFICATION SetSpec
INVARIANTS IrqIsIRQF RoundTrip
PROPERTY NextSecond
