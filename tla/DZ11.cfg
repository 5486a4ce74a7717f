\* Two lines of two slots; every control word and transmit mask, and two
\* characters while the machine only receives.
CONSTANTS
    NumUarts = 2
    ConsoleLine = 1
    BufSize = 2
    AlarmCount = 2
    CounterMax = 3
    Char = {a, b}
    NUL = a
    CsrWords <- AllWords
    TcrWords <- AllLines
SPECIFICATION KeptSpec
INVARIANT IrqFollowsLines
PROPERTIES SentWhereEnabled TypingNeverLowers ImplementsSilo
