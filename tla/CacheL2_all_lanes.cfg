\* Every lane, the odd ones and the first two included.
CONSTANTS
    NumSets = 1
    NumLines = 3
    ChipLines = 3
    LineSize = 4
    Byte = {0, 1}
    Junk = {0, 1}
    PowerOn <- Zero
    Pieces <- TwoPieces
SPECIFICATION Spec
PROPERTY ImplementsRam
