\* Twice as many lines as the chips hold: 16 MB over chips of 8 MB.
CONSTANTS
    NumSets = 1
    NumLines = 4
    ChipLines = 2
    LineSize = 4
    Byte = {0, 1}
    Junk = {0}
    PowerOn <- Zero
    Pieces <- OnePiece
SPECIFICATION Spec
PROPERTY ImplementsWholeRam
