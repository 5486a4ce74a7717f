\* Two sets with three lines each; of the three, two have one row of the chips.
CONSTANTS
    NumSets = 2
    NumLines = 5
    ChipLines = 4
    LineSize = 4
    Byte = {0, 1}
    Junk = {0}
    PowerOn <- Zero
    Pieces <- OnePiece
SPECIFICATION Spec
INVARIANT IInv
PROPERTIES LastUsedStays ImplementsSafeRam
