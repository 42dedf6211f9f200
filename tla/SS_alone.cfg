SPECIFICATION SSSpec
CONSTANTS
    short = short
    long = long
    Values = {short, long}
    Nothing = Nothing
    Writers = {w1}
    Length <- Lengths
    Inodes = {1, 2, 3}
INVARIANTS FileIsWhole
PROPERTIES IsAtomicFile
