SPECIFICATION Spec
CONSTANTS
    Width = 3
    Height = 2
    Coords <- MCCoords
    Sizes <- MCSizes
    MaxRects = 2
INVARIANTS TypeOK Coverage EntriesInWindow
PROPERTIES MergesWhenNear
