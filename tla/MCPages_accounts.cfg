SPECIFICATION PagesSpec
CONSTANTS
    None = None
    Blank = Blank
    Row = {a1, a2}
    Slot = {p1, p2}
    Secret = {x1, x2}
    FilePassword = {f1}
    Call = {c1, c2}
SYMMETRY PagesSymmetry
INVARIANTS ShownWasStored
PROPERTIES RestoreIsComplete
