CONSTANTS
    Order = {o1, o2}
    Product = {p1, p2}
    MaxQty = 2
    MaxStock = 3
    CreateStatus = {"draft"}
SPECIFICATION Spec
SYMMETRY Symmetric
INVARIANTS
    TypeOK
    RowsHonest
PROPERTIES
    NotOvertaken
    KeepsPromise
