CONSTANTS
    Order = {o1, o2, o3}
    Product = {p1}
    MaxQty = 2
    MaxStock = 3
    CreateStatus = {"draft", "pending_approval"}
SPECIFICATION Spec
SYMMETRY Symmetric
INVARIANTS
    ReservedIsSum
    NothingForgotten
    MovementsExplain
