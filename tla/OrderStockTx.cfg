CONSTANTS
    Order = {o1, o2}
    Small = {o1}
    Proc = {t1, t2}
    NoProc = NoProc
    Quantity <- MCQuantity
    MaxStock = 3
    Ops = {"submit", "send", "approve", "ship", "cancel", "resolve", "delete", "move"}
SPECIFICATION MCSpec
SYMMETRY Symmetric
INVARIANTS
    CounterCovers
    RowsExactApart
    CancelReleasesAll
PROPERTIES
    NeverOversells
    ShipsWhole
    KeepsPromiseApart
