CONSTANTS
    Order = {o1, o2}
    Small = {o1}
    Proc = {t1, t2}
    NoProc = NoProc
    Quantity <- MCQuantity
    MaxStock = 3
    Ops = {"submit", "send", "approve", "ship", "cancel", "resolve", "move"}
SPECIFICATION MCSpec
INVARIANTS
    ReservedIsSum
