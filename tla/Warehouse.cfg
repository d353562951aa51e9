CONSTANTS
    Part = {"orders", "lines", "rfq", "production", "alerts", "sync"}
    Purchase = {c, d}
    Purchase1 = f
    Line1 = x
    Line2 = y
    Clerk = {c, d}
    Quantity = {2}
    Supplier = {s, t}
    MaxVersion = 2
    MaxOrders = 2
    Products = 3
    MaxEntries = 2
    MaxStock = 2
    MaxMoves = 1
    Scan = {s1}
    Runner = {c, d}
    Mode = {"all"}
    Cap = 2
    MaxFaults = 1
    MaxDocs = 2
    Poller = {}
    Doc = {}
    Broken = {}
    Batch = 1
    MaxPollFaults = 1
SPECIFICATION Spec
SYMMETRY Symmetric
INVARIANTS
    IncomingAgrees
    BoughtOnce
    StockExplained
    ScanSettles
    DuplicateNeedsStaleRun
PROPERTIES
    DoneStaysDone
CHECK_DEADLOCK FALSE
