CONSTANTS
    Part = {"sync", "payment"}
    Purchase = {p}
    Purchase1 = f
    Line1 = x
    Line2 = y
    Clerk = {c}
    Quantity = {1}
    Supplier = {s}
    MaxVersion = 1
    MaxOrders = 1
    Products = 1
    MaxEntries = 1
    MaxStock = 1
    MaxMoves = 0
    Scan = {s1}
    Runner = {r}
    Mode = {"cron", "all", "contact", "product", "shipment", "invoice", "edoc"}
    Cap = 2
    MaxFaults = 2
    MaxDocs = 2
    Poller = {b1, b2}
    Doc = {d1, d2}
    Broken = {d1}
    Batch = 1
    MaxPollFaults = 1
SPECIFICATION FairSpec
INVARIANTS
    DoneIsComplete
    AlertsFollow
PROPERTIES
    Settles
    PaymentsArrive
CHECK_DEADLOCK FALSE
