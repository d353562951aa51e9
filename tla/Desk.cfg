CONSTANTS
    Run = {r1, r2}
    Other = {r3}
    User = {u1}
    Product = {p, q}
    NoRun = NoRun
    MaxNeed = 3
    MaxRecs = 2
    Decided = {"accepted"}
    MaxLines = 2
    MaxCommits = 2
    MaxDrafts = 2
    MaxBooked = 2
    Compared = {p, q}
    MaxStock = 1
    MaxStockFaults = 1
    MaxBillFaults = 3
    MaxTakes = 3
    Limit = 2
    Window = 2
    OpenFor = 1
    Threshold = 3
    MaxTime = 3
    MaxForms = 2
    MaxQuotes = 2
    MaxVersion = 3
    MaxRows = 3
    MaxArchiveFaults = 2
    MaxFileFaults = 1
SPECIFICATION Spec
INVARIANTS
    SuggestionTells
    ImportedOnce
    RecordsAgree
    FilesKept
    AssistantBounded
    TabTells
    PartsMakeTheWhole
PROPERTIES
    DecisionsHold
CHECK_DEADLOCK FALSE
