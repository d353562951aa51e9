CONSTANTS
    Caller = {c1, c2}
    MaxTokens = 4
    MaxLost = 1
    Asker = {a1, a2, a3}
    Party = {p1, p2}
    MaxRecords = 3
    MaxFaults = 2
    User = {u1, u2}
    Reported = {u1}
    Reports = {"delivered", "complained"}
    Attempts = 2
    MaxMailFaults = 1
SPECIFICATION Spec
INVARIANTS
    TokensKept
    OneRecord
    MailTold
PROPERTIES
    Drains
CHECK_DEADLOCK FALSE
