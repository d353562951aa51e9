CONSTANTS
    Quote = {q1}
    Caller = {c1, c2}
SPECIFICATION FairSpec
INVARIANTS
    LockHolds
PROPERTIES
    OrdersOnlyForOpenQuotes
    EndsStayEnds
    LostReservationShows
    DeadQuoteReleases
