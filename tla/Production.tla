----------------------------- MODULE Production -----------------------------
(***************************************************************************)
(* Production entries and their undoing, as transactions that lock rows    *)
(* one by one: the entry, the finished product, then its components in the *)
(* order of their ids.  Orders and counts change the stock meanwhile.      *)
(* PostgreSQL's locks are external: a row has one owner until its          *)
(* transaction ends, and of transactions that wait for each other one is   *)
(* rolled back.                                                            *)
(***************************************************************************)
EXTENDS Integers, Totals

CONSTANTS
    Session,     \* requests in progress
    Product,     \* products, numbered in the order of their ids
    Need,        \* Need[p][c]: pieces of c in a piece of p (bills_of_materials)
    MaxEntries,  \* bound: production entries made
    MaxStock,    \* bound: pieces of a product that orders and counts lead to
    MaxMoves     \* bound: changes that orders and counts make

VARIABLES
    stock,    \* products: on_hand and reserved
    entry,    \* production_entries
    session,  \* what each request is doing
    owner,    \* who has a row locked
    moved,    \* history: on_hand without production
    left      \* changes that orders and counts may still make

vars == <<stock, entry, session, owner, moved, left>>
-----------------------------------------------------------------------------
Entry == 1..MaxEntries
ProductRow(p) == <<"product", p>>
EntryRow(e) == <<"entry", e>>
Row == {ProductRow(p) : p \in Product} \cup {EntryRow(e) : e \in Entry}
Nobody == "nobody"
Idle == [op |-> "idle"]
Components(p) == {c \in Product : Need[p][c] > 0}
Unmade == [status |-> "none"]

Init ==
    /\ moved = [p \in Product |-> MaxStock]
    /\ stock = [p \in Product |-> [onHand |-> moved[p], reserved |-> 0]]
    /\ entry = [e \in Entry |-> Unmade]
    /\ session = [t \in Session |-> Idle]
    /\ owner = [r \in Row |-> Nobody] /\ left = MaxMoves

ProductRows(p) == {ProductRow(q) : q \in {p} \cup Components(p)}

\* Mutant: the entry is read without a lock, as before migration 104.
ReverseRowsUnlocked(e) == ProductRows(entry[e].product)

ReverseRows(e) == {EntryRow(e)} \cup ProductRows(entry[e].product)
-----------------------------------------------------------------------------
Begin(t, job) ==
    /\ session[t] = Idle
    /\ session' = [session EXCEPT ![t] = job]
    /\ UNCHANGED <<stock, entry, owner, moved, left>>

Complete(t) ==
    \E p \in Product, n \in 1..2 :
        Begin(t, [op |-> "complete", product |-> p, qty |-> n, saw |-> 0,
                  todo |-> ProductRows(p)])

Reverse(t) ==
    \E e \in Entry :
        /\ entry[e].status = "made"
        /\ Begin(t, [op |-> "reverse", entry |-> e, product |-> entry[e].product,
                     qty |-> entry[e].qty, saw |-> 0, todo |-> ReverseRows(e)])

Working(t) == session[t] # Idle

\* The entry comes first, then the finished product, then the components in the
\* order of their ids.
InOrder(t, row, other) ==
    LET finished == ProductRow(session[t].product) IN
    \/ row[1] = "entry" \/ row = other
    \/ other[1] = "product" /\ (row = finished \/ (other # finished /\ row[2] < other[2]))

Wants(t, row) == row \in session[t].todo /\ \A other \in session[t].todo : InOrder(t, row, other)

WaitsFor(t, u) == Working(t) /\ \E row \in session[t].todo : Wants(t, row) /\ owner[row] = u

End(t) ==
    /\ session' = [session EXCEPT ![t] = Idle]
    /\ owner' = [r \in Row |-> IF owner[r] = t THEN Nobody ELSE owner[r]]

\* What a request still has to lock, and the pieces of its product it has seen.
Locked(t, row) ==
    [session[t] EXCEPT !.todo = @ \ {row},
        !.saw = IF row = ProductRow(session[t].product)
                THEN stock[session[t].product].onHand ELSE @]

Lock(t) ==
    /\ Working(t)
    /\ \E row \in session[t].todo :
          /\ Wants(t, row) /\ owner[row] = Nobody
          /\ IF row[1] = "entry" /\ entry[row[2]].status # "made" THEN End(t)
             ELSE /\ owner' = [owner EXCEPT ![row] = t]
                  /\ session' = [session EXCEPT ![t] = Locked(t, row)]
    /\ UNCHANGED <<stock, entry, moved, left>>

\* PostgreSQL ends one of the transactions of a circle.
Rollback(t) ==
    /\ \E S \in SUBSET Session :
          t \in S /\ \A u \in S : \E v \in S : WaitsFor(u, v)
    /\ End(t) /\ UNCHANGED <<stock, entry, moved, left>>
-----------------------------------------------------------------------------
\* chk_reserved_lte_on_hand refuses what takes a piece that is promised.
Allowed(s) == \A p \in Product : s[p].reserved <= s[p].onHand

Consumes(p, n) == \A c \in Components(p) :
    stock[c].onHand - stock[c].reserved >= Need[p][c] * n

AfterComplete(p, n, saw) ==
    [q \in Product |-> [stock[q] EXCEPT !.onHand =
        IF q = p THEN saw + n ELSE @ - Need[p][q] * n]]

\* The new total is written from the value read under the lock.
CommitComplete(t) ==
    LET p == session[t].product  n == session[t].qty
        after == AfterComplete(p, n, session[t].saw)
    IN
    /\ session[t].op = "complete" /\ session[t].todo = {}
    /\ IF Consumes(p, n)
       THEN /\ \E e \in Entry :
                  /\ entry[e] = Unmade /\ \A d \in Entry : d < e => entry[d] # Unmade
                  /\ entry' = [entry EXCEPT ![e] = [status |-> "made", product |-> p, qty |-> n]]
            /\ stock' = after
       ELSE UNCHANGED <<stock, entry>>
    /\ End(t) /\ UNCHANGED <<moved, left>>

CommitReverse(t) ==
    LET p == session[t].product  n == session[t].qty
        after == [q \in Product |-> [stock[q] EXCEPT !.onHand =
                     IF q = p THEN @ - n ELSE @ + Need[p][q] * n]]
    IN
    /\ session[t].op = "reverse" /\ session[t].todo = {}
    /\ IF stock[p].onHand >= n /\ Allowed(after)
       THEN /\ stock' = after
            /\ entry' = [entry EXCEPT ![session[t].entry].status = "reversed"]
       ELSE UNCHANGED <<stock, entry>>
    /\ End(t) /\ UNCHANGED <<moved, left>>

\* Orders reserve, release and ship, counts and receipts correct.
Others(p) ==
    /\ left > 0 /\ left' = left - 1 /\ owner[ProductRow(p)] = Nobody
    /\ \E h \in 0..MaxStock, r \in 0..MaxStock :
          /\ r <= h /\ <<h, r>> # <<stock[p].onHand, stock[p].reserved>>
          /\ h - stock[p].onHand \in -1..1 /\ r - stock[p].reserved \in -1..1
          /\ stock' = [stock EXCEPT ![p] = [onHand |-> h, reserved |-> r]]
          /\ moved' = [moved EXCEPT ![p] = @ + h - stock[p].onHand]
    /\ UNCHANGED <<entry, session, owner>>

Next ==
    \/ \E t \in Session : \/ Complete(t) \/ Reverse(t) \/ Lock(t) \/ Rollback(t)
                          \/ CommitComplete(t) \/ CommitReverse(t)
    \/ \E p \in Product : Others(p)

Spec == Init /\ [][Next]_vars
-----------------------------------------------------------------------------
Made(p) == [e \in Entry |->
    IF entry[e].status = "made" /\ entry[e].product = p THEN entry[e].qty ELSE 0]

Used(p) == [e \in Entry |->
    IF entry[e].status = "made" /\ entry[e].product # p
    THEN Need[entry[e].product][p] * entry[e].qty ELSE 0]

\* What is on hand is what orders and counts left, plus what the production
\* entries that stand have made, minus what they have used: no entry is undone
\* twice and none is lost under another, whoever runs at the same time.
StockExplained ==
    \A p \in Product : stock[p].onHand + Total(Used(p)) = moved[p] + Total(Made(p))
-----------------------------------------------------------------------------
\* The inductive strengthening.
TypeOK ==
    /\ stock \in [Product -> [onHand : Int, reserved : Int]] /\ moved \in [Product -> Int]
    /\ entry \in [Entry -> {Unmade} \cup [status : {"made", "reversed"}, product : Product, qty : Nat]]
    /\ session \in [Session -> {Idle}
          \cup [op : {"complete"}, product : Product, qty : Nat, saw : Int, todo : SUBSET Row]
          \cup [op : {"reverse"}, entry : Entry, product : Product, qty : Nat, saw : Int,
                todo : SUBSET Row]]
    /\ owner \in [Row -> Session \cup {Nobody}]

Needed(t) ==
    IF session[t].op = "complete" THEN ProductRows(session[t].product)
    ELSE {EntryRow(session[t].entry)} \cup ProductRows(session[t].product)

\* A request owns what it has locked, and what it has seen is still so.
Holds(t) ==
    Working(t) =>
        /\ \A row \in Needed(t) \ session[t].todo : owner[row] = t
        /\ ProductRow(session[t].product) \notin session[t].todo =>
              session[t].saw = stock[session[t].product].onHand
        /\ session[t].op = "reverse" =>
              LET e == entry[session[t].entry] IN
              /\ e # Unmade /\ session[t].product = e.product /\ session[t].qty = e.qty
              /\ EntryRow(session[t].entry) \notin session[t].todo => e.status = "made"

ProductionInv == TypeOK /\ StockExplained /\ \A t \in Session : Holds(t)
=============================================================================
