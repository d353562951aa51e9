----------------------------- MODULE OrderStock -----------------------------
(***************************************************************************)
(* Sales orders and the stock they hold.                                   *)
(*                                                                         *)
(* The state is the part of five tables that the stock RPCs of             *)
(* supabase/migrations write: products (on_hand, reserved), sales_orders   *)
(* (commercial_status, fulfillment_status), order_lines (quantity), the    *)
(* open rows of stock_reservations and of shortages, and the total of the  *)
(* stock-changing rows of inventory_movements.  Every RPC is one           *)
(* transaction and one action here; OrderStockTx takes the transactions    *)
(* apart into their statements and locks.                                  *)
(*                                                                         *)
(* An order has at most one line per product: lines of one product are     *)
(* allocated one after another out of the same free stock, which gives     *)
(* their sum what one line of the summed quantity gets.                    *)
(***************************************************************************)
EXTENDS Totals

CONSTANTS
    Order,         \* rows sales_orders can have
    Product,       \* rows of products, all active
    MaxQty,        \* bound: largest quantity of a line and of a movement
    MaxStock,      \* bound: largest on_hand a movement or recount leads to
    CreateStatus   \* commercial_status values given to POST /api/orders

ASSUME OrderFinite   == IsFiniteSet(Order)
ASSUME ProductFinite == IsFiniteSet(Product)
ASSUME BoundsNat     == MaxQty \in Nat /\ MaxStock \in Nat
ASSUME CreateStatusOK == CreateStatus \subseteq {"draft", "pending_approval"}

VARIABLES
    onHand,     \* products.on_hand
    reserved,   \* products.reserved
    ledger,     \* initial stock plus the sum of stock-changing movements
    status,     \* sales_orders.commercial_status, "none" when there is no row
    fulfil,     \* sales_orders.fulfillment_status
    qty,        \* order_lines.quantity, 0 when the order has no such line
    res,        \* reserved_qty of the line's open stock_reservations
    short,      \* shortage_qty of the line's open shortages
    before      \* <<a, b>>: a's open shortages were created before b's

stockVars == <<onHand, reserved, ledger>>
orderVars == <<status, fulfil, qty, res, short, before>>
vars == <<stockVars, orderVars>>
-----------------------------------------------------------------------------
NoLines == [p \in Product |-> 0]
Lines == [Product -> 0 .. MaxQty] \ {NoLines}

Statuses == {"none", "draft", "pending_approval", "approved", "cancelled"}
Fulfilments == {"unallocated", "partially_allocated", "allocated", "shipped"}

TypeOK ==
    /\ onHand \in [Product -> Nat]
    /\ reserved \in [Product -> Nat]
    /\ ledger \in [Product -> Int]
    /\ status \in [Order -> Statuses]
    /\ fulfil \in [Order -> Fulfilments]
    /\ qty \in [Order -> [Product -> 0 .. MaxQty]]
    /\ res \in [Order -> [Product -> Nat]]
    /\ short \in [Order -> [Product -> Nat]]
    /\ before \subseteq Order \X Order

Init ==
    /\ onHand \in [Product -> 0 .. MaxStock]
    /\ reserved = NoLines
    /\ ledger = onHand
    /\ status = [o \in Order |-> "none"]
    /\ fulfil = [o \in Order |-> "unallocated"]
    /\ qty = [o \in Order |-> NoLines]
    /\ res = [o \in Order |-> NoLines]
    /\ short = [o \in Order |-> NoLines]
    /\ before = {}
-----------------------------------------------------------------------------
(***************************************************************************)
(* allocate_order_lines: each line takes what is free of its product, the  *)
(* rest becomes a shortage.                                                *)
(***************************************************************************)

\* Mutant: what other orders reserved is not subtracted.
ReservableOfOnHand(lines, p) == Least(onHand[p], lines[p])

\* least(greatest(on_hand - reserved, 0), quantity)
Reservable(lines, p) == Least(Clip(onHand[p], reserved[p]), lines[p])

NothingReservable(lines) == \A p \in Product : Reservable(lines, p) = 0

Outcome(lines) ==
    IF \E p \in Product : Reservable(lines, p) < lines[p]
    THEN "partially_allocated"
    ELSE "allocated"

\* Orders with an open shortage.
Waiting == {o \in Order : short[o] # NoLines}

\* The creation order of open shortages, restricted to the orders that still
\* have one once the step is taken.
Requeue(pairs) == before' = pairs \cap (Waiting' \X Waiting')

\* New shortages are younger than all others.
QueueLast(o) ==
    Requeue(before \cup (IF o \in Waiting THEN {} ELSE Waiting \X {o}))

\* Mutant: no shortage row for a line of which nothing could be reserved.
ShortageIfAny(lines, p) ==
    IF Reservable(lines, p) = 0 THEN 0 ELSE lines[p] - Reservable(lines, p)

\* v_line.quantity - v_reservable
Shortage(lines, p) == lines[p] - Reservable(lines, p)

\* The unique index of open shortages: one row per line.
OneShortagePerLine(o, lines) ==
    \A p \in Product : short[o][p] > 0 => Shortage(lines, p) = 0

AllocateLines(o, lines) ==
    /\ OneShortagePerLine(o, lines)
    /\ reserved' = [p \in Product |-> reserved[p] + Reservable(lines, p)]
    /\ res' = [res EXCEPT ![o] =
                  [p \in Product |-> @[p] + Reservable(lines, p)]]
    /\ short' = [short EXCEPT ![o] =
                  [p \in Product |-> @[p] + Shortage(lines, p)]]
    /\ QueueLast(o)
-----------------------------------------------------------------------------
(***************************************************************************)
(* Orders.                                                                 *)
(***************************************************************************)

\* Mutant: pending orders can be edited.
EditableWhilePending(o) == status[o] \in {"draft", "pending_approval"}

Editable(o) == status[o] = "draft"

Shippable(o) == status[o] = "approved" /\ fulfil[o] = "allocated"

\* Mutant: the fulfillment guard of cancel_order is missing.
CancellableShipped(o) == status[o] \in {"draft", "pending_approval", "approved"}

Cancellable(o) ==
    /\ status[o] \in {"draft", "pending_approval", "approved"}
    /\ fulfil[o] # "shipped"

\* Mutant: the route deletes whatever exists.
DeletableAlways(o) == status[o] # "none"

Deletable(o) == status[o] \in {"draft", "cancelled"}

\* create_order_with_lines, called by POST /api/orders: the status comes from
\* the request and nothing is allocated, whatever it is.
CreateOrder(o, lines, st) ==
    /\ status[o] = "none"
    /\ status' = [status EXCEPT ![o] = st]
    /\ fulfil' = [fulfil EXCEPT ![o] = "unallocated"]
    /\ qty' = [qty EXCEPT ![o] = lines]
    /\ UNCHANGED <<stockVars, res, short, before>>

\* update_order_with_lines: a draft's lines are deleted, and with them by
\* cascade their reservations and shortages, and inserted anew.
UpdateOrder(o, lines) ==
    /\ Editable(o)
    /\ qty' = [qty EXCEPT ![o] = lines]
    /\ res' = [res EXCEPT ![o] = NoLines]
    /\ short' = [short EXCEPT ![o] = NoLines]
    /\ Requeue(before)
    /\ UNCHANGED <<stockVars, status, fulfil>>

\* submit_order_for_approval: raises, and so rolls back, when nothing at all
\* can be reserved.
SubmitOrder(o) ==
    /\ status[o] = "draft"
    /\ ~NothingReservable(qty[o])
    /\ AllocateLines(o, qty[o])
    /\ status' = [status EXCEPT ![o] = "pending_approval"]
    /\ fulfil' = [fulfil EXCEPT ![o] = Outcome(qty[o])]
    /\ UNCHANGED <<onHand, ledger, qty>>

\* The order half of send_quote_and_create_pending_order: a new pending order
\* that takes what it can get, be it nothing.
SendQuoteOrder(o, lines) ==
    /\ status[o] = "none"
    /\ AllocateLines(o, lines)
    /\ status' = [status EXCEPT ![o] = "pending_approval"]
    /\ fulfil' = [fulfil EXCEPT ![o] = Outcome(lines)]
    /\ qty' = [qty EXCEPT ![o] = lines]
    /\ UNCHANGED <<onHand, ledger>>

\* approve_order when the order was allocated already.
ApproveOrder(o) ==
    /\ status[o] = "pending_approval"
    /\ fulfil[o] # "unallocated"
    /\ status' = [status EXCEPT ![o] = "approved"]
    /\ UNCHANGED <<stockVars, fulfil, qty, res, short, before>>

\* approve_order for a pending order that was never allocated.  Shortages that a
\* refused approval left behind stay open, and the unique index refuses a second
\* one of the same line: such an order is approved only when it can be reserved
\* whole.
ApproveUnallocated(o) ==
    /\ status[o] = "pending_approval"
    /\ fulfil[o] = "unallocated"
    /\ ~NothingReservable(qty[o])
    /\ AllocateLines(o, qty[o])
    /\ status' = [status EXCEPT ![o] = "approved"]
    /\ fulfil' = [fulfil EXCEPT ![o] = Outcome(qty[o])]
    /\ UNCHANGED <<onHand, ledger, qty>>

\* approve_order when nothing could be reserved: it returns an error instead
\* of raising one, so the shortages it inserted are committed.
ApproveRefused(o) ==
    /\ status[o] = "pending_approval"
    /\ fulfil[o] = "unallocated"
    /\ NothingReservable(qty[o])
    /\ AllocateLines(o, qty[o])
    /\ UNCHANGED <<onHand, ledger, status, fulfil, qty>>

\* ship_order_full: every line that has an open reservation leaves the stock.
ShipOrder(o) ==
    /\ Shippable(o)
    /\ LET Leaves(p) == IF res[o][p] > 0 THEN qty[o][p] ELSE 0
       IN  /\ onHand' = [p \in Product |-> Clip(onHand[p], Leaves(p))]
           /\ ledger' = [p \in Product |-> ledger[p] - Leaves(p)]
    /\ reserved' = [p \in Product |-> Clip(reserved[p], res[o][p])]
    /\ res' = [res EXCEPT ![o] = NoLines]
    /\ short' = [short EXCEPT ![o] = NoLines]
    /\ Requeue(before)
    /\ fulfil' = [fulfil EXCEPT ![o] = "shipped"]
    /\ UNCHANGED <<status, qty>>

\* cancel_order.
CancelOrder(o) ==
    /\ Cancellable(o)
    /\ reserved' = [p \in Product |-> Clip(reserved[p], res[o][p])]
    /\ res' = [res EXCEPT ![o] = NoLines]
    /\ short' = [short EXCEPT ![o] = NoLines]
    /\ Requeue(before)
    /\ status' = [status EXCEPT ![o] = "cancelled"]
    /\ fulfil' = [fulfil EXCEPT ![o] = "unallocated"]
    /\ UNCHANGED <<onHand, ledger, qty>>

\* DELETE /api/orders/[id]?permanent=1: the row and, by cascade, everything
\* that hangs on it; products.reserved is not touched.
DeleteOrder(o) ==
    /\ Deletable(o)
    /\ status' = [status EXCEPT ![o] = "none"]
    /\ fulfil' = [fulfil EXCEPT ![o] = "unallocated"]
    /\ qty' = [qty EXCEPT ![o] = NoLines]
    /\ res' = [res EXCEPT ![o] = NoLines]
    /\ short' = [short EXCEPT ![o] = NoLines]
    /\ Requeue(before)
    /\ UNCHANGED stockVars
-----------------------------------------------------------------------------
(***************************************************************************)
(* Stock.                                                                  *)
(***************************************************************************)

\* Mutant: neither guard nor CHECK.
MovementUnguarded(p, q) == TRUE

\* The RPC's guard, and the CHECK of migration 019 on what it writes.
MovementAllowed(p, q) ==
    /\ q < 0 => onHand[p] + q >= 0
    /\ onHand[p] + q >= reserved[p]

\* record_stock_movement with a quantity of either sign: it guards on_hand, not
\* on_hand - reserved, and leaves that to the table's CHECK.
RecordMovement(p, q) ==
    /\ MovementAllowed(p, q)
    /\ onHand[p] + q <= MaxStock
    /\ onHand' = [onHand EXCEPT ![p] = @ + q]
    /\ ledger' = [ledger EXCEPT ![p] = @ + q]
    /\ UNCHANGED <<reserved, orderVars>>

\* recount_stock: on_hand becomes the counted quantity, the difference is
\* recorded; the CHECK refuses a count below what is reserved.
RecountStock(p, counted) ==
    /\ counted # onHand[p]
    /\ counted >= reserved[p]
    /\ onHand' = [onHand EXCEPT ![p] = counted]
    /\ ledger' = [ledger EXCEPT ![p] = @ + (counted - onHand[p])]
    /\ UNCHANGED <<reserved, orderVars>>

\* Approved orders short of p.
Claimants(p) == {o \in Order : status[o] = "approved" /\ short[o][p] > 0}

\* Mutant: the youngest shortage is served first.
YoungestFirst(give, p) ==
    \A a, b \in Claimants(p) :
        <<a, b>> \in before /\ give[a] > 0 => give[b] = short[b][p]

\* order by s.created_at asc
OldestFirst(give, p) ==
    \A a, b \in Claimants(p) :
        <<a, b>> \in before /\ give[b] > 0 => give[a] = short[a][p]

\* The shares of `avail' pieces of p among the claimants.
Shares(p, avail) ==
    {give \in [Claimants(p) -> 0 .. avail] :
        /\ \A o \in Claimants(p) : give[o] <= short[o][p]
        /\ \/ Total(give) = avail
           \/ Total(give) < avail /\ \A o \in Claimants(p) : give[o] = short[o][p]
        /\ OldestFirst(give, p)}

\* try_resolve_shortages: free stock goes to the open shortages of approved
\* orders, and an order none of whose lines is short any more is allocated.
ResolveShortages(p) ==
    /\ onHand[p] > reserved[p]
    /\ Claimants(p) # {}
    /\ \E give \in Shares(p, onHand[p] - reserved[p]) :
         LET share == [o \in Order |-> IF o \in Claimants(p) THEN give[o] ELSE 0]
         IN  /\ reserved' = [reserved EXCEPT ![p] = @ + Total(give)]
             /\ res' = [o \in Order |-> [res[o] EXCEPT ![p] = @ + share[o]]]
             /\ short' = [o \in Order |-> [short[o] EXCEPT ![p] = @ - share[o]]]
             /\ fulfil' = [o \in Order |->
                             IF /\ share[o] > 0
                                /\ short'[o] = NoLines
                                /\ fulfil[o] = "partially_allocated"
                             THEN "allocated"
                             ELSE fulfil[o]]
    /\ Requeue(before)
    /\ UNCHANGED <<onHand, ledger, status, qty>>
-----------------------------------------------------------------------------
Next ==
    \/ \E o \in Order, lines \in Lines :
          \/ \E st \in CreateStatus : CreateOrder(o, lines, st)
          \/ UpdateOrder(o, lines)
          \/ SendQuoteOrder(o, lines)
    \/ \E o \in Order :
          \/ SubmitOrder(o)
          \/ ApproveOrder(o)
          \/ ApproveUnallocated(o)
          \/ ApproveRefused(o)
          \/ ShipOrder(o)
          \/ CancelOrder(o)
          \/ DeleteOrder(o)
    \/ \E p \in Product :
          \/ \E q \in -MaxQty .. MaxQty : RecordMovement(p, q)
          \/ \E n \in 0 .. MaxStock : RecountStock(p, n)
          \/ ResolveShortages(p)

Spec == Init /\ [][Next]_vars
-----------------------------------------------------------------------------
(***************************************************************************)
(* Properties.                                                             *)
(***************************************************************************)

\* Orders that hold their lines: allocated once and not yet shipped.
Live == {o \in Order : /\ status[o] \in {"pending_approval", "approved"}
                       /\ fulfil[o] # "shipped"}

\* All open reservations of a product.
HeldOf(p) == Total([o \in Order |-> res[o][p]])

\* The counter products.reserved, which eight RPCs adjust by hand, is the sum
\* of the open reservation rows of the product.
ReservedIsSum == \A p \in Product : reserved[p] = HeldOf(p)

\* Orders that are not, or no longer, committed have no open reservation.
IdleHoldNothing ==
    \A o \in Order :
        status[o] \notin {"pending_approval", "approved"} => res[o] = NoLines

\* The inductive strengthening of ReservedIsSum: the rows a draft's edit or a
\* deletion removes without touching the counter must be no rows.
CounterInv == TypeOK /\ IdleHoldNothing /\ ReservedIsSum

\* Every piece of every line of a live order is either reserved or short, and
\* drafts, cancelled and shipped orders hold and lack nothing: a submit, a
\* cancel or a partial shortage resolution loses no piece and counts none
\* twice.
LinesAccounted ==
    \A o \in Order, p \in Product :
        res[o][p] + short[o][p] = IF o \in Live THEN qty[o][p] ELSE 0

\* fulfillment_status, on which ship_order_full relies without looking at the
\* rows, says allocated exactly when the order has no open shortage.
FulfilmentHonest ==
    \A o \in Live : fulfil[o] = "allocated" <=> o \notin Waiting

\* What an order holds and what it is short of add up to its lines, and its
\* fulfilment status says which of the two there is.  So it is where orders are
\* created as drafts, and not where POST /api/orders creates a pending one.
RowsHonest == LinesAccounted /\ FulfilmentHonest

\* Only an approved order has left the stock, and a committed one of a draft has
\* been allocated: the inductive strengthening of RowsHonest.
ShippedApproved == \A o \in Order : fulfil[o] = "shipped" => status[o] = "approved"
RowsInv ==
    /\ TypeOK
    /\ ShippedApproved
    /\ \A o \in Live : fulfil[o] # "unallocated"
    /\ RowsHonest

\* A line of an approved or allocated order is never forgotten: what is not
\* reserved is recorded as short.  The two may be more than the line: one that
\* a later call reserves may still be noted as short.
NothingForgotten ==
    \A o \in Live :
        fulfil[o] # "unallocated" =>
            \A p \in Product : res[o][p] + short[o][p] >= qty[o][p]

\* An allocated order, which ship_order_full takes out of the stock whole, holds
\* its whole lines, however it was created: part of the inductive strengthening
\* of MovementsExplain.
AllocatedWhole ==
    \A o \in Live :
        fulfil[o] = "allocated" => \A p \in Product : res[o][p] >= qty[o][p]

WholeInv == TypeOK /\ NothingForgotten /\ AllocatedWhole

\* Stock is handed out only as far as it is there: neither an allocation nor a
\* shipment, which the model does not subject to the CHECK that guards movements
\* and recounts, ever leaves more reserved than on hand.
NeverOversells == \A p \in Product : reserved[p] <= onHand[p]

\* on_hand is what the recorded movements add up to.  ship_order_full records
\* the whole line but clips on_hand at zero; that the clip never bites rests on
\* the counter, on the CHECK and on what an allocated order holds.
MovementsExplain == \A p \in Product : onHand[p] = ledger[p]

\* The inductive strengthening of the two.
StockInv == CounterInv /\ WholeInv /\ NeverOversells /\ MovementsExplain

\* Stock that comes in goes to the oldest shortage: a younger order gets none
\* of the product while an older one, approved too, is left short of it.
NotOvertaken ==
    [][\A a, b \in Order, p \in Product :
          /\ <<a, b>> \in before
          /\ status[a] = "approved" /\ status[b] = "approved"
          /\ short[b][p] > 0 /\ res'[b][p] > res[b][p]
          => short'[a][p] = 0]_vars

\* The promise implemented: reservations are holdings, shipped orders gone.
Promise == INSTANCE StockPromise WITH
    stock <- onHand, held <- res, gone <- {o \in Order : fulfil[o] = "shipped"}

\* Every step of the RPCs is a step of StockPromise, or changes none of it.
KeepsPromise == Promise!Spec
=============================================================================
