---------------------------- MODULE StockPromise ----------------------------
(***************************************************************************)
(* What the order and stock code promises, without products.reserved:      *)
(* orders hold pieces of stock, nobody is handed a piece that is not       *)
(* there, and only what an order holds whole leaves with it.  OrderStock   *)
(* keeps the sum of all holdings in a counter that every RPC adjusts by    *)
(* hand; that it implements this module is what the counter is for.        *)
(***************************************************************************)
EXTENDS Totals

CONSTANTS Order, Product

VARIABLES
    stock,   \* pieces in the warehouse
    held,    \* pieces each order holds
    gone     \* orders that left the warehouse

vars == <<stock, held, gone>>

\* All holdings of p.
HeldOf(p) == Total([o \in Order |-> held[o][p]])

Nothing == [p \in Product |-> 0]

Init ==
    /\ stock \in [Product -> Nat]
    /\ held = [o \in Order |-> Nothing]
    /\ gone = {}

\* Orders take pieces, of a product nobody holds more of than there is.
Take ==
    /\ held' \in [Order -> [Product -> Nat]]
    /\ \A o \in Order, p \in Product : held'[o][p] >= held[o][p]
    /\ \A p \in Product :
          (\E o \in Order : held'[o][p] > held[o][p]) => HeldOf(p)' <= stock[p]
    /\ UNCHANGED <<stock, gone>>

\* An order gives back all it holds.
Release(o) ==
    /\ o \notin gone
    /\ held' = [held EXCEPT ![o] = Nothing]
    /\ UNCHANGED <<stock, gone>>

\* An order leaves with all it holds.
Leave(o) ==
    /\ o \notin gone
    /\ stock' = [p \in Product |-> stock[p] - held[o][p]]
    /\ held' = [held EXCEPT ![o] = Nothing]
    /\ gone' = gone \cup {o}

\* Stock arrives, is used up, is counted: what is held is not touched.
Restock(p) ==
    /\ stock' \in [Product -> Nat]
    /\ HeldOf(p) <= stock'[p]
    /\ \A q \in Product \ {p} : stock'[q] = stock[q]
    /\ UNCHANGED <<held, gone>>

Next ==
    \/ Take
    \/ \E o \in Order : Release(o) \/ Leave(o)
    \/ \E p \in Product : Restock(p)

Spec == Init /\ [][Next]_vars
=============================================================================
