-------------------------- MODULE OrderStockProofs --------------------------
(***************************************************************************)
(* Theorems about OrderStock, for every set of orders and products, every  *)
(* bound and both ways of creating orders.                                 *)
(***************************************************************************)
EXTENDS OrderStock, TotalsTheorems

\* What a line can be given is a quantity, of the line and of what is free.
LEMMA ReservableBounds ==
    ASSUME TypeOK, NEW p \in Product, NEW lines \in [Product -> 0 .. MaxQty]
    PROVE  /\ Reservable(lines, p) \in Nat
           /\ Reservable(lines, p) <= lines[p]
           /\ Reservable(lines, p) > 0 =>
                 reserved[p] + Reservable(lines, p) <= onHand[p]
           /\ Shortage(lines, p) \in Nat
<1>1. onHand[p] \in Nat /\ reserved[p] \in Nat /\ lines[p] \in Nat
  BY BoundsNat DEF TypeOK
<1> QED BY <1>1 DEF Reservable, Shortage, Least, Clip

\* allocate_order_lines keeps the types of what it writes.
LEMMA AllocateType ==
    ASSUME TypeOK, NEW o \in Order, NEW lines \in [Product -> 0 .. MaxQty],
           AllocateLines(o, lines)
    PROVE  /\ reserved' \in [Product -> Nat]
           /\ res' \in [Order -> [Product -> Nat]]
           /\ short' \in [Order -> [Product -> Nat]]
           /\ before' \subseteq Order \X Order
<1>1. \A p \in Product : Reservable(lines, p) \in Nat /\ Shortage(lines, p) \in Nat
  BY ReservableBounds
<1>2. reserved' \in [Product -> Nat]
  BY <1>1 DEF AllocateLines, TypeOK
<1>3. res' \in [Order -> [Product -> Nat]]
  BY <1>1 DEF AllocateLines, TypeOK
<1>4. short' \in [Order -> [Product -> Nat]]
  BY <1>1 DEF AllocateLines, TypeOK
<1>5. before' \subseteq Order \X Order
  BY DEF AllocateLines, QueueLast, Requeue, Waiting
<1> QED BY <1>2, <1>3, <1>4, <1>5

\* The shares handed out by try_resolve_shortages are parts of the shortages.
LEMMA ShareType ==
    ASSUME TypeOK, NEW p \in Product, NEW avail \in Nat,
           NEW give \in Shares(p, avail)
    PROVE  /\ Claimants(p) \subseteq Order
           /\ give \in [Claimants(p) -> Nat]
           /\ \A o \in Claimants(p) : give[o] <= short[o][p]
           /\ Total(give) \in Nat
           /\ Total(give) <= avail
<1>1. /\ Claimants(p) \subseteq Order
      /\ give \in [Claimants(p) -> Nat]
      /\ \A o \in Claimants(p) : give[o] <= short[o][p]
      /\ Total(give) = avail \/ Total(give) < avail
  BY DEF Shares, Claimants
<1>2. IsFiniteSet(Claimants(p))
  BY <1>1, OrderFinite, FS_Subset
<1>3. Total(give) \in Nat
  BY <1>1, <1>2, UnitsFinite
<1> QED BY <1>1, <1>3
-----------------------------------------------------------------------------
\* Every row and column holds a value of its type, in every reachable state:
\* no counter goes below zero and no shortage is resolved past zero.
LEMMA TypeInductive == TypeOK /\ [Next]_vars => TypeOK'
<1> SUFFICES ASSUME TypeOK, [Next]_vars PROVE TypeOK'
  OBVIOUS
<1> NoLines \in [Product -> 0 .. MaxQty] /\ NoLines \in [Product -> Nat]
  BY BoundsNat DEF NoLines
<1> CreateStatus \subseteq Statuses
  BY CreateStatusOK DEF Statuses
<1>1. ASSUME NEW o \in Order, NEW lines \in Lines, NEW st \in CreateStatus,
             CreateOrder(o, lines, st)
      PROVE  TypeOK'
  BY <1>1 DEF CreateOrder, stockVars, Lines, TypeOK, Fulfilments
<1>2. ASSUME NEW o \in Order, NEW lines \in Lines, UpdateOrder(o, lines)
      PROVE  TypeOK'
  BY <1>2 DEF UpdateOrder, stockVars, Lines, Requeue, Waiting, TypeOK
<1>3. ASSUME NEW o \in Order, NEW lines \in Lines, SendQuoteOrder(o, lines)
      PROVE  TypeOK'
  <2>1. AllocateLines(o, lines) /\ lines \in [Product -> 0 .. MaxQty]
    BY <1>3 DEF SendQuoteOrder, Lines
  <2>2. Outcome(lines) \in Fulfilments
    BY DEF Outcome, Fulfilments
  <2> QED BY <1>3, <2>1, <2>2, AllocateType DEF SendQuoteOrder, TypeOK, Statuses
<1>4. ASSUME NEW o \in Order,
             SubmitOrder(o) \/ ApproveUnallocated(o) \/ ApproveRefused(o)
      PROVE  TypeOK'
  <2>1. AllocateLines(o, qty[o]) /\ qty[o] \in [Product -> 0 .. MaxQty]
    BY <1>4 DEF SubmitOrder, ApproveUnallocated, ApproveRefused, TypeOK
  <2>2. Outcome(qty[o]) \in Fulfilments
    BY DEF Outcome, Fulfilments
  <2>3. /\ reserved' \in [Product -> Nat]
        /\ res' \in [Order -> [Product -> Nat]]
        /\ short' \in [Order -> [Product -> Nat]]
        /\ before' \subseteq Order \X Order
    BY <2>1, AllocateType
  <2> QED BY <1>4, <2>2, <2>3
          DEF SubmitOrder, ApproveUnallocated, ApproveRefused, TypeOK, Statuses
<1>5. ASSUME NEW o \in Order, ApproveOrder(o) PROVE TypeOK'
  BY <1>5 DEF ApproveOrder, stockVars, TypeOK, Statuses
<1>6. ASSUME NEW o \in Order, ShipOrder(o) PROVE TypeOK'
  <2>1. ASSUME NEW p \in Product
        PROVE  /\ onHand[p] \in Nat /\ reserved[p] \in Nat /\ ledger[p] \in Int
               /\ res[o][p] \in Nat /\ qty[o][p] \in Nat
    BY BoundsNat DEF TypeOK
  <2>2. onHand' \in [Product -> Nat] /\ ledger' \in [Product -> Int]
    BY <1>6, <2>1 DEF ShipOrder, Clip
  <2>3. reserved' \in [Product -> Nat]
    BY <1>6, <2>1 DEF ShipOrder, Clip
  <2> QED BY <1>6, <2>2, <2>3 DEF ShipOrder, Requeue, Waiting, TypeOK, Fulfilments
<1>7. ASSUME NEW o \in Order, CancelOrder(o) PROVE TypeOK'
  <2>1. \A p \in Product : reserved[p] \in Nat /\ res[o][p] \in Nat
    BY DEF TypeOK
  <2>2. reserved' \in [Product -> Nat]
    BY <1>7, <2>1 DEF CancelOrder, Clip
  <2> QED BY <1>7, <2>2
          DEF CancelOrder, Requeue, Waiting, TypeOK, Statuses, Fulfilments
<1>8. ASSUME NEW o \in Order, DeleteOrder(o) PROVE TypeOK'
  BY <1>8 DEF DeleteOrder, stockVars, Requeue, Waiting, TypeOK, Statuses, Fulfilments
<1>9. ASSUME NEW p \in Product, NEW q \in -MaxQty .. MaxQty, RecordMovement(p, q)
      PROVE  TypeOK'
  <2>1. onHand[p] \in Nat /\ ledger[p] \in Int /\ q \in Int
    BY BoundsNat DEF TypeOK
  <2>2. onHand[p] + q \in Nat /\ ledger[p] + q \in Int
    BY <1>9, <2>1 DEF RecordMovement, MovementAllowed
  <2> QED BY <1>9, <2>2 DEF RecordMovement, orderVars, TypeOK
<1>10. ASSUME NEW p \in Product, NEW n \in 0 .. MaxStock, RecountStock(p, n)
       PROVE  TypeOK'
  <2>1. onHand[p] \in Nat /\ ledger[p] \in Int /\ n \in Nat
    BY BoundsNat DEF TypeOK
  <2>2. ledger[p] + (n - onHand[p]) \in Int
    BY <2>1
  <2> QED BY <1>10, <2>1, <2>2 DEF RecountStock, orderVars, TypeOK
<1>11. ASSUME NEW p \in Product, ResolveShortages(p) PROVE TypeOK'
  <2> DEFINE avail == onHand[p] - reserved[p]
             share(give) == [o \in Order |-> IF o \in Claimants(p) THEN give[o] ELSE 0]
  <2>1. PICK give \in Shares(p, avail) :
           /\ reserved' = [reserved EXCEPT ![p] = @ + Total(give)]
           /\ res' = [o \in Order |-> [res[o] EXCEPT ![p] = @ + share(give)[o]]]
           /\ short' = [o \in Order |-> [short[o] EXCEPT ![p] = @ - share(give)[o]]]
           /\ fulfil' = [o \in Order |->
                             IF /\ share(give)[o] > 0
                                /\ short'[o] = NoLines
                                /\ fulfil[o] = "partially_allocated"
                             THEN "allocated"
                             ELSE fulfil[o]]
    BY <1>11 DEF ResolveShortages
  <2>2. avail \in Nat
    BY <1>11 DEF ResolveShortages, TypeOK
  <2>3. /\ give \in [Claimants(p) -> Nat]
        /\ \A o \in Claimants(p) : give[o] <= short[o][p]
        /\ Total(give) \in Nat
    BY <2>2, ShareType
  <2>4. ASSUME NEW o \in Order
        PROVE  share(give)[o] \in Nat /\ share(give)[o] <= short[o][p]
    BY <2>3 DEF TypeOK
  <2> HIDE DEF share
  <2>5. reserved' \in [Product -> Nat]
    BY <2>1, <2>3 DEF TypeOK
  <2>6. res' \in [Order -> [Product -> Nat]]
    BY <2>1, <2>4 DEF TypeOK
  <2>7. \A o \in Order : short[o][p] - share(give)[o] \in Nat
    BY <2>4 DEF TypeOK
  <2>8. short' \in [Order -> [Product -> Nat]]
    BY <2>1, <2>7 DEF TypeOK
  <2>9. fulfil' \in [Order -> Fulfilments]
    BY <2>1 DEF TypeOK, Fulfilments
  <2> QED BY <1>11, <2>5, <2>6, <2>8, <2>9
          DEF ResolveShortages, Requeue, Waiting, TypeOK
<1>12. CASE UNCHANGED vars
  BY <1>12 DEF vars, stockVars, orderVars, TypeOK
<1> QED
  BY <1>1, <1>2, <1>3, <1>4, <1>5, <1>6, <1>7, <1>8, <1>9, <1>10, <1>11, <1>12
  DEF Next

THEOREM TypeCorrect == Spec => []TypeOK
<1>1. Init => TypeOK
  BY BoundsNat DEF Init, NoLines, TypeOK, Statuses, Fulfilments
<1> QED BY <1>1, TypeInductive, PTL DEF Spec
-----------------------------------------------------------------------------
\* The reservations of one product, one row per order.
Column(p) == [o \in Order |-> res[o][p]]

\* The sum of a column depends on the column only.
LEMMA HeldAfter ==
    ASSUME TypeOK, TypeOK', NEW p \in Product
    PROVE  /\ Column(p) \in [Order -> Nat]
           /\ Column(p)' \in [Order -> Nat]
           /\ \A o \in Order : Column(p)[o] = res[o][p] /\ Column(p)'[o] = res'[o][p]
           /\ HeldOf(p) = Total(Column(p))
           /\ HeldOf(p)' = Total(Column(p)')
           /\ HeldOf(p) \in Nat
<1>1. Column(p) \in [Order -> Nat] /\ Column(p)' \in [Order -> Nat]
  BY DEF Column, TypeOK
<1>2. Total(Column(p)) \in Nat
  BY <1>1, OrderFinite, UnitsFinite
<1> QED BY <1>1, <1>2 DEF Column, HeldOf

\* Allocation adds to the counter what it adds to the order's rows.
LEMMA AllocateCounts ==
    ASSUME CounterInv, TypeOK', NEW o \in Order,
           NEW lines \in [Product -> 0 .. MaxQty], AllocateLines(o, lines)
    PROVE  ReservedIsSum'
<1> SUFFICES ASSUME NEW p \in Product PROVE reserved'[p] = HeldOf(p)'
  BY DEF ReservedIsSum
<1> TypeOK /\ reserved[p] = HeldOf(p)
  BY DEF CounterInv, ReservedIsSum
<1> DEFINE r == Reservable(lines, p)
           g == [x \in Order |-> IF x = o THEN r ELSE 0]
<1>1. r \in Nat
  BY ReservableBounds
<1>2. reserved'[p] = reserved[p] + r
  BY DEF AllocateLines
<1>3. \A x \in Order : res'[x][p] = res[x][p] + (IF x = o THEN r ELSE 0)
  BY DEF AllocateLines, TypeOK
<1> HIDE DEF r
<1>4. g \in [Order -> Nat] /\ g[o] = r /\ \A x \in Order \ {o} : g[x] = 0
  BY <1>1
<1>5. \A x \in Order : Column(p)'[x] = Column(p)[x] + g[x]
  BY <1>3, HeldAfter
<1> HIDE DEF g
<1>6. Total(g) = r
  BY <1>4, TotalOfOne
<1>7. Total(Column(p)') = Total(Column(p)) + Total(g)
  BY <1>4, <1>5, OrderFinite, HeldAfter, TotalAdd
<1> QED BY <1>2, <1>6, <1>7, HeldAfter

\* Emptying an order's rows takes off the counter what they held: the
\* greatest(0, ...) around the subtraction does nothing.
LEMMA ReleaseCounts ==
    ASSUME CounterInv, TypeOK', NEW o \in Order,
           reserved' = [p \in Product |-> Clip(reserved[p], res[o][p])],
           res' = [res EXCEPT ![o] = NoLines]
    PROVE  /\ ReservedIsSum'
           /\ \A p \in Product : reserved[p] - reserved'[p] = res[o][p]
<1> SUFFICES ASSUME NEW p \in Product
             PROVE  /\ reserved'[p] = HeldOf(p)'
                    /\ reserved[p] - reserved'[p] = res[o][p]
  BY DEF ReservedIsSum
<1> TypeOK /\ reserved[p] = HeldOf(p)
  BY DEF CounterInv, ReservedIsSum
<1>1. /\ res'[o][p] = 0
      /\ \A x \in Order \ {o} : res'[x][p] = res[x][p]
  BY DEF NoLines, TypeOK
<1>2. Column(p)'[o] = 0 /\ \A x \in Order \ {o} : Column(p)'[x] = Column(p)[x]
  BY <1>1, HeldAfter
<1>3. /\ Column(p)[o] <= Total(Column(p))
      /\ Total(Column(p)') = Total(Column(p)) - Column(p)[o]
  BY <1>2, OrderFinite, HeldAfter, TotalWithout
<1>4. reserved'[p] = Clip(reserved[p], res[o][p])
  OBVIOUS
<1>5. res[o][p] \in Nat /\ reserved[p] \in Nat /\ res[o][p] <= reserved[p]
  BY <1>3, HeldAfter DEF TypeOK
<1>6. reserved'[p] = reserved[p] - res[o][p]
  BY <1>4, <1>5 DEF Clip
<1> QED BY <1>3, <1>5, <1>6, HeldAfter

\* Resolving shortages adds to the counter the sum of the shares.
LEMMA ResolveCounts ==
    ASSUME CounterInv, TypeOK', NEW p \in Product, ResolveShortages(p)
    PROVE  ReservedIsSum'
<1> TypeOK /\ \A q \in Product : reserved[q] = HeldOf(q)
  BY DEF CounterInv, ReservedIsSum
<1> DEFINE avail == onHand[p] - reserved[p]
           share(give) == [o \in Order |-> IF o \in Claimants(p) THEN give[o] ELSE 0]
<1>1. PICK give \in Shares(p, avail) :
         /\ reserved' = [reserved EXCEPT ![p] = @ + Total(give)]
         /\ res' = [o \in Order |-> [res[o] EXCEPT ![p] = @ + share(give)[o]]]
  BY DEF ResolveShortages
<1>2. avail \in Nat
  BY DEF ResolveShortages, TypeOK
<1>3. Claimants(p) \subseteq Order /\ give \in [Claimants(p) -> Nat]
  BY <1>2, ShareType
<1>4. /\ share(give) \in [Order -> Nat]
      /\ \A o \in Claimants(p) : share(give)[o] = give[o]
      /\ \A o \in Order \ Claimants(p) : share(give)[o] = 0
  BY <1>3
<1> HIDE DEF share
<1>5. Total(share(give)) = Total(give)
  BY <1>3, <1>4, TotalOfExtension
<1>6. ASSUME NEW q \in Product PROVE reserved'[q] = HeldOf(q)'
  <2>1. CASE q = p
    <3>1. \A o \in Order : Column(p)'[o] = Column(p)[o] + share(give)[o]
      BY <1>1, HeldAfter DEF TypeOK
    <3>2. Total(Column(p)') = Total(Column(p)) + Total(share(give))
      BY <1>4, <3>1, OrderFinite, HeldAfter, TotalAdd
    <3>3. reserved'[p] = reserved[p] + Total(give)
      BY <1>1 DEF TypeOK
    <3> QED BY <2>1, <1>5, <3>2, <3>3, HeldAfter
  <2>2. CASE q # p
    <3>1. reserved'[q] = reserved[q] /\ \A o \in Order : res'[o][q] = res[o][q]
      BY <1>1, <2>2 DEF TypeOK
    <3>2. HeldOf(q)' = HeldOf(q)
      BY <3>1 DEF HeldOf
    <3> QED BY <3>1, <3>2
  <2> QED BY <2>1, <2>2
<1> QED BY <1>6 DEF ReservedIsSum

\* Neither counter nor rows change.
LEMMA UnchangedCounts ==
    ASSUME ReservedIsSum, UNCHANGED <<reserved, res>>
    PROVE  ReservedIsSum'
  BY DEF ReservedIsSum, HeldOf

\* Only pending and approved orders come to hold anything, and no order stops
\* being one of them with something in its hands.
LEMMA IdleInductive ==
    ASSUME TypeOK, IdleHoldNothing, [Next]_vars
    PROVE  IdleHoldNothing'
<1> SUFFICES ASSUME NEW o \in Order,
                    status'[o] \notin {"pending_approval", "approved"}
             PROVE  res'[o] = NoLines
  BY DEF IdleHoldNothing
<1> status[o] \notin {"pending_approval", "approved"} => res[o] = NoLines
  BY DEF IdleHoldNothing
<1> USE DEF TypeOK
<1>1. ASSUME NEW a \in Order, NEW lines \in Lines, NEW st \in CreateStatus,
             CreateOrder(a, lines, st)
      PROVE  res'[o] = NoLines
  BY <1>1 DEF CreateOrder, IdleHoldNothing
<1>2. ASSUME NEW a \in Order, NEW lines \in Lines, UpdateOrder(a, lines)
      PROVE  res'[o] = NoLines
  BY <1>2 DEF UpdateOrder
<1>3. ASSUME NEW a \in Order, NEW lines \in Lines, SendQuoteOrder(a, lines)
      PROVE  res'[o] = NoLines
  BY <1>3 DEF SendQuoteOrder, AllocateLines
<1>4. ASSUME NEW a \in Order,
             SubmitOrder(a) \/ ApproveUnallocated(a) \/ ApproveRefused(a)
      PROVE  res'[o] = NoLines
  BY <1>4 DEF SubmitOrder, ApproveUnallocated, ApproveRefused, AllocateLines
<1>5. ASSUME NEW a \in Order, ApproveOrder(a) PROVE res'[o] = NoLines
  BY <1>5 DEF ApproveOrder
<1>6. ASSUME NEW a \in Order, ShipOrder(a) \/ CancelOrder(a) \/ DeleteOrder(a)
      PROVE  res'[o] = NoLines
  BY <1>6 DEF ShipOrder, CancelOrder, DeleteOrder
<1>7. ASSUME NEW p \in Product, NEW n \in Int,
             RecordMovement(p, n) \/ RecountStock(p, n)
      PROVE  res'[o] = NoLines
  BY <1>7 DEF RecordMovement, RecountStock, orderVars
<1>8. ASSUME NEW p \in Product, ResolveShortages(p) PROVE res'[o] = NoLines
  <2>1. status[o] # "approved" /\ status' = status
    BY <1>8 DEF ResolveShortages
  <2>2. o \notin Claimants(p)
    BY <2>1 DEF Claimants
  <2>3. res'[o] = [res[o] EXCEPT ![p] = @ + 0]
    BY <1>8, <2>2 DEF ResolveShortages
  <2>4. res'[o] = res[o]
    BY <2>3
  <2> QED BY <2>1, <2>4
<1>9. CASE UNCHANGED vars
  BY <1>9 DEF vars, orderVars
<1> QED
  BY <1>1, <1>2, <1>3, <1>4, <1>5, <1>6, <1>7, <1>8, <1>9, BoundsNat DEF Next

LEMMA CounterInductive == CounterInv /\ [Next]_vars => CounterInv'
<1> SUFFICES ASSUME CounterInv, [Next]_vars PROVE CounterInv'
  OBVIOUS
<1>1. TypeOK'
  BY TypeInductive DEF CounterInv
<1>2. IdleHoldNothing'
  BY IdleInductive DEF CounterInv
<1>3. ReservedIsSum'
  <2>1. ASSUME NEW o \in Order, NEW lines \in Lines, NEW st \in CreateStatus,
               CreateOrder(o, lines, st)
        PROVE  ReservedIsSum'
    BY <2>1, UnchangedCounts DEF CounterInv, CreateOrder, stockVars
  <2>2. ASSUME NEW o \in Order, NEW lines \in Lines, UpdateOrder(o, lines)
        PROVE  ReservedIsSum'
    <3>1. res[o] = NoLines
      BY <2>2 DEF UpdateOrder, Editable, CounterInv, IdleHoldNothing
    <3>2. UNCHANGED <<reserved, res>>
      BY <2>2, <3>1 DEF UpdateOrder, stockVars, CounterInv, TypeOK
    <3> QED BY <3>2, UnchangedCounts DEF CounterInv
  <2>3. ASSUME NEW o \in Order, NEW lines \in Lines, SendQuoteOrder(o, lines)
        PROVE  ReservedIsSum'
    BY <1>1, <2>3, AllocateCounts DEF SendQuoteOrder, Lines
  <2>4. ASSUME NEW o \in Order,
               SubmitOrder(o) \/ ApproveUnallocated(o) \/ ApproveRefused(o)
        PROVE  ReservedIsSum'
    <3>1. AllocateLines(o, qty[o]) /\ qty[o] \in [Product -> 0 .. MaxQty]
      BY <2>4 DEF SubmitOrder, ApproveUnallocated, ApproveRefused, CounterInv, TypeOK
    <3> QED BY <1>1, <3>1, AllocateCounts
  <2>5. ASSUME NEW o \in Order, ApproveOrder(o) PROVE ReservedIsSum'
    BY <2>5, UnchangedCounts DEF CounterInv, ApproveOrder, stockVars
  <2>6. ASSUME NEW o \in Order, ShipOrder(o) \/ CancelOrder(o)
        PROVE  ReservedIsSum'
    BY <1>1, <2>6, ReleaseCounts DEF ShipOrder, CancelOrder
  <2>7. ASSUME NEW o \in Order, DeleteOrder(o) PROVE ReservedIsSum'
    <3>1. res[o] = NoLines
      BY <2>7 DEF DeleteOrder, Deletable, CounterInv, IdleHoldNothing
    <3>2. UNCHANGED <<reserved, res>>
      BY <2>7, <3>1 DEF DeleteOrder, stockVars, CounterInv, TypeOK
    <3> QED BY <3>2, UnchangedCounts DEF CounterInv
  <2>8. ASSUME NEW p \in Product, NEW n \in Int,
               RecordMovement(p, n) \/ RecountStock(p, n)
        PROVE  ReservedIsSum'
    BY <2>8, UnchangedCounts DEF CounterInv, RecordMovement, RecountStock, orderVars
  <2>9. ASSUME NEW p \in Product, ResolveShortages(p) PROVE ReservedIsSum'
    BY <1>1, <2>9, ResolveCounts
  <2>10. CASE UNCHANGED vars
    BY <2>10, UnchangedCounts DEF CounterInv, vars, stockVars, orderVars
  <2> QED
    BY <2>1, <2>2, <2>3, <2>4, <2>5, <2>6, <2>7, <2>8, <2>9, <2>10, BoundsNat
    DEF Next
<1> QED BY <1>1, <1>2, <1>3 DEF CounterInv

\* Nothing is reserved to begin with.
LEMMA CounterStart == Init => CounterInv
<1> SUFFICES ASSUME Init PROVE CounterInv
  OBVIOUS
<1>1. TypeOK
  BY BoundsNat DEF Init, NoLines, TypeOK, Statuses, Fulfilments
<1>2. IdleHoldNothing
  BY DEF Init, IdleHoldNothing
<1>3. ASSUME NEW p \in Product PROVE reserved[p] = HeldOf(p)
  <2> DEFINE none == [o \in Order |-> res[o][p]]
  <2>1. none \in [Order -> Nat] /\ \A o \in Order : none[o] = 0
    BY DEF Init, NoLines
  <2> HIDE DEF none
  <2>2. Total(none) = 0
    BY <2>1, TotalOfNothing
  <2>3. reserved[p] = 0
    BY DEF Init, NoLines
  <2> QED BY <2>2, <2>3 DEF HeldOf, none
<1> QED BY <1>1, <1>2, <1>3 DEF CounterInv, ReservedIsSum

\* products.reserved, adjusted by hand in every RPC, always equals the sum of
\* the open reservations of the product.
THEOREM CounterCorrect == Spec => []ReservedIsSum
<1>1. CounterInv => ReservedIsSum
  BY DEF CounterInv
<1> QED BY <1>1, CounterStart, CounterInductive, PTL DEF Spec
-----------------------------------------------------------------------------
\* Only allocation and shortage resolution raise the counter, and both take from
\* what on_hand exceeds it by.
LEMMA OversellStep ==
    ASSUME TypeOK, [Next]_vars, NEW p \in Product, reserved'[p] > reserved[p]
    PROVE  reserved'[p] <= onHand[p]
<1> onHand[p] \in Nat /\ reserved[p] \in Nat
  BY DEF TypeOK
<1>1. ASSUME NEW o \in Order, NEW lines \in [Product -> 0 .. MaxQty],
             AllocateLines(o, lines)
      PROVE  reserved'[p] <= onHand[p]
  <2>1. reserved'[p] = reserved[p] + Reservable(lines, p)
    BY <1>1 DEF AllocateLines
  <2>2. Reservable(lines, p) \in Nat
    BY ReservableBounds
  <2> QED BY <2>1, <2>2, ReservableBounds
<1>2. ASSUME NEW o \in Order,
             SubmitOrder(o) \/ ApproveUnallocated(o) \/ ApproveRefused(o)
      PROVE  reserved'[p] <= onHand[p]
  <2>1. AllocateLines(o, qty[o]) /\ qty[o] \in [Product -> 0 .. MaxQty]
    BY <1>2 DEF SubmitOrder, ApproveUnallocated, ApproveRefused, TypeOK
  <2> QED BY <1>1, <2>1
<1>3. ASSUME NEW o \in Order, NEW lines \in Lines, SendQuoteOrder(o, lines)
      PROVE  reserved'[p] <= onHand[p]
  BY <1>1, <1>3 DEF SendQuoteOrder, Lines
<1>4. ASSUME NEW o \in Order, ShipOrder(o) \/ CancelOrder(o)
      PROVE  FALSE
  <2>1. reserved'[p] = Clip(reserved[p], res[o][p]) /\ res[o][p] \in Nat
    BY <1>4 DEF ShipOrder, CancelOrder, TypeOK
  <2> QED BY <2>1 DEF Clip
<1>5. ASSUME NEW q \in Product, ResolveShortages(q)
      PROVE  reserved'[p] <= onHand[p]
  <2>1. PICK give \in Shares(q, onHand[q] - reserved[q]) :
           reserved' = [reserved EXCEPT ![q] = @ + Total(give)]
    BY <1>5 DEF ResolveShortages
  <2>2. p = q
    BY <2>1 DEF TypeOK
  <2>3. onHand[p] - reserved[p] \in Nat
    BY <1>5, <2>2 DEF ResolveShortages
  <2>4. Total(give) \in Nat /\ Total(give) <= onHand[p] - reserved[p]
    BY <2>1, <2>2, <2>3, ShareType
  <2>5. reserved'[p] = reserved[p] + Total(give)
    BY <2>1, <2>2 DEF TypeOK
  <2> QED BY <2>4, <2>5
<1>6. ASSUME NEW o \in Order, NEW lines \in Lines, NEW st \in CreateStatus,
             CreateOrder(o, lines, st)
      PROVE  FALSE
  BY <1>6 DEF CreateOrder, stockVars
<1>7. ASSUME NEW q \in Product, NEW n \in Int, RecordMovement(q, n) \/ RecountStock(q, n)
      PROVE  FALSE
  BY <1>7 DEF RecordMovement, RecountStock
<1>8. CASE UNCHANGED vars
  BY <1>8 DEF vars, stockVars
<1> QED
  <2>1. CASE \E o \in Order, lines \in Lines :
                \/ \E st \in CreateStatus : CreateOrder(o, lines, st)
                \/ UpdateOrder(o, lines)
                \/ SendQuoteOrder(o, lines)
    <3>1. ASSUME NEW o \in Order, NEW lines \in Lines, UpdateOrder(o, lines) PROVE FALSE
      BY <3>1 DEF UpdateOrder, stockVars
    <3> QED BY <1>3, <1>6, <2>1, <3>1
  <2>2. CASE \E o \in Order :
                \/ SubmitOrder(o) \/ ApproveOrder(o) \/ ApproveUnallocated(o)
                \/ ApproveRefused(o) \/ ShipOrder(o) \/ CancelOrder(o)
                \/ DeleteOrder(o)
    <3>1. ASSUME NEW o \in Order, ApproveOrder(o) \/ DeleteOrder(o) PROVE FALSE
      BY <3>1 DEF ApproveOrder, DeleteOrder, stockVars
    <3> QED BY <1>2, <1>4, <2>2, <3>1
  <2> QED BY <1>5, <1>7, <1>8, <2>1, <2>2, BoundsNat DEF Next

-----------------------------------------------------------------------------
(***************************************************************************)
(* What the steps do to the rows of one order.                             *)
(***************************************************************************)

\* Allocation gives each line of the order to its reservations and shortages,
\* and leaves the rows of the others alone.
LEMMA AllocateRows ==
    ASSUME TypeOK, NEW o \in Order, NEW lines \in [Product -> 0 .. MaxQty],
           AllocateLines(o, lines)
    PROVE  /\ \A p \in Product :
                 /\ res'[o][p] = res[o][p] + Reservable(lines, p)
                 /\ short'[o][p] = short[o][p] + Shortage(lines, p)
                 /\ Reservable(lines, p) + Shortage(lines, p) = lines[p]
           /\ \A x \in Order \ {o} : res'[x] = res[x] /\ short'[x] = short[x]
<1>1. ASSUME NEW p \in Product
      PROVE  Reservable(lines, p) + Shortage(lines, p) = lines[p]
  <2>1. Reservable(lines, p) \in Nat /\ lines[p] \in Nat
    BY BoundsNat, ReservableBounds
  <2> QED BY <2>1 DEF Shortage
<1> QED BY <1>1 DEF AllocateLines, TypeOK

\* Resolving moves a share of one product from the shortages of a claimant to its
\* reservations; a partially allocated order that got one and is short of nothing
\* any more becomes allocated.
LEMMA ResolveRows ==
    ASSUME TypeOK, NEW p \in Product, ResolveShortages(p)
    PROVE  \E share \in [Order -> Nat] :
              /\ \A o \in Order :
                    /\ share[o] <= short[o][p]
                    /\ share[o] > 0 => o \in Claimants(p)
                    /\ res'[o][p] = res[o][p] + share[o]
                    /\ short'[o][p] = short[o][p] - share[o]
                    /\ \A q \in Product \ {p} :
                          res'[o][q] = res[o][q] /\ short'[o][q] = short[o][q]
                    /\ fulfil'[o] = IF /\ share[o] > 0
                                       /\ short'[o] = NoLines
                                       /\ fulfil[o] = "partially_allocated"
                                    THEN "allocated"
                                    ELSE fulfil[o]
              /\ \A a, b \in Claimants(p) :
                    <<a, b>> \in before /\ share[b] > 0 => share[a] = short[a][p]
<1> DEFINE avail == onHand[p] - reserved[p]
           part(give) == [o \in Order |-> IF o \in Claimants(p) THEN give[o] ELSE 0]
<1>1. PICK give \in Shares(p, avail) :
         /\ res' = [o \in Order |-> [res[o] EXCEPT ![p] = @ + part(give)[o]]]
         /\ short' = [o \in Order |-> [short[o] EXCEPT ![p] = @ - part(give)[o]]]
         /\ fulfil' = [o \in Order |->
                         IF /\ part(give)[o] > 0
                            /\ short'[o] = NoLines
                            /\ fulfil[o] = "partially_allocated"
                         THEN "allocated"
                         ELSE fulfil[o]]
  BY DEF ResolveShortages
<1>2. avail \in Nat
  BY DEF ResolveShortages, TypeOK
<1>3. /\ Claimants(p) \subseteq Order /\ give \in [Claimants(p) -> Nat]
      /\ \A o \in Claimants(p) : give[o] <= short[o][p]
  BY <1>2, ShareType
<1>4. \A a, b \in Claimants(p) :
         <<a, b>> \in before /\ give[b] > 0 => give[a] = short[a][p]
  BY DEF Shares, OldestFirst
<1> DEFINE share == part(give)
<1>5. share \in [Order -> Nat]
  BY <1>3
<1>6. ASSUME NEW o \in Order
      PROVE  /\ share[o] <= short[o][p]
             /\ share[o] > 0 => o \in Claimants(p)
  BY <1>3 DEF TypeOK
<1>7. \A a, b \in Claimants(p) :
         <<a, b>> \in before /\ share[b] > 0 => share[a] = short[a][p]
  BY <1>3, <1>4
<1>8. /\ res' = [o \in Order |-> [res[o] EXCEPT ![p] = @ + share[o]]]
      /\ short' = [o \in Order |-> [short[o] EXCEPT ![p] = @ - share[o]]]
      /\ fulfil' = [o \in Order |->
                      IF /\ share[o] > 0
                         /\ short'[o] = NoLines
                         /\ fulfil[o] = "partially_allocated"
                      THEN "allocated"
                      ELSE fulfil[o]]
  BY <1>1
<1> HIDE DEF share
<1>9. ASSUME NEW o \in Order
      PROVE  /\ res'[o][p] = res[o][p] + share[o]
             /\ short'[o][p] = short[o][p] - share[o]
             /\ \A q \in Product \ {p} :
                   res'[o][q] = res[o][q] /\ short'[o][q] = short[o][q]
             /\ fulfil'[o] = IF /\ share[o] > 0
                                /\ short'[o] = NoLines
                                /\ fulfil[o] = "partially_allocated"
                             THEN "allocated"
                             ELSE fulfil[o]
  BY <1>8 DEF TypeOK
<1> WITNESS share \in [Order -> Nat]
<1> QED BY <1>6, <1>7, <1>9
-----------------------------------------------------------------------------
(***************************************************************************)
(* Rows and statuses agree, where orders are created as drafts.            *)
(***************************************************************************)

\* RowsInv, order by order.
RowsOf(o) ==
    /\ fulfil[o] = "shipped" => status[o] = "approved"
    /\ o \in Live => fulfil[o] # "unallocated"
    /\ \A p \in Product :
          res[o][p] + short[o][p] = IF o \in Live THEN qty[o][p] ELSE 0
    /\ o \in Live => (fulfil[o] = "allocated" <=> short[o] = NoLines)

LEMMA RowsByOrder == TypeOK => (RowsInv <=> \A o \in Order : RowsOf(o))
<1>1. TypeOK => (RowsHonest <=>
                    \A o \in Order :
                       /\ \A p \in Product :
                             res[o][p] + short[o][p] = IF o \in Live THEN qty[o][p] ELSE 0
                       /\ o \in Live => (fulfil[o] = "allocated" <=> short[o] = NoLines))
  BY DEF RowsHonest, LinesAccounted, FulfilmentHonest, Waiting, Live
<1>2. (\A o \in Live : fulfil[o] # "unallocated") <=>
         (\A o \in Order : o \in Live => fulfil[o] # "unallocated")
  BY DEF Live
<1> QED BY <1>1, <1>2 DEF RowsInv, RowsOf, ShippedApproved

LEMMA RowsByOrderNext == TypeOK' => (RowsInv' <=> \A o \in Order : RowsOf(o)')
<1>1. (TypeOK => (RowsInv <=> \A o \in Order : RowsOf(o)))'
  BY RowsByOrder, PTL
<1> QED BY <1>1

\* An order no row of which is written keeps them so.
LEMMA RowsOfOthers ==
    ASSUME NEW x \in Order, RowsOf(x),
           status'[x] = status[x], fulfil'[x] = fulfil[x], qty'[x] = qty[x],
           res'[x] = res[x], short'[x] = short[x]
    PROVE  RowsOf(x)'
  BY DEF RowsOf, Live

\* An order that is not live and has no rows.
LEMMA RowsOfIdle ==
    ASSUME NEW o \in Order,
           fulfil'[o] = "shipped" <=> status'[o] \in {"pending_approval", "approved"},
           fulfil'[o] = "shipped" => status'[o] = "approved",
           res'[o] = NoLines, short'[o] = NoLines
    PROVE  RowsOf(o)'
<1>1. o \notin Live'
  BY DEF Live
<1>2. \A p \in Product : res'[o][p] = 0 /\ short'[o][p] = 0
  BY DEF NoLines
<1> QED BY <1>1, <1>2 DEF RowsOf

\* An order that is not live holds and lacks nothing.
LEMMA IdleRows ==
    ASSUME RowsInv, NEW o \in Order, o \notin Live
    PROVE  res[o] = NoLines /\ short[o] = NoLines
<1>1. /\ res[o] \in [Product -> Nat] /\ short[o] \in [Product -> Nat]
      /\ \A p \in Product : res[o][p] + short[o][p] = 0
  BY DEF RowsInv, TypeOK, RowsHonest, LinesAccounted
<1>2. \A p \in Product : res[o][p] = 0 /\ short[o][p] = 0
  BY <1>1
<1> QED BY <1>1, <1>2 DEF NoLines

\* An order that held nothing has been allocated its lines.
LEMMA RowsOfAllocated ==
    ASSUME TypeOK, TypeOK', NEW o \in Order,
           NEW lines \in [Product -> 0 .. MaxQty], AllocateLines(o, lines),
           res[o] = NoLines, short[o] = NoLines,
           status'[o] \in {"pending_approval", "approved"},
           fulfil'[o] = Outcome(lines), qty'[o] = lines
    PROVE  RowsOf(o)'
<1>1. ASSUME NEW p \in Product
      PROVE  /\ res'[o][p] = Reservable(lines, p)
             /\ short'[o][p] = Shortage(lines, p)
             /\ Reservable(lines, p) + Shortage(lines, p) = lines[p]
             /\ Reservable(lines, p) \in Nat /\ Shortage(lines, p) \in Nat
             /\ Reservable(lines, p) < lines[p] <=> Shortage(lines, p) # 0
  <2>1. res[o][p] = 0 /\ short[o][p] = 0
    BY DEF NoLines
  <2>2. Reservable(lines, p) \in Nat /\ Shortage(lines, p) \in Nat /\ lines[p] \in Nat
    BY BoundsNat, ReservableBounds
  <2>3. /\ res'[o][p] = res[o][p] + Reservable(lines, p)
        /\ short'[o][p] = short[o][p] + Shortage(lines, p)
        /\ Reservable(lines, p) + Shortage(lines, p) = lines[p]
    BY AllocateRows
  <2> QED BY <2>1, <2>2, <2>3
<1>2. short'[o] = NoLines <=> \A p \in Product : Shortage(lines, p) = 0
  BY <1>1 DEF TypeOK, NoLines
<1>3. Outcome(lines) = "allocated" <=> short'[o] = NoLines
  BY <1>1, <1>2 DEF Outcome
<1>4. Outcome(lines) \in {"partially_allocated", "allocated"}
  BY DEF Outcome
<1>5. o \in Live'
  BY <1>4 DEF Live
<1> QED BY <1>1, <1>3, <1>4, <1>5 DEF RowsOf

\* Resolving shortages keeps the rows of every order adding up, and its status
\* true to them.
LEMMA RowsOfResolved ==
    ASSUME RowsInv, TypeOK', NEW p \in Product, ResolveShortages(p), NEW o \in Order
    PROVE  RowsOf(o)'
<1> TypeOK /\ RowsOf(o)
  BY RowsByOrder DEF RowsInv
<1>1. PICK share \in [Order -> Nat] :
         /\ share[o] <= short[o][p]
         /\ share[o] > 0 => o \in Claimants(p)
         /\ res'[o][p] = res[o][p] + share[o]
         /\ short'[o][p] = short[o][p] - share[o]
         /\ \A q \in Product \ {p} : res'[o][q] = res[o][q] /\ short'[o][q] = short[o][q]
         /\ fulfil'[o] = IF /\ share[o] > 0
                            /\ short'[o] = NoLines
                            /\ fulfil[o] = "partially_allocated"
                         THEN "allocated"
                         ELSE fulfil[o]
  BY ResolveRows
<1>2. status'[o] = status[o] /\ qty'[o] = qty[o]
  BY DEF ResolveShortages
<1>3. /\ share[o] \in Nat /\ res[o] \in [Product -> Nat] /\ short[o] \in [Product -> Nat]
      /\ short'[o] \in [Product -> Nat]
  BY DEF TypeOK
<1>4. \A q \in Product : res'[o][q] + short'[o][q] = res[o][q] + short[o][q]
  BY <1>1, <1>3
<1>5. o \in Live' <=> o \in Live
  BY <1>1, <1>2 DEF Live
<1>6. CASE share[o] = 0
  <2>1. \A q \in Product : short'[o][q] = short[o][q]
    BY <1>1, <1>3, <1>6
  <2>2. short'[o] = short[o]
    BY <1>3, <2>1
  <2>3. fulfil'[o] = fulfil[o]
    BY <1>1, <1>6
  <2> QED BY <1>2, <1>4, <1>5, <2>2, <2>3 DEF RowsOf
<1>7. CASE share[o] > 0
  <2>1. o \in Live /\ short[o] # NoLines
    <3>1. short[o][p] > 0
      BY <1>1, <1>3, <1>7
    <3>2. o \notin Live => res[o][p] + short[o][p] = 0
      BY DEF RowsOf
    <3> QED BY <1>3, <3>1, <3>2 DEF NoLines
  <2>2. fulfil[o] = "partially_allocated"
    BY <2>1 DEF RowsOf, Live, TypeOK, Fulfilments
  <2>3. fulfil'[o] = IF short'[o] = NoLines THEN "allocated" ELSE "partially_allocated"
    BY <1>1, <1>7, <2>2
  <2> QED BY <1>2, <1>4, <1>5, <2>1, <2>3 DEF RowsOf
<1> QED BY <1>3, <1>6, <1>7

LEMMA RowsInductive ==
    ASSUME CreateStatus \subseteq {"draft"}
    PROVE  RowsInv /\ [Next]_vars => RowsInv'
<1> SUFFICES ASSUME RowsInv, [Next]_vars PROVE RowsInv'
  OBVIOUS
<1> TypeOK /\ TypeOK' /\ \A x \in Order : RowsOf(x)
  BY RowsByOrder, TypeInductive DEF RowsInv
<1> SUFFICES ASSUME NEW x \in Order PROVE RowsOf(x)'
  BY RowsByOrderNext
<1> RowsOf(x)
  OBVIOUS
<1>1. ASSUME NEW o \in Order, NEW lines \in Lines, NEW st \in CreateStatus,
             CreateOrder(o, lines, st)
      PROVE  RowsOf(x)'
  <2>1. CASE x = o
    <3>1. o \notin Live /\ st = "draft"
      BY <1>1 DEF CreateOrder, Live
    <3>2. res'[o] = NoLines /\ short'[o] = NoLines
      BY <1>1, <3>1, IdleRows DEF CreateOrder
    <3>3. status'[o] = "draft" /\ fulfil'[o] = "unallocated"
      BY <1>1, <3>1 DEF CreateOrder, TypeOK
    <3> QED BY <2>1, <3>2, <3>3, RowsOfIdle
  <2>2. CASE x # o
    BY <1>1, <2>2, RowsOfOthers DEF CreateOrder, TypeOK
  <2> QED BY <2>1, <2>2
<1>2. ASSUME NEW o \in Order, NEW lines \in Lines, UpdateOrder(o, lines)
      PROVE  RowsOf(x)'
  <2>1. CASE x = o
    <3>1. status'[o] = "draft" /\ fulfil'[o] # "shipped"
      BY <1>2 DEF UpdateOrder, Editable, RowsInv, ShippedApproved
    <3>2. res'[o] = NoLines /\ short'[o] = NoLines
      BY <1>2 DEF UpdateOrder, TypeOK
    <3> QED BY <2>1, <3>1, <3>2, RowsOfIdle
  <2>2. CASE x # o
    BY <1>2, <2>2, RowsOfOthers DEF UpdateOrder, TypeOK
  <2> QED BY <2>1, <2>2
<1>3. ASSUME NEW o \in Order, NEW lines \in Lines, SendQuoteOrder(o, lines)
      PROVE  RowsOf(x)'
  <2>1. AllocateLines(o, lines) /\ lines \in [Product -> 0 .. MaxQty]
    BY <1>3 DEF SendQuoteOrder, Lines
  <2>2. CASE x = o
    <3>1. res[o] = NoLines /\ short[o] = NoLines
      BY <1>3, IdleRows DEF SendQuoteOrder, Live
    <3>2. /\ status'[o] = "pending_approval" /\ fulfil'[o] = Outcome(lines)
          /\ qty'[o] = lines
      BY <1>3 DEF SendQuoteOrder, TypeOK
    <3> QED BY <2>1, <2>2, <3>1, <3>2, RowsOfAllocated
  <2>3. CASE x # o
    <3>1. res'[x] = res[x] /\ short'[x] = short[x]
      BY <2>1, <2>3, AllocateRows
    <3> QED BY <1>3, <2>3, <3>1, RowsOfOthers DEF SendQuoteOrder, TypeOK
  <2> QED BY <2>2, <2>3
<1>4. ASSUME NEW o \in Order, SubmitOrder(o) PROVE RowsOf(x)'
  <2>1. AllocateLines(o, qty[o]) /\ qty[o] \in [Product -> 0 .. MaxQty]
    BY <1>4 DEF SubmitOrder, TypeOK
  <2>2. CASE x = o
    <3>1. res[o] = NoLines /\ short[o] = NoLines
      BY <1>4, IdleRows DEF SubmitOrder, Live
    <3>2. /\ status'[o] = "pending_approval" /\ fulfil'[o] = Outcome(qty[o])
          /\ qty'[o] = qty[o]
      BY <1>4 DEF SubmitOrder, TypeOK
    <3> QED BY <2>1, <2>2, <3>1, <3>2, RowsOfAllocated
  <2>3. CASE x # o
    <3>1. res'[x] = res[x] /\ short'[x] = short[x]
      BY <2>1, <2>3, AllocateRows
    <3> QED BY <1>4, <2>3, <3>1, RowsOfOthers DEF SubmitOrder, TypeOK
  <2> QED BY <2>2, <2>3
<1>5. ASSUME NEW o \in Order, ApproveOrder(o) PROVE RowsOf(x)'
  <2>1. CASE x = o
    <3>1. /\ status'[o] = "approved" /\ fulfil'[o] = fulfil[o] /\ qty'[o] = qty[o]
          /\ res'[o] = res[o] /\ short'[o] = short[o]
      BY <1>5 DEF ApproveOrder, TypeOK
    <3>2. o \in Live /\ o \in Live'
      BY <1>5, <3>1 DEF ApproveOrder, RowsInv, ShippedApproved, Live
    <3> QED BY <2>1, <3>1, <3>2 DEF RowsOf
  <2>2. CASE x # o
    BY <1>5, <2>2, RowsOfOthers DEF ApproveOrder, TypeOK
  <2> QED BY <2>1, <2>2
<1>6. ASSUME NEW o \in Order, ApproveUnallocated(o) \/ ApproveRefused(o)
      PROVE  FALSE
  BY <1>6 DEF ApproveUnallocated, ApproveRefused, RowsInv, Live
<1>7. ASSUME NEW o \in Order, ShipOrder(o) PROVE RowsOf(x)'
  <2>1. CASE x = o
    <3>1. status'[o] = "approved" /\ fulfil'[o] = "shipped"
      BY <1>7 DEF ShipOrder, Shippable, TypeOK
    <3>2. res'[o] = NoLines /\ short'[o] = NoLines
      BY <1>7 DEF ShipOrder, TypeOK
    <3> QED BY <2>1, <3>1, <3>2, RowsOfIdle
  <2>2. CASE x # o
    BY <1>7, <2>2, RowsOfOthers DEF ShipOrder, TypeOK
  <2> QED BY <2>1, <2>2
<1>8. ASSUME NEW o \in Order, CancelOrder(o) PROVE RowsOf(x)'
  <2>1. CASE x = o
    <3>1. status'[o] = "cancelled" /\ fulfil'[o] = "unallocated"
      BY <1>8 DEF CancelOrder, TypeOK
    <3>2. res'[o] = NoLines /\ short'[o] = NoLines
      BY <1>8 DEF CancelOrder, TypeOK
    <3> QED BY <2>1, <3>1, <3>2, RowsOfIdle
  <2>2. CASE x # o
    BY <1>8, <2>2, RowsOfOthers DEF CancelOrder, TypeOK
  <2> QED BY <2>1, <2>2
<1>9. ASSUME NEW o \in Order, DeleteOrder(o) PROVE RowsOf(x)'
  <2>1. CASE x = o
    <3>1. status'[o] = "none" /\ fulfil'[o] = "unallocated"
      BY <1>9 DEF DeleteOrder, TypeOK
    <3>2. res'[o] = NoLines /\ short'[o] = NoLines
      BY <1>9 DEF DeleteOrder, TypeOK
    <3> QED BY <2>1, <3>1, <3>2, RowsOfIdle
  <2>2. CASE x # o
    BY <1>9, <2>2, RowsOfOthers DEF DeleteOrder, TypeOK
  <2> QED BY <2>1, <2>2
<1>10. ASSUME NEW p \in Product, NEW n \in Int,
              RecordMovement(p, n) \/ RecountStock(p, n)
       PROVE  RowsOf(x)'
  BY <1>10, RowsOfOthers DEF RecordMovement, RecountStock, orderVars
<1>11. ASSUME NEW p \in Product, ResolveShortages(p) PROVE RowsOf(x)'
  BY <1>11, RowsOfResolved
<1>12. CASE UNCHANGED vars
  BY <1>12, RowsOfOthers DEF vars, orderVars
<1> QED
  BY <1>1, <1>2, <1>3, <1>4, <1>5, <1>6, <1>7, <1>8, <1>9, <1>10, <1>11, <1>12,
     BoundsNat
  DEF Next

\* Nothing has been created: no order has a row.
LEMMA RowsStart == Init => RowsInv
<1> SUFFICES ASSUME Init PROVE RowsInv
  OBVIOUS
<1>1. TypeOK
  BY BoundsNat DEF Init, NoLines, TypeOK, Statuses, Fulfilments
<1>2. ASSUME NEW o \in Order PROVE RowsOf(o)
  <2>1. o \notin Live /\ fulfil[o] # "shipped"
    BY DEF Init, Live
  <2>2. \A p \in Product : res[o][p] = 0 /\ short[o][p] = 0
    BY DEF Init, NoLines
  <2> QED BY <2>1, <2>2 DEF RowsOf
<1> QED BY <1>1, <1>2, RowsByOrder

\* Where orders are created as drafts, what an order holds and what it is short of
\* add up to its lines in every reachable state, and its fulfillment_status says
\* which of the two there is: ship_order_full may rely on the status.
THEOREM RowsCorrect ==
    ASSUME CreateStatus \subseteq {"draft"}
    PROVE  Spec => []RowsHonest
<1>1. RowsInv /\ [Next]_vars => RowsInv'
  BY RowsInductive
<1>2. RowsInv => RowsHonest
  BY DEF RowsInv
<1> QED BY <1>1, <1>2, RowsStart, PTL DEF Spec
-----------------------------------------------------------------------------
(***************************************************************************)
(* Nothing is forgotten and allocated orders are whole, however orders are *)
(* created.                                                                *)
(***************************************************************************)

\* NothingForgotten and AllocatedWhole, order by order.
WholeOf(o) ==
    o \in Live =>
        /\ fulfil[o] # "unallocated" =>
              \A p \in Product : res[o][p] + short[o][p] >= qty[o][p]
        /\ fulfil[o] = "allocated" => \A p \in Product : res[o][p] >= qty[o][p]

LEMMA WholeByOrder == TypeOK => (WholeInv <=> \A o \in Order : WholeOf(o))
<1>1. NothingForgotten /\ AllocatedWhole <=> \A o \in Live : WholeOf(o)
  BY DEF NothingForgotten, AllocatedWhole, WholeOf
<1>2. (\A o \in Live : WholeOf(o)) <=> \A o \in Order : WholeOf(o)
  BY DEF WholeOf, Live
<1> QED BY <1>1, <1>2 DEF WholeInv

LEMMA WholeByOrderNext == TypeOK' => (WholeInv' <=> \A o \in Order : WholeOf(o)')
<1>1. (TypeOK => (WholeInv <=> \A o \in Order : WholeOf(o)))'
  BY WholeByOrder, PTL
<1> QED BY <1>1

\* An order no row of which is written keeps them so.
LEMMA WholeOfOthers ==
    ASSUME NEW x \in Order, WholeOf(x),
           status'[x] = status[x], fulfil'[x] = fulfil[x], qty'[x] = qty[x],
           res'[x] = res[x], short'[x] = short[x]
    PROVE  WholeOf(x)'
  BY DEF WholeOf, Live

\* An allocation, on top of whatever the order had, covers all its lines.
LEMMA WholeOfAllocated ==
    ASSUME TypeOK, NEW o \in Order,
           NEW lines \in [Product -> 0 .. MaxQty], AllocateLines(o, lines),
           fulfil'[o] = Outcome(lines), qty'[o] = lines
    PROVE  WholeOf(o)'
<1>1. ASSUME NEW p \in Product
      PROVE  /\ res'[o][p] + short'[o][p] >= lines[p]
             /\ Reservable(lines, p) >= lines[p] => res'[o][p] >= lines[p]
  <2>1. /\ Reservable(lines, p) \in Nat /\ Shortage(lines, p) \in Nat /\ lines[p] \in Nat
        /\ res[o][p] \in Nat /\ short[o][p] \in Nat
    BY BoundsNat, ReservableBounds DEF TypeOK
  <2>2. /\ res'[o][p] = res[o][p] + Reservable(lines, p)
        /\ short'[o][p] = short[o][p] + Shortage(lines, p)
        /\ Reservable(lines, p) + Shortage(lines, p) = lines[p]
    BY AllocateRows
  <2> QED BY <2>1, <2>2
<1>2. ASSUME Outcome(lines) = "allocated", NEW p \in Product
      PROVE  Reservable(lines, p) >= lines[p]
  <2>1. Reservable(lines, p) \in Nat /\ lines[p] \in Nat
    BY BoundsNat, ReservableBounds
  <2> QED BY <1>2, <2>1 DEF Outcome
<1> QED BY <1>1, <1>2 DEF WholeOf

\* Resolving moves pieces from short to reserved, and makes allocated only an
\* order that is short of nothing any more.
LEMMA WholeOfResolved ==
    ASSUME TypeOK, NEW o \in Order, WholeOf(o), NEW p \in Product, ResolveShortages(p)
    PROVE  WholeOf(o)'
<1>1. PICK share \in [Order -> Nat] :
         /\ share[o] <= short[o][p]
         /\ res'[o][p] = res[o][p] + share[o]
         /\ short'[o][p] = short[o][p] - share[o]
         /\ \A q \in Product \ {p} : res'[o][q] = res[o][q] /\ short'[o][q] = short[o][q]
         /\ fulfil'[o] = IF /\ share[o] > 0
                            /\ short'[o] = NoLines
                            /\ fulfil[o] = "partially_allocated"
                         THEN "allocated"
                         ELSE fulfil[o]
  BY ResolveRows
<1>2. status'[o] = status[o] /\ qty'[o] = qty[o]
  BY DEF ResolveShortages
<1>3. ASSUME NEW q \in Product
      PROVE  /\ res'[o][q] + short'[o][q] = res[o][q] + short[o][q]
             /\ res'[o][q] >= res[o][q]
             /\ res'[o][q] \in Nat /\ res[o][q] \in Nat /\ qty[o][q] \in Nat
  <2>1. /\ share[o] \in Nat /\ res[o][q] \in Nat /\ short[o][q] \in Nat
        /\ qty[o][q] \in Nat
    BY BoundsNat DEF TypeOK
  <2> QED BY <1>1, <2>1
<1>4. o \in Live' <=> o \in Live
  BY <1>1, <1>2 DEF Live
<1>5. CASE fulfil'[o] = fulfil[o]
  BY <1>2, <1>3, <1>4, <1>5 DEF WholeOf
<1>6. CASE fulfil'[o] # fulfil[o]
  <2>1. fulfil[o] = "partially_allocated" /\ short'[o] = NoLines
    BY <1>1, <1>6
  <2>2. ASSUME o \in Live, NEW q \in Product PROVE res'[o][q] >= qty[o][q]
    <3>1. short'[o][q] = 0
      BY <2>1 DEF NoLines
    <3>2. res[o][q] + short[o][q] >= qty[o][q]
      BY <2>1, <2>2 DEF WholeOf
    <3> QED BY <1>3, <3>1, <3>2
  <2>3. \A q \in Product : short'[o][q] = 0
    BY <2>1 DEF NoLines
  <2> QED BY <1>2, <1>3, <1>4, <2>2, <2>3 DEF WholeOf
<1> QED BY <1>5, <1>6

LEMMA WholeInductive == WholeInv /\ [Next]_vars => WholeInv'
<1> SUFFICES ASSUME WholeInv, [Next]_vars PROVE WholeInv'
  OBVIOUS
<1> TypeOK /\ TypeOK' /\ \A x \in Order : WholeOf(x)
  BY WholeByOrder, TypeInductive DEF WholeInv
<1> SUFFICES ASSUME NEW x \in Order PROVE WholeOf(x)'
  BY WholeByOrderNext
<1> WholeOf(x)
  OBVIOUS
<1>1. ASSUME NEW o \in Order, NEW lines \in Lines, NEW st \in CreateStatus,
             CreateOrder(o, lines, st)
      PROVE  WholeOf(x)'
  <2>1. CASE x = o
    BY <1>1, <2>1 DEF CreateOrder, TypeOK, WholeOf
  <2>2. CASE x # o
    BY <1>1, <2>2, WholeOfOthers DEF CreateOrder, TypeOK
  <2> QED BY <2>1, <2>2
<1>2. ASSUME NEW o \in Order, NEW lines \in Lines, UpdateOrder(o, lines)
      PROVE  WholeOf(x)'
  <2>1. CASE x = o
    BY <1>2, <2>1 DEF UpdateOrder, Editable, WholeOf, Live
  <2>2. CASE x # o
    BY <1>2, <2>2, WholeOfOthers DEF UpdateOrder, TypeOK
  <2> QED BY <2>1, <2>2
<1>3. ASSUME NEW o \in Order, NEW lines \in Lines, SendQuoteOrder(o, lines)
      PROVE  WholeOf(x)'
  <2>1. AllocateLines(o, lines) /\ lines \in [Product -> 0 .. MaxQty]
    BY <1>3 DEF SendQuoteOrder, Lines
  <2>2. CASE x = o
    <3>1. fulfil'[o] = Outcome(lines) /\ qty'[o] = lines
      BY <1>3 DEF SendQuoteOrder, TypeOK
    <3> QED BY <2>1, <2>2, <3>1, WholeOfAllocated
  <2>3. CASE x # o
    <3>1. res'[x] = res[x] /\ short'[x] = short[x]
      BY <2>1, <2>3, AllocateRows
    <3> QED BY <1>3, <2>3, <3>1, WholeOfOthers DEF SendQuoteOrder, TypeOK
  <2> QED BY <2>2, <2>3
<1>4. ASSUME NEW o \in Order, SubmitOrder(o) \/ ApproveUnallocated(o)
      PROVE  WholeOf(x)'
  <2>1. AllocateLines(o, qty[o]) /\ qty[o] \in [Product -> 0 .. MaxQty]
    BY <1>4 DEF SubmitOrder, ApproveUnallocated, TypeOK
  <2>2. CASE x = o
    <3>1. fulfil'[o] = Outcome(qty[o]) /\ qty'[o] = qty[o]
      BY <1>4 DEF SubmitOrder, ApproveUnallocated, TypeOK
    <3> QED BY <2>1, <2>2, <3>1, WholeOfAllocated
  <2>3. CASE x # o
    <3>1. res'[x] = res[x] /\ short'[x] = short[x]
      BY <2>1, <2>3, AllocateRows
    <3> QED BY <1>4, <2>3, <3>1, WholeOfOthers
            DEF SubmitOrder, ApproveUnallocated, TypeOK
  <2> QED BY <2>2, <2>3
<1>5. ASSUME NEW o \in Order, ApproveOrder(o) PROVE WholeOf(x)'
  <2>1. CASE x = o
    BY <1>5, <2>1 DEF ApproveOrder, TypeOK, WholeOf, Live
  <2>2. CASE x # o
    BY <1>5, <2>2, WholeOfOthers DEF ApproveOrder, TypeOK
  <2> QED BY <2>1, <2>2
<1>6. ASSUME NEW o \in Order, ApproveRefused(o) PROVE WholeOf(x)'
  <2>1. AllocateLines(o, qty[o]) /\ qty[o] \in [Product -> 0 .. MaxQty]
    BY <1>6 DEF ApproveRefused, TypeOK
  <2>2. CASE x = o
    BY <1>6, <2>2 DEF ApproveRefused, WholeOf
  <2>3. CASE x # o
    <3>1. res'[x] = res[x] /\ short'[x] = short[x]
      BY <2>1, <2>3, AllocateRows
    <3> QED BY <1>6, <2>3, <3>1, WholeOfOthers DEF ApproveRefused
  <2> QED BY <2>2, <2>3
<1>7. ASSUME NEW o \in Order, ShipOrder(o) PROVE WholeOf(x)'
  <2>1. CASE x = o
    BY <1>7, <2>1 DEF ShipOrder, TypeOK, WholeOf, Live
  <2>2. CASE x # o
    BY <1>7, <2>2, WholeOfOthers DEF ShipOrder, TypeOK
  <2> QED BY <2>1, <2>2
<1>8. ASSUME NEW o \in Order, CancelOrder(o) PROVE WholeOf(x)'
  <2>1. CASE x = o
    BY <1>8, <2>1 DEF CancelOrder, TypeOK, WholeOf, Live
  <2>2. CASE x # o
    BY <1>8, <2>2, WholeOfOthers DEF CancelOrder, TypeOK
  <2> QED BY <2>1, <2>2
<1>9. ASSUME NEW o \in Order, DeleteOrder(o) PROVE WholeOf(x)'
  <2>1. CASE x = o
    BY <1>9, <2>1 DEF DeleteOrder, TypeOK, WholeOf, Live
  <2>2. CASE x # o
    BY <1>9, <2>2, WholeOfOthers DEF DeleteOrder, TypeOK
  <2> QED BY <2>1, <2>2
<1>10. ASSUME NEW p \in Product, NEW n \in Int,
              RecordMovement(p, n) \/ RecountStock(p, n)
       PROVE  WholeOf(x)'
  BY <1>10, WholeOfOthers DEF RecordMovement, RecountStock, orderVars
<1>11. ASSUME NEW p \in Product, ResolveShortages(p) PROVE WholeOf(x)'
  BY <1>11, WholeOfResolved
<1>12. CASE UNCHANGED vars
  BY <1>12, WholeOfOthers DEF vars, orderVars
<1> QED
  BY <1>1, <1>2, <1>3, <1>4, <1>5, <1>6, <1>7, <1>8, <1>9, <1>10, <1>11, <1>12,
     BoundsNat
  DEF Next

LEMMA WholeStart == Init => WholeInv
<1> SUFFICES ASSUME Init PROVE WholeInv
  OBVIOUS
<1>1. TypeOK
  BY BoundsNat DEF Init, NoLines, TypeOK, Statuses, Fulfilments
<1>2. \A o \in Order : WholeOf(o)
  BY DEF Init, Live, WholeOf
<1> QED BY <1>1, <1>2, WholeByOrder

\* However an order was created, a line of it that is not wholly reserved is on
\* record as short once the order has been allocated.
THEOREM NothingIsForgotten == Spec => []NothingForgotten
<1>1. WholeInv => NothingForgotten
  BY DEF WholeInv
<1> QED BY <1>1, WholeStart, WholeInductive, PTL DEF Spec
-----------------------------------------------------------------------------
(***************************************************************************)
(* What a step may never do.                                               *)
(***************************************************************************)

\* A reservation is part of what the counter stands for.
LEMMA HoldingInCounter ==
    ASSUME CounterInv, NEW o \in Order, NEW p \in Product
    PROVE  res[o][p] <= reserved[p]
<1> DEFINE column == Column(p)
<1>1. column \in [Order -> Nat] /\ column[o] = res[o][p] /\ HeldOf(p) = Total(column)
  BY DEF Column, HeldOf, CounterInv, TypeOK
<1> HIDE DEF column
<1>2. column[o] <= Total(column)
  <2> DEFINE rest == [x \in Order |-> IF x = o THEN 0 ELSE column[x]]
  <2>1. rest \in [Order -> Nat] /\ rest[o] = 0
        /\ \A x \in Order \ {o} : rest[x] = column[x]
    BY <1>1
  <2> HIDE DEF rest
  <2> QED BY <1>1, <2>1, OrderFinite, TotalWithout
<1> QED BY <1>1, <1>2 DEF CounterInv, ReservedIsSum

\* What holds of one product.
StockOf(p) == reserved[p] <= onHand[p] /\ onHand[p] = ledger[p]

\* A shipment takes out what the movement records: an allocated order holds its
\* whole lines, the counter covers them, and on_hand covers the counter.
LEMMA ShipExplained ==
    ASSUME StockInv, NEW o \in Order, ShipOrder(o), NEW p \in Product
    PROVE  /\ onHand'[p] = onHand[p] - (IF res[o][p] > 0 THEN qty[o][p] ELSE 0)
           /\ StockOf(p)'
<1> CounterInv /\ TypeOK
  BY DEF StockInv, CounterInv
<1> DEFINE leaves == IF res[o][p] > 0 THEN qty[o][p] ELSE 0
<1>1. /\ onHand'[p] = Clip(onHand[p], leaves)
      /\ ledger'[p] = ledger[p] - leaves
      /\ reserved'[p] = Clip(reserved[p], res[o][p])
  BY DEF ShipOrder
<1>2. /\ qty[o][p] \in Nat /\ res[o][p] \in Nat /\ onHand[p] \in Nat
      /\ reserved[p] \in Nat /\ ledger[p] \in Int
  BY BoundsNat DEF TypeOK
<1>3. o \in Live /\ fulfil[o] = "allocated"
  BY DEF ShipOrder, Shippable, Live
<1>4. res[o][p] >= qty[o][p]
  BY <1>3 DEF StockInv, WholeInv, AllocatedWhole
<1>5. res[o][p] <= reserved[p]
  BY HoldingInCounter
<1>6. reserved[p] <= onHand[p] /\ onHand[p] = ledger[p]
  BY DEF StockInv, NeverOversells, MovementsExplain
<1>7. /\ onHand'[p] = onHand[p] - leaves
      /\ reserved'[p] = reserved[p] - res[o][p]
      /\ leaves <= res[o][p]
  BY <1>1, <1>2, <1>4, <1>5, <1>6 DEF Clip
<1>8. StockOf(p)'
  BY <1>1, <1>2, <1>6, <1>7 DEF StockOf
<1> QED BY <1>1, <1>2, <1>6, <1>7, <1>8

\* A step that leaves on_hand alone hands out no more than there is.
LEMMA KeptExplained ==
    ASSUME StockInv, TypeOK', [Next]_vars, NEW p \in Product,
           onHand'[p] = onHand[p], ledger'[p] = ledger[p]
    PROVE  StockOf(p)'
<1>1. /\ reserved[p] \in Nat /\ reserved'[p] \in Nat /\ onHand[p] \in Nat
      /\ TypeOK /\ reserved[p] <= onHand[p] /\ onHand[p] = ledger[p]
  BY DEF StockInv, CounterInv, NeverOversells, MovementsExplain, TypeOK
<1>2. CASE reserved'[p] > reserved[p]
  BY <1>1, <1>2, OversellStep DEF StockOf
<1>3. CASE reserved'[p] <= reserved[p]
  BY <1>1, <1>3 DEF StockOf
<1> QED BY <1>1, <1>2, <1>3

LEMMA StockInductive == StockInv /\ [Next]_vars => StockInv'
<1> SUFFICES ASSUME StockInv, [Next]_vars PROVE StockInv'
  OBVIOUS
<1>1. CounterInv' /\ WholeInv' /\ TypeOK /\ TypeOK'
  BY CounterInductive, WholeInductive DEF StockInv, CounterInv
<1>2. ASSUME NEW p \in Product PROVE StockOf(p)'
  <2>0. /\ onHand[p] \in Nat /\ ledger[p] \in Int /\ reserved[p] \in Nat
        /\ reserved[p] <= onHand[p] /\ onHand[p] = ledger[p]
    BY <1>1 DEF StockInv, NeverOversells, MovementsExplain, TypeOK
  <2>1. ASSUME UNCHANGED <<onHand, ledger>> PROVE StockOf(p)'
    BY <1>1, <2>1, KeptExplained
  <2>2. ASSUME NEW q \in Product, NEW n \in Int, RecordMovement(q, n)
        PROVE  StockOf(p)'
    <3>1. CASE q = p
      BY <1>1, <2>0, <2>2, <3>1
         DEF RecordMovement, MovementAllowed, StockOf, TypeOK
    <3>2. CASE q # p
      BY <1>1, <2>0, <2>2, <3>2 DEF RecordMovement, StockOf, TypeOK
    <3> QED BY <3>1, <3>2
  <2>3. ASSUME NEW q \in Product, NEW n \in Int, RecountStock(q, n)
        PROVE  StockOf(p)'
    <3>1. CASE q = p
      BY <1>1, <2>0, <2>3, <3>1 DEF RecountStock, StockOf, TypeOK
    <3>2. CASE q # p
      BY <1>1, <2>0, <2>3, <3>2 DEF RecountStock, StockOf, TypeOK
    <3> QED BY <3>1, <3>2
  <2>4. ASSUME NEW o \in Order, ShipOrder(o) PROVE StockOf(p)'
    BY <2>4, ShipExplained
  <2>5. ASSUME NEW o \in Order, NEW lines \in Lines,
               UpdateOrder(o, lines) \/ SendQuoteOrder(o, lines)
        PROVE  StockOf(p)'
    BY <2>1, <2>5 DEF UpdateOrder, SendQuoteOrder, stockVars
  <2>6. ASSUME NEW o \in Order, NEW lines \in Lines, NEW st \in CreateStatus,
               CreateOrder(o, lines, st)
        PROVE  StockOf(p)'
    BY <2>1, <2>6 DEF CreateOrder, stockVars
  <2>7. ASSUME NEW o \in Order,
               \/ SubmitOrder(o) \/ ApproveOrder(o) \/ ApproveUnallocated(o)
               \/ ApproveRefused(o) \/ CancelOrder(o) \/ DeleteOrder(o)
        PROVE  StockOf(p)'
    BY <2>1, <2>7 DEF SubmitOrder, ApproveOrder, ApproveUnallocated, ApproveRefused,
                      CancelOrder, DeleteOrder, stockVars
  <2>8. ASSUME NEW q \in Product, ResolveShortages(q) PROVE StockOf(p)'
    BY <2>1, <2>8 DEF ResolveShortages
  <2>9. CASE UNCHANGED vars
    BY <2>1, <2>9 DEF vars, stockVars
  <2> QED
    BY <2>2, <2>3, <2>4, <2>5, <2>6, <2>7, <2>8, <2>9, BoundsNat DEF Next
<1> QED BY <1>1, <1>2 DEF StockInv, NeverOversells, MovementsExplain, StockOf

LEMMA StockStart == Init => StockInv
<1> SUFFICES ASSUME Init PROVE StockInv
  OBVIOUS
<1>1. NeverOversells /\ MovementsExplain
  BY BoundsNat DEF Init, NoLines, NeverOversells, MovementsExplain
<1> QED BY <1>1, CounterStart, WholeStart DEF StockInv

\* However orders are created and whatever is moved, counted, shipped or allocated,
\* no more of a product is ever reserved than is there: of all that writes the two
\* columns, only movements and recounts need the CHECK for it.
THEOREM NoOversell == Spec => []NeverOversells
<1>1. StockInv => NeverOversells
  BY DEF StockInv
<1> QED BY <1>1, StockStart, StockInductive, PTL DEF Spec

\* on_hand always equals the initial stock plus the recorded movements: no
\* shipment is ever clipped at zero.
THEOREM StockIsExplained == Spec => []MovementsExplain
<1>1. StockInv => MovementsExplain
  BY DEF StockInv
<1> QED BY <1>1, StockStart, StockInductive, PTL DEF Spec

\* Only the resolution of shortages gives to an approved order, and it starts with
\* the oldest of them.
LEMMA OvertakeStep ==
    ASSUME TypeOK, [Next]_vars, NEW a \in Order, NEW b \in Order, NEW p \in Product,
           <<a, b>> \in before, status[a] = "approved", status[b] = "approved",
           short[b][p] > 0, res'[b][p] > res[b][p]
    PROVE  short'[a][p] = 0
<1> res[b][p] \in Nat /\ short[a][p] \in Nat
  BY DEF TypeOK
<1>1. ASSUME res'[b] = res[b] PROVE FALSE
  BY <1>1
<1>2. ASSUME NEW o \in Order, NEW lines \in [Product -> 0 .. MaxQty],
             AllocateLines(o, lines), o # b
      PROVE  FALSE
  BY <1>1, <1>2, AllocateRows
<1>3. ASSUME NEW o \in Order, NEW lines \in Lines, SendQuoteOrder(o, lines)
      PROVE  FALSE
  BY <1>2, <1>3 DEF SendQuoteOrder, Lines
<1>4. ASSUME NEW o \in Order,
             SubmitOrder(o) \/ ApproveUnallocated(o) \/ ApproveRefused(o)
      PROVE  FALSE
  <2>1. /\ AllocateLines(o, qty[o]) /\ qty[o] \in [Product -> 0 .. MaxQty]
        /\ o # b
    BY <1>4 DEF SubmitOrder, ApproveUnallocated, ApproveRefused, TypeOK
  <2> QED BY <1>2, <2>1
<1>5. ASSUME res' \in {[res EXCEPT ![o] = NoLines] : o \in Order} PROVE FALSE
  <2>1. PICK o \in Order : res' = [res EXCEPT ![o] = NoLines]
    BY <1>5
  <2>2. CASE o = b
    BY <2>1, <2>2 DEF TypeOK, NoLines
  <2>3. CASE o # b
    BY <1>1, <2>1, <2>3 DEF TypeOK
  <2> QED BY <2>2, <2>3
<1>6. ASSUME NEW q \in Product, ResolveShortages(q) PROVE short'[a][p] = 0
  <2>1. PICK share \in [Order -> Nat] :
           /\ \A o \in Order :
                 /\ share[o] <= short[o][q]
                 /\ share[o] > 0 => o \in Claimants(q)
                 /\ res'[o][q] = res[o][q] + share[o]
                 /\ short'[o][q] = short[o][q] - share[o]
                 /\ \A r \in Product \ {q} :
                       res'[o][r] = res[o][r] /\ short'[o][r] = short[o][r]
           /\ \A x, y \in Claimants(q) :
                 <<x, y>> \in before /\ share[y] > 0 => share[x] = short[x][q]
    BY <1>6, ResolveRows
  <2>2. q = p
    BY <2>1
  <2>3. share[a] \in Nat /\ share[b] \in Nat /\ share[b] > 0
    BY <2>1, <2>2
  <2>4. CASE short[a][p] = 0
    BY <2>1, <2>2, <2>3, <2>4
  <2>5. CASE short[a][p] > 0
    <3>1. a \in Claimants(p) /\ b \in Claimants(p)
      BY <2>5 DEF Claimants
    <3> QED BY <2>1, <2>2, <2>3, <3>1
  <2> QED BY <2>4, <2>5
<1>7. ASSUME NEW o \in Order, NEW lines \in Lines, UpdateOrder(o, lines) PROVE FALSE
  BY <1>5, <1>7 DEF UpdateOrder
<1>8. ASSUME NEW o \in Order, ShipOrder(o) \/ CancelOrder(o) \/ DeleteOrder(o)
      PROVE  FALSE
  BY <1>5, <1>8 DEF ShipOrder, CancelOrder, DeleteOrder
<1>9. ASSUME NEW o \in Order, NEW lines \in Lines, NEW st \in CreateStatus,
             CreateOrder(o, lines, st)
      PROVE  FALSE
  BY <1>1, <1>9 DEF CreateOrder
<1>10. ASSUME NEW o \in Order, ApproveOrder(o) PROVE FALSE
  BY <1>1, <1>10 DEF ApproveOrder
<1>11. ASSUME NEW q \in Product, NEW n \in Int, RecordMovement(q, n) \/ RecountStock(q, n)
       PROVE  FALSE
  BY <1>1, <1>11 DEF RecordMovement, RecountStock, orderVars
<1>12. CASE UNCHANGED vars
  BY <1>1, <1>12 DEF vars, orderVars
<1> QED
  BY <1>3, <1>4, <1>6, <1>7, <1>8, <1>9, <1>10, <1>11, <1>12, BoundsNat DEF Next

\* Incoming stock never passes by an older approved order that is short of it.
THEOREM NobodyOvertaken == Spec => NotOvertaken
<1>1. TypeOK /\ [Next]_vars =>
         [\A a, b \in Order, p \in Product :
             /\ <<a, b>> \in before
             /\ status[a] = "approved" /\ status[b] = "approved"
             /\ short[b][p] > 0 /\ res'[b][p] > res[b][p]
             => short'[a][p] = 0]_vars
  BY OvertakeStep
<1> QED BY <1>1, TypeCorrect, PTL DEF Spec, NotOvertaken
-----------------------------------------------------------------------------
(***************************************************************************)
(* OrderStock implements StockPromise, where orders are created as drafts. *)
(***************************************************************************)

Shipped == {o \in Order : fulfil[o] = "shipped"}

\* The two modules count the same pieces.
LEMMA PromiseCounts ==
    \A p \in Product : Promise!HeldOf(p) = HeldOf(p) /\ Promise!HeldOf(p)' = HeldOf(p)'
<1> SUFFICES ASSUME NEW p \in Product
             PROVE  Promise!HeldOf(p) = HeldOf(p) /\ Promise!HeldOf(p)' = HeldOf(p)'
  OBVIOUS
<1>1. Promise!HeldOf(p) = HeldOf(p)
  BY DEF Promise!HeldOf, HeldOf, Promise!Total, Total, Promise!Units, Units,
         Promise!Cardinality, Cardinality
<1>2. Promise!HeldOf(p)' = HeldOf(p)'
  BY DEF Promise!HeldOf, HeldOf, Promise!Total, Total, Promise!Units, Units,
         Promise!Cardinality, Cardinality
<1> QED BY <1>1, <1>2

\* An allocation or a resolution hands out pieces that are there.
LEMMA TakeStep ==
    ASSUME CounterInv, CounterInv', [Next]_vars,
           \A o \in Order, p \in Product : res'[o][p] >= res[o][p],
           \A o \in Order : fulfil'[o] = "shipped" <=> fulfil[o] = "shipped",
           onHand' = onHand
    PROVE  Promise!Take
<1> TypeOK /\ TypeOK'
  BY DEF CounterInv
<1>1. res' \in [Order -> [Product -> Nat]]
  BY DEF TypeOK
<1>2. ASSUME NEW o \in Order, NEW p \in Product, res'[o][p] > res[o][p]
      PROVE  HeldOf(p)' <= onHand[p]
  <2>1. reserved[p] = HeldOf(p) /\ reserved'[p] = HeldOf(p)'
    BY DEF CounterInv, ReservedIsSum
  <2>2. /\ Column(p) \in [Order -> Nat] /\ Column(p)' \in [Order -> Nat]
        /\ \A x \in Order : Column(p)[x] = res[x][p] /\ Column(p)'[x] = res'[x][p]
        /\ HeldOf(p) = Total(Column(p)) /\ HeldOf(p)' = Total(Column(p)')
        /\ HeldOf(p) \in Nat /\ HeldOf(p)' \in Nat
    BY <2>1, HeldAfter DEF TypeOK
  <2>3. HeldOf(p)' > HeldOf(p)
    <3> DEFINE more == [x \in Order |-> res'[x][p] - res[x][p]]
    <3>1. ASSUME NEW x \in Order
          PROVE  /\ more[x] \in Nat
                 /\ Column(p)'[x] = Column(p)[x] + more[x]
      <4>1. res'[x][p] \in Nat /\ res[x][p] \in Nat /\ res'[x][p] >= res[x][p]
        BY DEF TypeOK
      <4> QED BY <2>2, <4>1
    <3>2. more \in [Order -> Nat] /\ more[o] > 0
      <4>1. res'[o][p] \in Nat /\ res[o][p] \in Nat
        BY DEF TypeOK
      <4> QED BY <1>2, <3>1, <4>1
    <3> HIDE DEF more
    <3>3. Total(Column(p)') = Total(Column(p)) + Total(more)
      BY <2>2, <3>1, <3>2, OrderFinite, TotalAdd
    <3>4. more[o] <= Total(more) /\ Total(more) \in Nat
      <4> DEFINE rest == [x \in Order |-> IF x = o THEN 0 ELSE more[x]]
      <4>1. /\ rest \in [Order -> Nat] /\ rest[o] = 0
            /\ \A x \in Order \ {o} : rest[x] = more[x]
        BY <3>2
      <4> HIDE DEF rest
      <4>2. more[o] <= Total(more)
        BY <3>2, <4>1, OrderFinite, TotalWithout
      <4>3. Total(more) \in Nat
        BY <3>2, OrderFinite, UnitsFinite
      <4> QED BY <4>2, <4>3
    <3> QED BY <2>2, <3>2, <3>3, <3>4
  <2>4. reserved'[p] <= onHand[p]
    BY <2>1, <2>2, <2>3, OversellStep
  <2> QED BY <2>1, <2>4
<1>3. Shipped' = Shipped
  BY DEF Shipped
<1> QED BY <1>1, <1>2, <1>3, PromiseCounts DEF Promise!Take, Shipped

\* Nothing of the promise is written.
LEMMA NoPromiseStep ==
    ASSUME UNCHANGED <<onHand, res>>,
           \A o \in Order : fulfil'[o] = "shipped" <=> fulfil[o] = "shipped"
    PROVE  UNCHANGED Promise!vars
<1>1. Shipped' = Shipped
  BY DEF Shipped
<1> QED BY <1>1 DEF Promise!vars, Shipped

\* A shipment is a Leave: the lines that leave the stock are what the order holds.
LEMMA LeaveStep ==
    ASSUME StockInv, RowsInv, NEW o \in Order, ShipOrder(o)
    PROVE  Promise!Leave(o)
<1> TypeOK
  BY DEF RowsInv
<1>1. o \in Live /\ fulfil[o] = "allocated"
  BY DEF ShipOrder, Shippable, Live
<1>2. ASSUME NEW p \in Product
      PROVE  (IF res[o][p] > 0 THEN qty[o][p] ELSE 0) = res[o][p]
  <2>1. short[o][p] = 0
    BY <1>1 DEF RowsInv, RowsHonest, FulfilmentHonest, Waiting, NoLines, Live
  <2>2. res[o][p] + short[o][p] = qty[o][p]
    BY <1>1 DEF RowsInv, RowsHonest, LinesAccounted
  <2>3. res[o][p] \in Nat /\ qty[o][p] \in Nat
    BY BoundsNat DEF TypeOK
  <2> QED BY <2>1, <2>2, <2>3
<1>3. \A p \in Product : onHand'[p] = onHand[p] - res[o][p]
  BY <1>2, ShipExplained
<1>4. onHand' = [p \in Product |-> onHand'[p]]
  BY DEF ShipOrder
<1>5. onHand' = [p \in Product |-> onHand[p] - res[o][p]]
  BY <1>3, <1>4
<1>6. res' = [res EXCEPT ![o] = NoLines] /\ NoLines = Promise!Nothing
  BY DEF ShipOrder, NoLines, Promise!Nothing
<1>7. o \notin Shipped /\ Shipped' = Shipped \cup {o}
  BY DEF ShipOrder, Shippable, Shipped, TypeOK
<1> QED BY <1>5, <1>6, <1>7 DEF Promise!Leave, Shipped

LEMMA PromiseStep ==
    ASSUME CreateStatus \subseteq {"draft"}, StockInv, StockInv', RowsInv, [Next]_vars
    PROVE  [Promise!Next]_(Promise!vars)
<1> CounterInv /\ CounterInv' /\ TypeOK /\ TypeOK'
  BY DEF StockInv, CounterInv
<1>1. ASSUME NEW o \in Order, NEW lines \in Lines, NEW st \in CreateStatus,
             CreateOrder(o, lines, st)
      PROVE  UNCHANGED Promise!vars
  BY <1>1, NoPromiseStep
     DEF CreateOrder, stockVars, RowsInv, ShippedApproved, TypeOK
<1>2. ASSUME NEW o \in Order, NEW lines \in Lines, UpdateOrder(o, lines)
      PROVE  UNCHANGED Promise!vars
  <2>1. res[o] = NoLines
    BY <1>2 DEF UpdateOrder, Editable, CounterInv, IdleHoldNothing
  <2>2. res' = res
    BY <1>2, <2>1 DEF UpdateOrder, TypeOK
  <2> QED BY <1>2, <2>2, NoPromiseStep DEF UpdateOrder, stockVars
<1>3. ASSUME NEW o \in Order, NEW lines \in [Product -> 0 .. MaxQty],
             AllocateLines(o, lines),
             onHand' = onHand, fulfil' = [fulfil EXCEPT ![o] = Outcome(lines)],
             fulfil[o] # "shipped"
      PROVE  Promise!Take
  <2>1. ASSUME NEW x \in Order, NEW p \in Product PROVE res'[x][p] >= res[x][p]
    <3>1. res[x][p] \in Nat /\ Reservable(lines, p) \in Nat
      BY ReservableBounds DEF TypeOK
    <3>2. res'[o][p] = res[o][p] + Reservable(lines, p) /\ (x # o => res'[x] = res[x])
      BY <1>3, AllocateRows
    <3> QED BY <3>1, <3>2
  <2>2. Outcome(lines) # "shipped"
    BY DEF Outcome
  <2>3. \A x \in Order : fulfil'[x] = "shipped" <=> fulfil[x] = "shipped"
    BY <1>3, <2>2 DEF TypeOK
  <2> QED BY <1>3, <2>1, <2>3, TakeStep
<1>4. ASSUME NEW o \in Order, NEW lines \in Lines, SendQuoteOrder(o, lines)
      PROVE  Promise!Take
  BY <1>3, <1>4 DEF SendQuoteOrder, Lines, RowsInv, ShippedApproved
<1>5. ASSUME NEW o \in Order, SubmitOrder(o) PROVE Promise!Take
  <2>1. qty[o] \in [Product -> 0 .. MaxQty]
    BY DEF TypeOK
  <2> QED BY <1>3, <1>5, <2>1 DEF SubmitOrder, RowsInv, ShippedApproved
<1>6. ASSUME NEW o \in Order, ApproveUnallocated(o) \/ ApproveRefused(o)
      PROVE  FALSE
  BY <1>6 DEF ApproveUnallocated, ApproveRefused, RowsInv, Live
<1>7. ASSUME NEW o \in Order, ApproveOrder(o) PROVE UNCHANGED Promise!vars
  BY <1>7, NoPromiseStep DEF ApproveOrder, stockVars
<1>8. ASSUME NEW o \in Order, ShipOrder(o) PROVE Promise!Leave(o)
  BY <1>8, LeaveStep
<1>9. ASSUME NEW o \in Order, CancelOrder(o) PROVE Promise!Release(o)
  <2>1. res' = [res EXCEPT ![o] = NoLines] /\ NoLines = Promise!Nothing
    BY <1>9 DEF CancelOrder, NoLines, Promise!Nothing
  <2>2. o \notin Shipped /\ Shipped' = Shipped
    BY <1>9 DEF CancelOrder, Cancellable, Shipped, TypeOK
  <2>3. onHand' = onHand
    BY <1>9 DEF CancelOrder
  <2> QED BY <2>1, <2>2, <2>3 DEF Promise!Release, Shipped
<1>10. ASSUME NEW o \in Order, DeleteOrder(o) PROVE UNCHANGED Promise!vars
  <2>1. res[o] = NoLines
    BY <1>10 DEF DeleteOrder, Deletable, CounterInv, IdleHoldNothing
  <2>2. res' = res
    BY <1>10, <2>1 DEF DeleteOrder, TypeOK
  <2>3. \A x \in Order : fulfil'[x] = "shipped" <=> fulfil[x] = "shipped"
    BY <1>10 DEF DeleteOrder, Deletable, RowsInv, ShippedApproved, TypeOK
  <2> QED BY <1>10, <2>2, <2>3, NoPromiseStep DEF DeleteOrder, stockVars
<1>11. ASSUME NEW p \in Product, NEW n \in Int, RecordMovement(p, n) \/ RecountStock(p, n)
       PROVE  Promise!Restock(p)
  <2>1. onHand' \in [Product -> Nat]
    BY DEF TypeOK
  <2>2. \A q \in Product \ {p} : onHand'[q] = onHand[q]
    BY <1>11 DEF RecordMovement, RecountStock, TypeOK
  <2>3. res' = res /\ fulfil' = fulfil
    BY <1>11 DEF RecordMovement, RecountStock, orderVars
  <2>4. Promise!HeldOf(p) <= onHand'[p]
    <3>1. HeldOf(p)' = HeldOf(p)
      BY <2>3 DEF HeldOf
    <3>2. HeldOf(p)' = reserved'[p] /\ reserved'[p] <= onHand'[p]
      BY DEF StockInv, NeverOversells, CounterInv, ReservedIsSum
    <3> QED BY <3>1, <3>2, PromiseCounts
  <2> QED BY <2>1, <2>2, <2>3, <2>4 DEF Promise!Restock
<1>12. ASSUME NEW p \in Product, ResolveShortages(p) PROVE Promise!Take
  <2>1. PICK share \in [Order -> Nat] :
           \A o \in Order :
              /\ res'[o][p] = res[o][p] + share[o]
              /\ \A q \in Product \ {p} : res'[o][q] = res[o][q]
              /\ fulfil'[o] = IF /\ share[o] > 0
                                 /\ short'[o] = NoLines
                                 /\ fulfil[o] = "partially_allocated"
                              THEN "allocated"
                              ELSE fulfil[o]
    BY <1>12, ResolveRows
  <2>2. ASSUME NEW o \in Order, NEW q \in Product PROVE res'[o][q] >= res[o][q]
    <3>1. res[o][q] \in Nat /\ share[o] \in Nat
      BY DEF TypeOK
    <3> QED BY <2>1, <3>1
  <2>3. \A o \in Order : fulfil'[o] = "shipped" <=> fulfil[o] = "shipped"
    BY <2>1
  <2> QED BY <1>12, <2>2, <2>3, TakeStep DEF ResolveShortages
<1>13. CASE UNCHANGED vars
  BY <1>13, NoPromiseStep DEF vars, stockVars, orderVars
<1> QED
  BY <1>1, <1>2, <1>4, <1>5, <1>6, <1>7, <1>8, <1>9, <1>10, <1>11, <1>12, <1>13,
     BoundsNat
  DEF Next, Promise!Next

\* The RPCs, which adjust products.reserved by hand, keep the promise that knows
\* no such counter: nobody is handed a piece that is not there, and an order
\* leaves with all it holds.
THEOREM ImplementsPromise ==
    ASSUME CreateStatus \subseteq {"draft"}
    PROVE  Spec => KeepsPromise
<1>1. Init => Promise!Init
  <2> SUFFICES ASSUME Init PROVE Promise!Init
    OBVIOUS
  <2>1. onHand \in [Product -> Nat]
    BY BoundsNat DEF Init
  <2>2. res = [o \in Order |-> Promise!Nothing]
    BY DEF Init, NoLines, Promise!Nothing
  <2>3. Shipped = {}
    BY DEF Init, Shipped
  <2> QED BY <2>1, <2>2, <2>3 DEF Promise!Init, Shipped
<1>2. StockInv /\ StockInv' /\ RowsInv /\ [Next]_vars =>
         [Promise!Next]_(Promise!vars)
  BY PromiseStep
<1>3. RowsInv /\ [Next]_vars => RowsInv'
  BY RowsInductive
<1> QED
  BY <1>1, <1>2, <1>3, StockStart, StockInductive, RowsStart, PTL
  DEF Spec, KeepsPromise, Promise!Spec
=============================================================================
