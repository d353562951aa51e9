---------------------------- MODULE OrderStockTx ----------------------------
(***************************************************************************)
(* The stock RPCs as the database runs them: transactions at READ          *)
(* COMMITTED that take row locks one statement at a time.                  *)
(*                                                                         *)
(* One product, and orders of one line each, so that a row is a product,   *)
(* an order, the open reservation of an order or the open shortage of an   *)
(* order.  A transaction sees the committed version of the rows it has not *)
(* locked (`db') and its own version of those it has (`new'); a plain      *)
(* SELECT never waits; a locking statement waits for the row's owner and   *)
(* then sees its latest committed version.  All its writes appear at       *)
(* commit, none after an abort.  Several statements are one step where the *)
(* later ones cannot wait and nobody else can see the rows they write.     *)
(*                                                                         *)
(* PostgreSQL is external to the repository: the lock and visibility rules *)
(* are those of its documentation.                                         *)
(***************************************************************************)
EXTENDS Totals

CONSTANTS
    Order,      \* orders, one line each
    Proc,       \* database sessions, one transaction at a time each
    NoProc,     \* the owner of a row nobody has locked
    Quantity,   \* order_lines.quantity of each order
    MaxStock,   \* bound: largest on_hand a movement leads to
    Ops         \* the operations that are called

ASSUME TxConstants ==
    /\ IsFiniteSet(Order)
    /\ NoProc \notin Proc
    /\ Quantity \in [Order -> Nat \ {0}]
    /\ MaxStock \in Nat

VARIABLES
    db,      \* committed version of every row
    new,     \* latest version of every row, committed or not
    owner,   \* session that has the row locked
    job,     \* what each session is doing
    gone     \* history: orders that were shipped

vars == <<db, new, owner, job, gone>>
-----------------------------------------------------------------------------
(***************************************************************************)
(* Rows and what they hold.                                                *)
(***************************************************************************)
Prod == <<"products">>
Ord(o) == <<"sales_orders", o>>
Res(o) == <<"stock_reservations", o>>
Sho(o) == <<"shortages", o>>

Row == {Prod} \cup {Ord(o) : o \in Order}
              \cup {Res(o) : o \in Order} \cup {Sho(o) : o \in Order}

OrderRow(st, ful) == [status |-> st, fulfil |-> ful]

Idle == [op |-> "none", order |-> CHOOSE o \in Order : TRUE, at |-> "idle",
         seen |-> 0, todo |-> {}, served |-> {}]

InitialRows(stock, drafts) ==
    [r \in Row |->
        IF r = Prod THEN [onHand |-> stock, reserved |-> 0]
        ELSE IF r[1] = "sales_orders"
        THEN OrderRow(IF r[2] \in drafts THEN "draft" ELSE "none", "unallocated")
        ELSE 0]

Init ==
    /\ \E stock \in 0 .. MaxStock, drafts \in SUBSET Order :
          db = InitialRows(stock, drafts)
    /\ new = db
    /\ owner = [r \in Row |-> NoProc]
    /\ job = [t \in Proc |-> Idle]
    /\ gone = {}
-----------------------------------------------------------------------------
(***************************************************************************)
(* Transactions.                                                           *)
(***************************************************************************)
At(t, op, place) == job[t].op = op /\ job[t].at = place

\* The row is free, or t's own: a locking statement of t does not wait.
CanLock(t, r) == owner[r] \in {NoProc, t}

\* t locks the rows of DOMAIN versions and gives them these versions.
Write(t, versions) ==
    /\ \A r \in DOMAIN versions : CanLock(t, r)
    /\ owner' = [r \in Row |-> IF r \in DOMAIN versions THEN t ELSE owner[r]]
    /\ new' = [r \in Row |-> IF r \in DOMAIN versions THEN versions[r] ELSE new[r]]
    /\ UNCHANGED db

\* Read and write of one row.
Set(r, version) == [x \in {r} |-> version]

\* What a SELECT of t sees of a row.
Sees(t, r) == IF owner[r] = t THEN new[r] ELSE db[r]

Goto(t, place) == job' = [job EXCEPT ![t].at = place]

\* Versions become visible and locks are released.
CommitWith(t, versions) ==
    /\ \A r \in DOMAIN versions : CanLock(t, r)
    /\ LET final == [r \in Row |-> IF r \in DOMAIN versions THEN versions[r] ELSE new[r]]
           mine == {r \in Row : owner[r] = t} \cup DOMAIN versions
       IN  /\ db' = [r \in Row |-> IF r \in mine THEN final[r] ELSE db[r]]
           /\ new' = final
           /\ owner' = [r \in Row |-> IF r \in mine THEN NoProc ELSE owner[r]]
    /\ job' = [job EXCEPT ![t] = Idle]

\* A guard's early return, a raised exception, a deadlock's victim, a timeout,
\* a lost connection: nothing of the transaction remains.
Abort(t) ==
    /\ job[t].op # "none"
    /\ LET mine == {r \in Row : owner[r] = t}
       IN  /\ new' = [r \in Row |-> IF r \in mine THEN db[r] ELSE new[r]]
           /\ owner' = [r \in Row |-> IF r \in mine THEN NoProc ELSE owner[r]]
    /\ job' = [job EXCEPT ![t] = Idle]
    /\ UNCHANGED <<db, gone>>

\* A call arrives.
Begin(t, op, o) ==
    /\ job[t].op = "none"
    /\ job' = [job EXCEPT ![t] = [Idle EXCEPT !.op = op, !.order = o, !.at = "start"]]
    /\ UNCHANGED <<db, new, owner, gone>>

\* Mutant: an order is shipped however much of it is allocated.
LockOrderUnallocated(t) ==
    LET o == job[t].order
    IN  /\ job[t].op \in {"submit", "ship", "cancel"} /\ job[t].at = "start"
        /\ Write(t, Set(Ord(o), new[Ord(o)]))
        /\ db[Ord(o)].fulfil # "shipped"
        /\ db[Ord(o)].status \in
              CASE job[t].op = "submit" -> {"draft"}
                [] job[t].op = "ship"   -> {"approved"}
                [] job[t].op = "cancel" -> {"draft", "pending_approval", "approved"}
        /\ Goto(t, "locked")
        /\ UNCHANGED gone

\* First statement of submit, ship and cancel: the order row FOR UPDATE.
LockOrder(t) ==
    /\ job[t].op \in {"submit", "ship", "cancel"} /\ job[t].at = "start"
    /\ Write(t, Set(Ord(job[t].order), new[Ord(job[t].order)]))
    /\ LET row == db[Ord(job[t].order)]
       IN  \/ /\ job[t].op = "submit"
              /\ row.status = "draft"
           \/ /\ job[t].op = "ship"
              /\ row.status = "approved" /\ row.fulfil = "allocated"
           \/ /\ job[t].op = "cancel"
              /\ row.status \in {"draft", "pending_approval", "approved"}
              /\ row.fulfil # "shipped"
    /\ Goto(t, "locked")
    /\ UNCHANGED gone

\* The loop query of ship_order_full and of cancel_order over the order's open
\* reservations: a plain SELECT, whose quantity the loop body uses however
\* long the next statement waits.
OpenCursor(t) ==
    /\ job[t].op \in {"ship", "cancel"} /\ job[t].at = "locked"
    /\ job' = [job EXCEPT ![t].at = "cursor", ![t].seen = Sees(t, Res(job[t].order))]
    /\ UNCHANGED <<db, new, owner, gone>>
-----------------------------------------------------------------------------
(***************************************************************************)
(* submit_order_for_approval, and the order half of                        *)
(* send_quote_and_create_pending_order.                                    *)
(***************************************************************************)

\* Mutant: lines are served from on_hand, without the product's lock and
\* counter.
SubmitAllocateOfOnHand(t) ==
    LET o == job[t].order
    IN  /\ At(t, "submit", "locked")
        /\ db[Prod].onHand > 0
        /\ Write(t, [r \in {Res(o), Sho(o)} |->
                        IF r = Res(o) THEN Least(db[Prod].onHand, Quantity[o])
                        ELSE Clip(Quantity[o], db[Prod].onHand)])
        /\ Goto(t, "allocated")
        /\ UNCHANGED gone

\* allocate_order_lines: product FOR UPDATE, then counter, reservation and
\* shortage of the order's line.  A submitted draft must get something.
SubmitAllocate(t) ==
    LET o == job[t].order
        give == Least(Clip(new[Prod].onHand, new[Prod].reserved), Quantity[o])
    IN  /\ \/ At(t, "submit", "locked") /\ give > 0
           \/ At(t, "send", "start") /\ new[Ord(o)].status = "none"
        /\ Write(t, [r \in {Prod, Ord(o), Res(o), Sho(o)} |->
                        CASE r = Prod   -> [new[Prod] EXCEPT !.reserved = @ + give]
                          [] r = Ord(o) -> new[Ord(o)]
                          [] r = Res(o) -> give
                          [] r = Sho(o) -> Quantity[o] - give])
        /\ Goto(t, "allocated")
        /\ UNCHANGED gone

SubmitCommit(t) ==
    LET o == job[t].order
    IN  /\ job[t].op \in {"submit", "send"} /\ job[t].at = "allocated"
        /\ CommitWith(t, Set(Ord(o), OrderRow("pending_approval",
                IF new[Sho(o)] > 0 THEN "partially_allocated" ELSE "allocated")))
        /\ UNCHANGED gone

\* approve_order of an allocated order: one row, one step.
Approve(t) ==
    LET o == job[t].order
    IN  /\ At(t, "approve", "start")
        /\ new[Ord(o)].status = "pending_approval"
        /\ CommitWith(t, Set(Ord(o), [new[Ord(o)] EXCEPT !.status = "approved"]))
        /\ UNCHANGED gone
-----------------------------------------------------------------------------
(***************************************************************************)
(* ship_order_full.                                                        *)
(***************************************************************************)

\* update products: on_hand by the line's quantity, reserved by what the loop
\* query saw reserved for it.
ShipProduct(t) ==
    /\ At(t, "ship", "cursor")
    /\ \/ /\ job[t].seen > 0
          /\ Write(t, Set(Prod,
                [onHand   |-> Clip(new[Prod].onHand, Quantity[job[t].order]),
                 reserved |-> Clip(new[Prod].reserved, job[t].seen)]))
       \/ /\ job[t].seen = 0
          /\ UNCHANGED <<db, new, owner>>
    /\ Goto(t, "updated")
    /\ UNCHANGED gone

\* The reservations and shortages that are open now are closed, the order is
\* shipped.
ShipCommit(t) ==
    LET o == job[t].order
        open == {r \in {Res(o), Sho(o)} : Sees(t, r) > 0}
    IN  /\ At(t, "ship", "updated")
        /\ CommitWith(t, [r \in open \cup {Ord(o)} |->
                IF r = Ord(o) THEN [new[r] EXCEPT !.fulfil = "shipped"] ELSE 0])
        /\ gone' = gone \cup {o}
-----------------------------------------------------------------------------
(***************************************************************************)
(* cancel_order.                                                           *)
(***************************************************************************)

\* Mutant: the counter is lowered by the line's quantity.
CancelReleasesLine(t) ==
    /\ At(t, "cancel", "cursor")
    /\ Write(t, Set(Prod, [new[Prod] EXCEPT
            !.reserved = Clip(@, Quantity[job[t].order])]))
    /\ Goto(t, "released")
    /\ UNCHANGED gone

\* update products set reserved = greatest(0, reserved - v_res.reserved_qty)
CancelRelease(t) ==
    /\ At(t, "cancel", "cursor")
    /\ \/ /\ job[t].seen > 0
          /\ Write(t, Set(Prod, [new[Prod] EXCEPT !.reserved = Clip(@, job[t].seen)]))
       \/ /\ job[t].seen = 0
          /\ UNCHANGED <<db, new, owner>>
    /\ Goto(t, "released")
    /\ UNCHANGED gone

\* update stock_reservations ... where status = 'open': the row that is open
\* in this statement's snapshot, whatever the cursor saw.
CancelRows(t) ==
    LET o == job[t].order
    IN  /\ At(t, "cancel", "released")
        /\ \/ /\ Sees(t, Res(o)) > 0
              /\ Write(t, Set(Res(o), 0))
           \/ /\ Sees(t, Res(o)) = 0
              /\ UNCHANGED <<db, new, owner>>
        /\ Goto(t, "rows")
        /\ UNCHANGED gone

\* Mutant: the shortages of a cancelled order stay open.
CancelCommitKeepsShortages(t) ==
    /\ At(t, "cancel", "rows")
    /\ CommitWith(t, Set(Ord(job[t].order), OrderRow("cancelled", "unallocated")))
    /\ UNCHANGED gone

\* The open shortages are cancelled, then the order.
CancelCommit(t) ==
    LET o == job[t].order
        open == {r \in {Sho(o)} : Sees(t, r) > 0}
    IN  /\ At(t, "cancel", "rows")
        /\ CommitWith(t, [r \in open \cup {Ord(o)} |->
                IF r = Ord(o) THEN OrderRow("cancelled", "unallocated") ELSE 0])
        /\ UNCHANGED gone
-----------------------------------------------------------------------------
(***************************************************************************)
(* try_resolve_shortages.  Of the orders whose shortages it serves it      *)
(* locks those it inserts a reservation for and those it promotes.  Which  *)
(* of several it serves first is left open.                                *)
(***************************************************************************)

\* The product FOR UPDATE; nothing free, nothing to do.
ResolveLock(t) ==
    /\ At(t, "resolve", "start")
    /\ Write(t, Set(Prod, new[Prod]))
    /\ new[Prod].onHand > new[Prod].reserved
    /\ Goto(t, "locked")
    /\ UNCHANGED gone

\* The loop query's snapshot: open shortages of orders that are approved now.
ResolveQuery(t) ==
    /\ At(t, "resolve", "locked")
    /\ job' = [job EXCEPT ![t].at = "query",
                  ![t].todo = {o \in Order : /\ db[Sho(o)] > 0
                                             /\ db[Ord(o)].status = "approved"}]
    /\ UNCHANGED <<db, new, owner, gone>>

\* FOR UPDATE OF s: the shortage rows are locked one by one; one that was
\* closed meanwhile is skipped.
ResolveLockShortage(t, o) ==
    /\ At(t, "resolve", "query")
    /\ o \in job[t].todo
    /\ CanLock(t, Sho(o))
    /\ \/ /\ db[Sho(o)] > 0
          /\ Write(t, Set(Sho(o), db[Sho(o)]))
       \/ /\ db[Sho(o)] = 0
          /\ UNCHANGED <<db, new, owner>>
    /\ job' = [job EXCEPT ![t].todo = @ \ {o}]
    /\ UNCHANGED gone

\* Mutant: a shortage is served in full, whatever is free.
ResolveServeAll(t, o) ==
    /\ At(t, "resolve", "query")
    /\ job[t].todo = {}
    /\ owner[Sho(o)] = t
    /\ o \notin job[t].served
    /\ Write(t, [r \in {Prod, Res(o), Sho(o)} |->
                    CASE r = Prod   -> [new[Prod] EXCEPT !.reserved = @ + new[Sho(o)]]
                      [] r = Res(o) -> new[Res(o)] + new[Sho(o)]
                      [] r = Sho(o) -> 0])
    /\ job' = [job EXCEPT ![t].served = @ \cup {o}]
    /\ UNCHANGED gone

\* Mutant: a reservation that is inserted does not refer to its order.
ResolveServeUnreferenced(t, o) ==
    LET give == Least(new[Prod].onHand - new[Prod].reserved, new[Sho(o)])
    IN  /\ At(t, "resolve", "query")
        /\ job[t].todo = {}
        /\ owner[Sho(o)] = t
        /\ o \notin job[t].served
        /\ give > 0
        /\ Write(t, [r \in {Prod, Res(o), Sho(o)} |->
                        CASE r = Prod   -> [new[Prod] EXCEPT !.reserved = @ + give]
                          [] r = Res(o) -> new[Res(o)] + give
                          [] r = Sho(o) -> new[Sho(o)] - give])
        /\ job' = [job EXCEPT ![t].served = @ \cup {o}]
        /\ UNCHANGED gone

\* The rows a round of the loop locks.  An INSERT into stock_reservations takes
\* FOR KEY SHARE on the order that order_id refers to; every other statement that
\* asks for the row of an order conflicts with that, so it is a lock like the others.
ServeRows(o) ==
    {Prod, Res(o), Sho(o)} \cup (IF new[Res(o)] = 0 THEN {Ord(o)} ELSE {})

\* One round of the loop: the order's reservation grows or is inserted, the
\* counter grows, the shortage shrinks.
ResolveServe(t, o) ==
    LET give == Least(new[Prod].onHand - new[Prod].reserved, new[Sho(o)])
    IN  /\ At(t, "resolve", "query")
        /\ job[t].todo = {}
        /\ owner[Sho(o)] = t
        /\ o \notin job[t].served
        /\ give > 0
        /\ Write(t, [r \in ServeRows(o) |->
                        CASE r = Prod   -> [new[Prod] EXCEPT !.reserved = @ + give]
                          [] r = Res(o) -> new[Res(o)] + give
                          [] r = Sho(o) -> new[Sho(o)] - give
                          [] r = Ord(o) -> new[Ord(o)]])
        /\ job' = [job EXCEPT ![t].served = @ \cup {o}]
        /\ UNCHANGED gone

\* An order served in full is promoted if it is partially_allocated, which
\* takes its row's lock.
ResolvePromote(t, o) ==
    /\ At(t, "resolve", "query")
    /\ job[t].todo = {}
    /\ o \in job[t].served
    /\ new[Sho(o)] = 0
    /\ Sees(t, Ord(o)).fulfil = "partially_allocated"
    /\ Write(t, Set(Ord(o), [db[Ord(o)] EXCEPT !.fulfil = "allocated"]))
    /\ UNCHANGED <<job, gone>>

\* Every order that can be served was, every order that is to be promoted was.
ResolveCommit(t) ==
    /\ At(t, "resolve", "query")
    /\ job[t].todo = {}
    /\ \/ new[Prod].onHand = new[Prod].reserved
       \/ \A o \in Order : owner[Sho(o)] = t => o \in job[t].served
    /\ \A o \in job[t].served :
          new[Sho(o)] = 0 => Sees(t, Ord(o)).fulfil # "partially_allocated"
    /\ CommitWith(t, <<>>)
    /\ UNCHANGED gone
-----------------------------------------------------------------------------
(***************************************************************************)
(* DELETE /api/orders/[id]?permanent=1 and record_stock_movement.          *)
(***************************************************************************)

\* The route reads the order and checks its status.
DeleteCheck(t) ==
    /\ At(t, "delete", "start")
    /\ db[Ord(job[t].order)].status \in {"draft", "cancelled"}
    /\ Goto(t, "checked")
    /\ UNCHANGED <<db, new, owner, gone>>

\* Then it deletes the row by id, and the rows that reference it with it.
DeleteRow(t) ==
    LET o == job[t].order
    IN  /\ At(t, "delete", "checked")
        /\ CommitWith(t, [r \in {Ord(o), Res(o), Sho(o)} |->
                IF r = Ord(o) THEN OrderRow("deleted", "unallocated") ELSE 0])
        /\ UNCHANGED gone

\* A receipt or an issue: one row, one step.  The CHECK of migration 019 keeps
\* what is reserved on hand.
Move(t, q) ==
    /\ At(t, "move", "start")
    /\ new[Prod].onHand + q \in new[Prod].reserved .. MaxStock
    /\ CommitWith(t, Set(Prod, [new[Prod] EXCEPT !.onHand = @ + q]))
    /\ UNCHANGED gone
-----------------------------------------------------------------------------
Next ==
    \E t \in Proc :
        \/ \E op \in Ops, o \in Order : Begin(t, op, o)
        \/ Abort(t)
        \/ LockOrder(t)
        \/ OpenCursor(t)
        \/ SubmitAllocate(t)
        \/ SubmitCommit(t)
        \/ Approve(t)
        \/ ShipProduct(t)
        \/ ShipCommit(t)
        \/ CancelRelease(t)
        \/ CancelRows(t)
        \/ CancelCommit(t)
        \/ ResolveLock(t)
        \/ ResolveQuery(t)
        \/ \E o \in Order :
              \/ ResolveLockShortage(t, o)
              \/ ResolveServe(t, o)
              \/ ResolvePromote(t, o)
        \/ ResolveCommit(t)
        \/ DeleteCheck(t)
        \/ DeleteRow(t)
        \/ \E q \in {-1, 1} : Move(t, q)

Spec == Init /\ [][Next]_vars
-----------------------------------------------------------------------------
(***************************************************************************)
(* Properties, of what is committed.                                       *)
(***************************************************************************)
OrderOf(o) == db[Ord(o)]
HeldBy(o) == db[Res(o)]
Held == Total([o \in Order |-> HeldBy(o)])

\* Whatever overlaps, the counter is never below the open reservations: a
\* race can make stock look taken that is free, never free that is taken.
CounterCovers == db[Prod].reserved >= Held

\* Whatever overlaps, no commit adds to an order's reservation more than the
\* stock that is committed carries for all of them.
NeverOversells ==
    [][(\E o \in Order : HeldBy(o)' > HeldBy(o)) => Held' <= db[Prod].onHand]_vars

\* Whatever overlaps, an order ships with its whole line reserved.
ShipsWhole ==
    [][\A o \in Order : o \in gone' \ gone => HeldBy(o) = Quantity[o]]_vars

\* The statement-level form of OrderStock!ReservedIsSum.
ReservedIsSum == db[Prod].reserved = Held

Live(o) == /\ OrderOf(o).status \in {"pending_approval", "approved"}
           /\ OrderOf(o).fulfil # "shipped"

\* The statement-level form of OrderStock!LinesAccounted.
LinesAccounted ==
    \A o \in Order : HeldBy(o) + db[Sho(o)] = IF Live(o) THEN Quantity[o] ELSE 0

\* What is committed is again a behaviour of the promise that OrderStock keeps.
Promise == INSTANCE StockPromise WITH
    Product <- {Prod},
    stock <- [p \in {Prod} |-> db[p].onHand],
    held <- [o \in Order |-> [p \in {Prod} |-> HeldBy(o)]]

\* Each commit is one step of StockPromise: the transactions appear atomic.
KeepsPromise == Promise!Spec

\* Whatever overlaps, a cancelled order holds nothing (domain-rules.md 4.5):
\* cancel_order closes what is open in its own snapshot, and only the reference
\* from a reservation to its order keeps try_resolve_shortages from adding one.
CancelReleasesAll ==
    \A o \in Order : OrderOf(o).status = "cancelled" => HeldBy(o) = 0
=============================================================================
