------------------------- MODULE OrderStockTxProofs -------------------------
(***************************************************************************)
(* Theorems about OrderStockTx, for any orders, sessions, quantities and   *)
(* operations.  Whatever overlaps, the counter covers the reservations, no *)
(* piece is promised twice, orders ship whole and cancelled orders hold    *)
(* nothing.  When the two pairs of operations that go wrong together are   *)
(* kept apart, nothing drifts, and the transactions implement              *)
(* StockPromise.                                                           *)
(***************************************************************************)
EXTENDS MCOrderStockTx, TotalsTheorems

(***************************************************************************)
(* Why: what the sessions hold and have written, against what is           *)
(* committed.                                                              *)
(***************************************************************************)
OrderRows ==
    [status : {"none", "draft", "pending_approval", "approved", "cancelled", "deleted"},
     fulfil : {"unallocated", "partially_allocated", "allocated", "shipped"}]

Typed(v) ==
    /\ v = [r \in Row |-> v[r]]
    /\ v[Prod] \in [onHand : Nat, reserved : Nat]
    /\ \A o \in Order : v[Ord(o)] \in OrderRows /\ v[Res(o)] \in Nat /\ v[Sho(o)] \in Nat

Jobs ==
    [op : Ops \cup {"none"}, order : Order \cup {Idle.order},
     at : {"idle", "start", "locked", "cursor", "allocated", "updated", "released", "rows",
           "query", "checked"},
     seen : Nat, todo : SUBSET Order, served : SUBSET Order]

TypeOK ==
    /\ Typed(db) /\ Typed(new)
    /\ owner \in [Row -> Proc \cup {NoProc}]
    /\ job \in [Proc -> Jobs] /\ \A t \in Proc : job[t].op # "none" => job[t].order \in Order
    /\ gone \subseteq Order

\* t has reserved the line of its order and not yet committed.
Allocates(t) == job[t].op \in {"submit", "send"} /\ job[t].at = "allocated"

\* t has the product for its shortages.
Resolves(t) == job[t].op = "resolve" /\ job[t].at \in {"locked", "query"}

\* t has lowered the counter, or had nothing to lower it by.
Lowers(t) == At(t, "ship", "updated") \/ At(t, "cancel", "released") \/ At(t, "cancel", "rows")

\* t has the row of its order.
Uses(t, o) ==
    /\ job[t].order = o
    /\ \/ job[t].op \in {"submit", "ship", "cancel"} /\ job[t].at # "start"
       \/ At(t, "send", "allocated")

\* A row that is free has one version.
Free == \A r \in Row : owner[r] = NoProc => new[r] = db[r]

\* t has a row only for a reason, and the rows it needs it has.
Locks(t) ==
    /\ owner[Prod] = t <=> Allocates(t) \/ Resolves(t) \/ (Lowers(t) /\ job[t].seen > 0)
    /\ \A o \in Order :
          /\ owner[Ord(o)] = t => Uses(t, o) \/ o \in job[t].served
          /\ owner[Res(o)] = t => \/ Allocates(t) /\ job[t].order = o
                                  \/ At(t, "cancel", "rows") /\ job[t].order = o
                                  \/ o \in job[t].served
          /\ owner[Sho(o)] = t => \/ Allocates(t) /\ job[t].order = o
                                  \/ At(t, "resolve", "query")
          /\ Uses(t, o) => owner[Ord(o)] = t
          /\ Allocates(t) /\ job[t].order = o => owner[Res(o)] = t /\ owner[Sho(o)] = t
          /\ o \in job[t].served => /\ At(t, "resolve", "query") /\ job[t].todo = {}
                                    /\ owner[Res(o)] = t /\ owner[Sho(o)] = t

\* What t has reserved: the line is in its reservation and its shortage, within the stock.
Reserved(t) ==
    LET o == job[t].order IN
    Allocates(t) => /\ new[Res(o)] + new[Sho(o)] = Quantity[o]
                    /\ new[Res(o)] > 0 => new[Prod].reserved <= db[Prod].onHand

\* What t has lowered: no more than the order holds.
Lowered(t) ==
    LET o == job[t].order IN
    /\ At(t, "ship", "cursor") \/ At(t, "cancel", "cursor") => job[t].seen <= db[Res(o)]
    /\ At(t, "cancel", "rows") => IF owner[Res(o)] = t THEN new[Res(o)] = 0
                                  ELSE job[t].seen > 0 => db[Res(o)] = 0
    /\ job[t].op = "ship" /\ job[t].at # "start" => db[Ord(o)].fulfil = "allocated"

\* An order that waited has been made ready.
Promoted(o) ==
    /\ new[Ord(o)] = [db[Ord(o)] EXCEPT !.fulfil = "allocated"]
    /\ db[Ord(o)].fulfil = "partially_allocated"
    /\ new[Sho(o)] = 0

\* What t has served: pieces that were free went from a shortage to its reservation.
Served(t) ==
    /\ Resolves(t) => new[Prod].onHand = db[Prod].onHand
    /\ job[t].served # {} => new[Prod].reserved <= db[Prod].onHand
    /\ \A o \in job[t].served :
          /\ new[Res(o)] + new[Sho(o)] = db[Res(o)] + db[Sho(o)]
          /\ new[Res(o)] > db[Res(o)]
          /\ owner[Ord(o)] = t => new[Ord(o)] = db[Ord(o)] \/ Promoted(o)
    /\ \A o \in Order \ job[t].served :
          Resolves(t) /\ owner[Sho(o)] = t => new[Sho(o)] = db[Sho(o)] /\ db[Sho(o)] > 0

\* An order that waits or is ready has its line in its reservation and its shortage.
Whole ==
    \A o \in Order :
        /\ OrderOf(o).fulfil \in {"partially_allocated", "allocated"} =>
              HeldBy(o) + db[Sho(o)] = Quantity[o]
        /\ OrderOf(o).fulfil = "allocated" => db[Sho(o)] = 0

\* What o will hold once t, who has the product, has committed.
Left(t, o) ==
    IF owner[Res(o)] = t THEN new[Res(o)]
    ELSE IF Lowers(t) /\ job[t].order = o THEN 0
    ELSE HeldBy(o)

LeftBy(t) == Total([o \in Order |-> Left(t, o)])

Session(t) ==
    /\ Locks(t) /\ Reserved(t) /\ Lowered(t) /\ Served(t)
    /\ owner[Prod] = t => LeftBy(t) <= new[Prod].reserved

TxInv == TypeOK /\ Free /\ (\A t \in Proc : Session(t)) /\ Whole /\ CounterCovers
-----------------------------------------------------------------------------
(***************************************************************************)
(* What holds besides, whatever overlaps: what is reserved is on hand, and *)
(* a cancelled order has no open row.                                      *)
(***************************************************************************)
Within == /\ db[Prod].reserved <= db[Prod].onHand
          /\ new[Prod].reserved <= new[Prod].onHand

Closed == \A o \in Order : OrderOf(o).status = "cancelled" => HeldBy(o) = 0 /\ db[Sho(o)] = 0

\* A shipment has seen the whole line; a cancellation has found the reservation or
\* there is none; who gives an order its first reservation has the order's row.
Closing(t) ==
    LET o == job[t].order IN
    /\ At(t, "ship", "cursor") => job[t].seen = Quantity[o]
    /\ At(t, "cancel", "rows") => owner[Res(o)] = t \/ db[Res(o)] = 0
    /\ \A p \in job[t].served : db[Res(p)] = 0 => owner[Ord(p)] = t

Sound == Within /\ Closed /\ \A t \in Proc : Closing(t)
-----------------------------------------------------------------------------
(***************************************************************************)
(* What holds besides when no cancellation overlaps a resolution and no    *)
(* deletion a submission.                                                  *)
(***************************************************************************)
\* Each session works on what is committed: nothing has moved since it looked.
UpToDate(t) ==
    LET o == job[t].order IN
    /\ Uses(t, o) => new[Ord(o)] = OrderOf(o)
    /\ Uses(t, o) /\ job[t].op = "submit" => OrderOf(o).status = "draft"
    /\ Uses(t, o) /\ job[t].op = "send" => OrderOf(o).status = "none"
    /\ Uses(t, o) /\ job[t].op = "ship" => OrderOf(o).status = "approved"
    /\ Uses(t, o) /\ job[t].op = "cancel" => OrderOf(o).fulfil # "shipped"
    /\ At(t, "ship", "cursor") \/ At(t, "ship", "updated") \/ At(t, "cancel", "cursor")
          \/ At(t, "cancel", "released") => job[t].seen = HeldBy(o)
    /\ At(t, "cancel", "rows") =>
          job[t].seen = HeldBy(o) /\ (owner[Res(o)] = t <=> HeldBy(o) > 0)
    /\ At(t, "delete", "checked") => OrderOf(o).status \in {"draft", "cancelled", "deleted"}
    /\ Allocates(t) \/ (job[t].op = "cancel" /\ owner[Prod] = t) =>
          new[Prod].onHand = db[Prod].onHand
    /\ At(t, "ship", "updated") => new[Prod].onHand = Clip(db[Prod].onHand, Quantity[o])

Exact ==
    /\ ReservedIsSum /\ \A t \in Proc : owner[Prod] = t => LeftBy(t) = new[Prod].reserved
    /\ LinesAccounted
    /\ \A o \in gone : OrderOf(o) = OrderRow("approved", "shipped")
    /\ \A t \in Proc : UpToDate(t)

-----------------------------------------------------------------------------
(* Rows, totals and jobs.                                                  *)
\* The rows of an order, and the product's, are rows of their own.
LEMMA RowsApart ==
    /\ Prod \in Row
    /\ \A o \in Order :
          /\ Ord(o) \in Row /\ Res(o) \in Row /\ Sho(o) \in Row
          /\ Prod # Ord(o) /\ Prod # Res(o) /\ Prod # Sho(o)
    /\ \A o, p \in Order :
          /\ Ord(o) # Res(p) /\ Ord(o) # Sho(p) /\ Res(o) # Sho(p)
          /\ o # p => Ord(o) # Ord(p) /\ Res(o) # Res(p) /\ Sho(o) # Sho(p)
    /\ \A r \in Row : r = Prod \/ \E o \in Order : r = Ord(o) \/ r = Res(o) \/ r = Sho(o)
  BY DEF Row, Prod, Ord, Res, Sho

\* One row of a total put to another number.
LEMMA TotalPut ==
    ASSUME NEW S, IsFiniteSet(S), NEW a \in S, NEW f \in [S -> Nat], NEW h \in [S -> Nat],
           \A x \in S \ {a} : h[x] = f[x]
    PROVE  Total(f) \in Nat /\ Total(h) \in Nat /\ f[a] <= Total(f) /\ Total(h) = Total(f) - f[a] + h[a]
<1> DEFINE z == [x \in S |-> IF x = a THEN 0 ELSE f[x]]
<1>1. z \in [S -> Nat] /\ z[a] = 0 /\ \A x \in S \ {a} : z[x] = f[x] /\ z[x] = h[x]
  OBVIOUS
<1>2. f[a] <= Total(f) /\ Total(z) = Total(f) - f[a]
  BY <1>1, TotalWithout
<1>3. Total(z) = Total(h) - h[a]
  BY <1>1, TotalWithout
<1>4. Total(f) \in Nat /\ Total(h) \in Nat /\ Total(z) \in Nat
  BY <1>1, UnitsFinite
<1> QED BY <1>2, <1>3, <1>4

\* A total of more is more.
LEMMA TotalGrows ==
    ASSUME NEW S, IsFiniteSet(S), NEW f \in [S -> Nat], NEW h \in [S -> Nat],
           \A x \in S : f[x] <= h[x]
    PROVE  Total(f) \in Nat /\ Total(h) \in Nat /\ Total(f) <= Total(h)
<1> DEFINE g == [x \in S |-> h[x] - f[x]]
<1>1. g \in [S -> Nat] /\ \A x \in S : h[x] = f[x] + g[x]
  OBVIOUS
<1>2. Total(h) = Total(f) + Total(g)
  BY <1>1, TotalAdd
<1>3. Total(f) \in Nat /\ Total(h) \in Nat /\ Total(g) \in Nat
  BY <1>1, UnitsFinite
<1> QED BY <1>2, <1>3

Places == {"idle", "start", "locked", "cursor", "allocated", "updated", "released", "rows",
           "query", "checked"}

\* The fields of a job.
LEMMA JobFields ==
    ASSUME job \in [Proc -> Jobs], NEW t \in Proc
    PROVE  /\ job[t].op \in Ops \cup {"none"} /\ job[t].at \in Places /\ job[t].seen \in Nat
           /\ job[t].order \in Order \cup {Idle.order}
           /\ job[t].todo \subseteq Order /\ job[t].served \subseteq Order
           /\ job[t] = [op |-> job[t].op, order |-> job[t].order, at |-> job[t].at,
                        seen |-> job[t].seen, todo |-> job[t].todo, served |-> job[t].served]
<1>1. job[t] \in Jobs
  OBVIOUS
<1>2. PICK x : x = job[t] 
  OBVIOUS
<1>3. PICK i : i = Idle.order
  OBVIOUS
<1> QED BY <1>1, <1>2, <1>3 DEF Jobs, Places

\* A session without a transaction has no list.
LEMMA IdleJob ==
    /\ Idle \in Jobs /\ Idle.op = "none" /\ Idle.at = "idle" /\ Idle.served = {} /\ Idle.todo = {}
    /\ Idle.seen = 0
<1>1. PICK i : i = Idle.order
  OBVIOUS
<1> QED BY DEF Jobs, Idle

\* What a step does to the jobs: t goes to another place.
Moves(t, op, order, at, seen, todo, served) ==
    /\ job' \in [Proc -> Jobs]
    /\ job'[t].op = op /\ job'[t].order = order /\ job'[t].at = at /\ job'[t].seen = seen
    /\ job'[t].todo = todo /\ job'[t].served = served
    /\ \A u \in Proc \ {t} : job'[u] = job[u]

\* A session that goes to another place.
LEMMA JobGoes ==
    ASSUME job \in [Proc -> Jobs], NEW t \in Proc, NEW at \in Places, job' = [job EXCEPT ![t].at = at]
    PROVE  Moves(t, job[t].op, job[t].order, at, job[t].seen, job[t].todo, job[t].served)
<1>1. PICK j : j = [job[t] EXCEPT !.at = at]
  OBVIOUS
<1>2. PICK k \in Jobs : k = job[t]
  OBVIOUS
<1>3. PICK i : i = Idle.order
  OBVIOUS
<1>4. /\ j \in Jobs /\ j.op = k.op /\ j.order = k.order /\ j.at = at /\ j.seen = k.seen
      /\ j.todo = k.todo /\ j.served = k.served
  BY <1>1, <1>2, <1>3 DEF Jobs, Places
<1>5. job' = [job EXCEPT ![t] = j]
  BY <1>1
<1>6. job' \in [Proc -> Jobs] /\ job'[t] = j /\ \A u \in Proc \ {t} : job'[u] = job[u]
  BY <1>4, <1>5
<1> QED BY <1>2, <1>4, <1>6 DEF Moves

-----------------------------------------------------------------------------
(* What a session relies on: its own rows, and that nobody touches those   *)
(* of its order.                                                           *)

\* What orders hold, and would hold, are quantities.
LEMMA HeldTyped ==
    ASSUME Typed(db), Typed(new), NEW t \in Proc
    PROVE  /\ [o \in Order |-> HeldBy(o)] \in [Order -> Nat]
           /\ [o \in Order |-> Left(t, o)] \in [Order -> Nat]
           /\ \A o \in Order : HeldBy(o) \in Nat /\ Left(t, o) \in Nat
           /\ Held \in Nat /\ LeftBy(t) \in Nat
<1>1. \A o \in Order : HeldBy(o) \in Nat /\ new[Res(o)] \in Nat
  BY DEF Typed, HeldBy
<1>2. \A o \in Order : Left(t, o) \in Nat
  BY <1>1 DEF Left
<1>3. IsFiniteSet(Order)
  BY TxConstants
<1> QED BY <1>1, <1>2, <1>3, UnitsFinite DEF Held, LeftBy

\* What t leaves is a matter of what it leaves of each order.
LEMMA LeavesSame ==
    ASSUME NEW t \in Proc, \A p \in Order : Left(t, p)' = Left(t, p)
    PROVE  LeftBy(t)' = LeftBy(t)
  BY DEF LeftBy

\* What a session relies on stays while the others keep away from its rows, give
\* nothing away of its order, and, if it has the product, give no order more.
LEMMA Frame ==
    ASSUME TypeOK, TypeOK', NEW u \in Proc, Session(u), job'[u] = job[u],
           \A r \in Row : /\ owner'[r] = u <=> owner[r] = u
                          /\ owner[r] = u => new'[r] = new[r] /\ db'[r] = db[r],
           \A o \in Order : Uses(u, o) => HeldBy(o)' >= HeldBy(o),
           owner[Prod] = u => \A o \in Order : HeldBy(o)' <= HeldBy(o)
    PROVE  Session(u)'
<1> USE RowsApart
<1>1. /\ Allocates(u)' <=> Allocates(u)
      /\ Resolves(u)' <=> Resolves(u)
      /\ Lowers(u)' <=> Lowers(u)
      /\ \A o \in Order : Uses(u, o)' <=> Uses(u, o)
      /\ \A op, at : At(u, op, at)' <=> At(u, op, at)
  BY DEF Allocates, Resolves, Lowers, Uses, At
<1>2. Locks(u)'
  BY <1>1 DEF Session, Locks
<1>o. ASSUME Allocates(u) \/ At(u, "ship", "cursor") \/ At(u, "cancel", "cursor") \/ At(u, "cancel", "rows")
             \/ (job[u].op = "ship" /\ job[u].at # "start")
      PROVE  Uses(u, job[u].order) /\ job[u].order \in Order
  BY <1>o DEF TypeOK, Allocates, At, Uses
<1>3. Reserved(u)'
  <2> SUFFICES ASSUME Allocates(u) PROVE Reserved(u)'
    BY <1>1 DEF Reserved
  <2>1. owner[Prod] = u /\ owner[Res(job[u].order)] = u /\ owner[Sho(job[u].order)] = u
    BY <1>o DEF Session, Locks
  <2> QED BY <2>1, <1>o DEF Session, Reserved
<1>4. Lowered(u)'
  <2>1. At(u, "ship", "cursor") \/ At(u, "cancel", "cursor") => job[u].seen <= HeldBy(job[u].order)'
    <3> SUFFICES ASSUME At(u, "ship", "cursor") \/ At(u, "cancel", "cursor")
                 PROVE  job[u].seen <= HeldBy(job[u].order)'
      OBVIOUS
    <3>1. PICK o \in Order : o = job[u].order /\ Uses(u, o)
      BY <1>o
    <3>2. job[u].seen <= HeldBy(o) /\ HeldBy(o)' >= HeldBy(o)
      BY <3>1 DEF Session, Lowered, HeldBy
    <3>3. HeldBy(o) \in Nat /\ HeldBy(o)' \in Nat /\ job[u].seen \in Nat
      BY JobFields DEF TypeOK, Typed, HeldBy
    <3> QED BY <3>1, <3>2, <3>3
  <2>2. At(u, "cancel", "rows") =>
           IF owner'[Res(job[u].order)] = u THEN new'[Res(job[u].order)] = 0
           ELSE job[u].seen > 0 => HeldBy(job[u].order)' = 0
    <3> SUFFICES ASSUME At(u, "cancel", "rows")
                 PROVE  IF owner'[Res(job[u].order)] = u THEN new'[Res(job[u].order)] = 0
                        ELSE job[u].seen > 0 => HeldBy(job[u].order)' = 0
      OBVIOUS
    <3>1. PICK o \in Order : o = job[u].order
      BY <1>o
    <3>2. IF owner[Res(o)] = u THEN new[Res(o)] = 0 ELSE job[u].seen > 0 => HeldBy(o) = 0
      BY <3>1 DEF Session, Lowered, HeldBy
    <3>3. job[u].seen > 0 => owner[Prod] = u
      BY DEF Session, Locks, Lowers
    <3>4. HeldBy(o) \in Nat /\ HeldBy(o)' \in Nat
      BY DEF TypeOK, Typed, HeldBy
    <3> QED BY <3>1, <3>2, <3>3, <3>4
  <2>3. job[u].op = "ship" /\ job[u].at # "start" => db'[Ord(job[u].order)].fulfil = "allocated"
    <3> SUFFICES ASSUME job[u].op = "ship" /\ job[u].at # "start"
                 PROVE  db'[Ord(job[u].order)].fulfil = "allocated"
      OBVIOUS
    <3>1. PICK o \in Order : o = job[u].order /\ Uses(u, o)
      BY <1>o
    <3>2. owner[Ord(o)] = u
      BY <3>1 DEF Session, Locks
    <3> QED BY <3>1, <3>2 DEF Session, Lowered
  <2> QED BY <1>1, <2>1, <2>2, <2>3 DEF Lowered, HeldBy
<1>5. Served(u)'
  <2>1. Resolves(u) => owner[Prod] = u
    BY DEF Session, Locks
  <2>2. \A o \in job[u].served : o \in Order /\ owner[Res(o)] = u /\ owner[Sho(o)] = u /\ Resolves(u)
    BY JobFields DEF TypeOK, Session, Locks, Resolves, At
  <2>3. Resolves(u) => new'[Prod].onHand = db'[Prod].onHand
    BY <2>1 DEF Session, Served
  <2>4. job[u].served # {} => new'[Prod].reserved <= db'[Prod].onHand
    BY <2>1, <2>2 DEF Session, Served
  <2>5. ASSUME NEW o \in job[u].served
        PROVE  /\ new'[Res(o)] + new'[Sho(o)] = db'[Res(o)] + db'[Sho(o)]
               /\ new'[Res(o)] > db'[Res(o)]
               /\ owner'[Ord(o)] = u => new'[Ord(o)] = db'[Ord(o)] \/ Promoted(o)'
    BY <2>2 DEF Session, Served, Promoted
  <2>6. ASSUME NEW o \in Order \ job[u].served, Resolves(u), owner'[Sho(o)] = u
        PROVE  new'[Sho(o)] = db'[Sho(o)] /\ db'[Sho(o)] > 0
    BY <2>6 DEF Session, Served
  <2> QED BY <1>1, <2>3, <2>4, <2>5, <2>6 DEF Served
<1>6. owner'[Prod] = u => LeftBy(u)' <= new'[Prod].reserved
  <2> SUFFICES ASSUME owner[Prod] = u PROVE LeftBy(u)' <= new'[Prod].reserved
    OBVIOUS
  <2>1. \A o \in Order : Left(u, o)' <= Left(u, o)
    <3> SUFFICES ASSUME NEW o \in Order PROVE Left(u, o)' <= Left(u, o)
      OBVIOUS
    <3>1. HeldBy(o) \in Nat /\ HeldBy(o)' \in Nat /\ new[Res(o)] \in Nat /\ HeldBy(o)' <= HeldBy(o)
      BY DEF TypeOK, Typed, HeldBy
    <3> QED BY <1>1, <3>1 DEF Left
  <2>2. LeftBy(u)' <= LeftBy(u) /\ LeftBy(u) \in Nat /\ LeftBy(u)' \in Nat
    <3>1. PICK f, h : f = [o \in Order |-> Left(u, o)] /\ h = [o \in Order |-> Left(u, o)']
      OBVIOUS
    <3>2. f \in [Order -> Nat] /\ h \in [Order -> Nat] /\ LeftBy(u) = Total(f) /\ LeftBy(u)' = Total(h)
      <4>1. \A o \in Order : Left(u, o) \in Nat /\ Left(u, o)' \in Nat
        BY DEF TypeOK, Typed, Left, HeldBy
      <4> QED BY <3>1, <4>1 DEF LeftBy
    <3>3. \A o \in Order : h[o] <= f[o]
      BY <2>1, <3>1
    <3> QED BY <3>2, <3>3, TotalGrows, TxConstants
  <2>3. LeftBy(u) <= new[Prod].reserved /\ new'[Prod] = new[Prod] /\ new[Prod].reserved \in Nat
    BY DEF Session, TypeOK, Typed
  <2> QED BY <2>2, <2>3
<1> QED BY <1>2, <1>3, <1>4, <1>5, <1>6 DEF Session

-----------------------------------------------------------------------------
(* Statements and commits.                                                 *)

\* The versions a statement may give to rows.
Fits(vs) ==
    /\ DOMAIN vs \subseteq Row
    /\ Prod \in DOMAIN vs => vs[Prod] \in [onHand : Nat, reserved : Nat]
    /\ \A o \in Order : /\ Ord(o) \in DOMAIN vs => vs[Ord(o)] \in OrderRows
                        /\ Res(o) \in DOMAIN vs => vs[Res(o)] \in Nat
                        /\ Sho(o) \in DOMAIN vs => vs[Sho(o)] \in Nat

\* What a locking statement does to each row.
LEMMA WriteEffect ==
    ASSUME NEW t \in Proc, NEW vs, Write(t, vs), DOMAIN vs \subseteq Row
    PROVE  /\ db' = db
           /\ \A r \in DOMAIN vs : owner[r] \in {NoProc, t} /\ owner'[r] = t /\ new'[r] = vs[r]
           /\ \A r \in Row : r \notin DOMAIN vs => owner'[r] = owner[r] /\ new'[r] = new[r]
  BY DEF Write, CanLock

\* Rows keep their types.
LEMMA WriteTyped ==
    ASSUME TypeOK, NEW t \in Proc, NEW vs, Write(t, vs), Fits(vs)
    PROVE  Typed(new)' /\ Typed(db)' /\ owner' \in [Row -> Proc \cup {NoProc}]
<1>1. new' = [r \in Row |-> new'[r]] /\ owner' \in [Row -> Proc \cup {NoProc}]
  BY DEF Write, TypeOK
<1>2. /\ new'[Prod] \in [onHand : Nat, reserved : Nat]
      /\ \A o \in Order : new'[Ord(o)] \in OrderRows /\ new'[Res(o)] \in Nat /\ new'[Sho(o)] \in Nat
  <2>1. \A r \in Row : new'[r] = IF r \in DOMAIN vs THEN vs[r] ELSE new[r]
    BY WriteEffect DEF Fits
  <2>2. new'[Prod] \in [onHand : Nat, reserved : Nat]
    BY <2>1, RowsApart DEF TypeOK, Typed, Fits
  <2>3. ASSUME NEW o \in Order
        PROVE  new'[Ord(o)] \in OrderRows /\ new'[Res(o)] \in Nat /\ new'[Sho(o)] \in Nat
    <3>1. new[Ord(o)] \in OrderRows /\ new[Res(o)] \in Nat /\ new[Sho(o)] \in Nat
      BY DEF TypeOK, Typed
    <3> QED BY <2>1, <3>1, RowsApart DEF Fits
  <2> QED BY <2>2, <2>3
<1>3. Typed(db)'
  BY WriteEffect DEF TypeOK, Typed, Fits
<1> QED BY <1>1, <1>2, <1>3 DEF Typed

\* The rows of the other sessions stay theirs.
Spares(t) ==
    \A r \in Row : \A u \in Proc \ {t} : /\ owner'[r] = u <=> owner[r] = u
                                         /\ owner[r] = u => new'[r] = new[r]

\* A step of t that commits nothing keeps what the others rely on and what is
\* committed.
LEMMA StepInside ==
    ASSUME TxInv, TypeOK', Free', NEW t \in Proc, db' = db, Session(t)',
           Spares(t),
           \A u \in Proc \ {t} : job'[u] = job[u]
    PROVE  TxInv'
<1>1. ASSUME NEW u \in Proc \ {t} PROVE Session(u)'
  <2>1. \A o \in Order : HeldBy(o)' = HeldBy(o) /\ HeldBy(o) \in Nat
    BY DEF HeldBy, TxInv, TypeOK, Typed
  <2> QED BY <2>1, Frame DEF TxInv, Spares
<1>2. Whole'
  BY DEF TxInv, Whole, OrderOf, HeldBy
<1>3. CounterCovers'
  BY DEF TxInv, CounterCovers, Held, HeldBy
<1> QED BY <1>1, <1>2, <1>3 DEF TxInv

\* A locking statement takes no row of another session.
LEMMA WriteSpares ==
    ASSUME NEW t \in Proc, NEW vs, Write(t, vs), Fits(vs)
    PROVE  Spares(t)
<1>1. NoProc \notin Proc /\ DOMAIN vs \subseteq Row
  BY TxConstants DEF Fits
<1> QED BY <1>1, WriteEffect DEF Spares

\* A locking statement after which t has what it relies on.
LEMMA Writes ==
    ASSUME TxInv, NEW t \in Proc, NEW vs, Write(t, vs), Fits(vs), gone' = gone,
           NEW op, NEW order, NEW at, NEW seen, NEW todo, NEW served,
           Moves(t, op, order, at, seen, todo, served),
           op # "none" => order \in Order,
           Session(t)'
    PROVE  TxInv'
<1> USE RowsApart
<1>1. TypeOK'
  BY WriteTyped DEF TypeOK, TxInv, Moves
<1>2. NoProc \notin Proc
  BY TxConstants
<1>3. Free'
  BY WriteEffect, <1>2 DEF Free, TxInv, Fits
<1>4. Spares(t)
  BY WriteSpares
<1>5. db' = db /\ \A u \in Proc \ {t} : job'[u] = job[u]
  BY WriteEffect DEF Moves, Fits
<1> QED BY <1>1, <1>3, <1>4, <1>5, StepInside

\* A step of t that touches no row.
LEMMA Waits ==
    ASSUME TxInv, NEW t \in Proc, UNCHANGED <<db, new, owner, gone>>,
           NEW op, NEW order, NEW at, NEW seen, NEW todo, NEW served,
           Moves(t, op, order, at, seen, todo, served),
           op # "none" => order \in Order,
           Session(t)'
    PROVE  TxInv'
<1>1. TypeOK'
  BY DEF TypeOK, TxInv, Moves, Typed
<1>2. Free'
  BY DEF Free, TxInv
<1>3. Spares(t)
  BY DEF Spares
<1> QED BY <1>1, <1>2, <1>3, StepInside DEF Moves

\* A session without a transaction relies on nothing.
LEMMA IdleSession ==
    ASSUME TypeOK', NEW t \in Proc, job'[t] = Idle, \A r \in Row : owner'[r] # t
    PROVE  Session(t)'
<1> USE RowsApart, IdleJob
<1>1. job'[t].op = "none" /\ job'[t].served = {}
  OBVIOUS
<1>2. Locks(t)'
  BY <1>1 DEF Locks, Allocates, Resolves, Lowers, At, Uses
<1>3. Reserved(t)' /\ Lowered(t)' /\ Served(t)'
  BY <1>1 DEF Reserved, Lowered, Served, Allocates, Resolves, At
<1> QED BY <1>2, <1>3 DEF Session

\* What a commit does to each row.
LEMMA CommitEffect ==
    ASSUME NEW t \in Proc, NEW vs, CommitWith(t, vs), DOMAIN vs \subseteq Row, job \in [Proc -> Jobs]
    PROVE  /\ \A r \in DOMAIN vs : /\ owner[r] \in {NoProc, t} /\ owner'[r] = NoProc
                                   /\ db'[r] = vs[r] /\ new'[r] = vs[r]
           /\ \A r \in Row : r \notin DOMAIN vs =>
                 /\ new'[r] = new[r]
                 /\ owner[r] = t => db'[r] = new[r] /\ owner'[r] = NoProc
                 /\ owner[r] # t => db'[r] = db[r] /\ owner'[r] = owner[r]
           /\ job'[t] = Idle /\ \A u \in Proc \ {t} : job'[u] = job[u]
<1>1. job' = [job EXCEPT ![t] = Idle]
  BY DEF CommitWith
<1> QED BY <1>1 DEF CommitWith, CanLock

\* A commit keeps the types.
LEMMA CommitTyped ==
    ASSUME TxInv, NEW t \in Proc, NEW vs, CommitWith(t, vs), Fits(vs), gone' \subseteq Order
    PROVE  TypeOK'
<1> USE RowsApart
<1>a. job \in [Proc -> Jobs] /\ DOMAIN vs \subseteq Row /\ NoProc \notin Proc
  BY TxConstants DEF TxInv, TypeOK, Fits
<1>1. /\ new' = [r \in Row |-> new'[r]] /\ db' = [r \in Row |-> db'[r]]
      /\ owner' \in [Row -> Proc \cup {NoProc}]
  BY DEF CommitWith, TxInv, TypeOK
<1>2. /\ new'[Prod] \in [onHand : Nat, reserved : Nat]
      /\ \A o \in Order : new'[Ord(o)] \in OrderRows /\ new'[Res(o)] \in Nat /\ new'[Sho(o)] \in Nat
  <2>1. \A r \in Row : new'[r] = IF r \in DOMAIN vs THEN vs[r] ELSE new[r]
    BY CommitEffect, <1>a
  <2>2. new'[Prod] \in [onHand : Nat, reserved : Nat]
    BY <2>1 DEF TxInv, TypeOK, Typed, Fits
  <2>3. ASSUME NEW o \in Order
        PROVE  new'[Ord(o)] \in OrderRows /\ new'[Res(o)] \in Nat /\ new'[Sho(o)] \in Nat
    <3>1. /\ new[Ord(o)] \in OrderRows /\ new[Res(o)] \in Nat /\ new[Sho(o)] \in Nat
          /\ db[Ord(o)] \in OrderRows /\ db[Res(o)] \in Nat /\ db[Sho(o)] \in Nat
      BY DEF TxInv, TypeOK, Typed
    <3> QED BY <2>1, <3>1 DEF Fits
  <2> QED BY <2>2, <2>3
<1>3. /\ db'[Prod] \in [onHand : Nat, reserved : Nat]
      /\ \A o \in Order : db'[Ord(o)] \in OrderRows /\ db'[Res(o)] \in Nat /\ db'[Sho(o)] \in Nat
  <2>1. \A r \in Row : db'[r] = IF r \in DOMAIN vs THEN vs[r] ELSE IF owner[r] = t THEN new[r] ELSE db[r]
    BY CommitEffect, <1>a
  <2>2. db'[Prod] \in [onHand : Nat, reserved : Nat]
    BY <2>1 DEF TxInv, TypeOK, Typed, Fits
  <2>3. ASSUME NEW o \in Order
        PROVE  db'[Ord(o)] \in OrderRows /\ db'[Res(o)] \in Nat /\ db'[Sho(o)] \in Nat
    <3>1. /\ new[Ord(o)] \in OrderRows /\ new[Res(o)] \in Nat /\ new[Sho(o)] \in Nat
          /\ db[Ord(o)] \in OrderRows /\ db[Res(o)] \in Nat /\ db[Sho(o)] \in Nat
      BY DEF TxInv, TypeOK, Typed
    <3> QED BY <2>1, <3>1 DEF Fits
  <2> QED BY <2>2, <2>3
<1>4. job' \in [Proc -> Jobs] /\ \A u \in Proc : job'[u].op # "none" => job'[u].order \in Order
  BY CommitEffect, <1>a, IdleJob DEF CommitWith, TxInv, TypeOK
<1> QED BY <1>1, <1>2, <1>3, <1>4 DEF TypeOK, Typed

\* A commit of t keeps what the others rely on.
LEMMA Commits ==
    ASSUME TxInv, NEW t \in Proc, NEW vs, CommitWith(t, vs), Fits(vs), gone' \subseteq Order,
           Whole', CounterCovers',
           \A u \in Proc \ {t} : /\ \A o \in Order : Uses(u, o) => HeldBy(o)' >= HeldBy(o)
                                 /\ owner[Prod] = u => \A o \in Order : HeldBy(o)' <= HeldBy(o)
    PROVE  TxInv'
<1> USE RowsApart
<1>a. job \in [Proc -> Jobs] /\ DOMAIN vs \subseteq Row /\ NoProc \notin Proc
  BY TxConstants DEF TxInv, TypeOK, Fits
<1>5. TypeOK'
  BY CommitTyped
<1>6. Free'
  BY CommitEffect, <1>a DEF Free, TxInv
<1>7. Session(t)'
  BY <1>5, <1>a, CommitEffect, IdleSession
<1>8. ASSUME NEW u \in Proc \ {t} PROVE Session(u)'
  <2>1. \A r \in Row : /\ owner'[r] = u <=> owner[r] = u
                       /\ owner[r] = u => new'[r] = new[r] /\ db'[r] = db[r]
    BY <1>a, CommitEffect
  <2> QED BY <1>5, <1>a, <2>1, CommitEffect, Frame DEF TxInv
<1> QED BY <1>5, <1>6, <1>7, <1>8 DEF TxInv

-----------------------------------------------------------------------------
(* What is committed when operations are kept apart.                       *)

\* A shipment that has updated the product has its row.
LEMMA ShipHasProduct ==
    ASSUME TxInv, Exact, NEW t \in Proc, job[t].op = "ship", job[t].at \in {"cursor", "updated"}
    PROVE  /\ job[t].order \in Order /\ Uses(t, job[t].order)
           /\ HeldBy(job[t].order) = Quantity[job[t].order]
           /\ job[t].seen = HeldBy(job[t].order) /\ job[t].seen > 0
           /\ job[t].at = "updated" => owner[Prod] = t
<1>1. PICK o \in Order : o = job[t].order
  BY DEF TxInv, TypeOK
<1>2. Uses(t, o)
  BY <1>1 DEF Uses
<1>3. db[Ord(o)].fulfil = "allocated"
  BY <1>1 DEF TxInv, Session, Lowered
<1>4. HeldBy(o) = Quantity[o] /\ Quantity[o] > 0
  BY <1>3, TxConstants DEF TxInv, Whole, OrderOf, HeldBy, TypeOK, Typed
<1>5. job[t].seen = HeldBy(o)
  BY <1>1 DEF Exact, UpToDate, At
<1>6. job[t].at = "updated" => owner[Prod] = t
  BY <1>4, <1>5 DEF TxInv, Session, Locks, Lowers, At
<1> QED BY <1>1, <1>2, <1>4, <1>5, <1>6

\* What a session relies on when operations are kept apart.
LEMMA FrameExact ==
    ASSUME TxInv, Exact, NEW u \in Proc, job'[u] = job[u],
           \A r \in Row : /\ owner'[r] = u <=> owner[r] = u
                          /\ owner[r] = u => new'[r] = new[r] /\ db'[r] = db[r],
           \A o \in Order : Uses(u, o) /\ job[u].op \in {"ship", "cancel"} => HeldBy(o)' = HeldBy(o),
           owner[Prod] = u => \A o \in Order : HeldBy(o)' = HeldBy(o),
           At(u, "delete", "checked") => OrderOf(job[u].order)'.status \in {"draft", "cancelled", "deleted"}
    PROVE  /\ UpToDate(u)'
           /\ owner'[Prod] = u => LeftBy(u)' = new'[Prod].reserved
<1> USE RowsApart
<1>1. /\ Allocates(u)' <=> Allocates(u)
      /\ Lowers(u)' <=> Lowers(u)
      /\ \A o \in Order : Uses(u, o)' <=> Uses(u, o)
      /\ \A op, at : At(u, op, at)' <=> At(u, op, at)
  BY DEF Allocates, Lowers, Uses, At
<1>2. UpToDate(u) /\ Locks(u)
  BY DEF Exact, TxInv, Session
<1>3. PICK o : o = job[u].order
  OBVIOUS
<1>4. job[u].op # "none" => o \in Order
  BY <1>3 DEF TxInv, TypeOK
<1>5. ASSUME Uses(u, o) PROVE o \in Order /\ new'[Ord(o)] = new[Ord(o)] /\ OrderOf(o)' = OrderOf(o)
  <2>1. o \in Order
    BY <1>4, <1>5 DEF Uses, At
  <2> QED BY <1>2, <1>5, <2>1 DEF Locks, OrderOf
<1>6. ASSUME Uses(u, o), job[u].op \in {"ship", "cancel"} PROVE HeldBy(o)' = HeldBy(o)
  BY <1>5, <1>6
<1>7. At(u, "ship", "cursor") \/ At(u, "ship", "updated") \/ At(u, "cancel", "cursor")
         \/ At(u, "cancel", "released") \/ At(u, "cancel", "rows")
      => Uses(u, o) /\ job[u].op \in {"ship", "cancel"}
  BY <1>3 DEF At, Uses
<1>8. At(u, "ship", "updated") => owner[Prod] = u
  BY ShipHasProduct DEF At
<1>9. UpToDate(u)'
  <2>1. Uses(u, o) => new'[Ord(o)] = OrderOf(o)'
    BY <1>2, <1>3, <1>5 DEF UpToDate
  <2>2. /\ Uses(u, o) /\ job[u].op = "submit" => OrderOf(o)'.status = "draft"
        /\ Uses(u, o) /\ job[u].op = "send" => OrderOf(o)'.status = "none"
        /\ Uses(u, o) /\ job[u].op = "ship" => OrderOf(o)'.status = "approved"
        /\ Uses(u, o) /\ job[u].op = "cancel" => OrderOf(o)'.fulfil # "shipped"
    BY <1>2, <1>3, <1>5 DEF UpToDate
  <2>3. /\ At(u, "ship", "cursor") \/ At(u, "ship", "updated") \/ At(u, "cancel", "cursor")
              \/ At(u, "cancel", "released") => job[u].seen = HeldBy(o)'
        /\ At(u, "cancel", "rows") => job[u].seen = HeldBy(o)' /\ (owner'[Res(o)] = u <=> HeldBy(o)' > 0)
    <3>1. At(u, "cancel", "rows") => Res(o) \in Row
      BY <1>5, <1>7
    <3> QED BY <1>2, <1>3, <1>6, <1>7, <3>1 DEF UpToDate
  <2>4. /\ Allocates(u) \/ (job[u].op = "cancel" /\ owner'[Prod] = u) => new'[Prod].onHand = db'[Prod].onHand
        /\ At(u, "ship", "updated") => new'[Prod].onHand = Clip(db'[Prod].onHand, Quantity[o])
    BY <1>2, <1>3, <1>8 DEF UpToDate, Locks
  <2>5. Uses(u, o)' <=> Uses(u, o)
    BY DEF Uses, At
  <2>6. At(u, "delete", "checked") => OrderOf(o)'.status \in {"draft", "cancelled", "deleted"}
    BY <1>3
  <2>7. job'[u].order = o
    BY <1>3
  <2> QED BY <1>1, <2>1, <2>2, <2>3, <2>4, <2>5, <2>6, <2>7 DEF UpToDate
<1>10. ASSUME owner'[Prod] = u PROVE LeftBy(u)' = new'[Prod].reserved
  <2>1. \A p \in Order : Left(u, p)' = Left(u, p)
    BY <1>1, <1>10 DEF Left
  <2> QED BY <1>10, <2>1, LeavesSame DEF Exact
<1> QED BY <1>9, <1>10

\* A step that commits nothing.
LEMMA InsideExact ==
    ASSUME TxInv, Exact, NEW t \in Proc, db' = db, gone' = gone, Spares(t),
           \A u \in Proc \ {t} : job'[u] = job[u],
           owner'[Prod] = t => LeftBy(t)' = new'[Prod].reserved, UpToDate(t)'
    PROVE  Exact'
<1>1. \A o \in Order : HeldBy(o)' = HeldBy(o) /\ OrderOf(o)' = OrderOf(o)
  BY DEF HeldBy, OrderOf
<1>2. Held' = Held
  BY <1>1 DEF Held
<1>3. ReservedIsSum' /\ LinesAccounted' /\ \A o \in gone' : OrderOf(o)' = OrderRow("approved", "shipped")
  BY <1>1, <1>2 DEF Exact, ReservedIsSum, LinesAccounted, Live, TxInv, TypeOK
<1>4. ASSUME NEW u \in Proc \ {t}
      PROVE  UpToDate(u)' /\ (owner'[Prod] = u => LeftBy(u)' = new'[Prod].reserved)
  <2>1. At(u, "delete", "checked") => OrderOf(job[u].order)'.status \in {"draft", "cancelled", "deleted"}
    BY DEF Exact, UpToDate, OrderOf
  <2>2. \A r \in Row : /\ owner'[r] = u <=> owner[r] = u
                       /\ owner[r] = u => new'[r] = new[r] /\ db'[r] = db[r]
    BY DEF Spares
  <2> QED BY <1>1, <2>1, <2>2, FrameExact
<1> QED BY <1>3, <1>4 DEF Exact

\* A session that has just come, has gone or resolves relies on nothing else.
LEMMA Fresh ==
    ASSUME NEW t \in Proc,
           \/ job'[t].op \in {"none", "resolve"}
           \/ job'[t].at = "start" /\ owner'[Prod] # t
    PROVE  UpToDate(t)'
  BY DEF UpToDate, Uses, At, Allocates

-----------------------------------------------------------------------------
(* The steps of a session.                                                 *)

\* A session whose job is replaced.
LEMMA JobPut ==
    ASSUME job \in [Proc -> Jobs], NEW t \in Proc, NEW j \in Jobs, job' = [job EXCEPT ![t] = j]
    PROVE  Moves(t, j.op, j.order, j.at, j.seen, j.todo, j.served)
<1>1. job' \in [Proc -> Jobs] /\ job'[t] = j /\ \A u \in Proc \ {t} : job'[u] = job[u]
  OBVIOUS
<1> QED BY <1>1 DEF Moves

\* A session that goes on with what it has seen.
LEMMA JobLooks ==
    ASSUME job \in [Proc -> Jobs], NEW t \in Proc, NEW at \in Places, NEW n \in Nat,
           job' = [job EXCEPT ![t].at = at, ![t].seen = n]
    PROVE  Moves(t, job[t].op, job[t].order, at, n, job[t].todo, job[t].served)
<1>1. PICK j : j = [job[t] EXCEPT !.at = at, !.seen = n]
  OBVIOUS
<1>2. PICK k \in Jobs : k = job[t]
  OBVIOUS
<1>3. PICK i : i = Idle.order
  OBVIOUS
<1>4. /\ j \in Jobs /\ j.op = k.op /\ j.order = k.order /\ j.at = at /\ j.seen = n
      /\ j.todo = k.todo /\ j.served = k.served
  BY <1>1, <1>2, <1>3 DEF Jobs, Places
<1>5. job' = [job EXCEPT ![t] = j]
  BY <1>1
<1> QED BY <1>2, <1>4, <1>5, JobPut

\* A session that goes on with a list.
LEMMA JobQueries ==
    ASSUME job \in [Proc -> Jobs], NEW t \in Proc, NEW at \in Places, NEW todo \in SUBSET Order,
           job' = [job EXCEPT ![t].at = at, ![t].todo = todo]
    PROVE  Moves(t, job[t].op, job[t].order, at, job[t].seen, todo, job[t].served)
<1>1. PICK j : j = [job[t] EXCEPT !.at = at, !.todo = todo]
  OBVIOUS
<1>2. PICK k \in Jobs : k = job[t]
  OBVIOUS
<1>3. PICK i : i = Idle.order
  OBVIOUS
<1>4. /\ j \in Jobs /\ j.op = k.op /\ j.order = k.order /\ j.at = at /\ j.seen = k.seen
      /\ j.todo = todo /\ j.served = k.served
  BY <1>1, <1>2, <1>3 DEF Jobs, Places
<1>5. job' = [job EXCEPT ![t] = j]
  BY <1>1
<1> QED BY <1>2, <1>4, <1>5, JobPut

\* A session that has dealt with one of its list.
LEMMA JobLists ==
    ASSUME job \in [Proc -> Jobs], NEW t \in Proc, NEW todo \in SUBSET Order,
           job' = [job EXCEPT ![t].todo = todo]
    PROVE  Moves(t, job[t].op, job[t].order, job[t].at, job[t].seen, todo, job[t].served)
<1>1. PICK j : j = [job[t] EXCEPT !.todo = todo]
  OBVIOUS
<1>2. PICK k \in Jobs : k = job[t]
  OBVIOUS
<1>3. PICK i : i = Idle.order
  OBVIOUS
<1>4. /\ j \in Jobs /\ j.op = k.op /\ j.order = k.order /\ j.at = k.at /\ j.seen = k.seen
      /\ j.todo = todo /\ j.served = k.served
  BY <1>1, <1>2, <1>3 DEF Jobs
<1>5. job' = [job EXCEPT ![t] = j]
  BY <1>1
<1> QED BY <1>2, <1>4, <1>5, JobPut

\* A session that has served one more.
LEMMA JobServes ==
    ASSUME job \in [Proc -> Jobs], NEW t \in Proc, NEW served \in SUBSET Order,
           job' = [job EXCEPT ![t].served = served]
    PROVE  Moves(t, job[t].op, job[t].order, job[t].at, job[t].seen, job[t].todo, served)
<1>1. PICK j : j = [job[t] EXCEPT !.served = served]
  OBVIOUS
<1>2. PICK k \in Jobs : k = job[t]
  OBVIOUS
<1>3. PICK i : i = Idle.order
  OBVIOUS
<1>4. /\ j \in Jobs /\ j.op = k.op /\ j.order = k.order /\ j.at = k.at /\ j.seen = k.seen
      /\ j.todo = k.todo /\ j.served = served
  BY <1>1, <1>2, <1>3 DEF Jobs
<1>5. job' = [job EXCEPT ![t] = j]
  BY <1>1
<1> QED BY <1>2, <1>4, <1>5, JobPut

\* A session that begins.
LEMMA JobBegins ==
    ASSUME job \in [Proc -> Jobs], NEW t \in Proc, NEW op \in Ops, NEW o \in Order,
           job' = [job EXCEPT ![t] = [Idle EXCEPT !.op = op, !.order = o, !.at = "start"]]
    PROVE  Moves(t, op, o, "start", 0, {}, {})
<1>1. PICK j : j = [Idle EXCEPT !.op = op, !.order = o, !.at = "start"]
  OBVIOUS
<1>2. j \in Jobs /\ j.op = op /\ j.order = o /\ j.at = "start" /\ j.seen = 0 /\ j.todo = {} /\ j.served = {}
  <2>1. PICK i : i = Idle.order
    OBVIOUS
  <2> QED BY <1>1, <2>1 DEF Jobs, Idle
<1> QED BY <1>1, <1>2, JobPut

\* A session at its start has nothing, nor has one without a transaction.
LEMMA HasNothing ==
    ASSUME TypeOK, NEW t \in Proc, Locks(t), job[t].op = "none" \/ job[t].at = "start"
    PROVE  (\A r \in Row : owner[r] # t) /\ job[t].served = {}
<1>1. job[t].served = {}
  <2>1. job[t].served \subseteq Order
    BY JobFields DEF TypeOK
  <2> QED BY <2>1 DEF Locks, At
<1>2. owner[Prod] # t /\ \A o \in Order : owner[Ord(o)] # t /\ owner[Res(o)] # t /\ owner[Sho(o)] # t
  BY <1>1 DEF Locks, Allocates, Resolves, Lowers, At, Uses
<1> QED BY <1>1, <1>2, RowsApart

\* A call arrives.
LEMMA BeginKeeps ==
    ASSUME TxInv, NEW t \in Proc, NEW op \in Ops, NEW o \in Order, Begin(t, op, o)
    PROVE  TxInv' /\ (Exact => Exact')
<1>1. Moves(t, op, o, "start", 0, {}, {})
  BY JobBegins DEF TxInv, TypeOK, Begin
<1>2. (\A r \in Row : owner[r] # t) /\ UNCHANGED <<db, new, owner, gone>>
  BY HasNothing DEF TxInv, Session, Begin
<1>3. Session(t)'
  <2> USE <1>1, <1>2, RowsApart DEF Moves
  <2>1. Locks(t)'
    BY DEF Locks, Allocates, Resolves, Lowers, At, Uses
  <2>2. Reserved(t)' /\ Lowered(t)' /\ Served(t)'
    BY DEF Reserved, Lowered, Served, Allocates, Resolves, At
  <2> QED BY <2>1, <2>2 DEF Session
<1>4. TxInv'
  BY <1>1, <1>2, <1>3, Waits
<1>5. Exact => Exact'
  <2>1. Spares(t) /\ owner'[Prod] # t
    BY <1>2, RowsApart DEF Spares
  <2>2. UpToDate(t)'
    BY <1>1, <2>1, Fresh DEF Moves
  <2> QED BY <1>1, <1>2, <2>1, <2>2, InsideExact DEF Moves
<1> QED BY <1>4, <1>5

\* A transaction leaves nothing.
LEMMA AbortKeeps ==
    ASSUME TxInv, NEW t \in Proc, Abort(t)
    PROVE  TxInv' /\ (Exact => Exact')
<1> USE RowsApart
<1>1. NoProc \notin Proc /\ job' = [job EXCEPT ![t] = Idle] /\ db' = db /\ gone' = gone
  BY TxConstants DEF Abort
<1>2. /\ \A r \in Row : /\ owner[r] = t => owner'[r] = NoProc /\ new'[r] = db[r]
                        /\ owner[r] # t => owner'[r] = owner[r] /\ new'[r] = new[r]
      /\ new' = [r \in Row |-> new'[r]] /\ owner' \in [Row -> Proc \cup {NoProc}]
  BY DEF Abort, TxInv, TypeOK
<1>3. job' \in [Proc -> Jobs] /\ job'[t] = Idle /\ \A u \in Proc \ {t} : job'[u] = job[u]
  BY <1>1, IdleJob DEF TxInv, TypeOK
<1>4. TypeOK'
  <2>1. Typed(new)'
    <3>1. new'[Prod] \in [onHand : Nat, reserved : Nat]
      BY <1>2 DEF TxInv, TypeOK, Typed
    <3>2. ASSUME NEW o \in Order
          PROVE  new'[Ord(o)] \in OrderRows /\ new'[Res(o)] \in Nat /\ new'[Sho(o)] \in Nat
      <4>1. /\ new[Ord(o)] \in OrderRows /\ new[Res(o)] \in Nat /\ new[Sho(o)] \in Nat
            /\ db[Ord(o)] \in OrderRows /\ db[Res(o)] \in Nat /\ db[Sho(o)] \in Nat
        BY DEF TxInv, TypeOK, Typed
      <4> QED BY <1>2, <4>1
    <3> QED BY <1>2, <3>1, <3>2 DEF Typed
  <2> QED BY <1>1, <1>2, <1>3, <2>1, IdleJob DEF TypeOK, TxInv, Typed
<1>5. Free' /\ Spares(t)
  BY <1>1, <1>2 DEF Free, TxInv, Spares
<1>6. Session(t)'
  BY <1>1, <1>2, <1>3, <1>4, IdleSession
<1>7. TxInv'
  BY <1>1, <1>3, <1>4, <1>5, <1>6, StepInside
<1>8. Exact => Exact'
  <2>1. owner'[Prod] # t
    BY <1>1, <1>2
  <2>2. UpToDate(t)'
    BY <1>3, IdleJob, Fresh
  <2> QED BY <1>1, <1>3, <1>5, <2>1, <2>2, InsideExact
<1> QED BY <1>7, <1>8

\* The order's row is taken when the status allows it.
LEMMA LockOrderKeeps ==
    ASSUME TxInv, NEW t \in Proc, LockOrder(t)
    PROVE  TxInv' /\ (Exact => Exact')
<1> USE RowsApart
<1>1. PICK o \in Order : o = job[t].order
  BY TxConstants DEF TxInv, TypeOK, LockOrder
<1>2. (\A r \in Row : owner[r] # t) /\ job[t].served = {}
  BY HasNothing DEF TxInv, Session, LockOrder
<1>3. PICK vs : vs = Set(Ord(o), new[Ord(o)])
  OBVIOUS
<1>4. DOMAIN vs = {Ord(o)} /\ vs[Ord(o)] = new[Ord(o)] /\ Fits(vs)
  BY <1>3 DEF Set, Fits, TxInv, TypeOK, Typed
<1>5. /\ Write(t, vs) /\ gone' = gone /\ job[t].op \in {"submit", "ship", "cancel"}
      /\ job[t].op = "ship" => db[Ord(o)].fulfil = "allocated"
  BY <1>1, <1>3 DEF LockOrder
<1>6. Moves(t, job[t].op, o, "locked", job[t].seen, job[t].todo, {})
  BY <1>1, <1>2, JobGoes DEF LockOrder, Goto, TxInv, TypeOK, Places
<1>7. /\ db' = db /\ owner'[Ord(o)] = t /\ \A r \in Row \ {Ord(o)} : owner'[r] # t
  BY <1>2, <1>4, <1>5, WriteEffect
<1>8. Session(t)'
  <2>1. Locks(t)'
    BY <1>5, <1>6, <1>7 DEF Moves, Locks, Allocates, Resolves, Lowers, At, Uses
  <2>2. Reserved(t)' /\ Lowered(t)' /\ Served(t)'
    BY <1>5, <1>6, <1>7 DEF Moves, Reserved, Lowered, Served, Allocates, Resolves, At
  <2> QED BY <1>7, <2>1, <2>2 DEF Session
<1>9. TxInv'
  BY <1>1, <1>4, <1>5, <1>6, <1>8, Writes
<1>10. Exact => Exact'
  <2>1. Spares(t) /\ owner'[Prod] # t
    BY <1>4, <1>5, <1>7, WriteSpares
  <2>2. new'[Ord(o)] = OrderOf(o)
    BY <1>2, <1>4, <1>5, WriteEffect DEF OrderOf, TxInv, Free
  <2>3. /\ job[t].op = "submit" => db[Ord(o)].status = "draft"
        /\ job[t].op = "ship" => db[Ord(o)].status = "approved"
        /\ job[t].op = "cancel" => db[Ord(o)].fulfil # "shipped"
    BY <1>1 DEF LockOrder
  <2>4. UpToDate(t)'
    BY <1>5, <1>6, <1>7, <2>1, <2>2, <2>3 DEF Moves, UpToDate, Uses, At, Allocates, OrderOf
  <2> QED BY <1>5, <1>6, <1>7, <2>1, <2>4, InsideExact DEF Moves
<1> QED BY <1>9, <1>10

\* A loop query sees what its order holds.
LEMMA OpenCursorKeeps ==
    ASSUME TxInv, NEW t \in Proc, OpenCursor(t)
    PROVE  TxInv' /\ (Exact => Exact')
<1> USE RowsApart
<1>0. PICK o \in Order : o = job[t].order
  BY DEF TxInv, TypeOK, OpenCursor
<1>a. /\ job[t].op \in {"ship", "cancel"} /\ job[t].at = "locked"
      /\ UNCHANGED <<db, new, owner, gone>>
  BY DEF OpenCursor
<1>b. job[t].served = {}
  BY <1>a, JobFields DEF TxInv, TypeOK, Session, Locks, At
<1>c. owner[Res(o)] # t
  BY <1>a, <1>b DEF TxInv, Session, Locks, Allocates, At
<1>1. /\ job[t].op \in {"ship", "cancel"} /\ job[t].at = "locked"
      /\ UNCHANGED <<db, new, owner, gone>>
      /\ Sees(t, Res(o)) = db[Res(o)] /\ db[Res(o)] \in Nat
  BY <1>a, <1>c DEF Sees, TxInv, TypeOK, Typed
<1>2. Moves(t, job[t].op, o, "cursor", db[Res(o)], job[t].todo, job[t].served)
  BY <1>0, <1>1, JobLooks DEF OpenCursor, TxInv, TypeOK, Places
<1>4. Session(t)'
  <2>1. Locks(t)'
    BY <1>0, <1>1, <1>2, <1>b DEF Moves, TxInv, Session, Locks, Allocates, Resolves, Lowers, At, Uses
  <2>2. Reserved(t)' /\ Lowered(t)' /\ Served(t)'
    BY <1>0, <1>1, <1>2, <1>b DEF Moves, TxInv, Session, Reserved, Lowered, Served, Allocates, Resolves, At
  <2>3. owner'[Prod] # t
    BY <1>1 DEF TxInv, Session, Locks, Allocates, Resolves, Lowers, At
  <2> QED BY <2>1, <2>2, <2>3 DEF Session
<1>5. TxInv'
  BY <1>1, <1>2, <1>4, Waits DEF TxInv, TypeOK
<1>6. Exact => Exact'
  <2> SUFFICES ASSUME Exact PROVE Exact'
    OBVIOUS
  <2>1. Spares(t) /\ owner[Prod] # t
    BY <1>1 DEF Spares, TxInv, Session, Locks, Allocates, Resolves, Lowers, At
  <2>2. UpToDate(t)'
    <3>1. Uses(t, o) /\ UpToDate(t)
      BY <1>0, <1>1 DEF Uses, Exact
    <3>2. Uses(t, o)' /\ ~Allocates(t)' /\ ~At(t, "ship", "updated")' /\ ~At(t, "cancel", "rows")'
          /\ ~At(t, "delete", "checked")' /\ job'[t].order = o /\ job'[t].op = job[t].op /\ job'[t].seen = db[Res(o)]
      BY <1>1, <1>2 DEF Moves, Uses, At, Allocates
    <3> QED BY <1>0, <1>1, <2>1, <3>1, <3>2 DEF UpToDate, OrderOf, HeldBy
  <2> QED BY <1>1, <1>2, <2>1, <2>2, InsideExact DEF Moves
<1> QED BY <1>5, <1>6

\* A session that has not reserved, served or released anything would leave what is held.
LEMMA LeavesHeld ==
    ASSUME TypeOK, NEW t \in Proc, ~Lowers(t), \A o \in Order : owner[Res(o)] # t
    PROVE  LeftBy(t) = Held
<1>1. \A o \in Order : Left(t, o) = HeldBy(o)
  BY DEF Left
<1> QED BY <1>1 DEF LeftBy, Held

\* What t leaves changes in one order.
LEMMA LeavesAt ==
    ASSUME TypeOK, TypeOK', NEW t \in Proc, NEW o \in Order,
           \A p \in Order \ {o} : Left(t, p)' = Left(t, p)
    PROVE  /\ LeftBy(t)' = LeftBy(t) - Left(t, o) + Left(t, o)'
           /\ LeftBy(t) \in Nat /\ LeftBy(t)' \in Nat /\ Left(t, o) <= LeftBy(t)
           /\ Left(t, o) \in Nat /\ Left(t, o)' \in Nat
<1>1. PICK f, h : f = [p \in Order |-> Left(t, p)] /\ h = [p \in Order |-> Left(t, p)']
  OBVIOUS
<1>2. \A p \in Order : Left(t, p) \in Nat /\ Left(t, p)' \in Nat
  BY DEF TypeOK, Typed, Left, HeldBy
<1>3. f \in [Order -> Nat] /\ h \in [Order -> Nat] /\ LeftBy(t) = Total(f) /\ LeftBy(t)' = Total(h)
  BY <1>1, <1>2 DEF LeftBy
<1>4. \A p \in Order \ {o} : h[p] = f[p]
  BY <1>1
<1>5. f[o] = Left(t, o) /\ h[o] = Left(t, o)'
  BY <1>1
<1> QED BY <1>2, <1>3, <1>4, <1>5, TotalPut, TxConstants

\* A row that is free holds what is committed.
LEMMA FreeIsCommitted ==
    ASSUME TxInv, NEW t \in Proc, NEW r \in Row, owner[r] \in {NoProc, t}, owner[r] # t
    PROVE  new[r] = db[r]
  BY DEF TxInv, Free

\* A submission reserves no more than is free.
LEMMA SubmitAllocateKeeps ==
    ASSUME TxInv, NEW t \in Proc, SubmitAllocate(t)
    PROVE  TxInv' /\ (Exact => Exact')
<1> USE RowsApart
<1>1. PICK o \in Order : o = job[t].order
  BY DEF TxInv, TypeOK, SubmitAllocate, At
<1>2. PICK give : give = Least(Clip(new[Prod].onHand, new[Prod].reserved), Quantity[o])
  OBVIOUS
<1>3. PICK vs : vs = [r \in {Prod, Ord(o), Res(o), Sho(o)} |->
                        CASE r = Prod   -> [new[Prod] EXCEPT !.reserved = @ + give]
                          [] r = Ord(o) -> new[Ord(o)]
                          [] r = Res(o) -> give
                          [] r = Sho(o) -> Quantity[o] - give]
  OBVIOUS
<1>4. /\ At(t, "submit", "locked") \/ At(t, "send", "start")
      /\ Write(t, vs) /\ gone' = gone /\ job' = [job EXCEPT ![t].at = "allocated"]
  BY <1>1, <1>2, <1>3 DEF SubmitAllocate, Goto
<1>5. /\ Quantity[o] \in Nat /\ new[Prod].onHand \in Nat /\ new[Prod].reserved \in Nat
      /\ new[Prod] = [onHand |-> new[Prod].onHand, reserved |-> new[Prod].reserved]
      /\ new[Ord(o)] \in OrderRows
  BY TxConstants DEF TxInv, TypeOK, Typed
<1>6. /\ give \in Nat /\ give <= Quantity[o]
      /\ give > 0 => new[Prod].reserved + give <= new[Prod].onHand
  BY <1>2, <1>5 DEF Least, Clip
<1>7. /\ DOMAIN vs = {Prod, Ord(o), Res(o), Sho(o)}
      /\ vs[Prod] = [onHand |-> new[Prod].onHand, reserved |-> new[Prod].reserved + give]
      /\ vs[Ord(o)] = new[Ord(o)] /\ vs[Res(o)] = give /\ vs[Sho(o)] = Quantity[o] - give
  BY <1>3, <1>5
<1>8. Fits(vs)
  BY <1>5, <1>6, <1>7 DEF Fits
<1>9. job[t].served = {}
  BY <1>4, JobFields DEF TxInv, TypeOK, Session, Locks, At
<1>10. owner[Prod] # t /\ \A p \in Order : owner[Res(p)] # t /\ owner[Sho(p)] # t
  BY <1>4, <1>9 DEF TxInv, Session, Locks, Allocates, Resolves, Lowers, At
<1>11. Moves(t, job[t].op, o, "allocated", job[t].seen, job[t].todo, {})
  BY <1>1, <1>4, <1>9, JobGoes DEF TxInv, TypeOK, Places
<1>12. /\ db' = db
       /\ \A r \in DOMAIN vs : owner[r] \in {NoProc, t} /\ owner'[r] = t /\ new'[r] = vs[r]
       /\ \A r \in Row : r \notin DOMAIN vs => owner'[r] = owner[r] /\ new'[r] = new[r]
  BY <1>4, <1>8, WriteEffect DEF Fits
<1>13. new[Prod] = db[Prod]
  BY <1>7, <1>10, <1>12, FreeIsCommitted
<1>14. Locks(t)'
  <2>1. owner'[Prod] = t /\ Allocates(t)'
    BY <1>4, <1>7, <1>11, <1>12 DEF Allocates, Moves, At
  <2>2. ~Resolves(t)' /\ ~Lowers(t)' /\ job'[t].order = o /\ job'[t].served = {}
        /\ ~At(t, "cancel", "rows")'
    BY <1>4, <1>11 DEF Moves, At, Resolves, Lowers
  <2>3. \A p \in Order : Uses(t, p)' <=> p = o
    BY <1>4, <1>11 DEF Moves, At, Uses
  <2>4. \A p \in Order : owner[Ord(p)] = t => p = o
    BY <1>1, <1>9 DEF TxInv, Session, Locks, Uses
  <2> QED BY <1>7, <1>10, <1>12, <2>1, <2>2, <2>3, <2>4 DEF Locks
<1>15. Reserved(t)'
  BY <1>5, <1>6, <1>7, <1>11, <1>12, <1>13 DEF Reserved, Moves
<1>16. Lowered(t)' /\ Served(t)'
  BY <1>4, <1>11 DEF Lowered, Served, Moves, At, Resolves
<1>17. LeftBy(t)' <= new'[Prod].reserved
  <2> USE DEF TxInv
  <2>1. TypeOK'
    BY <1>4, <1>8, <1>11, WriteTyped DEF TypeOK, Moves
  <2>2. ~Lowers(t) /\ ~Lowers(t)'
    BY <1>4, <1>11 DEF Lowers, Moves, At
  <2>3. \A p \in Order \ {o} : Left(t, p)' = Left(t, p)
    BY <1>7, <1>10, <1>12, <2>2 DEF Left, HeldBy
  <2>4. Left(t, o)' = give
    BY <1>7, <1>12 DEF Left
  <2>5. LeftBy(t) = Held
    BY <1>10, <2>2, LeavesHeld
  <2>6. Held <= new[Prod].reserved
    BY <1>13 DEF CounterCovers
  <2>7. new'[Prod].reserved = new[Prod].reserved + give
    BY <1>7, <1>12
  <2>8. /\ LeftBy(t)' = LeftBy(t) - Left(t, o) + Left(t, o)'
        /\ LeftBy(t) \in Nat /\ LeftBy(t)' \in Nat /\ Left(t, o) \in Nat
    BY <2>1, <2>3, LeavesAt
  <2> QED BY <1>5, <1>6, <2>4, <2>5, <2>6, <2>7, <2>8
<1>18. Session(t)'
  BY <1>14, <1>15, <1>16, <1>17 DEF Session
<1>19. TxInv'
  BY <1>1, <1>4, <1>8, <1>11, <1>18, Writes
<1>20. Exact => Exact'
  <2> SUFFICES ASSUME Exact PROVE Exact'
    OBVIOUS
  <2>1. Spares(t)
    BY <1>4, <1>8, WriteSpares
  <2>2. /\ new[Ord(o)] = db[Ord(o)]
        /\ job[t].op = "submit" => db[Ord(o)].status = "draft"
        /\ job[t].op = "send" => db[Ord(o)].status = "none"
    <3>1. CASE At(t, "submit", "locked")
      BY <1>1, <3>1 DEF Exact, UpToDate, Uses, At, OrderOf
    <3>2. CASE At(t, "send", "start")
      <4>1. new[Ord(o)].status = "none"
        BY <1>1, <3>2 DEF SubmitAllocate, At
      <4>2. \A r \in Row : owner[r] # t
        BY <3>2, HasNothing DEF TxInv, Session, At
      <4> QED BY <1>7, <1>12, <3>2, <4>1, <4>2, FreeIsCommitted DEF At
    <3> QED BY <1>4, <3>1, <3>2
  <2>3. HeldBy(o) = 0
    <3>1. ~Live(o)
      BY <1>4, <2>2 DEF Live, OrderOf, At
    <3>2. HeldBy(o) + db[Sho(o)] = 0
      BY <3>1 DEF Exact, LinesAccounted
    <3>3. HeldBy(o) \in Nat /\ db[Sho(o)] \in Nat
      BY DEF HeldBy, TxInv, TypeOK, Typed
    <3> QED BY <3>2, <3>3
  <2>4. UpToDate(t)'
    <3>1. new'[Ord(o)] = new[Ord(o)] /\ new'[Prod].onHand = db[Prod].onHand
      BY <1>7, <1>12, <1>13
    <3>2. /\ job'[t].order = o /\ job'[t].op = job[t].op /\ job'[t].at = "allocated"
          /\ job[t].op \in {"submit", "send"}
      BY <1>4, <1>11 DEF Moves, At
    <3> QED BY <1>12, <2>2, <3>1, <3>2 DEF UpToDate, Uses, At, OrderOf
  <2>5. LeftBy(t)' = new'[Prod].reserved
    <3>1. TypeOK'
      BY <1>19 DEF TxInv
    <3>2. ~Lowers(t) /\ ~Lowers(t)'
      BY <1>4, <1>11 DEF Lowers, Moves, At
    <3>3. \A p \in Order \ {o} : Left(t, p)' = Left(t, p)
      BY <1>7, <1>10, <1>12, <3>2 DEF Left, HeldBy
    <3>4. Left(t, o)' = give /\ Left(t, o) = 0
      BY <1>7, <1>10, <1>12, <2>3, <3>2 DEF Left
    <3>5. LeftBy(t) = new[Prod].reserved
      BY <1>10, <1>13, <3>2, LeavesHeld DEF TxInv, Exact, ReservedIsSum
    <3>6. LeftBy(t)' = LeftBy(t) - Left(t, o) + Left(t, o)'
      BY <3>1, <3>3, LeavesAt DEF TxInv
    <3>7. new'[Prod].reserved = new[Prod].reserved + give
      BY <1>7, <1>12
    <3> QED BY <1>5, <1>6, <3>4, <3>5, <3>6, <3>7
  <2> QED BY <1>4, <1>11, <1>12, <2>1, <2>4, <2>5, InsideExact DEF Moves
<1> QED BY <1>19, <1>20

\* The counter goes down by what t has seen, if that is anything.
Lowering(t, onHand) ==
    \/ /\ job[t].seen > 0
       /\ Write(t, Set(Prod, [onHand |-> onHand, reserved |-> Clip(new[Prod].reserved, job[t].seen)]))
    \/ job[t].seen = 0 /\ UNCHANGED <<db, new, owner>>

\* A shipment and a cancellation lower the counter by what they have seen, which is
\* no more than their order holds.
LEMMA LowerKeeps ==
    ASSUME TxInv, NEW t \in Proc, NEW onHand \in Nat, NEW place,
           \/ At(t, "ship", "cursor") /\ place = "updated"
           \/ At(t, "cancel", "cursor") /\ place = "released",
           gone' = gone, Goto(t, place), Lowering(t, onHand),
           onHand = IF place = "updated" THEN Clip(new[Prod].onHand, Quantity[job[t].order])
                    ELSE new[Prod].onHand
    PROVE  TxInv' /\ (Exact => Exact')
<1> USE RowsApart
<1>1. PICK o \in Order : o = job[t].order
  BY DEF TxInv, TypeOK, At
<1>2. job[t].served = {} /\ job[t].seen \in Nat
  BY JobFields DEF TxInv, TypeOK, Session, Locks, At
<1>3. Moves(t, job[t].op, o, place, job[t].seen, job[t].todo, {})
  BY <1>1, <1>2, JobGoes DEF TxInv, TypeOK, Places, Goto
<1>4. owner[Prod] # t /\ owner[Ord(o)] = t /\ \A p \in Order : owner[Res(p)] # t /\ owner[Sho(p)] # t
  BY <1>1, <1>2 DEF TxInv, Session, Locks, Allocates, Resolves, Lowers, At, Uses
<1>5. /\ ~Allocates(t)' /\ ~Resolves(t)' /\ Lowers(t)' /\ job'[t].seen = job[t].seen
      /\ job'[t].order = o /\ job'[t].served = {} /\ ~At(t, "cancel", "rows")'
      /\ ~At(t, "ship", "cursor")' /\ ~At(t, "cancel", "cursor")' /\ ~Lowers(t)
      /\ \A p \in Order : Uses(t, p)' <=> p = o
  BY <1>3 DEF Moves, Allocates, Resolves, Lowers, At, Uses
<1>6. ASSUME owner'[Prod] = t <=> job[t].seen > 0, db' = db,
             \A r \in Row \ {Prod} : owner'[r] = owner[r] /\ new'[r] = new[r],
             owner'[Prod] = t => LeftBy(t)' <= new'[Prod].reserved
      PROVE  Session(t)'
  <2>1. \A p \in Order : owner[Ord(p)] = t => p = o
    BY <1>1, <1>2 DEF TxInv, Session, Locks, Uses
  <2>2. Locks(t)'
    BY <1>4, <1>5, <1>6, <2>1 DEF Locks
  <2>3. Reserved(t)' /\ Served(t)'
    BY <1>5 DEF Reserved, Served
  <2>4. Lowered(t)'
    BY <1>1, <1>3, <1>5, <1>6 DEF Lowered, Moves, TxInv, Session, At
  <2> QED BY <1>6, <2>2, <2>3, <2>4 DEF Session
<1>9. ASSUME owner'[Prod] = t <=> job[t].seen > 0, db' = db,
             \A r \in Row \ {Prod} : owner'[r] = owner[r] /\ new'[r] = new[r], Spares(t),
             owner'[Prod] = t => new'[Prod].onHand = onHand /\ new[Prod] = db[Prod],
             owner'[Prod] = t => LeftBy(t)' = new'[Prod].reserved, Exact
      PROVE  Exact'
  <2>1. Uses(t, o) /\ Uses(t, o)' /\ UpToDate(t)
    BY <1>1, <1>5, <1>9 DEF Uses, At, Exact
  <2>2. new'[Ord(o)] = OrderOf(o)' /\ job'[t].seen = HeldBy(o)'
    BY <1>1, <1>5, <1>9, <2>1 DEF UpToDate, OrderOf, HeldBy
  <2>3. CASE place = "updated"
    <3>1. job[t].op = "ship" /\ job[t].at = "cursor" /\ job'[t].op = "ship" /\ job'[t].at = "updated"
      BY <1>3, <2>3 DEF Moves, At
    <3>2. owner'[Prod] = t
      BY <1>9, <3>1, ShipHasProduct
    <3>3. UpToDate(t)'
      BY <1>1, <1>5, <1>9, <2>1, <2>2, <3>1, <3>2 DEF UpToDate, At, Allocates, OrderOf
    <3> QED BY <1>3, <1>9, <3>3, InsideExact DEF Moves
  <2>4. CASE place = "released"
    <3>1. job[t].op = "cancel" /\ job[t].at = "cursor" /\ job'[t].op = "cancel" /\ job'[t].at = "released"
      BY <1>3, <2>4 DEF Moves, At
    <3>2. UpToDate(t)'
      BY <1>1, <1>5, <1>9, <2>1, <2>2, <3>1 DEF UpToDate, At, Allocates, OrderOf
    <3> QED BY <1>3, <1>9, <3>2, InsideExact DEF Moves
  <2> QED BY <2>3, <2>4
<1>7. CASE job[t].seen > 0 
            /\ Write(t, Set(Prod, [onHand |-> onHand, reserved |-> Clip(new[Prod].reserved, job[t].seen)]))
  <2>1. PICK vs : vs = Set(Prod, [onHand |-> onHand, reserved |-> Clip(new[Prod].reserved, job[t].seen)])
    OBVIOUS
  <2>2. /\ DOMAIN vs = {Prod} /\ new[Prod].reserved \in Nat
        /\ vs[Prod] = [onHand |-> onHand, reserved |-> Clip(new[Prod].reserved, job[t].seen)]
    BY <2>1 DEF Set, TxInv, TypeOK, Typed
  <2>3. Fits(vs) /\ Write(t, vs)
    BY <1>2, <1>7, <2>1, <2>2 DEF Fits, Clip
  <2>4. /\ db' = db /\ owner[Prod] = NoProc /\ owner'[Prod] = t /\ new'[Prod] = vs[Prod]
        /\ \A r \in Row \ {Prod} : owner'[r] = owner[r] /\ new'[r] = new[r]
    BY <1>4, <2>2, <2>3, WriteEffect
  <2>5. LeftBy(t)' <= new'[Prod].reserved
    <3>1. TypeOK'
      BY <1>3, <2>3, WriteTyped DEF TypeOK, TxInv, Moves
    <3>2. \A p \in Order \ {o} : Left(t, p)' = Left(t, p)
      BY <1>4, <1>5, <2>4 DEF Left, HeldBy
    <3>3. Left(t, o)' = 0 /\ Left(t, o) = HeldBy(o)
      BY <1>1, <1>4, <1>5, <2>4 DEF Left, HeldBy
    <3>4. /\ LeftBy(t)' = LeftBy(t) - Left(t, o) + Left(t, o)'
          /\ LeftBy(t) \in Nat /\ LeftBy(t)' \in Nat /\ Left(t, o) <= LeftBy(t) /\ Left(t, o) \in Nat
      BY <3>1, <3>2, LeavesAt DEF TxInv
    <3>5. LeftBy(t) = Held
      BY <1>4, <1>5, LeavesHeld DEF TxInv
    <3>6. Held <= new[Prod].reserved
      BY <2>4, FreeIsCommitted, <1>4 DEF CounterCovers, TxInv
    <3>7. job[t].seen <= HeldBy(o)
      BY <1>1 DEF TxInv, Session, Lowered, HeldBy
    <3>8. new'[Prod].reserved = Clip(new[Prod].reserved, job[t].seen)
      BY <2>2, <2>4
    <3> QED BY <1>2, <2>2, <3>3, <3>4, <3>5, <3>6, <3>7, <3>8 DEF Clip
  <2>6. Session(t)'
    BY <1>6, <1>7, <2>4, <2>5
  <2>7. Exact => LeftBy(t)' = new'[Prod].reserved /\ Spares(t)
    <3> SUFFICES ASSUME Exact PROVE LeftBy(t)' = new'[Prod].reserved /\ Spares(t)
      OBVIOUS
    <3>1. TypeOK'
      BY <1>3, <2>3, WriteTyped DEF TypeOK, TxInv, Moves
    <3>2. \A p \in Order \ {o} : Left(t, p)' = Left(t, p)
      BY <1>4, <1>5, <2>4 DEF Left, HeldBy
    <3>3. Left(t, o)' = 0 /\ Left(t, o) = HeldBy(o)
      BY <1>1, <1>4, <1>5, <2>4 DEF Left, HeldBy
    <3>4. /\ LeftBy(t)' = LeftBy(t) - Left(t, o) + Left(t, o)'
          /\ LeftBy(t) \in Nat /\ Left(t, o) <= LeftBy(t) /\ Left(t, o) \in Nat
      BY <3>1, <3>2, LeavesAt DEF TxInv
    <3>5. LeftBy(t) = new[Prod].reserved
      BY <1>4, <1>5, <2>4, LeavesHeld, FreeIsCommitted DEF TxInv, Exact, ReservedIsSum
    <3>6. job[t].seen = HeldBy(o)
      BY <1>1 DEF Exact, UpToDate
    <3>7. new'[Prod].reserved = Clip(new[Prod].reserved, job[t].seen)
      BY <2>2, <2>4
    <3>8. LeftBy(t)' = new'[Prod].reserved
      BY <3>3, <3>4, <3>5, <3>6, <3>7 DEF Clip
    <3> QED BY <2>3, <3>8, WriteSpares
  <2>8. new[Prod] = db[Prod] /\ new'[Prod].onHand = onHand
    BY <1>4, <2>2, <2>4, FreeIsCommitted
  <2>9. Exact => Exact'
    BY <1>7, <1>9, <2>4, <2>7, <2>8
  <2> QED BY <1>1, <1>3, <2>3, <2>6, <2>9, Writes
<1>8. CASE job[t].seen = 0 /\ UNCHANGED <<db, new, owner>>
  <2>1. Session(t)'
    BY <1>4, <1>6, <1>8
  <2>2. Spares(t)
    BY <1>8 DEF Spares
  <2>3. Exact => Exact'
    BY <1>4, <1>8, <1>9, <2>2
  <2> QED BY <1>1, <1>3, <1>8, <2>1, <2>3, Waits
<1> QED BY <1>7, <1>8 DEF Lowering

\* A shipment lowers the counter by what its loop query saw.
LEMMA ShipProductKeeps ==
    ASSUME TxInv, NEW t \in Proc, ShipProduct(t)
    PROVE  TxInv' /\ (Exact => Exact')
<1>1. job[t].order \in Order
  BY DEF TxInv, TypeOK, ShipProduct, At
<1>2. Clip(new[Prod].onHand, Quantity[job[t].order]) \in Nat
  BY <1>1, TxConstants DEF TxInv, TypeOK, Typed, Clip
<1>4. /\ At(t, "ship", "cursor") /\ gone' = gone /\ Goto(t, "updated")
      /\ Lowering(t, Clip(new[Prod].onHand, Quantity[job[t].order]))
  BY DEF ShipProduct, Lowering
<1> QED BY <1>2, <1>4, LowerKeeps

\* A cancellation lowers the counter by what its loop query saw.
LEMMA CancelReleaseKeeps ==
    ASSUME TxInv, NEW t \in Proc, CancelRelease(t)
    PROVE  TxInv' /\ (Exact => Exact')
<1>1. /\ new[Prod].onHand \in Nat
      /\ [new[Prod] EXCEPT !.reserved = Clip(@, job[t].seen)]
            = [onHand |-> new[Prod].onHand, reserved |-> Clip(new[Prod].reserved, job[t].seen)]
  <2>1. PICK v \in [onHand : Nat, reserved : Nat] : v = new[Prod]
    BY DEF TxInv, TypeOK, Typed
  <2>2. PICK c : c = Clip(v.reserved, job[t].seen)
    OBVIOUS
  <2> QED BY <2>1, <2>2
<1>2. /\ At(t, "cancel", "cursor") /\ gone' = gone /\ Goto(t, "released")
      /\ Lowering(t, new[Prod].onHand)
  BY <1>1 DEF CancelRelease, Lowering
<1> QED BY <1>1, <1>2, LowerKeeps

\* A cancellation closes the reservation that is open when it gets there.
LEMMA CancelRowsKeeps ==
    ASSUME TxInv, NEW t \in Proc, CancelRows(t)
    PROVE  TxInv' /\ (Exact => Exact')
<1> USE RowsApart
<1>1. PICK o \in Order : o = job[t].order
  BY DEF TxInv, TypeOK, At, CancelRows
<1>2. job[t].served = {} /\ job[t].seen \in Nat /\ job[t].op = "cancel" /\ job[t].at = "released"
  BY JobFields DEF TxInv, TypeOK, Session, Locks, At, CancelRows
<1>3. Moves(t, "cancel", o, "rows", job[t].seen, job[t].todo, {}) /\ gone' = gone
  BY <1>1, <1>2, JobGoes DEF TxInv, TypeOK, Places, Goto, CancelRows
<1>4. /\ owner[Prod] = t <=> job[t].seen > 0
      /\ owner[Ord(o)] = t /\ \A p \in Order : owner[Res(p)] # t /\ owner[Sho(p)] # t
  BY <1>1, <1>2 DEF TxInv, Session, Locks, Allocates, Resolves, Lowers, At, Uses
<1>5. /\ ~Allocates(t)' /\ ~Resolves(t)' /\ Lowers(t)' /\ job'[t].seen = job[t].seen
      /\ job'[t].order = o /\ job'[t].served = {} /\ At(t, "cancel", "rows")'
      /\ ~At(t, "ship", "cursor")' /\ ~At(t, "cancel", "cursor")' /\ Lowers(t)
      /\ \A p \in Order : Uses(t, p)' <=> p = o
  BY <1>2, <1>3 DEF Moves, Allocates, Resolves, Lowers, At, Uses
<1>6. ASSUME db' = db, \A r \in Row \ {Res(o)} : owner'[r] = owner[r] /\ new'[r] = new[r],
             IF owner'[Res(o)] = t THEN new'[Res(o)] = 0 ELSE db[Res(o)] = 0
      PROVE  Session(t)'
  <2>1. \A p \in Order : owner[Ord(p)] = t => p = o
    BY <1>1, <1>2 DEF TxInv, Session, Locks, Uses
  <2>2. Locks(t)'
    BY <1>4, <1>5, <1>6, <2>1 DEF Locks
  <2>3. Reserved(t)' /\ Served(t)'
    BY <1>5 DEF Reserved, Served
  <2>4. Lowered(t)'
    BY <1>1, <1>3, <1>5, <1>6 DEF Lowered, Moves
  <2>5. owner'[Prod] = t => LeftBy(t)' <= new'[Prod].reserved
    <3>1. \A p \in Order : Left(t, p)' = Left(t, p)
      BY <1>1, <1>4, <1>5, <1>6 DEF Left, HeldBy
    <3> QED BY <1>6, <3>1, LeavesSame DEF TxInv, Session
  <2> QED BY <2>2, <2>3, <2>4, <2>5 DEF Session
<1>9. ASSUME db' = db, \A r \in Row \ {Res(o)} : owner'[r] = owner[r] /\ new'[r] = new[r], Spares(t),
             IF owner'[Res(o)] = t THEN Sees(t, Res(o)) > 0 /\ new'[Res(o)] = 0 ELSE db[Res(o)] = 0, Exact
      PROVE  Exact'
  <2>1. Sees(t, Res(o)) = HeldBy(o) /\ HeldBy(o) \in Nat
    BY <1>4 DEF Sees, HeldBy, TxInv, TypeOK, Typed
  <2>2. Uses(t, o) /\ Uses(t, o)' /\ UpToDate(t) /\ At(t, "cancel", "released")
    BY <1>1, <1>2, <1>5, <1>9 DEF Uses, At, Exact
  <2>3. UpToDate(t)'
    <3>1. ~At(t, "ship", "updated")' /\ ~At(t, "cancel", "released")' /\ ~At(t, "delete", "checked")'
          /\ job'[t].op = "cancel"
      BY <1>3 DEF Moves, At
    <3>2. owner'[Prod] = t => new'[Prod].onHand = db'[Prod].onHand
      BY <1>1, <1>2, <1>9, <2>2 DEF UpToDate
    <3>3. new'[Ord(o)] = OrderOf(o)' /\ OrderOf(o)'.fulfil # "shipped"
      BY <1>1, <1>2, <1>9, <2>2 DEF UpToDate, OrderOf
    <3>4. job'[t].seen = HeldBy(o)' /\ (owner'[Res(o)] = t <=> HeldBy(o)' > 0)
      BY <1>1, <1>5, <1>9, <2>1, <2>2 DEF UpToDate, HeldBy
    <3> QED BY <1>5, <2>2, <3>1, <3>2, <3>3, <3>4 DEF UpToDate
  <2>4. owner'[Prod] = t => LeftBy(t)' = new'[Prod].reserved
    <3>1. \A p \in Order : Left(t, p)' = Left(t, p)
      BY <1>1, <1>4, <1>5, <1>9 DEF Left, HeldBy
    <3> QED BY <1>9, <3>1, LeavesSame DEF Exact
  <2> QED BY <1>3, <1>9, <2>3, <2>4, InsideExact DEF Moves
<1>7. CASE Sees(t, Res(o)) > 0 /\ Write(t, Set(Res(o), 0))
  <2>1. PICK vs : vs = Set(Res(o), 0)
    OBVIOUS
  <2>2. DOMAIN vs = {Res(o)} /\ vs[Res(o)] = 0 /\ Fits(vs) /\ Write(t, vs)
    BY <1>7, <2>1 DEF Set, Fits
  <2>3. /\ db' = db /\ owner'[Res(o)] = t /\ new'[Res(o)] = 0
        /\ \A r \in Row \ {Res(o)} : owner'[r] = owner[r] /\ new'[r] = new[r]
    BY <2>2, WriteEffect
  <2>4. Session(t)'
    BY <1>6, <2>3
  <2>5. Spares(t)
    BY <2>2, WriteSpares
  <2>6. Exact => Exact'
    BY <1>7, <1>9, <2>3, <2>5
  <2> QED BY <1>1, <1>3, <2>2, <2>4, <2>6, Writes
<1>8. CASE Sees(t, Res(o)) = 0 /\ UNCHANGED <<db, new, owner>>
  <2>1. db[Res(o)] = 0
    BY <1>4, <1>8 DEF Sees
  <2>2. Session(t)'
    BY <1>4, <1>6, <1>8, <2>1
  <2>3. Spares(t)
    BY <1>8 DEF Spares
  <2>4. Exact => Exact'
    BY <1>4, <1>8, <1>9, <2>1, <2>3
  <2> QED BY <1>1, <1>3, <1>8, <2>2, <2>4, Waits
<1> QED BY <1>1, <1>7, <1>8 DEF CancelRows

\* A resolution: it has the product, no row of an order it has not served, and no
\* rows that a cancellation or a submission would have.
LEMMA Resolving ==
    ASSUME TxInv, NEW t \in Proc, job[t].op = "resolve"
    PROVE  /\ ~Allocates(t) /\ ~Lowers(t) /\ \A o \in Order : ~Uses(t, o)
           /\ owner[Prod] = t <=> Resolves(t)
           /\ \A o \in Order : /\ owner[Ord(o)] = t \/ owner[Res(o)] = t => o \in job[t].served
                               /\ owner[Sho(o)] = t => job[t].at = "query"
           /\ job[t].served \subseteq Order
           /\ \A o \in job[t].served : /\ job[t].at = "query" /\ job[t].todo = {}
                                       /\ owner[Res(o)] = t /\ owner[Sho(o)] = t
<1>1. job[t].served \subseteq Order
  BY JobFields DEF TxInv, TypeOK
<1>2. ~Allocates(t) /\ ~Lowers(t) /\ \A o \in Order : ~Uses(t, o)
  BY DEF Allocates, Lowers, Uses, At
<1>3. Locks(t)
  BY DEF TxInv, Session
<1> QED BY <1>1, <1>2, <1>3 DEF Locks, At

\* Between the commits of others a resolution keeps the counter.
LEMMA ResolvingExact ==
    ASSUME TxInv, Exact, NEW t \in Proc, db' = db, gone' = gone, Spares(t),
           NEW order, NEW at, NEW seen, NEW todo, NEW served,
           Moves(t, "resolve", order, at, seen, todo, served),
           LeftBy(t)' = new'[Prod].reserved
    PROVE  Exact'
<1>1. UpToDate(t)'
  BY Fresh DEF Moves
<1> QED BY <1>1, InsideExact DEF Moves

\* A resolution takes the product.
LEMMA ResolveLockKeeps ==
    ASSUME TxInv, NEW t \in Proc, ResolveLock(t)
    PROVE  TxInv' /\ (Exact => Exact')
<1> USE RowsApart
<1>1. job[t].op = "resolve" /\ job[t].at = "start" /\ gone' = gone
  BY DEF ResolveLock, At
<1>2. (\A r \in Row : owner[r] # t) /\ job[t].served = {}
  BY <1>1, HasNothing DEF TxInv, Session
<1>3. PICK vs : vs = Set(Prod, new[Prod])
  OBVIOUS
<1>4. DOMAIN vs = {Prod} /\ vs[Prod] = new[Prod] /\ Fits(vs) /\ Write(t, vs)
  BY <1>3 DEF Set, Fits, TxInv, TypeOK, Typed, ResolveLock
<1>5. /\ db' = db /\ owner[Prod] = NoProc /\ owner'[Prod] = t /\ new'[Prod] = new[Prod]
      /\ \A r \in Row \ {Prod} : owner'[r] = owner[r] /\ new'[r] = new[r]
  BY <1>2, <1>4, WriteEffect
<1>6. Moves(t, "resolve", job[t].order, "locked", job[t].seen, job[t].todo, {})
  BY <1>1, <1>2, JobGoes DEF TxInv, TypeOK, Places, ResolveLock, Goto
<1>7. /\ ~Allocates(t)' /\ Resolves(t)' /\ ~Lowers(t)' /\ ~Lowers(t) /\ job'[t].served = {}
      /\ \A p \in Order : ~Uses(t, p)'
  BY <1>1, <1>6 DEF Moves, Allocates, Resolves, Lowers, At, Uses
<1>8. new[Prod] = db[Prod]
  BY <1>2, <1>5, FreeIsCommitted
<1>9. Session(t)'
  <2>1. Locks(t)'
    BY <1>2, <1>5, <1>6, <1>7 DEF Locks, Moves, At
  <2>2. Reserved(t)' /\ Lowered(t)'
    BY <1>6, <1>7 DEF Reserved, Lowered, Moves, At
  <2>3. Served(t)'
    BY <1>2, <1>5, <1>7, <1>8 DEF Served
  <2>4. LeftBy(t)' <= new'[Prod].reserved
    <3>1. \A p \in Order : Left(t, p)' = Left(t, p)
      BY <1>2, <1>5, <1>7 DEF Left, HeldBy
    <3>2. LeftBy(t)' = LeftBy(t)
      BY <3>1, LeavesSame
    <3>3. LeftBy(t) = Held
      BY <1>2, <1>7, LeavesHeld DEF TxInv
    <3> QED BY <1>5, <1>8, <3>2, <3>3 DEF TxInv, CounterCovers
  <2> QED BY <2>1, <2>2, <2>3, <2>4 DEF Session
<1>10. TxInv'
  BY <1>1, <1>4, <1>6, <1>9, Writes DEF TxInv, TypeOK
<1>11. Exact => Exact'
  <2> SUFFICES ASSUME Exact PROVE Exact'
    OBVIOUS
  <2>1. \A p \in Order : Left(t, p)' = Left(t, p)
    BY <1>2, <1>5, <1>7 DEF Left, HeldBy
  <2>2. LeftBy(t)' = LeftBy(t)
    BY <2>1, LeavesSame
  <2>3. LeftBy(t) = Held
    BY <1>2, <1>7, LeavesHeld DEF TxInv
  <2>4. LeftBy(t)' = new'[Prod].reserved
    BY <1>5, <1>8, <2>2, <2>3 DEF Exact, ReservedIsSum
  <2>5. Spares(t)
    BY <1>4, WriteSpares
  <2> QED BY <1>1, <1>5, <1>6, <2>4, <2>5, ResolvingExact
<1> QED BY <1>10, <1>11

\* A resolution looks for open shortages.
LEMMA ResolveQueryKeeps ==
    ASSUME TxInv, NEW t \in Proc, ResolveQuery(t)
    PROVE  TxInv' /\ (Exact => Exact')
<1> USE RowsApart
<1>1. /\ job[t].op = "resolve" /\ job[t].at = "locked"
      /\ UNCHANGED <<db, new, owner, gone>>
  BY DEF ResolveQuery, At
<1>2. PICK todo \in SUBSET Order : Moves(t, "resolve", job[t].order, "query", job[t].seen, todo, job[t].served)
  <2>1. PICK todo \in SUBSET Order : job' = [job EXCEPT ![t].at = "query", ![t].todo = todo]
    BY DEF ResolveQuery
  <2> QED BY <1>1, <2>1, JobQueries DEF TxInv, TypeOK, Places
<1>3. /\ ~Allocates(t)' /\ Resolves(t)' /\ ~Lowers(t)' /\ ~Lowers(t) /\ Resolves(t)
      /\ \A p \in Order : ~Uses(t, p)'
      /\ job'[t].served = job[t].served
  BY <1>1, <1>2 DEF Moves, Allocates, Resolves, Lowers, At, Uses
<1>4. /\ owner[Prod] = t /\ job[t].served = {}
      /\ \A o \in Order : owner[Ord(o)] # t /\ owner[Res(o)] # t /\ owner[Sho(o)] # t
  BY <1>1, <1>3, Resolving
<1>5. Session(t)'
  <2>1. Locks(t)'
    BY <1>1, <1>2, <1>3, <1>4 DEF Locks, Moves, At
  <2>2. Reserved(t)' /\ Lowered(t)'
    BY <1>2, <1>3 DEF Reserved, Lowered, Moves, At
  <2>3. Served(t)'
    BY <1>1, <1>3, <1>4 DEF Served, TxInv, Session
  <2>4. LeftBy(t)' <= new'[Prod].reserved
    <3>1. \A p \in Order : Left(t, p)' = Left(t, p)
      BY <1>1, <1>3 DEF Left, HeldBy
    <3> QED BY <1>1, <1>4, <3>1, LeavesSame DEF TxInv, Session
  <2> QED BY <2>1, <2>2, <2>3, <2>4 DEF Session
<1>6. TxInv'
  BY <1>1, <1>2, <1>5, Waits DEF TxInv, TypeOK
<1>7. Exact => Exact'
  <2> SUFFICES ASSUME Exact PROVE Exact'
    OBVIOUS
  <2>1. \A p \in Order : Left(t, p)' = Left(t, p)
    BY <1>1, <1>3 DEF Left, HeldBy
  <2>2. LeftBy(t)' = new'[Prod].reserved
    BY <1>1, <1>4, <2>1, LeavesSame DEF Exact
  <2>3. Spares(t)
    BY <1>1 DEF Spares
  <2> QED BY <1>1, <1>2, <2>2, <2>3, ResolvingExact
<1> QED BY <1>6, <1>7

\* A resolution takes a shortage that is still open, and skips one that is not.
LEMMA ResolveLockShortageKeeps ==
    ASSUME TxInv, NEW t \in Proc, NEW o \in Order, ResolveLockShortage(t, o)
    PROVE  TxInv' /\ (Exact => Exact')
<1> USE RowsApart
<1>1. /\ job[t].op = "resolve" /\ job[t].at = "query" /\ o \in job[t].todo /\ gone' = gone
      /\ job[t].todo \subseteq Order
  BY JobFields DEF ResolveLockShortage, At, TxInv, TypeOK
<1>2. Moves(t, "resolve", job[t].order, "query", job[t].seen, job[t].todo \ {o}, job[t].served)
  <2>1. PICK todo \in SUBSET Order : todo = job[t].todo \ {o}
    BY <1>1
  <2>2. job' = [job EXCEPT ![t].todo = todo]
    BY <2>1 DEF ResolveLockShortage
  <2> QED BY <1>1, <2>1, <2>2, JobLists DEF TxInv, TypeOK
<1>3. /\ ~Allocates(t)' /\ Resolves(t)' /\ ~Lowers(t)' /\ ~Lowers(t) /\ Resolves(t)
      /\ \A p \in Order : ~Uses(t, p)'
      /\ job'[t].served = job[t].served /\ job'[t].at = "query"
  BY <1>1, <1>2 DEF Moves, Allocates, Resolves, Lowers, At, Uses
<1>4. /\ owner[Prod] = t /\ job[t].served = {}
      /\ \A p \in Order : owner[Ord(p)] # t /\ owner[Res(p)] # t
  BY <1>1, <1>3, Resolving
<1>5. ASSUME db' = db, \A r \in Row \ {Sho(o)} : owner'[r] = owner[r] /\ new'[r] = new[r],
             owner'[Sho(o)] = t => new'[Sho(o)] = db[Sho(o)] /\ db[Sho(o)] > 0
      PROVE  Session(t)'
  <2>1. Locks(t)'
    BY <1>2, <1>3, <1>4, <1>5 DEF Locks, Moves, At
  <2>2. Reserved(t)' /\ Lowered(t)'
    BY <1>2, <1>3 DEF Reserved, Lowered, Moves, At
  <2>3. Served(t)'
    BY <1>3, <1>4, <1>5 DEF Served, TxInv, Session
  <2>4. LeftBy(t)' <= new'[Prod].reserved
    <3>1. \A p \in Order : Left(t, p)' = Left(t, p)
      BY <1>3, <1>5 DEF Left, HeldBy
    <3> QED BY <1>4, <1>5, <3>1, LeavesSame DEF TxInv, Session
  <2> QED BY <2>1, <2>2, <2>3, <2>4 DEF Session
<1>8. ASSUME db' = db, \A r \in Row \ {Sho(o)} : owner'[r] = owner[r] /\ new'[r] = new[r],
             Spares(t), Exact
      PROVE  Exact'
  <2>1. \A p \in Order : Left(t, p)' = Left(t, p)
    BY <1>3, <1>8 DEF Left, HeldBy
  <2>2. LeftBy(t)' = new'[Prod].reserved
    BY <1>4, <1>8, <2>1, LeavesSame DEF Exact
  <2> QED BY <1>1, <1>2, <1>8, <2>2, ResolvingExact
<1>6. CASE db[Sho(o)] > 0 /\ Write(t, Set(Sho(o), db[Sho(o)]))
  <2>1. PICK vs : vs = Set(Sho(o), db[Sho(o)])
    OBVIOUS
  <2>2. DOMAIN vs = {Sho(o)} /\ vs[Sho(o)] = db[Sho(o)] /\ Fits(vs) /\ Write(t, vs)
    BY <1>6, <2>1 DEF Set, Fits, TxInv, TypeOK, Typed
  <2>3. /\ db' = db /\ owner'[Sho(o)] = t /\ new'[Sho(o)] = db[Sho(o)]
        /\ \A r \in Row \ {Sho(o)} : owner'[r] = owner[r] /\ new'[r] = new[r]
    BY <2>2, WriteEffect
  <2>4. Session(t)'
    BY <1>5, <1>6, <2>3
  <2>5. Exact => Exact'
    BY <1>8, <2>2, <2>3, WriteSpares
  <2> QED BY <1>1, <1>2, <2>2, <2>4, <2>5, Writes DEF TxInv, TypeOK
<1>7. CASE db[Sho(o)] = 0 /\ UNCHANGED <<db, new, owner>>
  <2>1. owner[Sho(o)] # t
    BY <1>3, <1>4, <1>7 DEF TxInv, Session, Served
  <2>2. Session(t)'
    BY <1>5, <1>7, <2>1
  <2>3. Exact => Exact'
    BY <1>7, <1>8 DEF Spares
  <2> QED BY <1>1, <1>2, <1>7, <2>2, <2>3, Waits DEF TxInv, TypeOK
<1> QED BY <1>6, <1>7 DEF ResolveLockShortage

\* What a round gives to its rows.
Round(o, vs, give) ==
    /\ DOMAIN vs = ServeRows(o)
    /\ vs[Prod] = [new[Prod] EXCEPT !.reserved = @ + give]
    /\ vs[Res(o)] = new[Res(o)] + give
    /\ vs[Sho(o)] = new[Sho(o)] - give
    /\ Ord(o) \in ServeRows(o) => vs[Ord(o)] = new[Ord(o)]

LEMMA ServeVersions ==
    ASSUME NEW t \in Proc, NEW o \in Order, ResolveServe(t, o)
    PROVE  LET give == Least(new[Prod].onHand - new[Prod].reserved, new[Sho(o)])
           IN  give > 0 /\ \E vs : Write(t, vs) /\ Round(o, vs, give)
<1> DEFINE give == Least(new[Prod].onHand - new[Prod].reserved, new[Sho(o)])
           vs == [r \in ServeRows(o) |->
                    CASE r = Prod   -> [new[Prod] EXCEPT !.reserved = @ + give]
                      [] r = Res(o) -> new[Res(o)] + give
                      [] r = Sho(o) -> new[Sho(o)] - give
                      [] r = Ord(o) -> new[Ord(o)]]
<1>1. Write(t, vs) /\ give > 0
  BY Zenon DEF ResolveServe
<1> HIDE DEF give
<1>2. Prod \in ServeRows(o) /\ Res(o) \in ServeRows(o) /\ Sho(o) \in ServeRows(o)
  BY DEF ServeRows
<1>3. Round(o, vs, give)
  BY <1>2, RowsApart DEF Round
<1> QED BY <1>1, <1>3 DEF give

\* A resolution serves a shortage of what is free.
LEMMA ResolveServeKeeps ==
    ASSUME TxInv, NEW t \in Proc, NEW o \in Order, ResolveServe(t, o)
    PROVE  TxInv' /\ (Exact => Exact')
<1> USE RowsApart
<1>1. /\ job[t].op = "resolve" /\ job[t].at = "query" /\ o \notin job[t].served /\ gone' = gone
      /\ job[t].todo = {} /\ owner[Sho(o)] = t /\ job[t].served \subseteq Order
  BY JobFields DEF ResolveServe, At, TxInv, TypeOK
<1>2. Moves(t, "resolve", job[t].order, "query", job[t].seen, {}, job[t].served \cup {o})
  <2>1. PICK served \in SUBSET Order : served = job[t].served \cup {o}
    BY <1>1
  <2>2. job' = [job EXCEPT ![t].served = served]
    BY <2>1 DEF ResolveServe
  <2>3. Moves(t, job[t].op, job[t].order, job[t].at, job[t].seen, job[t].todo, served)
    BY <2>2, JobServes DEF TxInv, TypeOK
  <2> QED BY <1>1, <2>1, <2>3
<1>3. /\ ~Allocates(t)' /\ Resolves(t)' /\ ~Lowers(t)' /\ ~Lowers(t) /\ Resolves(t)
      /\ \A p \in Order : ~Uses(t, p)'
      /\ job'[t].served = job[t].served \cup {o} /\ job'[t].at = "query" /\ At(t, "resolve", "query")'
      /\ job'[t].todo = {}
  BY <1>1, <1>2 DEF Moves, Allocates, Resolves, Lowers, At, Uses
<1>4. /\ owner[Prod] = t /\ owner[Ord(o)] # t /\ owner[Res(o)] # t
      /\ \A p \in Order : owner[Ord(p)] = t \/ owner[Res(p)] = t => p \in job[t].served
      /\ \A p \in job[t].served : owner[Res(p)] = t /\ owner[Sho(p)] = t
  BY <1>1, <1>3, Resolving
<1>5. PICK give : give = Least(new[Prod].onHand - new[Prod].reserved, new[Sho(o)])
  OBVIOUS
<1>6. PICK vs : Write(t, vs) /\ Round(o, vs, give)
  BY <1>5, ServeVersions
<1>7. Write(t, vs) /\ give > 0
  BY <1>5, <1>6, ServeVersions
<1>8. /\ new[Prod].onHand \in Nat /\ new[Prod].reserved \in Nat
      /\ new[Prod] = [onHand |-> new[Prod].onHand, reserved |-> new[Prod].reserved]
      /\ new[Res(o)] \in Nat /\ new[Sho(o)] \in Nat
  BY DEF TxInv, TypeOK, Typed
<1>9. /\ give \in Nat /\ give <= new[Sho(o)] /\ new[Prod].reserved + give <= new[Prod].onHand
  BY <1>5, <1>7, <1>8 DEF Least
<1>10. /\ DOMAIN vs = ServeRows(o) /\ Prod \in ServeRows(o) /\ Res(o) \in ServeRows(o)
       /\ Sho(o) \in ServeRows(o) /\ ServeRows(o) \subseteq {Prod, Res(o), Sho(o), Ord(o)}
       /\ vs[Prod] = [onHand |-> new[Prod].onHand, reserved |-> new[Prod].reserved + give]
       /\ vs[Res(o)] = new[Res(o)] + give /\ vs[Sho(o)] = new[Sho(o)] - give
       /\ Ord(o) \in ServeRows(o) => vs[Ord(o)] = new[Ord(o)]
       /\ new[Ord(o)] \in OrderRows
  BY <1>6, <1>8 DEF Round, ServeRows, TxInv, TypeOK, Typed
<1>11. Fits(vs)
  BY <1>8, <1>9, <1>10 DEF Fits
<1>12. /\ db' = db
       /\ \A r \in DOMAIN vs : owner[r] \in {NoProc, t} /\ owner'[r] = t /\ new'[r] = vs[r]
       /\ \A r \in Row : r \notin DOMAIN vs => owner'[r] = owner[r] /\ new'[r] = new[r]
  BY <1>7, <1>11, WriteEffect DEF Fits
<1>13. /\ new[Res(o)] = db[Res(o)] /\ new[Sho(o)] = db[Sho(o)]
       /\ owner'[Ord(o)] = t => new'[Ord(o)] = db'[Ord(o)]
  <2>1. new[Res(o)] = db[Res(o)]
    BY <1>4, <1>10, <1>12, FreeIsCommitted
  <2>2. Ord(o) \in ServeRows(o) => new[Ord(o)] = db[Ord(o)]
    BY <1>4, <1>10, <1>12, FreeIsCommitted
  <2> QED BY <1>1, <1>3, <1>4, <1>10, <1>12, <2>1, <2>2 DEF TxInv, Session, Served
<1>14. Locks(t)'
  BY <1>2, <1>3, <1>4, <1>10, <1>12 DEF Locks, Moves
<1>15. Reserved(t)' /\ Lowered(t)'
  BY <1>2, <1>3 DEF Reserved, Lowered, Moves, At
<1>16. Served(t)'
  <2>1. new[Prod].onHand = db[Prod].onHand /\ new'[Prod] = vs[Prod]
    BY <1>3, <1>10, <1>12 DEF TxInv, Session, Served
  <2>2. new'[Prod].onHand = db'[Prod].onHand /\ new'[Prod].reserved <= db'[Prod].onHand
    BY <1>9, <1>10, <1>12, <2>1
  <2>3. ASSUME NEW p \in job[t].served
        PROVE  /\ new'[Res(p)] + new'[Sho(p)] = db'[Res(p)] + db'[Sho(p)]
               /\ new'[Res(p)] > db'[Res(p)]
               /\ owner'[Ord(p)] = t => new'[Ord(p)] = db'[Ord(p)] \/ Promoted(p)'
    <3>1. p \in Order /\ p # o
      BY <1>1
    <3>2. /\ new'[Res(p)] = new[Res(p)] /\ new'[Sho(p)] = new[Sho(p)] /\ new'[Ord(p)] = new[Ord(p)]
          /\ owner'[Ord(p)] = owner[Ord(p)]
      BY <1>10, <1>12, <3>1
    <3> QED BY <1>12, <3>1, <3>2 DEF TxInv, Session, Served, Promoted
  <2>4. /\ new'[Res(o)] + new'[Sho(o)] = db'[Res(o)] + db'[Sho(o)]
        /\ new'[Res(o)] > db'[Res(o)] /\ (owner'[Ord(o)] = t => new'[Ord(o)] = db'[Ord(o)])
    BY <1>4, <1>7, <1>8, <1>9, <1>10, <1>12, <1>13
  <2>5. ASSUME NEW p \in Order \ job'[t].served, owner'[Sho(p)] = t
        PROVE  new'[Sho(p)] = db'[Sho(p)] /\ db'[Sho(p)] > 0
    <3>1. p \notin job[t].served /\ p # o
      BY <1>3
    <3>2. owner[Sho(p)] = t /\ new'[Sho(p)] = new[Sho(p)]
      BY <1>10, <1>12, <2>5, <3>1
    <3> QED BY <1>3, <1>12, <3>1, <3>2 DEF TxInv, Session, Served
  <2> QED BY <1>3, <2>2, <2>3, <2>4, <2>5 DEF Served
<1>17. LeftBy(t)' <= new'[Prod].reserved
  <2>1. TypeOK'
    BY <1>1, <1>2, <1>7, <1>11, WriteTyped DEF TypeOK, Moves, TxInv
  <2>2. \A p \in Order \ {o} : Left(t, p)' = Left(t, p)
    BY <1>3, <1>10, <1>12 DEF Left, HeldBy
  <2>3. Left(t, o)' = Left(t, o) + give
    BY <1>3, <1>4, <1>10, <1>12, <1>13 DEF Left, HeldBy
  <2>4. /\ LeftBy(t)' = LeftBy(t) - Left(t, o) + Left(t, o)'
        /\ LeftBy(t) \in Nat /\ LeftBy(t)' \in Nat /\ Left(t, o) \in Nat
    BY <2>1, <2>2, LeavesAt DEF TxInv
  <2>5. LeftBy(t) <= new[Prod].reserved
    BY <1>4 DEF TxInv, Session
  <2>6. new'[Prod].reserved = new[Prod].reserved + give
    BY <1>10, <1>12
  <2> QED BY <1>8, <1>9, <2>3, <2>4, <2>5, <2>6
<1>18. Session(t)'
  BY <1>14, <1>15, <1>16, <1>17 DEF Session
<1>19. TxInv'
  BY <1>1, <1>2, <1>7, <1>11, <1>18, Writes DEF TxInv, TypeOK
<1>20. Exact => Exact'
  <2> SUFFICES ASSUME Exact PROVE Exact'
    OBVIOUS
  <2>1. \A p \in Order \ {o} : Left(t, p)' = Left(t, p)
    BY <1>3, <1>10, <1>12 DEF Left, HeldBy
  <2>2. Left(t, o)' = Left(t, o) + give
    BY <1>3, <1>4, <1>10, <1>12, <1>13 DEF Left, HeldBy
  <2>3. /\ LeftBy(t)' = LeftBy(t) - Left(t, o) + Left(t, o)'
        /\ LeftBy(t) \in Nat /\ Left(t, o) \in Nat
    BY <1>19, <2>1, LeavesAt DEF TxInv
  <2>4. LeftBy(t) = new[Prod].reserved
    BY <1>4 DEF Exact
  <2>5. new'[Prod].reserved = new[Prod].reserved + give
    BY <1>10, <1>12
  <2>6. LeftBy(t)' = new'[Prod].reserved
    BY <1>8, <1>9, <2>2, <2>3, <2>4, <2>5
  <2>7. Spares(t)
    BY <1>7, <1>11, WriteSpares
  <2> QED BY <1>1, <1>2, <1>12, <2>6, <2>7, ResolvingExact
<1> QED BY <1>19, <1>20

\* A resolution promotes an order served in full.
LEMMA ResolvePromoteKeeps ==
    ASSUME TxInv, NEW t \in Proc, NEW o \in Order, ResolvePromote(t, o)
    PROVE  TxInv' /\ (Exact => Exact')
<1> USE RowsApart
<1>1. /\ job[t].op = "resolve" /\ job[t].at = "query" /\ o \in job[t].served /\ gone' = gone
      /\ job' = job /\ new[Sho(o)] = 0 /\ db[Ord(o)].fulfil = "partially_allocated"
  <2>1. /\ job[t].op = "resolve" /\ job[t].at = "query" /\ o \in job[t].served /\ gone' = gone
        /\ job' = job /\ new[Sho(o)] = 0 /\ Sees(t, Ord(o)).fulfil = "partially_allocated"
    BY DEF ResolvePromote, At
  <2>2. ASSUME owner[Ord(o)] = t, new[Ord(o)] # db[Ord(o)] PROVE FALSE
    <3>1. new[Ord(o)] = [db[Ord(o)] EXCEPT !.fulfil = "allocated"]
      BY <2>1, <2>2 DEF TxInv, Session, Served, Promoted
    <3>2. PICK v \in OrderRows : v = db[Ord(o)]
      BY DEF TxInv, TypeOK, Typed
    <3>3. [v EXCEPT !.fulfil = "allocated"].fulfil = "allocated"
      BY DEF OrderRows
    <3> QED BY <2>1, <2>2, <3>1, <3>2, <3>3 DEF Sees
  <2> QED BY <2>1, <2>2 DEF Sees
<1>2. Moves(t, "resolve", job[t].order, "query", job[t].seen, job[t].todo, job[t].served)
  BY <1>1 DEF Moves, TxInv, TypeOK
<1>3. /\ ~Allocates(t)' /\ Resolves(t)' /\ ~Lowers(t)' /\ ~Lowers(t) /\ Resolves(t) /\ ~Allocates(t)
      /\ \A p \in Order : ~Uses(t, p)' /\ ~Uses(t, p)
  BY <1>1 DEF Allocates, Resolves, Lowers, At, Uses
<1>4. PICK vs : vs = Set(Ord(o), [db[Ord(o)] EXCEPT !.fulfil = "allocated"])
  OBVIOUS
<1>5. /\ DOMAIN vs = {Ord(o)} /\ vs[Ord(o)] = [db[Ord(o)] EXCEPT !.fulfil = "allocated"] /\ Write(t, vs)
  BY <1>4 DEF Set, ResolvePromote
<1>6. Fits(vs)
  <2>1. PICK v \in OrderRows : v = db[Ord(o)]
    BY DEF TxInv, TypeOK, Typed
  <2>2. [v EXCEPT !.fulfil = "allocated"] \in OrderRows
    BY DEF OrderRows
  <2> QED BY <1>5, <2>1, <2>2 DEF Fits
<1>7. /\ db' = db /\ owner'[Ord(o)] = t /\ new'[Ord(o)] = vs[Ord(o)]
      /\ \A r \in Row \ {Ord(o)} : owner'[r] = owner[r] /\ new'[r] = new[r]
  BY <1>5, WriteEffect
<1>8. Session(t)'
  <2>1. Locks(t)'
    BY <1>1, <1>3, <1>7 DEF Locks, TxInv, Session, At
  <2>2. Reserved(t)' /\ Lowered(t)'
    BY <1>1, <1>3 DEF Reserved, Lowered, At
  <2>3. Served(t)'
    <3>1. new'[Prod] = new[Prod] /\ \A p \in Order : new'[Res(p)] = new[Res(p)] /\ new'[Sho(p)] = new[Sho(p)]
                                                     /\ owner'[Sho(p)] = owner[Sho(p)]
      BY <1>7
    <3>2. \A p \in Order \ {o} : new'[Ord(p)] = new[Ord(p)] /\ owner'[Ord(p)] = owner[Ord(p)]
      BY <1>7
    <3>3. job[t].served \subseteq Order /\ Served(t)
      BY <1>1, Resolving DEF TxInv, Session
    <3> QED BY <1>1, <1>3, <1>5, <1>7, <3>1, <3>2, <3>3 DEF Served, Promoted
  <2>4. LeftBy(t)' <= new'[Prod].reserved
    <3>1. \A p \in Order : Left(t, p)' = Left(t, p)
      BY <1>3, <1>7 DEF Left, HeldBy
    <3>2. owner[Prod] = t
      BY <1>1, <1>3, Resolving
    <3> QED BY <1>7, <3>1, <3>2, LeavesSame DEF TxInv, Session
  <2> QED BY <2>1, <2>2, <2>3, <2>4 DEF Session
<1>9. TxInv'
  BY <1>1, <1>2, <1>5, <1>6, <1>8, Writes DEF TxInv, TypeOK
<1>10. Exact => Exact'
  <2> SUFFICES ASSUME Exact PROVE Exact'
    OBVIOUS
  <2>1. \A p \in Order : Left(t, p)' = Left(t, p)
    BY <1>3, <1>7 DEF Left, HeldBy
  <2>2. owner[Prod] = t
    BY <1>1, <1>3, Resolving
  <2>3. LeftBy(t)' = new'[Prod].reserved
    BY <1>7, <2>1, <2>2, LeavesSame DEF Exact
  <2>4. Spares(t)
    BY <1>5, <1>6, WriteSpares
  <2> QED BY <1>1, <1>2, <1>7, <2>3, <2>4, ResolvingExact
<1> QED BY <1>9, <1>10

-----------------------------------------------------------------------------
(* Operations kept apart: commits.                                         *)

\* A commit of t that leaves what t would leave, and spares what the others
\* work on.
LEMMA CommitExact ==
    ASSUME TxInv, TxInv', Exact, NEW t \in Proc, NEW vs, CommitWith(t, vs), Fits(vs),
           \A o \in Order : HeldBy(o)' = IF owner[Prod] = t THEN Left(t, o) ELSE HeldBy(o),
           IF owner[Prod] = t THEN db'[Prod] = new[Prod] ELSE db'[Prod].reserved = db[Prod].reserved,
           \A u \in Proc \ {t}, o \in Order :
               Uses(u, o) /\ job[u].op \in {"ship", "cancel"} => HeldBy(o)' = HeldBy(o),
           \A u \in Proc \ {t} : At(u, "delete", "checked") =>
               OrderOf(job[u].order)'.status \in {"draft", "cancelled", "deleted"},
           LinesAccounted', \A o \in gone' : OrderOf(o)' = OrderRow("approved", "shipped")
    PROVE  Exact'
<1> USE RowsApart
<1>1. /\ job \in [Proc -> Jobs] /\ DOMAIN vs \subseteq Row /\ NoProc \notin Proc
  BY TxConstants DEF TxInv, TypeOK, Fits
<1>2. /\ \A r \in Row : owner'[r] # t
      /\ job'[t] = Idle /\ \A u \in Proc \ {t} : job'[u] = job[u]
      /\ \A u \in Proc \ {t}, r \in Row : /\ owner'[r] = u <=> owner[r] = u
                                          /\ owner[r] = u => new'[r] = new[r] /\ db'[r] = db[r]
  BY <1>1, CommitEffect
<1>3. ReservedIsSum'
  <2>1. CASE owner[Prod] = t
    <3>1. Held' = LeftBy(t)
      BY <2>1 DEF Held, LeftBy
    <3> QED BY <2>1, <3>1 DEF Exact, ReservedIsSum
  <2>2. CASE owner[Prod] # t
    <3>1. Held' = Held
      BY <2>2 DEF Held
    <3> QED BY <2>2, <3>1 DEF Exact, ReservedIsSum
  <2> QED BY <2>1, <2>2
<1>4. UpToDate(t)'
  BY <1>2, IdleJob, Fresh
<1>5. ASSUME NEW u \in Proc \ {t}
      PROVE  UpToDate(u)' /\ (owner'[Prod] = u => LeftBy(u)' = new'[Prod].reserved)
  <2>1. owner[Prod] = u => \A o \in Order : HeldBy(o)' = HeldBy(o)
    OBVIOUS
  <2> QED BY <1>2, <2>1, FrameExact
<1> QED BY <1>2, <1>3, <1>4, <1>5 DEF Exact

\* A commit of one order.
LEMMA OrderExact ==
    ASSUME TxInv, TxInv', Exact, NEW t \in Proc, NEW vs, CommitWith(t, vs), Fits(vs),
           NEW o \in Order, DOMAIN vs \subseteq {Ord(o), Res(o), Sho(o)}, Ord(o) \in DOMAIN vs,
           \A p \in Order \ {o} : owner[Ord(p)] # t /\ owner[Res(p)] # t /\ owner[Sho(p)] # t,
           ~Lowers(t) \/ job[t].order = o,
           HeldBy(o)' = IF owner[Prod] = t THEN Left(t, o) ELSE HeldBy(o),
           HeldBy(o)' + db'[Sho(o)] = IF Live(o)' THEN Quantity[o] ELSE 0,
           \A u \in Proc \ {t} : At(u, "delete", "checked") /\ job[u].order = o =>
               OrderOf(o)'.status \in {"draft", "cancelled", "deleted"},
           IF o \in gone' THEN OrderOf(o)' = OrderRow("approved", "shipped") ELSE o \notin gone,
           gone' \ {o} = gone \ {o}
    PROVE  /\ Exact'
           /\ \A p \in Order \ {o} : HeldBy(p)' = HeldBy(p)
           /\ owner[Prod] # t => db'[Prod] = db[Prod]
           /\ owner[Prod] = t => db'[Prod] = new[Prod]
<1> USE RowsApart
<1>1. /\ job \in [Proc -> Jobs] /\ DOMAIN vs \subseteq Row /\ NoProc \notin Proc /\ gone' \subseteq Order
  BY TxConstants DEF TxInv, TypeOK, Fits
<1>2. /\ db'[Prod] = IF owner[Prod] = t THEN new[Prod] ELSE db[Prod]
      /\ \A p \in Order \ {o} : db'[Ord(p)] = db[Ord(p)] /\ db'[Res(p)] = db[Res(p)] /\ db'[Sho(p)] = db[Sho(p)]
      /\ owner[Ord(o)] \in {NoProc, t}
  BY <1>1, CommitEffect
<1>3. \A p \in Order \ {o} : HeldBy(p)' = HeldBy(p) /\ OrderOf(p)' = OrderOf(p)
  BY <1>2 DEF HeldBy, OrderOf
<1>4. \A p \in Order : HeldBy(p)' = IF owner[Prod] = t THEN Left(t, p) ELSE HeldBy(p)
  <2>1. ASSUME NEW p \in Order, p # o PROVE Left(t, p) = HeldBy(p)
    BY <2>1 DEF Left
  <2> QED BY <1>3, <2>1
<1>5. ASSUME NEW u \in Proc \ {t}, NEW p \in Order, Uses(u, p) PROVE HeldBy(p)' = HeldBy(p)
  <2>1. owner[Ord(p)] = u
    BY <1>5 DEF TxInv, Session, Locks
  <2> QED BY <1>1, <1>2, <1>3, <2>1
<1>6. ASSUME NEW u \in Proc \ {t}, At(u, "delete", "checked")
      PROVE  OrderOf(job[u].order)'.status \in {"draft", "cancelled", "deleted"}
  <2>1. job[u].order \in Order /\ job'[u].order = job[u].order
    BY <1>1, <1>6, CommitEffect DEF At, TxInv, TypeOK
  <2>2. OrderOf(job[u].order).status \in {"draft", "cancelled", "deleted"}
    BY <1>6 DEF Exact, UpToDate
  <2>3. CASE job[u].order = o
    BY <1>6, <2>1, <2>3
  <2>4. CASE job[u].order # o
    <3>1. PICK p \in Order \ {o} : p = job[u].order
      BY <2>1, <2>4
    <3>2. OrderOf(p)' = OrderOf(p) /\ OrderOf(p).status \in {"draft", "cancelled", "deleted"}
      BY <1>3, <2>2, <3>1
    <3> QED BY <2>1, <3>1, <3>2 DEF OrderOf
  <2> QED BY <2>3, <2>4
<1>7. LinesAccounted'
  <2>1. ASSUME NEW p \in Order
        PROVE  HeldBy(p)' + db'[Sho(p)] = IF Live(p)' THEN Quantity[p] ELSE 0
    <3>1. CASE p # o
      BY <1>2, <1>3, <3>1 DEF Exact, LinesAccounted, Live
    <3> QED BY <3>1
  <2> QED BY <2>1 DEF LinesAccounted
<1>8. \A p \in gone' : OrderOf(p)' = OrderRow("approved", "shipped")
  <2>1. ASSUME NEW p \in gone' PROVE OrderOf(p)' = OrderRow("approved", "shipped")
    <3>1. CASE p = o
      BY <3>1
    <3>2. CASE p # o
      BY <1>1, <1>3, <3>2 DEF Exact
    <3> QED BY <3>1, <3>2
  <2> QED BY <2>1
<1>9. Exact'
  BY <1>2, <1>4, <1>5, <1>6, <1>7, <1>8, CommitExact
<1> QED BY <1>2, <1>3, <1>9

\* A commit that gives an order more than it held leaves the holdings within the stock
\* that was committed.
Careful == (\E o \in Order : HeldBy(o)' > HeldBy(o)) => Held' <= db[Prod].onHand

-----------------------------------------------------------------------------
(* What a commit is to StockPromise.                                       *)
Promised == Promise!Next \/ Promise!vars' = Promise!vars

\* Both modules count the same way.
LEMMA PromiseCounts ==
    Promise!HeldOf(Prod) = Held /\ Promise!HeldOf(Prod)' = Held'
<1>0. \A f : Promise!Total(f) = Total(f)
  BY DEF Promise!Total, Total, Promise!Units, Units, Promise!Cardinality, Cardinality
<1>a. /\ [o \in Order |-> [p \in {Prod} |-> HeldBy(o)][Prod]] = [o \in Order |-> HeldBy(o)]
      /\ [o \in Order |-> [p \in {Prod} |-> HeldBy(o)'][Prod]] = [o \in Order |-> HeldBy(o)']
  OBVIOUS
<1>1. Promise!HeldOf(Prod) = Held
  <2>1. Promise!HeldOf(Prod) = Promise!Total([o \in Order |-> [p \in {Prod} |-> HeldBy(o)][Prod]])
    BY DEF Promise!HeldOf
  <2> QED BY <1>0, <1>a, <2>1 DEF Held
<1>2. Promise!HeldOf(Prod)' = Held'
  <2>1. /\ [o \in Order |-> [q \in Order |-> [p \in {Prod} |-> HeldBy(q)]][o][Prod]]
             = [o \in Order |-> HeldBy(o)]
        /\ [o \in Order |-> [q \in Order |-> [p \in {Prod} |-> HeldBy(q)']][o][Prod]]
             = [o \in Order |-> HeldBy(o)']
    OBVIOUS
  <2>2. Promise!HeldOf(Prod)' = Total([o \in Order |-> [q \in Order |-> [p \in {Prod} |-> HeldBy(q)']][o][Prod]])
    BY DEF Promise!HeldOf, Promise!Total, Total, Promise!Units, Units, Promise!Cardinality, Cardinality
  <2> QED BY <2>1, <2>2 DEF Held
<1> QED BY <1>1, <1>2

\* Nothing that the promise speaks of changes.
LEMMA PromiseSame ==
    ASSUME \A o \in Order : HeldBy(o)' = HeldBy(o), db'[Prod].onHand = db[Prod].onHand, gone' = gone
    PROVE  Promised
  BY DEF Promised, Promise!vars

\* Orders take pieces.
LEMMA PromiseTakes ==
    ASSUME TypeOK, TypeOK', Careful, \A o \in Order : HeldBy(o)' >= HeldBy(o),
           db'[Prod].onHand = db[Prod].onHand, gone' = gone
    PROVE  Promised
<1>1. \A o \in Order : HeldBy(o)' \in Nat
  BY DEF TypeOK, Typed, HeldBy
<1>2. Promise!Take
  BY <1>1, PromiseCounts DEF Promise!Take, Careful
<1> QED BY <1>2 DEF Promised, Promise!Next

\* An order gives all back.
LEMMA PromiseReleases ==
    ASSUME NEW o \in Order, o \notin gone, HeldBy(o)' = 0, \A p \in Order \ {o} : HeldBy(p)' = HeldBy(p),
           db'[Prod].onHand = db[Prod].onHand, gone' = gone
    PROVE  Promised
<1>1. Promise!Release(o)
  BY DEF Promise!Release, Promise!Nothing
<1> QED BY <1>1 DEF Promised, Promise!Next

\* An order leaves with all it holds.
LEMMA PromiseLeaves ==
    ASSUME TypeOK, NEW o \in Order, o \notin gone, HeldBy(o)' = 0,
           \A p \in Order \ {o} : HeldBy(p)' = HeldBy(p),
           db'[Prod].onHand = db[Prod].onHand - HeldBy(o), gone' = gone \cup {o}
    PROVE  Promised
<1>1. db[Prod].onHand \in Nat /\ HeldBy(o) \in Nat
  BY DEF TypeOK, Typed, HeldBy
<1>2. Promise!Leave(o)
  BY <1>1 DEF Promise!Leave, Promise!Nothing
<1> QED BY <1>2 DEF Promised, Promise!Next

\* Stock comes or goes.
LEMMA PromiseRestocks ==
    ASSUME TypeOK', \A o \in Order : HeldBy(o)' = HeldBy(o), gone' = gone, Held <= db'[Prod].onHand
    PROVE  Promised
<1>1. db'[Prod].onHand \in Nat
  BY DEF TypeOK, Typed
<1>2. Promise!Restock(Prod)
  BY <1>1, PromiseCounts DEF Promise!Restock
<1> QED BY <1>2 DEF Promised, Promise!Next

\* A commit that gives no order more.
LEMMA HoldsLess ==
    ASSUME TypeOK, TypeOK', \A o \in Order : HeldBy(o)' <= HeldBy(o)
    PROVE  /\ Careful
           /\ Held' <= Held /\ Held' \in Nat /\ Held \in Nat
<1>1. PICK f, h : f = [p \in Order |-> HeldBy(p)'] /\ h = [p \in Order |-> HeldBy(p)]
  OBVIOUS
<1>2. \A p \in Order : HeldBy(p) \in Nat /\ HeldBy(p)' \in Nat
  BY DEF TypeOK, Typed, HeldBy
<1>3. f \in [Order -> Nat] /\ h \in [Order -> Nat] /\ Held' = Total(f) /\ Held = Total(h)
  BY <1>1, <1>2 DEF Held
<1>4. \A p \in Order : f[p] <= h[p]
  BY <1>1
<1>5. Held' <= Held /\ Held' \in Nat /\ Held \in Nat
  BY <1>3, <1>4, TotalGrows, TxConstants
<1>6. Careful
  BY <1>2 DEF Careful
<1> QED BY <1>5, <1>6

\* A commit of t leaves what t would leave.
LEMMA HoldsLeft ==
    ASSUME TxInv, TypeOK', NEW t \in Proc, owner[Prod] = t, \A o \in Order : HeldBy(o)' = Left(t, o)
    PROVE  Held' <= new[Prod].reserved
<1>1. Held' = LeftBy(t)
  BY DEF Held, LeftBy
<1> QED BY <1>1 DEF TxInv, Session

\* A submission commits: its order holds what was reserved.
LEMMA SubmitCommitKeeps ==
    ASSUME TxInv, NEW t \in Proc, SubmitCommit(t)
    PROVE  TxInv' /\ Careful /\ (Exact /\ Separate => Exact' /\ Promised)
<1> USE RowsApart
<1>1. PICK o \in Order : o = job[t].order
  BY DEF TxInv, TypeOK, SubmitCommit, At
<1>2. PICK row : row = OrderRow("pending_approval", IF new[Sho(o)] > 0 THEN "partially_allocated" ELSE "allocated")
  OBVIOUS
<1>3. PICK vs : vs = Set(Ord(o), row)
  OBVIOUS
<1>4. /\ CommitWith(t, vs) /\ gone' = gone /\ gone \subseteq Order
      /\ job[t].op \in {"submit", "send"} /\ job[t].at = "allocated"
  BY <1>1, <1>2, <1>3 DEF SubmitCommit, TxInv, TypeOK
<1>5. /\ DOMAIN vs = {Ord(o)} /\ vs[Ord(o)] = row /\ Fits(vs)
      /\ row.fulfil = IF new[Sho(o)] > 0 THEN "partially_allocated" ELSE "allocated"
  BY <1>2, <1>3 DEF Set, Fits, OrderRow, OrderRows
<1>6. TypeOK'
  BY <1>4, <1>5, CommitTyped
<1>7. Allocates(t) /\ ~Resolves(t) /\ ~Lowers(t) /\ job[t].served = {}
  BY <1>4, JobFields DEF TxInv, TypeOK, Session, Locks, At, Allocates, Resolves, Lowers
<1>8. /\ owner[Prod] = t /\ owner[Ord(o)] = t
      /\ \A p \in Order : owner[Res(p)] = t <=> p = o
      /\ \A p \in Order : owner[Sho(p)] = t <=> p = o
      /\ \A p \in Order : owner[Ord(p)] = t <=> p = o
  BY <1>1, <1>4, <1>7 DEF TxInv, Session, Locks, Uses, Allocates, At
<1>9. /\ db'[Prod] = new[Prod] /\ db'[Ord(o)] = row /\ db'[Res(o)] = new[Res(o)] /\ db'[Sho(o)] = new[Sho(o)]
      /\ \A p \in Order \ {o} : db'[Ord(p)] = db[Ord(p)] /\ db'[Res(p)] = db[Res(p)] /\ db'[Sho(p)] = db[Sho(p)]
  BY <1>4, <1>5, <1>8, CommitEffect DEF TxInv, TypeOK
<1>10. \A p \in Order : HeldBy(p)' = Left(t, p)
  BY <1>7, <1>8, <1>9 DEF HeldBy, Left
<1>11. Held' <= new[Prod].reserved
  BY <1>6, <1>8, <1>10, HoldsLeft
<1>12. CounterCovers'
  BY <1>6, <1>9, <1>11 DEF CounterCovers, TxInv, TypeOK, Typed
<1>13. /\ new[Res(o)] + new[Sho(o)] = Quantity[o] /\ new[Sho(o)] \in Nat /\ new[Res(o)] \in Nat
       /\ new[Res(o)] > 0 => new[Prod].reserved <= db[Prod].onHand
  BY <1>1, <1>7 DEF TxInv, Session, Reserved, TypeOK, Typed
<1>14. Whole'
  <2>1. ASSUME NEW p \in Order
        PROVE  /\ db'[Ord(p)].fulfil \in {"partially_allocated", "allocated"} => db'[Res(p)] + db'[Sho(p)] = Quantity[p]
               /\ db'[Ord(p)].fulfil = "allocated" => db'[Sho(p)] = 0
    <3>1. CASE p = o
      BY <1>5, <1>9, <1>13, <3>1
    <3>2. CASE p # o
      BY <1>9, <3>2 DEF TxInv, Whole, OrderOf, HeldBy
    <3> QED BY <3>1, <3>2
  <2> QED BY <2>1 DEF Whole, OrderOf, HeldBy
<1>15. ASSUME NEW u \in Proc \ {t}
       PROVE  /\ \A p \in Order : Uses(u, p) => HeldBy(p)' >= HeldBy(p)
              /\ owner[Prod] # u
  <2>1. \A p \in Order : Uses(u, p) => p # o
    BY <1>8 DEF TxInv, Session, Locks
  <2>2. \A p \in Order : HeldBy(p) \in Nat /\ (p # o => HeldBy(p)' = HeldBy(p))
    BY <1>9 DEF HeldBy, TxInv, TypeOK, Typed
  <2> QED BY <1>8, <2>1, <2>2
<1>16. TxInv'
  BY <1>4, <1>5, <1>12, <1>14, <1>15, Commits
<1>17. Careful
  <2>1. SUFFICES ASSUME NEW p \in Order, HeldBy(p)' > HeldBy(p) PROVE Held' <= db[Prod].onHand
    BY DEF Careful
  <2>a. HeldBy(p) \in Nat /\ (p # o => HeldBy(p)' = HeldBy(p)) /\ HeldBy(o)' = new[Res(o)]
    BY <1>9 DEF HeldBy, TxInv, TypeOK, Typed
  <2>2. p = o /\ new[Res(o)] > 0
    BY <1>13, <2>1, <2>a
  <2>3. Held' \in Nat /\ new[Prod].reserved \in Nat /\ db[Prod].onHand \in Nat
    <3>1. \A q \in Order : HeldBy(q)' \in Nat
      BY <1>6 DEF TypeOK, Typed, HeldBy
    <3>2. [q \in Order |-> HeldBy(q)'] \in [Order -> Nat]
      BY <3>1
    <3> QED BY <3>2, UnitsFinite, TxConstants DEF Held, TxInv, TypeOK, Typed
  <2> QED BY <1>11, <1>13, <2>2, <2>3
<1>18. Exact /\ Separate => Exact' /\ Promised
  <2> SUFFICES ASSUME Exact, Separate PROVE Exact' /\ Promised
    OBVIOUS
  <2>1. /\ UpToDate(t) /\ Uses(t, o)
        /\ row.status = "pending_approval" /\ row.fulfil # "shipped"
    BY <1>1, <1>2, <1>4 DEF Exact, Uses, At, OrderRow
  <2>2. /\ job[t].op = "submit" => OrderOf(o).status = "draft"
        /\ job[t].op = "send" => OrderOf(o).status = "none"
    BY <1>1, <2>1 DEF UpToDate
  <2>3. HeldBy(o) = 0 /\ o \notin gone
    <3>1. ~Live(o) /\ o \notin gone
      BY <1>4, <2>2 DEF Live, Exact, OrderRow
    <3>2. HeldBy(o) + db[Sho(o)] = 0 /\ HeldBy(o) \in Nat /\ db[Sho(o)] \in Nat
      BY <3>1 DEF Exact, LinesAccounted, TxInv, TypeOK, Typed, HeldBy
    <3> QED BY <3>1, <3>2
  <2>4. ASSUME NEW u \in Proc \ {t}, At(u, "delete", "checked"), job[u].order = o
        PROVE  FALSE
    <3>1. job[t].op # "submit"
      BY <2>4 DEF Separate, At
    <3>2. OrderOf(o).status \in {"draft", "cancelled", "deleted"}
      BY <2>4 DEF Exact, UpToDate
    <3> QED BY <1>4, <2>2, <3>1, <3>2
  <2>5. HeldBy(o)' + db'[Sho(o)] = IF Live(o)' THEN Quantity[o] ELSE 0
    BY <1>9, <1>13, <2>1 DEF HeldBy, Live, OrderOf
  <2>6. /\ DOMAIN vs \subseteq {Ord(o), Res(o), Sho(o)} /\ Ord(o) \in DOMAIN vs
        /\ \A p \in Order \ {o} : owner[Ord(p)] # t /\ owner[Res(p)] # t /\ owner[Sho(p)] # t
    BY <1>5, <1>8
  <2>7. Exact' /\ \A p \in Order \ {o} : HeldBy(p)' = HeldBy(p)
    BY <1>4, <1>5, <1>7, <1>8, <1>10, <1>16, <2>3, <2>4, <2>5, <2>6, OrderExact
  <2>8. \A p \in Order : HeldBy(p)' >= HeldBy(p)
    <3>1. \A p \in Order : HeldBy(p) \in Nat /\ HeldBy(p)' \in Nat
      BY <1>6 DEF TxInv, TypeOK, Typed, HeldBy
    <3> QED BY <2>3, <2>7, <3>1
  <2>9. db'[Prod].onHand = db[Prod].onHand
    BY <1>7, <1>9, <2>1 DEF UpToDate
  <2> QED BY <1>4, <1>6, <1>17, <2>7, <2>8, <2>9, PromiseTakes DEF TxInv
<1> QED BY <1>16, <1>17, <1>18

\* A resolution commits: the orders it served hold more, their shortages are smaller.
LEMMA ResolveCommitKeeps ==
    ASSUME TxInv, NEW t \in Proc, ResolveCommit(t)
    PROVE  /\ TxInv' /\ Careful /\ (Exact /\ Separate => Exact' /\ Promised)
           /\ db'[Prod] = new[Prod]
           /\ \A p \in Order : /\ OrderOf(p)'.status = OrderOf(p).status
                               /\ db[Sho(p)] = 0 => db'[Res(p)] = db[Res(p)] /\ db'[Sho(p)] = 0
<1> USE RowsApart
<1>1. PICK vs : vs = <<>>
  OBVIOUS
<1>2. /\ job[t].op = "resolve" /\ job[t].at = "query" /\ job[t].todo = {}
      /\ CommitWith(t, vs) /\ gone' = gone /\ gone \subseteq Order
  BY <1>1 DEF ResolveCommit, At, TxInv, TypeOK
<1>3. DOMAIN vs = {} /\ Fits(vs)
  BY <1>1 DEF Fits
<1>4. TypeOK'
  BY <1>2, <1>3, CommitTyped
<1>5. /\ Resolves(t) /\ ~Lowers(t) /\ ~Allocates(t) /\ owner[Prod] = t /\ job[t].served \subseteq Order
      /\ \A p \in Order : /\ owner[Ord(p)] = t \/ owner[Res(p)] = t => p \in job[t].served
                          /\ ~Uses(t, p)
      /\ \A p \in job[t].served : owner[Res(p)] = t /\ owner[Sho(p)] = t
  BY <1>2, Resolving DEF Resolves
<1>6. /\ db'[Prod] = new[Prod]
      /\ \A r \in Row : db'[r] = IF owner[r] = t THEN new[r] ELSE db[r]
  BY <1>2, <1>3, <1>5, CommitEffect DEF TxInv, TypeOK
<1>7. \A p \in Order : HeldBy(p)' = Left(t, p)
  BY <1>5, <1>6 DEF HeldBy, Left
<1>8. Held' <= new[Prod].reserved
  BY <1>4, <1>5, <1>7, HoldsLeft
<1>9. CounterCovers'
  BY <1>4, <1>6, <1>8 DEF CounterCovers, TxInv, TypeOK, Typed
<1>10. Served(t)
  BY DEF TxInv, Session
<1>11. \A p \in Order \ job[t].served : /\ db'[Ord(p)] = db[Ord(p)] /\ db'[Res(p)] = db[Res(p)]
                                        /\ db'[Sho(p)] = db[Sho(p)]
  BY <1>5, <1>6, <1>10 DEF Served
<1>12. ASSUME NEW p \in job[t].served
       PROVE  /\ p \in Order
              /\ db'[Res(p)] = new[Res(p)] /\ db'[Sho(p)] = new[Sho(p)]
              /\ db'[Res(p)] + db'[Sho(p)] = db[Res(p)] + db[Sho(p)] /\ db'[Res(p)] > db[Res(p)]
              /\ \/ db'[Ord(p)] = db[Ord(p)]
                 \/ /\ db'[Ord(p)].status = db[Ord(p)].status /\ db'[Sho(p)] = 0
                    /\ db'[Ord(p)].fulfil = "allocated" /\ db[Ord(p)].fulfil = "partially_allocated"
  <2>1. p \in Order /\ db[Ord(p)] \in OrderRows
    BY <1>5 DEF TxInv, TypeOK, Typed
  <2>2. /\ [db[Ord(p)] EXCEPT !.fulfil = "allocated"].fulfil = "allocated"
        /\ [db[Ord(p)] EXCEPT !.fulfil = "allocated"].status = db[Ord(p)].status
    BY <2>1 DEF OrderRows
  <2>3. /\ db'[Res(p)] = new[Res(p)] /\ db'[Sho(p)] = new[Sho(p)]
        /\ db'[Ord(p)] = IF owner[Ord(p)] = t THEN new[Ord(p)] ELSE db[Ord(p)]
    BY <1>5, <1>6, <2>1
  <2>4. /\ new[Res(p)] + new[Sho(p)] = db[Res(p)] + db[Sho(p)] /\ new[Res(p)] > db[Res(p)]
        /\ owner[Ord(p)] = t => \/ new[Ord(p)] = db[Ord(p)]
                                \/ /\ new[Ord(p)] = [db[Ord(p)] EXCEPT !.fulfil = "allocated"]
                                   /\ db[Ord(p)].fulfil = "partially_allocated" /\ new[Sho(p)] = 0
    BY <1>10 DEF Served, Promoted
  <2> QED BY <2>1, <2>2, <2>3, <2>4
<1>13. Whole'
  <2>1. ASSUME NEW p \in Order
        PROVE  /\ db'[Ord(p)].fulfil \in {"partially_allocated", "allocated"} => db'[Res(p)] + db'[Sho(p)] = Quantity[p]
               /\ db'[Ord(p)].fulfil = "allocated" => db'[Sho(p)] = 0
    <3>0. /\ db[Ord(p)].fulfil \in {"partially_allocated", "allocated"} => db[Res(p)] + db[Sho(p)] = Quantity[p]
          /\ db[Ord(p)].fulfil = "allocated" => db[Sho(p)] = 0
          /\ db[Res(p)] \in Nat /\ db[Sho(p)] \in Nat /\ new[Res(p)] \in Nat /\ new[Sho(p)] \in Nat
      BY DEF TxInv, Whole, OrderOf, HeldBy, TypeOK, Typed
    <3>1. CASE p \in job[t].served
      BY <1>12, <3>0, <3>1
    <3>2. CASE p \notin job[t].served
      BY <1>11, <3>0, <3>2
    <3> QED BY <3>1, <3>2
  <2> QED BY <2>1 DEF Whole, OrderOf, HeldBy
<1>14. \A p \in Order : HeldBy(p)' >= HeldBy(p)
  <2>1. \A p \in Order : db'[Res(p)] \in Nat /\ db[Res(p)] \in Nat
    BY <1>4 DEF TxInv, TypeOK, Typed
  <2> QED BY <1>11, <1>12, <2>1 DEF HeldBy
<1>15. TxInv'
  BY <1>2, <1>3, <1>5, <1>9, <1>13, <1>14, Commits
<1>16. Careful
  <2>1. SUFFICES ASSUME NEW p \in Order, HeldBy(p)' > HeldBy(p) PROVE Held' <= db[Prod].onHand
    BY DEF Careful
  <2>a. HeldBy(p) \in Nat /\ (p \notin job[t].served => HeldBy(p)' = HeldBy(p))
    BY <1>11 DEF HeldBy, TxInv, TypeOK, Typed
  <2>2. p \in job[t].served
    BY <2>1, <2>a
  <2>3. new[Prod].reserved <= db[Prod].onHand
    BY <1>10, <2>2 DEF Served
  <2>4. Held' \in Nat /\ new[Prod].reserved \in Nat /\ db[Prod].onHand \in Nat
    <3>1. \A q \in Order : HeldBy(q)' \in Nat
      BY <1>4 DEF TypeOK, Typed, HeldBy
    <3>2. [q \in Order |-> HeldBy(q)'] \in [Order -> Nat]
      BY <3>1
    <3> QED BY <3>2, UnitsFinite, TxConstants DEF Held, TxInv, TypeOK, Typed
  <2> QED BY <1>8, <2>3, <2>4
<1>17. Exact /\ Separate => Exact' /\ Promised
  <2> SUFFICES ASSUME Exact, Separate PROVE Exact' /\ Promised
    OBVIOUS
  <2>1. \A p \in Order : /\ db[Ord(p)] \in OrderRows /\ db'[Ord(p)] \in OrderRows
                          /\ HeldBy(p) \in Nat /\ HeldBy(p)' \in Nat /\ db[Sho(p)] \in Nat
    BY <1>4 DEF TxInv, TypeOK, Typed, HeldBy
  <2>2. ASSUME NEW p \in Order
        PROVE  /\ OrderOf(p)'.status = OrderOf(p).status
               /\ OrderOf(p).fulfil # "partially_allocated" => OrderOf(p)' = OrderOf(p)
               /\ OrderOf(p)'.fulfil = "shipped" <=> OrderOf(p).fulfil = "shipped"
    <3>1. CASE p \in job[t].served /\ db'[Ord(p)] # db[Ord(p)]
      BY <1>12, <3>1 DEF OrderOf
    <3>2. CASE ~(p \in job[t].served /\ db'[Ord(p)] # db[Ord(p)])
      BY <1>11, <1>12, <3>2 DEF OrderOf
    <3> QED BY <3>1, <3>2
  <2>3. ASSUME NEW u \in Proc \ {t}, NEW p \in Order, Uses(u, p), job[u].op \in {"ship", "cancel"}
        PROVE  HeldBy(p)' = HeldBy(p)
    <3>1. job[u].op = "ship" /\ job[u].at # "start" /\ job[u].order = p
      BY <1>2, <2>3 DEF Separate, Uses, At
    <3>2. db[Ord(p)].fulfil = "allocated"
      BY <3>1 DEF TxInv, Session, Lowered
    <3>3. db[Sho(p)] = 0
      BY <3>2 DEF TxInv, Whole, OrderOf
    <3>4. p \notin job[t].served
      <4>1. SUFFICES ASSUME p \in job[t].served PROVE FALSE
        OBVIOUS
      <4>2. db'[Res(p)] + db'[Sho(p)] = db[Res(p)] + db[Sho(p)] /\ db'[Res(p)] > db[Res(p)]
        BY <1>12, <4>1
      <4>3. db'[Res(p)] \in Nat /\ db'[Sho(p)] \in Nat /\ db[Res(p)] \in Nat
        BY <1>4 DEF TxInv, TypeOK, Typed
      <4> QED BY <3>3, <4>2, <4>3
    <3> QED BY <1>11, <3>4 DEF HeldBy
  <2>4. ASSUME NEW u \in Proc \ {t}, At(u, "delete", "checked")
        PROVE  OrderOf(job[u].order)'.status \in {"draft", "cancelled", "deleted"}
    <3>1. PICK p \in Order : p = job[u].order /\ p = job'[u].order
      BY <1>2, <1>3, <2>4, CommitEffect DEF At, TxInv, TypeOK
    <3>2. OrderOf(p).status \in {"draft", "cancelled", "deleted"}
      BY <2>4, <3>1 DEF Exact, UpToDate
    <3> QED BY <2>2, <3>1, <3>2 DEF OrderOf
  <2>5. LinesAccounted'
    <3>1. ASSUME NEW p \in Order
          PROVE  HeldBy(p)' + db'[Sho(p)] = IF Live(p)' THEN Quantity[p] ELSE 0
      <4>1. HeldBy(p)' + db'[Sho(p)] = HeldBy(p) + db[Sho(p)]
        BY <1>11, <1>12 DEF HeldBy
      <4>2. Live(p)' <=> Live(p)
        BY <2>2 DEF Live
      <4> QED BY <4>1, <4>2 DEF Exact, LinesAccounted
    <3> QED BY <3>1 DEF LinesAccounted
  <2>6. \A p \in gone' : OrderOf(p)' = OrderRow("approved", "shipped")
    <3>1. OrderRow("approved", "shipped").fulfil = "shipped"
      BY DEF OrderRow
    <3> QED BY <1>2, <2>2, <3>1 DEF Exact
  <2>7. Exact'
    BY <1>2, <1>3, <1>5, <1>6, <1>7, <1>15, <2>3, <2>4, <2>5, <2>6, CommitExact
  <2>8. db'[Prod].onHand = db[Prod].onHand
    BY <1>5, <1>6, <1>10 DEF Served
  <2> QED BY <1>2, <1>4, <1>14, <1>16, <2>7, <2>8, PromiseTakes DEF TxInv
<1>18. ASSUME NEW p \in Order
       PROVE  /\ OrderOf(p)'.status = OrderOf(p).status
              /\ db[Sho(p)] = 0 => db'[Res(p)] = db[Res(p)] /\ db'[Sho(p)] = 0
  <2>1. CASE p \notin job[t].served
    BY <1>11, <2>1 DEF OrderOf
  <2>2. CASE p \in job[t].served
    <3>1. db[Ord(p)] \in OrderRows /\ db[Res(p)] \in Nat /\ db'[Res(p)] \in Nat /\ db'[Sho(p)] \in Nat
      BY <1>4 DEF TxInv, TypeOK, Typed
    <3>2. db[Sho(p)] # 0
      BY <1>12, <2>2, <3>1
    <3> QED BY <1>12, <2>2, <3>2 DEF OrderOf
  <2> QED BY <2>1, <2>2
<1> QED BY <1>6, <1>15, <1>16, <1>17, <1>18

\* A commit of one order that gives it no more than it held.
LEMMA ReleaseKeeps ==
    ASSUME TxInv, NEW t \in Proc, NEW vs, CommitWith(t, vs), Fits(vs), gone' \subseteq Order,
           NEW o \in Order, o = job[t].order,
           DOMAIN vs \subseteq {Ord(o), Res(o), Sho(o)}, Ord(o) \in DOMAIN vs,
           \A p \in Order \ {o} : owner[Ord(p)] # t /\ owner[Res(p)] # t /\ owner[Sho(p)] # t,
           HeldBy(o)' <= HeldBy(o), owner[Prod] = t => HeldBy(o)' = Left(t, o),
           db'[Ord(o)].fulfil \in {"partially_allocated", "allocated"} => db'[Res(o)] + db'[Sho(o)] = Quantity[o],
           db'[Ord(o)].fulfil = "allocated" => db'[Sho(o)] = 0
    PROVE  TxInv' /\ Careful
<1> USE RowsApart
<1>1. TypeOK'
  BY CommitTyped
<1>2. /\ db'[Prod] = IF owner[Prod] = t THEN new[Prod] ELSE db[Prod]
      /\ \A p \in Order \ {o} : db'[Ord(p)] = db[Ord(p)] /\ db'[Res(p)] = db[Res(p)] /\ db'[Sho(p)] = db[Sho(p)]
  BY CommitEffect DEF TxInv, TypeOK
<1>3. \A p \in Order : HeldBy(p)' <= HeldBy(p)
  <2>1. \A p \in Order : HeldBy(p) \in Nat /\ (p # o => HeldBy(p)' = HeldBy(p))
    BY <1>2 DEF HeldBy, TxInv, TypeOK, Typed
  <2> QED BY <2>1
<1>4. Careful /\ Held' <= Held /\ Held' \in Nat /\ Held \in Nat
  BY <1>1, <1>3, HoldsLess DEF TxInv
<1>5. CounterCovers'
  <2>1. CASE owner[Prod] = t
    <3>1. \A p \in Order : HeldBy(p)' = Left(t, p)
      BY <1>2, <2>1 DEF HeldBy, Left
    <3> QED BY <1>1, <1>2, <1>4, <2>1, <3>1, HoldsLeft DEF CounterCovers, TxInv, TypeOK, Typed
  <2>2. CASE owner[Prod] # t
    BY <1>1, <1>2, <1>4, <2>2 DEF CounterCovers, TxInv, TypeOK, Typed
  <2> QED BY <2>1, <2>2
<1>6. Whole'
  <2>1. ASSUME NEW p \in Order
        PROVE  /\ db'[Ord(p)].fulfil \in {"partially_allocated", "allocated"} => db'[Res(p)] + db'[Sho(p)] = Quantity[p]
               /\ db'[Ord(p)].fulfil = "allocated" => db'[Sho(p)] = 0
    <3>1. CASE p = o
      BY <3>1
    <3>2. CASE p # o
      BY <1>2, <3>2 DEF TxInv, Whole, OrderOf, HeldBy
    <3> QED BY <3>1, <3>2
  <2> QED BY <2>1 DEF Whole, OrderOf, HeldBy
<1>7. ASSUME NEW u \in Proc \ {t}
      PROVE  \A p \in Order : Uses(u, p) => HeldBy(p)' >= HeldBy(p)
  <2>1. owner[Ord(o)] \in {NoProc, t}
    BY CommitEffect DEF TxInv, TypeOK
  <2>2. \A p \in Order : Uses(u, p) => p # o
    BY <2>1, TxConstants DEF TxInv, Session, Locks
  <2>3. \A p \in Order : HeldBy(p) \in Nat /\ (p # o => HeldBy(p)' = HeldBy(p))
    BY <1>2 DEF HeldBy, TxInv, TypeOK, Typed
  <2> QED BY <2>2, <2>3
<1> QED BY <1>3, <1>4, <1>5, <1>6, <1>7, Commits

\* An approval leaves the rows of the order's line alone.
LEMMA ApproveKeeps ==
    ASSUME TxInv, NEW t \in Proc, Approve(t)
    PROVE  TxInv' /\ Careful /\ (Exact /\ Separate => Exact' /\ Promised)
<1> USE RowsApart
<1>1. PICK o \in Order : o = job[t].order
  BY DEF TxInv, TypeOK, Approve, At
<1>2. \A r \in Row : owner[r] # t
  BY HasNothing DEF TxInv, Session, Approve, At
<1>3. PICK row \in OrderRows : row = [new[Ord(o)] EXCEPT !.status = "approved"] /\ row.fulfil = new[Ord(o)].fulfil
  <2>1. PICK v \in OrderRows : v = new[Ord(o)]
    BY DEF TxInv, TypeOK, Typed
  <2>2. [v EXCEPT !.status = "approved"] \in OrderRows /\ [v EXCEPT !.status = "approved"].fulfil = v.fulfil
    BY DEF OrderRows
  <2> QED BY <2>1, <2>2
<1>4. PICK vs : vs = Set(Ord(o), row)
  OBVIOUS
<1>5. /\ CommitWith(t, vs) /\ gone' = gone /\ gone \subseteq Order
  BY <1>1, <1>3, <1>4 DEF Approve, TxInv, TypeOK
<1>6. DOMAIN vs = {Ord(o)} /\ vs[Ord(o)] = row /\ Fits(vs)
  BY <1>4 DEF Set, Fits
<1>7. /\ owner[Ord(o)] = NoProc /\ db'[Ord(o)] = row /\ db'[Res(o)] = db[Res(o)] /\ db'[Sho(o)] = db[Sho(o)]
  BY <1>2, <1>5, <1>6, CommitEffect DEF TxInv, TypeOK
<1>8. row.fulfil = db[Ord(o)].fulfil
  BY <1>3, <1>7 DEF TxInv, Free
<1>9. HeldBy(o)' <= HeldBy(o)
  <2>1. HeldBy(o) \in Nat /\ HeldBy(o)' = HeldBy(o)
    BY <1>7 DEF HeldBy, TxInv, TypeOK, Typed
  <2> QED BY <2>1
<1>10. /\ db'[Ord(o)].fulfil \in {"partially_allocated", "allocated"} => db'[Res(o)] + db'[Sho(o)] = Quantity[o]
       /\ db'[Ord(o)].fulfil = "allocated" => db'[Sho(o)] = 0
  BY <1>7, <1>8 DEF TxInv, Whole, OrderOf, HeldBy
<1>11. TxInv' /\ Careful
  BY <1>1, <1>2, <1>5, <1>6, <1>9, <1>10, ReleaseKeeps
<1>12. Exact => Exact' /\ Promised
  <2> SUFFICES ASSUME Exact PROVE Exact' /\ Promised
    OBVIOUS
  <2>1. OrderOf(o).status = "pending_approval" /\ OrderOf(o)'.fulfil = OrderOf(o).fulfil
        /\ OrderOf(o)'.status = "approved"
    <3>1. new[Ord(o)] = db[Ord(o)] /\ new[Ord(o)].status = "pending_approval" /\ new[Ord(o)] \in OrderRows
      BY <1>1, <1>7 DEF Approve, TxInv, Free, TypeOK, Typed
    <3>2. [new[Ord(o)] EXCEPT !.status = "approved"].status = "approved"
      BY <3>1 DEF OrderRows
    <3> QED BY <1>3, <1>7, <1>8, <3>1, <3>2 DEF OrderOf
  <2>2. HeldBy(o)' = HeldBy(o)
    BY <1>7 DEF HeldBy
  <2>3. HeldBy(o)' + db'[Sho(o)] = IF Live(o)' THEN Quantity[o] ELSE 0
    BY <1>7, <2>1, <2>2 DEF Exact, LinesAccounted, Live, HeldBy
  <2>4. o \notin gone
    BY <2>1 DEF Exact, OrderRow
  <2>5. ASSUME NEW u \in Proc \ {t}, At(u, "delete", "checked"), job[u].order = o PROVE FALSE
    BY <2>1, <2>5 DEF Exact, UpToDate
  <2>6. /\ HeldBy(o)' = HeldBy(o) /\ owner[Prod] # t
        /\ \A p \in Order : owner[Ord(p)] # t /\ owner[Res(p)] # t /\ owner[Sho(p)] # t
    BY <1>2, <1>7 DEF HeldBy
  <2>7. Exact' /\ (\A p \in Order \ {o} : HeldBy(p)' = HeldBy(p)) /\ db'[Prod] = db[Prod]
    BY <1>1, <1>5, <1>6, <1>11, <2>3, <2>4, <2>5, <2>6, OrderExact
  <2> QED BY <1>5, <2>6, <2>7, PromiseSame
<1> QED BY <1>11, <1>12

\* What an order holds is part of what all hold.
LEMMA HeldIsMore ==
    ASSUME TypeOK, NEW o \in Order
    PROVE  HeldBy(o) <= Held
<1>1. PICK f : f = [p \in Order |-> HeldBy(p)]
  OBVIOUS
<1>2. f \in [Order -> Nat] /\ Held = Total(f) /\ f[o] = HeldBy(o)
  BY <1>1 DEF TypeOK, Typed, HeldBy, Held
<1> QED BY <1>2, TotalPut, TxConstants

\* A shipment commits: the order leaves with its whole line.
LEMMA ShipCommitKeeps ==
    ASSUME TxInv, NEW t \in Proc, ShipCommit(t)
    PROVE  /\ TxInv' /\ Careful
           /\ job[t].order \in Order /\ gone' = gone \cup {job[t].order}
           /\ HeldBy(job[t].order) = Quantity[job[t].order]
           /\ db'[Res(job[t].order)] = 0 /\ db'[Sho(job[t].order)] = 0
           /\ Exact /\ Separate /\ Within => Exact' /\ Promised
<1> USE RowsApart
<1>1. PICK o \in Order : o = job[t].order
  BY DEF TxInv, TypeOK, ShipCommit, At
<1>2. PICK open : open = {r \in {Res(o), Sho(o)} : Sees(t, r) > 0}
  OBVIOUS
<1>3. PICK vs : vs = [r \in open \cup {Ord(o)} |-> IF r = Ord(o) THEN [new[r] EXCEPT !.fulfil = "shipped"] ELSE 0]
  OBVIOUS
<1>4. /\ job[t].op = "ship" /\ job[t].at = "updated"
      /\ CommitWith(t, vs) /\ gone' = gone \cup {o} /\ gone' \subseteq Order
  BY <1>1, <1>2, <1>3 DEF ShipCommit, At, TxInv, TypeOK
<1>5. /\ Lowers(t) /\ job[t].served = {} /\ owner[Ord(o)] = t
      /\ \A p \in Order : owner[Res(p)] # t /\ owner[Sho(p)] # t /\ (p # o => owner[Ord(p)] # t)
  <2>1. job[t].served = {}
    BY <1>4, JobFields DEF TxInv, TypeOK, Session, Locks, At
  <2> QED BY <1>1, <1>4, <2>1 DEF TxInv, Session, Locks, Lowers, At, Uses, Allocates
<1>6. PICK row \in OrderRows : row = [new[Ord(o)] EXCEPT !.fulfil = "shipped"] /\ row.fulfil = "shipped"
  <2>1. PICK v \in OrderRows : v = new[Ord(o)]
    BY DEF TxInv, TypeOK, Typed
  <2>2. [v EXCEPT !.fulfil = "shipped"] \in OrderRows /\ [v EXCEPT !.fulfil = "shipped"].fulfil = "shipped"
    BY DEF OrderRows
  <2> QED BY <2>1, <2>2
<1>7. /\ DOMAIN vs = open \cup {Ord(o)} /\ DOMAIN vs \subseteq {Ord(o), Res(o), Sho(o)}
      /\ vs[Ord(o)] = row /\ \A r \in open : vs[r] = 0
  BY <1>2, <1>3, <1>6
<1>8. Fits(vs)
  BY <1>2, <1>6, <1>7 DEF Fits
<1>9. Sees(t, Res(o)) = db[Res(o)] /\ db[Res(o)] \in Nat
  BY <1>5 DEF Sees, TxInv, TypeOK, Typed
<1>10. db'[Ord(o)] = row /\ db'[Res(o)] = 0
  <2>1. job \in [Proc -> Jobs] /\ DOMAIN vs \subseteq Row
    BY <1>7 DEF TxInv, TypeOK
  <2>2. db'[Ord(o)] = row
    BY <1>4, <1>7, <2>1, CommitEffect
  <2>3. CASE db[Res(o)] > 0
    BY <1>2, <1>4, <1>7, <1>9, <2>1, <2>3, CommitEffect
  <2>4. CASE db[Res(o)] = 0
    BY <1>2, <1>4, <1>5, <1>7, <1>9, <2>1, <2>4, CommitEffect
  <2> QED BY <1>9, <2>2, <2>3, <2>4
<1>11. HeldBy(o)' <= HeldBy(o) /\ HeldBy(o)' = Left(t, o)
  BY <1>1, <1>5, <1>9, <1>10 DEF HeldBy, Left
<1>12. HeldBy(o) = Quantity[o]
  <2>1. db[Ord(o)].fulfil = "allocated"
    BY <1>1, <1>4 DEF TxInv, Session, Lowered
  <2> QED BY <1>9, <2>1 DEF TxInv, Whole, OrderOf, HeldBy
<1>13. TxInv' /\ Careful
  BY <1>1, <1>4, <1>5, <1>6, <1>7, <1>8, <1>10, <1>11, ReleaseKeeps
<1>15. db'[Sho(o)] = 0
  <2>1. db[Ord(o)].fulfil = "allocated"
    BY <1>1, <1>4 DEF TxInv, Session, Lowered
  <2>2. db[Sho(o)] = 0
    BY <2>1 DEF TxInv, Whole, OrderOf
  <2>3. job \in [Proc -> Jobs] /\ DOMAIN vs \subseteq Row
    BY <1>7 DEF TxInv, TypeOK
  <2>4. CASE Sho(o) \in open
    BY <1>4, <1>7, <2>3, <2>4, CommitEffect
  <2>5. CASE Sho(o) \notin open
    BY <1>4, <1>5, <1>7, <2>2, <2>3, <2>5, CommitEffect
  <2> QED BY <2>4, <2>5
<1>14. Exact /\ Within => Exact' /\ Promised
  <2> SUFFICES ASSUME Exact, Within PROVE Exact' /\ Promised
    OBVIOUS
  <2>1. /\ owner[Prod] = t /\ At(t, "ship", "updated") /\ Uses(t, o) /\ UpToDate(t)
    BY <1>1, <1>4, ShipHasProduct DEF Exact, At
  <2>2. /\ OrderOf(o).status = "approved" /\ new[Ord(o)] = OrderOf(o)
        /\ new[Prod].onHand = Clip(db[Prod].onHand, Quantity[o])
    BY <1>1, <1>4, <2>1 DEF UpToDate
  <2>3. OrderOf(o)' = OrderRow("approved", "shipped") /\ ~Live(o)'
    <3>1. row = OrderRow("approved", "shipped")
      <4>1. PICK v \in OrderRows : v = new[Ord(o)] /\ v.status = "approved"
        BY <2>2 DEF TxInv, TypeOK, Typed
      <4>2. [v EXCEPT !.fulfil = "shipped"] = OrderRow("approved", "shipped")
        BY <4>1 DEF OrderRows, OrderRow
      <4> QED BY <1>6, <4>1, <4>2
    <3> QED BY <1>6, <1>10, <3>1 DEF OrderOf, Live
  <2>4. db'[Sho(o)] = 0
    BY <1>15
  <2>5. o \notin gone
    <3>1. OrderOf(o).fulfil = "allocated"
      BY <1>1, <1>4 DEF TxInv, Session, Lowered, OrderOf
    <3> QED BY <3>1 DEF Exact, OrderRow
  <2>6. ASSUME NEW u \in Proc \ {t}, At(u, "delete", "checked"), job[u].order = o PROVE FALSE
    BY <2>2, <2>6 DEF Exact, UpToDate
  <2>7. HeldBy(o)' = 0 /\ HeldBy(o)' + db'[Sho(o)] = 0
    BY <1>10, <2>4 DEF HeldBy
  <2>8. Exact' /\ (\A p \in Order \ {o} : HeldBy(p)' = HeldBy(p)) /\ db'[Prod] = new[Prod]
    <3>1. /\ o \in gone' /\ gone' \ {o} = gone \ {o}
          /\ HeldBy(o)' = IF owner[Prod] = t THEN Left(t, o) ELSE HeldBy(o)
          /\ HeldBy(o)' + db'[Sho(o)] = IF Live(o)' THEN Quantity[o] ELSE 0
      BY <1>4, <1>11, <2>1, <2>3, <2>7
    <3>2. \A p \in Order \ {o} : owner[Ord(p)] # t /\ owner[Res(p)] # t /\ owner[Sho(p)] # t
      BY <1>5
    <3>3. CommitWith(t, vs) /\ Ord(o) \in DOMAIN vs /\ TxInv'
      BY <1>4, <1>7, <1>13
    <3> QED BY <1>1, <1>7, <1>8, <2>1, <2>3, <2>6, <3>1, <3>2, <3>3, OrderExact
  <2>9. db'[Prod].onHand = db[Prod].onHand - HeldBy(o)
    <3>1. HeldBy(o) <= Held
      BY HeldIsMore DEF TxInv
    <3>2. Held <= db[Prod].onHand /\ db[Prod].onHand \in Nat /\ HeldBy(o) \in Nat /\ Held \in Nat
      BY HeldTyped DEF Exact, ReservedIsSum, Within, TxInv, TypeOK, Typed
    <3> QED BY <1>12, <2>2, <2>8, <3>1, <3>2 DEF Clip
  <2> QED BY <1>4, <2>5, <2>7, <2>8, <2>9, PromiseLeaves DEF TxInv
<1> QED BY <1>1, <1>4, <1>10, <1>12, <1>13, <1>14, <1>15

\* A cancellation commits: its shortage is closed, and its reservation if it had found one.
LEMMA CancelCommitKeeps ==
    ASSUME TxInv, NEW t \in Proc, CancelCommit(t)
    PROVE  /\ TxInv' /\ Careful /\ (Exact /\ Separate => Exact' /\ Promised)
           /\ db'[Sho(job[t].order)] = 0
           /\ db'[Res(job[t].order)] = IF owner[Res(job[t].order)] = t THEN 0 ELSE db[Res(job[t].order)]
<1> USE RowsApart
<1>1. PICK o \in Order : o = job[t].order
  BY DEF TxInv, TypeOK, CancelCommit, At
<1>2. PICK open : open = {r \in {Sho(o)} : Sees(t, r) > 0}
  OBVIOUS
<1>6. PICK row \in OrderRows : row = OrderRow("cancelled", "unallocated") /\ row.fulfil = "unallocated"
  <2>1. /\ OrderRow("cancelled", "unallocated") \in OrderRows
        /\ OrderRow("cancelled", "unallocated").fulfil = "unallocated"
    BY DEF OrderRow, OrderRows
  <2> QED BY <2>1
<1>3. PICK vs : vs = [r \in open \cup {Ord(o)} |-> IF r = Ord(o) THEN row ELSE 0]
  OBVIOUS
<1>4. /\ job[t].op = "cancel" /\ job[t].at = "rows"
      /\ CommitWith(t, vs) /\ gone' = gone /\ gone \subseteq Order
  BY <1>1, <1>2, <1>3, <1>6 DEF CancelCommit, At, TxInv, TypeOK
<1>5. /\ Lowers(t) /\ job[t].served = {} /\ owner[Ord(o)] = t
      /\ \A p \in Order : owner[Sho(p)] # t /\ (p # o => owner[Ord(p)] # t /\ owner[Res(p)] # t)
      /\ owner[Prod] = t => job[t].seen > 0
  <2>1. job[t].served = {}
    BY <1>4, JobFields DEF TxInv, TypeOK, Session, Locks, At
  <2> QED BY <1>1, <1>4, <2>1 DEF TxInv, Session, Locks, Lowers, At, Uses, Allocates, Resolves
<1>7. /\ DOMAIN vs = open \cup {Ord(o)} /\ DOMAIN vs \subseteq {Ord(o), Res(o), Sho(o)}
      /\ Res(o) \notin DOMAIN vs
      /\ vs[Ord(o)] = row /\ \A r \in open : vs[r] = 0
  BY <1>2, <1>3
<1>8. Fits(vs)
  BY <1>2, <1>6, <1>7 DEF Fits
<1>9. db[Res(o)] \in Nat /\ new[Res(o)] \in Nat
      /\ IF owner[Res(o)] = t THEN new[Res(o)] = 0 ELSE job[t].seen > 0 => db[Res(o)] = 0
  BY <1>1, <1>4 DEF TxInv, TypeOK, Typed, Session, Lowered, At
<1>10. db'[Ord(o)] = row /\ db'[Res(o)] = IF owner[Res(o)] = t THEN 0 ELSE db[Res(o)]
  BY <1>4, <1>7, <1>9, CommitEffect DEF TxInv, TypeOK
<1>11. HeldBy(o)' <= HeldBy(o) /\ (owner[Prod] = t => HeldBy(o)' = Left(t, o))
  BY <1>1, <1>5, <1>9, <1>10 DEF HeldBy, Left
<1>12. TxInv' /\ Careful
  BY <1>1, <1>4, <1>5, <1>6, <1>7, <1>8, <1>10, <1>11, ReleaseKeeps
<1>14. db'[Sho(o)] = 0
  <2>a. job \in [Proc -> Jobs] /\ DOMAIN vs \subseteq Row
    BY <1>7 DEF TxInv, TypeOK
  <2>b. db[Sho(o)] \in Nat /\ Sees(t, Sho(o)) = db[Sho(o)]
    BY <1>5 DEF TxInv, TypeOK, Typed, Sees
  <2>1. job \in [Proc -> Jobs] /\ DOMAIN vs \subseteq Row /\ db[Sho(o)] \in Nat /\ Sees(t, Sho(o)) = db[Sho(o)]
    BY <2>a, <2>b
  <2>2. CASE Sho(o) \in open
    BY <1>4, <1>7, <2>1, <2>2, CommitEffect
  <2>3. CASE Sho(o) \notin open
    BY <1>2, <1>4, <1>5, <1>7, <2>1, <2>3, CommitEffect
  <2> QED BY <2>2, <2>3
<1>13. Exact => Exact' /\ Promised
  <2> SUFFICES ASSUME Exact PROVE Exact' /\ Promised
    OBVIOUS
  <2>1. UpToDate(t) /\ Uses(t, o) /\ At(t, "cancel", "rows")
    BY <1>1, <1>4 DEF Exact, Uses, At
  <2>2. /\ OrderOf(o).fulfil # "shipped" /\ job[t].seen = HeldBy(o) /\ (owner[Res(o)] = t <=> HeldBy(o) > 0)
        /\ owner[Prod] = t => new[Prod].onHand = db[Prod].onHand
    BY <1>1, <1>4, <2>1 DEF UpToDate
  <2>3. owner[Prod] = t <=> HeldBy(o) > 0
    BY <1>4, <1>5, <2>2 DEF TxInv, Session, Locks
  <2>4. HeldBy(o)' = 0 /\ HeldBy(o) \in Nat /\ HeldBy(o)' = IF owner[Prod] = t THEN Left(t, o) ELSE HeldBy(o)
    BY <1>9, <1>10, <1>11, <2>2, <2>3 DEF HeldBy
  <2>5. db'[Sho(o)] = 0
    BY <1>14
  <2>6. OrderOf(o)'.status = "cancelled" /\ ~Live(o)'
    <3>1. row.status = "cancelled"
      BY <1>6 DEF OrderRow
    <3> QED BY <1>10, <3>1 DEF OrderOf, Live
  <2>7. o \notin gone
    BY <2>2 DEF Exact, OrderRow
  <2>8. HeldBy(o)' + db'[Sho(o)] = 0
    BY <2>4, <2>5
  <2>9. /\ Exact' /\ (\A p \in Order \ {o} : HeldBy(p)' = HeldBy(p))
        /\ owner[Prod] # t => db'[Prod] = db[Prod]
        /\ owner[Prod] = t => db'[Prod] = new[Prod]
    BY <1>1, <1>4, <1>5, <1>7, <1>8, <1>12, <2>4, <2>6, <2>7, <2>8, OrderExact
  <2> QED BY <1>4, <2>2, <2>4, <2>7, <2>9, PromiseReleases
<1> QED BY <1>1, <1>10, <1>12, <1>13, <1>14

\* A deletion takes the order's rows with it.
LEMMA DeleteRowKeeps ==
    ASSUME TxInv, NEW t \in Proc, DeleteRow(t)
    PROVE  TxInv' /\ Careful /\ (Exact /\ Separate => Exact' /\ Promised)
<1> USE RowsApart
<1>1. PICK o \in Order : o = job[t].order
  BY DEF TxInv, TypeOK, DeleteRow, At
<1>2. PICK row \in OrderRows : row = OrderRow("deleted", "unallocated") /\ row.fulfil = "unallocated"
  <2>1. /\ OrderRow("deleted", "unallocated") \in OrderRows
        /\ OrderRow("deleted", "unallocated").fulfil = "unallocated"
    BY DEF OrderRow, OrderRows
  <2> QED BY <2>1
<1>3. PICK vs : vs = [r \in {Ord(o), Res(o), Sho(o)} |-> IF r = Ord(o) THEN row ELSE 0]
  OBVIOUS
<1>4. /\ job[t].op = "delete" /\ job[t].at = "checked"
      /\ CommitWith(t, vs) /\ gone' = gone /\ gone \subseteq Order
  BY <1>1, <1>2, <1>3 DEF DeleteRow, At, TxInv, TypeOK
<1>5. \A r \in Row : owner[r] # t
  <2>1. job[t].served = {}
    BY <1>4, JobFields DEF TxInv, TypeOK, Session, Locks, At
  <2>2. owner[Prod] # t /\ \A p \in Order : owner[Ord(p)] # t /\ owner[Res(p)] # t /\ owner[Sho(p)] # t
    BY <1>4, <2>1 DEF TxInv, Session, Locks, Lowers, At, Uses, Allocates, Resolves
  <2> QED BY <2>2
<1>6. /\ DOMAIN vs = {Ord(o), Res(o), Sho(o)} /\ vs[Ord(o)] = row /\ vs[Res(o)] = 0 /\ vs[Sho(o)] = 0
  BY <1>3
<1>7. Fits(vs)
  BY <1>6 DEF Fits
<1>8. db'[Ord(o)] = row /\ db'[Res(o)] = 0
  BY <1>4, <1>6, CommitEffect DEF TxInv, TypeOK
<1>9. HeldBy(o)' <= HeldBy(o)
  <2>1. HeldBy(o) \in Nat /\ HeldBy(o)' = 0
    BY <1>8 DEF HeldBy, TxInv, TypeOK, Typed
  <2> QED BY <2>1
<1>10. TxInv' /\ Careful
  BY <1>1, <1>2, <1>4, <1>5, <1>6, <1>7, <1>8, <1>9, ReleaseKeeps
<1>11. Exact => Exact' /\ Promised
  <2> SUFFICES ASSUME Exact PROVE Exact' /\ Promised
    OBVIOUS
  <2>1. OrderOf(o).status \in {"draft", "cancelled", "deleted"}
    BY <1>1, <1>4 DEF Exact, UpToDate, At
  <2>2. o \notin gone /\ HeldBy(o) = 0
    <3>1. ~Live(o) /\ o \notin gone
      BY <2>1 DEF Live, Exact, OrderRow
    <3>2. HeldBy(o) + db[Sho(o)] = 0 /\ HeldBy(o) \in Nat /\ db[Sho(o)] \in Nat
      BY <3>1 DEF Exact, LinesAccounted, TxInv, TypeOK, Typed, HeldBy
    <3> QED BY <3>1, <3>2
  <2>3. HeldBy(o)' = 0 /\ db'[Sho(o)] = 0
    BY <1>4, <1>6, <1>8, CommitEffect DEF HeldBy, TxInv, TypeOK
  <2>4. OrderOf(o)'.status = "deleted" /\ ~Live(o)'
    <3>1. row.status = "deleted"
      BY <1>2 DEF OrderRow
    <3> QED BY <1>8, <3>1 DEF OrderOf, Live
  <2>5. /\ Exact' /\ (\A p \in Order \ {o} : HeldBy(p)' = HeldBy(p)) /\ db'[Prod] = db[Prod]
    BY <1>1, <1>4, <1>5, <1>6, <1>7, <1>10, <2>2, <2>3, <2>4, OrderExact
  <2> QED BY <1>4, <2>2, <2>3, <2>5, PromiseSame
<1> QED BY <1>10, <1>11

\* A deletion checks the status.
LEMMA DeleteCheckKeeps ==
    ASSUME TxInv, NEW t \in Proc, DeleteCheck(t)
    PROVE  TxInv' /\ (Exact => Exact')
<1>1. /\ job[t].op = "delete" /\ job[t].at = "start" /\ UNCHANGED <<db, new, owner, gone>>
  BY DEF DeleteCheck, At
<1>2. (\A r \in Row : owner[r] # t) /\ job[t].served = {}
  BY <1>1, HasNothing DEF TxInv, Session
<1>3. Moves(t, "delete", job[t].order, "checked", job[t].seen, job[t].todo, {})
  BY <1>1, <1>2, JobGoes DEF TxInv, TypeOK, Places, DeleteCheck, Goto
<1>4. Session(t)'
  <2>1. Locks(t)'
    BY <1>1, <1>2, <1>3, RowsApart DEF Moves, Locks, Allocates, Resolves, Lowers, At, Uses
  <2>2. Reserved(t)' /\ Lowered(t)' /\ Served(t)'
    BY <1>3 DEF Moves, Reserved, Lowered, Served, Allocates, Resolves, At
  <2> QED BY <1>1, <1>2, <2>1, <2>2, RowsApart DEF Session
<1>5. TxInv'
  BY <1>1, <1>3, <1>4, Waits DEF TxInv, TypeOK
<1>6. Exact => Exact'
  <2> SUFFICES ASSUME Exact PROVE Exact'
    OBVIOUS
  <2>1. Spares(t) /\ owner'[Prod] # t
    BY <1>1, <1>2, RowsApart DEF Spares
  <2>2. PICK o : o = job[t].order /\ db[Ord(o)].status \in {"draft", "cancelled"}
    BY DEF DeleteCheck
  <2>3. UpToDate(t)'
    BY <1>1, <1>3, <2>1, <2>2 DEF Moves, UpToDate, Uses, At, Allocates, OrderOf
  <2> QED BY <1>1, <1>3, <2>1, <2>3, InsideExact DEF Moves
<1> QED BY <1>5, <1>6

\* A movement changes the stock only.
LEMMA MoveKeeps ==
    ASSUME TxInv, NEW t \in Proc, NEW q \in {-1, 1}, Move(t, q)
    PROVE  /\ TxInv' /\ Careful /\ (Exact /\ Separate => Exact' /\ Promised)
           /\ Within' /\ \A r \in Row \ {Prod} : db'[r] = db[r]
<1> USE RowsApart
<1>1. \A r \in Row : owner[r] # t
  BY HasNothing DEF TxInv, Session, Move, At
<1>2. new[Prod].onHand + q \in Nat /\ new[Prod] \in [onHand : Nat, reserved : Nat]
  BY TxConstants DEF Move, TxInv, TypeOK, Typed
<1>3. PICK row \in [onHand : Nat, reserved : Nat] :
         /\ row = [new[Prod] EXCEPT !.onHand = @ + q] /\ row.reserved = new[Prod].reserved
         /\ row.reserved <= row.onHand
  <2>1. PICK n \in Nat : n = new[Prod].onHand + q
    BY <1>2
  <2>2. [new[Prod] EXCEPT !.onHand = @ + q] = [onHand |-> n, reserved |-> new[Prod].reserved]
    BY <1>2, <2>1
  <2>3. new[Prod].reserved <= n
    BY <1>2, <2>1, TxConstants DEF Move
  <2> QED BY <1>2, <2>2, <2>3
<1>4. PICK vs : vs = Set(Prod, row)
  OBVIOUS
<1>5. /\ CommitWith(t, vs) /\ gone' = gone /\ gone \subseteq Order
  BY <1>3, <1>4 DEF Move, TxInv, TypeOK
<1>6. DOMAIN vs = {Prod} /\ vs[Prod] = row /\ Fits(vs)
  BY <1>4 DEF Set, Fits
<1>7. /\ owner[Prod] = NoProc /\ db'[Prod] = row /\ \A r \in Row \ {Prod} : db'[r] = db[r]
  BY <1>1, <1>5, <1>6, CommitEffect DEF TxInv, TypeOK
<1>8. row.reserved = db[Prod].reserved
  BY <1>3, <1>7 DEF TxInv, Free
<1>9. TypeOK'
  BY <1>5, <1>6, CommitTyped
<1>10. \A p \in Order : HeldBy(p) \in Nat /\ HeldBy(p)' = HeldBy(p)
  BY <1>7 DEF HeldBy, TxInv, TypeOK, Typed
<1>11. Held' = Held
  BY <1>10 DEF Held
<1>12. Careful
  BY <1>10 DEF Careful
<1>13. Whole' /\ CounterCovers'
  BY <1>7, <1>8, <1>10, <1>11 DEF Whole, CounterCovers, OrderOf, HeldBy, TxInv
<1>14. \A p \in Order : HeldBy(p)' >= HeldBy(p) /\ HeldBy(p)' <= HeldBy(p)
  BY <1>10
<1>15. TxInv'
  BY <1>5, <1>6, <1>13, <1>14, Commits
<1>16. Exact => Exact' /\ Promised
  <2> SUFFICES ASSUME Exact PROVE Exact' /\ Promised
    OBVIOUS
  <2>1. \A p \in Order : OrderOf(p)' = OrderOf(p)
    BY <1>7 DEF OrderOf
  <2>2. LinesAccounted' /\ \A p \in gone' : OrderOf(p)' = OrderRow("approved", "shipped")
    BY <1>5, <1>7, <1>10, <2>1 DEF Exact, LinesAccounted, Live
  <2>3. ASSUME NEW u \in Proc \ {t}, At(u, "delete", "checked")
        PROVE  OrderOf(job[u].order)'.status \in {"draft", "cancelled", "deleted"}
    <3>1. PICK p \in Order : p = job[u].order /\ p = job'[u].order
      BY <1>5, <1>6, <2>3, CommitEffect DEF At, TxInv, TypeOK
    <3>2. OrderOf(p).status \in {"draft", "cancelled", "deleted"}
      BY <2>3, <3>1 DEF Exact, UpToDate
    <3> QED BY <2>1, <3>1, <3>2 DEF OrderOf
  <2>4. Exact'
    BY <1>1, <1>5, <1>6, <1>7, <1>8, <1>10, <1>15, <2>2, <2>3, CommitExact
  <2>5. Held <= db'[Prod].onHand
    <3>1. Held <= row.reserved /\ row.reserved <= row.onHand
      BY <1>3, <1>8 DEF TxInv, CounterCovers
    <3>2. Held \in Nat /\ row.reserved \in Nat /\ row.onHand \in Nat
      BY <1>3, HeldTyped DEF TxInv, TypeOK
    <3> QED BY <1>7, <3>1, <3>2
  <2> QED BY <1>5, <1>9, <1>10, <2>4, <2>5, PromiseRestocks
<1>17. Within'
  BY <1>3, <1>4, <1>5, <1>6, <1>7, CommitEffect DEF Within, TxInv, TypeOK
<1> QED BY <1>7, <1>12, <1>15, <1>16, <1>17

-----------------------------------------------------------------------------
(* Every state, and the theorems.                                          *)

\* The first state has no sessions.
LEMMA InitTx == Init => TxInv
<1> SUFFICES ASSUME Init PROVE TxInv
  OBVIOUS
<1> USE RowsApart, IdleJob
<1>1. PICK stock \in 0..MaxStock, drafts \in SUBSET Order : db = InitialRows(stock, drafts)
  BY DEF Init
<1>2. /\ new = db /\ owner = [r \in Row |-> NoProc] /\ job = [t \in Proc |-> Idle] /\ gone = {}
      /\ NoProc \notin Proc /\ stock \in Nat
  BY TxConstants DEF Init
<1>3. Prod[1] = "products" /\ \A o \in Order : /\ Ord(o)[1] = "sales_orders" /\ Res(o)[1] = "stock_reservations"
                                               /\ Sho(o)[1] = "shortages" /\ Ord(o)[2] = o
  BY DEF Prod, Ord, Res, Sho
<1>4. /\ db = [r \in Row |-> db[r]] /\ db[Prod] = [onHand |-> stock, reserved |-> 0]
      /\ \A o \in Order : /\ db[Res(o)] = 0 /\ db[Sho(o)] = 0
                          /\ db[Ord(o)] = OrderRow(IF o \in drafts THEN "draft" ELSE "none", "unallocated")
  BY <1>1, <1>3 DEF InitialRows
<1>5. \A o \in Order : db[Ord(o)] \in OrderRows /\ db[Ord(o)].fulfil = "unallocated"
  <2>1. \A st \in {"draft", "none"} : /\ OrderRow(st, "unallocated") \in OrderRows
                                      /\ OrderRow(st, "unallocated").fulfil = "unallocated"
    BY DEF OrderRow, OrderRows
  <2> QED BY <1>4, <2>1
<1>6. TypeOK
  <2>1. Typed(db) /\ Typed(new)
    BY <1>2, <1>4, <1>5 DEF Typed
  <2>2. owner \in [Row -> Proc \cup {NoProc}] /\ job \in [Proc -> Jobs] /\ \A t \in Proc : job[t].op = "none"
    BY <1>2
  <2> QED BY <1>2, <2>1, <2>2 DEF TypeOK
<1>7. ASSUME NEW t \in Proc PROVE Session(t)
  <2>1. job[t] = Idle /\ \A r \in Row : owner[r] # t
    BY <1>2
  <2>2. Locks(t)
    BY <2>1 DEF Locks, Allocates, Resolves, Lowers, At, Uses
  <2>3. Reserved(t) /\ Lowered(t) /\ Served(t)
    BY <2>1 DEF Reserved, Lowered, Served, Allocates, Resolves, At
  <2> QED BY <2>1, <2>2, <2>3 DEF Session
<1>8. CounterCovers
  <2>1. PICK f : f = [o \in Order |-> HeldBy(o)]
    OBVIOUS
  <2>2. f \in [Order -> Nat] /\ (\A o \in Order : f[o] = 0) /\ Held = Total(f)
    BY <1>4, <2>1 DEF HeldBy, Held
  <2>3. Held = 0
    BY <2>2, TotalOfNothing
  <2> QED BY <1>4, <2>3 DEF CounterCovers
<1>9. Free /\ Whole
  BY <1>2, <1>5 DEF Free, Whole, OrderOf
<1> QED BY <1>6, <1>7, <1>8, <1>9 DEF TxInv

\* The first state has no reservations.
LEMMA InitExact == Init => Exact /\ Separate
<1> SUFFICES ASSUME Init PROVE Exact /\ Separate
  OBVIOUS
<1> USE RowsApart, IdleJob
<1>1. PICK stock \in 0..MaxStock, drafts \in SUBSET Order : db = InitialRows(stock, drafts)
  BY DEF Init
<1>2. /\ owner = [r \in Row |-> NoProc] /\ job = [t \in Proc |-> Idle] /\ gone = {}
      /\ NoProc \notin Proc
  BY TxConstants DEF Init
<1>3. Prod[1] = "products" /\ \A o \in Order : /\ Ord(o)[1] = "sales_orders" /\ Res(o)[1] = "stock_reservations"
                                               /\ Sho(o)[1] = "shortages" /\ Ord(o)[2] = o
  BY DEF Prod, Ord, Res, Sho
<1>4. /\ db[Prod] = [onHand |-> stock, reserved |-> 0]
      /\ \A o \in Order : /\ db[Res(o)] = 0 /\ db[Sho(o)] = 0
                          /\ db[Ord(o)] = OrderRow(IF o \in drafts THEN "draft" ELSE "none", "unallocated")
  BY <1>1, <1>3 DEF InitialRows
<1>5. ReservedIsSum
  <2>1. PICK f : f = [o \in Order |-> HeldBy(o)]
    OBVIOUS
  <2>2. f \in [Order -> Nat] /\ (\A o \in Order : f[o] = 0) /\ Held = Total(f)
    BY <1>4, <2>1 DEF HeldBy, Held
  <2>3. Held = 0
    BY <2>2, TotalOfNothing
  <2> QED BY <1>4, <2>3 DEF ReservedIsSum
<1>6. LinesAccounted
  <2>1. ASSUME NEW o \in Order PROVE OrderOf(o).status \in {"draft", "none"}
    <3>1. OrderOf(o) = OrderRow("draft", "unallocated") \/ OrderOf(o) = OrderRow("none", "unallocated")
      BY <1>4 DEF OrderOf
    <3> QED BY <3>1 DEF OrderRow
  <2>2. \A o \in Order : ~Live(o)
    BY <2>1 DEF Live
  <2> QED BY <1>4, <2>2 DEF LinesAccounted, HeldBy
<1>7. \A t \in Proc : job[t] = Idle /\ owner[Prod] # t
  BY <1>2
<1>8. \A t \in Proc : UpToDate(t)
  BY <1>7 DEF UpToDate, Uses, At, Allocates
<1>9. Separate
  BY <1>7 DEF Separate
<1> QED BY <1>2, <1>5, <1>6, <1>7, <1>8, <1>9 DEF Exact

\* A step that commits nothing.
LEMMA Inside ==
    ASSUME TxInv, db' = db, gone' = gone
    PROVE  Careful /\ Promised
<1>1. \A o \in Order : HeldBy(o) \in Nat /\ HeldBy(o)' = HeldBy(o)
  BY DEF HeldBy, TxInv, TypeOK, Typed
<1> QED BY <1>1, PromiseSame DEF Careful

\* Rows of the product as they were, or as t has written them.
LEMMA WithinSame ==
    ASSUME Within, new'[Prod].reserved <= new'[Prod].onHand, db'[Prod] \in {db[Prod], new[Prod], new'[Prod]}
    PROVE  Within'
  BY DEF Within

\* A locking statement of other rows, and one of the product.
LEMMA WithinWrites ==
    ASSUME Within, NEW t \in Proc, NEW vs, Write(t, vs), DOMAIN vs \subseteq Row,
           Prod \in DOMAIN vs => vs[Prod].reserved <= vs[Prod].onHand
    PROVE  Within'
<1> USE RowsApart
<1>1. db' = db /\ new'[Prod] = IF Prod \in DOMAIN vs THEN vs[Prod] ELSE new[Prod]
  BY WriteEffect
<1> QED BY <1>1, WithinSame DEF Within

\* A commit of other rows.
LEMMA WithinCommits ==
    ASSUME Within, TypeOK, NEW t \in Proc, NEW vs, CommitWith(t, vs), DOMAIN vs \subseteq Row \ {Prod}
    PROVE  Within'
<1> USE RowsApart
<1>1. new'[Prod] = new[Prod] /\ db'[Prod] \in {db[Prod], new[Prod]}
  BY CommitEffect DEF TypeOK
<1> QED BY <1>1, WithinSame DEF Within

\* What is reserved is on hand: a submission and a resolution reserve what is free, a
\* shipment takes from the stock what it takes from the counter.
LEMMA WithinKept ==
    ASSUME TxInv, Sound, NEW t \in Proc,
           \/ SubmitAllocate(t) \/ ShipProduct(t) \/ CancelRelease(t)
           \/ \E o \in Order : ResolveServe(t, o)
    PROVE  Within'
<1> USE RowsApart
<1>1. /\ Within /\ new[Prod].onHand \in Nat /\ new[Prod].reserved \in Nat /\ new[Prod].reserved <= new[Prod].onHand
      /\ new[Prod] = [onHand |-> new[Prod].onHand, reserved |-> new[Prod].reserved] /\ job[t].seen \in Nat
  BY JobFields DEF Sound, Within, TxInv, TypeOK, Typed
<1>2. ASSUME NEW give \in Nat, give <= new[Prod].onHand - new[Prod].reserved, NEW vs, Write(t, vs), DOMAIN vs \subseteq Row,
             Prod \in DOMAIN vs, vs[Prod] = [new[Prod] EXCEPT !.reserved = @ + give]
      PROVE  Within'
  <2>1. vs[Prod] = [onHand |-> new[Prod].onHand, reserved |-> new[Prod].reserved + give]
    BY <1>1, <1>2
  <2>2. vs[Prod].reserved <= vs[Prod].onHand
    BY <1>1, <1>2, <2>1
  <2> QED BY <1>1, <1>2, <2>2, WithinWrites
<1>3. CASE SubmitAllocate(t)
  <2>1. PICK o \in Order : o = job[t].order
    BY <1>3 DEF TxInv, TypeOK, SubmitAllocate, At
  <2>2. PICK give : give = Least(Clip(new[Prod].onHand, new[Prod].reserved), Quantity[o])
    OBVIOUS
  <2>3. PICK vs : vs = [r \in {Prod, Ord(o), Res(o), Sho(o)} |->
                        CASE r = Prod   -> [new[Prod] EXCEPT !.reserved = @ + give]
                          [] r = Ord(o) -> new[Ord(o)]
                          [] r = Res(o) -> give
                          [] r = Sho(o) -> Quantity[o] - give]
    OBVIOUS
  <2>4. Write(t, vs)
    BY <1>3, <2>1, <2>2, <2>3 DEF SubmitAllocate
  <2>5. DOMAIN vs = {Prod, Ord(o), Res(o), Sho(o)} /\ vs[Prod] = [new[Prod] EXCEPT !.reserved = @ + give]
    BY <2>3
  <2>6. give \in Nat /\ give <= new[Prod].onHand - new[Prod].reserved
    <3>1. Quantity[o] \in Nat
      BY TxConstants
    <3> QED BY <1>1, <2>2, <3>1 DEF Least, Clip
  <2> QED BY <1>2, <2>4, <2>5, <2>6
<1>4. ASSUME NEW o \in Order, ResolveServe(t, o) PROVE Within'
  <2>1. PICK give : give = Least(new[Prod].onHand - new[Prod].reserved, new[Sho(o)])
    OBVIOUS
  <2>a. PICK vs : Write(t, vs) /\ Round(o, vs, give) /\ give > 0
    BY <1>4, <2>1, ServeVersions
  <2>2. DOMAIN vs \subseteq Row /\ Prod \in DOMAIN vs /\ vs[Prod] = [new[Prod] EXCEPT !.reserved = @ + give]
    BY <2>a DEF Round, ServeRows
  <2>3. give \in Nat /\ give <= new[Prod].onHand - new[Prod].reserved
    <3>1. new[Sho(o)] \in Nat
      BY DEF TxInv, TypeOK, Typed
    <3> QED BY <1>1, <2>1, <3>1 DEF Least
  <2> QED BY <1>2, <2>a, <2>2, <2>3
<1>5. ASSUME NEW row, Write(t, Set(Prod, row)), row.reserved <= row.onHand PROVE Within'
  <2>1. PICK vs : vs = Set(Prod, row)
    OBVIOUS
  <2>2. DOMAIN vs = {Prod} /\ vs[Prod] = row
    BY <2>1 DEF Set
  <2> QED BY <1>1, <1>5, <2>1, <2>2, WithinWrites
<1>6. ASSUME UNCHANGED <<db, new, owner>> PROVE Within'
  BY <1>1, <1>6 DEF Within
<1>7. CASE ShipProduct(t)
  <2>1. PICK o \in Order : o = job[t].order /\ job[t].seen = Quantity[o]
    BY <1>7 DEF TxInv, TypeOK, ShipProduct, Sound, Closing, At
  <2>2. PICK row : row = [onHand   |-> Clip(new[Prod].onHand, Quantity[o]),
                          reserved |-> Clip(new[Prod].reserved, job[t].seen)]
    OBVIOUS
  <2>3. row.reserved <= row.onHand
    BY <1>1, <2>1, <2>2 DEF Clip
  <2>4. Write(t, Set(Prod, row)) \/ UNCHANGED <<db, new, owner>>
    BY <1>7, <2>1, <2>2 DEF ShipProduct
  <2> QED BY <1>5, <1>6, <2>3, <2>4
<1>8. CASE CancelRelease(t)
  <2>1. PICK row : row = [new[Prod] EXCEPT !.reserved = Clip(@, job[t].seen)]
    OBVIOUS
  <2>2. row = [onHand |-> new[Prod].onHand, reserved |-> Clip(new[Prod].reserved, job[t].seen)]
    BY <1>1, <2>1
  <2>3. row.reserved <= row.onHand
    BY <1>1, <2>2 DEF Clip
  <2>4. Write(t, Set(Prod, row)) \/ UNCHANGED <<db, new, owner>>
    BY <1>8, <2>1 DEF CancelRelease
  <2> QED BY <1>5, <1>6, <2>3, <2>4
<1> QED BY <1>3, <1>4, <1>7, <1>8

\* Nobody gives the order of another its first reservation.
LEMMA NobodyFills ==
    ASSUME TxInv, NEW t \in Proc, NEW u \in Proc \ {t}, Closing(t), NEW o \in Order, Uses(u, o), owner[Res(o)] = t
    PROVE  db[Res(o)] # 0
<1>1. owner[Ord(o)] = u
  BY DEF TxInv, Session, Locks
<1>2. ~Uses(t, o)
  BY <1>1 DEF TxInv, Session, Locks
<1>3. o \in job[t].served
  BY <1>2 DEF TxInv, Session, Locks, Allocates, Uses, At
<1> QED BY <1>1, <1>3 DEF Closing

\* The others' conditions stay: their rows do, and nobody fills their order's.
LEMMA ClosingOthers ==
    ASSUME TxInv, NEW t \in Proc, Closing(t), NEW u \in Proc \ {t}, Closing(u), job'[u] = job[u],
           \A r \in Row : owner'[r] = u <=> owner[r] = u,
           \A r \in Row : owner[r] = u => db'[r] = db[r],
           \A o \in Order : db'[Res(o)] = db[Res(o)] \/ db'[Res(o)] = 0 \/ owner[Res(o)] = t
    PROVE  Closing(u)'
<1> USE RowsApart
<1>1. At(u, "ship", "cursor")' => job'[u].seen = Quantity[job'[u].order]
  BY DEF At, Closing
<1>2. ASSUME At(u, "cancel", "rows")
      PROVE  owner'[Res(job[u].order)] = u \/ db'[Res(job[u].order)] = 0
  <2>1. PICK o \in Order : o = job[u].order /\ Uses(u, o)
    BY <1>2 DEF TxInv, TypeOK, At, Uses
  <2>2. owner[Res(o)] = u \/ db[Res(o)] = 0
    BY <1>2, <2>1 DEF Closing
  <2> QED BY <2>1, <2>2, NobodyFills
<1>3. ASSUME NEW p \in job[u].served, db'[Res(p)] = 0 PROVE owner'[Ord(p)] = u
  <2>1. p \in Order /\ owner[Res(p)] = u
    BY JobFields DEF TxInv, TypeOK, Session, Locks
  <2> QED BY <1>3, <2>1 DEF Closing
<1> QED BY <1>1, <1>2, <1>3 DEF Closing, At

\* A step that commits nothing keeps them.
LEMMA ClosingInside ==
    ASSUME TxInv, \A u \in Proc : Closing(u), NEW t \in Proc, db' = db, Spares(t),
           \A u \in Proc \ {t} : job'[u] = job[u], Closing(t)'
    PROVE  \A u \in Proc : Closing(u)'
<1> SUFFICES ASSUME NEW u \in Proc \ {t} PROVE Closing(u)'
  OBVIOUS
<1> QED BY ClosingOthers DEF Spares

\* A commit that fills only what it has keeps them.
LEMMA ClosingCommits ==
    ASSUME TxInv, \A u \in Proc : Closing(u), NEW t \in Proc, NEW vs, CommitWith(t, vs), DOMAIN vs \subseteq Row,
           \A o \in Order : Res(o) \in DOMAIN vs => vs[Res(o)] = 0
    PROVE  \A u \in Proc : Closing(u)'
<1> USE RowsApart
<1>1. job \in [Proc -> Jobs] /\ NoProc \notin Proc
  BY TxConstants DEF TxInv, TypeOK
<1>2. Closing(t)'
  BY <1>1, CommitEffect, IdleJob DEF Closing, At
<1>3. ASSUME NEW u \in Proc \ {t} PROVE Closing(u)'
  <2>1. \A r \in Row : /\ owner'[r] = u <=> owner[r] = u
                       /\ owner[r] = u => db'[r] = db[r]
    BY <1>1, CommitEffect
  <2>2. \A o \in Order : db'[Res(o)] = db[Res(o)] \/ db'[Res(o)] = 0 \/ owner[Res(o)] = t
    BY <1>1, CommitEffect
  <2> QED BY <1>1, <2>1, <2>2, CommitEffect, ClosingOthers
<1> QED BY <1>2, <1>3

\* A step that commits nothing: a session that comes to ship has seen the whole line,
\* one that has cancelled its reservation has it, one that inserts one has its order.
LEMMA SoundInside ==
    ASSUME TxInv, Sound, Within', NEW t \in Proc, db' = db, Spares(t),
           NEW op, NEW order, NEW at, NEW seen, NEW todo, NEW served,
           Moves(t, op, order, at, seen, todo, served),
           op = "ship" /\ at = "cursor" => seen = Quantity[order],
           op = "cancel" /\ at = "rows" => owner'[Res(order)] = t \/ db[Res(order)] = 0,
           \A p \in served : db[Res(p)] = 0 => owner'[Ord(p)] = t
    PROVE  Sound'
<1>1. Closing(t)'
  BY DEF Closing, At, Moves
<1>2. \A u \in Proc : Closing(u)'
  BY <1>1, ClosingInside DEF Sound, Moves
<1>3. Closed'
  BY DEF Sound, Closed, OrderOf, HeldBy
<1> QED BY <1>2, <1>3 DEF Sound

\* A step that commits nothing, reserves nothing and inserts nothing.
LEMMA SoundGoes ==
    ASSUME TxInv, Sound, NEW t \in Proc, db' = db, Spares(t),
           NEW op, NEW order, NEW at, NEW seen, NEW todo, NEW served,
           Moves(t, op, order, at, seen, todo, served), served \subseteq job[t].served,
           op \in {"ship", "cancel"} => at \notin {"cursor", "rows"},
           \A r \in Row : owner[r] = t => owner'[r] = t,
           new'[Prod] = new[Prod] \/ Within'
    PROVE  Sound'
<1> USE RowsApart
<1>1. Within'
  BY DEF Within, Sound
<1>2. \A p \in served : db[Res(p)] = 0 => owner'[Ord(p)] = t
  <2>1. \A p \in served : p \in Order
    BY JobFields DEF TxInv, TypeOK
  <2> QED BY <2>1 DEF Sound, Closing
<1> QED BY <1>1, <1>2, SoundInside

\* A commit of t, whose order is o.
LEMMA SoundCommits ==
    ASSUME TxInv, Sound, NEW t \in Proc, job[t].op # "resolve", NEW o \in Order, o = job[t].order,
           NEW vs, CommitWith(t, vs), DOMAIN vs \subseteq {Ord(o), Res(o), Sho(o)},
           Res(o) \in DOMAIN vs => vs[Res(o)] = 0,
           OrderOf(o)'.status = "cancelled" => HeldBy(o)' = 0 /\ db'[Sho(o)] = 0
    PROVE  Sound'
<1> USE RowsApart
<1>1. DOMAIN vs \subseteq Row \ {Prod} /\ job \in [Proc -> Jobs] /\ \A p \in Order : Res(p) \in DOMAIN vs => vs[Res(p)] = 0
  BY DEF TxInv, TypeOK
<1>2. Within'
  BY <1>1, WithinCommits DEF Sound, TxInv
<1>3. \A u \in Proc : Closing(u)'
  BY <1>1, ClosingCommits DEF Sound
<1>4. \A p \in Order \ {o} : owner[Ord(p)] # t /\ owner[Res(p)] # t /\ owner[Sho(p)] # t
  BY DEF TxInv, Session, Locks, Uses, Allocates, At
<1>5. \A p \in Order \ {o} : db'[Ord(p)] = db[Ord(p)] /\ db'[Res(p)] = db[Res(p)] /\ db'[Sho(p)] = db[Sho(p)]
  BY <1>1, <1>4, CommitEffect
<1>6. Closed'
  BY <1>5 DEF Sound, Closed, OrderOf, HeldBy
<1> QED BY <1>2, <1>3, <1>6 DEF Sound

\* What a locking statement keeps.
LEMMA WriteKeeps ==
    ASSUME NEW t \in Proc, NEW vs, Write(t, vs), DOMAIN vs \subseteq Row
    PROVE  /\ db' = db /\ Spares(t)
           /\ \A r \in Row : owner[r] = t => owner'[r] = t
           /\ \A r \in DOMAIN vs : owner'[r] = t
           /\ Prod \notin DOMAIN vs => new'[Prod] = new[Prod]
<1>1. NoProc \notin Proc
  BY TxConstants
<1> QED BY <1>1, WriteEffect, RowsApart DEF Spares

\* Statements before the rows of an order are closed.
LEMMA SoundStatements ==
    ASSUME TxInv, Sound, NEW t \in Proc,
           \/ \E op \in Ops, o \in Order : Begin(t, op, o)
           \/ Abort(t) \/ LockOrder(t) \/ OpenCursor(t) \/ SubmitAllocate(t) \/ ShipProduct(t)
           \/ CancelRelease(t) \/ CancelRows(t) \/ DeleteCheck(t)
    PROVE  Sound'
<1> USE RowsApart
<1>j. job \in [Proc -> Jobs] /\ NoProc \notin Proc
  BY TxConstants DEF TxInv, TypeOK
<1>k. ASSUME UNCHANGED <<db, new, owner>>
      PROVE  db' = db /\ Spares(t) /\ new'[Prod] = new[Prod] /\ \A r \in Row : owner[r] = t => owner'[r] = t
  BY <1>k DEF Spares
<1>1. ASSUME NEW op \in Ops, NEW o \in Order, Begin(t, op, o) PROVE Sound'
  <2>1. Moves(t, op, o, "start", 0, {}, {}) /\ UNCHANGED <<db, new, owner>>
    BY <1>1, <1>j, JobBegins DEF Begin
  <2> QED BY <1>k, <2>1, SoundGoes
<1>2. CASE Abort(t)
  <2>1. /\ db' = db /\ job' = [job EXCEPT ![t] = Idle]
        /\ \A r \in Row : /\ owner[r] = t => owner'[r] = NoProc /\ new'[r] = db[r]
                          /\ owner[r] # t => owner'[r] = owner[r] /\ new'[r] = new[r]
    BY <1>2 DEF Abort
  <2>2. Spares(t) /\ job'[t] = Idle /\ \A u \in Proc \ {t} : job'[u] = job[u]
    BY <1>j, <2>1 DEF Spares
  <2>3. Closing(t)'
    BY <2>2, IdleJob DEF Closing, At
  <2>4. \A u \in Proc : Closing(u)'
    BY <2>1, <2>2, <2>3, ClosingInside DEF Sound
  <2>5. Within' /\ Closed'
    BY <2>1 DEF Sound, Within, Closed, OrderOf, HeldBy
  <2> QED BY <2>4, <2>5 DEF Sound
<1>3. CASE LockOrder(t)
  <2>1. PICK o \in Order : o = job[t].order
    BY <1>3, TxConstants DEF TxInv, TypeOK, LockOrder
  <2>2. PICK vs : vs = Set(Ord(o), new[Ord(o)])
    OBVIOUS
  <2>3. DOMAIN vs = {Ord(o)} /\ Write(t, vs)
    BY <1>3, <2>1, <2>2 DEF Set, LockOrder
  <2>4. Moves(t, job[t].op, job[t].order, "locked", job[t].seen, job[t].todo, job[t].served)
    BY <1>3, <1>j, JobGoes DEF LockOrder, Goto, Places
  <2> QED BY <2>3, <2>4, WriteKeeps, SoundGoes
<1>4. CASE OpenCursor(t)
  <2>1. PICK o \in Order : o = job[t].order
    BY <1>4 DEF TxInv, TypeOK, OpenCursor
  <2>2. job[t].op \in {"ship", "cancel"} /\ job[t].at = "locked" /\ UNCHANGED <<db, new, owner>>
    BY <1>4 DEF OpenCursor
  <2>3. owner[Res(o)] # t
    <3>1. job[t].served = {}
      BY <2>2, JobFields DEF TxInv, TypeOK, Session, Locks, At
    <3> QED BY <2>2, <3>1 DEF TxInv, Session, Locks, Allocates, At
  <2>4. Sees(t, Res(o)) = db[Res(o)] /\ db[Res(o)] \in Nat /\ db[Sho(o)] \in Nat
    BY <2>3 DEF Sees, TxInv, TypeOK, Typed
  <2>5. job[t].op = "ship" => db[Res(o)] = Quantity[o]
    <3>1. job[t].op = "ship" => db[Ord(o)].fulfil = "allocated"
      BY <2>1, <2>2 DEF TxInv, Session, Lowered
    <3> QED BY <2>4, <3>1 DEF TxInv, Whole, OrderOf, HeldBy
  <2>6. Moves(t, job[t].op, o, "cursor", db[Res(o)], job[t].todo, job[t].served)
    BY <1>4, <1>j, <2>1, <2>4, JobLooks DEF OpenCursor, Places
  <2>7. \A p \in job[t].served : db[Res(p)] = 0 => owner'[Ord(p)] = t
    BY <2>2 DEF Sound, Closing
  <2>8. Within' /\ Spares(t)
    BY <1>k, <2>2 DEF Sound, Within
  <2> QED BY <2>2, <2>5, <2>6, <2>7, <2>8, SoundInside
<1>5. CASE SubmitAllocate(t)
  <2>1. PICK o \in Order : o = job[t].order
    BY <1>5 DEF TxInv, TypeOK, SubmitAllocate, At
  <2>2. PICK give : give = Least(Clip(new[Prod].onHand, new[Prod].reserved), Quantity[o])
    OBVIOUS
  <2>3. PICK vs : vs = [r \in {Prod, Ord(o), Res(o), Sho(o)} |->
                        CASE r = Prod   -> [new[Prod] EXCEPT !.reserved = @ + give]
                          [] r = Ord(o) -> new[Ord(o)]
                          [] r = Res(o) -> give
                          [] r = Sho(o) -> Quantity[o] - give]
    OBVIOUS
  <2>4. Write(t, vs)
    BY <1>5, <2>1, <2>2, <2>3 DEF SubmitAllocate
  <2>5. DOMAIN vs \subseteq Row
    BY <2>3
  <2>6. Moves(t, job[t].op, job[t].order, "allocated", job[t].seen, job[t].todo, job[t].served)
    BY <1>5, <1>j, JobGoes DEF SubmitAllocate, Goto, Places
  <2>7. Within'
    BY <1>5, WithinKept
  <2> QED BY <2>4, <2>5, <2>6, <2>7, WriteKeeps, SoundGoes
<1>6. ASSUME NEW row, Write(t, Set(Prod, row)) PROVE db' = db /\ Spares(t) /\ \A r \in Row : owner[r] = t => owner'[r] = t
  <2>1. PICK vs : vs = Set(Prod, row)
    OBVIOUS
  <2>2. DOMAIN vs = {Prod} /\ Write(t, vs)
    BY <1>6, <2>1 DEF Set
  <2> QED BY <2>2, WriteKeeps
<1>7. CASE ShipProduct(t)
  <2>1. Moves(t, job[t].op, job[t].order, "updated", job[t].seen, job[t].todo, job[t].served)
    BY <1>7, <1>j, JobGoes DEF ShipProduct, Goto, Places
  <2>2. db' = db /\ Spares(t) /\ \A r \in Row : owner[r] = t => owner'[r] = t
    BY <1>7, <1>k, <1>6 DEF ShipProduct
  <2>3. Within'
    BY <1>7, WithinKept
  <2> QED BY <2>1, <2>2, <2>3, SoundGoes
<1>8. CASE CancelRelease(t)
  <2>1. Moves(t, job[t].op, job[t].order, "released", job[t].seen, job[t].todo, job[t].served)
    BY <1>8, <1>j, JobGoes DEF CancelRelease, Goto, Places
  <2>2. db' = db /\ Spares(t) /\ \A r \in Row : owner[r] = t => owner'[r] = t
    BY <1>8, <1>k, <1>6 DEF CancelRelease
  <2>3. Within'
    BY <1>8, WithinKept
  <2> QED BY <2>1, <2>2, <2>3, SoundGoes
<1>9. CASE CancelRows(t)
  <2>1. PICK o \in Order : o = job[t].order
    BY <1>9 DEF TxInv, TypeOK, CancelRows, At
  <2>2. Moves(t, job[t].op, o, "rows", job[t].seen, job[t].todo, job[t].served)
    BY <1>9, <1>j, <2>1, JobGoes DEF CancelRows, Goto, Places
  <2>3. PICK vs : vs = Set(Res(o), 0)
    OBVIOUS
  <2>4. DOMAIN vs = {Res(o)} /\ (Write(t, vs) \/ (Sees(t, Res(o)) = 0 /\ UNCHANGED <<db, new, owner>>))
    BY <1>9, <2>1, <2>3 DEF Set, CancelRows
  <2>5. /\ db' = db /\ Spares(t) /\ new'[Prod] = new[Prod] /\ \A r \in Row : owner[r] = t => owner'[r] = t
        /\ owner'[Res(o)] = t \/ db[Res(o)] = 0
    <3>1. CASE Write(t, vs)
      BY <2>4, <3>1, WriteKeeps
    <3>2. CASE Sees(t, Res(o)) = 0 /\ UNCHANGED <<db, new, owner>>
      BY <1>k, <3>2 DEF Sees
    <3> QED BY <2>4, <3>1, <3>2
  <2>6. \A p \in job[t].served : db[Res(p)] = 0 => owner'[Ord(p)] = t
    <3>1. \A p \in job[t].served : p \in Order
      BY <1>j, JobFields
    <3> QED BY <2>5, <3>1 DEF Sound, Closing
  <2>7. Within'
    BY <2>5 DEF Sound, Within
  <2> QED BY <2>2, <2>5, <2>6, <2>7, SoundInside
<1>10. CASE DeleteCheck(t)
  <2>1. Moves(t, job[t].op, job[t].order, "checked", job[t].seen, job[t].todo, job[t].served)
    BY <1>10, <1>j, JobGoes DEF DeleteCheck, Goto, Places
  <2>2. UNCHANGED <<db, new, owner>> /\ job[t].op = "delete"
    BY <1>10 DEF DeleteCheck, At
  <2> QED BY <1>k, <2>1, <2>2, SoundGoes
<1> QED BY <1>1, <1>2, <1>3, <1>4, <1>5, <1>7, <1>8, <1>9, <1>10

\* The statements of a resolution.
LEMMA SoundResolution ==
    ASSUME TxInv, Sound, NEW t \in Proc,
           \/ ResolveLock(t) \/ ResolveQuery(t)
           \/ \E o \in Order : ResolveLockShortage(t, o) \/ ResolveServe(t, o) \/ ResolvePromote(t, o)
    PROVE  Sound'
<1> USE RowsApart
<1>j. job \in [Proc -> Jobs] /\ job[t].op = "resolve" /\ job[t].served \subseteq Order
  BY JobFields DEF TxInv, TypeOK, ResolveLock, ResolveQuery, ResolveLockShortage, ResolveServe, ResolvePromote, At
<1>k. ASSUME UNCHANGED <<db, new, owner>>
      PROVE  db' = db /\ Spares(t) /\ new'[Prod] = new[Prod] /\ \A r \in Row : owner[r] = t => owner'[r] = t
  BY <1>k DEF Spares
<1>1. CASE ResolveLock(t)
  <2>1. PICK vs : vs = Set(Prod, new[Prod])
    OBVIOUS
  <2>2. DOMAIN vs = {Prod} /\ vs[Prod] = new[Prod] /\ Write(t, vs)
    BY <1>1, <2>1 DEF Set, ResolveLock
  <2>3. Moves(t, job[t].op, job[t].order, "locked", job[t].seen, job[t].todo, job[t].served)
    BY <1>1, <1>j, JobGoes DEF ResolveLock, Goto, Places
  <2>4. new'[Prod] = new[Prod]
    BY <2>2, WriteEffect
  <2> QED BY <1>j, <2>2, <2>3, <2>4, WriteKeeps, SoundGoes
<1>2. CASE ResolveQuery(t)
  <2>1. PICK todo \in SUBSET Order : todo = {o \in Order : db[Sho(o)] > 0 /\ db[Ord(o)].status = "approved"}
    OBVIOUS
  <2>2. job' = [job EXCEPT ![t].at = "query", ![t].todo = todo] /\ UNCHANGED <<db, new, owner>>
    BY <1>2, <2>1 DEF ResolveQuery
  <2>3. Moves(t, job[t].op, job[t].order, "query", job[t].seen, todo, job[t].served)
    BY <1>j, <2>2, JobQueries DEF Places
  <2> QED BY <1>j, <1>k, <2>2, <2>3, SoundGoes
<1>3. ASSUME NEW o \in Order, ResolveLockShortage(t, o) PROVE Sound'
  <2>1. PICK todo \in SUBSET Order : todo = job[t].todo \ {o}
    BY <1>j, JobFields
  <2>2. job' = [job EXCEPT ![t].todo = todo]
    BY <1>3, <2>1 DEF ResolveLockShortage
  <2>3. Moves(t, job[t].op, job[t].order, job[t].at, job[t].seen, todo, job[t].served)
    BY <1>j, <2>2, JobLists
  <2>4. PICK vs : vs = Set(Sho(o), db[Sho(o)])
    OBVIOUS
  <2>5. DOMAIN vs = {Sho(o)} /\ (Write(t, vs) \/ UNCHANGED <<db, new, owner>>)
    BY <1>3, <2>4 DEF Set, ResolveLockShortage
  <2>6. db' = db /\ Spares(t) /\ new'[Prod] = new[Prod] /\ \A r \in Row : owner[r] = t => owner'[r] = t
    BY <1>k, <2>5, WriteKeeps
  <2> QED BY <1>j, <2>3, <2>6, SoundGoes
<1>4. ASSUME NEW o \in Order, ResolveServe(t, o) PROVE Sound'
  <2>1. PICK give : give = Least(new[Prod].onHand - new[Prod].reserved, new[Sho(o)])
    OBVIOUS
  <2>2. PICK vs : Write(t, vs) /\ Round(o, vs, give)
    BY <1>4, <2>1, ServeVersions
  <2>3. PICK served \in SUBSET Order : served = job[t].served \cup {o}
    BY <1>j
  <2>4. job' = [job EXCEPT ![t].served = served]
    BY <1>4, <2>3 DEF ResolveServe
  <2>5. Moves(t, job[t].op, job[t].order, job[t].at, job[t].seen, job[t].todo, served)
    BY <1>j, <2>4, JobServes
  <2>6. DOMAIN vs = ServeRows(o) /\ DOMAIN vs \subseteq Row /\ Res(o) \in DOMAIN vs
    BY <2>2 DEF Round, ServeRows
  <2>7. db' = db /\ Spares(t) /\ \A r \in Row : owner[r] = t => owner'[r] = t
    BY <2>2, <2>6, WriteKeeps
  <2>8. ASSUME NEW p \in served, db[Res(p)] = 0 PROVE owner'[Ord(p)] = t
    <3>1. CASE p \in job[t].served
      BY <1>j, <2>7, <2>8, <3>1 DEF Sound, Closing
    <3>2. CASE p = o /\ p \notin job[t].served
      <4>1. owner[Res(o)] \in {NoProc, t} /\ owner[Res(o)] # t
        <5>1. owner[Res(o)] \in {NoProc, t}
          BY <2>2, <2>6, WriteEffect
        <5> QED BY <1>j, <3>2, <5>1 DEF TxInv, Session, Locks, Allocates, At
      <4>2. new[Res(o)] = 0
        BY <2>8, <3>2, <4>1, FreeIsCommitted
      <4>3. Ord(o) \in DOMAIN vs
        BY <2>6, <4>2 DEF ServeRows
      <4> QED BY <2>2, <2>6, <3>2, <4>3, WriteKeeps
    <3> QED BY <2>3, <3>1, <3>2
  <2>9. Within'
    BY <1>4, WithinKept
  <2> QED BY <1>j, <2>5, <2>7, <2>8, <2>9, SoundInside
<1>5. ASSUME NEW o \in Order, ResolvePromote(t, o) PROVE Sound'
  <2>1. PICK vs : vs = Set(Ord(o), [db[Ord(o)] EXCEPT !.fulfil = "allocated"])
    OBVIOUS
  <2>2. DOMAIN vs = {Ord(o)} /\ Write(t, vs) /\ job' = job
    BY <1>5, <2>1 DEF Set, ResolvePromote
  <2>3. Moves(t, job[t].op, job[t].order, job[t].at, job[t].seen, job[t].todo, job[t].served)
    BY <1>j, <2>2 DEF Moves
  <2> QED BY <1>j, <2>2, <2>3, WriteKeeps, SoundGoes
<1> QED BY <1>1, <1>2, <1>3, <1>4, <1>5

\* The commits: a cancellation leaves no open row, and what is served afterwards is not
\* of a cancelled order.
LEMMA SoundAfterCommits ==
    ASSUME TxInv, Sound, NEW t \in Proc,
           \/ SubmitCommit(t) \/ Approve(t) \/ ShipCommit(t) \/ CancelCommit(t) \/ DeleteRow(t)
           \/ ResolveCommit(t) \/ \E q \in {-1, 1} : Move(t, q)
    PROVE  Sound'
<1> USE RowsApart
<1>j. job \in [Proc -> Jobs]
  BY DEF TxInv, TypeOK
<1>1. ASSUME NEW o \in Order, o = job[t].order, job[t].op # "resolve", NEW row,
             CommitWith(t, Set(Ord(o), row)), row.status # "cancelled"
      PROVE  Sound'
  <2>1. PICK vs : vs = Set(Ord(o), row)
    OBVIOUS
  <2>2. DOMAIN vs = {Ord(o)} /\ vs[Ord(o)] = row /\ CommitWith(t, vs)
    BY <1>1, <2>1 DEF Set
  <2>3. OrderOf(o)' = row
    BY <1>j, <2>2, CommitEffect DEF OrderOf
  <2> QED BY <1>1, <2>2, <2>3, SoundCommits
<1>2. CASE SubmitCommit(t)
  <2>1. PICK o \in Order : o = job[t].order /\ job[t].op # "resolve"
    BY <1>2 DEF TxInv, TypeOK, SubmitCommit
  <2>2. PICK row : /\ row = OrderRow("pending_approval", IF new[Sho(o)] > 0 THEN "partially_allocated" ELSE "allocated")
                   /\ row.status = "pending_approval"
    <3>1. \A x : OrderRow("pending_approval", x).status = "pending_approval"
      BY DEF OrderRow
    <3> QED BY <3>1
  <2> QED BY <1>1, <1>2, <2>1, <2>2 DEF SubmitCommit
<1>3. CASE Approve(t)
  <2>1. PICK o \in Order : o = job[t].order /\ job[t].op # "resolve"
    BY <1>3 DEF TxInv, TypeOK, Approve, At
  <2>2. PICK row : row = [new[Ord(o)] EXCEPT !.status = "approved"] /\ row.status = "approved"
    <3>1. PICK v \in OrderRows : v = new[Ord(o)]
      BY DEF TxInv, TypeOK, Typed
    <3>2. [v EXCEPT !.status = "approved"].status = "approved"
      BY DEF OrderRows
    <3> QED BY <3>1, <3>2
  <2> QED BY <1>1, <1>3, <2>1, <2>2 DEF Approve
<1>4. CASE ShipCommit(t)
  <2>1. PICK o \in Order : o = job[t].order /\ job[t].op # "resolve"
    BY <1>4 DEF TxInv, TypeOK, ShipCommit, At
  <2>2. PICK open : open = {r \in {Res(o), Sho(o)} : Sees(t, r) > 0}
    OBVIOUS
  <2>3. PICK vs : vs = [r \in open \cup {Ord(o)} |-> IF r = Ord(o) THEN [new[r] EXCEPT !.fulfil = "shipped"] ELSE 0]
    OBVIOUS
  <2>4. CommitWith(t, vs)
    BY <1>4, <2>1, <2>2, <2>3 DEF ShipCommit
  <2>5. DOMAIN vs \subseteq {Ord(o), Res(o), Sho(o)} /\ (Res(o) \in DOMAIN vs => vs[Res(o)] = 0)
    BY <2>2, <2>3
  <2>6. HeldBy(o)' = 0 /\ db'[Sho(o)] = 0
    BY <1>4, <2>1, ShipCommitKeeps DEF HeldBy
  <2> QED BY <2>1, <2>4, <2>5, <2>6, SoundCommits
<1>5. CASE CancelCommit(t)
  <2>1. PICK o \in Order : o = job[t].order /\ job[t].op # "resolve" /\ At(t, "cancel", "rows")
    BY <1>5 DEF TxInv, TypeOK, CancelCommit, At
  <2>2. PICK open : open = {r \in {Sho(o)} : Sees(t, r) > 0}
    OBVIOUS
  <2>3. PICK vs : vs = [r \in open \cup {Ord(o)} |-> IF r = Ord(o) THEN OrderRow("cancelled", "unallocated") ELSE 0]
    OBVIOUS
  <2>4. CommitWith(t, vs)
    BY <1>5, <2>1, <2>2, <2>3 DEF CancelCommit
  <2>5. DOMAIN vs \subseteq {Ord(o), Res(o), Sho(o)} /\ Res(o) \notin DOMAIN vs
    BY <2>2, <2>3
  <2>6. HeldBy(o)' = 0 /\ db'[Sho(o)] = 0
    BY <1>5, <2>1, CancelCommitKeeps DEF HeldBy, Sound, Closing
  <2> QED BY <2>1, <2>4, <2>5, <2>6, SoundCommits
<1>6. CASE DeleteRow(t)
  <2>1. PICK o \in Order : o = job[t].order /\ job[t].op # "resolve"
    BY <1>6 DEF TxInv, TypeOK, DeleteRow, At
  <2>2. PICK vs : vs = [r \in {Ord(o), Res(o), Sho(o)} |-> IF r = Ord(o) THEN OrderRow("deleted", "unallocated") ELSE 0]
    OBVIOUS
  <2>3. CommitWith(t, vs) /\ DOMAIN vs = {Ord(o), Res(o), Sho(o)} /\ vs[Res(o)] = 0 /\ vs[Sho(o)] = 0
    BY <1>6, <2>1, <2>2 DEF DeleteRow
  <2>4. HeldBy(o)' = 0 /\ db'[Sho(o)] = 0
    BY <1>j, <2>3, CommitEffect DEF HeldBy
  <2> QED BY <2>1, <2>3, <2>4, SoundCommits
<1>7. CASE ResolveCommit(t)
  <2>1. PICK vs : vs = <<>>
    OBVIOUS
  <2>2. CommitWith(t, vs) /\ DOMAIN vs = {}
    BY <1>7, <2>1 DEF ResolveCommit
  <2>3. Within' /\ \A u \in Proc : Closing(u)'
    BY <2>2, WithinCommits, ClosingCommits DEF Sound, TxInv
  <2>4. Closed'
    <3>1. ASSUME NEW p \in Order, OrderOf(p)'.status = "cancelled" PROVE HeldBy(p)' = 0 /\ db'[Sho(p)] = 0
      <4>1. HeldBy(p) = 0 /\ db[Sho(p)] = 0
        BY <1>7, <3>1, ResolveCommitKeeps DEF Sound, Closed
      <4> QED BY <1>7, <4>1, ResolveCommitKeeps DEF HeldBy
    <3> QED BY <3>1 DEF Closed, OrderOf, HeldBy
  <2> QED BY <2>3, <2>4 DEF Sound
<1>8. ASSUME NEW q \in {-1, 1}, Move(t, q) PROVE Sound'
  <2>1. PICK vs : vs = Set(Prod, [new[Prod] EXCEPT !.onHand = @ + q])
    OBVIOUS
  <2>2. CommitWith(t, vs) /\ DOMAIN vs = {Prod}
    BY <1>8, <2>1 DEF Set, Move
  <2>3. Within' /\ \A r \in Row \ {Prod} : db'[r] = db[r]
    BY <1>8, MoveKeeps
  <2>4. \A u \in Proc : Closing(u)'
    BY <2>2, ClosingCommits DEF Sound
  <2>5. Closed'
    BY <2>3 DEF Sound, Closed, OrderOf, HeldBy
  <2> QED BY <2>3, <2>4, <2>5 DEF Sound
<1> QED BY <1>2, <1>3, <1>4, <1>5, <1>6, <1>7, <1>8

\* A step of any session, or none.
LEMMA SoundStep ==
    ASSUME TxInv, Sound, [Next]_vars
    PROVE  Sound'
<1>1. CASE Next
  BY <1>1, SoundStatements, SoundResolution, SoundAfterCommits DEF Next
<1>2. CASE UNCHANGED vars
  BY <1>2 DEF vars, Sound, Within, Closed, Closing, At, OrderOf, HeldBy
<1> QED BY <1>1, <1>2

\* The first state has nothing reserved and nothing cancelled.
LEMMA InitSound == Init => Sound
<1> SUFFICES ASSUME Init PROVE Sound
  OBVIOUS
<1>1. PICK stock \in 0..MaxStock, drafts \in SUBSET Order : db = InitialRows(stock, drafts)
  BY DEF Init
<1>2. Prod[1] = "products" /\ \A o \in Order : Ord(o)[1] = "sales_orders" /\ Ord(o)[2] = o
  BY DEF Prod, Ord
<1>3. db[Prod] = [onHand |-> stock, reserved |-> 0] /\ stock \in Nat /\ new = db
  BY <1>1, TxConstants, RowsApart DEF InitialRows, Init
<1>4. \A o \in Order : db[Ord(o)] = OrderRow(IF o \in drafts THEN "draft" ELSE "none", "unallocated")
  BY <1>1, <1>2, RowsApart DEF InitialRows
<1>5. ASSUME NEW o \in Order PROVE OrderOf(o).status # "cancelled"
  <2>1. OrderOf(o) = OrderRow("draft", "unallocated") \/ OrderOf(o) = OrderRow("none", "unallocated")
    BY <1>4 DEF OrderOf
  <2> QED BY <2>1 DEF OrderRow
<1>6. \A t \in Proc : job[t] = Idle
  BY DEF Init
<1> QED BY <1>3, <1>5, <1>6, IdleJob DEF Sound, Within, Closed, Closing, At

\* What a step of a session does to what is committed.
Ships == \A o \in Order : o \in gone' \ gone => HeldBy(o) = Quantity[o]

\* A step of any session.
LEMMA StepTx ==
    ASSUME TxInv, Next
    PROVE  TxInv' /\ Careful /\ Ships /\ (Exact /\ Separate /\ Within => Exact' /\ Promised)
<1>1. PICK t \in Proc :
        \/ \E op \in Ops, o \in Order : Begin(t, op, o)
        \/ Abort(t)
        \/ LockOrder(t)
        \/ OpenCursor(t)
        \/ SubmitAllocate(t)
        \/ SubmitCommit(t)
        \/ Approve(t)
        \/ ShipProduct(t)
        \/ ShipCommit(t)
        \/ CancelRelease(t)
        \/ CancelRows(t)
        \/ CancelCommit(t)
        \/ ResolveLock(t)
        \/ ResolveQuery(t)
        \/ \E o \in Order : ResolveLockShortage(t, o) \/ ResolveServe(t, o) \/ ResolvePromote(t, o)
        \/ ResolveCommit(t)
        \/ DeleteCheck(t)
        \/ DeleteRow(t)
        \/ \E q \in {-1, 1} : Move(t, q)
  BY DEF Next
<1>2. ASSUME gone' = gone PROVE Ships
  BY <1>2 DEF Ships
<1>3. ASSUME NEW op \in Ops, NEW o \in Order, Begin(t, op, o) PROVE TxInv' /\ Careful /\ Ships /\ (Exact /\ Separate /\ Within => Exact' /\ Promised)
  BY <1>2, <1>3, BeginKeeps, Inside DEF Begin
<1>4. CASE Abort(t)
  BY <1>2, <1>4, AbortKeeps, Inside DEF Abort
<1>5. CASE LockOrder(t)
  BY <1>2, <1>5, LockOrderKeeps, Inside DEF LockOrder, Write
<1>6. CASE OpenCursor(t)
  BY <1>2, <1>6, OpenCursorKeeps, Inside DEF OpenCursor
<1>7. CASE SubmitAllocate(t)
  BY <1>2, <1>7, SubmitAllocateKeeps, Inside DEF SubmitAllocate, Write
<1>8. CASE SubmitCommit(t)
  BY <1>2, <1>8, SubmitCommitKeeps DEF SubmitCommit
<1>9. CASE Approve(t)
  BY <1>2, <1>9, ApproveKeeps DEF Approve
<1>10. CASE ShipProduct(t)
  BY <1>2, <1>10, ShipProductKeeps, Inside DEF ShipProduct, Write
<1>11. CASE ShipCommit(t)
  BY <1>11, ShipCommitKeeps DEF Ships
<1>12. CASE CancelRelease(t)
  BY <1>2, <1>12, CancelReleaseKeeps, Inside DEF CancelRelease, Write
<1>13. CASE CancelRows(t)
  BY <1>2, <1>13, CancelRowsKeeps, Inside DEF CancelRows, Write
<1>14. CASE CancelCommit(t)
  BY <1>2, <1>14, CancelCommitKeeps DEF CancelCommit
<1>15. CASE ResolveLock(t)
  BY <1>2, <1>15, ResolveLockKeeps, Inside DEF ResolveLock, Write
<1>16. CASE ResolveQuery(t)
  BY <1>2, <1>16, ResolveQueryKeeps, Inside DEF ResolveQuery
<1>17. ASSUME NEW o \in Order, ResolveLockShortage(t, o) PROVE TxInv' /\ Careful /\ Ships /\ (Exact /\ Separate /\ Within => Exact' /\ Promised)
  BY <1>2, <1>17, ResolveLockShortageKeeps, Inside DEF ResolveLockShortage, Write
<1>18. ASSUME NEW o \in Order, ResolveServe(t, o) PROVE TxInv' /\ Careful /\ Ships /\ (Exact /\ Separate /\ Within => Exact' /\ Promised)
  BY <1>2, <1>18, ResolveServeKeeps, Inside DEF ResolveServe, Write
<1>19. ASSUME NEW o \in Order, ResolvePromote(t, o) PROVE TxInv' /\ Careful /\ Ships /\ (Exact /\ Separate /\ Within => Exact' /\ Promised)
  BY <1>2, <1>19, ResolvePromoteKeeps, Inside DEF ResolvePromote, Write
<1>20. CASE ResolveCommit(t)
  BY <1>2, <1>20, ResolveCommitKeeps DEF ResolveCommit
<1>21. CASE DeleteCheck(t)
  BY <1>2, <1>21, DeleteCheckKeeps, Inside DEF DeleteCheck
<1>22. CASE DeleteRow(t)
  BY <1>2, <1>22, DeleteRowKeeps DEF DeleteRow
<1>23. ASSUME NEW q \in {-1, 1}, Move(t, q) PROVE TxInv' /\ Careful /\ Ships /\ (Exact /\ Separate /\ Within => Exact' /\ Promised)
  BY <1>2, <1>23, MoveKeeps DEF Move
<1> QED BY <1>1, <1>3, <1>4, <1>5, <1>6, <1>7, <1>8, <1>9, <1>10, <1>11, <1>12, <1>13, <1>14,
           <1>15, <1>16, <1>17, <1>18, <1>19, <1>20, <1>21, <1>22, <1>23

\* When nothing happens.
LEMMA RestTx ==
    ASSUME TxInv, UNCHANGED vars
    PROVE  TxInv' /\ Careful /\ Ships /\ Promised /\ (Exact => Exact')
<1>1. UNCHANGED <<db, new, owner, job, gone>>
  BY DEF vars
<1>2. TypeOK' /\ Free' /\ Whole' /\ CounterCovers'
  BY <1>1 DEF TxInv, TypeOK, Typed, Free, Whole, OrderOf, HeldBy, CounterCovers, Held
<1>3. ASSUME NEW t \in Proc PROVE Session(t)'
  <2>1. \A o \in Order : HeldBy(o)' = HeldBy(o) /\ HeldBy(o) \in Nat
    BY <1>1 DEF HeldBy, TxInv, TypeOK, Typed
  <2> QED BY <1>1, <1>2, <2>1, Frame DEF TxInv
<1>4. ASSUME Exact PROVE Exact'
  <2>1. \A o \in Order : HeldBy(o)' = HeldBy(o) /\ OrderOf(o)' = OrderOf(o)
    BY <1>1 DEF HeldBy, OrderOf
  <2>2. Held' = Held
    BY <2>1 DEF Held
  <2>3. ReservedIsSum' /\ LinesAccounted' /\ \A o \in gone' : OrderOf(o)' = OrderRow("approved", "shipped")
    BY <1>1, <1>4, <2>1, <2>2 DEF Exact, ReservedIsSum, LinesAccounted, Live, TxInv, TypeOK
  <2>4. ASSUME NEW t \in Proc
        PROVE  UpToDate(t)' /\ (owner'[Prod] = t => LeftBy(t)' = new'[Prod].reserved)
    <3>1. At(t, "delete", "checked") => OrderOf(job[t].order)'.status \in {"draft", "cancelled", "deleted"}
      BY <1>1, <1>4 DEF Exact, UpToDate, OrderOf
    <3> QED BY <1>1, <1>4, <2>1, <3>1, FrameExact
  <2> QED BY <2>3, <2>4 DEF Exact
<1> QED BY <1>1, <1>2, <1>3, <1>4, Inside DEF TxInv, Ships

\* The inductive invariant: whatever overlaps, a session has the rows it relies on,
\* has written in them what it may, and leaves the counter no lower than the
\* reservations will be when it commits.
THEOREM SessionsKeepTheirRows == Spec => []TxInv
<1>1. TxInv /\ [Next]_vars => TxInv'
  BY StepTx, RestTx
<1> QED BY <1>1, InitTx, PTL DEF Spec

\* Besides, what is reserved is on hand and a cancelled order has no open row.
THEOREM SessionsStaySound == Spec => [](TxInv /\ Sound)
<1>1. TxInv /\ Sound /\ [Next]_vars => (TxInv /\ Sound)'
  BY StepTx, RestTx, SoundStep
<1> QED BY <1>1, InitTx, InitSound, PTL DEF Spec

\* Whatever overlaps, a cancelled order holds nothing: cancel_order closes what is open
\* in its own snapshot, and who would insert a reservation for the order meanwhile
\* waits for its row, by the reference from stock_reservations to sales_orders.
THEOREM CancelledHoldNothing == Spec => []CancelReleasesAll
<1>1. Sound => CancelReleasesAll
  BY DEF Sound, Closed, CancelReleasesAll
<1> QED BY <1>1, SessionsStaySound, PTL

\* Whatever overlaps, the counter is never below the open reservations: the product
\* is locked by everybody who raises or lowers it, and a loop query that is out of
\* date has seen too little, never too much.
THEOREM CounterIsEnough == Spec => []CounterCovers
<1>1. TxInv => CounterCovers
  BY DEF TxInv
<1> QED BY <1>1, SessionsKeepTheirRows, PTL

\* Whatever overlaps, pieces are promised only while the stock carries all
\* reservations: allocate_order_lines and try_resolve_shortages read what is free
\* under the product's lock, and the counter covers the reservations.
THEOREM NobodyIsPromisedTheSame == Spec => NeverOversells
<1>1. TxInv /\ [Next]_vars => [(\E o \in Order : HeldBy(o)' > HeldBy(o)) => Held' <= db[Prod].onHand]_vars
  BY StepTx, RestTx DEF Careful
<1> QED BY <1>1, SessionsKeepTheirRows, PTL DEF Spec, NeverOversells

\* Whatever overlaps, what ship_order_full ships has its whole line reserved: the
\* order's row is locked while it is allocated, and nobody else lowers it.
THEOREM WholeLinesLeave == Spec => ShipsWhole
<1>1. TxInv /\ [Next]_vars => [\A o \in Order : o \in gone' \ gone => HeldBy(o) = Quantity[o]]_vars
  BY StepTx, RestTx DEF Ships
<1> QED BY <1>1, SessionsKeepTheirRows, PTL DEF Spec, ShipsWhole

\* What holds in a behaviour that keeps them apart.
Apart == apart => Exact /\ Separate

\* The inductive invariant when no cancellation overlaps a resolution and no deletion
\* a submission: what each session has seen of its order is still so when it commits.
THEOREM ApartNothingDrifts == MCSpec => [](TxInv /\ Sound /\ Apart)
<1>1. MCInit => TxInv /\ Sound /\ Apart
  BY InitTx, InitSound, InitExact DEF MCInit, Apart
<1>2. TxInv /\ Sound /\ Apart /\ [MCNext]_<<vars, apart>> => (TxInv /\ Sound /\ Apart)'
  <2> SUFFICES ASSUME TxInv, Sound, Apart, [MCNext]_<<vars, apart>> PROVE TxInv' /\ Sound' /\ Apart'
    OBVIOUS
  <2>1. CASE MCNext
    BY <2>1, StepTx, SoundStep DEF MCNext, Apart, Sound
  <2>2. CASE UNCHANGED <<vars, apart>>
    <3>1. UNCHANGED vars /\ UNCHANGED apart /\ UNCHANGED job
      BY <2>2 DEF vars
    <3>2. Separate => Separate'
      BY <3>1 DEF Separate
    <3> QED BY <3>1, <3>2, RestTx, SoundStep DEF Apart
  <2> QED BY <2>1, <2>2
<1> QED BY <1>1, <1>2, PTL DEF MCSpec

\* Kept apart, the counter is the sum of the reservations and every live order has its
\* line in its reservation and its shortage, after every commit.
THEOREM ApartRowsAreExact == MCSpec => []RowsExactApart
<1>1. Apart => RowsExactApart
  BY DEF Apart, Exact, RowsExactApart
<1> QED BY <1>1, ApartNothingDrifts, PTL

\* Kept apart, the transactions implement StockPromise: each commit is one of its
\* steps, and no other step is seen.
THEOREM ApartCommitsAreAtomic == MCSpec => KeepsPromiseApart
<1>1. TxInv /\ Sound /\ Apart /\ [MCNext]_<<vars, apart>> =>
         [apart => Promise!Next \/ Promise!vars' = Promise!vars]_vars
  <2> SUFFICES ASSUME TxInv, Sound, Apart, MCNext, apart PROVE Promised
    BY DEF Promised, MCNext
  <2> QED BY StepTx DEF MCNext, Apart, Sound
<1> QED BY <1>1, ApartNothingDrifts, PTL DEF MCSpec, KeepsPromiseApart
=============================================================================
