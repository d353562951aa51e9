-------------------------- MODULE PurchasingProofs --------------------------
(***************************************************************************)
(* Theorems about Purchasing, for any orders, lines, requests and          *)
(* quantities: the two answers to what is on its way agree, an order that  *)
(* has ended stays ended, and a recommendation is ordered anew only when   *)
(* the order in force is cancelled or has lost its link to it.             *)
(***************************************************************************)
EXTENDS Purchasing, FiniteSetTheorems, TLAPS

\* What the lemmas take of the constants: quantities are natural numbers.
PurchasingConstants == Amounts \subseteq [Line -> Nat]

LEMMA StatusNames ==
    /\ Status = {"draft", "sent", "confirmed", "partially_received", "received", "cancelled"}
    /\ Transitions["draft"] = {"sent", "confirmed", "cancelled"}
    /\ Transitions["sent"] = {"confirmed", "cancelled", "draft"}
    /\ Transitions["confirmed"] = {"partially_received", "received", "cancelled"}
    /\ Transitions["partially_received"] = {"received", "cancelled"}
    /\ Transitions["received"] = {} /\ Transitions["cancelled"] = {}
  BY DEF Status, Transitions

\* The line of an order that stays as it is.
LEMMA LineStays ==
    ASSUME NEW p \in Purchase, NEW l \in Line, LineFollowed(p, l),
           po'[p] = po[p], commitment'[p] = commitment[p], byHand' = byHand
    PROVE  LineFollowed(p, l)'
  BY DEF LineFollowed

\* A step that changes one order and its commitments.
LEMMA OrderMoves ==
    ASSUME PurchaseInv, NEW p \in Purchase, NEW o \in Order, NEW k \in [Line -> Commitment],
           po' = [po EXCEPT ![p] = o], commitment' = [commitment EXCEPT ![p] = k],
           clerk' \in [Clerk -> Request], byHand' = byHand, raced' = raced,
           \A l \in Line : LineFollowed(p, l)'
    PROVE  /\ TypeOK' /\ po'[p] = o /\ commitment'[p] = k
           /\ \A q \in Purchase \ {p} : po'[q] = po[q]
           /\ \A q \in Purchase, l \in Line : LineFollowed(q, l)'
<1>1. po \in [Purchase -> Order] /\ commitment \in [Purchase -> [Line -> Commitment]]
  BY DEF PurchaseInv, TypeOK
<1>2. TypeOK'
  BY <1>1 DEF PurchaseInv, TypeOK
<1>3. /\ po'[p] = o /\ commitment'[p] = k
      /\ \A q \in Purchase \ {p} : po'[q] = po[q] /\ commitment'[q] = commitment[q]
  BY <1>1
<1>4. ASSUME NEW q \in Purchase, NEW l \in Line PROVE LineFollowed(q, l)'
  <2>1. LineFollowed(q, l)
    BY DEF PurchaseInv
  <2> QED BY <1>3, <2>1, LineStays
<1> QED BY <1>2, <1>3, <1>4

\* Requests go on as they were, if no order is created or forgotten.
LEMMA RequestsStay ==
    ASSUME PurchaseInv, \A q \in Purchase : po[q].status # "none" => po'[q].status # "none",
           NEW c \in Clerk, clerk'[c] \in {clerk[c], Idle, [pc |-> "draw"]}
    PROVE  RequestAllowed(c)'
<1>1. RequestAllowed(c)
  BY DEF PurchaseInv
<1>2. Idle.pc # "decide" /\ [pc |-> "draw"].pc # "decide"
  BY DEF Idle
<1> QED BY <1>1, <1>2 DEF RequestAllowed, Created

LEMMA LinkedDef ==
    ASSUME NEW p
    PROVE  /\ p \in Linked <=> p \in Purchase /\ po[p].status \notin {"none", "cancelled"} /\ po[p].rec
           /\ (p \in Linked)' <=>
                 p \in Purchase /\ po'[p].status \notin {"none", "cancelled"} /\ po'[p].rec
  BY DEF Linked, Created

\* No order gets linked, and nobody starts to draw.
LEMMA DrawnStays ==
    ASSUME PurchaseInv, raced' = raced, Linked' \subseteq Linked,
           \A c \in Clerk : clerk'[c].pc = "draw" => clerk[c].pc = "draw"
    PROVE  DrawnAlone'
  BY DEF PurchaseInv, DrawnAlone

\* The invariant after a step that changes one order, and that links no other.
LEMMA OrderKeeps ==
    ASSUME PurchaseInv, NEW p \in Purchase, NEW o \in Order, NEW k \in [Line -> Commitment],
           po' = [po EXCEPT ![p] = o], commitment' = [commitment EXCEPT ![p] = k],
           clerk' \in [Clerk -> Request],
           \A c \in Clerk : clerk'[c] \in {clerk[c], Idle},
           byHand' = byHand, raced' = raced,
           \A l \in Line : LineFollowed(p, l)',
           o.status # "none",
           o.rec /\ o.status # "cancelled" =>
              po[p].rec /\ po[p].status \notin {"none", "cancelled"}
    PROVE  PurchaseInv'
<1>1. /\ TypeOK' /\ po'[p] = o /\ \A q \in Purchase \ {p} : po'[q] = po[q]
      /\ \A q \in Purchase, l \in Line : LineFollowed(q, l)'
  BY OrderMoves
<1>2. \A c \in Clerk : RequestAllowed(c)'
  BY <1>1, RequestsStay
<1>3. Linked' \subseteq Linked
  <2>1. ASSUME NEW q \in Linked' PROVE q \in Linked
    BY <1>1, <2>1, LinkedDef
  <2> QED BY <2>1
<1>4. \A c \in Clerk : clerk'[c].pc = "draw" => clerk[c].pc = "draw"
  BY DEF Idle
<1>5. DrawnAlone'
  BY <1>3, <1>4, DrawnStays
<1> QED BY <1>1, <1>2, <1>5 DEF PurchaseInv

LEMMA WriteKeeps ==
    ASSUME PurchasingConstants, PurchaseInv, NEW p \in Purchase, Write(p) \/ ReplaceLines(p)
    PROVE  PurchaseInv'
<1>1. /\ UNCHANGED <<commitment, clerk, byHand, raced>>
      /\ po[p].status \in {"none", "draft"}
  BY DEF Write, ReplaceLines, CreateDraft, Fresh
<1>2. po[p] \in Order /\ commitment[p] \in [Line -> Commitment] /\ po \in [Purchase -> Order]
      /\ commitment \in [Purchase -> [Line -> Commitment]] /\ clerk \in [Clerk -> Request]
  BY DEF PurchaseInv, TypeOK
<1>3. \E q \in Amounts, h \in BOOLEAN : po' = [po EXCEPT ![p] =
         [po[p] EXCEPT !.status = "draft", !.qty = q, !.rec = FALSE, !.drawn = h]]
  <2>1. CASE Write(p)
    BY <2>1 DEF Write, CreateDraft
  <2>2. CASE ReplaceLines(p)
    <3>1. PICK q \in Amounts : po' = [po EXCEPT ![p].qty = q, ![p].rec = FALSE]
      BY <2>2 DEF ReplaceLines
    <3>2. po[p].status = "draft" /\ po[p].drawn \in BOOLEAN
      BY <1>2, <2>2 DEF ReplaceLines, Order
    <3>3. [po[p] EXCEPT !.qty = q, !.rec = FALSE]
             = [po[p] EXCEPT !.status = "draft", !.qty = q, !.rec = FALSE, !.drawn = po[p].drawn]
      BY <1>2, <3>2 DEF Order
    <3>4. po' = [po EXCEPT ![p] = [po[p] EXCEPT !.qty = q, !.rec = FALSE]]
      BY <3>1
    <3> QED BY <3>2, <3>3, <3>4
  <2> QED BY <2>1, <2>2
<1>4. PICK q \in Amounts, h \in BOOLEAN : po' = [po EXCEPT ![p] =
         [po[p] EXCEPT !.status = "draft", !.qty = q, !.rec = FALSE, !.drawn = h]]
  BY <1>3
<1>5. PICK o : o = [po[p] EXCEPT !.status = "draft", !.qty = q, !.rec = FALSE, !.drawn = h]
  OBVIOUS
<1>6. /\ o \in Order /\ o.status = "draft" /\ ~o.rec
      /\ \A l \in Line : /\ o.got[l] = 0 /\ o.got[l] <= o.qty[l]
                         /\ commitment[p][l].status = "none"
  <2>1. q \in [Line -> Nat]
    BY DEF PurchasingConstants
  <2>2. o \in Order /\ o.status = "draft" /\ ~o.rec /\ o.qty = q /\ o.got = po[p].got
    BY <1>2, <1>5, <2>1, StatusNames DEF Order
  <2>3. \A l \in Line : o.got[l] = 0 /\ commitment[p][l].status = "none"
    BY <1>1, <2>2 DEF PurchaseInv, LineFollowed
  <2> QED BY <2>1, <2>2, <2>3
<1>7. po' = [po EXCEPT ![p] = o] /\ po'[p] = o
      /\ commitment' = [commitment EXCEPT ![p] = commitment[p]]
  BY <1>1, <1>2, <1>4, <1>5
<1>8. \A l \in Line : LineFollowed(p, l)'
  BY <1>1, <1>6, <1>7 DEF LineFollowed, Receivable
<1> QED BY <1>1, <1>2, <1>6, <1>7, <1>8, OrderKeeps

\* A request that draws: it is the only one, or the race is noted.
LEMMA DrawKeeps ==
    ASSUME PurchaseInv, NEW c \in Clerk, Draw(c)
    PROVE  PurchaseInv'
<1>1. /\ clerk[c] = Idle /\ Linked = {} /\ UNCHANGED <<po, commitment, byHand>>
      /\ clerk' = [clerk EXCEPT ![c] = [pc |-> "draw"]]
      /\ raced' = (raced \/ \E d \in Clerk : clerk[d].pc = "draw")
  BY DEF Draw
<1>2. clerk \in [Clerk -> Request] /\ raced \in BOOLEAN
  BY DEF PurchaseInv, TypeOK
<1>3. /\ clerk' \in [Clerk -> Request] /\ raced' \in BOOLEAN
      /\ clerk'[c] = [pc |-> "draw"] /\ \A d \in Clerk \ {c} : clerk'[d] = clerk[d]
  BY <1>1, <1>2 DEF Request
<1>4. TypeOK'
  BY <1>1, <1>3 DEF PurchaseInv, TypeOK
<1>5. \A p \in Purchase, l \in Line : LineFollowed(p, l)'
  BY <1>1 DEF PurchaseInv, LineFollowed
<1>6. \A d \in Clerk : RequestAllowed(d)'
  BY <1>1, <1>3, RequestsStay
<1>7. DrawnAlone'
  <2>1. Linked' = {}
    BY <1>1 DEF Linked, Created
  <2>2. ASSUME ~raced', NEW d \in Clerk, clerk'[d].pc = "draw" PROVE d = c
    BY <1>1, <1>3, <2>2
  <2> QED BY <2>1, <2>2 DEF DrawnAlone
<1> QED BY <1>4, <1>5, <1>6, <1>7 DEF PurchaseInv

LEMMA PlaceKeeps ==
    ASSUME PurchasingConstants, PurchaseInv, NEW c \in Clerk, Place(c)
    PROVE  PurchaseInv'
<1>1. PICK p \in Purchase, q \in Amounts :
         /\ po[p].status = "none"
         /\ po' = [po EXCEPT ![p].status = "draft", ![p].qty = q, ![p].rec = TRUE,
                           ![p].drawn = TRUE]
  BY DEF Place, CreateDraft, Fresh
<1>2. /\ clerk[c].pc = "draw" /\ clerk' = [clerk EXCEPT ![c] = Idle]
      /\ UNCHANGED <<commitment, byHand, raced>>
  BY DEF Place
<1>3. /\ po[p] \in Order /\ commitment[p] \in [Line -> Commitment] /\ po \in [Purchase -> Order]
      /\ commitment \in [Purchase -> [Line -> Commitment]] /\ clerk \in [Clerk -> Request]
  BY DEF PurchaseInv, TypeOK
<1>4. PICK o : o = [po[p] EXCEPT !.status = "draft", !.qty = q, !.rec = TRUE, !.drawn = TRUE]
  OBVIOUS
<1>5. /\ o \in Order /\ o.status = "draft"
      /\ \A l \in Line : /\ o.got[l] = 0 /\ o.got[l] <= o.qty[l]
                         /\ commitment[p][l].status = "none"
  <2>1. q \in [Line -> Nat]
    BY DEF PurchasingConstants
  <2>2. o \in Order /\ o.status = "draft" /\ o.qty = q /\ o.got = po[p].got
    BY <1>3, <1>4, <2>1, StatusNames DEF Order
  <2>3. \A l \in Line : o.got[l] = 0 /\ commitment[p][l].status = "none"
    BY <1>1, <2>2 DEF PurchaseInv, LineFollowed
  <2> QED BY <2>1, <2>2, <2>3
<1>6. /\ po' = [po EXCEPT ![p] = o] /\ po'[p] = o
      /\ commitment' = [commitment EXCEPT ![p] = commitment[p]]
  BY <1>1, <1>2, <1>3, <1>4
<1>7. clerk' \in [Clerk -> Request] /\ clerk'[c] = Idle
      /\ \A d \in Clerk \ {c} : clerk'[d] = clerk[d]
  BY <1>2, <1>3 DEF Request
<1>8. \A l \in Line : LineFollowed(p, l)'
  BY <1>2, <1>5, <1>6 DEF LineFollowed, Receivable
<1>9. /\ TypeOK' /\ \A r \in Purchase \ {p} : po'[r] = po[r]
      /\ \A r \in Purchase, l \in Line : LineFollowed(r, l)'
  BY <1>2, <1>3, <1>5, <1>6, <1>7, <1>8, OrderMoves
<1>10. \A d \in Clerk : RequestAllowed(d)'
  BY <1>5, <1>6, <1>7, <1>9, RequestsStay
<1>11. ASSUME ~raced
       PROVE  /\ \A d \in Clerk : clerk'[d].pc # "draw"
              /\ \A r \in Linked' : r = p
  <2>1. /\ \A d \in Clerk : clerk[d].pc = "draw" => d = c
        /\ Linked = {}
    BY <1>2, <1>11 DEF PurchaseInv, DrawnAlone
  <2>2. ASSUME NEW r \in Linked' PROVE r = p
    <3>1. r # p => r \in Linked
      BY <1>9, <2>2, LinkedDef
    <3> QED BY <2>1, <3>1
  <2>3. Idle.pc # "draw"
    BY DEF Idle
  <2> QED BY <1>7, <2>1, <2>2, <2>3
<1>12. DrawnAlone'
  BY <1>2, <1>11 DEF DrawnAlone
<1> QED BY <1>9, <1>10, <1>12 DEF PurchaseInv

LEMMA AskKeeps ==
    ASSUME PurchaseInv, NEW c \in Clerk, NEW p \in Purchase,
           NEW next \in {"sent", "confirmed", "cancelled", "draft"}, Ask(c, p, next)
    PROVE  PurchaseInv'
<1>1. /\ p \in Created /\ next \in Transitions[po[p].status]
      /\ clerk' = [clerk EXCEPT ![c] = [pc |-> "decide", p |-> p, next |-> next,
                                        seen |-> po[p].status]]
      /\ UNCHANGED <<po, commitment, byHand, raced>>
  BY DEF Ask
<1>2. clerk \in [Clerk -> Request] /\ po[p].status \in Status
  BY <1>1 DEF PurchaseInv, TypeOK, Order, Created
<1>3. PICK r : r = [pc |-> "decide", p |-> p, next |-> next, seen |-> po[p].status]
  OBVIOUS
<1>4. /\ r \in Request /\ r.pc = "decide" /\ r.p = p /\ r.next = next
      /\ r.seen = po[p].status
      /\ clerk' \in [Clerk -> Request] /\ clerk'[c] = r
      /\ \A d \in Clerk \ {c} : clerk'[d] = clerk[d]
  <2>1. r \in Request /\ r.pc = "decide" /\ r.p = p /\ r.next = next /\ r.seen = po[p].status
    BY <1>2, <1>3 DEF Request
  <2> QED BY <1>1, <1>2, <1>3, <2>1
<1>5. TypeOK' /\ \A q \in Purchase, l \in Line : LineFollowed(q, l)'
  BY <1>1, <1>4 DEF PurchaseInv, TypeOK, LineFollowed
<1>6. \A d \in Clerk : RequestAllowed(d)'
  <2>1. RequestAllowed(c)'
    BY <1>1, <1>3, <1>4 DEF RequestAllowed, Created
  <2>2. \A d \in Clerk \ {c} : RequestAllowed(d)'
    BY <1>1, <1>4, RequestsStay
  <2> QED BY <2>1, <2>2
<1>7. DrawnAlone'
  <2>1. Linked' = Linked
    BY <1>1 DEF Linked, Created
  <2>2. \A d \in Clerk : clerk'[d].pc = "draw" => clerk[d].pc = "draw"
    BY <1>3, <1>4
  <2> QED BY <1>1, <2>1, <2>2, DrawnStays
<1> QED BY <1>5, <1>6, <1>7 DEF PurchaseInv

LEMMA DecideKeeps ==
    ASSUME PurchaseInv, NEW c \in Clerk, Decide(c)
    PROVE  PurchaseInv'
<1>1. /\ clerk[c].pc = "decide"
      /\ Transition(clerk[c].p, clerk[c].seen, clerk[c].next)
      /\ clerk' = [clerk EXCEPT ![c] = Idle] /\ UNCHANGED <<byHand, raced>>
  BY DEF Decide
<1>2. clerk[c] \in Request /\ clerk \in [Clerk -> Request]
  BY DEF PurchaseInv, TypeOK
<1>3. PICK p \in Purchase, seen \in Status, next \in {"sent", "confirmed", "cancelled", "draft"} :
         p = clerk[c].p /\ seen = clerk[c].seen /\ next = clerk[c].next
  BY <1>1, <1>2 DEF Request, Idle
<1>4. p \in Created /\ next \in Transitions[seen] /\ Transition(p, seen, next)
  BY <1>1, <1>3 DEF PurchaseInv, RequestAllowed
<1>5. /\ po[p] \in Order /\ commitment[p] \in [Line -> Commitment] /\ po \in [Purchase -> Order]
      /\ commitment \in [Purchase -> [Line -> Commitment]]
      /\ \A l \in Line : LineFollowed(p, l) /\ commitment[p][l] \in Commitment
  BY DEF PurchaseInv, TypeOK
<1>6. clerk' \in [Clerk -> Request] /\ \A d \in Clerk : clerk'[d] \in {clerk[d], Idle}
  BY <1>1, <1>2 DEF Request
<1>7. ASSUME NEW s \in Status, po' = [po EXCEPT ![p].status = s],
             NEW k \in [Line -> Commitment], commitment' = [commitment EXCEPT ![p] = k],
             \A l \in Line : LineFollowed(p, l)'
      PROVE  PurchaseInv'
  <2>1. PICK o : o = [po[p] EXCEPT !.status = s]
    OBVIOUS
  <2>2. /\ o \in Order /\ o.status = s /\ o.rec = po[p].rec /\ s # "none"
    BY <1>5, <2>1, StatusNames DEF Order
  <2>3. po' = [po EXCEPT ![p] = o] /\ po[p].status # "none"
    BY <1>4, <1>7, <2>1 DEF Created
  <2>4. o.rec /\ o.status # "cancelled" => po[p].status # "cancelled"
    <3>1. s # "cancelled" => po[p].status # "cancelled"
      BY <1>4, <1>7, StatusNames DEF Transition, ConfirmPO, CancelPO, SetStatus
    <3> QED BY <2>2, <3>1
  <2> QED BY <1>1, <1>3, <1>6, <1>7, <2>2, <2>3, <2>4, OrderKeeps
<1>8. CASE next = "confirmed"
  <2>1. /\ po[p].status \in {"draft", "sent"} /\ po' = [po EXCEPT ![p].status = "confirmed"]
        /\ commitment' = [commitment EXCEPT ![p] =
              [l \in Line |-> [status |-> "pending", got |-> 0]]]
    BY <1>4, <1>8 DEF Transition, ConfirmPO
  <2>2. [l \in Line |-> [status |-> "pending", got |-> 0]] \in [Line -> Commitment]
    BY DEF Commitment
  <2>3. ASSUME NEW l \in Line PROVE LineFollowed(p, l)'
    <3>1. po'[p].status = "confirmed" /\ po'[p].got = po[p].got /\ po'[p].qty = po[p].qty
      BY <1>3, <1>5, <2>1 DEF Order
    <3>2. commitment'[p][l] = [status |-> "pending", got |-> 0]
      BY <1>3, <1>5, <2>1
    <3> QED BY <1>1, <1>5, <2>1, <3>1, <3>2 DEF LineFollowed
  <2> QED BY <1>7, <2>1, <2>2, <2>3, StatusNames
<1>9. CASE next = "cancelled"
  <2> DEFINE after(c0) == [c0 EXCEPT !.status = IF @ = "pending" THEN "cancelled" ELSE @]
  <2>1. /\ po[p].status \notin {"received", "cancelled"} /\ po' = [po EXCEPT ![p].status = "cancelled"]
        /\ commitment' = [commitment EXCEPT ![p] = [l \in Line |-> after(commitment[p][l])]]
    <3>1. CancelPO(p)
      BY <1>4, <1>9 DEF Transition
    <3> QED BY <3>1 DEF CancelPO
  <2>2. \A l \in Line : /\ after(commitment[p][l]) \in Commitment
                        /\ after(commitment[p][l]).status # "pending"
    BY <1>5 DEF Commitment
  <2>3. [l \in Line |-> after(commitment[p][l])] \in [Line -> Commitment]
    BY <2>2
  <2>4. ASSUME NEW l \in Line PROVE LineFollowed(p, l)'
    <3>1. po'[p].status = "cancelled" /\ po'[p].got = po[p].got /\ po'[p].qty = po[p].qty
      BY <1>3, <1>5, <2>1 DEF Order
    <3>2. commitment'[p][l].status # "pending"
      BY <1>3, <1>5, <2>1, <2>2
    <3> QED BY <1>5, <2>1, <3>1, <3>2 DEF LineFollowed, Receivable
  <2> HIDE DEF after
  <2> QED BY <1>7, <2>1, <2>3, <2>4, StatusNames
<1>10. CASE next \in {"sent", "draft"}
  <2>1. /\ po[p].status = seen /\ po' = [po EXCEPT ![p].status = next]
        /\ commitment' = commitment
    BY <1>4, <1>10 DEF Transition, SetStatus
  <2>2. seen \in {"draft", "sent"}
    BY <1>3, <1>4, <1>10, StatusNames
  <2>3. ASSUME NEW l \in Line PROVE LineFollowed(p, l)'
    <3>1. po'[p].status = next /\ po'[p].got = po[p].got /\ po'[p].qty = po[p].qty
      BY <1>3, <1>5, <2>1 DEF Order
    <3> QED BY <1>5, <1>10, <2>1, <2>2, <3>1 DEF LineFollowed, Receivable
  <2>4. commitment' = [commitment EXCEPT ![p] = commitment[p]]
    BY <1>5, <2>1
  <2> QED BY <1>5, <1>7, <1>10, <2>1, <2>3, <2>4, StatusNames
<1> QED BY <1>3, <1>8, <1>9, <1>10

LEMMA RefusedKeeps ==
    ASSUME PurchaseInv, NEW c \in Clerk, Refused(c)
    PROVE  PurchaseInv'
<1>1. UNCHANGED <<po, commitment, byHand, raced>> /\ clerk' = [clerk EXCEPT ![c] = Idle]
  BY DEF Refused
<1>2. clerk \in [Clerk -> Request]
  BY DEF PurchaseInv, TypeOK
<1>3. clerk' \in [Clerk -> Request] /\ \A d \in Clerk : clerk'[d] \in {clerk[d], Idle}
  BY <1>1, <1>2 DEF Request
<1>4. TypeOK' /\ \A q \in Purchase, l \in Line : LineFollowed(q, l)'
  BY <1>1, <1>3 DEF PurchaseInv, TypeOK, LineFollowed
<1>5. \A d \in Clerk : RequestAllowed(d)'
  BY <1>1, <1>3, RequestsStay
<1>6. DrawnAlone'
  <2>1. Linked' = Linked /\ \A d \in Clerk : clerk'[d].pc = "draw" => clerk[d].pc = "draw"
    BY <1>1, <1>3 DEF Linked, Created, Idle
  <2> QED BY <1>1, <2>1, DrawnStays
<1> QED BY <1>4, <1>5, <1>6 DEF PurchaseInv

\* Pieces arrive: a commitment follows its line.
LEMMA ReceiveKeeps ==
    ASSUME PurchaseInv, NEW p \in Purchase, Receive(p)
    PROVE  PurchaseInv'
<1>1. UNCHANGED <<clerk, byHand, raced>>
  BY DEF Receive
<1>2. /\ po[p] \in Order /\ po \in [Purchase -> Order] /\ clerk \in [Clerk -> Request]
      /\ commitment \in [Purchase -> [Line -> Commitment]]
      /\ \A l \in Line : /\ LineFollowed(p, l) /\ commitment[p][l] \in Commitment
                         /\ po[p].qty[l] \in Nat /\ po[p].got[l] \in Nat
  BY DEF PurchaseInv, TypeOK, Order
<1>3. PICK more \in [Line -> UNION {0..po[p].qty[l] : l \in Line}] : ReceivePOLines(p, more)
  BY DEF Receive
<1>4. ASSUME NEW l \in Line PROVE more[l] \in Nat
  <2>1. PICK k \in Line : more[l] \in 0..po[p].qty[k]
    OBVIOUS
  <2> QED BY <1>2, <2>1
<1>5. PICK got : got = [l \in Line |-> po[p].got[l] + more[l]]
  OBVIOUS
<1>6. got \in [Line -> Nat] /\ \A l \in Line : got[l] = po[p].got[l] + more[l]
  BY <1>2, <1>4, <1>5
<1>7. PICK s : s = IF \A l \in Line : got[l] = po[p].qty[l] THEN "received" ELSE "partially_received"
  OBVIOUS
<1>8. PICK k : k = [l \in Line |-> IF more[l] = 0 THEN commitment[p][l]
                      ELSE [status |-> IF got[l] = po[p].qty[l] THEN "received" ELSE "pending",
                            got |-> got[l]]]
  OBVIOUS
<1>9. /\ po[p].status \in Receivable /\ \A l \in Line : got[l] <= po[p].qty[l]
      /\ po' = [po EXCEPT ![p].got = got, ![p].status = s]
      /\ commitment' = [commitment EXCEPT ![p] = k]
  BY <1>3, <1>5, <1>7, <1>8 DEF ReceivePOLines
<1>10. PICK o : o = [po[p] EXCEPT !.got = got, !.status = s]
  OBVIOUS
<1>11. /\ o \in Order /\ o.status = s /\ o.got = got /\ o.qty = po[p].qty /\ o.rec = po[p].rec
       /\ s \in {"received", "partially_received"}
  BY <1>2, <1>6, <1>7, <1>10, StatusNames DEF Order
<1>12. k \in [Line -> Commitment]
  <2>1. ASSUME NEW l \in Line, NEW n \in Nat, NEW t \in {"received", "pending"}
        PROVE  [status |-> t, got |-> n] \in Commitment
    BY DEF Commitment
  <2> QED BY <1>2, <1>6, <1>8, <2>1
<1>13. po' = [po EXCEPT ![p] = o] /\ po'[p] = o /\ commitment'[p] = k
  BY <1>2, <1>9, <1>10
<1>14. ASSUME NEW l \in Line PROVE LineFollowed(p, l)'
  <2>1. o.got[l] <= o.qty[l] /\ (s = "received" => o.got[l] = o.qty[l])
    BY <1>7, <1>9, <1>11
  <2>2. CASE more[l] = 0
    <3>1. commitment'[p][l] = commitment[p][l] /\ o.got[l] = po[p].got[l]
      BY <1>2, <1>6, <1>8, <1>11, <1>13, <2>2
    <3>2. <<p, l>> \notin byHand =>
             IF commitment[p][l].status = "pending" THEN commitment[p][l].got = po[p].got[l]
             ELSE po[p].got[l] = po[p].qty[l]
      BY <1>2, <1>9 DEF LineFollowed
    <3> QED BY <1>1, <1>11, <1>13, <2>1, <3>1, <3>2 DEF LineFollowed, Receivable
  <2>3. CASE more[l] # 0
    <3>1. /\ commitment'[p][l].got = got[l]
          /\ commitment'[p][l].status = IF got[l] = po[p].qty[l] THEN "received" ELSE "pending"
      BY <1>8, <1>13, <2>3
    <3> QED BY <1>1, <1>11, <1>13, <2>1, <3>1 DEF LineFollowed, Receivable
  <2> QED BY <2>2, <2>3
<1>15. po[p].status \notin {"none", "cancelled"}
  BY <1>9 DEF Receivable
<1>16. o.status # "none" /\ (o.rec /\ o.status # "cancelled" => po[p].rec)
  BY <1>11
<1>17. clerk' \in [Clerk -> Request] /\ \A c \in Clerk : clerk'[c] \in {clerk[c], Idle}
  BY <1>1, <1>2
<1> QED BY <1>1, <1>9, <1>11, <1>12, <1>13, <1>14, <1>15, <1>16, <1>17, OrderKeeps

\* A commitment is settled by itself.
LEMMA SettleByHandKeeps ==
    ASSUME PurchaseInv, NEW p \in Purchase, NEW l \in Line, SettleByHand(p, l)
    PROVE  PurchaseInv'
<1>1. /\ commitment[p][l].status = "pending"
      /\ byHand' = byHand \cup {<<p, l>>} /\ UNCHANGED <<po, clerk, raced>>
  BY DEF SettleByHand
<1>2. PICK s \in {"received", "cancelled"} :
         commitment' = [commitment EXCEPT ![p][l].status = s]
  BY DEF SettleByHand
<1>3. commitment \in [Purchase -> [Line -> Commitment]]
  BY DEF PurchaseInv, TypeOK
<1>4. /\ commitment' \in [Purchase -> [Line -> Commitment]] /\ commitment'[p][l].status = s
      /\ \A q \in Purchase, m \in Line :
            q # p \/ m # l => commitment'[q][m] = commitment[q][m]
  <2>1. commitment[p][l] \in Commitment
    BY <1>3
  <2>2. PICK k : k = [commitment[p][l] EXCEPT !.status = s]
    OBVIOUS
  <2>3. k \in Commitment /\ k.status = s
    BY <2>1, <2>2 DEF Commitment
  <2>4. PICK ks : ks = [commitment[p] EXCEPT ![l] = k]
    OBVIOUS
  <2>5. ks \in [Line -> Commitment] /\ ks[l] = k /\ \A m \in Line \ {l} : ks[m] = commitment[p][m]
    BY <1>3, <2>3, <2>4
  <2>6. commitment' = [commitment EXCEPT ![p] = ks]
    BY <1>2, <2>2, <2>4
  <2> QED BY <1>3, <2>3, <2>5, <2>6
<1>5. TypeOK'
  BY <1>1, <1>4 DEF PurchaseInv, TypeOK
<1>6. ASSUME NEW q \in Purchase, NEW m \in Line PROVE LineFollowed(q, m)'
  <2>1. LineFollowed(q, m)
    BY DEF PurchaseInv
  <2>2. CASE q # p \/ m # l
    BY <1>1, <1>4, <2>1, <2>2 DEF LineFollowed
  <2>3. CASE q = p /\ m = l
    BY <1>1, <1>4, <2>1, <2>3 DEF LineFollowed
  <2> QED BY <2>2, <2>3
<1>7. \A d \in Clerk : RequestAllowed(d)'
  BY <1>1, RequestsStay
<1>8. DrawnAlone'
  <2>1. Linked' = Linked
    BY <1>1 DEF Linked, Created
  <2> QED BY <1>1, <2>1, DrawnStays
<1> QED BY <1>5, <1>6, <1>7, <1>8 DEF PurchaseInv

LEMMA PurchasingStarts ==
    ASSUME Init
    PROVE  PurchaseInv
<1>1. TypeOK
  <2>1. po \in [Purchase -> Order]
    BY DEF Init, Order
  <2>2. commitment \in [Purchase -> [Line -> Commitment]]
    BY DEF Init, Commitment
  <2>3. clerk \in [Clerk -> Request] /\ byHand = {} /\ raced = FALSE
    BY DEF Init, Request
  <2> QED BY <2>1, <2>2, <2>3 DEF TypeOK
<1>2. \A p \in Purchase, l \in Line : LineFollowed(p, l)
  BY DEF Init, LineFollowed, Receivable
<1>3. \A c \in Clerk : clerk[c].pc = "idle"
  BY DEF Init, Idle
<1>4. Linked = {}
  BY DEF Init, Linked, Created
<1> QED BY <1>1, <1>2, <1>3, <1>4 DEF PurchaseInv, DrawnAlone, RequestAllowed

LEMMA PurchasingKeeps ==
    ASSUME PurchasingConstants, PurchaseInv, [Next]_vars
    PROVE  PurchaseInv'
<1>1. CASE UNCHANGED vars
  BY <1>1 DEF vars, PurchaseInv, TypeOK, LineFollowed, RequestAllowed, DrawnAlone, Linked, Created
<1>2. ASSUME NEW p \in Purchase, Write(p) \/ ReplaceLines(p) \/ Receive(p)
      PROVE  PurchaseInv'
  BY <1>2, WriteKeeps, ReceiveKeeps
<1>3. ASSUME NEW c \in Clerk, Draw(c) \/ Place(c) \/ Decide(c) \/ Refused(c)
      PROVE  PurchaseInv'
  BY <1>3, DrawKeeps, PlaceKeeps, DecideKeeps, RefusedKeeps
<1>4. ASSUME NEW c \in Clerk, NEW p \in Purchase,
             Send(c, p) \/ Confirm(c, p) \/ Cancel(c, p) \/ Revise(c, p)
      PROVE  PurchaseInv'
  BY <1>4, AskKeeps DEF Send, Confirm, Cancel, Revise
<1> QED BY <1>1, <1>2, <1>3, <1>4, SettleByHandKeeps DEF Next
-----------------------------------------------------------------------------
(* What the invariant says of the two answers, the links and the ends.     *)

LEMMA AnswersAgree ==
    ASSUME PurchaseInv
    PROVE  IncomingAgrees
<1>1. SUFFICES ASSUME NEW p \in Purchase, NEW l \in Line, <<p, l>> \notin byHand
               PROVE  Incoming(p, l) = IF po[p].status = "sent" THEN 0 ELSE IncomingPO(p, l)
  BY DEF IncomingAgrees
<1>2. /\ po[p] \in Order /\ po[p].qty[l] \in Nat /\ po[p].got[l] \in Nat
      /\ commitment[p][l] \in Commitment /\ commitment[p][l].got \in Nat /\ LineFollowed(p, l)
  BY DEF PurchaseInv, TypeOK, Order, Commitment
<1>3. po[p].status \in Status \cup {"none"}
  BY <1>2 DEF Order
<1>4. CASE po[p].status \in {"none", "draft", "sent"}
  BY <1>2, <1>4 DEF LineFollowed, Incoming, IncomingPO, Receivable
<1>5. CASE po[p].status \in Receivable \cup {"received"}
  <2>1. /\ IF commitment[p][l].status = "pending" THEN commitment[p][l].got = po[p].got[l]
           ELSE po[p].got[l] = po[p].qty[l]
        /\ po[p].status = "received" => po[p].got[l] = po[p].qty[l]
    BY <1>1, <1>2, <1>5 DEF LineFollowed
  <2> QED BY <1>2, <1>5, <2>1 DEF Incoming, IncomingPO, Receivable
<1>6. CASE po[p].status = "cancelled"
  BY <1>2, <1>6 DEF LineFollowed, Incoming, IncomingPO, Receivable
<1> QED BY <1>3, <1>4, <1>5, <1>6, StatusNames DEF Receivable

LEMMA LinkedAlone ==
    ASSUME PurchaseInv
    PROVE  OrderedOnce
<1> DEFINE held == {p \in Bought : po[p].rec}
<1>1. SUFFICES ASSUME ~raced PROVE Cardinality(held) <= 1
  BY DEF OrderedOnce
<1>2. \A p, q \in held : p = q
  <2>1. held \subseteq Linked
    BY DEF Bought, Linked
  <2> QED BY <1>1, <2>1 DEF PurchaseInv, DrawnAlone
<1> HIDE DEF held
<1>3. CASE held = {}
  BY <1>3, FS_EmptySet
<1>4. CASE held # {}
  <2>1. PICK p : p \in held
    BY <1>4
  <2>2. held = {p}
    BY <1>2, <2>1
  <2>3. Cardinality({p}) = 1
    BY FS_Singleton
  <2> QED BY <2>2, <2>3
<1> QED BY <1>3, <1>4

LEMMA EndsKept ==
    ASSUME PurchasingConstants, PurchaseInv, [Next]_vars
    PROVE  EndKept
<1>1. SUFFICES ASSUME NEW p \in Purchase, po[p].status \in {"received", "cancelled"}
               PROVE  po'[p].status = po[p].status
  BY DEF EndKept
<1>2. po \in [Purchase -> Order] /\ po[p] \in Order
  BY DEF PurchaseInv, TypeOK
<1>3. ASSUME NEW q \in Purchase, Write(q) \/ ReplaceLines(q) \/ Receive(q)
      PROVE  po'[p] = po[p]
  <2>1. po[q].status \notin {"received", "cancelled"}
    BY <1>3 DEF Write, CreateDraft, Fresh, ReplaceLines, Receive, ReceivePOLines, Receivable
  <2>2. \A r \in Purchase \ {q} : po'[r] = po[r]
    BY <1>2, <1>3 DEF Write, CreateDraft, ReplaceLines, Receive, ReceivePOLines
  <2> QED BY <1>1, <2>1, <2>2
<1>4. ASSUME NEW c \in Clerk, Place(c)
      PROVE  po'[p] = po[p]
  BY <1>1, <1>2, <1>4 DEF Place, CreateDraft, Fresh
<1>5. ASSUME NEW c \in Clerk, Decide(c)
      PROVE  po'[p] = po[p]
  <2>1. /\ clerk[c] \in Request /\ clerk[c].pc = "decide" /\ RequestAllowed(c)
        /\ Transition(clerk[c].p, clerk[c].seen, clerk[c].next)
    BY <1>5 DEF PurchaseInv, TypeOK, Decide
  <2>2. /\ clerk[c].p \in Purchase /\ clerk[c].seen \in Status
        /\ clerk[c].next \in Transitions[clerk[c].seen]
    BY <2>1 DEF Request, RequestAllowed, Idle
  <2>3. clerk[c].seen \notin {"received", "cancelled"}
    BY <2>2, StatusNames
  <2>4. po[clerk[c].p].status \notin {"received", "cancelled"}
    BY <2>1, <2>3 DEF Transition, ConfirmPO, CancelPO, SetStatus
  <2>5. \A r \in Purchase \ {clerk[c].p} : po'[r] = po[r]
    BY <1>2, <2>1, <2>2 DEF Transition, ConfirmPO, CancelPO, SetStatus
  <2> QED BY <1>1, <2>4, <2>5
<1>6. ASSUME po' = po
      PROVE  po'[p] = po[p]
  BY <1>6
<1> QED BY <1>3, <1>4, <1>5, <1>6 DEF Next, vars, SettleByHand, Draw, Refused, Send, Confirm,
                                     Cancel, Revise, Ask
-----------------------------------------------------------------------------
\* The inductive invariant of purchasing.
THEOREM PurchasingSafe ==
    ASSUME PurchasingConstants
    PROVE  Spec => []PurchaseInv
<1>1. Init => PurchaseInv
  BY PurchasingStarts
<1>2. PurchaseInv /\ [Next]_vars => PurchaseInv'
  BY PurchasingKeeps
<1> QED BY <1>1, <1>2, PTL DEF Spec

\* The stock screens and the shortage advice expect the same goods.
THEOREM TheyAgree ==
    ASSUME PurchasingConstants
    PROVE  Spec => []IncomingAgrees
  BY AnswersAgree, PurchasingSafe, PTL

\* Of the orders in force that were drawn from the recommendation all but one have
\* had their lines replaced as a draft, unless two requests drew it at once.
THEOREM DrawnOnce ==
    ASSUME PurchasingConstants
    PROVE  Spec => []OrderedOnce
  BY LinkedAlone, PurchasingSafe, PTL

\* An order that has been received or cancelled stays so.
THEOREM EndsForGood ==
    ASSUME PurchasingConstants
    PROVE  Spec => [][EndKept]_vars
<1>1. PurchaseInv /\ [Next]_vars => [EndKept]_vars
  BY EndsKept
<1> QED BY <1>1, PurchasingSafe, PTL DEF Spec
=============================================================================
