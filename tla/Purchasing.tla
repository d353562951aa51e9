----------------------------- MODULE Purchasing -----------------------------
(***************************************************************************)
(* Purchase orders, the commitments that announce their goods, and the     *)
(* recommendation they are drawn from.  A request reads the status of an   *)
(* order, tests it, and then acts: the RPCs test again under a row lock,   *)
(* the plain updates compare and set.                                      *)
(***************************************************************************)
EXTENDS Naturals, FiniteSets

CONSTANTS
    Purchase,   \* purchase orders
    Line,       \* lines of an order
    Clerk,      \* requests in progress
    Amounts     \* bound: the quantities of the lines, as functions on Line

VARIABLES
    po,          \* purchase_orders and their lines; rec: a line is linked to the
                 \* recommendation; drawn, a history: it was created for it
    commitment,  \* purchase_commitments of the lines
    clerk,       \* what each request is doing
    byHand,      \* history: lines whose commitment was settled by itself
    raced        \* history: two requests drew an order at the same time

vars == <<po, commitment, clerk, byHand, raced>>
-----------------------------------------------------------------------------
Transitions ==
    [draft |-> {"sent", "confirmed", "cancelled"},
     sent |-> {"confirmed", "cancelled", "draft"},
     confirmed |-> {"partially_received", "received", "cancelled"},
     partially_received |-> {"received", "cancelled"},
     received |-> {}, cancelled |-> {}]

Receivable == {"confirmed", "partially_received"}
Created == {p \in Purchase : po[p].status # "none"}
Fresh(p) == po[p].status = "none"
Idle == [pc |-> "idle"]

Init ==
    /\ po = [p \in Purchase |-> [status |-> "none", qty |-> [l \in Line |-> 0],
                                 got |-> [l \in Line |-> 0], rec |-> FALSE,
                                 drawn |-> FALSE]]
    /\ commitment = [p \in Purchase |-> [l \in Line |-> [status |-> "none", got |-> 0]]]
    /\ clerk = [c \in Clerk |-> Idle]
    /\ byHand = {} /\ raced = FALSE

\* create_purchase_order_with_lines
CreateDraft(p, q, rec) ==
    /\ Fresh(p)
    /\ po' = [po EXCEPT ![p].status = "draft", ![p].qty = q, ![p].rec = rec,
                        ![p].drawn = rec]

Write(p) ==
    /\ \E q \in Amounts : CreateDraft(p, q, FALSE)
    /\ UNCHANGED <<commitment, clerk, byHand, raced>>
-----------------------------------------------------------------------------
(***************************************************************************)
(* An order from the recommendation: no order that is still alive may be   *)
(* linked to it.                                                           *)
(***************************************************************************)
\* Mutant: a draft or a received order does not count.
LinkedOpen == {p \in Created : po[p].rec /\ po[p].status \in {"sent"} \cup Receivable}

Linked == {p \in Created : po[p].rec /\ po[p].status # "cancelled"}

Draw(c) ==
    /\ clerk[c] = Idle /\ Linked = {}
    /\ clerk' = [clerk EXCEPT ![c] = [pc |-> "draw"]]
    /\ raced' = (raced \/ \E d \in Clerk : clerk[d].pc = "draw")
    /\ UNCHANGED <<po, commitment, byHand>>

Place(c) ==
    /\ clerk[c].pc = "draw"
    /\ \E p \in Purchase, q \in Amounts : CreateDraft(p, q, TRUE)
    /\ clerk' = [clerk EXCEPT ![c] = Idle]
    /\ UNCHANGED <<commitment, byHand, raced>>

\* The lines are deleted and inserted anew.  The link goes with the old ones and
\* the form sends no recommendation with the new: the order goes on buying for the
\* recommendation, which does not know of it any more.
ReplaceLines(p) ==
    /\ po[p].status = "draft"
    /\ \E q \in Amounts : po' = [po EXCEPT ![p].qty = q, ![p].rec = FALSE]
    /\ UNCHANGED <<commitment, clerk, byHand, raced>>
-----------------------------------------------------------------------------
(***************************************************************************)
(* dbTransitionPurchaseOrder: read and test, then act.                     *)
(***************************************************************************)
Ask(c, p, next) ==
    /\ clerk[c] = Idle /\ p \in Created
    /\ next \in Transitions[po[p].status] \ {"partially_received", "received"}
    /\ clerk' = [clerk EXCEPT ![c] = [pc |-> "decide", p |-> p, next |-> next,
                                      seen |-> po[p].status]]
    /\ UNCHANGED <<po, commitment, byHand, raced>>

Send(c, p) == Ask(c, p, "sent")
Confirm(c, p) == Ask(c, p, "confirmed")
Cancel(c, p) == Ask(c, p, "cancelled")
Revise(c, p) == Ask(c, p, "draft")

ConfirmPO(p) ==
    /\ po[p].status \in {"draft", "sent"}
    /\ po' = [po EXCEPT ![p].status = "confirmed"]
    /\ commitment' = [commitment EXCEPT ![p] =
                         [l \in Line |-> [status |-> "pending", got |-> 0]]]

\* Mutant: the commitments stay.
CancelPOKeeps(p) ==
    /\ po[p].status \notin {"received", "cancelled"}
    /\ po' = [po EXCEPT ![p].status = "cancelled"]
    /\ UNCHANGED commitment

CancelPO(p) ==
    LET closed(k) == [k EXCEPT !.status = IF @ = "pending" THEN "cancelled" ELSE @] IN
    /\ po[p].status \notin {"received", "cancelled"}
    /\ po' = [po EXCEPT ![p].status = "cancelled"]
    /\ commitment' = [commitment EXCEPT ![p] = [l \in Line |-> closed(commitment[p][l])]]

\* Mutant: the update does not compare.
SetStatusBlindly(p, seen, next) ==
    po' = [po EXCEPT ![p].status = next] /\ UNCHANGED commitment

SetStatus(p, seen, next) ==
    /\ po[p].status = seen
    /\ po' = [po EXCEPT ![p].status = next] /\ UNCHANGED commitment

Transition(p, seen, next) ==
    CASE next = "confirmed" -> ConfirmPO(p)
      [] next = "cancelled" -> CancelPO(p)
      [] OTHER -> SetStatus(p, seen, next)

Decide(c) ==
    /\ clerk[c].pc = "decide"
    /\ Transition(clerk[c].p, clerk[c].seen, clerk[c].next)
    /\ clerk' = [clerk EXCEPT ![c] = Idle]
    /\ UNCHANGED <<byHand, raced>>

\* The order has changed meanwhile and the request is refused.
Refused(c) ==
    /\ clerk[c].pc = "decide"
    /\ LET now == po[clerk[c].p].status IN
       CASE clerk[c].next = "confirmed" -> now \notin {"draft", "sent"}
         [] clerk[c].next = "cancelled" -> now \in {"received", "cancelled"}
         [] OTHER -> now # clerk[c].seen
    /\ clerk' = [clerk EXCEPT ![c] = Idle]
    /\ UNCHANGED <<po, commitment, byHand, raced>>
-----------------------------------------------------------------------------
\* receive_po_lines: never more than was ordered.  Every commitment of a line
\* that is received follows the line, whatever became of it before.
ReceivePOLines(p, more) ==
    LET got == [l \in Line |-> po[p].got[l] + more[l]]
        full(l) == got[l] = po[p].qty[l]
    IN
    /\ po[p].status \in Receivable
    /\ \A l \in Line : got[l] <= po[p].qty[l]
    /\ po' = [po EXCEPT ![p].got = got,
                        ![p].status = IF \A l \in Line : full(l) THEN "received"
                                      ELSE "partially_received"]
    /\ commitment' = [commitment EXCEPT ![p] = [l \in Line |->
                         IF more[l] = 0 THEN @[l]
                         ELSE [status |-> IF full(l) THEN "received" ELSE "pending",
                               got |-> got[l]]]]

Receive(p) ==
    /\ \E more \in [Line -> UNION {0..po[p].qty[l] : l \in Line}] :
          (\E l \in Line : more[l] > 0) /\ ReceivePOLines(p, more)
    /\ UNCHANGED <<clerk, byHand, raced>>

\* A commitment received or cancelled by itself: the line does not learn of it.
SettleByHand(p, l) ==
    /\ commitment[p][l].status = "pending"
    /\ \E s \in {"received", "cancelled"} :
          commitment' = [commitment EXCEPT ![p][l].status = s]
    /\ byHand' = byHand \cup {<<p, l>>}
    /\ UNCHANGED <<po, clerk, raced>>
-----------------------------------------------------------------------------
Next ==
    \/ \E p \in Purchase : Write(p) \/ ReplaceLines(p) \/ Receive(p)
    \/ \E p \in Purchase, l \in Line : SettleByHand(p, l)
    \/ \E c \in Clerk : Draw(c) \/ Place(c) \/ Decide(c) \/ Refused(c)
    \/ \E c \in Clerk, p \in Purchase :
          Send(c, p) \/ Confirm(c, p) \/ Cancel(c, p) \/ Revise(c, p)

Spec == Init /\ [][Next]_vars
-----------------------------------------------------------------------------
\* dbGetIncomingQuantities: what the stock screens expect of a line.
Incoming(p, l) ==
    IF commitment[p][l].status = "pending" THEN po[p].qty[l] - commitment[p][l].got ELSE 0

\* dbGetIncomingPOQuantities: what the shortage advice expects of it.
IncomingPO(p, l) ==
    IF po[p].status \in {"sent"} \cup Receivable THEN po[p].qty[l] - po[p].got[l] ELSE 0

\* The two answers to "what is on its way" agree, except for an order that is
\* sent and not confirmed, which only the second counts, and for a line whose
\* commitment was settled by itself.
IncomingAgrees ==
    \A p \in Purchase, l \in Line :
        <<p, l>> \in byHand \/ Incoming(p, l) = IF po[p].status = "sent" THEN 0 ELSE IncomingPO(p, l)

\* What has arrived in full or was cancelled stays so, whatever a slow request
\* that saw an earlier status still does: a property of steps.
EndKept ==
    \A p \in Purchase : po[p].status \in {"received", "cancelled"} => po'[p].status = po[p].status

\* The orders in force that were drawn from the recommendation.
Bought == {p \in Created : po[p].drawn /\ po[p].status # "cancelled"}

\* Of the orders in force that were drawn from the recommendation all but one have
\* had their lines replaced as a draft, unless two requests draw it at once.
OrderedOnce == raced \/ Cardinality({p \in Bought : po[p].rec}) <= 1

\* What the guard of an order from a recommendation says of itself: a second one
\* is refused unless the first is cancelled, apart from two requests at once.
OneOrderInForce == raced \/ Cardinality(Bought) <= 1
-----------------------------------------------------------------------------
\* The inductive strengthening.
Status == DOMAIN Transitions
Order == [status : Status \cup {"none"}, qty : [Line -> Nat], got : [Line -> Nat],
          rec : BOOLEAN, drawn : BOOLEAN]
Commitment == [status : {"none", "pending", "received", "cancelled"}, got : Nat]
Request ==
    {Idle} \cup [pc : {"draw"}]
    \cup [pc : {"decide"}, p : Purchase, next : {"sent", "confirmed", "cancelled", "draft"},
          seen : Status]

TypeOK ==
    /\ po \in [Purchase -> Order] /\ commitment \in [Purchase -> [Line -> Commitment]]
    /\ clerk \in [Clerk -> Request]
    /\ byHand \subseteq Purchase \X Line /\ raced \in BOOLEAN

\* The commitment of a line follows the line from the confirmation on.
LineFollowed(p, l) ==
    LET o == po[p]  c == commitment[p][l] IN
    /\ o.got[l] <= o.qty[l]
    /\ o.status \in {"none", "draft", "sent"} => c.status = "none" /\ o.got[l] = 0
    /\ o.status \in Receivable \cup {"received"} /\ <<p, l>> \notin byHand =>
          IF c.status = "pending" THEN c.got = o.got[l] ELSE o.got[l] = o.qty[l]
    /\ o.status = "received" => o.got[l] = o.qty[l]
    /\ o.status = "cancelled" => c.status # "pending"

\* What a request has seen was so, and asks for a step the table allows.
RequestAllowed(c) ==
    clerk[c].pc = "decide" =>
        clerk[c].p \in Created /\ clerk[c].next \in Transitions[clerk[c].seen]

\* While nobody has raced, one request at a time draws, and only with nothing linked.
DrawnAlone ==
    raced \/ /\ \A c, d \in Clerk : clerk[c].pc = "draw" /\ clerk[d].pc = "draw" => c = d
             /\ (\E c \in Clerk : clerk[c].pc = "draw") => Linked = {}
             /\ \A p, q \in Linked : p = q

PurchaseInv ==
    /\ TypeOK /\ DrawnAlone
    /\ \A p \in Purchase, l \in Line : LineFollowed(p, l)
    /\ \A c \in Clerk : RequestAllowed(c)
=============================================================================
