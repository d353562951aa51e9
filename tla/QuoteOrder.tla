----------------------------- MODULE QuoteOrder -----------------------------
(***************************************************************************)
(* Quotes and the orders that hold their stock.                            *)
(*                                                                         *)
(* A quote that is sent gets a pending order, which reserves the stock; a  *)
(* quote that is rejected, expires or is revised gives its order up.  The  *)
(* quote's status and its order are written by different calls: the        *)
(* service reads the quote, changes its status if that is still what it    *)
(* read, and then calls an RPC whose failure it logs and forgets.  A       *)
(* reconciler, run with the alert scan every six hours, looks for what     *)
(* such failures left behind.                                              *)
(*                                                                         *)
(* One step is one database call.  accept_quote_and_create_order, the only *)
(* RPC that reads the order and writes it in separate statements without a *)
(* check in between, is two steps, with the quote row locked throughout.   *)
(***************************************************************************)
EXTENDS Naturals

CONSTANTS
    Quote,    \* rows quotes can have
    Caller    \* requests under way at a time, the expiry cron's included

VARIABLES
    quote,    \* quotes.status, "none" or "deleted" when there is no row
    rowless,  \* quotes one of whose lines names no product (a heading)
    lapsed,   \* quotes whose valid_until has passed
    order,    \* the status of the one order with this quote_id that is not
              \* cancelled, "none" if there is none, "shipped" if it has left
    alerted,  \* quotes with an open sync_issue alert
    call,     \* what each request is doing
    scan      \* what the reconciler is doing

quoteVars == <<quote, rowless, lapsed>>
vars == <<quoteVars, order, alerted, call, scan>>
-----------------------------------------------------------------------------
QuoteStatuses ==
    {"none", "draft", "sent", "accepted", "rejected", "expired", "revised", "deleted"}
OrderStatuses == {"none", "draft", "pending_approval", "approved", "shipped"}

\* The requests that read a quote and then change its status: what they must
\* have read, and what they change it to.
From(op) ==
    CASE op = "send"   -> {"draft"}
      [] op = "reject" -> {"sent"}
      [] op = "expire" -> {"draft", "sent"}
      [] op = "delete" -> {"draft"}

Target(op) ==
    CASE op = "send"   -> "sent"
      [] op = "reject" -> "rejected"
      [] op = "expire" -> "expired"

NoCall == [op |-> "none"]

Calls ==
    {NoCall}
    \cup [op : {"send", "reject", "expire"}, at : {"status", "order"},
          q : Quote, seen : {"draft", "sent"}]
    \cup [op : {"delete"}, at : {"status"}, q : Quote, seen : {"draft"}]
    \cup [op : {"revise"}, at : {"order"}, q : Quote]
    \cup [op : {"accept"}, at : {"begin"}, q : Quote]
    \cup [op : {"accept"}, at : {"locked"}, q : Quote,
          seen : QuoteStatuses, found : OrderStatuses]

NoScan == [at |-> "idle"]

Scans ==
    {NoScan}
    \cup [at : {"listed", "matched"}, sent : SUBSET Quote, dead : SUBSET Quote]

TypeOK ==
    /\ quote \in [Quote -> QuoteStatuses]
    /\ rowless \subseteq Quote
    /\ lapsed \subseteq Quote
    /\ order \in [Quote -> OrderStatuses]
    /\ alerted \subseteq Quote
    /\ call \in [Caller -> Calls]
    /\ scan \in Scans

Init ==
    /\ quote = [q \in Quote |-> "none"]
    /\ rowless = {}
    /\ lapsed = {}
    /\ order = [q \in Quote |-> "none"]
    /\ alerted = {}
    /\ call = [c \in Caller |-> NoCall]
    /\ scan = NoScan
-----------------------------------------------------------------------------
(***************************************************************************)
(* The RPCs.                                                               *)
(***************************************************************************)

HoldsLock(c) == call[c].op = "accept" /\ call[c].at = "locked"

\* Mutant: the acceptance reads the quote without FOR UPDATE.
LockedByNobody(q) == FALSE

\* The quote's row is locked by an acceptance under way.
Locked(q) == \E c \in Caller : HoldsLock(c) /\ call[c].q = q

\* Mutant: the status is written whatever it is by now.
SetStatusBlindly(q, seen, status) ==
    /\ ~Locked(q)
    /\ quote' = [quote EXCEPT ![q] = status]

\* dbUpdateQuoteStatus: set the status if it still is what was read.
SetStatus(q, seen, status) ==
    /\ ~Locked(q)
    /\ quote[q] = seen
    /\ quote' = [quote EXCEPT ![q] = status]

\* Mutant: an order is made for a quote in any state.
PlaceOrderForAny(q) ==
    /\ ~Locked(q)
    /\ order[q] = "none" /\ q \notin rowless
    /\ order' = [order EXCEPT ![q] = "pending_approval"]

\* send_quote_and_create_pending_order that creates one: it raises for a quote
\* that is not sent and for a line without a product, and returns the order
\* there is if there is one.
PlaceOrder(q) ==
    /\ ~Locked(q)
    /\ quote[q] = "sent"
    /\ order[q] = "none" /\ q \notin rowless
    /\ order' = [order EXCEPT ![q] = "pending_approval"]

\* It found an order, or raised.
PlacesNoOrder(q) ==
    /\ ~Locked(q)
    /\ quote[q] # "sent" \/ order[q] # "none" \/ q \in rowless

\* cancel_quote_linked_order: whatever state the order is in; cancel_order
\* refuses a shipped one, which the caller does not notice.
CancelLinked(q) ==
    order' = [order EXCEPT ![q] = IF @ = "shipped" THEN @ ELSE "none"]
-----------------------------------------------------------------------------
(***************************************************************************)
(* Requests.                                                               *)
(***************************************************************************)
Return(c) == call' = [call EXCEPT ![c] = NoCall]

\* The process dies, the database is out of reach, or a failure of the RPC
\* after the status change is logged and swallowed.
Fail(c) ==
    /\ call[c] # NoCall
    /\ Return(c)
    /\ UNCHANGED <<quoteVars, order, alerted, scan>>

\* serviceTransitionQuote, serviceExpireQuotes and the delete route read the
\* quote.  A quote with a heading line can be sent: the validation skips lines
\* with neither a price nor a quantity.
Read(c, op, q) ==
    /\ call[c] = NoCall
    /\ quote[q] \in From(op)
    /\ op = "expire" => q \in lapsed
    /\ call' = [call EXCEPT ![c] = [op |-> op, at |-> "status", q |-> q, seen |-> quote[q]]]
    /\ UNCHANGED <<quoteVars, order, alerted, scan>>

\* They change its status, or find that somebody else did.
Transition(c) ==
    /\ call[c].op \in {"send", "reject", "expire"} /\ call[c].at = "status"
    /\ \/ /\ SetStatus(call[c].q, call[c].seen, Target(call[c].op))
          /\ call' = [call EXCEPT ![c].at = "order"]
       \/ /\ quote[call[c].q] # call[c].seen
          /\ Return(c)
          /\ UNCHANGED quote
    /\ UNCHANGED <<rowless, lapsed, order, alerted, scan>>

\* Then they see to the order.
FinishSend(c) ==
    /\ call[c].op = "send" /\ call[c].at = "order"
    /\ \/ PlaceOrder(call[c].q)
       \/ PlacesNoOrder(call[c].q) /\ UNCHANGED order
    /\ Return(c)
    /\ UNCHANGED <<quoteVars, alerted, scan>>

FinishDead(c) ==
    /\ call[c].op \in {"reject", "expire", "revise"} /\ call[c].at = "order"
    /\ CancelLinked(call[c].q)
    /\ Return(c)
    /\ UNCHANGED <<quoteVars, alerted, scan>>

\* The delete route deletes the row it has read as a draft, whatever it is by
\* now; quote_id of its order becomes null.
DeleteQuote(c) ==
    LET q == call[c].q
    IN  /\ call[c].op = "delete"
        /\ ~Locked(q)
        /\ quote' = [quote EXCEPT ![q] = "deleted"]
        /\ order' = [order EXCEPT ![q] = "none"]
        /\ Return(c)
        /\ UNCHANGED <<rowless, lapsed, alerted, scan>>

\* Where a new quote goes.  When Quote has no row left, the copy of q is not
\* followed (bound): it is a draft like any that CreateQuote makes.
RowForCopy(q) ==
    LET free == {r \in Quote : quote[r] = "none"}
    IN  IF free = {} THEN {q} ELSE free

\* serviceCreateQuoteRevision: create_quote_revision copies the quote and its
\* lines, without its valid_until, and closes the source.
Revise(c, q, copy) ==
    /\ call[c] = NoCall
    /\ quote[q] \in {"sent", "rejected", "expired"}
    /\ ~Locked(q)
    /\ quote' = [[quote EXCEPT ![copy] = "draft"] EXCEPT ![q] = "revised"]
    /\ rowless' = IF q \in rowless THEN rowless \cup {copy} ELSE rowless
    /\ call' = [call EXCEPT ![c] = [op |-> "revise", at |-> "order", q |-> q]]
    /\ UNCHANGED <<lapsed, order, alerted, scan>>

\* serviceAcceptQuoteToOrder reads the quote.
Accept(c, q) ==
    /\ call[c] = NoCall
    /\ quote[q] \in {"sent", "accepted"}
    /\ q \notin lapsed
    /\ call' = [call EXCEPT ![c] = [op |-> "accept", at |-> "begin", q |-> q]]
    /\ UNCHANGED <<quoteVars, order, alerted, scan>>

\* accept_quote_and_create_order reads and locks the quote, and then looks for
\* its order.
AcceptLock(c) ==
    LET q == call[c].q
    IN  /\ call[c].op = "accept" /\ call[c].at = "begin"
        /\ ~Locked(q) /\ quote[q] \notin {"none", "deleted"}
        /\ call' = [call EXCEPT ![c] = [op |-> "accept", at |-> "locked", q |-> q,
                                        seen |-> quote[q], found |-> order[q]]]
        /\ UNCHANGED <<quoteVars, order, alerted, scan>>

MarkAccepted(q) ==
    quote' = IF quote[q] = "sent" THEN [quote EXCEPT ![q] = "accepted"] ELSE quote

\* The order it found, in whatever state, is approved if it is still pending;
\* whether approve_order did so is not looked at.
AcceptFound(c) ==
    LET q == call[c].q
    IN  /\ HoldsLock(c)
        /\ call[c].found # "none"
        /\ order' = IF call[c].found = "pending_approval" /\ order[q] = "pending_approval"
                    THEN [order EXCEPT ![q] = "approved"] ELSE order
        /\ MarkAccepted(q)
        /\ Return(c)
        /\ UNCHANGED <<rowless, lapsed, alerted, scan>>

\* Without an order, a quote it read as sent or accepted gets a draft order; a
\* line without a product, or any other state, makes it raise.
AcceptCreates(c) ==
    LET q == call[c].q
    IN  /\ HoldsLock(c)
        /\ call[c].found = "none"
        /\ \/ /\ call[c].seen \in {"sent", "accepted"} /\ q \notin rowless
              /\ order' = [order EXCEPT ![q] = "draft"]
              /\ MarkAccepted(q)
           \/ /\ call[c].seen \notin {"sent", "accepted"} \/ q \in rowless
              /\ UNCHANGED <<order, quote>>
        /\ Return(c)
        /\ UNCHANGED <<rowless, lapsed, alerted, scan>>
-----------------------------------------------------------------------------
(***************************************************************************)
(* Single calls: drafts, the orders pages, the calendar.                   *)
(***************************************************************************)
CreateQuote(q) ==
    /\ quote[q] = "none"
    /\ quote' = [quote EXCEPT ![q] = "draft"]
    /\ rowless' \in {rowless, rowless \cup {q}}
    /\ UNCHANGED <<lapsed, order, alerted, call, scan>>

\* update_quote_with_lines: a draft gets new lines and a new valid_until.
EditQuote(q) ==
    /\ quote[q] = "draft"
    /\ rowless' \in {rowless \ {q}, rowless \cup {q}}
    /\ lapsed' = lapsed \ {q}
    /\ UNCHANGED <<quote, order, alerted, call, scan>>

Lapse(q) ==
    /\ quote[q] \in {"draft", "sent"}
    /\ q \notin lapsed
    /\ lapsed' = lapsed \cup {q}
    /\ UNCHANGED <<quote, rowless, order, alerted, call, scan>>

OrderStep(q, from, to) ==
    /\ order[q] \in from
    /\ order' = [order EXCEPT ![q] = to]
    /\ UNCHANGED <<quoteVars, alerted, call, scan>>

SubmitOrder(q) == OrderStep(q, {"draft"}, "pending_approval")
ApproveOrder(q) == OrderStep(q, {"pending_approval"}, "approved")
ShipOrder(q) == OrderStep(q, {"approved"}, "shipped")
CancelOrder(q) == OrderStep(q, {"draft", "pending_approval", "approved"}, "none")

\* Somebody closes the alert.
ResolveAlert(q) ==
    /\ q \in alerted
    /\ alerted' = alerted \ {q}
    /\ UNCHANGED <<quoteVars, order, call, scan>>
-----------------------------------------------------------------------------
(***************************************************************************)
(* serviceReconcileQuoteReservations.  The scan lock admits one at a time. *)
(***************************************************************************)

\* Mutant: expired quotes are not looked at.
DeadRejectedOnly == {q \in Quote : quote[q] = "rejected"}

Dead == {q \in Quote : quote[q] \in {"rejected", "expired"}}

\* The two quote queries.
ScanQuotes ==
    /\ scan.at = "idle"
    /\ scan' = [at |-> "listed", sent |-> {q \in Quote : quote[q] = "sent"}, dead |-> Dead]
    /\ UNCHANGED <<quoteVars, order, alerted, call>>

\* The order query that follows.
ScanOrders ==
    /\ scan.at = "listed"
    /\ scan' = [at   |-> "matched",
                sent |-> {q \in scan.sent : order[q] = "none"},
                dead |-> {q \in scan.dead : order[q] = "pending_approval"}]
    /\ UNCHANGED <<quoteVars, order, alerted, call>>

\* Mutant: a repair that fails is only logged.
RepairSilently(q) ==
    \/ PlaceOrder(q) /\ UNCHANGED alerted
    \/ PlacesNoOrder(q) /\ UNCHANGED <<order, alerted>>

\* A listed quote gets its order, or has got one meanwhile; a failure opens an
\* alert.
Repair(q) ==
    \/ PlaceOrder(q) /\ UNCHANGED alerted
    \/ order[q] # "none" /\ UNCHANGED <<order, alerted>>
    \/ alerted' = alerted \cup {q} /\ UNCHANGED order

ScanRepair(q) ==
    /\ scan.at = "matched" /\ q \in scan.sent
    /\ Repair(q)
    /\ scan' = [scan EXCEPT !.sent = @ \ {q}]
    /\ UNCHANGED <<quoteVars, call>>

\* A listed order is cancelled.
ScanRelease(q) ==
    /\ scan.at = "matched" /\ q \in scan.dead
    /\ CancelLinked(q)
    /\ scan' = [scan EXCEPT !.dead = @ \ {q}]
    /\ UNCHANGED <<quoteVars, alerted, call>>

\* A release fails, which opens an alert.
ScanAlert(q) ==
    /\ scan.at = "matched" /\ q \in scan.dead
    /\ alerted' = alerted \cup {q}
    /\ scan' = [scan EXCEPT !.dead = @ \ {q}]
    /\ UNCHANGED <<quoteVars, order, call>>

\* A repair or a release fails and so does the alert; the reconciler goes on.
ScanSkip(q) ==
    /\ scan.at = "matched" /\ q \in scan.sent \cup scan.dead
    /\ scan' = [scan EXCEPT !.sent = @ \ {q}, !.dead = @ \ {q}]
    /\ UNCHANGED <<quoteVars, order, alerted, call>>

\* It is through, or it dies.
ScanEnd ==
    /\ scan.at # "idle"
    /\ scan' = NoScan
    /\ UNCHANGED <<quoteVars, order, alerted, call>>
-----------------------------------------------------------------------------
Next ==
    \/ \E c \in Caller :
          \/ Fail(c)
          \/ \E op \in {"send", "reject", "expire", "delete"}, q \in Quote : Read(c, op, q)
          \/ Transition(c)
          \/ FinishSend(c)
          \/ FinishDead(c)
          \/ DeleteQuote(c)
          \/ \E q \in Quote : \E copy \in RowForCopy(q) : Revise(c, q, copy)
          \/ \E q \in Quote : Accept(c, q)
          \/ AcceptLock(c)
          \/ AcceptFound(c)
          \/ AcceptCreates(c)
    \/ \E q \in Quote :
          \/ CreateQuote(q)
          \/ EditQuote(q)
          \/ Lapse(q)
          \/ SubmitOrder(q)
          \/ ApproveOrder(q)
          \/ ShipOrder(q)
          \/ CancelOrder(q)
          \/ ResolveAlert(q)
          \/ ScanRepair(q)
          \/ ScanRelease(q)
          \/ ScanAlert(q)
          \/ ScanSkip(q)
    \/ ScanQuotes
    \/ ScanOrders
    \/ ScanEnd

Spec == Init /\ [][Next]_vars

\* The cron calls the reconciler for ever; it may die in any run, but not at
\* the same place in all of them, and a repair it gets to again and again is
\* in the end tried with an outcome: an order, or an alert.
\* Nothing is assumed of the users, nor that any request comes to its end.
FairSpec ==
    /\ Spec
    /\ SF_vars(ScanQuotes)
    /\ SF_vars(ScanOrders)
    /\ WF_vars(ScanEnd)
    /\ \A q \in Quote : SF_vars(ScanRepair(q)) /\ SF_vars(ScanRelease(q))
-----------------------------------------------------------------------------
(***************************************************************************)
(* Properties.                                                             *)
(***************************************************************************)

\* The status an acceptance has read stands until it is through, and no two
\* acceptances work on one quote.
LockHolds ==
    /\ \A c \in Caller : HoldsLock(c) =>
          quote[call[c].q] = call[c].seen /\ call[c].seen \notin {"none", "deleted"}
    /\ \A c, d \in Caller :
          HoldsLock(c) /\ HoldsLock(d) /\ call[c].q = call[d].q => c = d

\* However old the reading a request or the reconciler acts on, an order comes
\* into being only for a quote that is sent or accepted at that moment.
OrdersOnlyForOpenQuotes ==
    [][\A q \in Quote : order[q] = "none" /\ order'[q] # "none" =>
          quote[q] \in {"sent", "accepted"}]_vars

\* Two requests that both read a quote do not both move it: as long as its
\* row is not deleted, an accepted or revised quote keeps its state, and a
\* rejected or expired one can only be revised.
EndsStayEnds ==
    [][\A q \in Quote : quote'[q] # "deleted" =>
          /\ quote[q] \in {"accepted", "revised"} => quote'[q] = quote[q]
          /\ quote[q] \in {"rejected", "expired"} => quote'[q] \in {quote[q], "revised"}]_vars

\* A sent quote whose reservation got lost gets it in the end, or an alert
\* tells of it, or it is no longer sent.
LostReservationShows ==
    \A q \in Quote : quote[q] = "sent" /\ order[q] = "none"
        ~> quote[q] # "sent" \/ order[q] # "none" \/ q \in alerted

\* A pending order of a rejected or expired quote does not hold its stock for
\* ever, whatever became of the request that should have cancelled it.
DeadQuoteReleases ==
    \A q \in Quote : quote[q] \in {"rejected", "expired"} /\ order[q] = "pending_approval"
        ~> order[q] # "pending_approval" \/ quote[q] = "revised"

\* serviceAcceptQuoteToOrder: the RPC, too, guards the status, under the lock.
AcceptGuarded ==
    [][\A q \in Quote : order[q] = "pending_approval" /\ order'[q] = "approved" =>
          ApproveOrder(q) \/ quote[q] \in {"sent", "accepted"}]_vars
=============================================================================
