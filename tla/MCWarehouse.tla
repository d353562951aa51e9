---------------------------- MODULE MCWarehouse ----------------------------
(***************************************************************************)
(* Purchasing, SupplierRfq, Production, AlertScan, ParasutSync and         *)
(* PaymentPoll for TLC.  They share no state that the properties relate: a *)
(* behaviour is one of any of them, while the others rest.  One run takes  *)
(* the accounting parts with fairness, the other the rest of the warehouse *)
(* and two runs of the synchronisation.                                    *)
(***************************************************************************)
EXTENDS Naturals, FiniteSets, Functions, TLC

CONSTANTS
    Part,                                               \* the parts a behaviour may be of
    Purchase, Purchase1, Line1, Line2, Clerk, Quantity,     \* purchase orders
    Supplier, MaxVersion, MaxOrders,                    \* requests for quotation
    Products, MaxEntries, MaxStock, MaxMoves,           \* production
    Scan,                                               \* alerts
    Runner, Mode, Cap, MaxFaults, MaxDocs,              \* synchronisation
    Poller, Doc, Broken, Batch, MaxPollFaults           \* payments

VARIABLES
    part,
    po, commitment, clerk, byHand, raced,
    rfq, invited, letter, sender, ordered, broken,
    stock, entry, session, owner, moved, left,
    aspect, world, alert, dismissed, scan, ai,
    row, remote, run, poll, faults, outrun,
    invoice, paid, queue, overdue, poller, pollFaults, overlap

Steps == {"contact", "product", "shipment", "invoice", "edoc"}

ASSUME PurchaseAssumption == Quantity \subseteq Nat
ASSUME ProductionAssumption ==
    "nobody" \notin Clerk /\ MaxEntries \in Nat /\ MaxStock \in Nat /\ MaxMoves \in Nat
ASSUME SyncAssumption ==
    /\ "free" \notin Runner /\ Mode \subseteq {"cron", "all"} \cup Steps
    /\ MaxDocs \in Nat /\ Cap \in Nat /\ MaxFaults \in Nat

Line == {Line1, Line2}

\* Product 2 is made of a piece of product 1, product 3 of one of each.
Bill == [p \in 1..Products |-> [c \in 1..Products |-> IF c < p THEN 1 ELSE 0]]

\* Orders of a line each, or one order of two lines. Where a part has a module of
\* proofs, that is the one to instantiate: its theorems speak of these instances.
O == INSTANCE PurchasingProofs WITH Line <- {Line1}, Amounts <- [{Line1} -> Quantity]
L == INSTANCE PurchasingProofs WITH
       Purchase <- {Purchase1}, Amounts <- {[l \in Line |-> IF l = Line1 THEN 1 ELSE 2]}
Q == INSTANCE SupplierRfq WITH clerk <- sender
P == INSTANCE Production WITH Session <- Clerk, Product <- 1..Products, Need <- Bill
A == INSTANCE AlertScan WITH Aspect <- {"stock", "deadline", "rest"}
S == INSTANCE ParasutSync WITH Run <- Runner
M == INSTANCE PaymentPoll WITH
       Run <- Poller, MaxFaults <- MaxPollFaults,
       remote <- invoice, alert <- overdue, run <- poller, faults <- pollFaults

orderVars == <<po, commitment, clerk, byHand, raced>>
rfqVars == <<rfq, invited, letter, sender, ordered, broken>>
madeVars == <<stock, entry, session, owner, moved, left>>
alertVars == <<aspect, world, alert, dismissed, scan, ai>>
syncVars == <<row, remote, run, poll, faults, outrun>>
paymentVars == <<invoice, paid, queue, overdue, poller, pollFaults, overlap>>
vars == <<part, orderVars, rfqVars, madeVars, alertVars, syncVars, paymentVars>>

\* A part that rests has one initial state.
Rests(p, chosen) == part = p \/ chosen

Init ==
    /\ part \in Part
    /\ IF part = "lines" THEN L!Init ELSE O!Init
    /\ Q!Init /\ P!Init /\ A!Init /\ S!Init /\ M!Init
    /\ Rests("sync", ~row.mispriced)
    /\ Rests("rfq", DOMAIN invited = Supplier)
    /\ Rests("alerts", aspect = "rest" /\ world = CHOOSE w \in A!Worlds : TRUE)
    /\ Rests("payment", queue = CHOOSE q \in [1..Cardinality(Doc) -> Doc] : IsInjective(q))

Orders == UNCHANGED <<part, rfqVars, madeVars, alertVars, syncVars, paymentVars>>
Rfq == UNCHANGED <<part, orderVars, madeVars, alertVars, syncVars, paymentVars>>
Made == UNCHANGED <<part, orderVars, rfqVars, alertVars, syncVars, paymentVars>>
Alerts == UNCHANGED <<part, orderVars, rfqVars, madeVars, syncVars, paymentVars>>
Sync == part = "sync" /\ UNCHANGED <<part, orderVars, rfqVars, madeVars, alertVars, paymentVars>>
Payment == part = "payment" /\ UNCHANGED <<part, orderVars, rfqVars, madeVars, alertVars, syncVars>>

Next ==
    \/ part = "orders" /\ Orders /\ O!Next
    \/ part = "lines" /\ Orders /\ L!Next
    \/ part = "rfq" /\ Rfq /\ Q!Next
    \/ part = "production" /\ Made /\ P!Next
    \/ part = "alerts" /\ Alerts /\ A!Next
    \/ Sync /\ S!Next
    \/ Payment /\ M!Next

Spec == Init /\ [][Next]_vars

\* The fairness of the accounting parts, in FairSpec of each.
Fairness ==
    /\ \A r \in Poller : WF_paymentVars(part = "payment" /\ M!Work(r))
    /\ \A r \in Runner : /\ WF_syncVars(part = "sync" /\ S!Start(r, "cron"))
                         /\ WF_syncVars(part = "sync" /\ S!Proceed(r))
    /\ WF_syncVars(part = "sync" /\ S!Expire) /\ WF_syncVars(part = "sync" /\ S!PollLook)
    /\ WF_syncVars(part = "sync" /\ S!PollWrite) /\ WF_syncVars(part = "sync" /\ S!Land)
    /\ WF_syncVars(part = "sync" /\ S!JobEnds)

FairSpec == Spec /\ Fairness

Symmetric == Permutations(Purchase \cup Clerk)
-----------------------------------------------------------------------------
(* What a part promises is looked at while it works; a part that rests stays in *)
(* its initial state.                                                           *)

\* The two answers to what is on its way agree.
IncomingAgrees == IF part = "lines" THEN L!IncomingAgrees ELSE O!IncomingAgrees

\* Nothing is bought twice: of the orders in force that were drawn from one
\* recommendation all but one have had their lines replaced as a draft, unless two
\* requests drew it at once; a line of an RFQ becomes one purchase order line, and
\* the suppliers have the letter that asks for what is asked for.
BoughtOnce ==
    /\ IF part = "lines" THEN L!OrderedOnce ELSE O!OrderedOnce
    /\ Q!AwardedOnce /\ Q!LettersCurrent

\* The guard of an order from a recommendation: "Yeni sipariş açmak için önce mevcut
\* siparişi iptal edin", to order anew the order in force must be cancelled first.
OneOrderInForce == O!OneOrderInForce

\* No production is undone twice, none is lost under another.
StockExplained == part = "production" => P!StockExplained

\* A run that nobody disturbs leaves the alerts the product calls for.
ScanSettles == part = "alerts" => A!ScanSettles

\* A second document needs a run with a stale reading or an outlived lease: the
\* order remembers every request that may have made one.
DuplicateNeedsStaleRun == part = "sync" => S!RequestRemembered /\ S!DuplicateNeedsStaleRun

\* What has arrived in full or was cancelled stays so, a finished e-document stays
\* finished, and the rule never closes a finding of the assistant on a product
\* that it saw well.
DoneStaysDone ==
    /\ [][IF part = "lines" THEN L!EndKept ELSE O!EndKept]_vars
    /\ S!FinishedStays
    /\ A!FindingsSurvive

\* An order that is done has its documents.
DoneIsComplete == part = "sync" => S!DoneIsComplete

\* An order gets done, or back to somebody who looks at it.
Settles == part = "sync" => S!Settles

\* A payment is seen in the end.
PaymentsArrive == part = "payment" => M!PaymentsArrive

\* Between runs the alerts tell what the statuses say.
AlertsFollow == part = "payment" => M!AlertsFollow
=============================================================================
