---------------------------- MODULE SupplierRfq ----------------------------
(***************************************************************************)
(* A request for quotation: its lines go out to the invited suppliers one  *)
(* by one, their prices come back, and an award turns the winning cells    *)
(* into purchase orders.  Each RPC is one transaction that locks the       *)
(* request; the sending reads it first and marks it sent at the end.       *)
(***************************************************************************)
EXTENDS Naturals

CONSTANTS
    Supplier,    \* suppliers
    Line,        \* lines of the request
    Clerk,       \* sendings in progress
    MaxVersion,  \* bound: edits of the lines, counted from 1
    MaxOrders    \* bound: purchase order lines counted

VARIABLES
    rfq,      \* supplier_rfqs: status, and the version of its lines
    invited,  \* supplier_rfq_vendors: the invited suppliers with their cells
    letter,   \* the version of the lines each supplier was last sent
    clerk,    \* what each sending is doing
    ordered,  \* how many purchase order lines each line has become
    broken    \* history: a sending died, or the request changed during one

vars == <<rfq, invited, letter, clerk, ordered, broken>>
-----------------------------------------------------------------------------
Idle == [pc |-> "idle"]
Cell == [status |-> "invited", priced |-> {}, won |-> {}]
Groups == (SUBSET Supplier) \ {{}}
Sending == \E c \in Clerk : clerk[c] # Idle

Init ==
    /\ rfq = [status |-> "draft", version |-> 1]
    /\ \E S \in Groups : invited = [v \in S |-> Cell]
    /\ letter = [v \in Supplier |-> 0]
    /\ clerk = [c \in Clerk |-> Idle]
    /\ ordered = [l \in Line |-> 0]
    /\ broken = FALSE

Editable == rfq.status = "draft"

\* New lines have no prices; a supplier who stays keeps the answer it gave.
UpdateRfq ==
    /\ Editable /\ rfq.version < MaxVersion
    /\ rfq' = [rfq EXCEPT !.version = @ + 1]
    /\ \E S \in Groups :
          invited' = [v \in S |-> IF v \in DOMAIN invited
                                  THEN [Cell EXCEPT !.status = invited[v].status] ELSE Cell]
    /\ broken' = (broken \/ Sending)
    /\ UNCHANGED <<letter, clerk, ordered>>

CancelRfq ==
    /\ rfq.status \notin {"awarded", "deleted"}
    /\ rfq' = [rfq EXCEPT !.status = "cancelled"]
    /\ UNCHANGED <<invited, letter, clerk, ordered, broken>>

DeleteRfq ==
    /\ rfq.status = "draft"
    /\ rfq' = [rfq EXCEPT !.status = "deleted"]
    /\ UNCHANGED <<invited, letter, clerk, ordered, broken>>
-----------------------------------------------------------------------------
(***************************************************************************)
(* serviceSendRfq                                                          *)
(***************************************************************************)
StartSending(c) ==
    /\ clerk[c] = Idle /\ rfq.status \in {"draft", "sent"}
    /\ clerk' = [clerk EXCEPT ![c] = [pc |-> "send", version |-> rfq.version,
                                      todo |-> DOMAIN invited]]
    /\ UNCHANGED <<rfq, invited, letter, ordered, broken>>

\* The letter arrives, or a supplier is left out with a warning.
SendOne(c) ==
    /\ clerk[c].pc = "send"
    /\ \E v \in clerk[c].todo :
          /\ clerk' = [clerk EXCEPT ![c].todo = @ \ {v}]
          /\ \/ letter' = [letter EXCEPT ![v] = clerk[c].version]
             \/ UNCHANGED letter
    /\ UNCHANGED <<rfq, invited, ordered, broken>>

StillSendable == rfq.status \in {"draft", "sent"}

\* mark_rfq_sent
MarkSent(c) ==
    /\ clerk[c].pc = "send" /\ clerk[c].todo = {}
    /\ clerk' = [clerk EXCEPT ![c] = Idle]
    /\ IF StillSendable
       THEN /\ rfq' = [rfq EXCEPT !.status = "sent"]
            /\ invited' = [v \in DOMAIN invited |->
                              [invited[v] EXCEPT !.status = IF @ = "invited" THEN "sent" ELSE @]]
       ELSE UNCHANGED <<rfq, invited>>
    /\ UNCHANGED <<letter, ordered, broken>>

Die(c) ==
    /\ clerk[c].pc = "send"
    /\ clerk' = [clerk EXCEPT ![c] = Idle] /\ broken' = TRUE
    /\ UNCHANGED <<rfq, invited, letter, ordered>>
-----------------------------------------------------------------------------
\* upsert_rfq_vendor_quote: every cell of the supplier is written anew, in
\* whatever status the request is, and what it had won is forgotten.
Quote(v, lines) ==
    /\ v \in DOMAIN invited /\ rfq.status # "deleted"
    /\ invited' = [invited EXCEPT ![v] = [status |-> "responded", priced |-> lines, won |-> {}]]
    /\ UNCHANGED <<rfq, letter, clerk, ordered, broken>>

\* award_rfq_create_pos: each line to a supplier that has priced it.
Award(winner) ==
    /\ rfq.status = "sent"
    /\ \A l \in DOMAIN winner : winner[l] \in DOMAIN invited /\ l \in invited[winner[l]].priced
    /\ \A l \in Line : ordered[l] < MaxOrders
    /\ ordered' = [l \in Line |-> ordered[l] + IF l \in DOMAIN winner THEN 1 ELSE 0]
    /\ invited' = [v \in DOMAIN invited |-> [invited[v] EXCEPT !.won =
                      @ \cup {l \in DOMAIN winner : winner[l] = v}]]
    /\ rfq' = [rfq EXCEPT !.status = "awarded"]
    /\ UNCHANGED <<letter, clerk, broken>>

Next ==
    \/ UpdateRfq \/ CancelRfq \/ DeleteRfq
    \/ \E c \in Clerk : StartSending(c) \/ SendOne(c) \/ MarkSent(c) \/ Die(c)
    \/ \E v \in Supplier, lines \in SUBSET Line : Quote(v, lines)
    \/ \E S \in (SUBSET Line) \ {{}} : \E winner \in [S -> Supplier] : Award(winner)

Spec == Init /\ [][Next]_vars
-----------------------------------------------------------------------------
\* A line becomes one purchase order line, although a sending that began
\* before the award marks the request after it.
AwardedOnce == \A l \in Line : ordered[l] <= 1

\* What the suppliers of a request that is out were last sent is what it asks
\* for, unless a sending died or the request changed during one.
LettersCurrent ==
    broken \/ rfq.status \notin {"sent", "awarded"}
    \/ \A v \in DOMAIN invited : letter[v] \in {0, rfq.version}
-----------------------------------------------------------------------------
\* The inductive strengthening.
TypeOK ==
    /\ rfq \in [status : {"draft", "sent", "awarded", "cancelled", "deleted"}, version : Nat]
    /\ DOMAIN invited \subseteq Supplier /\ letter \in [Supplier -> Nat]
    /\ clerk \in [Clerk -> {Idle} \cup [pc : {"send"}, version : Nat, todo : SUBSET Supplier]]
    /\ ordered \in [Line -> Nat] /\ broken \in BOOLEAN

\* Every sending carries the lines of now, and a draft that nobody sends has
\* reached nobody.
SendingsCurrent ==
    /\ \A v \in Supplier : letter[v] \in {0, rfq.version}
    /\ \A c \in Clerk : clerk[c].pc = "send" => clerk[c].version = rfq.version
    /\ rfq.status = "draft" /\ ~Sending => \A v \in Supplier : letter[v] = 0

RfqInv ==
    /\ TypeOK /\ AwardedOnce
    /\ rfq.status = "awarded" \/ \A l \in Line : ordered[l] = 0
    /\ broken \/ SendingsCurrent
=============================================================================
