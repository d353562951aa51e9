-------------------------- MODULE QuoteOrderProofs --------------------------
(***************************************************************************)
(* Theorems about QuoteOrder, for every set of quotes and requests.        *)
(***************************************************************************)
EXTENDS QuoteOrder, TLAPS

\* What a request carries depends on what it is and how far it has come.
LEMMA CallFields ==
    ASSUME NEW r \in Calls
    PROVE  /\ r # NoCall => r.q \in Quote
           /\ r.op \in {"send", "reject", "expire"} =>
                 /\ r.seen \in {"draft", "sent"}
                 /\ [r EXCEPT !.at = "order"] \in Calls
           /\ r.op \in {"send", "reject", "expire", "delete", "revise", "accept"} =>
                 r # NoCall
<1>1. CASE r = NoCall
  BY <1>1 DEF NoCall
<1>2. CASE r \in [op : {"send", "reject", "expire"}, at : {"status", "order"},
                  q : Quote, seen : {"draft", "sent"}]
  BY <1>2 DEF NoCall, Calls
<1>3. CASE r \in [op : {"delete"}, at : {"status"}, q : Quote, seen : {"draft"}]
  BY <1>3 DEF NoCall
<1>4. CASE r \in [op : {"revise"}, at : {"order"}, q : Quote]
  BY <1>4 DEF NoCall
<1>5. CASE r \in [op : {"accept"}, at : {"begin"}, q : Quote]
  BY <1>5 DEF NoCall
<1>6. CASE r \in [op : {"accept"}, at : {"locked"}, q : Quote,
                  seen : QuoteStatuses, found : OrderStatuses]
  BY <1>6 DEF NoCall
<1> QED BY <1>1, <1>2, <1>3, <1>4, <1>5, <1>6 DEF Calls

\* The reconciler's lists are lists of quotes, and it has them when it works.
LEMMA ScanFields ==
    ASSUME scan \in Scans, scan.at # "idle"
    PROVE  scan \in [at : {"listed", "matched"}, sent : SUBSET Quote, dead : SUBSET Quote]
BY DEF Scans, NoScan
-----------------------------------------------------------------------------
\* A call that ends, or that is replaced by another well-typed one.
LEMMA CallUpdate ==
    ASSUME TypeOK, NEW c \in Caller, NEW r \in Calls, call' = [call EXCEPT ![c] = r]
    PROVE  call' \in [Caller -> Calls]
BY DEF TypeOK

LEMMA ReturnType ==
    ASSUME TypeOK, NEW c \in Caller, Return(c)
    PROVE  call' \in [Caller -> Calls]
<1>1. NoCall \in Calls
  BY DEF Calls
<1> QED BY <1>1, CallUpdate DEF Return

\* The requests keep the types.
LEMMA RequestType ==
    ASSUME TypeOK, NEW c \in Caller,
           \/ Fail(c)
           \/ \E op \in {"send", "reject", "expire", "delete"}, q \in Quote : Read(c, op, q)
           \/ Transition(c)
           \/ FinishSend(c)
           \/ FinishDead(c)
           \/ DeleteQuote(c)
           \/ \E q \in Quote : \E copy \in RowForCopy(q) : Revise(c, q, copy)
           \/ \E q \in Quote : Accept(c, q)
           \/ AcceptLock(c)
           \/ AcceptFound(c)
           \/ AcceptCreates(c)
    PROVE  TypeOK'
<1> USE DEF QuoteStatuses, OrderStatuses, quoteVars
<1>0. call[c] \in Calls
  BY DEF TypeOK
<1>1. CASE Fail(c)
  BY <1>1, ReturnType DEF Fail, TypeOK
<1>2. ASSUME NEW op \in {"send", "reject", "expire", "delete"}, NEW q \in Quote,
             Read(c, op, q)
      PROVE  TypeOK'
  <2>1. [op |-> op, at |-> "status", q |-> q, seen |-> quote[q]] \in Calls
    BY <1>2 DEF Read, From, Calls
  <2>2. call' \in [Caller -> Calls]
    BY <1>2, <2>1, CallUpdate DEF Read
  <2> QED BY <1>2, <2>2 DEF Read, TypeOK
<1>3. CASE Transition(c)
  <2>1. Target(call[c].op) \in QuoteStatuses
    BY <1>3 DEF Transition, Target
  <2>2. quote' \in [Quote -> QuoteStatuses]
    BY <1>3, <2>1 DEF Transition, SetStatus, TypeOK
  <2>3. CASE call' = [call EXCEPT ![c].at = "order"]
    <3>1. [call[c] EXCEPT !.at = "order"] \in Calls
      BY <1>0, <1>3, CallFields DEF Transition
    <3>2. call' = [call EXCEPT ![c] = [call[c] EXCEPT !.at = "order"]]
      BY <2>3
    <3> QED BY <3>1, <3>2, <2>2, <1>3, CallUpdate DEF Transition, TypeOK
  <2>4. CASE Return(c)
    BY <2>2, <2>4, <1>3, ReturnType DEF Transition, TypeOK
  <2> QED BY <2>3, <2>4, <1>3 DEF Transition
<1>4. CASE FinishSend(c)
  BY <1>4, ReturnType DEF FinishSend, PlaceOrder, TypeOK
<1>5. CASE FinishDead(c)
  BY <1>5, ReturnType DEF FinishDead, CancelLinked, TypeOK
<1>6. CASE DeleteQuote(c)
  BY <1>6, ReturnType DEF DeleteQuote, TypeOK
<1>7. ASSUME NEW q \in Quote, NEW copy \in RowForCopy(q), Revise(c, q, copy)
      PROVE  TypeOK'
  <2>1. [op |-> "revise", at |-> "order", q |-> q] \in Calls
    BY DEF Calls
  <2>2. call' \in [Caller -> Calls]
    BY <1>7, <2>1, CallUpdate DEF Revise
  <2>3. copy \in Quote
    BY DEF RowForCopy
  <2> QED BY <1>7, <2>2, <2>3 DEF Revise, TypeOK
<1>8. ASSUME NEW q \in Quote, Accept(c, q)
      PROVE  TypeOK'
  <2>1. [op |-> "accept", at |-> "begin", q |-> q] \in Calls
    BY DEF Calls
  <2>2. call' \in [Caller -> Calls]
    BY <1>8, <2>1, CallUpdate DEF Accept
  <2> QED BY <1>8, <2>2 DEF Accept, TypeOK
<1>9. CASE AcceptLock(c)
  <2>1. call[c].q \in Quote
    BY <1>0, <1>9, CallFields DEF AcceptLock
  <2>2. [op |-> "accept", at |-> "locked", q |-> call[c].q,
         seen |-> quote[call[c].q], found |-> order[call[c].q]] \in Calls
    BY <2>1 DEF Calls, TypeOK
  <2>3. call' \in [Caller -> Calls]
    BY <1>9, <2>2, CallUpdate DEF AcceptLock
  <2> QED BY <1>9, <2>3 DEF AcceptLock, TypeOK
<1>10. CASE AcceptFound(c)
  BY <1>10, ReturnType DEF AcceptFound, MarkAccepted, TypeOK
<1>11. CASE AcceptCreates(c)
  BY <1>11, ReturnType DEF AcceptCreates, MarkAccepted, TypeOK
<1> QED BY <1>1, <1>2, <1>3, <1>4, <1>5, <1>6, <1>7, <1>8, <1>9, <1>10, <1>11

\* The single calls and the reconciler keep them too.
LEMMA OtherType ==
    ASSUME TypeOK,
           \/ \E q \in Quote :
                 \/ CreateQuote(q)
                 \/ EditQuote(q)
                 \/ Lapse(q)
                 \/ SubmitOrder(q)
                 \/ ApproveOrder(q)
                 \/ ShipOrder(q)
                 \/ CancelOrder(q)
                 \/ ResolveAlert(q)
                 \/ ScanRepair(q)
                 \/ ScanRelease(q)
                 \/ ScanAlert(q)
                 \/ ScanSkip(q)
           \/ ScanQuotes
           \/ ScanOrders
           \/ ScanEnd
    PROVE  TypeOK'
<1> USE DEF QuoteStatuses, OrderStatuses, quoteVars
<1>1. ASSUME NEW q \in Quote, CreateQuote(q) \/ EditQuote(q) \/ Lapse(q)
      PROVE  TypeOK'
  BY <1>1 DEF CreateQuote, EditQuote, Lapse, TypeOK
<1>2. ASSUME NEW q \in Quote,
             SubmitOrder(q) \/ ApproveOrder(q) \/ ShipOrder(q) \/ CancelOrder(q)
      PROVE  TypeOK'
  BY <1>2 DEF SubmitOrder, ApproveOrder, ShipOrder, CancelOrder, OrderStep, TypeOK
<1>3. ASSUME NEW q \in Quote, ResolveAlert(q)
      PROVE  TypeOK'
  BY <1>3 DEF ResolveAlert, TypeOK
<1>4. ASSUME NEW q \in Quote,
             ScanRepair(q) \/ ScanRelease(q) \/ ScanAlert(q) \/ ScanSkip(q)
      PROVE  TypeOK'
  <2>1. scan \in [at : {"listed", "matched"}, sent : SUBSET Quote, dead : SUBSET Quote]
    BY <1>4, ScanFields DEF ScanRepair, ScanRelease, ScanAlert, ScanSkip, TypeOK
  <2>2. scan' \in Scans
    BY <1>4, <2>1 DEF ScanRepair, ScanRelease, ScanAlert, ScanSkip, Scans
  <2> QED BY <1>4, <2>2 DEF ScanRepair, Repair, PlaceOrder, ScanRelease, CancelLinked,
                            ScanAlert, ScanSkip, TypeOK
<1>5. CASE ScanQuotes
  BY <1>5 DEF ScanQuotes, Dead, Scans, TypeOK
<1>6. CASE ScanOrders
  <2>1. scan \in [at : {"listed", "matched"}, sent : SUBSET Quote, dead : SUBSET Quote]
    BY <1>6, ScanFields DEF ScanOrders, TypeOK
  <2> QED BY <1>6, <2>1 DEF ScanOrders, Scans, TypeOK
<1>7. CASE ScanEnd
  BY <1>7 DEF ScanEnd, Scans, TypeOK
<1> QED BY <1>1, <1>2, <1>3, <1>4, <1>5, <1>6, <1>7

LEMMA TypeInductive == TypeOK /\ [Next]_vars => TypeOK'
<1> SUFFICES ASSUME TypeOK, [Next]_vars PROVE TypeOK'
  OBVIOUS
<1>1. CASE Next
  BY <1>1, RequestType, OtherType DEF Next
<1>2. CASE UNCHANGED vars
  BY <1>2 DEF vars, quoteVars, TypeOK
<1> QED BY <1>1, <1>2

\* In every reachable state the requests and the reconciler hold well-typed
\* readings: an expiry or rejection never acts on a quote it read as settled.
THEOREM TypeCorrect == Spec => []TypeOK
<1>1. Init => TypeOK
  BY DEF Init, TypeOK, QuoteStatuses, OrderStatuses, Calls, Scans
<1> QED BY <1>1, TypeInductive, PTL DEF Spec
-----------------------------------------------------------------------------
\* Locks survive a step that takes none, lets none of those held change hands,
\* and leaves the locked quotes alone.
LEMMA LocksKept ==
    ASSUME LockHolds,
           \A d \in Caller : HoldsLock(d)' =>
               HoldsLock(d) /\ call'[d] = call[d] /\ quote'[call[d].q] = quote[call[d].q]
    PROVE  LockHolds'
BY DEF LockHolds

\* The status that an acceptance read under FOR UPDATE stands, and it is alone.
LEMMA LockInductive == TypeOK /\ LockHolds /\ [Next]_vars => LockHolds'
<1> SUFFICES ASSUME TypeOK, LockHolds, [Next]_vars PROVE LockHolds'
  OBVIOUS
<1> USE DEF quoteVars
<1>0. /\ call \in [Caller -> Calls]
      /\ quote \in [Quote -> QuoteStatuses]
  BY DEF TypeOK
<1>h. \A d \in Caller : HoldsLock(d) => call[d].q \in Quote
  <2> SUFFICES ASSUME NEW d \in Caller, HoldsLock(d) PROVE call[d].q \in Quote
    OBVIOUS
  <2>1. call[d] \in Calls /\ call[d] # NoCall
    BY <1>0 DEF HoldsLock, NoCall
  <2> QED BY <2>1, CallFields
<1>1. ASSUME UNCHANGED <<quote, call>>
      PROVE  LockHolds'
  BY <1>1, LocksKept DEF HoldsLock
<1>2. ASSUME NEW c \in Caller, NEW r, call' = [call EXCEPT ![c] = r],
             r.op # "accept" \/ r.at # "locked",
             \A d \in Caller \ {c} : HoldsLock(d) => quote'[call[d].q] = quote[call[d].q]
      PROVE  LockHolds'
  BY <1>0, <1>2, LocksKept DEF HoldsLock
<1>3. ASSUME NEW c \in Caller, NEW r, call' = [call EXCEPT ![c] = r],
             r.op # "accept" \/ r.at # "locked", UNCHANGED quote
      PROVE  LockHolds'
  BY <1>2, <1>3
<1>4. ASSUME NEW c \in Caller,
             \/ Fail(c) \/ FinishSend(c) \/ FinishDead(c)
      PROVE  LockHolds'
  BY <1>3, <1>4 DEF Fail, FinishSend, FinishDead, Return, NoCall
<1>5. ASSUME NEW c \in Caller, NEW op \in {"send", "reject", "expire", "delete"},
             NEW q \in Quote, Read(c, op, q)
      PROVE  LockHolds'
  BY <1>3, <1>5 DEF Read
<1>6. ASSUME NEW c \in Caller, NEW q \in Quote, Accept(c, q)
      PROVE  LockHolds'
  BY <1>3, <1>6 DEF Accept
<1>7. ASSUME NEW c \in Caller, Transition(c)
      PROVE  LockHolds'
  <2>1. call[c] \in Calls /\ call[c].q \in Quote
    BY <1>0, <1>7, CallFields DEF Transition
  <2>2. CASE /\ SetStatus(call[c].q, call[c].seen, Target(call[c].op))
             /\ call' = [call EXCEPT ![c].at = "order"]
    <3>1. call' = [call EXCEPT ![c] = [call[c] EXCEPT !.at = "order"]]
      BY <2>2
    <3>2. [call[c] EXCEPT !.at = "order"].op # "accept"
      <4>1. [call[c] EXCEPT !.at = "order"].op = call[c].op
        BY <2>1 DEF Calls, NoCall
      <4> QED BY <4>1, <1>7 DEF Transition
    <3>3. \A d \in Caller \ {c} : HoldsLock(d) => quote'[call[d].q] = quote[call[d].q]
      BY <1>0, <2>1, <2>2 DEF SetStatus, Locked
    <3> QED BY <3>1, <3>2, <3>3, <1>2
  <2>3. CASE Return(c) /\ UNCHANGED quote
    BY <1>3, <2>3 DEF Return, NoCall
  <2> QED BY <1>7, <2>2, <2>3 DEF Transition
<1>8. ASSUME NEW c \in Caller, DeleteQuote(c)
      PROVE  LockHolds'
  <2>1. \A d \in Caller \ {c} : HoldsLock(d) => quote'[call[d].q] = quote[call[d].q]
    BY <1>0, <1>8 DEF DeleteQuote, Locked
  <2> QED BY <1>2, <1>8, <2>1 DEF DeleteQuote, Return, NoCall
<1>9. ASSUME NEW c \in Caller, NEW q \in Quote, NEW copy \in RowForCopy(q),
             Revise(c, q, copy)
      PROVE  LockHolds'
  <2>1. copy = q \/ (copy \in Quote /\ quote[copy] = "none")
    BY DEF RowForCopy
  <2>2. \A d \in Caller \ {c} : HoldsLock(d) => quote'[call[d].q] = quote[call[d].q]
    <3> TAKE d \in Caller \ {c}
    <3> HAVE HoldsLock(d)
    <3>1. call[d].q # q /\ quote[call[d].q] # "none"
      BY <1>9 DEF Revise, Locked, LockHolds
    <3>2. call[d].q # copy
      BY <2>1, <3>1
    <3>3. quote' = [[quote EXCEPT ![copy] = "draft"] EXCEPT ![q] = "revised"]
      BY <1>9 DEF Revise
    <3> QED BY <1>0, <1>h, <3>1, <3>2, <3>3
  <2> QED BY <1>2, <1>9, <2>2 DEF Revise
<1>10. ASSUME NEW c \in Caller, AcceptLock(c)
       PROVE  LockHolds'
  <2>1. /\ UNCHANGED quote
        /\ quote[call[c].q] \notin {"none", "deleted"}
        /\ call'[c] = [op |-> "accept", at |-> "locked", q |-> call[c].q,
                       seen |-> quote[call[c].q], found |-> order[call[c].q]]
        /\ \A d \in Caller \ {c} : call'[d] = call[d]
        /\ \A d \in Caller : HoldsLock(d) => call[d].q # call[c].q
    BY <1>0, <1>10 DEF AcceptLock, Locked
  <2> QED BY <2>1 DEF LockHolds, HoldsLock
<1>11. ASSUME NEW c \in Caller, AcceptFound(c) \/ AcceptCreates(c)
       PROVE  LockHolds'
  <2>1. HoldsLock(c) /\ Return(c)
    BY <1>11 DEF AcceptFound, AcceptCreates
  <2>2. \A d \in Caller \ {c} : HoldsLock(d) => call[d].q # call[c].q
    BY <2>1 DEF LockHolds
  <2>3. UNCHANGED quote \/ quote' = [quote EXCEPT ![call[c].q] = "accepted"]
    BY <1>11 DEF AcceptFound, AcceptCreates, MarkAccepted
  <2>4. \A d \in Caller \ {c} : HoldsLock(d) => quote'[call[d].q] = quote[call[d].q]
    BY <1>0, <1>h, <2>2, <2>3
  <2> QED BY <1>2, <2>1, <2>4 DEF Return, NoCall
<1>12. ASSUME NEW q \in Quote, CreateQuote(q)
       PROVE  LockHolds'
  <2>1. \A d \in Caller : HoldsLock(d) => call[d].q # q
    BY <1>12 DEF CreateQuote, LockHolds
  <2>2. UNCHANGED call /\ quote' = [quote EXCEPT ![q] = "draft"]
    BY <1>12 DEF CreateQuote
  <2> QED BY <1>0, <2>1, <2>2, LocksKept DEF HoldsLock
<1>13. ASSUME NEW q \in Quote,
              \/ EditQuote(q) \/ Lapse(q) \/ SubmitOrder(q) \/ ApproveOrder(q)
              \/ ShipOrder(q) \/ CancelOrder(q) \/ ResolveAlert(q)
       PROVE  UNCHANGED <<quote, call>>
  BY <1>13 DEF EditQuote, Lapse, SubmitOrder, ApproveOrder, ShipOrder, CancelOrder,
               OrderStep, ResolveAlert
<1>14. ASSUME NEW q \in Quote,
              ScanRepair(q) \/ ScanRelease(q) \/ ScanAlert(q) \/ ScanSkip(q)
       PROVE  UNCHANGED <<quote, call>>
  BY <1>14 DEF ScanRepair, ScanRelease, ScanAlert, ScanSkip
<1>15. ASSUME ScanQuotes \/ ScanOrders \/ ScanEnd
       PROVE  UNCHANGED <<quote, call>>
  BY <1>15 DEF ScanQuotes, ScanOrders, ScanEnd
<1>16. CASE Next
  BY <1>16, <1>1, <1>4, <1>5, <1>6, <1>7, <1>8, <1>9, <1>10, <1>11, <1>12, <1>13, <1>14, <1>15
     DEF Next
<1>17. CASE UNCHANGED vars
  BY <1>17, <1>1 DEF vars
<1> QED BY <1>16, <1>17

\* An acceptance decides on a status that still is the quote's.
THEOREM LockCorrect == Spec => []LockHolds
<1>1. Init => LockHolds
  BY DEF Init, LockHolds, HoldsLock, NoCall
<1> QED BY <1>1, LockInductive, TypeCorrect, PTL DEF Spec

\* However old the reading acted on, an order comes into being only for a quote
\* that is sent or accepted then: every RPC that makes one reads the status
\* again, and the locked quote of an acceptance cannot change under it.
THEOREM OpenQuotesOnly == Spec => OrdersOnlyForOpenQuotes
<1> DEFINE OnlyOpen == \A q \in Quote : order[q] = "none" /\ order'[q] # "none" =>
                          quote[q] \in {"sent", "accepted"}
<1>1. TypeOK /\ LockHolds /\ [Next]_vars => OnlyOpen
  <2> SUFFICES ASSUME TypeOK, LockHolds, [Next]_vars, NEW q \in Quote,
                      order[q] = "none", order'[q] # "none"
               PROVE  quote[q] \in {"sent", "accepted"}
    OBVIOUS
  <2> USE DEF TypeOK
  <2>1. ASSUME NEW r \in Quote, PlaceOrder(r)
        PROVE  quote[q] \in {"sent", "accepted"}
    BY <2>1 DEF PlaceOrder
  <2>2. ASSUME NEW r \in Quote, CancelLinked(r)
        PROVE  FALSE
    BY <2>2 DEF CancelLinked
  <2>3. ASSUME NEW c \in Caller, call[c] \in Calls, call[c] # NoCall,
               \/ FinishSend(c) \/ FinishDead(c) \/ DeleteQuote(c)
               \/ AcceptFound(c) \/ AcceptCreates(c)
        PROVE  quote[q] \in {"sent", "accepted"}
    <3>1. call[c].q \in Quote
      BY <2>3, CallFields
    <3>2. CASE FinishSend(c)
      BY <3>1, <3>2, <2>1 DEF FinishSend
    <3>3. CASE FinishDead(c)
      BY <3>1, <3>3, <2>2 DEF FinishDead
    <3>4. CASE DeleteQuote(c)
      BY <3>1, <3>4 DEF DeleteQuote
    <3>5. CASE AcceptFound(c)
      BY <3>1, <3>5 DEF AcceptFound
    <3>6. CASE AcceptCreates(c)
      BY <3>1, <3>6 DEF AcceptCreates, LockHolds
    <3> QED BY <2>3, <3>2, <3>3, <3>4, <3>5, <3>6
  <2>4. ASSUME NEW r \in Quote,
               \/ SubmitOrder(r) \/ ApproveOrder(r) \/ ShipOrder(r) \/ CancelOrder(r)
        PROVE  FALSE
    BY <2>4 DEF SubmitOrder, ApproveOrder, ShipOrder, CancelOrder, OrderStep
  <2>5. ASSUME NEW r \in Quote, ScanRepair(r) \/ ScanRelease(r)
        PROVE  quote[q] \in {"sent", "accepted"}
    BY <2>5, <2>1, <2>2 DEF ScanRepair, Repair, ScanRelease
  <2>6. CASE UNCHANGED order
    BY <2>6
  <2>7. CASE Next
    <3>1. ASSUME NEW c \in Caller,
                 \/ FinishSend(c) \/ FinishDead(c) \/ DeleteQuote(c)
                 \/ AcceptFound(c) \/ AcceptCreates(c)
          PROVE  quote[q] \in {"sent", "accepted"}
      <4>1. call[c].op \in {"send", "reject", "expire", "revise", "delete", "accept"}
        BY <3>1 DEF FinishSend, FinishDead, DeleteQuote, AcceptFound, AcceptCreates, HoldsLock
      <4> QED BY <3>1, <4>1, <2>3, CallFields
    <3>2. ASSUME NEW c \in Caller,
                 \/ Fail(c)
                 \/ \E op \in {"send", "reject", "expire", "delete"}, r \in Quote :
                       Read(c, op, r)
                 \/ Transition(c)
                 \/ \E r \in Quote : \E copy \in RowForCopy(r) : Revise(c, r, copy)
                 \/ \E r \in Quote : Accept(c, r)
                 \/ AcceptLock(c)
          PROVE  UNCHANGED order
      BY <3>2 DEF Fail, Read, Transition, Revise, Accept, AcceptLock
    <3>3. ASSUME NEW r \in Quote,
                 \/ CreateQuote(r) \/ EditQuote(r) \/ Lapse(r) \/ ResolveAlert(r)
                 \/ ScanAlert(r) \/ ScanSkip(r)
          PROVE  UNCHANGED order
      BY <3>3 DEF CreateQuote, EditQuote, Lapse, ResolveAlert, ScanAlert, ScanSkip
    <3>4. ASSUME ScanQuotes \/ ScanOrders \/ ScanEnd
          PROVE  UNCHANGED order
      BY <3>4 DEF ScanQuotes, ScanOrders, ScanEnd
    <3> QED BY <2>7, <2>4, <2>5, <2>6, <3>1, <3>2, <3>3, <3>4 DEF Next
  <2> QED BY <2>6, <2>7 DEF vars
<1>2. Spec => [][OnlyOpen]_vars
  BY <1>1, TypeCorrect, LockCorrect, PTL DEF Spec
<1> QED BY <1>2 DEF OrdersOnlyForOpenQuotes

\* Whoever else has read the quote while it was open, the one that settles it
\* is the last to move it, a revision of a rejected or expired one excepted.
THEOREM SettledOnce == Spec => EndsStayEnds
<1> DEFINE Settled == \A q \in Quote : quote'[q] # "deleted" =>
          /\ quote[q] \in {"accepted", "revised"} => quote'[q] = quote[q]
          /\ quote[q] \in {"rejected", "expired"} => quote'[q] \in {quote[q], "revised"}
<1>1. TypeOK /\ [Next]_vars => Settled
  <2> SUFFICES ASSUME TypeOK, [Next]_vars PROVE Settled
    OBVIOUS
  <2> USE DEF quoteVars
  <2>0. /\ call \in [Caller -> Calls]
        /\ quote \in [Quote -> QuoteStatuses]
    BY DEF TypeOK
  <2>1. ASSUME UNCHANGED quote
        PROVE  Settled
    BY <2>1
  <2>2. ASSUME NEW c \in Caller, Transition(c)
        PROVE  Settled
    <3>1. call[c].q \in Quote /\ call[c].seen \in {"draft", "sent"}
      BY <2>0, <2>2, CallFields DEF Transition
    <3>2. CASE SetStatus(call[c].q, call[c].seen, Target(call[c].op))
      <4>1. quote[call[c].q] \in {"draft", "sent"}
        BY <3>1, <3>2 DEF SetStatus
      <4>2. \A q \in Quote : q # call[c].q => quote'[q] = quote[q]
        BY <2>0, <3>2 DEF SetStatus
      <4> QED BY <4>1, <4>2
    <3> QED BY <2>1, <2>2, <3>2 DEF Transition
  <2>3. ASSUME NEW c \in Caller, DeleteQuote(c)
        PROVE  Settled
    BY <2>0, <2>3 DEF DeleteQuote
  <2>4. ASSUME NEW c \in Caller, NEW q \in Quote, NEW copy \in RowForCopy(q),
               Revise(c, q, copy)
        PROVE  Settled
    <3>1. copy = q \/ (copy \in Quote /\ quote[copy] = "none")
      BY DEF RowForCopy
    <3>2. /\ quote[q] \in {"sent", "rejected", "expired"}
          /\ quote' = [[quote EXCEPT ![copy] = "draft"] EXCEPT ![q] = "revised"]
      BY <2>4 DEF Revise
    <3> QED BY <2>0, <3>1, <3>2
  <2>5. ASSUME NEW c \in Caller, AcceptFound(c) \/ AcceptCreates(c)
        PROVE  Settled
    <3>1. \/ UNCHANGED quote
          \/ quote[call[c].q] = "sent" /\ quote' = [quote EXCEPT ![call[c].q] = "accepted"]
      BY <2>5 DEF AcceptFound, AcceptCreates, MarkAccepted
    <3> QED BY <2>0, <3>1
  <2>6. ASSUME NEW q \in Quote, CreateQuote(q)
        PROVE  Settled
    BY <2>0, <2>6 DEF CreateQuote
  <2>7. ASSUME NEW c \in Caller,
               \/ Fail(c) \/ FinishSend(c) \/ FinishDead(c) \/ AcceptLock(c)
               \/ \E op \in {"send", "reject", "expire", "delete"}, q \in Quote :
                     Read(c, op, q)
               \/ \E q \in Quote : Accept(c, q)
        PROVE  UNCHANGED quote
    BY <2>7 DEF Fail, FinishSend, FinishDead, AcceptLock, Read, Accept
  <2>8. ASSUME NEW q \in Quote,
               \/ EditQuote(q) \/ Lapse(q) \/ SubmitOrder(q) \/ ApproveOrder(q)
               \/ ShipOrder(q) \/ CancelOrder(q) \/ ResolveAlert(q)
               \/ ScanRepair(q) \/ ScanRelease(q) \/ ScanAlert(q) \/ ScanSkip(q)
        PROVE  UNCHANGED quote
    BY <2>8 DEF EditQuote, Lapse, SubmitOrder, ApproveOrder, ShipOrder, CancelOrder,
                OrderStep, ResolveAlert, ScanRepair, ScanRelease, ScanAlert, ScanSkip
  <2>9. ASSUME ScanQuotes \/ ScanOrders \/ ScanEnd
        PROVE  UNCHANGED quote
    BY <2>9 DEF ScanQuotes, ScanOrders, ScanEnd
  <2>10. CASE Next
    BY <2>10, <2>1, <2>2, <2>3, <2>4, <2>5, <2>6, <2>7, <2>8, <2>9 DEF Next
  <2>11. CASE UNCHANGED vars
    BY <2>11, <2>1 DEF vars
  <2> QED BY <2>10, <2>11
<1>2. Spec => [][Settled]_vars
  BY <1>1, TypeCorrect, PTL DEF Spec
<1> QED BY <1>2 DEF EndsStayEnds
=============================================================================
