------------------------------ MODULE StockMirror ------------------------------
(***************************************************************************)
(* The nightly comparison of the stock here with the stock in the          *)
(* accounting service, which may also correct the latter.  The catalogue   *)
(* is read first and each product is asked about later; the goods that     *)
(* leave meanwhile reach the other side with their delivery note.          *)
(***************************************************************************)
EXTENDS Naturals, Integers, FiniteSets

CONSTANTS
    Product,   \* active products known to the accounting service
    Compared,  \* those a run looks at: the first RECONCILE_MAX by their codes
    MaxStock,  \* bound: pieces in stock, pieces without a note
    MaxFaults  \* bound: calls that fail

VARIABLES
    onHand,    \* products.on_hand
    count,     \* stock in the accounting service, NoRecord if it has none
    unsent,    \* pieces shipped whose delivery note is not there yet
    autocorrect,
    alert,     \* is the alert on stock differences open?
    run,       \* the comparison
    faults,    \* bound: calls that failed
    still,     \* history: nothing has moved since the catalogue was read, and nobody
               \* has closed the alert
    missed     \* history: the last run passed a product over, missed the answer to a
               \* correction, told nothing or died

vars == <<onHand, count, unsent, autocorrect, alert, run, faults, still, missed>>
-----------------------------------------------------------------------------
NoRecord == -1
Idle == [pc |-> "idle"]

\* The totals over the warehouses differ; without a record there is no difference.
HasDrift(here, there) == there # NoRecord /\ here # there

Init ==
    /\ onHand \in [Product -> 0..MaxStock] /\ count \in [Product -> {NoRecord} \cup 0..MaxStock]
    /\ unsent = [p \in Product |-> 0]
    /\ autocorrect \in BOOLEAN /\ alert \in BOOLEAN
    /\ run = Idle /\ faults = 0 /\ still = FALSE /\ missed = TRUE

At(pc) == run.pc = pc
Fault == faults < MaxFaults /\ faults' = faults + 1
-----------------------------------------------------------------------------
Ship(p) ==
    /\ onHand[p] > 0 /\ unsent[p] < MaxStock
    /\ onHand' = [onHand EXCEPT ![p] = @ - 1]
    /\ unsent' = [unsent EXCEPT ![p] = @ + 1] /\ still' = FALSE
    /\ UNCHANGED <<count, autocorrect, alert, run, faults, missed>>

\* The delivery note takes the goods from the stock of the accounting service.
SendNote(p) ==
    /\ unsent[p] > 0 /\ count[p] # 0
    /\ unsent' = [unsent EXCEPT ![p] = @ - 1]
    /\ count' = [count EXCEPT ![p] = IF @ = NoRecord THEN NoRecord ELSE @ - 1]
    /\ still' = FALSE
    /\ UNCHANGED <<onHand, autocorrect, alert, run, faults, missed>>

\* Goods received here are not booked there.
Receive(p) ==
    /\ onHand[p] < MaxStock /\ onHand' = [onHand EXCEPT ![p] = @ + 1] /\ still' = FALSE
    /\ UNCHANGED <<count, unsent, autocorrect, alert, run, faults, missed>>
-----------------------------------------------------------------------------
Start ==
    /\ At("idle")
    /\ run' = [pc |-> "ask", todo |-> Compared, read |-> onHand, drifts |-> {}]
    /\ still' = TRUE /\ missed' = (Compared # Product)
    /\ UNCHANGED <<onHand, count, unsent, autocorrect, alert, faults>>

\* A product that cannot be asked about is counted and passed over.
Ask ==
    /\ At("ask") /\ run.todo # {}
    /\ \E p \in run.todo :
          \/ /\ run' = [run EXCEPT !.todo = @ \ {p},
                           !.drifts = IF HasDrift(run.read[p], count[p]) THEN @ \cup {p} ELSE @]
             /\ UNCHANGED <<faults, missed>>
          \/ Fault /\ run' = [run EXCEPT !.todo = @ \ {p}] /\ missed' = TRUE
    /\ UNCHANGED <<onHand, count, unsent, autocorrect, alert, still>>

\* What was read is written as the new total, whatever has happened since.
Corrected(p) == run.read[p]

Telling(left) == [pc |-> "tell", left |-> left]

\* Without the correction all differences are left to be told.
Decide ==
    /\ At("ask") /\ run.todo = {}
    /\ run' = IF autocorrect /\ run.drifts # {}
              THEN [pc |-> "correct", todo |-> run.drifts, read |-> run.read, left |-> {}]
              ELSE Telling(run.drifts)
    /\ UNCHANGED <<onHand, count, unsent, autocorrect, alert, faults, still, missed>>

\* One call for a part of the products that differ, 25 at most, and on to the next part
\* whatever comes of it; a call whose answer is lost may have been carried out.
Correct ==
    /\ At("correct")
    /\ \E part \in SUBSET run.todo :
          LET corrected == [p \in Product |-> IF p \in part THEN Corrected(p) ELSE count[p]]
              after(left) == IF part = run.todo THEN Telling(left)
                             ELSE [run EXCEPT !.todo = @ \ part, !.left = left]
          IN  /\ part # {}
              /\ \/ /\ run' = after(run.left) /\ count' = corrected
                    /\ UNCHANGED <<faults, missed>>
                 \/ /\ run' = after(run.left \cup part) /\ Fault
                    /\ \/ UNCHANGED <<count, missed>>
                       \/ count' = corrected /\ missed' = TRUE
    /\ UNCHANGED <<onHand, unsent, autocorrect, alert, still>>

DifferencesLeft == run.left # {}

Tell ==
    /\ At("tell") /\ run' = Idle
    /\ \/ alert' = DifferencesLeft /\ UNCHANGED <<faults, missed>>
       \/ Fault /\ missed' = TRUE /\ UNCHANGED alert
    /\ UNCHANGED <<onHand, count, unsent, autocorrect, still>>

\* A user closes the alert.
Close ==
    /\ alert /\ alert' = FALSE /\ still' = FALSE
    /\ UNCHANGED <<onHand, count, unsent, autocorrect, run, faults, missed>>

Die ==
    /\ ~At("idle") /\ run' = Idle /\ missed' = TRUE
    /\ UNCHANGED <<onHand, count, unsent, autocorrect, alert, faults, still>>

Next ==
    \/ \E p \in Product : Ship(p) \/ SendNote(p) \/ Receive(p)
    \/ Start \/ Ask \/ Decide \/ Correct \/ Tell \/ Close \/ Die

Spec == Init /\ [][Next]_vars
-----------------------------------------------------------------------------
Drifts == {p \in Product : HasDrift(onHand[p], count[p])}

\* A run that nothing moves under settles the stock: the difference it leaves, none
\* if the correction is on and gets through, is told by the alert, and there is no
\* alert without a difference.
RunSettles ==
    (At("idle") /\ still /\ ~missed) => (alert <=> Drifts # {})
-----------------------------------------------------------------------------
\* Why: while nothing moves, the run has what it reads, and the differences it has
\* noted are those of the products it has asked about.
Asking == [pc : {"ask"}, todo : SUBSET Product, read : [Product -> Nat], drifts : SUBSET Product]
Correcting ==
    [pc : {"correct"}, todo : SUBSET Product, read : [Product -> Nat], left : SUBSET Product]
Told == [pc : {"tell"}, left : SUBSET Product]

TypeOK ==
    /\ onHand \in [Product -> Nat] /\ count \in [Product -> {NoRecord} \cup Nat]
    /\ unsent \in [Product -> Nat] /\ autocorrect \in BOOLEAN /\ alert \in BOOLEAN
    /\ run \in {Idle} \cup Asking \cup Correcting \cup Told
    /\ faults \in Nat /\ still \in BOOLEAN /\ missed \in BOOLEAN

Follows ==
    /\ At("ask") \/ At("correct") => run.read = onHand
    /\ At("ask") /\ ~missed => run.drifts = Drifts \ run.todo
    /\ At("correct") /\ ~missed => run.todo \cap run.left = {} /\ Drifts = run.todo \cup run.left
    /\ At("tell") /\ ~missed => (run.left = {} <=> Drifts = {})
    /\ At("idle") /\ ~missed => (alert <=> Drifts # {})

MirrorInv == TypeOK /\ (still => Follows)
=============================================================================
