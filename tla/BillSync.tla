------------------------------- MODULE BillSync -------------------------------
(***************************************************************************)
(* A received purchase order becomes a bill in the accounting service.     *)
(* Runs, started by a receipt, by hand or by the clock, claim the order    *)
(* under a lease that lapses, make sure of the supplier and the products,  *)
(* look for a bill, and otherwise remember the attempt and create one.     *)
(***************************************************************************)
EXTENDS Naturals, FiniteSets

CONSTANTS
    Run,       \* runs in progress
    None,
    MaxFaults  \* bound: answers lost, writes that fail, runs that die, leases that lapse

VARIABLES
    po,        \* step, attempted, bill and error of the order
    lock,      \* parasut_sync_lock_owner, None once released or lapsed
    bills,     \* bills in the accounting service
    run,       \* what each run is doing
    faults,    \* bound: faults so far
    stale      \* history: a lease lapsed under a run

vars == <<po, lock, bills, run, faults, stale>>
-----------------------------------------------------------------------------
Idle == [pc |-> "idle"]
NextStep == [contact |-> "product", product |-> "bill", bill |-> "done"]

Init ==
    /\ po = [step |-> "none", attempted |-> FALSE, bill |-> FALSE, error |-> FALSE]
    /\ lock = None /\ bills = 0
    /\ run = [r \in Run |-> Idle] /\ faults = 0 /\ stale = FALSE

At(r, pc) == run[r].pc = pc
Go(r, job) == run' = [run EXCEPT ![r] = job]
Fault == faults < MaxFaults /\ faults' = faults + 1
Fails(r, step) == Go(r, [pc |-> "fail", step |-> step])

-----------------------------------------------------------------------------
Claimable == po.step # "done" /\ lock = None

\* The clock takes only orders without a bill and without a lasting error; a
\* receipt or a person asks for any.
Claim(r) ==
    /\ At(r, "idle") /\ Claimable
    /\ lock' = r /\ Go(r, [pc |-> "ensure", step |-> "contact"])
    /\ UNCHANGED <<po, bills, faults, stale>>

\* The supplier, and then every product, has a record there, or the step fails.
Ensure(r) ==
    /\ At(r, "ensure")
    /\ \/ Go(r, [pc |-> "advance", step |-> run[r].step]) /\ UNCHANGED faults
       \/ Fault /\ Fails(r, run[r].step)
    /\ UNCHANGED <<po, lock, bills, stale>>

\* The step is written by id, whoever holds the order by now.
Advance(r) ==
    LET step == run[r].step IN
    /\ At(r, "advance")
    /\ \/ /\ po' = [po EXCEPT !.step = NextStep[step], !.error = FALSE]
          /\ CASE step = "contact" -> Go(r, [pc |-> "ensure", step |-> "product"])
               [] step = "product" -> Go(r, [pc |-> "refetch"])
               [] step = "bill"    -> Go(r, [pc |-> "release"])
          /\ UNCHANGED faults
       \/ Fault /\ Fails(r, step) /\ UNCHANGED po
    /\ UNCHANGED <<lock, bills, stale>>

\* The order is read again: a bill ends the step, and the attempt is kept in mind.
Refetch(r) ==
    /\ At(r, "refetch")
    /\ Go(r, IF po.bill THEN [pc |-> "advance", step |-> "bill"]
             ELSE [pc |-> "search", attempted |-> po.attempted])
    /\ UNCHANGED <<po, lock, bills, faults, stale>>

\* The search reads a few pages: it may miss a bill.  After an attempt, nothing
\* found is left to a person.
Search(r) ==
    /\ At(r, "search")
    /\ \/ bills > 0 /\ Go(r, [pc |-> "record"])
       \/ IF run[r].attempted THEN Fails(r, "bill") ELSE Go(r, [pc |-> "mark"])
    /\ UNCHANGED <<po, lock, bills, faults, stale>>

\* Mutant: the attempt is remembered when the bill is recorded.
RememberedLater == po

Remembered == [po EXCEPT !.attempted = TRUE]

MarkAttempt(r) ==
    /\ At(r, "mark")
    /\ \/ po' = Remembered /\ Go(r, [pc |-> "create"]) /\ UNCHANGED faults
       \/ Fault /\ Fails(r, "bill") /\ UNCHANGED po
    /\ UNCHANGED <<lock, bills, stale>>

\* The answer may be lost after the bill was made, or before.
Create(r) ==
    /\ At(r, "create")
    /\ \/ bills' = bills + 1 /\ Go(r, [pc |-> "record"]) /\ UNCHANGED faults
       \/ bills' \in {bills, bills + 1} /\ Fault /\ Fails(r, "bill")
    /\ UNCHANGED <<po, lock, stale>>

Record(r) ==
    /\ At(r, "record")
    /\ \/ /\ po' = [po EXCEPT !.bill = TRUE] /\ UNCHANGED faults
          /\ Go(r, [pc |-> "advance", step |-> "bill"])
       \/ Fault /\ Fails(r, "bill") /\ UNCHANGED po
    /\ UNCHANGED <<lock, bills, stale>>

\* The failure puts the order back to the step, by id; the write is best effort.
Fail(r) ==
    /\ At(r, "fail") /\ Go(r, [pc |-> "release"])
    /\ \/ po' = [po EXCEPT !.step = run[r].step, !.error = TRUE] /\ UNCHANGED faults
       \/ Fault /\ UNCHANGED po
    /\ UNCHANGED <<lock, bills, stale>>

Release(r) ==
    /\ At(r, "release") /\ Go(r, Idle)
    /\ lock' = IF lock = r THEN None ELSE lock
    /\ UNCHANGED <<po, bills, faults, stale>>

Die(r) == ~At(r, "idle") /\ Fault /\ Go(r, Idle) /\ UNCHANGED <<po, lock, bills, stale>>

\* Only a run that has died or is very slow outlives its lease.
Lapse ==
    /\ lock # None /\ lock' = None
    /\ IF At(lock, "idle") THEN UNCHANGED <<faults, stale>> ELSE Fault /\ stale' = TRUE
    /\ UNCHANGED <<po, bills, run>>

Work(r) ==
    \/ Claim(r) \/ Ensure(r) \/ Advance(r) \/ Refetch(r) \/ Search(r)
    \/ MarkAttempt(r) \/ Create(r) \/ Record(r) \/ Fail(r) \/ Release(r)

Next == Lapse \/ \E r \in Run : Work(r) \/ Die(r)

Spec == Init /\ [][Next]_vars
-----------------------------------------------------------------------------
\* A purchase order gets a second bill only if a run goes on after its lease has
\* lapsed: lost answers, failed writes and deaths alone never lead to one.
SecondBillNeedsStaleRun == bills > 1 => stale
-----------------------------------------------------------------------------
\* Why: the run that holds the lease is the only one at work, and there is no bill
\* whose attempt the order does not remember.
Job ==
    {Idle} \cup [pc : {"ensure", "advance", "fail"}, step : DOMAIN NextStep]
    \cup [pc : {"refetch", "mark", "create", "record", "release"}]
    \cup [pc : {"search"}, attempted : BOOLEAN]

TypeOK ==
    /\ po \in [step : {"none", "contact", "product", "bill", "done"},
               attempted : BOOLEAN, bill : BOOLEAN, error : BOOLEAN]
    /\ lock \in Run \cup {None} /\ bills \in Nat /\ run \in [Run -> Job]
    /\ faults \in Nat /\ stale \in BOOLEAN

OneRun ==
    /\ \A r \in Run :
          /\ ~At(r, "idle") => lock = r
          /\ At(r, "search") => run[r].attempted = po.attempted
          /\ At(r, "mark") \/ At(r, "create") => bills = 0
          /\ At(r, "create") => po.attempted
    /\ bills > 0 => po.attempted
    /\ bills <= 1

BillInv == TypeOK /\ (~stale => OneRun)
=============================================================================
