------------------------------ MODULE PaymentPoll ------------------------------
(***************************************************************************)
(* The runs that ask the accounting service whether invoices were paid.    *)
(* A run reads the documents asked about longest ago, up to a limit, and   *)
(* then asks about one after another; the runs take no lease.              *)
(***************************************************************************)
EXTENDS Naturals, Sequences, FiniteSets, SequencesExt

CONSTANTS
    Doc,       \* invoiced orders
    Broken,    \* documents the service always fails on
    Run,       \* runs in progress
    Batch,     \* POLL_BATCH
    MaxFaults  \* bound: runs that die, writes that fail

VARIABLES
    remote,    \* what the accounting service says
    paid,      \* parasut_payment_status here, "none" before the first answer
    queue,     \* the documents by parasut_payment_checked_at
    alert,     \* documents with an open overdue alert
    run,       \* what each run is doing
    faults,    \* bound: faults so far
    overlap    \* history: two runs have overlapped

vars == <<remote, paid, queue, alert, run, faults, overlap>>
-----------------------------------------------------------------------------
Idle == [pc |-> "idle"]
Open(d) == paid[d] # "paid"

Init ==
    /\ remote = [d \in Doc |-> "unpaid"] /\ paid = [d \in Doc |-> "none"]
    /\ queue \in {q \in [1..Cardinality(Doc) -> Doc] : IsInjective(q)}
    /\ alert = {} /\ run = [r \in Run |-> Idle]
    /\ faults = 0 /\ overlap = FALSE

At(r, pc) == run[r].pc = pc
Go(r, job) == run' = [run EXCEPT ![r] = job]

\* The document a run is at, the status it read then, and the rest.
First(r) == run[r].todo[1]
Onwards(r) ==
    LET rest == Tail(run[r].todo) IN
    Go(r, IF rest = <<>> THEN Idle ELSE [pc |-> "ask", todo |-> rest, before |-> run[r].before])

\* A stamp of now puts a document last.
Stamped(d) == Append(SelectSeq(queue, LAMBDA e : e # d), d)
-----------------------------------------------------------------------------
\* In the accounting service an invoice falls due and is paid.
Happen(d) ==
    /\ \/ remote[d] = "unpaid" /\ remote' = [remote EXCEPT ![d] = "overdue"]
       \/ remote[d] # "paid" /\ remote' = [remote EXCEPT ![d] = "paid"]
    /\ UNCHANGED <<paid, queue, alert, run, faults, overlap>>

Start(r) ==
    LET candidates == SelectSeq(queue, Open)
        todo == SubSeq(candidates, 1, IF Len(candidates) < Batch THEN Len(candidates) ELSE Batch)
    IN
    /\ At(r, "idle") /\ todo # <<>>
    /\ Go(r, [pc |-> "ask", todo |-> todo, before |-> paid])
    /\ overlap' = (overlap \/ \E s \in Run : ~At(s, "idle"))
    /\ UNCHANGED <<remote, paid, queue, alert, faults>>

Ask(r) ==
    /\ At(r, "ask")
    /\ IF First(r) \in Broken
       THEN run' = [run EXCEPT ![r].pc = "failed"]
       ELSE Go(r, [pc |-> "write", todo |-> run[r].todo, before |-> run[r].before,
                   answer |-> remote[First(r)]])
    /\ UNCHANGED <<remote, paid, queue, alert, faults, overlap>>

\* Mutant: a document that fails keeps its place in the queue.
AfterFailureInPlace(d) == queue

AfterFailure(d) == Stamped(d)

\* A failed document is stamped and nothing else; the stamp may fail too.
Stamp(r) ==
    /\ At(r, "failed")
    /\ \/ queue' = AfterFailure(First(r)) /\ UNCHANGED faults
       \/ faults < MaxFaults /\ faults' = faults + 1 /\ UNCHANGED queue
    /\ Onwards(r)
    /\ UNCHANGED <<remote, paid, alert, overlap>>

Write(r) ==
    LET d == First(r) IN
    /\ At(r, "write")
    /\ \/ /\ paid' = [paid EXCEPT ![d] = run[r].answer] /\ queue' = Stamped(d)
          /\ run' = [run EXCEPT ![r].pc = "tell"]
          /\ UNCHANGED faults
       \/ /\ faults < MaxFaults /\ faults' = faults + 1
          /\ run' = [run EXCEPT ![r].pc = "failed"]
          /\ UNCHANGED <<paid, queue>>
    /\ UNCHANGED <<remote, alert, overlap>>

\* Mutant: only an invoice known as unpaid can become overdue.
NewlyOverdueFromUnpaid(r) == run[r].answer = "overdue" /\ run[r].before[First(r)] = "unpaid"

NewlyOverdue(r) == run[r].answer = "overdue" /\ run[r].before[First(r)] # "overdue"

\* The alert of a document that has become overdue, and its end when it is paid;
\* an alert that cannot be written is only logged.
Tell(r) ==
    LET d == First(r) IN
    /\ At(r, "tell") /\ Onwards(r)
    /\ \/ /\ alert' = IF NewlyOverdue(r) THEN alert \cup {d}
                      ELSE IF run[r].answer = "paid" THEN alert \ {d} ELSE alert
          /\ UNCHANGED faults
       \/ faults < MaxFaults /\ faults' = faults + 1 /\ UNCHANGED alert
    /\ UNCHANGED <<remote, paid, queue, overlap>>

Die(r) ==
    /\ ~At(r, "idle") /\ Go(r, Idle)
    /\ faults < MaxFaults /\ faults' = faults + 1
    /\ UNCHANGED <<remote, paid, queue, alert, overlap>>

Work(r) == Start(r) \/ Ask(r) \/ Stamp(r) \/ Write(r) \/ Tell(r)

Next == (\E d \in Doc : Happen(d)) \/ (\E r \in Run : Work(r) \/ Die(r))

Spec == Init /\ [][Next]_vars

\* The runs are started by the clock again and again, and a run goes on.
FairSpec == Spec /\ \A r \in Run : WF_vars(Work(r))
-----------------------------------------------------------------------------
\* A payment is seen in the end, however many documents fail for ever: those do
\* not fill the batch again and again.
PaymentsArrive ==
    \A d \in Doc \ Broken : remote[d] = "paid" ~> paid[d] = "paid"

\* Between runs the alerts tell what the statuses say: an overdue invoice has one
\* and a paid invoice has none, unless runs overlapped or a fault took one away.
AlertsFollow ==
    (~overlap /\ faults = 0 /\ \A r \in Run : At(r, "idle")) =>
        \A d \in Doc : /\ paid[d] = "overdue" => d \in alert
                       /\ paid[d] = "paid" => d \notin alert
-----------------------------------------------------------------------------
\* The inductive strengthening.
Known == {"unpaid", "overdue", "paid"}

\* The fields of a run at each place.
Fields(r) ==
    LET j == run[r] IN
    \/ j = Idle
    \/ j.pc \in {"ask", "failed"} /\ j = [pc |-> j.pc, todo |-> j.todo, before |-> j.before]
    \/ /\ j.pc \in {"write", "tell", "failed"}
       /\ j = [pc |-> j.pc, todo |-> j.todo, before |-> j.before, answer |-> j.answer]

TypeOK ==
    /\ remote \in [Doc -> Known] /\ paid \in [Doc -> Known \cup {"none"}]
    /\ DOMAIN run = Run /\ (\A r \in Run : Fields(r))
    /\ faults \in Nat /\ overlap \in BOOLEAN

\* What is known here was so there: a due invoice stays due, a paid one paid.
WasSo(d, status) ==
    /\ status = "paid" => remote[d] = "paid"
    /\ status = "overdue" => remote[d] \in {"overdue", "paid"}

AnswerWasSo(r) ==
    At(r, "write") /\ First(r) \in Doc => run[r].answer \in Known /\ WasSo(First(r), run[r].answer)

Alone == \A r, s \in Run : At(r, "idle") \/ At(s, "idle") \/ r = s

Told(d) == (paid[d] = "overdue" => d \in alert) /\ (paid[d] = "paid" => d \notin alert)

\* What a run that is alone has read before is no later than what is known.
ReadBefore(r) ==
    /\ ~At(r, "idle") => \A d \in Doc : run[r].before[d] = "overdue" => paid[d] \in {"overdue", "paid"}
    /\ At(r, "write") /\ First(r) \in Doc =>
          /\ run[r].answer = "paid" \/ paid[First(r)] # "paid"
          /\ run[r].before[First(r)] = "overdue" => run[r].answer \in {"overdue", "paid"}
    /\ At(r, "tell") /\ First(r) \in Doc =>
          /\ paid[First(r)] = run[r].answer
          /\ NewlyOverdue(r) \/ run[r].answer # "overdue" \/ First(r) \in alert

PollInv ==
    /\ TypeOK
    /\ \A d \in Doc : WasSo(d, paid[d])
    /\ \A r \in Run : AnswerWasSo(r)
    /\ overlap \/ Alone
    /\ overlap \/ faults # 0
       \/ /\ \A d \in Doc : Told(d) \/ \E r \in Run : At(r, "tell") /\ First(r) = d
          /\ \A r \in Run : ReadBefore(r)
=============================================================================
