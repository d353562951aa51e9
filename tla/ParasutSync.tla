---------------------------- MODULE ParasutSync ----------------------------
(***************************************************************************)
(* A shipped order is carried to the accounting service step by step:      *)
(* contact, products, shipment document, invoice, e-document.  A run of    *)
(* serviceSyncOrderToParasut or serviceRetryParasutStep takes a five       *)
(* minute lease on the order; the poll of running e-documents takes none.  *)
(* A request may be answered, refused, or cut off by the 20 second         *)
(* timeout: then the document exists, does not, or comes to exist later.   *)
(* A run may die anywhere, and may outlive its lease.                      *)
(*                                                                         *)
(* The shipment and invoice steps go by the order as it was read before    *)
(* the claim; the e-document step reads it again.  Contacts and products   *)
(* are the subject of EntityLease: here their steps succeed or fail.       *)
(***************************************************************************)
EXTENDS Naturals, FiniteSets

CONSTANTS
    Run,        \* runs that may be under way at the same time
    Mode,       \* how runs start: "cron", "all", or the step retried by hand
    Cap,        \* failures in a row after which the cron gives up (5)
    MaxFaults,  \* bound: lost answers, errors, deaths and outlived leases
    MaxDocs     \* bound: documents of a kind the service may come to hold

VARIABLES
    row,     \* the parasut_* columns of the order, and whether it has a header
             \* discount that its total does not meet (InvoiceTotals.Refused)
    remote,  \* remote[k][i]: what the service has of document i of kind k
    run,     \* what each run is doing
    poll,    \* what the e-document poll is doing
    faults,  \* faults left
    outrun   \* a run claimed with an order read before another run's marker,
             \* or lived on after its lease

vars == <<row, remote, run, poll, faults, outrun>>
-----------------------------------------------------------------------------
Documents == {"shipment", "invoice"}
Kinds == Documents \union {"edoc"}
Step == <<"contact", "product", "shipment", "invoice", "edoc", "done">>
Pos(s) == CHOOSE n \in DOMAIN Step : Step[n] = s
NextStep(s) == Step[Pos(s) + 1]
Single(m) == m \notin {"cron", "all"}

NoOwner == "free"
Idle == [pc |-> "idle"]

\* What a run keeps of the order it has read, and when it needs it no more.
Reading(ks) ==
    [k \in ks |-> [id |-> row.id[k], tried |-> row.tried[k],
                   done |-> k = "edoc" /\ row.edoc = "done"]]
Forgotten == [k \in {} |-> "nothing"]
Present == {"there", "running", "done", "error"}
Landed(k) == IF k = "edoc" THEN "running" ELSE "there"

Init ==
    /\ \E mispriced \in BOOLEAN :
          row = [step |-> "contact", owner |-> NoOwner, leased |-> FALSE, mispriced |-> mispriced,
                 kind |-> "none", count |-> 0, edoc |-> "none", have |-> {},
                 id |-> [k \in Kinds |-> 0], tried |-> [k \in Kinds |-> FALSE]]
    /\ remote = [k \in Kinds |-> [i \in 1..MaxDocs |-> "none"]]
    /\ run = [r \in Run |-> Idle]
    /\ poll = Idle
    /\ faults = MaxFaults
    /\ outrun = FALSE

Goto(r, pc) == run' = [run EXCEPT ![r].pc = pc]
Stop(r) == run' = [run EXCEPT ![r] = Idle]

\* Failures at and past the cap are not told apart.
OneMore(count) == IF count < Cap THEN count + 1 ELSE Cap
Spend == faults > 0 /\ faults' = faults - 1

\* An error is written down with its kind before the lease is given back.
Throw(r, kind) ==
    run' = [run EXCEPT ![r].pc = "patch", ![r].kind = kind, ![r].old = Forgotten, ![r].got = 0]

Finish(r) == run' = [run EXCEPT ![r] = [pc |-> "release"]]
-----------------------------------------------------------------------------
(* Starting: read the order, then claim it.                                *)

\* What serviceSyncAllPending lists: a backoff passes, the year 2099 does not.
Due == row.step # "done" /\ row.kind # "validation" /\ row.count < Cap

\* Mutant: nothing is needed.
StepDepsNone(s) == s \in Kinds \union {"contact", "product"}

\* What a single step needs before it may be retried by hand.
StepDeps(s) ==
    CASE s = "contact"  -> TRUE
      [] s = "product"  -> "contact" \in row.have
      [] s = "shipment" -> "product" \in row.have
      [] s = "invoice"  -> row.id["shipment"] # 0
      [] s = "edoc"     -> row.id["invoice"] # 0

MayStart(m) ==
    CASE m = "cron" -> Due
      [] m = "all"  -> TRUE
      [] OTHER      -> row.step # "done" /\ Pos(row.step) <= Pos(m) /\ StepDeps(m)

\* guardDiscountReconciliation sends the whole order and the invoice away before the
\* claim, with an alert and nothing written on the order; a retry of another step
\* does not ask.
SentAway(m) == row.mispriced /\ m \in {"cron", "all", "invoice"}

Start(r, m) ==
    /\ run[r].pc = "idle"
    /\ MayStart(m) /\ ~SentAway(m)
    /\ run' = [run EXCEPT ![r] =
                 [pc |-> "claim", mode |-> m, at |-> IF Single(m) THEN m ELSE row.step,
                  old |-> Reading(Documents), count |-> row.count, kind |-> "none", got |-> 0]]
    /\ UNCHANGED <<row, remote, poll, faults, outrun>>

Held == row.owner # NoOwner /\ row.leased

\* Mutants: the lease is not looked at, or never runs out.
ClaimableHeld == row.step # "done"
ClaimableFree == row.step # "done" /\ row.owner = NoOwner
Claimable == row.step # "done" /\ ~Held

Claim(r) ==
    /\ run[r].pc = "claim"
    /\ IF Claimable
       THEN /\ row' = [row EXCEPT !.owner = r, !.leased = TRUE]
            /\ outrun' = (outrun \/ \E k \in Documents : run[r].old[k].tried # row.tried[k])
            /\ IF run[r].mode = "edoc" THEN Goto(r, "refetch")
               ELSE run' = [run EXCEPT ![r].pc = "work",
                              ![r].at = IF Single(run[r].mode) THEN @ ELSE "contact"]
       ELSE Stop(r) /\ UNCHANGED <<row, outrun>>
    /\ UNCHANGED <<remote, poll, faults>>

\* The claim itself fails: a full run notes it without holding the order.
ClaimFails(r) ==
    /\ run[r].pc = "claim" /\ Spend
    /\ row' = IF Single(run[r].mode) THEN row
              ELSE [row EXCEPT !.step = run[r].at, !.kind = "server",
                               !.count = OneMore(run[r].count)]
    /\ Stop(r)
    /\ UNCHANGED <<remote, poll, outrun>>
-----------------------------------------------------------------------------
(* One step of the synchronisation.                                        *)

Ensure(r) ==
    /\ run[r].pc = "work" /\ run[r].at \in {"contact", "product"}
    /\ row' = [row EXCEPT !.have = @ \union {run[r].at}]
    /\ Goto(r, "advance")
    /\ UNCHANGED <<remote, poll, faults, outrun>>

\* upsertShipment and upsertInvoice up to the marker: a recorded id, a document
\* the service already has, a marker without a document, or a fresh start.
\* The search for a shipment reads the last five pages only and may miss it.
Look(r) ==
    LET k == run[r].at  old == run[r].old[k]
        there == {i \in 1..MaxDocs : remote[k][i] = "there"}
    IN  /\ run[r].pc = "work" /\ k \in Documents
        /\ \/ old.id # 0 /\ Goto(r, "advance")
           \/ /\ old.id = 0
              /\ \E i \in there : run' = [run EXCEPT ![r].pc = "record", ![r].got = i]
           \/ /\ old.id = 0 /\ (there = {} \/ k = "shipment")
              /\ IF old.tried THEN Throw(r, "validation") ELSE Goto(r, "mark")
        /\ UNCHANGED <<row, remote, poll, faults, outrun>>

Refetch(r) ==
    /\ run[r].pc = "refetch"
    /\ run' = [run EXCEPT ![r].pc = "work", ![r].old = Reading({"invoice", "edoc"})]
    /\ UNCHANGED <<row, remote, poll, faults, outrun>>

\* upsertEDocument up to the marker: no invoice, an e-document the invoice has
\* already, a job under way or failed, a marker without a job, a fresh start.  No
\* code makes an order's invoice type "manual", so that none skips its e-document.
LookEDoc(r) ==
    LET old == run[r].old["edoc"]  job == old.id
        See(v, j) == run' = [run EXCEPT ![r].pc = "status", ![r].kind = v, ![r].got = j]
    IN  /\ run[r].pc = "work" /\ run[r].at = "edoc"
        /\ IF run[r].old["invoice"].id = 0 THEN Throw(r, "validation")
           ELSE IF old.done THEN Goto(r, "advance")
           ELSE IF \E i \in 1..MaxDocs : remote["edoc"][i] = "done"
           THEN \E j \in {0, job} : See("done", j)
           ELSE IF job # 0 THEN See(remote["edoc"][job], job)
           ELSE IF old.tried THEN Throw(r, "validation")
           ELSE Goto(r, "mark")
        /\ UNCHANGED <<row, remote, poll, faults, outrun>>

\* The guard of every write of an e-document's status: its job is still the
\* order's (0: whichever it is) and the status is not final.
Guarded(job) == row.edoc # "done" /\ (job = 0 \/ row.id["edoc"] = job)

WriteStatus(r) ==
    LET seen == run[r].kind
    IN  /\ run[r].pc = "status"
        /\ row' = IF Guarded(run[r].got) THEN [row EXCEPT !.edoc = seen] ELSE row
        /\ CASE seen = "running" -> Finish(r)
             [] seen = "error"   -> Throw(r, "server")
             [] seen = "done"    -> IF row'.edoc = "done" THEN Goto(r, "advance")
                                    ELSE Throw(r, "server")
        /\ UNCHANGED <<remote, poll, faults, outrun>>

\* The marker, written when nothing but the request itself is left.
Mark(r) ==
    /\ run[r].pc = "mark"
    /\ row' = [row EXCEPT !.tried[run[r].at] = TRUE]
    /\ Goto(r, "create")
    /\ UNCHANGED <<remote, poll, faults, outrun>>

\* The request is answered, or its answer is lost and it has been, will be or
\* will never be carried out.
Create(r) ==
    LET k == run[r].at IN
    /\ run[r].pc = "create"
    /\ \E i \in 1..MaxDocs :
          /\ remote[k][i] = "none"
          /\ \/ /\ remote' = [remote EXCEPT ![k][i] = Landed(k)]
                /\ run' = [run EXCEPT ![r].pc = "record", ![r].got = i]
                /\ UNCHANGED faults
             \/ /\ Spend /\ Throw(r, "server")
                /\ \E s \in {Landed(k), "wire"} : remote' = [remote EXCEPT ![k][i] = s]
    /\ UNCHANGED <<row, poll, outrun>>

\* The id of a document is written by order id alone; a job and its status
\* "running" only over a status that is not final.
Record(r) ==
    LET k == run[r].at  i == run[r].got IN
    /\ run[r].pc = "record"
    /\ IF k # "edoc"
       THEN row' = [row EXCEPT !.id[k] = i] /\ Goto(r, "advance")
       ELSE /\ row' = IF Guarded(0) THEN [row EXCEPT !.id[k] = i, !.edoc = "running"] ELSE row
            /\ Finish(r)
    /\ UNCHANGED <<remote, poll, faults, outrun>>

\* markStepDone, and the next step of a full run.
Advance(r) ==
    LET s == run[r].at  last == Single(run[r].mode) \/ s = "edoc" IN
    /\ run[r].pc = "advance"
    /\ row' = [row EXCEPT !.step = NextStep(s), !.kind = "none", !.count = 0]
    /\ IF last THEN Finish(r)
       ELSE run' = [run EXCEPT ![r].at = NextStep(s), ![r].count = 0,
                               ![r].pc = IF s = "invoice" THEN "refetch" ELSE "work"]
    /\ UNCHANGED <<remote, poll, faults, outrun>>

\* Any call of a run fails: "validation" stands for "auth" too, which blocks alike.
CallFails(r) ==
    /\ run[r].pc \in {"work", "refetch", "status", "mark", "create", "record", "advance"}
    /\ Spend
    /\ \E kind \in {"server", "rate_limit", "validation"} : Throw(r, kind)
    /\ UNCHANGED <<row, remote, poll, outrun>>
-----------------------------------------------------------------------------
(* Ending: write the error down, give the lease back.                      *)

\* classifyAndPatch: the step goes back to the one that failed, and only a
\* server error counts.
Patched(r) ==
    [row EXCEPT !.step = run[r].at, !.kind = run[r].kind,
                !.count = IF run[r].kind = "server" THEN OneMore(run[r].count) ELSE @]

Patch(r) ==
    /\ run[r].pc = "patch"
    /\ \/ row' = Patched(r) /\ UNCHANGED faults
       \/ Spend /\ UNCHANGED row
    /\ Finish(r)
    /\ UNCHANGED <<remote, poll, outrun>>

Release(r) ==
    /\ run[r].pc = "release"
    /\ \/ /\ row' = IF row.owner = r THEN [row EXCEPT !.owner = NoOwner] ELSE row
          /\ UNCHANGED faults
       \/ Spend /\ UNCHANGED row
    /\ Stop(r)
    /\ UNCHANGED <<remote, poll, outrun>>

Crash(r) ==
    /\ run[r].pc # "idle" /\ Spend
    /\ Stop(r)
    /\ UNCHANGED <<row, remote, poll, outrun>>

\* Five minutes pass; a run that still works under the lease has outlived it.
Expire ==
    LET alive == run[row.owner].pc \notin {"idle", "claim"} IN
    /\ Held
    /\ row' = [row EXCEPT !.leased = FALSE]
    /\ IF alive THEN Spend /\ outrun' = TRUE ELSE UNCHANGED <<faults, outrun>>
    /\ UNCHANGED <<remote, run, poll>>
-----------------------------------------------------------------------------
(* The poll of running e-documents, and the accounting service.            *)

PollLook ==
    LET job == row.id["edoc"] IN
    /\ poll = Idle
    /\ row.step = "edoc" /\ row.edoc = "running" /\ job # 0
    /\ remote["edoc"][job] \in {"done", "error"}
    /\ poll' = [pc |-> "write", job |-> job, seen |-> remote["edoc"][job]]
    /\ UNCHANGED <<row, remote, run, faults, outrun>>

PollWrite ==
    /\ poll.pc = "write"
    /\ \/ /\ row' = IF ~Guarded(poll.job) THEN row
                    ELSE IF poll.seen = "error" THEN [row EXCEPT !.edoc = "error"]
                    ELSE [row EXCEPT !.edoc = "done", !.step = "done",
                                     !.kind = "none", !.count = 0]
          /\ UNCHANGED faults
       \/ Spend /\ UNCHANGED row
    /\ poll' = Idle
    /\ UNCHANGED <<remote, run, outrun>>

\* A request whose answer was lost is carried out after all, or never.
Land ==
    /\ \E k \in Kinds, i \in 1..MaxDocs :
          /\ remote[k][i] = "wire"
          /\ \E s \in {Landed(k), "dropped"} : remote' = [remote EXCEPT ![k][i] = s]
    /\ UNCHANGED <<row, run, poll, faults, outrun>>

JobEnds ==
    /\ \E i \in 1..MaxDocs :
          /\ remote["edoc"][i] = "running"
          /\ \E s \in {"done", "error"} : remote' = [remote EXCEPT !["edoc"][i] = s]
    /\ UNCHANGED <<row, run, poll, faults, outrun>>
-----------------------------------------------------------------------------
Proceed(r) ==
    \/ Claim(r) \/ ClaimFails(r) \/ Ensure(r) \/ Look(r) \/ Refetch(r) \/ LookEDoc(r)
    \/ WriteStatus(r) \/ Mark(r) \/ Create(r) \/ Record(r) \/ Advance(r)
    \/ CallFails(r) \/ Patch(r) \/ Release(r)

Next ==
    \/ \E r \in Run : (\E m \in Mode : Start(r, m)) \/ Proceed(r) \/ Crash(r)
    \/ Expire \/ PollLook \/ PollWrite \/ Land \/ JobEnds

Spec == Init /\ [][Next]_vars

\* The clock starts runs again and again, a run that has begun goes on unless
\* it dies, a lease runs out, and the service finishes what it has accepted.
Fairness ==
    /\ \A r \in Run : WF_vars(Start(r, "cron")) /\ WF_vars(Proceed(r))
    /\ WF_vars(Expire) /\ WF_vars(PollLook) /\ WF_vars(PollWrite)
    /\ WF_vars(Land) /\ WF_vars(JobEnds)

FairSpec == Spec /\ Fairness
-----------------------------------------------------------------------------
(* Properties.                                                             *)

Steps == {"contact", "product"} \union Kinds
Read == [id : 0..MaxDocs, tried : BOOLEAN, done : BOOLEAN]
Refetched == {"invoice", "edoc"}
Olds == [Documents -> Read] \union [Refetched -> Read] \union {Forgotten}
Job ==
    [pc : {"claim", "work", "refetch", "status", "mark", "create", "record", "advance", "patch"},
     mode : Mode, at : Steps \union {"done"}, old : Olds, count : 0..Cap,
     kind : {"none", "server", "rate_limit", "validation", "running", "done", "error"},
     got : 0..MaxDocs]

Row ==
    [step : Steps \union {"done"}, owner : Run \union {NoOwner}, leased : BOOLEAN,
     mispriced : BOOLEAN,
     kind : {"none", "server", "rate_limit", "validation"}, count : 0..Cap,
     edoc : {"none", "running", "done", "error"}, have : SUBSET {"contact", "product"},
     id : [Kinds -> 0..MaxDocs], tried : [Kinds -> BOOLEAN]]

TypeOK ==
    /\ row \in Row
    /\ remote \in [Kinds -> [1..MaxDocs -> Present \union {"none", "wire", "dropped"}]]
    /\ run \in [Run -> {Idle, [pc |-> "release"]} \union Job]
    /\ poll \in {Idle} \union [pc : {"write"}, job : 1..MaxDocs, seen : {"done", "error"}]
    /\ faults \in 0..MaxFaults /\ outrun \in BOOLEAN

\* Whatever answer is lost and wherever a run dies, the order remembers that a
\* document may exist: without it the next run would create a second one.
RequestRemembered ==
    \A k \in Kinds, i \in 1..MaxDocs : remote[k][i] # "none" => row.tried[k]

\* A second document of a kind is possible only when a run claimed the order
\* with an older reading of it, or outlived its lease: errors, lost answers,
\* late arrivals, deaths and retries by hand alone never cause one.
DuplicateNeedsStaleRun ==
    ~outrun => \A k \in Kinds, i, j \in 1..MaxDocs :
                  remote[k][i] # "none" /\ remote[k][j] # "none" => i = j

\* An order that is done has its documents, and they exist.
DoneIsComplete ==
    /\ \A k \in Kinds : row.id[k] # 0 => remote[k][row.id[k]] \in Present
    /\ row.step = "done" =>
          /\ \A k \in Documents : row.id[k] # 0
          /\ row.edoc = "done"
          /\ \E i \in 1..MaxDocs : remote["edoc"][i] = "done"

\* A finished e-document stays finished, although runs and the poll write its
\* status from what each of them has seen earlier.
FinishedStays == [][row.edoc = "done" => row'.edoc = "done"]_vars

\* The inductive strengthening.  What a run works with fits the step it is at ...
Working == {"work", "mark", "create", "record", "advance"}

JobFits(r) ==
    LET j == run[r] IN
    /\ j.pc \notin {"idle", "release", "claim"} => j.at \in Steps
    /\ j.pc \notin {"idle", "release"} /\ Single(j.mode) => j.at = j.mode
    /\ j.pc = "claim" \/ (j.pc \in Working /\ j.at # "edoc") => j.old \in [Documents -> Read]
    /\ j.pc = "work" /\ j.at = "edoc" => j.old \in [Refetched -> Read]
    /\ j.pc \in {"mark", "create", "record"} => j.at \in Kinds
    /\ j.pc \in {"refetch", "status"} => j.at = "edoc"
    /\ j.pc = "status" => j.kind \in {"running", "done", "error"}
    /\ j.pc = "patch" => j.kind \in {"server", "rate_limit", "validation"}

\* ... and what it has read, made or written to get there is so, and stays so.
EDocDone == \E i \in 1..MaxDocs : remote["edoc"][i] = "done"
Complete == (\A k \in Documents : row.id[k] # 0) /\ row.edoc = "done"

JobEarned(r) ==
    LET j == run[r] IN
    /\ j.pc \notin {"idle", "release"} /\ j.mode = "invoice" => row.id["shipment"] # 0
    /\ j.pc = "claim" /\ j.at = "done" => Complete
    /\ j.pc = "claim" \/ (j.pc \in Working /\ j.at # "edoc") =>
          \A k \in Documents : j.old[k].id # 0 => row.id[k] # 0
    /\ j.pc = "work" /\ j.at = "edoc" =>
          /\ j.old["invoice"].id # 0 => row.id["invoice"] # 0
          /\ j.old["edoc"].id # 0 => remote["edoc"][j.old["edoc"].id] \in Present
          /\ j.old["edoc"].done => row.edoc = "done"
    /\ j.pc \in Working /\ j.at = "invoice" => row.id["shipment"] # 0
    /\ j.pc \in {"mark", "create", "record", "status", "advance"} /\ j.at = "edoc" =>
          row.id["invoice"] # 0
    /\ j.pc = "create" => row.tried[j.at]
    /\ j.pc = "record" => j.got # 0 /\ remote[j.at][j.got] \in Present
    /\ j.pc = "status" /\ j.kind = "done" => EDocDone
    /\ j.pc = "advance" /\ j.at \in Documents => row.id[j.at] # 0
    /\ j.pc = "advance" /\ j.at = "edoc" => row.edoc = "done"

RowEarned ==
    /\ \A k \in Kinds, i \in 1..MaxDocs : k = "edoc" \/ remote[k][i] \notin {"running", "done", "error"}
    /\ \A i \in 1..MaxDocs : remote["edoc"][i] # "there"
    /\ row.id["invoice"] # 0 => row.id["shipment"] # 0
    /\ row.id["edoc"] # 0 => row.id["invoice"] # 0
    /\ row.edoc = "done" => EDocDone
    /\ poll # Idle => row.id["edoc"] # 0 /\ (poll.seen = "done" => EDocDone)

\* While no lease was outlived and no claim went by an older reading, whoever works
\* holds the lease, and what it has read of a document it has not come to is so.
JobAlone(r) ==
    LET j == run[r] IN
    /\ j.pc \notin {"idle", "claim"} => row.owner = r /\ row.leased
    /\ j.pc = "work" /\ j.at \in Kinds => j.old[j.at].tried = row.tried[j.at]
    /\ j.pc \in Working /\ j.at \in {"contact", "product"} =>
          j.old["shipment"].tried = row.tried["shipment"]
    /\ j.pc \in Working /\ j.at \in {"contact", "product", "shipment"} =>
          j.old["invoice"].tried = row.tried["invoice"]
    /\ j.pc = "mark" => ~row.tried[j.at]
    /\ j.pc = "create" => \A i \in 1..MaxDocs : remote[j.at][i] = "none"

SyncInv ==
    /\ TypeOK
    /\ \A r \in Run : JobFits(r) /\ JobEarned(r)
    /\ RowEarned /\ RequestRemembered /\ DoneIsComplete
    /\ ~outrun => \A r \in Run : JobAlone(r)
    /\ DuplicateNeedsStaleRun

\* However it is interrupted, an order gets done, or back to waiting for somebody
\* to look at it, unless the service has refused its e-document or the order is sent
\* away for its discount before each claim.
Settles == []<>(row.step = "done" \/ row.kind = "validation" \/ row.count >= Cap
                 \/ row.mispriced
                 \/ \E i \in 1..MaxDocs : remote["edoc"][i] = "error")
=============================================================================
