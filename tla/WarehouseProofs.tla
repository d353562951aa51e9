--------------------------- MODULE WarehouseProofs ---------------------------
(***************************************************************************)
(* The promises of the warehouse and accounting parts, for every value of  *)
(* the constants.  A behaviour is one of one part: each invariant starts,  *)
(* is kept by the steps of its part, and rests with the others.            *)
(***************************************************************************)
EXTENDS MCWarehouse, Sequences, TotalsTheorems

\* A step of the composition is a step of each part or leaves it alone.
LEMMA EachPart ==
    ASSUME [Next]_vars
    PROVE  /\ part' = part
           /\ IF part = "lines" THEN [L!Next]_(L!vars) ELSE [O!Next]_(O!vars)
           /\ [Q!Next]_(Q!vars) /\ [P!Next]_(P!vars) /\ [A!Next]_(A!vars)
           /\ [S!Next]_(S!vars) /\ [M!Next]_(M!vars)
<1> USE DEF vars, orderVars, rfqVars, madeVars, alertVars, syncVars, paymentVars,
            L!vars, O!vars, Q!vars, P!vars, A!vars, S!vars, M!vars
<1>1. CASE UNCHANGED vars
  BY <1>1
<1>2. CASE part = "orders" /\ Orders /\ O!Next
  BY <1>2 DEF Orders
<1>3. CASE part = "lines" /\ Orders /\ L!Next
  BY <1>3 DEF Orders
<1>4. CASE part = "rfq" /\ Rfq /\ Q!Next
  BY <1>4 DEF Rfq
<1>5. CASE part = "production" /\ Made /\ P!Next
  BY <1>5 DEF Made
<1>6. CASE part = "alerts" /\ Alerts /\ A!Next
  BY <1>6 DEF Alerts
<1>7. CASE Sync /\ S!Next
  BY <1>7 DEF Sync
<1>8. CASE Payment /\ M!Next
  BY <1>8 DEF Payment
<1> QED BY <1>1, <1>2, <1>3, <1>4, <1>5, <1>6, <1>7, <1>8 DEF Next
-----------------------------------------------------------------------------
(***************************************************************************)
(* Accounting sync, for any number of runs, documents and faults, any cap  *)
(* and any ways of starting: documents are created twice only after a      *)
(* stale reading or an outlived lease, an order that is done has its       *)
(* documents, and a finished e-document stays finished.                    *)
(***************************************************************************)

\* What the lemmas take of the constants: no run is called "free", and runs start
\* in the ways the code has.
SyncConstants ==
    /\ S!NoOwner \notin Runner
    /\ MaxDocs \in Nat /\ Cap \in Nat /\ MaxFaults \in Nat
    /\ Mode \subseteq {"cron", "all"} \union S!Steps
-----------------------------------------------------------------------------
(* The steps of a run, by what they make of its job.                       *)

\* The order of the steps.
LEMMA StepOrder ==
    /\ S!NextStep("contact") = "product" /\ S!NextStep("product") = "shipment"
    /\ S!NextStep("shipment") = "invoice" /\ S!NextStep("invoice") = "edoc"
    /\ S!NextStep("edoc") = "done"
<1>1. DOMAIN S!Step = 1 .. 6
  BY DEF S!Step
<1>2. ASSUME NEW n \in 1 .. 6 PROVE S!Pos(S!Step[n]) = n
  <2>1. \A m \in 1 .. 6 : S!Step[m] = S!Step[n] => m = n
    BY DEF S!Step
  <2> QED BY <1>1, <2>1 DEF S!Pos
<1>3. /\ S!Step[1] = "contact" /\ S!Step[2] = "product" /\ S!Step[3] = "shipment"
      /\ S!Step[4] = "invoice" /\ S!Step[5] = "edoc" /\ S!Step[6] = "done"
  BY DEF S!Step
<1>4. /\ S!Pos("contact") = 1 /\ S!Pos("product") = 2 /\ S!Pos("shipment") = 3
      /\ S!Pos("invoice") = 4 /\ S!Pos("edoc") = 5
  BY <1>2, <1>3
<1> QED BY <1>3, <1>4 DEF S!NextStep

LEMMA StepNames ==
    /\ S!Documents \subseteq S!Steps /\ S!Kinds \subseteq S!Steps /\ "done" \notin S!Steps
    /\ S!Steps = {"contact", "product", "shipment", "invoice", "edoc"}
    /\ S!Kinds = {"shipment", "invoice", "edoc"} /\ S!Documents = {"shipment", "invoice"}
    /\ S!Refetched = {"invoice", "edoc"}
  BY DEF S!Documents, S!Kinds, S!Steps, S!Refetched

LEMMA JobPc ==
    /\ S!Idle.pc = "idle" /\ [pc |-> "release"].pc = "release"
    /\ \A j \in S!Job : j.pc \notin {"idle", "release"}
  BY DEF S!Idle, S!Job

\* A run that is neither idle nor giving its lease back has a job; a run that
\* moves leaves the others where they are.
LEMMA HasJob ==
    ASSUME S!TypeOK, NEW r \in Runner, run[r].pc \notin {"idle", "release"}
    PROVE  run[r] \in S!Job
  BY JobPc DEF S!TypeOK

LEMMA Moved ==
    ASSUME S!TypeOK, NEW r \in Runner, NEW m, run' = [run EXCEPT ![r] = m]
    PROVE  /\ run'[r] = m /\ \A s \in Runner \ {r} : run'[s] = run[s]
           /\ m \in {S!Idle, [pc |-> "release"]} \union S!Job =>
                 run' \in [Runner -> {S!Idle, [pc |-> "release"]} \union S!Job]
  BY DEF S!TypeOK

\* What is read of the order.
LEMMA ReadingType ==
    ASSUME S!TypeOK
    PROVE  /\ S!Reading(S!Documents) \in [S!Documents -> S!Read]
           /\ S!Reading(S!Refetched) \in [S!Refetched -> S!Read]
           /\ \A k \in S!Documents : /\ S!Reading(S!Documents)[k].id = row.id[k]
                                     /\ S!Reading(S!Documents)[k].tried = row.tried[k]
           /\ \A k \in S!Refetched : /\ S!Reading(S!Refetched)[k].id = row.id[k]
                                     /\ S!Reading(S!Refetched)[k].tried = row.tried[k]
                                     /\ S!Reading(S!Refetched)[k].done <=> k = "edoc" /\ row.edoc = "done"
<1>1. \A k \in S!Kinds : row.id[k] \in 0 .. MaxDocs /\ row.tried[k] \in BOOLEAN
  BY DEF S!TypeOK, S!Row
<1> QED BY <1>1, StepNames DEF S!Reading, S!Read

\* A run that goes on, with the same step, reading and mode.
LEMMA Goes ==
    ASSUME S!TypeOK, NEW r \in Runner, run[r].pc \notin {"idle", "release"},
           NEW pc \in {"claim", "work", "refetch", "status", "mark", "create", "record",
                       "advance", "patch"}, S!Goto(r, pc)
    PROVE  \E m \in S!Job :
              /\ run' = [run EXCEPT ![r] = m]
              /\ m.pc = pc /\ m.mode = run[r].mode /\ m.at = run[r].at /\ m.old = run[r].old
              /\ m.kind = run[r].kind /\ m.got = run[r].got
<1>1. run[r] \in S!Job
  BY HasJob
<1>2. PICK m : m = [run[r] EXCEPT !.pc = pc]
  OBVIOUS
<1>3. run' = [run EXCEPT ![r] = m]
  BY <1>2 DEF S!Goto
<1>4. /\ m \in S!Job /\ m.pc = pc /\ m.mode = run[r].mode /\ m.at = run[r].at
      /\ m.old = run[r].old /\ m.kind = run[r].kind /\ m.got = run[r].got
  BY <1>1, <1>2 DEF S!Job
<1> QED BY <1>3, <1>4

\* A run that has a document or an answer in hand.
LEMMA Takes ==
    ASSUME S!TypeOK, NEW r \in Runner, run[r].pc \notin {"idle", "release"}, NEW i \in 0 .. MaxDocs,
           run' = [run EXCEPT ![r].pc = "record", ![r].got = i]
    PROVE  \E m \in S!Job :
              /\ run' = [run EXCEPT ![r] = m]
              /\ m.pc = "record" /\ m.mode = run[r].mode /\ m.at = run[r].at
              /\ m.old = run[r].old /\ m.got = i
<1>1. run[r] \in S!Job
  BY HasJob
<1>2. PICK m : m = [run[r] EXCEPT !.pc = "record", !.got = i]
  OBVIOUS
<1>3. run' = [run EXCEPT ![r] = m]
  BY <1>2
<1>4. /\ m \in S!Job /\ m.pc = "record" /\ m.mode = run[r].mode /\ m.at = run[r].at
      /\ m.old = run[r].old /\ m.got = i
  BY <1>1, <1>2 DEF S!Job
<1> QED BY <1>3, <1>4

LEMMA Throws ==
    ASSUME S!TypeOK, NEW r \in Runner, run[r].pc \notin {"idle", "release"}, MaxDocs \in Nat,
           NEW kind \in {"server", "rate_limit", "validation"}, S!Throw(r, kind)
    PROVE  \E m \in S!Job :
              /\ run' = [run EXCEPT ![r] = m]
              /\ m.pc = "patch" /\ m.mode = run[r].mode /\ m.at = run[r].at /\ m.kind = kind
<1>1. run[r] \in S!Job
  BY HasJob
<1>2. PICK m : m = [run[r] EXCEPT !.pc = "patch", !.kind = kind, !.old = S!Forgotten, !.got = 0]
  OBVIOUS
<1>3. run' = [run EXCEPT ![r] = m]
  BY <1>2 DEF S!Throw
<1>4. /\ m \in S!Job /\ m.pc = "patch" /\ m.mode = run[r].mode /\ m.at = run[r].at
      /\ m.kind = kind
  <2>1. S!Forgotten \in S!Olds /\ 0 \in 0 .. MaxDocs
    BY DEF S!Olds
  <2> QED BY <1>1, <1>2, <2>1 DEF S!Job
<1> QED BY <1>3, <1>4

LEMMA StartStep ==
    ASSUME SyncConstants, S!TypeOK, NEW r \in Runner, NEW mode \in Mode, S!Start(r, mode)
    PROVE  /\ UNCHANGED <<row, remote, poll, faults, outrun>> /\ S!MayStart(mode)
           /\ \E m \in S!Job :
                 /\ run' = [run EXCEPT ![r] = m]
                 /\ m.pc = "claim" /\ m.mode = mode /\ m.old = S!Reading(S!Documents)
                 /\ m.at = IF S!Single(mode) THEN mode ELSE row.step
<1> DEFINE m == [pc |-> "claim", mode |-> mode, at |-> IF S!Single(mode) THEN mode ELSE row.step,
                 old |-> S!Reading(S!Documents), count |-> row.count, kind |-> "none", got |-> 0]
<1>1. run' = [run EXCEPT ![r] = m] /\ UNCHANGED <<row, remote, poll, faults, outrun>>
      /\ S!MayStart(mode)
  BY DEF S!Start
<1>2. (IF S!Single(mode) THEN mode ELSE row.step) \in S!Steps \union {"done"}
  BY DEF SyncConstants, S!Single, S!TypeOK, S!Row
<1>3. S!Reading(S!Documents) \in S!Olds /\ row.count \in 0 .. Cap /\ 0 \in 0 .. MaxDocs
  BY ReadingType DEF S!Olds, S!TypeOK, S!Row, SyncConstants
<1>4. m \in S!Job
  BY <1>2, <1>3 DEF S!Job
<1>5. /\ m.pc = "claim" /\ m.mode = mode /\ m.old = S!Reading(S!Documents)
      /\ m.at = IF S!Single(mode) THEN mode ELSE row.step
  OBVIOUS
<1> HIDE DEF m
<1> QED BY <1>1, <1>4, <1>5

\* The claim succeeds, or the run stops.
LEMMA ClaimStep ==
    ASSUME S!TypeOK, NEW r \in Runner, S!Claim(r)
    PROVE  /\ UNCHANGED <<remote, poll, faults>> /\ run[r].pc = "claim"
           /\ \/ /\ row.step # "done" /\ ~S!Held
                 /\ row' = [row EXCEPT !.owner = r, !.leased = TRUE]
                 /\ outrun' = (outrun \/ \E k \in S!Documents : run[r].old[k].tried # row.tried[k])
                 /\ \E m \in S!Job :
                       /\ run' = [run EXCEPT ![r] = m]
                       /\ m.mode = run[r].mode /\ m.old = run[r].old
                       /\ IF run[r].mode = "edoc" THEN m.pc = "refetch" /\ m.at = run[r].at
                          ELSE /\ m.pc = "work"
                               /\ m.at = IF S!Single(run[r].mode) THEN run[r].at ELSE "contact"
              \/ row' = row /\ outrun' = outrun /\ run' = [run EXCEPT ![r] = S!Idle]
<1>1. /\ run[r].pc = "claim" /\ UNCHANGED <<remote, poll, faults>>
  BY DEF S!Claim
<1>2. CASE ~S!Claimable
  BY <1>1, <1>2 DEF S!Claim, S!Stop
<1>3. CASE S!Claimable
  <2>1. /\ row.step # "done" /\ ~S!Held
        /\ row' = [row EXCEPT !.owner = r, !.leased = TRUE]
        /\ outrun' = (outrun \/ \E k \in S!Documents : run[r].old[k].tried # row.tried[k])
    BY <1>3 DEF S!Claim, S!Claimable
  <2>2. CASE run[r].mode = "edoc"
    <3>1. S!Goto(r, "refetch")
      BY <1>3, <2>2 DEF S!Claim
    <3> QED BY <1>1, <2>1, <2>2, <3>1, Goes
  <2>3. CASE run[r].mode # "edoc"
    <3>1. run' = [run EXCEPT ![r].pc = "work",
                             ![r].at = IF S!Single(run[r].mode) THEN @ ELSE "contact"]
      BY <1>3, <2>3 DEF S!Claim
    <3>2. run[r] \in S!Job
      BY <1>1, HasJob
    <3>3. PICK m : m = [run[r] EXCEPT !.pc = "work",
                                      !.at = IF S!Single(run[r].mode) THEN @ ELSE "contact"]
      OBVIOUS
    <3>4. run' = [run EXCEPT ![r] = m]
      BY <3>1, <3>3
    <3>5. "contact" \in S!Steps
      BY DEF S!Steps
    <3>6. /\ m \in S!Job /\ m.mode = run[r].mode /\ m.old = run[r].old /\ m.pc = "work"
          /\ m.at = IF S!Single(run[r].mode) THEN run[r].at ELSE "contact"
      BY <3>2, <3>3, <3>5 DEF S!Job
    <3> QED BY <1>1, <2>1, <2>3, <3>4, <3>6
  <2> QED BY <2>2, <2>3
<1> QED BY <1>2, <1>3

LEMMA ClaimFailsStep ==
    ASSUME SyncConstants, S!TypeOK, NEW r \in Runner, S!ClaimFails(r)
    PROVE  /\ UNCHANGED <<remote, poll, outrun>> /\ run[r].pc = "claim"
           /\ faults' \in 0 .. MaxFaults
           /\ run' = [run EXCEPT ![r] = S!Idle]
           /\ \/ row' = row
              \/ row' \in S!Row /\ row'.step = run[r].at /\ row'.id = row.id
                 /\ row'.tried = row.tried /\ row'.edoc = row.edoc
                 /\ row'.owner = row.owner /\ row'.leased = row.leased
<1>1. /\ run[r].pc = "claim" /\ UNCHANGED <<remote, poll, outrun>>
      /\ run' = [run EXCEPT ![r] = S!Idle] /\ faults' \in 0 .. MaxFaults
  BY DEF S!ClaimFails, S!Stop, S!Spend, S!TypeOK, SyncConstants
<1>2. run[r] \in S!Job
  BY <1>1, HasJob
<1>3. run[r].at \in S!Steps \union {"done"} /\ S!OneMore(run[r].count) \in 0 .. Cap
  BY <1>2 DEF S!Job, S!OneMore, SyncConstants
<1>4. row \in S!Row
  BY DEF S!TypeOK
<1>5. \/ row' = row
      \/ row' = [row EXCEPT !.step = run[r].at, !.kind = "server", !.count = S!OneMore(run[r].count)]
  BY DEF S!ClaimFails
<1> QED BY <1>1, <1>3, <1>4, <1>5 DEF S!Row

LEMMA EnsureStep ==
    ASSUME S!TypeOK, NEW r \in Runner, S!Ensure(r)
    PROVE  /\ UNCHANGED <<remote, poll, faults, outrun>>
           /\ run[r].pc = "work" /\ run[r].at \in {"contact", "product"}
           /\ row' \in S!Row /\ row'.step = row.step /\ row'.id = row.id
           /\ row'.tried = row.tried /\ row'.edoc = row.edoc
           /\ row'.owner = row.owner /\ row'.leased = row.leased
           /\ \E m \in S!Job :
                 /\ run' = [run EXCEPT ![r] = m]
                 /\ m.pc = "advance" /\ m.mode = run[r].mode /\ m.at = run[r].at
                 /\ m.old = run[r].old
<1>1. /\ UNCHANGED <<remote, poll, faults, outrun>>
      /\ run[r].pc = "work" /\ run[r].at \in {"contact", "product"}
      /\ row' = [row EXCEPT !.have = @ \union {run[r].at}] /\ S!Goto(r, "advance")
  BY DEF S!Ensure
<1>2. row \in S!Row
  BY DEF S!TypeOK
<1>3. /\ row' \in S!Row /\ row'.step = row.step /\ row'.id = row.id
      /\ row'.tried = row.tried /\ row'.edoc = row.edoc
      /\ row'.owner = row.owner /\ row'.leased = row.leased
  BY <1>1, <1>2 DEF S!Row
<1> QED BY <1>1, <1>3, Goes

\* A recorded id, a document that is there, a marker without one, a fresh start.
LEMMA LookStep ==
    ASSUME SyncConstants, S!TypeOK, NEW r \in Runner, S!Look(r)
    PROVE  /\ UNCHANGED <<row, remote, poll, faults, outrun>>
           /\ run[r].pc = "work" /\ run[r].at \in S!Documents
           /\ \E m \in S!Job :
                 /\ run' = [run EXCEPT ![r] = m]
                 /\ m.mode = run[r].mode /\ m.at = run[r].at
                 /\ \/ m.pc = "advance" /\ m.old = run[r].old /\ run[r].old[run[r].at].id # 0
                    \/ /\ m.pc = "record" /\ m.old = run[r].old /\ m.got # 0
                       /\ m.got \in 1 .. MaxDocs /\ remote[run[r].at][m.got] = "there"
                    \/ m.pc = "patch" /\ m.kind = "validation"
                    \/ m.pc = "mark" /\ m.old = run[r].old /\ ~run[r].old[run[r].at].tried
<1>1. /\ UNCHANGED <<row, remote, poll, faults, outrun>>
      /\ run[r].pc = "work" /\ run[r].at \in S!Documents /\ MaxDocs \in Nat
  BY DEF S!Look, SyncConstants
<1>2. CASE S!Goto(r, "advance") /\ run[r].old[run[r].at].id # 0
  BY <1>1, <1>2, Goes
<1>3. ASSUME NEW i \in 1 .. MaxDocs, remote[run[r].at][i] = "there",
             run' = [run EXCEPT ![r].pc = "record", ![r].got = i]
      PROVE  \E m \in S!Job :
                /\ run' = [run EXCEPT ![r] = m] /\ m.mode = run[r].mode /\ m.at = run[r].at
                /\ m.pc = "record" /\ m.old = run[r].old /\ m.got # 0
                /\ m.got \in 1 .. MaxDocs /\ remote[run[r].at][m.got] = "there"
  <2>1. i \in 0 .. MaxDocs /\ i # 0
    BY <1>1
  <2>2. PICK m \in S!Job :
           /\ run' = [run EXCEPT ![r] = m]
           /\ m.pc = "record" /\ m.mode = run[r].mode /\ m.at = run[r].at
           /\ m.old = run[r].old /\ m.got = i
    BY <1>1, <1>3, <2>1, Takes
  <2> QED BY <1>3, <2>1, <2>2
<1>4. CASE S!Throw(r, "validation")
  BY <1>1, <1>4, Throws
<1>5. CASE S!Goto(r, "mark") /\ ~run[r].old[run[r].at].tried
  BY <1>1, <1>5, Goes
<1> QED BY <1>1, <1>2, <1>3, <1>4, <1>5 DEF S!Look

LEMMA RefetchStep ==
    ASSUME S!TypeOK, NEW r \in Runner, S!Refetch(r)
    PROVE  /\ UNCHANGED <<row, remote, poll, faults, outrun>> /\ run[r].pc = "refetch"
           /\ \E m \in S!Job :
                 /\ run' = [run EXCEPT ![r] = m]
                 /\ m.pc = "work" /\ m.mode = run[r].mode /\ m.at = run[r].at
                 /\ m.old = S!Reading(S!Refetched)
<1>1. /\ UNCHANGED <<row, remote, poll, faults, outrun>> /\ run[r].pc = "refetch"
      /\ run' = [run EXCEPT ![r].pc = "work", ![r].old = S!Reading(S!Refetched)]
  BY DEF S!Refetch, S!Refetched
<1>2. run[r] \in S!Job /\ S!Reading(S!Refetched) \in S!Olds
  BY <1>1, HasJob, ReadingType DEF S!Olds
<1>3. PICK m : m = [run[r] EXCEPT !.pc = "work", !.old = S!Reading(S!Refetched)]
  OBVIOUS
<1>4. run' = [run EXCEPT ![r] = m]
  BY <1>1, <1>3
<1>5. /\ m \in S!Job /\ m.pc = "work" /\ m.mode = run[r].mode /\ m.at = run[r].at
      /\ m.old = S!Reading(S!Refetched)
  BY <1>2, <1>3 DEF S!Job
<1> QED BY <1>1, <1>4, <1>5

\* No invoice, an e-document already, a job with its status, a marker without a job,
\* a fresh start.
LEMMA LookEDocStep ==
    ASSUME SyncConstants, S!TypeOK, NEW r \in Runner, S!LookEDoc(r),
           run[r].old \in [S!Refetched -> S!Read],
           run[r].old["edoc"].id # 0 =>
              remote["edoc"][run[r].old["edoc"].id] \in {"running", "done", "error"}
    PROVE  /\ UNCHANGED <<row, remote, poll, faults, outrun>>
           /\ run[r].pc = "work" /\ run[r].at = "edoc"
           /\ \E m \in S!Job :
                 /\ run' = [run EXCEPT ![r] = m]
                 /\ m.mode = run[r].mode /\ m.at = run[r].at
                 /\ \/ m.pc = "patch" /\ m.kind = "validation"
                    \/ /\ run[r].old["invoice"].id # 0
                       /\ \/ m.pc = "advance" /\ run[r].old["edoc"].done
                          \/ /\ m.pc = "status" /\ m.kind \in {"running", "done", "error"}
                             /\ m.kind = "done" => S!EDocDone
                          \/ m.pc = "mark" /\ ~run[r].old["edoc"].tried
<1> DEFINE job == run[r].old["edoc"].id
<1>1. /\ UNCHANGED <<row, remote, poll, faults, outrun>>
      /\ run[r].pc = "work" /\ run[r].at = "edoc" /\ MaxDocs \in Nat
  BY DEF S!LookEDoc, SyncConstants
<1>2. job \in 0 .. MaxDocs /\ 0 \in 0 .. MaxDocs
  BY <1>1, StepNames DEF S!Read
<1>3. CASE S!Throw(r, "validation")
  BY <1>1, <1>3, Throws
<1>4. CASE run[r].old["invoice"].id # 0 /\ run[r].old["edoc"].done /\ S!Goto(r, "advance")
  BY <1>1, <1>4, Goes
<1>5. ASSUME run[r].old["invoice"].id # 0, NEW i \in 0 .. MaxDocs,
             NEW v \in {"running", "done", "error"}, v = "done" => S!EDocDone,
             run' = [run EXCEPT ![r].pc = "status", ![r].kind = v, ![r].got = i]
      PROVE  \E m \in S!Job :
                /\ run' = [run EXCEPT ![r] = m] /\ m.mode = run[r].mode /\ m.at = run[r].at
                /\ m.pc = "status" /\ m.kind \in {"running", "done", "error"}
                /\ m.kind = "done" => S!EDocDone
  <2>1. PICK m : m = [run[r] EXCEPT !.pc = "status", !.kind = v, !.got = i]
    OBVIOUS
  <2>2. run' = [run EXCEPT ![r] = m]
    BY <1>5, <2>1
  <2>3. run[r] \in S!Job
    BY <1>1, HasJob
  <2>4. /\ m \in S!Job /\ m.pc = "status" /\ m.mode = run[r].mode /\ m.at = run[r].at
        /\ m.kind = v /\ m.got = i
    BY <2>1, <2>3 DEF S!Job
  <2> QED BY <1>5, <2>2, <2>4
<1>6. CASE run[r].old["invoice"].id # 0 /\ ~run[r].old["edoc"].tried /\ S!Goto(r, "mark")
  BY <1>1, <1>6, Goes
<1>7. \/ S!Throw(r, "validation")
      \/ run[r].old["invoice"].id # 0 /\ run[r].old["edoc"].done /\ S!Goto(r, "advance")
      \/ /\ run[r].old["invoice"].id # 0 /\ S!EDocDone
         /\ \E i \in {0, job} :
               run' = [run EXCEPT ![r].pc = "status", ![r].kind = "done", ![r].got = i]
      \/ /\ run[r].old["invoice"].id # 0 /\ job # 0
         /\ run' = [run EXCEPT ![r].pc = "status", ![r].kind = remote["edoc"][job],
                               ![r].got = job]
      \/ run[r].old["invoice"].id # 0 /\ ~run[r].old["edoc"].tried /\ S!Goto(r, "mark")
  BY DEF S!LookEDoc, S!EDocDone
<1>8. CASE /\ run[r].old["invoice"].id # 0 /\ S!EDocDone
           /\ \E i \in {0, job} :
                 run' = [run EXCEPT ![r].pc = "status", ![r].kind = "done", ![r].got = i]
  BY <1>1, <1>2, <1>5, <1>8
<1>9. CASE /\ run[r].old["invoice"].id # 0 /\ job # 0
           /\ run' = [run EXCEPT ![r].pc = "status", ![r].kind = remote["edoc"][job],
                                 ![r].got = job]
  <2>1. job \in 1 .. MaxDocs /\ remote["edoc"][job] \in {"running", "done", "error"}
    BY <1>1, <1>2, <1>9
  <2>2. remote["edoc"][job] = "done" => S!EDocDone
    BY <2>1 DEF S!EDocDone
  <2> QED BY <1>1, <1>2, <1>5, <1>9, <2>1, <2>2
<1> QED BY <1>3, <1>4, <1>6, <1>7, <1>8, <1>9

\* A run that ends its work gives the lease back next.
LEMMA Finishes ==
    ASSUME NEW r \in Runner, S!Finish(r)
    PROVE  run' = [run EXCEPT ![r] = [pc |-> "release"]]
  BY DEF S!Finish

LEMMA WriteStatusStep ==
    ASSUME SyncConstants, S!TypeOK, NEW r \in Runner, S!WriteStatus(r), S!JobFits(r)
    PROVE  /\ UNCHANGED <<remote, poll, faults, outrun>> /\ run[r].pc = "status"
           /\ row' \in S!Row /\ row'.step = row.step /\ row'.id = row.id /\ row'.tried = row.tried
           /\ row'.owner = row.owner /\ row'.leased = row.leased
           /\ row.edoc = "done" => row'.edoc = "done"
           /\ row'.edoc = "done" => row.edoc = "done" \/ run[r].kind = "done"
           /\ \/ run' = [run EXCEPT ![r] = [pc |-> "release"]]
              \/ \E m \in S!Job :
                    /\ run' = [run EXCEPT ![r] = m]
                    /\ m.mode = run[r].mode /\ m.at = run[r].at
                    /\ \/ m.pc = "patch" /\ m.kind = "server"
                       \/ m.pc = "advance" /\ row'.edoc = "done"
<1>1. /\ UNCHANGED <<remote, poll, faults, outrun>> /\ run[r].pc = "status"
      /\ run[r].kind \in {"running", "done", "error"} /\ MaxDocs \in Nat
      /\ row' = IF S!Guarded(run[r].got) THEN [row EXCEPT !.edoc = run[r].kind] ELSE row
  BY DEF S!WriteStatus, S!JobFits, SyncConstants
<1>2. row \in S!Row
  BY DEF S!TypeOK
<1>3. /\ row' \in S!Row /\ row'.step = row.step /\ row'.id = row.id /\ row'.tried = row.tried
      /\ row'.owner = row.owner /\ row'.leased = row.leased
      /\ row.edoc = "done" => row'.edoc = "done"
      /\ row'.edoc = "done" => row.edoc = "done" \/ run[r].kind = "done"
  BY <1>1, <1>2 DEF S!Row, S!Guarded
<1>4. \/ S!Finish(r) \/ S!Throw(r, "server")
      \/ S!Goto(r, "advance") /\ row'.edoc = "done"
  BY <1>1 DEF S!WriteStatus
<1>5. CASE S!Finish(r)
  BY <1>1, <1>3, <1>5, Finishes
<1>6. CASE S!Throw(r, "server")
  BY <1>1, <1>3, <1>6, Throws
<1>7. CASE S!Goto(r, "advance") /\ row'.edoc = "done"
  BY <1>1, <1>3, <1>7, Goes
<1> QED BY <1>4, <1>5, <1>6, <1>7

LEMMA MarkStep ==
    ASSUME S!TypeOK, NEW r \in Runner, S!Mark(r), S!JobFits(r)
    PROVE  /\ UNCHANGED <<remote, poll, faults, outrun>> /\ run[r].pc = "mark"
           /\ run[r].at \in S!Kinds
           /\ row' \in S!Row /\ row'.step = row.step /\ row'.id = row.id /\ row'.edoc = row.edoc
           /\ row'.tried[run[r].at]
           /\ \A k \in S!Kinds \ {run[r].at} : row'.tried[k] = row.tried[k]
           /\ row'.owner = row.owner /\ row'.leased = row.leased
           /\ \E m \in S!Job :
                 /\ run' = [run EXCEPT ![r] = m]
                 /\ m.pc = "create" /\ m.mode = run[r].mode /\ m.at = run[r].at
                 /\ m.old = run[r].old
<1>1. /\ UNCHANGED <<remote, poll, faults, outrun>> /\ run[r].pc = "mark"
      /\ run[r].at \in S!Kinds /\ S!Goto(r, "create")
      /\ row' = [row EXCEPT !.tried[run[r].at] = TRUE]
  BY DEF S!Mark, S!JobFits
<1>2. row \in S!Row
  BY DEF S!TypeOK
<1>3. /\ row' \in S!Row /\ row'.step = row.step /\ row'.id = row.id /\ row'.edoc = row.edoc
      /\ row'.tried[run[r].at]
      /\ \A k \in S!Kinds \ {run[r].at} : row'.tried[k] = row.tried[k]
      /\ row'.owner = row.owner /\ row'.leased = row.leased
  BY <1>1, <1>2 DEF S!Row
<1>4. \E m \in S!Job :
         /\ run' = [run EXCEPT ![r] = m]
         /\ m.pc = "create" /\ m.mode = run[r].mode /\ m.at = run[r].at
         /\ m.old = run[r].old
  BY <1>1, Goes
<1> QED BY <1>1, <1>3, <1>4

\* The request is answered, or its answer is lost on the way.
LEMMA CreateStep ==
    ASSUME SyncConstants, S!TypeOK, NEW r \in Runner, S!Create(r), S!JobFits(r)
    PROVE  /\ UNCHANGED <<row, poll, outrun>> /\ run[r].pc = "create" /\ run[r].at \in S!Kinds
           /\ faults' \in 0 .. MaxFaults
           /\ \E i \in 1 .. MaxDocs, s \in {S!Landed(run[r].at), "wire"}, m \in S!Job :
                 /\ remote[run[r].at][i] = "none"
                 /\ remote' = [remote EXCEPT ![run[r].at][i] = s]
                 /\ run' = [run EXCEPT ![r] = m]
                 /\ m.mode = run[r].mode /\ m.at = run[r].at
                 /\ \/ m.pc = "patch" /\ m.kind = "server"
                    \/ /\ m.pc = "record" /\ m.old = run[r].old /\ m.got = i
                       /\ s = S!Landed(run[r].at)
<1>1. /\ UNCHANGED <<row, poll, outrun>> /\ run[r].pc = "create" /\ run[r].at \in S!Kinds
      /\ MaxDocs \in Nat /\ MaxFaults \in Nat /\ faults \in 0 .. MaxFaults
  BY DEF S!Create, S!JobFits, SyncConstants, S!TypeOK
<1>2. PICK i \in 1 .. MaxDocs :
         /\ remote[run[r].at][i] = "none"
         /\ \/ /\ remote' = [remote EXCEPT ![run[r].at][i] = S!Landed(run[r].at)]
               /\ run' = [run EXCEPT ![r].pc = "record", ![r].got = i]
               /\ UNCHANGED faults
            \/ /\ S!Spend /\ S!Throw(r, "server")
               /\ \E s \in {S!Landed(run[r].at), "wire"} :
                     remote' = [remote EXCEPT ![run[r].at][i] = s]
  BY DEF S!Create
<1>3. faults' \in 0 .. MaxFaults
  BY <1>1, <1>2 DEF S!Spend
<1>4. CASE /\ remote' = [remote EXCEPT ![run[r].at][i] = S!Landed(run[r].at)]
           /\ run' = [run EXCEPT ![r].pc = "record", ![r].got = i]
  <2>1. i \in 0 .. MaxDocs
    BY <1>1
  <2>2. PICK m \in S!Job :
           /\ run' = [run EXCEPT ![r] = m]
           /\ m.pc = "record" /\ m.mode = run[r].mode /\ m.at = run[r].at
           /\ m.old = run[r].old /\ m.got = i
    BY <1>1, <1>4, <2>1, Takes
  <2> QED BY <1>1, <1>2, <1>3, <1>4, <2>2
<1>5. CASE /\ S!Throw(r, "server")
           /\ \E s \in {S!Landed(run[r].at), "wire"} :
                 remote' = [remote EXCEPT ![run[r].at][i] = s]
  <2>1. PICK m \in S!Job :
           /\ run' = [run EXCEPT ![r] = m]
           /\ m.pc = "patch" /\ m.mode = run[r].mode /\ m.at = run[r].at /\ m.kind = "server"
    BY <1>1, <1>5, Throws
  <2> QED BY <1>1, <1>2, <1>3, <1>5, <2>1
<1> QED BY <1>2, <1>4, <1>5

LEMMA RecordStep ==
    ASSUME SyncConstants, S!TypeOK, NEW r \in Runner, S!Record(r), S!JobFits(r)
    PROVE  /\ UNCHANGED <<remote, poll, faults, outrun>> /\ run[r].pc = "record"
           /\ run[r].at \in S!Kinds
           /\ row' \in S!Row /\ row'.step = row.step /\ row'.tried = row.tried
           /\ row'.owner = row.owner /\ row'.leased = row.leased
           /\ row'.edoc = "done" <=> row.edoc = "done"
           /\ \A k \in S!Kinds \ {run[r].at} : row'.id[k] = row.id[k]
           /\ row'.id[run[r].at] \in {run[r].got, row.id[run[r].at]}
           /\ \/ run' = [run EXCEPT ![r] = [pc |-> "release"]]
              \/ /\ run[r].at \in S!Documents /\ row'.id[run[r].at] = run[r].got
                 /\ \E m \in S!Job :
                       /\ run' = [run EXCEPT ![r] = m]
                       /\ m.pc = "advance" /\ m.mode = run[r].mode /\ m.at = run[r].at
                       /\ m.old = run[r].old
<1> DEFINE k == run[r].at  i == run[r].got
<1>1. /\ UNCHANGED <<remote, poll, faults, outrun>> /\ run[r].pc = "record"
      /\ run[r].at \in S!Kinds
  BY DEF S!Record, S!JobFits
<1>2. row \in S!Row
  BY DEF S!TypeOK
<1>3. i \in 0 .. MaxDocs
  BY <1>1, HasJob DEF S!Job
<1>4. CASE k # "edoc"
  <2>1. row' = [row EXCEPT !.id[k] = i] /\ S!Goto(r, "advance") /\ k \in S!Documents
    BY <1>1, <1>4 DEF S!Record, S!Kinds
  <2>2. /\ row' \in S!Row /\ row'.step = row.step /\ row'.tried = row.tried
        /\ row'.owner = row.owner /\ row'.leased = row.leased /\ row'.edoc = row.edoc
        /\ \A l \in S!Kinds \ {k} : row'.id[l] = row.id[l]
        /\ row'.id[k] = i
    BY <1>1, <1>2, <1>3, <2>1 DEF S!Row
  <2>3. \E m \in S!Job :
           /\ run' = [run EXCEPT ![r] = m]
           /\ m.pc = "advance" /\ m.mode = run[r].mode /\ m.at = run[r].at
           /\ m.old = run[r].old
    BY <1>1, <2>1, Goes
  <2> QED BY <1>1, <2>1, <2>2, <2>3
<1>5. CASE k = "edoc"
  <2>1. /\ row' = IF row.edoc # "done" THEN [row EXCEPT !.id[k] = i, !.edoc = "running"] ELSE row
        /\ S!Finish(r)
    BY <1>5 DEF S!Record, S!Guarded
  <2>2. /\ row' \in S!Row /\ row'.step = row.step /\ row'.tried = row.tried
        /\ row'.owner = row.owner /\ row'.leased = row.leased
        /\ row'.edoc = "done" <=> row.edoc = "done"
        /\ \A l \in S!Kinds \ {k} : row'.id[l] = row.id[l]
        /\ row'.id[k] \in {i, row.id[k]}
    BY <1>1, <1>2, <1>3, <2>1 DEF S!Row
  <2> QED BY <1>1, <2>1, <2>2, Finishes
<1> QED BY <1>4, <1>5

\* The next step of a full run; a run that ends gives its lease back.
LEMMA AdvanceStep ==
    ASSUME SyncConstants, S!TypeOK, NEW r \in Runner, S!Advance(r), S!JobFits(r)
    PROVE  /\ UNCHANGED <<remote, poll, faults, outrun>> /\ run[r].pc = "advance"
           /\ run[r].at \in S!Steps
           /\ row' \in S!Row /\ row'.id = row.id /\ row'.tried = row.tried
           /\ row'.edoc = row.edoc /\ row'.owner = row.owner /\ row'.leased = row.leased
           /\ row'.step = S!NextStep(run[r].at)
           /\ \/ run' = [run EXCEPT ![r] = [pc |-> "release"]]
              \/ /\ ~S!Single(run[r].mode) /\ run[r].at # "edoc"
                 /\ \E m \in S!Job :
                       /\ run' = [run EXCEPT ![r] = m]
                       /\ m.mode = run[r].mode /\ m.old = run[r].old
                       /\ m.at = S!NextStep(run[r].at)
                       /\ m.pc = IF run[r].at = "invoice" THEN "refetch" ELSE "work"
<1>1. /\ UNCHANGED <<remote, poll, faults, outrun>> /\ run[r].pc = "advance"
      /\ run[r].at \in S!Steps /\ 0 \in 0 .. Cap
      /\ row' = [row EXCEPT !.step = S!NextStep(run[r].at), !.kind = "none", !.count = 0]
  BY DEF S!Advance, S!JobFits, SyncConstants
<1>2. row \in S!Row /\ S!NextStep(run[r].at) \in S!Steps \union {"done"}
  BY <1>1, StepOrder, StepNames DEF S!TypeOK
<1>3. /\ row' \in S!Row /\ row'.id = row.id /\ row'.tried = row.tried
      /\ row'.edoc = row.edoc /\ row'.owner = row.owner /\ row'.leased = row.leased
      /\ row'.step = S!NextStep(run[r].at)
  BY <1>1, <1>2 DEF S!Row
<1>4. CASE S!Finish(r)
  BY <1>1, <1>3, <1>4, Finishes
<1>5. CASE /\ ~S!Single(run[r].mode) /\ run[r].at # "edoc"
           /\ run' = [run EXCEPT ![r].at = S!NextStep(run[r].at), ![r].count = 0,
                                 ![r].pc = IF run[r].at = "invoice" THEN "refetch" ELSE "work"]
  <2>1. run[r] \in S!Job
    BY <1>1, HasJob
  <2>2. PICK m : m = [run[r] EXCEPT !.at = S!NextStep(run[r].at), !.count = 0,
                          !.pc = IF run[r].at = "invoice" THEN "refetch" ELSE "work"]
    OBVIOUS
  <2>3. run' = [run EXCEPT ![r] = m]
    BY <1>5, <2>2
  <2>4. /\ m \in S!Job /\ m.mode = run[r].mode /\ m.old = run[r].old
        /\ m.at = S!NextStep(run[r].at)
        /\ m.pc = IF run[r].at = "invoice" THEN "refetch" ELSE "work"
    BY <1>1, <1>2, <2>1, <2>2 DEF S!Job
  <2> QED BY <1>1, <1>3, <1>5, <2>3, <2>4
<1> QED BY <1>4, <1>5 DEF S!Advance

LEMMA CallFailsStep ==
    ASSUME SyncConstants, S!TypeOK, NEW r \in Runner, S!CallFails(r)
    PROVE  /\ UNCHANGED <<row, remote, poll, outrun>>
           /\ run[r].pc \notin {"idle", "claim", "release"} /\ faults' \in 0 .. MaxFaults
           /\ \E m \in S!Job :
                 /\ run' = [run EXCEPT ![r] = m]
                 /\ m.pc = "patch" /\ m.mode = run[r].mode /\ m.at = run[r].at
                 /\ m.kind \in {"server", "rate_limit", "validation"}
<1>1. /\ UNCHANGED <<row, remote, poll, outrun>> /\ MaxDocs \in Nat
      /\ run[r].pc \notin {"idle", "claim", "release"} /\ faults' \in 0 .. MaxFaults
  BY DEF S!CallFails, S!Spend, S!TypeOK, SyncConstants
<1>2. PICK kind \in {"server", "rate_limit", "validation"} : S!Throw(r, kind)
  BY DEF S!CallFails
<1>3. PICK m \in S!Job :
         /\ run' = [run EXCEPT ![r] = m]
         /\ m.pc = "patch" /\ m.mode = run[r].mode /\ m.at = run[r].at /\ m.kind = kind
  BY <1>1, <1>2, Throws
<1> QED BY <1>1, <1>3

LEMMA PatchStep ==
    ASSUME SyncConstants, S!TypeOK, NEW r \in Runner, S!Patch(r), S!JobFits(r)
    PROVE  /\ UNCHANGED <<remote, poll, outrun>> /\ run[r].pc = "patch"
           /\ run[r].at \in S!Steps /\ faults' \in 0 .. MaxFaults
           /\ row' \in S!Row /\ row'.id = row.id /\ row'.tried = row.tried
           /\ row'.edoc = row.edoc /\ row'.owner = row.owner /\ row'.leased = row.leased
           /\ row'.step \in {row.step, run[r].at}
           /\ run' = [run EXCEPT ![r] = [pc |-> "release"]]
<1>1. /\ UNCHANGED <<remote, poll, outrun>> /\ run[r].pc = "patch"
      /\ run[r].at \in S!Steps /\ faults' \in 0 .. MaxFaults
      /\ run[r].kind \in {"server", "rate_limit", "validation"}
  BY DEF S!Patch, S!JobFits, S!Spend, S!TypeOK, SyncConstants
<1>2. row \in S!Row /\ run[r] \in S!Job
  BY <1>1, HasJob DEF S!TypeOK
<1>3. (IF run[r].kind = "server" THEN S!OneMore(run[r].count) ELSE row.count) \in 0 .. Cap
  BY <1>2 DEF S!Job, S!Row, S!OneMore, SyncConstants
<1>4. \/ row' = row
      \/ row' = [row EXCEPT !.step = run[r].at, !.kind = run[r].kind,
                   !.count = IF run[r].kind = "server" THEN S!OneMore(run[r].count) ELSE row.count]
  BY DEF S!Patch, S!Patched
<1>5. /\ row' \in S!Row /\ row'.id = row.id /\ row'.tried = row.tried
      /\ row'.edoc = row.edoc /\ row'.owner = row.owner /\ row'.leased = row.leased
      /\ row'.step \in {row.step, run[r].at}
  BY <1>1, <1>2, <1>3, <1>4 DEF S!Row
<1> QED BY <1>1, <1>5, Finishes DEF S!Patch

LEMMA ReleaseStep ==
    ASSUME SyncConstants, S!TypeOK, NEW r \in Runner, S!Release(r)
    PROVE  /\ UNCHANGED <<remote, poll, outrun>> /\ run[r].pc = "release"
           /\ faults' \in 0 .. MaxFaults
           /\ row' \in S!Row /\ row'.id = row.id /\ row'.tried = row.tried
           /\ row'.edoc = row.edoc /\ row'.step = row.step /\ row'.leased = row.leased
           /\ row.owner # r => row'.owner = row.owner
           /\ run' = [run EXCEPT ![r] = S!Idle]
<1>1. /\ UNCHANGED <<remote, poll, outrun>> /\ run[r].pc = "release"
      /\ faults' \in 0 .. MaxFaults /\ run' = [run EXCEPT ![r] = S!Idle]
      /\ row' = row \/ (row.owner = r /\ row' = [row EXCEPT !.owner = S!NoOwner])
  BY DEF S!Release, S!Stop, S!Spend, S!TypeOK, SyncConstants
<1>2. row \in S!Row
  BY DEF S!TypeOK
<1>3. /\ row' \in S!Row /\ row'.id = row.id /\ row'.tried = row.tried
      /\ row'.edoc = row.edoc /\ row'.step = row.step /\ row'.leased = row.leased
      /\ row.owner # r => row'.owner = row.owner
  BY <1>1, <1>2 DEF S!Row
<1> QED BY <1>1, <1>3

LEMMA CrashStep ==
    ASSUME SyncConstants, S!TypeOK, NEW r \in Runner, S!Crash(r)
    PROVE  /\ UNCHANGED <<row, remote, poll, outrun>> /\ faults' \in 0 .. MaxFaults
           /\ run' = [run EXCEPT ![r] = S!Idle]
  BY DEF S!Crash, S!Stop, S!Spend, S!TypeOK, SyncConstants

LEMMA ExpireStep ==
    ASSUME SyncConstants, S!TypeOK, S!Expire
    PROVE  /\ UNCHANGED <<remote, run, poll>> /\ faults' \in 0 .. MaxFaults /\ outrun' \in BOOLEAN
           /\ row.owner \in Runner
           /\ row' \in S!Row /\ row'.id = row.id /\ row'.tried = row.tried
           /\ row'.edoc = row.edoc /\ row'.step = row.step /\ row'.owner = row.owner
           /\ ~outrun' => ~outrun /\ run[row.owner].pc \in {"idle", "claim"}
<1> DEFINE alive == run[row.owner].pc \notin {"idle", "claim"}
<1>1. /\ UNCHANGED <<remote, run, poll>>
      /\ row' = [row EXCEPT !.leased = FALSE] /\ row.owner # S!NoOwner
      /\ \/ alive /\ faults > 0 /\ faults' = faults - 1 /\ outrun' = TRUE
         \/ ~alive /\ faults' = faults /\ outrun' = outrun
  BY DEF S!Expire, S!Spend, S!Held
<1>2. faults \in 0 .. MaxFaults /\ MaxFaults \in Nat /\ outrun \in BOOLEAN
  BY DEF S!TypeOK, SyncConstants
<1>3. faults' \in 0 .. MaxFaults
  BY <1>1, <1>2
<1>4. outrun' \in BOOLEAN /\ (~outrun' => ~outrun /\ run[row.owner].pc \in {"idle", "claim"})
  BY <1>1, <1>2, Zenon
<1>5. row \in S!Row
  BY DEF S!TypeOK
<1>6. /\ row' \in S!Row /\ row'.id = row.id /\ row'.tried = row.tried /\ row.owner \in Runner
      /\ row'.edoc = row.edoc /\ row'.step = row.step /\ row'.owner = row.owner
  BY <1>1, <1>5 DEF S!Row
<1> QED BY <1>1, <1>3, <1>4, <1>6

\* The poll looks at a job that has ended, and writes later what it has seen.
LEMMA PollLookStep ==
    ASSUME S!TypeOK, S!PollLook
    PROVE  /\ UNCHANGED <<row, remote, run, faults, outrun>>
           /\ row.id["edoc"] # 0
           /\ poll' \in [pc : {"write"}, job : 1 .. MaxDocs, seen : {"done", "error"}]
           /\ poll'.seen = "done" => S!EDocDone
<1>1. row.id["edoc"] \in 0 .. MaxDocs
  BY StepNames DEF S!TypeOK, S!Row
<1>2. row.id["edoc"] # 0 /\ row.id["edoc"] \in 1 .. MaxDocs
  <2>1. row.id["edoc"] # 0
    BY DEF S!PollLook
  <2> QED BY <1>1, <2>1
<1> QED BY <1>2 DEF S!PollLook, S!EDocDone

LEMMA PollWriteStep ==
    ASSUME SyncConstants, S!TypeOK, S!PollWrite
    PROVE  /\ UNCHANGED <<remote, run, outrun>> /\ faults' \in 0 .. MaxFaults
           /\ poll # S!Idle /\ poll' = S!Idle
           /\ row' \in S!Row /\ row'.id = row.id /\ row'.tried = row.tried
           /\ row'.owner = row.owner /\ row'.leased = row.leased
           /\ row.edoc = "done" => row'.edoc = "done"
           /\ row'.edoc = "done" => row.edoc = "done" \/ poll.seen = "done"
           /\ row'.step = row.step \/ (row'.step = "done" /\ row'.edoc = "done")
<1>1. /\ UNCHANGED <<remote, run, outrun>> /\ faults' \in 0 .. MaxFaults
      /\ poll # S!Idle /\ poll' = S!Idle /\ 0 \in 0 .. Cap
  BY DEF S!PollWrite, S!Idle, S!Spend, S!TypeOK, SyncConstants
<1>2. row \in S!Row
  BY DEF S!TypeOK
<1>3. \/ row' = row
      \/ row.edoc # "done" /\ row' = [row EXCEPT !.edoc = "error"]
      \/ /\ row.edoc # "done" /\ poll.seen = "done"
         /\ row' = [row EXCEPT !.edoc = "done", !.step = "done", !.kind = "none", !.count = 0]
  <2>1. poll.seen \in {"done", "error"}
    BY <1>1 DEF S!TypeOK
  <2> QED BY <2>1 DEF S!PollWrite, S!Guarded
<1>4. /\ row' \in S!Row /\ row'.id = row.id /\ row'.tried = row.tried
      /\ row'.owner = row.owner /\ row'.leased = row.leased
      /\ row.edoc = "done" => row'.edoc = "done"
      /\ row'.edoc = "done" => row.edoc = "done" \/ poll.seen = "done"
      /\ row'.step = row.step \/ (row'.step = "done" /\ row'.edoc = "done")
  BY <1>1, <1>2, <1>3 DEF S!Row
<1> QED BY <1>1, <1>4

\* What the service does by itself.
LEMMA ServiceStep ==
    ASSUME S!TypeOK, S!Land \/ S!JobEnds
    PROVE  /\ UNCHANGED <<row, run, poll, faults, outrun>>
           /\ \E k \in S!Kinds, i \in 1 .. MaxDocs, s \in S!Present \union {"dropped"} :
                 /\ remote' = [remote EXCEPT ![k][i] = s]
                 /\ \/ remote[k][i] = "wire" /\ s \in {S!Landed(k), "dropped"}
                    \/ k = "edoc" /\ remote[k][i] = "running" /\ s \in {"done", "error"}
<1>1. CASE S!Land
  BY <1>1 DEF S!Land, S!Landed, S!Present
<1>2. CASE S!JobEnds
  BY <1>2, StepNames DEF S!JobEnds, S!Present
<1> QED BY <1>1, <1>2
-----------------------------------------------------------------------------
(* What every step leaves in place.                                        *)

\* Ids, markers and a final status are never taken back; an id is that of a document
\* that exists, and an order gets done only when it is complete.
RowGrows ==
    /\ row' \in S!Row
    /\ \A k \in S!Kinds :
          \/ row'.id[k] = row.id[k]
          \/ row'.id[k] # 0 /\ remote[k][row'.id[k]] \in S!Present
    /\ row'.id["invoice"] # 0 => row'.id["shipment"] # 0
    /\ row'.id["edoc"] # 0 => row'.id["invoice"] # 0
    /\ \A k \in S!Kinds : row.tried[k] => row'.tried[k]
    /\ row.edoc = "done" => row'.edoc = "done"
    /\ row'.edoc = "done" => S!EDocDone
    /\ row'.step = "done" => S!Complete'

\* The service keeps what it has.
RemoteGrows ==
    \A k \in S!Kinds, i \in 1 .. MaxDocs : remote[k][i] \in S!Present => remote'[k][i] \in S!Present

LEMMA RowSame ==
    ASSUME S!SyncInv, row' = row
    PROVE  RowGrows
  BY DEF S!SyncInv, S!TypeOK, S!RowEarned, S!DoneIsComplete, RowGrows, S!Complete

\* A step that leaves ids, markers and the status of the e-document alone.
LEMMA RowAlike ==
    ASSUME S!SyncInv, row' \in S!Row, row'.id = row.id, row'.tried = row.tried, row'.edoc = row.edoc,
           row'.step \in S!Steps \union {row.step}
    PROVE  RowGrows
<1>1. row'.step = "done" => row.step = "done"
  BY StepNames
<1> QED BY <1>1 DEF S!SyncInv, S!RowEarned, S!DoneIsComplete, RowGrows, S!Complete

\* What a run has earned is kept by the steps of the others.
LEMMA EarnedStays ==
    ASSUME SyncConstants, S!TypeOK, NEW r \in Runner, S!JobFits(r), S!JobEarned(r), run'[r] = run[r],
           RowGrows, RemoteGrows, S!EDocDone => S!EDocDone'
    PROVE  S!JobFits(r)' /\ S!JobEarned(r)'
<1> DEFINE j == run[r]
<1>1. S!JobFits(r)'
  BY DEF S!JobFits
<1>2. \A k \in S!Kinds : row.id[k] # 0 => row'.id[k] # 0
  BY DEF RowGrows
<1>3. S!Complete => S!Complete'
  BY <1>2, StepNames DEF S!Complete, RowGrows
<1>4. /\ \A k \in S!Kinds : row.tried[k] => row'.tried[k]
      /\ row.edoc = "done" => row'.edoc = "done"
  BY DEF RowGrows
<1>5. j.pc \notin {"idle", "release"} => j.got \in 0 .. MaxDocs
  BY HasJob DEF S!Job
<1>6. j.pc = "work" /\ j.at = "edoc" => j.old["edoc"].id \in 0 .. MaxDocs
  BY StepNames DEF S!JobFits, S!Read
<1>7. j.pc = "work" /\ j.at = "edoc" /\ j.old["edoc"].id # 0 =>
         remote'["edoc"][j.old["edoc"].id] \in S!Present
  <2>1. SUFFICES ASSUME j.pc = "work", j.at = "edoc", j.old["edoc"].id # 0
                 PROVE  remote'["edoc"][j.old["edoc"].id] \in S!Present
    OBVIOUS
  <2>2. j.old["edoc"].id \in 1 .. MaxDocs
    BY <1>6, <2>1 DEF SyncConstants
  <2> QED BY <2>1, <2>2, StepNames DEF S!JobEarned, RemoteGrows
<1>8. j.pc = "record" => remote'[j.at][j.got] \in S!Present
  <2>1. SUFFICES ASSUME j.pc = "record" PROVE remote'[j.at][j.got] \in S!Present
    OBVIOUS
  <2>2. j.got \in 1 .. MaxDocs /\ j.at \in S!Kinds
    BY <1>5, <2>1 DEF SyncConstants, S!JobEarned, S!JobFits
  <2> QED BY <2>1, <2>2 DEF S!JobEarned, RemoteGrows
<1>9. S!JobEarned(r)'
  <2>1. /\ j.pc = "create" => row'.tried[j.at]
        /\ j.pc = "advance" /\ j.at \in S!Documents => row'.id[j.at] # 0
    BY <1>2, <1>4, StepNames DEF S!JobEarned, S!JobFits
  <2>2. j.pc = "claim" \/ (j.pc \in S!Working /\ j.at # "edoc") =>
           \A k \in S!Documents : j.old[k].id # 0 => row'.id[k] # 0
    BY <1>2, StepNames DEF S!JobEarned
  <2>3. /\ row.id["shipment"] # 0 => row'.id["shipment"] # 0
        /\ row.id["invoice"] # 0 => row'.id["invoice"] # 0
    BY <1>2, StepNames
  <2> QED BY <1>3, <1>4, <1>7, <1>8, <2>1, <2>2, <2>3 DEF S!JobEarned
<1> QED BY <1>1, <1>9

\* Of two runs that work, one has outlived its lease.
LEMMA OneWorks ==
    ASSUME S!SyncInv, ~outrun, NEW r \in Runner, run[r].pc \notin {"idle", "claim"},
           NEW s \in Runner \ {r}
    PROVE  run[s].pc \in {"idle", "claim"}
  BY DEF S!SyncInv, S!JobAlone

LEMMA NobodyWorks ==
    ASSUME SyncConstants, S!SyncInv, ~outrun, NEW s \in Runner,
           ~S!Held \/ run[row.owner].pc \in {"idle", "claim"}
    PROVE  run[s].pc \in {"idle", "claim"}
  BY DEF S!SyncInv, S!JobAlone, S!Held, SyncConstants

\* Who does not work need not be alone.
LEMMA RestsAlone ==
    ASSUME NEW s \in Runner, run'[s].pc \in {"idle", "claim"}
    PROVE  S!JobAlone(s)'
  BY DEF S!JobAlone, S!Working

\* The invariant after a step of a run that asks nothing of the service.
LEMMA RunKeeps ==
    ASSUME SyncConstants, S!SyncInv, NEW r \in Runner,
           NEW m \in {S!Idle, [pc |-> "release"]} \union S!Job, run' = [run EXCEPT ![r] = m],
           UNCHANGED <<remote, poll>>, RowGrows, faults' \in 0 .. MaxFaults, outrun' \in BOOLEAN,
           S!JobFits(r)', S!JobEarned(r)',
           ~outrun' => ~outrun, ~outrun' => \A s \in Runner : S!JobAlone(s)'
    PROVE  S!SyncInv'
<1>1. S!TypeOK
  BY DEF S!SyncInv
<1>2. S!TypeOK'
  BY <1>1, Moved DEF S!TypeOK, RowGrows
<1>3. RemoteGrows /\ (S!EDocDone => S!EDocDone') /\ (S!EDocDone <=> S!EDocDone')
  BY DEF RemoteGrows, S!EDocDone
<1>4. \A s \in Runner : S!JobFits(s)' /\ S!JobEarned(s)'
  <2>1. ASSUME NEW s \in Runner \ {r} PROVE S!JobFits(s)' /\ S!JobEarned(s)'
    <3>1. run'[s] = run[s] /\ S!JobFits(s) /\ S!JobEarned(s)
      BY <1>1, Moved DEF S!SyncInv
    <3> QED BY <1>1, <1>3, <3>1, EarnedStays
  <2> QED BY <2>1
<1>5. \A k \in S!Kinds : row.id[k] # 0 => row'.id[k] # 0
  BY DEF RowGrows
<1>6. S!RowEarned'
  <2>1. S!RowEarned /\ poll' = poll /\ remote' = remote
    BY DEF S!SyncInv
  <2>2. /\ row'.id["invoice"] # 0 => row'.id["shipment"] # 0
        /\ row'.id["edoc"] # 0 => row'.id["invoice"] # 0
        /\ row'.edoc = "done" => S!EDocDone'
    BY <1>3 DEF RowGrows
  <2>3. poll' # S!Idle => row'.id["edoc"] # 0 /\ (poll'.seen = "done" => S!EDocDone')
    BY <1>3, <1>5, <2>1, StepNames DEF S!RowEarned
  <2> QED BY <2>1, <2>2, <2>3 DEF S!RowEarned
<1>7. S!RequestRemembered'
  BY DEF S!SyncInv, S!RequestRemembered, RowGrows
<1>8. S!DoneIsComplete'
  <2>1. \A k \in S!Kinds : row'.id[k] # 0 => remote'[k][row'.id[k]] \in S!Present
    BY DEF S!SyncInv, S!DoneIsComplete, RowGrows
  <2>2. row'.step = "done" => S!Complete' /\ S!EDocDone'
    BY <1>3 DEF RowGrows, S!Complete
  <2> QED BY <2>1, <2>2 DEF S!DoneIsComplete, S!Complete, S!EDocDone
<1>9. S!DuplicateNeedsStaleRun'
  BY DEF S!SyncInv, S!DuplicateNeedsStaleRun
<1> QED BY <1>2, <1>4, <1>6, <1>7, <1>8, <1>9 DEF S!SyncInv
-----------------------------------------------------------------------------
(* Each step keeps the invariant.                                          *)

\* A run that leaves the order's documents alone and works no more, or not yet.
LEMMA RestKeeps ==
    ASSUME SyncConstants, S!SyncInv, NEW r \in Runner,
           NEW m \in {S!Idle} \union S!Job, run' = [run EXCEPT ![r] = m], m.pc \in {"idle", "claim"},
           UNCHANGED <<remote, poll, outrun>>, RowGrows, faults' \in 0 .. MaxFaults,
           S!JobFits(r)', S!JobEarned(r)',
           ~outrun => \A s \in Runner \ {r} : run[s].pc \in {"idle", "claim"}
                         \/ (row'.owner = row.owner /\ row'.leased = row.leased
                               /\ row'.tried = row.tried)
    PROVE  S!SyncInv'
<1>1. S!TypeOK
  BY DEF S!SyncInv
<1>2. ASSUME ~outrun', NEW s \in Runner PROVE S!JobAlone(s)'
  <2>1. CASE s = r
    <3>1. run'[r] = m
      BY <1>1, Moved
    <3> QED BY <2>1, <3>1, RestsAlone
  <2>2. CASE s # r
    <3>1. run'[s] = run[s] /\ S!JobAlone(s) /\ ~outrun
      BY <1>1, <1>2, <2>2, Moved DEF S!SyncInv
    <3>2. CASE run[s].pc \in {"idle", "claim"}
      BY <3>1, <3>2, RestsAlone
    <3>3. CASE row'.owner = row.owner /\ row'.leased = row.leased /\ row'.tried = row.tried
      BY <3>1, <3>3 DEF S!JobAlone
    <3> QED BY <2>2, <3>1, <3>2, <3>3
  <2> QED BY <2>1, <2>2
<1>3. outrun' \in BOOLEAN
  BY <1>1 DEF S!TypeOK
<1> QED BY <1>2, <1>3, RunKeeps

\* A run that works goes on alone.
LEMMA WorkKeeps ==
    ASSUME SyncConstants, S!SyncInv, NEW r \in Runner,
           NEW m \in {[pc |-> "release"]} \union S!Job, run' = [run EXCEPT ![r] = m],
           run[r].pc \notin {"idle", "claim"},
           UNCHANGED <<remote, poll, outrun>>, RowGrows, faults' \in 0 .. MaxFaults,
           S!JobFits(r)', S!JobEarned(r)', ~outrun => S!JobAlone(r)'
    PROVE  S!SyncInv'
<1>1. S!TypeOK
  BY DEF S!SyncInv
<1>2. ASSUME ~outrun', NEW s \in Runner PROVE S!JobAlone(s)'
  <2>1. CASE s = r
    BY <1>2, <2>1
  <2>2. CASE s # r
    <3>1. run'[s] = run[s] /\ run[s].pc \in {"idle", "claim"}
      BY <1>1, <1>2, <2>2, Moved, OneWorks
    <3> QED BY <3>1, RestsAlone
  <2> QED BY <2>1, <2>2
<1>3. outrun' \in BOOLEAN
  BY <1>1 DEF S!TypeOK
<1> QED BY <1>2, <1>3, RunKeeps

LEMMA IdleFits ==
    ASSUME NEW r \in Runner, run'[r] \in {S!Idle, [pc |-> "release"]}
    PROVE  S!JobFits(r)' /\ S!JobEarned(r)'
  BY JobPc DEF S!JobFits, S!JobEarned, S!Working

LEMMA StartKeeps ==
    ASSUME SyncConstants, S!SyncInv, NEW r \in Runner, NEW mode \in Mode, S!Start(r, mode)
    PROVE  S!SyncInv'
<1>1. S!TypeOK /\ S!RowEarned /\ S!DoneIsComplete
  BY DEF S!SyncInv
<1>2. PICK m \in S!Job :
         /\ run' = [run EXCEPT ![r] = m]
         /\ m.pc = "claim" /\ m.mode = mode /\ m.old = S!Reading(S!Documents)
         /\ m.at = IF S!Single(mode) THEN mode ELSE row.step
  BY <1>1, StartStep
<1>3. UNCHANGED <<row, remote, poll, faults, outrun>> /\ S!MayStart(mode)
  BY <1>1, StartStep
<1>4. run'[r] = m
  BY <1>1, <1>2, Moved
<1>5. S!JobFits(r)'
  BY <1>1, <1>2, <1>4, ReadingType DEF S!JobFits, S!Working
<1>6. S!JobEarned(r)'
  <2>1. mode = "invoice" => row.id["shipment"] # 0
    BY <1>3 DEF S!MayStart, S!StepDeps
  <2>2. m.at = "done" => S!Complete
    <3>1. S!Single(mode) => mode \in S!Steps
      BY DEF S!Single, SyncConstants
    <3> QED BY <1>1, <1>2, <3>1, StepNames DEF S!DoneIsComplete, S!Complete
  <2>3. \A k \in S!Documents : m.old[k].id # 0 => row.id[k] # 0
    BY <1>1, <1>2, ReadingType
  <2> QED BY <1>2, <1>3, <1>4, <2>1, <2>2, <2>3 DEF S!JobEarned, S!Complete, S!Working
<1>7. faults' \in 0 .. MaxFaults /\ RowGrows
  BY <1>1, <1>3, RowSame DEF S!TypeOK
<1> QED BY <1>2, <1>3, <1>5, <1>6, <1>7, RestKeeps

LEMMA ClaimKeeps ==
    ASSUME SyncConstants, S!SyncInv, NEW r \in Runner, S!Claim(r)
    PROVE  S!SyncInv'
<1>1. S!TypeOK /\ S!RowEarned /\ S!JobFits(r) /\ S!JobEarned(r) /\ row \in S!Row
  BY DEF S!SyncInv, S!TypeOK
<1>2. UNCHANGED <<remote, poll, faults>> /\ run[r].pc = "claim" /\ faults' \in 0 .. MaxFaults
  BY <1>1, ClaimStep DEF S!TypeOK
<1>3. CASE row' = row /\ outrun' = outrun /\ run' = [run EXCEPT ![r] = S!Idle]
  <2>1. run'[r] = S!Idle
    BY <1>1, <1>3, Moved
  <2> QED BY <1>2, <1>3, <2>1, IdleFits, JobPc, RowSame, RestKeeps
<1>4. ASSUME row.step # "done", ~S!Held, row' = [row EXCEPT !.owner = r, !.leased = TRUE],
             outrun' = (outrun \/ \E k \in S!Documents : run[r].old[k].tried # row.tried[k]),
             NEW m \in S!Job, run' = [run EXCEPT ![r] = m],
             m.mode = run[r].mode, m.old = run[r].old,
             IF run[r].mode = "edoc" THEN m.pc = "refetch" /\ m.at = run[r].at
             ELSE /\ m.pc = "work"
                  /\ m.at = IF S!Single(run[r].mode) THEN run[r].at ELSE "contact"
      PROVE  S!SyncInv'
  <2>1. run'[r] = m
    BY <1>1, <1>4, Moved
  <2>2. /\ row' \in S!Row /\ row'.owner = r /\ row'.leased /\ row'.id = row.id
        /\ row'.tried = row.tried /\ row'.edoc = row.edoc /\ row'.step = row.step
    BY <1>1, <1>4 DEF S!Row
  <2>3. RowGrows
    BY <2>2, RowAlike
  <2>4. run[r].mode \in {"cron", "all"} \union S!Steps
    BY <1>2, <1>1, HasJob DEF S!Job, SyncConstants
  <2>5. /\ S!Single(run[r].mode) <=> run[r].mode \in S!Steps
        /\ m.at \in S!Steps /\ (S!Single(m.mode) => m.at = m.mode)
        /\ m.pc = "work" => m.at # "edoc"
        /\ m.pc = "refetch" => m.at = "edoc"
    BY <1>1, <1>2, <1>4, <2>4, StepNames DEF S!Single, S!JobFits
  <2>6. S!JobFits(r)'
    BY <1>1, <1>2, <1>4, <2>1, <2>5 DEF S!JobFits, S!Working
  <2>7. S!JobEarned(r)'
    <3>1. m.pc = "work" /\ m.at = "invoice" => m.mode = "invoice"
      BY <1>4, <2>5
    <3> QED BY <1>1, <1>2, <1>4, <2>1, <2>2, <2>5, <3>1 DEF S!JobEarned, S!Working
  <2>8. ASSUME ~outrun', NEW s \in Runner PROVE S!JobAlone(s)'
    <3>1. ~outrun /\ \A k \in S!Documents : run[r].old[k].tried = row.tried[k]
      BY <1>4, <2>8
    <3>2. CASE s = r
      BY <1>4, <2>1, <2>2, <2>5, <3>1, <3>2, StepNames DEF S!JobAlone, S!Working
    <3>3. CASE s # r
      <4>1. run'[s] = run[s] /\ run[s].pc \in {"idle", "claim"}
        BY <1>1, <1>4, <3>1, <3>3, Moved, NobodyWorks
      <4> QED BY <4>1, RestsAlone
    <3> QED BY <3>2, <3>3
  <2>9. outrun' \in BOOLEAN /\ (~outrun' => ~outrun)
    BY <1>1, <1>4 DEF S!TypeOK
  <2> QED BY <1>2, <1>4, <2>3, <2>6, <2>7, <2>8, <2>9, RunKeeps
<1> QED BY <1>1, <1>3, <1>4, ClaimStep

LEMMA ClaimFailsKeeps ==
    ASSUME SyncConstants, S!SyncInv, NEW r \in Runner, S!ClaimFails(r)
    PROVE  S!SyncInv'
<1>1. S!TypeOK /\ S!RowEarned /\ S!DoneIsComplete /\ S!JobEarned(r)
  BY DEF S!SyncInv
<1>2. /\ UNCHANGED <<remote, poll, outrun>> /\ run[r].pc = "claim"
      /\ faults' \in 0 .. MaxFaults /\ run' = [run EXCEPT ![r] = S!Idle]
  BY <1>1, ClaimFailsStep
<1>3. CASE row' = row
  <2>1. run'[r] = S!Idle
    BY <1>1, <1>2, Moved
  <2> QED BY <1>2, <1>3, <2>1, IdleFits, JobPc, RowSame, RestKeeps
<1>4. CASE row' \in S!Row /\ row'.step = run[r].at /\ row'.id = row.id
           /\ row'.tried = row.tried /\ row'.edoc = row.edoc
           /\ row'.owner = row.owner /\ row'.leased = row.leased
  <2>1. run'[r] = S!Idle
    BY <1>1, <1>2, Moved
  <2>2. row'.step = "done" => S!Complete'
    BY <1>1, <1>2, <1>4 DEF S!JobEarned, S!Complete
  <2>3. RowGrows
    BY <1>1, <1>4, <2>2 DEF RowGrows, S!RowEarned
  <2> QED BY <1>2, <1>4, <2>1, <2>3, IdleFits, JobPc, RestKeeps
<1> QED BY <1>1, <1>3, <1>4, ClaimFailsStep

\* What a run that works has of the invariant.
LEMMA WorksWith ==
    ASSUME SyncConstants, S!SyncInv, NEW r \in Runner, run[r].pc \notin {"idle", "claim"}
    PROVE  /\ S!TypeOK /\ S!RowEarned /\ S!DoneIsComplete /\ S!JobFits(r) /\ S!JobEarned(r)
           /\ ~outrun => S!JobAlone(r)
           /\ run[r].pc # "release" => run[r] \in S!Job /\ run[r].at \in S!Steps
           /\ run[r].pc # "release" /\ S!Single(run[r].mode) => run[r].at = run[r].mode
  BY HasJob DEF S!SyncInv, S!JobFits

LEMMA EnsureKeeps ==
    ASSUME SyncConstants, S!SyncInv, NEW r \in Runner, S!Ensure(r)
    PROVE  S!SyncInv'
<1>1. S!TypeOK
  BY DEF S!SyncInv
<1>2. /\ UNCHANGED <<remote, poll, faults, outrun>>
      /\ run[r].pc = "work" /\ run[r].at \in {"contact", "product"}
      /\ row' \in S!Row /\ row'.step = row.step /\ row'.id = row.id
      /\ row'.tried = row.tried /\ row'.edoc = row.edoc
      /\ row'.owner = row.owner /\ row'.leased = row.leased
  BY <1>1, EnsureStep
<1>3. PICK m \in S!Job :
         /\ run' = [run EXCEPT ![r] = m]
         /\ m.pc = "advance" /\ m.mode = run[r].mode /\ m.at = run[r].at /\ m.old = run[r].old
  BY <1>1, EnsureStep
<1>4. run'[r] = m /\ RowGrows
  BY <1>1, <1>2, <1>3, Moved, RowAlike
<1>5. /\ S!RowEarned /\ S!JobFits(r) /\ S!JobEarned(r) /\ (~outrun => S!JobAlone(r))
      /\ run[r].at \in S!Steps /\ (S!Single(run[r].mode) => run[r].at = run[r].mode)
  BY <1>2, WorksWith
<1>6. S!JobFits(r)'
  BY <1>2, <1>3, <1>4, <1>5 DEF S!JobFits, S!Working
<1>7. S!JobEarned(r)'
  BY <1>2, <1>3, <1>4, <1>5, StepNames DEF S!JobEarned, S!Working
<1>8. ~outrun => S!JobAlone(r)'
  BY <1>2, <1>3, <1>4, <1>5 DEF S!JobAlone, S!Working
<1>9. faults' \in 0 .. MaxFaults
  BY <1>1, <1>2 DEF S!TypeOK
<1> QED BY <1>2, <1>3, <1>4, <1>6, <1>7, <1>8, <1>9, WorkKeeps

LEMMA LookKeeps ==
    ASSUME SyncConstants, S!SyncInv, NEW r \in Runner, S!Look(r)
    PROVE  S!SyncInv'
<1>1. S!TypeOK
  BY DEF S!SyncInv
<1>2. /\ UNCHANGED <<row, remote, poll, faults, outrun>>
      /\ run[r].pc = "work" /\ run[r].at \in S!Documents
  BY <1>1, LookStep
<1>3. PICK m \in S!Job :
         /\ run' = [run EXCEPT ![r] = m]
         /\ m.mode = run[r].mode /\ m.at = run[r].at
         /\ \/ m.pc = "advance" /\ m.old = run[r].old /\ run[r].old[run[r].at].id # 0
            \/ /\ m.pc = "record" /\ m.old = run[r].old /\ m.got # 0
               /\ m.got \in 1 .. MaxDocs /\ remote[run[r].at][m.got] = "there"
            \/ m.pc = "patch" /\ m.kind = "validation"
            \/ m.pc = "mark" /\ m.old = run[r].old /\ ~run[r].old[run[r].at].tried
  BY <1>1, LookStep
<1>4. run'[r] = m /\ RowGrows
  BY <1>1, <1>2, <1>3, Moved, RowSame
<1>5. /\ S!RowEarned /\ S!JobFits(r) /\ S!JobEarned(r) /\ (~outrun => S!JobAlone(r))
      /\ run[r].at \in S!Steps /\ (S!Single(run[r].mode) => run[r].at = run[r].mode)
  BY <1>2, WorksWith
<1>6. S!JobFits(r)'
  BY <1>2, <1>3, <1>4, <1>5, StepNames DEF S!JobFits, S!Working
<1>7. S!JobEarned(r)'
  BY <1>2, <1>3, <1>4, <1>5, StepNames DEF S!JobEarned, S!Working, S!Present
<1>8. ~outrun => S!JobAlone(r)'
  BY <1>2, <1>3, <1>4, <1>5, StepNames DEF S!JobAlone, S!Working
<1>9. faults' \in 0 .. MaxFaults
  BY <1>1, <1>2 DEF S!TypeOK
<1> QED BY <1>2, <1>3, <1>4, <1>6, <1>7, <1>8, <1>9, WorkKeeps

LEMMA RefetchKeeps ==
    ASSUME SyncConstants, S!SyncInv, NEW r \in Runner, S!Refetch(r)
    PROVE  S!SyncInv'
<1>1. S!TypeOK
  BY DEF S!SyncInv
<1>2. UNCHANGED <<row, remote, poll, faults, outrun>> /\ run[r].pc = "refetch"
  BY <1>1, RefetchStep
<1>3. PICK m \in S!Job :
         /\ run' = [run EXCEPT ![r] = m]
         /\ m.pc = "work" /\ m.mode = run[r].mode /\ m.at = run[r].at
         /\ m.old = S!Reading(S!Refetched)
  BY <1>1, RefetchStep
<1>4. run'[r] = m /\ RowGrows
  BY <1>1, <1>2, <1>3, Moved, RowSame
<1>5. /\ S!RowEarned /\ S!JobFits(r) /\ S!JobEarned(r) /\ (~outrun => S!JobAlone(r))
      /\ run[r].at = "edoc" /\ (S!Single(run[r].mode) => run[r].at = run[r].mode)
  BY <1>2, WorksWith DEF S!JobFits
<1>6. S!JobFits(r)'
  BY <1>1, <1>3, <1>4, <1>5, ReadingType, StepNames DEF S!JobFits, S!Working
<1>7. S!JobEarned(r)'
  <2>1. row.id["edoc"] # 0 => remote["edoc"][row.id["edoc"]] \in S!Present
    BY StepNames DEF S!SyncInv, S!DoneIsComplete
  <2>2. /\ m.old["invoice"].id = row.id["invoice"] /\ m.old["edoc"].id = row.id["edoc"]
        /\ m.old["edoc"].done => row.edoc = "done"
    BY <1>1, <1>3, ReadingType, StepNames
  <2> QED BY <1>2, <1>3, <1>4, <1>5, <2>1, <2>2, StepNames DEF S!JobEarned, S!Working
<1>8. ~outrun => S!JobAlone(r)'
  <2>1. m.old["edoc"].tried = row.tried["edoc"]
    BY <1>1, <1>3, ReadingType, StepNames
  <2> QED BY <1>2, <1>3, <1>4, <1>5, <2>1 DEF S!JobAlone, S!Working
<1>9. faults' \in 0 .. MaxFaults
  BY <1>1, <1>2 DEF S!TypeOK
<1> QED BY <1>2, <1>3, <1>4, <1>6, <1>7, <1>8, <1>9, WorkKeeps

LEMMA LookEDocKeeps ==
    ASSUME SyncConstants, S!SyncInv, NEW r \in Runner, S!LookEDoc(r)
    PROVE  S!SyncInv'
<1>1. S!TypeOK
  BY DEF S!SyncInv
<1>2. /\ UNCHANGED <<row, remote, poll, faults, outrun>>
      /\ run[r].pc = "work" /\ run[r].at = "edoc"
  BY DEF S!LookEDoc
<1>3. /\ S!RowEarned /\ S!JobFits(r) /\ S!JobEarned(r) /\ (~outrun => S!JobAlone(r))
      /\ run[r].at \in S!Steps /\ (S!Single(run[r].mode) => run[r].at = run[r].mode)
  BY <1>2, WorksWith
<1>4. /\ run[r].old \in [S!Refetched -> S!Read]
      /\ run[r].old["edoc"].id # 0 =>
            remote["edoc"][run[r].old["edoc"].id] \in {"running", "done", "error"}
  <2>1. /\ run[r].old \in [S!Refetched -> S!Read]
        /\ run[r].old["edoc"].id # 0 => remote["edoc"][run[r].old["edoc"].id] \in S!Present
    BY <1>2, <1>3 DEF S!JobFits, S!JobEarned
  <2>2. run[r].old["edoc"].id \in 0 .. MaxDocs
    BY <2>1, StepNames DEF S!Read
  <2> QED BY <1>3, <2>1, <2>2 DEF S!Present, S!RowEarned, SyncConstants
<1>5. PICK m \in S!Job :
         /\ run' = [run EXCEPT ![r] = m]
         /\ m.mode = run[r].mode /\ m.at = run[r].at
         /\ \/ m.pc = "patch" /\ m.kind = "validation"
            \/ /\ run[r].old["invoice"].id # 0
               /\ \/ m.pc = "advance" /\ run[r].old["edoc"].done
                  \/ /\ m.pc = "status" /\ m.kind \in {"running", "done", "error"}
                     /\ m.kind = "done" => S!EDocDone
                  \/ m.pc = "mark" /\ ~run[r].old["edoc"].tried
  BY <1>1, <1>4, LookEDocStep
<1>6. run'[r] = m /\ RowGrows /\ (S!EDocDone <=> S!EDocDone')
  BY <1>1, <1>2, <1>5, Moved, RowSame DEF S!EDocDone
<1>7. S!JobFits(r)'
  BY <1>2, <1>3, <1>5, <1>6, StepNames DEF S!JobFits, S!Working
<1>8. S!JobEarned(r)'
  BY <1>2, <1>3, <1>5, <1>6, StepNames DEF S!JobEarned, S!Working
<1>9. ~outrun => S!JobAlone(r)'
  BY <1>2, <1>3, <1>5, <1>6, StepNames DEF S!JobAlone, S!Working
<1>10. faults' \in 0 .. MaxFaults
  BY <1>1, <1>2 DEF S!TypeOK
<1> QED BY <1>2, <1>5, <1>6, <1>7, <1>8, <1>9, <1>10, WorkKeeps

LEMMA WriteStatusKeeps ==
    ASSUME SyncConstants, S!SyncInv, NEW r \in Runner, S!WriteStatus(r)
    PROVE  S!SyncInv'
<1>1. run[r].pc = "status"
  BY DEF S!WriteStatus
<1>2. /\ S!TypeOK /\ S!RowEarned /\ S!DoneIsComplete /\ S!JobFits(r) /\ S!JobEarned(r)
      /\ (~outrun => S!JobAlone(r))
      /\ run[r].at = "edoc" /\ (S!Single(run[r].mode) => run[r].at = run[r].mode)
  BY <1>1, WorksWith DEF S!JobFits
<1>3. /\ UNCHANGED <<remote, poll, faults, outrun>>
      /\ row' \in S!Row /\ row'.step = row.step /\ row'.id = row.id /\ row'.tried = row.tried
      /\ row'.owner = row.owner /\ row'.leased = row.leased
      /\ row.edoc = "done" => row'.edoc = "done"
      /\ row'.edoc = "done" => row.edoc = "done" \/ run[r].kind = "done"
  BY <1>2, WriteStatusStep
<1>4. RowGrows
  BY <1>1, <1>2, <1>3 DEF RowGrows, S!RowEarned, S!DoneIsComplete, S!Complete, S!JobEarned
<1>5. faults' \in 0 .. MaxFaults
  BY <1>2, <1>3 DEF S!TypeOK
<1>6. CASE run' = [run EXCEPT ![r] = [pc |-> "release"]]
  <2>1. run'[r] = [pc |-> "release"]
    BY <1>2, <1>6, Moved
  <2>2. ~outrun => S!JobAlone(r)'
    BY <1>1, <1>2, <1>3, <2>1 DEF S!JobAlone, S!Working
  <2> QED BY <1>1, <1>3, <1>4, <1>5, <1>6, <2>1, <2>2, IdleFits, WorkKeeps
<1>7. ASSUME NEW m \in S!Job, run' = [run EXCEPT ![r] = m], m.mode = run[r].mode, m.at = run[r].at,
             \/ m.pc = "patch" /\ m.kind = "server"
             \/ m.pc = "advance" /\ row'.edoc = "done"
      PROVE  S!SyncInv'
  <2>1. run'[r] = m
    BY <1>2, <1>7, Moved
  <2>2. S!JobFits(r)'
    BY <1>2, <1>7, <2>1, StepNames DEF S!JobFits, S!Working
  <2>3. S!JobEarned(r)'
    BY <1>1, <1>2, <1>3, <1>7, <2>1, StepNames DEF S!JobEarned, S!Working
  <2>4. ~outrun => S!JobAlone(r)'
    BY <1>1, <1>2, <1>3, <1>7, <2>1 DEF S!JobAlone, S!Working
  <2> QED BY <1>1, <1>3, <1>4, <1>5, <1>7, <2>2, <2>3, <2>4, WorkKeeps
<1> QED BY <1>2, <1>6, <1>7, WriteStatusStep

LEMMA MarkKeeps ==
    ASSUME SyncConstants, S!SyncInv, NEW r \in Runner, S!Mark(r)
    PROVE  S!SyncInv'
<1>1. run[r].pc = "mark"
  BY DEF S!Mark
<1>2. /\ S!TypeOK /\ S!RowEarned /\ S!DoneIsComplete /\ S!JobFits(r) /\ S!JobEarned(r)
      /\ (~outrun => S!JobAlone(r))
      /\ run[r].at \in S!Kinds /\ (S!Single(run[r].mode) => run[r].at = run[r].mode)
  BY <1>1, WorksWith DEF S!JobFits
<1>3. /\ UNCHANGED <<remote, poll, faults, outrun>>
      /\ row' \in S!Row /\ row'.step = row.step /\ row'.id = row.id /\ row'.edoc = row.edoc
      /\ row'.tried[run[r].at]
      /\ \A k \in S!Kinds \ {run[r].at} : row'.tried[k] = row.tried[k]
      /\ row'.owner = row.owner /\ row'.leased = row.leased
  BY <1>2, MarkStep
<1>4. PICK m \in S!Job :
         /\ run' = [run EXCEPT ![r] = m]
         /\ m.pc = "create" /\ m.mode = run[r].mode /\ m.at = run[r].at /\ m.old = run[r].old
  BY <1>2, MarkStep
<1>5. run'[r] = m
  BY <1>2, <1>4, Moved
<1>6. RowGrows
  BY <1>2, <1>3 DEF RowGrows, S!RowEarned, S!DoneIsComplete, S!Complete
<1>7. S!JobFits(r)'
  BY <1>1, <1>2, <1>4, <1>5, StepNames DEF S!JobFits, S!Working
<1>8. S!JobEarned(r)'
  BY <1>1, <1>2, <1>3, <1>4, <1>5, StepNames DEF S!JobEarned, S!Working
<1>9. ASSUME ~outrun PROVE S!JobAlone(r)'
  <2>1. \A i \in 1 .. MaxDocs : remote[run[r].at][i] = "none"
    BY <1>1, <1>2, <1>9 DEF S!JobAlone, S!SyncInv, S!RequestRemembered
  <2>2. run[r].at # "invoice" => row'.tried["invoice"] = row.tried["invoice"]
    BY <1>3, StepNames
  <2>3. run[r].at \notin {"contact", "product"}
    BY <1>2, StepNames
  <2> QED BY <1>1, <1>2, <1>3, <1>4, <1>5, <1>9, <2>1, <2>2, <2>3 DEF S!JobAlone, S!Working
<1>10. faults' \in 0 .. MaxFaults
  BY <1>2, <1>3 DEF S!TypeOK
<1> QED BY <1>1, <1>3, <1>4, <1>6, <1>7, <1>8, <1>9, <1>10, WorkKeeps

\* A request: the marker is there, and while nobody has outlived his lease there is
\* no other document of the kind.
LEMMA DocumentKeeps ==
    ASSUME SyncConstants, S!SyncInv, NEW r \in Runner, S!Create(r)
    PROVE  S!SyncInv'
<1>1. run[r].pc = "create"
  BY DEF S!Create
<1>2. /\ S!TypeOK /\ S!RowEarned /\ S!DoneIsComplete /\ S!JobFits(r) /\ S!JobEarned(r)
      /\ (~outrun => S!JobAlone(r))
      /\ run[r].at \in S!Kinds /\ (S!Single(run[r].mode) => run[r].at = run[r].mode)
      /\ S!RequestRemembered /\ S!DuplicateNeedsStaleRun
  BY <1>1, WorksWith DEF S!JobFits, S!SyncInv
<1>3. UNCHANGED <<row, poll, outrun>> /\ faults' \in 0 .. MaxFaults
  BY <1>2, CreateStep
<1> DEFINE k == run[r].at
<1>4. PICK i \in 1 .. MaxDocs, s \in {S!Landed(k), "wire"}, m \in S!Job :
         /\ remote[k][i] = "none"
         /\ remote' = [remote EXCEPT ![k][i] = s]
         /\ run' = [run EXCEPT ![r] = m]
         /\ m.mode = run[r].mode /\ m.at = k
         /\ \/ m.pc = "patch" /\ m.kind = "server"
            \/ /\ m.pc = "record" /\ m.old = run[r].old /\ m.got = i
               /\ s = S!Landed(k)
  BY <1>2, CreateStep
<1>5. PICK kind \in S!Kinds : kind = run[r].at
  BY <1>2
<1>6. /\ remote' \in [S!Kinds -> [1 .. MaxDocs -> S!Present \union {"none", "wire", "dropped"}]]
      /\ remote'[kind][i] = s
      /\ \A l \in S!Kinds, j \in 1 .. MaxDocs :
            (l # kind \/ j # i) => remote'[l][j] = remote[l][j]
      /\ s = (IF kind = "edoc" THEN "running" ELSE "there") \/ s = "wire"
  BY <1>2, <1>4, <1>5 DEF S!TypeOK, S!Landed, S!Present
<1>7. run'[r] = m /\ S!TypeOK'
  BY <1>2, <1>3, <1>4, <1>6, Moved DEF S!TypeOK
<1>8. RowGrows
  BY <1>3, RowSame
<1>9. RemoteGrows /\ (S!EDocDone => S!EDocDone')
  <2>1. remote[kind][i] = "none"
    BY <1>4, <1>5
  <2>2. RemoteGrows
    BY <1>6, <2>1 DEF RemoteGrows, S!Present
  <2>3. S!EDocDone => S!EDocDone'
    BY <1>6, <2>1, StepNames DEF S!EDocDone
  <2> QED BY <2>2, <2>3
<1>10. S!JobFits(r)'
  BY <1>2, <1>4, <1>7, <1>1, StepNames DEF S!JobFits, S!Working
<1>11. S!JobEarned(r)'
  <2>1. m.pc = "record" => m.got # 0 /\ remote'[m.at][m.got] \in S!Present
    BY <1>4, <1>5, <1>6 DEF SyncConstants, S!Landed, S!Present
  <2> QED BY <1>1, <1>2, <1>3, <1>4, <1>7, <2>1, StepNames DEF S!JobEarned, S!Working
<1>12. \A t \in Runner : S!JobFits(t)' /\ S!JobEarned(t)'
  <2>1. ASSUME NEW t \in Runner \ {r} PROVE S!JobFits(t)' /\ S!JobEarned(t)'
    <3>1. run'[t] = run[t] /\ S!JobFits(t) /\ S!JobEarned(t)
      BY <1>2, <1>4, Moved DEF S!SyncInv
    <3> QED BY <1>2, <1>8, <1>9, <3>1, EarnedStays
  <2> QED BY <1>10, <1>11, <2>1
<1>13. S!RowEarned'
  <2>1. /\ \A l \in S!Kinds, j \in 1 .. MaxDocs :
              l = "edoc" \/ remote'[l][j] \notin {"running", "done", "error"}
        /\ \A j \in 1 .. MaxDocs : remote'["edoc"][j] # "there"
    <3>1. ASSUME NEW l \in S!Kinds, NEW j \in 1 .. MaxDocs
          PROVE  /\ l = "edoc" \/ remote'[l][j] \notin {"running", "done", "error"}
                 /\ l = "edoc" => remote'[l][j] # "there"
      BY <1>2, <1>6 DEF S!RowEarned
    <3> QED BY <3>1, StepNames
  <2> QED BY <1>2, <1>3, <1>9, <2>1 DEF S!RowEarned
<1>14. S!RequestRemembered'
  BY <1>1, <1>2, <1>3, <1>5, <1>6 DEF S!RequestRemembered, S!JobEarned
<1>15. S!DoneIsComplete'
  <2>1. \A l \in S!Kinds : row.id[l] # 0 => remote'[l][row.id[l]] \in S!Present
    <3>1. \A l \in S!Kinds : row.id[l] \in 0 .. MaxDocs
      BY <1>2 DEF S!TypeOK, S!Row
    <3> QED BY <1>2, <1>9, <3>1 DEF S!DoneIsComplete, RemoteGrows, SyncConstants
  <2> QED BY <1>2, <1>3, <1>9, <2>1 DEF S!DoneIsComplete, S!EDocDone
<1>16. ASSUME ~outrun PROVE \A t \in Runner : S!JobAlone(t)'
  <2>1. S!JobAlone(r)'
    BY <1>1, <1>2, <1>3, <1>4, <1>7, <1>16, StepNames DEF S!JobAlone, S!Working
  <2>2. ASSUME NEW t \in Runner \ {r} PROVE S!JobAlone(t)'
    <3>1. run'[t] = run[t] /\ run[t].pc \in {"idle", "claim"}
      BY <1>1, <1>2, <1>4, <1>16, Moved, OneWorks
    <3> QED BY <3>1, RestsAlone
  <2> QED BY <2>1, <2>2
<1>17. S!DuplicateNeedsStaleRun'
  <2>1. SUFFICES ASSUME ~outrun, NEW l \in S!Kinds, NEW a \in 1 .. MaxDocs, NEW b \in 1 .. MaxDocs,
                        remote'[l][a] # "none", remote'[l][b] # "none"
                 PROVE  a = b
    BY <1>3 DEF S!DuplicateNeedsStaleRun
  <2>2. \A j \in 1 .. MaxDocs : remote[kind][j] = "none"
    BY <1>1, <1>2, <1>5, <2>1 DEF S!JobAlone
  <2>3. CASE l = kind
    BY <1>6, <2>1, <2>2, <2>3
  <2>4. CASE l # kind
    BY <1>2, <1>6, <2>1, <2>4 DEF S!DuplicateNeedsStaleRun
  <2> QED BY <2>3, <2>4
<1> QED BY <1>3, <1>7, <1>12, <1>13, <1>14, <1>15, <1>16, <1>17 DEF S!SyncInv

LEMMA RecordKeeps ==
    ASSUME SyncConstants, S!SyncInv, NEW r \in Runner, S!Record(r)
    PROVE  S!SyncInv'
<1>1. run[r].pc = "record"
  BY DEF S!Record
<1>2. /\ S!TypeOK /\ S!RowEarned /\ S!DoneIsComplete /\ S!JobFits(r) /\ S!JobEarned(r)
      /\ (~outrun => S!JobAlone(r))
      /\ run[r].at \in S!Kinds /\ (S!Single(run[r].mode) => run[r].at = run[r].mode)
  BY <1>1, WorksWith DEF S!JobFits
<1>3. /\ UNCHANGED <<remote, poll, faults, outrun>>
      /\ row' \in S!Row /\ row'.step = row.step /\ row'.tried = row.tried
      /\ row'.owner = row.owner /\ row'.leased = row.leased
      /\ row'.edoc = "done" <=> row.edoc = "done"
      /\ \A k \in S!Kinds \ {run[r].at} : row'.id[k] = row.id[k]
      /\ row'.id[run[r].at] \in {run[r].got, row.id[run[r].at]}
  BY <1>2, RecordStep
<1>4. faults' \in 0 .. MaxFaults
  BY <1>2, <1>3 DEF S!TypeOK
<1>5. run[r].got # 0 /\ remote[run[r].at][run[r].got] \in S!Present
  BY <1>1, <1>2 DEF S!JobEarned
<1>6. /\ \A k \in S!Kinds : \/ row'.id[k] = row.id[k]
                            \/ row'.id[k] # 0 /\ remote[k][row'.id[k]] \in S!Present
      /\ \A k \in S!Kinds : row.id[k] # 0 => row'.id[k] # 0
  BY <1>2, <1>3, <1>5
<1>7. /\ run[r].at = "invoice" => row.id["shipment"] # 0
      /\ run[r].at = "edoc" => row.id["invoice"] # 0
  BY <1>1, <1>2 DEF S!JobEarned, S!Working
<1>8. /\ row'.id["invoice"] # 0 => row'.id["shipment"] # 0
      /\ row'.id["edoc"] # 0 => row'.id["invoice"] # 0
  BY <1>2, <1>3, <1>6, <1>7, StepNames DEF S!RowEarned
<1>9. row.step = "done" => S!Complete'
  BY <1>2, <1>3, <1>6, StepNames DEF S!DoneIsComplete, S!Complete
<1>10. RowGrows
  BY <1>2, <1>3, <1>6, <1>8, <1>9 DEF RowGrows, S!RowEarned
<1>11. CASE run' = [run EXCEPT ![r] = [pc |-> "release"]]
  <2>1. run'[r] = [pc |-> "release"]
    BY <1>2, <1>11, Moved
  <2>2. ~outrun => S!JobAlone(r)'
    BY <1>1, <1>2, <1>3, <2>1 DEF S!JobAlone, S!Working
  <2> QED BY <1>1, <1>3, <1>4, <1>10, <1>11, <2>1, <2>2, IdleFits, WorkKeeps
<1>12. ASSUME run[r].at \in S!Documents, row'.id[run[r].at] = run[r].got,
              NEW m \in S!Job, run' = [run EXCEPT ![r] = m],
              m.pc = "advance", m.mode = run[r].mode, m.at = run[r].at, m.old = run[r].old
       PROVE  S!SyncInv'
  <2>1. run'[r] = m
    BY <1>2, <1>12, Moved
  <2>2. S!JobFits(r)'
    BY <1>1, <1>2, <1>12, <2>1, StepNames DEF S!JobFits, S!Working
  <2>3. S!JobEarned(r)'
    <3>1. \A k \in S!Documents : m.old[k].id # 0 => row'.id[k] # 0
      BY <1>1, <1>2, <1>6, <1>12, StepNames DEF S!JobEarned, S!Working
    <3>2. m.at = "invoice" \/ m.mode = "invoice" => row'.id["shipment"] # 0
      BY <1>1, <1>2, <1>6, <1>7, <1>12, StepNames DEF S!JobEarned
    <3> QED BY <1>5, <1>12, <2>1, <3>1, <3>2, StepNames DEF S!JobEarned, S!Working
  <2>4. ~outrun => S!JobAlone(r)'
    BY <1>1, <1>2, <1>3, <1>12, <2>1, StepNames DEF S!JobAlone, S!Working
  <2> QED BY <1>1, <1>3, <1>4, <1>10, <1>12, <2>2, <2>3, <2>4, WorkKeeps
<1> QED BY <1>2, <1>11, <1>12, RecordStep

LEMMA AdvanceKeeps ==
    ASSUME SyncConstants, S!SyncInv, NEW r \in Runner, S!Advance(r)
    PROVE  S!SyncInv'
<1>1. run[r].pc = "advance"
  BY DEF S!Advance
<1>2. /\ S!TypeOK /\ S!RowEarned /\ S!DoneIsComplete /\ S!JobFits(r) /\ S!JobEarned(r)
      /\ (~outrun => S!JobAlone(r))
      /\ run[r].at \in S!Steps /\ (S!Single(run[r].mode) => run[r].at = run[r].mode)
  BY <1>1, WorksWith
<1>3. /\ UNCHANGED <<remote, poll, faults, outrun>>
      /\ row' \in S!Row /\ row'.id = row.id /\ row'.tried = row.tried
      /\ row'.edoc = row.edoc /\ row'.owner = row.owner /\ row'.leased = row.leased
      /\ row'.step = S!NextStep(run[r].at)
  BY <1>2, AdvanceStep
<1>4. faults' \in 0 .. MaxFaults
  BY <1>2, <1>3 DEF S!TypeOK
<1>5. row'.step = "done" => S!Complete'
  <2>1. SUFFICES ASSUME run[r].at = "edoc" PROVE S!Complete'
    BY <1>2, <1>3, StepOrder, StepNames
  <2>2. row.edoc = "done" /\ row.id["invoice"] # 0 /\ row.id["shipment"] # 0
    BY <1>1, <1>2, <2>1 DEF S!JobEarned, S!RowEarned
  <2> QED BY <1>3, <2>2, StepNames DEF S!Complete
<1>6. RowGrows
  BY <1>2, <1>3, <1>5 DEF RowGrows, S!RowEarned
<1>7. CASE run' = [run EXCEPT ![r] = [pc |-> "release"]]
  <2>1. run'[r] = [pc |-> "release"]
    BY <1>2, <1>7, Moved
  <2>2. ~outrun => S!JobAlone(r)'
    BY <1>1, <1>2, <1>3, <2>1 DEF S!JobAlone, S!Working
  <2> QED BY <1>1, <1>3, <1>4, <1>6, <1>7, <2>1, <2>2, IdleFits, WorkKeeps
<1>8. ASSUME ~S!Single(run[r].mode), run[r].at # "edoc", NEW m \in S!Job, run' = [run EXCEPT ![r] = m],
             m.mode = run[r].mode, m.old = run[r].old, m.at = S!NextStep(run[r].at),
             m.pc = IF run[r].at = "invoice" THEN "refetch" ELSE "work"
      PROVE  S!SyncInv'
  <2>1. run'[r] = m
    BY <1>2, <1>8, Moved
  <2>2. \/ run[r].at = "contact" /\ m.at = "product" /\ m.pc = "work"
        \/ run[r].at = "product" /\ m.at = "shipment" /\ m.pc = "work"
        \/ run[r].at = "shipment" /\ m.at = "invoice" /\ m.pc = "work"
        \/ run[r].at = "invoice" /\ m.at = "edoc" /\ m.pc = "refetch"
    BY <1>2, <1>8, StepOrder, StepNames
  <2>3. S!JobFits(r)'
    BY <1>1, <1>2, <1>8, <2>1, <2>2, StepNames DEF S!JobFits, S!Working
  <2>4. S!JobEarned(r)'
    BY <1>1, <1>2, <1>3, <1>8, <2>1, <2>2, StepNames DEF S!JobEarned, S!Working, S!Single
  <2>5. ~outrun => S!JobAlone(r)'
    BY <1>1, <1>2, <1>3, <1>8, <2>1, <2>2, StepNames DEF S!JobAlone, S!Working
  <2> QED BY <1>1, <1>3, <1>4, <1>6, <1>8, <2>3, <2>4, <2>5, WorkKeeps
<1> QED BY <1>2, <1>7, <1>8, AdvanceStep

LEMMA CallFailsKeeps ==
    ASSUME SyncConstants, S!SyncInv, NEW r \in Runner, S!CallFails(r)
    PROVE  S!SyncInv'
<1>1. S!TypeOK
  BY DEF S!SyncInv
<1>2. /\ UNCHANGED <<row, remote, poll, outrun>>
      /\ run[r].pc \notin {"idle", "claim", "release"} /\ faults' \in 0 .. MaxFaults
  BY <1>1, CallFailsStep
<1>3. PICK m \in S!Job :
         /\ run' = [run EXCEPT ![r] = m]
         /\ m.pc = "patch" /\ m.mode = run[r].mode /\ m.at = run[r].at
         /\ m.kind \in {"server", "rate_limit", "validation"}
  BY <1>1, CallFailsStep
<1>4. run'[r] = m /\ RowGrows
  BY <1>1, <1>2, <1>3, Moved, RowSame
<1>5. /\ S!JobEarned(r) /\ (~outrun => S!JobAlone(r))
      /\ run[r].at \in S!Steps /\ (S!Single(run[r].mode) => run[r].at = run[r].mode)
  BY <1>2, WorksWith
<1>6. S!JobFits(r)'
  BY <1>3, <1>4, <1>5 DEF S!JobFits, S!Working
<1>7. S!JobEarned(r)'
  BY <1>2, <1>3, <1>4, <1>5 DEF S!JobEarned, S!Working
<1>8. ~outrun => S!JobAlone(r)'
  BY <1>2, <1>3, <1>4, <1>5 DEF S!JobAlone, S!Working
<1> QED BY <1>2, <1>3, <1>4, <1>6, <1>7, <1>8, WorkKeeps

LEMMA PatchKeeps ==
    ASSUME SyncConstants, S!SyncInv, NEW r \in Runner, S!Patch(r)
    PROVE  S!SyncInv'
<1>1. run[r].pc = "patch"
  BY DEF S!Patch
<1>2. S!TypeOK /\ S!JobFits(r) /\ (~outrun => S!JobAlone(r))
  BY <1>1, WorksWith
<1>3. /\ UNCHANGED <<remote, poll, outrun>>
      /\ run[r].at \in S!Steps /\ faults' \in 0 .. MaxFaults
      /\ row' \in S!Row /\ row'.id = row.id /\ row'.tried = row.tried
      /\ row'.edoc = row.edoc /\ row'.owner = row.owner /\ row'.leased = row.leased
      /\ row'.step \in {row.step, run[r].at}
      /\ run' = [run EXCEPT ![r] = [pc |-> "release"]]
  BY <1>2, PatchStep
<1>4. run'[r] = [pc |-> "release"] /\ RowGrows
  BY <1>2, <1>3, Moved, RowAlike
<1>5. ~outrun => S!JobAlone(r)'
  BY <1>1, <1>2, <1>3, <1>4 DEF S!JobAlone, S!Working
<1> QED BY <1>1, <1>3, <1>4, <1>5, IdleFits, WorkKeeps

LEMMA ReleaseKeeps ==
    ASSUME SyncConstants, S!SyncInv, NEW r \in Runner, S!Release(r)
    PROVE  S!SyncInv'
<1>1. S!TypeOK
  BY DEF S!SyncInv
<1>2. /\ UNCHANGED <<remote, poll, outrun>> /\ run[r].pc = "release"
      /\ faults' \in 0 .. MaxFaults
      /\ row' \in S!Row /\ row'.id = row.id /\ row'.tried = row.tried
      /\ row'.edoc = row.edoc /\ row'.step = row.step
      /\ run' = [run EXCEPT ![r] = S!Idle]
  BY <1>1, ReleaseStep
<1>3. run'[r] = S!Idle /\ RowGrows
  BY <1>1, <1>2, Moved, RowAlike
<1>4. ~outrun => \A s \in Runner \ {r} : run[s].pc \in {"idle", "claim"}
  BY <1>2, OneWorks
<1> QED BY <1>2, <1>3, <1>4, JobPc, IdleFits, RestKeeps

LEMMA CrashKeeps ==
    ASSUME SyncConstants, S!SyncInv, NEW r \in Runner, S!Crash(r)
    PROVE  S!SyncInv'
<1>1. S!TypeOK
  BY DEF S!SyncInv
<1>2. UNCHANGED <<row, remote, poll, outrun>> /\ faults' \in 0 .. MaxFaults
      /\ run' = [run EXCEPT ![r] = S!Idle]
  BY <1>1, CrashStep
<1>3. run'[r] = S!Idle /\ RowGrows
  BY <1>1, <1>2, Moved, RowSame
<1> QED BY <1>2, <1>3, JobPc, IdleFits, RestKeeps

\* A step of nobody's run.
LEMMA NobodyMoves ==
    ASSUME SyncConstants, S!SyncInv, run' = run, row' \in S!Row, RowGrows, RemoteGrows,
           S!EDocDone => S!EDocDone'
    PROVE  \A s \in Runner : S!JobFits(s)' /\ S!JobEarned(s)'
  BY EarnedStays DEF S!SyncInv

\* Five minutes pass.
LEMMA ExpireKeeps ==
    ASSUME SyncConstants, S!SyncInv, S!Expire
    PROVE  S!SyncInv'
<1>1. S!TypeOK /\ S!RowEarned /\ S!DoneIsComplete /\ S!RequestRemembered /\ S!DuplicateNeedsStaleRun
  BY DEF S!SyncInv
<1>2. /\ UNCHANGED <<remote, run, poll>> /\ faults' \in 0 .. MaxFaults /\ outrun' \in BOOLEAN
      /\ row' \in S!Row /\ row'.id = row.id /\ row'.tried = row.tried
      /\ row'.edoc = row.edoc /\ row'.step = row.step
      /\ ~outrun' => ~outrun /\ run[row.owner].pc \in {"idle", "claim"}
  BY <1>1, ExpireStep
<1>3. RowGrows /\ RemoteGrows /\ (S!EDocDone <=> S!EDocDone')
  BY <1>2, RowAlike DEF RemoteGrows, S!EDocDone
<1>4. S!TypeOK'
  BY <1>1, <1>2 DEF S!TypeOK
<1>5. \A s \in Runner : S!JobFits(s)' /\ S!JobEarned(s)'
  BY <1>2, <1>3, NobodyMoves
<1>6. S!RowEarned' /\ S!RequestRemembered' /\ S!DoneIsComplete'
  BY <1>1, <1>2, <1>3 DEF S!RowEarned, S!RequestRemembered, S!DoneIsComplete, S!EDocDone
<1>7. ASSUME ~outrun', NEW s \in Runner PROVE S!JobAlone(s)'
  <2>1. run'[s].pc \in {"idle", "claim"}
    BY <1>2, <1>7, NobodyWorks
  <2> QED BY <2>1, RestsAlone
<1>8. S!DuplicateNeedsStaleRun'
  BY <1>1, <1>2 DEF S!DuplicateNeedsStaleRun
<1> QED BY <1>4, <1>5, <1>6, <1>7, <1>8 DEF S!SyncInv

LEMMA PollLookKeeps ==
    ASSUME SyncConstants, S!SyncInv, S!PollLook
    PROVE  S!SyncInv'
<1>1. S!TypeOK /\ S!RowEarned /\ S!DoneIsComplete /\ S!RequestRemembered /\ S!DuplicateNeedsStaleRun
  BY DEF S!SyncInv
<1>2. /\ UNCHANGED <<row, remote, run, faults, outrun>> /\ row.id["edoc"] # 0
      /\ poll' \in [pc : {"write"}, job : 1 .. MaxDocs, seen : {"done", "error"}]
      /\ poll'.seen = "done" => S!EDocDone
  BY <1>1, PollLookStep
<1>3. RowGrows /\ RemoteGrows /\ (S!EDocDone <=> S!EDocDone')
  BY <1>2, RowSame DEF RemoteGrows, S!EDocDone
<1>4. S!TypeOK'
  BY <1>1, <1>2 DEF S!TypeOK
<1>5. \A s \in Runner : S!JobFits(s)' /\ S!JobEarned(s)'
  BY <1>2, <1>3, NobodyMoves DEF RowGrows
<1>6. S!RowEarned' /\ S!RequestRemembered' /\ S!DoneIsComplete' /\ S!DuplicateNeedsStaleRun'
  <2>1. S!RowEarned'
    BY <1>1, <1>2, <1>3 DEF S!RowEarned
  <2> QED BY <1>1, <1>2, <2>1 DEF S!RequestRemembered, S!DoneIsComplete, S!DuplicateNeedsStaleRun
<1>7. ~outrun' => \A s \in Runner : S!JobAlone(s)'
  BY <1>2 DEF S!SyncInv, S!JobAlone
<1> QED BY <1>4, <1>5, <1>6, <1>7 DEF S!SyncInv

LEMMA PollWriteKeeps ==
    ASSUME SyncConstants, S!SyncInv, S!PollWrite
    PROVE  S!SyncInv'
<1>1. S!TypeOK /\ S!RowEarned /\ S!DoneIsComplete /\ S!RequestRemembered /\ S!DuplicateNeedsStaleRun
  BY DEF S!SyncInv
<1>2. /\ UNCHANGED <<remote, run, outrun>> /\ faults' \in 0 .. MaxFaults
      /\ poll # S!Idle /\ poll' = S!Idle
      /\ row' \in S!Row /\ row'.id = row.id /\ row'.tried = row.tried
      /\ row'.owner = row.owner /\ row'.leased = row.leased
      /\ row.edoc = "done" => row'.edoc = "done"
      /\ row'.edoc = "done" => row.edoc = "done" \/ poll.seen = "done"
      /\ row'.step = row.step \/ (row'.step = "done" /\ row'.edoc = "done")
  BY <1>1, PollWriteStep
<1>3. row'.step = "done" => S!Complete'
  BY <1>1, <1>2, StepNames DEF S!RowEarned, S!DoneIsComplete, S!Complete
<1>4. RowGrows
  BY <1>1, <1>2, <1>3 DEF RowGrows, S!RowEarned
<1>5. RemoteGrows /\ (S!EDocDone <=> S!EDocDone')
  BY <1>2 DEF RemoteGrows, S!EDocDone
<1>6. S!TypeOK'
  BY <1>1, <1>2 DEF S!TypeOK
<1>7. \A s \in Runner : S!JobFits(s)' /\ S!JobEarned(s)'
  BY <1>2, <1>4, <1>5, NobodyMoves
<1>8. S!RowEarned'
  BY <1>1, <1>2, <1>4, <1>5 DEF S!RowEarned, RowGrows
<1>9. S!RequestRemembered' /\ S!DuplicateNeedsStaleRun'
  BY <1>1, <1>2 DEF S!RequestRemembered, S!DuplicateNeedsStaleRun
<1>10. S!DoneIsComplete'
  BY <1>1, <1>2, <1>3, <1>5, <1>8 DEF S!DoneIsComplete, S!Complete, S!RowEarned, S!EDocDone
<1>11. ~outrun' => \A s \in Runner : S!JobAlone(s)'
  BY <1>2 DEF S!SyncInv, S!JobAlone
<1> QED BY <1>6, <1>7, <1>8, <1>9, <1>10, <1>11 DEF S!SyncInv

\* A request that was under way lands, or a job ends.
LEMMA ServiceKeeps ==
    ASSUME SyncConstants, S!SyncInv, S!Land \/ S!JobEnds
    PROVE  S!SyncInv'
<1>1. S!TypeOK /\ S!RowEarned /\ S!DoneIsComplete /\ S!RequestRemembered /\ S!DuplicateNeedsStaleRun
  BY DEF S!SyncInv
<1>2. UNCHANGED <<row, run, poll, faults, outrun>>
  BY <1>1, ServiceStep
<1>3. PICK k \in S!Kinds, i \in 1 .. MaxDocs, s \in S!Present \union {"dropped"} :
         /\ remote' = [remote EXCEPT ![k][i] = s]
         /\ \/ remote[k][i] = "wire" /\ s \in {S!Landed(k), "dropped"}
            \/ k = "edoc" /\ remote[k][i] = "running" /\ s \in {"done", "error"}
  BY <1>1, ServiceStep
<1>4. /\ remote' \in [S!Kinds -> [1 .. MaxDocs -> S!Present \union {"none", "wire", "dropped"}]]
      /\ remote'[k][i] = s
      /\ \A l \in S!Kinds, j \in 1 .. MaxDocs :
            (l # k \/ j # i) => remote'[l][j] = remote[l][j]
  BY <1>1, <1>3 DEF S!TypeOK
<1>5. RowGrows
  BY <1>2, RowSame
<1>6. RemoteGrows /\ (S!EDocDone => S!EDocDone')
  <2>1. RemoteGrows
    BY <1>3, <1>4 DEF RemoteGrows, S!Present
  <2>2. S!EDocDone => S!EDocDone'
    BY <1>3, <1>4, StepNames DEF S!EDocDone
  <2> QED BY <2>1, <2>2
<1>7. \A l \in S!Kinds, j \in 1 .. MaxDocs : remote'[l][j] = "none" <=> remote[l][j] = "none"
  BY <1>3, <1>4 DEF S!Present
<1>8. S!TypeOK'
  BY <1>1, <1>2, <1>4 DEF S!TypeOK
<1>9. \A t \in Runner : S!JobFits(t)' /\ S!JobEarned(t)'
  BY <1>2, <1>5, <1>6, NobodyMoves DEF RowGrows
<1>10. S!RowEarned'
  <2>1. ASSUME NEW l \in S!Kinds, NEW j \in 1 .. MaxDocs
        PROVE  /\ l = "edoc" \/ remote'[l][j] \notin {"running", "done", "error"}
               /\ l = "edoc" => remote'[l][j] # "there"
    BY <1>1, <1>3, <1>4 DEF S!RowEarned, S!Landed
  <2> QED BY <1>1, <1>2, <1>6, <2>1, StepNames DEF S!RowEarned
<1>11. S!RequestRemembered' /\ S!DuplicateNeedsStaleRun'
  BY <1>1, <1>2, <1>7 DEF S!RequestRemembered, S!DuplicateNeedsStaleRun
<1>12. S!DoneIsComplete'
  <2>1. \A l \in S!Kinds : row.id[l] # 0 => remote'[l][row.id[l]] \in S!Present
    <3>1. \A l \in S!Kinds : row.id[l] \in 0 .. MaxDocs
      BY <1>1 DEF S!TypeOK, S!Row
    <3> QED BY <1>1, <1>6, <3>1 DEF S!DoneIsComplete, RemoteGrows, SyncConstants
  <2> QED BY <1>1, <1>2, <1>6, <2>1 DEF S!DoneIsComplete, S!EDocDone
<1>13. ASSUME ~outrun', NEW t \in Runner PROVE S!JobAlone(t)'
  <2>1. S!JobAlone(t) /\ S!JobFits(t)
    BY <1>2, <1>13 DEF S!SyncInv
  <2> QED BY <1>2, <1>7, <2>1 DEF S!JobAlone, S!JobFits
<1> QED BY <1>8, <1>9, <1>10, <1>11, <1>12, <1>13 DEF S!SyncInv

LEMMA SyncStarts ==
    ASSUME SyncConstants, S!Init
    PROVE  S!SyncInv
<1>1. /\ row.step = "contact" /\ row.edoc = "none" /\ run = [r \in Runner |-> S!Idle]
      /\ row.id = [k \in S!Kinds |-> 0] /\ poll = S!Idle
      /\ remote = [k \in S!Kinds |-> [i \in 1 .. MaxDocs |-> "none"]]
  BY DEF S!Init
<1>2. S!TypeOK
  <2>1. row \in S!Row
    BY DEF S!Init, S!Row, S!Steps, SyncConstants
  <2>2. /\ remote \in [S!Kinds -> [1 .. MaxDocs -> S!Present \union {"none", "wire", "dropped"}]]
        /\ run \in [Runner -> {S!Idle, [pc |-> "release"]} \union S!Job]
    BY <1>1
  <2>3. faults = MaxFaults /\ outrun = FALSE
    BY DEF S!Init
  <2>4. faults \in 0 .. MaxFaults
    BY <2>3 DEF SyncConstants
  <2> QED BY <1>1, <2>1, <2>2, <2>3, <2>4 DEF S!TypeOK
<1>3. \A r \in Runner : S!JobFits(r) /\ S!JobEarned(r) /\ S!JobAlone(r)
  BY <1>1, JobPc DEF S!JobFits, S!JobEarned, S!JobAlone, S!Working
<1>4. S!RowEarned /\ S!RequestRemembered /\ S!DoneIsComplete /\ S!DuplicateNeedsStaleRun
  BY <1>1, StepNames DEF S!RowEarned, S!RequestRemembered, S!DoneIsComplete, S!DuplicateNeedsStaleRun
<1> QED BY <1>2, <1>3, <1>4 DEF S!SyncInv

LEMMA SyncKeeps ==
    ASSUME SyncConstants, S!SyncInv, [S!Next]_(S!vars)
    PROVE  S!SyncInv'
<1>1. CASE UNCHANGED S!vars
  BY <1>1 DEF S!vars, S!SyncInv, S!TypeOK, S!JobFits, S!JobEarned, S!JobAlone, S!RowEarned, S!EDocDone, S!Complete,
              S!RequestRemembered, S!DoneIsComplete, S!DuplicateNeedsStaleRun
<1>2. ASSUME NEW r \in Runner, (\E m \in Mode : S!Start(r, m)) \/ S!Crash(r)
      PROVE  S!SyncInv'
  BY <1>2, StartKeeps, CrashKeeps
<1>3. ASSUME NEW r \in Runner, S!Proceed(r)
      PROVE  S!SyncInv'
  BY <1>3, ClaimKeeps, ClaimFailsKeeps, EnsureKeeps, LookKeeps, RefetchKeeps, LookEDocKeeps,
     WriteStatusKeeps, MarkKeeps, DocumentKeeps, RecordKeeps, AdvanceKeeps, CallFailsKeeps,
     PatchKeeps, ReleaseKeeps DEF S!Proceed
<1> QED BY <1>1, <1>2, <1>3, ExpireKeeps, PollLookKeeps, PollWriteKeeps, ServiceKeeps DEF S!Next

\* A final status is never written over.
LEMMA FinishedKept ==
    ASSUME SyncConstants, S!SyncInv, [S!Next]_(S!vars), row.edoc = "done"
    PROVE  row'.edoc = "done"
<1>1. S!TypeOK
  BY DEF S!SyncInv
<1>2. CASE row' = row
  BY <1>2
<1>3. ASSUME NEW r \in Runner, S!Proceed(r)
      PROVE  row'.edoc = "done"
  <2>1. run[r].pc \notin {"idle", "claim", "release"} => S!JobFits(r)
    BY DEF S!SyncInv
  <2>2. CASE S!Claim(r) \/ S!ClaimFails(r)
    <3>1. row \in S!Row
      BY <1>1 DEF S!TypeOK
    <3> QED BY <1>1, <2>2, <3>1, ClaimStep, ClaimFailsStep DEF S!Row
  <2>3. CASE S!Ensure(r) \/ S!Look(r) \/ S!Refetch(r) \/ S!LookEDoc(r) \/ S!Create(r) \/ S!CallFails(r)
    BY <1>1, <2>3, EnsureStep DEF S!Look, S!Refetch, S!LookEDoc, S!Create, S!CallFails
  <2>4. CASE S!WriteStatus(r) \/ S!Mark(r) \/ S!Record(r) \/ S!Advance(r) \/ S!Patch(r)
    <3>1. S!JobFits(r)
      BY DEF S!SyncInv
    <3> QED BY <1>1, <2>4, <3>1, WriteStatusStep, MarkStep, RecordStep, AdvanceStep, PatchStep
  <2>5. CASE S!Release(r)
    BY <1>1, <2>5, ReleaseStep
  <2> QED BY <1>3, <2>2, <2>3, <2>4, <2>5 DEF S!Proceed
<1>4. CASE S!Expire \/ S!PollWrite
  BY <1>1, <1>4, ExpireStep, PollWriteStep
<1> QED BY <1>2, <1>3, <1>4 DEF S!Next, S!vars, S!Start, S!Crash, S!PollLook, S!Land, S!JobEnds
-----------------------------------------------------------------------------
(* The promises of the accounting sync.                                    *)

LEMMA SyncGiven == SyncConstants
  BY SyncAssumption DEF SyncConstants, S!NoOwner, S!Steps, S!Kinds, S!Documents, Steps

\* The inductive invariant of the synchronisation: what runs know of the order is
\* what it was, and every request that may have made a document is remembered.
THEOREM SyncSafe == Spec => []S!SyncInv
<1>1. Init => S!SyncInv
  BY SyncGiven, SyncStarts DEF Init
<1>2. S!SyncInv /\ [Next]_vars => S!SyncInv'
  BY SyncGiven, EachPart, SyncKeeps
<1> QED BY <1>1, <1>2, PTL DEF Spec

\* A second document of an order needs a run with a stale reading or an outlived
\* lease: the marker is written before the request and never taken back.
THEOREM SecondDocumentNeedsStaleRun == Spec => []DuplicateNeedsStaleRun
<1>1. S!SyncInv => DuplicateNeedsStaleRun
  BY DEF S!SyncInv, DuplicateNeedsStaleRun
<1> QED BY <1>1, SyncSafe, PTL

\* An order that is done has its contact, its products and its documents.
THEOREM DoneHasAll == Spec => []DoneIsComplete
<1>1. S!SyncInv => DoneIsComplete
  BY DEF S!SyncInv, DoneIsComplete
<1> QED BY <1>1, SyncSafe, PTL
-----------------------------------------------------------------------------
(* Purchase orders.                                                        *)

LEMMA PurchasingGiven == O!PurchasingConstants /\ L!PurchasingConstants
<1>1. O!PurchasingConstants
  BY PurchaseAssumption DEF O!PurchasingConstants
<1>2. [l \in Line |-> IF l = Line1 THEN 1 ELSE 2] \in [Line -> Nat]
  OBVIOUS
<1> QED BY <1>1, <1>2 DEF L!PurchasingConstants

\* The invariant of purchasing, in the instance the behaviour is of.
OrdersInv == IF part = "lines" THEN L!PurchaseInv ELSE O!PurchaseInv

LEMMA OrdersHold == Spec => []OrdersInv
<1>1. Init => OrdersInv
  BY L!PurchasingStarts, O!PurchasingStarts DEF Init, OrdersInv
<1>2. ASSUME OrdersInv, [Next]_vars PROVE OrdersInv'
  <2>1. CASE part = "lines"
    BY <1>2, <2>1, EachPart, PurchasingGiven, L!PurchasingKeeps DEF OrdersInv
  <2>2. CASE part # "lines"
    BY <1>2, <2>2, EachPart, PurchasingGiven, O!PurchasingKeeps DEF OrdersInv
  <2> QED BY <2>1, <2>2
<1> QED BY <1>1, <1>2, PTL DEF Spec

\* The stock screens and the shortage advice expect the same goods.
THEOREM IncomingIsOne == Spec => []IncomingAgrees
<1>1. OrdersInv => IncomingAgrees
  BY L!AnswersAgree, O!AnswersAgree DEF OrdersInv, IncomingAgrees
<1> QED BY <1>1, OrdersHold, PTL
-----------------------------------------------------------------------------
(* Requests for quotation.                                                 *)

LEMMA RfqStarts ==
    ASSUME Q!Init
    PROVE  Q!RfqInv
<1>1. /\ rfq = [status |-> "draft", version |-> 1] /\ letter = [v \in Supplier |-> 0]
      /\ sender = [c \in Clerk |-> Q!Idle] /\ ordered = [l \in Line |-> 0] /\ broken = FALSE
  BY DEF Q!Init
<1>2. PICK G \in Q!Groups : invited = [v \in G |-> Q!Cell]
  BY DEF Q!Init
<1>3. DOMAIN invited \subseteq Supplier
  BY <1>2 DEF Q!Groups
<1>4. Q!TypeOK
  BY <1>1, <1>3 DEF Q!TypeOK
<1>5. Q!SendingsCurrent
  BY <1>1 DEF Q!SendingsCurrent, Q!Idle
<1> QED BY <1>1, <1>4, <1>5 DEF Q!RfqInv, Q!AwardedOnce

\* A step that only moves the status of a request that is not awarded.
LEMMA StatusMoves ==
    ASSUME Q!RfqInv, NEW s \in {"sent", "cancelled", "deleted"},
           rfq.status # "awarded", rfq' = [rfq EXCEPT !.status = s],
           DOMAIN invited' \subseteq Supplier, UNCHANGED <<letter, ordered, broken>>,
           \/ sender' = sender
           \/ \E c \in Clerk : sender' = [sender EXCEPT ![c] = Q!Idle]
    PROVE  Q!RfqInv'
<1>1. Q!TypeOK'
  BY DEF Q!RfqInv, Q!TypeOK
<1>2. rfq'.status = s /\ rfq'.version = rfq.version
  BY DEF Q!RfqInv, Q!TypeOK
<1>3. \A c \in Clerk : sender'[c].pc = "send" => sender'[c] = sender[c]
  BY DEF Q!RfqInv, Q!TypeOK, Q!Idle
<1>4. Q!SendingsCurrent => Q!SendingsCurrent'
  BY <1>2, <1>3 DEF Q!SendingsCurrent
<1> QED BY <1>1, <1>2, <1>4 DEF Q!RfqInv, Q!AwardedOnce

\* Edits find a request that nobody sends, or are remembered.
LEMMA UpdateKeeps ==
    ASSUME Q!RfqInv, Q!UpdateRfq
    PROVE  Q!RfqInv'
<1>1. /\ rfq.status = "draft" /\ rfq' = [rfq EXCEPT !.version = @ + 1]
      /\ broken' = (broken \/ Q!Sending) /\ UNCHANGED <<letter, sender, ordered>>
  BY DEF Q!UpdateRfq, Q!Editable
<1>2. DOMAIN invited' \subseteq Supplier
  BY DEF Q!UpdateRfq, Q!Groups
<1>3. Q!TypeOK' /\ rfq'.status = "draft"
  BY <1>1, <1>2 DEF Q!RfqInv, Q!TypeOK
<1>4. ASSUME ~broken' PROVE Q!SendingsCurrent'
  <2>1. ~Q!Sending /\ Q!SendingsCurrent
    BY <1>1, <1>4 DEF Q!RfqInv
  <2>2. \A v \in Supplier : letter'[v] = 0
    BY <1>1, <2>1 DEF Q!SendingsCurrent
  <2>3. \A c \in Clerk : sender'[c].pc # "send"
    BY <1>1, <2>1 DEF Q!Sending, Q!Idle
  <2> QED BY <2>2, <2>3 DEF Q!SendingsCurrent
<1> QED BY <1>1, <1>3, <1>4 DEF Q!RfqInv, Q!AwardedOnce

LEMMA SendingKeeps ==
    ASSUME Q!RfqInv, NEW c \in Clerk, Q!StartSending(c) \/ Q!SendOne(c) \/ Q!Die(c)
    PROVE  Q!RfqInv'
<1>1. rfq' = rfq /\ invited' = invited /\ ordered' = ordered
  BY DEF Q!StartSending, Q!SendOne, Q!Die
<1>2. CASE Q!StartSending(c)
  <2>1. Q!TypeOK'
    BY <1>1, <1>2 DEF Q!RfqInv, Q!TypeOK, Q!StartSending
  <2>2. Q!SendingsCurrent => Q!SendingsCurrent'
    BY <1>1, <1>2 DEF Q!RfqInv, Q!TypeOK, Q!StartSending, Q!SendingsCurrent, Q!Sending, Q!Idle
  <2> QED BY <1>1, <1>2, <2>1, <2>2 DEF Q!RfqInv, Q!AwardedOnce, Q!StartSending
<1>3. CASE Q!SendOne(c)
  <2>1. PICK v \in sender[c].todo :
          /\ sender' = [sender EXCEPT ![c].todo = @ \ {v}]
          /\ letter' = [letter EXCEPT ![v] = sender[c].version] \/ letter' = letter
    BY <1>3 DEF Q!SendOne
  <2>2. /\ sender[c].pc = "send" /\ broken' = broken
        /\ sender[c] \in [pc : {"send"}, version : Nat, todo : SUBSET Supplier]
    BY <1>3 DEF Q!RfqInv, Q!TypeOK, Q!SendOne, Q!Idle
  <2>3. v \in Supplier /\ sender[c].version \in Nat
    BY <2>2
  <2>4. Q!TypeOK'
    BY <1>1, <2>1, <2>2, <2>3 DEF Q!RfqInv, Q!TypeOK
  <2>5. \A d \in Clerk : sender'[d].pc = sender[d].pc /\ sender'[d].version = sender[d].version
    BY <2>1, <2>2 DEF Q!RfqInv, Q!TypeOK
  <2>6. Q!SendingsCurrent => Q!SendingsCurrent'
    <3>1. Q!Sending /\ Q!Sending'
      BY <2>2, <2>5 DEF Q!Sending, Q!Idle
    <3> QED BY <1>1, <2>1, <2>2, <2>3, <2>5, <3>1 DEF Q!SendingsCurrent, Q!RfqInv, Q!TypeOK
  <2> QED BY <1>1, <2>2, <2>4, <2>6 DEF Q!RfqInv, Q!AwardedOnce
<1>4. CASE Q!Die(c)
  BY <1>1, <1>4 DEF Q!RfqInv, Q!TypeOK, Q!Die, Q!AwardedOnce
<1> QED BY <1>2, <1>3, <1>4

\* The letters of a sending are out before it marks the request.
LEMMA MarkSentKeeps ==
    ASSUME Q!RfqInv, NEW c \in Clerk, Q!MarkSent(c)
    PROVE  Q!RfqInv'
<1>1. /\ sender[c].pc = "send" /\ sender' = [sender EXCEPT ![c] = Q!Idle]
      /\ UNCHANGED <<letter, ordered, broken>>
  BY DEF Q!MarkSent
<1>2. CASE Q!StillSendable
  <2>1. rfq.status # "awarded" /\ rfq' = [rfq EXCEPT !.status = "sent"]
    BY <1>2 DEF Q!MarkSent, Q!StillSendable
  <2>2. DOMAIN invited' \subseteq Supplier
    BY <1>2 DEF Q!MarkSent, Q!RfqInv, Q!TypeOK
  <2> QED BY <1>1, <2>1, <2>2, StatusMoves
<1>3. CASE ~Q!StillSendable
  <2>1. rfq' = rfq /\ invited' = invited /\ rfq.status # "draft"
    BY <1>3 DEF Q!MarkSent, Q!StillSendable
  <2>2. Q!TypeOK'
    BY <1>1, <2>1 DEF Q!RfqInv, Q!TypeOK
  <2>3. \A d \in Clerk : sender'[d].pc = "send" => sender'[d] = sender[d]
    BY <1>1 DEF Q!RfqInv, Q!TypeOK, Q!Idle
  <2>4. Q!SendingsCurrent => Q!SendingsCurrent'
    BY <1>1, <2>1, <2>3 DEF Q!SendingsCurrent
  <2> QED BY <1>1, <2>1, <2>2, <2>4 DEF Q!RfqInv, Q!AwardedOnce
<1> QED BY <1>2, <1>3

\* An award finds a request that is out, and leaves it awarded.
LEMMA AwardKeeps ==
    ASSUME Q!RfqInv, NEW G \in SUBSET Line, NEW winner \in [G -> Supplier], Q!Award(winner)
    PROVE  Q!RfqInv'
<1>1. /\ rfq.status = "sent" /\ rfq' = [rfq EXCEPT !.status = "awarded"]
      /\ ordered' = [l \in Line |-> ordered[l] + IF l \in DOMAIN winner THEN 1 ELSE 0]
      /\ UNCHANGED <<letter, sender, broken>> /\ DOMAIN invited' = DOMAIN invited
  BY DEF Q!Award
<1>2. \A l \in Line : ordered[l] = 0
  BY <1>1 DEF Q!RfqInv
<1>3. \A l \in Line : ordered'[l] \in Nat /\ ordered'[l] <= 1
  BY <1>1, <1>2
<1>4. ordered' \in [Line -> Nat]
  BY <1>1, <1>3
<1>5. rfq'.status = "awarded" /\ rfq'.version = rfq.version
  BY <1>1 DEF Q!RfqInv, Q!TypeOK
<1>6. Q!TypeOK'
  BY <1>1, <1>4 DEF Q!RfqInv, Q!TypeOK
<1>7. Q!SendingsCurrent => Q!SendingsCurrent'
  BY <1>1, <1>5 DEF Q!SendingsCurrent
<1> QED BY <1>1, <1>3, <1>5, <1>6, <1>7 DEF Q!RfqInv, Q!AwardedOnce

LEMMA RfqKeeps ==
    ASSUME Q!RfqInv, [Q!Next]_(Q!vars)
    PROVE  Q!RfqInv'
<1>1. CASE UNCHANGED Q!vars
  BY <1>1 DEF Q!vars, Q!RfqInv, Q!TypeOK, Q!AwardedOnce, Q!SendingsCurrent, Q!Sending
<1>2. CASE Q!CancelRfq \/ Q!DeleteRfq
  <2>1. /\ rfq.status # "awarded" /\ invited' = invited /\ UNCHANGED <<letter, sender, ordered, broken>>
        /\ \/ rfq' = [rfq EXCEPT !.status = "cancelled"]
           \/ rfq' = [rfq EXCEPT !.status = "deleted"]
    BY <1>2 DEF Q!CancelRfq, Q!DeleteRfq
  <2>2. DOMAIN invited' \subseteq Supplier
    BY <2>1 DEF Q!RfqInv, Q!TypeOK
  <2> QED BY <2>1, <2>2, StatusMoves
<1>3. ASSUME NEW v \in Supplier, NEW lines \in SUBSET Line, Q!Quote(v, lines)
      PROVE  Q!RfqInv'
  <2>1. DOMAIN invited' = DOMAIN invited /\ UNCHANGED <<rfq, letter, sender, ordered, broken>>
    BY <1>3 DEF Q!Quote
  <2> QED BY <2>1 DEF Q!RfqInv, Q!TypeOK, Q!AwardedOnce, Q!SendingsCurrent, Q!Sending
<1> QED BY <1>1, <1>2, <1>3, UpdateKeeps, SendingKeeps, MarkSentKeeps, AwardKeeps DEF Q!Next

LEMMA RfqHolds == Spec => []Q!RfqInv
<1>1. Init => Q!RfqInv
  BY RfqStarts DEF Init
<1>2. Q!RfqInv /\ [Next]_vars => Q!RfqInv'
  BY EachPart, RfqKeeps
<1> QED BY <1>1, <1>2, PTL DEF Spec

\* Nothing is bought twice, and the suppliers have the letter that asks for what
\* is asked for.
THEOREM NothingTwice == Spec => []BoughtOnce
<1>1. Q!RfqInv => Q!AwardedOnce /\ Q!LettersCurrent
  BY DEF Q!RfqInv, Q!TypeOK, Q!SendingsCurrent, Q!LettersCurrent
<1>2. OrdersInv => IF part = "lines" THEN L!OrderedOnce ELSE O!OrderedOnce
  BY L!LinkedAlone, O!LinkedAlone DEF OrdersInv
<1>3. OrdersInv /\ Q!RfqInv => BoughtOnce
  BY <1>1, <1>2 DEF BoughtOnce
<1> QED BY <1>3, OrdersHold, RfqHolds, PTL
-----------------------------------------------------------------------------
(* Payments.                                                               *)

\* A run that takes up another job.
LEMMA JobMoves ==
    ASSUME M!PollInv, NEW r \in Poller, NEW j, poller' = [poller EXCEPT ![r] = j]
    PROVE  /\ DOMAIN poller' = Poller /\ poller'[r] = j
           /\ \A s \in Poller \ {r} : poller'[s] = poller[s]
           /\ \A s \in Poller \ {r} : /\ M!Fields(s)' <=> M!Fields(s)
                                      /\ \A pc : M!At(s, pc)' <=> M!At(s, pc)
                                      /\ M!First(s)' = M!First(s)
  BY DEF M!PollInv, M!TypeOK, M!Fields, M!At, M!First, M!Idle

LEMMA PollStarts ==
    ASSUME M!Init
    PROVE  M!PollInv
  BY DEF M!Init, M!PollInv, M!TypeOK, M!Known, M!Fields, M!WasSo, M!AnswerWasSo, M!At, M!Idle,
         M!Alone, M!Told, M!ReadBefore

\* An invoice falls due or is paid: what was known stays true of it.
LEMMA HappenKeeps ==
    ASSUME M!PollInv, NEW d \in Doc, M!Happen(d)
    PROVE  M!PollInv'
<1>1. UNCHANGED <<paid, queue, overdue, poller, pollFaults, overlap>>
  BY DEF M!Happen
<1>2. /\ invoice' \in [Doc -> M!Known]
      /\ \A e \in Doc : /\ invoice[e] = "paid" => invoice'[e] = "paid"
                        /\ invoice[e] = "overdue" => invoice'[e] \in {"overdue", "paid"}
  BY DEF M!PollInv, M!TypeOK, M!Happen, M!Known
<1>3. \A e \in Doc, s \in M!Known \cup {"none"} : M!WasSo(e, s) => M!WasSo(e, s)'
  BY <1>2 DEF M!WasSo
<1>4. \A e \in Doc : paid[e] \in M!Known \cup {"none"}
  BY DEF M!PollInv, M!TypeOK
<1>5. M!TypeOK'
  BY <1>1, <1>2 DEF M!PollInv, M!TypeOK, M!Fields
<1>6. \A e \in Doc : M!WasSo(e, paid[e])'
  BY <1>1, <1>3, <1>4 DEF M!PollInv, M!WasSo
<1>7. \A r \in Poller : M!AnswerWasSo(r)'
  BY <1>1, <1>3 DEF M!PollInv, M!AnswerWasSo, M!At, M!First, M!WasSo
<1> QED BY <1>1, <1>5, <1>6, <1>7 DEF M!PollInv, M!Alone, M!Told, M!ReadBefore, M!NewlyOverdue, M!At, M!First

\* A run starts: it overlaps with another, or has read what is known.
LEMMA PollStartKeeps ==
    ASSUME M!PollInv, NEW r \in Poller, M!Start(r)
    PROVE  M!PollInv'
<1>1. PICK todo : poller' = [poller EXCEPT ![r] = [pc |-> "ask", todo |-> todo, before |-> paid]]
  BY DEF M!Start, M!Go
<1>2. /\ M!At(r, "idle") /\ UNCHANGED <<invoice, paid, queue, overdue, pollFaults>>
      /\ overlap' = (overlap \/ \E s \in Poller : ~M!At(s, "idle"))
  BY DEF M!Start
<1>3. /\ DOMAIN poller' = Poller /\ poller'[r] = [pc |-> "ask", todo |-> todo, before |-> paid]
      /\ \A s \in Poller \ {r} : poller'[s] = poller[s]
  BY <1>1, JobMoves
<1>4. \A s \in Poller : M!Fields(s)'
  BY <1>3 DEF M!PollInv, M!TypeOK, M!Fields, M!Idle
<1>5. M!TypeOK'
  BY <1>2, <1>3, <1>4 DEF M!PollInv, M!TypeOK
<1>6. \A s \in Poller : M!AnswerWasSo(s)'
  BY <1>2, <1>3 DEF M!PollInv, M!AnswerWasSo, M!At, M!First, M!WasSo
<1>7. \A d \in Doc : M!WasSo(d, paid[d])'
  BY <1>2 DEF M!PollInv, M!WasSo
<1>8. ASSUME ~overlap'
      PROVE  ~overlap /\ (\A s \in Poller : M!At(s, "idle")) /\ M!Alone'
  BY <1>2, <1>3, <1>8 DEF M!Alone, M!At
<1>9. ASSUME ~overlap', pollFaults' = 0
      PROVE  /\ \A d \in Doc : M!Told(d)'
             /\ \A s \in Poller : M!ReadBefore(s)'
  <2>1. \A d \in Doc : M!Told(d)
    BY <1>2, <1>8, <1>9 DEF M!PollInv, M!At
  <2>2. \A s \in Poller \ {r} : M!At(s, "idle")'
    BY <1>3, <1>8, <1>9 DEF M!At
  <2>3. poller'[r].pc = "ask" /\ poller'[r].before = paid'
    BY <1>2, <1>3
  <2> QED BY <1>2, <2>1, <2>2, <2>3 DEF M!Told, M!ReadBefore, M!At
<1> QED BY <1>5, <1>6, <1>7, <1>8, <1>9 DEF M!PollInv

\* The rest of a run: what it knows of the document it is at, and how it ends.
LEMMA AskKeeps ==
    ASSUME M!PollInv, NEW r \in Poller, M!Ask(r)
    PROVE  M!PollInv'
<1>1. /\ M!At(r, "ask") /\ UNCHANGED <<invoice, paid, queue, overdue, pollFaults, overlap>>
      /\ poller[r] = [pc |-> "ask", todo |-> poller[r].todo, before |-> poller[r].before]
  BY DEF M!Ask, M!PollInv, M!TypeOK, M!Fields, M!At, M!Idle
<1>2. PICK j : /\ poller' = [poller EXCEPT ![r] = j]
               /\ \/ j = [pc |-> "failed", todo |-> poller[r].todo, before |-> poller[r].before]
                  \/ j = [pc |-> "write", todo |-> poller[r].todo, before |-> poller[r].before,
                          answer |-> invoice[M!First(r)]]
  <2>1. CASE M!First(r) \in Broken
    <3>1. poller' = [poller EXCEPT ![r] = [poller[r] EXCEPT !.pc = "failed"]]
      BY <2>1 DEF M!Ask
    <3>2. [poller[r] EXCEPT !.pc = "failed"]
            = [pc |-> "failed", todo |-> poller[r].todo, before |-> poller[r].before]
      BY <1>1
    <3> QED BY <3>1, <3>2
  <2>2. CASE M!First(r) \notin Broken
    BY <2>2 DEF M!Ask, M!Go
  <2> QED BY <2>1, <2>2
<1>3. /\ DOMAIN poller' = Poller /\ poller'[r] = j
      /\ \A s \in Poller \ {r} : poller'[s] = poller[s]
  BY <1>2, JobMoves
<1>4. /\ j.pc \in {"failed", "write"} /\ j.todo = poller[r].todo /\ j.before = poller[r].before
      /\ j.pc = "write" => j.answer = invoice[M!First(r)]
  BY <1>2
<1>5. M!TypeOK'
  BY <1>1, <1>2, <1>3 DEF M!PollInv, M!TypeOK, M!Fields, M!Idle
<1>6. \A s \in Poller : M!AnswerWasSo(s)'
  <2>1. M!AnswerWasSo(r)'
    BY <1>1, <1>3, <1>4 DEF M!PollInv, M!TypeOK, M!AnswerWasSo, M!At, M!First, M!WasSo, M!Known
  <2> QED BY <1>1, <1>3, <2>1 DEF M!PollInv, M!AnswerWasSo, M!At, M!First, M!WasSo
<1>7. overlap' \/ M!Alone'
  BY <1>1, <1>3 DEF M!PollInv, M!Alone, M!At
<1>8. ASSUME ~overlap', pollFaults' = 0
      PROVE  /\ \A d \in Doc : M!Told(d)'
             /\ \A s \in Poller : M!ReadBefore(s)'
  <2>1. \A s \in Poller \ {r} : M!At(s, "idle") /\ M!At(s, "idle")'
    BY <1>1, <1>3, <1>8 DEF M!PollInv, M!Alone, M!At
  <2>2. (\A d \in Doc : M!Told(d)) /\ M!ReadBefore(r)
    BY <1>1, <1>8, <2>1 DEF M!PollInv, M!At
  <2>3. M!ReadBefore(r)'
    <3>1. \A d \in Doc : poller[r].before[d] = "overdue" => paid[d] \in {"overdue", "paid"}
      BY <1>1, <2>2 DEF M!ReadBefore, M!At
    <3>2. \A d \in Doc : M!WasSo(d, paid[d])
      BY DEF M!PollInv
    <3> QED BY <1>1, <1>3, <1>4, <3>1, <3>2 DEF M!ReadBefore, M!At, M!First, M!WasSo
  <2> QED BY <1>1, <2>1, <2>2, <2>3 DEF M!Told, M!ReadBefore, M!At
<1> QED BY <1>1, <1>5, <1>6, <1>7, <1>8 DEF M!PollInv, M!WasSo
\* A run that goes on with the next document, or ends.
LEMMA GoingOnKeeps ==
    ASSUME M!PollInv, NEW r \in Poller, ~M!At(r, "idle"), NEW j,
           \/ j = M!Idle
           \/ j = [pc |-> "ask", todo |-> j.todo, before |-> poller[r].before],
           poller' = [poller EXCEPT ![r] = j], UNCHANGED <<invoice, paid, overlap>>,
           pollFaults' \in Nat, pollFaults' = 0 => pollFaults = 0,
           ~overlap /\ pollFaults' = 0 => \A d \in Doc : M!Told(d)'
    PROVE  M!PollInv'
<1>1. /\ DOMAIN poller' = Poller /\ poller'[r] = j
      /\ \A s \in Poller \ {r} : poller'[s] = poller[s]
  BY JobMoves
<1>2. j.pc \in {"idle", "ask"} /\ (j.pc = "ask" => j.before = poller[r].before)
  BY DEF M!Idle
<1>3. M!Fields(r)'
  BY <1>1 DEF M!Fields, M!Idle
<1>4. M!TypeOK'
  BY <1>1, <1>3 DEF M!PollInv, M!TypeOK, M!Fields
<1>5. \A s \in Poller : M!AnswerWasSo(s)'
  BY <1>1, <1>2 DEF M!PollInv, M!AnswerWasSo, M!At, M!First, M!WasSo
<1>6. overlap' \/ M!Alone'
  BY <1>1 DEF M!PollInv, M!Alone, M!At
<1>7. ASSUME ~overlap', pollFaults' = 0
      PROVE  \A s \in Poller : M!ReadBefore(s)'
  <2>1. \A s \in Poller \ {r} : M!At(s, "idle")'
    BY <1>1, <1>7 DEF M!PollInv, M!Alone, M!At
  <2>2. M!ReadBefore(r)
    BY <1>7 DEF M!PollInv
  <2>3. M!ReadBefore(r)'
    BY <1>1, <1>2, <2>2 DEF M!ReadBefore, M!At
  <2> QED BY <2>1, <2>3 DEF M!ReadBefore, M!At
<1> QED BY <1>4, <1>5, <1>6, <1>7 DEF M!PollInv, M!WasSo

LEMMA PollDieKeeps ==
    ASSUME M!PollInv, NEW r \in Poller, M!Die(r)
    PROVE  M!PollInv'
<1>1. /\ ~M!At(r, "idle") /\ poller' = [poller EXCEPT ![r] = M!Idle]
      /\ pollFaults' = pollFaults + 1 /\ UNCHANGED <<invoice, paid, overlap>>
  BY DEF M!Die, M!Go
<1>2. pollFaults' \in Nat /\ pollFaults' # 0
  BY <1>1 DEF M!PollInv, M!TypeOK
<1> QED BY <1>1, <1>2, GoingOnKeeps

\* The next job of a run that has done with a document.
LEMMA OnwardsJob ==
    ASSUME NEW r \in Poller, M!Onwards(r)
    PROVE  \E j : /\ \/ j = M!Idle
                     \/ j = [pc |-> "ask", todo |-> j.todo, before |-> poller[r].before]
                  /\ poller' = [poller EXCEPT ![r] = j]
<1>1. CASE Tail(poller[r].todo) = <<>>
  BY <1>1 DEF M!Onwards, M!Go
<1>2. CASE Tail(poller[r].todo) # <<>>
  <2> DEFINE j == [pc |-> "ask", todo |-> Tail(poller[r].todo), before |-> poller[r].before]
  <2>1. poller' = [poller EXCEPT ![r] = j]
    BY <1>2 DEF M!Onwards, M!Go
  <2>2. j = [pc |-> "ask", todo |-> j.todo, before |-> poller[r].before]
    OBVIOUS
  <2> QED BY <2>1, <2>2
<1> QED BY <1>1, <1>2

LEMMA StampKeeps ==
    ASSUME M!PollInv, NEW r \in Poller, M!Stamp(r)
    PROVE  M!PollInv'
<1>1. /\ M!At(r, "failed") /\ UNCHANGED <<invoice, paid, overdue, overlap>> /\ M!Onwards(r)
      /\ pollFaults' = pollFaults \/ pollFaults' = pollFaults + 1
  BY DEF M!Stamp
<1>2. PICK j : /\ \/ j = M!Idle
                  \/ j = [pc |-> "ask", todo |-> j.todo, before |-> poller[r].before]
               /\ poller' = [poller EXCEPT ![r] = j]
  BY <1>1, OnwardsJob
<1>3. pollFaults' \in Nat /\ (pollFaults' = 0 => pollFaults = 0)
  BY <1>1 DEF M!PollInv, M!TypeOK
<1>4. ASSUME ~overlap, pollFaults' = 0 PROVE \A d \in Doc : M!Told(d)'
  <2>1. \A s \in Poller : ~M!At(s, "tell")
    BY <1>1, <1>4 DEF M!PollInv, M!Alone, M!At
  <2>2. \A d \in Doc : M!Told(d)
    BY <1>3, <1>4, <2>1 DEF M!PollInv
  <2> QED BY <1>1, <2>2 DEF M!Told
<1>5. ~M!At(r, "idle")
  BY <1>1 DEF M!At
<1> QED BY <1>1, <1>2, <1>3, <1>4, <1>5, GoingOnKeeps

\* The alert follows the status that the run has written before it.
LEMMA TellKeeps ==
    ASSUME M!PollInv, NEW r \in Poller, M!Tell(r)
    PROVE  M!PollInv'
<1>1. /\ M!At(r, "tell") /\ UNCHANGED <<invoice, paid, overlap>> /\ M!Onwards(r)
      /\ \/ /\ overdue' = IF M!NewlyOverdue(r) THEN overdue \cup {M!First(r)}
                          ELSE IF poller[r].answer = "paid" THEN overdue \ {M!First(r)} ELSE overdue
            /\ pollFaults' = pollFaults
         \/ pollFaults' = pollFaults + 1
  BY DEF M!Tell
<1>2. PICK j : /\ \/ j = M!Idle
                  \/ j = [pc |-> "ask", todo |-> j.todo, before |-> poller[r].before]
               /\ poller' = [poller EXCEPT ![r] = j]
  BY <1>1, OnwardsJob
<1>3. pollFaults' \in Nat /\ (pollFaults' = 0 => pollFaults = 0)
  BY <1>1 DEF M!PollInv, M!TypeOK
<1>4. ASSUME ~overlap, pollFaults' = 0 PROVE \A d \in Doc : M!Told(d)'
  <2>1. pollFaults = 0 /\ pollFaults' # pollFaults + 1
    BY <1>3, <1>4 DEF M!PollInv, M!TypeOK
  <2>2. overdue' = IF M!NewlyOverdue(r) THEN overdue \cup {M!First(r)}
                   ELSE IF poller[r].answer = "paid" THEN overdue \ {M!First(r)} ELSE overdue
    BY <1>1, <2>1
  <2>3. \A s \in Poller : M!At(s, "tell") => s = r
    BY <1>1, <1>4 DEF M!PollInv, M!Alone, M!At
  <2>4. \A d \in Doc \ {M!First(r)} : M!Told(d)
    BY <1>4, <2>1, <2>3 DEF M!PollInv
  <2>5. \A d \in Doc \ {M!First(r)} : M!Told(d)'
    BY <1>1, <2>2, <2>4 DEF M!Told
  <2>6. CASE M!First(r) \in Doc
    <3>1. /\ paid[M!First(r)] = poller[r].answer
          /\ M!NewlyOverdue(r) \/ poller[r].answer # "overdue" \/ M!First(r) \in overdue
      BY <1>1, <1>4, <2>1, <2>6 DEF M!PollInv, M!ReadBefore
    <3>2. M!NewlyOverdue(r) => poller[r].answer = "overdue"
      BY DEF M!NewlyOverdue
    <3>3. PICK d : d = M!First(r)
      OBVIOUS
    <3>4. M!Told(d)'
      BY <1>1, <2>2, <3>1, <3>2, <3>3 DEF M!Told
    <3> QED BY <2>5, <3>3, <3>4
  <2> QED BY <2>5, <2>6
<1>5. ~M!At(r, "idle")
  BY <1>1 DEF M!At
<1> QED BY <1>1, <1>2, <1>3, <1>4, <1>5, GoingOnKeeps

\* The answer is written down: it is no earlier than what the run read before.
LEMMA WriteKeeps ==
    ASSUME M!PollInv, NEW r \in Poller, M!Write(r)
    PROVE  M!PollInv'
<1>1. /\ M!At(r, "write") /\ UNCHANGED <<invoice, overdue, overlap>>
      /\ poller[r] = [pc |-> "write", todo |-> poller[r].todo, before |-> poller[r].before,
                      answer |-> poller[r].answer]
  BY DEF M!Write, M!PollInv, M!TypeOK, M!Fields, M!At, M!Idle
<1>2. PICK d, a, j :
        /\ d = M!First(r) /\ a = poller[r].answer
        /\ j \in {[poller[r] EXCEPT !.pc = "tell"], [poller[r] EXCEPT !.pc = "failed"]}
        /\ poller' = [poller EXCEPT ![r] = j]
        /\ \/ /\ j.pc = "tell" /\ paid' = [paid EXCEPT ![d] = a] /\ pollFaults' = pollFaults
           \/ /\ j.pc = "failed" /\ paid' = paid /\ pollFaults' = pollFaults + 1
  <2>1. CASE poller' = [poller EXCEPT ![r].pc = "tell"]
             /\ paid' = [paid EXCEPT ![M!First(r)] = poller[r].answer] /\ pollFaults' = pollFaults
    <3>1. [poller[r] EXCEPT !.pc = "tell"].pc = "tell"
      BY <1>1
    <3> QED BY <2>1, <3>1
  <2>2. CASE poller' = [poller EXCEPT ![r].pc = "failed"]
             /\ paid' = paid /\ pollFaults' = pollFaults + 1
    <3>1. [poller[r] EXCEPT !.pc = "failed"].pc = "failed"
      BY <1>1
    <3> QED BY <2>2, <3>1
  <2> QED BY <2>1, <2>2 DEF M!Write
<1>3. /\ DOMAIN poller' = Poller /\ poller'[r] = j
      /\ \A s \in Poller \ {r} : poller'[s] = poller[s]
  BY <1>2, JobMoves
<1>4. /\ j = [pc |-> j.pc, todo |-> poller[r].todo, before |-> poller[r].before, answer |-> a]
      /\ j.pc \in {"tell", "failed"} /\ j.todo = poller[r].todo /\ j.before = poller[r].before
      /\ j.answer = a
  BY <1>1, <1>2
<1>5. d \in Doc => a \in M!Known /\ M!WasSo(d, a)
  BY <1>1, <1>2 DEF M!PollInv, M!AnswerWasSo
<1>6. /\ paid' \in [Doc -> M!Known \cup {"none"}] /\ pollFaults' \in Nat
      /\ \A e \in Doc : paid'[e] \in {paid[e], a} /\ (paid'[e] # paid[e] => e = d)
  BY <1>2, <1>5 DEF M!PollInv, M!TypeOK
<1>7. M!Fields(r)'
  BY <1>3, <1>4 DEF M!Fields
<1>8. M!TypeOK'
  BY <1>1, <1>3, <1>6, <1>7 DEF M!PollInv, M!TypeOK, M!Fields
<1>9. \A e \in Doc : M!WasSo(e, paid[e])'
  BY <1>1, <1>5, <1>6 DEF M!PollInv, M!WasSo
<1>10. \A s \in Poller : M!AnswerWasSo(s)'
  BY <1>1, <1>3, <1>4 DEF M!PollInv, M!AnswerWasSo, M!At, M!First, M!WasSo
<1>11. overlap' \/ M!Alone'
  BY <1>1, <1>3 DEF M!PollInv, M!Alone, M!At
<1>12. ASSUME ~overlap', pollFaults' = 0
       PROVE  /\ \A e \in Doc : M!Told(e)' \/ \E s \in Poller : (M!At(s, "tell") /\ M!First(s) = e)'
              /\ \A s \in Poller : M!ReadBefore(s)'
  <2>1. /\ pollFaults = 0 /\ j.pc = "tell" /\ paid' = [paid EXCEPT ![d] = a]
    BY <1>2, <1>12 DEF M!PollInv, M!TypeOK
  <2>2. \A s \in Poller \ {r} : M!At(s, "idle") /\ M!At(s, "idle")'
    BY <1>1, <1>3, <1>12 DEF M!PollInv, M!Alone, M!At
  <2>3. \A e \in Doc : M!Told(e)
    BY <1>1, <1>12, <2>1, <2>2 DEF M!PollInv, M!At
  <2>4. M!At(r, "tell")' /\ M!First(r)' = d
    BY <1>2, <1>3, <1>4, <2>1 DEF M!At, M!First
  <2>5. \A e \in Doc \ {d} : M!Told(e)'
    BY <1>1, <1>6, <2>3 DEF M!Told
  <2>6. M!ReadBefore(r)'
    <3>1. /\ \A e \in Doc : poller[r].before[e] = "overdue" => paid[e] \in {"overdue", "paid"}
          /\ d \in Doc => /\ a = "paid" \/ paid[d] # "paid"
                          /\ poller[r].before[d] = "overdue" => a \in {"overdue", "paid"}
      BY <1>1, <1>2, <1>12, <2>1 DEF M!PollInv, M!ReadBefore, M!At
    <3>2. \A e \in Doc : poller'[r].before[e] = "overdue" => paid'[e] \in {"overdue", "paid"}
      BY <1>3, <1>4, <1>6, <3>1
    <3>3. ASSUME d \in Doc
          PROVE  paid'[d] = a /\ (poller[r].before[d] # "overdue" \/ a # "overdue" \/ d \in overdue)
      BY <2>1, <2>3, <3>1, <3>3 DEF M!PollInv, M!TypeOK, M!Told
    <3> QED BY <1>1, <1>3, <1>4, <2>4, <3>2, <3>3 DEF M!ReadBefore, M!NewlyOverdue, M!At
  <2> QED BY <2>2, <2>4, <2>5, <2>6 DEF M!ReadBefore, M!At
<1> QED BY <1>8, <1>9, <1>10, <1>11, <1>12 DEF M!PollInv

LEMMA PollKeeps ==
    ASSUME M!PollInv, [M!Next]_(M!vars)
    PROVE  M!PollInv'
<1>1. CASE UNCHANGED M!vars
  BY <1>1 DEF M!vars, M!PollInv, M!TypeOK, M!Fields, M!WasSo, M!AnswerWasSo, M!Alone, M!At, M!First,
              M!Told, M!ReadBefore, M!NewlyOverdue
<1> QED BY <1>1, HappenKeeps, PollStartKeeps, AskKeeps, StampKeeps, WriteKeeps, TellKeeps,
           PollDieKeeps DEF M!Next, M!Work

\* Between runs an overdue invoice has its alert and a paid one has none, unless
\* runs overlapped or a fault took one away.
THEOREM AlertsTellTheStatus == Spec => []AlertsFollow
<1>1. Init => M!PollInv
  BY PollStarts DEF Init
<1>2. M!PollInv /\ [Next]_vars => M!PollInv'
  BY EachPart, PollKeeps
<1>3. M!PollInv => AlertsFollow
  BY DEF M!PollInv, M!Told, M!At, M!AlertsFollow, AlertsFollow
<1> QED BY <1>1, <1>2, <1>3, PTL DEF Spec
-----------------------------------------------------------------------------
(* Production.                                                             *)

EntryRecord == {P!Unmade} \cup [status : {"made", "reversed"}, product : 1..Products, qty : Nat]
MadeBy(z, q) == [e \in P!Entry |-> IF z[e].status = "made" /\ z[e].product = q THEN z[e].qty ELSE 0]
UsedBy(z, q) == [e \in P!Entry |-> IF z[e].status = "made" /\ z[e].product # q
                                   THEN Bill[z[e].product][q] * z[e].qty ELSE 0]

LEMMA BillCounts == \A p, q \in 1..Products : Bill[p][q] \in Nat
  BY DEF Bill

\* The sums of the state, in the terms of TotalsTheorems.
LEMMA TotalsOfState ==
    /\ \A q : P!Total(P!Made(q)) = Total(MadeBy(entry, q)) /\ P!Total(P!Used(q)) = Total(UsedBy(entry, q))
    /\ \A q : P!Total(P!Made(q))' = Total(MadeBy(entry', q)) /\ P!Total(P!Used(q))' = Total(UsedBy(entry', q))
<1>1. ASSUME NEW f PROVE P!Total(f) = Total(f)
  <2>1. P!Units(f) = Units(f)
    BY DEF P!Units, Units
  <2>2. ASSUME NEW T PROVE P!Cardinality(T) = Cardinality(T)
    BY DEF P!Cardinality, Cardinality
  <2> QED BY <2>1, <2>2 DEF P!Total, Total
<1>2. ASSUME NEW q
      PROVE  P!Made(q) = MadeBy(entry, q) /\ P!Used(q) = UsedBy(entry, q)
  BY DEF P!Made, P!Used, MadeBy, UsedBy
<1>3. ASSUME NEW q
      PROVE  /\ P!Total(P!Made(q))' = Total(MadeBy(entry', q))
             /\ P!Total(P!Used(q))' = Total(UsedBy(entry', q))
  <2>1. /\ P!Total(P!Made(q))' = P!Total(MadeBy(entry', q))
        /\ P!Total(P!Used(q))' = P!Total(UsedBy(entry', q))
    BY DEF P!Total, P!Units, P!Made, P!Used, MadeBy, UsedBy
  <2> QED BY <1>1, <2>1
<1> QED BY <1>1, <1>2, <1>3

LEMMA SumsAreNumbers ==
    ASSUME NEW z \in [P!Entry -> EntryRecord], NEW q \in 1..Products
    PROVE  /\ IsFiniteSet(P!Entry)
           /\ MadeBy(z, q) \in [P!Entry -> Nat] /\ UsedBy(z, q) \in [P!Entry -> Nat]
           /\ Total(MadeBy(z, q)) \in Nat /\ Total(UsedBy(z, q)) \in Nat
<1>1. IsFiniteSet(P!Entry)
  BY ProductionAssumption, FS_Interval DEF P!Entry
<1>2. \A e \in P!Entry : z[e].status = "made" => z[e].product \in 1..Products /\ z[e].qty \in Nat
  BY DEF EntryRecord, P!Unmade
<1>3. MadeBy(z, q) \in [P!Entry -> Nat]
  BY <1>2 DEF MadeBy
<1>4. \A e \in P!Entry : z[e].status = "made" => Bill[z[e].product][q] * z[e].qty \in Nat
  <2>1. \A a, b \in Nat : a * b \in Nat
    OBVIOUS
  <2> QED BY <1>2, <2>1, BillCounts
<1>5. UsedBy(z, q) \in [P!Entry -> Nat]
  BY <1>4 DEF UsedBy
<1> QED BY <1>1, <1>3, <1>5, UnitsFinite

\* What one more entry that stands adds to the sums.
LEMMA OneMoreEntry ==
    ASSUME NEW z \in [P!Entry -> EntryRecord], NEW y \in [P!Entry -> EntryRecord],
           NEW e \in P!Entry, \A d \in P!Entry \ {e} : y[d] = z[d],
           z[e].status # "made", y[e].status = "made", NEW q \in 1..Products
    PROVE  /\ Total(MadeBy(y, q)) = Total(MadeBy(z, q)) + IF y[e].product = q THEN y[e].qty ELSE 0
           /\ Total(UsedBy(y, q)) = Total(UsedBy(z, q))
                + IF y[e].product = q THEN 0 ELSE Bill[y[e].product][q] * y[e].qty
<1>1. /\ IsFiniteSet(P!Entry)
      /\ MadeBy(y, q) \in [P!Entry -> Nat] /\ UsedBy(y, q) \in [P!Entry -> Nat]
      /\ MadeBy(z, q) \in [P!Entry -> Nat] /\ UsedBy(z, q) \in [P!Entry -> Nat]
      /\ Total(MadeBy(y, q)) \in Nat /\ Total(UsedBy(y, q)) \in Nat
  BY SumsAreNumbers
<1>2. /\ MadeBy(z, q)[e] = 0 /\ UsedBy(z, q)[e] = 0
      /\ \A d \in P!Entry \ {e} : MadeBy(z, q)[d] = MadeBy(y, q)[d] /\ UsedBy(z, q)[d] = UsedBy(y, q)[d]
  BY DEF MadeBy, UsedBy
<1>3. Total(MadeBy(z, q)) = Total(MadeBy(y, q)) - MadeBy(y, q)[e]
  BY <1>1, <1>2, TotalWithout
<1>4. Total(UsedBy(z, q)) = Total(UsedBy(y, q)) - UsedBy(y, q)[e]
  BY <1>1, <1>2, TotalWithout
<1>5. /\ MadeBy(y, q)[e] = IF y[e].product = q THEN y[e].qty ELSE 0
      /\ UsedBy(y, q)[e] = IF y[e].product = q THEN 0 ELSE Bill[y[e].product][q] * y[e].qty
  BY DEF MadeBy, UsedBy
<1>6. MadeBy(y, q)[e] \in Nat /\ UsedBy(y, q)[e] \in Nat
  BY <1>1
<1> QED BY <1>1, <1>3, <1>4, <1>5, <1>6
\* What a request that works is.
LEMMA WorkingJob ==
    ASSUME P!TypeOK, NEW t \in Clerk, P!Working(t)
    PROVE  /\ session[t].op \in {"complete", "reverse"}
           /\ session[t].product \in 1..Products /\ session[t].qty \in Nat
           /\ session[t].saw \in Int /\ session[t].todo \in SUBSET P!Row
           /\ session[t].op = "reverse" => session[t].entry \in P!Entry
           /\ P!Needed(t) \subseteq P!Row
<1>1. session[t] # P!Idle
  BY DEF P!Working
<1>2. /\ session[t].op \in {"complete", "reverse"}
      /\ session[t].product \in 1..Products /\ session[t].qty \in Nat
      /\ session[t].saw \in Int /\ session[t].todo \in SUBSET P!Row
      /\ session[t].op = "reverse" => session[t].entry \in P!Entry
  BY <1>1 DEF P!TypeOK
<1>3. \A p \in 1..Products : P!ProductRows(p) \subseteq P!Row
  BY DEF P!ProductRows, P!Row, P!Components
<1>4. \A e \in P!Entry : P!EntryRow(e) \in P!Row
  BY DEF P!Row
<1> QED BY <1>2, <1>3, <1>4 DEF P!Needed

LEMMA RowsDiffer ==
    \A p, e : /\ P!ProductRow(p) # P!EntryRow(e)
              /\ \A q : P!ProductRow(p) = P!ProductRow(q) => p = q
              /\ \A d : P!EntryRow(e) = P!EntryRow(d) => d = e
              /\ P!EntryRow(e)[1] = "entry" /\ P!EntryRow(e)[2] = e
  BY DEF P!ProductRow, P!EntryRow

\* A request that does nothing in a step keeps what it holds, if the others leave
\* the rows it has locked alone.
LEMMA HoldsStays ==
    ASSUME P!TypeOK, NEW t \in Clerk, P!Holds(t), session'[t] = session[t],
           \A x \in P!Row : owner[x] = t => owner'[x] = t,
           \A p \in 1..Products : owner[P!ProductRow(p)] = t => stock'[p].onHand = stock[p].onHand,
           \A e \in P!Entry : entry[e] # P!Unmade =>
               /\ entry'[e] # P!Unmade
               /\ entry'[e].product = entry[e].product /\ entry'[e].qty = entry[e].qty
               /\ owner[P!EntryRow(e)] = t => entry'[e].status = entry[e].status
    PROVE  P!Holds(t)'
<1>1. CASE ~P!Working(t)
  BY <1>1 DEF P!Holds, P!Working
<1>2. CASE P!Working(t)
  <2>1. P!Working(t)' /\ P!Needed(t)' = P!Needed(t)
    BY <1>2 DEF P!Working, P!Needed
  <2>2. /\ session[t].product \in 1..Products /\ P!Needed(t) \subseteq P!Row
        /\ session[t].op = "reverse" => session[t].entry \in P!Entry
    BY <1>2, WorkingJob
  <2>3. /\ \A x \in P!Needed(t) \ session[t].todo : owner[x] = t
        /\ P!ProductRow(session[t].product) \notin session[t].todo =>
              session[t].saw = stock[session[t].product].onHand
    BY <1>2 DEF P!Holds
  <2>4. /\ P!ProductRow(session[t].product) \in P!Needed(t)
        /\ session[t].op = "reverse" => P!EntryRow(session[t].entry) \in P!Needed(t)
    BY <1>2, WorkingJob DEF P!Needed, P!ProductRows
  <2>5. \A x \in (P!Needed(t) \ session[t].todo)' : owner'[x] = t
    BY <2>1, <2>2, <2>3
  <2>6. P!ProductRow(session[t].product) \notin session[t].todo =>
           session[t].saw = stock'[session[t].product].onHand
    BY <2>2, <2>3, <2>4
  <2>7. ASSUME session[t].op = "reverse"
        PROVE  /\ entry'[session[t].entry] # P!Unmade
               /\ session[t].product = entry'[session[t].entry].product
               /\ session[t].qty = entry'[session[t].entry].qty
               /\ P!EntryRow(session[t].entry) \notin session[t].todo =>
                     entry'[session[t].entry].status = "made"
    <3>1. /\ entry[session[t].entry] # P!Unmade
          /\ session[t].product = entry[session[t].entry].product
          /\ session[t].qty = entry[session[t].entry].qty
          /\ P!EntryRow(session[t].entry) \notin session[t].todo =>
                entry[session[t].entry].status = "made"
      BY <1>2, <2>7 DEF P!Holds
    <3> QED BY <2>2, <2>3, <2>4, <2>7, <3>1
  <2> QED BY <2>1, <2>5, <2>6, <2>7 DEF P!Holds, P!ProductRow, P!EntryRow
<1> QED BY <1>1, <1>2

\* A request that ends gives back its rows and no other.
LEMMA EndGivesBack ==
    ASSUME P!TypeOK, NEW t \in Clerk, P!End(t)
    PROVE  /\ session' = [session EXCEPT ![t] = P!Idle] /\ P!Holds(t)'
           /\ owner' \in [P!Row -> Clerk \cup {P!Nobody}]
           /\ \A u \in Clerk \ {t} : /\ session'[u] = session[u]
                                     /\ \A x \in P!Row : owner[x] = u => owner'[x] = u
  BY DEF P!TypeOK, P!End, P!Holds, P!Working

LEMMA EndKeeps ==
    ASSUME P!ProductionInv, NEW t \in Clerk, P!End(t), UNCHANGED <<stock, entry, moved>>
    PROVE  P!ProductionInv'
<1>1. P!TypeOK
  BY DEF P!ProductionInv
<1>2. P!TypeOK'
  BY <1>1, EndGivesBack DEF P!TypeOK
<1>3. P!StockExplained'
  BY DEF P!ProductionInv, P!StockExplained, P!Made, P!Used, P!Total, P!Units
<1>4. ASSUME NEW u \in Clerk PROVE P!Holds(u)'
  BY <1>1, <1>4, EndGivesBack, HoldsStays DEF P!ProductionInv
<1> QED BY <1>2, <1>3, <1>4 DEF P!ProductionInv

LEMMA BeginKeeps ==
    ASSUME P!ProductionInv, NEW t \in Clerk, P!Complete(t) \/ P!Reverse(t)
    PROVE  P!ProductionInv'
<1>1. PICK job : P!Begin(t, job) /\
        \/ \E p \in 1..Products, n \in 1..2 :
              job = [op |-> "complete", product |-> p, qty |-> n, saw |-> 0,
                     todo |-> P!ProductRows(p)]
        \/ \E e \in P!Entry :
              /\ entry[e].status = "made"
              /\ job = [op |-> "reverse", entry |-> e, product |-> entry[e].product,
                        qty |-> entry[e].qty, saw |-> 0, todo |-> P!ReverseRows(e)]
  BY DEF P!Complete, P!Reverse
<1>2. P!TypeOK /\ session' = [session EXCEPT ![t] = job] /\ UNCHANGED <<stock, entry, owner, moved>>
  BY <1>1 DEF P!ProductionInv, P!Begin
<1>3. \A p \in 1..Products : P!ProductRows(p) \in SUBSET P!Row
  BY DEF P!ProductRows, P!Row, P!Components
<1>4. \A e \in P!Entry : entry[e].status = "made" =>
         /\ entry[e] # P!Unmade /\ entry[e].product \in 1..Products /\ entry[e].qty \in Nat
         /\ P!ReverseRows(e) \in SUBSET P!Row
  BY <1>2, <1>3 DEF P!TypeOK, P!Unmade, P!ReverseRows, P!Row
<1>5. /\ P!TypeOK' /\ session'[t] = job /\ \A u \in Clerk \ {t} : session'[u] = session[u]
  BY <1>1, <1>2, <1>3, <1>4 DEF P!TypeOK
<1>6. P!Holds(t)'
  <2>1. P!Needed(t)' \subseteq job.todo /\ P!ProductRow(job.product) \in job.todo
    BY <1>1, <1>5 DEF P!Needed, P!ReverseRows, P!ProductRows
  <2>2. job.op = "reverse" =>
          /\ entry[job.entry] # P!Unmade /\ job.product = entry[job.entry].product
          /\ job.qty = entry[job.entry].qty /\ entry[job.entry].status = "made"
    BY <1>1, <1>4
  <2>3. P!Holds(t)' <=>
          (job # P!Idle =>
             /\ \A x \in P!Needed(t)' \ job.todo : owner'[x] = t
             /\ P!ProductRow(job.product) \notin job.todo => job.saw = stock'[job.product].onHand
             /\ job.op = "reverse" =>
                   /\ entry'[job.entry] # P!Unmade /\ job.product = entry'[job.entry].product
                   /\ job.qty = entry'[job.entry].qty
                   /\ P!EntryRow(job.entry) \notin job.todo => entry'[job.entry].status = "made")
    BY <1>5 DEF P!Holds, P!Working, P!ProductRow, P!EntryRow
  <2> QED BY <1>2, <2>1, <2>2, <2>3
<1>7. ASSUME NEW u \in Clerk \ {t} PROVE P!Holds(u)'
  BY <1>2, <1>5, <1>7, HoldsStays DEF P!ProductionInv
<1>8. P!StockExplained'
  BY <1>2 DEF P!ProductionInv, P!StockExplained, P!Made, P!Used, P!Total, P!Units
<1> QED BY <1>5, <1>6, <1>7, <1>8 DEF P!ProductionInv

\* A row that is locked is owned from then on, and nobody else has it.
LEMMA LockKeeps ==
    ASSUME P!ProductionInv, NEW t \in Clerk, P!Lock(t)
    PROVE  P!ProductionInv'
<1>1. PICK x \in session[t].todo :
        /\ owner[x] = P!Nobody
        /\ IF x[1] = "entry" /\ entry[x[2]].status # "made" THEN P!End(t)
           ELSE /\ owner' = [owner EXCEPT ![x] = t]
                /\ session' = [session EXCEPT ![t] = P!Locked(t, x)]
  BY DEF P!Lock
<1>2. P!TypeOK /\ P!Working(t) /\ P!Holds(t) /\ UNCHANGED <<stock, entry, moved>>
  BY DEF P!ProductionInv, P!Lock
<1>3. CASE x[1] = "entry" /\ entry[x[2]].status # "made"
  BY <1>1, <1>2, <1>3, EndKeeps
<1>4. CASE ~(x[1] = "entry" /\ entry[x[2]].status # "made")
  <2>1. /\ session[t].op \in {"complete", "reverse"}
        /\ session[t].product \in 1..Products /\ session[t].qty \in Nat
        /\ session[t].saw \in Int /\ session[t].todo \in SUBSET P!Row
        /\ session[t].op = "reverse" => session[t].entry \in P!Entry
        /\ P!Needed(t) \subseteq P!Row
    BY <1>2, WorkingJob
  <2>2. PICK job : job = P!Locked(t, x)
    OBVIOUS
  <2>3. /\ owner' = [owner EXCEPT ![x] = t] /\ session' = [session EXCEPT ![t] = job]
        /\ x \in P!Row
    BY <1>1, <1>4, <2>1, <2>2
  <2>4. /\ job.todo = session[t].todo \ {x} /\ job.op = session[t].op /\ job # P!Idle
        /\ job.product = session[t].product /\ job.qty = session[t].qty
        /\ job.op = "reverse" => job.entry = session[t].entry
        /\ job.saw = IF x = P!ProductRow(session[t].product)
                     THEN stock[session[t].product].onHand ELSE session[t].saw
        /\ \/ job \in [op : {"complete"}, product : 1..Products, qty : Nat, saw : Int, todo : SUBSET P!Row]
           \/ job \in [op : {"reverse"}, entry : P!Entry, product : 1..Products, qty : Nat,
                       saw : Int, todo : SUBSET P!Row]
    <3>1. stock[session[t].product].onHand \in Int
      BY <1>2, <2>1 DEF P!TypeOK
    <3>2. CASE session[t].op = "complete"
      <4>1. session[t] \in [op : {"complete"}, product : 1..Products, qty : Nat, saw : Int,
                            todo : SUBSET P!Row]
        BY <1>2, <3>2 DEF P!TypeOK, P!Working, P!Idle
      <4> QED BY <2>2, <3>1, <3>2, <4>1 DEF P!Locked, P!Idle
    <3>3. CASE session[t].op = "reverse"
      <4>1. session[t] \in [op : {"reverse"}, entry : P!Entry, product : 1..Products, qty : Nat,
                            saw : Int, todo : SUBSET P!Row]
        BY <1>2, <3>3 DEF P!TypeOK, P!Working, P!Idle
      <4> QED BY <2>2, <3>1, <3>3, <4>1 DEF P!Locked, P!Idle
    <3> QED BY <2>1, <3>2, <3>3
  <2>5. /\ session'[t] = job /\ \A u \in Clerk \ {t} : session'[u] = session[u]
        /\ owner'[x] = t /\ \A r \in P!Row \ {x} : owner'[r] = owner[r]
        /\ P!TypeOK'
    BY <1>2, <2>3, <2>4 DEF P!TypeOK
  <2>6. ASSUME NEW u \in Clerk \ {t} PROVE P!Holds(u)'
    <3>1. \A r \in P!Row : owner[r] = u => owner'[r] = u
      BY <1>1, <2>5, ProductionAssumption DEF P!Nobody
    <3> QED BY <1>2, <2>5, <2>6, <3>1, HoldsStays DEF P!ProductionInv
  <2>7. P!Holds(t)'
    <3>1. P!Needed(t)' = P!Needed(t)
      BY <2>1, <2>4, <2>5 DEF P!Needed
    <3>2. \A r \in P!Needed(t) \ job.todo : owner'[r] = t
      BY <1>2, <2>1, <2>4, <2>5 DEF P!Holds
    <3>3. P!ProductRow(job.product) \notin job.todo => job.saw = stock[job.product].onHand
      BY <1>2, <2>4 DEF P!Holds
    <3>4. ASSUME job.op = "reverse"
          PROVE  /\ entry[job.entry] # P!Unmade /\ job.product = entry[job.entry].product
                 /\ job.qty = entry[job.entry].qty
                 /\ P!EntryRow(job.entry) \notin job.todo => entry[job.entry].status = "made"
      BY <1>2, <1>4, <2>4, <3>4, RowsDiffer DEF P!Holds
    <3> QED BY <1>2, <2>5, <3>1, <3>2, <3>3, <3>4 DEF P!Holds, P!ProductRow, P!EntryRow
  <2>8. P!StockExplained'
    BY <1>2 DEF P!ProductionInv, P!StockExplained, P!Made, P!Used, P!Total, P!Units
  <2> QED BY <2>5, <2>6, <2>7, <2>8 DEF P!ProductionInv
<1> QED BY <1>3, <1>4
\* What a request that has locked everything owns.
LEMMA HasLockedAll ==
    ASSUME P!ProductionInv, NEW t \in Clerk, P!Working(t), session[t].todo = {}
    PROVE  /\ \A q \in {session[t].product} \cup P!Components(session[t].product) :
                 owner[P!ProductRow(q)] = t
           /\ session[t].saw = stock[session[t].product].onHand
           /\ session[t].op = "reverse" =>
                 /\ owner[P!EntryRow(session[t].entry)] = t
                 /\ entry[session[t].entry].status = "made"
                 /\ session[t].product = entry[session[t].entry].product
                 /\ session[t].qty = entry[session[t].entry].qty
<1>1. P!Holds(t)
  BY DEF P!ProductionInv
<1>2. \A x \in P!Needed(t) : owner[x] = t
  BY <1>1 DEF P!Holds
<1>3. P!ProductRows(session[t].product) \subseteq P!Needed(t)
  BY DEF P!Needed
<1>4. session[t].op = "reverse" => P!EntryRow(session[t].entry) \in P!Needed(t)
  BY DEF P!Needed
<1> QED BY <1>1, <1>2, <1>3, <1>4 DEF P!Holds, P!ProductRows

\* A commit moves the pieces of the product and of its components, whose rows it
\* owns, and one entry that nobody else has locked.
LEMMA CommitKeeps ==
    ASSUME P!ProductionInv, NEW t \in Clerk, P!Working(t), session[t].todo = {}, P!End(t),
           moved' = moved, stock' \in [1..Products -> [onHand : Int, reserved : Int]],
           \A q \in 1..Products : q # session[t].product /\ Bill[session[t].product][q] = 0
                => stock'[q].onHand = stock[q].onHand,
           NEW e \in P!Entry, entry' \in [P!Entry -> EntryRecord],
           \A d \in P!Entry \ {e} : entry'[d] = entry[d],
           entry[e] = P!Unmade \/ owner[P!EntryRow(e)] = t,
           entry[e] # P!Unmade => /\ entry'[e] # P!Unmade
                                  /\ entry'[e].product = entry[e].product
                                  /\ entry'[e].qty = entry[e].qty,
           P!StockExplained'
    PROVE  P!ProductionInv'
<1>1. P!TypeOK
  BY DEF P!ProductionInv
<1>2. P!TypeOK'
  BY <1>1, EndGivesBack DEF P!TypeOK, EntryRecord
<1>3. ASSUME NEW u \in Clerk \ {t} PROVE P!Holds(u)'
  <2>1. \A p \in 1..Products : owner[P!ProductRow(p)] = u => stock'[p].onHand = stock[p].onHand
    <3>1. session[t].product \in 1..Products
      BY <1>1, WorkingJob
    <3>2. SUFFICES ASSUME NEW p \in 1..Products, owner[P!ProductRow(p)] = u
                   PROVE  stock'[p].onHand = stock[p].onHand
      OBVIOUS
    <3>3. p # session[t].product /\ p \notin P!Components(session[t].product)
      BY <1>3, <3>2, HasLockedAll
    <3>4. Bill[session[t].product][p] = 0
      BY <3>1, <3>3, BillCounts DEF P!Components
    <3> QED BY <3>3, <3>4
  <2>2. \A d \in P!Entry : entry[d] # P!Unmade =>
           /\ entry'[d] # P!Unmade
           /\ entry'[d].product = entry[d].product /\ entry'[d].qty = entry[d].qty
           /\ owner[P!EntryRow(d)] = u => entry'[d].status = entry[d].status
    OBVIOUS
  <2> QED BY <1>1, <1>3, <2>1, <2>2, EndGivesBack, HoldsStays DEF P!ProductionInv
<1>4. P!Holds(t)'
  BY <1>1, EndGivesBack
<1> QED BY <1>2, <1>3, <1>4 DEF P!ProductionInv

\* Production writes a total that nobody has moved since it read it.
LEMMA CommitCompleteKeeps ==
    ASSUME P!ProductionInv, NEW t \in Clerk, P!CommitComplete(t)
    PROVE  P!ProductionInv'
<1>1. /\ session[t].op = "complete" /\ session[t].todo = {} /\ P!End(t) /\ moved' = moved
  BY DEF P!CommitComplete
<1>2. P!TypeOK /\ P!Working(t)
  BY <1>1 DEF P!ProductionInv, P!Working, P!Idle
<1>3. CASE UNCHANGED <<stock, entry>>
  BY <1>1, <1>3, EndKeeps
<1>4. CASE ~UNCHANGED <<stock, entry>>
  <2>1. PICK p, n, saw : p = session[t].product /\ n = session[t].qty /\ saw = session[t].saw
    OBVIOUS
  <2>2. p \in 1..Products /\ n \in Nat /\ saw = stock[p].onHand
    BY <1>1, <1>2, <2>1, WorkingJob, HasLockedAll
  <2>3. PICK e \in P!Entry :
          /\ entry[e] = P!Unmade
          /\ entry' = [entry EXCEPT ![e] = [status |-> "made", product |-> p, qty |-> n]]
    BY <1>4, <2>1 DEF P!CommitComplete
  <2>4. stock' = [q \in 1..Products |-> [stock[q] EXCEPT !.onHand =
                    IF q = p THEN saw + n ELSE @ - Bill[p][q] * n]]
    BY <1>4, <2>1 DEF P!CommitComplete, P!AfterComplete
  <2>5. \A q \in 1..Products : stock[q] \in [onHand : Int, reserved : Int]
    BY <1>2 DEF P!TypeOK
  <2>6. \A q \in 1..Products : Bill[p][q] * n \in Nat
    <3>1. \A a, b \in Nat : a * b \in Nat
      OBVIOUS
    <3> QED BY <2>2, <3>1, BillCounts
  <2>7. \A q \in 1..Products :
          /\ stock'[q] \in [onHand : Int, reserved : Int]
          /\ stock'[q].onHand = IF q = p THEN stock[p].onHand + n ELSE stock[q].onHand - Bill[p][q] * n
    BY <2>2, <2>4, <2>5, <2>6
  <2>8. stock' \in [1..Products -> [onHand : Int, reserved : Int]]
    BY <2>4, <2>7
  <2>9. \A q \in 1..Products : q # p /\ Bill[p][q] = 0 => stock'[q].onHand = stock[q].onHand
    BY <2>2, <2>5, <2>7
  <2>10. /\ entry \in [P!Entry -> EntryRecord] /\ entry' \in [P!Entry -> EntryRecord]
         /\ \A d \in P!Entry \ {e} : entry'[d] = entry[d]
         /\ entry'[e] = [status |-> "made", product |-> p, qty |-> n] /\ entry[e].status # "made"
    BY <1>2, <2>2, <2>3 DEF P!TypeOK, EntryRecord, P!Unmade
  <2>11. P!StockExplained'
    <3>1. SUFFICES ASSUME NEW q \in 1..Products
                   PROVE  stock'[q].onHand + Total(UsedBy(entry', q)) = moved[q] + Total(MadeBy(entry', q))
      BY <1>1, TotalsOfState DEF P!StockExplained
    <3>2. stock[q].onHand + Total(UsedBy(entry, q)) = moved[q] + Total(MadeBy(entry, q))
      BY TotalsOfState DEF P!ProductionInv, P!StockExplained
    <3>3. /\ Total(MadeBy(entry', q)) = Total(MadeBy(entry, q)) + IF p = q THEN n ELSE 0
          /\ Total(UsedBy(entry', q)) = Total(UsedBy(entry, q)) + IF p = q THEN 0 ELSE Bill[p][q] * n
      BY <2>10, OneMoreEntry
    <3>4. /\ Total(MadeBy(entry, q)) \in Nat /\ Total(UsedBy(entry, q)) \in Nat
          /\ moved[q] \in Int /\ stock[q].onHand \in Int
      BY <1>2, <2>5, <2>10, SumsAreNumbers DEF P!TypeOK
    <3>5. PICK used : used = Bill[p][q] * n
      OBVIOUS
    <3> QED BY <2>2, <2>6, <2>7, <3>2, <3>3, <3>4, <3>5
  <2> QED BY <1>1, <1>2, <2>1, <2>3, <2>8, <2>9, <2>10, <2>11, CommitKeeps
<1> QED BY <1>3, <1>4

\* What is undone is undone once: the entry stood when its row was locked.
LEMMA CommitReverseKeeps ==
    ASSUME P!ProductionInv, NEW t \in Clerk, P!CommitReverse(t)
    PROVE  P!ProductionInv'
<1>1. session[t].op = "reverse" /\ session[t].todo = {} /\ P!End(t) /\ moved' = moved
  BY DEF P!CommitReverse
<1>2. P!TypeOK /\ P!Working(t)
  BY <1>1 DEF P!ProductionInv, P!Working, P!Idle
<1>3. CASE UNCHANGED <<stock, entry>>
  BY <1>1, <1>3, EndKeeps
<1>4. CASE ~UNCHANGED <<stock, entry>>
  <2>1. PICK p, n, e : p = session[t].product /\ n = session[t].qty /\ e = session[t].entry
    OBVIOUS
  <2>2. /\ p \in 1..Products /\ n \in Nat /\ e \in P!Entry
        /\ owner[P!EntryRow(e)] = t
        /\ entry[e].status = "made" /\ entry[e].product = p /\ entry[e].qty = n
    BY <1>1, <1>2, <2>1, WorkingJob, HasLockedAll
  <2>3. entry' = [entry EXCEPT ![e].status = "reversed"]
    BY <1>4, <2>1 DEF P!CommitReverse
  <2>4. stock' = [q \in 1..Products |-> [stock[q] EXCEPT !.onHand =
                    IF q = p THEN @ - n ELSE @ + Bill[p][q] * n]]
    BY <1>4, <2>1 DEF P!CommitReverse
  <2>5. \A q \in 1..Products : stock[q] \in [onHand : Int, reserved : Int]
    BY <1>2 DEF P!TypeOK
  <2>6. \A q \in 1..Products : Bill[p][q] * n \in Nat
    <3>1. \A a, b \in Nat : a * b \in Nat
      OBVIOUS
    <3> QED BY <2>2, <3>1, BillCounts
  <2>7. \A q \in 1..Products :
          /\ stock'[q] \in [onHand : Int, reserved : Int]
          /\ stock'[q].onHand = IF q = p THEN stock[q].onHand - n ELSE stock[q].onHand + Bill[p][q] * n
    BY <2>2, <2>4, <2>5, <2>6
  <2>8. stock' \in [1..Products -> [onHand : Int, reserved : Int]]
    BY <2>4, <2>7
  <2>9. \A q \in 1..Products : q # p /\ Bill[p][q] = 0 => stock'[q].onHand = stock[q].onHand
    BY <2>2, <2>5, <2>7
  <2>10. /\ entry \in [P!Entry -> EntryRecord] /\ entry' \in [P!Entry -> EntryRecord]
         /\ \A d \in P!Entry \ {e} : entry'[d] = entry[d]
         /\ entry'[e].product = p /\ entry'[e].qty = n /\ entry'[e].status # "made"
         /\ entry'[e] # P!Unmade
    <3>1. entry \in [P!Entry -> EntryRecord]
      BY <1>2 DEF P!TypeOK, EntryRecord
    <3>2. entry[e] \in [status : {"made", "reversed"}, product : 1..Products, qty : Nat]
      BY <2>2, <3>1 DEF EntryRecord, P!Unmade
    <3> QED BY <2>2, <2>3, <3>1, <3>2 DEF EntryRecord, P!Unmade
  <2>11. P!StockExplained'
    <3>1. SUFFICES ASSUME NEW q \in 1..Products
                   PROVE  stock'[q].onHand + Total(UsedBy(entry', q)) = moved[q] + Total(MadeBy(entry', q))
      BY <1>1, TotalsOfState DEF P!StockExplained
    <3>2. stock[q].onHand + Total(UsedBy(entry, q)) = moved[q] + Total(MadeBy(entry, q))
      BY TotalsOfState DEF P!ProductionInv, P!StockExplained
    <3>3. /\ Total(MadeBy(entry, q)) = Total(MadeBy(entry', q)) + IF p = q THEN n ELSE 0
          /\ Total(UsedBy(entry, q)) = Total(UsedBy(entry', q)) + IF p = q THEN 0 ELSE Bill[p][q] * n
      BY <2>2, <2>10, OneMoreEntry
    <3>4. /\ Total(MadeBy(entry', q)) \in Nat /\ Total(UsedBy(entry', q)) \in Nat
          /\ moved[q] \in Int /\ stock[q].onHand \in Int
      BY <1>2, <2>5, <2>10, SumsAreNumbers DEF P!TypeOK
    <3>5. PICK used : used = Bill[p][q] * n
      OBVIOUS
    <3> QED BY <2>2, <2>6, <2>7, <3>2, <3>3, <3>4, <3>5
  <2> QED BY <1>1, <1>2, <2>1, <2>2, <2>8, <2>9, <2>10, <2>11, CommitKeeps
<1> QED BY <1>3, <1>4

\* Orders and counts move a row that nobody has locked.
LEMMA OthersKeep ==
    ASSUME P!ProductionInv, NEW p \in 1..Products, P!Others(p)
    PROVE  P!ProductionInv'
<1>1. PICK h \in 0..MaxStock, r \in 0..MaxStock :
        /\ stock' = [stock EXCEPT ![p] = [onHand |-> h, reserved |-> r]]
        /\ moved' = [moved EXCEPT ![p] = @ + h - stock[p].onHand]
  BY DEF P!Others
<1>2. P!TypeOK /\ owner[P!ProductRow(p)] = P!Nobody /\ UNCHANGED <<entry, session, owner>>
  BY DEF P!ProductionInv, P!Others
<1>3. h \in Int /\ r \in Int /\ stock[p].onHand \in Int /\ moved[p] \in Int
  BY <1>2, ProductionAssumption DEF P!TypeOK
<1>4. P!TypeOK'
  BY <1>1, <1>2, <1>3 DEF P!TypeOK
<1>5. ASSUME NEW t \in Clerk PROVE P!Holds(t)'
  <2>1. \A q \in 1..Products : owner[P!ProductRow(q)] = t => stock'[q].onHand = stock[q].onHand
    BY <1>1, <1>2, ProductionAssumption DEF P!TypeOK, P!Nobody
  <2> QED BY <1>2, <2>1, HoldsStays DEF P!ProductionInv
<1>6. P!StockExplained'
  <2>1. SUFFICES ASSUME NEW q \in 1..Products
                 PROVE  stock'[q].onHand + Total(UsedBy(entry, q)) = moved'[q] + Total(MadeBy(entry, q))
    BY <1>2, TotalsOfState DEF P!StockExplained
  <2>2. stock[q].onHand + Total(UsedBy(entry, q)) = moved[q] + Total(MadeBy(entry, q))
    BY TotalsOfState DEF P!ProductionInv, P!StockExplained
  <2>3. Total(MadeBy(entry, q)) \in Nat /\ Total(UsedBy(entry, q)) \in Nat
    BY <1>2, SumsAreNumbers DEF P!TypeOK, EntryRecord
  <2>4. CASE q = p
    <3>1. stock'[q].onHand = h /\ moved'[q] = moved[q] + h - stock[q].onHand
      BY <1>1, <1>2, <2>4 DEF P!TypeOK
    <3> QED BY <1>3, <2>2, <2>3, <2>4, <3>1
  <2>5. CASE q # p
    BY <1>1, <1>2, <2>2, <2>5 DEF P!TypeOK
  <2> QED BY <2>4, <2>5
<1> QED BY <1>4, <1>5, <1>6 DEF P!ProductionInv

LEMMA ProductionStarts ==
    ASSUME P!Init
    PROVE  P!ProductionInv
<1>1. /\ moved = [p \in 1..Products |-> MaxStock]
      /\ stock = [p \in 1..Products |-> [onHand |-> MaxStock, reserved |-> 0]]
      /\ entry = [e \in P!Entry |-> P!Unmade] /\ session = [t \in Clerk |-> P!Idle]
      /\ owner = [r \in P!Row |-> P!Nobody]
  BY DEF P!Init
<1>2. P!TypeOK
  BY <1>1, ProductionAssumption DEF P!TypeOK
<1>3. P!StockExplained
  <2>1. SUFFICES ASSUME NEW q \in 1..Products
                 PROVE  stock[q].onHand + Total(UsedBy(entry, q)) = moved[q] + Total(MadeBy(entry, q))
    BY TotalsOfState DEF P!StockExplained
  <2>2. /\ MadeBy(entry, q) \in [P!Entry -> Nat] /\ UsedBy(entry, q) \in [P!Entry -> Nat]
    BY <1>2, SumsAreNumbers DEF P!TypeOK, EntryRecord
  <2>3. \A e \in P!Entry : MadeBy(entry, q)[e] = 0 /\ UsedBy(entry, q)[e] = 0
    BY <1>1 DEF MadeBy, UsedBy, P!Unmade
  <2>4. Total(MadeBy(entry, q)) = 0 /\ Total(UsedBy(entry, q)) = 0
    BY <2>2, <2>3, TotalOfNothing
  <2>5. stock[q].onHand = MaxStock /\ moved[q] = MaxStock
    BY <1>1
  <2> QED BY <2>4, <2>5, ProductionAssumption
<1>4. \A t \in Clerk : P!Holds(t)
  BY <1>1 DEF P!Holds, P!Working
<1> QED BY <1>2, <1>3, <1>4 DEF P!ProductionInv

LEMMA ProductionKeeps ==
    ASSUME P!ProductionInv, [P!Next]_(P!vars)
    PROVE  P!ProductionInv'
<1>1. CASE UNCHANGED P!vars
  BY <1>1 DEF P!vars, P!ProductionInv, P!TypeOK, P!StockExplained, P!Made, P!Used, P!Total, P!Units,
              P!Holds, P!Working, P!Needed, P!ProductRows
<1>2. ASSUME NEW t \in Clerk, P!Rollback(t) PROVE P!ProductionInv'
  BY <1>2, EndKeeps DEF P!Rollback
<1> QED BY <1>1, <1>2, BeginKeeps, LockKeeps, CommitCompleteKeeps, CommitReverseKeeps, OthersKeep
        DEF P!Next

\* No production is undone twice and none is lost under another.
THEOREM ProductionExplainsStock == Spec => []StockExplained
<1>1. Init => P!ProductionInv
  BY ProductionStarts DEF Init
<1>2. P!ProductionInv /\ [Next]_vars => P!ProductionInv'
  BY EachPart, ProductionKeeps
<1>3. P!ProductionInv => StockExplained
  BY DEF P!ProductionInv, StockExplained
<1> QED BY <1>1, <1>2, <1>3, PTL DEF Spec
-----------------------------------------------------------------------------
(* Alerts.                                                                 *)

LEMMA CallsAre ==
    ASSUME A!TypeOK
    PROVE  /\ A!Calls["stock_critical"] = IF world.level = "critical" THEN "critical" ELSE "none"
           /\ A!Calls["stock_risk"] = IF world.level = "warning" THEN "warning" ELSE "none"
           /\ A!Calls["order_deadline"] = IF world.level = "gone" THEN "none" ELSE world.deadline
           /\ A!Calls["order_shortage"] = IF world.short /\ world.level # "gone" THEN "critical" ELSE "none"
           /\ \A t \in A!ProductType : A!Calls[t] \in A!Severity \cup {"none"}
           /\ \A t : A!Called(t) <=> A!Calls[t] # "none"
  BY DEF A!TypeOK, A!Calls, A!ProductType, A!Severity, A!Called

\* What is asked of a type depends on its alert alone while nothing else changes.
LEMMA CallsStay ==
    ASSUME world' = world, dismissed' = dismissed
    PROVE  /\ A!Calls' = A!Calls
           /\ \A t : A!Called(t)' <=> A!Called(t)
           /\ \A t : alert'[t] = alert[t] => (A!Answered(t)' <=> A!Answered(t))
<1>1. A!Calls' = A!Calls
  BY DEF A!Calls
<1>2. \A t : A!Called(t)' <=> A!Called(t)
  BY <1>1 DEF A!Called
<1>3. \A t : A!IsBlockedByDismiss(t, A!Calls[t])' <=> A!IsBlockedByDismiss(t, A!Calls[t])
  BY <1>1 DEF A!IsBlockedByDismiss
<1> QED BY <1>1, <1>2, <1>3 DEF A!Answered

LEMMA TypeNames ==
    /\ A!ProductType = {"stock_critical", "stock_risk", "order_deadline", "order_shortage"}
    /\ A!Type = A!ProductType \cup {"po_overdue"} /\ "po_overdue" \notin A!ProductType
  BY DEF A!ProductType, A!Type

\* A run in the instance, and its place in the invariant.
LEMMA RunIs ==
    ASSUME A!TypeOK, NEW s \in Scan
    PROVE  /\ A!Busy(scan[s]) => scan[s] \in A!Plan
           /\ ~A!Busy(scan[s]) => scan[s] \in [pc : {"idle", "done"}, calm : BOOLEAN]
  BY DEF A!TypeOK, A!Busy, A!Plan

\* Facts about a plan, of the state after the step.
LEMMA PlanThen ==
    ASSUME NEW s \in Scan, NEW p, scan'[s] = p,
           A!PlanFits(p)', A!CalmInStock(p)', A!CalmInOverdue(p)'
    PROVE  A!PlanFits(scan[s])' /\ A!CalmInStock(scan[s])' /\ A!CalmInOverdue(scan[s])'
  BY DEF A!PlanFits, A!CalmInStock, A!CalmInOverdue, A!Busy, A!Creating, A!Closing, A!Replacing

\* A run that has been disturbed promises nothing but that its writes fit.
LEMMA DisturbedRun ==
    ASSUME A!ScanInv, NEW s \in Scan, NEW p, p = [scan[s] EXCEPT !.calm = FALSE]
    PROVE  /\ p.pc = scan[s].pc /\ p.calm = FALSE
           /\ p \in [pc : {"idle", "done"}, calm : BOOLEAN] \cup A!Plan
           /\ A!PlanFits(p)' /\ A!CalmInStock(p)' /\ A!CalmInOverdue(p)'
<1>1. A!TypeOK /\ A!PlanFits(scan[s])
  BY DEF A!ScanInv
<1>2. CASE A!Busy(scan[s])
  <2>1. scan[s] \in A!Plan
    BY <1>1, <1>2, RunIs
  <2>2. /\ p \in A!Plan /\ p.pc = scan[s].pc /\ p.calm = FALSE /\ p.saw = scan[s].saw
        /\ p.create = scan[s].create /\ p.resolve = scan[s].resolve /\ p.later = scan[s].later
    BY <2>1 DEF A!Plan
  <2>3. A!PlanFits(p)'
    BY <1>1, <1>2, <2>2 DEF A!PlanFits, A!Busy, A!Fits
  <2> QED BY <2>2, <2>3 DEF A!CalmInStock, A!CalmInOverdue
<1>3. CASE ~A!Busy(scan[s])
  <2>1. scan[s] \in [pc : {"idle", "done"}, calm : BOOLEAN]
    BY <1>1, <1>3, RunIs
  <2>2. p \in [pc : {"idle", "done"}, calm : BOOLEAN] /\ p.pc = scan[s].pc /\ p.calm = FALSE
    BY <2>1
  <2> QED BY <2>2 DEF A!PlanFits, A!Busy, A!CalmInStock, A!CalmInOverdue
<1> QED BY <1>2, <1>3

AlertRecord == {A!Off} \cup [on : {TRUE}, source : {"system", "ai"}, severity : A!Severity]
World == [level : A!AllLevels, deadline : {"none", "warning", "critical"}, short : BOOLEAN, late : BOOLEAN]

\* Somebody else writes: every run is disturbed.
LEMMA DisturbKeeps ==
    ASSUME A!ScanInv, scan' = A!Disturb, world' \in World, alert' \in [A!Type -> AlertRecord],
           \A t \in A!Type : alert'[t].on => A!Fits(t, alert'[t].source, alert'[t].severity)
    PROVE  A!ScanInv'
<1>1. ASSUME NEW s \in Scan
      PROVE  /\ scan'[s].pc = scan[s].pc /\ scan'[s].calm = FALSE
             /\ scan'[s] \in [pc : {"idle", "done"}, calm : BOOLEAN] \cup A!Plan
             /\ A!PlanFits(scan[s])' /\ A!CalmInStock(scan[s])' /\ A!CalmInOverdue(scan[s])'
  <2>1. PICK p : p = [scan[s] EXCEPT !.calm = FALSE]
    OBVIOUS
  <2>2. scan'[s] = p
    BY <2>1 DEF A!Disturb
  <2> QED BY <2>1, <2>2, DisturbedRun, PlanThen
<1>2. scan' \in [Scan -> [pc : {"idle", "done"}, calm : BOOLEAN] \cup A!Plan]
  BY <1>1 DEF A!Disturb
<1>3. A!TypeOK'
  BY <1>1, <1>2 DEF A!TypeOK, World, AlertRecord, A!Severity, A!AllLevels, A!Type, A!ProductType,
                    A!Off, A!Plan, A!New
<1>4. A!ScanSettles'
  BY <1>1 DEF A!ScanSettles
<1>5. \A t \in A!Type : (alert[t].on => A!Fits(t, alert[t].source, alert[t].severity))'
  BY DEF A!Fits, A!Type, A!ProductType
<1> QED BY <1>1, <1>3, <1>4, <1>5 DEF A!ScanInv, A!Type, A!ProductType

\* A run goes on by itself, and nothing else changes.
LEMMA OneRunKeeps ==
    ASSUME A!ScanInv, NEW s \in Scan, NEW p \in [pc : {"idle", "done"}, calm : BOOLEAN] \cup A!Plan,
           scan' = [scan EXCEPT ![s] = p], UNCHANGED <<world, alert, dismissed>>,
           p.pc = "idle" => ~p.calm,
           p.pc = "done" /\ p.calm =>
               (\A t \in A!ProductType : A!Answered(t)) /\ alert["po_overdue"].on = world.late,
           A!PlanFits(p)', A!CalmInStock(p)', A!CalmInOverdue(p)'
    PROVE  A!ScanInv'
<1>1. A!TypeOK
  BY DEF A!ScanInv
<1>2. scan'[s] = p /\ \A u \in Scan \ {s} : scan'[u] = scan[u]
  BY <1>1 DEF A!TypeOK
<1>3. A!TypeOK'
  BY <1>1, <1>2 DEF A!TypeOK
<1>4. ASSUME NEW u \in Scan
      PROVE  A!PlanFits(scan[u])' /\ A!CalmInStock(scan[u])' /\ A!CalmInOverdue(scan[u])'
  <2>1. CASE u = s
    BY <1>2, <2>1, PlanThen
  <2>2. CASE u # s
    <3>1. PICK q : q = scan[u]
      OBVIOUS
    <3>2. scan'[u] = q
      BY <1>2, <2>2, <3>1
    <3>3. A!PlanFits(q) /\ A!CalmInStock(q) /\ A!CalmInOverdue(q)
      BY <3>1 DEF A!ScanInv
    <3>4. A!PlanFits(q)' /\ A!CalmInStock(q)' /\ A!CalmInOverdue(q)'
      BY <3>3, CallsStay DEF A!PlanFits, A!CalmInStock, A!CalmInOverdue, A!Busy, A!Fits, A!Creating,
                             A!Closing, A!Replacing, A!ProductType
    <3> QED BY <3>2, <3>4, PlanThen
  <2> QED BY <2>1, <2>2
<1>5. A!ScanSettles'
  <2>1. SUFFICES ASSUME NEW u \in Scan, scan'[u].pc = "done", scan'[u].calm
                 PROVE  /\ \A t \in A!ProductType : A!Answered(t)'
                        /\ alert'["po_overdue"].on = world'.late
    BY DEF A!ScanSettles, A!ProductType
  <2>2. (\A t \in A!ProductType : A!Answered(t)) /\ alert["po_overdue"].on = world.late
    BY <1>2, <2>1 DEF A!ScanInv, A!ScanSettles
  <2> QED BY <2>2, CallsStay
<1>6. \A t \in A!Type : (alert[t].on => A!Fits(t, alert[t].source, alert[t].severity))'
  BY DEF A!ScanInv, A!Fits, A!Type, A!ProductType
<1> QED BY <1>3, <1>4, <1>5, <1>6 DEF A!ScanInv, A!Type, A!ProductType

\* A run writes, and the others are disturbed.
LEMMA DidKeeps ==
    ASSUME A!ScanInv, NEW s \in Scan, NEW p \in A!Plan, A!Did(s, p),
           alert' \in [A!Type -> AlertRecord],
           \A t \in A!Type : alert'[t].on => A!Fits(t, alert'[t].source, alert'[t].severity),
           A!PlanFits(p)', A!CalmInStock(p)', A!CalmInOverdue(p)'
    PROVE  A!ScanInv'
<1>1. A!TypeOK /\ scan' = [A!Disturb EXCEPT ![s] = p] /\ UNCHANGED <<world, dismissed>>
  BY DEF A!ScanInv, A!Did
<1>2. scan'[s] = p /\ p.pc \in {"stock", "overdue"}
  BY <1>1 DEF A!Disturb, A!Plan
<1>3. ASSUME NEW u \in Scan \ {s}
      PROVE  /\ scan'[u].pc = scan[u].pc /\ scan'[u].calm = FALSE
             /\ scan'[u] \in [pc : {"idle", "done"}, calm : BOOLEAN] \cup A!Plan
             /\ A!PlanFits(scan[u])' /\ A!CalmInStock(scan[u])' /\ A!CalmInOverdue(scan[u])'
  <2>1. PICK q : q = [scan[u] EXCEPT !.calm = FALSE]
    OBVIOUS
  <2>2. scan'[u] = q
    BY <1>1, <2>1 DEF A!Disturb
  <2> QED BY <2>1, <2>2, DisturbedRun, PlanThen
<1>4. A!PlanFits(scan[s])' /\ A!CalmInStock(scan[s])' /\ A!CalmInOverdue(scan[s])'
  BY <1>2, PlanThen
<1>5. scan' \in [Scan -> [pc : {"idle", "done"}, calm : BOOLEAN] \cup A!Plan]
  <2>1. \A u \in Scan : scan'[u] \in [pc : {"idle", "done"}, calm : BOOLEAN] \cup A!Plan
    BY <1>2, <1>3
  <2> QED BY <1>1, <2>1 DEF A!Disturb
<1>6. \A u \in Scan : scan'[u].pc = "idle" => ~scan'[u].calm
  BY <1>2, <1>3
<1>7. A!TypeOK'
  BY <1>1, <1>5, <1>6 DEF A!TypeOK, AlertRecord, A!Severity, A!AllLevels, A!Type, A!ProductType,
                          A!Off, A!Plan, A!New
<1>8. A!ScanSettles'
  BY <1>2, <1>3 DEF A!ScanSettles
<1>9. \A t \in A!Type : (alert[t].on => A!Fits(t, alert[t].source, alert[t].severity))'
  BY DEF A!Fits, A!Type, A!ProductType
<1> QED BY <1>3, <1>4, <1>7, <1>8, <1>9 DEF A!ScanInv, A!Type, A!ProductType

\* What filing and closing an alert leaves.
LEMMA AlertFiled ==
    ASSUME A!ScanInv, NEW a, a.type \in A!Type, a.source \in {"system", "ai"}, a.severity \in A!Severity,
           A!Fits(a.type, a.source, a.severity), A!CreateAlert(a)
    PROVE  /\ alert' \in [A!Type -> AlertRecord]
           /\ \A t \in A!Type : alert'[t].on => A!Fits(t, alert'[t].source, alert'[t].severity)
           /\ \A t \in A!Type : t # a.type => alert'[t] = alert[t]
           /\ alert'[a.type].on
           /\ alert[a.type].on => alert'[a.type] = alert[a.type]
           /\ ~alert[a.type].on => alert'[a.type].severity = a.severity
<1>1. /\ alert \in [A!Type -> AlertRecord]
      /\ \A t \in A!Type : alert[t].on => A!Fits(t, alert[t].source, alert[t].severity)
  BY DEF A!ScanInv, A!TypeOK, AlertRecord
<1>2. CASE alert[a.type].on
  BY <1>1, <1>2 DEF A!CreateAlert
<1>3. CASE ~alert[a.type].on
  <2>1. PICK n : n = [on |-> TRUE, source |-> a.source, severity |-> a.severity]
    OBVIOUS
  <2>2. alert' = [alert EXCEPT ![a.type] = n]
    BY <1>3, <2>1 DEF A!CreateAlert, A!On
  <2>3. n \in AlertRecord /\ n.on /\ n.source = a.source /\ n.severity = a.severity
    BY <2>1 DEF AlertRecord
  <2> QED BY <1>1, <1>3, <2>2, <2>3
<1> QED BY <1>2, <1>3

LEMMA AlertClosed ==
    ASSUME A!ScanInv, NEW t \in A!Type, NEW closes \in BOOLEAN,
           alert' = IF closes THEN [alert EXCEPT ![t] = A!Off] ELSE alert
    PROVE  /\ alert' \in [A!Type -> AlertRecord]
           /\ \A u \in A!Type : alert'[u].on => A!Fits(u, alert'[u].source, alert'[u].severity)
           /\ \A u \in A!Type : u # t => alert'[u] = alert[u]
           /\ alert'[t].on <=> alert[t].on /\ ~closes
           /\ ~closes => alert'[t] = alert[t]
  BY DEF A!ScanInv, A!TypeOK, AlertRecord, A!Off

\* The product, the persons and the assistant change what the runs have read.
LEMMA DisturbancesKeep ==
    ASSUME A!ScanInv,
           \/ A!Change \/ A!AiAnswer
           \/ \E t \in A!Type : A!Close(t)
           \/ \E t \in A!ProductType : A!DayPasses(t)
    PROVE  A!ScanInv'
<1>1. /\ A!TypeOK /\ alert \in [A!Type -> AlertRecord] /\ world \in World
      /\ \A t \in A!Type : alert[t].on => A!Fits(t, alert[t].source, alert[t].severity)
  BY DEF A!ScanInv, A!TypeOK, AlertRecord, World
<1>2. CASE A!Change
  <2>1. world' \in World /\ scan' = A!Disturb /\ alert' = alert
    BY <1>2 DEF A!Change, A!Worlds, A!Levels, A!Deadlines, A!Truths, World, A!AllLevels
  <2> QED BY <1>1, <2>1, DisturbKeeps
<1>3. CASE \E t \in A!ProductType : A!DayPasses(t)
  <2>1. UNCHANGED <<world, alert>> /\ scan' = A!Disturb
    BY <1>3 DEF A!DayPasses
  <2> QED BY <1>1, <2>1, DisturbKeeps
<1>4. ASSUME NEW t \in A!Type, A!Close(t) PROVE A!ScanInv'
  <2>1. world' = world /\ scan' = A!Disturb /\ alert' = IF TRUE THEN [alert EXCEPT ![t] = A!Off] ELSE alert
    BY <1>4 DEF A!Close
  <2>2. /\ alert' \in [A!Type -> AlertRecord]
        /\ \A u \in A!Type : alert'[u].on => A!Fits(u, alert'[u].source, alert'[u].severity)
    BY <2>1, AlertClosed
  <2> QED BY <1>1, <2>1, <2>2, DisturbKeeps
<1>5. CASE A!AiAnswer
  <2>1. world' = world /\ scan' = A!Disturb
    BY <1>5 DEF A!AiAnswer
  <2>2. CASE alert' = alert
    BY <1>1, <2>1, <2>2, DisturbKeeps
  <2>3. ASSUME NEW severity \in {"info", "warning"},
               A!CreateAlert([type |-> "stock_risk", source |-> "ai", severity |-> severity])
        PROVE  A!ScanInv'
    <3>1. PICK a : a = [type |-> "stock_risk", source |-> "ai", severity |-> severity]
      OBVIOUS
    <3>2. /\ a.type = "stock_risk" /\ a.source = "ai" /\ a.severity = severity /\ A!CreateAlert(a)
      BY <2>3, <3>1
    <3>3. /\ a.type \in A!Type /\ a.severity \in A!Severity /\ A!Fits(a.type, a.source, a.severity)
      BY <3>2, TypeNames DEF A!Severity, A!Fits
    <3>4. /\ alert' \in [A!Type -> AlertRecord]
          /\ \A u \in A!Type : alert'[u].on => A!Fits(u, alert'[u].source, alert'[u].severity)
      BY <3>2, <3>3, AlertFiled
    <3> QED BY <1>1, <2>1, <3>4, DisturbKeeps
  <2>4. CASE alert' = [alert EXCEPT !["stock_risk"] = A!Off]
    <3>1. alert' = IF TRUE THEN [alert EXCEPT !["stock_risk"] = A!Off] ELSE alert
      BY <2>4
    <3>2. /\ alert' \in [A!Type -> AlertRecord]
          /\ \A u \in A!Type : alert'[u].on => A!Fits(u, alert'[u].source, alert'[u].severity)
      BY <3>1, AlertClosed, TypeNames
    <3> QED BY <1>1, <2>1, <3>2, DisturbKeeps
  <2> QED BY <1>5, <2>2, <2>3, <2>4 DEF A!AiAnswer
<1> QED BY <1>2, <1>3, <1>4, <1>5

\* What a run decides answers every type of the product, now or by its writes.
LEMMA PlanIsCalm ==
    ASSUME A!ScanInv, NEW p, p = A!StockPlan
    PROVE  p \in A!Plan /\ p.pc = "stock" /\ A!PlanFits(p) /\ A!CalmInStock(p)
<1>1. /\ A!TypeOK /\ world \in World
      /\ alert \in [A!Type -> AlertRecord]
      /\ \A t \in A!Type : alert[t].on => A!Fits(t, alert[t].source, alert[t].severity)
  BY DEF A!ScanInv, A!TypeOK, World, AlertRecord
<1>2. /\ p.pc = "stock" /\ p.calm = TRUE /\ p.saw = world.level
      /\ p.create = A!Creates /\ p.resolve = A!Resolves
      /\ p.later = IF A!Worsened THEN {[type |-> "order_deadline", source |-> "system",
                                        severity |-> world.deadline]} ELSE {}
  BY DEF A!StockPlan
<1>3. \A a : a \in p.create <=> \E t \in A!ProductType :
         /\ A!Calls[t] # "none" /\ ~alert[t].on /\ ~A!IsBlockedByDismiss(t, A!Calls[t])
         /\ a = [type |-> t, source |-> "system", severity |-> A!Calls[t]]
  BY <1>2 DEF A!Creates
<1>4. PICK closed : closed = {t \in A!ProductType :
         \/ t \in A!ResolvedTypes
         \/ t = "order_deadline" /\ world.level # "gone" /\ (world.deadline = "none" \/ A!Worsened)
         \/ t = "order_shortage" /\ world.level # "gone" /\ ~world.short}
  OBVIOUS
<1>5. \A r : r \in p.resolve <=> \E t \in closed :
         r = [type |-> t, own |-> [level |-> world.level, type |-> t] \in A!OwnOnly]
  <2>1. A!ResolvedTypes \subseteq A!ProductType
    BY TypeNames DEF A!ResolvedTypes
  <2>2. closed = A!ResolvedTypes
          \cup {t \in {"order_deadline"} : world.level # "gone" /\ (world.deadline = "none" \/ A!Worsened)}
          \cup {t \in {"order_shortage"} : world.level # "gone" /\ ~world.short}
    BY <1>4, <2>1, TypeNames
  <2> QED BY <1>2, <2>2 DEF A!Resolves
<1>6. \A t : [level |-> world.level, type |-> t] \in A!OwnOnly <=>
         world.level = "healthy" /\ t \in {"stock_critical", "stock_risk"}
  BY DEF A!OwnOnly
<1>7. \A r \in p.resolve : /\ r.type \in closed /\ r.own \in BOOLEAN
                           /\ r \in [type : A!Type, own : BOOLEAN]
                           /\ r.own <=> world.level = "healthy" /\ r.type \in {"stock_critical", "stock_risk"}
  <2>1. SUFFICES ASSUME NEW r \in p.resolve
                 PROVE  /\ r.type \in closed /\ r.own \in BOOLEAN
                        /\ r \in [type : A!Type, own : BOOLEAN]
                        /\ r.own <=> world.level = "healthy" /\ r.type \in {"stock_critical", "stock_risk"}
    OBVIOUS
  <2>2. PICK t \in closed : r = [type |-> t, own |-> [level |-> world.level, type |-> t] \in A!OwnOnly]
    BY <1>5
  <2>3. t \in A!Type
    BY <1>4, TypeNames
  <2>4. CASE [level |-> world.level, type |-> t] \in A!OwnOnly
    <3>1. r = [type |-> t, own |-> TRUE]
      BY <2>2, <2>4
    <3> QED BY <1>6, <2>3, <2>4, <3>1
  <2>5. CASE [level |-> world.level, type |-> t] \notin A!OwnOnly
    <3>1. ([level |-> world.level, type |-> t] \in A!OwnOnly) = FALSE
      BY <2>5
    <3>2. r = [type |-> t, own |-> FALSE]
      BY <2>2, <3>1, Zenon
    <3> QED BY <1>6, <2>3, <2>5, <3>2
  <2> QED BY <2>4, <2>5
<1>8. ASSUME NEW t \in closed PROVE A!Closing(p, t)
  <2>1. PICK r : r = [type |-> t, own |-> [level |-> world.level, type |-> t] \in A!OwnOnly]
    OBVIOUS
  <2>2. r \in p.resolve
    BY <1>5, <2>1
  <2>3. r.type = t
    BY <2>1
  <2> QED BY <2>2, <2>3 DEF A!Closing
<1>9. A!Worsened <=> /\ world.deadline # "none" /\ world.level # "gone" /\ alert["order_deadline"].on
                     /\ alert["order_deadline"].severity # world.deadline
  BY DEF A!Worsened
<1>10. \A t : t \in A!ResolvedTypes <=>
          \/ world.level = "critical" /\ t = "stock_risk"
          \/ world.level = "healthy" /\ t \in {"stock_critical", "stock_risk"}
          \/ world.level = "gone" /\ t \in A!ProductType /\ alert[t].on
  BY <1>1 DEF A!ResolvedTypes, World, A!AllLevels
<1>11. \A a \in p.create : /\ a \in A!New /\ a.type \in A!ProductType /\ A!Called(a.type)
                           /\ a.severity = A!Calls[a.type] /\ ~alert[a.type].on
                           /\ A!Fits(a.type, a.source, a.severity)
  <2>1. SUFFICES ASSUME NEW t \in A!ProductType, NEW a, A!Calls[t] # "none", ~alert[t].on,
                        a = [type |-> t, source |-> "system", severity |-> A!Calls[t]]
                 PROVE  /\ a \in A!New /\ a.type \in A!ProductType /\ A!Called(a.type)
                        /\ a.severity = A!Calls[a.type] /\ ~alert[a.type].on
                        /\ A!Fits(a.type, a.source, a.severity)
    BY <1>3
  <2>2. A!Calls[t] \in A!Severity /\ A!Called(t) /\ t \in A!Type
    BY <1>1, <2>1, CallsAre, TypeNames
  <2>3. a.type = t /\ a.source = "system" /\ a.severity = A!Calls[t] /\ a \in A!New
    BY <2>1, <2>2 DEF A!New
  <2>4. A!Fits(t, "system", A!Calls[t])
    BY <1>1, <2>1, CallsAre DEF A!Fits
  <2> QED BY <2>1, <2>2, <2>3, <2>4
<1>12. \A a \in p.later : /\ A!Worsened /\ a \in A!New /\ a.type = "order_deadline"
                          /\ a.severity = world.deadline /\ A!Fits(a.type, a.source, a.severity)
  BY <1>1, <1>2, <1>9, TypeNames DEF World, A!New, A!Severity, A!Fits
<1>13. p \in A!Plan
  <2>1. world.level \in A!AllLevels
    BY <1>1 DEF World
  <2>2. p = [pc |-> "stock", calm |-> TRUE, saw |-> world.level, create |-> p.create,
             resolve |-> p.resolve, later |-> p.later]
    BY <1>2 DEF A!StockPlan
  <2>3. p.create \in SUBSET A!New /\ p.later \in SUBSET A!New
    BY <1>11, <1>12
  <2>4. p.resolve \in SUBSET [type : A!Type, own : BOOLEAN]
    BY <1>7
  <2>5. PICK create \in SUBSET A!New, resolve \in SUBSET [type : A!Type, own : BOOLEAN],
             later \in SUBSET A!New, saw \in A!AllLevels :
          create = p.create /\ resolve = p.resolve /\ later = p.later /\ saw = world.level
    BY <2>1, <2>3, <2>4
  <2>6. p = [pc |-> "stock", calm |-> TRUE, saw |-> saw, create |-> create, resolve |-> resolve,
             later |-> later]
    BY <2>2, <2>5
  <2> QED BY <2>6 DEF A!Plan
<1>14. A!PlanFits(p)
  <2>1. ASSUME NEW r \in p.resolve, r.type = "stock_risk", ~r.own
        PROVE  p.saw \in {"critical", "gone"}
    BY <1>2, <1>4, <1>7, <1>10, <2>1
  <2> QED BY <1>11, <1>12, <2>1 DEF A!PlanFits
<1>15. A!Worsened => /\ A!Called("order_deadline") /\ A!Calls["order_deadline"] = world.deadline
                     /\ A!Closing(p, "order_deadline") /\ A!Replacing(p, "order_deadline")
                     /\ alert["order_deadline"].on
  <2>1. ASSUME A!Worsened PROVE "order_deadline" \in closed
    BY <1>4, <1>9, <2>1, TypeNames
  <2>2. ASSUME A!Worsened PROVE A!Replacing(p, "order_deadline")
    <3>1. PICK a : a = [type |-> "order_deadline", source |-> "system", severity |-> world.deadline]
      OBVIOUS
    <3>2. a \in p.later /\ a.type = "order_deadline"
      BY <1>2, <2>2, <3>1
    <3> QED BY <3>2 DEF A!Replacing
  <2> QED BY <1>1, <1>8, <1>9, <2>1, <2>2, CallsAre
<1>16. ASSUME NEW r \in p.resolve
       PROVE  /\ r.type \in A!ProductType
              /\ A!Called(r.type) => r.type = "order_deadline" /\ A!Replacing(p, "order_deadline")
  <2>1. r.type \in closed
    BY <1>7
  <2>2. r.type \in A!ProductType
    BY <1>4, <2>1
  <2>3. CASE r.type \in A!ResolvedTypes
    <3>1. ~A!Called(r.type)
      BY <1>1, <1>10, <2>2, <2>3, CallsAre, TypeNames
    <3> QED BY <2>2, <3>1
  <2>4. CASE r.type = "order_deadline" /\ world.level # "gone" /\ (world.deadline = "none" \/ A!Worsened)
    BY <1>1, <1>15, <2>2, <2>4, CallsAre
  <2>5. CASE r.type = "order_shortage" /\ world.level # "gone" /\ ~world.short
    BY <1>1, <2>2, <2>5, CallsAre
  <2> QED BY <1>4, <2>1, <2>3, <2>4, <2>5
<1>17. ASSUME NEW t \in A!ProductType
       PROVE  A!Answered(t) \/ A!Creating(p, t) \/ A!Closing(p, t) \/ A!Replacing(p, t)
  <2>1. CASE A!Called(t) /\ ~alert[t].on
    <3>1. CASE A!IsBlockedByDismiss(t, A!Calls[t])
      BY <2>1, <3>1 DEF A!Answered
    <3>2. CASE ~A!IsBlockedByDismiss(t, A!Calls[t])
      <4>1. PICK a : a = [type |-> t, source |-> "system", severity |-> A!Calls[t]]
        OBVIOUS
      <4>2. a \in p.create
        BY <1>1, <1>3, <2>1, <3>2, <4>1, CallsAre
      <4>3. a.type = t
        BY <4>1
      <4> QED BY <4>2, <4>3 DEF A!Creating
    <3> QED BY <3>1, <3>2
  <2>2. CASE A!Called(t) /\ alert[t].on
    <3>1. A!Fits(t, alert[t].source, alert[t].severity)
      BY <1>1, <2>2, TypeNames
    <3>2. CASE t = "order_deadline"
      BY <1>1, <1>9, <1>15, <2>2, <3>2, CallsAre DEF A!Answered
    <3>3. CASE t # "order_deadline"
      BY <1>1, <2>2, <3>1, <3>3, CallsAre, TypeNames DEF A!Answered, A!Fits
    <3> QED BY <3>2, <3>3
  <2>3. CASE ~A!Called(t) /\ ~alert[t].on
    BY <2>3 DEF A!Answered
  <2>4. CASE ~A!Called(t) /\ alert[t].on
    <3>1. t \in closed \/ (t = "stock_critical" /\ world.level = "warning")
      <4>1. world.level \in {"critical", "warning", "healthy", "gone"}
        BY <1>1 DEF World, A!AllLevels
      <4>2. t \in A!ResolvedTypes => t \in closed
        BY <1>4
      <4>3. CASE world.level = "gone"
        <5>1. t \in A!ResolvedTypes
          BY <1>10, <2>4, <4>3
        <5> QED BY <4>2, <5>1
      <4>4. CASE world.level # "gone" /\ t = "order_deadline"
        <5>1. world.deadline = "none"
          BY <1>1, <2>4, <4>4, CallsAre
        <5>2. t \in closed
          BY <1>4, <4>4, <5>1
        <5> QED BY <5>2
      <4>5. CASE world.level # "gone" /\ t = "order_shortage"
        <5>1. ~world.short
          BY <1>1, <2>4, <4>5, CallsAre
        <5>2. t \in closed
          BY <1>4, <4>5, <5>1
        <5> QED BY <5>2
      <4>6. CASE t = "stock_critical" /\ world.level \in {"critical", "warning", "healthy"}
        <5>1. world.level # "critical"
          BY <1>1, <2>4, <4>6, CallsAre
        <5>2. world.level = "healthy" => t \in A!ResolvedTypes
          BY <1>10, <4>6
        <5> QED BY <4>2, <4>6, <5>1, <5>2
      <4>7. CASE t = "stock_risk" /\ world.level \in {"critical", "warning", "healthy"}
        <5>1. world.level # "warning"
          BY <1>1, <2>4, <4>7, CallsAre
        <5>2. t \in A!ResolvedTypes
          BY <1>10, <4>7, <5>1
        <5> QED BY <4>2, <5>2
      <4> QED BY <4>1, <4>3, <4>4, <4>5, <4>6, <4>7, TypeNames
    <3> QED BY <1>8, <2>4, <3>1 DEF A!Answered
  <2> QED BY <2>1, <2>2, <2>3, <2>4
<1>18. A!CalmInStock(p)
  <2>1. ASSUME NEW a \in p.later PROVE ~A!Creating(p, "order_deadline")
    BY <1>11, <1>12, <1>15, <2>1 DEF A!Creating
  <2> QED BY <1>7, <1>11, <1>12, <1>15, <1>16, <1>17, <2>1 DEF A!CalmInStock
<1> QED BY <1>2, <1>13, <1>14, <1>18

LEMMA StartScanKeeps ==
    ASSUME A!ScanInv, NEW s \in Scan, A!StartScan(s)
    PROVE  A!ScanInv'
<1>1. PICK p : p = A!StockPlan
  OBVIOUS
<1>2. scan' = [scan EXCEPT ![s] = p] /\ UNCHANGED <<world, alert, dismissed>>
  BY <1>1 DEF A!StartScan
<1>3. p \in A!Plan /\ p.pc = "stock" /\ A!PlanFits(p) /\ A!CalmInStock(p)
  BY <1>1, PlanIsCalm
<1>4. A!PlanFits(p)' /\ A!CalmInStock(p)' /\ A!CalmInOverdue(p)'
  BY <1>2, <1>3, CallsStay DEF A!PlanFits, A!CalmInStock, A!CalmInOverdue, A!Busy, A!Fits, A!Creating,
                               A!Closing, A!Replacing, A!ProductType
<1> QED BY <1>2, <1>3, <1>4, OneRunKeeps

LEMMA RecordFields ==
    ASSUME NEW a \in AlertRecord
    PROVE  a.on \in BOOLEAN /\ (a.on => a.source \in {"system", "ai"})
<1>1. CASE a = A!Off
  BY <1>1 DEF A!Off
<1>2. CASE a \in [on : {TRUE}, source : {"system", "ai"}, severity : A!Severity]
  BY <1>2
<1> QED BY <1>1, <1>2 DEF AlertRecord

\* The run in its state before a write.
LEMMA RunBefore ==
    ASSUME A!ScanInv, NEW s \in Scan, NEW q, q = scan[s], A!Busy(q)
    PROVE  /\ q \in A!Plan /\ q.calm \in BOOLEAN
           /\ A!PlanFits(q) /\ A!CalmInStock(q) /\ A!CalmInOverdue(q)
           /\ \A a \in q.create \cup q.later :
                 /\ a \in A!New /\ a.type \in A!Type /\ a.source = "system" /\ a.severity \in A!Severity
                 /\ A!Fits(a.type, a.source, a.severity)
           /\ \A r \in q.resolve : r \in [type : A!Type, own : BOOLEAN]
           /\ \A t \in A!Type : alert[t].on => A!Fits(t, alert[t].source, alert[t].severity)
           /\ alert \in [A!Type -> AlertRecord] /\ world \in World
<1>1. A!TypeOK /\ A!PlanFits(q) /\ A!CalmInStock(q) /\ A!CalmInOverdue(q)
  BY DEF A!ScanInv
<1>2. q \in A!Plan
  BY <1>1, RunIs
<1>3. q.calm \in BOOLEAN /\ q.create \in SUBSET A!New /\ q.later \in SUBSET A!New
      /\ q.resolve \in SUBSET [type : A!Type, own : BOOLEAN]
  BY <1>2 DEF A!Plan
<1>4. ASSUME NEW a \in q.create \cup q.later
      PROVE  /\ a \in A!New /\ a.type \in A!Type /\ a.source = "system" /\ a.severity \in A!Severity
             /\ A!Fits(a.type, a.source, a.severity)
  BY <1>1, <1>3 DEF A!New, A!PlanFits
<1> QED BY <1>1, <1>2, <1>3, <1>4 DEF A!ScanInv, A!TypeOK, AlertRecord, World

\* Two new alerts of a type, of the severity it calls for, are one.
LEMMA NewIsOne ==
    ASSUME NEW a \in A!New, NEW b \in A!New, a.type = b.type, a.severity = b.severity
    PROVE  a = b
  BY DEF A!New

LEMMA CreateKeeps ==
    ASSUME A!ScanInv, NEW s \in Scan, A!Create(s)
    PROVE  A!ScanInv'
<1>1. PICK q : q = scan[s]
  OBVIOUS
<1>2. q.pc = "stock" /\ A!Busy(q)
  BY <1>1 DEF A!Create, A!Busy
<1>3. PICK a \in q.create : A!CreateAlert(a) /\ A!Did(s, [scan[s] EXCEPT !.create = @ \ {a}])
  BY <1>1 DEF A!Create
<1>4. PICK p : p = [q EXCEPT !.create = q.create \ {a}]
  OBVIOUS
<1>5. A!Did(s, p) /\ world' = world /\ dismissed' = dismissed
  BY <1>1, <1>3, <1>4 DEF A!Did
<1>6. /\ p \in A!Plan /\ p.pc = "stock" /\ p.calm = q.calm /\ p.saw = q.saw
      /\ p.create = q.create \ {a} /\ p.resolve = q.resolve /\ p.later = q.later
  BY <1>1, <1>2, <1>4, RunBefore DEF A!Plan
<1>7. /\ alert' \in [A!Type -> AlertRecord]
      /\ \A t \in A!Type : alert'[t].on => A!Fits(t, alert'[t].source, alert'[t].severity)
      /\ \A t \in A!Type : t # a.type => alert'[t] = alert[t]
      /\ alert'[a.type].on
      /\ ~alert[a.type].on => alert'[a.type].severity = a.severity
  BY <1>1, <1>2, <1>3, RunBefore, AlertFiled
<1>8. A!PlanFits(p)'
  BY <1>1, <1>2, <1>6, RunBefore DEF A!PlanFits, A!Busy, A!Fits
<1>9. A!CalmInOverdue(p)'
  BY <1>6 DEF A!CalmInOverdue
<1>10. ASSUME p.calm PROVE A!CalmInStock(p)'
  <2>1. /\ \A b \in q.create :
              /\ b.type \in A!ProductType /\ A!Called(b.type) /\ b.severity = A!Calls[b.type]
              /\ ~alert[b.type].on
        /\ \A r \in q.resolve :
              /\ r.type \in A!ProductType
              /\ A!Called(r.type) => r.type = "order_deadline" /\ A!Replacing(q, "order_deadline")
              /\ r.own => world.level = "healthy" /\ r.type \in {"stock_critical", "stock_risk"}
        /\ \A b \in q.later :
              /\ b.type = "order_deadline" /\ A!Called(b.type) /\ b.severity = A!Calls[b.type]
              /\ ~A!Creating(q, b.type) /\ (A!Closing(q, b.type) \/ ~alert[b.type].on)
        /\ \A t \in A!ProductType :
              A!Answered(t) \/ A!Creating(q, t) \/ A!Closing(q, t) \/ A!Replacing(q, t)
    BY <1>1, <1>2, <1>6, <1>10, RunBefore DEF A!CalmInStock
  <2>2. /\ \A t : A!Closing(p, t) <=> A!Closing(q, t)
        /\ \A t : A!Replacing(p, t) <=> A!Replacing(q, t)
        /\ \A t : A!Creating(p, t) => A!Creating(q, t)
        /\ \A t : A!Creating(q, t) /\ t # a.type => A!Creating(p, t)
    BY <1>6 DEF A!Closing, A!Replacing, A!Creating
  <2>3. ASSUME NEW b \in p.create
        PROVE  /\ b.type \in A!ProductType /\ A!Called(b.type)' /\ b.severity = A!Calls'[b.type]
               /\ ~alert'[b.type].on
    <3>1. b \in q.create /\ b # a /\ b \in A!New /\ a \in A!New
      BY <1>1, <1>2, <1>3, <1>6, RunBefore
    <3>2. b.type # a.type
      BY <2>1, <3>1, NewIsOne
    <3> QED BY <1>5, <1>7, <2>1, <3>1, <3>2, CallsStay, TypeNames
  <2>4. ASSUME NEW r \in p.resolve
        PROVE  /\ r.type \in A!ProductType
               /\ A!Called(r.type)' => r.type = "order_deadline" /\ A!Replacing(p, "order_deadline")
               /\ r.own => world'.level = "healthy" /\ r.type \in {"stock_critical", "stock_risk"}
    BY <1>5, <1>6, <2>1, <2>2, CallsStay
  <2>5. ASSUME NEW b \in p.later
        PROVE  /\ b.type = "order_deadline" /\ A!Called(b.type)' /\ b.severity = A!Calls'[b.type]
               /\ ~A!Creating(p, b.type) /\ (A!Closing(p, b.type) \/ ~alert'[b.type].on)
    <3>1. b \in q.later /\ ~A!Creating(q, b.type)
      BY <1>6, <2>1
    <3>2. b.type # a.type
      BY <1>3, <3>1 DEF A!Creating
    <3> QED BY <1>5, <1>7, <2>1, <2>2, <3>1, <3>2, CallsStay, TypeNames
  <2>6. ASSUME NEW t \in A!ProductType
        PROVE  A!Answered(t)' \/ A!Creating(p, t) \/ A!Closing(p, t) \/ A!Replacing(p, t)
    <3>1. CASE t = a.type
      <4>1. alert'[t].on /\ alert'[t].severity = A!Calls'[t] /\ A!Called(t)'
        BY <1>3, <1>5, <1>7, <2>1, <3>1, CallsStay
      <4> QED BY <4>1 DEF A!Answered
    <3>2. CASE t # a.type
      <4>1. A!Answered(t)' <=> A!Answered(t)
        BY <1>5, <1>7, <3>2, CallsStay, TypeNames
      <4> QED BY <2>1, <2>2, <3>2, <4>1
    <3> QED BY <3>1, <3>2
  <2> QED BY <2>3, <2>4, <2>5, <2>6 DEF A!CalmInStock, A!Creating, A!Closing, A!Replacing, A!ProductType
<1>11. A!CalmInStock(p)'
  BY <1>10 DEF A!CalmInStock
<1> QED BY <1>5, <1>6, <1>7, <1>8, <1>9, <1>11, DidKeeps

LEMMA ResolveKeeps ==
    ASSUME A!ScanInv, NEW s \in Scan, A!Resolve(s)
    PROVE  A!ScanInv'
<1>1. PICK q : q = scan[s]
  OBVIOUS
<1>2. q.pc \in {"stock", "overdue"} /\ A!Busy(q) /\ q.create = {}
  BY <1>1 DEF A!Resolve, A!Busy
<1>3. PICK r \in q.resolve : A!ResolveAlert(r) /\ A!Did(s, [scan[s] EXCEPT !.resolve = @ \ {r}])
  BY <1>1 DEF A!Resolve
<1>4. PICK p : p = [q EXCEPT !.resolve = q.resolve \ {r}]
  OBVIOUS
<1>5. A!Did(s, p) /\ world' = world /\ dismissed' = dismissed
  BY <1>1, <1>3, <1>4 DEF A!Did
<1>6. /\ p \in A!Plan /\ p.pc = q.pc /\ p.calm = q.calm /\ p.saw = q.saw
      /\ p.create = {} /\ p.resolve = q.resolve \ {r} /\ p.later = q.later
  BY <1>1, <1>2, <1>4, RunBefore DEF A!Plan
<1>7. PICK closes \in BOOLEAN : closes <=> alert[r.type].on /\ (r.own => alert[r.type].source = "system")
  OBVIOUS
<1>8. r.type \in A!Type /\ r.own \in BOOLEAN
  BY <1>1, <1>2, <1>3, RunBefore
<1>9. alert' = IF closes THEN [alert EXCEPT ![r.type] = A!Off] ELSE alert
  BY <1>3, <1>7 DEF A!ResolveAlert
<1>10. /\ alert' \in [A!Type -> AlertRecord]
       /\ \A t \in A!Type : alert'[t].on => A!Fits(t, alert'[t].source, alert'[t].severity)
       /\ \A t \in A!Type : t # r.type => alert'[t] = alert[t]
       /\ alert'[r.type].on <=> alert[r.type].on /\ ~closes
       /\ ~closes => alert'[r.type] = alert[r.type]
  BY <1>8, <1>9, AlertClosed
<1>11. A!PlanFits(p)'
  BY <1>1, <1>2, <1>6, RunBefore DEF A!PlanFits, A!Busy, A!Fits
<1>12. /\ \A t : A!Closing(p, t) => A!Closing(q, t)
       /\ \A t : A!Closing(q, t) /\ t # r.type => A!Closing(p, t)
       /\ \A t : A!Replacing(p, t) <=> A!Replacing(q, t)
       /\ \A t : ~A!Creating(p, t) /\ ~A!Creating(q, t)
  BY <1>2, <1>6 DEF A!Closing, A!Replacing, A!Creating
<1>13. ASSUME p.pc = "stock", p.calm PROVE A!CalmInStock(p)'
  <2>1. /\ \A x \in q.resolve :
              /\ x.type \in A!ProductType
              /\ A!Called(x.type) => x.type = "order_deadline" /\ A!Replacing(q, "order_deadline")
              /\ x.own => world.level = "healthy" /\ x.type \in {"stock_critical", "stock_risk"}
        /\ \A b \in q.later :
              /\ b.type = "order_deadline" /\ A!Called(b.type) /\ b.severity = A!Calls[b.type]
              /\ (A!Closing(q, b.type) \/ ~alert[b.type].on)
        /\ \A t \in A!ProductType :
              A!Answered(t) \/ A!Creating(q, t) \/ A!Closing(q, t) \/ A!Replacing(q, t)
    BY <1>1, <1>2, <1>6, <1>13, RunBefore DEF A!CalmInStock
  <2>2. ASSUME NEW x \in p.resolve
        PROVE  /\ x.type \in A!ProductType
               /\ A!Called(x.type)' => x.type = "order_deadline" /\ A!Replacing(p, "order_deadline")
               /\ x.own => world'.level = "healthy" /\ x.type \in {"stock_critical", "stock_risk"}
    BY <1>5, <1>6, <1>12, <2>1, CallsStay
  <2>3. r.type = "order_deadline" => ~alert'["order_deadline"].on
    <3>1. SUFFICES ASSUME r.type = "order_deadline" PROVE ~alert'["order_deadline"].on
      OBVIOUS
    <3>2. ~r.own
      BY <1>3, <2>1, <3>1
    <3> QED BY <1>7, <1>10, <3>1, <3>2
  <2>4. ASSUME NEW b \in p.later
        PROVE  /\ b.type = "order_deadline" /\ A!Called(b.type)' /\ b.severity = A!Calls'[b.type]
               /\ ~A!Creating(p, b.type) /\ (A!Closing(p, b.type) \/ ~alert'[b.type].on)
    <3>1. /\ b.type = "order_deadline" /\ A!Called(b.type) /\ b.severity = A!Calls[b.type]
          /\ (A!Closing(q, b.type) \/ ~alert[b.type].on)
      BY <1>6, <2>1
    <3>2. A!Closing(p, b.type) \/ ~alert'[b.type].on
      BY <1>10, <1>12, <2>3, <3>1, TypeNames
    <3> QED BY <1>5, <1>12, <3>1, <3>2, CallsStay
  <2>5. ASSUME NEW t \in A!ProductType
        PROVE  A!Answered(t)' \/ A!Creating(p, t) \/ A!Closing(p, t) \/ A!Replacing(p, t)
    <3>1. CASE t # r.type
      <4>1. A!Answered(t)' <=> A!Answered(t)
        BY <1>5, <1>10, <3>1, CallsStay, TypeNames
      <4> QED BY <1>12, <2>1, <3>1, <4>1
    <3>2. CASE t = r.type /\ A!Called(t)
      BY <1>3, <1>12, <2>1, <3>2
    <3>3. CASE t = r.type /\ ~A!Called(t)
      <4>1. ~A!Called(t)'
        BY <1>5, <3>3, CallsStay
      <4>2. CASE ~alert'[t].on
        BY <4>1, <4>2 DEF A!Answered
      <4>3. CASE alert'[t].on
        <5>1. alert[t].on /\ ~closes /\ alert'[t] = alert[t]
          BY <1>10, <3>3, <4>3
        <5>2. r.own /\ alert[t].source # "system"
          BY <1>7, <3>3, <5>1
        <5>3. world.level = "healthy" /\ t \in {"stock_critical", "stock_risk"}
          BY <1>3, <2>1, <3>3, <5>2
        <5>4. A!Fits(t, alert[t].source, alert[t].severity) /\ alert[t] \in AlertRecord
          BY <1>1, <1>2, <5>1, RunBefore, TypeNames
        <5>5. alert[t].source = "ai"
          BY <5>1, <5>2, <5>4, RecordFields
        <5>6. t = "stock_risk"
          BY <5>2, <5>3, <5>4 DEF A!Fits
        <5> QED BY <1>5, <4>1, <5>1, <5>3, <5>5, <5>6 DEF A!Answered
      <4> QED BY <4>2, <4>3
    <3> QED BY <3>1, <3>2, <3>3
  <2> QED BY <1>6, <2>2, <2>4, <2>5 DEF A!CalmInStock, A!Creating, A!Closing, A!Replacing, A!ProductType
<1>14. A!CalmInStock(p)'
  BY <1>13 DEF A!CalmInStock
<1>15. ASSUME p.pc = "overdue", p.calm PROVE A!CalmInOverdue(p)'
  <2>1. /\ \A t \in A!ProductType : A!Answered(t)
        /\ \A x \in q.resolve : x.type = "po_overdue" /\ ~x.own /\ ~world.late
        /\ \A a \in q.later : a.type = "po_overdue" /\ world.late
    BY <1>1, <1>2, <1>6, <1>15, RunBefore DEF A!CalmInOverdue
  <2>2. r.type = "po_overdue" /\ ~r.own /\ ~world.late
    BY <1>3, <2>1
  <2>3. ASSUME NEW t \in A!ProductType PROVE A!Answered(t)'
    BY <1>5, <1>10, <2>1, <2>2, CallsStay, TypeNames
  <2>4. alert'["po_overdue"] \in AlertRecord /\ ~alert'["po_overdue"].on
    BY <1>7, <1>10, <2>2, TypeNames
  <2>5. alert'["po_overdue"].on \in BOOLEAN /\ world.late \in BOOLEAN
    BY <1>1, <1>2, <2>4, RunBefore, RecordFields DEF World
  <2>6. alert'["po_overdue"].on = world'.late
    BY <1>5, <2>2, <2>4, <2>5
  <2>7. /\ \A x \in p.resolve : x.type = "po_overdue" /\ ~x.own /\ ~world'.late
        /\ \A a \in p.later : a.type = "po_overdue" /\ world'.late
    BY <1>5, <1>6, <2>1
  <2> QED BY <1>6, <2>3, <2>6, <2>7 DEF A!CalmInOverdue, A!ProductType
<1>16. A!CalmInOverdue(p)'
  BY <1>15 DEF A!CalmInOverdue
<1> QED BY <1>5, <1>6, <1>10, <1>11, <1>14, <1>16, DidKeeps

LEMMA CreateLaterKeeps ==
    ASSUME A!ScanInv, NEW s \in Scan, A!CreateLater(s)
    PROVE  A!ScanInv'
<1>1. PICK q : q = scan[s]
  OBVIOUS
<1>2. q.pc \in {"stock", "overdue"} /\ A!Busy(q) /\ q.create = {} /\ q.resolve = {}
  BY <1>1 DEF A!CreateLater, A!Busy
<1>3. PICK a \in q.later : A!CreateAlert(a) /\ A!Did(s, [scan[s] EXCEPT !.later = @ \ {a}])
  BY <1>1 DEF A!CreateLater
<1>4. PICK p : p = [q EXCEPT !.later = q.later \ {a}]
  OBVIOUS
<1>5. A!Did(s, p) /\ world' = world /\ dismissed' = dismissed
  BY <1>1, <1>3, <1>4 DEF A!Did
<1>6. /\ p \in A!Plan /\ p.pc = q.pc /\ p.calm = q.calm /\ p.saw = q.saw
      /\ p.create = {} /\ p.resolve = {} /\ p.later = q.later \ {a}
  BY <1>1, <1>2, <1>4, RunBefore DEF A!Plan
<1>7. /\ alert' \in [A!Type -> AlertRecord]
      /\ \A t \in A!Type : alert'[t].on => A!Fits(t, alert'[t].source, alert'[t].severity)
      /\ \A t \in A!Type : t # a.type => alert'[t] = alert[t]
      /\ alert'[a.type].on
      /\ ~alert[a.type].on => alert'[a.type].severity = a.severity
  BY <1>1, <1>2, <1>3, RunBefore, AlertFiled
<1>8. A!PlanFits(p)'
  BY <1>1, <1>2, <1>6, RunBefore DEF A!PlanFits, A!Busy, A!Fits
<1>9. \A t : ~A!Creating(q, t) /\ ~A!Closing(q, t)
  BY <1>2 DEF A!Creating, A!Closing
<1>10. ASSUME p.pc = "stock", p.calm PROVE A!CalmInStock(p)'
  <2>1. /\ \A b \in q.later :
              /\ b.type = "order_deadline" /\ A!Called(b.type) /\ b.severity = A!Calls[b.type]
              /\ ~alert[b.type].on
        /\ \A t \in A!ProductType : A!Answered(t) \/ A!Replacing(q, t)
    BY <1>1, <1>2, <1>6, <1>9, <1>10, RunBefore DEF A!CalmInStock
  <2>2. p.later = {}
    <3>1. SUFFICES ASSUME NEW b \in q.later PROVE b = a
      BY <1>6
    <3>2. a \in A!New /\ b \in A!New
      BY <1>1, <1>2, <1>3, RunBefore
    <3> QED BY <1>3, <2>1, <3>2, NewIsOne
  <2>3. ASSUME NEW t \in A!ProductType PROVE A!Answered(t)'
    <3>1. CASE t = a.type
      <4>1. alert'[t].on /\ alert'[t].severity = A!Calls'[t] /\ A!Called(t)'
        BY <1>3, <1>5, <1>7, <2>1, <3>1, CallsStay
      <4> QED BY <4>1 DEF A!Answered
    <3>2. CASE t # a.type
      <4>1. ~A!Replacing(q, t)
        BY <1>3, <2>1, <3>2 DEF A!Replacing
      <4> QED BY <1>5, <1>7, <2>1, <3>2, <4>1, CallsStay, TypeNames
    <3> QED BY <3>1, <3>2
  <2> QED BY <1>6, <2>2, <2>3 DEF A!CalmInStock, A!ProductType
<1>11. A!CalmInStock(p)'
  BY <1>10 DEF A!CalmInStock
<1>12. ASSUME p.pc = "overdue", p.calm PROVE A!CalmInOverdue(p)'
  <2>1. /\ \A t \in A!ProductType : A!Answered(t)
        /\ \A b \in q.later : b.type = "po_overdue" /\ world.late
    BY <1>1, <1>2, <1>6, <1>12, RunBefore DEF A!CalmInOverdue
  <2>2. a.type = "po_overdue" /\ world.late
    BY <1>3, <2>1
  <2>3. ASSUME NEW t \in A!ProductType PROVE A!Answered(t)'
    BY <1>5, <1>7, <2>1, <2>2, CallsStay, TypeNames
  <2>4. alert'["po_overdue"] \in AlertRecord /\ alert'["po_overdue"].on
    BY <1>7, <2>2, TypeNames
  <2>5. alert'["po_overdue"].on \in BOOLEAN /\ world.late \in BOOLEAN
    BY <1>1, <1>2, <2>4, RunBefore, RecordFields DEF World
  <2>6. alert'["po_overdue"].on = world'.late
    BY <1>5, <2>2, <2>4, <2>5
  <2>7. \A b \in p.later : b.type = "po_overdue" /\ world'.late
    BY <1>5, <1>6, <2>1
  <2> QED BY <1>6, <2>3, <2>6, <2>7 DEF A!CalmInOverdue, A!ProductType
<1>13. A!CalmInOverdue(p)'
  BY <1>12 DEF A!CalmInOverdue
<1> QED BY <1>5, <1>6, <1>7, <1>8, <1>11, <1>13, DidKeeps

\* After the product's alerts the order's, and then the run is done.
LEMMA NextPartKeeps ==
    ASSUME A!ScanInv, NEW s \in Scan, A!NextPart(s)
    PROVE  A!ScanInv'
<1>1. PICK q : q = scan[s]
  OBVIOUS
<1>2. /\ q.pc \in {"stock", "overdue"} /\ A!Busy(q) /\ q.create = {} /\ q.resolve = {} /\ q.later = {}
      /\ UNCHANGED <<world, alert, dismissed>>
  BY <1>1 DEF A!NextPart, A!Busy, A!Through
<1>3. \A t : ~A!Creating(q, t) /\ ~A!Closing(q, t) /\ ~A!Replacing(q, t)
  BY <1>2 DEF A!Creating, A!Closing, A!Replacing
<1>4. CASE q.pc = "stock"
  <2>1. PICK p : p = A!OverduePlan(s)
    OBVIOUS
  <2>2. scan' = [scan EXCEPT ![s] = p]
    BY <1>1, <1>4, <2>1 DEF A!NextPart
  <2>3. PICK closed, made :
          /\ closed = {[type |-> t, own |-> FALSE] : t \in {u \in {"po_overdue"} : alert[u].on /\ ~world.late}}
          /\ made = {[type |-> t, source |-> "system", severity |-> "warning"] :
                        t \in {u \in {"po_overdue"} : world.late /\ ~alert[u].on}}
    OBVIOUS
  <2>4. p = [q EXCEPT !.pc = "overdue", !.resolve = closed, !.later = made]
    BY <1>1, <2>1, <2>3 DEF A!OverduePlan
  <2>5. /\ \A r \in closed : r = [type |-> "po_overdue", own |-> FALSE] /\ ~world.late
        /\ \A a \in made : a = [type |-> "po_overdue", source |-> "system", severity |-> "warning"]
                           /\ world.late
    BY <2>3
  <2>6. /\ \A r \in closed : r.type = "po_overdue" /\ ~r.own /\ ~world.late
                             /\ r \in [type : A!Type, own : BOOLEAN]
        /\ \A a \in made : a.type = "po_overdue" /\ world.late /\ a \in A!New
                           /\ A!Fits(a.type, a.source, a.severity)
    <3>1. ASSUME NEW r \in closed
          PROVE  r.type = "po_overdue" /\ ~r.own /\ ~world.late /\ r \in [type : A!Type, own : BOOLEAN]
      <4>1. r = [type |-> "po_overdue", own |-> FALSE] /\ ~world.late
        BY <2>5
      <4>2. r \in [type : A!Type, own : BOOLEAN]
        BY <4>1, TypeNames
      <4> QED BY <4>1, <4>2
    <3>2. ASSUME NEW a \in made
          PROVE  a.type = "po_overdue" /\ world.late /\ a \in A!New /\ A!Fits(a.type, a.source, a.severity)
      <4>1. a = [type |-> "po_overdue", source |-> "system", severity |-> "warning"] /\ world.late
        BY <2>5
      <4>2. a \in A!New
        BY <4>1, TypeNames DEF A!New, A!Severity
      <4> QED BY <4>1, <4>2 DEF A!Fits
    <3> QED BY <3>1, <3>2
  <2>7. /\ p \in A!Plan /\ p.pc = "overdue" /\ p.calm = q.calm
        /\ p.create = {} /\ p.resolve = closed /\ p.later = made
    <3>1. closed \in SUBSET [type : A!Type, own : BOOLEAN] /\ made \in SUBSET A!New
      BY <2>6
    <3>2. q \in A!Plan
      BY <1>1, <1>2, RunBefore
    <3>3. /\ p.pc = "overdue" /\ p.calm = q.calm /\ p.create = {} /\ p.resolve = closed
          /\ p.later = made
      BY <1>2, <2>4, <3>2 DEF A!Plan
    <3>4. p \in A!Plan
      BY <2>4, <3>1, <3>2 DEF A!Plan
    <3> QED BY <3>3, <3>4
  <2>8. A!PlanFits(p)'
    BY <2>6, <2>7 DEF A!PlanFits, A!Fits
  <2>9. ASSUME p.calm PROVE A!CalmInOverdue(p)'
    <3>1. ASSUME NEW t \in A!ProductType PROVE A!Answered(t)'
      <4>1. A!Answered(t)
        BY <1>1, <1>2, <1>3, <1>4, <2>7, <2>9, RunBefore DEF A!CalmInStock
      <4> QED BY <1>2, <4>1, CallsStay
    <3>2. alert["po_overdue"].on = world.late \/ closed # {} \/ made # {}
      <4>1. alert["po_overdue"] \in AlertRecord
        BY <1>1, <1>2, RunBefore, TypeNames
      <4>2. alert["po_overdue"].on \in BOOLEAN /\ world.late \in BOOLEAN
        BY <1>1, <1>2, <4>1, RunBefore, RecordFields DEF World
      <4>3. CASE alert["po_overdue"].on /\ ~world.late
        <5>1. PICK r : r = [type |-> "po_overdue", own |-> FALSE]
          OBVIOUS
        <5>2. r \in closed
          BY <2>3, <4>3, <5>1
        <5> QED BY <5>2
      <4>4. CASE ~alert["po_overdue"].on /\ world.late
        <5>1. PICK a : a = [type |-> "po_overdue", source |-> "system", severity |-> "warning"]
          OBVIOUS
        <5>2. a \in made
          BY <2>3, <4>4, <5>1
        <5> QED BY <5>2
      <4> QED BY <4>2, <4>3, <4>4
    <3> QED BY <1>2, <2>6, <2>7, <3>1, <3>2 DEF A!CalmInOverdue, A!ProductType
  <2>10. A!CalmInOverdue(p)' /\ A!CalmInStock(p)'
    BY <2>7, <2>9 DEF A!CalmInOverdue, A!CalmInStock
  <2> QED BY <1>2, <2>2, <2>7, <2>8, <2>10, OneRunKeeps
<1>5. CASE q.pc = "overdue"
  <2>1. PICK p : p = [pc |-> "done", calm |-> q.calm]
    OBVIOUS
  <2>2. scan' = [scan EXCEPT ![s] = p]
    BY <1>1, <1>5, <2>1 DEF A!NextPart
  <2>3. p \in [pc : {"idle", "done"}, calm : BOOLEAN] /\ p.pc = "done" /\ p.calm = q.calm
    BY <1>1, <1>2, <2>1, RunBefore
  <2>4. p.calm => (\A t \in A!ProductType : A!Answered(t)) /\ alert["po_overdue"].on = world.late
    BY <1>1, <1>2, <1>5, <2>3, RunBefore DEF A!CalmInOverdue
  <2>5. A!PlanFits(p)' /\ A!CalmInStock(p)' /\ A!CalmInOverdue(p)'
    BY <2>3 DEF A!PlanFits, A!Busy, A!CalmInStock, A!CalmInOverdue
  <2> QED BY <1>2, <2>2, <2>3, <2>4, <2>5, OneRunKeeps
<1> QED BY <1>2, <1>4, <1>5

LEMMA FailKeeps ==
    ASSUME A!ScanInv, NEW s \in Scan, A!Fail(s)
    PROVE  A!ScanInv'
<1>1. PICK p : p = A!Idle
  OBVIOUS
<1>2. scan' = [scan EXCEPT ![s] = p] /\ UNCHANGED <<world, alert, dismissed>>
  BY <1>1 DEF A!Fail
<1>3. p \in [pc : {"idle", "done"}, calm : BOOLEAN] /\ p.pc = "idle" /\ ~p.calm
  BY <1>1 DEF A!Idle
<1>4. A!PlanFits(p)' /\ A!CalmInStock(p)' /\ A!CalmInOverdue(p)'
  BY <1>3 DEF A!PlanFits, A!Busy, A!CalmInStock, A!CalmInOverdue
<1> QED BY <1>2, <1>3, <1>4, OneRunKeeps

\* What the invariant is about does not change.
LEMMA ScanRests ==
    ASSUME A!ScanInv, UNCHANGED <<world, alert, dismissed, scan>>
    PROVE  A!ScanInv'
<1>1. A!TypeOK'
  BY DEF A!ScanInv, A!TypeOK
<1>2. \A t : A!Answered(t)' <=> A!Answered(t)
  BY CallsStay
<1>3. A!ScanSettles'
  BY <1>2 DEF A!ScanInv, A!ScanSettles, A!ProductType
<1>4. \A t \in A!Type : (alert[t].on => A!Fits(t, alert[t].source, alert[t].severity))'
  BY DEF A!ScanInv, A!Fits, A!Type, A!ProductType
<1>5. ASSUME NEW s \in Scan
      PROVE  A!PlanFits(scan[s])' /\ A!CalmInStock(scan[s])' /\ A!CalmInOverdue(scan[s])'
  <2>1. PICK p : p = scan[s]
    OBVIOUS
  <2>2. A!PlanFits(p) /\ A!CalmInStock(p) /\ A!CalmInOverdue(p) /\ scan'[s] = p
    BY <2>1 DEF A!ScanInv
  <2>3. A!PlanFits(p)' /\ A!CalmInStock(p)' /\ A!CalmInOverdue(p)'
    BY <2>2, CallsStay DEF A!PlanFits, A!CalmInStock, A!CalmInOverdue, A!Busy, A!Fits, A!Creating,
                           A!Closing, A!Replacing, A!ProductType
  <2> QED BY <2>2, <2>3, PlanThen
<1> QED BY <1>1, <1>3, <1>4, <1>5 DEF A!ScanInv, A!Type, A!ProductType

LEMMA ScanKeeps ==
    ASSUME A!ScanInv, [A!Next]_(A!vars)
    PROVE  A!ScanInv'
<1>1. CASE A!Change \/ A!AiAnswer \/ (\E t \in A!Type : A!Close(t)) \/ (\E t \in A!ProductType : A!DayPasses(t))
  BY <1>1, DisturbancesKeep
<1>2. CASE A!AiRead
  BY <1>2, ScanRests DEF A!AiRead
<1>3. CASE UNCHANGED A!vars
  BY <1>3, ScanRests DEF A!vars
<1>4. ASSUME NEW s \in Scan,
             A!StartScan(s) \/ A!Create(s) \/ A!Resolve(s) \/ A!CreateLater(s) \/ A!NextPart(s) \/ A!Fail(s)
      PROVE  A!ScanInv'
  BY <1>4, StartScanKeeps, CreateKeeps, ResolveKeeps, CreateLaterKeeps, NextPartKeeps, FailKeeps
<1> QED BY <1>1, <1>2, <1>3, <1>4 DEF A!Next

LEMMA ScanStarts ==
    ASSUME A!Init
    PROVE  A!ScanInv
<1>1. /\ world \in World /\ alert = [t \in A!Type |-> A!Off] /\ scan = [s \in Scan |-> A!Idle]
  BY DEF A!Init, A!Worlds, A!Levels, A!Deadlines, A!Truths, World, A!AllLevels
<1>2. \A s \in Scan : scan[s].pc = "idle" /\ scan[s].calm = FALSE
  BY <1>1 DEF A!Idle
<1>3. \A t \in A!Type : ~alert[t].on
  BY <1>1 DEF A!Off
<1>4. A!TypeOK
  BY <1>1, <1>2 DEF A!TypeOK, World, A!Idle
<1> QED BY <1>2, <1>3, <1>4 DEF A!ScanInv, A!ScanSettles, A!PlanFits, A!Busy, A!CalmInStock, A!CalmInOverdue

LEMMA ScansHold == Spec => []A!ScanInv
<1>1. Init => A!ScanInv
  BY ScanStarts DEF Init
<1>2. A!ScanInv /\ [Next]_vars => A!ScanInv'
  BY EachPart, ScanKeeps
<1> QED BY <1>1, <1>2, PTL DEF Spec

\* A run that nobody disturbs leaves the alerts the product calls for.
THEOREM ScansSettle == Spec => []ScanSettles
<1>1. A!ScanInv => ScanSettles
  BY DEF A!ScanInv, ScanSettles
<1> QED BY <1>1, ScansHold, PTL

\* A run closes what it has planned, and a plan names a finding of the assistant
\* only when the product was critical or gone.
LEMMA FindingsKept ==
    ASSUME A!ScanInv, [A!Next]_(A!vars), NEW s \in Scan
    PROVE  A!FindingKept(s)
<1>1. SUFFICES ASSUME scan[s].pc = "stock", scan'[s].pc = "stock", scan'[s].resolve # scan[s].resolve,
                      alert["stock_risk"].on, alert["stock_risk"].source = "ai",
                      ~alert'["stock_risk"].on
               PROVE  scan[s].saw \in {"critical", "gone"}
  BY DEF A!FindingKept
<1>2. PICK q : q = scan[s]
  OBVIOUS
<1>3. q \in A!Plan /\ A!PlanFits(q) /\ A!TypeOK
  BY <1>1, <1>2, RunBefore DEF A!Busy, A!ScanInv
<1>4. ASSUME scan' = A!Disturb PROVE FALSE
  <2>1. scan'[s] = [q EXCEPT !.calm = FALSE]
    BY <1>2, <1>4 DEF A!Disturb
  <2>2. scan'[s].resolve = q.resolve
    BY <1>3, <2>1 DEF A!Plan
  <2> QED BY <1>1, <1>2, <2>2
<1>5. ASSUME NEW u \in Scan, NEW p, u # s,
             A!Did(u, p) \/ scan' = [scan EXCEPT ![u] = p]
      PROVE  FALSE
  <2>1. scan'[s] = q \/ scan'[s] = [q EXCEPT !.calm = FALSE]
    BY <1>2, <1>3, <1>5 DEF A!Did, A!Disturb, A!TypeOK
  <2>2. scan'[s].resolve = q.resolve
    BY <1>3, <2>1 DEF A!Plan
  <2> QED BY <1>1, <1>2, <2>2
<1>6. ASSUME NEW u \in Scan, u # s,
             A!StartScan(u) \/ A!Create(u) \/ A!Resolve(u) \/ A!CreateLater(u) \/ A!NextPart(u) \/ A!Fail(u)
      PROVE  FALSE
  BY <1>5, <1>6 DEF A!StartScan, A!Create, A!Resolve, A!CreateLater, A!NextPart, A!Fail
<1>7. CASE A!Create(s) \/ A!CreateLater(s)
  <2>1. PICK a : A!CreateAlert(a)
    BY <1>7 DEF A!Create, A!CreateLater
  <2>2. alert'["stock_risk"].on
    BY <1>1, <1>3, <2>1 DEF A!CreateAlert, A!TypeOK, A!On
  <2> QED BY <1>1, <2>2
<1>8. CASE A!Resolve(s)
  <2>1. PICK r \in q.resolve : A!ResolveAlert(r)
    BY <1>2, <1>8 DEF A!Resolve
  <2>2. r.type = "stock_risk" /\ ~r.own
    BY <1>1, <1>3, <2>1 DEF A!ResolveAlert, A!TypeOK
  <2> QED BY <1>1, <1>2, <1>3, <2>1, <2>2 DEF A!PlanFits, A!Busy
<1>9. CASE A!StartScan(s) \/ A!NextPart(s) \/ A!Fail(s)
  BY <1>1, <1>9 DEF A!StartScan, A!NextPart, A!Fail
<1>10. CASE A!Change \/ A!AiAnswer \/ (\E t \in A!Type : A!Close(t)) \/ (\E t \in A!ProductType : A!DayPasses(t))
  BY <1>4, <1>10 DEF A!Change, A!AiAnswer, A!Close, A!DayPasses
<1>11. CASE A!AiRead \/ UNCHANGED A!vars
  BY <1>1, <1>11 DEF A!AiRead, A!vars
<1> QED BY <1>6, <1>7, <1>8, <1>9, <1>10, <1>11 DEF A!Next
-----------------------------------------------------------------------------
\* The end of an order in the instance the behaviour is of.
OrderEndKept == IF part = "lines" THEN L!EndKept ELSE O!EndKept

\* What has arrived in full or was cancelled stays so, a finished e-document stays
\* finished, and the rule never closes a finding of the assistant on a product
\* that it saw well.
THEOREM EndsAreFinal == Spec => DoneStaysDone
<1>1. OrdersInv /\ [Next]_vars => [OrderEndKept]_vars
  BY EachPart, PurchasingGiven, L!EndsKept, O!EndsKept DEF OrdersInv, OrderEndKept
<1>2. Spec => [][OrderEndKept]_vars
  BY <1>1, OrdersHold, PTL DEF Spec
<1>3. S!SyncInv /\ [Next]_vars => [row.edoc = "done" => row'.edoc = "done"]_(S!vars)
  BY EachPart, SyncGiven, FinishedKept
<1>4. Spec => S!FinishedStays
  BY <1>3, SyncSafe, PTL DEF Spec, S!FinishedStays
<1>5. A!ScanInv /\ [Next]_vars => [\A s \in Scan : A!FindingKept(s)]_(A!vars)
  BY EachPart, FindingsKept
<1>6. Spec => A!FindingsSurvive
  BY <1>5, ScansHold, PTL DEF Spec, A!FindingsSurvive
<1> QED BY <1>2, <1>4, <1>6, PTL DEF DoneStaysDone, OrderEndKept
=============================================================================
