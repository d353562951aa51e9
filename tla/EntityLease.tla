---------------------------- MODULE EntityLease ----------------------------
(***************************************************************************)
(* A customer, a vendor or a product gets its record in the accounting     *)
(* service: look for one with its tax number (its code), write its id down *)
(* if there is one, and create one otherwise, under a lease of a minute on *)
(* the row.  The search comes before the lease, and an id that was found   *)
(* is written without it.  Customers and vendors keep leases of their own  *)
(* but share one pool of contacts.                                         *)
(***************************************************************************)
EXTENDS Naturals, FiniteSets

CONSTANTS
    Asker,       \* requests that need the record at the same time
    Party,       \* rows with the same tax number or code
    MaxRecords,  \* bound: records the service may come to hold
    MaxFaults    \* bound: lost answers, errors, deaths and outlived leases

VARIABLES
    party,   \* the columns of each row: id in the service, lease
    record,  \* record[i]: what the service has of record i
    asker,   \* what each request is doing
    faults,  \* faults left
    loose    \* a creation broke off while another request had found nothing
             \* or while it was still on its way, or outlived its lease

vars == <<party, record, asker, faults, loose>>
-----------------------------------------------------------------------------
Nobody == "nobody"
Idle == [pc |-> "idle"]
Record == 1..MaxRecords
There == {i \in Record : record[i] = "there"}

Init ==
    /\ party = [p \in Party |-> [id |-> 0, owner |-> Nobody, leased |-> FALSE]]
    /\ record = [i \in Record |-> "none"]
    /\ asker = [a \in Asker |-> Idle]
    /\ faults = MaxFaults /\ loose = FALSE

Goto(a, pc) == asker' = [asker EXCEPT ![a].pc = pc]
Stop(a) == asker' = [asker EXCEPT ![a] = Idle]
Spend == faults > 0 /\ faults' = faults - 1

\* Somebody else has searched already and will not search again.
OthersPastSearch(a) == \E b \in Asker \ {a} : asker[b].pc = "claim"
BreaksOff(a) == loose' = (loose \/ OthersPastSearch(a))

Ask(a, p) ==
    /\ asker[a].pc = "idle" /\ party[p].id = 0
    /\ asker' = [asker EXCEPT ![a] = [pc |-> "find", p |-> p, got |-> 0]]
    /\ UNCHANGED <<party, record, faults, loose>>

\* More than one match is for somebody to look at.
Find(a) ==
    /\ asker[a].pc = "find"
    /\ \/ Cardinality(There) > 1 /\ Stop(a)
       \/ \E i \in There : There = {i} /\ asker' = [asker EXCEPT ![a].pc = "write", ![a].got = i]
       \/ There = {} /\ Goto(a, "claim")
    /\ UNCHANGED <<party, record, faults, loose>>

WriteFound(a) ==
    /\ asker[a].pc = "write"
    /\ party' = [party EXCEPT ![asker[a].p].id = asker[a].got]
    /\ Stop(a)
    /\ UNCHANGED <<record, faults, loose>>

\* Mutant: the lease is not looked at.
ClaimableHeld(p) == party[p].id = 0

\* claimOrSkip: nobody has finished meanwhile and the lease is free.
Claimable(p) == party[p].id = 0 /\ ~party[p].leased

Claim(a) ==
    LET p == asker[a].p IN
    /\ asker[a].pc = "claim"
    /\ IF Claimable(p)
       THEN party' = [party EXCEPT ![p].owner = a, ![p].leased = TRUE] /\ Goto(a, "create")
       ELSE Stop(a) /\ UNCHANGED party
    /\ UNCHANGED <<record, faults, loose>>

Create(a) ==
    /\ asker[a].pc = "create"
    /\ \E i \in Record :
          /\ record[i] = "none"
          /\ \/ /\ record' = [record EXCEPT ![i] = "there"]
                /\ asker' = [asker EXCEPT ![a].pc = "finish", ![a].got = i]
                /\ UNCHANGED <<faults, loose>>
             \/ /\ Spend /\ Goto(a, "release")
                /\ \/ record' = [record EXCEPT ![i] = "there"] /\ BreaksOff(a)
                   \/ record' = [record EXCEPT ![i] = "wire"] /\ loose' = TRUE
                   \/ UNCHANGED <<record, loose>>
    /\ UNCHANGED party

\* finishCreate writes only as the owner of the lease, which it gives back.
Finish(a) ==
    LET p == asker[a].p IN
    /\ asker[a].pc = "finish"
    /\ \/ /\ IF party[p].owner = a
             THEN /\ party' = [party EXCEPT ![p] = [id |-> asker[a].got, owner |-> Nobody,
                                                    leased |-> FALSE]]
                  /\ Stop(a)
             ELSE Goto(a, "release") /\ UNCHANGED party
          /\ UNCHANGED <<faults, loose>>
       \/ Spend /\ BreaksOff(a) /\ Goto(a, "release") /\ UNCHANGED party
    /\ UNCHANGED record

\* Best effort: a lease that is not given back runs out.
Release(a) ==
    LET p == asker[a].p IN
    /\ asker[a].pc = "release"
    /\ \/ /\ party[p].owner = a
          /\ party' = [party EXCEPT ![p].owner = Nobody, ![p].leased = FALSE]
          /\ UNCHANGED faults
       \/ party[p].owner # a /\ UNCHANGED <<party, faults>>
       \/ Spend /\ UNCHANGED party
    /\ Stop(a)
    /\ UNCHANGED <<record, loose>>

Crash(a) ==
    /\ asker[a].pc # "idle" /\ Spend
    /\ IF asker[a].pc = "finish" THEN BreaksOff(a) ELSE UNCHANGED loose
    /\ Stop(a)
    /\ UNCHANGED <<party, record>>

\* A minute passes; an owner that has yet to finish has outlived its lease.
Expire(p) ==
    LET a == party[p].owner IN
    /\ party[p].leased
    /\ party' = [party EXCEPT ![p].leased = FALSE]
    /\ IF asker[a].pc \in {"create", "finish"} /\ asker[a].p = p
       THEN Spend /\ loose' = TRUE
       ELSE UNCHANGED <<faults, loose>>
    /\ UNCHANGED <<record, asker>>

\* A creation whose answer was lost is carried out after all.
Land ==
    /\ \E i \in Record : record[i] = "wire" /\ record' = [record EXCEPT ![i] = "there"]
    /\ UNCHANGED <<party, asker, faults, loose>>

Next ==
    \/ \E a \in Asker :
          \/ \E p \in Party : Ask(a, p)
          \/ Find(a) \/ WriteFound(a) \/ Claim(a) \/ Create(a) \/ Finish(a)
          \/ Release(a) \/ Crash(a)
    \/ \E p \in Party : Expire(p)
    \/ Land

Spec == Init /\ [][Next]_vars
-----------------------------------------------------------------------------
(* Properties.                                                             *)

TypeOK ==
    /\ party \in [Party -> [id : Nat, owner : Asker \union {Nobody}, leased : BOOLEAN]]
    /\ record \in [Record -> {"none", "wire", "there"}]
    /\ asker \in [Asker -> {Idle} \union
          [pc : {"find", "write", "claim", "create", "finish", "release"},
           p : Party, got : Nat]]
    /\ faults \in Nat /\ loose \in BOOLEAN

Made == {i \in Record : record[i] # "none"}

\* A row gets one record, although requests search before they hold the lease:
\* a second takes a creation that broke off after another request had searched,
\* that was still on its way, or that outlived its lease.
OneRecord == ~loose => Cardinality(Made) <= Cardinality(Party)

\* The inductive strengthening: every record was made for a row of its own, for
\* which nobody is creating one now; and whoever has searched for that row in vain
\* finds it taken.
OfOwnRow(row) ==
    /\ \A i, j \in Made : row[i] = row[j] => i = j
    /\ \A i \in Made, a \in Asker :
          asker[a].pc \in {"claim", "create"} /\ asker[a].p = row[i] =>
              /\ asker[a].pc = "claim"
              /\ \/ party[row[i]].id # 0
                 \/ \E b \in Asker : asker[b].pc = "finish" /\ asker[b].p = row[i]

RecordInv ==
    /\ TypeOK
    /\ \A a \in Asker : asker[a].pc \in {"write", "finish"} => asker[a].got \in Record
    /\ ~loose =>
          /\ Made = There
          /\ \A a \in Asker : asker[a].pc \in {"create", "finish"} =>
                party[asker[a].p].owner = a /\ party[asker[a].p].leased
          /\ \E row \in [Made -> Party] : OfOwnRow(row)
=============================================================================
