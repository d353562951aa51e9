------------------------------ MODULE ListCache ------------------------------
(***************************************************************************)
(* A list in the browser's SWR cache, here the customers, while a page     *)
(* shows it.  A change made in this tab is written into the cached list    *)
(* when the server answers; every change is also broadcast, without data   *)
(* and without the tab it came from, and a broadcast empties the cache and *)
(* loads the list again.  SWR throws away a load that a write of the cache *)
(* has overtaken.                                                          *)
(***************************************************************************)
EXTENDS Naturals

CONSTANTS
    Row,         \* customers
    Change,      \* changes of this tab under way at a time
    MaxVersion   \* bound: versions of a row; 0 before it is added, MaxVersion when deleted

VARIABLES
    server,     \* the version of each row
    cache,      \* the cached list, or NoList
    load,       \* the load that counts: "idle", "sent", or what it has read
    change,     \* what each change of this tab is doing
    news,       \* broadcasts on their way
    disturbed   \* history since the list was last read: a broadcast was lost, an
                \* answer overtook a load, met no list or came after a later change

vars == <<server, cache, load, change, news, disturbed>>

NoList == <<>>
Idle == [at |-> "idle"]
Nothing == [r \in Row |-> 0]
Shown == cache # NoList
Lists(list, r) == IF list[r] = MaxVersion THEN 0 ELSE list[r]

Init ==
    /\ server \in [Row -> 0..1] /\ cache = NoList /\ load = [at |-> "sent"]
    /\ change = [c \in Change |-> Idle] /\ news = 0 /\ disturbed = FALSE
-----------------------------------------------------------------------------
\* A row is added, changed, or deleted for good.
Edits(r) ==
    {v \in 1..MaxVersion : server[r] < v /\ (v = server[r] + 1 \/ (v = MaxVersion /\ server[r] > 0))}

\* Another tab, or another user.
Others(r) ==
    /\ \E v \in Edits(r) : server' = [server EXCEPT ![r] = v]
    /\ news' = news + 1
    /\ UNCHANGED <<cache, load, change, disturbed>>

Lose ==
    /\ news > 0 /\ news' = news - 1
    /\ disturbed' = TRUE
    /\ UNCHANGED <<server, cache, load, change>>

\* keyMatchesDomains
Matches == TRUE

\* mutate(filter, undefined): the list is dropped and loaded again.
Hear ==
    /\ news > 0 /\ news' = news - 1
    /\ IF Matches THEN cache' = NoList /\ load' = [at |-> "sent"] ELSE UNCHANGED <<cache, load>>
    /\ UNCHANGED <<server, change, disturbed>>

\* A page that shows the list is opened.
Visit ==
    /\ load.at = "idle" /\ load' = [at |-> "sent"]
    /\ UNCHANGED <<server, cache, change, news, disturbed>>

Read ==
    /\ load.at = "sent" /\ load' = [at |-> "read", list |-> server]
    /\ disturbed' = FALSE
    /\ UNCHANGED <<server, cache, change, news>>

Loaded ==
    /\ load.at = "read" /\ cache' = load.list /\ load' = Idle
    /\ UNCHANGED <<server, change, news, disturbed>>
-----------------------------------------------------------------------------
(* addCustomer, updateCustomer, deleteCustomer.                            *)

Ask(c, r) ==
    /\ change[c] = Idle
    /\ change' = [change EXCEPT ![c] = [at |-> "sent", row |-> r]]
    /\ UNCHANGED <<server, cache, load, news, disturbed>>

Serve(c) ==
    /\ change[c].at = "sent"
    /\ \/ \E v \in Edits(change[c].row) :
             /\ server' = [server EXCEPT ![change[c].row] = v]
             /\ change' = [change EXCEPT ![c] = [at |-> "served", row |-> @.row, version |-> v,
                                                 new |-> server[@.row] = 0]]
             /\ news' = news + 1
       \/ /\ change' = [change EXCEPT ![c] = Idle]
          /\ UNCHANGED <<server, news>>
    /\ UNCHANGED <<cache, load, disturbed>>

\* The list as the answer finds it, empty when there is none.
Previous == IF Shown THEN cache ELSE Nothing

Answer(c) ==
    /\ change[c].at = "served"
    /\ LET r == change[c].row IN
          /\ cache' = IF change[c].new \/ Lists(Previous, r) > 0
                      THEN [Previous EXCEPT ![r] = change[c].version] ELSE Previous
          /\ disturbed' = (disturbed \/ load # Idle \/ ~Shown
                                         \/ server[r] # change[c].version)
    /\ load' = Idle
    /\ change' = [change EXCEPT ![c] = Idle]
    /\ UNCHANGED <<server, news>>
-----------------------------------------------------------------------------
Next ==
    \/ Lose \/ Hear \/ Visit \/ Read \/ Loaded
    \/ \E r \in Row : Others(r)
    \/ \E c \in Change : Serve(c) \/ Answer(c) \/ \E r \in Row : Ask(c, r)

Spec == Init /\ [][Next]_vars
-----------------------------------------------------------------------------
\* When everything has arrived the page shows what the server has.
ListTells ==
    (~disturbed /\ news = 0 /\ load = Idle /\ \A c \in Change : change[c] = Idle)
        => \A r \in Row : Lists(cache, r) = Lists(server, r)
-----------------------------------------------------------------------------
\* Why: once every broadcast was heard, the load under way or the list agrees.
TypeOK ==
    /\ server \in [Row -> Nat] /\ cache \in {NoList} \cup [Row -> Nat] /\ news \in Nat
    /\ load \in {Idle, [at |-> "sent"]} \cup [at : {"read"}, list : [Row -> Nat]]
    /\ change \in [Change -> {Idle} \cup [at : {"sent"}, row : Row]
                     \cup [at : {"served"}, row : Row, version : Nat, new : BOOLEAN]]
    /\ disturbed \in BOOLEAN

Agrees(list) == \A r \in Row : Lists(list, r) = Lists(server, r)

ListInv ==
    /\ TypeOK
    /\ load = Idle => cache \in [Row -> Nat]
    /\ ~disturbed /\ news = 0 => /\ load.at = "read" => Agrees(load.list)
                                 /\ load = Idle => Agrees(cache)
=============================================================================
