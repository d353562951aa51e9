------------------------------ MODULE ImportBatch ------------------------------
(***************************************************************************)
(* A spreadsheet on its way into the catalogue: the mapping of its columns *)
(* makes drafts of its rows, a person reviews the drafts, and a confirm    *)
(* books them one by one.  The drafts here are those of one row, which is   *)
(* new each time it is booked: a movement, an order.  Each mapping makes   *)
(* another draft of it.  Every database call is a step.                    *)
(***************************************************************************)
EXTENDS Naturals, FiniteSets

CONSTANTS
    Clerk,     \* requests in progress
    MaxDrafts, \* bound: drafts ever made
    MaxBooked  \* bound: bookings of a draft

VARIABLES
    status,    \* import_batches.status, "gone" when deleted
    draft,     \* import_drafts
    booked,    \* what each draft has booked
    clerk,     \* what each request is doing
    causes     \* history: what may let the row be booked again

vars == <<status, draft, booked, clerk, causes>>
-----------------------------------------------------------------------------
Id == 1..MaxDrafts
Idle == [pc |-> "idle"]
There == {d \in Id : draft[d] \notin {"none", "deleted"}}
Open(d) == draft[d] \in {"pending", "confirmed"}

Init ==
    /\ status = "pending" /\ draft = [d \in Id |-> "none"]
    /\ booked = [d \in Id |-> 0] /\ causes = {}
    /\ clerk = [c \in Clerk |-> Idle]

At(c, pc) == clerk[c].pc = pc
Go(c, job) == clerk' = [clerk EXCEPT ![c] = job]
Mark(d, s) == draft' = [draft EXCEPT ![d] = s]

Busy == \E c \in Clerk : clerk[c].pc \in {"read", "book", "mark", "finish"}

\* An update of the status by id: it finds the batch as long as it exists.
Set(s) ==
    /\ status' = IF status = "gone" THEN "gone" ELSE s
    /\ causes' = causes \cup (IF Busy THEN {"reopened"} ELSE {})
-----------------------------------------------------------------------------
\* The mapping of the columns asks for an existing batch, in whatever status.
StartMapping(c) ==
    /\ At(c, "idle") /\ status # "gone"
    /\ Go(c, [pc |-> "clear"])
    /\ UNCHANGED <<status, draft, booked, causes>>

\* Whether the deletion fails is not looked at.
ClearDrafts(c) ==
    /\ At(c, "clear") /\ Go(c, [pc |-> "processing"])
    /\ draft' \in {draft, [d \in Id |-> IF draft[d] = "pending" THEN "deleted" ELSE draft[d]]}
    /\ UNCHANGED <<status, booked, causes>>

SetProcessing(c) ==
    /\ At(c, "processing") /\ Set("processing")
    /\ Go(c, IF status = "gone" THEN Idle ELSE [pc |-> "create"])
    /\ UNCHANGED <<draft, booked>>

\* The row was booked, has a draft, or a confirm is under way that may know one.
Known == There # {} \/ Busy \/ \E d \in Id : booked[d] > 0

\* One insert for the rows of a sheet, whatever was made of them before.
CreateDrafts(c) ==
    /\ At(c, "create") /\ Go(c, [pc |-> "review"])
    /\ \E d \in Id :
          /\ draft[d] = "none" /\ \A e \in Id : e < d => draft[e] # "none"
          /\ Mark(d, "pending")
    /\ causes' = causes \cup (IF Known THEN {"remapped"} ELSE {})
    /\ UNCHANGED <<status, booked>>

SetReview(c) ==
    /\ At(c, "review") /\ Set("review") /\ Go(c, Idle)
    /\ UNCHANGED <<draft, booked>>

\* A draft is written by its id, whatever it and its batch have become.
ReviewDraft(c) ==
    /\ At(c, "idle")
    /\ \E d \in There, s \in {"pending", "confirmed", "rejected"} :
          /\ Mark(d, s)
          /\ causes' = causes \cup
                (IF booked[d] > 0 /\ s # "rejected" THEN {"restored"} ELSE {})
    /\ UNCHANGED <<status, booked, clerk>>

\* So is the status of the batch.
PatchStatus(c) ==
    /\ At(c, "idle") /\ status # "gone"
    /\ \E s \in {"processing", "review", "failed"} : Set(s)
    /\ UNCHANGED <<draft, booked, clerk>>

\* Somebody goes back: the drafts go, then the batch and what was added to it.
DeleteDrafts(c) ==
    /\ At(c, "idle") /\ status # "gone"
    /\ draft' = [d \in Id |-> IF d \in There THEN "deleted" ELSE draft[d]]
    /\ Go(c, [pc |-> "delete"])
    /\ UNCHANGED <<status, booked, causes>>

DeleteBatch(c) ==
    /\ At(c, "delete") /\ status' = "gone" /\ Go(c, Idle)
    /\ draft' = [d \in Id |-> IF d \in There THEN "deleted" ELSE draft[d]]
    /\ UNCHANGED <<booked, causes>>
-----------------------------------------------------------------------------
Claimable == status \in {"pending", "review"}

Claim(c) ==
    /\ At(c, "idle") /\ Claimable
    /\ status' = "confirming" /\ Go(c, [pc |-> "read"])
    /\ UNCHANGED <<draft, booked, causes>>

\* The drafts are read once; what becomes of them later is not seen.
ReadDrafts(c) ==
    LET todo == {d \in There : Open(d)} IN
    /\ At(c, "read")
    /\ Go(c, [pc |-> IF todo = {} THEN "finish" ELSE "book", todo |-> todo])
    /\ UNCHANGED <<status, draft, booked, causes>>

After(c, d) ==
    LET todo == clerk[c].todo \ {d} IN
    Go(c, [pc |-> IF todo = {} THEN "finish" ELSE "book", todo |-> todo])

\* The booking itself and the mark on the draft are two calls; a draft that
\* cannot be booked is rejected, if it still exists.
Book(c) ==
    /\ At(c, "book")
    /\ \E d \in clerk[c].todo :
          \/ /\ booked[d] < MaxBooked /\ booked' = [booked EXCEPT ![d] = @ + 1]
             /\ Go(c, [pc |-> "mark", todo |-> clerk[c].todo, at |-> d])
             /\ UNCHANGED draft
          \/ /\ IF d \in There THEN Mark(d, "rejected") ELSE UNCHANGED draft
             /\ After(c, d)
             /\ UNCHANGED booked
    /\ UNCHANGED <<status, causes>>

\* A mark that fails is followed by a rejection, which may fail as well.
MarkDraft(c) ==
    LET d == clerk[c].at IN
    /\ At(c, "mark") /\ After(c, d)
    /\ \/ /\ d \in There /\ \E s \in {"merged", "rejected"} : Mark(d, s)
          /\ UNCHANGED causes
       \/ causes' = causes \cup {"unmarked"} /\ UNCHANGED draft
    /\ UNCHANGED <<status, booked>>

\* If the last write fails the batch is given back, unless that fails as well.
Finish(c) ==
    /\ At(c, "finish") /\ Go(c, Idle)
    /\ IF status = "gone" THEN UNCHANGED status ELSE status' \in {"confirmed", "review", status}
    /\ UNCHANGED <<draft, booked, causes>>

\* The process dies: nothing gives the batch back.
Die(c) ==
    /\ ~At(c, "idle") /\ Go(c, Idle)
    /\ causes' = causes \cup (IF At(c, "mark") THEN {"unmarked"} ELSE {})
    /\ UNCHANGED <<status, draft, booked>>

Mapping(c) == StartMapping(c) \/ ClearDrafts(c) \/ SetProcessing(c) \/ CreateDrafts(c) \/ SetReview(c)
Desk(c) == ReviewDraft(c) \/ PatchStatus(c) \/ DeleteDrafts(c) \/ DeleteBatch(c)
Confirm(c) == Claim(c) \/ ReadDrafts(c) \/ Book(c) \/ MarkDraft(c) \/ Finish(c)

Next == \E c \in Clerk : Mapping(c) \/ Desk(c) \/ Confirm(c) \/ Die(c)

Spec == Init /\ [][Next]_vars
-----------------------------------------------------------------------------
\* A row is booked once, by two tabs, a second click, a retry or after a mapping
\* that replaces its pending draft as well, as long as nobody rewrites the status
\* during a confirm, opens a booked draft or maps the row anew while it has a draft
\* or was booked, and the mark of each booking is written.
BookedOnce ==
    causes = {} => \A d, e \in Id : booked[d] > 0 /\ booked[e] > 0 => d = e /\ booked[d] = 1
-----------------------------------------------------------------------------
\* Why: one request holds the batch, and what is booked is not open, but for the one
\* draft that is about to be marked.
Job ==
    {Idle} \cup [pc : {"clear", "processing", "create", "review", "delete", "read"}]
    \cup [pc : {"book", "finish"}, todo : SUBSET Id]
    \cup [pc : {"mark"}, todo : SUBSET Id, at : Id]

Causes == {"reopened", "restored", "unmarked", "remapped"}

TypeOK ==
    /\ status \in {"pending", "processing", "review", "failed", "confirming", "confirmed", "gone"}
    /\ draft \in [Id -> {"none", "pending", "confirmed", "rejected", "merged", "deleted"}]
    /\ booked \in [Id -> Nat] /\ causes \subseteq Causes
    /\ clerk \in [Clerk -> Job]

Holds(c) == clerk[c].pc \in {"read", "book", "mark", "finish"}
Marks(d) == \E c \in Clerk : At(c, "mark") /\ clerk[c].at = d

OneConfirm ==
    /\ \A c, d \in Clerk : Holds(c) /\ Holds(d) => c = d
    /\ \A c \in Clerk : Holds(c) => status \in {"confirming", "gone"}
    /\ \A d \in Id : /\ booked[d] <= 1
                     /\ booked[d] > 0 => draft[d] # "none" /\ (Open(d) => Marks(d))
    /\ \A c \in Clerk : \A d \in Id :
          /\ At(c, "book") /\ d \in clerk[c].todo => booked[d] = 0 /\ draft[d] # "none"
          /\ At(c, "mark") /\ d \in clerk[c].todo /\ d # clerk[c].at =>
                booked[d] = 0 /\ draft[d] # "none"

\* A draft that is there, is about to be booked or was booked: there is one.
Alive(d) ==
    d \in There \/ booked[d] > 0 \/ \E c \in Clerk : clerk[c].pc \in {"book", "mark"} /\ d \in clerk[c].todo

OneDraft == \A d, e \in Id : Alive(d) /\ Alive(e) => d = e

BatchInv == TypeOK /\ (causes = {} => OneConfirm /\ OneDraft)
=============================================================================
