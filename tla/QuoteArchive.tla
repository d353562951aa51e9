------------------------------ MODULE QuoteArchive ------------------------------
(***************************************************************************)
(* The frozen document of a quote that was sent: a row of                  *)
(* quote_pdf_archives and a file of the storage, whose path follows from   *)
(* the quote and its revision.  Sending, e-mailing and accepting a quote   *)
(* all call serviceArchiveQuotePdf, each call of which is a sequence of    *)
(* calls of the database and of the storage.  An acceptance goes on only   *)
(* when that call has returned.                                            *)
(***************************************************************************)
EXTENDS Naturals

CONSTANTS
    Request,    \* requests that archive the quote
    MaxRows,    \* bound: rows ever inserted
    MaxFaults   \* bound: calls that fail, answers that are lost, requests that die

VARIABLES
    row,        \* the quote's archive row, 0 if it has none
    rows,       \* rows inserted so far
    file,       \* is the file in the storage?
    accepted,   \* has the quote been accepted?
    request,    \* what each request is doing, with the row it has read or inserted
    faults,
    torn,       \* history: an upload was done although its answer was an error
    raced       \* history: a row was deleted whose file was being, or had been, uploaded

vars == <<row, rows, file, accepted, request, faults, torn, raced>>
-----------------------------------------------------------------------------
Idle == [step |-> "idle", row |-> 0, alone |-> TRUE]

Init ==
    /\ row = 0 /\ rows = 0 /\ file = FALSE /\ accepted = FALSE
    /\ request = [r \in Request |-> Idle]
    /\ faults = 0 /\ torn = FALSE /\ raced = FALSE

At(r, step) == request[r].step = step
Uploads(r, n) == At(r, "upload") /\ request[r].row = n
Active(r) == ~At(r, "idle") /\ ~At(r, "done") /\ ~At(r, "failed")

To(r, step) == request' = [request EXCEPT ![r].step = step]
ToWith(r, step, n) == request' = [request EXCEPT ![r].step = step, ![r].row = n]

\* A fault, which no request that is under way can be said to have been spared.
Fault ==
    /\ faults < MaxFaults /\ faults' = faults + 1

Spoilt(f) == [s \in Request |-> [f[s] EXCEPT !.alone = FALSE]]
-----------------------------------------------------------------------------
\* serviceArchiveQuotePdf begins; requests that overlap are not alone.
Begin(r) ==
    /\ ~Active(r)
    /\ LET others == \E s \in Request \ {r} : Active(s)
           begun == [request EXCEPT ![r] = [step |-> "look", row |-> 0, alone |-> TRUE]]
       IN  request' = IF others THEN Spoilt(begun) ELSE begun
    /\ UNCHANGED <<row, rows, file, accepted, faults, torn, raced>>

\* dbGetQuoteArchive
Look(r) ==
    /\ At(r, "look")
    /\ IF row = 0 THEN To(r, "insert") ELSE ToWith(r, "check", row)
    /\ UNCHANGED <<row, rows, file, accepted, faults, torn, raced>>

\* dbArchiveObjectStatus: present, missing, or (a fault) unknown.
Present(r) ==
    /\ At(r, "check") /\ file /\ To(r, "done")
    /\ UNCHANGED <<row, rows, file, accepted, faults, torn, raced>>

\* Mutant: a row without a file is left as it is.
MissingKept(r) ==
    /\ At(r, "check") /\ ~file /\ To(r, "insert")
    /\ UNCHANGED <<row, rows, file, accepted, faults, torn, raced>>

Missing(r) ==
    /\ At(r, "check") /\ ~file /\ To(r, "remove")
    /\ UNCHANGED <<row, rows, file, accepted, faults, torn, raced>>

Unknown(r) ==
    /\ At(r, "check") /\ Fault
    /\ request' = Spoilt([request EXCEPT ![r].step = "failed"])
    /\ UNCHANGED <<row, rows, file, accepted, torn, raced>>

\* dbDeleteQuoteArchive removes the file, whatever becomes of that, and then the
\* row by its id.
Remove(r) ==
    /\ At(r, "remove")
    /\ \/ file' = FALSE /\ To(r, "drop") /\ UNCHANGED faults
       \/ UNCHANGED file /\ Fault /\ request' = Spoilt([request EXCEPT ![r].step = "drop"])
    /\ raced' = (raced \/ file)
    /\ UNCHANGED <<row, rows, accepted, torn>>

DeleteRow(n) == row' = IF row = n THEN 0 ELSE row

Drop(r) ==
    /\ At(r, "drop")
    /\ DeleteRow(request[r].row)
    /\ raced' = (raced \/ file \/ \E s \in Request : Uploads(s, request[r].row))
    /\ To(r, "insert")
    /\ UNCHANGED <<rows, file, accepted, faults, torn>>

\* dbCreateQuoteArchive: the unique index lets one row in, whose answer may be lost.
Insert(r) ==
    /\ At(r, "insert")
    /\ \/ /\ row = 0 /\ rows < MaxRows
          /\ rows' = rows + 1 /\ row' = rows + 1 /\ ToWith(r, "upload", rows + 1)
          /\ UNCHANGED faults
       \/ row # 0 /\ To(r, "reread") /\ UNCHANGED <<row, rows, faults>>
       \/ /\ Fault /\ request' = Spoilt([request EXCEPT ![r].step = "reread"])
          /\ IF row = 0 /\ rows < MaxRows
             THEN rows' = rows + 1 /\ row' = rows + 1
             ELSE UNCHANGED <<row, rows>>
    /\ UNCHANGED <<file, accepted, torn, raced>>

\* The upload replaces nothing (upsert: false); what it answers may be wrong.
Upload(r) ==
    /\ At(r, "upload")
    /\ \/ ~file /\ file' = TRUE /\ To(r, "done") /\ UNCHANGED <<faults, torn>>
       \/ file /\ To(r, "undo") /\ UNCHANGED <<file, faults, torn>>
       \/ /\ Fault /\ request' = Spoilt([request EXCEPT ![r].step = "undo"])
          /\ \/ UNCHANGED <<file, torn>>
             \/ ~file /\ file' = TRUE /\ torn' = TRUE
    /\ UNCHANGED <<row, rows, accepted, raced>>

\* The row of a failed upload goes; what becomes of this call is not looked at.
Undo(r) ==
    /\ At(r, "undo")
    /\ \/ DeleteRow(request[r].row) /\ To(r, "reread") /\ UNCHANGED faults
       \/ /\ Fault /\ request' = Spoilt([request EXCEPT ![r].step = "reread"])
          /\ UNCHANGED row
    /\ UNCHANGED <<rows, file, accepted, torn, raced>>

\* A failed creation is a success when row and file of another request are there.
Reread(r) ==
    /\ At(r, "reread")
    /\ To(r, IF row = 0 THEN "failed" ELSE "recheck")
    /\ UNCHANGED <<row, rows, file, accepted, faults, torn, raced>>

Recheck(r) ==
    /\ At(r, "recheck")
    /\ To(r, IF file THEN "done" ELSE "failed")
    /\ UNCHANGED <<row, rows, file, accepted, faults, torn, raced>>

Die(r) ==
    /\ Active(r) /\ Fault
    /\ request' = Spoilt([request EXCEPT ![r].step = "failed"])
    /\ UNCHANGED <<row, rows, file, accepted, torn, raced>>
-----------------------------------------------------------------------------
\* serviceAcceptQuoteToOrder calls accept_quote_and_create_order only after an
\* archiving that returned; the function itself sees the row and not the file.
Accept(r) ==
    /\ ~accepted /\ At(r, "done") /\ row # 0
    /\ accepted' = TRUE
    /\ UNCHANGED <<row, rows, file, request, faults, torn, raced>>

Step(r) ==
    \/ Look(r) \/ Present(r) \/ Missing(r) \/ Unknown(r) \/ Remove(r) \/ Drop(r)
    \/ Insert(r) \/ Upload(r) \/ Undo(r) \/ Reread(r) \/ Recheck(r) \/ Die(r)

Next == \E r \in Request : Begin(r) \/ Step(r) \/ Accept(r)

Spec == Init /\ [][Next]_vars
-----------------------------------------------------------------------------
\* A quote is accepted only with its document archived, whatever fails, unless a
\* request that took an archive for broken deleted the one another was making.
AcceptedIsArchived ==
    [][accepted' # accepted /\ ~raced => row # 0 /\ file]_vars

\* The archiving that runs alone and meets no fault succeeds, so that repeating it
\* heals whatever a failure left; only a file without a row, which an upload leaves
\* whose answer was lost, or two requests that overlap, keeps it from that for ever.
RetryHeals ==
    \A r \in Request : At(r, "failed") /\ request[r].alone => torn \/ raced
-----------------------------------------------------------------------------
\* Why: a file that is there stays there and has its row, and the row that a request
\* has inserted is its own until it has uploaded the file or taken the row back.
TypeOK ==
    /\ row \in Nat /\ rows \in Nat /\ file \in BOOLEAN /\ accepted \in BOOLEAN
    /\ request \in [Request ->
          [step : {"idle", "look", "check", "remove", "drop", "insert", "upload", "undo", "reread",
                   "recheck", "done", "failed"},
           row : Nat, alone : BOOLEAN]]
    /\ faults \in Nat /\ torn \in BOOLEAN /\ raced \in BOOLEAN

Owns(r) == At(r, "upload") \/ At(r, "undo")

Owned ==
    /\ row <= rows
    /\ \A r \in Request : request[r].row <= rows /\ (Owns(r) => request[r].row > 0)
    /\ \A r, s \in Request : Owns(r) /\ Owns(s) /\ request[r].row = request[s].row => r = s

Kept ==
    /\ file => row # 0
    /\ \A r \in Request :
          /\ At(r, "done") => file
          /\ At(r, "upload") => row = request[r].row
          /\ Owns(r) /\ row = request[r].row => ~file

\* A request that is alone goes straight.
Straight(r) ==
    /\ \A s \in Request : s # r => ~Active(s)
    /\ \/ At(r, "look")
       \/ At(r, "check") /\ row = request[r].row
       \/ (At(r, "remove") \/ At(r, "drop")) /\ row = request[r].row /\ ~file
       \/ At(r, "insert") /\ row = 0 /\ ~file
       \/ At(r, "upload")

Alone == \A r \in Request : request[r].alone => ~At(r, "failed") /\ (Active(r) => Straight(r))

ArchiveInv ==
    /\ TypeOK /\ Owned
    /\ ~raced => \A r \in Request : At(r, "done") => file
    /\ ~raced /\ ~torn => Kept /\ Alone
=============================================================================
