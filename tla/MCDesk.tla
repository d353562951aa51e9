------------------------------- MODULE MCDesk -------------------------------
(***************************************************************************)
(* The parts that work for one desk, for TLC: recommendations, imports,    *)
(* stock mirror, purchase bills, voice, invoice totals, four pages of the  *)
(* browser, the files of quotes and products, and the limit on calls.      *)
(* They share no state that a property relates: a behaviour is one of any  *)
(* of them, while the others rest.                                         *)
(***************************************************************************)
EXTENDS Naturals, FiniteSets

CONSTANTS
    Run, Other, User, Product, NoRun,                 \* requests, people, products
    MaxNeed, MaxRecs, Decided,                        \* recommendations
    MaxLines, MaxCommits, MaxDrafts, MaxBooked,       \* imports
    Compared, MaxStock, MaxStockFaults, MaxBillFaults, \* accounting
    MaxTakes, Limit, Window, OpenFor, Threshold, MaxTime, \* assistant
    MaxForms, MaxQuotes, MaxVersion,                  \* pages
    MaxRows, MaxArchiveFaults, MaxFileFaults          \* files

VARIABLES
    part,
    need, gone, rec, copilot, user, calm,
    document, line, session, commits, reopened, gaveBack, behind,
    batch, draft, booked, clerk, causes,
    onHand, count, unsent, autocorrect, alert, mirror, stockFaults, still, missed,
    po, lock, bills, billRun, billFaults, stale,
    take, stream, recorder, timer, cancelled, button, mounted, late, muddled,
    order, byHand, invoice,
    server, shown, decision, load, due, crossed,
    quote, text, forms, page, call, reused,
    rows, cache, fetch, change, news, overtaken,
    now, counter, failures, opened, hits, request, passed,
    row, written, file, accepted, archiver, archiveFaults, torn, raced,
    fileRow, object, creation, deletion, primary, setter, fileFaults, tornLink, spoilt, early,
    seen, status, filter, first, cursors, answered, extra, touched, changes

\* The code treats all decisions on a recommendation alike: the runs take one of them.
R == INSTANCE Recommendations WITH
       Run <- Other, run <- copilot
D == INSTANCE ImportDocument WITH
       Session <- Run, status <- document, late <- behind
B == INSTANCE ImportBatch WITH
       Clerk <- Run, status <- batch
S == INSTANCE StockMirror WITH
       MaxFaults <- MaxStockFaults, run <- mirror, faults <- stockFaults
P == INSTANCE BillSync WITH
       None <- NoRun, MaxFaults <- MaxBillFaults, run <- billRun, faults <- billFaults
V == INSTANCE VoiceRecorder
I == INSTANCE InvoiceTotals WITH
       MaxLines <- 4, Quantity <- {1, 3}, Price <- {700, 2900}, Percent <- {0, 15},
       Discount <- {0, 5, 7}, Rate <- {0, 20}, Off <- {0, 40, 10001}
A == INSTANCE AdvicePage WITH
       Decision <- Run, Load <- Run, timer <- due, disturbed <- crossed
Q == INSTANCE QuoteEditor WITH
       Call <- Run, draft <- text
L == INSTANCE ListCache WITH
       Row <- Product, Change <- Other, server <- rows, load <- fetch,
       disturbed <- overtaken
M == INSTANCE RateLimit WITH
       Request <- Run
X == INSTANCE QuoteArchive WITH
       Request <- Run, MaxFaults <- MaxArchiveFaults, rows <- written, request <- archiver,
       faults <- archiveFaults
F == INSTANCE FileStore WITH
       File <- Product, Setter <- Run, MaxFaults <- MaxFileFaults, row <- fileRow, faults <- fileFaults,
       torn <- tornLink
E == INSTANCE ErrorPages WITH
       Group <- {1, 2, 3}, PageSize <- 1, MaxTime <- 2, MaxExtra <- 2, MaxChanges <- 2

ASSUME LimitAssumption == Limit \in Nat \ {0} /\ Window \in Nat \ {0} /\ IsFiniteSet(Run)
ASSUME NoRunAssumption == NoRun \notin Run
ASSUME ComparedAssumption == Compared \subseteq Product
ASSUME AdviceAssumption ==
    MaxNeed \in Nat /\ MaxRecs \in Nat /\ Decided \subseteq {"accepted", "edited", "rejected"}

adviceVars == <<need, gone, rec, copilot, user, calm>>
documentVars == <<document, line, session, commits, reopened, gaveBack, behind>>
batchVars == <<batch, draft, booked, clerk, causes>>
stockVars == <<onHand, count, unsent, autocorrect, alert, mirror, stockFaults, still, missed>>
billVars == <<po, lock, bills, billRun, billFaults, stale>>
voiceVars == <<take, stream, recorder, timer, cancelled, button, mounted, late, muddled>>
invoiceVars == <<order, byHand, invoice>>
suggestionsVars == <<server, shown, decision, load, due, crossed>>
quoteVars == <<quote, text, forms, page, call, reused>>
listVars == <<rows, cache, fetch, change, news, overtaken>>
limitVars == <<now, counter, failures, opened, hits, request, passed>>
archiveVars == <<row, written, file, accepted, archiver, archiveFaults, torn, raced>>
fileVars == <<fileRow, object, creation, deletion, primary, setter, fileFaults, tornLink,
              spoilt, early>>
errorVars == <<seen, status, filter, first, cursors, answered, extra, touched, changes>>

vars == <<part, adviceVars, documentVars, batchVars, stockVars, billVars, voiceVars,
          invoiceVars, suggestionsVars, quoteVars, listVars, limitVars, archiveVars,
          fileVars, errorVars>>

\* The parts that rest have one state.
Init ==
    /\ part \in {"advice", "document", "batch", "stock", "bill", "voice",
                 "invoice", "suggestions", "quote", "list", "limit", "archive",
                 "file", "error"}
    /\ D!Init /\ B!Init /\ P!Init /\ V!Init /\ Q!Init /\ M!Init /\ X!Init /\ F!Init
    /\ E!Init /\ (part = "error" \/ \A g \in DOMAIN seen : seen[g] = 0)
    /\ R!Init /\ (part = "advice" \/ need = 0)
    /\ S!Init
    /\ part = "stock" \/ (autocorrect /\ alert /\ \A p \in Product : onHand[p] = 0 /\ count[p] = 0)
    /\ A!Init /\ (part = "suggestions" \/ server = "suggested")
    /\ L!Init /\ (part = "list" \/ rows = L!Nothing)
    /\ IF part = "invoice" THEN I!Init ELSE I!FromForm(<<>>) /\ invoice = "open"

Step ==
    \/ part = "advice" /\ R!Next
    \/ part = "document" /\ D!Next
    \/ part = "batch" /\ B!Next
    \/ part = "stock" /\ S!Next
    \/ part = "bill" /\ P!Next
    \/ part = "voice" /\ V!Next
    \/ part = "invoice" /\ I!Next
    \/ part = "suggestions" /\ A!Next
    \/ part = "quote" /\ Q!Next
    \/ part = "list" /\ L!Next
    \/ part = "limit" /\ M!Next
    \/ part = "archive" /\ X!Next
    \/ part = "file" /\ F!Next
    \/ part = "error" /\ E!Next

\* One part works and the others rest.
Next ==
    /\ Step /\ UNCHANGED part
    /\ IF part = "advice" THEN TRUE ELSE UNCHANGED adviceVars
    /\ IF part = "document" THEN TRUE ELSE UNCHANGED documentVars
    /\ IF part = "batch" THEN TRUE ELSE UNCHANGED batchVars
    /\ IF part = "stock" THEN TRUE ELSE UNCHANGED stockVars
    /\ IF part = "bill" THEN TRUE ELSE UNCHANGED billVars
    /\ IF part = "voice" THEN TRUE ELSE UNCHANGED voiceVars
    /\ IF part = "invoice" THEN TRUE ELSE UNCHANGED invoiceVars
    /\ IF part = "suggestions" THEN TRUE ELSE UNCHANGED suggestionsVars
    /\ IF part = "quote" THEN TRUE ELSE UNCHANGED quoteVars
    /\ IF part = "list" THEN TRUE ELSE UNCHANGED listVars
    /\ IF part = "limit" THEN TRUE ELSE UNCHANGED limitVars
    /\ IF part = "archive" THEN TRUE ELSE UNCHANGED archiveVars
    /\ IF part = "file" THEN TRUE ELSE UNCHANGED fileVars
    /\ IF part = "error" THEN TRUE ELSE UNCHANGED errorVars

Spec == Init /\ [][Next]_vars
-----------------------------------------------------------------------------
\* What was decided on a recommendation stays as it was decided, and a quote is
\* accepted only with its document archived.
DecisionsHold == R!FrozenDecision /\ X!AcceptedIsArchived

\* A run that nobody disturbs leaves the right suggestion, and the page that
\* decides on it shows what the server has.
SuggestionTells == R!RunTells /\ A!PageTells

\* A document is applied once, except through an extraction or after an application
\* that counted nothing of what it wrote, and shows what was applied; a row of a
\* spreadsheet is booked once, unless it is mapped anew over a draft or a booking.
ImportedOnce == D!AppliedOnce /\ D!AppliedTells /\ B!BookedOnce

\* A run that nothing moves under settles the stock, and a purchase order gets a
\* second bill only through a stale run.
RecordsAgree == S!RunSettles /\ P!SecondBillNeedsStaleRun

\* Archiving a quote anew heals a broken archive; the rows of a product's files and
\* the files go together, and a primary image is not lost to two choices at once.
FilesKept == X!RetryHeals /\ F!FilesMatchRows /\ F!PrimaryStays

\* The assistant keeps to what it was granted: the microphone is open only where the
\* page says so, what was cancelled is unheard, and a window lets through less than
\* three times the limit of calls.
AssistantBounded == V!VoiceKept /\ M!SpendBounded

\* The tab forgets and repeats nothing: a form becomes one quote and does not come
\* back when it was sent, and the list of customers shows what the server has.
TabTells == Q!OneQuoteOfAForm /\ L!ListTells

\* What is put together from parts is the whole: an invoice priced in cents, sent line
\* by line, comes to the total of its order, and a list of errors, read page by page,
\* is complete.
PartsMakeTheWhole == I!PricedInCentsAgrees /\ E!ListIsWhole
=============================================================================
