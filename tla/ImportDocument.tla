---------------------------- MODULE ImportDocument ----------------------------
(***************************************************************************)
(* A classified document on its way into the catalogue: requests that      *)
(* extract its lines with the model, review a line and apply the lines.    *)
(* Every database call is a step of its own, a request may die between two *)
(* of them, and what is read early is used late.  A line here adds a file  *)
(* to a product or fills its empty fields: it can succeed every time.      *)
(***************************************************************************)
EXTENDS Naturals, FiniteSets

CONSTANTS
    Session,   \* requests in progress
    MaxLines,  \* bound: lines extracted
    MaxCommits \* bound: applications that wrote something

VARIABLES
    status,    \* import_documents.status
    line,      \* import_document_lines
    session,   \* what each request is doing
    commits,   \* history: applications that wrote something
    reopened,  \* history: the status was rewritten over a claim
    gaveBack,  \* history: an application wrote what it does not count, and gave
               \* the document back
    late       \* history: lines changed after an application had read them

vars == <<status, line, session, commits, reopened, gaveBack, late>>
-----------------------------------------------------------------------------
Id == 1..MaxLines
Unmade == [state |-> "none"]
Idle == [pc |-> "idle"]
Eligible == {"matched", "new_product"}
Lines == {l \in Id : line[l].state = "there"}

Init ==
    /\ status = "classified" /\ line = [l \in Id |-> Unmade]
    /\ session = [s \in Session |-> Idle]
    /\ commits = 0 /\ reopened = FALSE /\ gaveBack = FALSE /\ late = FALSE

At(s, pc) == session[s].pc = pc
Go(s, job) == session' = [session EXCEPT ![s] = job]

\* An application holds the lines it has read.
Applying == \E s \in Session : session[s].pc \in {"apply", "end"}
-----------------------------------------------------------------------------
\* Extraction: the status is tested first, and the model answers much later.
StartExtract(s) ==
    /\ At(s, "idle") /\ status = "classified"
    /\ \E override \in BOOLEAN : Go(s, [pc |-> IF override THEN "override" ELSE "ask"])
    /\ UNCHANGED <<status, line, commits, reopened, gaveBack, late>>

\* The chosen operation is kept, and the default argument sets the status.
Override(s) ==
    /\ At(s, "override") /\ Go(s, [pc |-> "ask"])
    /\ status' = "classified"
    /\ reopened' = (reopened \/ status # "classified")
    /\ UNCHANGED <<line, commits, gaveBack, late>>

\* Without lines the old ones stay; a request that is cut off stops here too.
Answer(s) ==
    /\ At(s, "ask")
    /\ \/ Go(s, [pc |-> "replace"])
       \/ Go(s, Idle)
    /\ UNCHANGED <<status, line, commits, reopened, gaveBack, late>>

DeleteLines(s) ==
    /\ At(s, "replace") /\ Go(s, [pc |-> "insert"])
    /\ line' = [l \in Id |-> IF l \in Lines THEN [state |-> "deleted"] ELSE line[l]]
    /\ late' = (late \/ Applying \/ status = "applied")
    /\ UNCHANGED <<status, commits, reopened, gaveBack>>

InsertLines(s) ==
    /\ At(s, "insert") /\ Go(s, Idle)
    /\ \E l \in Id, action \in {"pending", "matched", "new_product"} :
          /\ line[l] = Unmade /\ \A k \in Id : k < l => line[k] # Unmade
          /\ line' = [line EXCEPT ![l] = [state |-> "there", action |-> action, tried |-> FALSE]]
    /\ late' = (late \/ Applying \/ status = "applied")
    /\ UNCHANGED <<status, commits, reopened, gaveBack>>
-----------------------------------------------------------------------------
\* Review: the line and the document are read, and the line written by its id.
StartReview(s) ==
    /\ At(s, "idle") /\ status # "applied"
    /\ \E l \in Lines : Go(s, [pc |-> "review", line |-> l])
    /\ UNCHANGED <<status, line, commits, reopened, gaveBack, late>>

Review(s) ==
    /\ At(s, "review") /\ Go(s, Idle)
    /\ IF session[s].line \in Lines
       THEN /\ \E action \in Eligible \cup {"pending", "skipped"} :
                  line' = [line EXCEPT ![session[s].line].action = action]
            /\ late' = (late \/ Applying \/ status = "applied")
       ELSE UNCHANGED <<line, late>>
    /\ UNCHANGED <<status, commits, reopened, gaveBack>>
-----------------------------------------------------------------------------
\* Mutant: the status is tested, and set later, as before the claim.
ClaimableOld == status \in {"classified", "applying"}

Claimable == status = "classified"

Claim(s) ==
    /\ At(s, "idle") /\ Claimable /\ commits < MaxCommits
    /\ status' = "applying" /\ Go(s, [pc |-> "lines"])
    /\ UNCHANGED <<line, commits, reopened, gaveBack, late>>

\* Nothing to apply, or an unreadable file: the document is given back.
ReadLines(s) ==
    LET todo == {l \in Lines : line[l].action \in Eligible} IN
    /\ At(s, "lines")
    /\ \/ todo # {} /\ Go(s, [pc |-> "apply", todo |-> todo, wrote |-> "nothing"]) /\ UNCHANGED status
       \/ status' = "classified" /\ Go(s, Idle)
    /\ UNCHANGED <<line, commits, reopened, gaveBack, late>>

\* What an application has written: products and files are counted; the image of a
\* matched product with nothing else to fill is not, nor is a write whose answer is
\* lost or that is followed by a failure of the same line.
Written == {"nothing", "uncounted", "counted"}

Sum(before, now) ==
    CASE "counted" \in {before, now} -> "counted"
      [] "uncounted" \in {before, now} -> "uncounted"
      [] OTHER -> "nothing"

\* A line that fails does not stop the others.
ApplyLine(s) ==
    /\ At(s, "apply")
    /\ \E l \in session[s].todo, w \in Written :
          /\ session' = [session EXCEPT ![s].todo = @ \ {l}, ![s].wrote = Sum(@, w),
                                        ![s].pc = IF session[s].todo = {l} THEN "end" ELSE "apply"]
          /\ commits' = commits + (IF session[s].wrote = "nothing" /\ w # "nothing" THEN 1 ELSE 0)
          /\ line' = IF l \in Lines THEN [line EXCEPT ![l].tried = TRUE] ELSE line
    /\ UNCHANGED <<status, reopened, gaveBack, late>>

\* What is counted decides.  The last write is tried twice; if it fails the document
\* stays claimed.
EndStatus(wrote) == IF wrote = "counted" THEN {"applied", status} ELSE {"classified", status}

EndApply(s) ==
    /\ At(s, "end") /\ Go(s, Idle)
    /\ status' \in EndStatus(session[s].wrote)
    /\ gaveBack' = (gaveBack \/ (session[s].wrote = "uncounted" /\ status' = "classified"))
    /\ UNCHANGED <<line, commits, reopened, late>>

\* The process dies: nothing gives a claim back.
Die(s) == ~At(s, "idle") /\ Go(s, Idle) /\ UNCHANGED <<status, line, commits, reopened, gaveBack, late>>

Next ==
    \E s \in Session :
        \/ StartExtract(s) \/ Override(s) \/ Answer(s) \/ DeleteLines(s) \/ InsertLines(s)
        \/ StartReview(s) \/ Review(s)
        \/ Claim(s) \/ ReadLines(s) \/ ApplyLine(s) \/ EndApply(s) \/ Die(s)

Spec == Init /\ [][Next]_vars
-----------------------------------------------------------------------------
\* A document is applied once: two tabs, a second click, a crash or an error at
\* the end lead to no second application.  The exceptions are an extraction that
\* writes the status over a claim, and an application that gave the document back
\* because nothing it wrote is counted: an image of a product that lacked no field.
AppliedOnce == commits > 1 => reopened \/ gaveBack

\* The same, as the service states it of what it counts, whatever an extraction does.
AppliedOnceEver == commits > 1 => gaveBack

\* An applied document shows what was applied: at least one line succeeded and
\* every line that could be applied was tried, unless somebody changed the
\* lines behind the application.
AppliedTells ==
    (status = "applied" /\ ~late /\ ~reopened) =>
        commits > 0 /\ \A l \in Lines : line[l].action \in Eligible => line[l].tried
-----------------------------------------------------------------------------
\* Why: one request holds the claim; what it has written is what is counted, and it
\* has tried every line it does not still have to try.
Job ==
    {Idle} \cup [pc : {"override", "ask", "replace", "insert", "lines"}]
    \cup [pc : {"review"}, line : Id]
    \cup [pc : {"apply", "end"}, todo : SUBSET Id, wrote : Written]

TypeOK ==
    /\ status \in {"classified", "applying", "applied"}
    /\ line \in [Id -> {Unmade, [state |-> "deleted"]}
                       \cup [state : {"there"}, action : Eligible \cup {"pending", "skipped"},
                             tried : BOOLEAN]]
    /\ session \in [Session -> Job]
    /\ commits \in Nat /\ reopened \in BOOLEAN /\ gaveBack \in BOOLEAN /\ late \in BOOLEAN

Writes(s) == session[s].pc \in {"apply", "end"}
Holds(s) == At(s, "lines") \/ Writes(s)
Tried(l) == line[l].action \in Eligible => line[l].tried

OneClaim ==
    /\ \A s, t \in Session : Holds(s) /\ Holds(t) => s = t
    /\ \A s \in Session :
          /\ Holds(s) => status = "applying"
          /\ Writes(s) /\ session[s].wrote # "nothing" => commits > 0
    /\ gaveBack \/ status = "applied" => commits > 0

WroteOnce ==
    /\ \A s \in Session :
          /\ At(s, "lines") => commits = 0
          /\ Writes(s) => commits = IF session[s].wrote = "nothing" THEN 0 ELSE 1
    /\ commits <= 1
    /\ status = "classified" => commits = 0

NoneForgotten ==
    /\ \A s \in Session : Writes(s) => \A l \in Lines : Tried(l) \/ l \in session[s].todo
    /\ \A s \in Session : At(s, "end") => session[s].todo = {}
    /\ status = "applied" => \A l \in Lines : Tried(l)

DocumentInv ==
    TypeOK /\ (~reopened => OneClaim /\ (~gaveBack => WroteOnce) /\ (~late => NoneForgotten))
=============================================================================
