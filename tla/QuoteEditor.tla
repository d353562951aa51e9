----------------------------- MODULE QuoteEditor -----------------------------
(***************************************************************************)
(* The form of a quote in one browser tab.  What is typed is kept in one   *)
(* place of localStorage, whatever quote the form is of, and a new form    *)
(* starts from what is there.  Saving and sending go on after the page is  *)
(* left, and move the user to the quote when a sending ends.               *)
(*                                                                         *)
(* A text is known by the form it was begun in; its versions are left out. *)
(***************************************************************************)
EXTENDS Naturals, Sequences

CONSTANTS
    Call,       \* saves and sendings under way at a time
    MaxForms,   \* bound: forms begun empty
    MaxQuotes   \* bound: quotes made

VARIABLES
    quote,    \* the quotes: the form each was made from, its status, sent from where
    draft,    \* the form whose text localStorage keeps, 0 when none
    forms,    \* forms begun empty so far
    page,     \* the page in the tab
    call,     \* what each save or sending is doing
    reused    \* history: forms restored when they were a quote, opened again while
              \* they were being saved or sent, or saved or sent without an answer

vars == <<quote, draft, forms, page, call, reused>>
-----------------------------------------------------------------------------
Away == [at |-> "away"]
Idle == [at |-> "idle"]

Init ==
    /\ quote = <<>> /\ draft = 0 /\ forms = 0 /\ page = Away
    /\ call = [c \in Call |-> Idle] /\ reused = {}

IsAt(c, place) == call[c].at = place
\* The server made or sent the quote and nobody has heard of it yet.
Unheard(c) == IsAt(c, "created") \/ IsAt(c, "sent")
\* The saves and sendings the page itself waits for.
Mine == {c \in Call : ~IsAt(c, "idle") /\ call[c].mine}
UnderWay(f) == \E c \in Call : ~IsAt(c, "idle") /\ call[c].form = f
Orphaned == [c \in Call |-> IF IsAt(c, "idle") THEN Idle ELSE [call[c] EXCEPT !.mine = FALSE]]

\* Mutant: the form goes on keeping its text while it is being sent.
MutedNot == FALSE

\* suppressAutoSaveRef
Muted == page.muted

Editable == page.at # "away" /\ page.editable
-----------------------------------------------------------------------------
(* Pages.  A form that may be edited writes its text at once.              *)

OpenNew ==
    /\ draft # 0 \/ forms < MaxForms
    /\ LET f == IF draft # 0 THEN draft ELSE forms + 1 IN
          /\ forms' = IF draft # 0 THEN forms ELSE f
          /\ page' = [at |-> "new", form |-> f, id |-> 0, muted |-> FALSE, editable |-> TRUE]
          /\ draft' = f
          /\ reused' = IF \/ \E q \in DOMAIN quote : quote[q].form = f
                          \/ UnderWay(f)
                       THEN reused \cup {f} ELSE reused
    /\ call' = Orphaned
    /\ UNCHANGED quote

Detail(q) ==
    [at |-> "detail", form |-> quote[q].form, id |-> q, muted |-> FALSE,
     editable |-> quote[q].status = "draft"]

OpenQuote(q) ==
    /\ page' = Detail(q)
    /\ draft' = IF quote[q].status = "draft" THEN quote[q].form ELSE draft
    /\ call' = Orphaned
    /\ reused' = IF UnderWay(quote[q].form) THEN reused \cup {quote[q].form} ELSE reused
    /\ UNCHANGED <<quote, forms>>

\* The tab is closed or loaded again: nothing goes on.
Close ==
    /\ page # Away \/ \E c \in Call : ~IsAt(c, "idle")
    /\ page' = Away /\ call' = [c \in Call |-> Idle]
    /\ reused' = reused \cup {call[c].form : c \in {d \in Call : Unheard(d)}}
    /\ UNCHANGED <<quote, draft, forms>>

Edit ==
    /\ Editable /\ ~Muted
    /\ draft' = page.form
    /\ UNCHANGED <<quote, forms, page, call, reused>>

\* handleTransition of the page of the quote.
SendSaved ==
    /\ page.at = "detail" /\ page.editable /\ quote[page.id].status = "draft"
    /\ quote' = [quote EXCEPT ![page.id].status = "sent"]
    /\ page' = [page EXCEPT !.editable = FALSE]
    /\ UNCHANGED <<draft, forms, call, reused>>
-----------------------------------------------------------------------------
(* Saving, and sending from the form of a new quote.                       *)

Ready == Editable /\ Mine = {}

Start(c, sending) ==
    /\ Ready /\ IsAt(c, "idle") /\ (sending => page.at = "new")
    /\ call' = [call EXCEPT ![c] = [at |-> "persist", sending |-> sending, mine |-> TRUE,
                                    form |-> page.form, id |-> page.id]]
    /\ page' = IF sending THEN [page EXCEPT !.muted = TRUE] ELSE page
    /\ UNCHANGED <<quote, draft, forms, reused>>

\* POST /api/quotes, or PATCH, which the server takes for drafts only.
Persist(c) ==
    /\ IsAt(c, "persist")
    /\ LET id == call[c].id IN
          \/ /\ id = 0 /\ Len(quote) < MaxQuotes
             /\ quote' = Append(quote, [form |-> call[c].form, status |-> "draft", inline |-> FALSE])
             /\ call' = [call EXCEPT ![c].at = "created", ![c].id = Len(quote) + 1]
          \/ /\ id # 0
             /\ call' = [call EXCEPT ![c].at =
                           IF quote[id].status = "draft" THEN "persisted" ELSE "refused"]
             /\ UNCHANGED quote
    /\ UNCHANGED <<draft, forms, page, reused>>

\* The answer gives the form its quote; what saved keeps the text again, seen or not.
Persisted(c) ==
    /\ IsAt(c, "created") \/ IsAt(c, "persisted")
    /\ page' = IF call[c].mine THEN [page EXCEPT !.id = call[c].id] ELSE page
    /\ call' = [call EXCEPT ![c] = IF @.sending THEN [@ EXCEPT !.at = "transition"] ELSE Idle]
    /\ draft' = IF call[c].sending THEN draft ELSE call[c].form
    /\ UNCHANGED <<quote, forms, reused>>

Transition(c) ==
    /\ IsAt(c, "transition")
    /\ LET id == call[c].id  ok == quote[id].status = "draft" IN
          /\ quote' = IF ok THEN [quote EXCEPT ![id].status = "sent", ![id].inline = TRUE]
                      ELSE quote
          /\ call' = [call EXCEPT ![c].at = IF ok THEN "sent" ELSE "refused"]
    /\ UNCHANGED <<draft, forms, page, reused>>

Forget(c) ==
    /\ IsAt(c, "sent")
    /\ draft' = 0
    /\ call' = [call EXCEPT ![c].at = "pushing"]
    /\ UNCHANGED <<quote, forms, page, reused>>

\* router.push, wherever the user is by now.
Push(c) ==
    /\ IsAt(c, "pushing")
    /\ page' = Detail(call[c].id)
    /\ call' = [Orphaned EXCEPT ![c] = Idle]
    /\ UNCHANGED <<quote, draft, forms, reused>>

\* A refusal or an error, of a call that was served or was not.
Fail(c) ==
    /\ ~IsAt(c, "idle") /\ ~IsAt(c, "pushing")
    /\ page' = IF call[c].mine THEN [page EXCEPT !.muted = FALSE] ELSE page
    /\ call' = [call EXCEPT ![c] = Idle]
    /\ reused' = IF Unheard(c) THEN reused \cup {call[c].form} ELSE reused
    /\ UNCHANGED <<quote, draft, forms>>
-----------------------------------------------------------------------------
Next ==
    \/ OpenNew \/ Close \/ Edit \/ SendSaved
    \/ \E q \in DOMAIN quote : OpenQuote(q)
    \/ \E c \in Call :
          \/ \E sending \in BOOLEAN : Start(c, sending)
          \/ Persist(c) \/ Persisted(c) \/ Transition(c) \/ Forget(c) \/ Push(c) \/ Fail(c)

Spec == Init /\ [][Next]_vars
-----------------------------------------------------------------------------
\* A form becomes one quote, and a form that was sent is not what the next new
\* form starts from, unless it was restored when it was already a quote, opened
\* again while it was being saved or sent, or nobody heard that it was.
OneQuoteOfAForm ==
    /\ \A p, q \in DOMAIN quote : quote[p].form = quote[q].form => p = q \/ quote[p].form \in reused
    /\ \A q \in DOMAIN quote :
          quote[q].inline /\ draft = quote[q].form =>
             quote[q].form \in reused \/ \E c \in Call : IsAt(c, "sent") /\ call[c].id = q
-----------------------------------------------------------------------------
\* Why: a form that is not reused has one save or sending at most, which is the
\* page's own while the page shows the form, and none but a sending that is over
\* once the form was sent.
TypeOK ==
    /\ quote \in Seq([form : Nat \ {0}, status : {"draft", "sent"}, inline : BOOLEAN])
    /\ draft \in Nat /\ forms \in Nat
    /\ page \in {Away} \cup [at : {"new", "detail"}, form : Nat \ {0}, id : 0..Len(quote),
                             muted : BOOLEAN, editable : BOOLEAN]
    /\ call \in [Call -> {Idle} \cup
          [at : {"persist", "created", "persisted", "transition", "sent", "pushing", "refused"},
           sending : BOOLEAN, mine : BOOLEAN, form : Nat \ {0}, id : 0..Len(quote)]]

Busy == {c \in Call : ~IsAt(c, "idle")}
Made(f) == {q \in DOMAIN quote : quote[q].form = f}
Shows(f) == page # Away /\ page.form = f

Linked ==
    /\ \A q \in DOMAIN quote : quote[q].inline => quote[q].status = "sent"
    /\ page # Away => /\ page.id # 0 => quote[page.id].form = page.form
                      /\ page.at = "detail" => page.id # 0
    /\ \A c \in Busy : /\ call[c].id # 0 => quote[call[c].id].form = call[c].form
                       /\ call[c].at \notin {"persist", "refused"} => call[c].id # 0
                       /\ call[c].at \in {"transition", "sent", "pushing"} => call[c].sending

Owned ==
    /\ \A c, d \in Mine : c = d
    /\ \A c \in Mine : Shows(call[c].form) /\ (call[c].sending => page.muted)
    /\ page # Away /\ page.muted => \E c \in Mine : call[c].sending
    /\ \A c, d \in Busy : call[c].form = call[d].form => c = d \/ call[c].form \in reused
    /\ \A c \in Busy : Shows(call[c].form) => call[c].mine \/ call[c].form \in reused

Unmade ==
    /\ \A c \in Busy : IsAt(c, "persist") /\ call[c].id = 0 =>
          Made(call[c].form) = {} \/ call[c].form \in reused
    /\ page # Away /\ page.id = 0 /\ page.form \notin reused =>
          \A q \in Made(page.form) : \E c \in Mine : IsAt(c, "created") /\ call[c].id = q

Over ==
    \A q \in DOMAIN quote : quote[q].inline /\ quote[q].form \notin reused =>
        /\ Shows(quote[q].form) /\ page.editable => page.muted
        /\ \A c \in Busy : call[c].form = quote[q].form => call[c].at \in {"sent", "pushing"}

EditorInv == TypeOK /\ Linked /\ Owned /\ Unmade /\ Over /\ OneQuoteOfAForm
=============================================================================
