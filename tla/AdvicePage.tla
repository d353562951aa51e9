------------------------------ MODULE AdvicePage ------------------------------
(***************************************************************************)
(* The page of purchase suggestions and one suggestion on it.  The page    *)
(* shows a decision before the server has it and takes it back when the    *)
(* server refuses; after each decision it waits for 300 ms and loads the   *)
(* suggestions again.  A load may outlast its soft timeout, and loads and  *)
(* decisions overlap: nothing but a new load of the same effect cuts a     *)
(* load off.                                                               *)
(***************************************************************************)
EXTENDS Naturals

CONSTANTS
    Decision,   \* decisions under way at a time
    Load,       \* loads under way at a time
    Decided     \* the decisions: "accepted", "edited", "rejected"

VARIABLES
    server,     \* the status of the suggestion
    shown,      \* the status the page shows, "none" before the first load
    decision,   \* what each decision is doing
    load,       \* what each load is doing
    timer,      \* the load after a decision is due
    disturbed   \* history: a decision was refused or its answer lost, two
                \* decisions crossed, a load failed or was overtaken

vars == <<server, shown, decision, load, timer, disturbed>>
-----------------------------------------------------------------------------
Idle == [at |-> "idle"]
\* VALID_TRANSITIONS, as far as the page goes.
Allowed(from, to) == (from = "suggested" /\ to \in Decided) \/ (from \in Decided /\ to = "suggested")

Init ==
    /\ server \in Decided \cup {"suggested"} /\ shown = "none"
    /\ decision = [d \in Decision |-> Idle] /\ load = [l \in Load |-> Idle]
    /\ timer = FALSE /\ disturbed = FALSE

At(f, x, place) == f[x].at = place
Busy(f) == \E x \in DOMAIN f : ~At(f, x, "idle")
-----------------------------------------------------------------------------
(* Decisions.                                                              *)

Decide(d, to) ==
    /\ At(decision, d, "idle") /\ Allowed(shown, to)
    /\ disturbed' = (disturbed \/ Busy(decision))
    /\ decision' = [decision EXCEPT ![d] = [at |-> "sent", to |-> to, before |-> shown]]
    /\ shown' = to
    /\ UNCHANGED <<server, load, timer>>

Serve(d) ==
    /\ At(decision, d, "sent")
    /\ LET ok == Allowed(server, decision[d].to) IN
          /\ server' = IF ok THEN decision[d].to ELSE server
          /\ decision' = [decision EXCEPT ![d].at = IF ok THEN "done" ELSE "refused"]
    /\ UNCHANGED <<shown, load, timer, disturbed>>

TimerAfter == TRUE

\* An undo leaves the page as it is; the other decisions write it once more.
Succeed(d) ==
    /\ At(decision, d, "done")
    /\ shown' = IF decision[d].to = "suggested" THEN shown ELSE decision[d].to
    /\ timer' = TimerAfter
    /\ decision' = [decision EXCEPT ![d] = Idle]
    /\ UNCHANGED <<server, load, disturbed>>

\* A refusal, an error or a lost answer puts back what the page showed before.
TakeBack(d) ==
    /\ ~At(decision, d, "idle")
    /\ disturbed' = TRUE
    /\ shown' = decision[d].before
    /\ decision' = [decision EXCEPT ![d] = Idle]
    /\ UNCHANGED <<server, load, timer>>
-----------------------------------------------------------------------------
(* Loads: by the effect, which cuts off its last one; by the timer; by hand. *)

Begin(l, kind) ==
    /\ At(load, l, "idle")
    /\ load' = [m \in Load |->
                  IF m = l THEN [at |-> "sent", kind |-> kind, older |-> {}]
                  ELSE IF kind = "effect" /\ ~At(load, m, "idle") /\ load[m].kind = "effect"
                  THEN Idle ELSE load[m]]

ByEffect(l) == Begin(l, "effect") /\ UNCHANGED <<server, shown, decision, timer, disturbed>>

ByTimer(l) ==
    /\ timer /\ Begin(l, "free") /\ timer' = FALSE
    /\ UNCHANGED <<server, shown, decision, disturbed>>

ByHand(l) ==
    /\ shown # "none" /\ ~Busy(load) /\ Begin(l, "free")
    /\ UNCHANGED <<server, shown, decision, timer, disturbed>>

\* The copilot route reads the suggestion.
Look(l) ==
    /\ At(load, l, "sent")
    /\ load' = [load EXCEPT ![l] =
                  [at |-> "seen", kind |-> @.kind, status |-> server,
                   older |-> {m \in Load : At(load, m, "seen")}]]
    /\ UNCHANGED <<server, shown, decision, timer, disturbed>>

\* The answer replaces what the page shows, decisions under way included.
Answer(l) ==
    /\ At(load, l, "seen")
    /\ shown' = load[l].status
    /\ disturbed' = (disturbed \/ \E m \in load[l].older : At(load, m, "seen"))
    /\ load' = [load EXCEPT ![l] = Idle]
    /\ UNCHANGED <<server, decision, timer>>

\* An error or a rate limit: the page keeps what it shows.
Drop(l) ==
    /\ ~At(load, l, "idle")
    /\ load' = [load EXCEPT ![l] = Idle]
    /\ disturbed' = TRUE
    /\ UNCHANGED <<server, shown, decision, timer>>
-----------------------------------------------------------------------------
Next ==
    \/ \E d \in Decision :
          \/ \E to \in Decided \cup {"suggested"} : Decide(d, to)
          \/ Serve(d) \/ Succeed(d) \/ TakeBack(d)
    \/ \E l \in Load :
          ByEffect(l) \/ ByTimer(l) \/ ByHand(l) \/ Look(l) \/ Answer(l) \/ Drop(l)

Spec == Init /\ [][Next]_vars
-----------------------------------------------------------------------------
\* With nothing under way the page shows what the server has: a load that was
\* read before a decision and answered after it does no lasting harm.
PageTells ==
    (~disturbed /\ ~timer /\ ~Busy(decision) /\ ~Busy(load)) => shown \in {"none", server}
-----------------------------------------------------------------------------
\* Why: what the page shows is right, or a load that nothing cuts off is still to be
\* read, or was read when every load that is out of date had been read already.
Status == Decided \cup {"suggested"}

TypeOK ==
    /\ server \in Status /\ shown \in Status \cup {"none"}
    /\ timer \in BOOLEAN /\ disturbed \in BOOLEAN
    /\ decision \in [Decision -> {Idle} \cup
          [at : {"sent", "done", "refused"}, to : Status, before : Status]]
    /\ load \in [Load -> {Idle} \cup [at : {"sent"}, kind : {"effect", "free"}, older : {{}}]
          \cup [at : {"seen"}, kind : {"effect", "free"}, status : Status, older : SUBSET Load]]

OutOfDate(l) == At(load, l, "seen") /\ load[l].status # server

Settled == shown \in {"none", server} /\ \A l \in Load : ~OutOfDate(l)

Fresh(m) ==
    /\ ~At(load, m, "idle") /\ ~OutOfDate(m)
    /\ load[m].kind = "free"
    /\ At(load, m, "seen") => \A l \in Load : OutOfDate(l) => l \in load[m].older

PageInv ==
    /\ TypeOK
    /\ ~disturbed /\ ~timer /\ ~Busy(decision) => Settled \/ \E m \in Load : Fresh(m)
=============================================================================
