----------------------------- MODULE MailOutbox -----------------------------
(***************************************************************************)
(* One internal notification on its way to its recipients.  A worker       *)
(* claims the outbox row, sends to each recipient under an idempotency key *)
(* and ends the row; a failed delivery can also be retried by hand.  The   *)
(* provider reports what became of a mail through webhooks, more than once *)
(* and in any order.  Requests fail, answers get lost, and a worker or a   *)
(* webhook handler may die between any two calls.                          *)
(*                                                                         *)
(* The recipients are taken as fixed, and the provider as sending once for *)
(* a key.                                                                  *)
(***************************************************************************)
EXTENDS Naturals, FiniteSets

CONSTANTS
    User,       \* the recipients
    News,       \* what the provider may report: pairs of a recipient and a state
    Attempts,   \* runs of the row that may fail (3)
    MaxFaults   \* bound: lost answers, errors and deaths

VARIABLES
    event,        \* the outbox row: status, attempt_count
    log,          \* the email_logs row of each recipient
    accepted,     \* recipients whose mail the provider has taken
    hook,         \* hook[<<u, k>>]: where the report of k about u's mail is
    suppression,  \* the email_suppressions row of each recipient's address
    job,          \* what the worker and the retry by hand are doing
    configured,   \* the mail settings are complete
    faults        \* faults left

vars == <<event, log, accepted, hook, suppression, job, configured, faults>>
-----------------------------------------------------------------------------
Actor == {"worker", "hand"}
Idle == [pc |-> "idle"]

\* update_email_delivery_from_provider ranks the states of a delivery.
Rank(d) == CASE d = "queued" -> 0 [] d = "accepted" -> 1 [] d = "failed" -> 2
             [] d = "delivered" -> 3 [] d = "bounced" -> 4 [] d = "complained" -> 5
             [] d = "suppressed" -> 6

Furthest(old, new) == IF Rank(new) < Rank(old) THEN old ELSE new

\* enqueueInternalNotification has inserted the row.
Init ==
    /\ event = [status |-> "queued", attempts |-> 0]
    /\ log = [u \in User |-> [status |-> "none", delivery |-> "queued", id |-> FALSE, body |-> FALSE]]
    /\ accepted = {}
    /\ hook = [n \in News |-> "none"]
    /\ suppression \in [User -> {"none", "active"}]
    /\ job = [a \in Actor |-> Idle]
    /\ configured \in BOOLEAN
    /\ faults = MaxFaults

Goto(a, pc) == job' = [job EXCEPT ![a].pc = pc]
Stop(a) == job' = [job EXCEPT ![a] = Idle]
Spend == faults > 0 /\ faults' = faults - 1

Handled(u) == job' = [job EXCEPT !["worker"].pc = "next", !["worker"].todo = @ \ {u}]
-----------------------------------------------------------------------------
(* The worker: claim_notification_outbox, then every recipient in turn.    *)

\* Mutant: a row that has failed is not picked up again.
WaitingFresh == {"queued", "waiting_config"}
Waiting == {"queued", "waiting_config", "failed"}

Claim ==
    /\ job["worker"] = Idle
    /\ event.status \in Waiting /\ event.attempts < Attempts
    /\ event' = [event EXCEPT !.status = "processing"]
    /\ job' = [job EXCEPT !["worker"] = [pc |-> IF configured THEN "next" ELSE "park",
                                         todo |-> User, failed |-> FALSE]]
    /\ UNCHANGED <<log, accepted, hook, suppression, configured, faults>>

Park ==
    /\ job["worker"].pc = "park"
    /\ event' = [event EXCEPT !.status = "waiting_config"]
    /\ Stop("worker")
    /\ UNCHANGED <<log, accepted, hook, suppression, configured, faults>>

\* A recipient who has the mail, or whose address is suppressed, is passed over.
Visit(u) ==
    LET row == log[u] IN
    /\ job["worker"].pc = "next" /\ u \in job["worker"].todo
    /\ IF row.status = "sent" \/ row.delivery = "suppressed"
       THEN Handled(u) /\ UNCHANGED log
       ELSE IF suppression[u] = "active"
       THEN /\ log' = IF row.status # "none" THEN log
                      ELSE [log EXCEPT ![u].status = "failed", ![u].delivery = "suppressed"]
            /\ Handled(u)
       ELSE /\ log' = IF row.status # "none" THEN log
                      ELSE [log EXCEPT ![u].status = "pending", ![u].body = TRUE]
            /\ job' = [job EXCEPT !["worker"] = [pc |-> "send", u |-> u, todo |-> @.todo,
                                                 failed |-> @.failed, ok |-> FALSE]]
    /\ UNCHANGED <<event, accepted, hook, suppression, configured, faults>>

\* The provider takes the mail, refuses it, or takes it and is not heard.
Send(a) ==
    LET u == job[a].u IN
    /\ job[a].pc = "send"
    /\ \E ok \in BOOLEAN, taken \in BOOLEAN :
          /\ ok => taken
          /\ accepted' = IF taken THEN accepted \union {u} ELSE accepted
          /\ IF taken /\ ~ok THEN Spend ELSE UNCHANGED faults
          /\ job' = [job EXCEPT ![a].pc = "write", ![a].ok = ok]
    /\ UNCHANGED <<event, log, hook, suppression, configured>>

After(a, u) == IF a = "worker" THEN Handled(u) ELSE Stop(a)

\* dbUpdateEmailLogStatus: the outcome and the message id first ...
Write(a) ==
    LET u == job[a].u IN
    /\ job[a].pc = "write"
    /\ IF job[a].ok
       THEN /\ log' = [log EXCEPT ![u].status = "sent", ![u].id = TRUE, ![u].body = FALSE]
            /\ Goto(a, "accept")
       ELSE /\ log' = [log EXCEPT ![u].status = "failed"]
            /\ IF a = "hand" THEN Stop(a)
               ELSE job' = [job EXCEPT ![a].pc = "next", ![a].todo = @ \ {u}, ![a].failed = TRUE]
    /\ UNCHANGED <<event, accepted, hook, suppression, configured, faults>>

\* ... and then the delivery state, which a webhook may have carried further.
Accept(a) ==
    LET u == job[a].u IN
    /\ job[a].pc = "accept"
    /\ log' = [log EXCEPT ![u].delivery = Furthest(@, "accepted")]
    /\ After(a, u)
    /\ UNCHANGED <<event, accepted, hook, suppression, configured, faults>>

\* Mutant: a failed delivery does not fail the run.
FailRunNot == event' = [event EXCEPT !.status = "completed"] /\ Stop("worker")

\* The run of the row has failed; the third time the bodies are cleared as well.
FailRun ==
    /\ event' = [status |-> "failed", attempts |-> event.attempts + 1]
    /\ IF event'.attempts < Attempts THEN Stop("worker") ELSE Goto("worker", "clear")

Finalize ==
    /\ job["worker"].pc = "next" /\ job["worker"].todo = {}
    /\ \/ job["worker"].failed /\ FailRun
       \/ ~job["worker"].failed /\ event' = [event EXCEPT !.status = "completed"] /\ Stop("worker")
    /\ UNCHANGED <<log, accepted, hook, suppression, configured, faults>>

Throws ==
    /\ job["worker"].pc \in {"next", "send", "write", "accept"} /\ Spend
    /\ FailRun
    /\ UNCHANGED <<log, accepted, hook, suppression, configured>>

ClearBodies ==
    /\ job["worker"].pc = "clear"
    /\ log' = [u \in User |-> [log[u] EXCEPT !.body = FALSE]]
    /\ Stop("worker")
    /\ UNCHANGED <<event, accepted, hook, suppression, configured, faults>>

\* retryInternalEmailDelivery, from the maintenance page, whatever the worker does.
Retry(u) ==
    /\ job["hand"] = Idle /\ configured
    /\ log[u].status = "failed" /\ log[u].body
    /\ log[u].delivery \notin {"suppressed", "bounced", "complained"}
    /\ suppression[u] # "active"
    /\ job' = [job EXCEPT !["hand"] = [pc |-> "send", u |-> u, ok |-> FALSE]]
    /\ UNCHANGED <<event, log, accepted, hook, suppression, configured, faults>>

Dies(a) ==
    /\ job[a] # Idle /\ Spend
    /\ Stop(a)
    /\ UNCHANGED <<event, log, accepted, hook, suppression, configured>>
-----------------------------------------------------------------------------
(* Webhooks: processResendWebhook.                                         *)

Turn(n, from, to) == hook[n] = from /\ hook' = [hook EXCEPT ![n] = to]

\* The dedup row of the report is inserted before anything is done about it; a
\* report that overtakes the writing of the message id finds no log and is gone.
Report(n) ==
    /\ n[1] \in accepted /\ Turn(n, "none", IF log[n[1]].id THEN "matched" ELSE "lost")
    /\ UNCHANGED <<event, log, accepted, suppression, job, configured, faults>>

Apply(n) ==
    /\ Turn(n, "matched", IF n[2] \in {"bounced", "suppressed", "complained"} THEN "suppress"
                           ELSE "handled")
    /\ log' = [log EXCEPT ![n[1]].delivery = Furthest(@, n[2])]
    /\ UNCHANGED <<event, accepted, suppression, job, configured, faults>>

Suppress(n) ==
    /\ Turn(n, "suppress", "handled")
    /\ suppression' = [suppression EXCEPT ![n[1]] = "active"]
    /\ UNCHANGED <<event, log, accepted, job, configured, faults>>

\* A failure takes the dedup row back and the provider repeats the report; a
\* handler that dies leaves it, and the repetition passes for a duplicate.
HookBreaks(n) ==
    /\ \E from \in {"matched", "suppress"}, to \in {"none", "lost"} : Turn(n, from, to)
    /\ Spend
    /\ UNCHANGED <<event, log, accepted, suppression, job, configured>>
-----------------------------------------------------------------------------
Resolve(u) ==
    /\ suppression[u] = "active"
    /\ suppression' = [suppression EXCEPT ![u] = "resolved"]
    /\ UNCHANGED <<event, log, accepted, hook, job, configured, faults>>

Configure ==
    /\ ~configured /\ configured' = TRUE
    /\ UNCHANGED <<event, log, accepted, hook, suppression, job, faults>>

Work == \/ Claim \/ Park \/ (\E u \in User : Visit(u)) \/ Finalize \/ ClearBodies
        \/ Send("worker") \/ Write("worker") \/ Accept("worker")

Next ==
    \/ Work \/ Throws \/ Configure
    \/ Send("hand") \/ Write("hand") \/ Accept("hand")
    \/ \E a \in Actor : Dies(a)
    \/ \E u \in User : Retry(u) \/ Resolve(u)
    \/ \E n \in News : Report(n) \/ Apply(n) \/ Suppress(n) \/ HookBreaks(n)

Spec == Init /\ [][Next]_vars

\* The cron comes every five minutes, a run goes on unless it dies, and the
\* settings are put right in the end.
FairSpec == Spec /\ WF_vars(Work) /\ WF_vars(Configure)
-----------------------------------------------------------------------------
(* Properties.                                                             *)

Delivery == {"queued", "accepted", "failed", "delivered", "bounced", "complained", "suppressed"}

\* The worker has no recipient at first, and keeps the last one afterwards.
Worker == [pc : {"park", "next", "clear"}, todo : SUBSET User, failed : BOOLEAN]
          \union [pc : {"next", "send", "write", "accept", "clear"}, u : User,
                  todo : SUBSET User, failed : BOOLEAN, ok : BOOLEAN]
Hand == [pc : {"send", "write", "accept"}, u : User, ok : BOOLEAN]

TypeOK ==
    /\ event \in [status : {"queued", "processing", "waiting_config", "failed", "completed"},
                  attempts : Nat]
    /\ log \in [User -> [status : {"none", "pending", "sent", "failed"}, delivery : Delivery,
                        id : BOOLEAN, body : BOOLEAN]]
    /\ accepted \subseteq User
    /\ hook \in [News -> {"none", "matched", "suppress", "handled", "lost"}]
    /\ suppression \in [User -> {"none", "active", "resolved"}]
    /\ job \in [Actor -> {Idle} \union Worker \union Hand]
    /\ job["worker"] \in {Idle} \union Worker /\ job["hand"] \in {Idle} \union Hand
    /\ configured \in BOOLEAN /\ faults \in Nat

\* A completed notification has reached the provider for every recipient whose
\* address was never suppressed, whatever was lost, retried or broken off.
CompletedIsTrue ==
    event.status = "completed" =>
        \A u \in User : u \in accepted \/ suppression[u] # "none"

\* The log never shows less than the furthest report that was applied to it,
\* although reports come in any order and the worker writes "accepted" late.
NewsKept ==
    \A n \in News :
        hook[n] \in {"suppress", "handled"} => Rank(log[n[1]].delivery) >= Rank(n[2])

\* The inductive strengthening: what the log says of a letter, and what a run has
\* done with it, is so.
Reached(u) == u \in accepted \/ suppression[u] # "none"

MailInv ==
    /\ TypeOK
    /\ \A u \in User : log[u].status = "sent" => u \in accepted
    /\ \A u \in User : log[u].delivery = "suppressed" => Reached(u)
    /\ \A n \in News : hook[n] \in {"matched", "suppress", "handled"} => n[1] \in accepted
    /\ \A a \in Actor : job[a].pc = "accept" \/ (job[a].pc = "write" /\ job[a].ok) =>
          job[a].u \in accepted
    /\ job["worker"].pc \in {"next", "send", "write", "accept"} /\ ~job["worker"].failed =>
          \A u \in User \ job["worker"].todo : Reached(u)
    /\ CompletedIsTrue /\ NewsKept

\* The row ends completed or used up, unless a worker has died with it.
Stranded == event.status = "processing" /\ job["worker"] = Idle
Ended == event.status = "completed" \/ event.attempts >= Attempts
Drains == <>(Ended \/ Stranded)
=============================================================================
