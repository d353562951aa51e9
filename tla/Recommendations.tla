--------------------------- MODULE Recommendations ---------------------------
(***************************************************************************)
(* The purchase recommendations of one product: runs of the copilot, which *)
(* read the stock, load the recommendations, ask the model and write back  *)
(* in calls of their own, users who decide and undo in a read and a write, *)
(* and a product whose need changes meanwhile.  Rows are numbered by       *)
(* created_at.  The unique index of open suggestions is external.          *)
(***************************************************************************)
EXTENDS Naturals, FiniteSets

CONSTANTS
    Run,      \* copilot requests in progress
    User,     \* people deciding
    Decided,  \* what they decide: "accepted", "edited", "rejected"
    MaxNeed,  \* bound: pieces the product may need
    MaxRecs   \* bound: recommendations made

VARIABLES
    need,  \* pieces of the product to buy, 0 when there is enough
    gone,  \* the product is removed or inactive
    rec,   \* ai_recommendations
    run,   \* what each copilot request is doing
    user,  \* what each user is about to write
    calm   \* history: runs that nobody has disturbed

vars == <<need, gone, rec, run, user, calm>>
-----------------------------------------------------------------------------
Id == 1..MaxRecs
Unmade == [status |-> "none"]
Idle == [pc |-> "idle"]
Active == Decided \cup {"suggested"}

\* computeUrgencyLevel: two neighbouring quantities have the same level.
Level(n) == (n + 1) \div 2

Next0(s) == IF s = "suggested" THEN Decided ELSE IF s \in Decided THEN {"suggested"} ELSE {}

Made == {i \in Id : rec[i] # Unmade}
Of(S) == {i \in Made : rec[i].status \in S}
Newest(S) == CHOOSE i \in S : \A j \in S : j <= i

Init ==
    /\ need \in 0..MaxNeed /\ gone = FALSE
    /\ rec = [i \in Id |-> Unmade]
    /\ run = [r \in Run |-> Idle] /\ user = [u \in User |-> Idle] /\ calm = {}

Expired(S) == [i \in Id |-> IF i \in S THEN [rec[i] EXCEPT !.status = "expired"] ELSE rec[i]]
-----------------------------------------------------------------------------
\* Steps of a run.  Each call that fails is swallowed and the run goes on.
At(r, pc) == run[r].pc = pc
Go(r, pc) == run' = [run EXCEPT ![r].pc = pc]

\* Suggestions older than two days expire.
ExpireStale(r) ==
    /\ At(r, "idle")
    /\ rec' = Expired({i \in Of({"suggested"}) : rec[i].old})
    /\ run' = [run EXCEPT ![r] = [pc |-> "read"]]
    /\ calm' = IF \A q \in Run \ {r} : At(q, "idle") THEN {r} ELSE {}
    /\ UNCHANGED <<need, gone, user>>

ReadProducts(r) ==
    /\ At(r, "read")
    /\ run' = [run EXCEPT ![r] = [pc |-> "orphans", need |-> need]]
    /\ UNCHANGED <<need, gone, rec, user, calm>>

\* Decisions about products that are gone expire too.
ExpireOrphans(r) ==
    /\ At(r, "orphans") /\ Go(r, "load")
    /\ rec' = IF gone THEN Expired(Of(Active)) ELSE rec
    /\ UNCHANGED <<need, gone, user, calm>>

\* The newest row counts if it is open or was decided within a week; any other
\* decision of the week also keeps the product out of the model's hands.
Seen ==
    LET fresh == {i \in Of(Decided) : ~rec[i].past}
        newest == Newest(Of(Active))
    IN IF Of(Active) # {} /\ rec[newest].status = "suggested" THEN newest
       ELSE IF fresh # {} THEN Newest(fresh) ELSE 0

\* Mutant: a suggestion without a text is not asked for again.
PlanByLevel(n, id) ==
    IF n = 0 THEN "expire"
    ELSE IF id = 0 THEN "insert"
    ELSE IF rec[id].status \in Decided THEN "none"
    ELSE IF Level(rec[id].need) = Level(n) THEN "refresh" ELSE "rewrite"

Plan(n, id) ==
    IF n = 0 THEN "expire"
    ELSE IF id = 0 THEN "insert"
    ELSE IF rec[id].status \in Decided THEN "none"
    ELSE IF Level(rec[id].need) = Level(n) /\ ~rec[id].pending THEN "refresh" ELSE "rewrite"

LoadRecs(r) ==
    /\ At(r, "load")
    /\ run' = [run EXCEPT ![r] = [pc |-> "write", need |-> run[r].need, id |-> Seen,
                                  plan |-> Plan(run[r].need, Seen)]]
    /\ UNCHANGED <<need, gone, rec, user, calm>>

\* Mutant: the update names the row alone.
WritableById(id) == TRUE

Writable(id) == rec[id].status = "suggested"

\* The figures of a suggestion follow the stock; its text only with the level.
Written(r, ok) ==
    LET n == run[r].need  id == run[r].id IN
    CASE run[r].plan = "expire" -> Expired(Of({"suggested"}))
      [] run[r].plan = "refresh" -> IF Writable(id) THEN [rec EXCEPT ![id].need = n] ELSE rec
      [] run[r].plan = "rewrite" ->
            IF Writable(id)
            THEN [rec EXCEPT ![id].need = n, ![id].pending = ~ok] ELSE rec
      [] run[r].plan = "insert" ->
            IF Of({"suggested"}) # {} THEN rec
            ELSE [rec EXCEPT ![Cardinality(Made) + 1] =
                     [status |-> "suggested", need |-> n, pending |-> ~ok,
                      old |-> FALSE, past |-> FALSE]]
      [] OTHER -> rec

Write(r) ==
    /\ At(r, "write") /\ (run[r].plan = "insert" => Made # Id \/ Of({"suggested"}) # {})
    /\ \E ok \in BOOLEAN :
          /\ rec' = Written(r, ok)
          /\ run' = [run EXCEPT ![r] = [pc |-> "done", ok |-> ok]]
    /\ UNCHANGED <<need, gone, user, calm>>

Fail(r) ==
    /\ run[r].pc \in {"orphans", "write"}
    /\ IF At(r, "orphans") THEN Go(r, "load") ELSE run' = [run EXCEPT ![r] = Idle]
    /\ calm' = calm \ {r} /\ UNCHANGED <<need, gone, rec, user>>

Answer(r) == At(r, "done") /\ run' = [run EXCEPT ![r] = Idle] /\ UNCHANGED <<need, gone, rec, user, calm>>
-----------------------------------------------------------------------------
\* A user reads a recommendation and then writes it by its id alone.
Ask(u) ==
    /\ user[u] = Idle
    /\ \E i \in Made : \E s \in Next0(rec[i].status) :
          user' = [user EXCEPT ![u] = [pc |-> "write", id |-> i, to |-> s]]
    /\ UNCHANGED <<need, gone, rec, run, calm>>

Decide(u) ==
    LET i == user[u].id  s == user[u].to IN
    /\ user[u] # Idle
    /\ rec' = IF s = "suggested" /\ Of({"suggested"}) \ {i} # {} THEN rec
              ELSE [rec EXCEPT ![i].status = s, ![i].past = FALSE]
    /\ user' = [user EXCEPT ![u] = Idle] /\ calm' = {}
    /\ UNCHANGED <<need, gone, run>>

\* The stock moves; a product is removed, and its recommendations with it.
Change ==
    /\ \/ ~gone /\ need' \in (0..MaxNeed) \ {need} /\ UNCHANGED <<gone, rec>>
       \/ ~gone /\ gone' = TRUE /\ need' = 0 /\ rec' \in {rec, Expired(Of(Active))}
       \/ gone /\ gone' = FALSE /\ UNCHANGED <<need, rec>>
    /\ calm' = {} /\ UNCHANGED <<run, user>>

\* Two days pass since a row was made, after those made before; a week passes
\* since a decision.
Ages(i) ==
    /\ i \in Made
    /\ \/ ~rec[i].old /\ (\A j \in Made : j < i => rec[j].old) /\ rec' = [rec EXCEPT ![i].old = TRUE]
       \/ /\ rec[i].old /\ i \in Of(Decided) /\ ~rec[i].past
          /\ rec' = [rec EXCEPT ![i].past = TRUE]
    /\ calm' = {} /\ UNCHANGED <<need, gone, run, user>>

Next ==
    \/ \E r \in Run : \/ ExpireStale(r) \/ ReadProducts(r) \/ ExpireOrphans(r) \/ LoadRecs(r)
                      \/ Write(r) \/ Fail(r) \/ Answer(r)
    \/ \E u \in User : Ask(u) \/ Decide(u)
    \/ Change
    \/ \E i \in Id : Ages(i)

Spec == Init /\ [][Next]_vars
-----------------------------------------------------------------------------
\* What was decided stays as it was decided: no run rewrites the figures of a
\* recommendation that a user has accepted, edited or rejected meanwhile.
FrozenDecision ==
    [][\A i \in Id : (i \in Of(Decided) /\ rec'[i].status \in Decided)
                        => rec'[i].need = rec[i].need]_vars

\* A run that nobody disturbs leaves the product as it is: an open suggestion
\* of the right level if it needs pieces and nobody decided this week, with a
\* text if the model answered, and none otherwise.
RunTells ==
    \A r \in Run \cap calm : At(r, "done") =>
        LET open == Of({"suggested"})
            newest == Newest(Of(Active))
            decided == \E i \in Of(Decided) : ~rec[i].past
        IN IF need = 0 THEN open = {} /\ (gone => Of(Active) = {})
           ELSE \/ decided
                \/ /\ open # {} /\ newest \in open /\ Level(rec[newest].need) = Level(need)
                   /\ run[r].ok => ~rec[newest].pending
-----------------------------------------------------------------------------
\* Why: rows are numbered without a gap and age in that order, one of them at most
\* is open, and what an undisturbed run has read is still so.
Row == [status : Active \cup {"expired"}, need : Nat, pending : BOOLEAN, old : BOOLEAN,
        past : BOOLEAN]
Plans == {"expire", "insert", "none", "refresh", "rewrite"}
Job == {Idle, [pc |-> "read"]} \cup [pc : {"orphans", "load"}, need : Nat]
       \cup [pc : {"write"}, need : Nat, id : Id \cup {0}, plan : Plans]
       \cup [pc : {"done"}, ok : BOOLEAN]

TypeOK ==
    /\ need \in Nat /\ gone \in BOOLEAN /\ rec \in [Id -> {Unmade} \cup Row] /\ calm \subseteq Run
    /\ run \in [Run -> Job]
    /\ user \in [User -> {Idle} \cup [pc : {"write"}, id : Id, to : Active]]

Numbered ==
    /\ \E m \in 0..MaxRecs : Made = 1..m
    /\ \A u \in User : user[u] # Idle => user[u].id \in Made

Aging ==
    \A i \in Made : /\ rec[i].past => rec[i].old
                    /\ rec[i].old => \A j \in Made : j < i => rec[j].old

OneOpen == \A i, j \in Of({"suggested"}) : i = j

ReadStill(r) ==
    /\ \A q \in Run \ {r} : At(q, "idle")
    /\ \A i \in Of({"suggested"}) : ~rec[i].old
    /\ run[r].pc \in {"orphans", "load", "write"} => run[r].need = need
    /\ run[r].pc \in {"load", "write"} => (gone => Of(Active) = {})
    /\ At(r, "write") => run[r].id = Seen /\ run[r].plan = Plan(need, Seen)

AdviceInv ==
    /\ TypeOK /\ Numbered /\ Aging /\ OneOpen /\ (gone => need = 0)
    /\ \A r \in calm : run[r].pc \notin {"idle", "done"} => ReadStill(r)
    /\ \A r \in calm : At(r, "done") => \A q \in Run \ {r} : At(q, "idle")
    /\ RunTells
=============================================================================
