------------------------------ MODULE RateLimit ------------------------------
(***************************************************************************)
(* The limit on the calls of a language model, for one route and one       *)
(* address: a counter in Redis behind a circuit breaker and a hard         *)
(* timeout, and a rolling window in memory for the requests that Redis did *)
(* not answer.  A request that gives up may have been counted.             *)
(***************************************************************************)
EXTENDS Integers, FiniteSets

CONSTANTS
    Request,     \* requests under way at a time
    Limit,       \* calls a window allows
    Window,      \* WINDOW_MS, and the duration of the policy in Redis
    OpenFor,     \* CIRCUIT_OPEN_DURATION_MS
    Threshold,   \* CIRCUIT_OPEN_THRESHOLD
    MaxTime      \* bound: the clock

VARIABLES
    now,        \* the clock
    counter,    \* the counter in Redis and the end of its window
    failures,   \* _consecutiveFailures, up to Threshold
    opened,     \* _circuitOpenedAt, -1 when closed
    hits,       \* _hits: the calls the fallback let through, each known by its time and number
    request,    \* what each request is doing
    passed      \* history: the calls let through

vars == <<now, counter, failures, opened, hits, request, passed>>

Init ==
    /\ now = 0 /\ counter = [count |-> 0, until |-> 0]
    /\ failures = 0 /\ opened = -1 /\ hits = {}
    /\ request = [r \in Request |-> "idle"] /\ passed = {}

Recent(calls, at) == {c \in calls : at - c.at < Window}

\* The call that is let through now.
Call == [at |-> now, nth |-> Cardinality(passed)]

\* Half a minute passes, which no request takes (HARD_TIMEOUT_MS); what has left
\* the window is forgotten.
Tick ==
    /\ \A r \in Request : request[r] = "idle"
    /\ now < MaxTime /\ now' = now + 1
    /\ hits' = Recent(hits, now') /\ passed' = Recent(passed, now')
    /\ UNCHANGED <<counter, failures, opened, request>>
-----------------------------------------------------------------------------
IsOpen == opened # -1 /\ now - opened < OpenFor

Ask(r) ==
    /\ request[r] = "idle"
    /\ request' = [request EXCEPT ![r] = IF IsOpen THEN "fallback" ELSE "asked"]
    /\ UNCHANGED <<now, counter, failures, opened, hits, passed>>

\* RateLimiterRedis.consume: a window begins with the first call after the last one's end.
Consume(r) ==
    /\ request[r] = "asked"
    /\ counter' = IF now >= counter.until THEN [count |-> 1, until |-> now + Window]
                  ELSE [counter EXCEPT !.count = IF @ > Limit THEN @ ELSE @ + 1]
    /\ request' = [request EXCEPT ![r] = IF counter'.count <= Limit THEN "allowed" ELSE "limited"]
    /\ UNCHANGED <<now, failures, opened, hits, passed>>

\* recordSuccess, a refusal included.
Answer(r) ==
    /\ request[r] \in {"allowed", "limited"}
    /\ failures' = 0 /\ opened' = -1
    /\ passed' = IF request[r] = "allowed" THEN passed \cup {Call} ELSE passed
    /\ request' = [request EXCEPT ![r] = "idle"]
    /\ UNCHANGED <<now, counter, hits>>

\* recordFailure, after 200 ms or an error.
GiveUp(r) ==
    /\ request[r] \in {"asked", "allowed", "limited"}
    /\ failures' = IF failures < Threshold THEN failures + 1 ELSE failures
    /\ opened' = IF failures' >= Threshold THEN now ELSE opened
    /\ request' = [request EXCEPT ![r] = "fallback"]
    /\ UNCHANGED <<now, counter, hits, passed>>

\* Mutant: the fallback forgets the calls it lets through.
RememberedNot == hits

Remembered == hits \cup {Call}

\* checkAiRateLimit
Fallback(r) ==
    /\ request[r] = "fallback"
    /\ IF Cardinality(Recent(hits, now)) >= Limit THEN UNCHANGED <<hits, passed>>
       ELSE hits' = Remembered /\ passed' = passed \cup {Call}
    /\ request' = [request EXCEPT ![r] = "idle"]
    /\ UNCHANGED <<now, counter, failures, opened>>
-----------------------------------------------------------------------------
Next ==
    \/ Tick
    \/ \E r \in Request : Ask(r) \/ Consume(r) \/ Answer(r) \/ GiveUp(r) \/ Fallback(r)

Spec == Init /\ [][Next]_vars
-----------------------------------------------------------------------------
\* However Redis fails and recovers, fewer calls than three times the limit are
\* let through in a window: Redis, whose windows do not roll, gives the rest of
\* one, which its first call began before, and the whole of the next; the memory
\* of the process gives its own.
SpendBounded == Cardinality(passed) < 3 * Limit
-----------------------------------------------------------------------------
\* Why: what Redis let through before its window began has lost the first call of
\* the window before, and what it let through or is about to let through since then
\* has been counted.
Begun == counter.until - Window
ByRedis == passed \ hits
Before == {c \in ByRedis : c.at < Begun}
Since == {c \in ByRedis : c.at >= Begun}
AfterFirst == {c \in ByRedis : c.at > Begun}
Allowed == {r \in Request : request[r] = "allowed"}

TypeOK ==
    /\ now \in Nat /\ counter \in [count : Nat, until : Nat]
    /\ request \in [Request -> {"idle", "asked", "allowed", "limited", "fallback"}]
    /\ passed \in SUBSET [at : Nat, nth : Nat] /\ IsFiniteSet(passed) /\ hits \subseteq passed

Dated ==
    /\ Begun <= now /\ (Allowed # {} => now < counter.until)
    /\ \A c \in passed : c.at <= now /\ now - c.at < Window /\ (c.at = now => c.nth < Cardinality(passed))
    /\ \A c \in ByRedis : c.at < counter.until

Counted ==
    /\ Cardinality(hits) <= Limit
    /\ Cardinality(Since) + Cardinality(Allowed) <= counter.count
    /\ Cardinality(Since) + Cardinality(Allowed) <= Limit
    /\ Cardinality(Before) < Limit
    /\ IF counter.count = 0 THEN counter.until = 0 /\ ByRedis = {}
       ELSE Begun < now => /\ Cardinality(AfterFirst) + Cardinality(Allowed) < counter.count
                           /\ Cardinality(AfterFirst) + Cardinality(Allowed) < Limit

LimitInv == TypeOK /\ Dated /\ Counted
=============================================================================
