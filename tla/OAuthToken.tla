----------------------------- MODULE OAuthToken -----------------------------
(***************************************************************************)
(* The one OAuth token of the accounting service.  A refresh token works   *)
(* once: using it yields the next one, so a refresh that two callers make, *)
(* or whose result is not stored, cuts the connection until somebody       *)
(* authorises it again.  getAccessToken takes a lease of 30 seconds, reads *)
(* the row again under it and stores the result by token_version; the      *)
(* manual refresh and the authorisation callback write the row without it. *)
(*                                                                         *)
(* Tokens are numbered in the order they are issued; access tokens lapse   *)
(* in that order, all living two hours.                                    *)
(***************************************************************************)
EXTENDS Naturals, FiniteSets

CONSTANTS
    Caller,     \* requests that may need a token at the same time
    MaxTokens,  \* bound: tokens ever issued
    MaxLost     \* bound on lost

VARIABLES
    token,   \* the row: refresh token, whose expires_at it shows, version, lease
    issued,  \* tokens issued so far
    alive,   \* refresh tokens the service still accepts
    lapsed,  \* the last access token that has expired
    caller,  \* what each request is doing
    lost     \* deaths, lost answers, leases outlived or wiped by a callback

vars == <<token, issued, alive, lapsed, caller, lost>>
-----------------------------------------------------------------------------
Nobody == "nobody"
Idle == [pc |-> "idle"]

Init ==
    /\ token = [refresh |-> 1, until |-> 1, version |-> 1, owner |-> Nobody, leased |-> FALSE]
    /\ issued = 1 /\ alive = {1} /\ lapsed = 0
    /\ caller = [c \in Caller |-> Idle]
    /\ lost = 0

\* expires_at lies ahead; 0 is the epoch the manual refresh writes.
Fresh == token.until > lapsed
Leased == token.owner # Nobody /\ token.leased

Goto(c, pc) == caller' = [caller EXCEPT ![c].pc = pc]

\* A request ends; a manual refresh that failed puts back what it had read.
Succeed(c) == caller' = [caller EXCEPT ![c] = Idle]
Fail(c) == caller' = IF caller[c].was = {} THEN [caller EXCEPT ![c] = Idle]
                     ELSE [caller EXCEPT ![c].pc = "restore"]

Ask(c) ==
    /\ caller[c].pc = "idle"
    /\ caller' = [caller EXCEPT ![c] = [pc |-> "read", was |-> {}, ver |-> 0, tok |-> 0]]
    /\ UNCHANGED <<token, issued, alive, lapsed, lost>>

\* serviceParasutOAuthRefresh reads expires_at ...
ManualRead(c) ==
    /\ caller[c].pc = "idle"
    /\ caller' = [caller EXCEPT ![c] = [pc |-> "expire", was |-> {token.until}, ver |-> 0, tok |-> 0]]
    /\ UNCHANGED <<token, issued, alive, lapsed, lost>>

\* ... and sets it to the epoch.
ManualExpire(c) ==
    /\ caller[c].pc = "expire"
    /\ token' = [token EXCEPT !.until = 0]
    /\ Goto(c, "read")
    /\ UNCHANGED <<issued, alive, lapsed, lost>>

Restore(c) ==
    /\ caller[c].pc = "restore"
    /\ \E until \in caller[c].was : token' = [token EXCEPT !.until = until]
    /\ Succeed(c)
    /\ UNCHANGED <<issued, alive, lapsed, lost>>

Read(c) ==
    /\ caller[c].pc = "read"
    /\ IF Fresh THEN Succeed(c) ELSE Goto(c, IF Leased THEN "poll" ELSE "acquire")
    /\ UNCHANGED <<token, issued, alive, lapsed, lost>>

\* pollForFreshToken: the winner's token, or an error after five attempts.
Poll(c) ==
    /\ caller[c].pc = "poll"
    /\ (Fresh /\ Succeed(c)) \/ Fail(c)
    /\ UNCHANGED <<token, issued, alive, lapsed, lost>>

\* Mutant: the lease of another caller is not looked at.
LeaseFreeAlways == TRUE
LeaseFree == ~Leased

Acquire(c) ==
    /\ caller[c].pc = "acquire"
    /\ IF LeaseFree
       THEN token' = [token EXCEPT !.owner = c, !.leased = TRUE] /\ Goto(c, "reread")
       ELSE Goto(c, "poll") /\ UNCHANGED token
    /\ UNCHANGED <<issued, alive, lapsed, lost>>

GiveBack(c) == token' = IF token.owner = c THEN [token EXCEPT !.owner = Nobody] ELSE token

Reread(c) ==
    /\ caller[c].pc = "reread"
    /\ IF Fresh THEN GiveBack(c) /\ Succeed(c)
       ELSE /\ caller' = [caller EXCEPT ![c].pc = "call", ![c].ver = token.version,
                                        ![c].tok = token.refresh]
            /\ UNCHANGED token
    /\ UNCHANGED <<issued, alive, lapsed, lost>>

\* The service takes a live refresh token out of use and answers, or the
\* answer is lost; it refuses a spent one.
Call(c) ==
    LET old == caller[c].tok IN
    /\ caller[c].pc = "call"
    /\ \/ old \in alive /\ issued < MaxTokens
          /\ issued' = issued + 1 /\ alive' = (alive \ {old}) \union {issued'}
          /\ \/ caller' = [caller EXCEPT ![c].pc = "save", ![c].tok = issued'] /\ UNCHANGED lost
             \/ lost < MaxLost /\ lost' = lost + 1 /\ Goto(c, "release")
       \/ old \notin alive /\ Goto(c, "release") /\ UNCHANGED <<issued, alive, lost>>
    /\ UNCHANGED <<token, lapsed>>

\* Compare-and-set on token_version; the lease goes with it.
Current(c) == token.version = caller[c].ver

\* What the service has answered.
Answer(c) == [refresh |-> caller[c].tok, until |-> caller[c].tok]

Save(c) ==
    /\ caller[c].pc = "save"
    /\ IF Current(c)
       THEN /\ token' = [token EXCEPT !.refresh = Answer(c).refresh, !.until = Answer(c).until,
                                      !.version = @ + 1, !.owner = Nobody]
            /\ Succeed(c)
       ELSE Goto(c, "release") /\ UNCHANGED token
    /\ UNCHANGED <<issued, alive, lapsed, lost>>

Release(c) ==
    /\ caller[c].pc = "release"
    /\ GiveBack(c)
    /\ Fail(c)
    /\ UNCHANGED <<issued, alive, lapsed, lost>>

\* The authorisation callback reads the version when no lease is held, trades
\* its code for tokens and writes them, and a free lease, whatever has happened
\* meanwhile.
CallbackRead(c) ==
    /\ caller[c].pc = "idle" /\ ~Leased
    /\ caller' = [caller EXCEPT ![c] = [pc |-> "authorised", was |-> {}, ver |-> token.version, tok |-> 0]]
    /\ UNCHANGED <<token, issued, alive, lapsed, lost>>

CallbackWrite(c) ==
    /\ caller[c].pc = "authorised" /\ issued < MaxTokens
    /\ issued' = issued + 1 /\ alive' = alive \union {issued'}
    /\ token' = [refresh |-> issued', until |-> issued', version |-> caller[c].ver + 1,
                 owner |-> Nobody, leased |-> FALSE]
    /\ IF Leased THEN lost < MaxLost /\ lost' = lost + 1 ELSE UNCHANGED lost
    /\ Succeed(c)
    /\ UNCHANGED lapsed

\* A request dies, or its lease runs out under it.
Crash(c) ==
    /\ caller[c].pc # "idle" /\ lost < MaxLost
    /\ lost' = lost + 1
    /\ Succeed(c)
    /\ UNCHANGED <<token, issued, alive, lapsed>>

Expire ==
    LET alone == caller[token.owner].pc \notin {"reread", "call", "save", "release"} IN
    /\ Leased
    /\ token' = [token EXCEPT !.leased = FALSE]
    /\ IF alone THEN UNCHANGED lost ELSE lost < MaxLost /\ lost' = lost + 1
    /\ UNCHANGED <<issued, alive, lapsed, caller>>

Lapse ==
    /\ lapsed < issued
    /\ lapsed' = lapsed + 1
    /\ UNCHANGED <<token, issued, alive, caller, lost>>

Next ==
    \/ \E c \in Caller :
          \/ Ask(c) \/ ManualRead(c) \/ ManualExpire(c) \/ Restore(c) \/ Read(c) \/ Poll(c)
          \/ Acquire(c) \/ Reread(c) \/ Call(c) \/ Save(c) \/ Release(c)
          \/ CallbackRead(c) \/ CallbackWrite(c) \/ Crash(c)
    \/ Expire \/ Lapse

Spec == Init /\ [][Next]_vars
-----------------------------------------------------------------------------
(* Properties.                                                             *)

TypeOK ==
    /\ token \in [refresh : Nat, until : Nat, version : Nat,
                  owner : Caller \union {Nobody}, leased : BOOLEAN]
    /\ issued \in Nat /\ alive \subseteq Nat /\ lapsed \in Nat /\ lost \in Nat
    /\ caller \in [Caller -> {Idle} \union
          [pc : {"read", "expire", "poll", "acquire", "reread", "call", "save", "release",
                 "authorised", "restore"},
           was : SUBSET Nat, ver : Nat, tok : Nat]]

\* The connection is never cut from inside: unless a request dies, an answer is
\* lost or a lease is outlived, the stored refresh token works, or whoever has
\* just used it is about to store its successor.
Connected ==
    lost = 0 => \/ token.refresh \in alive
                \/ \E c \in Caller : caller[c].pc = "save" /\ Current(c)

\* No caller presents a spent token while nothing has been lost, although every
\* one of them first saw the row before it held the lease.
SpentOnce == lost = 0 => \A c \in Caller : caller[c].pc = "call" => caller[c].tok \in alive

\* Between the lease and the write.
Working(c) == caller[c].pc \in {"reread", "call", "save", "release"}

\* The inductive strengthening of both: whoever works holds the lease, knows the
\* stored version and uses the stored token; what it is about to store is alive.
TokenInv ==
    /\ TypeOK
    /\ lost = 0 =>
          /\ \A c \in Caller :
                /\ Working(c) => token.owner = c /\ token.leased
                /\ caller[c].pc \in {"call", "save"} => Current(c)
                /\ caller[c].pc = "call" => caller[c].tok = token.refresh
                /\ caller[c].pc = "save" => caller[c].tok \in alive
          /\ token.refresh \in alive \/ \E c \in Caller : caller[c].pc = "save"
=============================================================================
