--------------------------- MODULE ServicesProofs ---------------------------
(***************************************************************************)
(* Theorems about OAuthToken, EntityLease and MailOutbox, for any number   *)
(* of requests, rows, recipients and faults.  Each component's invariant   *)
(* is shown of the component by itself, and then of MCServices, in which   *)
(* one of them runs while the others rest.                                 *)
(***************************************************************************)
EXTENDS MCServices, FiniteSetTheorems, TLAPS

(***************************************************************************)
(* The OAuth token.                                                        *)
(***************************************************************************)

\* A request that is under way.
Steps == {"read", "expire", "poll", "acquire", "reread", "call", "save", "release",
          "authorised", "restore"}
Busy == [pc : Steps, was : SUBSET Nat, ver : Nat, tok : Nat]
TokenRow == [refresh : Nat, until : Nat, version : Nat,
             owner : Caller \union {O!Nobody}, leased : BOOLEAN]

LEMMA TokenType ==
    O!TypeOK <=> /\ token \in TokenRow
                 /\ issued \in Nat /\ alive \subseteq Nat /\ lapsed \in Nat /\ lost \in Nat
                 /\ caller \in [Caller -> {O!Idle} \union Busy]
  BY DEF O!TypeOK, TokenRow, Busy, Steps

LEMMA TokenTypeNext ==
    O!TypeOK' <=> /\ token' \in TokenRow
                  /\ issued' \in Nat /\ alive' \subseteq Nat /\ lapsed' \in Nat /\ lost' \in Nat
                  /\ caller' \in [Caller -> {O!Idle} \union Busy]
  BY DEF O!TypeOK, TokenRow, Busy, Steps

\* Requests go on and end within their types.
LEMMA CallerMoves ==
    ASSUME caller \in [Caller -> {O!Idle} \union Busy], NEW c \in Caller,
           caller[c].pc # "idle",
           \/ \E pc \in Steps : O!Goto(c, pc)
           \/ O!Succeed(c) \/ O!Fail(c)
    PROVE  caller' \in [Caller -> {O!Idle} \union Busy]
<1>1. caller[c] \in Busy
  BY DEF O!Idle
<1>2. ASSUME NEW pc \in Steps, caller' = [caller EXCEPT ![c].pc = pc]
      PROVE  caller' \in [Caller -> {O!Idle} \union Busy]
  <2>1. [caller[c] EXCEPT !.pc = pc] \in Busy
    BY <1>1 DEF Busy
  <2> QED BY <1>2, <2>1
<1>3. ASSUME caller' = [caller EXCEPT ![c] = O!Idle]
      PROVE  caller' \in [Caller -> {O!Idle} \union Busy]
  BY <1>3
<1>4. "restore" \in Steps
  BY DEF Steps
<1> QED BY <1>2, <1>3, <1>4 DEF O!Goto, O!Succeed, O!Fail

LEMMA TokenTypeInductive == O!TypeOK /\ [O!Next]_(O!vars) => O!TypeOK'
<1> SUFFICES ASSUME O!TypeOK, [O!Next]_(O!vars) PROVE O!TypeOK'
  OBVIOUS
<1>1. /\ token \in TokenRow /\ caller \in [Caller -> {O!Idle} \union Busy]
      /\ issued \in Nat /\ alive \subseteq Nat /\ lapsed \in Nat /\ lost \in Nat
  BY TokenType
<1> SUFFICES /\ token' \in TokenRow /\ caller' \in [Caller -> {O!Idle} \union Busy]
             /\ issued' \in Nat /\ alive' \subseteq Nat /\ lapsed' \in Nat /\ lost' \in Nat
  BY TokenTypeNext
<1>2. /\ token.refresh \in Nat /\ token.until \in Nat /\ token.version \in Nat
      /\ token.owner \in Caller \union {O!Nobody} /\ token.leased \in BOOLEAN
  BY <1>1 DEF TokenRow
<1>3. ASSUME NEW c \in Caller, O!Ask(c) \/ O!ManualRead(c) \/ O!CallbackRead(c)
      PROVE  caller' \in [Caller -> {O!Idle} \union Busy]
  <2>1. \A pc \in Steps, was \in SUBSET Nat, ver \in Nat :
           [pc |-> pc, was |-> was, ver |-> ver, tok |-> 0] \in Busy
    BY DEF Busy
  <2>2. "read" \in Steps /\ "expire" \in Steps /\ "authorised" \in Steps
    BY DEF Steps
  <2>3. PICK r \in Busy : caller' = [caller EXCEPT ![c] = r]
    <3>1. CASE O!Ask(c)
      BY <2>1, <2>2, <3>1 DEF O!Ask
    <3>2. CASE O!ManualRead(c)
      BY <1>2, <2>1, <2>2, <3>2 DEF O!ManualRead
    <3>3. CASE O!CallbackRead(c)
      BY <1>2, <2>1, <2>2, <3>3 DEF O!CallbackRead
    <3> QED BY <1>3, <3>1, <3>2, <3>3
  <2> QED BY <1>1, <2>3
<1>4. ASSUME NEW c \in Caller,
             \/ O!ManualExpire(c) \/ O!Restore(c) \/ O!Read(c) \/ O!Poll(c)
             \/ O!Acquire(c) \/ O!Save(c) \/ O!Release(c) \/ O!CallbackWrite(c)
             \/ O!Crash(c)
      PROVE  caller' \in [Caller -> {O!Idle} \union Busy]
  <2>1. caller[c].pc # "idle"
    BY <1>4 DEF O!ManualExpire, O!Restore, O!Read, O!Poll, O!Acquire, O!Save, O!Release,
                O!CallbackWrite, O!Crash
  <2>2. (\E pc \in Steps : O!Goto(c, pc)) \/ O!Succeed(c) \/ O!Fail(c)
    BY <1>4 DEF O!ManualExpire, O!Restore, O!Read, O!Poll, O!Acquire, O!Save, O!Release,
                O!CallbackWrite, O!Crash, Steps
  <2> QED BY <1>1, <2>1, <2>2, CallerMoves
<1>5. ASSUME NEW c \in Caller, O!Reread(c)
      PROVE  caller' \in [Caller -> {O!Idle} \union Busy]
  <2>1. caller[c] \in Busy
    BY <1>1, <1>5 DEF O!Reread, O!Idle
  <2>2. [caller[c] EXCEPT !.pc = "call", !.ver = token.version, !.tok = token.refresh] \in Busy
    BY <1>2, <2>1 DEF Busy, Steps
  <2>3. CASE O!Fresh
    BY <1>1, <1>5, <2>3 DEF O!Reread, O!Succeed
  <2>4. CASE ~O!Fresh
    BY <1>1, <1>5, <2>2, <2>4 DEF O!Reread
  <2> QED BY <2>3, <2>4
<1>6. ASSUME NEW c \in Caller, O!Call(c)
      PROVE  /\ caller' \in [Caller -> {O!Idle} \union Busy]
             /\ issued' \in Nat /\ alive' \subseteq Nat /\ lost' \in Nat
  <2>1. caller[c] \in Busy
    BY <1>1, <1>6 DEF O!Call, O!Idle
  <2>2. issued' \in Nat /\ alive' \subseteq Nat /\ lost' \in Nat
    BY <1>1, <1>6 DEF O!Call
  <2>3. CASE caller' = [caller EXCEPT ![c].pc = "save", ![c].tok = issued']
    <3> DEFINE r == [caller[c] EXCEPT !.pc = "save", !.tok = issued']
    <3>1. r \in Busy
      BY <2>1, <2>2 DEF Busy, Steps
    <3>2. caller' = [caller EXCEPT ![c] = r]
      BY <1>1, <2>3
    <3> HIDE DEF r
    <3> QED BY <1>1, <2>2, <3>1, <3>2
  <2>4. CASE O!Goto(c, "release")
    <3>1. (\E pc \in Steps : O!Goto(c, pc)) \/ O!Succeed(c) \/ O!Fail(c)
      BY <2>4 DEF Steps
    <3>2. caller[c].pc # "idle"
      BY <1>6 DEF O!Call
    <3> QED BY <1>1, <2>2, <3>1, <3>2, CallerMoves
  <2> QED BY <1>6, <2>2, <2>3, <2>4 DEF O!Call
<1>7. ASSUME NEW c \in Caller,
             O!ManualExpire(c) \/ O!Acquire(c) \/ O!Reread(c) \/ O!Release(c)
      PROVE  token' \in TokenRow
  <2>1. ASSUME NEW o \in Caller \union {O!Nobody}, NEW b \in BOOLEAN
        PROVE  /\ [token EXCEPT !.until = 0] \in TokenRow
               /\ [token EXCEPT !.owner = o] \in TokenRow
               /\ [token EXCEPT !.owner = o, !.leased = b] \in TokenRow
    BY <1>1 DEF TokenRow
  <2> QED BY <1>1, <1>7, <2>1 DEF O!ManualExpire, O!Acquire, O!Reread, O!Release, O!GiveBack
<1>8. ASSUME NEW c \in Caller, O!Restore(c) PROVE token' \in TokenRow
  <2>1. caller[c].was \subseteq Nat
    BY <1>1, <1>8 DEF O!Restore, O!Idle, Busy
  <2> QED BY <1>1, <1>8, <2>1 DEF O!Restore, TokenRow
<1>9. ASSUME NEW c \in Caller, O!Save(c) PROVE token' \in TokenRow
  <2>1. caller[c].tok \in Nat
    BY <1>1, <1>9 DEF O!Save, O!Idle, Busy
  <2>2. [token EXCEPT !.refresh = caller[c].tok, !.until = caller[c].tok,
                      !.version = @ + 1, !.owner = O!Nobody] \in TokenRow
    <3>1. token.version + 1 \in Nat
      BY <1>2
    <3> QED BY <1>1, <2>1, <3>1 DEF TokenRow
  <2>3. O!Answer(c).refresh = caller[c].tok /\ O!Answer(c).until = caller[c].tok
    BY DEF O!Answer
  <2> QED BY <1>1, <1>9, <2>2, <2>3 DEF O!Save
<1>10. ASSUME NEW c \in Caller, O!CallbackWrite(c)
       PROVE  token' \in TokenRow /\ issued' \in Nat /\ alive' \subseteq Nat /\ lost' \in Nat
  <2>1. caller[c].ver \in Nat
    BY <1>1, <1>10 DEF O!CallbackWrite, O!Idle, Busy
  <2> QED BY <1>1, <1>10, <2>1 DEF O!CallbackWrite, TokenRow
<1>11. ASSUME NEW c \in Caller,
              \/ O!Ask(c) \/ O!ManualRead(c) \/ O!Read(c) \/ O!Poll(c) \/ O!Call(c)
              \/ O!CallbackRead(c) \/ O!Crash(c)
       PROVE  token' = token
  BY <1>11 DEF O!Ask, O!ManualRead, O!Read, O!Poll, O!Call, O!CallbackRead, O!Crash
<1>12. ASSUME NEW c \in Caller,
              \/ O!Ask(c) \/ O!ManualRead(c) \/ O!ManualExpire(c) \/ O!Restore(c) \/ O!Read(c)
              \/ O!Poll(c) \/ O!Acquire(c) \/ O!Reread(c) \/ O!Save(c) \/ O!Release(c)
              \/ O!CallbackRead(c)
       PROVE  UNCHANGED <<issued, alive, lapsed, lost>>
  BY <1>12 DEF O!Ask, O!ManualRead, O!ManualExpire, O!Restore, O!Read, O!Poll, O!Acquire,
               O!Reread, O!Save, O!Release, O!CallbackRead
<1>13. ASSUME NEW c \in Caller, O!Call(c) \/ O!CallbackWrite(c) PROVE lapsed' = lapsed
  BY <1>13 DEF O!Call, O!CallbackWrite
<1>14. ASSUME NEW c \in Caller, O!Crash(c)
       PROVE  lost' \in Nat /\ UNCHANGED <<issued, alive, lapsed>>
  BY <1>1, <1>14 DEF O!Crash
<1>15. ASSUME O!Expire
       PROVE  token' \in TokenRow /\ lost' \in Nat /\ UNCHANGED <<issued, alive, lapsed, caller>>
  <2>1. [token EXCEPT !.leased = FALSE] \in TokenRow
    BY <1>1 DEF TokenRow
  <2> QED BY <1>1, <1>15, <2>1 DEF O!Expire
<1>16. ASSUME O!Lapse
       PROVE  lapsed' \in Nat /\ UNCHANGED <<token, issued, alive, caller, lost>>
  BY <1>1, <1>16 DEF O!Lapse
<1>17. CASE UNCHANGED O!vars
  BY <1>1, <1>17 DEF O!vars
<1> QED
  BY <1>1, <1>3, <1>4, <1>5, <1>6, <1>7, <1>8, <1>9, <1>10, <1>11, <1>12, <1>13, <1>14,
     <1>15, <1>16, <1>17
  DEF O!Next

\* Where a request is after a step of its own; the others stay where they are.
LEMMA CallerAfter ==
    ASSUME O!TypeOK, NEW c \in Caller, caller[c].pc # "idle"
    PROVE  /\ \A pc \in Steps : O!Goto(c, pc) =>
                 /\ caller'[c].pc = pc
                 /\ caller'[c].ver = caller[c].ver /\ caller'[c].tok = caller[c].tok
                 /\ \A d \in Caller \ {c} : caller'[d] = caller[d]
           /\ O!Succeed(c) \/ O!Fail(c) =>
                 /\ caller'[c].pc \in {"idle", "restore"}
                 /\ \A d \in Caller \ {c} : caller'[d] = caller[d]
<1>1. caller \in [Caller -> {O!Idle} \union Busy] /\ caller[c] \in Busy
  BY TokenType DEF O!Idle
<1>2. ASSUME NEW pc \in Steps, caller' = [caller EXCEPT ![c].pc = pc]
      PROVE  /\ caller'[c].pc = pc
             /\ caller'[c].ver = caller[c].ver /\ caller'[c].tok = caller[c].tok
             /\ \A d \in Caller \ {c} : caller'[d] = caller[d]
  BY <1>1, <1>2 DEF Busy
<1>3. ASSUME caller' = [caller EXCEPT ![c] = O!Idle]
      PROVE  /\ caller'[c].pc = "idle"
             /\ \A d \in Caller \ {c} : caller'[d] = caller[d]
  BY <1>1, <1>3 DEF O!Idle
<1>4. "restore" \in Steps
  BY DEF Steps
<1> QED BY <1>2, <1>3, <1>4 DEF O!Goto, O!Succeed, O!Fail

\* What TokenInv says of one request.
TokenOf(c) ==
    /\ O!Working(c) => token.owner = c /\ token.leased
    /\ caller[c].pc \in {"call", "save"} => O!Current(c)
    /\ caller[c].pc = "call" => caller[c].tok = token.refresh
    /\ caller[c].pc = "save" => caller[c].tok \in alive

Stored == token.refresh \in alive \/ \E c \in Caller : caller[c].pc = "save"

\* The lease lets one request work at a time, and while none does, the stored
\* refresh token is alive.
LEMMA OneWorks ==
    ASSUME O!TypeOK, Stored, \A c \in Caller : TokenOf(c)
    PROVE  /\ \A c, d \in Caller : O!Working(c) /\ O!Working(d) => c = d
           /\ ~O!Leased => \A c \in Caller : ~O!Working(c)
           /\ (\A c \in Caller : caller[c].pc # "save") => token.refresh \in alive
<1>1. \A c \in Caller : c # O!Nobody
  BY NobodyElse DEF O!Nobody
<1> QED BY <1>1 DEF TokenOf, Stored, O!Leased

\* A request that does not work before or after the step, while the row keeps its
\* lease, version and refresh token.
LEMMA IdleStep ==
    ASSUME Stored, \A x \in Caller : TokenOf(x),
           NEW c \in Caller, ~O!Working(c), ~O!Working(c)',
           \A d \in Caller \ {c} : caller'[d] = caller[d],
           token'.refresh = token.refresh, token'.version = token.version,
           token'.owner = token.owner, token'.leased = token.leased,
           alive' = alive
    PROVE  Stored' /\ \A x \in Caller : TokenOf(x)'
<1>1. Stored'
  BY DEF Stored, O!Working
<1>2. TokenOf(c)'
  BY DEF TokenOf, O!Working
<1>3. ASSUME NEW x \in Caller \ {c} PROVE TokenOf(x)'
  BY <1>3 DEF TokenOf, O!Working, O!Current
<1> QED BY <1>1, <1>2, <1>3

\* Nobody but c works: what the others are doing asks nothing of the row.
LEMMA OthersRest ==
    ASSUME NEW c \in Caller, \A d \in Caller \ {c} : ~O!Working(d),
           \A d \in Caller \ {c} : caller'[d] = caller[d]
    PROVE  \A d \in Caller \ {c} : TokenOf(d)'
  BY DEF TokenOf, O!Working

LEMMA TokenInductive == O!TokenInv /\ [O!Next]_(O!vars) => O!TokenInv'
<1> SUFFICES ASSUME O!TokenInv, [O!Next]_(O!vars) PROVE O!TokenInv'
  OBVIOUS
<1> O!TypeOK'
  BY TokenTypeInductive DEF O!TokenInv
<1> SUFFICES ASSUME lost' = 0 PROVE Stored' /\ \A x \in Caller : TokenOf(x)'
  BY DEF O!TokenInv, Stored, TokenOf, O!Working, O!Current
<1> O!TypeOK /\ lost \in Nat
  BY DEF O!TokenInv, O!TypeOK
<1>1. lost = 0 => Stored /\ \A x \in Caller : TokenOf(x)
  BY DEF O!TokenInv, Stored, TokenOf, O!Working, O!Current
<1>2. token \in TokenRow /\ caller \in [Caller -> {O!Idle} \union Busy]
  BY TokenType
<1>3. ASSUME NEW c \in Caller, O!Ask(c) \/ O!ManualRead(c) \/ O!CallbackRead(c)
      PROVE  Stored' /\ \A x \in Caller : TokenOf(x)'
  <2>1. /\ lost = 0 /\ caller[c].pc = "idle"
        /\ caller'[c].pc \in {"read", "expire", "authorised"}
        /\ \A d \in Caller \ {c} : caller'[d] = caller[d]
        /\ token' = token /\ alive' = alive
    BY <1>2, <1>3 DEF O!Ask, O!ManualRead, O!CallbackRead
  <2> QED BY <1>1, <2>1, IdleStep DEF O!Working
<1>4. ASSUME NEW c \in Caller, O!ManualExpire(c) \/ O!Restore(c) \/ O!Read(c) \/ O!Poll(c)
      PROVE  Stored' /\ \A x \in Caller : TokenOf(x)'
  <2>1. /\ lost = 0 /\ caller[c].pc \in {"expire", "restore", "read", "poll"}
        /\ alive' = alive
    BY <1>4 DEF O!ManualExpire, O!Restore, O!Read, O!Poll
  <2>2. /\ token'.refresh = token.refresh /\ token'.version = token.version
        /\ token'.owner = token.owner /\ token'.leased = token.leased
    BY <1>2, <1>4 DEF O!ManualExpire, O!Restore, O!Read, O!Poll, TokenRow
  <2>3. (\E pc \in {"read", "poll", "acquire"} : O!Goto(c, pc)) \/ O!Succeed(c) \/ O!Fail(c)
    BY <1>4 DEF O!ManualExpire, O!Restore, O!Read, O!Poll
  <2>4. /\ caller'[c].pc \in {"read", "poll", "acquire", "idle", "restore"}
        /\ \A d \in Caller \ {c} : caller'[d] = caller[d]
    BY <2>1, <2>3, CallerAfter DEF Steps
  <2> QED BY <1>1, <2>1, <2>2, <2>4, IdleStep DEF O!Working
<1>5. ASSUME NEW c \in Caller, O!Acquire(c)
      PROVE  Stored' /\ \A x \in Caller : TokenOf(x)'
  <2>1. lost = 0 /\ caller[c].pc = "acquire" /\ alive' = alive
    BY <1>5 DEF O!Acquire
  <2>2. CASE O!LeaseFree
    <3>1. /\ token' = [token EXCEPT !.owner = c, !.leased = TRUE]
          /\ O!Goto(c, "reread")
      BY <1>5, <2>2 DEF O!Acquire
    <3>2. /\ caller'[c].pc = "reread"
          /\ \A d \in Caller \ {c} : caller'[d] = caller[d]
      BY <2>1, <3>1, CallerAfter DEF Steps
    <3>3. /\ \A d \in Caller : ~O!Working(d)
          /\ token.refresh \in alive
      BY <1>1, <2>1, <2>2, OneWorks DEF O!LeaseFree, O!Working
    <3>4. token'.refresh = token.refresh /\ token'.owner = c /\ token'.leased
      BY <1>2, <3>1 DEF TokenRow
    <3>5. TokenOf(c)'
      BY <3>2, <3>4 DEF TokenOf
    <3>6. Stored'
      BY <2>1, <3>3, <3>4 DEF Stored
    <3> QED BY <3>2, <3>3, <3>5, <3>6, OthersRest
  <2>3. CASE ~O!LeaseFree
    <3>1. token' = token /\ O!Goto(c, "poll")
      BY <1>5, <2>3 DEF O!Acquire
    <3>2. caller'[c].pc = "poll" /\ \A d \in Caller \ {c} : caller'[d] = caller[d]
      BY <2>1, <3>1, CallerAfter DEF Steps
    <3> QED BY <1>1, <2>1, <3>1, <3>2, IdleStep DEF O!Working
  <2> QED BY <2>2, <2>3
<1>6. ASSUME NEW c \in Caller, lost = 0, O!Working(c)
      PROVE  /\ \A d \in Caller \ {c} : ~O!Working(d)
             /\ caller[c].pc # "save" => token.refresh \in alive
  <2>1. \A d \in Caller \ {c} : ~O!Working(d)
    BY <1>1, <1>6, OneWorks
  <2> QED BY <1>1, <1>6, <2>1, OneWorks DEF O!Working
<1>7. ASSUME NEW c \in Caller, O!Reread(c) \/ O!Release(c)
      PROVE  Stored' /\ \A x \in Caller : TokenOf(x)'
  <2>1. lost = 0 /\ O!Working(c) /\ caller[c].pc # "save" /\ alive' = alive
    BY <1>7 DEF O!Reread, O!Release, O!Working
  <2>2. token'.refresh = token.refresh
    BY <1>2, <1>7 DEF O!Reread, O!Release, O!GiveBack, TokenRow
  <2>3. Stored'
    BY <1>6, <2>1, <2>2 DEF Stored
  <2>4. CASE O!Reread(c) /\ ~O!Fresh
    <3>1. /\ caller' = [caller EXCEPT ![c].pc = "call", ![c].ver = token.version,
                                     ![c].tok = token.refresh]
          /\ token' = token
      BY <2>4 DEF O!Reread
    <3>2. caller[c] \in Busy
      BY <1>2, <2>4 DEF O!Reread, O!Idle
    <3>3. /\ caller'[c].pc = "call" /\ caller'[c].ver = token.version
          /\ caller'[c].tok = token.refresh
          /\ \A d \in Caller \ {c} : caller'[d] = caller[d]
      BY <1>2, <3>1, <3>2 DEF Busy
    <3>4. TokenOf(c)'
      <4>1. token.owner = c /\ token.leased
        BY <1>1, <2>1 DEF TokenOf
      <4> QED BY <3>1, <3>3, <4>1 DEF TokenOf, O!Current
    <3> QED BY <1>6, <2>1, <2>3, <3>3, <3>4, OthersRest
  <2>5. CASE O!Succeed(c) \/ O!Fail(c)
    <3>1. /\ caller'[c].pc \in {"idle", "restore"}
          /\ \A d \in Caller \ {c} : caller'[d] = caller[d]
      BY <1>7, <2>5, CallerAfter DEF O!Reread, O!Release
    <3>2. TokenOf(c)'
      BY <3>1 DEF TokenOf, O!Working
    <3> QED BY <1>6, <2>1, <2>3, <3>1, <3>2, OthersRest
  <2> QED BY <1>7, <2>4, <2>5 DEF O!Reread, O!Release
<1>8. ASSUME NEW c \in Caller, O!Call(c)
      PROVE  Stored' /\ \A x \in Caller : TokenOf(x)'
  <2>1. lost = 0 /\ caller[c].pc = "call" /\ O!Working(c) /\ token' = token
    BY <1>8 DEF O!Call, O!Working
  <2>2. caller[c].tok \in alive
    BY <1>1, <1>6, <2>1 DEF TokenOf
  <2>3. /\ issued' = issued + 1 /\ alive' = (alive \ {caller[c].tok}) \union {issued'}
        /\ caller' = [caller EXCEPT ![c].pc = "save", ![c].tok = issued']
    BY <1>8, <2>1, <2>2 DEF O!Call
  <2>4. caller[c] \in Busy
    BY <1>2, <2>1 DEF O!Idle
  <2>5. /\ caller'[c].pc = "save" /\ caller'[c].ver = caller[c].ver
        /\ caller'[c].tok = issued' /\ issued' \in alive'
        /\ \A d \in Caller \ {c} : caller'[d] = caller[d]
    BY <1>2, <2>3, <2>4 DEF Busy
  <2>6. TokenOf(c)'
    <3>1. token.owner = c /\ token.leased /\ O!Current(c)
      BY <1>1, <2>1 DEF TokenOf
    <3> QED BY <2>1, <2>5, <3>1 DEF TokenOf, O!Current
  <2>7. Stored'
    BY <2>5 DEF Stored
  <2> QED BY <1>6, <2>1, <2>5, <2>6, <2>7, OthersRest
<1>9. ASSUME NEW c \in Caller, O!Save(c)
      PROVE  Stored' /\ \A x \in Caller : TokenOf(x)'
  <2>1. lost = 0 /\ caller[c].pc = "save" /\ O!Working(c) /\ alive' = alive
    BY <1>9 DEF O!Save, O!Working
  <2>2. O!Current(c) /\ caller[c].tok \in alive
    BY <1>1, <2>1 DEF TokenOf
  <2>3. O!Succeed(c) /\ token'.refresh = caller[c].tok
    BY <1>2, <1>9, <2>2 DEF O!Save, O!Answer, TokenRow
  <2>4. /\ caller'[c].pc \in {"idle", "restore"}
        /\ \A d \in Caller \ {c} : caller'[d] = caller[d]
    BY <2>1, <2>3, CallerAfter
  <2>5. Stored' /\ TokenOf(c)'
    BY <2>1, <2>2, <2>3, <2>4 DEF Stored, TokenOf, O!Working
  <2> QED BY <1>6, <2>1, <2>4, <2>5, OthersRest
<1>10. ASSUME NEW c \in Caller, O!CallbackWrite(c)
       PROVE  Stored' /\ \A x \in Caller : TokenOf(x)'
  <2>1. lost = 0 /\ ~O!Leased /\ caller[c].pc = "authorised" /\ O!Succeed(c)
    BY <1>10 DEF O!CallbackWrite
  <2>2. token'.refresh \in alive'
    BY <1>10 DEF O!CallbackWrite
  <2>3. \A d \in Caller : ~O!Working(d)
    BY <1>1, <2>1, OneWorks
  <2>4. /\ caller'[c].pc \in {"idle", "restore"}
        /\ \A d \in Caller \ {c} : caller'[d] = caller[d]
    BY <2>1, CallerAfter
  <2>5. Stored' /\ TokenOf(c)'
    BY <2>2, <2>4 DEF Stored, TokenOf, O!Working
  <2> QED BY <2>3, <2>4, <2>5, OthersRest
<1>11. ASSUME NEW c \in Caller, O!Crash(c) PROVE FALSE
  BY <1>11 DEF O!Crash
<1>12. ASSUME O!Expire PROVE Stored' /\ \A x \in Caller : TokenOf(x)'
  <2>1. lost = 0 /\ token.owner \in Caller /\ ~O!Working(token.owner)
    BY <1>2, <1>12 DEF O!Expire, O!Leased, O!Working, TokenRow
  <2>2. \A d \in Caller : ~O!Working(d)
    BY <1>1, <2>1 DEF TokenOf
  <2>3. token'.refresh = token.refresh /\ alive' = alive /\ caller' = caller
    BY <1>2, <1>12 DEF O!Expire, TokenRow
  <2>4. token.refresh \in alive
    BY <1>1, <2>1, <2>2 DEF Stored, O!Working
  <2>5. \A d \in Caller : TokenOf(d)'
    BY <2>2, <2>3 DEF TokenOf, O!Working
  <2> QED BY <2>3, <2>4, <2>5 DEF Stored
<1>13. CASE O!Lapse \/ UNCHANGED O!vars
  <2>1. UNCHANGED <<token, issued, alive, caller, lost>>
    BY <1>13 DEF O!Lapse, O!vars
  <2>2. Stored' /\ \A x \in Caller : TokenOf(x)'
    BY <1>1, <2>1 DEF Stored, TokenOf, O!Working, O!Current
  <2> QED BY <2>2
<1> QED
  BY <1>3, <1>4, <1>5, <1>7, <1>8, <1>9, <1>10, <1>11, <1>12, <1>13 DEF O!Next

LEMMA TokenStart == O!Init => O!TokenInv
<1> SUFFICES ASSUME O!Init PROVE O!TokenInv
  OBVIOUS
<1>1. O!TypeOK
  <2>1. token \in TokenRow
    BY DEF O!Init, TokenRow
  <2> QED BY <2>1, TokenType DEF O!Init
<1>2. \A c \in Caller : caller[c].pc = "idle"
  BY DEF O!Init, O!Idle
<1>3. token.refresh \in alive
  BY DEF O!Init
<1> QED BY <1>1, <1>2, <1>3 DEF O!TokenInv, O!Working

LEMMA TokenImplies == O!TokenInv => O!Connected /\ O!SpentOnce
<1> SUFFICES ASSUME O!TokenInv, lost = 0
             PROVE  /\ \/ token.refresh \in alive
                       \/ \E c \in Caller : caller[c].pc = "save" /\ O!Current(c)
                    /\ \A c \in Caller : caller[c].pc = "call" => caller[c].tok \in alive
  BY DEF O!Connected, O!SpentOnce
<1>1. O!TypeOK /\ Stored /\ \A x \in Caller : TokenOf(x)
  BY DEF O!TokenInv, Stored, TokenOf, O!Working, O!Current
<1>2. \/ token.refresh \in alive
      \/ \E c \in Caller : caller[c].pc = "save" /\ O!Current(c)
  BY <1>1 DEF Stored, TokenOf
<1>3. ASSUME NEW c \in Caller, caller[c].pc = "call" PROVE caller[c].tok \in alive
  <2>1. \A d \in Caller : caller[d].pc # "save"
    BY <1>1, <1>3, OneWorks DEF O!Working
  <2> QED BY <1>1, <1>3, <2>1, OneWorks DEF TokenOf
<1> QED BY <1>2, <1>3

\* However many requests need a token, whenever a token lapses, a lease expires or
\* somebody authorises the application anew: unless a request died, an answer was
\* lost or a lease was outlived, the stored refresh token works or its successor
\* is about to be stored, and nobody presents a spent one.
THEOREM TokenSafe == O!Spec => [](O!Connected /\ O!SpentOnce)
<1> QED BY TokenStart, TokenInductive, TokenImplies, PTL DEF O!Spec

\* The same of the run's specification.
THEOREM TokensAreKept == Spec => []TokensKept
<1>1. Init => O!TokenInv
  BY TokenStart DEF Init
<1>2. [Next]_vars => [O!Next]_(O!vars)
  BY DEF Next, vars, Entity, Mail, Token, tokenVars, O!vars
<1>3. O!TokenInv => TokensKept
  BY TokenImplies DEF TokensKept
<1> QED BY <1>1, <1>2, <1>3, TokenInductive, PTL DEF Spec
-----------------------------------------------------------------------------
(***************************************************************************)
(* Records made under a lease.                                             *)
(***************************************************************************)

Asking == [pc : {"find", "write", "claim", "create", "finish", "release"},
           p : Party, got : Nat]
PartyRow == [id : Nat, owner : Asker \union {E!Nobody}, leased : BOOLEAN]

LEMMA EntityType ==
    E!TypeOK <=> /\ party \in [Party -> PartyRow]
                 /\ record \in [E!Record -> {"none", "wire", "there"}]
                 /\ asker \in [Asker -> {E!Idle} \union Asking]
                 /\ faults \in Nat /\ loose \in BOOLEAN
  BY DEF E!TypeOK, PartyRow, Asking

LEMMA EntityTypeNext ==
    E!TypeOK' <=> /\ party' \in [Party -> PartyRow]
                  /\ record' \in [E!Record -> {"none", "wire", "there"}]
                  /\ asker' \in [Asker -> {E!Idle} \union Asking]
                  /\ faults' \in Nat /\ loose' \in BOOLEAN
  BY DEF E!TypeOK, PartyRow, Asking

\* Where a request is after a step of its own; the others stay where they are.
LEMMA AskerAfter ==
    ASSUME E!TypeOK, NEW a \in Asker
    PROVE  /\ asker[a].pc # "idle" => asker[a] \in Asking
           /\ E!Stop(a) =>
                 /\ asker'[a].pc = "idle"
                 /\ \A b \in Asker \ {a} : asker'[b] = asker[b]
                 /\ asker' \in [Asker -> {E!Idle} \union Asking]
           /\ \A pc \in {"claim", "create", "release"} :
                 asker[a].pc # "idle" /\ E!Goto(a, pc) =>
                    /\ asker'[a].pc = pc
                    /\ asker'[a].p = asker[a].p /\ asker'[a].got = asker[a].got
                    /\ \A b \in Asker \ {a} : asker'[b] = asker[b]
                    /\ asker' \in [Asker -> {E!Idle} \union Asking]
           /\ \A pc \in {"write", "finish"}, i \in Nat :
                 asker[a].pc # "idle" /\ asker' = [asker EXCEPT ![a].pc = pc, ![a].got = i] =>
                    /\ asker'[a].pc = pc
                    /\ asker'[a].p = asker[a].p /\ asker'[a].got = i
                    /\ \A b \in Asker \ {a} : asker'[b] = asker[b]
                    /\ asker' \in [Asker -> {E!Idle} \union Asking]
<1>1. asker \in [Asker -> {E!Idle} \union Asking]
  BY EntityType
<1>2. asker[a].pc # "idle" => asker[a] \in Asking
  BY <1>1 DEF E!Idle
<1>3. ASSUME E!Stop(a)
      PROVE  /\ asker'[a].pc = "idle"
             /\ \A b \in Asker \ {a} : asker'[b] = asker[b]
             /\ asker' \in [Asker -> {E!Idle} \union Asking]
  BY <1>1, <1>3 DEF E!Stop, E!Idle
<1>4. ASSUME NEW pc \in {"claim", "create", "release"}, asker[a].pc # "idle", E!Goto(a, pc)
      PROVE  /\ asker'[a].pc = pc
             /\ asker'[a].p = asker[a].p /\ asker'[a].got = asker[a].got
             /\ \A b \in Asker \ {a} : asker'[b] = asker[b]
             /\ asker' \in [Asker -> {E!Idle} \union Asking]
  <2> DEFINE r == [asker[a] EXCEPT !.pc = pc]
  <2>1. /\ r \in Asking /\ r.pc = pc /\ r.p = asker[a].p /\ r.got = asker[a].got
        /\ asker' = [asker EXCEPT ![a] = r]
    BY <1>1, <1>2, <1>4 DEF Asking, E!Goto
  <2> HIDE DEF r
  <2> QED BY <1>1, <2>1
<1>5. ASSUME NEW pc \in {"write", "finish"}, NEW i \in Nat, asker[a].pc # "idle",
             asker' = [asker EXCEPT ![a].pc = pc, ![a].got = i]
      PROVE  /\ asker'[a].pc = pc
             /\ asker'[a].p = asker[a].p /\ asker'[a].got = i
             /\ \A b \in Asker \ {a} : asker'[b] = asker[b]
             /\ asker' \in [Asker -> {E!Idle} \union Asking]
  <2> DEFINE r == [asker[a] EXCEPT !.pc = pc, !.got = i]
  <2>1. /\ r \in Asking /\ r.pc = pc /\ r.p = asker[a].p /\ r.got = i
        /\ asker' = [asker EXCEPT ![a] = r]
    BY <1>1, <1>2, <1>5 DEF Asking
  <2> HIDE DEF r
  <2> QED BY <1>1, <2>1
<1> QED BY <1>2, <1>3, <1>4, <1>5

\* The part of RecordInv that holds without ~loose: types, and an id in hand is
\* that of a record.
EntityType2 ==
    /\ E!TypeOK
    /\ \A a \in Asker : asker[a].pc \in {"write", "finish"} => asker[a].got \in E!Record

LEMMA GotInductive == EntityType2 /\ [E!Next]_(E!vars) => EntityType2'
<1> SUFFICES ASSUME EntityType2, [E!Next]_(E!vars) PROVE EntityType2'
  OBVIOUS
<1>1. /\ party \in [Party -> PartyRow]
      /\ record \in [E!Record -> {"none", "wire", "there"}]
      /\ asker \in [Asker -> {E!Idle} \union Asking]
      /\ faults \in Nat /\ loose \in BOOLEAN
      /\ E!TypeOK
      /\ \A a \in Asker : asker[a].pc \in {"write", "finish"} => asker[a].got \in E!Record
  BY EntityType DEF EntityType2
<1> DEFINE Got == \A a \in Asker : asker[a].pc \in {"write", "finish"} => asker[a].got \in E!Record
<1> SUFFICES /\ party' \in [Party -> PartyRow]
             /\ record' \in [E!Record -> {"none", "wire", "there"}]
             /\ asker' \in [Asker -> {E!Idle} \union Asking]
             /\ faults' \in Nat /\ loose' \in BOOLEAN
             /\ Got'
  BY EntityTypeNext DEF EntityType2
<1>2. E!Record \subseteq Nat /\ 0 \in Nat
  BY DEF E!Record
<1>3. ASSUME NEW a \in Asker, NEW p \in Party, E!Ask(a, p)
      PROVE  asker' \in [Asker -> {E!Idle} \union Asking] /\ Got'
  <2>1. [pc |-> "find", p |-> p, got |-> 0] \in Asking
    BY DEF Asking
  <2> QED BY <1>1, <1>3, <2>1 DEF E!Ask
<1>4. ASSUME NEW a \in Asker,
             E!Find(a) \/ E!WriteFound(a) \/ E!Claim(a) \/ E!Create(a) \/ E!Finish(a)
                \/ E!Release(a) \/ E!Crash(a)
      PROVE  asker' \in [Asker -> {E!Idle} \union Asking] /\ Got'
  <2>1. asker[a].pc # "idle"
    BY <1>4 DEF E!Find, E!WriteFound, E!Claim, E!Create, E!Finish, E!Release, E!Crash
  <2>2. \/ E!Stop(a)
        \/ \E pc \in {"claim", "create", "release"} : E!Goto(a, pc)
        \/ \E pc \in {"write", "finish"}, i \in E!Record :
              asker' = [asker EXCEPT ![a].pc = pc, ![a].got = i]
    <3>1. E!Find(a) => <2>2
      BY DEF E!Find, E!There
    <3>2. E!WriteFound(a) \/ E!Claim(a) \/ E!Release(a) \/ E!Crash(a) => <2>2
      BY DEF E!WriteFound, E!Claim, E!Release, E!Crash
    <3>3. E!Create(a) => <2>2
      BY DEF E!Create
    <3>4. E!Finish(a) => <2>2
      BY DEF E!Finish
    <3> QED BY <1>4, <3>1, <3>2, <3>3, <3>4
  <2>3. CASE E!Stop(a)
    BY <1>1, <2>3, AskerAfter
  <2>4. ASSUME NEW pc \in {"claim", "create", "release"}, E!Goto(a, pc)
        PROVE  asker' \in [Asker -> {E!Idle} \union Asking] /\ Got'
    <3>1. /\ asker' \in [Asker -> {E!Idle} \union Asking]
          /\ asker'[a].pc = pc
          /\ \A b \in Asker \ {a} : asker'[b] = asker[b]
      BY <1>1, <2>1, <2>4, AskerAfter
    <3> QED BY <1>1, <3>1
  <2>5. ASSUME NEW pc \in {"write", "finish"}, NEW i \in E!Record,
               asker' = [asker EXCEPT ![a].pc = pc, ![a].got = i]
        PROVE  asker' \in [Asker -> {E!Idle} \union Asking] /\ Got'
    <3>1. /\ asker' \in [Asker -> {E!Idle} \union Asking]
          /\ asker'[a].got = i
          /\ \A b \in Asker \ {a} : asker'[b] = asker[b]
      BY <1>1, <1>2, <2>1, <2>5, AskerAfter
    <3> QED BY <1>1, <3>1
  <2> QED BY <2>2, <2>3, <2>4, <2>5
<1>5. ASSUME NEW a \in Asker,
             E!WriteFound(a) \/ E!Claim(a) \/ E!Finish(a) \/ E!Release(a)
      PROVE  party' \in [Party -> PartyRow]
  <2>1. asker[a] \in Asking
    BY <1>1, <1>5, AskerAfter DEF E!WriteFound, E!Claim, E!Finish, E!Release
  <2>2. asker[a].p \in Party /\ asker[a].got \in Nat
    BY <2>1 DEF Asking
  <2>3. ASSUME NEW o \in Asker \union {E!Nobody}, NEW b \in BOOLEAN
        PROVE  /\ [party EXCEPT ![asker[a].p].id = asker[a].got] \in [Party -> PartyRow]
               /\ [party EXCEPT ![asker[a].p].owner = o, ![asker[a].p].leased = b]
                     \in [Party -> PartyRow]
               /\ [party EXCEPT ![asker[a].p] =
                      [id |-> asker[a].got, owner |-> E!Nobody, leased |-> FALSE]]
                     \in [Party -> PartyRow]
    BY <1>1, <2>2 DEF PartyRow
  <2>4. CASE E!WriteFound(a)
    BY <2>3, <2>4 DEF E!WriteFound
  <2>5. CASE E!Claim(a)
    <3>1. [party EXCEPT ![asker[a].p].owner = a, ![asker[a].p].leased = TRUE]
             \in [Party -> PartyRow]
      BY <2>3
    <3> QED BY <1>1, <2>5, <3>1 DEF E!Claim
  <2>6. CASE E!Finish(a)
    BY <1>1, <2>3, <2>6 DEF E!Finish
  <2>7. CASE E!Release(a)
    <3>1. [party EXCEPT ![asker[a].p].owner = E!Nobody, ![asker[a].p].leased = FALSE]
             \in [Party -> PartyRow]
      BY <2>3
    <3> QED BY <1>1, <2>7, <3>1 DEF E!Release
  <2> QED BY <1>5, <2>4, <2>5, <2>6, <2>7
<1>0. /\ E!Spend => faults' \in Nat
      /\ \A a \in Asker : E!BreaksOff(a) => loose' \in BOOLEAN
      /\ loose' = loose \/ loose' = TRUE => loose' \in BOOLEAN
  <2>1. E!Spend => faults' \in Nat
    BY <1>1 DEF E!Spend
  <2>2. ASSUME NEW a \in Asker, E!BreaksOff(a) PROVE loose' \in BOOLEAN
    BY <2>2, Zenon DEF E!BreaksOff
  <2> QED BY <1>1, <2>1, <2>2
<1>6. ASSUME NEW p \in Party, E!Expire(p)
      PROVE  /\ party' \in [Party -> PartyRow] /\ faults' \in Nat /\ loose' \in BOOLEAN
             /\ UNCHANGED <<record, asker>>
  <2>1. [party EXCEPT ![p].leased = FALSE] \in [Party -> PartyRow]
    BY <1>1 DEF PartyRow
  <2> QED BY <1>0, <1>1, <1>6, <2>1 DEF E!Expire
<1>7. ASSUME NEW a \in Asker, NEW p \in Party, E!Ask(a, p)
      PROVE  UNCHANGED <<party, record, faults, loose>>
  BY <1>7 DEF E!Ask
<1>8. ASSUME NEW a \in Asker, E!Find(a) \/ E!WriteFound(a) \/ E!Claim(a)
      PROVE  UNCHANGED <<record, faults, loose>> /\ (E!Find(a) => party' = party)
  BY <1>8 DEF E!Find, E!WriteFound, E!Claim
<1>9. ASSUME NEW a \in Asker, E!Create(a)
      PROVE  /\ record' \in [E!Record -> {"none", "wire", "there"}]
             /\ faults' \in Nat /\ loose' \in BOOLEAN /\ party' = party
  BY <1>0, <1>1, <1>9 DEF E!Create
<1>10. ASSUME NEW a \in Asker, E!Finish(a) \/ E!Release(a) \/ E!Crash(a)
       PROVE  /\ faults' \in Nat /\ loose' \in BOOLEAN /\ record' = record
              /\ E!Crash(a) => party' = party
  BY <1>0, <1>1, <1>10 DEF E!Finish, E!Release, E!Crash
<1>11. ASSUME E!Land
       PROVE  /\ record' \in [E!Record -> {"none", "wire", "there"}]
              /\ UNCHANGED <<party, asker, faults, loose>>
  BY <1>1, <1>11 DEF E!Land
<1>12. CASE UNCHANGED E!vars
  BY <1>1, <1>12 DEF E!vars
<1> QED
  BY <1>1, <1>3, <1>4, <1>5, <1>6, <1>7, <1>8, <1>9, <1>10, <1>11, <1>12 DEF E!Next

\* What RecordInv says while nothing has broken loose.
Holds(a) ==
    asker[a].pc \in {"create", "finish"} =>
        party[asker[a].p].owner = a /\ party[asker[a].p].leased

Kept == /\ E!Made = E!There
        /\ \A a \in Asker : Holds(a)
        /\ \E row \in [E!Made -> Party] : E!OfOwnRow(row)

LEMMA RecordParts == E!RecordInv <=> EntityType2 /\ (~loose => Kept)
  BY DEF E!RecordInv, EntityType2, Kept, Holds

LEMMA RecordPartsNext == E!RecordInv' <=> EntityType2' /\ (~loose' => Kept')
  BY DEF E!RecordInv, EntityType2, Kept, Holds

\* No new record: the rows stay found, provided nobody comes to search or to create,
\* no id is lost, and a request that ends after its creation leaves its id or nobody
\* who could still create.
LEMMA RowsStayOwn ==
    ASSUME E!Made' = E!Made, NEW row \in [E!Made -> Party], E!OfOwnRow(row),
           \A a \in Asker : asker'[a].pc \in {"claim", "create"} =>
              asker[a].pc = asker'[a].pc /\ asker[a].p = asker'[a].p,
           \A q \in Party : party[q].id # 0 => party'[q].id # 0,
           \A b \in Asker : asker[b].pc = "finish" =>
              \/ asker'[b].pc = "finish" /\ asker'[b].p = asker[b].p
              \/ party'[asker[b].p].id # 0
              \/ \A c \in Asker : asker'[c].pc # "claim"
    PROVE  row \in [E!Made' -> Party] /\ E!OfOwnRow(row)'
<1>1. \A i, j \in E!Made' : row[i] = row[j] => i = j
  BY DEF E!OfOwnRow
<1>2. ASSUME NEW i \in E!Made', NEW a \in Asker,
             asker'[a].pc \in {"claim", "create"}, asker'[a].p = row[i]
      PROVE  /\ asker'[a].pc = "claim"
             /\ \/ party'[row[i]].id # 0
                \/ \E b \in Asker : asker'[b].pc = "finish" /\ asker'[b].p = row[i]
  <2>1. /\ asker[a].pc = "claim" /\ asker'[a].pc = "claim"
        /\ \/ party[row[i]].id # 0
           \/ \E b \in Asker : asker[b].pc = "finish" /\ asker[b].p = row[i]
    BY <1>2 DEF E!OfOwnRow
  <2>2. row[i] \in Party
    OBVIOUS
  <2>3. CASE party[row[i]].id # 0
    BY <2>1, <2>2, <2>3
  <2>4. ASSUME NEW b \in Asker, asker[b].pc = "finish", asker[b].p = row[i]
        PROVE  \/ party'[row[i]].id # 0
               \/ asker'[b].pc = "finish" /\ asker'[b].p = row[i]
    BY <2>1, <2>4
  <2> QED BY <2>1, <2>3, <2>4
<1> QED BY <1>1, <1>2 DEF E!OfOwnRow

\* The owner of a row's lease is the only one to create for it.
LEMMA OneCreates ==
    ASSUME \A a \in Asker : Holds(a), NEW a \in Asker, NEW b \in Asker,
           asker[a].pc \in {"create", "finish"}, asker[b].pc \in {"create", "finish"},
           asker[a].p = asker[b].p
    PROVE  a = b
  BY DEF Holds

\* A new record, made for the row of a request that was creating one, belongs to that
\* row, for which there was none.
LEMMA RowsGetOwn ==
    ASSUME E!TypeOK, \A b \in Asker : Holds(b),
           NEW row \in [E!Made -> Party], E!OfOwnRow(row),
           NEW a \in Asker, asker[a].pc = "create",
           NEW i \in E!Record, i \notin E!Made, E!Made' = E!Made \union {i},
           \A b \in Asker \ {a} : asker'[b] = asker[b],
           party' = party,
           \/ asker'[a].pc = "finish" /\ asker'[a].p = asker[a].p
           \/ asker'[a].pc = "release" /\ \A b \in Asker \ {a} : asker[b].pc # "claim"
    PROVE  \E new \in [E!Made' -> Party] : E!OfOwnRow(new)'
<1> DEFINE p == asker[a].p
<1>1. p \in Party
  BY AskerAfter DEF Asking
<1>2. PICK new \in [E!Made' -> Party] : new[i] = p /\ \A k \in E!Made : new[k] = row[k]
  <2> DEFINE n == [k \in E!Made' |-> IF k = i THEN p ELSE row[k]]
  <2>1. n \in [E!Made' -> Party]
    BY <1>1
  <2>2. n[i] = p /\ \A k \in E!Made : n[k] = row[k]
    OBVIOUS
  <2> HIDE DEF n
  <2> QED BY <2>1, <2>2
<1>3. new[i] = p /\ \A k \in E!Made : new[k] = row[k] /\ row[k] # p
  BY <1>2 DEF E!OfOwnRow
<1>4. \A k, l \in E!Made' : new[k] = new[l] => k = l
  BY <1>3 DEF E!OfOwnRow
<1>5. ASSUME NEW k \in E!Made', NEW b \in Asker,
             asker'[b].pc \in {"claim", "create"}, asker'[b].p = new[k]
      PROVE  /\ asker'[b].pc = "claim"
             /\ \/ party'[new[k]].id # 0
                \/ \E c \in Asker : asker'[c].pc = "finish" /\ asker'[c].p = new[k]
  <2>1. b # a /\ asker'[b] = asker[b]
    BY <1>5
  <2>2. CASE k = i
    <3>1. asker[b].pc # "create"
      BY <1>3, <1>5, <2>1, <2>2, OneCreates
    <3> QED BY <1>3, <1>5, <2>1, <2>2, <3>1
  <2>3. CASE k \in E!Made
    <3>1. /\ asker[b].pc = "claim"
          /\ \/ party[row[k]].id # 0
             \/ \E c \in Asker : asker[c].pc = "finish" /\ asker[c].p = row[k]
      BY <1>3, <1>5, <2>1, <2>3 DEF E!OfOwnRow
    <3>2. \A c \in Asker : asker[c].pc = "finish" => asker'[c] = asker[c]
      OBVIOUS
    <3> QED BY <1>3, <2>1, <2>3, <3>1, <3>2
  <2> QED BY <2>2, <2>3
<1>6. E!OfOwnRow(new)'
  BY <1>4, <1>5 DEF E!OfOwnRow
<1> QED BY <1>2, <1>6

LEMMA RecordInductive == E!RecordInv /\ [E!Next]_(E!vars) => E!RecordInv'
<1> SUFFICES ASSUME E!RecordInv, [E!Next]_(E!vars) PROVE E!RecordInv'
  OBVIOUS
<1> EntityType2 /\ EntityType2' /\ E!TypeOK
  BY RecordParts, GotInductive DEF EntityType2
<1> SUFFICES ASSUME ~loose' PROVE Kept'
  BY RecordPartsNext
<1>1. ~loose => /\ E!Made = E!There
                /\ \A a \in Asker : Holds(a)
                /\ \E row \in [E!Made -> Party] : E!OfOwnRow(row)
  BY RecordParts DEF Kept
<1>2. /\ party \in [Party -> PartyRow]
      /\ asker \in [Asker -> {E!Idle} \union Asking]
  BY EntityType
<1>3. ASSUME record' = record, ~loose,
             \A a \in Asker : Holds(a)',
             \A a \in Asker : asker'[a].pc \in {"claim", "create"} =>
                asker[a].pc = asker'[a].pc /\ asker[a].p = asker'[a].p,
             \A q \in Party : party[q].id # 0 => party'[q].id # 0,
             \A b \in Asker : asker[b].pc = "finish" =>
                \/ asker'[b].pc = "finish" /\ asker'[b].p = asker[b].p
                \/ party'[asker[b].p].id # 0
                \/ \A c \in Asker : asker'[c].pc # "claim"
      PROVE  Kept'
  <2>1. E!Made' = E!Made /\ E!There' = E!There
    BY <1>3 DEF E!Made, E!There
  <2>2. PICK row \in [E!Made -> Party] : E!OfOwnRow(row)
    BY <1>1, <1>3
  <2>3. row \in [E!Made' -> Party] /\ E!OfOwnRow(row)'
    BY <1>3, <2>1, <2>2, RowsStayOwn
  <2> QED BY <1>1, <1>3, <2>1, <2>3 DEF Kept
<1>4. ASSUME NEW a \in Asker, NEW p \in Party, E!Ask(a, p) PROVE Kept'
  <2>1. /\ ~loose /\ record' = record /\ party' = party
        /\ asker[a].pc = "idle" /\ asker'[a].pc = "find"
        /\ \A b \in Asker \ {a} : asker'[b] = asker[b]
    BY <1>2, <1>4 DEF E!Ask
  <2>2. \A b \in Asker : Holds(b)'
    BY <1>1, <2>1 DEF Holds
  <2> QED BY <1>3, <2>1, <2>2
<1>5. ASSUME NEW a \in Asker, E!Find(a) PROVE Kept'
  <2>1. ~loose /\ record' = record /\ party' = party /\ asker[a].pc = "find"
    BY <1>5 DEF E!Find
  <2>2. CASE asker'[a].pc \in {"idle", "write"} /\ \A b \in Asker \ {a} : asker'[b] = asker[b]
    <3>1. \A b \in Asker : Holds(b)'
      BY <1>1, <2>1, <2>2 DEF Holds
    <3> QED BY <1>3, <2>1, <2>2, <3>1
  <2>3. CASE /\ E!There = {}
             /\ asker'[a].pc = "claim" /\ \A b \in Asker \ {a} : asker'[b] = asker[b]
    <3>1. \A b \in Asker : Holds(b)'
      BY <1>1, <2>1, <2>3 DEF Holds
    <3>2. E!Made' = {} /\ E!There' = {}
      BY <1>1, <2>1, <2>3 DEF E!Made, E!There
    <3> DEFINE row == [i \in {} |-> i]
    <3>3. row \in [{} -> Party]
      OBVIOUS
    <3> HIDE DEF row
    <3>4. row \in [E!Made' -> Party] /\ E!OfOwnRow(row)'
      BY <3>2, <3>3 DEF E!OfOwnRow
    <3> QED BY <3>1, <3>2, <3>4 DEF Kept
  <2>4. CASE E!Stop(a)
    BY <2>2, <2>4, AskerAfter
  <2>5. ASSUME NEW i \in E!There, asker' = [asker EXCEPT ![a].pc = "write", ![a].got = i]
        PROVE  Kept'
    <3>1. i \in Nat
      BY DEF E!There, E!Record
    <3> QED BY <2>1, <2>2, <2>5, <3>1, AskerAfter
  <2>6. CASE E!There = {} /\ E!Goto(a, "claim")
    BY <2>1, <2>3, <2>6, AskerAfter
  <2> QED BY <1>5, <2>4, <2>5, <2>6 DEF E!Find
<1>6. ASSUME NEW a \in Asker, E!WriteFound(a) PROVE Kept'
  <2>1. /\ ~loose /\ record' = record /\ asker[a].pc = "write" /\ E!Stop(a)
        /\ party' = [party EXCEPT ![asker[a].p].id = asker[a].got]
    BY <1>6 DEF E!WriteFound
  <2>2. asker[a].p \in Party /\ asker[a].got \in Nat /\ asker[a].got # 0
    <3>1. asker[a] \in Asking
      BY <2>1, AskerAfter
    <3>2. asker[a].got \in 1 .. MaxRecords
      BY <2>1 DEF EntityType2, E!Record
    <3> QED BY <3>1, <3>2, AskerFaults DEF Asking
  <2>3. asker'[a].pc = "idle" /\ \A b \in Asker \ {a} : asker'[b] = asker[b]
    BY <2>1, AskerAfter
  <2>4. \A q \in Party : /\ party'[q].owner = party[q].owner
                         /\ party'[q].leased = party[q].leased
                         /\ party[q].id # 0 => party'[q].id # 0
    BY <1>2, <2>1, <2>2 DEF PartyRow
  <2>5. \A b \in Asker : Holds(b)'
    <3>1. \A b \in Asker : asker[b].pc # "idle" => asker[b].p \in Party
      BY AskerAfter DEF Asking
    <3> QED BY <1>1, <2>1, <2>3, <2>4, <3>1 DEF Holds
  <2> QED BY <1>3, <2>1, <2>3, <2>4, <2>5
<1>7. ASSUME NEW a \in Asker, E!Claim(a) PROVE Kept'
  <2> DEFINE p == asker[a].p
  <2>1. ~loose /\ record' = record /\ asker[a].pc = "claim" /\ p \in Party
    BY <1>7, AskerAfter DEF E!Claim, Asking
  <2>2. CASE E!Claimable(p)
    <3>1. /\ party[p].id = 0 /\ ~party[p].leased
          /\ party' = [party EXCEPT ![p].owner = a, ![p].leased = TRUE]
          /\ E!Goto(a, "create")
      BY <1>7, <2>2 DEF E!Claim, E!Claimable
    <3>2. /\ asker'[a].pc = "create" /\ asker'[a].p = p
          /\ \A b \in Asker \ {a} : asker'[b] = asker[b]
      BY <2>1, <3>1, AskerAfter
    <3>3. /\ party'[p].owner = a /\ party'[p].leased
          /\ \A q \in Party : party'[q].id = party[q].id
          /\ \A q \in Party \ {p} : party'[q] = party[q]
      BY <1>2, <2>1, <3>1 DEF PartyRow
    <3>4. \A b \in Asker : asker[b].pc \in {"create", "finish"} => asker[b].p \in Party \ {p}
      BY <1>1, <2>1, <3>1, AskerAfter DEF Holds, Asking
    <3>5. ASSUME NEW b \in Asker PROVE Holds(b)'
      <4>1. CASE b = a
        BY <3>2, <3>3, <4>1 DEF Holds
      <4>2. CASE b # a
        BY <1>1, <2>1, <3>2, <3>3, <3>4, <4>2 DEF Holds
      <4> QED BY <4>1, <4>2
    <3>6. PICK row \in [E!Made -> Party] : E!OfOwnRow(row)
      BY <1>1, <2>1
    <3>7. \A i \in E!Made : row[i] # p
      BY <2>1, <3>1, <3>4, <3>6 DEF E!OfOwnRow
    <3>8. E!Made' = E!Made /\ E!There' = E!There
      BY <2>1 DEF E!Made, E!There
    <3>9. ASSUME NEW i \in E!Made, NEW b \in Asker,
                 asker'[b].pc \in {"claim", "create"}, asker'[b].p = row[i]
          PROVE  /\ asker'[b].pc = "claim"
                 /\ \/ party'[row[i]].id # 0
                    \/ \E c \in Asker : asker'[c].pc = "finish" /\ asker'[c].p = row[i]
      <4>1. b # a /\ asker'[b] = asker[b] /\ row[i] \in Party
        BY <3>2, <3>7, <3>9
      <4>2. /\ asker[b].pc = "claim"
            /\ \/ party[row[i]].id # 0
               \/ \E c \in Asker : asker[c].pc = "finish" /\ asker[c].p = row[i]
        BY <3>6, <3>9, <4>1 DEF E!OfOwnRow
      <4>3. \A c \in Asker : asker[c].pc = "finish" => asker'[c] = asker[c]
        BY <2>1, <3>2
      <4> QED BY <3>3, <4>1, <4>2, <4>3
    <3>10. E!OfOwnRow(row)'
      BY <3>6, <3>8, <3>9 DEF E!OfOwnRow
    <3>11. row \in [E!Made' -> Party]
      BY <3>8
    <3> QED BY <1>1, <2>1, <3>5, <3>8, <3>10, <3>11 DEF Kept
  <2>3. CASE ~E!Claimable(p)
    <3>1. party' = party /\ E!Stop(a)
      BY <1>7, <2>3 DEF E!Claim
    <3>2. asker'[a].pc = "idle" /\ \A b \in Asker \ {a} : asker'[b] = asker[b]
      BY <3>1, AskerAfter
    <3>3. \A b \in Asker : Holds(b)'
      BY <1>1, <2>1, <3>1, <3>2 DEF Holds
    <3> QED BY <1>3, <2>1, <3>1, <3>2, <3>3
  <2> QED BY <2>2, <2>3
<1>8. ASSUME NEW a \in Asker, E!Create(a) PROVE Kept'
  <2>1. PICK i \in E!Record :
           /\ record[i] = "none"
           /\ \/ /\ record' = [record EXCEPT ![i] = "there"]
                 /\ asker' = [asker EXCEPT ![a].pc = "finish", ![a].got = i]
                 /\ UNCHANGED <<faults, loose>>
              \/ /\ E!Goto(a, "release")
                 /\ \/ record' = [record EXCEPT ![i] = "there"] /\ E!BreaksOff(a)
                    \/ record' = [record EXCEPT ![i] = "wire"] /\ loose' = TRUE
                    \/ UNCHANGED <<record, loose>>
    BY <1>8 DEF E!Create
  <2>2. asker[a].pc = "create" /\ party' = party
    BY <1>8 DEF E!Create
  <2>3. ~loose
    BY <2>1 DEF E!BreaksOff
  <2>4. \/ /\ asker' = [asker EXCEPT ![a].pc = "finish", ![a].got = i]
           /\ record' = [record EXCEPT ![i] = "there"]
        \/ /\ E!Goto(a, "release") /\ record' = [record EXCEPT ![i] = "there"]
           /\ \A b \in Asker \ {a} : asker[b].pc # "claim"
        \/ E!Goto(a, "release") /\ record' = record
    BY <2>1, <2>3 DEF E!BreaksOff, E!OthersPastSearch
  <2>5. /\ asker'[a].pc \in {"finish", "release"} /\ asker'[a].p = asker[a].p
        /\ \A b \in Asker \ {a} : asker'[b] = asker[b]
    <3>1. i \in Nat
      BY DEF E!Record
    <3>2. CASE asker' = [asker EXCEPT ![a].pc = "finish", ![a].got = i]
      BY <2>2, <3>1, <3>2, AskerAfter
    <3>3. CASE E!Goto(a, "release")
      BY <2>2, <3>3, AskerAfter
    <3> QED BY <2>4, <3>2, <3>3
  <2>6. \A b \in Asker : Holds(b)'
    BY <1>1, <2>2, <2>3, <2>5 DEF Holds
  <2>7. CASE record' = record
    <3>1. CASE asker'[a].pc = "release"
      BY <1>3, <2>2, <2>3, <2>5, <2>6, <2>7, <3>1
    <3>2. CASE asker'[a].pc = "finish"
      BY <1>3, <2>2, <2>3, <2>5, <2>6, <2>7, <3>2
    <3> QED BY <2>5, <3>1, <3>2
  <2>8. CASE record' = [record EXCEPT ![i] = "there"] /\ record' # record
    <3>1. record \in [E!Record -> {"none", "wire", "there"}]
      BY EntityType
    <3>2. /\ i \notin E!Made /\ E!Made' = E!Made \union {i}
          /\ E!There' = E!There \union {i}
      BY <2>1, <2>8, <3>1 DEF E!Made, E!There
    <3>3. \/ asker'[a].pc = "finish"
          \/ asker'[a].pc = "release" /\ \A b \in Asker \ {a} : asker[b].pc # "claim"
      <4>1. CASE asker' = [asker EXCEPT ![a].pc = "finish", ![a].got = i]
        <5>1. i \in Nat
          BY DEF E!Record
        <5> QED BY <2>2, <4>1, <5>1, AskerAfter
      <4>2. CASE E!Goto(a, "release")
        BY <2>2, <2>4, <2>8, <4>1, <4>2, AskerAfter
      <4> QED BY <2>4, <4>1, <4>2
    <3>4. PICK row \in [E!Made -> Party] : E!OfOwnRow(row)
      BY <1>1, <2>3
    <3>5. \E new \in [E!Made' -> Party] : E!OfOwnRow(new)'
      BY <1>1, <2>2, <2>3, <2>5, <3>2, <3>3, <3>4, RowsGetOwn
    <3> QED BY <1>1, <2>3, <2>6, <3>2, <3>5 DEF Kept
  <2> QED BY <2>4, <2>7, <2>8
<1>9. ASSUME NEW a \in Asker, E!Finish(a) PROVE Kept'
  <2> DEFINE p == asker[a].p
  <2>1. asker[a].pc = "finish" /\ record' = record
    BY <1>9 DEF E!Finish
  <2>2. ~loose
    BY <1>9 DEF E!Finish, E!BreaksOff
  <2>3. p \in Party /\ asker[a].got # 0 /\ party[p].owner = a
    <3>1. asker[a] \in Asking
      BY <2>1, AskerAfter
    <3>2. asker[a].got \in 1 .. MaxRecords
      BY <2>1 DEF EntityType2, E!Record
    <3>3. party[p].owner = a
      BY <1>1, <2>1, <2>2 DEF Holds
    <3> QED BY <3>1, <3>2, <3>3, AskerFaults DEF Asking
  <2>4. CASE /\ party' = [party EXCEPT ![p] = [id |-> asker[a].got, owner |-> E!Nobody,
                                               leased |-> FALSE]]
             /\ E!Stop(a)
    <3>1. asker'[a].pc = "idle" /\ \A b \in Asker \ {a} : asker'[b] = asker[b]
      BY <2>4, AskerAfter
    <3>2. party'[p].id # 0 /\ \A q \in Party \ {p} : party'[q] = party[q]
      BY <1>2, <2>3, <2>4
    <3>3. \A b \in Asker \ {a} : asker[b].pc \in {"create", "finish"} =>
             asker[b].p \in Party \ {p}
      BY <1>1, <2>1, <2>2, OneCreates, AskerAfter DEF Asking
    <3>4. \A b \in Asker : Holds(b)'
      BY <1>1, <2>2, <3>1, <3>2, <3>3 DEF Holds
    <3> QED BY <1>3, <2>1, <2>2, <3>1, <3>2, <3>4
  <2>5. CASE E!BreaksOff(a) /\ E!Goto(a, "release") /\ party' = party
    <3>1. asker'[a].pc = "release" /\ \A b \in Asker \ {a} : asker'[b] = asker[b]
      BY <2>1, <2>5, AskerAfter
    <3>2. \A b \in Asker : asker'[b].pc # "claim"
      BY <2>5, <3>1 DEF E!BreaksOff, E!OthersPastSearch
    <3>3. \A b \in Asker : Holds(b)'
      BY <1>1, <2>2, <2>5, <3>1 DEF Holds
    <3> QED BY <1>3, <2>1, <2>2, <2>5, <3>1, <3>2, <3>3
  <2> QED BY <1>9, <2>3, <2>4, <2>5 DEF E!Finish
<1>10. ASSUME NEW a \in Asker, E!Release(a) PROVE Kept'
  <2> DEFINE p == asker[a].p
  <2>1. /\ asker[a].pc = "release" /\ record' = record /\ ~loose /\ E!Stop(a) /\ p \in Party
        /\ \/ /\ party[p].owner = a
              /\ party' = [party EXCEPT ![p].owner = E!Nobody, ![p].leased = FALSE]
           \/ party' = party
    BY <1>10, AskerAfter DEF E!Release, Asking
  <2>2. asker'[a].pc = "idle" /\ \A b \in Asker \ {a} : asker'[b] = asker[b]
    BY <2>1, AskerAfter
  <2>3. \A q \in Party : party'[q].id = party[q].id
    BY <1>2, <2>1 DEF PartyRow
  <2>4. ASSUME NEW b \in Asker PROVE Holds(b)'
    <3>1. CASE b = a
      BY <2>2, <3>1 DEF Holds
    <3>2. CASE b # a /\ asker[b].pc \in {"create", "finish"}
      <4>1. party[asker[b].p].owner = b /\ party[asker[b].p].leased /\ asker[b].p \in Party
        BY <1>1, <2>1, <3>2, AskerAfter DEF Holds, Asking
      <4>2. party'[asker[b].p] = party[asker[b].p]
        BY <1>2, <2>1, <3>2, <4>1
      <4> QED BY <2>2, <3>2, <4>1, <4>2 DEF Holds
    <3>3. CASE b # a /\ asker[b].pc \notin {"create", "finish"}
      BY <2>2, <3>3 DEF Holds
    <3> QED BY <3>1, <3>2, <3>3
  <2> QED BY <1>3, <2>1, <2>2, <2>3, <2>4
<1>11. ASSUME NEW a \in Asker, E!Crash(a) PROVE Kept'
  <2>1. /\ record' = record /\ party' = party /\ E!Stop(a) /\ ~loose
        /\ asker[a].pc = "finish" => E!BreaksOff(a)
    BY <1>11 DEF E!Crash, E!BreaksOff
  <2>2. asker'[a].pc = "idle" /\ \A b \in Asker \ {a} : asker'[b] = asker[b]
    BY <2>1, AskerAfter
  <2>3. asker[a].pc = "finish" => \A b \in Asker : asker'[b].pc # "claim"
    BY <2>1, <2>2 DEF E!BreaksOff, E!OthersPastSearch
  <2>4. \A b \in Asker : Holds(b)'
    BY <1>1, <2>1, <2>2 DEF Holds
  <2> QED BY <1>3, <2>1, <2>2, <2>3, <2>4
<1>12. ASSUME NEW p \in Party, E!Expire(p) PROVE Kept'
  <2> DEFINE a == party[p].owner
  <2>1. /\ record' = record /\ asker' = asker /\ ~loose
        /\ party' = [party EXCEPT ![p].leased = FALSE]
        /\ ~(asker[a].pc \in {"create", "finish"} /\ asker[a].p = p)
    BY <1>12 DEF E!Expire
  <2>2. /\ \A q \in Party : party'[q].id = party[q].id
        /\ \A q \in Party \ {p} : party'[q] = party[q]
    BY <1>2, <2>1 DEF PartyRow
  <2>3. ASSUME NEW b \in Asker, asker[b].pc \in {"create", "finish"}
        PROVE  asker[b].p \in Party \ {p}
    <3>1. asker[b] \in Asking
      BY <2>3, AskerAfter
    <3>2. party[asker[b].p].owner = b
      BY <1>1, <2>1, <2>3 DEF Holds
    <3> QED BY <2>1, <2>3, <3>1, <3>2 DEF Asking
  <2>4. \A b \in Asker : Holds(b)'
    BY <1>1, <2>1, <2>2, <2>3 DEF Holds
  <2> QED BY <1>3, <2>1, <2>2, <2>4
<1>13. ASSUME E!Land PROVE FALSE
  <2>1. ~loose /\ \E i \in E!Record : record[i] = "wire"
    BY <1>13 DEF E!Land
  <2> QED BY <1>1, <2>1 DEF E!Made, E!There
<1>14. CASE UNCHANGED E!vars
  <2>1. UNCHANGED <<party, record, asker, loose>>
    BY <1>14 DEF E!vars
  <2>2. \A b \in Asker : Holds(b)'
    BY <1>1, <2>1 DEF Holds
  <2> QED BY <1>3, <2>1, <2>2
<1> QED
  BY <1>4, <1>5, <1>6, <1>7, <1>8, <1>9, <1>10, <1>11, <1>12, <1>13, <1>14 DEF E!Next

LEMMA RecordStart == E!Init => E!RecordInv
<1> SUFFICES ASSUME E!Init PROVE E!RecordInv
  OBVIOUS
<1>1. E!TypeOK
  <2>1. party \in [Party -> PartyRow]
    BY DEF E!Init, PartyRow
  <2> QED BY <2>1, EntityType, AskerFaults DEF E!Init
<1>2. \A a \in Asker : asker[a].pc = "idle"
  BY DEF E!Init, E!Idle
<1>3. E!Made = {} /\ E!There = {}
  BY DEF E!Init, E!Made, E!There
<1> DEFINE row == [i \in {} |-> i]
<1>4. row \in [{} -> Party]
  OBVIOUS
<1> HIDE DEF row
<1>5. row \in [E!Made -> Party] /\ E!OfOwnRow(row)
  BY <1>3, <1>4 DEF E!OfOwnRow
<1> QED BY <1>1, <1>2, <1>3, <1>5, RecordParts DEF EntityType2, Kept, Holds

\* Records with rows of their own are no more than the rows.
LEMMA RecordImplies == E!RecordInv => E!OneRecord
<1> SUFFICES ASSUME E!RecordInv, ~loose
             PROVE  E!Cardinality(E!Made) <= E!Cardinality(Party)
  BY DEF E!OneRecord
<1>1. \A S : E!Cardinality(S) = Cardinality(S)
  BY DEF E!Cardinality, Cardinality
<1>2. PICK row \in [E!Made -> Party] : E!OfOwnRow(row)
  BY RecordParts DEF Kept
<1>3. IsFiniteSet(E!Made)
  <2>1. MaxRecords \in Nat /\ E!Made \subseteq 1 .. MaxRecords
    BY AskerFaults DEF E!Made, E!Record
  <2>2. IsFiniteSet(1 .. MaxRecords)
    BY <2>1, FS_Interval
  <2> QED BY <2>1, <2>2, FS_Subset
<1>4. ASSUME Cardinality(Party) < Cardinality(E!Made) PROVE FALSE
  <2>1. \E i, j \in E!Made : i # j /\ row[i] = row[j]
    BY <1>2, <1>3, <1>4, PartyFinite, FS_PigeonHole
  <2> QED BY <1>2, <2>1 DEF E!OfOwnRow
<1>5. Cardinality(Party) \in Nat /\ Cardinality(E!Made) \in Nat
  BY <1>3, PartyFinite, FS_CardinalityType
<1> QED BY <1>1, <1>4, <1>5

\* However many requests search before they hold a lease, and whatever of them
\* fails: unless a creation broke off while others had searched already, was still
\* on its way or outlived its lease, there are no more records than rows.
THEOREM RecordSafe == E!Spec => []E!OneRecord
<1> QED BY RecordStart, RecordInductive, RecordImplies, PTL DEF E!Spec

\* The same of the run's specification.
THEOREM NoSecondRecord == Spec => []OneRecord
<1>1. Init => E!RecordInv
  BY RecordStart DEF Init
<1>2. [Next]_vars => [E!Next]_(E!vars)
  BY DEF Next, vars, Token, Entity, Mail, entityVars, E!vars
<1>3. E!RecordInv => OneRecord
  BY RecordImplies DEF OneRecord
<1> QED BY <1>1, <1>2, <1>3, RecordInductive, PTL DEF Spec
-----------------------------------------------------------------------------
(* MailOutbox: a completed notification has reached everybody it could, and *)
(* the log keeps the furthest report.                                      *)

LogRow == [status : {"none", "pending", "sent", "failed"}, delivery : M!Delivery,
           id : BOOLEAN, body : BOOLEAN]
Reporting == {"none", "matched", "suppress", "handled", "lost"}
Active == {"next", "send", "write", "accept"}

\* What MailInv says beyond the types, in named parts.
SentIsAccepted == \A u \in User : log[u].status = "sent" => u \in accepted
SuppressedIsReached == \A u \in User : log[u].delivery = "suppressed" => M!Reached(u)
ReportsAreOfMail ==
    \A n \in Reported \X Reports :
        hook[n] \in {"matched", "suppress", "handled"} => n[1] \in accepted
Heard(a) ==
    job[a].pc = "accept" \/ (job[a].pc = "write" /\ job[a].ok) => job[a].u \in accepted
RunReaches ==
    job["worker"].pc \in Active /\ ~job["worker"].failed =>
        \A u \in User \ job["worker"].todo : M!Reached(u)

LEMMA MailParts ==
    M!MailInv <=> /\ M!TypeOK /\ SentIsAccepted /\ SuppressedIsReached
                  /\ ReportsAreOfMail /\ Heard("worker") /\ Heard("hand") /\ RunReaches
                  /\ M!CompletedIsTrue /\ M!NewsKept
  BY DEF M!MailInv, M!Actor, SentIsAccepted, SuppressedIsReached, ReportsAreOfMail, Heard,
         RunReaches, Active

LEMMA MailPartsNext ==
    M!MailInv' <=> /\ M!TypeOK' /\ SentIsAccepted' /\ SuppressedIsReached'
                   /\ ReportsAreOfMail' /\ Heard("worker")' /\ Heard("hand")' /\ RunReaches'
                   /\ M!CompletedIsTrue' /\ M!NewsKept'
  BY DEF M!MailInv, M!Actor, SentIsAccepted, SuppressedIsReached, ReportsAreOfMail, Heard,
         RunReaches, Active

LEMMA MailType ==
    M!TypeOK <=> /\ event \in [status : {"queued", "processing", "waiting_config", "failed",
                                         "completed"}, attempts : Nat]
                 /\ log \in [User -> LogRow]
                 /\ accepted \subseteq User
                 /\ hook \in [Reported \X Reports -> Reporting]
                 /\ suppression \in [User -> {"none", "active", "resolved"}]
                 /\ job \in [M!Actor -> {M!Idle} \union M!Worker \union M!Hand]
                 /\ job["worker"] \in {M!Idle} \union M!Worker
                 /\ job["hand"] \in {M!Idle} \union M!Hand
                 /\ configured \in BOOLEAN /\ mailFaults \in Nat
  BY DEF M!TypeOK, LogRow, Reporting

LEMMA MailTypeNext ==
    M!TypeOK' <=> /\ event' \in [status : {"queued", "processing", "waiting_config", "failed",
                                           "completed"}, attempts : Nat]
                  /\ log' \in [User -> LogRow]
                  /\ accepted' \subseteq User
                  /\ hook' \in [Reported \X Reports -> Reporting]
                  /\ suppression' \in [User -> {"none", "active", "resolved"}]
                  /\ job' \in [M!Actor -> {M!Idle} \union M!Worker \union M!Hand]
                  /\ job'["worker"] \in {M!Idle} \union M!Worker
                  /\ job'["hand"] \in {M!Idle} \union M!Hand
                  /\ configured' \in BOOLEAN /\ mailFaults' \in Nat
  BY DEF M!TypeOK, LogRow, Reporting

\* The ranks order the states of a delivery, and the further one is kept.
LEMMA RankType == \A d \in M!Delivery : M!Rank(d) \in 0 .. 6
  BY DEF M!Delivery, M!Rank

LEMMA FurthestKeeps ==
    ASSUME NEW old \in M!Delivery, NEW new \in M!Delivery
    PROVE  /\ M!Furthest(old, new) \in {old, new}
           /\ M!Rank(M!Furthest(old, new)) >= M!Rank(old)
           /\ M!Rank(M!Furthest(old, new)) >= M!Rank(new)
<1>1. M!Rank(old) \in Int /\ M!Rank(new) \in Int
  BY RankType
<1> QED BY <1>1 DEF M!Furthest

\* The moves of a run and of a retry by hand, by their fields.
LEMMA WorkerShape ==
    ASSUME NEW r \in M!Worker
    PROVE  /\ r.pc \in {"park", "next", "send", "write", "accept", "clear"}
           /\ r.todo \subseteq User /\ r.failed \in BOOLEAN
           /\ r.pc \in {"send", "write", "accept"} => r.u \in User /\ r.ok \in BOOLEAN
  BY DEF M!Worker

LEMMA HandShape ==
    ASSUME NEW r \in M!Hand
    PROVE  r.pc \in {"send", "write", "accept"} /\ r.u \in User /\ r.ok \in BOOLEAN
  BY DEF M!Hand

LEMMA WorkerHandles ==
    ASSUME NEW r \in M!Worker, r.pc \in Active, NEW u, NEW s,
           s = [r EXCEPT !.pc = "next", !.todo = @ \ {u}]
    PROVE  s \in M!Worker /\ s.pc = "next" /\ s.todo = r.todo \ {u} /\ s.failed = r.failed
<1>1. CASE r \in [pc : {"park", "next", "clear"}, todo : SUBSET User, failed : BOOLEAN]
  BY <1>1 DEF M!Worker
<1>2. CASE r \in [pc : {"next", "send", "write", "accept", "clear"}, u : User,
                  todo : SUBSET User, failed : BOOLEAN, ok : BOOLEAN]
  BY <1>2 DEF M!Worker
<1> QED BY <1>1, <1>2 DEF M!Worker

LEMMA WorkerGoes ==
    ASSUME NEW r \in M!Worker, r.pc \in Active, NEW s, s = [r EXCEPT !.pc = "clear"]
    PROVE  s \in M!Worker /\ s.pc = "clear"
<1>1. CASE r \in [pc : {"park", "next", "clear"}, todo : SUBSET User, failed : BOOLEAN]
  BY <1>1 DEF M!Worker
<1>2. CASE r \in [pc : {"next", "send", "write", "accept", "clear"}, u : User,
                  todo : SUBSET User, failed : BOOLEAN, ok : BOOLEAN]
  BY <1>2 DEF M!Worker
<1> QED BY <1>1, <1>2 DEF M!Worker

LEMMA WorkerHears ==
    ASSUME NEW r \in M!Worker, NEW s, NEW ok \in BOOLEAN,
           \/ r.pc = "send" /\ s = [r EXCEPT !.pc = "write", !.ok = ok]
           \/ r.pc = "write" /\ s = [r EXCEPT !.pc = "accept"]
    PROVE  /\ s \in M!Worker /\ s.u = r.u /\ s.todo = r.todo /\ s.failed = r.failed
           /\ r.pc = "send" => s.pc = "write" /\ s.ok = ok
           /\ r.pc = "write" => s.pc = "accept"
  BY DEF M!Worker

LEMMA HandHears ==
    ASSUME NEW r \in M!Hand, NEW s, NEW ok \in BOOLEAN,
           \/ r.pc = "send" /\ s = [r EXCEPT !.pc = "write", !.ok = ok]
           \/ r.pc = "write" /\ s = [r EXCEPT !.pc = "accept"]
    PROVE  /\ s \in M!Hand /\ s.u = r.u
           /\ r.pc = "send" => s.pc = "write" /\ s.ok = ok
           /\ r.pc = "write" => s.pc = "accept"
  BY DEF M!Hand

\* What a step leaves alone keeps its part of the invariant: mail is not taken back,
\* and no address returns to never having been suppressed.
LEMMA MailRests ==
    ASSUME M!MailInv, M!TypeOK', accepted \subseteq accepted',
           \A u \in User : suppression[u] # "none" => suppression'[u] # "none"
    PROVE  /\ \A u \in User : M!Reached(u) => M!Reached(u)'
           /\ log' = log => SentIsAccepted' /\ SuppressedIsReached'
           /\ log' = log /\ hook' = hook => M!NewsKept'
           /\ hook' = hook => ReportsAreOfMail'
           /\ job'["worker"] = job["worker"] => Heard("worker")' /\ RunReaches'
           /\ job'["hand"] = job["hand"] => Heard("hand")'
           /\ event'.status \in {event.status, "queued", "processing", "waiting_config",
                                 "failed"} => M!CompletedIsTrue'
           /\ \A a \in M!Actor : job'[a].pc \notin {"write", "accept"} => Heard(a)'
           /\ job'["worker"].pc \notin Active => RunReaches'
<1>1. \A u \in User : M!Reached(u) => M!Reached(u)'
  BY DEF M!Reached
<1>2. /\ SentIsAccepted /\ SuppressedIsReached
      /\ ReportsAreOfMail /\ Heard("worker") /\ Heard("hand") /\ RunReaches
      /\ M!CompletedIsTrue /\ M!NewsKept
  BY MailParts
<1>3. log' = log => SentIsAccepted' /\ SuppressedIsReached'
  BY <1>1, <1>2 DEF SentIsAccepted, SuppressedIsReached
<1>4. log' = log /\ hook' = hook => M!NewsKept'
  BY <1>2 DEF M!NewsKept
<1>5. hook' = hook => ReportsAreOfMail'
  BY <1>2 DEF ReportsAreOfMail
<1>6. job'["worker"] = job["worker"] => Heard("worker")' /\ RunReaches'
  BY <1>1, <1>2 DEF Heard, RunReaches
<1>7. job'["hand"] = job["hand"] => Heard("hand")'
  BY <1>2 DEF Heard
<1>8. event'.status \in {event.status, "queued", "processing", "waiting_config", "failed"}
         => M!CompletedIsTrue'
  BY <1>1, <1>2 DEF M!CompletedIsTrue, M!Reached
<1>9. \A a \in M!Actor : job'[a].pc \notin {"write", "accept"} => Heard(a)'
  BY DEF Heard
<1>10. job'["worker"].pc \notin Active => RunReaches'
  BY DEF RunReaches
<1> QED BY <1>1, <1>3, <1>4, <1>5, <1>6, <1>7, <1>8, <1>9, <1>10

\* What becomes of the jobs when one of them moves.
LEMMA WorkerMoves ==
    ASSUME M!TypeOK, NEW s, job' = [job EXCEPT !["worker"] = s]
    PROVE  /\ job'["worker"] = s /\ job'["hand"] = job["hand"]
           /\ s \in {M!Idle} \union M!Worker =>
                 /\ job' \in [M!Actor -> {M!Idle} \union M!Worker \union M!Hand]
                 /\ job'["worker"] \in {M!Idle} \union M!Worker
                 /\ job'["hand"] \in {M!Idle} \union M!Hand
  BY MailType DEF M!Actor

LEMMA HandMoves ==
    ASSUME M!TypeOK, NEW s, job' = [job EXCEPT !["hand"] = s]
    PROVE  /\ job'["hand"] = s /\ job'["worker"] = job["worker"]
           /\ s \in {M!Idle} \union M!Hand =>
                 /\ job' \in [M!Actor -> {M!Idle} \union M!Worker \union M!Hand]
                 /\ job'["worker"] \in {M!Idle} \union M!Worker
                 /\ job'["hand"] \in {M!Idle} \union M!Hand
  BY MailType DEF M!Actor

LEMMA WorkerIsBusy ==
    ASSUME M!TypeOK, job["worker"].pc # "idle"
    PROVE  job["worker"] \in M!Worker
  BY MailType DEF M!Idle

LEMMA HandIsBusy ==
    ASSUME M!TypeOK, job["hand"].pc # "idle"
    PROVE  job["hand"] \in M!Hand
  BY MailType DEF M!Idle

\* A run that handles a recipient goes on to the next.
LEMMA HandledMoves ==
    ASSUME M!TypeOK, NEW u, job["worker"].pc \in Active, M!Handled(u)
    PROVE  /\ job'["worker"] \in M!Worker /\ job'["worker"].pc = "next"
           /\ job'["worker"].todo = job["worker"].todo \ {u}
           /\ job'["worker"].failed = job["worker"].failed
           /\ job'["hand"] = job["hand"]
           /\ job' \in [M!Actor -> {M!Idle} \union M!Worker \union M!Hand]
           /\ job'["hand"] \in {M!Idle} \union M!Hand
<1> DEFINE s == [job["worker"] EXCEPT !.pc = "next", !.todo = @ \ {u}]
<1>1. job["worker"] \in M!Worker
  BY WorkerIsBusy DEF Active
<1>2. job' = [job EXCEPT !["worker"] = s]
  BY DEF M!Handled
<1>3. /\ s \in M!Worker /\ s.pc = "next"
      /\ s.todo = job["worker"].todo \ {u} /\ s.failed = job["worker"].failed
  BY <1>1, WorkerHandles
<1> HIDE DEF s
<1> QED BY <1>2, <1>3, WorkerMoves

\* The run ends idle or goes on to clear the bodies.
LEMMA FailRunMoves ==
    ASSUME M!TypeOK, job["worker"].pc \in Active, M!FailRun
    PROVE  /\ job'["worker"].pc \in {"idle", "clear"} /\ job'["hand"] = job["hand"]
           /\ job' \in [M!Actor -> {M!Idle} \union M!Worker \union M!Hand]
           /\ job'["worker"] \in {M!Idle} \union M!Worker
           /\ job'["hand"] \in {M!Idle} \union M!Hand
           /\ event'.status = "failed"
           /\ event' \in [status : {"queued", "processing", "waiting_config", "failed",
                                    "completed"}, attempts : Nat]
<1> DEFINE s == [job["worker"] EXCEPT !.pc = "clear"]
<1>1. job["worker"] \in M!Worker
  BY WorkerIsBusy DEF Active
<1>2. s \in M!Worker /\ s.pc = "clear"
  BY <1>1, WorkerGoes
<1>3. /\ event' = [status |-> "failed", attempts |-> event.attempts + 1]
      /\ M!Stop("worker") \/ M!Goto("worker", "clear")
  BY DEF M!FailRun
<1>4. /\ event'.status = "failed"
      /\ event' \in [status : {"queued", "processing", "waiting_config", "failed",
                               "completed"}, attempts : Nat]
  BY <1>3, MailType
<1>5. M!Idle.pc = "idle"
  BY DEF M!Idle
<1>6. CASE M!Stop("worker")
  <2>1. job' = [job EXCEPT !["worker"] = M!Idle]
    BY <1>6 DEF M!Stop
  <2> QED BY <1>4, <1>5, <2>1, WorkerMoves
<1>7. CASE M!Goto("worker", "clear")
  <2>1. job' = [job EXCEPT !["worker"] = s]
    BY <1>7 DEF M!Goto
  <2> HIDE DEF s
  <2> QED BY <1>2, <1>4, <2>1, WorkerMoves
<1> QED BY <1>3, <1>6, <1>7

\* The steps of a run, one by one.
LEMMA ClaimKeeps == M!MailInv /\ M!Claim => M!MailInv'
<1> SUFFICES ASSUME M!MailInv, M!Claim PROVE M!MailInv'
  OBVIOUS
<1> DEFINE s == [pc |-> IF configured THEN "next" ELSE "park", todo |-> User, failed |-> FALSE]
<1>1. M!TypeOK /\ UNCHANGED <<log, accepted, hook, suppression, configured, mailFaults>>
  BY MailParts DEF M!Claim
<1>2. event' = [event EXCEPT !.status = "processing"] /\ job' = [job EXCEPT !["worker"] = s]
  BY DEF M!Claim
<1>3. s \in M!Worker /\ s.pc \in {"next", "park"} /\ s.todo = User
  BY DEF M!Worker
<1> HIDE DEF s
<1>4. /\ event' \in [status : {"queued", "processing", "waiting_config", "failed",
                               "completed"}, attempts : Nat]
      /\ event'.status = "processing"
  BY <1>1, <1>2, MailType
<1>5. M!TypeOK'
  BY <1>1, <1>2, <1>3, <1>4, MailType, MailTypeNext, WorkerMoves
<1>6. job'["worker"] = s /\ job'["hand"] = job["hand"]
  BY <1>1, <1>2, WorkerMoves
<1>7. RunReaches'
  BY <1>3, <1>6 DEF RunReaches
<1>8. Heard("worker")' /\ Heard("hand")'
  BY <1>1, <1>3, <1>5, <1>6, MailRests DEF M!Actor
<1> QED BY <1>1, <1>4, <1>5, <1>7, <1>8, MailRests, MailPartsNext

\* A step of the worker that ends its run, or has nothing to do with recipients.
LEMMA EndKeeps ==
    ASSUME M!MailInv, UNCHANGED <<log, accepted, hook, suppression>>,
           event' \in [status : {"queued", "processing", "waiting_config", "failed",
                                 "completed"}, attempts : Nat],
           job' \in [M!Actor -> {M!Idle} \union M!Worker \union M!Hand],
           job'["worker"] \in {M!Idle} \union M!Worker,
           job'["worker"].pc \in {"idle", "clear"}, job'["hand"] = job["hand"],
           configured' = configured, mailFaults' \in Nat,
           \/ event'.status \in {event.status, "queued", "processing", "waiting_config", "failed"}
           \/ \A u \in User : M!Reached(u)
    PROVE  M!MailInv'
<1>1. M!TypeOK' /\ M!TypeOK
  BY MailType, MailTypeNext, MailParts
<1>2. Heard("worker")' /\ Heard("hand")' /\ RunReaches'
  BY <1>1, MailRests DEF M!Actor, Active
<1>3. M!CompletedIsTrue'
  BY <1>1, MailRests DEF M!CompletedIsTrue, M!Reached
<1> QED BY <1>1, <1>2, <1>3, MailRests, MailPartsNext

LEMMA StopsIdle ==
    ASSUME M!TypeOK, M!Stop("worker")
    PROVE  /\ job' \in [M!Actor -> {M!Idle} \union M!Worker \union M!Hand]
           /\ job'["worker"] \in {M!Idle} \union M!Worker
           /\ job'["worker"].pc = "idle" /\ job'["hand"] = job["hand"]
<1>1. M!Idle.pc = "idle"
  BY DEF M!Idle
<1>2. job' = [job EXCEPT !["worker"] = M!Idle]
  BY DEF M!Stop
<1> QED BY <1>1, <1>2, WorkerMoves

LEMMA ParkKeeps == M!MailInv /\ M!Park => M!MailInv'
<1> SUFFICES ASSUME M!MailInv, M!Park PROVE M!MailInv'
  OBVIOUS
<1>1. /\ M!TypeOK /\ M!Stop("worker") /\ event' = [event EXCEPT !.status = "waiting_config"]
      /\ UNCHANGED <<log, accepted, hook, suppression, configured, mailFaults>>
  BY MailParts DEF M!Park
<1>2. /\ event' \in [status : {"queued", "processing", "waiting_config", "failed",
                               "completed"}, attempts : Nat]
      /\ event'.status = "waiting_config" /\ mailFaults \in Nat
  BY <1>1, MailType
<1> QED BY <1>1, <1>2, EndKeeps, StopsIdle

LEMMA FinalizeKeeps == M!MailInv /\ M!Finalize => M!MailInv'
<1> SUFFICES ASSUME M!MailInv, M!Finalize PROVE M!MailInv'
  OBVIOUS
<1>1. /\ M!TypeOK /\ RunReaches /\ mailFaults \in Nat
      /\ job["worker"].pc = "next" /\ job["worker"].todo = {}
      /\ UNCHANGED <<log, accepted, hook, suppression, configured, mailFaults>>
      /\ job["worker"].pc \in Active
  BY MailParts, MailType DEF M!Finalize, Active
<1>2. CASE M!FailRun
  BY <1>1, <1>2, FailRunMoves, EndKeeps
<1>3. CASE ~job["worker"].failed /\ event' = [event EXCEPT !.status = "completed"]
           /\ M!Stop("worker")
  <2>1. \A u \in User : M!Reached(u)
    BY <1>1, <1>3 DEF RunReaches
  <2>2. event' \in [status : {"queued", "processing", "waiting_config", "failed",
                              "completed"}, attempts : Nat]
    BY <1>1, <1>3, MailType
  <2> QED BY <1>1, <1>3, <2>1, <2>2, EndKeeps, StopsIdle
<1> QED BY <1>2, <1>3 DEF M!Finalize

LEMMA ThrowsKeeps == M!MailInv /\ M!Throws => M!MailInv'
<1> SUFFICES ASSUME M!MailInv, M!Throws PROVE M!MailInv'
  OBVIOUS
<1>1. /\ M!TypeOK /\ mailFaults' \in Nat /\ M!FailRun
      /\ job["worker"].pc \in Active
      /\ UNCHANGED <<log, accepted, hook, suppression, configured>>
  BY MailParts, MailType DEF M!Throws, M!Spend, Active
<1> QED BY <1>1, FailRunMoves, EndKeeps

\* A change to one row of the log keeps what the log says, if the new row is right
\* and its delivery no less far.
LEMMA LogChanges ==
    ASSUME M!MailInv, NEW u \in User, NEW row \in LogRow, log' = [log EXCEPT ![u] = row]
    PROVE  /\ log' \in [User -> LogRow] /\ log'[u] = row
           /\ \A v \in User \ {u} : log'[v] = log[v]
           /\ /\ accepted \subseteq accepted'
              /\ \A v \in User : suppression[v] # "none" => suppression'[v] # "none"
              /\ row.status = "sent" => u \in accepted'
              /\ row.delivery = "suppressed" => M!Reached(u)'
              => SentIsAccepted' /\ SuppressedIsReached'
           /\ /\ hook' = hook
              /\ M!Rank(row.delivery) >= M!Rank(log[u].delivery)
              => M!NewsKept'
<1>1. M!TypeOK /\ SentIsAccepted /\ SuppressedIsReached /\ M!NewsKept /\ log \in [User -> LogRow]
  BY MailParts, MailType
<1>2. /\ log' \in [User -> LogRow] /\ log'[u] = row
      /\ \A v \in User \ {u} : log'[v] = log[v]
  BY <1>1
<1>3. ASSUME accepted \subseteq accepted',
             \A v \in User : suppression[v] # "none" => suppression'[v] # "none",
             row.status = "sent" => u \in accepted',
             row.delivery = "suppressed" => M!Reached(u)'
      PROVE  SentIsAccepted' /\ SuppressedIsReached'
  <2>1. SentIsAccepted'
    BY <1>1, <1>2, <1>3 DEF SentIsAccepted
  <2>2. \A v \in User : M!Reached(v) => M!Reached(v)'
    BY <1>3 DEF M!Reached
  <2>3. SuppressedIsReached'
    BY <1>1, <1>2, <1>3, <2>2 DEF SuppressedIsReached
  <2> QED BY <2>1, <2>3
<1>4. ASSUME hook' = hook, M!Rank(row.delivery) >= M!Rank(log[u].delivery)
      PROVE  M!NewsKept'
  <2> SUFFICES ASSUME NEW n \in Reported \X Reports, hook[n] \in {"suppress", "handled"}
               PROVE  M!Rank(log'[n[1]].delivery) >= M!Rank(n[2])
    BY <1>4 DEF M!NewsKept
  <2>1. M!Rank(log[n[1]].delivery) >= M!Rank(n[2]) /\ n[1] \in User /\ n[2] \in M!Delivery
    BY <1>1, ReportsOK DEF M!NewsKept, M!Delivery
  <2>2. /\ M!Rank(n[2]) \in Int /\ M!Rank(row.delivery) \in Int
        /\ M!Rank(log[u].delivery) \in Int
    BY <1>1, <2>1, RankType DEF LogRow
  <2> QED BY <1>2, <1>4, <2>1, <2>2
<1> QED BY <1>2, <1>3, <1>4

\* The worker goes on with as many recipients behind it as before, or one more who
\* is reached, or with a failure.
LEMMA RunGoesOn ==
    ASSUME M!MailInv, NEW u, \A v \in User : M!Reached(v) => M!Reached(v)',
           job["worker"].pc \in Active,
           \/ job'["worker"].todo = job["worker"].todo
           \/ job'["worker"].todo = job["worker"].todo \ {u} /\ M!Reached(u)',
           job'["worker"].failed = job["worker"].failed
    PROVE  RunReaches'
<1>1. RunReaches
  BY MailParts
<1> QED BY <1>1 DEF RunReaches

LEMMA ClearBodiesKeeps == M!MailInv /\ M!ClearBodies => M!MailInv'
<1> SUFFICES ASSUME M!MailInv, M!ClearBodies PROVE M!MailInv'
  OBVIOUS
<1>1. /\ M!TypeOK /\ M!Stop("worker")
      /\ log' = [u \in User |-> [log[u] EXCEPT !.body = FALSE]]
      /\ UNCHANGED <<event, accepted, hook, suppression, configured, mailFaults>>
      /\ SentIsAccepted /\ SuppressedIsReached /\ M!NewsKept
  BY MailParts DEF M!ClearBodies
<1>2. /\ log' \in [User -> LogRow]
      /\ \A u \in User : log'[u].status = log[u].status /\ log'[u].delivery = log[u].delivery
  <2>1. log \in [User -> LogRow]
    BY <1>1, MailType
  <2> QED BY <1>1, <2>1 DEF LogRow
<1>3. M!TypeOK'
  BY <1>1, <1>2, StopsIdle, MailType, MailTypeNext
<1>4. SentIsAccepted' /\ SuppressedIsReached'
  <2>1. SentIsAccepted'
    BY <1>1, <1>2 DEF SentIsAccepted
  <2>2. SuppressedIsReached'
    BY <1>1, <1>2 DEF SuppressedIsReached, M!Reached
  <2> QED BY <2>1, <2>2
<1>5. M!NewsKept'
  BY <1>1, <1>2, ReportsOK DEF M!NewsKept
<1>6. Heard("worker")' /\ Heard("hand")' /\ RunReaches'
  BY <1>1, <1>3, StopsIdle, MailRests DEF M!Actor, Active
<1> QED BY <1>1, <1>3, <1>4, <1>5, <1>6, MailRests, MailPartsNext

LEMMA VisitKeeps == ASSUME NEW u \in User PROVE M!MailInv /\ M!Visit(u) => M!MailInv'
<1> SUFFICES ASSUME M!MailInv, M!Visit(u) PROVE M!MailInv'
  OBVIOUS
<1>1. /\ M!TypeOK /\ job["worker"].pc = "next" /\ job["worker"].pc \in Active
      /\ UNCHANGED <<event, accepted, hook, suppression, configured, mailFaults>>
      /\ SentIsAccepted /\ SuppressedIsReached
      /\ job["worker"] \in M!Worker
      /\ log \in [User -> LogRow]
  BY MailParts, MailType, WorkerIsBusy DEF M!Visit, Active, M!Idle
<1>2. \A v \in User : M!Reached(v) => M!Reached(v)'
  BY <1>1 DEF M!Reached
<1>3. ASSUME M!Handled(u), M!Reached(u), log' \in [User -> LogRow],
             SentIsAccepted' /\ SuppressedIsReached' /\ M!NewsKept'
      PROVE  M!MailInv'
  <2>1. M!TypeOK'
    BY <1>1, <1>3, HandledMoves, MailType, MailTypeNext
  <2>2. job'["worker"].pc = "next" /\ job'["hand"] = job["hand"] /\ RunReaches'
    BY <1>1, <1>2, <1>3, HandledMoves, RunGoesOn
  <2>3. Heard("worker")' /\ Heard("hand")'
    BY <1>1, <2>1, <2>2, MailRests DEF M!Actor
  <2> QED BY <1>1, <1>3, <2>1, <2>2, <2>3, MailRests, MailPartsNext
<1>4. log' = log => SentIsAccepted' /\ SuppressedIsReached' /\ M!NewsKept'
  <2>1. M!NewsKept
    BY MailParts
  <2>2. log' = log => M!NewsKept'
    BY <1>1, <2>1 DEF M!NewsKept
  <2> QED BY <1>1, <1>2, <2>2 DEF SentIsAccepted, SuppressedIsReached
<1>5. CASE (log[u].status = "sent" \/ log[u].delivery = "suppressed") /\ M!Handled(u)
           /\ log' = log
  <2>1. M!Reached(u)
    BY <1>1, <1>5 DEF SentIsAccepted, SuppressedIsReached, M!Reached
  <2> QED BY <1>1, <1>3, <1>4, <1>5, <2>1
<1>6. CASE suppression[u] = "active" /\ M!Handled(u)
           /\ log' = IF log[u].status # "none" THEN log
                     ELSE [log EXCEPT ![u].status = "failed", ![u].delivery = "suppressed"]
  <2>1. M!Reached(u) /\ M!Reached(u)'
    BY <1>1, <1>6 DEF M!Reached
  <2>2. CASE log' = log
    BY <1>1, <1>3, <1>4, <1>6, <2>1, <2>2
  <2>3. CASE log' = [log EXCEPT ![u].status = "failed", ![u].delivery = "suppressed"]
    <3> DEFINE row == [log[u] EXCEPT !.status = "failed", !.delivery = "suppressed"]
    <3>1. row \in LogRow /\ row.status = "failed" /\ row.delivery = "suppressed"
      BY <1>1 DEF LogRow, M!Delivery
    <3>2. log' = [log EXCEPT ![u] = row]
      BY <2>3
    <3> HIDE DEF row
    <3>3. M!Rank(row.delivery) >= M!Rank(log[u].delivery)
      <4>1. M!Rank("suppressed") = 6
        BY DEF M!Rank
      <4>2. M!Rank(log[u].delivery) \in 0 .. 6
        BY <1>1, RankType DEF LogRow
      <4> QED BY <3>1, <4>1, <4>2
    <3>4. /\ log' \in [User -> LogRow]
          /\ SentIsAccepted' /\ SuppressedIsReached' /\ M!NewsKept'
      BY <1>1, <2>1, <3>1, <3>2, <3>3, LogChanges
    <3> QED BY <1>3, <1>6, <2>1, <3>4
  <2> QED BY <1>6, <2>2, <2>3
<1>7. CASE /\ log' = IF log[u].status # "none" THEN log
                     ELSE [log EXCEPT ![u].status = "pending", ![u].body = TRUE]
           /\ job' = [job EXCEPT !["worker"] = [pc |-> "send", u |-> u, todo |-> @.todo,
                                                failed |-> @.failed, ok |-> FALSE]]
  <2> DEFINE s == [pc |-> "send", u |-> u, todo |-> job["worker"].todo,
                   failed |-> job["worker"].failed, ok |-> FALSE]
  <2>1. /\ s \in M!Worker /\ s.pc = "send" /\ s.todo = job["worker"].todo
        /\ s.failed = job["worker"].failed
    BY <1>1, WorkerShape DEF M!Worker
  <2>2. job' = [job EXCEPT !["worker"] = s]
    BY <1>7
  <2> HIDE DEF s
  <2>3. /\ log' \in [User -> LogRow]
        /\ SentIsAccepted' /\ SuppressedIsReached' /\ M!NewsKept'
    <3>1. CASE log' = log
      BY <1>1, <1>4, <3>1
    <3>2. CASE log' = [log EXCEPT ![u].status = "pending", ![u].body = TRUE]
      <4> DEFINE row == [log[u] EXCEPT !.status = "pending", !.body = TRUE]
      <4>1. row \in LogRow /\ row.status = "pending" /\ row.delivery = log[u].delivery
        BY <1>1 DEF LogRow
      <4>2. log' = [log EXCEPT ![u] = row]
        BY <3>2
      <4> HIDE DEF row
      <4>3. M!Rank(row.delivery) >= M!Rank(log[u].delivery)
        <5>1. M!Rank(log[u].delivery) \in Int
          BY <1>1, RankType DEF LogRow
        <5> QED BY <4>1, <5>1
      <4>4. row.delivery = "suppressed" => M!Reached(u)'
        BY <1>1, <1>2, <4>1 DEF SuppressedIsReached
      <4> QED BY <1>1, <4>1, <4>2, <4>3, <4>4, LogChanges
    <3> QED BY <1>7, <3>1, <3>2
  <2>4. M!TypeOK' /\ job'["worker"] = s /\ job'["hand"] = job["hand"]
    BY <1>1, <2>1, <2>2, <2>3, WorkerMoves, MailType, MailTypeNext
  <2>5. RunReaches'
    BY <1>1, <1>2, <2>1, <2>4, RunGoesOn
  <2>6. Heard("worker")' /\ Heard("hand")'
    BY <1>1, <2>1, <2>4, MailRests DEF M!Actor
  <2> QED BY <1>1, <2>3, <2>4, <2>5, <2>6, MailRests, MailPartsNext
<1> QED BY <1>5, <1>6, <1>7 DEF M!Visit

\* A job that moves on with the same recipient.
LEMMA SendMoves ==
    ASSUME M!TypeOK, NEW a \in M!Actor, job[a].pc = "send", NEW ok \in BOOLEAN,
           job' = [job EXCEPT ![a].pc = "write", ![a].ok = ok]
    PROVE  /\ job[a].u \in User
           /\ job'[a].pc = "write" /\ job'[a].ok = ok /\ job'[a].u = job[a].u
           /\ job' \in [M!Actor -> {M!Idle} \union M!Worker \union M!Hand]
           /\ job'["worker"] \in {M!Idle} \union M!Worker
           /\ job'["hand"] \in {M!Idle} \union M!Hand
           /\ \A b \in M!Actor \ {a} : job'[b] = job[b]
           /\ a = "worker" => /\ job'[a].todo = job[a].todo
                              /\ job'[a].failed = job[a].failed
<1>0. PICK s : s = [job[a] EXCEPT !.pc = "write", !.ok = ok]
  OBVIOUS
<1>1. job' = [job EXCEPT ![a] = s]
  BY <1>0
<1>2. CASE a = "worker"
  <2>1. job[a] \in M!Worker
    BY <1>2, WorkerIsBusy
  <2>2. /\ s \in M!Worker /\ s.u = job[a].u /\ s.todo = job[a].todo
        /\ s.failed = job[a].failed /\ s.pc = "write" /\ s.ok = ok
    BY <1>0, <2>1 DEF M!Worker
  <2>3. job[a].u \in User
    BY <2>1, WorkerShape
  <2> QED BY <1>1, <1>2, <2>2, <2>3, WorkerMoves DEF M!Actor
<1>3. CASE a = "hand"
  <2>1. job[a] \in M!Hand
    BY <1>3, HandIsBusy
  <2>2. /\ s \in M!Hand /\ s.u = job[a].u /\ s.pc = "write" /\ s.ok = ok /\ job[a].u \in User
    BY <1>0, <2>1, HandHears, HandShape
  <2> QED BY <1>1, <1>3, <2>2, HandMoves DEF M!Actor
<1> QED BY <1>2, <1>3 DEF M!Actor

LEMMA AcceptMoves ==
    ASSUME M!TypeOK, NEW a \in M!Actor, job[a].pc = "write", M!Goto(a, "accept")
    PROVE  /\ job[a].u \in User
           /\ job'[a].pc = "accept" /\ job'[a].u = job[a].u
           /\ job' \in [M!Actor -> {M!Idle} \union M!Worker \union M!Hand]
           /\ job'["worker"] \in {M!Idle} \union M!Worker
           /\ job'["hand"] \in {M!Idle} \union M!Hand
           /\ \A b \in M!Actor \ {a} : job'[b] = job[b]
           /\ a = "worker" => /\ job'[a].todo = job[a].todo
                              /\ job'[a].failed = job[a].failed
<1> DEFINE s == [job[a] EXCEPT !.pc = "accept"]
<1>1. job' = [job EXCEPT ![a] = s]
  BY DEF M!Goto
<1>2. CASE a = "worker"
  <2>1. job[a] \in M!Worker
    BY <1>2, WorkerIsBusy
  <2>2. /\ s \in M!Worker /\ s.u = job[a].u /\ s.todo = job[a].todo
        /\ s.failed = job[a].failed /\ s.pc = "accept" /\ job[a].u \in User
    BY <2>1, WorkerHears, WorkerShape
  <2> HIDE DEF s
  <2> QED BY <1>1, <1>2, <2>2, WorkerMoves DEF M!Actor
<1>3. CASE a = "hand"
  <2>1. job[a] \in M!Hand
    BY <1>3, HandIsBusy
  <2>2. /\ s \in M!Hand /\ s.u = job[a].u /\ s.pc = "accept" /\ job[a].u \in User
    BY <2>1, HandHears, HandShape
  <2> HIDE DEF s
  <2> QED BY <1>1, <1>3, <2>2, HandMoves DEF M!Actor
<1> QED BY <1>2, <1>3 DEF M!Actor

LEMMA HandStops ==
    ASSUME M!TypeOK, M!Stop("hand")
    PROVE  /\ job' \in [M!Actor -> {M!Idle} \union M!Worker \union M!Hand]
           /\ job'["hand"] \in {M!Idle} \union M!Hand
           /\ job'["hand"].pc = "idle" /\ job'["worker"] = job["worker"]
           /\ job'["worker"] \in {M!Idle} \union M!Worker
<1>1. M!Idle.pc = "idle"
  BY DEF M!Idle
<1>2. job' = [job EXCEPT !["hand"] = M!Idle]
  BY DEF M!Stop
<1> QED BY <1>1, <1>2, HandMoves

LEMMA SendKeeps == ASSUME NEW a \in M!Actor PROVE M!MailInv /\ M!Send(a) => M!MailInv'
<1> SUFFICES ASSUME M!MailInv, M!Send(a) PROVE M!MailInv'
  OBVIOUS
<1> DEFINE u == job[a].u
<1>1. /\ M!TypeOK /\ job[a].pc = "send" /\ UNCHANGED <<event, log, hook, suppression, configured>>
      /\ mailFaults \in Nat /\ accepted \subseteq User
  BY MailParts, MailType DEF M!Send
<1>2. PICK ok \in BOOLEAN, taken \in BOOLEAN :
         /\ ok => taken
         /\ accepted' = IF taken THEN accepted \union {u} ELSE accepted
         /\ IF taken /\ ~ok THEN M!Spend ELSE UNCHANGED mailFaults
         /\ job' = [job EXCEPT ![a].pc = "write", ![a].ok = ok]
  BY DEF M!Send
<1>3. /\ u \in User
      /\ job'[a].pc = "write" /\ job'[a].ok = ok /\ job'[a].u = u
      /\ job' \in [M!Actor -> {M!Idle} \union M!Worker \union M!Hand]
      /\ job'["worker"] \in {M!Idle} \union M!Worker
      /\ job'["hand"] \in {M!Idle} \union M!Hand
      /\ \A b \in M!Actor \ {a} : job'[b] = job[b]
      /\ a = "worker" => job'[a].todo = job[a].todo /\ job'[a].failed = job[a].failed
  BY <1>1, <1>2, SendMoves
<1>4. mailFaults' \in Nat
  BY <1>1, <1>2 DEF M!Spend
<1>5. accepted \subseteq accepted' /\ accepted' \subseteq User /\ (ok => u \in accepted')
  BY <1>1, <1>2, <1>3
<1>6. M!TypeOK'
  BY <1>1, <1>3, <1>4, <1>5, MailType, MailTypeNext
<1>7. Heard(a)'
  BY <1>3, <1>5 DEF Heard
<1>8. CASE a = "worker"
  <2>1. RunReaches'
    <3>1. job[a].pc \in Active
      BY <1>1 DEF Active
    <3>2. \A v \in User : M!Reached(v) => M!Reached(v)'
      BY <1>1, <1>5, <1>6, MailRests
    <3> QED BY <1>3, <1>8, <3>1, <3>2, RunGoesOn
  <2>2. Heard("hand")'
    BY <1>1, <1>3, <1>5, <1>6, <1>8, MailRests DEF M!Actor
  <2> QED BY <1>1, <1>5, <1>6, <1>7, <1>8, <2>1, <2>2, MailRests, MailPartsNext
<1>9. CASE a = "hand"
  <2>1. RunReaches' /\ Heard("worker")'
    BY <1>1, <1>3, <1>5, <1>6, <1>9, MailRests DEF M!Actor
  <2> QED BY <1>1, <1>5, <1>6, <1>7, <1>9, <2>1, MailRests, MailPartsNext
<1> QED BY <1>8, <1>9 DEF M!Actor

LEMMA WriteKeeps == ASSUME NEW a \in M!Actor PROVE M!MailInv /\ M!Write(a) => M!MailInv'
<1> SUFFICES ASSUME M!MailInv, M!Write(a) PROVE M!MailInv'
  OBVIOUS
<1>1. /\ M!TypeOK /\ job[a].pc = "write"
      /\ UNCHANGED <<event, accepted, hook, suppression, configured, mailFaults>>
      /\ log \in [User -> LogRow] /\ SuppressedIsReached /\ Heard(a)
  BY MailParts, MailType DEF M!Write, M!Actor
<1>2. PICK u \in User : u = job[a].u
  <2>1. CASE a = "worker"
    BY <1>1, <2>1, WorkerIsBusy, WorkerShape
  <2>2. CASE a = "hand"
    BY <1>1, <2>2, HandIsBusy, HandShape
  <2> QED BY <2>1, <2>2 DEF M!Actor
<1>3. \A v \in User : M!Reached(v) => M!Reached(v)'
  BY <1>1 DEF M!Reached
<1>4. /\ M!Rank(log[u].delivery) \in Int
      /\ log[u].delivery = "suppressed" => M!Reached(u)'
  BY <1>1, <1>2, <1>3, RankType DEF LogRow, SuppressedIsReached
<1>5. CASE /\ job[a].ok /\ M!Goto(a, "accept")
           /\ log' = [log EXCEPT ![u].status = "sent", ![u].id = TRUE, ![u].body = FALSE]
  <2> DEFINE row == [log[u] EXCEPT !.status = "sent", !.id = TRUE, !.body = FALSE]
  <2>1. row \in LogRow /\ row.status = "sent" /\ row.delivery = log[u].delivery
    BY <1>1 DEF LogRow
  <2>2. log' = [log EXCEPT ![u] = row]
    BY <1>5
  <2> HIDE DEF row
  <2>3. u \in accepted
    BY <1>1, <1>2, <1>5 DEF Heard
  <2>4. log' \in [User -> LogRow] /\ SentIsAccepted' /\ SuppressedIsReached' /\ M!NewsKept'
    <3>1. M!Rank(row.delivery) >= M!Rank(log[u].delivery)
      BY <1>4, <2>1
    <3> QED BY <1>1, <1>4, <2>1, <2>2, <2>3, <3>1, LogChanges
  <2>5. /\ job'[a].pc = "accept" /\ job'[a].u = u
        /\ job' \in [M!Actor -> {M!Idle} \union M!Worker \union M!Hand]
        /\ job'["worker"] \in {M!Idle} \union M!Worker
        /\ job'["hand"] \in {M!Idle} \union M!Hand
        /\ \A b \in M!Actor \ {a} : job'[b] = job[b]
        /\ a = "worker" => job'[a].todo = job[a].todo /\ job'[a].failed = job[a].failed
    BY <1>1, <1>2, <1>5, AcceptMoves
  <2>6. M!TypeOK'
    BY <1>1, <2>4, <2>5, MailType, MailTypeNext
  <2>7. Heard(a)'
    BY <1>1, <2>3, <2>5 DEF Heard
  <2>8. CASE a = "worker"
    <3>1. RunReaches'
      <4>1. job[a].pc \in Active
        BY <1>1 DEF Active
      <4> QED BY <1>3, <2>5, <2>8, <4>1, RunGoesOn
    <3>2. Heard("hand")'
      BY <1>1, <2>5, <2>6, <2>8, MailRests DEF M!Actor
    <3> QED BY <1>1, <2>4, <2>6, <2>7, <2>8, <3>1, <3>2, MailRests, MailPartsNext
  <2>9. CASE a = "hand"
    <3>1. RunReaches' /\ Heard("worker")'
      BY <1>1, <2>5, <2>6, <2>9, MailRests DEF M!Actor
    <3> QED BY <1>1, <2>4, <2>6, <2>7, <2>9, <3>1, MailRests, MailPartsNext
  <2> QED BY <2>8, <2>9 DEF M!Actor
<1>6. CASE /\ log' = [log EXCEPT ![u].status = "failed"]
           /\ IF a = "hand" THEN M!Stop(a)
              ELSE job' = [job EXCEPT ![a].pc = "next", ![a].todo = @ \ {u}, ![a].failed = TRUE]
  <2> DEFINE row == [log[u] EXCEPT !.status = "failed"]
  <2>1. row \in LogRow /\ row.status = "failed" /\ row.delivery = log[u].delivery
    BY <1>1 DEF LogRow
  <2>2. log' = [log EXCEPT ![u] = row]
    BY <1>6
  <2> HIDE DEF row
  <2>3. log' \in [User -> LogRow] /\ SentIsAccepted' /\ SuppressedIsReached' /\ M!NewsKept'
    <3>1. M!Rank(row.delivery) >= M!Rank(log[u].delivery)
      BY <1>4, <2>1
    <3> QED BY <1>1, <1>4, <2>1, <2>2, <3>1, LogChanges
  <2>4. CASE a = "worker"
    <3>0. PICK s : s = [job["worker"] EXCEPT !.pc = "next", !.todo = @ \ {u}, !.failed = TRUE]
      OBVIOUS
    <3>1. s \in M!Worker /\ s.pc = "next" /\ s.failed = TRUE
      <4>1. job["worker"] \in M!Worker /\ job["worker"].pc = "write"
        BY <1>1, <2>4, WorkerIsBusy
      <4> QED BY <3>0, <4>1 DEF M!Worker
    <3>2. job' = [job EXCEPT !["worker"] = s]
      BY <1>6, <2>4, <3>0
    <3>3. M!TypeOK' /\ job'["worker"] = s /\ job'["hand"] = job["hand"]
      BY <1>1, <2>3, <3>1, <3>2, WorkerMoves, MailType, MailTypeNext
    <3>4. RunReaches'
      BY <3>1, <3>3 DEF RunReaches
    <3>5. Heard("worker")' /\ Heard("hand")'
      BY <1>1, <3>1, <3>3, MailRests DEF M!Actor
    <3> QED BY <1>1, <2>3, <3>3, <3>4, <3>5, MailRests, MailPartsNext
  <2>5. CASE a = "hand"
    <3>1. M!TypeOK' /\ job'["worker"] = job["worker"] /\ job'["hand"].pc = "idle"
      BY <1>1, <1>6, <2>3, <2>5, HandStops, MailType, MailTypeNext
    <3>2. RunReaches' /\ Heard("worker")' /\ Heard("hand")'
      BY <1>1, <3>1, MailRests DEF M!Actor
    <3> QED BY <1>1, <2>3, <3>1, <3>2, MailRests, MailPartsNext
  <2> QED BY <2>4, <2>5 DEF M!Actor
<1> QED BY <1>2, <1>5, <1>6 DEF M!Write

LEMMA AcceptKeeps == ASSUME NEW a \in M!Actor PROVE M!MailInv /\ M!Accept(a) => M!MailInv'
<1> SUFFICES ASSUME M!MailInv, M!Accept(a) PROVE M!MailInv'
  OBVIOUS
<1>1. /\ M!TypeOK /\ job[a].pc = "accept" /\ M!After(a, job[a].u)
      /\ log' = [log EXCEPT ![job[a].u].delivery = M!Furthest(@, "accepted")]
      /\ UNCHANGED <<event, accepted, hook, suppression, configured, mailFaults>>
      /\ log \in [User -> LogRow] /\ SentIsAccepted /\ SuppressedIsReached /\ Heard(a)
  BY MailParts, MailType DEF M!Accept, M!Actor
<1>2. PICK u \in User : u = job[a].u /\ u \in accepted
  <2>1. CASE a = "worker"
    BY <1>1, <2>1, WorkerIsBusy, WorkerShape DEF Heard
  <2>2. CASE a = "hand"
    BY <1>1, <2>2, HandIsBusy, HandShape DEF Heard
  <2> QED BY <2>1, <2>2 DEF M!Actor
<1>3. (\A v \in User : M!Reached(v) => M!Reached(v)') /\ M!Reached(u)'
  BY <1>1, <1>2 DEF M!Reached
<1>4. log' \in [User -> LogRow] /\ SentIsAccepted' /\ SuppressedIsReached' /\ M!NewsKept'
  <2> DEFINE new == M!Furthest(log[u].delivery, "accepted")
             row == [log[u] EXCEPT !.delivery = new]
  <2>1. log[u] \in LogRow /\ log[u].delivery \in M!Delivery /\ "accepted" \in M!Delivery
    BY <1>1, <1>2 DEF LogRow, M!Delivery
  <2>2. new \in M!Delivery /\ M!Rank(new) >= M!Rank(log[u].delivery)
    BY <2>1, FurthestKeeps
  <2>3. log' = [log EXCEPT ![u] = row]
    BY <1>1, <1>2
  <2> HIDE DEF new
  <2>4. row \in LogRow /\ row.status = log[u].status /\ row.delivery = new
    BY <2>1, <2>2 DEF LogRow
  <2> HIDE DEF row
  <2> QED BY <1>1, <1>2, <1>3, <2>2, <2>3, <2>4, LogChanges
<1>5. CASE a = "worker"
  <2>1. M!Handled(u) /\ job["worker"].pc \in Active
    BY <1>1, <1>2, <1>5 DEF M!After, Active
  <2>2. M!TypeOK'
    BY <1>1, <1>4, <2>1, HandledMoves, MailType, MailTypeNext
  <2>3. job'["worker"].pc = "next" /\ job'["hand"] = job["hand"] /\ RunReaches'
    BY <1>1, <1>3, <2>1, HandledMoves, RunGoesOn
  <2>4. Heard("worker")' /\ Heard("hand")'
    BY <1>1, <2>2, <2>3, MailRests DEF M!Actor
  <2> QED BY <1>1, <1>4, <2>2, <2>3, <2>4, MailRests, MailPartsNext
<1>6. CASE a = "hand"
  <2>1. M!TypeOK' /\ job'["worker"] = job["worker"] /\ job'["hand"].pc = "idle"
    BY <1>1, <1>4, <1>6, HandStops, MailType, MailTypeNext DEF M!After
  <2>2. RunReaches' /\ Heard("worker")' /\ Heard("hand")'
    BY <1>1, <2>1, MailRests DEF M!Actor
  <2> QED BY <1>1, <1>4, <2>1, <2>2, MailRests, MailPartsNext
<1> QED BY <1>5, <1>6 DEF M!Actor

LEMMA RetryKeeps == ASSUME NEW u \in User PROVE M!MailInv /\ M!Retry(u) => M!MailInv'
<1> SUFFICES ASSUME M!MailInv, M!Retry(u) PROVE M!MailInv'
  OBVIOUS
<1> DEFINE s == [pc |-> "send", u |-> u, ok |-> FALSE]
<1>1. /\ M!TypeOK /\ job' = [job EXCEPT !["hand"] = s]
      /\ UNCHANGED <<event, log, accepted, hook, suppression, configured, mailFaults>>
  BY MailParts DEF M!Retry
<1>2. s \in M!Hand /\ s.pc = "send"
  BY DEF M!Hand
<1> HIDE DEF s
<1>3. M!TypeOK' /\ job'["worker"] = job["worker"] /\ job'["hand"] = s
  BY <1>1, <1>2, HandMoves, MailType, MailTypeNext
<1>4. RunReaches' /\ Heard("worker")' /\ Heard("hand")'
  BY <1>1, <1>2, <1>3, MailRests DEF M!Actor
<1> QED BY <1>1, <1>3, <1>4, MailRests, MailPartsNext

LEMMA DiesKeeps == ASSUME NEW a \in M!Actor PROVE M!MailInv /\ M!Dies(a) => M!MailInv'
<1> SUFFICES ASSUME M!MailInv, M!Dies(a) PROVE M!MailInv'
  OBVIOUS
<1>1. /\ M!TypeOK /\ M!Stop(a) /\ mailFaults' \in Nat
      /\ UNCHANGED <<event, log, accepted, hook, suppression, configured>>
      /\ event \in [status : {"queued", "processing", "waiting_config", "failed",
                              "completed"}, attempts : Nat]
  BY MailParts, MailType DEF M!Dies, M!Spend
<1>2. CASE a = "worker"
  BY <1>1, <1>2, StopsIdle, EndKeeps
<1>3. CASE a = "hand"
  <2>1. M!TypeOK' /\ job'["worker"] = job["worker"] /\ job'["hand"].pc = "idle"
    BY <1>1, <1>3, HandStops, MailType, MailTypeNext
  <2>2. RunReaches' /\ Heard("worker")' /\ Heard("hand")'
    BY <1>1, <2>1, MailRests DEF M!Actor
  <2> QED BY <1>1, <2>1, <2>2, MailRests, MailPartsNext
<1> QED BY <1>2, <1>3 DEF M!Actor

\* The webhook handler: the turn of one report.
LEMMA TurnKeeps ==
    ASSUME M!MailInv, NEW n \in Reported \X Reports, NEW from, NEW to \in Reporting,
           M!Turn(n, from, to), UNCHANGED <<event, accepted, job, configured>>,
           mailFaults' \in Nat,
           log' \in [User -> LogRow], SentIsAccepted', SuppressedIsReached',
           suppression' \in [User -> {"none", "active", "resolved"}],
           \A u \in User : suppression[u] # "none" => suppression'[u] # "none",
           to \in {"matched", "suppress", "handled"} => n[1] \in accepted,
           \A m \in Reported \X Reports :
              M!Rank(log'[m[1]].delivery) >= M!Rank(log[m[1]].delivery),
           to \in {"suppress", "handled"} => M!Rank(log'[n[1]].delivery) >= M!Rank(n[2])
    PROVE  M!MailInv'
<1>1. /\ M!TypeOK /\ ReportsAreOfMail /\ M!NewsKept
      /\ hook \in [Reported \X Reports -> Reporting] /\ log \in [User -> LogRow]
  BY MailParts, MailType
<1>2. /\ hook' = [hook EXCEPT ![n] = to]
      /\ hook' \in [Reported \X Reports -> Reporting]
      /\ hook'[n] = to /\ \A m \in (Reported \X Reports) \ {n} : hook'[m] = hook[m]
  BY <1>1 DEF M!Turn
<1>3. M!TypeOK'
  BY <1>1, <1>2, MailType, MailTypeNext
<1>4. ReportsAreOfMail'
  BY <1>1, <1>2 DEF ReportsAreOfMail
<1>5. M!NewsKept'
  <2> SUFFICES ASSUME NEW m \in Reported \X Reports, hook'[m] \in {"suppress", "handled"}
               PROVE  M!Rank(log'[m[1]].delivery) >= M!Rank(m[2])
    BY DEF M!NewsKept
  <2>1. CASE m = n
    BY <1>2, <2>1
  <2>2. CASE m # n
    <3>1. M!Rank(log[m[1]].delivery) >= M!Rank(m[2])
      BY <1>1, <1>2, <2>2 DEF M!NewsKept
    <3>2. m[1] \in User /\ m[2] \in M!Delivery
      BY ReportsOK DEF M!Delivery
    <3>3. /\ M!Rank(log[m[1]].delivery) \in Int /\ M!Rank(log'[m[1]].delivery) \in Int
          /\ M!Rank(m[2]) \in Int
      BY <1>1, <3>2, RankType DEF LogRow
    <3> QED BY <3>1, <3>3
  <2> QED BY <2>1, <2>2
<1>6. RunReaches' /\ Heard("worker")' /\ Heard("hand")'
  BY <1>1, <1>3, MailRests DEF M!Actor
<1> QED BY <1>3, <1>4, <1>5, <1>6, MailRests, MailPartsNext

\* A log that is left alone stays as far as it was.
LEMMA LogRests ==
    ASSUME M!MailInv, log' = log, accepted' = accepted,
           \A u \in User : suppression[u] # "none" => suppression'[u] # "none"
    PROVE  /\ log' \in [User -> LogRow] /\ SentIsAccepted' /\ SuppressedIsReached'
           /\ \A m \in Reported \X Reports :
                M!Rank(log'[m[1]].delivery) >= M!Rank(log[m[1]].delivery)
<1>1. /\ log \in [User -> LogRow] /\ SentIsAccepted /\ SuppressedIsReached
  BY MailParts, MailType
<1>2. \A m \in Reported \X Reports : M!Rank(log[m[1]].delivery) \in Int
  BY <1>1, RankType, ReportsOK DEF LogRow
<1> QED BY <1>1, <1>2 DEF SentIsAccepted, SuppressedIsReached, M!Reached

LEMMA ReportKeeps ==
    ASSUME NEW n \in Reported \X Reports PROVE M!MailInv /\ M!Report(n) => M!MailInv'
<1> SUFFICES ASSUME M!MailInv, M!Report(n) PROVE M!MailInv'
  OBVIOUS
<1> DEFINE to == IF log[n[1]].id THEN "matched" ELSE "lost"
<1>1. /\ M!Turn(n, "none", to) /\ n[1] \in accepted
      /\ UNCHANGED <<event, log, accepted, suppression, job, configured, mailFaults>>
      /\ mailFaults \in Nat /\ suppression \in [User -> {"none", "active", "resolved"}]
  BY MailParts, MailType DEF M!Report
<1>2. to \in Reporting /\ to \notin {"suppress", "handled"}
  BY DEF Reporting
<1> HIDE DEF to
<1> QED BY <1>1, <1>2, LogRests, TurnKeeps

LEMMA ApplyKeeps ==
    ASSUME NEW n \in Reported \X Reports PROVE M!MailInv /\ M!Apply(n) => M!MailInv'
<1> SUFFICES ASSUME M!MailInv, M!Apply(n) PROVE M!MailInv'
  OBVIOUS
<1> DEFINE to == IF n[2] \in {"bounced", "suppressed", "complained"} THEN "suppress"
                 ELSE "handled"
           u == n[1]
           new == M!Furthest(log[u].delivery, n[2])
           row == [log[u] EXCEPT !.delivery = new]
<1>1. /\ M!Turn(n, "matched", to)
      /\ log' = [log EXCEPT ![u].delivery = M!Furthest(@, n[2])]
      /\ UNCHANGED <<event, accepted, suppression, job, configured, mailFaults>>
      /\ mailFaults \in Nat /\ suppression \in [User -> {"none", "active", "resolved"}]
      /\ log \in [User -> LogRow] /\ ReportsAreOfMail /\ SentIsAccepted
  BY MailParts, MailType DEF M!Apply
<1>2. to \in Reporting /\ u \in User /\ n[2] \in M!Delivery
  BY ReportsOK DEF Reporting, M!Delivery
<1>3. u \in accepted
  BY <1>1 DEF ReportsAreOfMail, M!Turn
<1>4. log[u] \in LogRow /\ log[u].delivery \in M!Delivery
  BY <1>1, <1>2 DEF LogRow
<1>5. /\ new \in M!Delivery
      /\ M!Rank(new) >= M!Rank(log[u].delivery) /\ M!Rank(new) >= M!Rank(n[2])
  BY <1>2, <1>4, FurthestKeeps
<1>6. log' = [log EXCEPT ![u] = row]
  BY <1>1
<1> HIDE DEF new
<1>7. row \in LogRow /\ row.status = log[u].status /\ row.delivery = new
  BY <1>4, <1>5 DEF LogRow
<1> HIDE DEF row, to
<1>8. M!Reached(u)'
  BY <1>1, <1>3 DEF M!Reached
<1>9. /\ log' \in [User -> LogRow] /\ log'[u] = row
      /\ \A v \in User \ {u} : log'[v] = log[v]
      /\ SentIsAccepted' /\ SuppressedIsReached'
  BY <1>1, <1>2, <1>3, <1>6, <1>7, <1>8, LogChanges
<1>10. ASSUME NEW m \in Reported \X Reports
       PROVE  M!Rank(log'[m[1]].delivery) >= M!Rank(log[m[1]].delivery)
  <2>1. m[1] \in User
    BY ReportsOK
  <2>2. CASE m[1] = u
    BY <1>5, <1>7, <1>9, <2>2
  <2>3. CASE m[1] # u
    <3>1. M!Rank(log[m[1]].delivery) \in Int
      BY <1>1, <2>1, RankType DEF LogRow
    <3> QED BY <1>9, <2>1, <2>3, <3>1
  <2> QED BY <2>2, <2>3
<1> QED BY <1>1, <1>2, <1>3, <1>5, <1>7, <1>9, <1>10, TurnKeeps

LEMMA SuppressKeeps ==
    ASSUME NEW n \in Reported \X Reports PROVE M!MailInv /\ M!Suppress(n) => M!MailInv'
<1> SUFFICES ASSUME M!MailInv, M!Suppress(n) PROVE M!MailInv'
  OBVIOUS
<1>1. /\ M!Turn(n, "suppress", "handled")
      /\ suppression' = [suppression EXCEPT ![n[1]] = "active"]
      /\ UNCHANGED <<event, log, accepted, job, configured, mailFaults>>
      /\ mailFaults \in Nat /\ suppression \in [User -> {"none", "active", "resolved"}]
      /\ ReportsAreOfMail /\ M!NewsKept
  BY MailParts, MailType DEF M!Suppress
<1>2. /\ suppression' \in [User -> {"none", "active", "resolved"}]
      /\ \A u \in User : suppression[u] # "none" => suppression'[u] # "none"
  BY <1>1
<1>3. n[1] \in accepted /\ M!Rank(log'[n[1]].delivery) >= M!Rank(n[2])
  BY <1>1 DEF ReportsAreOfMail, M!NewsKept, M!Turn
<1> QED BY <1>1, <1>2, <1>3, LogRests, TurnKeeps DEF Reporting

LEMMA HookBreaksKeeps ==
    ASSUME NEW n \in Reported \X Reports PROVE M!MailInv /\ M!HookBreaks(n) => M!MailInv'
<1> SUFFICES ASSUME M!MailInv, M!HookBreaks(n) PROVE M!MailInv'
  OBVIOUS
<1>1. /\ UNCHANGED <<event, log, accepted, suppression, job, configured>>
      /\ mailFaults' \in Nat /\ suppression \in [User -> {"none", "active", "resolved"}]
  BY MailParts, MailType DEF M!HookBreaks, M!Spend
<1>2. PICK from \in {"matched", "suppress"}, to \in {"none", "lost"} : M!Turn(n, from, to)
  BY DEF M!HookBreaks
<1> QED BY <1>1, <1>2, LogRests, TurnKeeps DEF Reporting

\* An address is cleared, the settings are put right, or nothing happens.
LEMMA SettingsKeep ==
    ASSUME M!MailInv, UNCHANGED <<event, log, accepted, hook, job, mailFaults>>,
           configured' \in BOOLEAN,
           suppression' \in [User -> {"none", "active", "resolved"}],
           \A u \in User : suppression[u] # "none" => suppression'[u] # "none"
    PROVE  M!MailInv'
<1>1. M!TypeOK /\ M!TypeOK'
  BY MailParts, MailType, MailTypeNext
<1>2. RunReaches' /\ Heard("worker")' /\ Heard("hand")'
  BY <1>1, MailRests
<1> QED BY <1>1, <1>2, MailRests, MailPartsNext

LEMMA MailInductive == M!MailInv /\ [M!Next]_(M!vars) => M!MailInv'
<1> SUFFICES ASSUME M!MailInv, [M!Next]_(M!vars) PROVE M!MailInv'
  OBVIOUS
<1>1. suppression \in [User -> {"none", "active", "resolved"}] /\ configured \in BOOLEAN
  BY MailParts, MailType
<1>2. ASSUME NEW u \in User, M!Resolve(u) PROVE M!MailInv'
  <2>1. /\ suppression' \in [User -> {"none", "active", "resolved"}]
        /\ \A v \in User : suppression[v] # "none" => suppression'[v] # "none"
        /\ UNCHANGED <<event, log, accepted, hook, job, configured, mailFaults>>
    BY <1>1, <1>2 DEF M!Resolve
  <2> QED BY <1>1, <2>1, SettingsKeep
<1>3. CASE M!Configure
  BY <1>1, <1>3, SettingsKeep DEF M!Configure
<1>4. CASE UNCHANGED M!vars
  BY <1>1, <1>4, SettingsKeep DEF M!vars
<1>5. CASE M!Work
  BY <1>5, ClaimKeeps, ParkKeeps, VisitKeeps, FinalizeKeeps, ClearBodiesKeeps, SendKeeps,
     WriteKeeps, AcceptKeeps DEF M!Work, M!Actor
<1>6. CASE M!Send("hand") \/ M!Write("hand") \/ M!Accept("hand") \/ M!Throws
           \/ \E a \in M!Actor : M!Dies(a)
  BY <1>6, SendKeeps, WriteKeeps, AcceptKeeps, ThrowsKeeps, DiesKeeps DEF M!Actor
<1>7. ASSUME NEW n \in Reported \X Reports,
             M!Report(n) \/ M!Apply(n) \/ M!Suppress(n) \/ M!HookBreaks(n)
      PROVE  M!MailInv'
  BY <1>7, ReportKeeps, ApplyKeeps, SuppressKeeps, HookBreaksKeeps
<1>8. ASSUME NEW u \in User, M!Retry(u) PROVE M!MailInv'
  BY <1>8, RetryKeeps
<1> QED BY <1>2, <1>3, <1>4, <1>5, <1>6, <1>7, <1>8 DEF M!Next

LEMMA MailStart == M!Init => M!MailInv
<1> SUFFICES ASSUME M!Init PROVE M!MailInv
  OBVIOUS
<1>1. log \in [User -> LogRow] /\ \A u \in User : log[u].status = "none"
                               /\ log[u].delivery = "queued"
  BY DEF M!Init, LogRow, M!Delivery
<1>2. job["worker"] = M!Idle /\ job["hand"] = M!Idle /\ M!Idle.pc = "idle"
  BY DEF M!Init, M!Actor, M!Idle
<1>3. M!TypeOK
  BY <1>1, <1>2, MailType, MailFaults DEF M!Init, Reporting
<1>4. /\ SentIsAccepted /\ SuppressedIsReached /\ ReportsAreOfMail
      /\ M!CompletedIsTrue /\ M!NewsKept
  BY <1>1, ReportsOK DEF M!Init, SentIsAccepted, SuppressedIsReached, ReportsAreOfMail,
     M!CompletedIsTrue, M!NewsKept
<1>5. Heard("worker") /\ Heard("hand") /\ RunReaches
  BY <1>2 DEF Heard, RunReaches, Active
<1> QED BY <1>3, <1>4, <1>5, MailParts

\* Whatever is lost, retried, repeated or broken off: a completed notification has
\* reached the provider for every recipient whose address was never suppressed, and
\* the log never shows less than the furthest report applied to it.
THEOREM MailSafe == M!Spec => [](M!CompletedIsTrue /\ M!NewsKept)
<1>1. M!MailInv => M!CompletedIsTrue /\ M!NewsKept
  BY MailParts
<1> QED BY <1>1, MailStart, MailInductive, PTL DEF M!Spec

\* The same of the run's specification.
THEOREM MailIsTold == Spec => []MailTold
<1>1. Init => M!MailInv
  BY MailStart DEF Init
<1>2. [Next]_vars => [M!Next]_(M!vars)
  BY DEF Next, vars, Token, Entity, Mail, mailVars, M!vars
<1>3. M!MailInv => MailTold
  BY MailParts DEF MailTold
<1> QED BY <1>1, <1>2, <1>3, MailInductive, PTL DEF Spec
=============================================================================
