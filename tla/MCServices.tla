----------------------------- MODULE MCServices -----------------------------
(***************************************************************************)
(* OAuthToken, EntityLease and MailOutbox for TLC.  They share no state:   *)
(* a behaviour is one of any of them, while the others rest.               *)
(***************************************************************************)
EXTENDS Naturals, FiniteSets

CONSTANTS
    Caller, MaxTokens, MaxLost,                            \* of OAuthToken
    Asker, Party, MaxRecords, MaxFaults,                   \* of EntityLease
    User, Reported, Reports, Attempts, MaxMailFaults       \* of MailOutbox

\* The values that stand for no caller and no record are none of theirs, and the
\* provider reports what becomes of a mail it has taken.
ASSUME NobodyElse == "nobody" \notin Caller \union Asker
ASSUME CallerFaults == MaxTokens \in Nat /\ MaxLost \in Nat
ASSUME PartyFinite == IsFiniteSet(Party)
ASSUME AskerFaults == MaxRecords \in Nat /\ MaxFaults \in Nat
ASSUME MailFaults == Attempts \in Nat /\ MaxMailFaults \in Nat
ASSUME ReportsOK == /\ Reported \subseteq User
                    /\ Reports \subseteq {"accepted", "failed", "delivered", "bounced",
                                       "complained", "suppressed"}

VARIABLES
    part,
    token, issued, alive, lapsed, caller, lost,
    party, record, asker, faults, loose,
    event, log, accepted, hook, suppression, job, configured, mailFaults

O == INSTANCE OAuthToken
E == INSTANCE EntityLease
M == INSTANCE MailOutbox WITH
       MaxFaults <- MaxMailFaults, faults <- mailFaults, News <- Reported \X Reports

tokenVars == <<token, issued, alive, lapsed, caller, lost>>
entityVars == <<party, record, asker, faults, loose>>
mailVars == <<event, log, accepted, hook, suppression, job, configured, mailFaults>>
vars == <<part, tokenVars, entityVars, mailVars>>

Init ==
    /\ part \in {"token", "entity", "mail"}
    /\ O!Init /\ E!Init /\ M!Init
    /\ part = "mail" \/ (configured /\ \A u \in User : suppression[u] = "none")

Token == part = "token" /\ UNCHANGED <<part, entityVars, mailVars>>
Entity == part = "entity" /\ UNCHANGED <<part, tokenVars, mailVars>>
Mail == part = "mail" /\ UNCHANGED <<part, tokenVars, entityVars>>

Next ==
    \/ Token /\ O!Next
    \/ Entity /\ E!Next
    \/ Mail /\ M!Next

Spec == Init /\ [][Next]_vars /\ WF_vars(Mail /\ M!Work) /\ WF_vars(Mail /\ M!Configure)
-----------------------------------------------------------------------------
\* As long as nobody dies, is cut off or misses an answer, the stored refresh
\* token works and no spent one is presented.
TokensKept == O!Connected /\ O!SpentOnce

\* No row gets a second record in the accounting service.
OneRecord == E!OneRecord

\* A completed notification has reached everybody it could, and the log keeps the
\* furthest report on each of its letters.
MailTold == M!CompletedIsTrue /\ M!NewsKept

\* A notification ends, unless a worker dies with it.
Drains == part = "mail" => M!Drains
=============================================================================
