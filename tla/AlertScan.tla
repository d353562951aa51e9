----------------------------- MODULE AlertScan -----------------------------
(***************************************************************************)
(* The alerts of one product and one purchase order: the periodic scan     *)
(* reads everything, decides, and then writes row by row; the assistant    *)
(* files findings of its own; a person dismisses.  The scan lock belongs   *)
(* to a pooled connection and may be held twice, so scans may overlap.     *)
(***************************************************************************)
EXTENDS Naturals

CONSTANTS
    Scan,    \* runs of the scan
    Aspect   \* what may change, one of these in a behaviour: "stock", "deadline", "rest"

VARIABLES
    aspect,     \* which of the aspects changes in this behaviour
    world,      \* the product's level and deadline, whether it is short, whether the order is late
    alert,      \* the active alert of each type, if there is one
    dismissed,  \* the severity dismissed within 24 hours, by type
    scan,       \* what each run is doing
    ai          \* what the assistant is doing

vars == <<aspect, world, alert, dismissed, scan, ai>>
-----------------------------------------------------------------------------
ProductType == {"stock_critical", "stock_risk", "order_deadline", "order_shortage"}
Type == ProductType \cup {"po_overdue"}
Rank == [none |-> 0, info |-> 1, warning |-> 2, critical |-> 3]
Off == [on |-> FALSE]
On(source, severity) == [on |-> TRUE, source |-> source, severity |-> severity]
Idle == [pc |-> "idle", calm |-> FALSE]

Levels == IF aspect = "stock" THEN {"critical", "warning", "healthy", "gone"} ELSE {"healthy", "gone"}
Deadlines == IF aspect = "deadline" THEN {"none", "warning", "critical"} ELSE {"none"}
Truths == IF aspect = "rest" THEN BOOLEAN ELSE {FALSE}
Worlds == [level : Levels, deadline : Deadlines, short : Truths, late : Truths]

Init ==
    /\ aspect \in Aspect
    /\ world \in Worlds
    /\ alert = [t \in Type |-> Off]
    /\ dismissed = [t \in ProductType |-> "none"]
    /\ scan = [s \in Scan |-> Idle]
    /\ ai = Idle

\* Somebody else changes what a run has read.
Disturb == [s \in Scan |-> [scan[s] EXCEPT !.calm = FALSE]]

Change ==
    /\ world' \in Worlds \ {world}
    /\ scan' = Disturb /\ UNCHANGED <<aspect, alert, dismissed, ai>>

\* A person acknowledges (nothing changes here), resolves or dismisses.
Close(t) ==
    /\ alert[t].on /\ alert' = [alert EXCEPT ![t] = Off]
    /\ \/ UNCHANGED dismissed
       \/ t \in ProductType /\ dismissed' = [dismissed EXCEPT ![t] =
             IF Rank[alert[t].severity] > Rank[@] THEN alert[t].severity ELSE @]
    /\ scan' = Disturb /\ UNCHANGED <<aspect, world, ai>>

DayPasses(t) ==
    /\ dismissed[t] # "none" /\ dismissed' = [dismissed EXCEPT ![t] = "none"]
    /\ scan' = Disturb /\ UNCHANGED <<aspect, world, alert, ai>>
-----------------------------------------------------------------------------
(***************************************************************************)
(* What a run decides from what it has read.                               *)
(***************************************************************************)
\* A dismissal holds for a day, unless it has become worse.
IsBlockedByDismiss(t, severity) ==
    dismissed[t] # "none" /\ Rank[severity] <= Rank[dismissed[t]]

Calls == [stock_critical |-> IF world.level = "critical" THEN "critical" ELSE "none",
          stock_risk |-> IF world.level = "warning" THEN "warning" ELSE "none",
          order_deadline |-> IF world.level = "gone" THEN "none" ELSE world.deadline,
          order_shortage |-> IF world.short /\ world.level # "gone" THEN "critical" ELSE "none"]

Creates ==
    {[type |-> t, source |-> "system", severity |-> Calls[t]] : t \in
        {u \in ProductType : Calls[u] # "none" /\ ~alert[u].on /\ ~IsBlockedByDismiss(u, Calls[u])}}

Worsened == world.deadline # "none" /\ world.level # "gone" /\ alert["order_deadline"].on
            /\ alert["order_deadline"].severity # world.deadline

\* Mutant: the rule closes whatever it finds.
OwnOnlyDropped == {}

\* The pairs where the rule closes only what the rule has opened.
OwnOnly == [level : {"healthy"}, type : {"stock_critical", "stock_risk"}]

\* Mutant: the alerts of a product that is gone stay.
ResolvedTypesKept ==
    CASE world.level = "critical" -> {"stock_risk"}
      [] world.level = "healthy" -> {"stock_critical", "stock_risk"}
      [] OTHER -> {}

ResolvedTypes ==
    CASE world.level = "critical" -> {"stock_risk"}
      [] world.level = "healthy" -> {"stock_critical", "stock_risk"}
      [] world.level = "gone" -> {t \in ProductType : alert[t].on}
      [] OTHER -> {}

Resolves ==
    {[type |-> t, own |-> [level |-> world.level, type |-> t] \in OwnOnly] : t \in
        ResolvedTypes
        \cup {t \in {"order_deadline"} : world.level # "gone" /\ (world.deadline = "none" \/ Worsened)}
        \cup {t \in {"order_shortage"} : world.level # "gone" /\ ~world.short}}

StockPlan ==
    [pc |-> "stock", calm |-> TRUE, saw |-> world.level, create |-> Creates,
     resolve |-> Resolves,
     later |-> IF Worsened THEN {[type |-> "order_deadline", source |-> "system",
                                  severity |-> world.deadline]} ELSE {}]

\* serviceCheckOverduePurchaseOrders, and its twins for requests and shipments.
OverduePlan(s) ==
    [scan[s] EXCEPT !.pc = "overdue",
        !.resolve = {[type |-> t, own |-> FALSE] :
                        t \in {u \in {"po_overdue"} : alert[u].on /\ ~world.late}},
        !.later = {[type |-> t, source |-> "system", severity |-> "warning"] :
                        t \in {u \in {"po_overdue"} : world.late /\ ~alert[u].on}}]
-----------------------------------------------------------------------------
(***************************************************************************)
(* The run: the new alerts, then the closed ones, then those whose         *)
(* predecessor had to close first.  The unique index refuses a second      *)
(* active alert of a type.                                                 *)
(***************************************************************************)
StartScan(s) ==
    /\ scan[s].pc \in {"idle", "done"}
    /\ scan' = [scan EXCEPT ![s] = StockPlan]
    /\ UNCHANGED <<aspect, world, alert, dismissed, ai>>

CreateAlert(a) ==
    alert' = IF alert[a.type].on THEN alert
             ELSE [alert EXCEPT ![a.type] = On(a.source, a.severity)]

ResolveAlert(r) ==
    alert' = IF alert[r.type].on /\ (r.own => alert[r.type].source = "system")
             THEN [alert EXCEPT ![r.type] = Off] ELSE alert

\* The run has done one more of its writes and is left with the others.
Did(s, rest) ==
    /\ scan' = [Disturb EXCEPT ![s] = rest]
    /\ UNCHANGED <<aspect, world, dismissed, ai>>

Create(s) ==
    /\ scan[s].pc = "stock"
    /\ \E a \in scan[s].create : CreateAlert(a) /\ Did(s, [scan[s] EXCEPT !.create = @ \ {a}])

Resolve(s) ==
    /\ scan[s].pc \in {"stock", "overdue"} /\ scan[s].create = {}
    /\ \E r \in scan[s].resolve : ResolveAlert(r) /\ Did(s, [scan[s] EXCEPT !.resolve = @ \ {r}])

CreateLater(s) ==
    /\ scan[s].pc \in {"stock", "overdue"} /\ scan[s].create = {} /\ scan[s].resolve = {}
    /\ \E a \in scan[s].later : CreateAlert(a) /\ Did(s, [scan[s] EXCEPT !.later = @ \ {a}])

Through(s) == scan[s].create = {} /\ scan[s].resolve = {} /\ scan[s].later = {}

NextPart(s) ==
    /\ scan[s].pc \in {"stock", "overdue"} /\ Through(s)
    /\ scan' = [scan EXCEPT ![s] = IF scan[s].pc = "stock" THEN OverduePlan(s)
                                   ELSE [pc |-> "done", calm |-> scan[s].calm]]
    /\ UNCHANGED <<aspect, world, alert, dismissed, ai>>

\* A statement fails and the run stops where it is.
Fail(s) ==
    /\ scan[s].pc \in {"stock", "overdue"}
    /\ scan' = [scan EXCEPT ![s] = Idle]
    /\ UNCHANGED <<aspect, world, alert, dismissed, ai>>
-----------------------------------------------------------------------------
(***************************************************************************)
(* serviceGenerateAiAlerts                                                 *)
(***************************************************************************)
AiRead ==
    /\ ai = Idle /\ world.level # "gone"
    /\ ai' = [pc |-> "ask", own |-> alert["stock_risk"].on /\ alert["stock_risk"].source = "ai",
              free |-> /\ \A t \in {"stock_critical", "stock_risk"} :
                             dismissed[t] = "none" /\ (alert[t].on => alert[t].source = "ai")]
    /\ UNCHANGED <<aspect, world, alert, dismissed, scan>>

\* A finding is filed unless the rule has one or a person has dismissed one,
\* and a finding that is no longer made is closed.  No answer changes nothing.
AiAnswer ==
    /\ ai.pc = "ask" /\ ai' = Idle
    /\ \/ UNCHANGED alert
       \/ /\ ~ai.own /\ ai.free
          /\ \E severity \in {"info", "warning"} :
                CreateAlert([type |-> "stock_risk", source |-> "ai", severity |-> severity])
       \/ /\ ai.own
          /\ alert' = IF alert["stock_risk"].on /\ alert["stock_risk"].source = "ai"
                      THEN [alert EXCEPT !["stock_risk"] = Off] ELSE alert
    /\ scan' = Disturb /\ UNCHANGED <<aspect, world, dismissed>>

Next ==
    \/ Change \/ AiRead \/ AiAnswer
    \/ \E t \in Type : Close(t)
    \/ \E t \in ProductType : DayPasses(t)
    \/ \E s \in Scan : \/ StartScan(s) \/ Create(s) \/ Resolve(s) \/ CreateLater(s)
                       \/ NextPart(s) \/ Fail(s)

Spec == Init /\ [][Next]_vars
-----------------------------------------------------------------------------
(***************************************************************************)
(* A run that nobody disturbs leaves exactly the alerts the product calls  *)
(* for: one of the severity it has now, unless that was dismissed, and no  *)
(* other of the rule's.  Only a critical alert outlives an improvement to  *)
(* a warning, which the scan does not close, and a warning finds the       *)
(* assistant's alert in its place.                                         *)
(***************************************************************************)
Called(t) == Calls[t] # "none"

Answered(t) ==
    IF Called(t)
    THEN IF alert[t].on THEN t = "stock_risk" \/ alert[t].severity = Calls[t]
         ELSE IsBlockedByDismiss(t, Calls[t])
    ELSE \/ ~alert[t].on
         \/ t = "stock_critical" /\ world.level = "warning"
         \/ t = "stock_risk" /\ world.level \in {"healthy", "warning"} /\ alert[t].source = "ai"

ScanSettles ==
    \A s \in Scan : scan[s].pc = "done" /\ scan[s].calm =>
        (\A t \in ProductType : Answered(t)) /\ alert["po_overdue"].on = world.late

\* The rule never closes a finding of the assistant on a product it saw well.
FindingKept(s) ==
    /\ scan[s].pc = "stock" /\ scan'[s].pc = "stock" /\ scan'[s].resolve # scan[s].resolve
    /\ alert["stock_risk"].on /\ alert["stock_risk"].source = "ai" /\ ~alert'["stock_risk"].on
    => scan[s].saw \in {"critical", "gone"}

FindingsSurvive == [][\A s \in Scan : FindingKept(s)]_vars
-----------------------------------------------------------------------------
\* The inductive strengthening.
Severity == {"info", "warning", "critical"}
AllLevels == {"critical", "warning", "healthy", "gone"}
New == [type : Type, source : {"system"}, severity : Severity]
Plan ==
    [pc : {"stock", "overdue"}, calm : BOOLEAN, saw : AllLevels, create : SUBSET New,
     resolve : SUBSET [type : Type, own : BOOLEAN], later : SUBSET New]

TypeOK ==
    /\ world \in [level : AllLevels, deadline : {"none", "warning", "critical"},
                  short : BOOLEAN, late : BOOLEAN]
    /\ alert \in [Type -> {Off} \cup [on : {TRUE}, source : {"system", "ai"}, severity : Severity]]
    /\ scan \in [Scan -> [pc : {"idle", "done"}, calm : BOOLEAN] \cup Plan]
    /\ \A s \in Scan : scan[s].pc = "idle" => ~scan[s].calm

\* Some types have one source or one severity.
Fits(t, source, severity) ==
    /\ t = "stock_critical" => source = "system"
    /\ t \in {"stock_critical", "order_shortage"} => severity = "critical"

Busy(p) == p.pc \in {"stock", "overdue"}

\* What a run is going to write fits, and what it closes of others it may close.
PlanFits(p) ==
    Busy(p) =>
        /\ \A a \in p.create \cup p.later : Fits(a.type, a.source, a.severity)
        /\ p.pc = "stock" => \A r \in p.resolve :
              r.type = "stock_risk" /\ ~r.own => p.saw \in {"critical", "gone"}

Creating(p, t) == \E a \in p.create : a.type = t
Closing(p, t) == \E r \in p.resolve : r.type = t
Replacing(p, t) == \E a \in p.later : a.type = t

\* The product's alerts are as they should be, or the run is still to write them.
CalmInStock(p) ==
    p.pc = "stock" /\ p.calm =>
        /\ \A a \in p.create :
              /\ a.type \in ProductType /\ Called(a.type) /\ a.severity = Calls[a.type]
              /\ ~alert[a.type].on
        /\ \A r \in p.resolve :
              /\ r.type \in ProductType
              /\ Called(r.type) => r.type = "order_deadline" /\ Replacing(p, "order_deadline")
              /\ r.own => world.level = "healthy" /\ r.type \in {"stock_critical", "stock_risk"}
        /\ \A a \in p.later :
              /\ a.type = "order_deadline" /\ Called(a.type) /\ a.severity = Calls[a.type]
              /\ ~Creating(p, a.type) /\ (Closing(p, a.type) \/ ~alert[a.type].on)
        /\ \A t \in ProductType : Answered(t) \/ Creating(p, t) \/ Closing(p, t) \/ Replacing(p, t)

CalmInOverdue(p) ==
    p.pc = "overdue" /\ p.calm =>
        /\ p.create = {} /\ \A t \in ProductType : Answered(t)
        /\ \A r \in p.resolve : r.type = "po_overdue" /\ ~r.own /\ ~world.late
        /\ \A a \in p.later : a.type = "po_overdue" /\ world.late
        /\ alert["po_overdue"].on = world.late \/ p.resolve # {} \/ p.later # {}

ScanInv ==
    /\ TypeOK /\ ScanSettles
    /\ \A t \in Type : alert[t].on => Fits(t, alert[t].source, alert[t].severity)
    /\ \A s \in Scan : PlanFits(scan[s]) /\ CalmInStock(scan[s]) /\ CalmInOverdue(scan[s])
=============================================================================
