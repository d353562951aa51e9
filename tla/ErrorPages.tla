------------------------------ MODULE ErrorPages ------------------------------
(***************************************************************************)
(* The developer's list of errors.  The server answers one page at a time, *)
(* from a cursor that names a place in the order, newest first, while      *)
(* record_error_occurrence moves groups to the front and users close them. *)
(* The page of the browser asks for the first page again and again, for    *)
(* the others only when one more is wanted, and shows them side by side.   *)
(***************************************************************************)
EXTENDS Naturals, FiniteSets, Sequences, Functions

CONSTANTS
    Group,      \* groups of errors, by their ids: numbers from 1
    PageSize,   \* groups of a page
    MaxTime,    \* bound: times of occurrences
    MaxExtra,   \* bound: pages asked for beyond the first
    MaxChanges  \* bound: occurrences and decisions of users

VARIABLES
    seen,       \* when a group was last seen, 0 while there is no such group
    status,     \* "open" or "resolved"
    filter,     \* the status the list is filtered by
    first,      \* the first page, as it was last answered
    cursors,    \* the cursors of the further pages that are wanted
    answered,   \* the answers that have come for them
    extra,      \* the further pages that are shown
    touched,    \* history: groups recorded or closed since the list was begun
    changes     \* occurrences and decisions so far

vars == <<seen, status, filter, first, cursors, answered, extra, touched, changes>>
-----------------------------------------------------------------------------
None == 0
Base == Cardinality(Group) + 1

\* The place of a group in the order: by time, and by id where times are equal.
Place(g) == seen[g] * Base + g

\* Mutant: a page begins after the time of the cursor, without the id.
BeforeByTime(g, cursor) == cursor = None \/ seen[g] < cursor \div Base

\* A cursor's snapshot bounds nothing that its place does not bound.
Before(g, cursor) == cursor = None \/ Place(g) < cursor

Listed(cursor) == {g \in Group : seen[g] > 0 /\ status[g] = filter /\ Before(g, cursor)}

\* dbListErrorGroups: a page's rows, and the cursor of the next if there is more.
Page(cursor) ==
    LET rest == Listed(cursor)
        rows == {g \in rest : Cardinality({h \in rest : Place(h) > Place(g)}) < PageSize}
        last == CHOOSE g \in rows : \A h \in rows : Place(g) <= Place(h)
    IN  [rows |-> rows, of |-> filter, next |-> IF rest = rows THEN None ELSE Place(last)]

Init ==
    /\ seen \in [Group -> 0..1] /\ status = [g \in Group |-> "open"]
    /\ filter = "open" /\ first = Page(None)
    /\ cursors = <<>> /\ answered = <<>> /\ extra = <<>>
    /\ touched = {} /\ changes = 0

\* Where one more page begins: after the last one shown, and after the first page
\* again when that was the end.
LastCursor ==
    IF extra # <<>> /\ extra[Len(extra)].next # None THEN extra[Len(extra)].next ELSE first.next

\* Pages of a list that was left are shown until the pages of a new one come.
Stale == extra # <<>> /\ (cursors = <<>> \/ extra[1].of # filter)
Waiting == DOMAIN answered # DOMAIN cursors \/ first.of # filter
-----------------------------------------------------------------------------
Touch(g) ==
    /\ changes < MaxChanges /\ changes' = changes + 1
    /\ touched' = touched \cup {g}

\* record_error_occurrence, whose time may be an earlier one; it reopens.
Record(g, time) ==
    /\ seen' = [seen EXCEPT ![g] = IF time > @ THEN time ELSE @]
    /\ status' = [status EXCEPT ![g] = "open"]
    /\ Touch(g)
    /\ UNCHANGED <<filter, first, cursors, answered, extra>>

\* dbUpdateErrorGroupStatus
SetStatus(g, s) ==
    /\ seen[g] > 0 /\ status[g] # s
    /\ status' = [status EXCEPT ![g] = s]
    /\ Touch(g)
    /\ UNCHANGED <<seen, filter, first, cursors, answered, extra>>

\* The first page, every thirty seconds, on demand, and after a change of filter.
Refresh ==
    /\ first' = Page(None)
    /\ touched' = IF cursors = <<>> THEN {} ELSE touched
    /\ UNCHANGED <<seen, status, filter, cursors, answered, extra, changes>>

\* A change of filter drops the cursors; what is shown stays until other data come.
Refilter(f) ==
    /\ f # filter /\ filter' = f
    /\ cursors' = <<>> /\ answered' = <<>>
    /\ UNCHANGED <<seen, status, first, extra, touched, changes>>

\* "Load more", also while pages are waited for.
More ==
    /\ LastCursor # None /\ Len(cursors) < MaxExtra
    /\ cursors' = Append(cursors, LastCursor) /\ answered' = <<>>
    /\ UNCHANGED <<seen, status, filter, first, extra, touched, changes>>

\* All further pages are asked for together; their answers are shown together.
Answer(i) ==
    /\ i \notin DOMAIN answered
    /\ LET got == [j \in DOMAIN answered \cup {i} |->
                      IF j = i THEN Page(cursors[i]) ELSE answered[j]]
       IN  /\ answered' = got
           /\ extra' = IF DOMAIN got = DOMAIN cursors THEN got ELSE extra
    /\ UNCHANGED <<seen, status, filter, first, cursors, touched, changes>>

Next ==
    \/ \E g \in Group, time \in 1..MaxTime : Record(g, time)
    \/ \E g \in Group, s \in {"open", "resolved"} : SetStatus(g, s)
    \/ \E f \in {"open", "resolved"} : Refilter(f)
    \/ \E i \in DOMAIN cursors : Answer(i)
    \/ Refresh \/ More

Spec == Init /\ [][Next]_vars
-----------------------------------------------------------------------------
AtEnd == IF cursors = <<>> THEN first.next = None ELSE \E i \in DOMAIN extra : extra[i].next = None

\* No page begins below the end of the one before it.
Joined ==
    \A i \in DOMAIN cursors : (IF i = 1 THEN first ELSE extra[i - 1]).next <= cursors[i]

Shown == first.rows \cup UNION {extra[i].rows : i \in DOMAIN extra}

\* A list read to its end shows every group that was left alone meanwhile, unless
\* its pages came apart: a refreshed first page ends above the place where the
\* second began, or a cursor of another filter was followed.  It shows no such group
\* that the filter excludes, but for the pages of the list that was left.
ListIsWhole ==
    ~Waiting =>
        /\ AtEnd /\ Joined => Listed(None) \ touched \subseteq Shown
        /\ ~Stale => Shown \ touched \subseteq Listed(None)
=============================================================================
