--------------------------- MODULE MCOrderStockTx ---------------------------
(***************************************************************************)
(* OrderStockTx for TLC: the first order wants one piece, the others       *)
(* three.  A behaviour either overlaps operations freely or keeps the two  *)
(* pairs apart that are known to go wrong together; what only holds then   *)
(* is asked of the second kind.                                            *)
(***************************************************************************)
EXTENDS OrderStockTx, TLC

CONSTANT Small   \* orders of one piece

VARIABLE apart

MCQuantity == [o \in Order |-> IF o \in Small THEN 1 ELSE 3]

\* No cancellation overlaps a resolution, no deletion a submission.
Separate ==
    \A t, u \in Proc :
        /\ job[t].op = "cancel" => job[u].op # "resolve"
        /\ job[t].op = "delete" => job[u].op # "submit"

MCInit == Init /\ apart \in BOOLEAN

MCNext == Next /\ UNCHANGED apart /\ (apart => Separate')

MCSpec == MCInit /\ [][MCNext]_<<vars, apart>>

Symmetric == Permutations(Proc)
-----------------------------------------------------------------------------
\* Kept apart, the counter and the rows are exact after every commit.
RowsExactApart == apart => ReservedIsSum /\ LinesAccounted

\* Kept apart, the transactions appear atomic.
KeepsPromiseApart ==
    [][apart => Promise!Next \/ Promise!vars' = Promise!vars]_vars
=============================================================================
