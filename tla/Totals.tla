------------------------------- MODULE Totals -------------------------------
(***************************************************************************)
(* Quantities and their sums.  The database keeps quantities in integer    *)
(* columns and the code adds them up row by row.  The sum of a function    *)
(* into the naturals is written here as the number of its units: row x     *)
(* holding f[x] pieces contributes the units <<x, 1>>, ..., <<x, f[x]>>.   *)
(* Written so, a sum is a cardinality, and facts about it follow from      *)
(* facts about finite sets.                                                *)
(***************************************************************************)
EXTENDS Integers, FiniteSets

\* The pieces held by the rows of f, each named by its row and a number.
Units(f) == UNION {{x} \X (1 .. f[x]) : x \in DOMAIN f}

\* The sum of f over its domain.
Total(f) == Cardinality(Units(f))

\* Pointwise sum of two functions with the domain of the first.
Plus(f, g) == [x \in DOMAIN f |-> f[x] + g[x]]

\* SQL greatest(0, a - b).
Clip(a, b) == IF a >= b THEN a - b ELSE 0

\* SQL least(a, b).
Least(a, b) == IF a <= b THEN a ELSE b
=============================================================================
