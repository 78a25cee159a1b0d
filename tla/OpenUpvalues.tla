----------------------------- MODULE OpenUpvalues -----------------------------
(* The list of open upvalues, which both machines keep by falling location     *)
(* and walk from its head. `ups` has every upvalue, `open` those in the list.  *)
EXTENDS Integers, FiniteSets

ClosedUpvalue == -1

\* The places of the list before the first upvalue that is below `low`, and how
\* many there are.
Leading(open, ups, low) ==
    {i \in DOMAIN open : \A j \in 1 .. i : ups[open[j]].location >= low}
Walked(open, ups, low) == Cardinality(Leading(open, ups, low))
=============================================================================
