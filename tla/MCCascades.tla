----------------------------- MODULE MCCascades -----------------------------
(* All small trees with a ResultSet at the root, TableScans at the leaves and *)
(* Filters between.  SelectAnalyzer builds the chain of three of them.        *)
EXTENDS Cascades

CONSTANT MaxNodes    \* bound: nodes of a logical plan

\* Parents of the nodes of a post-order tree: above the node, and no edge
\* crosses another.
Parents(n) ==
  {p \in [1 .. n - 1 -> 2 .. n] :
     \A i \in 1 .. n - 1 : /\ p[i] > i
                           /\ \A j \in i + 1 .. n - 1 : j < p[i] => p[j] <= p[i]}

InputsOf(n, p) ==
  [i \in 1 .. n |-> SetToSortSeq({j \in 1 .. n - 1 : p[j] = i}, LAMBDA a, b : a < b)]

PlanOf(n, p) ==
  [inputs |-> InputsOf(n, p),
   kind |-> [i \in 1 .. n |-> IF i = n THEN "ResultSet"
                              ELSE IF InputsOf(n, p)[i] = <<>> THEN "TableScan" ELSE "Filter"]]

SmallPlans == UNION {{PlanOf(n, p) : p \in Parents(n)} : n \in 2 .. MaxNodes}

=============================================================================
