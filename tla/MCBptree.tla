------------------------------ MODULE MCBptree ------------------------------
(***************************************************************************)
(* One session of an index tree with arbitrary calls between two saves,    *)
(* up to a number of calls.                                                *)
(***************************************************************************)
EXTENDS Bptree

CONSTANT MaxCalls      \* bound: calls of the tree's interface in a session

VARIABLE calls

mcVars == <<vars, calls>>

MCInit == Init /\ calls = 0

MCNext ==
  /\ calls < MaxCalls
  /\ calls' = calls + 1
  /\ Next

MCSpec == MCInit /\ [][MCNext]_mcVars

=============================================================================
