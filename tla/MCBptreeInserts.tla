-------------------------- MODULE MCBptreeInserts --------------------------
(***************************************************************************)
(* One session of an index tree that is only added to, up to a number of   *)
(* calls, with the keys inserted so far as history.                        *)
(***************************************************************************)
EXTENDS Bptree

CONSTANT MaxCalls      \* bound: calls of the tree's interface in the session

VARIABLES calls, inserted

mcVars == <<vars, calls, inserted>>

MCInit == Init /\ calls = 0 /\ inserted = {}

InsertKey(key, value) ==
  /\ Insert(key, value)
  /\ inserted' = IF ret'.st = C_OK THEN inserted \cup {key} ELSE inserted

MCNext ==
  /\ calls < MaxCalls
  /\ calls' = calls + 1
  /\ \/ \E key \in Keys, value \in Values : InsertKey(key, value)
     \/ \E key \in Keys : GetItem(key) /\ UNCHANGED inserted
     \/ Save /\ UNCHANGED inserted

MCSpec == MCInit /\ [][MCNext]_mcVars

\* bplus_tree_test.cc: a key that Insert has taken with C_OK is found by the
\* GetItem that follows a complete save.
InsertedKeyFound ==
  [][ret.op = "Save" /\ ret'.op = "GetItem" /\ ret'.key \in inserted => ret'.st = C_OK]_vars

=============================================================================
