----------------------------- MODULE IndexSpec -----------------------------
(***************************************************************************)
(* What a table's primary index promises to the statements on it: it is a  *)
(* set of keys, a statement takes effect as a whole or, when an INSERT     *)
(* meets a key that is there already, not at all.  An UPDATE changes no    *)
(* key.                                                                    *)
(***************************************************************************)
CONSTANT Keys

VARIABLES
  keys,    \* the keys in the index
  req      \* the statement being executed

specVars == <<keys, req>>

NoReq == [op |-> "none", keys |-> {}]

SpecInit == keys = {} /\ req = NoReq

Begin(op, K) ==
  /\ req = NoReq
  /\ req' = [op |-> op, keys |-> K]
  /\ UNCHANGED keys

CommitInsert ==
  /\ req.op = "insert"
  /\ req.keys \cap keys = {}
  /\ keys' = keys \cup req.keys
  /\ req' = NoReq

RejectInsert ==
  /\ req.op = "insert"
  /\ req.keys \cap keys # {}
  /\ req' = NoReq
  /\ UNCHANGED keys

CommitDelete ==
  /\ req.op = "delete"
  /\ keys' = keys \ req.keys
  /\ req' = NoReq

CommitUpdate ==
  /\ req.op = "update"
  /\ req' = NoReq
  /\ UNCHANGED keys

Finish == CommitInsert \/ RejectInsert \/ CommitDelete \/ CommitUpdate

SpecNext ==
  \/ \E op \in {"insert", "delete", "update"}, K \in SUBSET Keys : Begin(op, K)
  \/ Finish

IndexBehaviour == SpecInit /\ [][SpecNext]_specVars

=============================================================================
