------------------------------ MODULE MCTable ------------------------------
(* Statements on a table, up to a number of them. *)
EXTENDS Table

CONSTANT MaxStatements   \* bound: statements clients issue

VARIABLES
  issued,     \* statements begun
  deleted     \* history: keys a DELETE was begun for and no INSERT since

MCInit == TableInit /\ issued = 0 /\ deleted = {}

MCNext ==
  /\ TableNext
  /\ IF job = Idle /\ job' # Idle
     THEN /\ issued < MaxStatements /\ issued' = issued + 1
          /\ deleted' = CASE job'.op = "insert" -> deleted \ ChunkKeys(job'.chunk)
                          [] job'.op = "delete" -> deleted \cup ChunkKeys(job'.chunk)
                          [] OTHER -> deleted
     ELSE UNCHANGED <<issued, deleted>>

MCSpec == MCInit /\ [][MCNext]_<<tableVars, issued, deleted>>

\* As far as no new leaf takes the id of another one, the hypothesis []NodeIdsUnique
\* of the theorems: the ids of a new session start at 0 again, so that the program
\* leaves it when a leaf of that session meets one of an earlier session.
MCUniqueIdsNext == MCNext /\ NodeIdsUnique'

MCUniqueIdsSpec == MCInit /\ [][MCUniqueIdsNext]_<<tableVars, issued, deleted>>

\* A stored leaf may hold a key without row data, at which the MGetKV of every later
\* scan fails as a whole, but only one that a DELETE was to remove: whatever is cut
\* between the four kinds of writes (rows, leaves, root, the rows of a DELETE), and
\* even when a leaf takes the id of an older record, INSERTs write their rows first and
\* no statement takes the rows of another's keys.
OnlyDeletesStrandItems ==
  \A i \in DOMAIN StoredWalk : StoredWalk[i] \subseteq DOMAIN rows \cup deleted

=============================================================================
