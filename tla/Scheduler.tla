----------------------------- MODULE Scheduler -----------------------------
(***************************************************************************)
(* One planned statement from Scheduler::Run to its status: the executing  *)
(* graph, its ports and chunks, and the executors of sql/executor.  A      *)
(* TableScanExecutor drives the iterator of BptIterator and turns its page *)
(* of keys into rows (table_iterator.cc).                                  *)
(*                                                                         *)
(* The operators of the plan are numbered from the root down, and the      *)
(* input of operator d is operator d + 1.  An operator owns chunk number   *)
(* d; the port between d and d + 1 is port d.                              *)
(*                                                                         *)
(* stmt       the operators of the physical plan                           *)
(* rows       the keys that have a row record                              *)
(* pending, executing  pending_tasks_ and executing_tasks_                 *)
(* cur        the task taken last                                          *)
(* pc         where Run is; Undefined when it has used an unset pointer    *)
(* port       Port::Cache::chunk_ of every port, 0 while it is not set     *)
(* in         input_chunk_ of a transform, chunk_ of a sink                *)
(* chunk      select_ of every chunk, as keys                              *)
(* status     what Run returns                                             *)
(* printed    the rows ResultSetExecutor has printed                       *)
(***************************************************************************)
EXTENDS BptIterator

CONSTANT MaxInt    \* the key of the largest value; keys above it are negative

ASSUME MaxIntAssumption == MaxInt \in 1 .. MaxKey + 1

VARIABLES stmt, rows, pending, executing, cur, pc, port, in, chunk, status, printed

runVars == <<stmt, rows, pending, executing, cur, pc, port, in, chunk, status, printed>>
schedVars == <<iterVars, runVars>>

Undefined == "Undefined"
C_STORAGE_ERROR == "C_STORAGE_ERROR"

\* What BuildPlan gives for SELECT, INSERT and the two CREATE statements.
PhysicalPlans == {<<"ResultSet", "Filter", "TableScan">>, <<"Insert">>, <<"Create">>}

\* The range SelectAnalyzer builds for a primary key of one BIGINT column: from
\* zero up to the largest value, which it leaves out.
SelectRange == [lower |-> 0, upper |-> MaxInt, lowerOpen |-> FALSE, upperOpen |-> TRUE]

RunInit ==
  /\ IterInit
  /\ ranges = <<SelectRange>>
  /\ stmt \in PhysicalPlans
  /\ rows \in SUBSET Keys
  /\ pending = <<>> /\ executing = <<>> /\ cur = 0
  /\ pc = "start"
  /\ port = [d \in DOMAIN stmt |-> 0]
  /\ in = [d \in DOMAIN stmt |-> d]
  /\ chunk = [d \in DOMAIN stmt |-> <<>>]
  /\ status = C_OK
  /\ printed = <<>>

-----------------------------------------------------------------------------
(* Scheduler::Run *)

\* Mutant: an executor is entered before its inputs.
ToExecutorTopDown(p) == [i \in DOMAIN p |-> i]

\* ToExecutor: an executor is entered after its inputs.
ToExecutor(p) == [i \in DOMAIN p |-> Len(p) + 1 - i]

\* ExecutingGraph::Init and Open (no executor's Open can fail), and the tasks.
StartRun ==
  /\ pc = "start"
  /\ pending' = ToExecutor(stmt)
  /\ pc' = "loop"
  /\ UNCHANGED <<iterVars, stmt, rows, executing, cur, port, in, chunk, status, printed>>

\* Mutant: the tasks stay pending as well.
MoveTasksAgain ==
  /\ pc = "loop" /\ executing = <<>> /\ pending # <<>>
  /\ executing' = pending
  /\ UNCHANGED <<iterVars, stmt, rows, pending, cur, pc, port, in, chunk, status, printed>>

MoveTasks ==
  /\ pc = "loop" /\ executing = <<>> /\ pending # <<>>
  /\ executing' = pending
  /\ pending' = <<>>
  /\ UNCHANGED <<iterVars, stmt, rows, cur, pc, port, in, chunk, status, printed>>

\* The executor's chunk goes into the port above it: ISource and ITransform.
Pushed(d) == IF stmt[d] \in {"TableScan", "Filter"} THEN [port EXCEPT ![d - 1] = d] ELSE port

\* The chunk is taken from the port below: ITransform, and ISink with an input.
Pulled(d) == IF d < Len(stmt) THEN [in EXCEPT ![d] = port[d]] ELSE in

PrepareTask ==
  /\ pc = "loop" /\ executing # <<>>
  /\ LET d == Head(executing)
     IN  /\ cur' = d
         /\ port' = Pushed(d)
         /\ in' = Pulled(d)
         /\ pc' = IF d < Len(stmt) /\ port[d] = 0 THEN Undefined ELSE "work"
  /\ executing' = Tail(executing)
  /\ UNCHANGED <<iterVars, stmt, rows, pending, chunk, status, printed>>

\* Mutant: the run goes on after an error.
FinishGoesOn(st) == status' = st /\ pc' = "loop"

\* The end of Work: an error ends Run at once.
Finish(st) ==
  /\ status' = st
  /\ pc' = IF st = C_OK THEN "loop" ELSE "returned"

Working(kind) == pc = "work" /\ stmt[cur] = kind

CloseGraph ==
  /\ pc = "loop" /\ executing = <<>> /\ pending = <<>>
  /\ pc' = "returned"
  /\ UNCHANGED <<iterVars, stmt, rows, pending, executing, cur, port, in, chunk, status, printed>>

-----------------------------------------------------------------------------
(* TableScanExecutor::Generate *)

\* The table's index is opened, and the iterator; code is what Open returned,
\* END standing for C_OK with code_ set.
ScanOpen ==
  /\ Working("TableScan") /\ rangeIdx = 0
  /\ Open
  /\ IF code' \in {C_OK, C_BPTREE_ITERATOR_END}
     THEN pc' = "next" /\ UNCHANGED status
     ELSE Finish(code')
  /\ UNCHANGED <<stmt, rows, pending, executing, cur, port, in, chunk, printed>>

\* TableIterator::Next: nothing happens when the scan is at its end.
ScanNext ==
  /\ pc = "next"
  /\ IF code = C_OK THEN BeginNext ELSE UNCHANGED iterVars
  /\ pc' = "page"
  /\ UNCHANGED <<stmt, rows, pending, executing, cur, port, in, chunk, status, printed>>

ScanTurn ==
  /\ pc = "page" /\ busy
  /\ Turn
  /\ UNCHANGED runVars

\* Mutant: rows that are not there are skipped.
MGetKVSkips == C_OK

\* MGetKV stops at the first key without a row.
MGetKV == IF Range(page) \subseteq rows THEN C_OK ELSE C_STORAGE_KV_NOT_FOUND

\* TableIterator::GetItem.
GetRows ==
  /\ pc = "page" /\ ~busy
  /\ IF code \notin {C_OK, C_BPTREE_ITERATOR_END} THEN Finish(code) /\ UNCHANGED chunk
     ELSE IF MGetKV # C_OK THEN Finish(MGetKV) /\ UNCHANGED chunk
     ELSE Finish(C_OK) /\ chunk' = [chunk EXCEPT ![cur] = @ \o page]
  /\ UNCHANGED <<iterVars, stmt, rows, pending, executing, cur, port, in, printed>>

-----------------------------------------------------------------------------
(* The other executors *)

\* Chunk's move assignment.
MoveChunk(d) == [chunk EXCEPT ![d] = chunk[in[d]], ![in[d]] = <<>>]

\* FilterExecutor::Transform: no condition is evaluated.
FilterWork ==
  /\ Working("Filter")
  /\ chunk' = MoveChunk(cur)
  /\ Finish(C_OK)
  /\ UNCHANGED <<iterVars, stmt, rows, pending, executing, cur, port, in, printed>>

\* ResultSetExecutor::Consume.
ResultSetWork ==
  /\ Working("ResultSet")
  /\ printed' = printed \o chunk[in[cur]]
  /\ Finish(C_OK)
  /\ UNCHANGED <<iterVars, stmt, rows, pending, executing, cur, port, in, chunk>>

\* InsertExecutor::Consume: the status of Table::Insert (module Table) is logged
\* and dropped.
InsertWork ==
  /\ Working("Insert")
  /\ Finish(C_OK)
  /\ UNCHANGED <<iterVars, stmt, rows, pending, executing, cur, port, in, chunk, printed>>

\* CreateExecutor::Work: DoWork (module Catalog) fails when a read or a write does.
CreateWork ==
  /\ Working("Create")
  /\ \E st \in {C_OK, C_STORAGE_ERROR, C_STORAGE_KV_NOT_FOUND} : Finish(st)
  /\ UNCHANGED <<iterVars, stmt, rows, pending, executing, cur, port, in, chunk, printed>>

RunNext ==
  \/ StartRun
  \/ MoveTasks
  \/ PrepareTask
  \/ ScanOpen
  \/ ScanNext
  \/ ScanTurn
  \/ GetRows
  \/ FilterWork
  \/ ResultSetWork
  \/ InsertWork
  \/ CreateWork
  \/ CloseGraph

\* Run is one call of one thread, which goes on until it returns.
RunSpec == RunInit /\ [][RunNext]_schedVars /\ WF_schedVars(RunNext)

-----------------------------------------------------------------------------
(* Properties *)

\* Type invariant: a task is in at most one of the two queues and the hands of
\* Run, and pointers lead to chunks of the plan.
RunTypeOK ==
  /\ pc \in {"start", "loop", "work", "next", "page", "returned", Undefined}
  /\ IsInjective(pending \o executing)
  /\ Range(pending \o executing) \subseteq DOMAIN stmt
  /\ port \in [DOMAIN stmt -> 0 .. Len(stmt)]
  /\ in \in [DOMAIN stmt -> 0 .. Len(stmt)]
  /\ \A d \in DOMAIN stmt : Range(chunk[d]) \subseteq Keys

\* Port::Cache::chunk_ is a null pointer until the first Push: a transform or a sink
\* that is prepared before its input would use it.  The order in which ToExecutor
\* enters the executors is all that prevents it.
NoUnsetPortIsRead == pc # Undefined

\* The keys a SELECT can see: those of the leaves that load, within its range.
Visible == Expected(SelectRange)

\* A SELECT that returns C_OK has printed exactly the first page of the visible
\* rows, in order, and one that fails has printed nothing: the page passes from
\* chunk to chunk through the ports, and the error of any executor, such as one
\* missing row among many, ends the run before the ResultSet.  Its scan runs into no
\* assertion, as its range begins below all keys (AssertionsFailInGaps).
SelectPrintsItsPage ==
  pc = "returned" /\ stmt[1] = "ResultSet" =>
    /\ status # Aborted
    /\ printed = IF status = C_OK
                 THEN SubSeq(Visible, 1, Min({PageSize, Len(Visible)}))
                 ELSE <<>>

\* A row is printed only if its record is in the store.
PrintedRowsExist == Range(printed) \subseteq rows

\* Scheduler::Run returns: its two queues drain, and no executor loops.
RunReturns == <>(pc = "returned")

=============================================================================
