---------------------------- MODULE MCScheduler ----------------------------
(* Statements over all small stored trees and sets of row records. *)
EXTENDS Scheduler

\* SelectAnalyzer builds [lower, upper).
CloseOpen == {<<FALSE, TRUE>>}

=============================================================================
