--------------------------- MODULE MCBptIterator ---------------------------
(* Scans over all small stored trees. *)
EXTENDS BptIterator

\* [lower, upper), the ranges SelectAnalyzer builds, and (lower, upper].
HalfOpen == {<<FALSE, TRUE>>, <<TRUE, FALSE>>}

=============================================================================
