---------------------------- MODULE MCStatistics ----------------------------
(* One column of one table; the rows of a value map are enough to wrap an int
   of four bits, to a negative number, to 0 and to a small one. *)
EXTENDS Statistics

MCTableIds == {<<1, 1>>}

=============================================================================
