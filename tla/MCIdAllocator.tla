--------------------------- MODULE MCIdAllocator ---------------------------
(* Three names, two of them in the same bucket. *)
EXTENDS IdAllocator, TLC

CONSTANTS n1, n2, n3

MCNames == {n1, n2, n3}
MCBucketOf == (n1 :> 0) @@ (n2 :> 0) @@ (n3 :> 1)

=============================================================================
