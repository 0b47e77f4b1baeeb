----------------------------- MODULE MCCatalog -----------------------------
(* Two databases and two table names, all in one bucket or in two. *)
EXTENDS Catalog, TLC

CONSTANTS d1, d2, t1, t2

MCDbNames == {d1, d2}
MCTableNames == {t1, t2}
MCNames == {d1, d2, t1, t2}
MCBucketOf == (d1 :> 0) @@ (d2 :> 1) @@ (t1 :> 0) @@ (t2 :> 0)

=============================================================================
