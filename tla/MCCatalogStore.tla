--------------------------- MODULE MCCatalogStore ---------------------------
(* MCCatalog's names as bytes.  That of d1 and its length take a word, so that
   the key of the name is as long as the key of a counter; t1 is a prefix of d2;
   t2 is empty. *)
EXTENDS CatalogStore, TLC

CONSTANTS d1, d2, t1, t2

MCDbNames == {d1, d2}
MCTableNames == {t1, t2}
MCNames == {d1, d2, t1, t2}
MCBucketOf == (d1 :> 0) @@ (d2 :> 1) @@ (t1 :> 0) @@ (t2 :> 0)
MCNameBytes == (d1 :> <<98>>) @@ (d2 :> <<97, 98>>) @@ (t1 :> <<97>>) @@ (t2 :> <<>>)
MCRowTexts == {<<49>>, <<49, 48>>}

\* What no step reads is left out: the answers of the last request and statement.
MCView == <<counter, issued, dbId, dbMeta, tblId, tblMeta, job, kv, written>>

=============================================================================
