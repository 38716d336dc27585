----------------------------- MODULE MCLineage ------------------------------
(* Lineage for TLC: a resume kept as <name>-original, one kept as <name>, and a
   project of the first one's that still has a <name>-standard version. *)
EXTENDS Lineage

ImportsDef == {<<"ann", "original">>, <<"bob">>}
LegacyDef == (<<"ann", "standard">> :> <<"ann", "original">>)
JobsDef == {"acme"}
=============================================================================
