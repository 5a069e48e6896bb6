---------------------------- MODULE MCCatalogFile ----------------------------
(***************************************************************************)
(* Catalogs whose texts take one page, two and three.                      *)
(***************************************************************************)
EXTENDS CatalogFile, TLC

CONSTANTS Short, Long, Longer

MCDocuments == {Short, Long, Longer}
MCSize == (Short :> 1) @@ (Long :> 2) @@ (Longer :> 3)
MCZeros == <<>>
MCBodies == {MCZeros} \cup UNION {{<<d, i>> : i \in 1..MCSize[d]} : d \in MCDocuments}
==============================================================================
