--------------------------- MODULE MCScrapeBySource --------------------------
(***************************************************************************)
(* ScrapeBySource on small instances.                                      *)
(***************************************************************************)
EXTENDS ScrapeBySource, TLC

Symmetry == Permutations(Enterprise)

==============================================================================
