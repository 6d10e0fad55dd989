-------------------------- MODULE MCEnterpriseRecord -------------------------
(***************************************************************************)
(* EnterpriseRecord with two documents; the runs that store them are       *)
(* interchangeable.                                                        *)
(***************************************************************************)
EXTENDS EnterpriseRecord, TLC

CONSTANTS named, broken, refused

\* Bound: only the detail page varies.
MCAnswer ==
    ({"enterprise_detail"} \X Page) \cup {<<"profile", named>>, <<"publication_search", named>>}

Symmetry == Permutations(Run)

==============================================================================
