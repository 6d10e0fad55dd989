----------------------------- MODULE MCBootstrap ------------------------------
(***************************************************************************)
(* Bootstrap with two DAG runs, two files that share an enterprise, and an *)
(* enterprise that only a parse can discover.                              *)
(***************************************************************************)
EXTENDS Bootstrap, TLC

CONSTANTS e1, e2, e3, e4

MCFiles == {{e1, e2}, {e2, e3}}
MCSites == <<"moniteur", "bnb">>
\* The runs are alike, and so are the two enterprises that are in one file each.
Swapped == (e1 :> e3) @@ (e3 :> e1)
Symmetric == {p @@ q : p \in Permutations(Run), q \in {<<>>, Swapped}}

==============================================================================
