------------------------------ MODULE MCPipeline -----------------------------
(***************************************************************************)
(* Pipeline on small instances.  Enterprises are interchangeable, and so   *)
(* are sessions: a session runs any program.                               *)
(***************************************************************************)
EXTENDS PipelineInvariant, TLC

Symmetry == Permutations(Enterprise) \cup Permutations(Session)

==============================================================================
