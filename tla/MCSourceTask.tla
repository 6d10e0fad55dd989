---------------------------- MODULE MCSourceTask -----------------------------
(***************************************************************************)
(* SourceTask with two threads and two proxies.                            *)
(***************************************************************************)
EXTENDS SourceTask, TLC

==============================================================================
