---------------------------- MODULE MCMaskPipeline ----------------------------
(* MaskPipeline with two requests under one policy that changes meanwhile. *)
EXTENDS MaskPipeline

MCFields == {"name", "note"}

MCTokenOf == [p \in MCFields \X Values |-> <<"token", p>>]

(* Two active contents of the row and an inactive one. *)
MCRows ==
  { [fields |-> {"name"}, active |-> TRUE],
    [fields |-> {"name", "note"}, active |-> TRUE],
    [fields |-> {"note"}, active |-> FALSE] }
=============================================================================
