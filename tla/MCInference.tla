----------------------------- MODULE MCInference -----------------------------
(***************************************************************************)
(* An instance of one or two shards, as named in the configuration.        *)
(***************************************************************************)
EXTENDS Inference

CONSTANTS a, b
=============================================================================
