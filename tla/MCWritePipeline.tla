--------------------------- MODULE MCWritePipeline --------------------------
(* WritePipeline for TLC, with the users given in the configuration.       *)
EXTENDS WritePipeline
=============================================================================
