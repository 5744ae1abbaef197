------------------------------ MODULE MCPipeline ------------------------------
(* PipelineClient on a small instance: frames 0, 1, ..., MaxId. *)
EXTENDS PipelineClient

CONSTANT MaxId               \* the largest sequence number a client pushes

MCId == 0..MaxId
=============================================================================
