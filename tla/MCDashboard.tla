------------------------------ MODULE MCDashboard ------------------------------
(* The instance of MCPipeline with the fingerprint pass beside it. *)
EXTENDS Dashboard, MCPipeline
=============================================================================
