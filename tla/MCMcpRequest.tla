--------------------------- MODULE MCMcpRequest ---------------------------
(* McpRequest for TLC.                                                     *)
EXTENDS McpRequest
=============================================================================
