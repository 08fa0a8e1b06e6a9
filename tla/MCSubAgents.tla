---------------------------- MODULE MCSubAgents ----------------------------
(* SubAgents on small instances.                                           *)
EXTENDS SubAgents
=============================================================================
