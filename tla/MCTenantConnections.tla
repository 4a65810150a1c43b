------------------------ MODULE MCTenantConnections ------------------------
(* TenantConnections on a small instance: one connection more than requests, which  *)
(* the cleanup may be holding.                                                      *)
EXTENDS TenantConnections
=============================================================================
