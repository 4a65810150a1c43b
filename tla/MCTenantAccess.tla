--------------------------- MODULE MCTenantAccess ---------------------------
(* TenantAccess on a small instance: with settings v1, group admins maps to    *)
(* admin and nobody else is let in but group staff.                            *)
EXTENDS TenantAccess, TLC

CONSTANTS v1, admins, staff, others

MCClaims == {{}, {admins}, {staff}, {others}}
MCGroupConfig == (v1 :> [admin |-> {admins}, editor |-> {}, allowed |-> {staff}]) @@ (Unset :> Disabled)

Symmetry == Permutations(Requests)
=============================================================================
