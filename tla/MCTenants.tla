----------------------------- MODULE MCTenants -----------------------------
(* Constants for model checking Tenants. *)
EXTENDS Tenants

CONSTANTS a1, c1
=============================================================================
