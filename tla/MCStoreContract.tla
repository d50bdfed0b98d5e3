-------------------------- MODULE MCStoreContract --------------------------
(* TLC instance of StoreContract. *)
EXTENDS StoreContract

CONSTANTS v, w, p1, p2
=============================================================================
