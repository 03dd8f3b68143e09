----------------------------- MODULE MCDispatch -----------------------------
(* MglDispatch on small instances. *)
EXTENDS MglDispatchInv
=============================================================================
