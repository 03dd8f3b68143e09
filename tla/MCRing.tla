------------------------------- MODULE MCRing -------------------------------
(* MprRing with a ring of a few packets. *)
EXTENDS MprRing
=============================================================================
