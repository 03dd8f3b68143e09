------------------------------ MODULE MCChain ------------------------------
(* MprChain with a short chain, and every drawing mode of scrmode.c. *)
EXTENDS MprChain

AllModes == {<<"YCC", 1>>, <<"YCC", 2>>, <<"YCC", 3>>, <<"GRB", 2>>}
=============================================================================
