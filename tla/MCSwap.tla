------------------------------- MODULE MCSwap -------------------------------
EXTENDS MglSwap
=============================================================================
