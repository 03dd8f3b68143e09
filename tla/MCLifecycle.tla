---------------------------- MODULE MCLifecycle ----------------------------
EXTENDS MglLifecycle
=============================================================================
