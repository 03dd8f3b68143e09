------------------------------- MODULE MCM3d -------------------------------
EXTENDS M3dBuffer
=============================================================================
