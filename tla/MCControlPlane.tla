--------------------------- MODULE MCControlPlane ---------------------------
\* Three requests of every kind, in every combination.
EXTENDS ControlPlane
=============================================================================
