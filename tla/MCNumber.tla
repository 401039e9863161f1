------------------------------ MODULE MCNumber ------------------------------
EXTENDS NumberProperties
=============================================================================
