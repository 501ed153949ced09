------------------------------ MODULE MCOutput -------------------------------
EXTENDS Output
=============================================================================
