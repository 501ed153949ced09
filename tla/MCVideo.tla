------------------------------ MODULE MCVideo -------------------------------
EXTENDS Video
=============================================================================
