------------------------------- MODULE MCSeat -------------------------------
EXTENDS Seat
=============================================================================
