------------------------------- MODULE MCSinks -------------------------------
EXTENDS Sinks

CONSTANTS e1, e2, e3, p1, p2
=============================================================================
