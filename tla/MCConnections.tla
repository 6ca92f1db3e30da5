--------------------------- MODULE MCConnections ---------------------------
EXTENDS Connections, TLC

CONSTANTS c1, c2
=============================================================================
