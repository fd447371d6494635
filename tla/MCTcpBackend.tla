---------------------------- MODULE MCTcpBackend ----------------------------
EXTENDS TcpBackend

CONSTANTS home, office
OneAddress   == {home}
TwoAddresses == {home, office}
=============================================================================
