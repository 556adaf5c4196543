------------------------------- MODULE MCServers -------------------------------
EXTENDS Servers

CONSTANT c

MCClients == {c}
=============================================================================
