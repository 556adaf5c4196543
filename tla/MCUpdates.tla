------------------------------- MODULE MCUpdates -------------------------------
EXTENDS Updates

=============================================================================
