---------------------------- MODULE MCMembership ----------------------------
\* Two clients of one subscription and its manager.
EXTENDS Membership
=============================================================================
