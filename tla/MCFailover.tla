----------------------------- MODULE MCFailover -----------------------------
EXTENDS Failover

Three == 1..3
Four  == 1..4
=============================================================================
