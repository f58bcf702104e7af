------------------------------ MODULE MCEgress ------------------------------
EXTENDS Egress
=============================================================================
