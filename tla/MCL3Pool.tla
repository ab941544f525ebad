------------------------------ MODULE MCL3Pool ------------------------------
EXTENDS L3Pool
=============================================================================
