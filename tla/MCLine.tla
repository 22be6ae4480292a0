-------------------------------- MODULE MCLine --------------------------------
EXTENDS LineConsumers, TLC
===============================================================================
