------------------------------- MODULE MCBreaker -------------------------------
EXTENDS Breaker, TLC
===============================================================================
