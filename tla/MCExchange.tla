------------------------------ MODULE MCExchange ------------------------------
EXTENDS Exchange, TLC
Sym == Permutations(Procs)
===============================================================================
