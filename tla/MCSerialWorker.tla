---------------------------- MODULE MCSerialWorker ----------------------------
EXTENDS SerialWorker, TLC

Sym == Permutations(Cmds)

=============================================================================
