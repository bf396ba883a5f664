------------------------- MODULE MCSocketConnection -------------------------
EXTENDS SocketConnection, TLC

Symmetry == Permutations(Conns) \cup Permutations(Threads)
=============================================================================
