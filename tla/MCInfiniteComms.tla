-------------------------- MODULE MCInfiniteComms --------------------------
EXTENDS InfiniteComms
=============================================================================
