------------------------------ MODULE MCStream ------------------------------
EXTENDS Stream

\* A body of one byte, and one that does not fit in the buffers.
MCSize == [t \in Types |-> IF t = "short" THEN 1 ELSE 3]
=============================================================================
