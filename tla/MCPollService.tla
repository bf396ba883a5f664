--------------------------- MODULE MCPollService ---------------------------
EXTENDS PollService, TLC

\* What poll() returns for a TCP socket: nothing, not connected, readable,
\* hung up on both sides, reset.
MCRevents == {{}, {"POLLHUP"}, {"POLLIN"}, {"POLLIN", "POLLHUP"}, {"POLLIN", "POLLERR", "POLLHUP"}}

Symmetry == Permutations(Conns) \cup Permutations(Fds)
=============================================================================
