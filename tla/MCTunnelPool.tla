---------------------------- MODULE MCTunnelPool ----------------------------
\* Two processes, with pools of two tunnels.
EXTENDS TunnelPool

CONSTANTS a, b, s, t
TwoAgents == {a, b}
TwoSlots == {s, t}
=============================================================================
