---------------------------- MODULE MCPairingHeap ---------------------------
(* A pairing heap of a few nodes.                                          *)
EXTENDS PairingHeap

=============================================================================
