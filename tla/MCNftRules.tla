----------------------------- MODULE MCNftRules -----------------------------
(* NftRules on a small instance: addresses of three bits. *)
EXTENDS NftRules

Net(bridge, address, prefix, gateway, ip) ==
  [bridge |-> bridge, parses |-> TRUE,
   subnet |-> [address |-> address, prefix |-> prefix],
   gateway |-> gateway, address |-> ip]

(* One network, and one that network_settings refuses. *)
OneSubnet == {Net("br0", 0, 1, 1, 2), Net("br0", 0, 1, 1, 3)}

(* Two instances whose addresses do not conflict, as README.md asks. *)
TwoSubnets == {Net("br0", 0, 1, 1, 2), Net("br1", 4, 1, 5, 6)}

(* Starts are interchangeable. *)
Symmetry == Permutations(Starts)
=============================================================================
