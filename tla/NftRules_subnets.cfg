SPECIFICATION Spec
CONSTANTS
  Width = 3
  Bridges = {"br0", "br1"}
  Starts = {s1, s2}
  Configured <- TwoSubnets
  Found = {"nothing"}
  MaxForeign = 0
INVARIANT ServesOwnSubnet
