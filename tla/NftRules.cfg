SPECIFICATION Spec
CONSTANTS
  Width = 3
  Bridges = {"br0"}
  Starts = {s1, s2}
  Configured <- OneSubnet
  Found = {"nothing", "stamped", "old", "emptied"}
  MaxForeign = 2
INVARIANTS NoDuplicates OkMeansInstalled FailureExplained SettingsSound
SYMMETRY Symmetry
