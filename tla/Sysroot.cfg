SPECIFICATION Spec
CONSTANTS
  Procs = {c1, c2}
  Names <- SmallNames
  Images <- SmallImages
  Provisioned <- SmallProvisioned
  SystemMounts <- SmallSystemMounts
  Workspace <- SmallWorkspace
  ExtraMounts <- SmallExtraMounts
  Features <- SmallFeatures
  Hosts = {2, 4, 5, 6}
  Size = 2
  MaxId = 6
  MaxEdits = 2
INVARIANTS CompleteInstall ShiftedOnce MarkerMeansShifted
PROPERTY NeverOverwritten
SYMMETRY Symmetry
