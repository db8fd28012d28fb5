SPECIFICATION Spec
CONSTANTS
  Procs = {c1}
  Names <- SmallNames
  Images <- SmallImages
  Provisioned <- SmallProvisioned
  SystemMounts <- SmallSystemMounts
  Workspace <- SmallWorkspace
  ExtraMounts = {}
  Features <- SmallFeatures
  Hosts = {2, 4}
  Size = 2
  MaxId = 6
  MaxEdits = 1
INVARIANT FixPreparesOwnership
