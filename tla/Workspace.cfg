SPECIFICATION Spec
CONSTANTS
  Requests = {r1, r2, r3}
  Nothing = Nothing
  Names <- SmallNames
  Paths <- SmallPaths
  Trees <- SmallTrees
INVARIANTS AnswersTrue TempsExplained AloneAsDocumented
SYMMETRY Symmetry
