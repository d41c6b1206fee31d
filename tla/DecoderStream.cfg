SPECIFICATION Spec
CONSTANTS
  Rels = {r1, r2}
  Layouts <- MCLayouts
  Xids = {x1, x2}
  KeyValues = {1, 2}
  Values = {1}
  Null = null
  Missing = missing
INVARIANTS
  DecodedFaithfully
  FailsOnlyWhenCut
