SPECIFICATION Spec
CONSTANTS
  t1 = t1  t2 = t2
  v1 = v1  v2 = v2
  Types <- MCTypes
  Values <- MCValues
  MaxEntities = 2
  GenerationCount = 2
SYMMETRY Symmetry
INVARIANTS
  WorldTypeOK
  QueriesExact
PROPERTY
  ImplementsEntityStore
