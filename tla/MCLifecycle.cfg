SPECIFICATION Spec
CONSTANTS
  a = a
  b = b
  Var = {a, b}
  Kinds <- AllKinds
  MaxObjects = 3
  MaxHandle = 9
INVARIANTS
  HandlesOwned
  DestroyedWhenUnreferenced
  LossesExplained
