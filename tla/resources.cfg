SPECIFICATION MCSpec
CONSTANTS
  kA = kA  kB = kB  kC = kC  kD = kD  a = a  b = b  c = c  f1 = f1  f2 = f2  x = x  y = y
  Keys = {kA, kB, kC, kD}
  Ids = {a, b, c}
  IdOf <- MCIdOf
  Sources = {nested, constant, f1, f2}
  Nested = nested
  Constant = constant
  Hashes = {x, y}
  None = None
  MaxIndex = 2
  Provides <- MCProvides
  Virtual = {kC}
  Needs <- MCNeeds
  TypeOf <- MCIdOf
  MaxChanges = 2
INVARIANTS FreshAtRest
PROPERTIES DependentsUpdateToo
CHECK_DEADLOCK FALSE
SYMMETRY MCSymmetry
