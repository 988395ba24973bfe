SPECIFICATION Spec
CONSTANTS
  w1 = w1
  w2 = w2
  m1 = m1
  m2 = m2
  a1 = a1
  a2 = a2
  b1 = b1
  Main = Main
  Workers = {w1, w2}
  Handles = {m1, m2, a1, a2, b1}
  Owner <- MCOwner
  Objs = {o1, o2, o3, o4}
  NoObj = NoObj
  Empty = Empty
  Vals = {Empty, v1}
SYMMETRY ObjSymmetry
INVARIANTS TypeOK NoDangling CountExact NoLeak WriteIsExclusive
PROPERTY WeightsAreValues
