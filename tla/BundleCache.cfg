\* Two loaders with temporary names of their own, two bodies.
SPECIFICATION Spec
CONSTANTS
  p1 = p1
  p2 = p2
  t1 = t1
  t2 = t2
  Loaders = {p1, p2}
  TmpName <- OwnName
  Bodies = {b1, b2}
  Undecodable = {b2}
  Tokens <- AnyToken
  Files = {f1, f2, f3}
  Partial = Partial
  NoFile = NoFile
  NoBody = NoBody
  NoIntegrity = NoIntegrity
  BadToken = BadToken
SYMMETRY Symmetry
INVARIANTS TypeOK ReturnsWhatWasAskedFor ReturnsWhatWasServed
PROPERTY CacheIsAtomic
