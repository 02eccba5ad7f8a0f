\* Two loaders, one of which removes the file the other is about to read.
SPECIFICATION Spec
CONSTANTS
  p1 = p1
  p2 = p2
  t1 = t1
  t2 = t2
  Loaders = {p1, p2}
  TmpName <- OwnName
  Bodies = {b1, b2}
  Undecodable = {b2}
  Tokens <- AnyToken
  Files = {f1, f2, f3}
  Partial = Partial
  NoFile = NoFile
  NoBody = NoBody
  NoIntegrity = NoIntegrity
  BadToken = BadToken
INVARIANT NeverThrowsOnRead
