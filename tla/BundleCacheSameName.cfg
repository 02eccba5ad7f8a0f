\* Two isolates of one process that compute the same temporary name.
SPECIFICATION Spec
CONSTANTS
  p1 = p1
  p2 = p2
  t1 = t1
  t2 = t2
  Loaders = {p1, p2}
  TmpName <- SameName
  Bodies = {b1}
  Undecodable = {}
  Tokens <- AnyToken
  Files = {f1, f2, f3}
  Partial = Partial
  NoFile = NoFile
  NoBody = NoBody
  NoIntegrity = NoIntegrity
  BadToken = BadToken
INVARIANT NeverHalfWritten
