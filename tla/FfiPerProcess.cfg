\* Two callers of one isolate and one of another, two handles, no symmetry.
SPECIFICATION Spec
CONSTANTS
  c1 = c1
  c2 = c2
  c3 = c3
  i1 = i1
  i2 = i2
  Isolates = {i1, i2}
  Callers = {c1, c2, c3}
  IsolateOf <- TwoIsolates
  Handles = {h1, h2}
  NoHandle = NoHandle
  NoCaller = NoCaller
  NoIsolate = NoIsolate
INVARIANT OneRuntimePerProcess
