\* Three callers of one isolate, two handles; no symmetry, for the liveness.
SPECIFICATION FairSpec
CONSTANTS
  c1 = c1
  c2 = c2
  c3 = c3
  i1 = i1
  i2 = i2
  Isolates = {i1}
  Callers = {c1, c2, c3}
  IsolateOf <- OneIsolate
  Handles = {h1, h2}
  NoHandle = NoHandle
  NoCaller = NoCaller
  NoIsolate = NoIsolate
INVARIANTS TypeOK NoUseAfterDestroy LiveHandleIsOwned OneSharedRuntime
PROPERTIES HandedOutReady SharedNeverReplaced InstanceIsShared CallsReturn
