\* Two overlapping calls of an executable that is the program itself; the
\* model stops when they are done.
SPECIFICATION FairSpec
CONSTANTS
  Calls = {c1, c2}
  Wrapped = FALSE
INVARIANTS TypeOK NoDirectoryLeaked OutputIsReturned TimeoutTerminates
PROPERTY CallReturns
CHECK_DEADLOCK FALSE
