\* One call of a launcher; the model stops when it is done.
SPECIFICATION Spec
CONSTANTS
  Calls = {c1}
  Wrapped = TRUE
INVARIANT TimeoutTerminates
CHECK_DEADLOCK FALSE
