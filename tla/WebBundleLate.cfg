\* The same page, where only the bundle defines qtConvert.
SPECIFICATION FairSpec
CONSTANTS
  a1 = a1
  a2 = a2
  c1 = c1
  c2 = c2
  c3 = c3
  Apps = {a1, a2}
  Callers = {c1, c2, c3}
  AppOf <- TwoApps
  OtherScripts = FALSE
PROPERTY ResolvesWhenDefined
