\* Two programs of one page, three callers; other scripts may define qtConvert.
SPECIFICATION FairSpec
CONSTANTS
  a1 = a1
  a2 = a2
  c1 = c1
  c2 = c2
  c3 = c3
  Apps = {a1, a2}
  Callers = {c1, c2, c3}
  AppOf <- TwoApps
  OtherScripts = TRUE
INVARIANTS TypeOK OneTag ConvertsDefined
PROPERTIES DiagnosisIsRight CallsReturn
