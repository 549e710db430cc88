SPECIFICATION Spec
CONSTANTS
  Ids = {c1, c2}
  Images <- MCImages
  Wirings <- MCWirings
  EnvEntries <- MCEnvEntries
  MaxChanges = 1
SYMMETRY IdSymmetry
INVARIANTS
  ReportSound
  StableIsReported
