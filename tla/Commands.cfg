CONSTANTS
  Procs = {p1, p2}
  Transcripts = {s1}
  NoKey = NoKey
  MaxRows = 3
  MaxRaced = 2
  MaxDeaths = 1
SPECIFICATION Spec
SYMMETRY ProcSymmetry
INVARIANTS NoDanglingReference RetiredPbisAreEmpty OneSessionPerTranscript
PROPERTY TasksDetachedOnlyByForce
