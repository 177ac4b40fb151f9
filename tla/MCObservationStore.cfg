\* Two sources with a run each; eight candidate rows; cursor times up to 3.
SPECIFICATION Spec
CONSTANTS
  s1 = s1
  s2 = s2
  r1 = r1
  r2 = r2
  NoObservation = NoObservation
  Source = {s1, s2}
  Run = {r1, r2}
  RetentionClass = {audit}
  Digest = {raw}
  Candidate <- Candidates
  Reorg = {g1}
  Detector = {detector}
  MaxTime = 3
INVARIANTS
  LineageSound
  LineageTerminates
  OneOriginalPerEvent
  CursorCoversObservations
  HintsWithinBoundary
PROPERTIES
  EvidenceAppendOnly
  CursorMovesWithEvidence
CHECK_DEADLOCK FALSE
