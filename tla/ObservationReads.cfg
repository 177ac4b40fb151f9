\* Two concurrent appends and a reader for two tenants over one source.
SPECIFICATION ReadsSpec
CONSTANTS
  s1 = s1
  r1 = r1
  NoObservation = NoObservation
  NoWriter = NoWriter
  Absent = Absent
  Everyone = Everyone
  Source = {s1}
  Run = {r1}
  RetentionClass = {audit}
  Digest = {raw}
  Candidate <- Candidates
  Reorg = {}
  Detector = {}
  MaxTime = 3
  Writer = {w1, w2}
  ApiKeys <- Keys
  Requests <- Headers
  Limits = {2}
  Profiles <- Accounts
  References <- Refs
  Relationships <- Rels
INVARIANTS
  ReadsWholeObservation
  AnswersAreTheHistory
  ReferencesCanBeFollowed
PROPERTIES
  ImplementsStore
SYMMETRY Writers
CHECK_DEADLOCK FALSE
