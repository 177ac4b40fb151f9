\* Two ingesters of one source and one of another that shares an export id with
\* it; a feed with every kind of export; one failure or crash.
SPECIFICATION Spec
CONSTANTS
  s1 = s1
  s2 = s2
  i1 = i1
  i2 = i2
  i3 = i3
  NoObservation = NoObservation
  NoExport = NoExport
  Source = {s1, s2}
  Ingester = {i1, i2, i3}
  SourceOf <- TwoSources
  Feed <- MixedFeeds
  Run = {r1}
  Class = tenant_evidence
  DiscoveryLimit = 2
  MaxFaults = 1
  MaxTime = 4
SYMMETRY Symmetry
INVARIANTS
  NoGapInStore
  DrainedPassReportsAll
  EvidenceBeforeObservation
  CursorIsNewestObservation
PROPERTIES
  ImplementsStore
CHECK_DEADLOCK FALSE
