\* One watching ingester; an export without an emission time.
SPECIFICATION FairSpec
CONSTANTS
  s1 = s1
  s2 = s2
  i1 = i1
  i2 = i2
  i3 = i3
  NoObservation = NoObservation
  NoExport = NoExport
  Source = {s1}
  Ingester = {i1}
  SourceOf <- OneSource
  Feed <- MalformedFeed
  Run = {r1}
  Class = tenant_evidence
  DiscoveryLimit = 2
  MaxFaults = 0
  MaxTime = 4
PROPERTIES
  FeedKeepsFlowing
CHECK_DEADLOCK FALSE
