\* A daemon and one more process over one database of two migrations,
\* which a later build may have brought further.
SPECIFICATION FairSpec
CONSTANTS
  p1 = p1
  p2 = p2
  Process = {p1, p2}
  Latest = 2
  Newest = 3
  Nobody = Nobody
  NoLedger = NoLedger
  MaxFaults = 1
  Absent = Absent
  Refused = Refused
  Roles <- MCRoles
  FilesAtFirst <- MCFilesAtFirst
  Configs <- MCConfigs
  Manifests <- MCManifests
  RpcFiles <- MCRpcFiles
  Override = Absent
  MaxEdits = 1
INVARIANTS
  SchemaIsRecorded
  UnversionedIsRefused
  ChainsAsConfigured
PROPERTIES
  EveryoneServes
\* With a configuration nobody can load, no process gets any further.
CHECK_DEADLOCK FALSE
