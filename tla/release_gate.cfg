SPECIFICATION Spec
CONSTANTS
  Candidates <- MCCandidates
  Paths <- MCPaths
  Binaries <- MCBinaries
  HostBinary = "host"
  PluginBinary = "pluginBinary"
  Versions <- MCVersions
  StartWorlds <- MCWorlds
  OptionSets <- MCOptions
  Edits <- MCEdits
  MaxChanges = 1
  StartReleases <- MCReleases
  VerifyWorlds <- MCVerifyWorlds
  VerifyOptions <- MCVerifyOptions
INVARIANTS TypeOK DoctorPassMeansSound DoctorVerdictExact VerifyPassMeansSound RunsOnlyVerified
PROPERTY DoctorEnds VerifyGate VerifyEnds
CHECK_DEADLOCK FALSE
