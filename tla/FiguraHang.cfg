SPECIFICATION PageSpec
CONSTANTS
  Absent = Absent
  Pids = {p1}
  Diagram <- MCDiagram
  Theme <- MCThemes
  BundleFiles <- MCBundleFiles
  Machines <- MCMachines
  Contents <- MCUnclosed
  Pages = 2
  MaxKept = 3
  MaxCommands = 1
  Schemas <- MCSchemas
  Flags <- MCFlags
  Earlier <- MCEarlier
  Fittings <- MCFittings
  Sources <- MCSources
  SingularOf <- MCSingular
  ModelRank <- MCRank
CHECK_DEADLOCK FALSE
PROPERTY CommandEnds
