SPECIFICATION MCSpec
CONSTANTS
  Services <- MCServices
  AgentChat = "agentchat"
  Packages <- MCPackages
  Entrypoint <- MCEntrypoint
  Imports <- MCImports
  TestImports <- MCTestImports
  NoPackage = NoPackage
  NoFile = NoFile
  NoRevision = NoRevision
  Diffs <- MCDiffs
  MaxPushes = 2
  MaxManual = 1
  MaxEchoes = 2
  MaxDeliveryFaults = 1
CHECK_DEADLOCK FALSE
INVARIANT HealthyIsStable
