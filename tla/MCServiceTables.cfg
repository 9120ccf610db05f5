SPECIFICATION Spec
CONSTANTS
  Contexts = {1, 2, 3}
  MaxContexts = 2
  MaxPacketStates = 4
  Tables <- MCTables
  MptPid = "pa"
  Sections <- MCSections
  MediaPids = {"v", "d"}
  Assets = {"hevc", "other", "files"}
  Selections <- MCSelections
  NoService = NoService
  NoTable = NoTable
  NoPid = NoPid
INVARIANTS TypeOK ViewMatchesRouting WholeSubTables
PROPERTY ReroutingKeepsUnits
