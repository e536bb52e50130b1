SPECIFICATION BuildsSpec
CONSTANTS
  None = None
  MoeShards = {1, 2}
  TailShards = {2}
  Flags = {1, 2}
  MoeRuns = 3
  Modules = {"m", "n"}
  Geoms = {1, 2}
  Pool <- FirstGeometry
  RefitRuns = 3
  Experts = {"m", "n", "p"}
  Banked = {"m", "n"}
  Targets <- TwoTargets
  Texts <- TwoTexts
  BaseCode <- SomeCodes
  BaseScale <- SomeScales
  Codebook <- FourCodewords
  MaxBanks = 2
  SelectRuns = 2
  FolderTools = 3
  RecordFiles = {"config", "model"}
  RecordEdits = 1
  RecordJobs = 3
  VolumeEdits = 1
INVARIANTS ChainIsSound FitIsWhole BuildIsAsRecorded FoldersAgree
PROPERTIES SourcesSurvive ReclaimIsSafe
CHECK_DEADLOCK FALSE
