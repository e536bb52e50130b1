SPECIFICATION LocalSpec
CONSTANTS
  box = box  other = other
  None = None
  Sessions = {s1, s2}
  MaxF = 3
  Callers = {box, other}
  HostOf <- TwoHosts
  Commands = {s1, s2, s3}
  MaxEntries = 2
  Fits = {f1, f2}
  Fitters = {s1, s2}
  MaxCommands = 4
  Requests = {s1, s2}
  MaxFetches = 3
  Versions = {w1, w2}
  MaxTokens = 3
  MaxRuns = 3
  MaxCuts = 1
  Shells = {s1, s2}
  MaxSets = 2
  MaxLookups = 1
  Environments <- TwoEnvironments
  Settable <- ThreePlaces
  Words <- SomeWords
  Models = {"a", "b", "c"}
  Folders <- TwoPlaces
  NameOf <- Copies
  MaxChanges = 2
  MaxScans = 2
  MaxProfiles = 2
SYMMETRY Symmetry
CONSTRAINT Followed
INVARIANTS HoldersDiffer NothingBurnt ReleaseIsGated ResultsAreTrue FitsAreKept StartsAreSingle SettingsStand
PROPERTIES ReservationsHold DownloadsAreTrue
CHECK_DEADLOCK FALSE
