CONSTANTS
  Token <- MCToken
  Eos <- MCEos
  Trunk <- MCTrunk
  Process <- NoProcessor
  Requests <- MCRequests
  \* Widths that divide the word, that straddle it, and its ends; rows of less
  \* than a block, of more, and of whole blocks.
  Widths = {1, 2, 3, 7, 8, 11, 13, 14, 16, 17, 31}
  Lengths = {1, 33, 64}
  \* Two rungs, one of which is edited.
  Rungs = {"first", "second"}
  Reference = "first"
  Edited = {"first"}
  Contents = {1, 2, 3}
  FirstContent = 1
  Looks <- MCLooks
  Envs <- MCEnvs
  FirstEnv <- MCFirstEnv
  Listed = {1, 2}
  MaxPasses = 2
  MaxChanges = 2
  MaxLadders = 2
  None = None
SPECIFICATION RuntimeSpec
INVARIANTS CodesAreRead KernelsAreRight PathsAgree ResultsAreHonest
PROPERTY DecodesPlainly
CHECK_DEADLOCK FALSE
