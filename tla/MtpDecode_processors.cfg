CONSTANTS
  Token <- MCToken
  Eos <- MCEos
  Trunk <- MCTrunk
  Process <- LogitBias
  Requests <- MCRequests
SPECIFICATION Spec
PROPERTY DecodesPlainly
