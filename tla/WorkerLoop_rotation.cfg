SPECIFICATION FairSpec
CONSTANTS
  Names <- TwoNames
  Weights <- GivenWeights
  Numbers <- GivenNumbers
  MaxConcurrency = 2
  MaxErrors = 2
INVARIANTS TypeOK PollsWhenAllEmpty
PROPERTIES BoundedIdling NoStarvation
