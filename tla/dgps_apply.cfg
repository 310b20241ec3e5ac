SPECIFICATION Spec
CONSTANTS
  Sats = {1, 2}
  BaseRange <- MCBaseRange
  RoverRange <- MCRoverRange
  Biases <- MCBiases
  MaxChanges = 2
INVARIANT CorrectionIsApplied
