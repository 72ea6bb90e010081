CONSTANTS
  Targets <- MCTargets
  Existing <- MCExisting
  Contended <- MCContended
  DevChannels <- MCDevChannels
  MaxChannels <- MCMaxChannels
SPECIFICATION Spec
INVARIANT NoUseAfterClose
