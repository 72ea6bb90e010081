\* A stage that changes the sample width in the space in front of its
\* input breaks ConverterSpec.
CONSTANTS
  Chains <- MCWidthChangingFrontChains
  SampleCounts <- MCSampleCounts
  Reserves <- MCReserves
  MaxCap <- MCMaxCap
  SizeWidth <- MCSizeWidth
SPECIFICATION Spec
PROPERTY ChainRefines
