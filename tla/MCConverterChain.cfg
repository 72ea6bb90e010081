\* Every stage converts its input into the space it acquired, chains whose
\* front-space stages keep the sample width implement ConverterSpec, and
\* canIntersect, which decides which chains link, is right.
CONSTANTS
  Chains <- MCSameWidthFrontChains
  SampleCounts <- MCSampleCounts
  Reserves <- MCReserves
  MaxCap <- MCMaxCap
  SizeWidth <- MCSizeWidth
SPECIFICATION Spec
PROPERTY StageConverts
PROPERTY ChainRefines
