\* Safety of acquire: the committed region survives every acquire branch.
CONSTANTS
  MaxCap <- MCMaxCap
  Sizes <- MCSizes
  Reserves <- MCReserves
  ChunkSizes <- MCChunkSizes
  MaxGen <- MCMaxGen
  SizeWidth <- MCSizeWidth
SPECIFICATION Spec
PROPERTY AcquireNoClobber
