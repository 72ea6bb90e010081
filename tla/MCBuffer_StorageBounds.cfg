\* Expected violation of StorageBounds.
CONSTANTS
  MaxCap <- MCMaxCap
  Sizes <- MCSizes
  Reserves <- MCReserves
  ChunkSizes <- MCChunkSizes
  MaxGen <- MCMaxGen
  SizeWidth <- MCSizeWidth
SPECIFICATION Spec
INVARIANT StorageBounds
