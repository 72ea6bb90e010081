\* Expected violation of NoCrash: a held device takes the process down.
CONSTANTS
  Devices = {d1, d2, d3}
  InitDevice = d1
  Confs = {pcm44, pcm48, ac3}
  NoConf = NoConf
  Ac3Confs = {ac3}
  Unsupported = {pcm48}
  Shareable = {d2, d3}
  FrameCounts = {1, 3}
  BufferFrames = 2
  StartThreshold = 2
  MaxSuspends = 2
SPECIFICATION Spec
INVARIANT NoCrash
