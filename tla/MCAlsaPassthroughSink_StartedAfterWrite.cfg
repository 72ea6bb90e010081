CONSTANTS
  Devices <- MCDevices
  StreamChannels <- MCStreamChannels
  ClientRequests <- MCClientRequests
  PeriodSizes <- MCPeriodSizes
  BufferSizes <- MCBufferSizes
  MinPeriod <- MCMinPeriod
  CallFrames <- MCCallFrames
SPECIFICATION Spec
INVARIANT StartedAfterWrite
