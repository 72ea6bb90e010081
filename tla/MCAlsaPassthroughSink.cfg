CONSTANTS
  Devices <- MCDevices
  StreamChannels <- MCStreamChannels
  ClientRequests <- MCClientRequests
  PeriodSizes <- MCPeriodSizes
  BufferSizes <- MCBufferSizes
  MinPeriod <- MCMinPeriod
  CallFrames <- MCCallFrames
SPECIFICATION Spec
INVARIANT TypeOK
PROPERTY AddPacketsReturns
INVARIANT FormatMatchesHardware
INVARIANT ChannelLayoutFits
INVARIANT ChannelsCarried
