SPECIFICATION ObservedSpec
CONSTANTS
  MaxContextId = 1
  MaxGeneration = 2
  MaxSequence = 20
  MaxLease = 9
  MaxOperation = 2
  CommandCapacity = 2
  EventCapacity = 3
  MaxContexts = 2
  MaxFrameBytes = 1
  MaxRetainedFrameBytes = 1
  MaxDocumentNodes = 2
  MaxResultNodes = 2
  MaxPayloadBytes = 2
  Batches <- OneNode
  FrameSizes = {1}
  NodeCharges = {1}
PROPERTIES
  ImplementsProgress
  ShutdownCompletes
  ImplementsProtocol
  BusyEnds
