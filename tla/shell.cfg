SPECIFICATION ShellSpec
CONSTANTS
  MaxContextId = 2
  MaxGeneration = 2
  MaxSequence = 7
  MaxLease = 9
  MaxOperation = 2
  CommandCapacity = 2
  EventCapacity = 3
  MaxContexts = 2
  MaxFrameBytes = 1
  MaxRetainedFrameBytes = 1
  MaxDocumentNodes = 2
  MaxResultNodes = 2
  MaxPayloadBytes = 2
  Batches = {}
  FrameSizes = {1}
  NodeCharges = {1}
  MaxTabs = 2
  MaxClosing = 1
  MaxLedger = 3
  MaxSessionFrameBytes = 2
  Itineraries <- TwoInAll
  Sizes = {"Viewport", "Other"}
  Compositions = {TRUE}
  MaxRejections = 1
INVARIANTS
  WindowShowsItsTab
  PollsWhileOutstanding
