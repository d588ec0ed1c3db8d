SPECIFICATION PlannedSpec
CONSTANTS
  MaxContextId = 2
  MaxGeneration = 3
  MaxSequence = 8
  MaxLease = 4
  MaxOperation = 3
  CommandCapacity = 2
  EventCapacity = 3
  MaxContexts = 2
  MaxFrameBytes = 2
  MaxRetainedFrameBytes = 2
  MaxDocumentNodes = 2
  MaxResultNodes = 2
  MaxPayloadBytes = 2
  Batches <- OneNode
  FrameSizes = {1, 3}
  NodeCharges = {1, 2}
  FrameFaults <- PlannedFaults
INVARIANTS
  RetainedExact
  WithinLimits
  BudgetsStand
  StyleFollowsDocument
  ClosedContextIsSilent
  PipelineMirrorsWorker
  PipelineKeepsContract
  LeasesNameOneProduct
  TypeOK
  EventsAreConsecutive
  CommitsAwaitTheirFrame
  GenerationsNeverGoBack
  PendingExact
  IdentitiesStand
  PageIsOneNavigation
  BusyContextsHaveWork
  LostWorkIsCancelled
