\* Sizes 0, 1 and 2, one scale change, four surface revisions, one frame in the
\* shell and two in the presenter alone, queues of one and two events.
SPECIFICATION AnyFairSpec
CONSTANTS
    Sizes = {0, 1, 2}
    Scales = {1, 2}
    MaxRevision = 4
    MaxFrames = 1
    SoloFrames = 2
    Capacities = {1, 2}
    None = None
    Blank = Blank
INVARIANTS
    ContractsAgree
    HitTestNamesShownFrame
    SurfaceViewsAgree
    RedrawStillComing
PROPERTIES
    StopsOnce
    StopIsDelivered
CHECK_DEADLOCK FALSE
