------------------------ MODULE BrowserSession_proofs ------------------------
(* The session controller on the engine, for every number of tabs and every   *)
(* limit: whatever the session does to the engine is a step of the engine's   *)
(* own specification, so what is proved of the engine holds under it, and the *)
(* session never meets an event out of sequence.                              *)
EXTENDS BrowserSession, NavigationEngine_proofs

(* The session's tabs are named by contexts the engine may be asked for, and  *)
(* the engine's handle is the session's until it is joined.                   *)
SessionOwns ==
  /\ DOMAIN tabs \subseteq ContextId
  /\ next_context \in Nat \ {0}
  /\ handle \in {"Owned", "Joining", "Joined"}

LEMMA EndKeeps ==
  ASSUME NEW reason, End(reason) PROVE DOMAIN tabs' = {} /\ UNCHANGED next_context
  BY EmptyMapIsEmpty DEF End

LEMMA OwnsInit == SessionInit => SessionOwns
  BY EngineLimitsAssumption DEF SessionInit, SessionOwns, ContextId

(* The handle moves only in the steps of ShutdownPort.                        *)
LEMMA HandleStep ==
  ASSUME SessionOwns, [SessionNext]_browser PROVE handle' \in {"Owned", "Joining", "Joined"}
<1>1. ASSUME ShutdownPort PROVE handle' \in {"Owned", "Joining", "Joined"}
  BY <1>1 DEF ShutdownPort, RequestShutdown, Join, SessionOwns
<1>2. ASSUME Command \/ Pump PROVE handle' = handle
  BY <1>2, ZenonT(60) DEF Command, Pump, OpenTab, Shutdown, CommandFindsStopped, SendNavigation,
     Stop, CloseTab, RequestRerender, TakeTabFrame, Poll, PollClosed, ApplyNavigation, ApplyFrame,
     ApplyRerender, ApplyRetired, ApplyEnd, Applied, Navigate, Cancel, CloseContext,
     RerenderDocument, AdmitDocumentOperation, vars
<1>3. ASSUME SessionWorker \/ SessionOver \/ UNCHANGED browser PROVE handle' = handle
  BY <1>3 DEF SessionWorker, SessionOver, browser, vars
<1> QED BY <1>1, <1>2, <1>3 DEF SessionNext, SessionOwns

(* A tab is opened below the last context identity and never renamed.         *)
LEMMA TabsStep ==
  ASSUME SessionOwns, [SessionNext]_browser
  PROVE DOMAIN tabs' \subseteq ContextId /\ next_context' \in Nat \ {0}
<1> USE DEF SessionOwns
<1>1. ASSUME OpenTab PROVE DOMAIN tabs' \subseteq ContextId /\ next_context' \in Nat \ {0}
  BY <1>1, EngineLimitsAssumption DEF OpenTab, Put, ContextId
<1>2. ASSUME NEW reason, End(reason)
      PROVE DOMAIN tabs' \subseteq ContextId /\ next_context' \in Nat \ {0}
  BY <1>2, EndKeeps
<1>3. ASSUME NEW c, SendNavigation(c), \A reason : ~ End(reason)
      PROVE DOMAIN tabs' = DOMAIN tabs /\ UNCHANGED next_context
  BY <1>3 DEF SendNavigation
<1>4. ASSUME NEW c, CloseTab(c), \A reason : ~ End(reason)
      PROVE DOMAIN tabs' \subseteq DOMAIN tabs /\ UNCHANGED next_context
  BY <1>4 DEF CloseTab, Restrict
<1>5. ASSUME NEW c, RequestRerender(c) \/ TakeTabFrame(c) \/ Stop(c), \A reason : ~ End(reason)
      PROVE DOMAIN tabs' = DOMAIN tabs /\ UNCHANGED next_context
  BY <1>5 DEF RequestRerender, TakeTabFrame, Stop, controller, tabState
<1>6. ASSUME ApplyNavigation \/ ApplyFrame \/ ApplyRerender \/ ApplyRetired
      PROVE DOMAIN tabs' = DOMAIN tabs /\ UNCHANGED next_context
  BY <1>6 DEF ApplyNavigation, ApplyFrame, ApplyRerender, ApplyRetired, Applied
<1>7. ASSUME Poll \/ ShutdownPort \/ SessionWorker \/ SessionOver \/ UNCHANGED browser
      PROVE UNCHANGED <<tabs, next_context>>
  BY <1>7 DEF Poll, ShutdownPort, SessionWorker, SessionOver, browser, controller, tabState
<1>8. ASSUME Shutdown \/ CommandFindsStopped \/ PollClosed \/ ApplyEnd PROVE \E reason : End(reason)
  BY <1>8 DEF Shutdown, CommandFindsStopped, PollClosed, ApplyEnd
<1> QED BY <1>1, <1>2, <1>3, <1>4, <1>5, <1>6, <1>7, <1>8 DEF SessionNext, Command, Pump

(*********************** the session drives the engine *********************)

(* A navigation the session sends is one the engine's client may send: it is  *)
(* below the last generation, because the engine allocated it.                *)
LEMMA SendsAsClient ==
  ASSUME TypeOK, SessionOwns, NEW c \in DOMAIN tabs, SendNavigation(c) PROVE ClientStep
<1> DEFINE g == AllocatedGeneration(c)
<1>1. Navigate(Nav(c, g)) /\ UNCHANGED worker
  BY DEF SendNavigation
<1>2. QueueInNewContext(Nav(c, g)) \/ QueueInContext(Nav(c, g))
  BY <1>1 DEF Navigate
<1>3. g \in Generation
  <2>1. CASE c \in DOMAIN contexts
    <3>1. contexts[c].latest_generation \in Generation
      BY <2>1 DEF TypeOK, ContextsOK, IsContexts, ContextType
    <3>2. contexts[c].latest_generation < MaxGeneration
      BY <1>2, <2>1 DEF QueueInNewContext, QueueInContext, Nav
    <3> QED BY <2>1, <3>1, <3>2, EngineLimitsAssumption DEF AllocatedGeneration, Generation
  <2>2. CASE c \notin DOMAIN contexts
    BY <2>2, EngineLimitsAssumption DEF AllocatedGeneration, Generation
  <2> QED BY <2>1, <2>2
<1>4. Nav(c, g) \in NavigationId
  BY <1>3 DEF SessionOwns, Nav, NavigationId
<1> QED BY <1>1, <1>4 DEF ClientStep, ClientNext

LEMMA StopsAsClient ==
  ASSUME TypeOK, NEW c \in DOMAIN tabs, Stop(c) PROVE ClientStep
<1> DEFINE t == Token(Nav(c, tabs[c].loading), 0)
<1>1. Cancel(t) /\ UNCHANGED worker
  BY DEF Stop
<1>2. t \in Actives(contexts)
  BY <1>1 DEF Cancel
<1>3. t \in TokenId
  BY <1>2 DEF Actives, TypeOK, ContextsOK, IsContexts, ContextType, AnyToken
<1> QED BY <1>1, <1>3 DEF ClientStep, ClientNext

LEMMA ClosesAsClient ==
  ASSUME TypeOK, NEW c \in DOMAIN tabs, CloseTab(c) PROVE ClientStep \/ UNCHANGED vars
<1> DEFINE n == Nav(c, tabs[c].latest)
<1>1. ASSUME CloseContext(n), UNCHANGED worker PROVE ClientStep
  <2>1. IsCurrent(n)
    BY <1>1 DEF CloseContext
  <2>2. n \in NavigationId
    BY <2>1 DEF IsCurrent, Nav, NavigationId, TypeOK, ContextsOK, IsContexts, ContextType
  <2> QED BY <1>1, <2>2 DEF ClientStep, ClientNext
<1> QED BY <1>1 DEF CloseTab

LEMMA RerendersAsClient ==
  ASSUME TypeOK, NEW c \in DOMAIN tabs, RequestRerender(c) PROVE ClientStep \/ UNCHANGED vars
<1> DEFINE n == Nav(c, tabs[c].live)
<1>1. ASSUME RerenderDocument(n), UNCHANGED worker PROVE ClientStep
  <2>1. c \in DOMAIN contexts /\ contexts[c].document.navigation = n
    BY <1>1 DEF RerenderDocument, AdmitsDocumentOperation, Nav
  <2>2. n \in AnyNavigation /\ c # 0
    BY <2>1 DEF TypeOK, ContextsOK, IsContexts, ContextType, DocumentType, ContextId
  <2>3. n \in NavigationId
    BY <2>2 DEF AnyNavigation, NoNavigation, Nav
  <2> QED BY <1>1, <2>3 DEF ClientStep, ClientNext
<1> QED BY <1>1 DEF RequestRerender

(* The executors of the browser return some of what the trait admits.         *)
LEMMA WorksAsWorker == ASSUME SessionWorker PROVE WorkerStep
<1>1. ASSUME NEW o \in RerenderOutcomes, FinishDocument(o)
      PROVE \/ work.kind = "Mutate" /\ o \in MutationOutcomes
            \/ work.kind = "Rerender"
  BY <1>1 DEF FinishDocument, MutationOutcomes
<1> QED BY <1>1 DEF SessionWorker, WorkerStep, WorkerNext

LEMMA SessionDrivesEngine ==
  ASSUME TypeOK, SessionOwns, [SessionNext]_browser PROVE [Next]_vars
<1>1. ASSUME Command PROVE [Next]_vars
  <2>1. ASSUME OpenTab \/ Shutdown \/ CommandFindsStopped PROVE UNCHANGED vars
    BY <2>1 DEF OpenTab, Shutdown, CommandFindsStopped
  <2>2. ASSUME NEW c, TakeTabFrame(c) PROVE UNCHANGED vars
    BY <2>2 DEF TakeTabFrame
  <2> QED BY <1>1, <2>1, <2>2, SendsAsClient, StopsAsClient, ClosesAsClient, RerendersAsClient
          DEF Command, Next
<1>2. ASSUME Poll PROVE ReceiverStep
  BY <1>2 DEF Poll, ReceiverStep, ReceiverNext, SessionOwns
<1>3. ASSUME Transfer, UNCHANGED <<worker, handle>> PROVE [Next]_vars
  <2>1. ASSUME TakeNavigationCommit(subject) PROVE ReceiverStep
    <3>1. subject \in NavigationId
      BY <2>1 DEF TakeNavigationCommit, TypeOK, StoresOK
    <3> QED BY <1>3, <2>1, <3>1 DEF ReceiverStep, ReceiverNext, SessionOwns
  <2>2. ASSUME TakeFrame(subject.context) PROVE ReceiverStep
    <3>1. subject.context \in ContextId
      BY <2>2 DEF TakeFrame, TypeOK, ContextsOK, IsContexts
    <3> QED BY <1>3, <2>2, <3>1 DEF ReceiverStep, ReceiverNext, SessionOwns
  <2> QED BY <1>3, <2>1, <2>2 DEF Transfer, Next, vars
<1>4. ASSUME ApplyNavigation \/ ApplyFrame \/ ApplyRerender \/ ApplyRetired
      PROVE Transfer /\ UNCHANGED <<worker, handle>>
  BY <1>4 DEF ApplyNavigation, ApplyFrame, ApplyRerender, ApplyRetired, Applied
<1>5. ASSUME PollClosed \/ ApplyEnd \/ SessionOver \/ UNCHANGED browser PROVE UNCHANGED vars
  BY <1>5 DEF PollClosed, ApplyEnd, SessionOver, browser
<1>6. ASSUME ShutdownPort PROVE ClientStep \/ ReceiverStep
  BY <1>6 DEF ShutdownPort, ClientStep, ClientNext, ReceiverStep, ReceiverNext
<1> QED BY <1>1, <1>2, <1>3, <1>4, <1>5, <1>6, WorksAsWorker DEF SessionNext, Pump, Next

EngineInv ==
  /\ TypeOK /\ ReservedBelowLimits
  /\ TerminalIsLast /\ EventsAreConsecutive /\ CommitsAwaitTheirFrame
  /\ IdentitiesStand /\ StyleInv

(* The session starts where a successful spawn leaves the engine.             *)
LEMMA EngineInvInit == SessionInit => EngineInv
<1> SUFFICES ASSUME SessionInit PROVE EngineInv
  OBVIOUS
<1>1. TypeOK
  BY EmptyMapIsEmpty, EngineLimitsAssumption
  DEF SessionInit, Init, TypeOK, StopOK, StylesOK, QueuesOK, StreamOK, ContextsOK, IsContexts, StoresOK,
      CountersOK, WorkerOK, HandlesOK, LifecycleType, Running, EmptyMap, NoWork, CloseWork,
      WorkType, Token, AnyToken, NoToken, NoReserved, NoNavigation, Reasons
<1>2. TerminalIsLast /\ EventsAreConsecutive /\ CommitsAwaitTheirFrame
  BY DEF SessionInit, Init, TerminalIsLast, EventsAreConsecutive, CommitsAwaitTheirFrame
<1>3. ReservedBelowLimits /\ IdentitiesStand /\ StyleInv
  BY EmptyMapIsEmpty DEF SessionInit, Init, ReservedBelowLimits, IdentitiesStand, DocumentExecutes,
     StyleInv, ContextsWereAdmitted, ExecutingPage, StyleFollowsDocument,
     CommitmentsFollowDocuments, StylesOf, FirstVersions, Running
<1> QED BY <1>1, <1>2, <1>3 DEF EngineInv

LEMMA EngineInvStep ==
  ASSUME EngineInv, [Next]_vars PROVE EngineInv'
<1>1. TypeOK'
  BY ClientType, ReceiverType, WorkerType, SpawnType, StutterType DEF EngineInv, Next, Rest
<1> QED BY <1>1, ReservedStep, TerminalStep, ConsecutiveStep, CommitsStep, IdentitiesStep, StyleStep
        DEF EngineInv

LEMMA JointStep ==
  ASSUME EngineInv, SessionOwns, [SessionNext]_browser PROVE EngineInv' /\ SessionOwns'
<1>1. EngineInv'
  BY SessionDrivesEngine, EngineInvStep DEF EngineInv
<1>2. SessionOwns'
  BY HandleStep, TabsStep DEF SessionOwns
<1> QED BY <1>1, <1>2

(* What is proved of the engine alone holds of the engine the session drives, *)
(* because every command, poll, transfer and shutdown of session.rs and       *)
(* engine.rs is a step a client or a receiver of the engine may take: types   *)
(* and identity counters, the event sequence, the commit records, the         *)
(* reservations and the style authorities.                                    *)
THEOREM EngineUnderSession ==
  SessionSpec => [](TypeOK /\ EventsAreConsecutive /\ CommitsAwaitTheirFrame
                    /\ IdentitiesStand /\ StyleFollowsDocument)
<1>1. SessionInit => EngineInv /\ SessionOwns
  BY EngineInvInit, OwnsInit
<1>2. EngineInv /\ SessionOwns /\ [SessionNext]_browser => EngineInv' /\ SessionOwns'
  BY JointStep
<1>3. EngineInv => TypeOK /\ EventsAreConsecutive /\ CommitsAwaitTheirFrame
                   /\ IdentitiesStand /\ StyleFollowsDocument
  BY DEF EngineInv, StyleInv
<1> QED BY <1>1, <1>2, <1>3, PTL DEF SessionSpec

(*************************** the event sequence ****************************)

(* How far the queue and the terminal event run ahead of the receiver.        *)
Ahead == Len(events) + (IF terminal_event = NoEvent THEN 0 ELSE 1)
TerminalCompletes == terminal_event # NoEvent => terminal_event.kind = "ShutdownComplete"

(* While the session runs, what it has applied, the event in its hand and     *)
(* what is queued are one sequence without a gap. Behind the terminal event   *)
(* nothing is expected.                                                       *)
InSequence ==
  /\ last_sequence \in Nat
  /\ event = NoEvent => next_event_sequence - Ahead = last_sequence + 1
  /\ event # NoEvent =>
       /\ event.sequence = last_sequence + 1
       /\ event.kind = "ShutdownComplete" \/ next_event_sequence - Ahead = last_sequence + 2

SequenceInv ==
  /\ TerminalCompletes
  /\ session = "Running" => InSequence
  /\ session # "Running" => event = NoEvent
  /\ session # "EngineEventSequence"

(* Whatever the worker publishes is counted and queued together.              *)
LEMMA WorkerKeepsAhead ==
  ASSUME TypeOK, TerminalIsLast, TerminalCompletes, WorkerStep
  PROVE TerminalCompletes' /\ next_event_sequence' - Ahead' = next_event_sequence - Ahead
<1> DEFINE Goal == TerminalCompletes' /\ next_event_sequence' - Ahead' = next_event_sequence - Ahead
<1>1. terminal_event = NoEvent /\ Len(events) \in Nat /\ next_event_sequence \in Nat
  BY WorkerStream DEF TerminalIsLast, TypeOK, StreamOK
<1>2. ASSUME Unmoved PROVE Goal
  BY <1>2 DEF Unmoved, stream, Ahead, TerminalCompletes
<1>3. ASSUME PushesOne PROVE Goal
  <2>1. PICK kind, token, lease, result : Push(kind, token, lease, result)
    BY <1>3 DEF PushesOne
  <2>2. Len(events') = Len(events) + 1
    BY <2>1 DEF Push, TypeOK, StreamOK
  <2> QED BY <1>1, <2>1, <2>2 DEF Push, Ahead, TerminalCompletes
<1>4. ASSUME Publishes PROVE Goal
  <2>1. PICK o : PublishSuccess(o)
    BY <1>4 DEF Publishes
  <2> DEFINE a == Event(next_event_sequence, "NavigationCommitted", work.token, 0, 0)
             b == Event(next_event_sequence + 1, "FrameReady", work.token, next_frame_lease, 0)
  <2>2. /\ events' = events \o <<a, b>> /\ next_event_sequence' = next_event_sequence + 2
        /\ terminal_event' = terminal_event
    BY <2>1, ZenonT(60) DEF PublishSuccess
  <2>3. Len(events') = Len(events) + 2
    <3> HIDE DEF a, b
    <3> QED BY <2>2 DEF TypeOK, StreamOK
  <2> QED BY <1>1, <2>2, <2>3 DEF Ahead, TerminalCompletes
<1>5. ASSUME Completes PROVE Goal
  BY <1>1, <1>5 DEF Completes, Event, NoEvent, Ahead, TerminalCompletes
<1> QED BY <1>2, <1>3, <1>4, <1>5, WorkerStream

LEMMA EndInSequence ==
  ASSUME SequenceInv, TerminalCompletes', NEW reason, End(reason),
         reason \notin {"Running", "EngineEventSequence"}
  PROVE SequenceInv'
  BY DEF SequenceInv, End

(* A step that leaves the stream and what the session has read alone.         *)
LEMMA StillInSequence ==
  ASSUME SequenceInv, UNCHANGED <<stream, last_sequence, event, session>> PROVE SequenceInv'
  BY DEF SequenceInv, TerminalCompletes, InSequence, Ahead, stream

LEMMA PollInSequence ==
  ASSUME EngineInv, SequenceInv, Poll PROVE SequenceInv'
<1>1. /\ session = "Running" /\ event = NoEvent /\ InSequence
      /\ UNCHANGED <<last_sequence, session>>
  BY DEF Poll, Idle, SequenceInv
<1>2. events \in Seq(EventType) /\ next_event_sequence \in Nat
  BY DEF EngineInv, TypeOK, StreamOK
<1>3. CASE Receive /\ event' = Head(events)
  <2>1. /\ events # <<>> /\ events' = Tail(events)
        /\ UNCHANGED <<terminal_event, next_event_sequence>>
    BY <1>3 DEF Receive
  <2>2. Len(events) \in Nat /\ Len(events) > 0 /\ Len(events') = Len(events) - 1
    BY <1>2, <2>1
  <2>3. event' = events[1] /\ 1 \in DOMAIN events
    BY <1>2, <1>3, <2>2
  <2>4. events[1].sequence = next_event_sequence - Ahead
    <3>1. EventsAreConsecutive
      BY DEF EngineInv
    <3>2. CASE terminal_event = NoEvent
      BY <1>2, <2>2, <2>3, <3>1, <3>2 DEF EventsAreConsecutive, Ahead
    <3>3. CASE terminal_event # NoEvent
      BY <1>2, <2>2, <2>3, <3>1, <3>3 DEF EventsAreConsecutive, Ahead
    <3> QED BY <3>2, <3>3
  <2>5. next_event_sequence' - Ahead' = next_event_sequence - Ahead + 1
    BY <1>2, <2>1, <2>2 DEF Ahead
  <2>6. next_event_sequence - Ahead = last_sequence + 1 /\ last_sequence \in Nat
    BY <1>1 DEF InSequence
  <2>7. event'.sequence = last_sequence' + 1 /\ next_event_sequence' - Ahead' = last_sequence' + 2
    BY <1>1, <2>3, <2>4, <2>5, <2>6
  <2>8. event' # NoEvent
    BY <2>6, <2>7, <1>1 DEF NoEvent, Event
  <2>9. TerminalCompletes'
    BY <2>1 DEF SequenceInv, TerminalCompletes
  <2> HIDE DEF Ahead
  <2> QED BY <1>1, <2>6, <2>7, <2>8, <2>9 DEF SequenceInv, InSequence
<1>4. CASE ReceiveTerminal /\ event' = terminal_event
  <2>1. events = <<>> /\ terminal_event # NoEvent /\ terminal_event' = NoEvent
    BY <1>4 DEF ReceiveTerminal
  <2>2. terminal_event.sequence = next_event_sequence - 1
    BY <2>1 DEF EngineInv, EventsAreConsecutive
  <2>3. next_event_sequence - 1 = last_sequence + 1 /\ last_sequence \in Nat
    BY <1>1, <1>2, <2>1 DEF InSequence, Ahead
  <2>4. terminal_event.kind = "ShutdownComplete"
    BY <2>1 DEF SequenceInv, TerminalCompletes
  <2> QED BY <1>1, <1>4, <2>1, <2>2, <2>3, <2>4 DEF SequenceInv, InSequence, TerminalCompletes
<1> QED BY <1>3, <1>4 DEF Poll

(* Taking a commit or a frame leaves the stream alone, so the event that was  *)
(* next when it was received still is when it has been applied.               *)
LEMMA ApplyInSequence ==
  ASSUME SequenceInv, ApplyNavigation \/ ApplyFrame \/ ApplyRerender \/ ApplyRetired
  PROVE SequenceInv'
<1>1. /\ Applies /\ Transfer
      /\ last_sequence' = event.sequence /\ event' = NoEvent /\ UNCHANGED session
  BY DEF ApplyNavigation, ApplyFrame, ApplyRerender, ApplyRetired, Applied
<1>2. UNCHANGED stream
  BY <1>1 DEF Transfer, TakeNavigationCommit, TakeFrame, shared
<1>3. event # NoEvent /\ event.kind # "ShutdownComplete"
  BY <1>1 DEF Applies
<1>4. UNCHANGED Ahead /\ TerminalCompletes'
  BY <1>2 DEF stream, Ahead, SequenceInv, TerminalCompletes
<1>5. ASSUME session = "Running" PROVE InSequence'
  <2>1. /\ last_sequence \in Nat /\ event.sequence = last_sequence + 1
        /\ next_event_sequence - Ahead = last_sequence + 2
    BY <1>3, <1>5 DEF SequenceInv, InSequence
  <2>2. UNCHANGED next_event_sequence
    BY <1>2 DEF stream
  <2> HIDE DEF Ahead
  <2> QED BY <1>1, <1>4, <2>1, <2>2 DEF InSequence
<1> QED BY <1>1, <1>4, <1>5 DEF SequenceInv

(* A refused event is refused for another reason than its number.             *)
LEMMA ApplyEndInSequence ==
  ASSUME SequenceInv, ApplyEnd PROVE SequenceInv'
<1>1. event.sequence = last_sequence + 1
  BY DEF ApplyEnd, SequenceInv, InSequence
<1>2. Fault \in {"EngineContract", "None"}
  BY <1>1 DEF Fault
<1>3. TerminalCompletes'
  BY DEF ApplyEnd, SequenceInv, TerminalCompletes, vars, shared, stream
<1> QED BY <1>2, <1>3, EndInSequence DEF ApplyEnd

LEMMA CommandInSequence ==
  ASSUME EngineInv, SessionOwns, SequenceInv, Command PROVE SequenceInv'
<1>1. UNCHANGED stream
  <2>1. ASSUME OpenTab \/ Shutdown \/ CommandFindsStopped PROVE UNCHANGED vars
    BY <2>1 DEF OpenTab, Shutdown, CommandFindsStopped
  <2>2. ASSUME NEW c, TakeTabFrame(c) PROVE UNCHANGED vars
    BY <2>2 DEF TakeTabFrame
  <2>3. ASSUME ClientStep \/ UNCHANGED vars PROVE UNCHANGED stream
    BY <2>3, ClientStream DEF Unmoved, vars, shared
  <2> QED BY <2>1, <2>2, <2>3, SendsAsClient, StopsAsClient, ClosesAsClient, RerendersAsClient
          DEF Command, EngineInv
<1>2. \/ UNCHANGED <<last_sequence, event, session>>
      \/ \E reason \in {"EngineContract", "EngineDisconnected", "Closed"} : End(reason)
  BY ZenonT(60) DEF Command, OpenTab, Shutdown, CommandFindsStopped, SendNavigation, Stop, CloseTab,
     RequestRerender, TakeTabFrame, controller
<1>3. TerminalCompletes'
  BY <1>1 DEF SequenceInv, TerminalCompletes, stream
<1>4. ASSUME NEW reason \in {"EngineContract", "EngineDisconnected", "Closed"}, End(reason)
      PROVE SequenceInv'
  BY <1>3, <1>4, EndInSequence
<1> QED BY <1>1, <1>2, <1>4, StillInSequence

LEMMA SequenceStep ==
  ASSUME EngineInv, SessionOwns, SequenceInv, [SessionNext]_browser PROVE SequenceInv'
<1>1. ASSUME SessionWorker PROVE SequenceInv'
  <2>1. WorkerStep /\ UNCHANGED <<last_sequence, event, session>>
    BY <1>1, WorksAsWorker DEF SessionWorker, controller
  <2>2. TerminalCompletes' /\ next_event_sequence' - Ahead' = next_event_sequence - Ahead
    BY <2>1, WorkerKeepsAhead DEF EngineInv, SequenceInv
  <2> HIDE DEF Ahead
  <2> QED BY <2>1, <2>2 DEF SequenceInv, InSequence
<1>2. ASSUME PollClosed PROVE SequenceInv'
  <2>1. TerminalCompletes' /\ End("EngineDisconnected")
    BY <1>2 DEF PollClosed, SequenceInv, TerminalCompletes, vars, shared, stream
  <2> QED BY <2>1, EndInSequence
<1>3. ASSUME ShutdownPort PROVE SequenceInv'
  <2>1. session # "Running" /\ UNCHANGED <<session, event>>
    BY <1>3 DEF ShutdownPort, controller
  <2>2. UNCHANGED terminal_event \/ terminal_event' = NoEvent
    BY <1>3, ZenonT(60) DEF ShutdownPort, RequestShutdown, DropReceiver, Join, shared, stream
  <2> QED BY <2>1, <2>2 DEF SequenceInv, TerminalCompletes
<1>4. ASSUME SessionOver \/ UNCHANGED browser PROVE SequenceInv'
  BY <1>4, StillInSequence DEF SessionOver, browser, vars, shared, controller
<1> QED BY <1>1, <1>2, <1>3, <1>4, CommandInSequence, PollInSequence, ApplyInSequence,
           ApplyEndInSequence DEF SessionNext, Pump

(* The session never fails with EngineEventSequence: between a poll and the   *)
(* application of its event the worker may publish, stop or exit, and still   *)
(* the next event the session applies is numbered just after the last one     *)
(* (apply_engine_event against push_event, publish_success, finish_worker).   *)
THEOREM SequenceNeverBroken == SessionSpec => [](session # "EngineEventSequence")
<1>1. SessionInit => EngineInv /\ SessionOwns /\ SequenceInv
  <2>1. SessionInit => SequenceInv
    BY DEF SessionInit, Init, SequenceInv, TerminalCompletes, InSequence, Ahead
  <2> QED BY <2>1, EngineInvInit, OwnsInit
<1>2. EngineInv /\ SessionOwns /\ SequenceInv /\ [SessionNext]_browser
      => EngineInv' /\ SessionOwns' /\ SequenceInv'
  BY JointStep, SequenceStep
<1>3. SequenceInv => session # "EngineEventSequence"
  BY DEF SequenceInv
<1> QED BY <1>1, <1>2, <1>3, PTL DEF SessionSpec
=============================================================================
