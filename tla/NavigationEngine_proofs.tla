----------------------- MODULE NavigationEngine_proofs -----------------------
(* Theorems about the navigation engine, for every number of contexts and     *)
(* every limit: its event sequence, its commit records, its publication       *)
(* reservations, and the agreement of style authorities and documents.        *)
EXTENDS NavigationEngine_types

(***************************** the event stream ****************************)

(* What the worker may do to the event stream in one step.                    *)
Unmoved == UNCHANGED stream
PushesOne == \E kind, token, lease, result : Push(kind, token, lease, result)
Publishes == \E o : PublishSuccess(o)
Completes ==
  /\ UNCHANGED events
  /\ terminal_event' = Event(next_event_sequence, "ShutdownComplete", NoToken, 0, 0)
  /\ next_event_sequence' = next_event_sequence + 1

LEMMA FinishWorkerStream ==
  ASSUME NEW reason, NEW executor, FinishWorker(reason, executor)
  PROVE (Unmoved \/ Completes) /\ pc' = "Exited" /\ UNCHANGED navigation_commits
  BY ZenonT(60) DEF FinishWorker, Unmoved, Completes, stream

(* Every step of the worker queues at most what one publication needs, keeps  *)
(* the commit records unless it publishes, and none follows its exit.         *)
LEMMA WorkerStream ==
  ASSUME WorkerStep \/ Spawn \/ SpawnFails
  PROVE /\ pc # "Exited"
        /\ \/ Unmoved /\ UNCHANGED navigation_commits
           \/ PushesOne /\ UNCHANGED navigation_commits
           \/ Publishes
           \/ Completes /\ pc' = "Exited" /\ UNCHANGED navigation_commits
<1>1. ASSUME Spawn \/ SpawnFails
      PROVE pc # "Exited" /\ (Unmoved \/ (Completes /\ pc' = "Exited"))
            /\ UNCHANGED navigation_commits
  BY <1>1, FinishWorkerStream DEF Spawn, SpawnFails, Unmoved, shared
<1>2. ASSUME DequeueStop \/ FindStopping \/ ExecutorPanics
      PROVE pc # "Exited" /\ Unmoved /\ UNCHANGED navigation_commits
  BY <1>2 DEF DequeueStop, FindStopping, ExecutorPanics, LeaveStopping, shared, Unmoved
<1>3. ASSUME DequeueClosure \/ DequeueCommand
      PROVE pc # "Exited" /\ Unmoved /\ UNCHANGED navigation_commits
  BY <1>3 DEF DequeueClosure, DequeueCommand, Unmoved
<1>4. ASSUME PublishContextClosed \/ BeginNavigation
      PROVE pc # "Exited" /\ (Unmoved \/ PushesOne) /\ UNCHANGED navigation_commits
  BY <1>4 DEF PublishContextClosed, BeginNavigation, Unmoved, PushesOne
<1>5. ASSUME BeginDocument
      PROVE pc # "Exited" /\ (Unmoved \/ PushesOne) /\ UNCHANGED navigation_commits
  BY <1>5 DEF BeginDocument, DropStaleDocumentWork, RejectDocumentWork, LeaveUnreserved,
              ReserveAndExecute, Unmoved, PushesOne
<1>6. ASSUME NEW o, FinishNavigation(o)
      PROVE /\ pc # "Exited"
            /\ Publishes \/ ((Unmoved \/ PushesOne) /\ UNCHANGED navigation_commits)
  BY <1>6, SMTT(30) DEF FinishNavigation, EndNavigation, StopWith, Unmoved, PushesOne, Publishes
<1>7. ASSUME NEW o, FinishDocument(o)
      PROVE pc # "Exited" /\ (Unmoved \/ PushesOne) /\ UNCHANGED navigation_commits
  BY <1>7 DEF FinishDocument, FinishStaleDocument, FinishContractViolation, PublishDocument,
              Unmoved, PushesOne
<1>8. ASSUME FinalizeExecutor
      PROVE pc # "Exited" /\ (Unmoved \/ (Completes /\ pc' = "Exited"))
            /\ UNCHANGED navigation_commits
  BY <1>8, FinishWorkerStream, SMTT(30) DEF FinalizeExecutor
<1> QED BY <1>1, <1>2, <1>3, <1>4, <1>5, <1>6, <1>7, <1>8 DEF WorkerStep, WorkerNext

LEMMA ClientStream ==
  ASSUME ClientStep PROVE Unmoved /\ UNCHANGED navigation_commits /\ UNCHANGED worker
  BY ZenonT(60) DEF ClientStep, ClientNext, Navigate, Cancel, MutateDocument, RerenderDocument,
         AdmitDocumentOperation, CloseContext, RequestShutdown, Join, shared, Unmoved

(* The terminal event is only there once the worker has exited.               *)
TerminalIsLast == terminal_event # NoEvent => pc = "Exited"

LEMMA TerminalStep ==
  ASSUME TerminalIsLast, [Next]_vars PROVE TerminalIsLast'
<1>1. ASSUME WorkerStep \/ Spawn \/ SpawnFails PROVE TerminalIsLast'
  BY <1>1, WorkerStream, ZenonT(60)
  DEF TerminalIsLast, Unmoved, PushesOne, Push, Publishes, PublishSuccess, stream
<1>2. ASSUME ClientStep PROVE TerminalIsLast'
  BY <1>2, ClientStream DEF TerminalIsLast, Unmoved, stream, worker
<1>3. ASSUME ReceiverStep PROVE TerminalIsLast'
  BY <1>3, ZenonT(60) DEF TerminalIsLast, ReceiverStep, ReceiverNext, Receive, ReceiveTerminal,
     TakeNavigationCommit, TakeFrame, TakeMutationResult, DropReceiver, stream, worker
<1>4. ASSUME UNCHANGED vars PROVE TerminalIsLast'
  BY <1>4 DEF TerminalIsLast, vars, shared, stream, worker
<1> QED BY <1>1, <1>2, <1>3, <1>4 DEF Next, Rest

LEMMA ConsecutivePush ==
  ASSUME StreamOK, EventsAreConsecutive, terminal_event = NoEvent, PushesOne
  PROVE EventsAreConsecutive'
<1>1. PICK kind, token, lease, result : Push(kind, token, lease, result)
  BY DEF PushesOne
<1> DEFINE e == Event(next_event_sequence, kind, token, lease, result)
<1>2. /\ events' = Append(events, e) /\ next_event_sequence' = next_event_sequence + 1
      /\ terminal_event' = NoEvent /\ e.sequence = next_event_sequence
  BY <1>1 DEF Push, Event
<1> HIDE DEF e
<1>3. Len(events') = Len(events) + 1 /\ DOMAIN events' = 1 .. Len(events) + 1
  BY <1>2 DEF StreamOK
<1>4. ASSUME NEW i \in DOMAIN events'
      PROVE events'[i].sequence = next_event_sequence' - Len(events') + i - 1
  <2>1. CASE i \in 1 .. Len(events)
    <3>1. events'[i] = events[i]
      BY <1>2, <2>1 DEF StreamOK
    <3>2. events[i].sequence = next_event_sequence - Len(events) + i - 1
      BY <2>1 DEF EventsAreConsecutive, StreamOK
    <3> QED BY <1>2, <1>3, <2>1, <3>1, <3>2 DEF StreamOK
  <2>2. CASE i = Len(events) + 1
    BY <1>2, <1>3, <2>2 DEF StreamOK
  <2> QED BY <1>3, <1>4, <2>1, <2>2
<1> QED BY <1>2, <1>3, <1>4 DEF EventsAreConsecutive, StreamOK

LEMMA ConsecutivePublish ==
  ASSUME StreamOK, EventsAreConsecutive, terminal_event = NoEvent, Publishes
  PROVE EventsAreConsecutive'
<1>1. PICK o : PublishSuccess(o)
  BY DEF Publishes
<1> DEFINE a == Event(next_event_sequence, "NavigationCommitted", work.token, 0, 0)
           b == Event(next_event_sequence + 1, "FrameReady", work.token, next_frame_lease, 0)
<1>2. /\ events' = events \o <<a, b>> /\ next_event_sequence' = next_event_sequence + 2
      /\ terminal_event' = NoEvent
      /\ a.sequence = next_event_sequence /\ b.sequence = next_event_sequence + 1
  BY <1>1 DEF PublishSuccess, Event
<1> HIDE DEF a, b
<1>3. Len(events') = Len(events) + 2 /\ DOMAIN events' = 1 .. Len(events) + 2
  BY <1>2 DEF StreamOK
<1>4. ASSUME NEW i \in DOMAIN events'
      PROVE events'[i].sequence = next_event_sequence' - Len(events') + i - 1
  <2>1. CASE i \in 1 .. Len(events)
    <3>1. events'[i] = events[i]
      BY <1>2, <2>1 DEF StreamOK
    <3>2. events[i].sequence = next_event_sequence - Len(events) + i - 1
      BY <2>1 DEF EventsAreConsecutive, StreamOK
    <3> QED BY <1>2, <1>3, <2>1, <3>1, <3>2 DEF StreamOK
  <2>2. CASE i = Len(events) + 1
    <3>1. events'[i] = a
      BY <1>2, <2>2 DEF StreamOK
    <3> QED BY <1>2, <1>3, <2>2, <3>1 DEF StreamOK
  <2>3. CASE i = Len(events) + 2
    <3>1. events'[i] = b
      BY <1>2, <2>3 DEF StreamOK
    <3> QED BY <1>2, <1>3, <2>3, <3>1 DEF StreamOK
  <2>4. Len(events) \in Nat /\ i \in 1 .. Len(events) + 2
    BY <1>3, <1>4 DEF StreamOK
  <2> QED BY <2>1, <2>2, <2>3, <2>4
<1> QED BY <1>2, <1>3, <1>4, SMTT(30) DEF EventsAreConsecutive, StreamOK

LEMMA ConsecutiveReceive ==
  ASSUME StreamOK, EventsAreConsecutive, Receive PROVE EventsAreConsecutive'
<1>1. /\ events # <<>> /\ events' = Tail(events) /\ terminal_event' = terminal_event
      /\ next_event_sequence' = next_event_sequence
  BY DEF Receive
<1>2. /\ Len(events) \in Nat /\ Len(events') = Len(events) - 1
      /\ DOMAIN events' = 1 .. Len(events) - 1
      /\ \A i \in 1 .. Len(events) - 1 : events'[i] = events[i + 1]
  BY <1>1 DEF StreamOK
<1> QED BY <1>1, <1>2, SMTT(30) DEF EventsAreConsecutive, StreamOK

LEMMA ConsecutiveStep ==
  ASSUME TypeOK, TerminalIsLast, EventsAreConsecutive, [Next]_vars
  PROVE EventsAreConsecutive'
<1>1. ASSUME Unmoved PROVE EventsAreConsecutive'
  BY <1>1 DEF Unmoved, stream, EventsAreConsecutive
<1>2. ASSUME Completes, terminal_event = NoEvent PROVE EventsAreConsecutive'
  <2>1. /\ events' = events /\ next_event_sequence' = next_event_sequence + 1
        /\ terminal_event' # NoEvent /\ terminal_event'.sequence = next_event_sequence
    BY <1>2 DEF Completes, NoEvent, Event
  <2> QED BY <1>2, <2>1 DEF EventsAreConsecutive, TypeOK, StreamOK
<1>3. ASSUME WorkerStep \/ Spawn \/ SpawnFails PROVE EventsAreConsecutive'
  <2>1. terminal_event = NoEvent
    BY <1>3, WorkerStream DEF TerminalIsLast
  <2> QED BY <1>1, <1>2, <1>3, <2>1, WorkerStream, ConsecutivePush, ConsecutivePublish DEF TypeOK
<1>4. ASSUME ReceiverStep PROVE EventsAreConsecutive'
  <2>1. ASSUME ReceiveTerminal PROVE EventsAreConsecutive'
    BY <2>1 DEF ReceiveTerminal, EventsAreConsecutive, TypeOK, StreamOK
  <2>2. ASSUME DropReceiver PROVE EventsAreConsecutive'
    <3>1. events' = <<>> /\ terminal_event' = NoEvent
      BY <2>2, ZenonT(60) DEF DropReceiver
    <3> QED BY <3>1, SMTT(30) DEF EventsAreConsecutive
  <2>3. ASSUME NEW n, TakeNavigationCommit(n) \/ TakeFrame(n) \/ TakeMutationResult(n) PROVE Unmoved
    BY <2>3 DEF TakeNavigationCommit, TakeFrame, TakeMutationResult, Unmoved
  <2> QED BY <1>1, <1>4, <2>1, <2>2, <2>3, ConsecutiveReceive DEF ReceiverStep, ReceiverNext, TypeOK
<1>5. ASSUME ClientStep \/ UNCHANGED vars PROVE Unmoved
  BY <1>5, ClientStream DEF Unmoved, vars, shared
<1> QED BY <1>1, <1>3, <1>4, <1>5 DEF Next, Rest

(* The receiver sees every event exactly once and in order: what is queued,   *)
(* and the terminal event behind it, has consecutive sequence numbers that    *)
(* end just below the counter (push_event, publish_success, finish_worker).   *)
THEOREM EventOrder == Safety => []EventsAreConsecutive
<1>1. EngineInit => TerminalIsLast /\ EventsAreConsecutive
  BY DEF EngineInit, Init, TerminalIsLast, EventsAreConsecutive
<1>2. TypeOK /\ TerminalIsLast /\ EventsAreConsecutive /\ [Next]_vars
      => TerminalIsLast' /\ EventsAreConsecutive'
  BY TerminalStep, ConsecutiveStep
<1> QED BY <1>1, <1>2, TypeCorrect, PTL DEF Safety

(***************************** commit records ******************************)

Awaited(n, es) == \E i \in DOMAIN es : es[i].kind = "FrameReady" /\ es[i].token.navigation = n

LEMMA CommitsStep ==
  ASSUME TypeOK, CommitsAwaitTheirFrame, [Next]_vars PROVE CommitsAwaitTheirFrame'
<1> USE DEF Awaited
<1>1. SUFFICES ASSUME NEW n \in navigation_commits' PROVE Awaited(n, events')
  BY DEF CommitsAwaitTheirFrame
<1>2. n \in navigation_commits => Awaited(n, events)
  BY DEF CommitsAwaitTheirFrame
<1>3. ASSUME UNCHANGED events, navigation_commits' \subseteq navigation_commits
      PROVE Awaited(n, events')
  BY <1>2, <1>3
<1>4. ASSUME PushesOne, UNCHANGED navigation_commits PROVE Awaited(n, events')
  <2>1. PICK e : events' = Append(events, e)
    BY <1>4 DEF PushesOne, Push
  <2>2. PICK i \in DOMAIN events : events[i].kind = "FrameReady" /\ events[i].token.navigation = n
    BY <1>2, <1>4
  <2>3. i \in DOMAIN events' /\ events'[i] = events[i]
    BY <2>1, <2>2 DEF TypeOK, StreamOK
  <2> QED BY <2>2, <2>3
<1>5. ASSUME Publishes PROVE Awaited(n, events')
  <2> DEFINE a == Event(next_event_sequence, "NavigationCommitted", work.token, 0, 0)
             b == Event(next_event_sequence + 1, "FrameReady", work.token, next_frame_lease, 0)
  <2>1. events' = events \o <<a, b>> /\ navigation_commits' = navigation_commits \union {nav}
    BY <1>5 DEF Publishes, PublishSuccess
  <2>2. b.kind = "FrameReady" /\ b.token.navigation = nav
    BY DEF Event, nav
  <2> HIDE DEF a, b
  <2>3. CASE n = nav
    <3>1. Len(events) + 2 \in DOMAIN events' /\ events'[Len(events) + 2] = b
      BY <2>1 DEF TypeOK, StreamOK
    <3> QED BY <2>2, <2>3, <3>1
  <2>4. CASE n \in navigation_commits
    <3>1. PICK i \in DOMAIN events : events[i].kind = "FrameReady" /\ events[i].token.navigation = n
      BY <1>2, <2>4
    <3>2. i \in DOMAIN events' /\ events'[i] = events[i]
      BY <2>1, <3>1 DEF TypeOK, StreamOK
    <3> QED BY <3>1, <3>2
  <2> QED BY <1>1, <2>1, <2>3, <2>4, SMTT(30)
<1>6. ASSUME Receive PROVE Awaited(n, events')
  <2>1. /\ events # <<>> /\ events' = Tail(events) /\ n \in navigation_commits
        /\ ~ (Head(events).kind = "FrameReady" /\ Head(events).token.navigation = n)
    BY <1>1, <1>6 DEF Receive
  <2>2. PICK i \in DOMAIN events : events[i].kind = "FrameReady" /\ events[i].token.navigation = n
    BY <1>2, <2>1
  <2>3. i # 1
    BY <2>1, <2>2 DEF TypeOK, StreamOK
  <2>4. i - 1 \in DOMAIN events' /\ events'[i - 1] = events[i]
    BY <2>1, <2>2, <2>3 DEF TypeOK, StreamOK
  <2> QED BY <2>2, <2>4
<1>7. ASSUME ReceiverStep PROVE Awaited(n, events')
  <2>1. ASSUME DropReceiver PROVE navigation_commits' = {}
    BY <2>1, ZenonT(60) DEF DropReceiver
  <2>2. ASSUME NEW x, TakeNavigationCommit(x) \/ TakeFrame(x) \/ TakeMutationResult(x)
        PROVE UNCHANGED events /\ navigation_commits' \subseteq navigation_commits
    BY <2>2 DEF TakeNavigationCommit, TakeFrame, TakeMutationResult, stream
  <2>3. ASSUME ReceiveTerminal
        PROVE UNCHANGED events /\ navigation_commits' \subseteq navigation_commits
    BY <2>3 DEF ReceiveTerminal
  <2> QED BY <1>1, <1>3, <1>6, <1>7, <2>1, <2>2, <2>3, SMTT(30) DEF ReceiverStep, ReceiverNext
<1>8. ASSUME WorkerStep \/ Spawn \/ SpawnFails PROVE Awaited(n, events')
  BY <1>3, <1>4, <1>5, <1>8, WorkerStream DEF Unmoved, Completes, stream
<1>9. ASSUME ClientStep \/ UNCHANGED vars PROVE Awaited(n, events')
  BY <1>3, <1>9, ClientStream DEF Unmoved, vars, shared, stream
<1> QED BY <1>7, <1>8, <1>9 DEF Next, Rest

(* A commit record that the receiver has not taken always has its FrameReady  *)
(* in the queue, so taking or skipping it can never leave a record behind     *)
(* (publish_success, receive_event_locked, take_navigation_commit).           *)
THEOREM CommitRecords == Safety => []CommitsAwaitTheirFrame
<1>1. EngineInit => CommitsAwaitTheirFrame
  BY DEF EngineInit, Init, CommitsAwaitTheirFrame
<1> QED BY <1>1, CommitsStep, TypeCorrect, PTL DEF Safety

(**************************** the reservation ******************************)

(* The client and the receiver leave the lifecycle alone or request a stop.   *)
LEMMA OthersLifecycle ==
  ASSUME ClientStep \/ ReceiverStep
  PROVE UNCHANGED lifecycle \/ lifecycle'.phase = "Stopping"
<1>1. \A reason : Stopping(reason).phase = "Stopping"
  BY DEF Stopping
<1>2. ASSUME NEW next, RequestShutdown(next)
      PROVE UNCHANGED lifecycle \/ lifecycle' = Stopping("Requested")
  BY <1>2, SMTT(30) DEF RequestShutdown, RequestStop
<1>3. ASSUME ClientNext PROVE UNCHANGED lifecycle \/ lifecycle' = Stopping("Requested")
  BY <1>2, <1>3, ZenonT(60) DEF ClientNext, Navigate, Cancel, MutateDocument, RerenderDocument,
     AdmitDocumentOperation, CloseContext, Join, shared
<1>4. ASSUME ReceiverNext
      PROVE UNCHANGED lifecycle \/ lifecycle' = Stopping("EventReceiverDropped")
  BY <1>4, ZenonT(60) DEF ReceiverNext, Receive, ReceiveTerminal, TakeNavigationCommit,
     TakeFrame, TakeMutationResult, DropReceiver
<1> QED BY <1>1, <1>3, <1>4 DEF ClientStep, ReceiverStep

LEMMA ReceiverStream ==
  ASSUME StreamOK, ReceiverStep
  PROVE UNCHANGED <<worker, leases, next_event_sequence>> /\ Len(events') <= Len(events)
<1>1. UNCHANGED <<worker, leases, next_event_sequence>>
  BY ZenonT(60) DEF ReceiverStep, ReceiverNext, Receive, ReceiveTerminal, TakeNavigationCommit,
         TakeFrame, TakeMutationResult, DropReceiver, stream
<1>2. UNCHANGED events \/ events' = <<>> \/ (events # <<>> /\ events' = Tail(events))
  BY ZenonT(60) DEF ReceiverStep, ReceiverNext, Receive, ReceiveTerminal, TakeNavigationCommit,
         TakeFrame, TakeMutationResult, DropReceiver, stream
<1>3. Len(events') <= Len(events)
  <2>1. CASE events' = <<>>
    BY <2>1 DEF StreamOK
  <2>2. CASE events # <<>> /\ events' = Tail(events)
    BY <2>2 DEF StreamOK
  <2> QED BY <1>2, <2>1, <2>2 DEF StreamOK
<1> QED BY <1>1, <1>3, SMTT(30)

LEMMA IdentitiesStep ==
  ASSUME TypeOK, IdentitiesStand, [Next]_vars PROVE IdentitiesStand'
<1> USE DEF IdentitiesStand, DocumentExecutes, ReservedIdentitiesHold, IsRunning
<1>1. ASSUME UNCHANGED <<worker, lifecycle, leases, stream>> PROVE IdentitiesStand'
  BY <1>1 DEF worker, leases, stream
<1>2. ASSUME pc' # "Executing" PROVE IdentitiesStand'
  BY <1>2
<1>3. ASSUME WorkerStep \/ Spawn \/ SpawnFails PROVE IdentitiesStand'
  <2>1. ASSUME BeginNavigation PROVE IdentitiesStand'
    BY <1>2, <2>1, SMTT(30) DEF BeginNavigation, Resume, Leave
  <2>2. ASSUME BeginDocument PROVE IdentitiesStand'
    <3>1. CASE ReserveAndExecute
      <4>1. Len(events) < EventCapacity
        BY <3>1, Limits DEF ReserveAndExecute, ReservationFault, TypeOK, StreamOK
      <4> QED BY <2>2, <3>1, <4>1 DEF BeginDocument, ReserveAndExecute, stream, leases
    <3> QED BY <1>2, <2>2, <3>1, SMTT(30)
            DEF BeginDocument, DropStaleDocumentWork, RejectDocumentWork, LeaveUnreserved,
                Resume, Leave
  <2> QED BY <1>2, <1>3, <2>1, <2>2, OnlyBeginExecutes, SMTT(30)
<1>4. ASSUME ClientStep PROVE IdentitiesStand'
  <2>1. UNCHANGED <<worker, leases, stream>>
    BY <1>4, ClientStream, ZenonT(60)
    DEF Unmoved, ClientStep, ClientNext, Navigate, Cancel, MutateDocument, RerenderDocument,
        AdmitDocumentOperation, CloseContext, RequestShutdown, Join, shared
  <2> QED BY <1>1, <1>4, <2>1, OthersLifecycle, SMTT(30)
<1>5. ASSUME ReceiverStep PROVE IdentitiesStand'
  <2>1. Len(events) \in Nat /\ Len(events') \in Nat
    BY <1>5, ReceiverType DEF TypeOK, StreamOK
  <2>2. /\ UNCHANGED <<worker, leases, next_event_sequence>>
        /\ Len(events') <= Len(events)
        /\ UNCHANGED lifecycle \/ lifecycle'.phase = "Stopping"
    BY <1>5, ReceiverStream, OthersLifecycle DEF TypeOK
  <2> QED BY <2>1, <2>2, Limits DEF worker, leases
<1>6. ASSUME UNCHANGED vars PROVE IdentitiesStand'
  BY <1>1, <1>6 DEF vars, shared
<1> QED BY <1>3, <1>4, <1>5, <1>6 DEF Next, Rest

(* reserve_document_publication sets nothing aside, yet the event slot and    *)
(* the identities it read are still the next free ones when the executor      *)
(* returns and the engine runs: push_reserved_event, publish_reserved_frame   *)
(* and commit_mutation_result never fail for want of an identity or a slot.   *)
THEOREM ReservedIdentities == Safety => []IdentitiesStand
<1>1. EngineInit => IdentitiesStand
  BY DEF EngineInit, WorkerInit, IdentitiesStand, DocumentExecutes
<1> QED BY <1>1, IdentitiesStep, TypeCorrect, PTL DEF Safety

(*************************** style authorities *****************************)

(* What StyleFollowsDocument rests on: context identities are never reused,   *)
(* and nobody but the worker gives a context a document, so an operation that *)
(* lost its document while it ran can only have lost it to a close.           *)
ContextsWereAdmitted == \A c \in DOMAIN contexts : c <= latest_new_context
ExecutingPage ==
  DocumentExecutes =>
    /\ nav.context <= latest_new_context
    /\ nav.context \in DOMAIN contexts => contexts[nav.context].document.navigation = nav
StyleInv == ContextsWereAdmitted /\ ExecutingPage /\ StyleFollowsDocument

KeepsPages(ctxs) ==
  /\ DOMAIN ctxs = DOMAIN contexts
  /\ \A c \in DOMAIN contexts : ctxs[c].document = contexts[c].document

LEMMA ClearKeepsPages == ASSUME NEW token PROVE KeepsPages(ClearCancellation(contexts, token))
  BY DEF KeepsPages, ClearCancellation

(* The three things a step does to pages and styles together. It leaves both, *)
(* a ledger ending at most as the worker leaves its loop; it stops the        *)
(* engine; or it changes one context's page and that page's authority.        *)
KeepsStyles ==
  /\ KeepsPages(contexts') /\ UNCHANGED <<lifecycle, current_style_documents>>
  /\ live_style_documents' \subseteq live_style_documents
  /\ pc' # "Finalize" => pc # "Finalize" /\ UNCHANGED live_style_documents

StopsStyles == lifecycle'.phase # "Running" /\ RetireEveryStyle

ChangesStyle(c) ==
  LET published == c \in DOMAIN contexts' /\ contexts'[c].document # NoDocument
  IN /\ IsRunning /\ UNCHANGED lifecycle
     /\ pc' # "Finalize" => pc # "Finalize"
     /\ DOMAIN contexts' \ {c} = DOMAIN contexts \ {c}
     /\ \A d \in DOMAIN contexts \ {c} : contexts'[d].document = contexts[d].document
     /\ DOMAIN current_style_documents' \ {c} = DOMAIN current_style_documents \ {c}
     /\ \A d \in DOMAIN current_style_documents \ {c} :
          current_style_documents'[d] = current_style_documents[d]
     /\ c \in DOMAIN current_style_documents' <=> published
     /\ published => current_style_documents'[c] = contexts'[c].document.navigation
     /\ IF published /\ contexts'[c].document.live = 0
        THEN live_style_documents' = (live_style_documents \ StylesOf({c}))
                                       \union {contexts'[c].document.navigation}
        ELSE live_style_documents' = live_style_documents \ StylesOf({c})

LEMMA StyleKept ==
  ASSUME StyleFollowsDocument, KeepsStyles PROVE StyleFollowsDocument'
<1>1. CommitmentsFollowDocuments'
  BY ZenonT(60) DEF StyleFollowsDocument, CommitmentsFollowDocuments, KeepsStyles, KeepsPages, IsRunning
<1>2. \A c \in DOMAIN current_style_documents : contexts'[c].document = contexts[c].document
  BY ZenonT(60) DEF StyleFollowsDocument, CommitmentsFollowDocuments, KeepsStyles, KeepsPages
<1>3. StylesOf(FirstVersions)' = StylesOf(FirstVersions)
  <2>1. current_style_documents' = current_style_documents
    BY DEF KeepsStyles
  <2>2. FirstVersions' = FirstVersions
    BY <1>2, <2>1 DEF FirstVersions
  <2> QED BY <2>1, <2>2 DEF StylesOf
<1> QED BY <1>1, <1>3 DEF StyleFollowsDocument, KeepsStyles

LEMMA StyleStopped ==
  ASSUME StylesOK, StyleFollowsDocument, StopsStyles PROVE StyleFollowsDocument'
<1>1. DOMAIN current_style_documents' = {}
  BY EmptyMapIsEmpty DEF StopsStyles, RetireEveryStyle
<1>2. StylesOf(FirstVersions) \subseteq StylesOf(ContextId)
  BY DEF StylesOf, FirstVersions, StylesOK
<1>3. live_style_documents' = {}
  BY <1>2 DEF StyleFollowsDocument, StopsStyles, RetireEveryStyle
<1>4. StylesOf(FirstVersions)' = {}
  BY <1>1 DEF StylesOf
<1>5. CommitmentsFollowDocuments'
  BY <1>1 DEF CommitmentsFollowDocuments, StopsStyles, IsRunning
<1> QED BY <1>3, <1>4, <1>5 DEF StyleFollowsDocument

(* The ledger of one context is told apart from those of the others by the    *)
(* context its navigation names.                                              *)
LEMMA StyleChanged ==
  ASSUME StylesOK, StyleFollowsDocument, NEW c, ChangesStyle(c) PROVE StyleFollowsDocument'
<1> DEFINE published == c \in DOMAIN contexts' /\ contexts'[c].document # NoDocument
           renewed == IF published /\ contexts'[c].document.live = 0
                      THEN {contexts'[c].document.navigation} ELSE {}
<1>1. CommitmentsFollowDocuments'
  <2>1. /\ IsRunning /\ lifecycle' = lifecycle
        /\ DOMAIN current_style_documents =
             {d \in DOMAIN contexts : contexts[d].document # NoDocument}
        /\ \A d \in DOMAIN current_style_documents :
             current_style_documents[d] = contexts[d].document.navigation
    BY DEF StyleFollowsDocument, CommitmentsFollowDocuments, ChangesStyle
  <2>2. ASSUME NEW d
        PROVE /\ d \in DOMAIN current_style_documents' <=>
                   d \in DOMAIN contexts' /\ contexts'[d].document # NoDocument
              /\ d \in DOMAIN current_style_documents' =>
                   current_style_documents'[d] = contexts'[d].document.navigation
    <3>1. CASE d = c
      BY <3>1 DEF ChangesStyle
    <3>2. CASE d # c
      BY <2>1, <3>2 DEF ChangesStyle
    <3> QED BY <3>1, <3>2
  <2> QED BY <2>1, <2>2 DEF CommitmentsFollowDocuments, IsRunning
<1>2. \A d \in DOMAIN current_style_documents : current_style_documents[d].context = d
  BY DEF StylesOK
<1>3. live_style_documents' = (live_style_documents \ StylesOf({c})) \union renewed
  BY DEF ChangesStyle
<1>4. \A d : d # c => (d \in FirstVersions' <=> d \in FirstVersions)
  BY DEF StyleFollowsDocument, CommitmentsFollowDocuments, ChangesStyle, FirstVersions
<1>5. c \in FirstVersions' <=> published /\ contexts'[c].document.live = 0
  BY DEF ChangesStyle, FirstVersions
<1>6. StylesOf(FirstVersions)' = (StylesOf(FirstVersions) \ StylesOf({c})) \union renewed
  <2>1. \A n : n \in StylesOf(FirstVersions)' <=>
          \E d \in FirstVersions' : n = current_style_documents'[d]
    BY DEF StylesOf, FirstVersions
  <2>2. \A n : n \in StylesOf(FirstVersions) \ StylesOf({c}) <=>
          \E d \in FirstVersions \ {c} : n = current_style_documents[d]
    BY <1>2 DEF StylesOf, FirstVersions
  <2>3. \A d \in FirstVersions \ {c} : current_style_documents'[d] = current_style_documents[d]
    BY DEF FirstVersions, ChangesStyle
  <2>4. published => current_style_documents'[c] = contexts'[c].document.navigation
    BY DEF ChangesStyle
  <2> QED BY <1>4, <1>5, <2>1, <2>2, <2>3, <2>4
<1> HIDE DEF renewed
<1> QED BY <1>1, <1>3, <1>6 DEF StyleFollowsDocument, ChangesStyle

LEMMA StopStops ==
  ASSUME IsRunning, NEW ctxs, NEW reason, RequestStop(ctxs, reason)
  PROVE StopsStyles
  BY DEF RequestStop, Stopping, StopsStyles

LEMMA FinishWorkerStops ==
  ASSUME NEW reason, NEW executor, FinishWorker(reason, executor)
  PROVE StopsStyles /\ DOMAIN contexts' = DOMAIN contexts
  BY ZenonT(60) DEF FinishWorker, Stopped, StopsStyles

(* A step of the worker that ends no document operation and publishes no      *)
(* navigation leaves every document where it was, or stops the engine.        *)
LEMMA WorkerKeepsPages ==
  ASSUME \/ Spawn \/ SpawnFails
         \/ DequeueStop \/ FindStopping \/ ExecutorPanics \/ DequeueClosure \/ DequeueCommand
         \/ PublishContextClosed \/ BeginNavigation \/ BeginDocument \/ FinalizeExecutor
         \/ \E o : FinishNavigation(o) /\ NavigationVerdict(o) # "Publish"
  PROVE DOMAIN contexts' = DOMAIN contexts /\ (KeepsStyles \/ StopsStyles)
<1>0. \A ctxs : KeepsPages(ctxs) => DOMAIN ctxs = DOMAIN contexts
  BY DEF KeepsPages
<1>1. ASSUME UNCHANGED contexts PROVE KeepsPages(contexts')
  BY <1>1, SMTT(30) DEF KeepsPages
<1>2. ASSUME KeepsPages(contexts'), UNCHANGED <<lifecycle, styles>>, pc # "Finalize"
      PROVE DOMAIN contexts' = DOMAIN contexts /\ KeepsStyles
  BY <1>0, <1>2 DEF KeepsStyles, styles
<1>3. CASE Spawn \/ DequeueStop \/ FindStopping
  BY <1>1, <1>2, <1>3 DEF Spawn, DequeueStop, FindStopping, LeaveStopping, shared
<1>4. CASE ExecutorPanics
  <2>1. KeepsPages(contexts')
    BY <1>1, <1>4 DEF ExecutorPanics
  <2> QED BY <1>0, <1>4, <2>1 DEF ExecutorPanics, KeepsStyles, Leave
<1>5. CASE DequeueClosure \/ DequeueCommand
  BY <1>1, <1>2, <1>5, SMTT(30) DEF DequeueClosure, DequeueCommand
<1>6. CASE PublishContextClosed
  BY <1>1, <1>2, <1>6, StopStops, SMTT(30) DEF PublishContextClosed
<1>7. CASE BeginNavigation
  BY <1>1, <1>2, <1>7, StopStops, ClearKeepsPages, SMTT(30) DEF BeginNavigation
<1>8. CASE BeginDocument
  BY <1>1, <1>2, <1>8, ClearKeepsPages, SMTT(30)
  DEF BeginDocument, DropStaleDocumentWork, RejectDocumentWork, LeaveUnreserved, ReserveAndExecute
<1>9. CASE SpawnFails \/ FinalizeExecutor
  BY <1>9, FinishWorkerStops DEF SpawnFails, FinalizeExecutor
<1>10. ASSUME NEW kind, NEW unusable, NEW kept, IsRunning, pc # "Finalize", KeepsPages(kept),
              EndNavigation(kind, unusable, kept)
       PROVE DOMAIN contexts' = DOMAIN contexts /\ (KeepsStyles \/ StopsStyles)
  BY <1>0, <1>2, <1>10, StopStops, ClearKeepsPages, SMTT(30) DEF EndNavigation
<1>11. CASE \E o : FinishNavigation(o) /\ NavigationVerdict(o) # "Publish"
  <2>1. KeepsPages(contexts) /\ KeepsPages(ClearCancellation(contexts, work.token))
    BY ClearKeepsPages DEF KeepsPages
  <2> QED BY <1>10, <1>11, <2>1, StopStops, SMTT(30) DEF FinishNavigation, StopWith
<1> QED BY <1>3, <1>4, <1>5, <1>6, <1>7, <1>8, <1>9, <1>11, SMTT(30)

(* publish_success installs document and style authority together.            *)
LEMMA StylePublish ==
  ASSUME TypeOK, IsRunning, pc = "Executing", IsCurrent(nav), NEW o, PublishSuccess(o)
  PROVE ChangesStyle(nav.context) /\ DOMAIN contexts' = DOMAIN contexts
<1> DEFINE c == nav.context
           cleared == ClearCancellation(contexts, work.token)
<1>1. c \in DOMAIN contexts /\ c # 0
  BY DEF IsCurrent, TypeOK, ContextsOK, IsContexts, ContextId
<1>2. KeepsPages(cleared) /\ IsContexts(cleared)
  BY ClearKeepsPages, ClearType DEF TypeOK, ContextsOK
<1>3. /\ lifecycle' = lifecycle
      /\ \E f : contexts' = [cleared EXCEPT ![c].frame = f, ![c].document = ReplacementDocument(o)]
      /\ IF o.kind = "Document" THEN ReplaceStyle ELSE RetireStyle(c)
  BY ZenonT(60) DEF PublishSuccess
<1> HIDE DEF cleared
<1>4. /\ DOMAIN contexts' = DOMAIN contexts
      /\ \A d \in DOMAIN contexts : contexts'[d].document =
           IF d = c THEN ReplacementDocument(o) ELSE contexts[d].document
  BY <1>1, <1>2, <1>3, SMTT(30) DEF KeepsPages, IsContexts, ContextType
<1>5. /\ o.kind = "Document" => /\ ReplacementDocument(o) # NoDocument
                                /\ ReplacementDocument(o).navigation = nav
                                /\ ReplacementDocument(o).live = 0
      /\ o.kind # "Document" => ReplacementDocument(o) = NoDocument
  BY <1>1 DEF ReplacementDocument, NoDocument, NoNavigation
<1>6. pc' # "Finalize" /\ pc # "Finalize"
  BY DEF PublishSuccess, Resume
<1>7. CASE o.kind = "Document"
  <2>1. ReplaceStyle
    BY <1>3, <1>7
  <2> HIDE DEF c
  <2> QED BY <1>1, <1>3, <1>4, <1>5, <1>6, <1>7, <2>1, SMTT(30) DEF ChangesStyle, ReplaceStyle, Put, c
<1>8. CASE o.kind # "Document"
  <2>1. RetireStyle(c)
    BY <1>3, <1>8
  <2> QED BY <1>1, <1>3, <1>4, <1>5, <1>6, <1>8, <2>1, SMTT(30)
          DEF ChangesStyle, RetireStyle, WithoutStyle, Restrict
<1> QED BY <1>4, <1>7, <1>8

(* invalidate_shared_document, publish_reserved_frame and                     *)
(* commit_mutation_result.                                                    *)
LEMMA StyleFinishDocument ==
  ASSUME TypeOK, StyleInv, NEW o, FinishDocument(o)
  PROVE /\ KeepsStyles \/ StopsStyles \/ ChangesStyle(nav.context)
        /\ DOMAIN contexts' = DOMAIN contexts
<1> DEFINE c == nav.context
           cleared == ClearCancellation(contexts, work.token)
<1>1. DocumentExecutes /\ IsRunning /\ StyleFollowsDocument /\ CommitmentsFollowDocuments
      /\ pc # "Finalize"
  BY DEF FinishDocument, DocumentExecutes, StyleInv, StyleFollowsDocument
<1>2. KeepsPages(cleared) /\ IsContexts(cleared) /\ DOMAIN cleared = DOMAIN contexts
  BY ClearKeepsPages, ClearType DEF TypeOK, ContextsOK
<1>3. DOMAIN Invalidated(cleared) = DOMAIN contexts
      /\ DOMAIN Invalidated(contexts) = DOMAIN contexts
  BY <1>2, InvalidatedType, SMTT(30) DEF TypeOK, ContextsOK
<1>4. CASE FinishStaleDocument(o)
  <2>1. CASE o.unusable
    BY <1>1, <1>2, <1>3, <1>4, <2>1, StopStops, SMTT(30) DEF FinishStaleDocument
  <2>2. CASE ~ o.unusable /\ o.kind = "Rejected"
    <3>1. contexts' = cleared /\ UNCHANGED <<lifecycle, styles>>
      BY <1>4, <2>2 DEF FinishStaleDocument
    <3> HIDE DEF cleared
    <3> QED BY <1>1, <1>2, <3>1 DEF KeepsStyles, styles
  <2>3. CASE ~ o.unusable /\ o.kind # "Rejected"
    <3>1. contexts' = Invalidated(cleared) /\ lifecycle' = lifecycle /\ RetireStyle(c)
      BY <1>4, <2>3, SMTT(30) DEF FinishStaleDocument
    <3>2. CASE c \in DOMAIN contexts
      <4>1. OwnsPage
        BY <1>1, <3>2 DEF OwnsPage, StyleInv, ExecutingPage
      <4>2. \A d \in DOMAIN contexts : contexts'[d].document =
              IF d = c THEN NoDocument ELSE contexts[d].document
        BY <1>2, <3>1, <4>1, SMTT(30) DEF Invalidated, KeepsPages, IsContexts, ContextType
      <4> HIDE DEF cleared
      <4> QED BY <1>1, <1>3, <3>1, <3>2, <4>2 DEF ChangesStyle, RetireStyle, WithoutStyle, Restrict
    <3>3. CASE c \notin DOMAIN contexts
      <4>1. contexts' = cleared
        BY <3>1, <3>3, SMTT(30) DEF Invalidated, OwnsPage
      <4> HIDE DEF cleared
      <4> QED BY <1>1, <1>2, <3>1, <3>3, <4>1
              DEF ChangesStyle, RetireStyle, WithoutStyle, Restrict, KeepsPages
    <3> QED BY <1>3, <3>1, <3>2, <3>3
  <2> QED BY <2>1, <2>2, <2>3, SMTT(30)
<1>5. CASE FinishContractViolation(o)
  <2>1. contexts' = Invalidated(contexts) /\ RequestStop(contexts, "ExecutorContractViolation")
    BY <1>5 DEF FinishContractViolation
  <2> QED BY <1>1, <1>3, <2>1, StopStops
<1>6. CASE PublishDocument(o)
  <2> DEFINE old == contexts[c].document
             rendered == o.kind = "Rendered"
             committed == work.kind = "Mutate" /\ o.kind \in {"Rendered", "Committed"}
             live == IF committed THEN old.live + 1 ELSE old.live
             f == IF rendered THEN [lease |-> reservation.frame, navigation |-> nav,
                                    bytes |-> o.bytes]
                              ELSE contexts[c].frame
             new == [navigation |-> nav, live |-> live,
                     frame |-> IF rendered THEN live ELSE old.frame,
                     charge |-> IF committed THEN old.charge + work.nodes ELSE old.charge]
  <2>1. c \in DOMAIN contexts /\ old.navigation = nav /\ c # 0 /\ old.live \in Nat
    <3>1. c \in DOMAIN contexts /\ contexts[c].document.navigation = nav
      BY <1>6, ZenonT(60) DEF PublishDocument, DocumentWorkIsCurrent, nav
    <3> QED BY <3>1, SMTT(30) DEF TypeOK, ContextsOK, IsContexts, ContextId, ContextType, DocumentType
  <2>2. /\ contexts' = [cleared EXCEPT ![c].frame = f, ![c].document = new]
        /\ new.navigation = nav /\ new.live = live
    BY <1>6 DEF PublishDocument
  <2> HIDE DEF cleared, f, new, live
  <2>3. /\ DOMAIN contexts' = DOMAIN contexts
        /\ contexts'[c].document.navigation = nav /\ contexts'[c].document.live = live
        /\ \A d \in DOMAIN contexts \ {c} : contexts'[d].document = contexts[d].document
    BY <1>2, <2>1, <2>2, SMTT(30) DEF KeepsPages, IsContexts, ContextType
  <2>4. old # NoDocument /\ contexts'[c].document # NoDocument
    BY <2>1, <2>3, SMTT(30) DEF NoDocument, NoNavigation
  <2>5. c \in DOMAIN current_style_documents /\ current_style_documents[c] = nav
    BY <1>1, <2>1, <2>4 DEF CommitmentsFollowDocuments
  <2>6. StylesOf({c}) = {nav}
    BY <2>5 DEF StylesOf
  <2>7. nav \in live_style_documents <=> old.live = 0
    <3>1. \A d \in DOMAIN current_style_documents : current_style_documents[d] = nav => d = c
      BY DEF TypeOK, StopOK, StylesOK
    <3> QED BY <1>1, <2>5, <3>1 DEF StyleFollowsDocument, StylesOf, FirstVersions
  <2>8. CASE StyleAfterCommit(committed) /\ lifecycle' = lifecycle
    <3>1. CASE committed
      <4>1. live # 0 /\ live_style_documents' = live_style_documents \ {nav}
        BY <2>1, <2>8, <3>1 DEF StyleAfterCommit, live
      <4> QED BY <1>1, <2>1, <2>3, <2>4, <2>5, <2>6, <2>8, <4>1 DEF ChangesStyle, StyleAfterCommit
    <3>2. CASE ~ committed
      <4>1. live = old.live /\ live_style_documents' = live_style_documents
        BY <2>8, <3>2 DEF StyleAfterCommit, live
      <4> QED BY <1>1, <2>1, <2>3, <2>4, <2>5, <2>6, <2>7, <2>8, <4>1
              DEF ChangesStyle, StyleAfterCommit
    <3> QED BY <2>3, <3>1, <3>2
  <2>9. CASE \E ctxs : RequestStop(ctxs, "RendererUnavailable")
    BY <1>1, <2>3, <2>9, StopStops, SMTT(30)
  <2> QED BY <1>6, <2>3, <2>8, <2>9 DEF PublishDocument
<1> QED BY <1>4, <1>5, <1>6 DEF FinishDocument

LEMMA StyleWorker ==
  ASSUME TypeOK, StyleInv, WorkerStep \/ Spawn \/ SpawnFails
  PROVE /\ StyleFollowsDocument'
        /\ DOMAIN contexts' = DOMAIN contexts /\ latest_new_context' = latest_new_context
<1>1. latest_new_context' = latest_new_context
  BY ZenonT(60) DEF WorkerStep, WorkerNext, Spawn, SpawnFails, DequeueStop, DequeueClosure, DequeueCommand,
     PublishContextClosed, BeginNavigation, BeginDocument, FinishNavigation, EndNavigation,
     PublishSuccess, StopWith, FinishDocument, ExecutorPanics, FindStopping, LeaveStopping,
     FinalizeExecutor, FinishWorker, shared
<1>2. ASSUME KeepsStyles \/ StopsStyles \/ ChangesStyle(nav.context) PROVE StyleFollowsDocument'
  BY <1>2, StyleKept, StyleStopped, StyleChanged DEF StyleInv, TypeOK, StopOK
<1>3. ASSUME NEW o, FinishNavigation(o), NavigationVerdict(o) = "Publish"
      PROVE ChangesStyle(nav.context) /\ DOMAIN contexts' = DOMAIN contexts
  <2>1. IsRunning /\ PublishSuccess(o) /\ pc = "Executing"
    BY <1>3 DEF FinishNavigation
  <2>2. IsCurrent(nav)
    BY <1>3 DEF NavigationVerdict, ShouldExecute
  <2> QED BY <2>1, <2>2, StylePublish
<1>4. ASSUME NEW o, FinishDocument(o)
      PROVE /\ KeepsStyles \/ StopsStyles \/ ChangesStyle(nav.context)
            /\ DOMAIN contexts' = DOMAIN contexts
  BY <1>4, StyleFinishDocument
<1> QED BY <1>1, <1>2, <1>3, <1>4, WorkerKeepsPages, SMTT(30) DEF WorkerStep, WorkerNext

(* Only close removes a document without the worker, and only an admitted     *)
(* navigation adds a context.                                                 *)
LEMMA StyleClient ==
  ASSUME TypeOK, StyleInv, ClientStep PROVE StyleInv'
<1> DEFINE Good == \A c \in DOMAIN contexts' :
                     \/ c \in DOMAIN contexts /\ contexts'[c].document = contexts[c].document
                     \/ c > latest_new_context /\ c <= latest_new_context'
<1>1. latest_new_context \in Nat /\ latest_new_context' \in Nat /\ nav.context \in Nat
      /\ \A c \in DOMAIN contexts : c \in Nat
  <2>1. nav.context \in Nat
    BY Limits DEF TypeOK, WorkerOK, WorkType, nav, AnyToken, TokenId, NavigationId, ContextId,
                  NoToken, Token, NoNavigation
  <2> QED BY <2>1, ClientType, Limits, SMTT(30) DEF TypeOK, ContextsOK, IsContexts, ContextId
<1>2. ASSUME KeepsPages(contexts'), UNCHANGED latest_new_context, UNCHANGED <<lifecycle, styles>>
      PROVE StyleFollowsDocument' /\ Good /\ latest_new_context <= latest_new_context'
  <2>1. StyleFollowsDocument'
    BY <1>2, StyleKept DEF StyleInv, KeepsStyles, styles, ClientStep, worker
  <2> QED BY <1>1, <1>2, <2>1, SMTT(30) DEF KeepsPages
<1>3. ASSUME NEW navigation \in NavigationId, Navigate(navigation)
      PROVE StyleFollowsDocument' /\ Good /\ latest_new_context <= latest_new_context'
  <2> DEFINE c == navigation.context
  <2>1. CASE QueueInNewContext(navigation)
    <3>1. /\ contexts' = Put(contexts, c, NewContext(1, Token(navigation, 0)))
          /\ latest_new_context' = c /\ c > latest_new_context /\ c \notin DOMAIN contexts
      BY <2>1, SMTT(30) DEF QueueInNewContext
    <3>2. /\ DOMAIN contexts' = DOMAIN contexts \union {c}
          /\ contexts'[c].document = NoDocument
          /\ \A d \in DOMAIN contexts : contexts'[d] = contexts[d]
      BY <3>1 DEF Put, NewContext
    <3>3. UNCHANGED <<lifecycle, styles, pc>> /\ IsRunning
      BY <1>3, SMTT(30) DEF Navigate, Controls, ensure_accepting, ClientStep, worker
    <3>4. c \notin DOMAIN current_style_documents /\ StylesOf({c}) = {}
      BY <3>1, <3>3 DEF StyleInv, StyleFollowsDocument, CommitmentsFollowDocuments, StylesOf
    <3>5. ChangesStyle(c)
      BY <3>1, <3>2, <3>3, <3>4 DEF ChangesStyle, styles
    <3>6. StyleFollowsDocument'
      BY <3>5, StyleChanged DEF StyleInv, TypeOK, StopOK
    <3> QED BY <1>1, <3>1, <3>2, <3>6
  <2>2. CASE QueueInContext(navigation)
    <3>1. KeepsPages(contexts')
      BY <2>2, SMTT(30) DEF QueueInContext, KeepsPages, TypeOK, ContextsOK, IsContexts, ContextType
    <3> QED BY <1>2, <1>3, <2>2, <3>1 DEF Navigate, QueueInContext
  <2> QED BY <1>3, <2>1, <2>2, SMTT(30) DEF Navigate
<1>4. ASSUME NEW w, AdmitDocumentOperation(w)
      PROVE StyleFollowsDocument' /\ Good /\ latest_new_context <= latest_new_context'
  <2>1. KeepsPages(contexts')
    BY <1>4, SMTT(30) DEF AdmitDocumentOperation, KeepsPages, TypeOK, ContextsOK, IsContexts, ContextType
  <2> QED BY <1>2, <1>4, <2>1 DEF AdmitDocumentOperation
<1>5. ASSUME NEW navigation \in NavigationId, CloseContext(navigation)
      PROVE StyleFollowsDocument' /\ Good /\ latest_new_context <= latest_new_context'
  <2> DEFINE c == navigation.context
  <2>1. /\ contexts' = Restrict(contexts, DOMAIN contexts \ {c})
        /\ RetireStyle(c) /\ IsRunning /\ pc' = pc
        /\ UNCHANGED <<lifecycle, latest_new_context>>
    BY <1>5, ZenonT(60) DEF CloseContext, Controls, ensure_accepting, ClientStep, worker
  <2>2. /\ DOMAIN contexts' = DOMAIN contexts \ {c}
        /\ \A d \in DOMAIN contexts \ {c} : contexts'[d] = contexts[d]
    BY <2>1, ZenonT(60) DEF Restrict
  <2>3. ChangesStyle(c)
    BY <2>1, <2>2 DEF ChangesStyle, RetireStyle, WithoutStyle, Restrict
  <2>4. StyleFollowsDocument'
    BY <2>3, StyleChanged DEF StyleInv, TypeOK, StopOK
  <2> QED BY <1>1, <2>1, <2>2, <2>4, SMTT(30)
<1>6. ASSUME NEW next, RequestShutdown(next)
      PROVE StyleFollowsDocument' /\ Good /\ latest_new_context <= latest_new_context'
  <2>1. KeepsPages(contexts') /\ UNCHANGED <<contexts, latest_new_context>>
    BY <1>6 DEF RequestShutdown, KeepsPages
  <2>2. CASE IsRunning
    <3>1. StopsStyles
      BY <1>6, <2>2, StopStops DEF RequestShutdown
    <3> QED BY <1>1, <2>1, <3>1, StyleStopped, SMTT(30) DEF StyleInv, TypeOK, StopOK
  <2>3. CASE ~ IsRunning
    BY <1>2, <1>6, <2>1, <2>3, SMTT(30) DEF RequestShutdown, RequestStop
  <2> QED BY <2>2, <2>3
<1>7. ASSUME NEW token, Cancel(token) \/ Join
      PROVE StyleFollowsDocument' /\ Good /\ latest_new_context <= latest_new_context'
  BY <1>2, <1>7, SMTT(30) DEF Cancel, Join, shared, KeepsPages
<1>8. StyleFollowsDocument' /\ Good /\ latest_new_context <= latest_new_context'
  BY <1>3, <1>4, <1>5, <1>6, <1>7, ZenonT(60) DEF ClientStep, ClientNext, MutateDocument, RerenderDocument
<1>9. ContextsWereAdmitted'
  BY <1>1, <1>8, SMTT(30) DEF StyleInv, ContextsWereAdmitted
<1>10. ExecutingPage'
  <2>1. SUFFICES ASSUME DocumentExecutes'
        PROVE /\ nav.context <= latest_new_context'
              /\ nav.context \in DOMAIN contexts' => contexts'[nav.context].document.navigation = nav
    BY DEF ExecutingPage, ClientStep, worker, nav
  <2>2. DocumentExecutes
    BY <2>1, OthersLifecycle DEF DocumentExecutes, IsRunning, ClientStep, worker
  <2> QED BY <1>1, <1>8, <2>2, SMTT(30) DEF StyleInv, ExecutingPage
<1> QED BY <1>8, <1>9, <1>10 DEF StyleInv

LEMMA StyleReceiver ==
  ASSUME TypeOK, StyleInv, ReceiverStep PROVE StyleInv'
<1>1. UNCHANGED <<worker, latest_new_context>> /\ DOMAIN contexts' = DOMAIN contexts
  BY ZenonT(60) DEF ReceiverStep, ReceiverNext, Receive, ReceiveTerminal, TakeNavigationCommit, TakeFrame,
         TakeMutationResult, DropReceiver
<1>2. ContextsWereAdmitted'
  BY <1>1 DEF StyleInv, ContextsWereAdmitted
<1>3. ASSUME DropReceiver PROVE StyleFollowsDocument' /\ lifecycle'.phase # "Running"
  <2>1. CASE IsRunning
    <3>1. lifecycle' = Stopping("EventReceiverDropped") /\ RetireEveryStyle
      BY <1>3, <2>1, ZenonT(60) DEF DropReceiver
    <3>2. StopsStyles
      BY <3>1, SMTT(30) DEF Stopping, StopsStyles
    <3> QED BY <3>2, StyleStopped DEF StyleInv, TypeOK, StopOK, StopsStyles
  <2>2. CASE ~ IsRunning
    <3>1. UNCHANGED <<lifecycle, styles>>
      BY <1>3, <2>2, ZenonT(60) DEF DropReceiver
    <3>2. DOMAIN current_style_documents = {} /\ live_style_documents = {}
      BY <2>2 DEF StyleInv, StyleFollowsDocument, CommitmentsFollowDocuments, StylesOf
    <3> QED BY <2>2, <3>1, <3>2
            DEF StyleFollowsDocument, CommitmentsFollowDocuments, StylesOf, IsRunning, styles
  <2> QED BY <2>1, <2>2
<1>4. ASSUME ~ DropReceiver PROVE KeepsPages(contexts') /\ UNCHANGED <<lifecycle, styles>>
  <2>1. ASSUME NEW c, TakeFrame(c) PROVE KeepsPages(contexts')
    BY <2>1 DEF TakeFrame, KeepsPages, TypeOK, ContextsOK, IsContexts, ContextType
  <2>2. ASSUME UNCHANGED contexts PROVE KeepsPages(contexts')
    BY <2>2 DEF KeepsPages
  <2>3. KeepsPages(contexts')
    BY <1>4, <2>1, <2>2, ZenonT(60) DEF ReceiverStep, ReceiverNext, Receive, ReceiveTerminal,
       TakeNavigationCommit, TakeMutationResult
  <2>4. UNCHANGED <<lifecycle, styles>>
    BY <1>4, ZenonT(60) DEF ReceiverStep, ReceiverNext, Receive, ReceiveTerminal, TakeNavigationCommit,
       TakeFrame, TakeMutationResult
  <2> QED BY <2>3, <2>4
<1>5. StyleFollowsDocument'
  <2>1. ASSUME ~ DropReceiver PROVE KeepsStyles
    BY <1>1, <1>4, <2>1 DEF KeepsStyles, styles, worker
  <2> QED BY <1>3, <2>1, StyleKept DEF StyleInv
<1>6. ExecutingPage'
  <2>1. CASE DropReceiver
    BY <1>3, <2>1, SMTT(30) DEF ExecutingPage, DocumentExecutes, IsRunning
  <2>2. CASE ~ DropReceiver
    BY <1>1, <1>4, <2>2
    DEF StyleInv, ExecutingPage, DocumentExecutes, IsRunning, KeepsPages, worker, nav
  <2> QED BY <2>1, <2>2
<1> QED BY <1>2, <1>5, <1>6, SMTT(30) DEF StyleInv

LEMMA StyleStep ==
  ASSUME TypeOK, StyleInv, [Next]_vars PROVE StyleInv'
<1>1. ASSUME WorkerStep \/ Spawn \/ SpawnFails PROVE StyleInv'
  <2>1. /\ StyleFollowsDocument'
        /\ DOMAIN contexts' = DOMAIN contexts /\ latest_new_context' = latest_new_context
    BY <1>1, StyleWorker
  <2>2. ContextsWereAdmitted'
    BY <2>1 DEF StyleInv, ContextsWereAdmitted
  <2>3. ASSUME pc' # "Executing" PROVE ExecutingPage'
    BY <2>3, SMTT(30) DEF ExecutingPage, DocumentExecutes
  <2>4. ASSUME BeginNavigation PROVE ExecutingPage'
    BY <2>4 DEF BeginNavigation, ExecutingPage, DocumentExecutes, Resume, Leave
  <2>5. ASSUME BeginDocument PROVE ExecutingPage'
    <3>1. CASE ReserveAndExecute
      <4>1. /\ UNCHANGED <<work, contexts, latest_new_context>> /\ nav.context \in DOMAIN contexts
            /\ contexts[nav.context].document.navigation = nav
        BY <2>5, <3>1, SMTT(30) DEF ReserveAndExecute, DocumentWorkIsCurrent, nav, BeginDocument
      <4> QED BY <4>1, SMTT(30) DEF ExecutingPage, StyleInv, ContextsWereAdmitted, nav
    <3> QED BY <2>3, <2>5, <3>1, SMTT(30)
            DEF BeginDocument, DropStaleDocumentWork, RejectDocumentWork, LeaveUnreserved,
                Resume, Leave
  <2> QED BY <1>1, <2>1, <2>2, <2>3, <2>4, <2>5, OnlyBeginExecutes, SMTT(30) DEF StyleInv
<1>2. ASSUME UNCHANGED vars PROVE StyleInv'
  <2>1. ContextsWereAdmitted' /\ ExecutingPage'
    BY <1>2 DEF StyleInv, ContextsWereAdmitted, ExecutingPage, DocumentExecutes, IsRunning, nav,
       vars, shared, worker
  <2>2. KeepsStyles
    BY <1>2 DEF KeepsStyles, KeepsPages, vars, shared, styles, worker
  <2> QED BY <2>1, <2>2, StyleKept DEF StyleInv
<1> QED BY <1>1, <1>2, StyleClient, StyleReceiver DEF Next, Rest

(* While the engine runs, the map of commitments holds exactly the retained   *)
(* documents; no ledger is live but that of a retained document which no      *)
(* mutation has changed, and until the worker leaves its loop every such      *)
(* document has one; once a stop is requested nothing is published or live    *)
(* (publish_success, retire_if_succeeded, invalidate_shared_document,         *)
(* try_close_context, request_stop_locked).                                   *)
THEOREM StyleAuthority == Safety => []StyleFollowsDocument
<1>1. EngineInit => StyleInv
  BY EmptyMapIsEmpty DEF EngineInit, Init, WorkerInit, StyleInv, ContextsWereAdmitted, Running,
     ExecutingPage, DocumentExecutes, StyleFollowsDocument, CommitmentsFollowDocuments, StylesOf,
     FirstVersions
<1>2. StyleInv => StyleFollowsDocument
  BY DEF StyleInv
<1> QED BY <1>1, <1>2, StyleStep, TypeCorrect, PTL DEF Safety
=============================================================================
