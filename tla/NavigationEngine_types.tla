------------------------ MODULE NavigationEngine_types ------------------------
(* Type correctness of the navigation engine, for every number of contexts    *)
(* and every limit. NavigationEngine_proofs builds on it.                     *)
EXTENDS NavigationEngine, FiniteSetTheorems, TLAPS

-----------------------------------------------------------------------------
(****************************** the queue filter ***************************)

(* Every non-empty set of naturals has a least element.                       *)
LEMMA NatMin ==
  ASSUME NEW T \in SUBSET Nat, T # {}
  PROVE \E x \in T : \A y \in T : x <= y
<1> DEFINE R == OpToRel(<,Nat)
<1>1. \E x \in T : \A y \in T : ~ (<<y, x>> \in R)
  BY WFMin, NatLessThanWellFounded, ZenonT(60)
<1>2. \A x, y \in Nat : y < x => <<y, x>> \in R
  BY DEF OpToRel
<1> HIDE DEF R
<1>3. PICK x \in T : \A y \in T : ~ (<<y, x>> \in R)
  BY <1>1
<1>4. \A y \in T : ~ (y < x)
  <2> TAKE y \in T
  <2>1. y \in Nat /\ x \in Nat
    OBVIOUS
  <2> QED BY <1>2, <1>3, <2>1, Zenon
<1> QED BY <1>4

(* Counting the kept positions up to i takes every value from 1 to their      *)
(* number, so the filter of commands.retain is defined at each of them.       *)
LEMMA RankAttained ==
  ASSUME NEW n \in Nat, NEW kept, kept \subseteq 1 .. n,
         NEW k \in 1 .. Cardinality(kept)
  PROVE \E i \in kept : Rank(kept, i) = k
<1> DEFINE Below(m) == {j \in kept : j <= m}
<1>1. \A j \in kept : j \in Nat /\ 1 <= j /\ j <= n
  OBVIOUS
<1>2. IsFiniteSet(kept) /\ Cardinality(kept) \in Nat
  <2>1. IsFiniteSet(1 .. n)
    BY FS_Interval
  <2> QED BY <2>1, FS_Subset, FS_CardinalityType, ZenonT(60)
<1>3. \A m \in Int : IsFiniteSet(Below(m)) /\ Cardinality(Below(m)) \in Nat
  <2> TAKE m \in Int
  <2>1. Below(m) \subseteq kept
    OBVIOUS
  <2> HIDE DEF Below
  <2> QED BY <1>2, <2>1, FS_Subset, FS_CardinalityType
<1>4. Below(n) = kept
  BY <1>1, ZenonT(60)
<1>5. Below(0) = {}
  <2>1. \A j \in kept : ~ (j <= 0)
    BY <1>1
  <2> QED BY <2>1, ZenonT(60)
<1> DEFINE T == {m \in Nat : Cardinality(Below(m)) >= k}
<1>6. k \in Nat /\ 1 <= k /\ k <= Cardinality(kept)
  BY <1>2
<1>7. PICK m \in T : \A y \in T : m <= y
  <2>1. n \in T
    BY <1>2, <1>4, <1>6
  <2> HIDE DEF T
  <2>2. T \in SUBSET Nat
    BY DEF T
  <2> QED BY <2>1, <2>2, NatMin
<1>8. PICK p \in Nat : m = p + 1
  <2>1. Cardinality(Below(0)) = 0
    BY <1>5, FS_EmptySet
  <2>2. m \in Nat /\ m # 0
    BY <2>1, <1>6, <1>7
  <2>3. m - 1 \in Nat /\ m = (m - 1) + 1
    BY <2>2
  <2> QED BY <2>3
<1> DEFINE upper == Cardinality(Below(m))
           lower == Cardinality(Below(p))
<1>9. upper \in Nat /\ lower \in Nat /\ IsFiniteSet(Below(p)) /\ m \in Nat
  BY <1>3, <1>7
<1>10. upper >= k /\ lower < k
  <2>1. upper >= k /\ p \notin T
    BY <1>7, <1>8
  <2> QED BY <2>1, <1>6, <1>9
<1>11. \A j \in kept : j <= m <=> (j <= p \/ j = m)
  BY <1>1, <1>8
<1>12. m \in kept
  <2>1. SUFFICES ASSUME m \notin kept PROVE FALSE
    OBVIOUS
  <2>2. Below(m) = Below(p)
    BY <1>11, <2>1, ZenonT(60)
  <2> HIDE DEF Below
  <2> QED BY <2>2, <1>6, <1>9, <1>10
<1>13. upper = lower + 1
  <2>1. ~ (m <= p)
    BY <1>8
  <2>2. Below(m) = Below(p) \union {m} /\ m \notin Below(p)
    BY <1>11, <1>12, <2>1, ZenonT(60)
  <2> HIDE DEF Below
  <2> QED BY <2>2, <1>9, FS_AddElement
<1>14. upper = k
  <2> HIDE DEF upper, lower
  <2> QED BY <1>6, <1>9, <1>10, <1>13
<1> QED BY <1>12, <1>14 DEF Rank

(* commands.retain keeps a queue of works a queue of works.                   *)
LEMMA WorksOutsideType ==
  ASSUME NEW c, NEW S, commands \in Seq(S)
  PROVE WorksOutside(c) \in Seq(S)
<1> DEFINE kept == DOMAIN commands \ PositionsOf(c)
           At(k) == CHOOSE i \in kept : Rank(kept, i) = k
<1>1. Len(commands) \in Nat /\ kept \subseteq 1 .. Len(commands)
  OBVIOUS
<1>2. Cardinality(kept) \in Nat
  <2>1. IsFiniteSet(1 .. Len(commands))
    BY <1>1, FS_Interval
  <2> HIDE DEF kept
  <2> QED BY <1>1, <2>1, FS_Subset, FS_CardinalityType, ZenonT(60)
<1>3. ASSUME NEW k \in 1 .. Cardinality(kept)
      PROVE commands[At(k)] \in S
  <2>1. \E i \in kept : Rank(kept, i) = k
    <3> HIDE DEF kept
    <3> QED BY <1>1, RankAttained, ZenonT(60)
  <2>2. At(k) \in kept
    <3> HIDE DEF kept
    <3> QED BY <2>1
  <2> HIDE DEF At
  <2>3. At(k) \in 1 .. Len(commands)
    BY <1>1, <2>2
  <2> QED BY <2>3
<1>4. WorksOutside(c) = [k \in 1 .. Cardinality(kept) |-> commands[At(k)]]
  BY DEF WorksOutside
<1> HIDE DEF kept, At
<1> QED BY <1>2, <1>3, <1>4
-----------------------------------------------------------------------------
(********************************* types ***********************************)

LEMMA EmptyMapIsEmpty == DOMAIN EmptyMap = {}
  BY DEF EmptyMap

LEMMA Limits ==
  /\ MaxContextId \in Nat /\ MaxGeneration \in Nat /\ MaxSequence \in Nat
  /\ MaxLease \in Nat /\ MaxOperation \in Nat /\ EventCapacity \in Nat
  BY EngineLimitsAssumption

LEMMA InitType == EngineInit => TypeOK
  BY EmptyMapIsEmpty, EngineLimitsAssumption
  DEF EngineInit, Init, WorkerInit, ClientInit, TypeOK, StopOK, StylesOK, QueuesOK, StreamOK, ContextsOK,
      IsContexts, StoresOK, CountersOK, WorkerOK, HandlesOK, LifecycleType, Running, EmptyMap,
      NoWork, CloseWork, WorkType, Token, AnyToken, NoToken, NoReserved, NoNavigation, Reasons

(* clear_*_cancellation_if_current keeps every context and its type.          *)
LEMMA ClearType ==
  ASSUME NEW ctxs, IsContexts(ctxs), NEW token
  PROVE /\ IsContexts(ClearCancellation(ctxs, token))
        /\ DOMAIN ClearCancellation(ctxs, token) = DOMAIN ctxs
  BY DEF IsContexts, ClearCancellation, ContextType, AnyToken

(* A context may be given another frame and another document.                 *)
LEMMA SetPageType ==
  ASSUME NEW ctxs, IsContexts(ctxs), NEW c, NEW f \in FrameType, NEW d \in DocumentType
  PROVE /\ IsContexts([ctxs EXCEPT ![c].frame = f, ![c].document = d])
        /\ DOMAIN [ctxs EXCEPT ![c].frame = f, ![c].document = d] = DOMAIN ctxs
  BY ZenonT(60) DEF IsContexts, ContextType

LEMMA ActivesType ==
  ASSUME NEW ctxs, IsContexts(ctxs) PROVE Actives(ctxs) \subseteq AnyToken
  BY DEF IsContexts, Actives, ContextType

(* The map of style commitments loses or gains an entry of its own context.   *)
LEMMA SameStyles == StylesOK /\ UNCHANGED styles => StylesOK'
  BY DEF StylesOK, styles
LEMMA RetireEveryType == StylesOK /\ RetireEveryStyle => StylesOK'
  BY EmptyMapIsEmpty DEF StylesOK, RetireEveryStyle
LEMMA RetireType ==
  ASSUME StylesOK, NEW c, RetireStyle(c) PROVE StylesOK'
  BY DEF StylesOK, RetireStyle, WithoutStyle, Restrict
LEMMA ReplaceType ==
  ASSUME StylesOK, nav \in NavigationId, ReplaceStyle PROVE StylesOK'
<1>1. nav.context \in ContextId /\ nav \in AnyNavigation
  BY DEF NavigationId, AnyNavigation
<1> HIDE DEF nav
<1> QED BY <1>1 DEF StylesOK, ReplaceStyle, Put
LEMMA EndLedgersType ==
  ASSUME StylesOK, UNCHANGED current_style_documents,
         live_style_documents' \subseteq live_style_documents
  PROVE StylesOK'
  BY DEF StylesOK

(* request_stop_locked.                                                       *)
LEMMA StopType ==
  ASSUME StopOK, NEW ctxs, IsContexts(ctxs), NEW reason \in Reasons, RequestStop(ctxs, reason)
  PROVE StopOK'
<1>1. CASE IsRunning
  BY <1>1, ActivesType, RetireEveryType DEF StopOK, RequestStop, LifecycleType, Stopping
<1>2. CASE ~ IsRunning
  BY <1>2, SameStyles DEF StopOK, RequestStop
<1> QED BY <1>1, <1>2

LEMMA PushType ==
  ASSUME StreamOK, CanPush(1), NEW kind \in EventKinds, NEW token \in AnyToken,
         NEW lease \in Nat, NEW result \in Nat, Push(kind, token, lease, result)
  PROVE StreamOK'
  BY EngineLimitsAssumption DEF StreamOK, CanPush, Push, Event, EventType

LEMMA NoWorkType == NoWork \in WorkType
  BY DEF NoWork, CloseWork, WorkType, Token, AnyToken, NoToken

LEMMA ResumeType == WorkerOK /\ Resume => WorkerOK'
  BY NoWorkType DEF WorkerOK, Resume, NoReserved

LEMMA LeaveType ==
  ASSUME WorkerOK, NEW reason \in Reasons \union {"None"}, Leave(reason) PROVE WorkerOK'
  BY NoWorkType DEF WorkerOK, Leave, NoReserved

(* The groups of variables that a step leaves alone.                          *)
LEMMA SameStop ==
  StopOK /\ UNCHANGED <<lifecycle, styles, cancelled>> => StopOK'
  BY SameStyles DEF StopOK
LEMMA SameQueues == QueuesOK /\ UNCHANGED queues => QueuesOK'
  BY DEF QueuesOK, queues
LEMMA SameStream == StreamOK /\ UNCHANGED stream => StreamOK'
  BY DEF StreamOK, stream
LEMMA SameContexts == ContextsOK /\ UNCHANGED <<contexts, latest_new_context>> => ContextsOK'
  BY DEF ContextsOK, IsContexts
LEMMA SameStores == StoresOK /\ UNCHANGED <<navigation_commits, mutation_results>> => StoresOK'
  BY DEF StoresOK
LEMMA SameCounters ==
  CountersOK /\ UNCHANGED <<leases, next_document_operation_sequence>> => CountersOK'
  BY DEF CountersOK, leases
LEMMA SameWorker == WorkerOK /\ UNCHANGED worker => WorkerOK'
  BY DEF WorkerOK, worker
LEMMA SameHandles == HandlesOK /\ UNCHANGED <<handle, receiver_open>> => HandlesOK'
  BY DEF HandlesOK

(* navigate, try_queue_navigation.                                            *)
LEMMA NavigateType ==
  ASSUME TypeOK, NEW navigation \in NavigationId, Navigate(navigation), UNCHANGED worker
  PROVE TypeOK'
<1>1. Token(navigation, 0) \in AnyToken /\ navigation.generation \in Generation
      /\ navigation.context \in ContextId
  BY EngineLimitsAssumption DEF Token, AnyToken, TokenId, NavigationId
<1>2. NavigationWork(navigation) \in WorkType
  BY <1>1 DEF NavigationWork, WorkType
<1>3. QueuesOK'
  BY <1>2 DEF TypeOK, Navigate, QueuesOK
<1>4. StopOK'
  BY <1>1, SameStyles DEF TypeOK, Navigate, QueueInNewContext, QueueInContext, StopOK, ContextsOK,
              IsContexts, ContextType
<1>5. ContextsOK'
  <2>1. CASE QueueInNewContext(navigation)
    <3>1. 1 \in Generation
      BY EngineLimitsAssumption DEF Generation
    <3>2. NewContext(1, Token(navigation, 0)) \in ContextType
      BY <1>1, <3>1 DEF NewContext, ContextType, NoFrame, NoDocument, FrameType, DocumentType,
                        AnyNavigation
    <3> QED BY <1>1, <2>1, <3>2 DEF TypeOK, QueueInNewContext, ContextsOK, IsContexts, Put, ContextId
  <2>2. CASE QueueInContext(navigation)
    BY <1>1, <2>2, ZenonT(60) DEF TypeOK, QueueInContext, ContextsOK, IsContexts, ContextType
  <2> QED BY <2>1, <2>2 DEF Navigate
<1> QED BY <1>3, <1>4, <1>5, SameStream, SameStores, SameCounters, SameWorker, SameHandles
        DEF TypeOK, Navigate

(* try_cancel_navigation, try_cancel_document_operation.                      *)
LEMMA CancelType ==
  ASSUME TypeOK, NEW token \in TokenId, Cancel(token), UNCHANGED worker
  PROVE TypeOK'
<1>1. StopOK'
  BY SameStyles DEF TypeOK, Cancel, StopOK, AnyToken
<1> QED BY <1>1, SameQueues, SameStream, SameContexts, SameStores, SameCounters, SameWorker,
           SameHandles DEF TypeOK, Cancel

(* The common half of try_queue_document_mutation and _rerender.              *)
LEMMA AdmitType ==
  ASSUME TypeOK, NEW navigation \in NavigationId, AdmitsDocumentOperation(navigation),
         NEW w \in WorkType, w.token = Token(navigation, next_document_operation_sequence),
         AdmitDocumentOperation(w), UNCHANGED worker
  PROVE TypeOK'
<1>1. w.token \in AnyToken /\ w.token.navigation = navigation
  BY DEF WorkType, Token
<1>2. QueuesOK'
  BY DEF TypeOK, AdmitDocumentOperation, QueuesOK
<1>3. ContextsOK'
  BY <1>1, ZenonT(60) DEF TypeOK, AdmitDocumentOperation, ContextsOK, IsContexts, ContextType
<1>4. CountersOK'
  BY Limits DEF TypeOK, AdmitsDocumentOperation, AdmitDocumentOperation, CountersOK, leases
<1> QED BY <1>2, <1>3, <1>4, SameStop, SameStream, SameStores, SameWorker, SameHandles
        DEF TypeOK, AdmitDocumentOperation

LEMMA MutateType ==
  ASSUME TypeOK, NEW navigation \in NavigationId, NEW batch \in Batches,
         MutateDocument(navigation, batch), UNCHANGED worker
  PROVE TypeOK'
<1> DEFINE w == DocumentMutationWork(navigation, next_document_operation_sequence,
                                     contexts[navigation.context].document.live, batch)
<1>1. batch \in [nodes : Nat, payload : Nat]
  BY EngineLimitsAssumption
<1>2. contexts[navigation.context].document.live \in Nat
  BY DEF TypeOK, ContextsOK, IsContexts, ContextType, DocumentType, MutateDocument,
         AdmitsDocumentOperation
<1>3. w.token = Token(navigation, next_document_operation_sequence)
  BY DEF DocumentMutationWork
<1>4. w \in WorkType
  BY <1>1, <1>2, Limits, SMTT(30)
  DEF DocumentMutationWork, WorkType, Token, AnyToken, TokenId, TypeOK, CountersOK
<1>5. AdmitsDocumentOperation(navigation) /\ AdmitDocumentOperation(w)
  BY DEF MutateDocument
<1> HIDE DEF w
<1> QED BY <1>3, <1>4, <1>5, AdmitType

LEMMA RerenderType ==
  ASSUME TypeOK, NEW navigation \in NavigationId, RerenderDocument(navigation), UNCHANGED worker
  PROVE TypeOK'
<1> DEFINE w == DocumentRerenderWork(navigation, next_document_operation_sequence,
                                     contexts[navigation.context].document.live)
<1>1. contexts[navigation.context].document.live \in Nat
  BY DEF TypeOK, ContextsOK, IsContexts, ContextType, DocumentType, RerenderDocument,
         AdmitsDocumentOperation
<1>2. w.token = Token(navigation, next_document_operation_sequence)
  BY DEF DocumentRerenderWork
<1>3. w \in WorkType
  BY <1>1, Limits
  DEF DocumentRerenderWork, WorkType, Token, AnyToken, TokenId, TypeOK, CountersOK
<1>4. AdmitsDocumentOperation(navigation) /\ AdmitDocumentOperation(w)
  BY DEF RerenderDocument
<1> HIDE DEF w
<1> QED BY <1>2, <1>3, <1>4, AdmitType

(* try_close_context.                                                         *)
LEMMA CloseType ==
  ASSUME TypeOK, NEW navigation \in NavigationId, CloseContext(navigation), UNCHANGED worker
  PROVE TypeOK'
<1> DEFINE c == navigation.context
<1>1. c \in ContextId /\ c \in DOMAIN contexts
  BY SMTT(30) DEF NavigationId, CloseContext, IsCurrent
<1>2. QueuesOK'
  BY <1>1, WorksOutsideType DEF TypeOK, CloseContext, QueuesOK
<1>3. ContextsOK'
  BY SMTT(30) DEF TypeOK, CloseContext, ContextsOK, IsContexts, Restrict
<1>4. StoresOK'
  BY DEF TypeOK, CloseContext, StoresOK, WithoutResultsOf, Restrict
<1>5. StopOK'
  BY <1>1, RetireType
  DEF TypeOK, CloseContext, StopOK, ContextsOK, IsContexts, ContextType
<1> QED BY <1>2, <1>3, <1>4, <1>5, SameStream, SameCounters, SameWorker, SameHandles, SMTT(30)
        DEF TypeOK, CloseContext

(* request_shutdown, shutdown, drop.                                          *)
LEMMA RequestShutdownType ==
  ASSUME TypeOK, NEW next \in {"Owned", "Joining"}, RequestShutdown(next), UNCHANGED worker
  PROVE TypeOK'
<1>1. StopOK'
  BY StopType DEF TypeOK, RequestShutdown, ContextsOK, Reasons
<1>2. HandlesOK'
  BY DEF TypeOK, RequestShutdown, HandlesOK
<1> QED BY <1>1, <1>2, SameQueues, SameStream, SameContexts, SameStores, SameCounters, SameWorker
        DEF TypeOK, RequestShutdown

LEMMA SharedSame ==
  ASSUME TypeOK, UNCHANGED shared
  PROVE /\ StopOK' /\ QueuesOK' /\ StreamOK' /\ ContextsOK' /\ StoresOK' /\ CountersOK'
        /\ receiver_open' = receiver_open
  BY SameStop, SameQueues, SameStream, SameContexts, SameStores, SameCounters
  DEF TypeOK, shared

LEMMA ClientType ==
  ASSUME TypeOK, ClientStep PROVE TypeOK'
<1>1. ASSUME Join PROVE TypeOK'
  BY <1>1, SharedSame, SameWorker DEF TypeOK, Join, HandlesOK, ClientStep
<1> QED BY <1>1, NavigateType, CancelType, MutateType, RerenderType, CloseType, RequestShutdownType
        DEF ClientStep, ClientNext

(******************************* the receiver ******************************)

LEMMA ReceiveType ==
  ASSUME TypeOK, Receive, UNCHANGED <<worker, handle>> PROVE TypeOK'
<1>1. StreamOK'
  BY DEF TypeOK, Receive, StreamOK
<1>2. StoresOK'
  BY DEF TypeOK, Receive, StoresOK
<1> QED BY <1>1, <1>2, SameStop, SameQueues, SameContexts, SameCounters, SameWorker, SameHandles, SMTT(30)
        DEF TypeOK, Receive

LEMMA ReceiveTerminalType ==
  ASSUME TypeOK, ReceiveTerminal, UNCHANGED <<worker, handle>> PROVE TypeOK'
<1>1. StreamOK'
  BY DEF TypeOK, ReceiveTerminal, StreamOK
<1> QED BY <1>1, SameStop, SameQueues, SameContexts, SameStores, SameCounters, SameWorker,
           SameHandles, SMTT(30) DEF TypeOK, ReceiveTerminal

LEMMA TakeCommitType ==
  ASSUME TypeOK, NEW navigation, TakeNavigationCommit(navigation), UNCHANGED <<worker, handle>>
  PROVE TypeOK'
<1>1. StoresOK'
  BY DEF TypeOK, TakeNavigationCommit, StoresOK
<1> QED BY <1>1, SameStop, SameQueues, SameStream, SameContexts, SameCounters, SameWorker,
           SameHandles, SMTT(30) DEF TypeOK, TakeNavigationCommit

LEMMA EmptyPageType == NoFrame \in FrameType /\ NoDocument \in DocumentType /\ NoToken \in AnyToken
  BY DEF NoFrame, NoDocument, FrameType, DocumentType, AnyNavigation, AnyToken

LEMMA TakeFrameType ==
  ASSUME TypeOK, NEW c, TakeFrame(c), UNCHANGED <<worker, handle>> PROVE TypeOK'
<1>1. ContextsOK'
  BY EmptyPageType, ZenonT(60) DEF TypeOK, TakeFrame, ContextsOK, IsContexts, ContextType
<1> QED BY <1>1, SameStop, SameQueues, SameStream, SameStores, SameCounters, SameWorker, SameHandles
        DEF TypeOK, TakeFrame

LEMMA TakeResultType ==
  ASSUME TypeOK, NEW lease, TakeMutationResult(lease), UNCHANGED <<worker, handle>> PROVE TypeOK'
<1>1. StoresOK'
  BY DEF TypeOK, TakeMutationResult, StoresOK, Restrict
<1> QED BY <1>1, SameStop, SameQueues, SameStream, SameContexts, SameCounters, SameWorker,
           SameHandles DEF TypeOK, TakeMutationResult

(* Drop for EngineEventReceiver.                                              *)
LEMMA DropReceiverType ==
  ASSUME TypeOK, DropReceiver, UNCHANGED <<worker, handle>> PROVE TypeOK'
<1>1. ContextsOK'
  BY EmptyPageType, ZenonT(60) DEF TypeOK, DropReceiver, ContextsOK, IsContexts, ContextType
<1>2. StopOK'
  <2>1. cancelled' = cancelled \union Actives(contexts) /\ Actives(contexts) \subseteq AnyToken
    BY ActivesType, ZenonT(60) DEF DropReceiver, TypeOK, ContextsOK
  <2>2. \/ lifecycle' = Stopping("EventReceiverDropped") /\ RetireEveryStyle
        \/ UNCHANGED <<lifecycle, styles>>
    BY ZenonT(60) DEF DropReceiver
  <2>3. Stopping("EventReceiverDropped") \in LifecycleType
    BY DEF Stopping, LifecycleType, Reasons
  <2> QED BY <2>1, <2>2, <2>3, RetireEveryType, SameStyles DEF TypeOK, StopOK
<1>3. QueuesOK' /\ StreamOK'
  <2>1. /\ commands' = <<>> /\ context_closures' = <<>> /\ closing_contexts' = {}
        /\ events' = <<>> /\ terminal_event' = NoEvent
        /\ next_event_sequence' = next_event_sequence
    BY ZenonT(60) DEF DropReceiver
  <2> QED BY <2>1, SMTT(30) DEF TypeOK, QueuesOK, StreamOK
<1>4. StoresOK' /\ HandlesOK'
  BY EmptyMapIsEmpty, ZenonT(60) DEF TypeOK, DropReceiver, StoresOK, HandlesOK
<1> QED BY <1>1, <1>2, <1>3, <1>4, SameCounters, SameWorker, ZenonT(60) DEF TypeOK, DropReceiver

LEMMA ReceiverType ==
  ASSUME TypeOK, ReceiverStep PROVE TypeOK'
  BY ReceiveType, ReceiveTerminalType, TakeCommitType, TakeFrameType, TakeResultType,
     DropReceiverType DEF ReceiverStep, ReceiverNext

(******************************** the worker *******************************)

(* worker_loop leaves at a locked section that finds a stop, or the executor  *)
(* panics.                                                                    *)
LEMMA LeaveStoppingType ==
  ASSUME TypeOK, LeaveStopping, UNCHANGED handle PROVE TypeOK'
<1>1. WorkerOK'
  BY LeaveType DEF TypeOK, LeaveStopping, StopOK, LifecycleType
<1> QED BY <1>1, SharedSame DEF TypeOK, LeaveStopping, HandlesOK

LEMMA ExecutorPanicsType ==
  ASSUME TypeOK, ExecutorPanics, UNCHANGED handle PROVE TypeOK'
<1>1. WorkerOK'
  BY LeaveType DEF TypeOK, ExecutorPanics, Reasons
<1>2. StopOK'
  BY EndLedgersType DEF TypeOK, ExecutorPanics, StopOK
<1> QED BY <1>1, <1>2, SameQueues, SameStream, SameContexts, SameStores, SameCounters, SameHandles
        DEF TypeOK, ExecutorPanics

(* dequeue_work.                                                              *)
LEMMA DequeueType ==
  ASSUME TypeOK, DequeueClosure \/ DequeueCommand, UNCHANGED handle PROVE TypeOK'
<1>1. CASE DequeueClosure
  <2>1. Head(context_closures) \in NavigationId /\ Tail(context_closures) \in Seq(NavigationId)
    BY <1>1 DEF TypeOK, QueuesOK, DequeueClosure
  <2>2. CloseWork(Head(context_closures)) \in WorkType
    BY <2>1, Limits DEF CloseWork, WorkType, Token, AnyToken, TokenId
  <2>3. QueuesOK' /\ WorkerOK'
    BY <1>1, <2>1, <2>2 DEF TypeOK, QueuesOK, WorkerOK, DequeueClosure
  <2> QED BY <1>1, <2>3, SameStop, SameStream, SameContexts, SameStores, SameCounters, SameHandles, SMTT(30)
          DEF TypeOK, DequeueClosure
<1>2. CASE DequeueCommand
  <2>1. Head(commands) \in WorkType /\ Tail(commands) \in Seq(WorkType)
    BY <1>2 DEF TypeOK, QueuesOK, DequeueCommand
  <2>2. QueuesOK' /\ WorkerOK'
    BY <1>2, <2>1 DEF TypeOK, QueuesOK, WorkerOK, DequeueCommand
  <2> QED BY <1>2, <2>2, SameStop, SameStream, SameContexts, SameStores, SameCounters, SameHandles
          DEF TypeOK, DequeueCommand
<1> QED BY <1>1, <1>2

LEMMA WorkTokenType == TypeOK => work.token \in AnyToken
  BY DEF TypeOK, WorkerOK, WorkType

(* publish_context_closed.                                                    *)
LEMMA ContextClosedType ==
  ASSUME TypeOK, PublishContextClosed, UNCHANGED handle PROVE TypeOK'
<1>1. QueuesOK'
  BY DEF TypeOK, PublishContextClosed, QueuesOK
<1>2. StreamOK' /\ StopOK' /\ WorkerOK'
  <2>1. CASE /\ CanPush(1) /\ Push("ContextClosed", work.token, 0, 0) /\ Resume
             /\ UNCHANGED <<lifecycle, styles, cancelled>>
    BY <2>1, WorkTokenType, PushType, ResumeType, SameStop DEF TypeOK, EventKinds
  <2>2. CASE /\ RequestStop(contexts, "EventQueueSaturated") /\ Leave("EventQueueSaturated")
             /\ UNCHANGED stream
    BY <2>2, StopType, LeaveType, SameStream DEF TypeOK, ContextsOK, Reasons
  <2>3. CASE /\ \E reason \in Reasons : Leave(reason)
             /\ UNCHANGED <<lifecycle, stream, styles, cancelled>>
    BY <2>3, LeaveType, SameStream, SameStop DEF TypeOK
  <2> QED BY <2>1, <2>2, <2>3 DEF PublishContextClosed, Reasons
<1> QED BY <1>1, <1>2, SameContexts, SameStores, SameCounters, SameHandles, SMTT(30)
        DEF TypeOK, PublishContextClosed

LEMMA PushFaultType == \A n : PushFault(n) \in Reasons
  BY DEF PushFault, Reasons

(* begin_navigation.                                                          *)
LEMMA BeginNavigationType ==
  ASSUME TypeOK, BeginNavigation, UNCHANGED handle PROVE TypeOK'
<1>1. StreamOK' /\ StopOK' /\ WorkerOK' /\ ContextsOK'
  <2>1. CASE /\ CanPush(1) /\ Push("NavigationStarted", work.token, 0, 0) /\ pc' = "Executing"
             /\ UNCHANGED <<lifecycle, styles, cancelled, contexts,
                            latest_new_context, work, reservation, stop_reason>>
    <3>1. StreamOK'
      BY <2>1, WorkTokenType, PushType DEF TypeOK, EventKinds
    <3> QED BY <2>1, <3>1, SameStop, SameContexts DEF TypeOK, WorkerOK
  <2>2. CASE /\ CanPush(1) /\ Push("NavigationCancelled", work.token, 0, 0)
             /\ contexts' = ClearCancellation(contexts, work.token)
             /\ Resume
             /\ UNCHANGED <<lifecycle, styles, cancelled, latest_new_context>>
    <3>1. StreamOK'
      BY <2>2, WorkTokenType, PushType DEF TypeOK, EventKinds
    <3>2. ContextsOK'
      BY <2>2, ClearType DEF TypeOK, ContextsOK, IsContexts
    <3> QED BY <2>2, <3>1, <3>2, SameStop, ResumeType DEF TypeOK
  <2>3. CASE /\ RequestStop(contexts, PushFault(1)) /\ Leave(PushFault(1))
             /\ UNCHANGED <<stream, contexts, latest_new_context>>
    BY <2>3, PushFaultType, StopType, LeaveType, SameStream, SameContexts, SMTT(30) DEF TypeOK, ContextsOK
  <2> QED BY <2>1, <2>2, <2>3 DEF BeginNavigation
<1> QED BY <1>1, SameQueues, SameStores, SameCounters, SameHandles, SMTT(30) DEF TypeOK, BeginNavigation

(* push_navigation_failure and its cancelled twin.                            *)
LEMMA EndNavigationType ==
  ASSUME TypeOK, NEW kind \in EventKinds, NEW unusable, NEW kept, IsContexts(kept),
         EndNavigation(kind, unusable, kept), UNCHANGED handle
  PROVE TypeOK'
<1> DEFINE cleared == ClearCancellation(contexts, work.token)
<1>1. IsContexts(cleared)
  BY ClearType DEF TypeOK, ContextsOK
<1>2. StreamOK' /\ StopOK' /\ WorkerOK' /\ IsContexts(contexts')
  <2>1. CASE /\ CanPush(1) /\ Push(kind, work.token, 0, 0) /\ contexts' = cleared /\ Resume
             /\ \/ RequestStop(cleared, "RendererUnavailable")
                \/ UNCHANGED <<lifecycle, styles, cancelled>>
    <3>1. StreamOK'
      BY <2>1, WorkTokenType, PushType DEF TypeOK
    <3>2. StopOK'
      BY <1>1, <2>1, StopType, SameStop DEF TypeOK, Reasons
    <3> QED BY <1>1, <2>1, <3>1, <3>2, ResumeType DEF TypeOK
  <2>2. CASE /\ contexts' = kept /\ RequestStop(kept, PushFault(1)) /\ Leave(PushFault(1))
             /\ UNCHANGED stream
    BY <2>2, PushFaultType, StopType, LeaveType, SameStream, SMTT(30) DEF TypeOK
  <2> QED BY <2>1, <2>2 DEF EndNavigation
<1>3. ContextsOK'
  BY <1>2 DEF TypeOK, ContextsOK, IsContexts, EndNavigation
<1> QED BY <1>2, <1>3, SameQueues, SameStores, SameCounters, SameHandles DEF TypeOK, EndNavigation

LEMMA StopWithType ==
  ASSUME TypeOK, NEW reason \in Reasons, StopWith(reason), UNCHANGED handle PROVE TypeOK'
<1>1. StopOK' /\ WorkerOK'
  BY StopType, LeaveType DEF TypeOK, ContextsOK, StopWith
<1> QED BY <1>1, SameQueues, SameStream, SameContexts, SameStores, SameCounters, SameHandles, SMTT(30)
        DEF TypeOK, StopWith

LEMMA NavigationOutcomeType ==
  ASSUME NEW o \in NavigationOutcomes PROVE o.bytes \in Nat /\ o.charge \in Nat
<1>1. \E bytes \in FrameSizes \union {0}, charge \in NodeCharges \union {0} :
        o.bytes = bytes /\ o.charge = charge
  BY DEF NavigationOutcomes, Outcome
<1>2. \A n \in FrameSizes \union NodeCharges \union {0} : n \in Nat
  BY ExecutorAssumption
<1> QED BY <1>1, <1>2, SMTT(30)

LEMMA DocumentOutcomeType ==
  ASSUME NEW o \in MutationOutcomes \union RerenderOutcomes PROVE o.bytes \in Nat
<1>1. \E bytes \in FrameSizes \union {0} : o.bytes = bytes
  BY DEF MutationOutcomes, RerenderOutcomes, Outcome
<1>2. \A n \in FrameSizes \union {0} : n \in Nat
  BY ExecutorAssumption
<1> QED BY <1>1, <1>2, SMTT(30)

(* publish_success, given the checks that let it publish.                     *)
LEMMA PublishSuccessType ==
  ASSUME TypeOK, NEW o, o.bytes \in Nat, o.charge \in Nat,
         IsCurrent(nav), CanPush(2), next_frame_lease < MaxLease,
         PublishSuccess(o), UNCHANGED handle
  PROVE TypeOK'
<1> DEFINE c == nav.context
           stored == [lease |-> next_frame_lease, navigation |-> nav, bytes |-> o.bytes]
<1>1. c \in DOMAIN contexts /\ c \in ContextId /\ nav \in NavigationId
  BY SMTT(30) DEF IsCurrent, TypeOK, ContextsOK, IsContexts, WorkerOK, WorkType, nav, AnyToken, TokenId,
         NoToken, Token, NoNavigation, ContextId
<1>2. stored \in FrameType /\ ReplacementDocument(o) \in DocumentType
  BY <1>1, EmptyPageType, Limits
  DEF TypeOK, CountersOK, FrameType, DocumentType, ReplacementDocument, AnyNavigation
<1>3. ContextsOK'
  <2> DEFINE cleared == ClearCancellation(contexts, work.token)
  <2>1. IsContexts(cleared) /\ DOMAIN cleared = DOMAIN contexts
    BY ClearType DEF TypeOK, ContextsOK
  <2>2. contexts' = [cleared EXCEPT ![c].frame = stored, ![c].document = ReplacementDocument(o)]
    BY DEF PublishSuccess
  <2> HIDE DEF cleared, stored
  <2>3. latest_new_context' = latest_new_context
    BY DEF PublishSuccess
  <2>4. IsContexts(contexts')
    BY <1>2, <2>1, <2>2, SetPageType, ZenonT(60)
  <2> QED BY <2>3, <2>4 DEF TypeOK, ContextsOK, IsContexts
<1>4. StopOK'
  BY <1>1, ReplaceType, RetireType DEF TypeOK, PublishSuccess, StopOK
<1>5. StoresOK'
  BY <1>1 DEF TypeOK, PublishSuccess, StoresOK, WithoutResultsOf, Restrict
<1>6. StreamOK'
  <2>1. /\ Event(next_event_sequence, "NavigationCommitted", work.token, 0, 0) \in EventType
        /\ Event(next_event_sequence + 1, "FrameReady", work.token, next_frame_lease, 0)
             \in EventType
    BY WorkTokenType, Limits DEF TypeOK, StreamOK, CountersOK, Event, EventType, EventKinds
  <2> QED BY <2>1, Limits, SMTT(30) DEF TypeOK, StreamOK, PublishSuccess, CanPush
<1>7. CountersOK'
  BY Limits, SMTT(30) DEF TypeOK, CountersOK, PublishSuccess, NextFrameLease
<1> QED BY <1>3, <1>4, <1>5, <1>6, <1>7, SameQueues, SameHandles, ResumeType, SMTT(30)
        DEF TypeOK, PublishSuccess

(* finish_navigation.                                                         *)
LEMMA FinishNavigationType ==
  ASSUME TypeOK, NEW o \in NavigationOutcomes, FinishNavigation(o), UNCHANGED handle
  PROVE TypeOK'
<1> DEFINE verdict == NavigationVerdict(o)
<1>1. o.bytes \in Nat /\ o.charge \in Nat
  BY NavigationOutcomeType
<1>2. CASE verdict \in {"NavigationCancelled", "NavigationFailed"}
  <2>1. IsContexts(contexts) /\ IsContexts(ClearCancellation(contexts, work.token))
    BY ClearType DEF TypeOK, ContextsOK
  <2>2. \E kept \in {contexts, ClearCancellation(contexts, work.token)} :
          EndNavigation(verdict, o.unusable, kept)
    BY <1>2 DEF FinishNavigation
  <2>3. verdict \in EventKinds
    BY <1>2 DEF EventKinds
  <2> HIDE DEF verdict
  <2> QED BY <2>1, <2>2, <2>3, EndNavigationType
<1>3. CASE verdict = "Publish"
  <2>1. PublishSuccess(o)
    BY <1>3 DEF FinishNavigation
  <2>2. ShouldExecute /\ PublicationVerdict(o) = "Publish"
    BY <1>3 DEF NavigationVerdict
  <2>3. CanPush(2) /\ ~ (next_frame_lease >= MaxLease)
    BY <2>2 DEF PublicationVerdict
  <2>4. next_frame_lease < MaxLease
    BY <2>3, Limits DEF TypeOK, CountersOK
  <2> QED BY <1>1, <2>1, <2>2, <2>3, <2>4, PublishSuccessType DEF ShouldExecute
<1>4. CASE verdict \in {"EventQueueSaturated", "IdentityExhausted", "ExecutorContractViolation"}
  <2>1. StopWith(verdict)
    BY <1>4 DEF FinishNavigation
  <2>2. verdict \in Reasons
    BY <1>4, SMTT(30) DEF Reasons
  <2> HIDE DEF verdict
  <2> QED BY <2>1, <2>2, StopWithType
<1> QED BY <1>2, <1>3, <1>4 DEF FinishNavigation

(* begin_document_mutation, begin_document_rerender.                          *)
LEMMA BeginDocumentType ==
  ASSUME TypeOK, BeginDocument, UNCHANGED handle PROVE TypeOK'
<1>1. IsContexts(ClearCancellation(contexts, work.token))
  BY ClearType, SMTT(30) DEF TypeOK, ContextsOK
<1>2. StreamOK' /\ WorkerOK' /\ IsContexts(contexts')
  <2>1. CASE DropStaleDocumentWork
    BY <1>1, <2>1, ResumeType, SameStream DEF TypeOK, DropStaleDocumentWork
  <2>2. CASE RejectDocumentWork
    <3>1. CanPush(1)
      BY <2>2, Limits DEF RejectDocumentWork, ReservationFault, CanPush, TypeOK, StreamOK
    <3>2. StreamOK'
      BY <2>2, <3>1, WorkTokenType, PushType DEF TypeOK, RejectDocumentWork, EventKinds
    <3> QED BY <1>1, <2>2, <3>2, ResumeType DEF TypeOK, RejectDocumentWork
  <2>3. CASE LeaveUnreserved
    <3>1. ReservationFault \in Reasons
      BY <2>3, SMTT(30) DEF LeaveUnreserved, ReservationFault, Reasons
    <3> QED BY <2>3, <3>1, LeaveType, SameStream DEF TypeOK, LeaveUnreserved, ContextsOK
  <2>4. CASE ReserveAndExecute
    BY <2>4, SameStream, Limits, SMTT(30)
    DEF TypeOK, ReserveAndExecute, WorkerOK, StreamOK, CountersOK, ContextsOK
  <2> QED BY <2>1, <2>2, <2>3, <2>4 DEF BeginDocument
<1>3. ContextsOK'
  BY <1>2 DEF TypeOK, ContextsOK, IsContexts, BeginDocument
<1> QED BY <1>2, <1>3, SameStop, SameQueues, SameStores, SameCounters, SameHandles, SMTT(30)
        DEF TypeOK, BeginDocument

(* invalidate_shared_document.                                                *)
LEMMA InvalidatedType ==
  ASSUME NEW ctxs, IsContexts(ctxs)
  PROVE IsContexts(Invalidated(ctxs)) /\ DOMAIN Invalidated(ctxs) = DOMAIN ctxs
  BY EmptyPageType, SetPageType DEF Invalidated

LEMMA InvalidateAccountsType ==
  ASSUME StoresOK, UNCHANGED navigation_commits,
         InvalidateAccounts \/ UNCHANGED <<retained, mutation_results>>
  PROVE StoresOK'
  BY DEF StoresOK, InvalidateAccounts, WithoutResultsOf, Restrict

LEMMA FinishStaleType ==
  ASSUME TypeOK, NEW o, FinishStaleDocument(o), UNCHANGED <<navigation_commits, latest_new_context>>
  PROVE StopOK' /\ StreamOK' /\ ContextsOK' /\ StoresOK' /\ WorkerOK'
<1> DEFINE cleared == ClearCancellation(contexts, work.token)
           after == IF o.kind = "Rejected" THEN cleared ELSE Invalidated(cleared)
<1>1. IsContexts(after)
  BY ClearType, InvalidatedType, SMTT(30) DEF TypeOK, ContextsOK
<1>2. ContextsOK'
  BY <1>1 DEF TypeOK, ContextsOK, FinishStaleDocument
<1>3. StoresOK'
  BY InvalidateAccountsType, SMTT(30) DEF TypeOK, FinishStaleDocument
<1>4. StopOK' /\ WorkerOK'
  <2>1. CASE RequestStop(after, "RendererUnavailable") /\ Leave("RendererUnavailable")
    <3> HIDE DEF after
    <3> QED BY <1>1, <2>1, StopType, LeaveType DEF TypeOK, Reasons
  <2>2. CASE /\ UNCHANGED styles \/ RetireStyle(nav.context)
             /\ Resume /\ UNCHANGED <<lifecycle, cancelled>>
    BY <2>2, ResumeType, SameStyles, RetireType DEF TypeOK, StopOK
  <2> QED BY <2>1, <2>2 DEF FinishStaleDocument
<1> QED BY <1>2, <1>3, <1>4, SameStream DEF TypeOK, FinishStaleDocument

LEMMA ContractViolationType ==
  ASSUME TypeOK, NEW o, FinishContractViolation(o),
         UNCHANGED <<navigation_commits, latest_new_context>>
  PROVE StopOK' /\ StreamOK' /\ ContextsOK' /\ StoresOK' /\ WorkerOK'
<1>1. StopOK' /\ WorkerOK'
  BY StopType, LeaveType DEF TypeOK, ContextsOK, FinishContractViolation, Reasons
<1>2. ContextsOK'
  BY InvalidatedType DEF TypeOK, ContextsOK, FinishContractViolation
<1>3. StoresOK'
  BY InvalidateAccountsType DEF TypeOK, FinishContractViolation
<1> QED BY <1>1, <1>2, <1>3, SameStream, SMTT(30) DEF TypeOK, FinishContractViolation

(* publish_reserved_frame, commit_mutation_result, push_reserved_event.       *)
LEMMA PublishDocumentType ==
  ASSUME TypeOK, NEW o, o.bytes \in Nat, PublishDocument(o),
         UNCHANGED <<navigation_commits, latest_new_context, next_document_operation_sequence>>,
         reservation.frame < MaxLease,
         work.kind = "Mutate" => reservation.result < MaxLease,
         next_event_sequence < MaxSequence
  PROVE StopOK' /\ StreamOK' /\ ContextsOK' /\ StoresOK' /\ CountersOK' /\ WorkerOK'
<1> DEFINE c == nav.context
           rendered == o.kind = "Rendered"
           committed == work.kind = "Mutate" /\ o.kind \in {"Rendered", "Committed"}
           old == contexts[c].document
           live == IF committed THEN old.live + 1 ELSE old.live
           frame == IF rendered THEN [lease |-> reservation.frame, navigation |-> nav,
                                      bytes |-> o.bytes]
                                ELSE contexts[c].frame
           document == [navigation |-> nav, live |-> live,
                        frame |-> IF rendered THEN live ELSE old.frame,
                        charge |-> IF committed THEN old.charge + work.nodes ELSE old.charge]
           cleared == ClearCancellation(contexts, work.token)
           after == [cleared EXCEPT ![c].frame = frame, ![c].document = document]
<1>1. /\ c \in DOMAIN contexts /\ old \in DocumentType /\ contexts[c].frame \in FrameType
      /\ nav \in AnyNavigation
  BY ZenonT(60) DEF PublishDocument, DocumentWorkIsCurrent, TypeOK, ContextsOK, IsContexts, ContextType,
         DocumentType, nav
<1>2. work.nodes \in Nat /\ work.units \in Nat /\ work.token \in AnyToken
  BY DEF TypeOK, WorkerOK, WorkType
<1>3. reservation.frame \in Nat /\ reservation.result \in Nat
  BY SMTT(30) DEF TypeOK, WorkerOK
<1>4. frame \in FrameType
  BY <1>1, <1>3, SMTT(30) DEF FrameType
<1>5. document \in DocumentType
  BY <1>1, <1>2 DEF DocumentType
<1>6. IsContexts(after) /\ contexts' = after
  <2>1. IsContexts(cleared)
    BY ClearType, SMTT(30) DEF TypeOK, ContextsOK
  <2>2. contexts' = after
    BY DEF PublishDocument
  <2> HIDE DEF cleared, frame, document
  <2> QED BY <1>4, <1>5, <2>1, <2>2, SetPageType, ZenonT(60)
<1>7. StopOK'
  <2>1. \/ RequestStop(after, "RendererUnavailable")
        \/ StyleAfterCommit(committed) /\ UNCHANGED <<lifecycle, cancelled>>
    BY DEF PublishDocument
  <2> HIDE DEF after, committed
  <2>2. ASSUME StyleAfterCommit(committed) PROVE StylesOK'
    BY <2>2, EndLedgersType DEF TypeOK, StopOK, StyleAfterCommit
  <2> QED BY <1>6, <2>1, <2>2, StopType, SMTT(30) DEF TypeOK, StopOK, Reasons
<1> HIDE DEF after
<1>8. ContextsOK'
  BY <1>6, SMTT(30) DEF TypeOK, ContextsOK
<1>9. ReservedIdentitiesHold
  BY SMTT(30) DEF PublishDocument, Publishable
<1>10. StoresOK'
  BY <1>1, <1>2, <1>3 DEF TypeOK, StoresOK, PublishDocument, Put
<1>11. CountersOK'
  <2>1. /\ next_frame_lease' \in {next_frame_lease, next_frame_lease + 1}
        /\ \/ next_mutation_result_lease' = next_mutation_result_lease
           \/ /\ work.kind = "Mutate"
              /\ next_mutation_result_lease' = next_mutation_result_lease + 1
    BY DEF PublishDocument, NextFrameLease
  <2>2. /\ next_frame_lease < MaxLease
        /\ work.kind = "Mutate" => next_mutation_result_lease < MaxLease
    BY <1>9, SMTT(30) DEF ReservedIdentitiesHold
  <2> QED BY <2>1, <2>2, Limits, SMTT(30) DEF TypeOK, CountersOK
<1>12. StreamOK'
  <2>1. CanPush(1)
    BY <1>9, Limits DEF CanPush, ReservedIdentitiesHold, TypeOK, StreamOK
  <2>2. DocumentEventKind(o) \in EventKinds
    BY SMTT(30) DEF DocumentEventKind, EventKinds
  <2> QED BY <1>2, <1>3, <2>1, <2>2, PushType, SMTT(30) DEF TypeOK, PublishDocument
<1>13. WorkerOK'
  BY ResumeType, SMTT(30) DEF TypeOK, PublishDocument
<1> QED BY <1>7, <1>8, <1>10, <1>11, <1>12, <1>13, SMTT(30)

(* finish_worker.                                                             *)
LEMMA FinishWorkerType ==
  ASSUME TypeOK, NEW reason \in Reasons \union {"None"}, NEW executor \in {"NotStarted", "Returned", "Panicked"},
         FinishWorker(reason, executor)
  PROVE /\ StopOK' /\ QueuesOK' /\ StreamOK' /\ ContextsOK' /\ StoresOK' /\ CountersOK'
        /\ WorkerOK' /\ receiver_open' = receiver_open
<1>1. StopOK'
  BY ActivesType, RetireEveryType, ZenonT(60)
  DEF TypeOK, FinishWorker, StopOK, LifecycleType, Stopped, ContextsOK
<1>2. QueuesOK'
  <2>1. commands' = <<>> /\ context_closures' = <<>> /\ closing_contexts' = {}
    BY ZenonT(60) DEF FinishWorker
  <2> QED BY <2>1, SMTT(30) DEF QueuesOK
<1>3. StreamOK'
  <2> DEFINE last == Event(next_event_sequence, "ShutdownComplete", NoToken, 0, 0)
  <2>1. last \in EventType
    BY Limits, EmptyPageType, SMTT(30) DEF TypeOK, StreamOK, Event, EventType, EventKinds
  <2>2. \/ next_event_sequence < MaxSequence /\ terminal_event' = last
           /\ next_event_sequence' = next_event_sequence + 1
        \/ UNCHANGED <<terminal_event, next_event_sequence>>
    BY ZenonT(60) DEF FinishWorker
  <2>3. events' = events
    BY ZenonT(60) DEF FinishWorker
  <2> HIDE DEF last
  <2> QED BY <2>1, <2>2, <2>3, Limits, SMTT(30) DEF TypeOK, StreamOK
<1>4. ContextsOK'
  <2>1. latest_new_context' = latest_new_context
    BY ZenonT(60) DEF FinishWorker
  <2>2. CASE contexts' = [c \in DOMAIN contexts |-> [contexts[c] EXCEPT !.active = NoToken]]
    BY <2>1, <2>2, EmptyPageType, SMTT(30) DEF TypeOK, ContextsOK, IsContexts, ContextType
  <2>3. CASE contexts' = [c \in DOMAIN contexts |->
                           [contexts[c] EXCEPT !.active = NoToken, !.frame = NoFrame]]
    BY <2>1, <2>3, EmptyPageType, ZenonT(60) DEF TypeOK, ContextsOK, IsContexts, ContextType
  <2> QED BY <2>2, <2>3, ZenonT(60) DEF FinishWorker
<1>5. WorkerOK' /\ receiver_open' = receiver_open
  BY ZenonT(60) DEF TypeOK, FinishWorker, WorkerOK
<1> QED BY <1>1, <1>2, <1>3, <1>4, <1>5, SameStores, SameCounters, ZenonT(60) DEF TypeOK, FinishWorker

(* reserve_document_publication checked that the identities it records are    *)
(* not the last ones; the type of the counters rests on it.                   *)
ReservedBelowLimits ==
  pc = "Executing" /\ work.kind # "Navigate" =>
    /\ reservation.sequence < MaxSequence
    /\ reservation.frame < MaxLease
    /\ work.kind = "Mutate" => reservation.result < MaxLease

LEMMA FinishDocumentType ==
  ASSUME TypeOK, ReservedBelowLimits, NEW o \in MutationOutcomes \union RerenderOutcomes,
         FinishDocument(o), UNCHANGED handle
  PROVE TypeOK'
<1>1. QueuesOK' /\ HandlesOK'
  BY SameQueues, SameHandles DEF TypeOK, FinishDocument
<1>2. CASE FinishStaleDocument(o) \/ FinishContractViolation(o)
  <2>1. StopOK' /\ StreamOK' /\ ContextsOK' /\ StoresOK' /\ WorkerOK'
    BY <1>2, FinishStaleType, ContractViolationType, SMTT(30) DEF FinishDocument
  <2>2. CountersOK'
    BY <1>2, SameCounters, SMTT(30) DEF TypeOK, FinishStaleDocument, FinishContractViolation, FinishDocument
  <2> QED BY <1>1, <2>1, <2>2, SMTT(30) DEF TypeOK
<1>3. CASE PublishDocument(o)
  <2>1. /\ reservation.frame < MaxLease
        /\ work.kind = "Mutate" => reservation.result < MaxLease
        /\ reservation.sequence < MaxSequence
    BY SMTT(30) DEF ReservedBelowLimits, FinishDocument
  <2>2. next_event_sequence = reservation.sequence
    BY <1>3 DEF PublishDocument, Publishable, ReservedIdentitiesHold
  <2> QED BY <1>1, <1>3, <2>1, <2>2, DocumentOutcomeType, PublishDocumentType, SMTT(30)
          DEF TypeOK, FinishDocument
<1> QED BY <1>2, <1>3 DEF FinishDocument

LEMMA WorkerType ==
  ASSUME TypeOK, ReservedBelowLimits, WorkerStep PROVE TypeOK'
<1>1. ASSUME FinalizeExecutor PROVE TypeOK'
  BY <1>1, FinishWorkerType
  DEF FinalizeExecutor, Reasons, TypeOK, HandlesOK, WorkerOK, WorkerStep
<1> QED BY <1>1, LeaveStoppingType, DequeueType, ContextClosedType, BeginNavigationType,
           BeginDocumentType, FinishNavigationType, FinishDocumentType, ExecutorPanicsType, SMTT(30)
        DEF WorkerStep, WorkerNext, DequeueStop, FindStopping

LEMMA SpawnType ==
  ASSUME TypeOK, Spawn \/ SpawnFails PROVE TypeOK'
<1>1. CASE Spawn
  BY <1>1, SharedSame, ResumeType, SMTT(30) DEF TypeOK, Spawn, HandlesOK
<1>2. CASE SpawnFails
  BY <1>2, FinishWorkerType DEF TypeOK, SpawnFails, HandlesOK, Reasons
<1> QED BY <1>1, <1>2

LEMMA StutterType ==
  ASSUME TypeOK, UNCHANGED vars PROVE TypeOK'
  BY SharedSame, SameWorker DEF TypeOK, vars, HandlesOK
-----------------------------------------------------------------------------
(* Only a begin_* section lets the executor run.                              *)
LEMMA OnlyBeginExecutes ==
  ASSUME WorkerStep \/ Spawn \/ SpawnFails, ~ BeginNavigation, ~ BeginDocument
  PROVE pc' # "Executing"
<1>1. ASSUME WorkerNext PROVE pc' # "Executing"
  BY <1>1, ZenonT(60) DEF WorkerNext, DequeueStop, DequeueClosure, DequeueCommand, PublishContextClosed,
     FinishNavigation, EndNavigation, PublishSuccess, StopWith, FinishDocument,
     FinishStaleDocument, FinishContractViolation, PublishDocument, ExecutorPanics, FindStopping,
     LeaveStopping, FinalizeExecutor, FinishWorker, Resume, Leave
<1>2. ASSUME Spawn \/ SpawnFails PROVE pc' # "Executing"
  BY <1>2, ZenonT(60) DEF Spawn, SpawnFails, Resume, FinishWorker
<1> QED BY <1>1, <1>2, SMTT(30) DEF WorkerStep

LEMMA ReservedStep ==
  ASSUME TypeOK, ReservedBelowLimits, [Next]_vars PROVE ReservedBelowLimits'
<1> USE DEF ReservedBelowLimits
<1>1. ASSUME UNCHANGED worker PROVE ReservedBelowLimits'
  BY <1>1 DEF worker
<1>2. ASSUME pc' # "Executing" PROVE ReservedBelowLimits'
  BY <1>2, SMTT(30)
<1>3. ASSUME BeginNavigation PROVE ReservedBelowLimits'
  BY <1>2, <1>3, SMTT(30) DEF BeginNavigation, Resume, Leave
<1>4. ASSUME BeginDocument PROVE ReservedBelowLimits'
  <2>1. CASE ReserveAndExecute
    BY <2>1, Limits DEF ReserveAndExecute, ReservationFault, TypeOK, StreamOK, CountersOK
  <2> QED BY <1>2, <1>4, <2>1
          DEF BeginDocument, DropStaleDocumentWork, RejectDocumentWork, LeaveUnreserved, Resume, Leave
<1>5. ASSUME WorkerStep \/ Spawn \/ SpawnFails PROVE ReservedBelowLimits'
  BY <1>2, <1>3, <1>4, <1>5, OnlyBeginExecutes
<1> QED BY <1>1, <1>5
        DEF Next, ClientStep, ReceiverStep, Rest, vars

(* Every field of the shared state and of the worker keeps its declared type, *)
(* and no event sequence, lease or operation identity passes its last value,  *)
(* whatever the limits and however the client, the receiver and the worker    *)
(* interleave (navigation.rs: SharedState, worker_loop).                      *)
THEOREM TypeCorrect == Safety => []TypeOK
<1>1. EngineInit => TypeOK /\ ReservedBelowLimits
  BY InitType DEF EngineInit, WorkerInit, ReservedBelowLimits
<1>2. TypeOK /\ ReservedBelowLimits /\ [Next]_vars => TypeOK' /\ ReservedBelowLimits'
  BY ReservedStep, ClientType, ReceiverType, WorkerType, SpawnType, StutterType DEF Next, Rest
<1> QED BY <1>1, <1>2, PTL DEF Safety
=============================================================================
