---------------------------- MODULE EngineShared ----------------------------
(* The state that the navigation engine's client, event receiver and worker   *)
(* share behind one mutex (navigation.rs: Shared and SharedState), the        *)
(* identities it hands out, and the helpers that run with the mutex held.     *)
(* Every section of code that holds the mutex is one action; the modules      *)
(* EngineClient, EngineReceiver and EngineWorker hold the three actors.       *)
EXTENDS Integers, Sequences, FiniteSets, FiniteSetsExt, Functions

CONSTANTS
  MaxContextId,      \* top-level contexts are named 1 .. MaxContextId
  MaxGeneration,     \* u64::MAX of the navigation generation of one context
  MaxSequence,       \* u64::MAX of next_event_sequence
  MaxLease,          \* u64::MAX of the frame and mutation-result lease counters
  MaxOperation,      \* u64::MAX of next_document_operation_sequence
  CommandCapacity, EventCapacity, MaxContexts,           \* EngineLimits
  MaxFrameBytes, MaxRetainedFrameBytes,
  MaxDocumentNodes, MaxResultNodes, MaxPayloadBytes,
  Batches            \* mutation batches a client may send: [nodes, payload]

ASSUME EngineLimitsAssumption ==
  /\ {MaxContextId, MaxGeneration, MaxSequence, MaxLease, MaxOperation} \subseteq Nat \ {0}
  /\ {CommandCapacity, MaxContexts, MaxFrameBytes, MaxRetainedFrameBytes} \subseteq Nat \ {0}
  /\ {MaxDocumentNodes, MaxResultNodes, MaxPayloadBytes} \subseteq Nat \ {0}
  /\ EventCapacity \in Nat /\ EventCapacity >= 3
  /\ MaxRetainedFrameBytes >= MaxFrameBytes
  /\ Batches \subseteq [nodes : Nat, payload : Nat]

VARIABLES
  lifecycle,               \* Running, Stopping(reason) or Stopped(reason, executor)
  receiver_open,
  commands,                \* VecDeque<EngineWork>
  context_closures,        \* VecDeque<NavigationId>
  closing_contexts,
  events, terminal_event,
  contexts,                \* BTreeMap<TopLevelContextId, ContextState>
  latest_new_context,      \* 0 for None
  navigation_commits,      \* the navigations whose commit record is stored
  current_style_documents, \* context -> the navigation whose style ledger is published
  live_style_documents,    \* the navigations whose StyleDocumentLifecycle is Current
  mutation_results,        \* lease -> StoredMutationResult
  retained, pending,       \* the six resource counters
  next_event_sequence, next_frame_lease, next_mutation_result_lease,
  next_document_operation_sequence,
  cancelled                \* the operations whose cancellation token is set

queues == <<commands, context_closures, closing_contexts>>
stream == <<events, terminal_event, next_event_sequence>>
leases == <<next_frame_lease, next_mutation_result_lease>>
counters == <<retained, pending>>
styles == <<current_style_documents, live_style_documents>>
shared == <<lifecycle, receiver_open, queues, stream, contexts, latest_new_context,
            navigation_commits, styles, mutation_results, counters, leases,
            next_document_operation_sequence, cancelled>>

(****************************** identities ********************************)

ContextId == 1 .. MaxContextId
Generation == 1 .. MaxGeneration
NavigationId == [context : ContextId, generation : Generation]
NoNavigation == [context |-> 0, generation |-> 0]

(* The identity of one cancellable operation: a navigation (operation 0) or a *)
(* document operation of a navigation. It names the ActiveCancellation of a   *)
(* context and the cancellation token its work carries.                       *)
Token(navigation, operation) == [navigation |-> navigation, operation |-> operation]
NoToken == Token(NoNavigation, 0)
TokenId == [navigation : NavigationId, operation : 0 .. MaxOperation]

(******************************* records **********************************)

EmptyMap == [key \in {} |-> key]
Put(map, key, value) == [k \in DOMAIN map \union {key} |-> IF k = key THEN value ELSE map[k]]

NoFrame == [lease |-> 0, navigation |-> NoNavigation, bytes |-> 0]
NoDocument == [navigation |-> NoNavigation, live |-> 0, frame |-> 0, charge |-> 0]

NewContext(generation, active) ==
  [latest_generation |-> generation, active |-> active,
   frame |-> NoFrame, document |-> NoDocument]

NavigationWork(navigation) ==
  [kind |-> "Navigate", token |-> Token(navigation, 0), version |-> 0,
   nodes |-> 0, units |-> 0, payload |-> 0]

DocumentMutationWork(navigation, operation, version, batch) ==
  [kind |-> "Mutate", token |-> Token(navigation, operation), version |-> version,
   nodes |-> batch.nodes, units |-> IF batch.nodes = 0 THEN 1 ELSE batch.nodes,
   payload |-> batch.payload]

DocumentRerenderWork(navigation, operation, version) ==
  [kind |-> "Rerender", token |-> Token(navigation, operation), version |-> version,
   nodes |-> 0, units |-> 0, payload |-> 0]

CloseWork(navigation) ==
  [kind |-> "Close", token |-> Token(navigation, 0), version |-> 0,
   nodes |-> 0, units |-> 0, payload |-> 0]

Event(sequence, kind, token, lease, result) ==
  [sequence |-> sequence, kind |-> kind, token |-> token, lease |-> lease, result |-> result]
NoEvent == Event(0, "None", NoToken, 0, 0)

(******************************* lifecycle ********************************)

Running == [phase |-> "Running", reason |-> "None", executor |-> "None"]
Stopping(reason) == [phase |-> "Stopping", reason |-> reason, executor |-> "None"]
Stopped(reason, executor) == [phase |-> "Stopped", reason |-> reason, executor |-> executor]

IsRunning == lifecycle.phase = "Running"

Actives(ctxs) == {ctxs[c].active : c \in DOMAIN ctxs} \ {NoToken}

(* The style ledgers published for some contexts.                             *)
StylesOf(cs) == {current_style_documents[c] : c \in DOMAIN current_style_documents \intersect cs}

(* Every published style ledger is retired and the map cleared.               *)
RetireEveryStyle ==
  /\ current_style_documents' = EmptyMap
  /\ live_style_documents' = live_style_documents \ StylesOf(ContextId)

(* request_stop_locked: the first request wins; it retires every current      *)
(* style document and cancels every active operation.                         *)
RequestStop(ctxs, reason) ==
  IF IsRunning
  THEN /\ lifecycle' = Stopping(reason)
       /\ RetireEveryStyle
       /\ cancelled' = cancelled \union Actives(ctxs)
  ELSE UNCHANGED <<lifecycle, styles, cancelled>>

(************************* helpers under the lock **************************)

ensure_accepting == receiver_open /\ IsRunning

IsCurrent(navigation) ==
  /\ navigation.context \in DOMAIN contexts
  /\ contexts[navigation.context].latest_generation = navigation.generation

(* document_work_is_current: the document is the one the operation was        *)
(* admitted for and the operation still owns the context's cancellation slot. *)
DocumentWorkIsCurrent(w) ==
  LET navigation == w.token.navigation
      context == contexts[navigation.context]
  IN /\ navigation.context \in DOMAIN contexts
     /\ context.document.navigation = navigation
     /\ context.document.live = w.version
     /\ context.active = w.token

ClearCancellation_Never(ctxs, token) == ctxs

(* clear_navigation_cancellation_if_current and its document twin.            *)
ClearCancellation(ctxs, token) ==
  LET c == token.navigation.context
  IN IF c \in DOMAIN ctxs /\ ctxs[c].active = token
     THEN [ctxs EXCEPT ![c].active = NoToken]
     ELSE ctxs

FrameBytes(c) == IF c \in DOMAIN contexts THEN contexts[c].frame.bytes ELSE 0
NodeCharge(c) == IF c \in DOMAIN contexts THEN contexts[c].document.charge ELSE 0

NoReservation == [document_nodes |-> 0, result_nodes |-> 0, payload_bytes |-> 0]

Reservation(w) ==
  [document_nodes |-> w.nodes, result_nodes |-> w.units, payload_bytes |-> w.payload]

(* The reservations of the works at some positions of the command queue.      *)
Reservations(positions) ==
  [document_nodes |-> MapThenSumSet(LAMBDA i : commands[i].nodes, positions),
   result_nodes   |-> MapThenSumSet(LAMBDA i : commands[i].units, positions),
   payload_bytes  |-> MapThenSumSet(LAMBDA i : commands[i].payload, positions)]

(* release_pending_mutation_reservations.                                     *)
Release(reservation) ==
  [document_nodes |-> pending.document_nodes - reservation.document_nodes,
   result_nodes   |-> pending.result_nodes - reservation.result_nodes,
   payload_bytes  |-> pending.payload_bytes - reservation.payload_bytes]

ResultsOf(c) == {l \in DOMAIN mutation_results : mutation_results[l].navigation.context = c}
ResultUnits(ls) == MapThenSumSet(LAMBDA l : mutation_results[l].units, ls)
WithoutResultsOf_Kept(c) == mutation_results
WithoutResultsOf(c) == Restrict(mutation_results, DOMAIN mutation_results \ ResultsOf(c))

WithoutStyle(c) == Restrict(current_style_documents, DOMAIN current_style_documents \ {c})

(* retire_current_style_document: taken out of the map, and its ledger retired. *)
RetireStyle(c) ==
  /\ current_style_documents' = WithoutStyle(c)
  /\ live_style_documents' = live_style_documents \ StylesOf({c})

(***************************** the event queue *****************************)

CanPush(n) ==
  /\ Len(events) + n <= EventCapacity
  /\ next_event_sequence + n <= MaxSequence

(* The order in which the code tests the two ways an event cannot be queued.  *)
PushFault(n) ==
  IF Len(events) + n > EventCapacity THEN "EventQueueSaturated" ELSE "IdentityExhausted"

Push_Unreserved(kind, token, lease, result) ==
  /\ events' = Append(events, Event(next_event_sequence, kind, token, lease, result))
  /\ UNCHANGED <<terminal_event, next_event_sequence>>

Push(kind, token, lease, result) ==
  /\ events' = Append(events, Event(next_event_sequence, kind, token, lease, result))
  /\ next_event_sequence' = next_event_sequence + 1
  /\ UNCHANGED terminal_event

Init ==
  /\ lifecycle = Running
  /\ receiver_open = TRUE
  /\ commands = <<>> /\ context_closures = <<>> /\ closing_contexts = {}
  /\ events = <<>> /\ terminal_event = NoEvent
  /\ contexts = EmptyMap
  /\ latest_new_context = 0
  /\ navigation_commits = {}
  /\ current_style_documents = EmptyMap /\ live_style_documents = {}
  /\ mutation_results = EmptyMap
  /\ retained = [frame_bytes |-> 0, document_nodes |-> 0, result_nodes |-> 0]
  /\ pending = NoReservation
  /\ next_event_sequence = 1 /\ next_frame_lease = 1 /\ next_mutation_result_lease = 1
  /\ next_document_operation_sequence = 1
  /\ cancelled = {}
=============================================================================
