---------------------------- MODULE EngineClient ----------------------------
(* The operations of NavigationEngine, the controller half that spawn()       *)
(* returns. A command that the code rejects with a CommandError changes       *)
(* nothing, so only accepted commands are actions.                            *)
EXTENDS EngineShared

VARIABLE handle   \* Spawning, Owned, Joining, Joined, or Failed (spawn returned Err)

Controls == handle = "Owned" /\ ensure_accepting

(* A new context: its identity must exceed every identity ever admitted, and  *)
(* contexts that are still closing keep their slot.                           *)
QueueInNewContext(navigation) ==
  LET c == navigation.context
      token == Token(navigation, 0)
  IN /\ c \notin DOMAIN contexts
     /\ c > latest_new_context
     /\ navigation.generation = 1
     /\ Cardinality(DOMAIN contexts) + Cardinality(closing_contexts) < MaxContexts
     /\ contexts' = Put(contexts, c, NewContext(1, token))
     /\ latest_new_context' = c
     /\ UNCHANGED cancelled

QueueInContext_Uncancelled(navigation) ==
  LET c == navigation.context
  IN /\ c \in DOMAIN contexts
     /\ navigation.generation > contexts[c].latest_generation
     /\ contexts' = [contexts EXCEPT ![c].latest_generation = navigation.generation,
                                     ![c].active = Token(navigation, 0)]
     /\ UNCHANGED <<cancelled, latest_new_context>>

QueueInContext_AnyGeneration(navigation) ==
  LET c == navigation.context
  IN /\ c \in DOMAIN contexts
     /\ navigation.generation # contexts[c].latest_generation
     /\ contexts' = [contexts EXCEPT ![c].latest_generation = navigation.generation,
                                     ![c].active = Token(navigation, 0)]
     /\ cancelled' = cancelled \union ({contexts[c].active} \ {NoToken})
     /\ UNCHANGED latest_new_context

(* An existing context: the new navigation supersedes and cancels whatever    *)
(* operation the context had.                                                 *)
QueueInContext(navigation) ==
  LET c == navigation.context
  IN /\ c \in DOMAIN contexts
     /\ contexts[c].latest_generation < MaxGeneration
     /\ navigation.generation > contexts[c].latest_generation
     /\ contexts' = [contexts EXCEPT ![c].latest_generation = navigation.generation,
                                     ![c].active = Token(navigation, 0)]
     /\ cancelled' = cancelled \union ({contexts[c].active} \ {NoToken})
     /\ UNCHANGED latest_new_context

(* navigate and try_queue_navigation, through queue_navigation_locked.        *)
Navigate(navigation) ==
  /\ Controls
  /\ navigation.context \notin closing_contexts
  /\ Len(commands) < CommandCapacity
  /\ QueueInNewContext(navigation) \/ QueueInContext(navigation)
  /\ commands' = Append(commands, NavigationWork(navigation))
  /\ UNCHANGED <<lifecycle, receiver_open, context_closures, closing_contexts, stream,
                 navigation_commits, styles, mutation_results, counters,
                 leases, next_document_operation_sequence, handle>>

(* try_cancel_navigation and try_cancel_document_operation: only the exact    *)
(* operation that owns the context's slot, and only once.                     *)
Cancel(token) ==
  /\ Controls
  /\ token \in Actives(contexts) \ cancelled
  /\ cancelled' = cancelled \union {token}
  /\ UNCHANGED <<lifecycle, receiver_open, queues, stream, contexts, latest_new_context,
                 navigation_commits, styles, mutation_results, counters,
                 leases, next_document_operation_sequence, handle>>

(* ensure_document_admission and reserve_document_operation_id.               *)
AdmitsDocumentOperation(navigation) ==
  /\ Controls
  /\ navigation.context \notin closing_contexts
  /\ Len(commands) < CommandCapacity
  /\ navigation.context \in DOMAIN contexts
  /\ contexts[navigation.context].active = NoToken
  /\ contexts[navigation.context].document.navigation = navigation
  /\ next_document_operation_sequence < MaxOperation

AdmitDocumentOperation(w) ==
  /\ commands' = Append(commands, w)
  /\ contexts' = [contexts EXCEPT ![w.token.navigation.context].active = w.token]
  /\ next_document_operation_sequence' = next_document_operation_sequence + 1
  /\ UNCHANGED <<lifecycle, receiver_open, context_closures, closing_contexts, stream,
                 latest_new_context, navigation_commits, styles,
                 mutation_results, retained, leases, cancelled, handle>>

(* try_queue_document_mutation: the batch's nodes, result units and payload   *)
(* are reserved before the operation exists.                                  *)
MutateDocument(navigation, batch) ==
  LET version == contexts[navigation.context].document.live
      w == DocumentMutationWork(navigation, next_document_operation_sequence, version, batch)
  IN /\ AdmitsDocumentOperation(navigation)
     /\ retained.document_nodes + pending.document_nodes + w.nodes <= MaxDocumentNodes
     /\ retained.result_nodes + pending.result_nodes + w.units <= MaxResultNodes
     /\ pending.payload_bytes + w.payload <= MaxPayloadBytes
     /\ pending' = [document_nodes |-> pending.document_nodes + w.nodes,
                    result_nodes   |-> pending.result_nodes + w.units,
                    payload_bytes  |-> pending.payload_bytes + w.payload]
     /\ AdmitDocumentOperation(w)

(* try_queue_document_rerender.                                               *)
RerenderDocument(navigation) ==
  LET version == contexts[navigation.context].document.live
  IN /\ AdmitsDocumentOperation(navigation)
     /\ AdmitDocumentOperation(
          DocumentRerenderWork(navigation, next_document_operation_sequence, version))
     /\ UNCHANGED pending

PositionsOf(c) == {i \in DOMAIN commands : commands[i].token.navigation.context = c}
Rank(positions, i) == Cardinality({j \in positions : j <= i})

(* commands.retain: the works outside a context, in their order. It is        *)
(* SelectSeq, stated by rank so that it can be reasoned about.                *)
WorksOutside_All(c) == commands
WorksOutside(c) ==
  LET kept == DOMAIN commands \ PositionsOf(c)
  IN [k \in 1 .. Cardinality(kept) |-> commands[CHOOSE i \in kept : Rank(kept, i) = k]]

(* try_close_context: a priority control that needs no queue capacity. The    *)
(* context, its queued works and its results go at once; the worker destroys  *)
(* the page later.                                                            *)
CloseContext(navigation) ==
  LET c == navigation.context
  IN /\ Controls
     /\ c \notin closing_contexts
     /\ IsCurrent(navigation)
     /\ RetireStyle(c)
     /\ cancelled' = cancelled \union ({contexts[c].active} \ {NoToken})
     /\ retained' = [frame_bytes    |-> retained.frame_bytes - FrameBytes(c),
                     document_nodes |-> retained.document_nodes - NodeCharge(c),
                     result_nodes   |-> retained.result_nodes - ResultUnits(ResultsOf(c))]
     /\ contexts' = Restrict(contexts, DOMAIN contexts \ {c})
     /\ pending' = Release(Reservations(PositionsOf(c)))
     /\ commands' = WorksOutside(c)
     /\ mutation_results' = WithoutResultsOf(c)
     /\ closing_contexts' = closing_contexts \union {c}
     /\ context_closures' = Append(context_closures, navigation)
     /\ UNCHANGED <<lifecycle, receiver_open, stream, latest_new_context, navigation_commits,
                    leases, next_document_operation_sequence, handle>>

(* request_shutdown; shutdown and drop call it and then join the worker.      *)
RequestShutdown(next) ==
  /\ handle = "Owned"
  /\ IsRunning \/ next = "Joining"
  /\ handle' = next
  /\ RequestStop(contexts, "Requested")
  /\ UNCHANGED <<receiver_open, queues, stream, contexts, latest_new_context,
                 navigation_commits, mutation_results, counters, leases,
                 next_document_operation_sequence>>

(* shutdown: the join returns once the worker thread has exited.              *)
Join ==
  /\ handle = "Joining"
  /\ lifecycle.phase = "Stopped"
  /\ handle' = "Joined"
  /\ UNCHANGED shared

ClientInit == handle = "Spawning"

ClientNext ==
  \/ \E navigation \in NavigationId : Navigate(navigation)
  \/ \E token \in TokenId : Cancel(token)
  \/ \E navigation \in NavigationId : \E batch \in Batches : MutateDocument(navigation, batch)
  \/ \E navigation \in NavigationId : RerenderDocument(navigation)
  \/ \E navigation \in NavigationId : CloseContext(navigation)
  \/ \E next \in {"Owned", "Joining"} : RequestShutdown(next)
  \/ Join
=============================================================================
