--------------------------- MODULE EngineReceiver ---------------------------
(* The operations of EngineEventReceiver, the consumer half that spawn()      *)
(* returns: it drains the event queue and takes one-shot leases.              *)
EXTENDS EngineShared

(* Leases are learned from the event that announces them.                     *)
Announced(lease) == \A i \in DOMAIN events : events[i].lease # lease
ResultAnnounced(lease) == \A i \in DOMAIN events : events[i].result # lease

Receive_KeepsCommit ==
  /\ receiver_open
  /\ events # <<>>
  /\ events' = Tail(events)
  /\ UNCHANGED <<lifecycle, receiver_open, queues, terminal_event, next_event_sequence, contexts,
                 latest_new_context, navigation_commits, styles,
                 mutation_results, counters, leases, next_document_operation_sequence, cancelled>>

(* receive_event_locked: FrameReady retires the commit record that the        *)
(* receiver has not taken.                                                    *)
Receive ==
  /\ receiver_open
  /\ events # <<>>
  /\ events' = Tail(events)
  /\ navigation_commits' = IF Head(events).kind = "FrameReady"
                           THEN navigation_commits \ {Head(events).token.navigation}
                           ELSE navigation_commits
  /\ UNCHANGED <<lifecycle, receiver_open, queues, terminal_event, next_event_sequence, contexts,
                 latest_new_context, styles, mutation_results, counters, leases,
                 next_document_operation_sequence, cancelled>>

(* receive_event_locked, once the ordinary events are drained.                *)
ReceiveTerminal ==
  /\ receiver_open
  /\ events = <<>>
  /\ terminal_event # NoEvent
  /\ terminal_event' = NoEvent
  /\ UNCHANGED <<lifecycle, receiver_open, queues, events, next_event_sequence, contexts,
                 latest_new_context, navigation_commits, styles,
                 mutation_results, counters, leases, next_document_operation_sequence, cancelled>>

TakeNavigationCommit(navigation) ==
  /\ receiver_open
  /\ navigation \in navigation_commits
  /\ navigation_commits' = navigation_commits \ {navigation}
  /\ UNCHANGED <<lifecycle, receiver_open, queues, stream, contexts, latest_new_context,
                 styles, mutation_results, counters, leases,
                 next_document_operation_sequence, cancelled>>

TakeFrame(c) ==
  /\ receiver_open
  /\ c \in DOMAIN contexts
  /\ contexts[c].frame # NoFrame
  /\ Announced(contexts[c].frame.lease)
  /\ contexts' = [contexts EXCEPT ![c].frame = NoFrame]
  /\ retained' = [retained EXCEPT !.frame_bytes = @ - FrameBytes(c)]
  /\ UNCHANGED <<lifecycle, receiver_open, queues, stream, latest_new_context, navigation_commits,
                 styles, mutation_results, pending, leases,
                 next_document_operation_sequence, cancelled>>

TakeMutationResult(lease) ==
  /\ receiver_open
  /\ lease \in DOMAIN mutation_results
  /\ ResultAnnounced(lease)
  /\ mutation_results' = Restrict(mutation_results, DOMAIN mutation_results \ {lease})
  /\ retained' = [retained EXCEPT !.result_nodes = @ - ResultUnits({lease})]
  /\ UNCHANGED <<lifecycle, receiver_open, queues, stream, contexts, latest_new_context,
                 navigation_commits, styles, pending, leases,
                 next_document_operation_sequence, cancelled>>

(* Drop for EngineEventReceiver: everything the receiver could still have     *)
(* taken is released and the worker is told to stop.                          *)
DropReceiver ==
  LET emptied == [c \in DOMAIN contexts |->
                    [contexts[c] EXCEPT !.active = NoToken, !.frame = NoFrame,
                                        !.document = NoDocument]]
  IN /\ receiver_open
     /\ receiver_open' = FALSE
     /\ events' = <<>> /\ terminal_event' = NoEvent
     /\ contexts' = emptied
     /\ IF IsRunning
        THEN /\ lifecycle' = Stopping("EventReceiverDropped")
             /\ RetireEveryStyle
        ELSE UNCHANGED <<lifecycle, styles>>
     /\ cancelled' = cancelled \union Actives(contexts)
     /\ navigation_commits' = {}
     /\ mutation_results' = EmptyMap
     /\ retained' = [frame_bytes |-> 0, document_nodes |-> 0, result_nodes |-> 0]
     /\ pending' = NoReservation
     /\ commands' = <<>> /\ context_closures' = <<>> /\ closing_contexts' = {}
     /\ UNCHANGED <<next_event_sequence, latest_new_context, leases,
                    next_document_operation_sequence>>

ReceiverNext ==
  \/ Receive
  \/ ReceiveTerminal
  \/ \E navigation \in NavigationId : TakeNavigationCommit(navigation)
  \/ \E c \in ContextId : TakeFrame(c)
  \/ \E lease \in DOMAIN mutation_results : TakeMutationResult(lease)
  \/ DropReceiver
=============================================================================
