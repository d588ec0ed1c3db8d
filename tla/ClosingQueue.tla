---------------------------- MODULE ClosingQueue ----------------------------
(***************************************************************************)
(* What the bounded queues of wild_buzzard_runtime promise: items are      *)
(* accepted while the queue is open and not full, leave it exactly once    *)
(* and in the order of acceptance, and a consumer is told the queue ended  *)
(* only when it accepts nothing more and holds nothing more.               *)
(* Items are numbered by their acceptance.                                 *)
(***************************************************************************)
EXTENDS Naturals, Sequences

CONSTANT Capacity

VARIABLES open, pending, taken, ended

vars == <<open, pending, taken, ended>>

Init == open = TRUE /\ pending = <<>> /\ taken = <<>> /\ ended = FALSE

Accept == /\ open
          /\ Len(pending) < Capacity
          /\ pending' = Append(pending, Len(taken) + Len(pending) + 1)
          /\ UNCHANGED <<open, taken, ended>>

Take == /\ pending # <<>>
        /\ taken' = Append(taken, Head(pending))
        /\ pending' = Tail(pending)
        /\ UNCHANGED <<open, ended>>

Close == open' = FALSE /\ UNCHANGED <<pending, taken, ended>>

TellEnd == /\ ~open
           /\ pending = <<>>
           /\ ended' = TRUE
           /\ UNCHANGED <<open, pending, taken>>

Next == Accept \/ Take \/ Close \/ TellEnd

Spec == Init /\ [][Next]_vars
=============================================================================
