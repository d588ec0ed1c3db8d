--------------------------- MODULE PresenterCalls ---------------------------
(***************************************************************************)
(* WebRenderWindow under a caller that makes its public calls in any order *)
(* and with any arguments, stale snapshots included.                       *)
(***************************************************************************)
EXTENDS WindowPresenter

VARIABLES presenter,   \* The presenter.
          answer       \* What the last call returned.

vars == <<presenter, answer>>

Init == /\ \E size \in Sizes, scale \in Scales, backend \in {"Wayland", "X11"} :
              presenter = NewPresenter(size, scale, backend)
        /\ answer = None

Return(results) == \E r \in results : presenter' = r.presenter /\ answer' = r.error

CallResize == \E size \in Sizes : Return(Resize(presenter, size))

CallSuspend == Return(Suspend(presenter))

CallResume == Return(Resume(presenter))

CallUpdateScale == \E scale \in Scales : Return(UpdateScale(presenter, scale))

CallSubmitBrowserFrame == \E update \in Updates, replaced \in BOOLEAN :
                             Return(SubmitBrowserFrame(presenter, update, replaced))

CallSubmitScene == Return(SubmitScene(presenter))

CallHitTest == Return({Answer(presenter, HitTest(presenter, Snapshot(presenter)))})

CallConfirm == \E size \in Sizes : Return(ConfirmNativeExtent(presenter, size))

Next == \/ CallResize \/ CallSuspend \/ CallResume \/ CallUpdateScale
        \/ CallSubmitBrowserFrame \/ CallSubmitScene \/ CallHitTest \/ CallConfirm

Spec == Init /\ [][Next]_vars

-----------------------------------------------------------------------------
\* window_contract.rs says of is_terminal that "the current renderer/presenter may not
\* accept another transaction": an error that is terminal comes from a window that
\* will serve no more calls.
TerminalErrorsAreFinal == answer = "Terminal" => ~Live(presenter.window)
=============================================================================
