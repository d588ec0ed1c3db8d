------------------------------ MODULE MCWindow ------------------------------
(***************************************************************************)
(* A behaviour is one of the Linux shell with the presenter it owns, or    *)
(* one of a presenter alone (`solo`) under a caller that also uses         *)
(* submit_scene and makes calls the shell never makes.                     *)
(***************************************************************************)
EXTENDS LinuxShell

CONSTANT SoloFrames    \* MaxFrames of the presenter alone.

VARIABLES solo, answer

P == INSTANCE PresenterCalls WITH presenter <- solo, MaxFrames <- SoloFrames

allVars == <<vars, solo, answer>>

AnyInit == /\ Init
           /\ \/ solo = None /\ answer = None
              \/ P!Init /\ shell.capacity = 1

AnyNext == \/ solo = None /\ Next /\ UNCHANGED <<solo, answer>>
           \/ solo # None /\ P!Next /\ UNCHANGED vars

AnyFairSpec == /\ AnyInit /\ [][AnyNext]_allVars
               /\ WF_allVars(solo = None /\ OwnerStep /\ UNCHANGED <<solo, answer>>)
               /\ WF_allVars(solo = None /\ LeaveLoop /\ UNCHANGED <<solo, answer>>)

Presenters == {presenter, solo} \ {None}

\* WebRenderWindow: resize, suspend, resume, update_scale and the swap update the
\* native contract and the published one in turn; whatever fails in between, a window
\* that still serves agrees with its native window in state, size, scale, frame count
\* and the existence of a surface.
ContractsAgree == \A p \in Presenters : Agrees(p)

\* hit_test_browser answers only for the frame that EGL swapped last, drawn for the
\* present surface with scenes laid out for its size and scale.
HitTestNamesShownFrame == \A p \in Presenters : HitsShownFrame(p)

=============================================================================
