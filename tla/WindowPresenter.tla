-------------------------- MODULE WindowPresenter --------------------------
(***************************************************************************)
(* The WebRender window presenter: WebRenderWindow owns a native EGL       *)
(* window (contract.rs, egl_window.rs), the contract it publishes to its   *)
(* caller (window_contract.rs) and the browser compositor's record of      *)
(* what is on screen (browser_compositor.rs).  Each of the three keeps its *)
(* own copy of the state; every operation updates them one after another   *)
(* and may fail in between.                                                *)
(*                                                                         *)
(* The presenter is owned by one thread, so an operation is one step.  It  *)
(* is an operator from a presenter to the set of its possible results, so  *)
(* that LinuxShell can make several calls in one callback.  A result that  *)
(* leaves the presenter unchanged and says "Refused" is a nonterminal      *)
(* error; "Terminal" is one for which is_terminal() holds.                 *)
(*                                                                         *)
(* Sizes are 0 (no area) and positive numbers.  Scene and document         *)
(* revisions, epochs, pipelines and byte limits only refuse a request; the *)
(* requests modelled are those that pass them.  The sequence of a frame is *)
(* the number of frames swapped so far.                                    *)
(***************************************************************************)
EXTENDS Integers

CONSTANTS Sizes,         \* Physical sizes; 0 is a surface without area.
          Scales,        \* Scale factors.
          MaxRevision,   \* The last surface revision (u64::MAX in the code).
          MaxFrames,     \* MAX_PRESENTATION_FRAMES, one below the window's own limit.
          None,          \* The absent value; no error.
          Blank          \* The page before the first scene and after ClearToBlank.

Lose(contract) ==
    IF contract.state \in {"Active", "Suspended"} THEN [contract EXCEPT !.state = "Lost"]
                                                  ELSE contract

Live(contract) == contract.state \in {"Active", "Suspended"}

StateFor(size) == IF size = 0 THEN "Suspended" ELSE "Active"

NewPresenter(size, scale, backend) ==
    [backend |-> backend,
     native  |-> [state |-> StateFor(size), size |-> size, scale |-> scale,
                  surface |-> size # 0, frames |-> 0],
     window  |-> [state |-> StateFor(size), size |-> size, scale |-> scale,
                  revision |-> 1, frames |-> 0],
     browser |-> [page |-> Blank, chrome |-> None, receipt |-> None,
                  stale |-> FALSE, terminal |-> FALSE],
     shown   |-> None]

Snapshot(p) == [size |-> p.window.size, scale |-> p.window.scale, revision |-> p.window.revision]

Answer(p, error) == [presenter |-> p, error |-> error]

\* A call that changes nothing.  A window that is lost or shut down says so with the
\* kind TerminalState (validate_live_snapshot).
Refused(p) == {Answer(p, IF Live(p.window) THEN "Refused" ELSE "Terminal")}

-----------------------------------------------------------------------------
\* The native window.  A native call that fails leaves its contract Lost.

Deactivate(native) ==
    {[native EXCEPT !.surface = FALSE]} \union (IF native.surface THEN {Lose(native)} ELSE {})

Activate(native) ==
    {[native EXCEPT !.surface = TRUE], Lose(native), Lose([native EXCEPT !.surface = TRUE])}

CommitResize(native, size) ==
    IF Live(native) THEN [native EXCEPT !.size = size, !.state = StateFor(size)] ELSE native

NativeResize(native, size) ==
    IF size = 0 THEN {CommitResize(n, 0) : n \in Deactivate(native)}
    ELSE IF ~native.surface THEN Activate(CommitResize(native, size))
    ELSE {CommitResize(n, size) :
            n \in UNION {IF Live(d) THEN Activate(d) ELSE {d} : d \in Deactivate(native)}}

NativeSuspend(native) ==
    {IF n.state = "Active" THEN [n EXCEPT !.state = "Suspended"] ELSE n : n \in Deactivate(native)}

NativeResume(native) ==
    {IF n.state = "Suspended" THEN [n EXCEPT !.state = "Active"] ELSE n :
        n \in IF native.surface THEN {native} ELSE Activate(native)}

NativeScale(native, scale) == {[native EXCEPT !.scale = scale]}

\* admit_frame: the surface is active and the frame budget is not used up.
NativeAdmits(native) == native.state = "Active" /\ native.frames < MaxFrames

-----------------------------------------------------------------------------
\* Surface transitions of the window: the native call, then the new snapshot under
\* the next revision, then the composition is stale.  A native error, or a panic on
\* the way, loses the window; a panic may come before or after the commit.

CommitTransition(p, native, state) ==
    [p EXCEPT !.native = native,
              !.window = [@ EXCEPT !.state = state, !.size = native.size, !.scale = native.scale,
                                   !.revision = @ + 1],
              !.browser.stale = TRUE]

LoseWindow(p) == [p EXCEPT !.window = Lose(@)]

\* states gives each native outcome the window state its snapshot would carry.
Transition(p, states) ==
    UNION {{Answer(LoseWindow([p EXCEPT !.native = n]), "Terminal")} \union
           (IF Live(n)
            THEN {Answer(CommitTransition(p, n, states[n]), None),
                  Answer(LoseWindow(CommitTransition(p, n, states[n])), "Terminal")}
            ELSE {}) : n \in DOMAIN states}

CanTransition(p) == Live(p.window) /\ p.window.revision < MaxRevision

Resize(p, size) ==
    IF CanTransition(p)
    THEN Transition(p, [n \in NativeResize(p.native, size) |-> StateFor(n.size)])
    ELSE Refused(p)

Suspend(p) ==
    IF CanTransition(p) /\ p.window.state = "Active"
    THEN Transition(p, [n \in NativeSuspend(p.native) |-> "Suspended"])
    ELSE Refused(p)

Resume(p) ==
    IF CanTransition(p) /\ p.window.state = "Suspended" /\ p.window.size # 0
    THEN Transition(p, [n \in NativeResume(p.native) |-> StateFor(n.size)])
    ELSE Refused(p)

UpdateScale_KeepsComposition(p, scale) ==
    IF CanTransition(p)
    THEN {[r EXCEPT !.presenter.browser.stale = p.browser.stale] :
            r \in Transition(p, [n \in NativeScale(p.native, scale) |-> p.window.state])}
    ELSE Refused(p)

UpdateScale_Reactivates(p, scale) ==
    IF CanTransition(p)
    THEN Transition(p, [n \in NativeScale(p.native, scale) |-> StateFor(n.size)])
    ELSE Refused(p)

\* commit_scale_transition keeps a suspended window suspended.
UpdateScale(p, scale) ==
    IF CanTransition(p)
    THEN Transition(p, [n \in NativeScale(p.native, scale) |->
                        IF p.window.state = "Suspended" THEN "Suspended" ELSE StateFor(n.size)])
    ELSE Refused(p)

-----------------------------------------------------------------------------
\* Frames.  A browser frame replaces or keeps the page (Install, ClearToBlank,
\* Retain) and replaces or keeps the chrome.  A page scene is accepted for the
\* content area of the chrome's geometry, a chrome scene for one exact snapshot.

Updates == {"Retain", "Install", "ClearToBlank"}

ChromeAfter(p, replaced) == IF replaced THEN Snapshot(p) ELSE p.browser.chrome

PageAfter(p, update, replaced) ==
    CASE update = "Retain"       -> p.browser.page
      [] update = "Install"      -> LET chrome == ChromeAfter(p, replaced)
                                    IN [size |-> chrome.size, scale |-> chrome.scale]
      [] update = "ClearToBlank" -> Blank

\* validate_candidate.  After a surface transition both scenes must be replaced,
\* unless the page is blank.
Candidate(p, update, replaced) ==
    /\ p.window.frames <= MaxFrames
    /\ update = "ClearToBlank" => p.browser.page # Blank
    /\ replaced \/ p.browser.chrome # None
    /\ p.browser.stale =>
         replaced /\ (PageAfter(p, update, replaced) = Blank \/ update # "Retain")

\* One swap that EGL accepted and both contracts counted.
Swapped(p, frame) ==
    [p EXCEPT !.native.frames = @ + 1, !.window.frames = @ + 1, !.shown = frame]

FailAfterAcceptance(p) ==
    [p EXCEPT !.window = Lose(@), !.browser.receipt = None, !.browser.terminal = TRUE]

Frame(p, page, chrome) ==
    [page |-> page, chrome |-> chrome, surface |-> Snapshot(p), sequence |-> p.window.frames + 1]

CommitSuccess(p, page, chrome, frame) ==
    [p EXCEPT !.browser = [page |-> page, chrome |-> chrome, receipt |-> frame,
                           stale |-> FALSE, terminal |-> @.terminal]]

\* The results of a frame once the request itself is valid.  The accepted transaction
\* may fail before the swap, with the native window lost or not; the swap may be done
\* and the deadline found to have passed; or everything succeeds.
SubmitBrowserFrame(p, update, replaced) ==
    LET page == PageAfter(p, update, replaced)
        chrome == ChromeAfter(p, replaced)
        frame == Frame(p, page, chrome)
    IN IF p.browser.terminal THEN
            {Answer(p, IF p.window.state = "Suspended" THEN "Refused" ELSE "Terminal")}
       ELSE IF p.window.state # "Active" \/ ~Candidate(p, update, replaced) THEN Refused(p)
       ELSE IF ~NativeAdmits(p.native) THEN {Answer(LoseWindow(p), "Terminal")}
       ELSE Refused(p) \union
            {Answer(LoseWindow(p), "Terminal"),
             Answer(FailAfterAcceptance(p), "Terminal"),
             Answer(FailAfterAcceptance([p EXCEPT !.native = Lose(@)]), "Terminal"),
             Answer(FailAfterAcceptance(Swapped(p, frame)), "Terminal"),
             Answer(CommitSuccess(Swapped(p, frame), page, chrome, frame), None)}

\* submit_scene, the presenter's own single-scene path: once its transaction is
\* accepted the browser composition is gone for good, whatever happens next.
LegacyFrame(p) == [legacy |-> TRUE, surface |-> Snapshot(p), sequence |-> p.window.frames + 1]

InvalidateForLegacy(p) == [p EXCEPT !.browser.receipt = None, !.browser.terminal = TRUE]

SubmitScene(p) ==
    IF p.window.state # "Active" \/ p.window.frames > MaxFrames THEN Refused(p)
    ELSE IF ~NativeAdmits(p.native) THEN {Answer(LoseWindow(p), "Terminal")}
    ELSE LET accepted == InvalidateForLegacy(p)
         IN Refused(p) \union
            {Answer(LoseWindow(p), "Terminal"),
             Answer(LoseWindow(accepted), "Terminal"),
             Answer(LoseWindow([accepted EXCEPT !.native = Lose(@)]), "Terminal"),
             Answer(LoseWindow(Swapped(accepted, LegacyFrame(p))), "Terminal"),
             Answer(Swapped(accepted, LegacyFrame(p)), None)}

\* hit_test_browser with a snapshot: answered from the last receipt, refused when the
\* composition is stale, gone, or of another surface.  A window that is not active
\* answers with the kind TerminalState.
HitTest(p, surface) ==
    IF p.window.state # "Active" THEN "Terminal"
    ELSE IF p.browser.stale \/ p.browser.receipt = None THEN "Refused"
    ELSE IF p.browser.receipt.surface # surface THEN "Refused"
    ELSE None

\* confirm_native_extent asks EGL for the drawn extent: it matches, or it does not
\* (Wayland: a checked resize may recreate the surface; X11: pending), or the query
\* fails.  A suspended window is not asked.
ConfirmNativeExtent(p, expected) ==
    IF ~Live(p.native) THEN {Answer(LoseWindow(p), "Terminal")}
    ELSE IF p.native.state = "Suspended" \/ expected = 0 THEN {Answer(p, "Pending")}
    ELSE {Answer(p, "Confirmed"),
          Answer(p, IF p.backend = "Wayland" THEN "ReadyForCheckedResize" ELSE "Pending"),
          Answer(LoseWindow([p EXCEPT !.native = Lose(@)]), "Terminal"),
          Answer(LoseWindow(p), "Terminal")}

\* shutdown: the native wrappers are released after the backend has confirmed its
\* shutdown and the renderer is deinitialized, otherwise kept until the process ends.
Shutdown(p) ==
    {[presenter |-> [p EXCEPT !.native.state = "Shutdown", !.window.state = "Shutdown"],
      released |-> released] : released \in BOOLEAN}

-----------------------------------------------------------------------------
\* What every presenter must satisfy between two calls.

\* The window's contract and the native one are updated one after the other by
\* resize, suspend, resume, update_scale and the swap, and every failure in between
\* must lose the window: a window that still serves has the state, size, scale and
\* frame count of its native window, which owns a surface exactly when active.
Agrees(p) ==
    Live(p.window) =>
        /\ \A f \in {"state", "size", "scale", "frames"} : p.native[f] = p.window[f]
        /\ p.native.surface <=> p.native.state = "Active"

\* hit_test_browser and the compositor's records: while a hit test is answered, the
\* receipt it is answered from is the frame EGL swapped last, that frame was drawn
\* for the present surface, and its page and chrome were laid out for the size and
\* scale they are shown at.
HitsShownFrame(p) ==
    LET shown == p.shown
    IN HitTest(p, Snapshot(p)) = None =>
         /\ p.browser.receipt = shown
         /\ shown.surface = Snapshot(p)
         /\ shown.chrome = shown.surface
         /\ shown.page # Blank =>
              shown.page = [size |-> shown.surface.size, scale |-> shown.surface.scale]
=============================================================================
