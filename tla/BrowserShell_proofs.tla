------------------------- MODULE BrowserShell_proofs -------------------------
(* The poll thread of the browser's window handler, for every number of tabs  *)
(* and every limit of session and engine: what the engine does is not looked  *)
(* at, only what the session's and the shell's steps leave behind.            *)
EXTENDS BrowserShell, TLAPS

(* Tabs are records of TabState's fields, so that a step that assigns some of *)
(* them is known to keep the others.                                          *)
IsTab(t) ==
  t = [latest |-> t.latest, phases |-> t.phases, live |-> t.live, loading |-> t.loading,
       document |-> t.document, frame |-> t.frame, rerender |-> t.rerender]

TabsAreTabs ==
  /\ tabs = [c \in DOMAIN tabs |-> tabs[c]]
  /\ \A c \in DOMAIN tabs : IsTab(tabs[c])

NoTabLoads == \A c \in DOMAIN tabs : tabs[c].loading = 0

(* The inductive invariant: the property, and the shape of the tabs.          *)
IInv == TabsAreTabs /\ PollsWhileOutstanding

(* The first tab of a new window is a tab and does not load.                  *)
LEMMA InitOK == ShellInit => IInv
  BY DEF ShellInit, SessionInit, IInv, TabsAreTabs, IsTab, PollsWhileOutstanding, NewTab,
         EmptyMap

(* Ending the session, whatever the reason, leaves no tab.                    *)
LEMMA EndOK ==
  ASSUME NEW reason, reason # "Running", End(reason) PROVE IInv'
  BY DEF End, IInv, TabsAreTabs, PollsWhileOutstanding, EmptyMap

(* A step that touches neither the session's tabs nor the shell.              *)
LEMMA QuietOK ==
  ASSUME IInv, UNCHANGED <<tabs, closing, session, polling, rerender_pending>> PROVE IInv'
  BY DEF IInv, TabsAreTabs, IsTab, PollsWhileOutstanding

(* Any step that starts polling, as navigating and closing a tab do, has only *)
(* to keep the tabs' shape.                                                   *)
LEMMA PollingOK ==
  ASSUME TabsAreTabs', polling' PROVE IInv'
  BY DEF IInv, PollsWhileOutstanding

(* Drawing consumes a frame and may ask for a rerender: the entry it leaves   *)
(* in rerender_pending comes with polling.                                    *)
LEMMA DrawOK ==
  ASSUME IInv, Idle, NEW s, NEW suppressed, NEW again, Draw(s, suppressed, again) PROVE IInv'
<1>1. PICK accepted \in Compositions :
        LET requests == Requests(s, suppressed, accepted)
            fault == DrawFailure(requests, accepted)
        IN IF fault # "None" THEN Fail(fault)
           ELSE /\ tabs' = [tabs EXCEPT ![active].frame = NoFrame,
                                    ![active].rerender = IF requests THEN NoRerender ELSE @]
                /\ rerender_pending' = PendingAfter(s, requests, accepted)
                /\ polling' = (polling \/ requests)
                /\ UNCHANGED <<closing, session>>
  BY DEF Draw
<1> DEFINE requests == Requests(s, suppressed, accepted)
<1>2. CASE Fail(DrawFailure(requests, accepted))
  BY <1>2, EndOK DEF Fail
<1>3. CASE ~ Fail(DrawFailure(requests, accepted))
  <2>1. /\ tabs' = [tabs EXCEPT ![active].frame = NoFrame,
                                ![active].rerender = IF requests THEN NoRerender ELSE @]
        /\ rerender_pending' = PendingAfter(s, requests, accepted)
        /\ polling' = (polling \/ requests)
        /\ UNCHANGED <<closing, session>>
    BY <1>1, <1>3
  <2> HIDE DEF requests
  <2>2. DOMAIN tabs' = DOMAIN tabs
    BY <2>1 DEF IInv, TabsAreTabs
  <2>3. \A c \in DOMAIN tabs : IsTab(tabs'[c]) /\ tabs'[c].loading = tabs[c].loading
    BY <2>1 DEF IInv, TabsAreTabs, IsTab
  <2>4. TabsAreTabs'
    BY <2>1, <2>2, <2>3 DEF IInv, TabsAreTabs, IsTab
  <2>5. ~ requests /\ rerender_pending = EmptyMap => rerender_pending' = EmptyMap
    BY <2>1 DEF PendingAfter, Without, Restrict, EmptyMap
  <2> QED BY <2>1, <2>2, <2>3, <2>4, <2>5 DEF IInv, PollsWhileOutstanding
<1> QED BY <1>2, <1>3

(* Adding, removing or rewriting tabs by whole records keeps their shape.     *)
LEMMA PutOK ==
  ASSUME TabsAreTabs, NEW c, NEW t, IsTab(t), tabs' = Put(tabs, c, t) PROVE TabsAreTabs'
  BY DEF TabsAreTabs, Put, IsTab

(* open_tab, through the user's command: the new tab does not load.           *)
LEMMA OpensOK == ASSUME IInv, UserOpensTab PROVE IInv'
<1>1. IsTab(NewTab) /\ NewTab.loading = 0
  BY DEF IsTab, NewTab
<1>2. tabs' = Put(tabs, next_context, NewTab)
  BY DEF UserOpensTab, OpenTab
<1>3. TabsAreTabs'
  BY <1>1, <1>2, PutOK DEF IInv
<1>4. UNCHANGED <<closing, session, polling, rerender_pending>>
  BY DEF UserOpensTab, OpenTab, rerenders
<1>5. NoTabLoads => NoTabLoads'
  <2>1. /\ DOMAIN tabs' = DOMAIN tabs \union {next_context}
        /\ \A c \in DOMAIN tabs' : tabs'[c] = IF c = next_context THEN NewTab ELSE tabs[c]
    BY <1>2, Zenon DEF Put
  <2> QED BY <1>1, <2>1 DEF NoTabLoads
<1> QED BY <1>3, <1>4, <1>5 DEF IInv, PollsWhileOutstanding, NoTabLoads

(* send_navigation: the admitted navigation loads, and the shell polls.       *)
LEMMA NavigatesOK == ASSUME IInv, NEW c \in DOMAIN tabs, UserNavigates(c) PROVE IInv'
<1> DEFINE g == AllocatedGeneration(c)
           pruned == [t \in DOMAIN tabs |-> Prune(tabs[t])]
<1>1. CASE End("EngineContract")
  BY <1>1, EndOK
<1>2. CASE ~ End("EngineContract")
  <2>1. /\ tabs' = [pruned EXCEPT ![c].phases = Put(@, g, "Requested"),
                                  ![c].latest = g, ![c].loading = g]
        /\ session' = session /\ session = "Running"
    BY <1>2 DEF UserNavigates, SendNavigation, Idle
  <2>2. polling'
    BY <2>1 DEF UserNavigates
  <2>3. \A t \in DOMAIN tabs : IsTab(pruned[t])
    BY DEF IInv, TabsAreTabs, IsTab, Prune
  <2> HIDE DEF g, pruned
  <2>4. TabsAreTabs'
    <3>1. pruned = [t \in DOMAIN tabs |-> pruned[t]]
      BY DEF pruned
    <3> QED BY <2>1, <2>3, <3>1 DEF TabsAreTabs, IsTab
  <2> QED BY <2>2, <2>4, PollingOK
<1> QED BY <1>1, <1>2

(* close_tab: the last tab ends the session; otherwise the shell polls for    *)
(* the acknowledgement.                                                       *)
LEMMA ClosesOK == ASSUME IInv, NEW c \in DOMAIN tabs, UserClosesTab(c) PROVE IInv'
<1>1. CASE End("Closed")
  BY <1>1, EndOK
<1>2. CASE ~ End("Closed")
  <2>1. /\ tabs' = Restrict(tabs, DOMAIN tabs \ {c})
        /\ session' = session /\ session = "Running"
    BY <1>2 DEF UserClosesTab, CloseTab, Idle
  <2>2. polling'
    BY <2>1 DEF UserClosesTab
  <2>3. TabsAreTabs'
    BY <2>1 DEF IInv, TabsAreTabs, IsTab, Restrict
  <2> QED BY <2>2, <2>3, PollingOK
<1> QED BY <1>1, <1>2

(* An applied event ends a tab's loading or leaves it, and removes a closing  *)
(* context or leaves it.                                                      *)
LEMMA AppliesOK == ASSUME IInv, PumpEvent, UNCHANGED <<rerenders, polling>> PROVE IInv'
<1> USE DEF rerenders
<1>1. CASE Poll
  BY <1>1, QuietOK DEF Poll, tabState
<1>2. CASE ApplyNavigation
  <2>1. /\ tabs' = [tabs EXCEPT ![subject.context].phases[subject.generation] = Reached[event.kind],
                                ![subject.context].loading = LoadingAfter(event.kind)]
        /\ Owned /\ UNCHANGED <<closing, session>>
    BY <1>2 DEF ApplyNavigation, Applied
  <2>2. LoadingAfter(event.kind) \in {0, tab.loading}
    BY DEF LoadingAfter
  <2> HIDE DEF Owned
  <2>3. TabsAreTabs'
    BY <2>1 DEF IInv, TabsAreTabs, IsTab
  <2>4. NoTabLoads => NoTabLoads'
    BY <2>1, <2>2 DEF IInv, TabsAreTabs, IsTab, NoTabLoads, Owned, tab
  <2> QED BY <2>1, <2>3, <2>4 DEF IInv, PollsWhileOutstanding, NoTabLoads
<1>3. CASE ApplyFrame
  <2>1. /\ tabs' = [tabs EXCEPT ![subject.context].phases = PublishedPhases,
                                ![subject.context].live = subject.generation,
                                ![subject.context].document = subject.generation,
                                ![subject.context].loading = LoadingAfter("FrameReady"),
                                ![subject.context].frame = InstalledFrame]
        /\ Owned /\ UNCHANGED <<closing, session>>
    BY <1>3 DEF ApplyFrame, Applied
  <2>2. LoadingAfter("FrameReady") \in {0, tab.loading}
    BY DEF LoadingAfter
  <2>3. /\ TabsAreTabs' /\ DOMAIN tabs' = DOMAIN tabs
        /\ \A d \in DOMAIN tabs : tabs'[d].loading =
             IF d = subject.context THEN LoadingAfter("FrameReady") ELSE tabs[d].loading
    <3>1. PICK c, p, g, l, f :
            /\ tabs' = [tabs EXCEPT ![c].phases = p, ![c].live = g, ![c].document = g,
                                    ![c].loading = l, ![c].frame = f]
            /\ c = subject.context /\ l = LoadingAfter("FrameReady")
      BY <2>1, Zenon
    <3>2. TabsAreTabs
      BY DEF IInv
    <3>3. TabsAreTabs'
      BY <3>1, <3>2, ZenonT(60) DEF TabsAreTabs, IsTab
    <3>4. /\ DOMAIN tabs' = DOMAIN tabs
          /\ \A d \in DOMAIN tabs : tabs'[d].loading = IF d = c THEN l ELSE tabs[d].loading
      BY <3>1, <3>2, SMTT(30) DEF TabsAreTabs, IsTab
    <3> QED BY <3>1, <3>3, <3>4, Zenon
  <2>4. NoTabLoads => NoTabLoads'
    BY <2>1, <2>2, <2>3 DEF NoTabLoads, Owned, tab
  <2> QED BY <2>1, <2>3, <2>4 DEF IInv, PollsWhileOutstanding, NoTabLoads
<1>4. CASE ApplyRerender
  <2>1. PICK frame, rerender :
          tabs' = [tabs EXCEPT ![subject.context].frame = frame,
                               ![subject.context].rerender = rerender]
    BY <1>4 DEF ApplyRerender
  <2>2. UNCHANGED <<closing, session>>
    BY <1>4 DEF ApplyRerender, Applied
  <2>3. TabsAreTabs'
    BY <2>1 DEF IInv, TabsAreTabs, IsTab
  <2>4. NoTabLoads => NoTabLoads'
    BY <2>1 DEF IInv, TabsAreTabs, IsTab, NoTabLoads
  <2> QED BY <2>2, <2>3, <2>4 DEF IInv, PollsWhileOutstanding, NoTabLoads
<1>5. CASE ApplyRetired
  <2>1. UNCHANGED <<tabs, session>>
    BY <1>5 DEF ApplyRetired, Applied
  <2>2. closing = EmptyMap => closing' = EmptyMap
    BY <1>5 DEF ApplyRetired, Restrict, EmptyMap
  <2> QED BY <2>1, <2>2 DEF IInv, TabsAreTabs, IsTab, PollsWhileOutstanding
<1> QED BY <1>1, <1>2, <1>3, <1>4, <1>5 DEF PumpEvent

(* The end of pump_engine: the poll thread rests only if nothing is left, and *)
(* never after a full batch.                                                  *)
LEMMA PumpEndsOK == ASSUME IInv, NEW more \in BOOLEAN, PumpEnds(more) PROVE IInv'
<1>1. /\ UNCHANGED <<tabs, closing, session>>
      /\ polling' = (more \/ Outstanding)
      /\ rerender_pending' = Restrict(rerender_pending, Unsettled)
  BY DEF PumpEnds, browser, controller, tabState
<1>2. ~ Outstanding => closing = EmptyMap /\ NoTabLoads /\ Unsettled = {}
  BY DEF Outstanding, NoTabLoads
<1>3. Unsettled = {} => rerender_pending' = EmptyMap
  BY <1>1 DEF Restrict, EmptyMap
<1> QED BY <1>1, <1>2, <1>3 DEF IInv, TabsAreTabs, IsTab, PollsWhileOutstanding, NoTabLoads

(* Every step of user, surface, shell and worker keeps the invariant.         *)
LEMMA StepOK == IInv /\ [ShellNext]_window => IInv'
<1> SUFFICES ASSUME IInv, [ShellNext]_window PROVE IInv'
  OBVIOUS
<1> USE DEF rerenders, browser, controller, tabState
<1>1. CASE User
  <2>1. CASE UserOpensTab
    BY <2>1, OpensOK
  <2>2. CASE UserExits
    BY <2>2, EndOK DEF UserExits, Shutdown, CommandFindsStopped
  <2>3. CASE CommandRefused
    BY <2>3, EndOK DEF CommandRefused, Fail
  <2>4. ASSUME NEW c \in DOMAIN tabs, Activate(c) PROVE IInv'
    BY <2>4, QuietOK DEF Activate
  <2>5. ASSUME NEW c \in DOMAIN tabs, UserNavigates(c) PROVE IInv'
    BY <2>5, NavigatesOK
  <2>6. ASSUME NEW c \in DOMAIN tabs, UserStops(c) PROVE IInv'
    BY <2>6, QuietOK DEF UserStops, Stop
  <2>7. ASSUME NEW c \in DOMAIN tabs, UserClosesTab(c) PROVE IInv'
    BY <2>7, ClosesOK
  <2> QED BY <1>1, <2>1, <2>2, <2>3, <2>4, <2>5, <2>6, <2>7 DEF User
<1>2. CASE Surface
  <2>1. CASE Suspend
    BY <2>1, QuietOK DEF Suspend
  <2>2. ASSUME NEW resumed \in BOOLEAN, NEW size \in Sizes, SurfaceTransition(resumed, size)
        PROVE IInv'
    <3> DEFINE s == SurfaceAfter(resumed, size)
    <3>1. CASE Draw(s, EmptyMap, redraw)
      <4>1. Idle
        BY <2>2 DEF SurfaceTransition, Handles
      <4> HIDE DEF s
      <4> QED BY <3>1, <4>1, DrawOK
    <3>2. CASE ~ Draw(s, EmptyMap, redraw)
      <4>1. UNCHANGED <<browser, rerender_pending, polling>>
        BY <2>2, <3>2 DEF SurfaceTransition
      <4> QED BY <4>1, QuietOK
    <3> QED BY <3>1, <3>2
  <2> QED BY <1>2, <2>1, <2>2 DEF Surface
<1>3. CASE Redraw
  <2>1. CASE Draw(surface, rerender_suppressed, FALSE)
    BY <1>3, <2>1, DrawOK DEF Redraw, Handles
  <2>2. CASE ~ Draw(surface, rerender_suppressed, FALSE)
    <3>1. UNCHANGED <<browser, rerender_pending, polling>>
      BY <1>3, <2>2 DEF Redraw
    <3> QED BY <3>1, QuietOK
  <2> QED BY <2>1, <2>2
<1>4. CASE PumpStep
  <2>1. CASE PumpEvent /\ UNCHANGED <<rerenders, polling>>
    BY <2>1, AppliesOK
  <2>2. CASE PollClosed
    BY <2>2, EndOK DEF PollClosed
  <2>3. CASE ApplyEnd
    <3> DEFINE reason == IF Fault = "None" THEN "EngineStopped" ELSE Fault
    <3>1. reason # "Running"
      BY DEF Fault
    <3>2. End(reason)
      BY <2>3 DEF ApplyEnd
    <3> HIDE DEF reason
    <3> QED BY <3>1, <3>2, EndOK
  <2> QED BY <1>4, <2>1, <2>2, <2>3 DEF PumpStep
<1>5. ASSUME NEW more \in BOOLEAN, PumpEnds(more) PROVE IInv'
  BY <1>5, PumpEndsOK
<1>6. CASE Background
  <2>1. UNCHANGED <<controller, shell>>
    BY <1>6 DEF Background, SessionWorker, ShutdownPort, SessionOver
  <2> QED BY <2>1, QuietOK DEF shell
<1>7. CASE UNCHANGED window
  BY <1>7, QuietOK DEF window, shell
<1> QED BY <1>1, <1>2, <1>3, <1>4, <1>5, <1>6, <1>7 DEF ShellNext

(* The shell is never asleep to the engine: as long as a tab loads, a closed  *)
(* context is not acknowledged or a rerender is pending, the poll thread      *)
(* wakes the loop (command_requires_engine_poll, pump_engine), for every      *)
(* number of tabs and every limit.                                            *)
THEOREM PollingSafe == ShellSpec => []PollsWhileOutstanding
<1>1. IInv => PollsWhileOutstanding
  BY DEF IInv
<1> QED BY InitOK, StepOK, <1>1, PTL DEF ShellSpec
=============================================================================
