# WildBuzzard: TLA+ models and proofs

This directory specifies the concurrent parts of WildBuzzard, from the
navigation engine through the browser session and its window to the primitives
they are built on. TLC checks the specifications on small instances, TLAPS
proves part of them for every instance. `PROJECT.json` maps every definition to
the source lines it stands for and lists runs, mutants, hazards and theorems.

## 1. The system

WildBuzzard is a browser in Rust. Three kinds of threads meet in it.

- *The worker.* A client sends commands (`navigate`, `cancel`,
  `mutate_document`, `rerender_document`, `close_context`, `shutdown`) to the
  navigation engine. Its worker thread runs an executor that loads, mutates and
  renders pages. An event receiver drains a bounded event queue and takes frames,
  commit records and mutation results by one-shot lease. All work on one
  `SharedState` behind one mutex; the worker releases it for every executor call,
  and what it read before the call may be stale after it.
- *The window thread.* The Linux shell turns winit callbacks into a queue of
  events, drives a presenter (native EGL window, WebRender, browser compositor)
  and calls a handler. The browser's handler owns the session controller, which
  is the engine's only client. A poll thread wakes the window thread while the
  engine owes it an answer.
- *WebRender's threads*, whose announcements the presenter waits for with a
  deadline.

| part | source | modules | status |
| --- | --- | --- | --- |
| navigation worker | `browser/wild_buzzard_engine/src/navigation.rs` | `EngineShared`, `EngineClient`, `EngineReceiver`, `EngineWorker`, `NavigationEngine`, `NavigationProtocol`, `EngineProtocol` | partly: without the inline-classic build feature |
| static page pipeline | `pipeline.rs` | `PipelineEngine`, `StyleDocument` | partly: a call is how it ends |
| style document lifecycle | `navigation.rs` 246-518, `style_fetch.rs` | `StyleDocument` | partly: a fetch is one step |
| session controller, engine port | `browser/wild_buzzard_ui/src/session.rs`, `engine.rs` | `BrowserSession` | partly |
| browser shell | `browser/wild_buzzard_shell/src/lib.rs` | `BrowserShell` | partly |
| Linux event shell | `widget/rust/wild_buzzard_linux` | `LinuxShell`, `WakeGate` | partly |
| window presenter | `gfx/wild_buzzard_linux_presenter` | `WindowPresenter`, `PresenterCalls`, `FrameWaits` | partly |
| runtime primitives | `mozglue/rust/wild_buzzard_runtime` | `Cancellation`, `Lifecycle`, `EventQueue`, `TaskQueue`, `ClosingQueue` | modelled |
| handles, services, surface identities | `memory/rust/wild_buzzard_handles`, `xpcom/rust/wild_buzzard_services`, `widget/rust/wild_buzzard_platform` | `Arena`, `ServiceRegistry` | modelled (of the platform contracts only the allocator) |
| everything else | section 7 | | not modelled |

## 2. Modules

### The engine

A variable has the name of the `SharedState` field it stands for. The six
resource counters are the two records `retained` and `pending`. A cancellation
token is its membership in `cancelled`. Every section that holds the mutex is one
action. An executor call and the locked section after it are one action too: the
call touches no shared state, so nothing can observe the moment it returns.
Between `Begin` and the finish the worker is `Executing` while client and
receiver run. A command the code refuses changes nothing and is left out.

- `EngineShared`, `EngineClient`, `EngineReceiver`, `EngineWorker`: the state
  with the helpers that need the mutex, and the three actors.
- `NavigationEngine`: the actors together, with *any* executor the trait
  `NavigationExecutor` admits, valid outcome or not.
- `NavigationProtocol`: abstract, the life of navigations, operations and
  contexts as the event stream promises it. `EngineProtocol` observes the
  engine's events and refines it.
- `PipelineEngine`: the engine with the shipped `StaticPipelineExecutor`, whose
  page map and node count are its own. `FrameFaults` says which of its calls may
  fail to make a frame. A load that does leaves its document in
  `StaticPageEngine` (`live_document`), although the comment on
  `replace_live_document` (`pipeline.rs` 1222) says that the executor leaves the
  engine empty between commands. The next navigation fails and drops it; a
  document operation in between is rejected, and its own page takes the place of
  the orphan and is lost to its context (`DisplaceOperation`).

A document loaded from the general web has a style ledger, which its page owns
and `current_style_documents` also names; the model is of an engine with that
capability (a document from numeric loopback has no ledger and none of these
steps). `live_style_documents` is the set of ledgers still `Current`. The map
retires a ledger when its document is replaced, invalidated or closed and when the
engine stops; the page retires it when a mutation commits, and the map then keeps
an entry whose ledger is dead. A page that goes takes its ledger with it: the
model has this for a panic, where nothing else retires the ledger, and leaves it
out for `DisplaceOperation`, where the next navigation drops the ledger before the
map hears of it.

`finish_document_mutation` and `finish_document_rerender` re-check what they
reserved, and each failed check has its own exit. The model has one verdict,
`FinishContractViolation`. This is exact for an outcome that is invalid or whose
frame does not fit. The other exits differ in what they leave behind;
`IdentitiesStand` and `BudgetsStand` show that they are never taken. A failed
`reserve_document_publication` leaves the loop with the lifecycle still
`Running`, and commands are admitted until `finish_worker`: this window is in the
model.

### The session and the shell

`BrowserSession` extends `NavigationEngine`: its commands are the engine's client
actions and its pump is the engine's receiver, so session and engine run as one
specification. A command is one engine call. Receiving an event and applying it
are two steps, and the worker may run between them; applying runs the port's and
the session's checks in the code's order, each with its failure. A tab is its
context; a navigation of a tab is its generation. `pump_engine` is a repetition
of `Poll` and the apply actions. The session stops being a client of the engine when it fails or closes;
`ShutdownPort` is the rest of the port's life.

`BrowserShell` extends `BrowserSession` with the window handler: which tab and
page the window shows, the pending and suppressed rerenders, the surface's
admission, the redraw on its way, the rejections in a row, and the polling flag.
A pump ends when there is no event or when its batch is full, whatever the limit
is; a full batch leaves polling on. An event of the window is
handled to its end in one step; an error of a handler ends the browser, as in
`handle_event`. The lease of a frame stands for its scene revision, since one
worker makes both in one order.

### The window

`LinuxShell` has one action per winit callback, drain step and control call of
the handler, with the presenter inside. `WindowPresenter` has the public
operations of `WebRenderWindow` as operators on one presenter record: the native
contract, the published contract and the compositor's records, changed in the
code's order with every failure in between. `PresenterCalls` runs a presenter
alone, under a caller that makes calls the shell never makes. `FrameWaits` opens
the one step of a frame up: the notifier's counter, evidence, sticky flag and
one-shot channels, written by WebRender's threads, and the owner's waits, each
with its deadline. `WakeGate` is the handle by which other threads wake the loop.

### Primitives and identities

`Cancellation`, `Lifecycle`, `EventQueue` and `TaskQueue` have one action per
atomic operation, locked section or sleep; condition variables may wake
spuriously. Both queues refine `ClosingQueue`. `StyleDocument` is the ledger of a
document's style authority with the two mutexes its users hold: the ledger's own,
held for a whole fetch or mutation, and the engine's, held by a client that
retires the document. `Arena` is the generational arena as operators;
`ServiceRegistry` has several registries, the surface allocator and a bare arena,
and presents every identity ever given out to every owner.

## 3. Runs

| run | instance | states | checks |
| --- | --- | --- | --- |
| `engine` | any executor or the pipeline, without frame faults, with those of a load or of an operation; two or three generations of one context or one of each of two; frames of legal and illegal size; sequences end at 8, leases at 4 | 1.6 M | `TypeOK`, `EventsAreConsecutive`, `CommitsAwaitTheirFrame`, `GenerationsNeverGoBack`, `PendingExact`, `IdentitiesStand`, `PageIsOneNavigation`, `BusyContextsHaveWork`, `LostWorkIsCancelled`, `LeasesNameOneProduct`, `RetainedExact`, `WithinLimits`, `BudgetsStand`, `StyleFollowsDocument`, `ClosedContextIsSilent`, `PipelineMirrorsWorker`, `PipelineKeepsContract` |
| `progress` | engine with observer, two generations, fairness | 0.14 M | `ImplementsProtocol`, `ImplementsProgress`, `ShutdownCompletes`, `BusyEnds` |
| `session` | session on the engine, two tabs, three navigations, fairness | 1.0 M | `ContractKept`, `SessionAccountsExact`, `LoadingEnds` |
| `shell` | window handler on session and engine, two tabs, two navigations, two surface sizes | 2.0 M | `WindowShowsItsTab`, `PollsWhileOutstanding` |
| `window` | Linux shell with presenter, or a presenter alone; three sizes, two scales, queues of one and two | 1.4 M | `ContractsAgree`, `HitTestNamesShownFrame`, `SurfaceViewsAgree`, `RedrawStillComing`, `StopsOnce`, `StopIsDelivered` |
| `primitives` | one primitive per behaviour, two or three threads, fairness | 0.14 M | `RacersAgree`, `NoWakeupLost`, `DrainsAreExact`, `OneWakeOutstanding`, `IdentityNamesOneValue`, `KeepsPromise`, `WaitsEnd` |
| `stale_invalidation`, `terminal_errors`, `blank_tabs`, `busy_draw`, `lost_page`, `lost_rerender` | | | one refuted statement each, section 5 |

What they show, by theme.

- *Nothing stale is published or shown.* `ImplementsProtocol` says so of the
  engine's event stream, `PageIsOneNavigation` of the stored page,
  `PipelineMirrorsWorker` of the two copies of a page. `ContractKept` says that
  the session, however late it applies an event, never finds one it cannot place,
  which would end it. `WindowShowsItsTab` says that the window shows a scene of
  the tab it names, and ends up with that tab's live page.
  `HitTestNamesShownFrame` says the same of a hit test and the frame on screen;
  `FrameIsItsOwn` (in `RacersAgree`) of the presenter's wait for its frame.
- *Reserved means free.* Before an executor call the worker only reads the next
  event slot, sequence, leases and budgets; `IdentitiesStand` and `BudgetsStand`
  say that no interleaving takes them before the call returns.
- *Accounting is exact.* `PendingExact`, `RetainedExact`, `WithinLimits` and
  `SessionAccountsExact`: the code subtracts with `checked_sub`, so a double
  release is a panic or a failed session.
- *Authority ends with its document.* `StyleFollowsDocument` says that a style
  ledger is live only while the map names it for a retained document that no
  mutation has changed, and that it does not end sooner: a batch that is rejected,
  or a replacement that is refused, leaves it live.
- *Two views agree.* `ContractsAgree` for the native and the published contract,
  `SurfaceViewsAgree` for winit, shell, presenter and handler.
- *Nobody sleeps over work.* `NoWakeupLost`, `PollsWhileOutstanding`,
  `RedrawStillComing`.
- *Everything ends.* Busy contexts become free, stops and joins complete, no tab
  loads forever, a stop reaches the handler, and every wait of a primitive ends.
  The last includes the presenter's waits whatever WebRender does, and a client
  that retires a document during a style fetch: it holds the engine's mutex until
  the fetch is over, and neither fetch nor mutation ever asks for that mutex.

**Composite properties.** Primitives share no state, so `MCPrimitives` picks one
per behaviour, and its properties are conjunctions of theirs; the others stay in
an initial state in which none of their fair actions is enabled. `MCWindow` does
the same with the shell and the presenter alone. `MCEngine` picks a plan: the
executor, its frame faults, and how often the client may navigate each context and
ask for document operations.

**Bounds.** `MaxContextId` and `MaxGeneration` are the identities that exist;
`MaxSequence`, `MaxLease` and `MaxOperation` stand for `u64::MAX`. In
`engine`, and for sequences in `session` and `shell`, they run out in the
middle of the work; elsewhere sequences and leases suffice. Three generations are
the fewest in which one executes, one is superseded in the queue and one is
newest. Two contexts are the fewest that compete for a budget or a slot. The event
capacity is the code's minimum, three, so saturation is reached. Budgets are one
or two units. `Itineraries` bounds how often each tab navigates: in `session` the
first tab twice and the second once, in `shell` each tab once or the first twice,
which is what a replacement and a switch need. `MaxSequence` is seven there: two
navigations as far as their frames. `Sizes` of the shell tells apart what the code
does: the engine's viewport, another size, none. The run takes the first two; a
surface without a size is refused drawing as a suspended one is. With all three
and `MaxSequence = 9` it also passes (4.0 M states). `Compositions` is `{TRUE}` in
`shell`: every frame is accepted; `busy_draw` and `lost_rerender` also let the
compositor refuse frames. `MaxRejections` is one instead of eight: a refusal and
one too many. Four surface revisions
are a resize, a suspension, a resumption and one more. Three threads are the
fewest with a notified, a sleeping and an arriving one. Three frames are the
fewest with a refused, a lost and a late one. No symmetry is used.

**Deadlock** is checked in the runs of engine, session and shell: the only final
states are an engine that never started, one that was joined, and a closed
session. A window that has stopped, and primitives whose threads are done, may
stop, so `window`, `terminal_errors` and `primitives` do not check it.

**Fairness.** Weak fairness throughout, of steps the code's own threads take: the
worker (it is scheduled, and an executor call returns, for the pipeline checks a
deadline between stages), a join that can return, the pump while the shell polls
(`PollsWhileOutstanding` justifies it), the window thread's drain and exit, a
thread inside a primitive's call, an owner's deadline, and the end of a style
fetch, which has one. Nothing is assumed of the user, of the receiver, of winit,
of WebRender, or that anybody calls a primitive.

## 4. Proofs

The engine's theorems hold for all constants satisfying `EngineLimitsAssumption`
and `ExecutorAssumption`: all limits positive, event capacity at least three, room
for one frame of the largest size (what `EngineLimits::new` validates), and
nonempty frames and documents. Those of the arena need `LimitsAssumption`: a
natural number of slots and at least one generation. The others assume nothing of
their constants beyond these.

| theorem | says | argument |
| --- | --- | --- |
| `TypeCorrect` | `Safety => []TypeOK` | strengthened by `ReservedBelowLimits`: the identities of an operation in execution were below their maxima when it began; one lemma per action |
| `EventOrder` | `Safety => []EventsAreConsecutive` | strengthened by `TerminalIsLast`: a terminal event exists only once the worker exited, and only the worker queues events |
| `CommitRecords` | `Safety => []CommitsAwaitTheirFrame` | only `publish_success` adds a record, with its event, and only the receiver removes an event, with its record |
| `ReservedIdentities` | `Safety => []IdentitiesStand` | client and receiver never advance the event sequence or a lease, and the queue only shrinks while the worker executes |
| `StyleAuthority` | `Safety => []StyleFollowsDocument` | strengthened by `ContextsWereAdmitted` and `ExecutingPage` (an operation in execution can only have lost its document to a close); steps are sorted into those that leave the ledgers alone, stop them all, or change one context's, with a lemma for each kind |
| `EngineUnderSession` | the five invariants above under `SessionSpec` | step simulation: every action of session and port is a client, receiver or worker action of the engine, or leaves it alone (`SessionDrivesEngine`, one lemma per kind of call); `SessionOwns` says that the port owns the receiver until it joins |
| `SequenceNeverBroken` | the session never fails with `EngineEventSequence` | `InSequence`: the session's last sequence, the event in hand and the queue are one gapless run up to the engine's counter; from `EventsAreConsecutive` and the fact that only the session receives |
| `PollingSafe` | `ShellSpec => []PollsWhileOutstanding` | inductive with the shape of the tabs; one lemma per kind of step |
| `CancelledOnce`, `WakeupsAreKept` | one `true` among racing cancels; no waiter is forgotten | a sleeper after cancellation has `notify_all` ahead of it, because the canceller takes the lock between flag and notification |
| `OneWake`, `WorkIsAnnounced`, `GateClosesOnce` | at most one wake outstanding; unfound work is announced; a closed gate stays closed | the gate is `Pending` exactly while somebody owes or carries the wake |
| `IdentitySafety` | `RegistrySpec => []IdentityNamesOneValue` | an identity given out is either live with its value or behind its slot's generation, and retired slots are in no free list; lemmas per arena method |
| `StaleForGood` | a stale identity stays stale | generations only grow |

The inductive invariants were checked with TLC before they were proved.

Only model-checked:

- the liveness properties and `ImplementsProgress`, which rest on fairness;
- `PendingExact`, `RetainedExact`, `WithinLimits`, `BudgetsStand` and
  `SessionAccountsExact`, sums over folds, whose laws need induction with an
  operator parameter;
- `ImplementsProtocol`, `ContractKept`, `WindowShowsItsTab`, the invariants of the
  window and of `PipelineEngine`, `FrameWaits`, `StyleDocument`, `TaskQueue`,
  `EventQueue` and `Lifecycle`.

## 5. Divergences between code and its documents

Each is a run whose one property quotes the document and is violated.

- `stale_invalidation`: "The worker must invalidate the page and stop"
  (`navigation.rs` 2057). A newer navigation supersedes a mutation in execution;
  the executor then cannot make a frame and returns `Invalidated`. The stale branch
  of `finish_document_mutation` discards the page and the worker goes on. The
  executor had already taken the page out of its map without giving back its
  nodes; `PipelineMirrorsWorker` shows that its count errs only on this side.
- `terminal_errors`: `hit_test_browser` on a window that is only suspended answers
  with a terminal kind, although the window serves again after a resume;
  `is_terminal` is documented as "may not accept another transaction"
  (`window_contract.rs` 482). The shell believes it and stops.
- `blank_tabs`: "New context identities must increase monotonically"
  (`navigation.rs` 3211), but the session takes them when tabs open, not when they
  first navigate. Of two blank tabs, navigating the newer one first makes the older
  one unable to navigate for good.
- `busy_draw`: "The shell keeps the old page visible while a same-tab replacement
  is requested, started, or committed" (`W6-A6G-rust-browser-shell.md` 171). If the
  old page's frame was consumed and the tab is drawn again meanwhile, the shell
  asks for a rerender, the engine answers `ContextBusy`, and the browser exits.
- `lost_page`: "successful replacement publication, rather than admission,
  atomically retires the prior live page; cancellation/failure leaves its frame,
  document, and mutation-result capabilities intact" (`wild_buzzard_ui/README.md`
  59; also `session.rs` 2342 and `W5-A6F-browser-session.md` 73). A rerender or a
  mutation of the live page that a new navigation overtakes makes the worker
  discard the page without an event. If the replacement is then cancelled or
  fails, the page is gone although the session calls it live. A rerender the shell
  had pending is never answered either, and the shell polls until the tab
  navigates or closes.
- `lost_rerender`: "Every admitted presentation rerender is tracked by exact tab,
  navigation, document, and `DocumentOperationId`" (`W6-A6G-rust-browser-shell.md`
  184; 64 promises polling while one is pending, 139 that a refused install waits
  for it). A compositor refuses an install and the shell records a rerender; the
  next frame keeps the scene on screen and is accepted, and
  `commit_submitted_frame` removes the record while the engine still has the
  operation. Polling may then rest before it is answered. `WindowShowsItsTab` is
  therefore checked for a compositor that accepts frames.

## 6. Behaviours to know of

The models exhibit these too. The first is at odds with the comment it quotes; the
others contradict no document.

- A load whose frame cannot be made leaves its document in `StaticPageEngine`,
  which its comment calls "empty between commands" (`pipeline.rs` 1222); section 2
  says what follows. `PipelineMirrorsWorker` has the exception in it, and
  `PipelineKeepsContract` claims nothing when frames may fail.
- A publication over the session's frame budget leaves the old navigation's scene
  in the window under the new live navigation. The shell run has room for a frame
  of each tab.
- Any refused user command ends the browser (`CommandRefused`).
- `WindowRenderNotifier::external_event` sets its flag and notifies without the
  mutex of the frame wait, so an owner about to sleep misses it and sleeps to its
  deadline. The stage waits are not exposed (`NoAnnouncementMissed`); in every
  case the wait ends (`WaitsEnd`).
- Retiring a document during its style fetch blocks every client of the engine
  for as long as the fetch takes.
- A handler that answers each `Resized` with another size request keeps the drain
  busy.

## 7. Not modelled

- *Session*: history and its byte budget (which the shell's configuration cannot
  exhaust), several windows, address editing, panels and pointer authority, script
  mutations. *Shell*: automation, WebDriver, smoke stages, capture. *Linux shell*:
  the direct presentation mode and the probing of window profiles. *Presenter*:
  startup and the contents of captures. *Engine*: the inline-classic mode, which
  publishes along the same path.
- *Headless frame owner*: its notifier waits as the window's does; the rest is EGL.
- *Style and document policy, HTTP client, IPC codec, MP4, preferences,
  certificates*: parsing and comparison of strings and bytes, without state shared
  by two actors.
- *DOM, script bridge, script loop, interpreter, WebAssembly registry*: run to
  completion on one thread inside an executor call.
- *Renderer, text, layout, parser*: sequential algorithms over large data, out of
  TLC's reach.
- *Vendored engines* (WebRender, Brimstone, Wasmtime, Stylo, Neqo, wgpu): external.
  They are almost all of the repository's 1.1 million lines, so the mapped lines
  are a fraction of a percent of it, although they are most of the lines of the
  first-party code in which threads, queues, identities or surfaces meet.
