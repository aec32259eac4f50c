# Formal models of exalted's input pipeline

exalted (`core/`) plays several clients of one game at once. It launches or
adopts the clients, arranges their windows, captures the keyboard and the mouse
with low-level hooks, and mirrors chosen keys and clicks to every client by
switching the foreground from one client to the next and injecting the event
(`SendInput`). This directory holds TLA+ models of that program, the TLC
configurations that check them, and proofs about them for TLAPS. Paths below are
relative to the root of the repository.

## 1. The system

Three threads and the operating system:

| part | code | state | operations |
|---|---|---|---|
| event ring | `core/include/mm/spsc_ring.hpp` | `head_`, `tail_`, `buf_`, `dropped_` | `push` (hook thread), `pop` (broadcaster thread) |
| held keys | `key_state.hpp`, `input_event.hpp` | a bit per key, `held_` | `apply`, `for_each_down` |
| routing and planning | `routing.hpp`, `dispatch.hpp` | the table, immutable while the program runs | `add_key`, `find`, `swallows`; `plan` makes a list of actions from an event |
| capture: hook thread | `core/src/win/capture.cpp` | `keys_`, `swallow_`, the counters, the hooks | `on_key`, `on_mouse`, `publish`; `start`, `run`, `stop` |
| broadcaster thread | `core/src/win/broadcaster.cpp` | `master_keys_`, `targets_`, `master_`, the pending configuration and its version, `stop_` | `run`, `handle`, `execute`, `deliver`, `reassert_held`, `refresh_config`; `set_targets`, `start`, `stop` |
| focus and injection | `focus.cpp`, `inject.cpp` | none, and the foreground lock time-out of the user | `bring_to_foreground`, `send_key`, the mouse calls, `ForegroundLockGuard` |
| session | `core/tools/mm_core.cpp` | `instances`, `assignment`, `exited` flags, `mu` | the watchdog loop, the swap callback, `apply_layout_and_policy`, `targets`, `master` |
| layout and coordinates | `layout.hpp`, `geometry.hpp` | `slot_of_` | `compute_layout`, `derive_grid`, `Assignment`; `normalize`, `denormalize`, `to_absolute` |
| launcher, discovery, styling | `launcher.cpp`, `discovery.cpp`, `window.cpp` | processes, job handles, saved styles | `launch`, `wait_for_main_window`, `make_borderless`, `restore_style` |
| a run of the program | `mm_core.cpp`, `cmd_run` | `g_stop`, the exit code | start-up, the main loop, shutdown |

How they interact. The hook thread is called by Windows for one event at a time,
before the event reaches the foreground window; it updates `keys_`, pushes the
event to the ring and sets the wake event. The broadcaster thread wakes, drains
the ring, updates `master_keys_`, plans, and executes the plan: for every target,
bring it to the foreground and inject; then return to the master and press the
held keys again, as a client forgets them when it loses the foreground. What it
injects passes the hook thread too. The swap callback runs on the broadcaster
thread, changes the session under `Session::mu` and publishes a configuration
under `config_mu_`; the watchdog on the main thread does the same when a client
has died. The broadcaster picks a new configuration up between two drains.

What is hard here, and cannot be tested with any confidence:

* three threads with no lock between the first two: events captured while a plan
  executes, wake-ups against the 20 ms wait, the two copies of the keyboard;
* Windows: an activation that fails, or lands after the program has stopped
  waiting for it; a user who switches windows or types in the middle of a cycle;
* clients that die at any moment, in particular between a read and its use;
* a full ring, counters that wrap;
* shutdown against a thread stuck in a call, and every partly failed start.

What makes each part correct:

* ring: a FIFO queue; no race for a slot; nothing lost once accepted;
* capture and broadcaster: both copies of the keyboard agree up to the queue; the
  program's own output is never captured; an injection hits its target or is not
  made; after a cycle focus, cursor and held keys are what they were;
* session: one master, the layout and the broadcaster follow it, no deadlock;
* layout: windows tile the screen, a mirrored click lands in its window;
* run: every client is running or gone but after failures `launch` does not look at,
  Ctrl+C ends the program, and a clean exit leaves windows and settings as they were.

`PROJECT.json` lists every hazard found, at its line, with the properties that
would catch it. For some no property is stated, because the code does nothing against them
and so no property of it holds; a note at each says what is known.

## 2. The modules

```
EventQueue  <== refines ==  SpscRing  --> MCSpscRing, SpscRingProofs
InputEvents --> Desktop --+
InputEvents --> Dispatch -+-> Capture --> Broadcaster --> Pipeline --> MCKeys, MCMouse,
                                                              PipelineProofs --> HeldKeyProofs --> MouseProofs
Session   --> MCSession, SessionProofs
Lifecycle --> MCLifecycle, LifecycleProofs
Layout, LatencyStats --> MCLayout;  Layout --> LayoutProofs;  MCLayout, LayoutProofs --> LatencyProofs
```

(`A --> B`: B extends A.)

**EventQueue** is the abstract promise of the ring: a bounded queue with a
`Push` that may be refused, an `Accept`, and a `Pop`. As the producer's view of
the consumer may be out of date, a push may be refused while a few of the places
are free again; `unseen` counts them.

**SpscRing** is the ring access by access. `PushBegin`/`PushFull` are the acquire
load of `tail_` and the full check, `PushWrite` the copy into the slot,
`PushPublish` the release store; the consumer likewise. An acquire load returns
any value the counter has had since the last load of that thread. The counters
wrap at `Capacity * Laps` instead of 2^64; the code needs only that the capacity
divides the modulus and is smaller. `i & kMask` is `i % Capacity`.

**InputEvents**, **Dispatch**: events, the set of held keys, the routing table and
`plan()`, as pure operators. A plan is a sequence of the code's actions.
`Ordered` enumerates a bit mask of targets or keys from its lowest bit.

**Desktop** is external: the foreground window and the keys its client believes
held, in which windows a button is down (`pressed`), the cursor, which windows
live. A button goes to the window the cursor is on (`ButtonReaches`). From `docs/M0-FINDINGS.md`: a client
forgets all keys when it loses the foreground, and ignores posted keys for its
held keys. `bring_to_foreground` succeeds or fails; after a failure the
activation may still land (`LateActivation`). `UserSwitch` and `WindowDies` are
the other disturbances.

**Capture** is the hook thread. `KeyInput` is one call of the hook (`on_key`) up
to the push; `Signal` the `SetEvent` that follows it; `DeliverInput` the delivery
to the foreground window after the hook has returned. `MouseInput` is `on_mouse`.
The ring is the queue of EventQueue (with an up-to-date view of the consumer).

**Broadcaster** is the broadcaster thread. `Wake`, `Handle`, `Drained` are the two
loops of `run`; `Execute` takes the next step of the plan. A `Deliver` is two
steps for a key (bring to the foreground; inject) and three for a button (place
the cursor, before `click_settle_ms`; click), `ReassertHeld` one `Press` per held
key,
`SwapMaster` the choice of the next master and then `Settle`, its activation and
the refresh of the configuration. `SendInput` passes the hook (`HookKey("ours",
..)`) and needs the hook thread to be free.

**Pipeline** composes the two threads with the user, another injecting program and
the disturbances, and states the properties. Its history variables (`touched`,
`hand`, `rushed`, `halved`) only record what the user did.

**Session** is the state shared by the watchdog and the swap callback, with
`Session::mu`, `config_mu_` and the versioned configuration. A critical section is
one action, except `Assignment::set_master`: the watchdog calls `Session::master()`
without the lock, so the two stores of a swap become visible one by one, in
either order (a data race), and the scan of `master()` goes slot by slot. The two
arguments of the watchdog's `set_targets(s.targets(), s.master())` are evaluated in
either order. `SwapLayout` places the windows as one batch, which fails as a whole
when a window goes away after `IsWindow` saw it.

**Layout** is `compute_layout` for the three kinds, `Assignment` under every order
of promotions and removals, and the coordinate mapping. Fractions are exact;
where the code's `double` could round an exact half to either side both results
are allowed. Nothing in `mm_core.cpp` calls `Assignment::erase`; it is part of
the class's interface and is checked as such.

**LatencyStats** is the histogram of latencies: `record`, the extremes, the mean
and `percentile_us`, as operators on a record of the fields; the loop over the buckets
(`Seen`) and the one over the latencies (`After`) are recursive functions. `Faithful`
compares what they give with the ranks of the latencies, which are counted.

**Lifecycle** is a run of the program: launching (suspended process, job,
assignment, resume, wait for the window) with a failure at every call, also at the two
whose result `launch` does not look at, `TerminateProcess` and `ResumeThread`, styling,
the start of both threads, the watchdog's ticks under `Session::mu`, a swap that
moves windows with that mutex held, Ctrl+C with and without the handler,
`Capture::stop`, `Broadcaster::stop` with its 3 s, `restore_style` and the two ways out. Closing a
job handle with kill-on-close kills the client; leaving the process closes all.
Clients die, and hang: a call that moves or styles the window of a client that
does not read its messages waits for it.
Here `kill` and `borderless` stand for the two options, chosen at the start. Two history
variables record for which clients the unchecked calls failed: `unended`
(`TerminateProcess`) and `unresumed` (`ResumeThread`).

Names of definitions are the code's where there is one. Definitions called
`X_Something` next to `X` are defective variants of `X` that show what a property
is sensitive to; no specification uses them.

## 3. What is checked

All runs use breadth-first search without symmetry. Deadlock is checked for
the ring only: the other systems may stop (the user may stop typing, an exited
program does nothing).

| run | bounds | shows |
|---|---|---|
| `ring` | 2 slots, counters modulo 6, 2 events | `TypeOK`, `CountersInOrder`, `PublishedWritten`, `NoSlotRace`, and `RefinesQueue`: the ring implements EventQueue with its fairness, so every accepted event is popped, in order |
| `keys` | 3 instances, one mirrored and one plain key, ring of 2, hardware and foreign input, one failing activation | `CopiesAgree`, `NoFeedback`, `InjectHitsTarget`, `HeldKeysSurvive`, `NoLostWakeup`, `StrandedIsCounted` |
| `swap` | 3 instances, a mirrored key and the swap hotkey, no failures | `FocusReturned` across swaps |
| `live` | 2 instances, one of which may die, a key for each delivery strategy | `CopiesConverge`, `PlansEnd` |
| `mouse` | 2 instances, a button with a modifier, ring of 2, one failing or late activation or death | `CursorReturned`, `ButtonsMirrored`, and of every step `PlansShorten` |
| `session` | 3 instances that may all die, 2 swaps | `SlotsDistinct`, `LayoutCurrent`, `SeenIsCurrent`, `ConfigArrives`, `SwapEnds`, and of every step `SwapsShorten` |
| `layout` | sequences of latencies below, in and beyond the histogram; up to 5 instances, 4 awkward screens (odd, prime, tiny, left of the origin), grids derived, full, overfull and partly filled, stacked, strips on each edge | `SlotsCompact`, `GridTiles`, `PipTiles`, `EveryoneVisible`, `ClickLandsInside`, `ClickKeepsPlace`, `AbsExact`, `PercentilesAreRanks` |
| `lifecycle` | 1 launched client, 1 adopted, one of them hung at a time, ring of 2 | `NoSuspendedClient`, `KilledWithUs`, `ExitRestores`, `WaitsAreAnswered`, `ShutdownEnds` |
| `stuck_key` | as `keys`, 2 instances, no failure | violated: a released key is pressed again |
| `hotkey_seen` | as `swap`, 2 instances | violated: the master sees the swap hotkey |
| `wheel` | 2 instances, the wheel with a modifier | violated: the cursor goes to the wheel's delta |
| `swap_lost` | 3 instances, 1 swap | violated: the old master is published again |

The runs `ring`, `keys`, `layout` and `lifecycle` also check the type invariant of
their model; `keys` does so for the pipeline as a whole. That of Session is proved.

`PlansShorten` is an action property: `Work` bounds the number of steps that are left of
a plan (three for each action and for each key still to be re-asserted, less what the
first action has behind it), every step of the plan makes it smaller, whatever
fails, and nobody but the broadcaster touches a plan. `SwapsShorten` says the same of a swap and of a
refresh of the configuration (`StepsLeft`): the broadcaster never goes back, although the
watchdog publishes at any time and a placing may fail. `WaitsAreAnswered` is what
`ShutdownEnds` rests on: at no moment does the main thread wait for something that nobody
is going to do. `ExitRestores` is about both exits that follow Ctrl+C: the styles of the windows
are restored on each, the places of the windows and the lock time-out only if the
broadcaster was joined (finding 6). `NoSuspendedClient` says exactly which clients may stay
suspended: one in no job that `TerminateProcess` did not end (`launcher.cpp:79, 84`), and,
without `--kill-on-exit`, one that `ResumeThread` did not start (`launcher.cpp:94`). The latter is
never kept, as it makes no window. `KilledWithUs` has the first of the two as its exception.

Why these bounds are enough. Ring: two slots and three laps already give every
combination of wrapped and unwrapped counters, full, empty and stale views; the
proofs lift the invariants to all sizes. Pipeline: a plan treats its targets one
by one, so a master and two slaves show first, middle and last; two keys show
what one key does to another; a ring of two overflows easily; `MaxFaults = 1`
puts one disturbance at every possible place. Session: with three instances a
swap can skip a dead one, and two swaps can go away and back. Layout: four and five
instances give a grid with and without holes. Lifecycle: a client of each kind,
so that one fails, hangs or dies while the other does not; the proofs cover any
number. `MaxCount = 1` saturates a counter of which
only zero or not zero matters; `WheelDelta` and `Points` are values of which only
their difference matters; `AbsMax = 37` stands for 65535.

**Fairness.** `live`: weak fairness of the hook thread (`Signal`, `DeliverInput`:
Windows removes hooks that do not return) and strong fairness of the
broadcaster's step. Its wait ends after 20 ms at the latest, and an injection
that waits for the hook thread is served in order, however fast the user
types: that is the strong part. The user, another program, and disturbances have
no fairness. `session`: weak fairness of each thread; critical sections are
short. `lifecycle`: strong fairness of the main thread (it waits for a mutex that
is released, and for windows that answer, again and again), weak fairness of the
hook thread, and of the broadcaster only that it finishes a placing of windows: a
call stuck anywhere else is allowed for ever. Every client that hangs answers
again or is ended (by the user or Windows); without that the code does wait for
ever. `ring`: `pop` is called
again and again and a store becomes visible in the end; nobody has to push.

**What the preconditions of properties leave out.** `HeldKeysSurvive` speaks of
keys that did not themselves change while the pipeline was busy (`touched`):
that case is the finding `stuck_key`. `ButtonsMirrored` excludes clicks that were
not treated alike at both ends (`halved`): a key changed or the ring was full
between press and release, or the hand was on the mouse while a click was being
mirrored; see finding 7. `FocusReturned` is about runs in which no activation has failed; see
finding 5. `LayoutCurrent` says that windows follow the assignment
as long as no client died, and that even then each has a cell of its own.
`CursorReturned` excludes a user who moves
or clicks while the pipeline is busy (`rushed`): such a click records the slave's
coordinates. `InjectHitsTarget` is checked with failing activations but without
late ones and without the user's own switches: no program can prevent a switch
between its check and its injection. `CopiesAgree` exempts keys whose last transition was dropped by a full
ring (`lost`): the next transition of the key repairs the copy.

## 4. Findings

Where the code does not do what a comment or a document says (details and
quotations in `PROJECT.json`):

1. A key released during a focus cycle is pressed again and stays down in the
   master (`stuck_key`; `broadcaster.cpp:171`, `key_state.hpp:2`).
2. The swap hotkey, blocked by the hook, reaches the master through the
   re-assert (`hotkey_seen`; `broadcaster.cpp:172`, `routing.hpp:61`).
3. After a mirrored wheel event the cursor is put at the wheel's delta (`wheel`;
   `broadcaster.cpp:108`, `dispatch.hpp:18`).
4. A watchdog between its two reads publishes the master of before a swap
   (`swap_lost`; `mm_core.cpp:405`).
5. When the return to the master fails the held keys are pressed in whatever
   window is in the foreground (`broadcaster.cpp:111`, `docs/ARCHITECTURE.md:157`).
   No run of its own; `FocusReturned` shows the case without a failure.
6. Leaving by `std::_Exit(3)` does not restore the foreground lock time-out
   (`mm_core.cpp:425`, `docs/ARCHITECTURE.md:154`, `focus.hpp:18`). No run of its own.
7. A click is not a "sequence per target" but two events with a focus cycle each:
   a modifier released in between leaves the button down in every target
   (`broadcaster.cpp:153`, `docs/ARCHITECTURE.md:229`). No run of its own;
   `ButtonsMirrored` shows when the halves do meet.

## 5. What is proved

Eight modules, checked by TLAPS. The constants are any that satisfy the named
assumptions of the modules; further assumptions are part of the statement.

**SpscRingProofs**, for every `Capacity >= 2`, every `Laps >= 2` and every set of
events: `RingInvariant` (`Spec => []IInv`) and, from it, the four invariants of the
run `ring`.

The argument. `NoSlotRace` is not inductive: that the slots of a writing producer
and a reading consumer differ follows from how far `head_` and `tail_` are apart,
and that in turn from what each thread has loaded of the other's counter.
`CountersInOrder` says that going back from `head_` one meets the consumer's view
of it, `tail_`, and the producer's view of `tail_`, in this order and at most
`Capacity` in all; it is stated with distances modulo the wrap, so that it does
not mention where the wrap is. A load moves a view forward within this order
(`DistBetween`, `DistThrough`), a store moves a counter by one (`DistIncHead`,
`DistIncTail`), and the two checks keep it inside. `TypeOK` contains that what was
read is an event, which needs `PublishedWritten`: the slots between `tail_` and
`head_` have been written. The three together, `IInv`, are inductive. Two
positions less than `Capacity` apart have different slots because `Capacity`
divides the wrap (`SlotsDiffer`), which gives `NoSlotRace`.

In the same module `RingIsAQueue` (`Spec => Queue!Spec`): SpscRing implements
EventQueue. The queue are the slots from `tail_` to `head_` (`Content`, what
the refinement mapping `Queue` puts in for `queue`). A write goes to the slot
after the last of them and does not change it; the store of `head_` appends; the
store of `tail_` removes the first element, which is what `pop` returns since the
producer has not touched the slot that was read (`ReadIsFirst`). What remains for TLC
is the fairness in `RefinesQueue`: the run `ring` checks it with `Queue!FairSpec`.

**PipelineProofs**, for every routing table, every set of keys and windows, every
ring and every disturbance:

* `Woken` (`NoLostWakeup`). Lemmas say what each kind of step does to the queue and
  the wake-up: only a call of the hook adds an event, and it goes on to `SetEvent`;
  the broadcaster waits only after it has seen the queue empty.
* `TheCopiesAgree` (`CopiesAgree`). An event appended to the queue decides what the
  broadcaster will believe of its key (`AppendDecides`), and taking the first event
  from the queue changes nothing of it (`TailKeeps`), as the event is applied to
  `master_keys_` in the same step.
* `OnlyTheUsersKeys` (`NoFeedback`), if foreign events are not accepted
  (`~AcceptForeign`, the program's setting).

Of the focus and the plan, for every routing table and every number of instances
and keys:

* `BackOnTheMaster` (`FocusReturned`, which is about runs before the first failure);
* `NothingElseIsHit` (`InjectHitsTarget`), if the only disturbances are failing
  activations (`FaultKinds \subseteq {"fail"}`);
* `StrandedOnlyIfCounted` (`StrandedIsCounted`), if the only disturbances are failing
  activations and deaths, and there is no swap hotkey;
* `EveryStepCounts` (`PlansShorten`), whatever fails.

None of these follows from its step alone, because whether a foreground is right depends on the
rest of the plan, and so does how much there is still to do. `Shape` describes what is
left of a plan at any moment: a step that leaves the master has `RestoreFocus` after it,
what re-asserts keys is at the end, with nothing behind `ReassertHeld`, a swap is alone in
its plan. `PlansAreWhole` shows that every plan of
`dispatch.hpp` has this shape, and `ThenNone`, `ThenOne`, `ThenPresses` that it is
kept by each way `execute` replaces the step it has done. `Base` adds that the master is an instance.
On it rest three small invariants: who is away from the master comes back; a
delivery that injects is on its target; who stays away has been counted.

`EveryStepCounts` needs `Shape` for `ReassertHeld`, which is replaced by as many steps as
there are keys held: `Work` counts these keys from the start (`ToReassert`), and as
`ReassertHeld` is the last step of its plan, they are counted once and never again
(`ThenPresses`). Every other step is dropped or makes way for a single later stage of
the same action (`ExecuteMoves`, `StepsLeft`). The keys held do not change while a plan
runs, since `master_keys_` is updated between plans only. As `Work` is a natural
number, no plan goes on for ever; that the next step is taken is fairness, and that is
`PlansEnd`.

**HeldKeyProofs**, for every routing table, keyboard and ring and every number of
instances:

* `PipelineTypeCorrect` (`TypeOK` of Pipeline). That a step of a plan presses a key
  and delivers to a window that exist depends on what plans `dispatch.hpp` makes, and
  on what is left of them later: `Targeted` says it, `PlansArePlanned` shows it of
  every plan by its elements. The list of a set (`Ordered`) contains every element of
  the set once, since an element stands at the place given by how many are below it
  (`OrderedListsAll`): no induction is needed.
* `HeldKeysOutliveCycles` (`HeldKeysSurvive`), if foreign events are not accepted
  (`~AcceptForeign`, the default of `capture.hpp`; with it TLC finds the property
  violated, as the keys another program presses are no keys the user holds).

`HeldKeysSurvive` speaks of the pipeline at rest only. `HeldInv` follows one key that
did not change while the pipeline was busy through the hook, the ring, the broadcaster
and the window, at every moment (`Steady`): the hook's copy has it right (`Recorded`);
its event is not behind another one in the ring, nor waiting while a plan runs
(`Foremost`); an event on its way to the window says what the user holds
(`Truthful`); and as long as no activation failed, the master's client has it right
or the rest of the plan is going to press it (`Shown`). The last part is where a focus
cycle takes the keys away and has to give them back, and where it needs the theorems
before it: the copies agree (`CopiesAgree`), so that `ReassertHeld` presses the right keys; nothing is
fed back (`NoFeedback`); and `Base` and `Away` say when the master loses the
foreground.

**MouseProofs**, for every routing table and number of points, and whatever keys there are, if the
mouse has buttons and no wheel (`MouseKinds \subseteq ButtonKinds`):

* `CursorIsBack` (`CursorReturned`), whatever fails. With the wheel it is false, see
  finding 3. The invariant: whatever still moves the cursor has `RestoreCursor` after
  it in the plan (`CursorPlan`), and every click that is queued or being mirrored was
  captured where the user's hand is (`ClicksAtHand`), unless the user moved or clicked
  while a plan ran (`rushed`); so the cursor is at the hand or on its way there.
* `BothHalvesReachTheMirrors` (`ButtonsMirrored`), if also no swap hotkey is bound and
  the mouse's targets are instances (`PlainClicks`).

`ButtonInv` says where the two halves of a click are. The presses and releases in the
ring alternate, so that for each place in the ring it is known whether the button is
down when the broadcaster gets there (`HeldBefore`, `InOrder`); no key changes while
it is down, so that both halves have the same mirrors (that is what `halved`
excludes). The master has the button as the user does, or the hook is about to
deliver it (`MasterFollows`). The mirrors have what the last handled event says, except
those the running plan still visits (`MirrorsFollow`, with `Left` for the windows that
are left). And the user's clicks are on the master, since the cursor is there or will be
put back (`ClicksOnMaster`, `CursorKept`). The three conditions are needed: the wheel
leaves the cursor in another window (finding 3), so that the next click is not the
master's; a swap makes another window the master than the one the user has clicked in,
or clicks in next (TLC shows it on two instances with the hotkey bound); a target that
does not exist gets no click.

TLC checked `HeldInv` and `ButtonInv` as invariants of the bounded instances before
they were proved. The proof of `TypeOK` found an error of the model that no run
reached: on a swap while a button was held, `Broadcast` added the button to the
history variable `touched`, which is a set of keys.

**SessionProofs**, for every number of instances and swaps: `TypeCorrect`,
`OneSlotEach` (`SlotsDistinct`), `WindowsFollow` (`LayoutCurrent`), `NothingMissed`
(`SeenIsCurrent`), `SwapsNeverRepeat` (`SwapsShorten`). While a swap is being written the slots are not one to one, so the
invariant is about the slots the instances will have once all stores are visible
(`WillHold`, `OneToOne`). `Stores` says that only the holder of the lock writes, at
most once per instance; `Placed` that windows follow from one swap to the next;
`VersionsGrow` that no version is seen that was not given out, from which a
version that equals the newest carries the newest configuration. `NoDeadlock` is not a
property of a run: between two steps `config_mu_` is free, and `Session::mu` is held only
by a swap with a store left to make, which needs no other mutex for it. With
`SwapsNeverRepeat` that is the safety half of `SwapEnds`.

**LifecycleProofs**, for every number of launched and adopted clients and every
ring: `TypeCorrect`, `NobodySuspended` (`NoSuspendedClient`), `LaunchedClientsDie`
(`KilledWithUs`), `CleanExit` (`ExitRestores`), `NobodyWaitsInVain`
(`WaitsAreAnswered`). The strengthening: a suspended client is the one being launched,
before it is resumed, or one that `TerminateProcess` did not end, or one that
`ResumeThread` did not start: the last, with `--kill-on-exit`, only until it is dropped
(`CurrentClient`, `OnlyCurrentSuspended`), since by then it is in a job, and dropping it
closes the job. Every launched client that exists is in a job from the step on in which
it may run, unless it was to be terminated (`JobHeld`); before the program leaves,
the windows have their styles, and a broadcaster that was joined has ended, so nothing
moves a window after it was restored (`Joined`, `Styled`, `Restored`); the hook thread has a
message queue before it reports, and goes on until it is told to stop (`HookReady`), so
that WM_QUIT is never lost; and nobody holds `Session::mu` before the broadcaster is
started (`NotStarted`).

**LayoutProofs**, for every set of work areas, every layout and up to 32 instances (the
program's own limit, `mm_core.cpp:303`):

* `TypeCorrect`, `OneMaster` (`SlotsCompact`), the inductive part: removing an instance
  renumbers instances and slots, and what is left is again one to one and onto.
* `GridFillsTheScreen` (`GridTiles`) and `PipFillsTheScreen` (`PipTiles`): the windows
  lie in the work area, do not overlap, and cover it. The parts of a length follow each
  other without overlap, whatever the remainder of the division (`PartIs`), and pixel
  `v` of it lies in part `((v + 1) * n - 1) \div length` (`PartCovers`); a pixel of the
  screen is in one part across and one down, so in the cell of a slot, and every slot
  has an instance (`OneMaster`). That the area is covered is said pixel by pixel
  (`Covers`).
* `NobodyHidden` (`EveryoneVisible`): the derived grid has a cell for every slot
  (`DerivedColsIs`), and a part is empty only if there are more parts than pixels.
* `ClickInItsWindow` (`ClickLandsInside`), `ClickInItsPlace` (`ClickKeepsPlace`),
  `EveryPixelItsOwn` (`AbsExact`): rounding is off by at most one half (`RoundedIs`) and not
  at all on whole numbers (`RoundedWhole`).

**LatencyProofs**: `PrintedIsTrue` (`PercentilesAreRanks`), for every width and number of
buckets and every sequence of latencies; the lemma below the theorem
(`PercentileIs`) is about any percentile above 0, not only those that are checked.
What the two loops compute is shown by induction. The induction theorems of the
library take an operator, which the provers cannot instantiate; but a set of natural
numbers has a least element (`LeastElement`, from `WFMin` and the order of the natural
numbers being well founded), and from that follows the induction over a set
(`InductionUpTo`) and the existence of the value of a loop (`LoopRuns`). So `After` is
what resetting and then recording one latency after the other gives (`AfterIs`): each bucket
holds the number of latencies that belong in it, the extremes are latencies, and the sum
lies between the count times the one and the other (`Summary`). `Seen` is the number
of latencies up to a bucket (`SeenIs`); the first bucket at which the share reaches the
percentile (`FirstReached`) is therefore the bucket of the latency that has this rank
(`PercentRank`, `RankExists`), as a larger latency is never in a smaller bucket
(`BucketsMono`). The assumptions are those of LatencyStats: latencies are at most
`NoMin`, the largest value of their type. The counters of the code are 64 bits wide and do
not overflow in practice; here they are natural numbers.

**Only model-checked.** Every invariant of a passing run and the action properties
`PlansShorten` and `SwapsShorten` are proved. Liveness under fairness and `ENABLED` are out of the
provers' reach: the fairness part of `RefinesQueue`, `CopiesConverge`, `PlansEnd`,
`ConfigArrives`, `SwapEnds` and `ShutdownEnds` stay with TLC, and so do the runs that end
in a violation.

## 6. What is not modelled

* `Args`, key names, `list`, `spike-launch`, `spike-input`: text and one-shot
  experiments without shared state.
* The measures against a locked foreground inside `bring_to_foreground`
  (`--attach`, `SwitchToThisWindow`): one step with its outcomes.
* Priorities, efficiency mode, memory and CPU limits; how long a settling time or
  a stats interval is.
* Mouse moves (never captured by this program) and a table of routes that
  changes while the program runs (no caller does that).
* Buttons other than the left one: all buttons take the same path.
* Pipeline and Session are not composed: Pipeline takes the swap callback and the
  refresh of the configuration as steps of the broadcaster, Session takes the
  broadcaster as a loop that refreshes. The step they share is `Settle`
  (`SwapPublish` in Session).
* Whatever `docs/ARCHITECTURE.md` describes and the code does not have yet: the
  control pipe, the UI, telemetry, accounts.

## 7. Plan

Done: the ring with its refinement; the pipeline with buttons; the session; the
lifecycle; the layout; the histogram; and the proofs of all their invariants, of
`PlansShorten` and `SwapsShorten`, and of the ring's refinement. What could come next, in this order:

1. Session composed with Pipeline, on the smallest bounds.
2. The lifecycle on an instance with two launched clients.
