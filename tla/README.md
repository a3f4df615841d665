# Verification of DropSeed

TLA+ models of DropSeed, an audio plugin host engine (`src/`, the engine's
crate; `plugin-api/`, the crate of its traits and types), the TLC
configurations that check them on small instances, and TLAPS proofs of the
theorems that matter most.

Paths below are relative to the repository.

| module | what it is |
| --- | --- |
| `PluginLifecycle` | one plugin instance: main thread against process thread |
| `PluginLifecycle_proofs` | its inductive invariant and the theorems about it |
| `CoalescingQueue` | what a reducing queue promises (abstract specification) |
| `ReducingQueue` | the wait-free queue of parameter values, access by access |
| `ReducingQueue_proofs` | no panic, no lost write, and that it implements `CoalescingQueue` |
| `AudioCycle` | the sound card's callback and the loop of the process thread |
| `AudioCycle_proofs` | frames flow in order, the ring without input never fills up |
| `PortSync` | how a plugin's list of ports becomes ports of the graph (operators) |
| `GraphPorts`, `GraphPortsMC` | the audio graph: plugins, ports, edges, compilation |
| `GraphPorts_proofs` | every property of `GraphPorts`, for any plugins and answers |
| `PluginGui` | the GUI of a plugin: its thread, its host, the application |
| `PluginGui_proofs` | a GUI has its owner, a closed one is reported, the last size arrives |
| `EngineTimers` | `on_timer`, the timer wheel, activation, reset and crash of the engine |
| `EngineTimers_proofs` | timers are on time and wanted, their tables agree, the end of the engine is reported |
| `Induction` | induction over natural numbers, for the recursive functions of the others |
| `Transport`, `TransportMC` | playhead, loop, seek, tempo maps and the fades that hide them |
| `Transport_proofs` | fades stay continuous, the loop is kept, a block plays its frames |

A `MC` module gives the sets of its namesake small values. Check a module with
`tlc -config X.cfg M.tla`, prove with `tlapm M.tla`.


## 1. The system

DropSeed keeps a graph of audio plugins and runs it. Four kinds of threads take
part:

- the **main thread** owns the graph and the host side of every plugin. The
  application calls `DSEngineMainThread::modify_graph` and the setters of a
  plugin host, and calls `on_timer` regularly; that runs `on_idle` of every
  plugin host and the garbage collector;
- the **process thread** runs the current *schedule*, a flat list of tasks compiled
  from the graph, in cycles; a cycle is cut into blocks of at most
  `max_block_size` frames;
- the **audio thread** (the sound card's callback) exchanges buffers with the
  process thread over two rings;
- **plugin threads** raise request flags at any time.

### Components, their state, operations and what makes them correct

**Plugin host, main thread** (`src/plugin_host/main_thread.rs`, `channel.rs`,
`graph/shared_pools/plugin_host_pool.rs`). State: the plugin, its saved state, the
parameter values, `restarting`, `remove_requested`, and the channel to the
processor: an atomic active state, an atomic process request, a shared cell with
the processor, two parameter queues. Operations: `activate`, `schedule_deactivate`,
`schedule_remove`, `on_idle`, `set_param_value`, `set_param_mod_amount`, the save
state. Correct when: a plugin is activated only without a processor and
deactivated only after its processor is gone; a removed plugin leaves the pool; the
value shown for a parameter is the value the plugin has.

**Plugin host, process thread** (`plugin_host/processor.rs`,
`processor_schedule/tasks/plugin_task.rs`). State: the processing state
(`WaitingForStart`, `Started`, `Stopped`, `Errored`), the version of the
schedule the processor waits for, the wrapper a task keeps. Operations: poll,
`process`, `Drop::drop`. Correct when: `start_processing` and `stop_processing`
alternate; the plugin runs only on a schedule made for its ports; the processor is dropped
on the process thread.

**Processor schedule** (`processor_schedule.rs`, `shared_schedule.rs`). State: the
tasks, the processors to stop, the version. Operations: `set_new_schedule`,
`process_interleaved`, `deactivate`. Correct when: a schedule is never freed in
use, and what it refers to is alive.

**Reducing queue** (`utils/reducing_queue.rs`). State: two maps and three atomic
pointers. Operations: `set`, `set_or_update`, `produce`, `producer_done`,
`consume`. Correct when: it never panics, no write is lost, later values win.

**Audio graph** (`graph.rs`). State: the abstract graph, the plugin pool, the
processors to drop. Operations: add, remove, connect, disconnect, `on_idle`,
`compile`, `reset`. Correct when: the abstract graph, the pool and the schedule agree.

**Port synchronisation** (`main_thread/sync_ports.rs`). Updates the ports of
the abstract graph from the plugin's. Correct when: edges refer to ports that exist, and the
graph is compiled after any change.

**Graph compiler and verifier** (`graph/compiler*`). Turns the output of an
external graph library into tasks; the verifier looks for buffers shared by
tasks.

**Engine, main thread** (`engine/main_thread.rs`). `activate_engine`,
`deactivate_engine`, `modify_graph`, `on_timer`, crash handling. Correct when:
deactivation leaves no plugin processor and no running thread.

**Audio thread and process thread loops** (`engine/audio_thread.rs`,
`process_thread.rs`). Two rings, a time-out. Correct when: what is played
is the output of this cycle's input; a late cycle is discarded.

**Host request channel, timer wheel** (`plugin-api/src/host_request_channel.rs`,
`engine/timer_wheel.rs`). Request flags swapped by the host; timers per plugin.
Correct when: no request is lost, timers fire on time and only while they are wanted.

**Plugin GUI** (`plugin_host/main_thread.rs`, `channel.rs`, `external/clap/plugin.rs`,
`examples/test-host/src/effect_rack_page.rs`). Three beliefs about one window. Correct when:
no GUI is left without an owner, and what the plugin says of it arrives.

**Transport and declick** (`tasks/transport_task*`). Playhead, loop, seek and the
crossfades. Correct when: the playhead stays in the loop, every jump is faded.

**Delay compensation, sums, event buffers** (`tasks/delay_comp_task*`,
`event_io_buffers*`). Delay lines and note sanitizer. Correct when: each
output is its input a fixed number of frames later; no note hangs.

**Plugin scanner, CLAP host, plugin API, test host**: file input and output, a
translation layer over an external interface, traits and data types, a sample
user interface.

### How they interact

```
 user ── modify_graph / set_param_value ─> main thread ── schedule ──────────> process thread
                                            │   ▲    └── processor (cell) ──────────┤
 plugin threads ── request flags ──> on_idle┘   └── active state (both write) ──────┤
                                            └── process request, parameter queues ──┘
 main thread's garbage collector frees what nobody refers to: schedules, processors, plugins
```

The main thread and the process thread never lock. They agree by the order
of single atomic accesses, and by reference counts: whoever is not the
collector gives up a reference, the collector frees.

### What is hard

Both threads write the active state. `on_idle` reads it once, at its start, and
takes a dozen steps that rely on it while the process thread goes on. A processor
is created on one thread, dropped on the other, and its drop is itself a message.
Schedules may be replaced before they run. The queue swaps three pointers one at a
time. `PROJECT.json` lists more than thirty such places, with the line of each.


## 2. PluginLifecycle

One instance of a plugin, with everything that decides whether it has a
processor: the pool, the graph node, the cell, the schedules, the collector.

**State.** `activeState`, `processRequest` and `cell` are the fields of
`SharedPluginHostState` and `SharedPluginHostProcessor`. A processor is named by
the number of the activation that made it (`1..gen`); `proc` is what is left of
it (`live`, `dropping` while `Drop::drop` has returned but the fields are not freed,
`gone`). A schedule is named by its version; `sched[v]` has the parts that
concern this plugin: whether it has a task for it, the processors to stop, the
wrapper the task keeps, and the ports it was compiled for. A set of ports and a
latency is one number, `layout`: the properties only ask whether two are the same.
`mpc` and `ppc` say where each thread is; `mState`, `mFlags`, `seen`, `doProcess`
are locals of the code under their nature or name.

**Steps.** Each action is what a thread does between two accesses to shared state:

| code | actions |
| --- | --- |
| `modify_graph`: add, remove, anything else | `AddPlugin`, `RemovePlugin`, `EditGraph` |
| `activate`, `new_processor` | `ActivateSucceeds`, `Publish`, `ActivateFails` |
| `schedule_deactivate` | `TakeProcessor`, `StoreWaitingToDrop` |
| `on_idle` | `FetchRequests`, `NoRestart`, `Restart`, `HandleProcess`, `Deactivate` |
| `AudioGraph::compile`, `set_new_schedule` | `Finish` |
| collector | `CollectGarbage`, `Forget` |
| `process_interleaved`, `ProcessorSchedule::process` | `BeginCycle`, `DrainStop`, `NoTask`, `NextBlock`, `EndCycle` |
| `PluginTask::process` | `PollProcessor`, `PollNothing`, `LeaveProcess`, `DropProcessor` |
| `PluginHostProcessor::process` | `ReadActiveState`, `FallAsleep`, `StayAwake`, `StayAsleep`, `StartFails`, `StartSucceeds`, `StoreActive`, `CallProcess`, `SkipProcess` |
| `Drop` of `PluginHostProcessor` | `RunDrop`, `FreeProcessor` |

What the plugin does is free: it asks for a restart or for processing whenever it
likes, changes its ports at any activation, fails to start, returns any status.
So is what depends on samples: whether inputs are quiet, whether a note woke it.

**Abstractions.** The two accesses at the head of `schedule_deactivate` (the load of
the active state and the replacement of the cell) are one step: nothing another
thread does depends on their order. A plugin that is added is taken to be
activated successfully or not to be activated; a failure there
reaches the compiler, and a second request to remove a plugin still in the pool panics:
both are in `GraphPorts`. The engine stays activated; its deactivation is in
`EngineTimers`. The other plugins appear as edits.

### Runs

`lifecycle` (`PluginLifecycle.cfg`: 2 processors, 3 schedules, 1 change of layout;
1.66 million states) checks

- `ProcessorAgreesWithState`: at most one live processor, the latest; while
  there is one, the active state is `Active` or `WaitingToDrop`;
- `BorrowedProcessorIsLive`: what the process thread works on is not freed under it;
- `DeactivateAfterDrop`: when `on_idle` calls `deactivate()` no processor is
  left to call, although the decision was taken on an old reading;
- `MainThreadConclusions`: what the main thread may conclude from that old reading,
  at each place of its calls. It strengthens the others to an inductive invariant;
- `ProcessesOnItsLayout`: `process()` runs only on a schedule compiled for
  the ports the plugin was activated with. It is stated for
  executions in which no activation failed after changing the ports
  (`missedCompile`): the code asks for no compilation there, and the hazard list says so.

`lifecycle_live` (2, 3, 0; 633 thousand states) checks, under fairness,

- `RemovedProcessorReleased`: the processor of a removed plugin goes away;
- `RemovalCompletes`: a plugin removed with a processor leaves the pool. It
  excludes plugins that have asked for a restart: `schedule_deactivate` may then
  overwrite the `Dropped` the process thread has just stored, and nothing stores it again.

**Bounds.** `MaxGen` = 2 gives a restart with the old processor
still in use while the new one is made; a third processor would meet the second as
the second met the first. `MaxVersion` = 3 gives a running schedule, one that is
replaced before it ran, and the latest. `MaxLayout` = 1 is a change and no change.
The liveness run
needs no change of layout, but it needs three schedules: with two, none that stops a
processor is ever replaced before it runs, and the collector has no processor to drop. Bounds stop the user
(`AddPlugin`, `EditGraph`, `RemovePlugin`), and activations
(`gen < MaxGen`); they never stop a call before it returns or the process thread,
except that an activation beyond the last fails. The theorems hold for all bounds.

**Fairness.** `WF(Process)`: the process thread runs cycles while the engine is activated;
this takes an audio thread that calls, which is the application's to provide (`AudioCycle`).
`SF(EndCycle)`: a cycle has finitely many blocks. `WF(Call)`: a call on the main thread
returns; `AddPlugin`, `EditGraph` and `RemovePlugin` are no part of it, as no user has to do
anything. `SF(FetchRequests)` and `SF(CollectGarbage)`: the timers keep elapsing,
and other work may come first each time, but not for ever. The plugin is not
assumed to do anything.

### Where the code does not do what its documentation says

Two have a run that finds the counterexample:

- `deactivate_after_free`. `plugin-api/src/main_thread.rs:56-57` promises that at
  `deactivate()` the processor counterpart has been dropped. `Drop::drop` of the host's
  processor stores the `Dropped` state *before* Rust drops the fields of the struct,
  the plugin's processor among them (`processor.rs:443`): `on_idle` can run in between.
  The CLAP host panics in that case (`external/clap/plugin.rs:307`).
- `new_processor_polled`. `plugin_task.rs:22`: "Poll for a new processor if there is
  none." A task that polled an empty wrapper keeps it, and never polls again;
  when an activation changes no ports, no new schedule comes to clear it.

Two more are stated in the module as what a comment says and the code does not do. They do not
hold, and TLC refutes them when a configuration lists them:

- `StartsOnlyWhenStopped`. `plugin-api/src/processor.rs:17`: `start_processing` is
  called when the plugin is not processing. A processor started in a block in which it
  may not process yet (it waits for its schedule) stays in `WaitingForStart` and is
  started again in the next.
- `DroppedInProcessThread`. `processor_schedule.rs:20-21`: the processor part is
  dropped in the process thread. It is handed to the schedule compiled next; if
  that one is replaced before it runs, the collector drops it on the main thread.
  `Drop` itself logs an error in this case (`processor.rs:440`).

### Proofs

`PluginLifecycle_proofs` proves, for all values of `MaxGen`, `MaxVersion` and
`MaxLayout` (`BoundsAssumption`: naturals, the first two not zero),
`Invariance`: `Spec => []Inv`, and from it `TypeCorrect`, `ActiveStateIsHonest`
(`ProcessorAgreesWithState`), `BorrowIsSafe` (`BorrowedProcessorIsLive`),
`ConclusionsHold` (`MainThreadConclusions`) and `DeactivateIsSafe`
(`DeactivateAfterDrop`).

`Inv` is `TypeOK /\ ProcessorAgreesWithState /\ BorrowedProcessorIsLive /\
MainThreadConclusions`. The first two are not inductive alone. `Publish` makes a new
processor: that no other is live then must be known, and it was
decided when `on_idle` read the state (or when `Deactivate` ran, on the same reading).
So `Inv` says at each `mpc` what the reading implies *now*: "no processor" is
stable, because only the main thread makes processors, and "the state read was
`Active`" implies nothing. Conversely, `ActivateFails` and `Deactivate` overwrite the
active state, which is harmless only if no processor is live. The proof has a lemma per
conjunct of `Inv`, one step per action; actions that change nothing a conjunct
mentions are treated together.

`RunsOnItsLayout` (`ProcessesOnItsLayout`) needs a second invariant, `LayoutInv`, proved on top of
`Inv`. `ScheduleHasLayout`: the newest schedule has the layout of the plugin or the main thread has still to compile.
`LayoutsAgree` extends it to every schedule the process thread is on or may go on to, with a number from
the processor's `min_version` on, for every processor that is live or handed over but not yet polled.
`WaitsForSchedule`: once the wait of `process()` is over it stays over, as the process thread never goes
back to an older schedule. Nothing is said once `missedCompile` is set, where the property says nothing either. Most steps write
no layout and bring neither a schedule nor a processor (`Quiet`); the others are treated one by one.

The two liveness properties are only model-checked.


## 3. ReducingQueue and CoalescingQueue

**CoalescingQueue** is the promise: the producer's writes gather in a staged batch,
a later write to a slot replaces an earlier one; a batch is handed over whole when the
consumer has none; the consumer takes whole batches. `taken` is the latest value
the consumer was given for each slot.

A *slot* is a field of the entry of a parameter: `ProcToMainParamValue::update`
replaces the value and the gesture separately, so they count as two.

**ReducingQueue** has the two maps and the pointers `free`, `producer`, `consumer`,
with one action per access to them, as in the source. The variable `use` picks,
initially, one of the two ways the host uses a queue: `produce` around each block
on the process thread, or `set` then `producer_done` on the main thread, whenever the
user sets something. `last` and `taken` are histories.

The run `queue` (2 slots, 2 values; 20 thousand states) checks `TypeOK`;
`NoPanic`: the two ends never borrow the same map (an `AtomicRefCell` would panic)
and a swap always finds the spare map; `LatestIsKept`: the last value written to each
slot is staged, ready or taken, in that order of preference; `Coalesces`: refinement of
`CoalescingQueue` with

    staged <- the map of the producer (until the swap ends, the one it fills)
    ready  <- the map of the consumer, until its closure has seen it;

and `ReportIsTaken`: what a processor reports reaches the main thread.

Two slots show whether batches are torn; two values whether old values overtake new
ones. There is no third map or pointer to bound.

**Fairness.** Both ends run again and again, a call returns, `produce` is called for
every block. Nothing makes the user set another value: `SetValueIsTaken`, the counterpart of
`ReportIsTaken` for the values of the user, is stated in the module and does not hold.
`producer_done` hands over nothing while the processor
has the previous batch, and nothing retries, so the last value of a
movement of a knob may stay behind, while `set_param_value` has returned it as "the
actual (clamped) value that the plugin accepted" (`main_thread.rs:262-263`).

**Proofs** (`ReducingQueue_proofs`, for all `Slots`, `Values` and a `None` that is no
value, `NoneAssumption`): `TypeCorrect`, `CallsDoNotPanic`, `NoWriteIsLost` and `QueueCoalesces`
(the refinement). The inductive invariant adds `Ownership`: at each pair of
places of the two threads, which pointer has which map. It says that a
producer inside a swap sees `consumer` NULL and the spare map in `free`
(`Swapping`), that a consumer inside `consume` has its map in `consumer` and returns it
empty (`Consuming`), and that the producer's map is never the consumer's nor, outside a
swap, the spare one, which is empty (`Spare`). The refinement
then maps `Set` and `WriteEntry` to `Write`, `ProducerStoresConsumer` to `HandOver`,
`Iterate` to `Take`, and every other step to a stutter.

Liveness of the queue is only model-checked.


## 4. AudioCycle

The callback of the sound card (`process_cpal_interleaved_output_only`) asks the process
thread for as many frames as it needs, through a ring of input or, when the graph has no
audio inputs, through a counter (`hasInput` picks one, initially); it then polls the ring
back until the frames are there or the time is up. The process thread takes *all* that
was asked for as one cycle, processes it and writes it to the ring back.

The unit is the frame, one sample of each channel: both threads move whole frames only.
A frame is named by its place among all the frames asked for, and the frame computed from it has
the same name. `request` is the ring of input or the counter, `outRing` the ring back,
`block` what the process thread took and owes. Time is a choice: at each poll that
finds too little, the callback may go on or give up (`Underrun`). Ends of a channel that
are *gone* have been freed by the collector, when `is_abandoned` and
`Arc::strong_count` tell. Callbacks too short for a frame of each channel are left out, and graphs without audio
outputs.

The run `audio_cycle` (callbacks of 1 or 2 frames, rings of 6, 10 frames in all; 146 thousand
states) checks

- `FlowIsInOrder`: what is asked for goes through once and in order, what was played does not
  come again, and with audio inputs the input on its way has no gap;
- `CleanCallbackPlaysItsOwn`: a callback that finds the process thread done with all it was
  asked plays its own frames or silence: after a stall, output is right as soon as the process
  thread has caught up;
- `NoInputNeverFails`: without audio inputs the ring back never fills up. The output of up to three
  callbacks can be on its way (one written, one owed, one asked for), hence
  `SizeAssumption`: `Capacity >= 3 * MaxFrames`. The code allocates three seconds.
  With audio inputs the ring does fill up after two long stalls, and `run()` then returns without
  `ProcessorSchedule::deactivate` and for good (`WriteInVain`);
- `ProcessThreadEnds`: told to stop, or without an audio thread, `run()` returns, so that the join in
  the drop of `ActivatedState` ends. `WF(Process)` is all it needs.

The bounds let a callback ask three times while a block is owed, callbacks of different sizes meet
in one block, and both rings fill up. `LateOutputIsDiscarded` states what the comment at
`audio_thread.rs:137` says of the discard at the start of a callback, and does not hold: the output
of a late cycle that arrives after it is played instead of the callback's own. Deadlock is not
checked: the system stops once the process thread ended and the audio thread was dropped.

**Proofs** (`AudioCycle_proofs`, for all sizes that satisfy `SizeAssumption`): `TypeCorrect`, `NoInputIsSafe`,
`FlowKeepsOrder`, `CleanCallbacksAreRight`. The first two come from `TInv`, which counts: between
the discard and the request at most two callbacks are on their way, elsewhere three
(`NoBacklog`). The other two come from `FInv`, about `outRing \o block \o request`: a step takes frames from its
front (`FrontLeaves`: the discard, playing), adds frames behind some of it
(`NewFramesFollow`: asking; without input the request not taken is replaced), or leaves it as it
is (`OthersKeepFlow`). `ProcessThreadEnds` is only model-checked.


## 5. GraphPorts and PortSync

The four records the main thread keeps of one graph: the abstract graph (an external
library), the port map of each plugin host, the port lists a plugin last announced,
and the edges the user was told of. All of it happens on one thread. What makes it hard is
that a plugin may answer anything when it is activated, restarted or rescanned, that an
activation may fail half way, and that a removed plugin stays in the pool for a while.

**PortSync** has no state: `sync_ports_in_graph` as operators on a host's port fields.
A *channel* is a `PortChannelID`, a port the number the abstract graph knows it by.
`Synced` is the set of results, one for each order in which the hash map of removed ports may be
drained into the free list, whose end is used first (`TakePorts`).

**GraphPorts** is the rest:

| code | actions |
| --- | --- |
| `modify_graph`: disconnect, remove, add, connect, compile | `Disconnect`, `RemovePlugin`, `AddPlugin`, `Connect`, `EndModify` |
| `activate`, inside `AddPlugin` and `OnIdle` | `Activate`: `Refuse` before a port was touched, `Sync` after |
| `AudioGraph::on_idle` | `BeginIdle`, `OnIdle` for each plugin in any order, `EndIdle` |
| `compile_graph`, `construct_plugin_task` | `Compile`, `TaskIsMade`, `NeedsBuffer` |
| the process thread drops a processor | `DropProcessor` |

A plugin may be new, loaded deactivated from a project, or missing; `MayBe` and `MayDo` say what
each may be and answer. A graph that does not compile ends the engine (`crashed`); an
`unwrap` of nothing ends the program (`panicked`). The histories `unsynced`, `torn`, `failed`,
`partial`, `missed`, `lost`, `asked`, `twice` record which of the known failures have happened, and no
action reads them: each property says which of them it excepts, and so documents what the code
does not repair.

The run `graph_ports` (two plugins, the first arbitrary and the second well behaved; one edge,
three activations; 781 thousand states) checks

- `PortsAgree`: the port map and the abstract graph have the same ports, each of its
  channel's type and direction, and no number is both free and in use; edges join an output and an input
  that exist and the engine's table names exactly those; the main ports are the first the plugin
  announced, in their order;
- `UserKnowsEdges`: the results of the calls tell the user of each edge that comes or goes,
  except the edges of an activation that failed after removing ports. `modify_graph` shadows its
  list of removed edges (`engine/main_thread.rs:359`), so that the edges the user disconnects
  are not in its result, which is documented as "All of the edges (port connections) that have been removed"
  (`engine/main_thread.rs:725`): `asked` excepts them, and only them;
- `ScheduleIsCurrent`: between calls, the schedule is that of the graph, except after an
  activation that changed the graph and failed, after which nothing compiles; and it has a buffer for
  each channel that a plugin announced. `BuffersAreInOrder`, which adds that they are in the plugin's order
  (`plugin-api/src/ext/audio_ports.rs:14`), is stated and does not hold: a plugin that announces the same ports
  in another order is not given another schedule, and takes one port for another (TLC finds it with the list `Swapped`
  of `GraphPortsMC` among the answers);
- `StopsAreExplained`: the graph fails to compile only if a plugin has saved ports that were
  never put in it or failed to activate after its ports were; the main thread panics only
  on a second removal of one plugin, or on a main port of a plugin one of whose lists was rescanned alone
  (the note ports are then reset, `sync_ports.rs`);
- `RestartKeepsEdges`: an edge goes in `on_idle` only if one of its channels does.

The run `inactive_plugins_compile` finds that a project with a deactivated plugin does not load:
its saved ports are in no map, `construct_loaded_plugin_task` finds no buffer for them, and the error
ends the engine, where `engine/main_thread.rs:684-686` describes the case as normal.

**Bounds.** One arbitrary plugin goes through all combinations of three activations: add,
restart with other lists, restart after a failure. The lists are a synthesizer with an input and two outputs, the same
without the input and with its outputs turned round (so that ports survive, in another place, while others come and
go), one with a repeated id, and failure; with and without note ports. A second plugin and one edge suffice for an edge to lose either end. Deadlock is
not checked: the engine may have crashed.

**Proofs** (`GraphPorts_proofs`, for any plugins, answers, requests, saved lists and bounds). All six properties
of the run are theorems: `TypeCorrect`, `TablesAgree` (`PortsAgree`), `UserIsTold` (`UserKnowsEdges`), `LayoutsAreCompiled`
(`ScheduleIsCurrent`), `StopsHaveCauses` (`StopsAreExplained`) and `EdgesOutliveRestarts` (`RestartKeepsEdges`).

*Assumptions.* Of `GraphAssumption`: the names of the graph's own nodes are no plugins; what plugins save and answer is
a list in `AudioLists` and `NoteLists` (or a failure, or nothing); a user names channels by numbers; the bounds are
numbers. A list is a sequence of ports of any length, each with an id and any number of channels; whether it has
duplicates makes no difference to the proofs, as `activate` tests that. Of the layout, only that `InOut` means a port in each
list, as the CLAP host makes it (`external/clap/plugin.rs:142-147`); with an `InOut` list without ports,
`unloaded_plugin_task.rs:33-34` would index an empty vector.

*The invariant.* None of the properties is inductive. `IInv`, which `Invariance` proves, is the conjunction of

- `EdgeInv` (ids of edges): an id is in use once and below the next one, the table has exactly the ids of
  the graph, and the user was told of all of them;
- `PortInv` (nodes, hosts, ends of edges): the host of a node has the node's ports in its port map, and a host
  has no node exactly when its removal was requested, which is why a plugin that leaves the pool takes no
  node with it;
- `HostsInv` (the port map of a host): channels have different numbers, none of which is free, all below the next
  (`Numbered`); unless the plugin never got ports or failed after they were changed, its channels are exactly those of the lists
  it announces and its main ports the first of them (`Describes`, weaker for a plugin one of whose lists was
  fetched alone); and the type and direction of a port in the graph are its channel's (`Mirrors`);
- `RecordInv`: the phase of a call, the bounds, and how the histories include one another;
- `ScheduleInv` and `LayoutInv` (what was compiled): the graph is the compiled one, or will be
  compiled, or an activation failed; and the same of the channels of each plugin that never failed;
- `StopsAreExplained`.

*The argument.* First the data: what `FlattenSeq` contains, by induction along the sequence of sequences
(`FlattenLemma`; a recursive function of the library, so that its values are reached through a set and the
induction over numbers of module `Induction`); that the channels of a list are those of its ports, the
main ones included (`ListedIs`, `FirstChannels`); that the n-th new channel gets the n-th port
taken, a number that no channel has and that is not taken twice (`RankLemma`, `TakenPorts`, `NewNumbers`), and that the ports of
removed channels return to the free list in any order without a duplicate (`StillNumbered`). Then `sync_ports_in_graph`,
field by field (`SyncedFields`, `SyncedDescribes`, `SyncedMirrors`, `SyncedLoses`). Then an activation, which every answer
and every failure leaves in `Outcome` if it begins in `Found` (`RefuseOutcome`, `SyncOutcome`, `ActivateOutcome`), for
`AddPlugin` and `OnIdle` alike. `LayoutInv` needs that `needs_recompile` misses no change of the
channels: if the port map has the channels it had, the lists have, because of `Describes`; that fails for a plugin
whose last activation failed, which is what `torn` and `failed` except. `StopsAreExplained` needs that a task asks for buffers of
announced channels only (`NeedsAreListed`), and that a main port is a port as long as the lists were fetched together
(`EndsAreFound`).

Model-checked only: nothing of this run. `InactivePluginsCompile` is refuted, and there is no liveness.

## 6. PluginGui

The GUI of a plugin has a thread of its own, which talks to the main thread through two cells of
the host request channel: a word of flags and a mailbox with a size. `on_idle` swaps the first and
then takes the second; between any two steps the plugin may go on. `plugin` is what the
plugin has (`none`, `open`, or `lost`, waiting for `destroy`), `host` what its
`PluginHostMainThread` believes, `app` what the application shows.

| code | actions |
| --- | --- |
| the CLAP host's `request_show`, `request_hide`, `closed` | `PluginAsks`, `PluginCloses`, `PluginLosesGui` |
| `request_gui_resize` | `BeginResize` (mailbox), `EndResize` (flag) |
| the application's buttons and windows | `CreateGui`, `Buttons`, `RemovePlugin` |
| `on_idle` | `FetchRequests`, `OnIdle` |
| the application handles the events of `on_timer` | `HandleEvent`, `EndTimer` |

The run `gui` (two sizes, two GUIs; 338 thousand states) checks `GuiHasItsOwner`: a GUI the plugin
has is known to the host and to the application, an embedded one has its window, a
removed plugin has none, and the host shows no GUI that is not there; `ClosedGuiIsReported`: the application shows a closed
GUI as open only while the news is on its way; `LastSizeArrives`: the
last size asked for is reported, or is in the mailbox with the flag up or about to be;
`LostGuiIsAcknowledged`: a plugin that lost its GUI gets the `destroy` it waits for.

The run `gui_destroyed_once` finds that `destroy_gui` is called for a GUI that is gone: `on_idle`
destroys a lost GUI but leaves `gui_active` set, and the application, told that it was destroyed,
destroys it again, as does the removal of the plugin.

`hide_gui` of the CLAP plugin calls `show` (`external/clap/plugin.rs:643-655`); the model does the same, which
is why no property says that a GUI is hidden.

**Bounds and fairness.** A second GUI may meet the flags the first one left; sizes are only
compared, and of two one is last. `WF(Timer)`: the application keeps calling
`on_timer` and handles what it returns; `WF(EndResize)`: a request in progress is completed. Deadlock is not
checked: a removed plugin and an application that is done may rest.

**Proofs** (`PluginGui_proofs`, for any sizes and any number of GUIs): `TypeCorrect`, `GuiIsOwned`
(`GuiHasItsOwner`), `ClosingIsReported` (`ClosedGuiIsReported`), `LastSizeIsKept` (`LastSizeArrives`). The first
property is not inductive, as `on_idle` leaves `gui_active` set when it destroys a lost GUI: that the application
does not create or show one in between rests on the order of the events. `GoneInv` says that while it believes
in a GUI that is gone, the event that tells it is the next it handles; `LostInv`, that a lost GUI has its flag
up until `on_idle` makes that event, and makes it first (`IdleEventsLemma`). `SizeInv` says that the mailbox holds
the last size or nothing. `LostGuiIsAcknowledged` needs fairness and is only model-checked.

## 7. EngineTimers

`on_timer` advances the wheel, takes every entry that elapsed, and then handles them one after the other;
handling one may register or drop the others, or end the engine. Time is relative:
`lag` is the distance of the next expected tick, `wheel[k]` the ticks left of an entry.

| code | actions |
| --- | --- |
| `EngineTimerWheel::advance`, called by `on_timer` | `Advance` in `BeginTimer` |
| the entries | `HandleMainIdle`, `HandleGarbage`, `HandlePluginTimer` |
| `on_idle` of a plugin host | `FetchRequests`, `IdleTimers`, `IdleRest`, `EndIdle` |
| `compile_audio_graph`, which may fail | `Compile` |
| `AudioGraph::reset`: schedule all removals, loop for ten seconds, clear | `BeginReset`, `FetchRequests` .. `IdleRest`, `EndReset` |
| `activate_engine`, `deactivate_engine`, `modify_graph` | `ActivateEngine`, `DeactivateEngine`, `AddPlugin`, `RemovePlugin` |
| the plugin's timer requests, whenever it is called | `RegisterTimer`, `UnregisterTimer` |

The run `timers` (one plugin with two timers, two activations; 425 thousand states) checks

- `TimersAreOnTime`: a plugin's timer never fires early, and none fires later than an idle interval plus the
  application's delay after it should, whatever ticks are skipped or missed;
- `TimersAgree`: the wheel, `registered_plugin_entries` and `registered_timers` name the same timers
  of a plugin, and what the plugin asked for is there or announced by a flag. It is about plugins
  that are not removed: the timers a removed plugin registers stay in the wheel until the next reset;
- `OnlyWantedTimersFire`: `on_timer` of a plugin is called only for timers it still wants;
- `DeactivationIsReported`: the application learns of a crash in the same or the next `on_timer`,
  and no event of a plugin comes after it was told;
- `EngineIsPolled`: while the engine is active, `on_idle` runs again and again.

The deadlock check says in addition that `on_timer` and `reset` never get stuck.

**Bounds and fairness.** The intervals are 2 and 3 and the plugin's period 1, so that several entries elapse in one
call, in each order, and ticks are skipped and missed. Two
activations show what the first leaves to the second. `WF(Elapse)`: time passes. `WF(OnTimer)`: the
main thread goes on. `SF(EndReset)`: a reset ends at its deadline whatever the plugins do, so it may
end in any round. What happens when it ends before a processor is dropped is the subject of a hazard.
A plugin that registers a period of zero is outside (`TimerAssumption`): `timer_wheel.rs:82`
asserts against it.

**Proofs** (`EngineTimers_proofs`, for any plugins, intervals, periods and bounds that satisfy
`TimerAssumption`). The invariant has four parts, checked by TLC with one and with two plugins before
they were proved:

- `OnTime`: the sum `Due` of an entry's age, the distance of the next tick and the ticks left is the age it will
  elapse with. Elapsing time, missed and skipped ticks leave the sum alone, so that `TimersFireOnTime`
  (`TimersAreOnTime`) follows from its bounds at registration. A timer that is registered while the clock is ahead
  of the wheel would fire early; `Stages` says that this happens in a reset only, after which the wheel is new.
- `Tables`: the timers that will be known once the requests are taken, `Known(known, requests)`, are those the plugin
  wants. `TablesAgree` (`TimersAgree`) and the action property `CalledForWantedTimers` (`OnlyWantedTimersFire`) follow.
- `Stages`: which of `crash_msg`, `EngineDeactivated` and the two activated states may be there at each stage;
  `EngineEndsAreReported` is `DeactivationIsReported`.
- `Types`, with `TypeCorrect` for `TypeOK`.

`Known` and `Applied` are recursive functions of the list of requests. `Induction` derives induction over sets of
numbers from the theorem that every nonempty set of them has a least one; with it the lemmas `KnownTrace`, `AppliedTrace`,
`KnownAppend` and `AppliedKeeps` are proved for lists of every length. Only
`EngineIsPolled`, which needs fairness, is model-checked alone.

## 8. Transport

The application writes seeks, starts, stops and loops to one shared cell and tempo maps to another; the process
thread reads the two at the start of a block, one after the other (`GetParameters`, `Process`), so
that a new map may come with old parameters. A musical time is a number, a tempo the frames of one unit;
`ToMusical` rounds like the code. Gains of the start/stop fade are counted in `declick_inc`; of a jump the model has
where its two buffers are read. `Process(n)` is `TransportTask::process` with the declick state machine
for a block of `n` frames.

The run `transport` (blocks up to 3, fades of 4, two tempos, three loops, 4 requests, 370 thousand states) checks

- `LoopIsKept`: a playhead in the loop stays in it until there is a request;
- `BlockPlaysItsFrames`: a block of `n` frames covers `n` frames of the song as `is_frame_active`
  tells it, or none when stopped;
- `GainIsContinuous`: the start/stop gain moves by at most one `declick_inc` per frame, across blocks
  too, however short the time between a start and a stop;
- `FadeInMeetsPlayhead`: the fade-in of a jump is read where the playhead is as long as
  the transport plays on from the jump.

A loop shorter than a block is excepted in the first two: the code goes round once per block, and the
playhead leaves the loop. Other observations, which no property states because nothing says otherwise
or the data is left out: a seek while playing is faded only while a start/stop fade is on
(`declick.rs:149`, against the comment at `:150`); the fade-out of a loop is filled with the gain of the fade-in
(`declick.rs:322`); a seek while paused sends no event; the shown position is
cached by frame, stale after a tempo change that lands on the same frame (`transport_task.rs:63-74`).

**Bounds.** A fade longer than a block spans two or three blocks; four requests allow a start, a stop and
a start within one fade, and a seek, a loop and a tempo map in one block. Behaviours end at the bounds, so
deadlock is not checked.

**Proofs** (`Transport_proofs`, for all values of the constants that satisfy `TransportAssumption`; the bounds on requests
and frames do not matter): `Invariance`, `TypeCorrect`, `NoClickOnStartStop`
(`GainIsContinuous`), `FadeInIsHidden` (`FadeInMeetsPlayhead`), `LoopIsNotLeft` (`LoopIsKept`),
`BlockPlaysItself` (`BlockPlaysItsFrames`). `GainIsContinuous` is not inductive: a start that meets a stop on its way turns
the fade round, and is continuous only if the value it starts from is the one the fade had reached.
`RampInv` relates value and length of a fade on its way to the direction, `GainInv` the gain of the last frame
to both; `TurnedLemma` and `RampLemma` carry them over a turn and over a block. `FadeInv` adds that a
fade that is not disturbed belongs to a playing transport. `RangeInv` ties the range a plugin sees to the
block it was made for; that it has the right size is a lemma on the union of two intervals
(`TwoIntervals`). `LoopIsKept` needs the types only: that a block no longer than the loop cannot jump over its end.

## 9. Conventions

An operator `A_Fault` stands before `A` and is `A` with a plausible mistake: a
dropped store, an off-by-one, a test the wrong way round. Nothing uses it. Replacing `A` by it
breaks the property `PROJECT.json` names beside it: this is how we know that each
property depends on the code it is about. `PROJECT.json` also maps each
definition to the lines it models.

History variables (`missedCompile`; `last`, `taken`; `asked`, `own`, `clean`, `heard`; those listed in sections 5
to 8) are assigned and never read by the code's part of an action.

## 10. Plan

Modules still to write:

1. `ParamSync`: two `CoalescingQueue`s, which the refinement justifies, with both copies of a parameter: do the
   copies agree once everybody is quiet; what happens to values set while a
   processor waits to be dropped (`main_thread.rs:295`). The test at `main_thread.rs:316`, inverted as it
   stands, belongs here.
2. Save states: `collect_save_state` clears the dirty flag first and keeps nothing when the plugin fails
   (`main_thread.rs:225-242`).
3. Bypass (`processor.rs`) with its fade, and the note sanitizer over event buffers.
4. Delay lines and the verifier of a schedule, as functions checked against a reference definition.

## 11. Not modelled, and why

- Samples and buffers, summing, formatting, logging: data without control.
- The choice of order and buffers in a schedule: made by an external library, as are the wheel's slots and
  the abstract graph, which are modelled from their use.
- Scanning directories, loading shared libraries, the translation of buffers and events to CLAP, the parameter
  widgets of the test host: input and output.
- The transport event, the shown position, and the gains of the jump buffers; delays and sums.
- Flushing and rescanning of parameters, save states, bypass: planned above.
- Memory order: the atomic accesses are taken as sequentially consistent. The code
  uses `SeqCst` for the active state and for the queue's pointers; the cell and the
  schedule are `basedrop` cells, an external library.
