-------------------------- MODULE PluginLifecycle --------------------------
(***************************************************************************)
(* The life of one plugin instance: how the main thread activates,         *)
(* restarts and removes it while the process thread runs it.               *)
(*                                                                         *)
(* The two threads share one atomic word (the active state), one shared    *)
(* cell that holds the processor made by the latest activation, and the    *)
(* schedules the main thread publishes.  Each action below is what one     *)
(* thread does between two accesses to that shared state.                  *)
(*                                                                         *)
(* A processor is known by the number of the activation that made it.  A   *)
(* schedule is known by its version.  The other plugins of the graph       *)
(* appear only as edits that publish a new schedule.                       *)
(*                                                                         *)
(* An operator whose name ends in _Fault is the operator after it with a   *)
(* plausible bug.  No action uses it: some property fails if one does.     *)
(***************************************************************************)
EXTENDS Integers, FiniteSets

CONSTANTS
  MaxGen,      \* bound: processors this instance makes
  MaxVersion,  \* bound: schedules the main thread publishes
  MaxLayout    \* bound: changes of the plugin's ports or latency

ASSUME BoundsAssumption ==
  /\ MaxGen \in Nat \ {0}
  /\ MaxVersion \in Nat \ {0}
  /\ MaxLayout \in Nat

VARIABLES
  \* -- shared by both threads
  activeState,     \* SharedPluginHostState.active_state
  processRequest,  \* SharedPluginHostState.process_requested
  cell,            \* the wrapper in SharedPluginHostProcessor
  proc,            \* processor -> its life
  version,         \* version of the schedule in SharedProcessorSchedule
  sched,           \* version -> schedule
  \* -- main thread
  mpc,             \* where the main thread is
  mFlags,          \* request flags on_idle fetched
  mState,          \* active state on_idle read
  inPool,          \* the plugin host is in PluginHostPool
  inGraph,         \* its node is in the abstract graph
  restarting,      \* PluginHostMainThread.restarting
  removeRequested, \* PluginHostMainThread.remove_requested
  toDrop,          \* AudioGraph.plugin_processors_to_drop
  recompile,       \* this call ends by compiling the graph
  gen,             \* processors made so far
  layout,          \* the ports and latency the abstract graph holds
  procLayout,      \* processor -> the layout it was activated with
  minVersion,      \* processor -> PluginHostProcessor.schedule_version
  missedCompile,   \* history: a failed activation changed the graph, uncompiled
  \* -- process thread
  ppc,             \* where the process thread is
  running,         \* version of the schedule it processes
  cur,             \* processor it works on
  seen,            \* active state it read
  doProcess,       \* local of PluginHostProcessor::process
  host,            \* processor -> PluginHostProcessor.processing_state
  plugin           \* processor -> the plugin is between start and stop

sharedVars == <<activeState, processRequest, cell, proc, version, sched>>
mainVars == <<mpc, mFlags, mState, inPool, inGraph, restarting, removeRequested,
              toDrop, recompile, gen, layout, procLayout, minVersion,
              missedCompile>>
procVars == <<ppc, running, cur, seen, doProcess, host, plugin>>
vars == <<sharedVars, mainVars, procVars>>

----------------------------------------------------------------------------
(* Values *)

Gens     == 1..MaxGen
Versions == 0..MaxVersion
Empty    == 0    \* a wrapper whose content is None
NoCache  == -1   \* PluginTask.current_processor = None

PluginActiveState ==
  {"Inactive", "InactiveWithError", "Active", "WaitingToDrop", "Dropped"}
NotActive == {"Inactive", "InactiveWithError"}

HostRequestFlags == {"RESTART", "PROCESS"}

ProcessingState == {"WaitingForStart", "Started", "Stopped", "Errored"}

\* "live": the wrapper holds it.  "dropping": Drop::drop has run, its fields
\* (the plugin's own processor among them) are not freed yet.
ProcLife == {"none", "live", "dropping", "gone"}

Schedule == [task: BOOLEAN, toStop: SUBSET Gens,
             cache: Gens \cup {Empty, NoCache}, layout: 0..MaxLayout]

EmptySchedule == [task |-> FALSE, toStop |-> {}, cache |-> NoCache, layout |-> 0]

MainPC == {"ready", "activate", "publish", "removing", "restarting",
           "idle_restart", "idle_process", "idle_dropped", "finish"}
ProcPC == {"idle", "drain", "drain_free", "read", "wake", "store", "call",
           "drop", "drop_free", "block_end"}

\* The process thread holds a processor borrowed.
Working == {"read", "wake", "store", "call", "drop"}

TypeOK ==
  /\ activeState \in PluginActiveState
  /\ processRequest \in BOOLEAN
  /\ cell \in Gens \cup {Empty}
  /\ proc \in [Gens -> ProcLife]
  /\ version \in Versions
  /\ sched \in [Versions -> Schedule]
  /\ mpc \in MainPC
  /\ mFlags \in SUBSET HostRequestFlags
  /\ mState \in PluginActiveState
  /\ inPool \in BOOLEAN
  /\ inGraph \in BOOLEAN
  /\ restarting \in BOOLEAN
  /\ removeRequested \in BOOLEAN
  /\ toDrop \in SUBSET Gens
  /\ recompile \in BOOLEAN
  /\ gen \in 0..MaxGen
  /\ layout \in 0..MaxLayout
  /\ procLayout \in [Gens -> 0..MaxLayout]
  /\ minVersion \in [Gens -> Versions]
  /\ missedCompile \in BOOLEAN
  /\ ppc \in ProcPC
  /\ running \in Versions
  /\ cur \in Gens \cup {Empty}
  /\ seen \in PluginActiveState
  /\ doProcess \in BOOLEAN
  /\ host \in [Gens -> ProcessingState]
  /\ plugin \in [Gens -> BOOLEAN]

Init ==
  /\ activeState = "Inactive"
  /\ processRequest = FALSE
  /\ cell = Empty
  /\ proc = [g \in Gens |-> "none"]
  /\ version = 0
  /\ sched = [v \in Versions |-> EmptySchedule]
  /\ mpc = "ready"
  /\ mFlags = {}
  /\ mState = "Inactive"
  /\ inPool = FALSE
  /\ inGraph = FALSE
  /\ restarting = FALSE
  /\ removeRequested = FALSE
  /\ toDrop = {}
  /\ recompile = FALSE
  /\ gen = 0
  /\ layout = 0
  /\ procLayout = [g \in Gens |-> 0]
  /\ minVersion = [g \in Gens |-> 0]
  /\ missedCompile = FALSE
  /\ ppc = "idle"
  /\ running = 0
  /\ cur = Empty
  /\ seen = "Inactive"
  /\ doProcess = FALSE
  /\ host = [g \in Gens |-> "WaitingForStart"]
  /\ plugin = [g \in Gens |-> FALSE]

----------------------------------------------------------------------------
(* Main thread: changes of the graph                                       *)

\* modify_graph adds the instance.  A plugin that its save state says is
\* active is activated at once.
AddPlugin ==
  /\ mpc = "ready"
  /\ ~inPool /\ ~removeRequested
  /\ version < MaxVersion
  /\ inPool' = TRUE
  /\ inGraph' = TRUE
  /\ recompile' = TRUE
  /\ mpc' \in {"activate", "finish"}
  /\ UNCHANGED <<sharedVars, mFlags, mState, restarting, removeRequested, toDrop,
                 gen, layout, procLayout, minVersion, missedCompile, procVars>>

\* modify_graph changes something else.
EditGraph ==
  /\ mpc = "ready"
  /\ version < MaxVersion
  /\ recompile' = TRUE
  /\ mpc' = "finish"
  /\ UNCHANGED <<sharedVars, mFlags, mState, inPool, inGraph, restarting,
                 removeRequested, toDrop, gen, layout, procLayout, minVersion,
                 missedCompile, procVars>>

\* The first half of schedule_deactivate: the processor leaves the cell.  The
\* second half, StoreWaitingToDrop, follows when the main thread is at `then`.
TakeProcessor(then) ==
  /\ toDrop' = toDrop \cup ({cell} \ {Empty})
  /\ cell' = Empty
  /\ mpc' = then

\* The fault: the host's processor stays where the process thread finds it.
RemovePlugin_Fault ==
  /\ mpc = "ready"
  /\ inPool /\ inGraph
  /\ version < MaxVersion
  /\ removeRequested' = TRUE
  /\ inGraph' = FALSE
  /\ recompile' = TRUE
  /\ mpc' = IF activeState = "Active" THEN "removing" ELSE "finish"
  /\ UNCHANGED <<sharedVars, mFlags, mState, inPool, restarting, toDrop, gen,
                 layout, procLayout, minVersion, missedCompile, procVars>>

\* modify_graph removes the instance.  A second request for an instance that
\* is still in the pool finds no node in the graph and is left out.
RemovePlugin ==
  /\ mpc = "ready"
  /\ inPool /\ inGraph
  /\ version < MaxVersion
  /\ removeRequested' = TRUE
  /\ inGraph' = FALSE
  /\ recompile' = TRUE
  /\ IF activeState = "Active"
     THEN TakeProcessor("removing")
     ELSE /\ mpc' = "finish"
          /\ UNCHANGED <<toDrop, cell>>
  /\ UNCHANGED <<activeState, processRequest, proc, version, sched,
                 mFlags, mState, inPool, restarting, gen, layout,
                 procLayout, minVersion, missedCompile, procVars>>

StoreWaitingToDrop ==
  /\ mpc \in {"removing", "restarting"}
  /\ activeState' = "WaitingToDrop"
  /\ mpc' = IF mpc = "removing" THEN "finish" ELSE "idle_process"
  /\ UNCHANGED <<processRequest, cell, proc, version, sched, mFlags,
                 mState, inPool, inGraph, restarting, removeRequested, toDrop,
                 recompile, gen, layout, procLayout, minVersion, missedCompile, procVars>>

\* A schedule that the process thread does not hold is released when the next
\* one replaces it, or when the process thread returns it.
Forget(v) ==
  [sched EXCEPT ![v] = IF ppc # "idle" /\ running = v THEN @ ELSE EmptySchedule]

Compiled ==
  [task |-> inGraph, toStop |-> toDrop, cache |-> NoCache, layout |-> layout]

\* The call returns.  AudioGraph::compile hands the new schedule the processors
\* collected for dropping.
Finish ==
  /\ mpc = "finish"
  /\ mpc' = "ready"
  /\ recompile' = FALSE
  /\ mFlags' = {}
  /\ mState' = "Inactive"
  /\ IF recompile
     THEN /\ version' = version + 1
          /\ sched' = [Forget(version) EXCEPT ![version + 1] = Compiled]
          /\ toDrop' = {}
     ELSE UNCHANGED <<version, sched, toDrop>>
  /\ UNCHANGED <<activeState, processRequest, cell, proc, inPool,
                 inGraph, restarting, removeRequested, gen, layout,
                 procLayout, minVersion, missedCompile, procVars>>

----------------------------------------------------------------------------
(* Main thread: PluginHostMainThread::activate                             *)

Layouts == {layout} \cup {l \in 0..MaxLayout : l = layout + 1}

\* The faults: waiting for the schedule there is, and for one too many.
FirstVersion_Fault(changed) == version

FirstVersion_OffByOne_Fault(changed) == IF changed THEN version + 2 ELSE version

\* The new processor waits for the schedule compiled after it when its ports
\* or its latency changed.
FirstVersion(changed) == IF changed THEN version + 1 ELSE version

\* The fault: the active state is not stored.
ActivateSucceeds_Fault ==
  /\ mpc = "activate"
  /\ gen < MaxGen
  /\ \E l \in Layouts :
       /\ l # layout => version < MaxVersion
       /\ layout' = l
       /\ recompile' = (recompile \/ l # layout)
       /\ procLayout' = [procLayout EXCEPT ![gen + 1] = l]
       /\ minVersion' = [minVersion EXCEPT ![gen + 1] = FirstVersion(l # layout)]
  /\ mpc' = "publish"
  /\ UNCHANGED <<sharedVars, mFlags, mState, inPool, inGraph, restarting,
                 removeRequested, toDrop, gen, missedCompile, procVars>>

ActivateSucceeds ==
  /\ mpc = "activate"
  /\ gen < MaxGen
  /\ \E l \in Layouts :
       /\ l # layout => version < MaxVersion
       /\ layout' = l
       /\ recompile' = (recompile \/ l # layout)
       /\ procLayout' = [procLayout EXCEPT ![gen + 1] = l]
       /\ minVersion' = [minVersion EXCEPT ![gen + 1] = FirstVersion(l # layout)]
  /\ activeState' = "Active"
  /\ mpc' = "publish"
  /\ UNCHANGED <<processRequest, cell, proc, version, sched, mFlags,
                 mState, inPool, inGraph, restarting, removeRequested, toDrop,
                 gen, missedCompile, procVars>>

\* new_processor puts the processor where the process thread polls for it.
Publish ==
  /\ mpc = "publish"
  /\ gen' = gen + 1
  /\ proc' = [proc EXCEPT ![gen + 1] = "live"]
  /\ cell' = gen + 1
  /\ mpc' = "finish"
  /\ UNCHANGED <<activeState, processRequest, version, sched, mFlags,
                 mState, inPool, inGraph, restarting, removeRequested, toDrop,
                 recompile, layout, procLayout, minVersion, missedCompile, procVars>>

\* A failure after sync_ports_in_graph leaves the graph with the new ports and
\* asks for no compilation.  Adding a plugin whose activation fails is outside
\* this module.
ActivateFails ==
  /\ mpc = "activate"
  /\ ~recompile
  /\ layout' \in Layouts
  /\ missedCompile' = (missedCompile \/ layout' # layout)
  /\ activeState' = "InactiveWithError"
  /\ mpc' = "finish"
  /\ UNCHANGED <<processRequest, cell, proc, version, sched, mFlags,
                 mState, inPool, inGraph, restarting, removeRequested, toDrop,
                 recompile, gen, procLayout, minVersion, procVars>>

----------------------------------------------------------------------------
(* Main thread: PluginHostMainThread::on_idle                              *)

mainRest == <<inPool, inGraph, removeRequested, recompile, gen, layout,
              procLayout, minVersion, missedCompile>>

\* The plugin sets request flags from any of its threads at any time, so
\* fetch_requests() may find any of them.
FetchRequests ==
  /\ mpc = "ready"
  /\ inPool
  /\ mFlags' \in SUBSET HostRequestFlags
  /\ mState' = activeState
  /\ mpc' = "idle_restart"
  /\ UNCHANGED <<activeState, processRequest, cell, proc, version, sched,
                 restarting, toDrop, mainRest, procVars>>

NoRestart ==
  /\ mpc = "idle_restart"
  /\ "RESTART" \notin mFlags
  /\ mpc' = "idle_process"
  /\ UNCHANGED <<sharedVars, mFlags, mState, restarting, toDrop, mainRest, procVars>>

\* schedule_deactivate reads the active state a second time, and on_idle goes
\* on with WaitingToDrop whatever it found.
Restart ==
  /\ mpc = "idle_restart"
  /\ "RESTART" \in mFlags
  /\ restarting' = TRUE
  /\ mState' = IF mState = "Active" THEN "WaitingToDrop" ELSE mState
  /\ IF mState = "Active" /\ activeState = "Active"
     THEN TakeProcessor("restarting")
     ELSE /\ mpc' = "idle_process"
          /\ UNCHANGED <<toDrop, cell>>
  /\ UNCHANGED <<activeState, processRequest, proc, version, sched,
                 mFlags, mainRest, procVars>>

HeedProcess == "PROCESS" \in mFlags /\ ~removeRequested /\ ~restarting

\* The fault: deactivating a plugin whose processor still waits to be dropped.
HandleProcess_Fault ==
  /\ mpc = "idle_process"
  /\ processRequest' = (processRequest \/ (HeedProcess /\ mState = "Active"))
  /\ mpc' = IF HeedProcess /\ mState \in NotActive
            THEN "activate"
            ELSE IF mState \in {"Dropped", "WaitingToDrop"} THEN "idle_dropped"
                 ELSE "finish"
  /\ UNCHANGED <<activeState, cell, proc, version, sched, mFlags,
                 mState, restarting, toDrop, mainRest, procVars>>

\* A processor that is there is told to process; without one the plugin is
\* activated and on_idle returns.
HandleProcess ==
  /\ mpc = "idle_process"
  /\ processRequest' = (processRequest \/ (HeedProcess /\ mState = "Active"))
  /\ mpc' = IF HeedProcess /\ mState \in NotActive
            THEN "activate"
            ELSE IF mState = "Dropped" THEN "idle_dropped" ELSE "finish"
  /\ UNCHANGED <<activeState, cell, proc, version, sched, mFlags,
                 mState, restarting, toDrop, mainRest, procVars>>

\* The process thread reported the processor dropped: deactivate() runs.
Deactivate ==
  /\ mpc = "idle_dropped"
  /\ activeState' = "Inactive"
  /\ inPool' = ~removeRequested
  /\ mpc' = IF ~removeRequested /\ (restarting \/ "PROCESS" \in mFlags)
            THEN "activate" ELSE "finish"
  /\ UNCHANGED <<processRequest, cell, proc, version, sched, mFlags,
                 mState, inGraph, restarting, removeRequested, toDrop, recompile,
                 gen, layout, procLayout, minVersion, missedCompile, procVars>>

----------------------------------------------------------------------------
(* Main thread: the garbage collector.  It frees what no Shared pointer    *)
(* reaches; a processor freed this way runs Drop on the main thread.       *)

Reachable(v) == v = version \/ (ppc # "idle" /\ v = running)

\* The fault: a processor is held only by the pointers the main thread knows of.
Referenced_Fault(g) ==
  \/ cell = g
  \/ g \in toDrop
  \/ \E v \in Versions : Reachable(v) /\ (g \in sched[v].toStop \/ sched[v].cache = g)

Referenced(g) ==
  \/ cell = g
  \/ g \in toDrop
  \/ \E v \in Versions : Reachable(v) /\ (g \in sched[v].toStop \/ sched[v].cache = g)
  \/ ppc \in Working /\ cur = g

Free(g) ==
  /\ proc' = [proc EXCEPT ![g] = "gone"]
  /\ host' = [host EXCEPT ![g] = "WaitingForStart"]
  /\ plugin' = [plugin EXCEPT ![g] = FALSE]

CollectGarbage ==
  /\ mpc = "ready"
  /\ \E g \in Gens :
       /\ proc[g] = "live"
       /\ ~Referenced(g)
       /\ Free(g)
  /\ activeState' = "Dropped"
  /\ UNCHANGED <<processRequest, cell, version, sched, mainVars, ppc,
                 running, cur, seen, doProcess>>

----------------------------------------------------------------------------
(* Process thread: ProcessorSchedule::process_interleaved                  *)

BeginCycle ==
  /\ ppc = "idle"
  /\ running' = version
  /\ ppc' = "drain"
  /\ UNCHANGED <<sharedVars, mainVars, cur, seen, doProcess, host, plugin>>

\* The fault: Drop::drop tells the main thread nothing.
RunDrop_Fault(g) ==
  /\ plugin' = [plugin EXCEPT ![g] = IF host[g] = "Started" THEN FALSE ELSE @]
  /\ proc' = [proc EXCEPT ![g] = "dropping"]
  /\ cur' = g
  /\ UNCHANGED activeState

\* Drop::drop of PluginHostProcessor on the process thread.
RunDrop(g) ==
  /\ plugin' = [plugin EXCEPT ![g] = IF host[g] = "Started" THEN FALSE ELSE @]
  /\ activeState' = "Dropped"
  /\ proc' = [proc EXCEPT ![g] = "dropping"]
  /\ cur' = g

ToStop == sched[running].toStop

DrainStop ==
  /\ ppc = "drain"
  /\ \E g \in ToStop :
       IF proc[g] = "live"
       THEN /\ RunDrop(g)
            /\ ppc' = "drain_free"
            /\ UNCHANGED sched
       ELSE /\ sched' = [sched EXCEPT ![running].toStop = @ \ {g}]
            /\ UNCHANGED <<plugin, activeState, proc, cur, ppc>>
  /\ UNCHANGED <<processRequest, cell, version, mainVars, running, seen,
                 doProcess, host>>

\* The fields of the processor are freed after Drop::drop returned.
FreeProcessor ==
  /\ ppc \in {"drain_free", "drop_free"}
  /\ Free(cur)
  /\ cur' = Empty
  /\ ppc' = IF ppc = "drain_free" THEN "drain" ELSE "block_end"
  /\ UNCHANGED <<activeState, processRequest, cell, version, sched,
                 mainVars, running, seen, doProcess>>

----------------------------------------------------------------------------
(* Process thread: PluginTask::process and PluginHostProcessor::process    *)

Live == {g \in Gens : proc[g] = "live"}

\* The wrapper the task works with: the one it kept, or the one in the cell.
Polled == IF sched[running].cache = NoCache THEN cell ELSE sched[running].cache

PollProcessor ==
  /\ ppc = "drain" /\ ToStop = {} /\ sched[running].task
  /\ Polled \in Live
  /\ cur' = Polled
  /\ sched' = [sched EXCEPT ![running].cache = NoCache]
  /\ ppc' = "read"
  /\ UNCHANGED <<activeState, processRequest, cell, proc, version,
                 mainVars, running, seen, doProcess, host, plugin>>

\* A wrapper without a processor means that the plugin is deactivated.  The
\* task keeps it all the same.
PollNothing ==
  /\ ppc = "drain" /\ ToStop = {} /\ sched[running].task
  /\ Polled \notin Live
  /\ sched' = [sched EXCEPT ![running].cache = Polled]
  /\ ppc' = "block_end"
  /\ UNCHANGED <<activeState, processRequest, cell, proc, version,
                 mainVars, running, cur, seen, doProcess, host, plugin>>

NoTask ==
  /\ ppc = "drain" /\ ToStop = {} /\ ~sched[running].task
  /\ ppc' = "block_end"
  /\ UNCHANGED <<sharedVars, mainVars, running, cur, seen, doProcess, host, plugin>>

ScheduleIsNew(g) == minVersion[g] <= running

\* The fault: the drop is reported when it is asked for.
ReadActiveState_Fault ==
  /\ ppc = "read"
  /\ seen' = activeState
  /\ activeState' = IF activeState = "WaitingToDrop" THEN "Dropped" ELSE activeState
  /\ doProcess' = (activeState # "WaitingToDrop" /\ ScheduleIsNew(cur))
  /\ ppc' = "wake"
  /\ UNCHANGED <<processRequest, cell, proc, version, sched, mainVars,
                 running, cur, host, plugin>>

ReadActiveState ==
  /\ ppc = "read"
  /\ seen' = activeState
  /\ doProcess' = (activeState # "WaitingToDrop" /\ ScheduleIsNew(cur))
  /\ plugin' = [plugin EXCEPT ![cur] =
                  IF activeState = "WaitingToDrop" /\ host[cur] = "Started"
                  THEN FALSE ELSE @]
  /\ IF doProcess' /\ processRequest
     THEN /\ processRequest' = FALSE
          /\ host' = [host EXCEPT ![cur] =
                        IF @ = "Started" THEN @ ELSE "WaitingForStart"]
     ELSE UNCHANGED <<processRequest, host>>
  /\ ppc' = "wake"
  /\ UNCHANGED <<activeState, cell, proc, version, sched, mainVars,
                 running, cur>>

wakeRest == <<sharedVars, mainVars, running, cur, seen>>

\* The last status was ContinueIfNotQuiet, the inputs are quiet and hold no note.
FallAsleep ==
  /\ ppc = "wake" /\ host[cur] = "Started"
  /\ host' = [host EXCEPT ![cur] = "Stopped"]
  /\ plugin' = [plugin EXCEPT ![cur] = FALSE]
  /\ doProcess' = FALSE
  /\ ppc' = "call"
  /\ UNCHANGED wakeRest

StayAwake ==
  /\ ppc = "wake" /\ host[cur] \in {"Started", "Errored"}
  /\ doProcess' = (doProcess /\ host[cur] # "Errored")
  /\ ppc' = "call"
  /\ UNCHANGED <<wakeRest, host, plugin>>

\* No note came in.
StayAsleep ==
  /\ ppc = "wake" /\ host[cur] = "Stopped"
  /\ doProcess' = FALSE
  /\ ppc' = "call"
  /\ UNCHANGED <<wakeRest, host, plugin>>

StartFails ==
  /\ ppc = "wake" /\ host[cur] \in {"Stopped", "WaitingForStart"}
  /\ host' = [host EXCEPT ![cur] = "Errored"]
  /\ doProcess' = FALSE
  /\ ppc' = "call"
  /\ UNCHANGED <<wakeRest, plugin>>

\* processing_state stays what it is until process() returns a status.
StartSucceeds ==
  /\ ppc = "wake" /\ host[cur] \in {"Stopped", "WaitingForStart"}
  /\ plugin' = [plugin EXCEPT ![cur] = TRUE]
  /\ ppc' = "store"
  /\ UNCHANGED <<wakeRest, host, doProcess>>

StoreActive ==
  /\ ppc = "store"
  /\ activeState' = "Active"
  /\ ppc' = "call"
  /\ UNCHANGED <<processRequest, cell, proc, version, sched, mainVars,
                 running, cur, seen, doProcess, host, plugin>>

\* The task keeps the wrapper unless the processor is to be dropped.
LeaveProcess ==
  /\ doProcess' = FALSE
  /\ seen' = "Inactive"
  /\ IF seen = "WaitingToDrop"
     THEN /\ ppc' = "drop"
          /\ UNCHANGED <<sched, cur>>
     ELSE /\ ppc' = "block_end"
          /\ sched' = [sched EXCEPT ![running].cache = cur]
          /\ cur' = Empty

callRest == <<activeState, processRequest, cell, proc, version,
              mainVars, running>>

\* The plugin's process() returns a status.
CallProcess ==
  /\ ppc = "call" /\ doProcess
  /\ \/ /\ host' = [host EXCEPT ![cur] = "Stopped"]
        /\ plugin' = [plugin EXCEPT ![cur] = FALSE]
     \/ /\ host' \in {[host EXCEPT ![cur] = s] : s \in {"Errored", "Started"}}
        /\ UNCHANGED plugin
  /\ LeaveProcess
  /\ UNCHANGED callRest

SkipProcess ==
  /\ ppc = "call" /\ ~doProcess
  /\ LeaveProcess
  /\ UNCHANGED <<callRest, host, plugin>>

DropProcessor ==
  /\ ppc = "drop"
  /\ RunDrop(cur)
  /\ ppc' = "drop_free"
  /\ UNCHANGED <<processRequest, cell, version, sched, mainVars, running,
                 seen, doProcess, host>>

\* A cycle processes the buffer in blocks of at most max_block_size frames.
NextBlock ==
  /\ ppc = "block_end"
  /\ ppc' = "drain"
  /\ UNCHANGED <<sharedVars, mainVars, running, cur, seen, doProcess, host, plugin>>

EndCycle ==
  /\ ppc = "block_end"
  /\ ppc' = "idle"
  /\ running' = 0
  /\ sched' = IF running = version THEN sched
              ELSE [sched EXCEPT ![running] = EmptySchedule]
  /\ UNCHANGED <<activeState, processRequest, cell, proc, version,
                 mainVars, cur, seen, doProcess, host, plugin>>

----------------------------------------------------------------------------

Main ==
  \/ AddPlugin \/ EditGraph \/ RemovePlugin \/ StoreWaitingToDrop \/ Finish
  \/ ActivateSucceeds \/ Publish \/ ActivateFails
  \/ FetchRequests \/ NoRestart \/ Restart \/ HandleProcess \/ Deactivate
  \/ CollectGarbage

WorkOnProcessor ==
  \/ ReadActiveState \/ FallAsleep \/ StayAwake \/ StayAsleep \/ StartFails
  \/ StartSucceeds \/ StoreActive \/ CallProcess \/ SkipProcess \/ DropProcessor

Process ==
  \/ BeginCycle \/ DrainStop \/ FreeProcessor
  \/ PollProcessor \/ PollNothing \/ NoTask
  \/ WorkOnProcessor \/ NextBlock \/ EndCycle

Next ==
  \/ Main
  \/ Process

Spec == Init /\ [][Next]_vars

\* The process thread runs for as long as the engine is activated, and a cycle
\* has a finite number of blocks.  A call on the main thread returns.  The main
\* idle timer and the garbage collection timer keep elapsing.
Call ==
  \/ StoreWaitingToDrop \/ Finish \/ ActivateSucceeds \/ Publish \/ ActivateFails
  \/ NoRestart \/ Restart \/ HandleProcess \/ Deactivate

Fairness ==
  /\ WF_vars(Process) /\ SF_vars(EndCycle)
  /\ WF_vars(Call)
  /\ SF_vars(FetchRequests)
  /\ SF_vars(CollectGarbage)

FairSpec == Spec /\ Fairness

----------------------------------------------------------------------------
(* Properties *)

\* There is at most one processor the process thread can call, it is the one of
\* the latest activation, and while it is there the active state says so: the
\* main thread never takes the plugin for inactive or for dropped.
ProcessorAgreesWithState ==
  \A g \in Live : g = gen /\ activeState \in {"Active", "WaitingToDrop"}

\* The processor PluginTask::process has borrowed is there until the task itself
\* drops it, whatever the main thread publishes, replaces or collects meanwhile.
BorrowedProcessorIsLive ==
  /\ ppc \in Working => cur \in Live
  /\ ppc \in {"drain_free", "drop_free"} => cur \in Gens /\ proc[cur] = "dropping"

\* on_idle calls the plugin's deactivate() on the active state it read at its
\* start; by then no processor is left for the process thread to call.
DeactivateAfterDrop == mpc = "idle_dropped" => Live = {}

\* The plugin's process() runs only on a schedule compiled for the ports and the
\* latency the plugin was activated with (the wait for schedule_version).
ProcessesOnItsLayout ==
  ppc = "call" /\ doProcess /\ ~missedCompile
    => sched[running].layout = procLayout[cur]

\* Once the removal of the plugin is requested its processor is released.
RemovedProcessorReleased == removeRequested ~> Live = {}

\* Removing a plugin that has a processor ends with the plugin host out of the
\* pool, unless the plugin asks for a restart before or meanwhile.
RemovalCompletes == (removeRequested /\ Live # {}) ~> (~inPool \/ restarting)

\* What the main thread may conclude from an active state it read a while ago: no
\* processor is left unless it read Active or WaitingToDrop, none is left when it
\* activates, and a plugin that is in no pool and was not removed never had one.
MainThreadConclusions ==
  /\ mpc \in {"idle_restart", "restarting", "idle_process", "idle_dropped"}
     /\ mState \in NotActive \cup {"Dropped"} => Live = {}
  /\ mpc = "idle_dropped" => mState = "Dropped"
  /\ mpc \in {"activate", "publish"} => Live = {}
  /\ mpc = "publish" => activeState = "Active" /\ gen < MaxGen
  /\ mpc \notin {"ready", "finish", "removing"} => inPool
  /\ ~inPool /\ ~removeRequested => gen = 0
  /\ recompile => version < MaxVersion
  /\ \A g \in Gens : g > gen => proc[g] = "none"

\* The inductive invariant.
Inv ==
  /\ TypeOK
  /\ ProcessorAgreesWithState
  /\ BorrowedProcessorIsLive
  /\ MainThreadConclusions

----------------------------------------------------------------------------
(* Statements of the documentation that the code does not meet *)

\* plugin-api/src/main_thread.rs: when deactivate() is called "the
\* PluginProcessor counterpart will already have been dropped".
DeactivateAfterFree ==
  [][mpc = "idle_dropped" /\ mpc' # mpc
       => \A g \in Gens : proc[g] \in {"none", "gone"}]_vars

\* plugin-api/src/processor.rs: start_processing is called only when the plugin
\* is not in its processing state.
StartsOnlyWhenStopped ==
  [][ppc = "wake" /\ ppc' = "store" => ~plugin[cur]]_vars

\* processor_schedule.rs: the processor of a plugin that is removed is dropped in
\* the process thread, never by the collector.
DroppedInProcessThread ==
  [][\A g \in Gens : ~(proc[g] = "live" /\ proc'[g] = "gone")]_vars

\* tasks/plugin_task.rs: "Poll for a new processor if there is none": a processor
\* in the cell is taken up by the process thread, or leaves the cell.
NewProcessorPolled ==
  \A g \in Gens : (cell = g) ~> (cell # g \/ (ppc = "read" /\ cur = g))
============================================================================
