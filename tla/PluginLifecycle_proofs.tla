----------------------- MODULE PluginLifecycle_proofs -----------------------
(***************************************************************************)
(* Proofs about PluginLifecycle.  The inductive invariant is Inv: neither  *)
(* that the borrowed processor is live nor that the active state speaks    *)
(* for the processor can be kept by a step without the conclusions the     *)
(* main thread draws from the state it read earlier in its call.  That a   *)
(* plugin runs on a schedule compiled for it takes LayoutInv as well.      *)
(***************************************************************************)
EXTENDS PluginLifecycle, TLAPS

----------------------------------------------------------------------------
(* Schedules *)

\* Replacing the wrapper a task keeps leaves a schedule.
LEMMA CacheKeepsSchedule ==
  ASSUME NEW s \in Schedule, NEW c \in Gens \cup {Empty, NoCache}
  PROVE  [s EXCEPT !.cache = c] \in Schedule
BY DEF Schedule

\* Dropping a processor that was to be stopped leaves a schedule.
LEMMA ToStopKeepsSchedule ==
  ASSUME NEW s \in Schedule, NEW T \in SUBSET Gens
  PROVE  [s EXCEPT !.toStop = T] \in Schedule
BY DEF Schedule

\* The schedule of a released version is a schedule.
LEMMA EmptyScheduleType == EmptySchedule \in Schedule
BY BoundsAssumption DEF EmptySchedule, Schedule, NoCache

\* Every version holds a schedule after one of them was replaced by another.
LEMMA ReplaceSchedule ==
  ASSUME TypeOK, NEW v \in Versions, NEW s \in Schedule
  PROVE  [sched EXCEPT ![v] = s] \in [Versions -> Schedule]
BY DEF TypeOK

\* What Drop::drop assigns has its type.
LEMMA DropTypes ==
  ASSUME Inv, NEW g \in Gens, RunDrop(g)
  PROVE  /\ plugin' \in [Gens -> BOOLEAN] /\ activeState' \in PluginActiveState
         /\ proc' \in [Gens -> ProcLife] /\ cur' \in Gens
BY DEF Inv, TypeOK, RunDrop, PluginActiveState, ProcLife

----------------------------------------------------------------------------
(* The inductive invariant *)

\* A plugin starts without a processor, inactive.
LEMMA InitInv == Init => Inv
<1> SUFFICES ASSUME Init PROVE Inv
  OBVIOUS
<1> USE BoundsAssumption DEF Init
<1>1. /\ 0 \in Versions /\ 0 \in 0..MaxGen /\ 0 \in 0..MaxLayout
      /\ proc \in [Gens -> ProcLife] /\ host \in [Gens -> ProcessingState]
      /\ activeState \in PluginActiveState /\ mpc \in MainPC /\ ppc \in ProcPC
  BY DEF Versions, ProcLife, ProcessingState, PluginActiveState, MainPC, ProcPC
<1>2. TypeOK
  BY <1>1, EmptyScheduleType DEF TypeOK, Empty
<1>3. Live = {}
  BY DEF Live
<1>4. QED
  BY <1>2, <1>3
     DEF Inv, ProcessorAgreesWithState, BorrowedProcessorIsLive, MainThreadConclusions,
         Working

\* Every step keeps the types.
LEMMA TypeStep ==
  ASSUME Inv, [Next]_vars
  PROVE  TypeOK'
<1> USE BoundsAssumption DEF Inv, TypeOK, sharedVars, mainVars, procVars
<1>1. CASE AddPlugin
  BY <1>1 DEF AddPlugin, MainPC
<1>2. CASE EditGraph
  BY <1>2 DEF EditGraph, MainPC
<1>3. CASE RemovePlugin
  BY <1>3 DEF RemovePlugin, MainPC, TakeProcessor, Empty
<1>4. CASE StoreWaitingToDrop
  BY <1>4 DEF StoreWaitingToDrop, MainPC, PluginActiveState
<1>5. CASE Finish
  <2>1. version \in Versions /\ (recompile => version + 1 \in Versions)
    BY BoundsAssumption DEF Inv, TypeOK, MainThreadConclusions, Versions
  <2>2. Forget(version) \in [Versions -> Schedule]
    BY <2>1, EmptyScheduleType DEF Inv, TypeOK, Forget
  <2>3. Compiled \in Schedule
    BY DEF Inv, TypeOK, Compiled, Schedule
  <2>4. sched' \in [Versions -> Schedule] /\ version' \in Versions
        /\ toDrop' \in SUBSET Gens
    BY <1>5, <2>1, <2>2, <2>3 DEF Finish, Inv, TypeOK
  <2>5. mpc' \in MainPC /\ mFlags' \in SUBSET HostRequestFlags
        /\ mState' \in PluginActiveState /\ recompile' \in BOOLEAN
    BY <1>5 DEF Finish, MainPC, PluginActiveState
  <2>6. QED
    BY <1>5, <2>4, <2>5 DEF Finish, Inv, TypeOK, procVars
<1>6. CASE ActivateSucceeds
  <2>1. PICK l \in Layouts :
          /\ l # layout => version < MaxVersion
          /\ layout' = l
          /\ recompile' = (recompile \/ l # layout)
          /\ procLayout' = [procLayout EXCEPT ![gen + 1] = l]
          /\ minVersion' = [minVersion EXCEPT ![gen + 1] = FirstVersion(l # layout)]
    BY <1>6 DEF ActivateSucceeds
  <2>2. l \in 0..MaxLayout /\ FirstVersion(l # layout) \in Versions
    BY <2>1 DEF Layouts, FirstVersion, Versions, Inv, TypeOK
  <2>3. /\ layout' \in 0..MaxLayout /\ recompile' \in BOOLEAN
        /\ procLayout' \in [Gens -> 0..MaxLayout] /\ minVersion' \in [Gens -> Versions]
    BY <2>1, <2>2 DEF Inv, TypeOK
  <2>4. QED
    BY <1>6, <2>3 DEF ActivateSucceeds, Inv, TypeOK, MainPC, PluginActiveState, procVars
<1>7. CASE Publish
  BY <1>7 DEF Publish, MainPC, ProcLife, Gens, MainThreadConclusions
<1>8. CASE ActivateFails
  BY <1>8 DEF ActivateFails, MainPC, PluginActiveState, Layouts
<1>9. CASE FetchRequests
  BY <1>9 DEF FetchRequests, MainPC, mainRest
<1>10. CASE NoRestart
  BY <1>10 DEF NoRestart, MainPC, mainRest
<1>11. CASE Restart
  BY <1>11 DEF Restart, MainPC, mainRest, TakeProcessor, Empty, PluginActiveState
<1>12. CASE HandleProcess
  BY <1>12 DEF HandleProcess, MainPC, mainRest, HeedProcess
<1>13. CASE Deactivate
  BY <1>13 DEF Deactivate, MainPC, PluginActiveState
<1>14. CASE CollectGarbage
  BY <1>14 DEF CollectGarbage, PluginActiveState, ProcLife, ProcessingState, Free
<1>15. CASE BeginCycle
  BY <1>15 DEF BeginCycle, ProcPC
<1>16. CASE DrainStop
  <2>1. PICK g \in ToStop :
          IF proc[g] = "live"
          THEN RunDrop(g) /\ ppc' = "drain_free" /\ UNCHANGED sched
          ELSE /\ sched' = [sched EXCEPT ![running].toStop = @ \ {g}]
               /\ UNCHANGED <<plugin, activeState, proc, cur, ppc>>
    BY <1>16 DEF DrainStop
  <2>2. running \in Versions /\ sched[running] \in Schedule /\ ToStop \in SUBSET Gens
    BY DEF Inv, TypeOK, ToStop, Schedule
  <2>3. CASE proc[g] = "live"
    <3>1. /\ plugin' \in [Gens -> BOOLEAN] /\ activeState' \in PluginActiveState
          /\ proc' \in [Gens -> ProcLife] /\ cur' \in Gens /\ ppc' \in ProcPC
          /\ sched' = sched
      BY <2>1, <2>2, <2>3, DropTypes DEF ProcPC
    <3>2. QED
      BY <1>16, <3>1 DEF DrainStop, Inv, TypeOK, mainVars
  <2>4. CASE proc[g] # "live"
    <3>1. sched' = [sched EXCEPT ![running] =
                      [sched[running] EXCEPT !.toStop = ToStop \ {g}]]
      BY <2>1, <2>2, <2>4 DEF Inv, TypeOK, ToStop
    <3>2. [sched[running] EXCEPT !.toStop = ToStop \ {g}] \in Schedule
      BY <2>2, ToStopKeepsSchedule
    <3>3. sched' \in [Versions -> Schedule]
      BY <2>2, <3>1, <3>2, ReplaceSchedule DEF Inv
    <3>4. QED
      BY <1>16, <2>1, <2>4, <3>3 DEF DrainStop, Inv, TypeOK, mainVars
  <2>5. QED
    BY <2>3, <2>4
<1>17. CASE FreeProcessor
  <2>1. cur \in Gens
    BY <1>17 DEF FreeProcessor, Inv, BorrowedProcessorIsLive
  <2>2. proc' \in [Gens -> ProcLife] /\ host' \in [Gens -> ProcessingState]
        /\ plugin' \in [Gens -> BOOLEAN]
    BY <1>17, <2>1 DEF FreeProcessor, Free, Inv, TypeOK, ProcLife, ProcessingState
  <2>3. QED
    BY <1>17, <2>2 DEF FreeProcessor, Inv, TypeOK, ProcPC, Empty, mainVars
<1>18. CASE PollProcessor
  <2>1. Polled \in Gens /\ NoCache \in Gens \cup {Empty, NoCache} /\ running \in Versions
    BY <1>18 DEF PollProcessor, Live, Inv, TypeOK
  <2>2. [sched EXCEPT ![running].cache = NoCache] \in [Versions -> Schedule]
    BY <2>1, CacheKeepsSchedule, ReplaceSchedule DEF Inv, TypeOK
  <2>3. QED
    BY <1>18, <2>1, <2>2 DEF PollProcessor, Inv, TypeOK, ProcPC, mainVars
<1>19. CASE PollNothing
  <2>1. Polled \in Gens \cup {Empty, NoCache} /\ running \in Versions
    BY <1>19 DEF PollNothing, Inv, TypeOK, Polled, Schedule
  <2>2. [sched EXCEPT ![running].cache = Polled] \in [Versions -> Schedule]
    BY <2>1, CacheKeepsSchedule, ReplaceSchedule DEF Inv, TypeOK
  <2>3. QED
    BY <1>19, <2>1, <2>2 DEF PollNothing, Inv, TypeOK, ProcPC, mainVars
<1>20. CASE NoTask
  BY <1>20 DEF NoTask, ProcPC
<1>21. CASE ReadActiveState
  BY <1>21
     DEF ReadActiveState, ProcPC, Working, ProcessingState, Live,
         BorrowedProcessorIsLive
<1>22. CASE FallAsleep
  BY <1>22 DEF FallAsleep, ProcPC, ProcessingState, wakeRest
<1>23. CASE StayAwake
  BY <1>23 DEF StayAwake, ProcPC, wakeRest
<1>24. CASE StayAsleep
  BY <1>24 DEF StayAsleep, ProcPC, wakeRest
<1>25. CASE StartFails
  BY <1>25 DEF StartFails, ProcPC, ProcessingState, wakeRest
<1>26. CASE StartSucceeds
  BY <1>26 DEF StartSucceeds, ProcPC, wakeRest
<1>27. CASE StoreActive
  BY <1>27 DEF StoreActive, ProcPC, PluginActiveState
<1>28. CASE CallProcess
  <2>1. cur \in Gens \cup {Empty, NoCache} /\ running \in Versions
    BY <1>28 DEF CallProcess, Inv, TypeOK, Working
  <2>2. [sched EXCEPT ![running].cache = cur] \in [Versions -> Schedule]
    BY <2>1, CacheKeepsSchedule, ReplaceSchedule DEF Inv, TypeOK
  <2>3. ppc' \in ProcPC /\ seen' \in PluginActiveState /\ doProcess' \in BOOLEAN
        /\ sched' \in [Versions -> Schedule] /\ cur' \in Gens \cup {Empty}
    BY <1>28, <2>2 DEF CallProcess, LeaveProcess, Inv, TypeOK, ProcPC, PluginActiveState
  <2>4. host' \in [Gens -> ProcessingState] /\ plugin' \in [Gens -> BOOLEAN]
    BY <1>28 DEF CallProcess, Inv, TypeOK, ProcessingState
  <2>5. QED
    BY <1>28, <2>3, <2>4 DEF CallProcess, callRest, Inv, TypeOK, mainVars
<1>29. CASE SkipProcess
  <2>1. cur \in Gens \cup {Empty, NoCache} /\ running \in Versions
    BY <1>29 DEF SkipProcess, Inv, TypeOK, Working
  <2>2. [sched EXCEPT ![running].cache = cur] \in [Versions -> Schedule]
    BY <2>1, CacheKeepsSchedule, ReplaceSchedule DEF Inv, TypeOK
  <2>3. ppc' \in ProcPC /\ seen' \in PluginActiveState /\ doProcess' \in BOOLEAN
        /\ sched' \in [Versions -> Schedule] /\ cur' \in Gens \cup {Empty}
    BY <1>29, <2>2 DEF SkipProcess, LeaveProcess, Inv, TypeOK, ProcPC, PluginActiveState
  <2>4. host' \in [Gens -> ProcessingState] /\ plugin' \in [Gens -> BOOLEAN]
    BY <1>29 DEF SkipProcess, Inv, TypeOK, ProcessingState
  <2>5. QED
    BY <1>29, <2>3, <2>4 DEF SkipProcess, callRest, Inv, TypeOK, mainVars
<1>30. CASE DropProcessor
  <2>1. cur \in Gens
    BY <1>30 DEF DropProcessor, Inv, BorrowedProcessorIsLive, Working, Live
  <2>2. /\ plugin' \in [Gens -> BOOLEAN] /\ activeState' \in PluginActiveState
        /\ proc' \in [Gens -> ProcLife] /\ cur' \in Gens /\ ppc' \in ProcPC
    BY <1>30, <2>1, DropTypes DEF DropProcessor, ProcPC
  <2>3. QED
    BY <1>30, <2>2 DEF DropProcessor, Inv, TypeOK, mainVars
<1>31. CASE NextBlock
  BY <1>31 DEF NextBlock, ProcPC
<1>32. CASE EndCycle
  <2>1. sched' \in [Versions -> Schedule]
    BY <1>32, EmptyScheduleType DEF EndCycle, Inv, TypeOK
  <2>2. 0 \in Versions
    BY BoundsAssumption DEF Versions
  <2>3. QED
    BY <1>32, <2>1, <2>2 DEF EndCycle, Inv, TypeOK, ProcPC, mainVars
<1>33. CASE UNCHANGED vars
  BY <1>33 DEF vars, mainVars, procVars, sharedVars
<1>34. QED
  BY <1>1, <1>2, <1>3, <1>4, <1>5, <1>6, <1>7, <1>8, <1>9, <1>10, <1>11,
     <1>12, <1>13, <1>14, <1>15, <1>16, <1>17, <1>18, <1>19, <1>20, <1>21, <1>22,
     <1>23, <1>24, <1>25, <1>26, <1>27, <1>28, <1>29, <1>30, <1>31, <1>32, <1>33
     DEF Next, Main, Process, WorkOnProcessor

\* Every step keeps the active state in agreement with the processor.
LEMMA AgreementStep ==
  ASSUME Inv, [Next]_vars
  PROVE  ProcessorAgreesWithState'
<1> USE BoundsAssumption
   DEF Inv, TypeOK, sharedVars, mainVars, procVars, Gens, Versions, Empty,
       NoCache, PluginActiveState, NotActive, ProcessingState, ProcLife, MainPC,
       ProcPC, Working, Live, BorrowedProcessorIsLive, ProcessorAgreesWithState,
       MainThreadConclusions
<1>1. CASE AddPlugin
  BY <1>1 DEF AddPlugin
<1>2. CASE EditGraph
  BY <1>2 DEF EditGraph
<1>3. CASE RemovePlugin
  BY <1>3 DEF RemovePlugin, TakeProcessor
<1>4. CASE StoreWaitingToDrop
  BY <1>4 DEF StoreWaitingToDrop
<1>5. CASE Finish
  BY <1>5 DEF Finish, Forget, Compiled, EmptySchedule
<1>6. CASE ActivateSucceeds
  BY <1>6 DEF ActivateSucceeds, Layouts, FirstVersion
<1>7. CASE Publish
  BY <1>7 DEF Publish
<1>8. CASE ActivateFails
  BY <1>8 DEF ActivateFails, Layouts
<1>9. CASE FetchRequests
  BY <1>9 DEF FetchRequests, mainRest
<1>10. CASE NoRestart
  BY <1>10 DEF NoRestart, mainRest
<1>11. CASE Restart
  BY <1>11 DEF Restart, mainRest, TakeProcessor
<1>12. CASE HandleProcess
  BY <1>12 DEF HandleProcess, mainRest, HeedProcess
<1>13. CASE Deactivate
  BY <1>13 DEF Deactivate
<1>14. CASE CollectGarbage
  BY <1>14 DEF CollectGarbage, Free, Referenced
<1>15. CASE BeginCycle
  BY <1>15 DEF BeginCycle
<1>16. CASE DrainStop
  <2>1. PICK g \in ToStop :
          IF proc[g] = "live"
          THEN RunDrop(g) /\ ppc' = "drain_free" /\ UNCHANGED sched
          ELSE UNCHANGED <<plugin, activeState, proc, cur, ppc>>
    BY <1>16 DEF DrainStop
  <2>2. g \in Gens
    BY DEF Inv, TypeOK, ToStop, Schedule
  <2>3. CASE proc[g] = "live"
    <3>1. \A h \in Gens : proc'[h] # "live"
      BY <2>1, <2>2, <2>3 DEF RunDrop
    <3>2. QED
      BY <3>1
  <2>4. CASE proc[g] # "live"
    BY <1>16, <2>1, <2>4 DEF DrainStop, mainVars
  <2>5. QED
    BY <2>3, <2>4
<1>17. CASE FreeProcessor
  BY <1>17 DEF FreeProcessor, Free
<1>18. CASE PollProcessor
  BY <1>18 DEF PollProcessor, Polled
<1>19. CASE PollNothing
  BY <1>19 DEF PollNothing, Polled
<1>20. CASE NoTask
  BY <1>20 DEF NoTask
<1>21. CASE ReadActiveState
  BY <1>21 DEF ReadActiveState, ScheduleIsNew
<1>22. CASE FallAsleep
  BY <1>22 DEF FallAsleep, wakeRest
<1>23. CASE StayAwake
  BY <1>23 DEF StayAwake, wakeRest
<1>24. CASE StayAsleep
  BY <1>24 DEF StayAsleep, wakeRest
<1>25. CASE StartFails
  BY <1>25 DEF StartFails, wakeRest
<1>26. CASE StartSucceeds
  BY <1>26 DEF StartSucceeds, wakeRest
<1>27. CASE StoreActive
  BY <1>27 DEF StoreActive
<1>28. CASE CallProcess
  BY <1>28 DEF CallProcess, LeaveProcess, callRest
<1>29. CASE SkipProcess
  BY <1>29 DEF SkipProcess, LeaveProcess, callRest
<1>30. CASE DropProcessor
  BY <1>30 DEF DropProcessor, RunDrop
<1>31. CASE NextBlock
  BY <1>31 DEF NextBlock
<1>32. CASE EndCycle
  BY <1>32 DEF EndCycle, EmptySchedule
<1>33. CASE UNCHANGED vars
  BY <1>33 DEF vars, mainVars, procVars, sharedVars
<1>34. QED
  BY <1>1, <1>2, <1>3, <1>4, <1>5, <1>6, <1>7, <1>8, <1>9, <1>10, <1>11,
     <1>12, <1>13, <1>14, <1>15, <1>16, <1>17, <1>18, <1>19, <1>20, <1>21, <1>22,
     <1>23, <1>24, <1>25, <1>26, <1>27, <1>28, <1>29, <1>30, <1>31, <1>32, <1>33
     DEF Next, Main, Process, WorkOnProcessor

\* No step takes the processor from under the process thread.
LEMMA BorrowStep ==
  ASSUME Inv, [Next]_vars
  PROVE  BorrowedProcessorIsLive'
<1> USE BoundsAssumption
   DEF Inv, TypeOK, sharedVars, mainVars, procVars, Gens, Versions, Empty,
       NoCache, PluginActiveState, NotActive, ProcessingState, ProcLife, MainPC,
       ProcPC, Working, Live, BorrowedProcessorIsLive, ProcessorAgreesWithState,
       MainThreadConclusions
<1>1. CASE AddPlugin
  BY <1>1 DEF AddPlugin
<1>2. CASE EditGraph
  BY <1>2 DEF EditGraph
<1>3. CASE RemovePlugin
  BY <1>3 DEF RemovePlugin, TakeProcessor
<1>4. CASE StoreWaitingToDrop
  BY <1>4 DEF StoreWaitingToDrop
<1>5. CASE Finish
  BY <1>5 DEF Finish, Forget, Compiled, EmptySchedule
<1>6. CASE ActivateSucceeds
  BY <1>6 DEF ActivateSucceeds, Layouts, FirstVersion
<1>7. CASE Publish
  BY <1>7 DEF Publish
<1>8. CASE ActivateFails
  BY <1>8 DEF ActivateFails, Layouts
<1>9. CASE FetchRequests
  BY <1>9 DEF FetchRequests, mainRest
<1>10. CASE NoRestart
  BY <1>10 DEF NoRestart, mainRest
<1>11. CASE Restart
  BY <1>11 DEF Restart, mainRest, TakeProcessor
<1>12. CASE HandleProcess
  BY <1>12 DEF HandleProcess, mainRest, HeedProcess
<1>13. CASE Deactivate
  BY <1>13 DEF Deactivate
<1>14. CASE CollectGarbage
  BY <1>14 DEF CollectGarbage, Free, Referenced
<1>15. CASE BeginCycle
  BY <1>15 DEF BeginCycle
<1>16. CASE DrainStop
  <2>1. PICK g \in ToStop :
          IF proc[g] = "live"
          THEN RunDrop(g) /\ ppc' = "drain_free" /\ UNCHANGED sched
          ELSE UNCHANGED <<plugin, activeState, proc, cur, ppc>>
    BY <1>16 DEF DrainStop
  <2>2. g \in Gens
    BY DEF Inv, TypeOK, ToStop, Schedule
  <2>3. CASE proc[g] = "live"
    BY <1>16, <2>1, <2>2, <2>3 DEF DrainStop, RunDrop, mainVars
  <2>4. CASE proc[g] # "live"
    BY <1>16, <2>1, <2>4 DEF DrainStop, mainVars
  <2>5. QED
    BY <2>3, <2>4
<1>17. CASE FreeProcessor
  BY <1>17 DEF FreeProcessor, Free
<1>18. CASE PollProcessor
  BY <1>18 DEF PollProcessor, Polled
<1>19. CASE PollNothing
  BY <1>19 DEF PollNothing, Polled
<1>20. CASE NoTask
  BY <1>20 DEF NoTask
<1>21. CASE ReadActiveState
  BY <1>21 DEF ReadActiveState, ScheduleIsNew
<1>22. CASE FallAsleep
  BY <1>22 DEF FallAsleep, wakeRest
<1>23. CASE StayAwake
  BY <1>23 DEF StayAwake, wakeRest
<1>24. CASE StayAsleep
  BY <1>24 DEF StayAsleep, wakeRest
<1>25. CASE StartFails
  BY <1>25 DEF StartFails, wakeRest
<1>26. CASE StartSucceeds
  BY <1>26 DEF StartSucceeds, wakeRest
<1>27. CASE StoreActive
  BY <1>27 DEF StoreActive
<1>28. CASE CallProcess
  BY <1>28 DEF CallProcess, LeaveProcess, callRest
<1>29. CASE SkipProcess
  BY <1>29 DEF SkipProcess, LeaveProcess, callRest
<1>30. CASE DropProcessor
  BY <1>30 DEF DropProcessor, RunDrop
<1>31. CASE NextBlock
  BY <1>31 DEF NextBlock
<1>32. CASE EndCycle
  BY <1>32 DEF EndCycle, EmptySchedule
<1>33. CASE UNCHANGED vars
  BY <1>33 DEF vars, mainVars, procVars, sharedVars
<1>34. QED
  BY <1>1, <1>2, <1>3, <1>4, <1>5, <1>6, <1>7, <1>8, <1>9, <1>10, <1>11,
     <1>12, <1>13, <1>14, <1>15, <1>16, <1>17, <1>18, <1>19, <1>20, <1>21, <1>22,
     <1>23, <1>24, <1>25, <1>26, <1>27, <1>28, <1>29, <1>30, <1>31, <1>32, <1>33
     DEF Next, Main, Process, WorkOnProcessor

\* The conclusions of the main thread outlive the steps of the process thread.
LEMMA ConclusionsStep ==
  ASSUME Inv, [Next]_vars
  PROVE  MainThreadConclusions'
<1> USE BoundsAssumption
   DEF Inv, TypeOK, sharedVars, mainVars, procVars, Gens, Versions, Empty,
       NoCache, PluginActiveState, NotActive, ProcessingState, ProcLife, MainPC,
       ProcPC, Working, Live, BorrowedProcessorIsLive, ProcessorAgreesWithState,
       MainThreadConclusions
<1>1. CASE AddPlugin
  BY <1>1 DEF AddPlugin
<1>2. CASE EditGraph
  BY <1>2 DEF EditGraph
<1>3. CASE RemovePlugin
  BY <1>3 DEF RemovePlugin, TakeProcessor
<1>4. CASE StoreWaitingToDrop
  BY <1>4 DEF StoreWaitingToDrop
<1>5. CASE Finish
  BY <1>5 DEF Finish, Forget, Compiled, EmptySchedule
<1>6. CASE ActivateSucceeds
  BY <1>6 DEF ActivateSucceeds, Layouts, FirstVersion
<1>7. CASE Publish
  <2>1. gen' = gen + 1 /\ gen \in Nat /\ gen + 1 \in Gens
    BY <1>7, BoundsAssumption DEF Publish
  <2>2. \A g \in Gens : g > gen' => proc'[g] = "none"
    BY <1>7, <2>1, BoundsAssumption DEF Publish
  <2>3. QED
    BY <1>7, <2>2 DEF Publish, procVars
<1>8. CASE ActivateFails
  BY <1>8 DEF ActivateFails, Layouts
<1>9. CASE FetchRequests
  BY <1>9 DEF FetchRequests, mainRest
<1>10. CASE NoRestart
  BY <1>10 DEF NoRestart, mainRest
<1>11. CASE Restart
  BY <1>11 DEF Restart, mainRest, TakeProcessor
<1>12. CASE HandleProcess
  BY <1>12 DEF HandleProcess, mainRest, HeedProcess
<1>13. CASE Deactivate
  BY <1>13 DEF Deactivate
<1>14. CASE CollectGarbage
  <2>1. PICK g \in Gens : proc[g] = "live" /\ proc' = [proc EXCEPT ![g] = "gone"]
    BY <1>14 DEF CollectGarbage, Free
  <2>2. QED
    BY <1>14, <2>1 DEF CollectGarbage, mainVars
<1>15. CASE BeginCycle
  BY <1>15 DEF BeginCycle
<1>16. CASE DrainStop
  <2>1. PICK g \in ToStop :
          IF proc[g] = "live"
          THEN RunDrop(g) /\ ppc' = "drain_free" /\ UNCHANGED sched
          ELSE UNCHANGED <<plugin, activeState, proc, cur, ppc>>
    BY <1>16 DEF DrainStop
  <2>2. g \in Gens
    BY DEF Inv, TypeOK, ToStop, Schedule
  <2>3. CASE proc[g] = "live"
    BY <1>16, <2>1, <2>2, <2>3 DEF DrainStop, RunDrop, mainVars
  <2>4. CASE proc[g] # "live"
    BY <1>16, <2>1, <2>4 DEF DrainStop, mainVars
  <2>5. QED
    BY <2>3, <2>4
<1>17. CASE FreeProcessor
  BY <1>17 DEF FreeProcessor, Free
<1>18. CASE PollProcessor
  BY <1>18 DEF PollProcessor, Polled
<1>19. CASE PollNothing
  BY <1>19 DEF PollNothing, Polled
<1>20. CASE NoTask
  BY <1>20 DEF NoTask
<1>21. CASE ReadActiveState
  BY <1>21 DEF ReadActiveState, ScheduleIsNew
<1>22. CASE FallAsleep
  BY <1>22 DEF FallAsleep, wakeRest
<1>23. CASE StayAwake
  BY <1>23 DEF StayAwake, wakeRest
<1>24. CASE StayAsleep
  BY <1>24 DEF StayAsleep, wakeRest
<1>25. CASE StartFails
  BY <1>25 DEF StartFails, wakeRest
<1>26. CASE StartSucceeds
  BY <1>26 DEF StartSucceeds, wakeRest
<1>27. CASE StoreActive
  BY <1>27 DEF StoreActive
<1>28. CASE CallProcess
  BY <1>28 DEF CallProcess, LeaveProcess, callRest
<1>29. CASE SkipProcess
  BY <1>29 DEF SkipProcess, LeaveProcess, callRest
<1>30. CASE DropProcessor
  BY <1>30 DEF DropProcessor, RunDrop
<1>31. CASE NextBlock
  BY <1>31 DEF NextBlock
<1>32. CASE EndCycle
  BY <1>32 DEF EndCycle, EmptySchedule
<1>33. CASE UNCHANGED vars
  BY <1>33 DEF vars, mainVars, procVars, sharedVars
<1>34. QED
  BY <1>1, <1>2, <1>3, <1>4, <1>5, <1>6, <1>7, <1>8, <1>9, <1>10, <1>11,
     <1>12, <1>13, <1>14, <1>15, <1>16, <1>17, <1>18, <1>19, <1>20, <1>21, <1>22,
     <1>23, <1>24, <1>25, <1>26, <1>27, <1>28, <1>29, <1>30, <1>31, <1>32, <1>33
     DEF Next, Main, Process, WorkOnProcessor

\* Inv is an invariant of the specification.
THEOREM Invariance == Spec => []Inv
<1>1. Inv /\ [Next]_vars => Inv'
  BY TypeStep, AgreementStep, BorrowStep, ConclusionsStep DEF Inv
<1>2. QED
  BY InitInv, <1>1, PTL DEF Spec

----------------------------------------------------------------------------
(* What follows from it *)

\* Every variable keeps its type (the variables of both threads).
THEOREM TypeCorrect == Spec => []TypeOK
<1>1. Inv => TypeOK
  BY DEF Inv
<1>2. QED
  BY Invariance, <1>1, PTL

\* SharedPluginHostState.active_state never calls a plugin inactive or dropped
\* while the process thread can still reach its processor.
THEOREM ActiveStateIsHonest == Spec => []ProcessorAgreesWithState
<1>1. Inv => ProcessorAgreesWithState
  BY DEF Inv
<1>2. QED
  BY Invariance, <1>1, PTL

\* The processor that PluginTask::process borrowed is not freed under it: neither
\* the main thread's new_processor nor its collector touches it.
THEOREM BorrowIsSafe == Spec => []BorrowedProcessorIsLive
<1>1. Inv => BorrowedProcessorIsLive
  BY DEF Inv
<1>2. QED
  BY Invariance, <1>1, PTL

\* What on_idle concludes from the active state it read at its start stays true
\* until it acts on it.
THEOREM ConclusionsHold == Spec => []MainThreadConclusions
<1>1. Inv => MainThreadConclusions
  BY DEF Inv
<1>2. QED
  BY Invariance, <1>1, PTL

\* on_idle deactivates a plugin only after Drop::drop of its processor.
THEOREM DeactivateIsSafe == Spec => []DeactivateAfterDrop
<1>1. Inv => DeactivateAfterDrop
  BY DEF Inv, MainThreadConclusions, DeactivateAfterDrop
<1>2. QED
  BY Invariance, <1>1, PTL
----------------------------------------------------------------------------
(* A plugin runs on a schedule compiled for it                             *)

\* The processor that activate() has made and not yet published.
Coming == IF mpc = "publish" THEN {gen + 1} ELSE {}

\* The call the main thread is in ends by compiling what it changed.
StillToCompile == recompile /\ mpc \in {"publish", "finish"}

ScheduleHasLayout == sched[version].layout = layout \/ StillToCompile

\* Whatever schedule the process thread is on or may go on to, it was compiled for
\* the layout of the plugin if its number is one the processor may run on.
LayoutsAgree ==
  /\ ScheduleHasLayout
  /\ \A g \in Live \cup Coming :
       /\ procLayout[g] = layout
       /\ \A v \in Versions :
            Reachable(v) /\ minVersion[g] <= v => sched[v].layout = layout

\* The process thread is never ahead of the main thread, and it has waited for the
\* schedule the processor needs.
WaitsForSchedule ==
  /\ running <= version
  /\ ppc \in {"wake", "store", "call"} /\ doProcess => ScheduleIsNew(cur)

LayoutInv == WaitsForSchedule /\ (~missedCompile => LayoutsAgree)

\* A step that disturbs none of this: it writes no layout, and brings neither a
\* schedule nor a processor.
Quiet ==
  /\ UNCHANGED <<version, layout, procLayout, minVersion, missedCompile>>
  /\ \A v \in Versions :
       Reachable(v)' => Reachable(v) /\ sched'[v].layout = sched[v].layout
  /\ Live' \cup Coming' \subseteq Live \cup Coming
  /\ StillToCompile => StillToCompile'

\* Such a step keeps the agreement.
LEMMA QuietStep ==
  ASSUME Inv, LayoutsAgree, Quiet
  PROVE  LayoutsAgree'
<1>1. /\ version' = version /\ layout' = layout /\ procLayout' = procLayout
      /\ minVersion' = minVersion
  BY DEF Quiet
<1>2. sched'[version].layout = sched[version].layout
  <2>1. version \in Versions /\ Reachable(version)'
    BY <1>1 DEF Inv, TypeOK, Reachable
  <2>2. QED
    BY <2>1 DEF Quiet
<1>3. ScheduleHasLayout'
  BY <1>1, <1>2 DEF LayoutsAgree, ScheduleHasLayout, Quiet
<1>4. ASSUME NEW g \in Live' \cup Coming'
      PROVE  /\ procLayout'[g] = layout'
             /\ \A v \in Versions :
                  Reachable(v)' /\ minVersion'[g] <= v => sched'[v].layout = layout'
  <2>1. g \in Live \cup Coming
    BY <1>4 DEF Quiet
  <2>2. QED
    BY <1>1, <2>1 DEF LayoutsAgree, Quiet
<1>5. QED
  BY <1>3, <1>4 DEF LayoutsAgree

\* A new graph is compiled, if anything changed.
LEMMA FinishLayouts ==
  ASSUME Inv, LayoutInv, LayoutsAgree, Finish
  PROVE  LayoutsAgree'
<1> USE DEF Inv, TypeOK
<1>1. CASE ~recompile
  <2>1. Quiet
    BY <1>1 DEF Finish, Quiet, Reachable, Coming, Live, StillToCompile, procVars
  <2>2. QED
    BY <2>1, QuietStep
<1>2. CASE recompile
  <2>1. /\ version' = version + 1 /\ version + 1 \in Versions /\ version \in Versions
        /\ sched' = [Forget(version) EXCEPT ![version + 1] = Compiled]
        /\ UNCHANGED <<layout, procLayout, minVersion, ppc, running>>
        /\ Live' = Live /\ Coming' = {}
    BY <1>2, BoundsAssumption
       DEF Finish, MainThreadConclusions, Versions, Live, Coming, procVars
  <2>2. Forget(version) \in [Versions -> Schedule]
    BY <2>1, EmptyScheduleType DEF Forget
  <2>3. sched'[version + 1].layout = layout
    BY <2>1, <2>2 DEF Compiled
  <2>4. running <= version
    BY DEF LayoutInv, WaitsForSchedule
  <2>5. ASSUME NEW v \in Versions, Reachable(v)', v # version + 1
        PROVE  Reachable(v) /\ sched'[v] = sched[v]
    <3>1. ppc # "idle" /\ v = running
      BY <2>1, <2>5 DEF Reachable
    <3>2. Forget(version)[v] = sched[v]
      BY <2>1, <3>1 DEF Forget
    <3>3. QED
      BY <2>1, <2>2, <2>5, <3>1, <3>2 DEF Reachable
  <2>6. \A g \in Live : /\ procLayout[g] = layout
                        /\ \A v \in Versions :
                             Reachable(v) /\ minVersion[g] <= v => sched[v].layout = layout
    BY DEF LayoutsAgree
  <2>7. \A v \in Versions : \A g \in Live :
          Reachable(v)' /\ minVersion[g] <= v => sched'[v].layout = layout
    BY <2>3, <2>5, <2>6
  <2>8. QED
    BY <2>1, <2>3, <2>6, <2>7 DEF LayoutsAgree, ScheduleHasLayout
<1>3. QED
  BY <1>1, <1>2

\* A new processor waits for the schedule compiled after it if it has another layout.
LEMMA ActivateLayouts ==
  ASSUME Inv, LayoutInv, LayoutsAgree, ActivateSucceeds
  PROVE  LayoutsAgree'
<1> USE DEF Inv, TypeOK
<1>1. PICK l \in Layouts :
        /\ layout' = l
        /\ recompile' = (recompile \/ l # layout)
        /\ procLayout' = [procLayout EXCEPT ![gen + 1] = l]
        /\ minVersion' = [minVersion EXCEPT ![gen + 1] = FirstVersion(l # layout)]
  BY DEF ActivateSucceeds
<1>2. /\ mpc' = "publish" /\ gen' = gen /\ gen + 1 \in Gens /\ Live' = {}
      /\ UNCHANGED <<version, sched, ppc, running>>
  BY BoundsAssumption
     DEF ActivateSucceeds, Gens, MainThreadConclusions, Live, procVars
<1>3. sched[version].layout = layout /\ version \in Nat /\ running <= version
  BY DEF ActivateSucceeds, LayoutsAgree, ScheduleHasLayout, StillToCompile, Versions,
         LayoutInv, WaitsForSchedule
<1>4. procLayout'[gen + 1] = l /\ minVersion'[gen + 1] = FirstVersion(l # layout)
  BY <1>1, <1>2
<1>5. Live' \cup Coming' = {gen + 1}
  BY <1>2 DEF Coming
<1>6. ScheduleHasLayout'
  BY <1>1, <1>2, <1>3 DEF ScheduleHasLayout, StillToCompile
<1>7. ASSUME NEW v \in Versions, Reachable(v)', minVersion'[gen + 1] <= v
      PROVE  sched'[v].layout = l
  <2>1. v <= version /\ v \in Nat
    BY <1>2, <1>3, <1>7 DEF Reachable, Versions
  <2>2. CASE l # layout
    BY <1>3, <1>4, <1>7, <2>1, <2>2 DEF FirstVersion
  <2>3. CASE l = layout
    <3>1. v = version
      BY <1>3, <1>4, <1>7, <2>1, <2>3 DEF FirstVersion
    <3>2. QED
      BY <1>2, <1>3, <2>3, <3>1
  <2>4. QED
    BY <2>2, <2>3
<1>8. QED
  BY <1>1, <1>4, <1>5, <1>6, <1>7 DEF LayoutsAgree

\* Only the compiler writes the layout of a schedule.
LEMMA EditKeepsLayouts ==
  ASSUME Inv,
         \/ \E c \in Gens \cup {Empty, NoCache} :
              sched' = [sched EXCEPT ![running].cache = c]
         \/ \E T \in SUBSET Gens : sched' = [sched EXCEPT ![running].toStop = T]
         \/ sched' = sched
  PROVE  \A v \in Versions : sched'[v].layout = sched[v].layout
<1> USE DEF Inv, TypeOK
<1>1. sched[running] \in Schedule /\ running \in Versions
  OBVIOUS
<1>2. ASSUME NEW c \in Gens \cup {Empty, NoCache},
             sched' = [sched EXCEPT ![running].cache = c]
      PROVE  \A v \in Versions : sched'[v].layout = sched[v].layout
  <2>1. [sched[running] EXCEPT !.cache = c].layout = sched[running].layout
    BY <1>1 DEF Schedule
  <2>2. QED
    BY <1>2, <2>1
<1>3. ASSUME NEW T \in SUBSET Gens, sched' = [sched EXCEPT ![running].toStop = T]
      PROVE  \A v \in Versions : sched'[v].layout = sched[v].layout
  <2>1. [sched[running] EXCEPT !.toStop = T].layout = sched[running].layout
    BY <1>1 DEF Schedule
  <2>2. QED
    BY <1>3, <2>1
<1>4. QED
  BY <1>2, <1>3

\* A step of the process thread changes no layout, and brings no processor.
LEMMA ProcessIsQuiet ==
  ASSUME Inv, Process
  PROVE  Quiet
<1> USE DEF Inv, TypeOK
<1>1. /\ UNCHANGED mainVars /\ UNCHANGED <<version, cell>>
  BY DEF Process, WorkOnProcessor, BeginCycle, DrainStop, FreeProcessor, PollProcessor,
         PollNothing, NoTask, ReadActiveState, FallAsleep, StayAwake, StayAsleep,
         StartFails, StartSucceeds, StoreActive, CallProcess, SkipProcess,
         DropProcessor, NextBlock, EndCycle, sharedVars, wakeRest, callRest
<1>2. Live' \subseteq Live
  <2>1. proc' = proc \/ \E g \in Gens : \E life \in {"gone", "dropping"} :
                          proc' = [proc EXCEPT ![g] = life]
    BY DEF Process, WorkOnProcessor, BeginCycle, DrainStop, FreeProcessor, PollProcessor,
           PollNothing, NoTask, ReadActiveState, FallAsleep, StayAwake, StayAsleep,
           StartFails, StartSucceeds, StoreActive, CallProcess, SkipProcess,
           DropProcessor, NextBlock, EndCycle, sharedVars, wakeRest, callRest,
           RunDrop, Free, ToStop, Schedule, BorrowedProcessorIsLive, Working, Live
  <2>2. QED
    BY <2>1 DEF Live
<1>3. \A v \in Versions : Reachable(v)' => Reachable(v) /\ sched'[v].layout = sched[v].layout
  <2>1. CASE BeginCycle
    BY <2>1 DEF BeginCycle, Reachable, sharedVars
  <2>2. CASE EndCycle
    <3>1. \A v \in Versions : Reachable(v)' => v = version
      BY <2>2 DEF EndCycle, Reachable
    <3>2. sched'[version] = sched[version]
      BY <2>2 DEF EndCycle
    <3>3. QED
      BY <3>1, <3>2 DEF Reachable
  <2>3. CASE ~BeginCycle /\ ~EndCycle
    <3>1. ppc # "idle" /\ running' = running
      BY <2>3 DEF Process, WorkOnProcessor, DrainStop, FreeProcessor, PollProcessor,
             PollNothing, NoTask, ReadActiveState, FallAsleep, StayAwake, StayAsleep,
             StartFails, StartSucceeds, StoreActive, CallProcess, SkipProcess,
             DropProcessor, NextBlock, wakeRest, callRest
    <3>2. \/ \E c \in Gens \cup {Empty, NoCache} :
               sched' = [sched EXCEPT ![running].cache = c]
          \/ \E T \in SUBSET Gens : sched' = [sched EXCEPT ![running].toStop = T]
          \/ sched' = sched
      <4>1. CASE DrainStop
        <5>1. PICK g \in ToStop :
                \/ sched' = sched
                \/ sched' = [sched EXCEPT ![running].toStop = @ \ {g}]
          BY <4>1 DEF DrainStop
        <5>2. ToStop \ {g} \in SUBSET Gens
          BY DEF ToStop, Schedule
        <5>3. [sched EXCEPT ![running].toStop = @ \ {g}]
                = [sched EXCEPT ![running].toStop = ToStop \ {g}]
          BY DEF ToStop
        <5>4. QED
          BY <5>1, <5>2, <5>3
      <4>2. CASE PollProcessor
        BY <4>2 DEF PollProcessor
      <4>3. CASE PollNothing
        BY <4>3 DEF PollNothing, Polled, Schedule
      <4>4. CASE CallProcess \/ SkipProcess
        BY <4>4 DEF CallProcess, SkipProcess, LeaveProcess
      <4>5. CASE ~(DrainStop \/ PollProcessor \/ PollNothing \/ CallProcess \/ SkipProcess)
        BY <2>3, <4>5
           DEF Process, WorkOnProcessor, FreeProcessor, NoTask, ReadActiveState,
               FallAsleep, StayAwake, StayAsleep, StartFails, StartSucceeds, StoreActive,
               DropProcessor, NextBlock, wakeRest, sharedVars
      <4>6. QED
        BY <4>1, <4>2, <4>3, <4>4, <4>5
    <3>3. QED
      BY <1>1, <3>1, <3>2, EditKeepsLayouts DEF Reachable
  <2>4. QED
    BY <2>1, <2>2, <2>3
<1>4. QED
  BY <1>1, <1>2, <1>3 DEF Quiet, mainVars, Coming, StillToCompile

\* Nor does the main thread, but for compiling and activating.
LEMMA MainIsQuiet ==
  ASSUME Inv, Main \/ UNCHANGED vars,
         ~Finish, ~ActivateSucceeds, ~ActivateFails
  PROVE  Quiet
<1> USE DEF Inv, TypeOK
<1>1. UNCHANGED <<version, sched, layout, procLayout, minVersion, missedCompile, ppc,
                  running>>
  BY DEF Main, AddPlugin, EditGraph, RemovePlugin, StoreWaitingToDrop, Publish,
         FetchRequests, NoRestart, Restart, HandleProcess, Deactivate, CollectGarbage,
         vars, sharedVars, mainVars, procVars, mainRest
<1>2. Live' \cup Coming' \subseteq Live \cup Coming
  <2>1. CASE Publish
    BY <2>1 DEF Publish, Live, Coming, Gens
  <2>2. CASE CollectGarbage
    BY <2>2 DEF CollectGarbage, Free, Live, Coming, mainVars
  <2>3. CASE ~Publish /\ ~CollectGarbage
    <3>1. proc' = proc /\ gen' = gen
      BY <2>3 DEF Main, AddPlugin, EditGraph, RemovePlugin, StoreWaitingToDrop,
         FetchRequests, NoRestart, Restart, HandleProcess, Deactivate,
         vars, sharedVars, mainVars, mainRest
    <3>2. mpc' = "publish" => mpc = "publish"
      BY <2>3 DEF Main, AddPlugin, EditGraph, RemovePlugin, StoreWaitingToDrop,
         FetchRequests, NoRestart, Restart, HandleProcess, Deactivate, TakeProcessor,
         vars, mainVars
    <3>3. QED
      BY <3>1, <3>2 DEF Live, Coming
  <2>4. QED
    BY <2>1, <2>2, <2>3
<1>3. StillToCompile => StillToCompile'
  BY DEF Main, AddPlugin, EditGraph, RemovePlugin, StoreWaitingToDrop, Publish,
         FetchRequests, NoRestart, Restart, HandleProcess, Deactivate, CollectGarbage,
         vars, mainVars, mainRest, StillToCompile
<1>4. QED
  BY <1>1, <1>2, <1>3 DEF Quiet, Reachable

\* Every step keeps the agreement, unless an activation failed after it changed the graph.
LEMMA LayoutsStep ==
  ASSUME Inv, LayoutInv, [Next]_vars, ~missedCompile'
  PROVE  LayoutsAgree'
<1>1. LayoutsAgree
  <2>1. missedCompile => missedCompile'
    BY DEF Next, Main, AddPlugin, EditGraph, RemovePlugin, StoreWaitingToDrop, Publish,
         FetchRequests, NoRestart, Restart, HandleProcess, Deactivate, CollectGarbage,
         Finish, ActivateSucceeds, ActivateFails, mainRest,
         Process, WorkOnProcessor, BeginCycle, DrainStop, FreeProcessor, PollProcessor,
         PollNothing, NoTask, ReadActiveState, FallAsleep, StayAwake, StayAsleep,
         StartFails, StartSucceeds, StoreActive, CallProcess, SkipProcess,
         DropProcessor, NextBlock, EndCycle, wakeRest, callRest, vars, mainVars
  <2>2. QED
    BY <2>1 DEF LayoutInv
<1>2. CASE Finish
  BY <1>1, <1>2, FinishLayouts
<1>3. CASE ActivateSucceeds
  BY <1>1, <1>3, ActivateLayouts
<1>4. CASE ActivateFails
  <2>1. Quiet
    BY <1>4 DEF ActivateFails, Quiet, Reachable, Live, Coming, StillToCompile, procVars,
                Inv, TypeOK
  <2>2. QED
    BY <1>1, <2>1, QuietStep
<1>5. CASE ~Finish /\ ~ActivateSucceeds /\ ~ActivateFails /\ (Main \/ UNCHANGED vars)
  BY <1>1, <1>5, MainIsQuiet, QuietStep
<1>6. CASE Process
  BY <1>1, <1>6, ProcessIsQuiet, QuietStep
<1>7. QED
  BY <1>2, <1>3, <1>4, <1>5, <1>6 DEF Next

\* The process thread takes up the newest schedule, and reads schedule_version once.
LEMMA WaitsStep ==
  ASSUME Inv, LayoutInv, [Next]_vars
  PROVE  WaitsForSchedule'
<1> USE DEF Inv, TypeOK, Versions
<1>1. running <= version
  BY DEF LayoutInv, WaitsForSchedule
<1>2. ppc \in {"wake", "store", "call"} /\ doProcess => minVersion[cur] <= running
  BY DEF LayoutInv, WaitsForSchedule, ScheduleIsNew
<1>3. CASE Main \/ UNCHANGED vars
  <2>1. UNCHANGED <<ppc, running, cur, doProcess>> /\ version <= version'
    BY <1>3 DEF Main, AddPlugin, EditGraph, RemovePlugin, StoreWaitingToDrop, Publish,
         FetchRequests, NoRestart, Restart, HandleProcess, Deactivate, CollectGarbage,
         Finish, ActivateSucceeds, ActivateFails, vars, sharedVars, procVars
  <2>2. Working \cap {ppc} # {} => minVersion'[cur] = minVersion[cur]
    <3>1. CASE ActivateSucceeds
      BY <3>1 DEF ActivateSucceeds, MainThreadConclusions, BorrowedProcessorIsLive
    <3>2. CASE ~ActivateSucceeds
      BY <1>3, <3>2 DEF Main, AddPlugin, EditGraph, RemovePlugin, StoreWaitingToDrop, Publish,
         FetchRequests, NoRestart, Restart, HandleProcess, Deactivate, CollectGarbage,
         Finish, ActivateFails, vars, mainVars, mainRest
    <3>3. QED
      BY <3>1, <3>2
  <2>3. running' <= version'
    BY <1>1, <2>1, TypeStep DEF Versions
  <2>4. QED
    BY <1>2, <2>1, <2>2, <2>3 DEF WaitsForSchedule, ScheduleIsNew, Working
<1>4. CASE Process
  <2>1. UNCHANGED <<version, minVersion>>
    BY <1>4, ProcessIsQuiet DEF Quiet
  <2>2. CASE BeginCycle
    BY <2>1, <2>2 DEF BeginCycle, WaitsForSchedule
  <2>3. CASE EndCycle
    BY <2>1, <2>3 DEF EndCycle, WaitsForSchedule
  <2>4. CASE ReadActiveState
    BY <1>1, <2>1, <2>4 DEF ReadActiveState, WaitsForSchedule, ScheduleIsNew
  <2>5. CASE FallAsleep \/ StayAwake \/ StayAsleep \/ StartFails \/ StartSucceeds \/ StoreActive
    <3>1. /\ UNCHANGED <<running, cur>> /\ ppc \in {"wake", "store", "call"}
          /\ doProcess' => doProcess
      BY <2>5 DEF FallAsleep, StayAwake, StayAsleep, StartFails, StartSucceeds,
                  StoreActive, wakeRest
    <3>2. QED
      BY <1>1, <1>2, <2>1, <3>1 DEF WaitsForSchedule, ScheduleIsNew
  <2>6. CASE ~(BeginCycle \/ EndCycle \/ ReadActiveState \/ FallAsleep \/ StayAwake
              \/ StayAsleep \/ StartFails \/ StartSucceeds \/ StoreActive)
    <3>1. running' = running /\ ppc' \notin {"wake", "store", "call"}
      BY <1>4, <2>6
         DEF Process, WorkOnProcessor, DrainStop, FreeProcessor, PollProcessor,
             PollNothing, NoTask, CallProcess, SkipProcess, LeaveProcess, callRest,
             DropProcessor, NextBlock
    <3>2. QED
      BY <1>1, <2>1, <3>1 DEF WaitsForSchedule
  <2>7. QED
    BY <2>2, <2>3, <2>4, <2>5, <2>6
<1>5. QED
  BY <1>3, <1>4 DEF Next

\* PluginHostProcessor::process calls the plugin only on a schedule whose buffers and
\* latencies were compiled for the activation that made it: the wait for
\* schedule_version is neither too short nor overtaken by a later activation.
THEOREM RunsOnItsLayout == Spec => []ProcessesOnItsLayout
<1>1. Init => LayoutInv
  <2>1. SUFFICES ASSUME Init PROVE WaitsForSchedule /\ LayoutsAgree
    BY DEF LayoutInv
  <2>2. sched[version].layout = layout
    BY <2>1, BoundsAssumption DEF Init, EmptySchedule, Versions
  <2>3. Live = {} /\ Coming = {}
    BY <2>1 DEF Init, Live, Coming
  <2>4. QED
    BY <2>1, <2>2, <2>3 DEF Init, WaitsForSchedule, LayoutsAgree, ScheduleHasLayout
<1>2. Inv /\ LayoutInv /\ [Next]_vars => LayoutInv'
  BY LayoutsStep, WaitsStep DEF LayoutInv
<1>3. Inv /\ LayoutInv => ProcessesOnItsLayout
  <2>1. SUFFICES ASSUME Inv, LayoutInv, ppc = "call", doProcess, ~missedCompile
                 PROVE  sched[running].layout = procLayout[cur]
    BY DEF ProcessesOnItsLayout
  <2>2. cur \in Live /\ running \in Versions /\ Reachable(running)
    BY <2>1 DEF Inv, TypeOK, BorrowedProcessorIsLive, Working, Reachable
  <2>3. minVersion[cur] <= running
    BY <2>1 DEF LayoutInv, WaitsForSchedule, ScheduleIsNew
  <2>4. QED
    BY <2>1, <2>2, <2>3 DEF LayoutInv, LayoutsAgree
<1>4. QED
  BY Invariance, <1>1, <1>2, <1>3, PTL DEF Spec
============================================================================
