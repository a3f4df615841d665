--------------------------- MODULE EngineTimers ---------------------------
(***************************************************************************)
(* What drives the engine: the timer wheel, on_timer() and the timers of   *)
(* the plugins, while plugins come and go and the engine is activated,     *)
(* deactivated, or crashes because the graph does not compile.             *)
(*                                                                         *)
(* All of it runs on the main thread.  on_timer() first advances the wheel *)
(* and takes every entry that elapsed, and then handles them one by one;   *)
(* handling one may register, unregister or drop the others.  A plugin     *)
(* asks for timers whenever it is called, through a list in the host       *)
(* request channel and one of its flags.                                   *)
(*                                                                         *)
(* Time is counted in milliseconds, and relative: lag is how far away the  *)
(* next expected tick is, and the wheel says how many ticks away an entry  *)
(* is.  The wheel is an external library, taken to return every entry in   *)
(* its tick and to skip no tick of an entry.  A plugin's own life          *)
(* (PluginLifecycle) is reduced to when its processor is dropped.          *)
(***************************************************************************)
EXTENDS Integers, Sequences, FiniteSets

CONSTANTS
  Plugins,        \* plugins a user may add, each with a unique id of its own
  MainIdle, Garbage, \* the keys of the engine's own timers
  IdleInterval, GarbageInterval, \* main_idle_interval_ms, ...
  Period,         \* the period_ms a plugin registers
  MaxTimers,      \* bound: timers a plugin registers
  MaxLate,        \* bound: how late the application calls on_timer
  MaxActivations, \* bound: activations of the engine
  None

ASSUME TimerAssumption ==
  /\ {IdleInterval, GarbageInterval, Period} \subseteq Nat \ {0}
  /\ GarbageInterval >= IdleInterval
  /\ {MaxTimers, MaxLate, MaxActivations} \subseteq Nat
  /\ MainIdle # Garbage /\ {MainIdle, Garbage} \cap (Plugins \X Nat) = {}
  /\ None \notin [to : {"free", "loop"}, crash : BOOLEAN]
  /\ None \notin [plugin : Plugins, timers : BOOLEAN, taken : BOOLEAN]

VARIABLES
  lag,       \* next_expected_tick_instant, from now
  wheel,     \* timer key -> ticks left
  entries,   \* the keys of registered_plugin_entries
  elapsed,   \* entries taken from the wheel and not yet handled
  engine,    \* activated_state is there
  crashMsg,  \* crash_msg is there
  activations,
  pool,      \* plugin -> its host: processor, remove_requested, registered_timers
  unused,    \* plugins not added so far
  requests,  \* plugin -> its list of timer requests
  flag,      \* the plugins with TIMER_REQUEST raised
  nextId,    \* plugin -> next_timer_id
  wants,     \* plugin -> the timers it believes to have
  stage,     \* what the main thread is doing
  after,     \* where it goes on after a reset
  todo,      \* plugins on_idle has yet to look at
  batch,     \* the plugin whose flags on_idle has taken, with TIMER_REQUEST or not
  recompile, \* recompile_graph of on_idle
  calling,   \* the plugin that is being called, and the timer it is called for
  app,       \* the application's activated_state is there
  told,      \* EngineDeactivated is among the events of this on_timer
  age        \* history: timer -> time since it was scheduled

timeVars == <<lag, wheel, entries, age>>
engineVars == <<engine, crashMsg, activations, app, told>>
pluginVars == <<requests, flag, nextId, wants>>
idleVars == <<todo, batch, recompile>>
vars == <<lag, wheel, entries, elapsed, engine, crashMsg, activations, pool, unused,
          requests, flag, nextId, wants, stage, after, todo, batch, recompile, calling,
          app, told, age>>

Key(p, id) == <<p, id>>
IsPluginKey(k) == k \notin {MainIdle, Garbage}
IdsOf(p, keys) == {id \in 0..MaxTimers - 1 : Key(p, id) \in keys}

Interval(k) ==
  CASE k = MainIdle -> IdleInterval
    [] k = Garbage -> GarbageInterval
    [] OTHER -> Period

Drop(f, keys) == [k \in DOMAIN f \ keys |-> f[k]]
Put(f, k, x) == [j \in DOMAIN f \cup {k} |-> IF j = k THEN x ELSE f[j]]

-----------------------------------------------------------------------------
(* EngineTimerWheel *)

NewWheel == [k \in {MainIdle, Garbage} |-> Interval(k)]

(* reset() keeps next_expected_tick_instant and registered_plugin_entries. *)
ResetWheel_Fault ==
  /\ wheel' = [k \in {Garbage} |-> Interval(k)]
  /\ age' = [k \in {Garbage} |-> 0]
  /\ UNCHANGED entries

ResetWheel ==
  /\ wheel' = NewWheel
  /\ age' = [k \in {MainIdle, Garbage} |-> 0]
  /\ UNCHANGED entries

(* A table of timers: the entries, the wheel and the ages. *)
Table == [entries |-> entries, wheel |-> wheel, age |-> age]

Register(t, k) ==
  [entries |-> t.entries \cup {k}, wheel |-> Put(t.wheel, k, Interval(k)),
   age |-> Put(t.age, k, 0)]

Unregister(t, keys) ==
  LET gone == keys \cap t.entries
  IN [entries |-> t.entries \ gone, wheel |-> Drop(t.wheel, gone),
      age |-> Drop(t.age, gone)]

SetTable(t) == entries' = t.entries /\ wheel' = t.wheel /\ age' = t.age

(* unregister_all_timers_on_plugin, for several plugins *)
KeysOf(ps) == {k \in entries : k[1] \in ps}

(* The requests in order, as on_idle and on_timer of a plugin host apply   *)
(* them; id is new in every request to register.                           *)
Applied(t, p, reqs) ==
  LET f[i \in 0..Len(reqs)] ==
        IF i = 0 THEN t
        ELSE IF reqs[i].register THEN Register(f[i - 1], Key(p, reqs[i].id))
        ELSE Unregister(f[i - 1], {Key(p, reqs[i].id)})
  IN f[Len(reqs)]

(* registered_timers after them *)
Known_Fault(known, reqs) ==
  known \cup {reqs[i].id : i \in {j \in DOMAIN reqs : reqs[j].register}}

Known(known, reqs) ==
  LET f[i \in 0..Len(reqs)] ==
        IF i = 0 THEN known
        ELSE IF reqs[i].register THEN f[i - 1] \cup {reqs[i].id}
        ELSE f[i - 1] \ {reqs[i].id}
  IN f[Len(reqs)]

TakeRequests(p) ==
  /\ SetTable(Applied(Table, p, requests[p]))
  /\ pool' = [pool EXCEPT ![p].known = Known(@, requests[p])]
  /\ requests' = [requests EXCEPT ![p] = <<>>]

-----------------------------------------------------------------------------
(* A plugin asks for timers while it is called, or from an event of its    *)
(* GUI while the main thread is free.                                      *)

Callable(p) ==
  /\ p \in DOMAIN pool
  /\ \/ stage = "free"
     \/ calling # None /\ calling.plugin = p

Ask(p, id, register) ==
  /\ requests' = [requests EXCEPT ![p] = Append(@, [id |-> id, register |-> register])]
  /\ flag' = flag \cup {p}

RequestOnly ==
  UNCHANGED <<timeVars, elapsed, engineVars, pool, unused, stage, after, idleVars, calling>>

RegisterTimer(p) ==
  /\ Callable(p)
  /\ nextId[p] < MaxTimers
  /\ Ask(p, nextId[p], TRUE)
  /\ nextId' = [nextId EXCEPT ![p] = @ + 1]
  /\ wants' = [wants EXCEPT ![p] = @ \cup {nextId[p]}]
  /\ RequestOnly

UnregisterTimer(p) ==
  /\ Callable(p)
  /\ \E id \in wants[p] :
       /\ Ask(p, id, FALSE)
       /\ wants' = [wants EXCEPT ![p] = @ \ {id}]
  /\ UNCHANGED nextId
  /\ RequestOnly

(* The process thread drops the processor of a removed plugin. *)
ProcessorDrops(p) ==
  /\ p \in DOMAIN pool
  /\ pool[p].processor = "dropping"
  /\ pool' = [pool EXCEPT ![p].processor = "dropped"]
  /\ UNCHANGED <<timeVars, elapsed, engineVars, unused, pluginVars, stage, after,
                 idleVars, calling>>

-----------------------------------------------------------------------------
(* schedule_remove, for some plugins *)
ScheduleRemove(ps) ==
  /\ SetTable(Unregister(Table, KeysOf(ps)))
  /\ pool' = [p \in DOMAIN pool |->
       IF p \notin ps THEN pool[p]
       ELSE [pool[p] EXCEPT !.removed = TRUE,
               !.processor = IF @ = "running" THEN "dropping" ELSE @]]

(* AudioGraph::reset, up to its loop. *)
BeginReset(next) ==
  /\ ScheduleRemove(DOMAIN pool)
  /\ engine' = FALSE
  /\ stage' = "reset"
  /\ after' = next
  /\ UNCHANGED <<lag, elapsed, crashMsg, activations, app, told, unused, pluginVars, idleVars>>
  /\ calling' = None

(* Each round of the loop calls on_idle of every plugin; here OnIdle is    *)
(* one such call.  The loop ends when the pool is empty, or after ten      *)
(* seconds, and the application is late by then.                           *)
EndReset ==
  /\ stage = "reset"
  /\ batch = None
  /\ pool' = <<>>
  /\ ResetWheel
  /\ lag' \in {-MaxLate, lag}
  /\ stage' = after.to
  /\ after' = None
  /\ crashMsg' = after.crash
  /\ app' = (app /\ after.crash)
  /\ calling' = None
  /\ UNCHANGED <<elapsed, engine, activations, told, unused, pluginVars, idleVars>>

(* compile_audio_graph; an error of the compiler ends the engine. *)
Compile ==
  /\ stage = "compile"
  /\ \/ /\ stage' = after.to
        /\ after' = None
        /\ calling' = None
        /\ UNCHANGED <<timeVars, elapsed, engineVars, pool, unused, pluginVars, idleVars>>
     \/ BeginReset([to |-> after.to, crash |-> TRUE])

-----------------------------------------------------------------------------
(* The application, between two calls of on_timer. *)

ActivateEngine ==
  /\ stage = "free" /\ ~app
  /\ ~engine
  /\ activations < MaxActivations
  /\ activations' = activations + 1
  /\ engine' = TRUE
  /\ app' = TRUE
  /\ calling' = None
  /\ UNCHANGED <<timeVars, elapsed, crashMsg, told, pool, unused, pluginVars, stage,
                 after, idleVars>>

(* The crash of an engine the application does not know of yet is not      *)
(* hidden: deactivate_engine ignores the request then.                     *)
DeactivateEngine ==
  /\ stage = "free" /\ app
  /\ engine
  /\ BeginReset([to |-> "free", crash |-> FALSE])

(* modify_graph.  A plugin that fails to activate has no processor. *)
AddPlugin(p) ==
  /\ stage = "free" /\ app /\ engine
  /\ p \in unused
  /\ unused' = unused \ {p}
  /\ \E processor \in {"running", "none"} :
       pool' = Put(pool, p, [processor |-> processor, removed |-> FALSE, known |-> {}])
  /\ stage' = "compile"
  /\ after' = [to |-> "free", crash |-> FALSE]
  /\ calling' = [plugin |-> p, timer |-> None]
  /\ UNCHANGED <<timeVars, elapsed, engineVars, pluginVars, idleVars>>

RemovePlugin(p) ==
  /\ stage = "free" /\ app /\ engine
  /\ p \in DOMAIN pool /\ ~pool[p].removed
  /\ ScheduleRemove({p})
  /\ stage' = "compile"
  /\ after' = [to |-> "free", crash |-> FALSE]
  /\ calling' = None
  /\ UNCHANGED <<lag, elapsed, engineVars, unused, pluginVars, idleVars>>

-----------------------------------------------------------------------------
(* on_timer *)

(* The application calls it at the instant it was given, or later. *)
Elapse ==
  /\ stage = "free"
  /\ lag > -MaxLate
  /\ lag' = lag - 1
  /\ age' = [k \in DOMAIN age |-> age[k] + 1]
  /\ calling' = None
  /\ UNCHANGED <<wheel, entries, elapsed, engineVars, pool, unused, pluginVars, stage,
                 after, idleVars>>

Ticks_Fault == 1

(* One tick that was expected, and those missed since. *)
Ticks == 1 - lag

(* How far the wheel may go on without an entry elapsing. *)
Skips_Fault(next) == {ms \in 0..GarbageInterval : \A k \in DOMAIN next : ms <= next[k]}

Skips(next) == {ms \in 0..GarbageInterval : \A k \in DOMAIN next : ms < next[k]}

(* EngineTimerWheel::advance: tick, schedule what elapsed again, and skip  *)
(* what can be skipped. *)
Advance ==
  LET due  == {k \in DOMAIN wheel : wheel[k] <= Ticks}
      next == [k \in DOMAIN wheel |-> IF k \in due THEN Interval(k) ELSE wheel[k] - Ticks]
  IN /\ elapsed' = [k \in due |-> [tick |-> wheel[k], age |-> age[k]]]
     /\ age' = [k \in DOMAIN age |-> IF k \in due THEN 0 ELSE age[k]]
     /\ \E skip \in Skips(next) :
          /\ wheel' = [k \in DOMAIN next |-> next[k] - skip]
          /\ lag' = lag + Ticks + skip
     /\ UNCHANGED entries

TakeCrash_Fault == told' = crashMsg /\ UNCHANGED crashMsg

TakeCrash == told' = crashMsg /\ crashMsg' = FALSE

BeginTimer ==
  /\ stage = "free"
  /\ lag <= 0
  /\ TakeCrash
  /\ Advance
  /\ stage' = "loop"
  /\ calling' = None
  /\ UNCHANGED <<engine, activations, app, pool, unused, pluginVars, after, idleVars>>

(* The entries are handled in the order of their ticks. *)
Next1(k) ==
  /\ stage = "loop"
  /\ k \in DOMAIN elapsed
  /\ \A j \in DOMAIN elapsed : elapsed[k].tick <= elapsed[j].tick
  /\ elapsed' = Drop(elapsed, {k})

HandleMainIdle ==
  /\ Next1(MainIdle)
  /\ IF engine
     THEN /\ stage' = "idle"
          /\ todo' = DOMAIN pool
          /\ recompile' = FALSE
     ELSE UNCHANGED <<stage, todo, recompile>>
  /\ calling' = None
  /\ UNCHANGED <<timeVars, engineVars, pool, unused, pluginVars, after, batch>>

HandleGarbage ==
  /\ Next1(Garbage)
  /\ calling' = None
  /\ UNCHANGED <<timeVars, engineVars, pool, unused, pluginVars, stage, after, idleVars>>

(* PluginHostMainThread::on_timer looks for new requests before it calls   *)
(* the plugin, and leaves the flag raised.                                 *)
HandlePluginTimer_Fault(p, id) ==
  /\ Next1(Key(p, id))
  /\ IF engine /\ p \in DOMAIN pool /\ id \in pool[p].known
     THEN calling' = [plugin |-> p, timer |-> id]
     ELSE calling' = None
  /\ UNCHANGED <<timeVars, pool, requests, engineVars, unused, flag, nextId, wants, stage,
                 after, idleVars>>

HandlePluginTimer(p, id) ==
  /\ Next1(Key(p, id))
  /\ IF engine /\ p \in DOMAIN pool
     THEN /\ IF p \in flag THEN TakeRequests(p)
             ELSE UNCHANGED <<entries, wheel, age, pool, requests>>
          /\ calling' = IF id \in pool'[p].known THEN [plugin |-> p, timer |-> id] ELSE None
     ELSE /\ UNCHANGED <<entries, wheel, age, pool, requests>>
          /\ calling' = None
  /\ UNCHANGED <<lag, engineVars, unused, flag, nextId, wants, stage, after, idleVars>>

(* PluginHostMainThread::on_idle takes the flags, and may call the plugin  *)
(* (on_main_thread) before it looks at the timer requests.                 *)
FetchRequests(p) ==
  /\ batch = None
  /\ \/ stage = "idle" /\ p \in todo
     \/ stage = "reset" /\ p \in DOMAIN pool
  /\ batch' = [plugin |-> p, timers |-> p \in flag, taken |-> FALSE]
  /\ flag' = flag \ {p}
  /\ calling' = [plugin |-> p, timer |-> None]
  /\ UNCHANGED <<timeVars, elapsed, engineVars, pool, unused, requests, nextId, wants,
                 stage, after, todo, recompile>>

(* The timer requests are taken even when the plugin is to be removed. *)
IdleTimers ==
  /\ batch # None /\ ~batch.taken
  /\ IF batch.timers THEN TakeRequests(batch.plugin)
     ELSE UNCHANGED <<entries, wheel, age, pool, requests>>
  /\ batch' = [batch EXCEPT !.taken = TRUE]
  /\ calling' = None
  /\ UNCHANGED <<lag, elapsed, engineVars, unused, flag, nextId, wants, stage, after,
                 todo, recompile>>

(* The rest of on_idle: an inactive plugin that asked to be processed is   *)
(* activated, and a removed one leaves once its processor is dropped.      *)
IdleRest ==
  /\ batch # None /\ batch.taken
  /\ LET p    == batch.plugin
         host == pool[p]
     IN \/ /\ host.removed /\ host.processor = "dropped"
           /\ pool' = Drop(pool, {p})
           /\ UNCHANGED recompile
        \/ /\ ~host.removed /\ host.processor = "none"
           /\ pool' = [pool EXCEPT ![p].processor = "running"]
           /\ recompile' = TRUE
        \/ /\ ~(host.removed /\ host.processor = "dropped")
           /\ UNCHANGED <<pool, recompile>>
  /\ todo' = todo \ {batch.plugin}
  /\ batch' = None
  /\ calling' = None
  /\ UNCHANGED <<timeVars, elapsed, engineVars, unused, pluginVars, stage, after>>

EndIdle ==
  /\ stage = "idle"
  /\ todo = {} /\ batch = None
  /\ IF recompile
     THEN stage' = "compile" /\ after' = [to |-> "loop", crash |-> FALSE]
     ELSE stage' = "loop" /\ UNCHANGED after
  /\ calling' = None
  /\ UNCHANGED <<timeVars, elapsed, engineVars, pool, unused, pluginVars, idleVars>>

(* on_timer returns its events, and the application handles them. *)
EndTimer ==
  /\ stage = "loop"
  /\ elapsed = <<>>
  /\ stage' = "free"
  /\ app' = (app /\ ~told)
  /\ told' = FALSE
  /\ calling' = None
  /\ UNCHANGED <<timeVars, elapsed, engine, crashMsg, activations, pool, unused,
                 pluginVars, after, idleVars>>

-----------------------------------------------------------------------------
Init ==
  /\ lag = IdleInterval
  /\ wheel = NewWheel
  /\ entries = {}
  /\ age = [k \in {MainIdle, Garbage} |-> 0]
  /\ elapsed = <<>>
  /\ engine = FALSE /\ crashMsg = FALSE /\ app = FALSE /\ told = FALSE
  /\ activations = 0
  /\ pool = <<>>
  /\ unused = Plugins
  /\ requests = [p \in Plugins |-> <<>>]
  /\ flag = {}
  /\ nextId = [p \in Plugins |-> 0]
  /\ wants = [p \in Plugins |-> {}]
  /\ stage = "free" /\ after = None
  /\ todo = {} /\ batch = None /\ recompile = FALSE
  /\ calling = None

App == ActivateEngine \/ DeactivateEngine \/ \E p \in Plugins : AddPlugin(p) \/ RemovePlugin(p)
Plugin == \E p \in Plugins : RegisterTimer(p) \/ UnregisterTimer(p)
Loop ==
  \/ HandleMainIdle \/ HandleGarbage
  \/ \E p \in Plugins, id \in 0..MaxTimers - 1 : HandlePluginTimer(p, id)
Idle == (\E p \in Plugins : FetchRequests(p)) \/ IdleTimers \/ IdleRest \/ EndIdle
OnTimer == BeginTimer \/ Loop \/ Idle \/ Compile \/ EndTimer

Next ==
  \/ App \/ Plugin \/ OnTimer \/ EndReset \/ Elapse
  \/ \E p \in Plugins : ProcessorDrops(p)

Spec == Init /\ [][Next]_vars

(* Time passes, the main thread goes on with what it is doing, and a reset *)
(* ends at its deadline whatever the plugins do.                           *)
FairSpec ==
  /\ Spec
  /\ WF_vars(Elapse) /\ WF_vars(OnTimer) /\ SF_vars(EndReset)

-----------------------------------------------------------------------------
(* The tables are about known plugins and timers, and what is taken from   *)
(* the wheel is handled before on_timer returns.                           *)
Ids == 0..MaxTimers - 1
Keys == {MainIdle, Garbage} \cup Plugins \X Ids

TypeOK ==
  /\ lag \in -MaxLate..2 * GarbageInterval
  /\ {MainIdle, Garbage} \subseteq DOMAIN wheel /\ DOMAIN wheel \subseteq Keys
  /\ \A k \in DOMAIN wheel : wheel[k] \in 1..Interval(k)
  /\ DOMAIN age = DOMAIN wheel
  /\ DOMAIN elapsed \subseteq Keys
  /\ stage = "free" => elapsed = <<>>
  /\ {engine, crashMsg, app, told, recompile} \subseteq BOOLEAN
  /\ \A p \in DOMAIN pool :
       /\ pool[p].processor \in {"none", "running", "dropping", "dropped"}
       /\ pool[p].removed \in BOOLEAN /\ pool[p].known \subseteq Ids
  /\ DOMAIN pool \cup unused \cup todo \subseteq Plugins
  /\ \A p \in Plugins : wants[p] \subseteq 0..nextId[p] - 1
  /\ stage \in {"free", "loop", "idle", "compile", "reset"}
  /\ (after = None) = (stage \notin {"compile", "reset"})

(* A timer of a plugin never fires before its period is over, and no timer *)
(* fires later than a main idle interval and the delay of the application  *)
(* after it should have, whatever the wheel skips and however many ticks   *)
(* were missed (timer_wheel.rs:144).                                       *)
TimersAreOnTime ==
  \A k \in DOMAIN elapsed :
    /\ IsPluginKey(k) => elapsed[k].age >= Interval(k)
    /\ elapsed[k].age <= Interval(k) + IdleInterval + MaxLate

(* For a plugin that was not removed, the wheel, registered_plugin_entries *)
(* and registered_timers name the same timers, and these are the ones the  *)
(* plugin wants once its requests are taken; a request that is not taken   *)
(* yet is announced by a flag (plugin_host/main_thread.rs:878, :1264).     *)
TimersAgree ==
  \A p \in DOMAIN pool :
    /\ ~pool[p].removed =>
         /\ pool[p].known = IdsOf(p, entries)
         /\ pool[p].known = IdsOf(p, DOMAIN wheel)
         /\ requests[p] = <<>> => pool[p].known = wants[p]
    /\ requests[p] # <<>> =>
         \/ p \in flag
         \/ batch # None /\ batch.plugin = p /\ batch.timers /\ ~batch.taken

(* "Make sure that plugin hasn't requested to unregister the timer before  *)
(* calling its on_timer() method" (plugin_host/main_thread.rs:879): the    *)
(* plugin still wants the timer it is called for, whatever was handled     *)
(* since the timer elapsed.                                                *)
OnlyWantedTimersFire ==
  [][calling' \notin {calling, None} =>
       calling'.timer \in wants[calling'.plugin] \cup {None}]_vars

(* The application knows of the engine or is about to be told: it never    *)
(* activates an engine that is active, and no event of a plugin reaches it *)
(* when it has no state for plugins any more (main.rs:256).                *)
DeactivationIsReported ==
  /\ engine => app
  /\ app /\ ~engine => crashMsg \/ told \/ stage = "reset"
  /\ stage = "idle" => app /\ ~told

(* As long as it is active, the engine keeps polling its plugins: neither  *)
(* a reset of the wheel nor what a plugin registers stops the idle timer.  *)
EngineIsPolled == []<>(stage = "idle" \/ ~engine)

=============================================================================
