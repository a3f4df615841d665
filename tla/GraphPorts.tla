---------------------------- MODULE GraphPorts ----------------------------
(***************************************************************************)
(* The audio graph as the main thread edits it: plugins come and go, scan  *)
(* their ports when they are activated, are connected by the user, and the *)
(* result is compiled into the schedule.                                   *)
(*                                                                         *)
(* Four records of the same graph have to agree: the abstract graph, which *)
(* belongs to an external library; the port maps of each plugin host; the  *)
(* ports a plugin last announced, kept for its save state, by which the    *)
(* compiler asks for buffers; and what the user has been told.  All of     *)
(* this is on the main thread, so an action is one call of the engine on   *)
(* one plugin or edge; modify_graph and on_idle are sequences of them.     *)
(*                                                                         *)
(* What a plugin answers when it is activated is arbitrary, within the     *)
(* sets the constants give.  The process thread appears only as the moment *)
(* at which it has dropped a processor.  The library is taken to give      *)
(* every node and every edge an id it has not used before.                 *)
(***************************************************************************)
EXTENDS PortSync

CONSTANTS
  Plugins,     \* the plugin instances of a run
  MayBe,       \* plugin -> how the user may add it: [saved, loaded, autoOut, active]
  MayDo,       \* plugin -> what it may answer to activate(): [audio, note, latency,
               \* accepts]; and the sets of requests it may make at a time: [requests]
  EdgeReqs,    \* what the user may ask to connect: [type, src, dst], see EndPort
  GraphIO,     \* channels of the graph's own input and output
  MaxEdges,    \* bound: edges made
  MaxActivations, \* bound: attempts to activate a plugin
  Failed,      \* the answer of a plugin that fails to give a list
  Main,        \* the main port, in a request of an edge
  Panics       \* the outcome of an unwrap of nothing

ASSUME GraphAssumption ==
  /\ {MaxEdges, MaxActivations} \subseteq Nat
  /\ GraphIO \in Nat \ {0}
  /\ {"graph in", "graph out"} \cap Plugins = {}
  /\ \A p \in Plugins : \A new \in MayBe[p] :
       /\ new.saved # None =>
            /\ new.saved.audio \in AudioLists /\ new.saved.note \in NoteLists
            /\ ~HasDuplicates(new.saved.audio, new.saved.note)
       /\ new.autoOut => new.loaded
  /\ None \notin AudioLists \cup NoteLists /\ Panics \notin Nat \cup {None}
  /\ \A req \in EdgeReqs : {req.src.channel, req.dst.channel} \subseteq Nat
  /\ \A p \in Plugins :
       /\ MayDo[p].audio \subseteq AudioLists \cup {Failed}
       /\ MayDo[p].note \subseteq NoteLists \cup {Failed}
       /\ MayDo[p].latency \subseteq Nat
       /\ MayDo[p].accepts \subseteq BOOLEAN
       /\ MayDo[p].requests \subseteq SUBSET
            {"RESTART", "RESCAN_AUDIO_PORTS", "RESCAN_NOTE_PORTS", "PROCESS"}

VARIABLES
  graph,      \* AudioGraphHelper: ports and latency of every node, edges
  dsEdges,    \* the keys of edge_id_to_ds_edge_id
  host,       \* the pool: plugin -> PluginHostMainThread
  made,       \* plugins created so far
  nextEdge,   \* the number of the next edge
  attempts,   \* attempts to activate a plugin so far
  stage,      \* what modify_graph or on_idle is doing
  removed,    \* removed_plugins of modify_graph
  todo,       \* plugins on_idle has yet to look at
  leaving,    \* plugins_to_remove of on_idle
  recompile,  \* recompile_graph of on_idle
  schedule,   \* what the current schedule was compiled from
  engine,     \* "running", or how it stopped
  told,       \* history: edges the user was told of, minus those told removed
  asked,      \* history: edges the user disconnected
  lost,       \* history: edges an activation removed before it failed
  unsynced,   \* history: plugins with saved ports that never got ports
  torn,       \* history: plugins with ports from an activation that failed
  failed,     \* history: plugins with such a failure at any time
  partial,    \* history: plugins whose two lists were not fetched together
  missed,     \* history: an activation changed the graph and failed, uncompiled
  twice       \* history: plugins removed again while in the pool

edgeVars == <<dsEdges, nextEdge, asked>>
countVars == <<made, attempts>>
idleVars == <<todo, leaving, recompile>>
vars == <<graph, dsEdges, host, made, nextEdge, attempts, stage, removed, todo, leaving,
          recompile, schedule, engine, told, asked, lost, unsynced, torn, failed, partial, missed,
          twice>>

GraphIn == "graph in"
GraphOut == "graph out"

Dead == "Inactive, with error"

-----------------------------------------------------------------------------
(* The library. *)

Put(f, x, v) == [y \in DOMAIN f \cup {x} |-> IF y = x THEN v ELSE f[y]]

Nodes == DOMAIN graph.ports

GraphIOPorts(input) ==
  [q \in 0..GraphIO - 1 |-> [type |-> "Audio", input |-> input]]

EmptyGraph ==
  [ports |-> [n \in {GraphIn, GraphOut} |-> GraphIOPorts(n = GraphOut)],
   latency |-> [n \in {GraphIn, GraphOut} |-> 0],
   edges |-> {}]

EdgesOf(n) == {e \in graph.edges : n \in {e.src, e.dst}}

EdgesAt(n, ports) ==
  {e \in graph.edges : \/ e.src = n /\ e.srcPort \in ports
                       \/ e.dst = n /\ e.dstPort \in ports}

Ids(edges) == {e.id : e \in edges}

Without(n) == [graph EXCEPT
  !.ports = [m \in Nodes \ {n} |-> @[m]],
  !.latency = [m \in Nodes \ {n} |-> @[m]],
  !.edges = @ \ EdgesOf(n)]

Reaches(from, to) ==
  \A S \in SUBSET Nodes :
    (from \in S /\ \A e \in graph.edges : e.src \in S => e.dst \in S) => to \in S

(* add_edge, with its check for cycles on *)
Accepts(src, srcPort, dst, dstPort) ==
  /\ {src, dst} \subseteq Nodes
  /\ srcPort \in DOMAIN graph.ports[src]
  /\ dstPort \in DOMAIN graph.ports[dst]
  /\ ~graph.ports[src][srcPort].input
  /\ graph.ports[dst][dstPort].input
  /\ graph.ports[src][srcPort].type = graph.ports[dst][dstPort].type
  /\ \A e \in graph.edges :
       <<e.src, e.srcPort, e.dst, e.dstPort>> # <<src, srcPort, dst, dstPort>>
  /\ ~Reaches(dst, src)

-----------------------------------------------------------------------------
(* The user learns from the result of a call which edges it removed. *)
Reports_Fault(gone) == UNCHANGED told

Reports(gone) == told' = told \ gone

(* Plugins. *)

(* PluginHostMainThread::new: saved is None for a plugin that is new.  A   *)
(* missing plugin answers what was saved, and fails when nothing was.      *)
NewHost(saved, loaded, hasAutoOut) ==
  LET ports == IF saved = None THEN Empty ELSE saved
  IN [portOf |-> <<>>, free |-> <<>>, next |-> 0, hasAutoOut |-> hasAutoOut,
      mainIn |-> <<>>, mainOut |-> <<>>, mainNoteIn |-> None, mainNoteOut |-> None,
      audio |-> ports.audio, note |-> ports.note, latency |-> 0,
      loaded |-> loaded, hasSaved |-> saved # None,
      state |-> "Inactive", restarting |-> FALSE, removeRequested |-> FALSE,
      rescanAudio |-> FALSE, rescanNote |-> FALSE, hasActivationOnce |-> FALSE]

Answers(h, exts, saved) ==
  IF h.loaded THEN exts ELSE IF h.hasSaved THEN {saved} ELSE {Failed}

AudioAnswers(p, h) ==
  IF h.rescanAudio \/ ~h.hasActivationOnce THEN Answers(h, MayDo[p].audio, h.audio)
  ELSE {None}

NoteAnswers(p, h) ==
  IF h.rescanNote \/ ~h.hasActivationOnce THEN Answers(h, MayDo[p].note, h.note)
  ELSE {None}

LatencyAnswers(p, h) == IF h.loaded THEN MayDo[p].latency ELSE {0}

(* A missing plugin never activates. *)
ActivateAnswers(p, h) == IF h.loaded THEN MayDo[p].accepts ELSE {FALSE}

(* The activation ends before a port was touched. *)
Refuse(p, h, g, unsyncedBefore) ==
  /\ host' = Put(host, p, [h EXCEPT !.state = Dead])
  /\ graph' = g
  /\ unsynced' = unsyncedBefore
  /\ missed' = (missed \/ g # graph)
  /\ UNCHANGED <<dsEdges, recompile, told, lost, torn, failed, partial>>

Ports(h) == {h.portOf[c] : c \in DOMAIN h.portOf}

(* What sync_ports_in_graph does to the ports of a node, and to the graph. *)
SyncedPorts(ports, old, new) ==
  LET type(q) == LET c == CHOOSE c \in DOMAIN new.portOf : new.portOf[c] = q
                 IN [type |-> c.type, input |-> c.input]
  IN [q \in (DOMAIN ports \ Ports(old)) \cup Ports(new) |->
        IF q \in Ports(old) THEN ports[q] ELSE type(q)]

SyncedGraph(g, p, old, new) == [g EXCEPT
  !.ports[p] = SyncedPorts(@, old, new),
  !.edges = @ \ EdgesAt(p, Ports(old) \ Ports(new))]

(* needs_recompile *)
NeedsRecompile_Fault(old, new) == old.latency # new.latency

NeedsRecompile(old, new) ==
  old.latency # new.latency \/ DOMAIN old.portOf # DOMAIN new.portOf

(* A host that has activated its plugin. *)
ActiveHost(h, audio, note) ==
  [h EXCEPT !.state = "Active", !.hasActivationOnce = TRUE,
            !.audio = IF audio = None THEN @ ELSE audio,
            !.note = IF note = None THEN @ ELSE note]

(* activate() from the moment both lists are at hand *)
Sync(p, h, g, unsyncedBefore, audio, note, latency) ==
  LET h0 == [h EXCEPT !.latency = latency]
      g0 == IF h.latency = latency THEN g ELSE [g EXCEPT !.latency[p] = latency]
      fetched == {audio, note} # {None}
  IN IF fetched /\ HasDuplicates(audio, note)
     THEN Refuse(p, h0, g0, unsyncedBefore)
     ELSE \E h1 \in IF fetched THEN Synced(h0, audio, note) ELSE {h0} :
       LET g1   == SyncedGraph(g0, p, h0, h1)
           gone == Ids(g.edges) \ Ids(g1.edges)
       IN /\ graph' = g1
          /\ dsEdges' = dsEdges \ gone
          /\ unsynced' = unsyncedBefore \ (IF fetched THEN {p} ELSE {})
          /\ partial' = IF fetched /\ None \in {audio, note}
                        THEN partial \cup {p} ELSE partial
          /\ \/ /\ TRUE \in ActivateAnswers(p, h)
                /\ host' = Put(host, p, ActiveHost(h1, audio, note))
                /\ recompile' = (recompile \/ NeedsRecompile(h, h1))
                /\ Reports(gone)
                /\ torn' = IF None \in {audio, note} THEN torn ELSE torn \ {p}
                /\ UNCHANGED <<lost, failed, missed>>
             \/ /\ FALSE \in ActivateAnswers(p, h)
                /\ host' = Put(host, p, [h1 EXCEPT !.state = Dead])
                /\ lost' = lost \cup gone
                /\ torn' = IF fetched THEN torn \cup {p} ELSE torn
                /\ failed' = failed \cup torn'
                /\ missed' = (missed \/ g1 # graph)
                /\ UNCHANGED <<recompile, told>>

(* PluginHostMainThread::activate, with the graph as it is by then *)
Activate(p, h, g, unsyncedBefore) ==
  LET h1 == [h EXCEPT !.rescanAudio = FALSE]
      h2 == [h1 EXCEPT !.rescanNote = FALSE]
  IN /\ attempts < MaxActivations
     /\ attempts' = attempts + 1
     /\ \E audio \in AudioAnswers(p, h), note \in NoteAnswers(p, h) :
          \/ audio = Failed /\ Refuse(p, h1, g, unsyncedBefore)
          \/ audio # Failed /\ note = Failed /\ Refuse(p, h2, g, unsyncedBefore)
          \/ /\ Failed \notin {audio, note}
             /\ \E latency \in LatencyAnswers(p, h) :
                  Sync(p, h2, g, unsyncedBefore, audio, note, latency)

-----------------------------------------------------------------------------
(* modify_graph: disconnect, remove, add, connect, compile. *)

Order == [rest |-> 0, disconnect |-> 1, remove |-> 2, add |-> 3, connect |-> 4]

Modifies(s) ==
  /\ engine = "running"
  /\ stage \in DOMAIN Order
  /\ Order[stage] <= Order[s]
  /\ stage' = s

(* An edge that is gone is reported as not found, with a warning. *)
Disconnect(id) ==
  /\ Modifies("disconnect")
  /\ id \in told
  /\ IF id \in dsEdges
     THEN /\ dsEdges' = dsEdges \ {id}
          /\ graph' = [graph EXCEPT !.edges = {e \in @ : e.id # id}]
          /\ asked' = asked \cup {id}
     ELSE UNCHANGED <<dsEdges, graph, asked>>
  /\ UNCHANGED <<host, countVars, nextEdge, removed, idleVars, schedule, engine, told, lost,
                 unsynced, torn, failed, partial, missed, twice>>

ScheduleRemove(h) ==
  [h EXCEPT !.removeRequested = TRUE,
            !.state = IF @ = "Active" THEN "WaitingToDrop" ELSE @]

(* The edges of a node are removed with it.  Of a plugin whose node is     *)
(* gone while it waits in the pool, the library returns an error, and the  *)
(* code unwraps it; within one request, a second removal is ignored.       *)
RemovePlugin(p) ==
  /\ Modifies("remove")
  /\ p \in DOMAIN host \ removed
  /\ removed' = removed \cup {p}
  /\ host' = [host EXCEPT ![p] = ScheduleRemove(@)]
  /\ IF p \in Nodes
     THEN /\ graph' = Without(p)
          /\ dsEdges' = dsEdges \ Ids(EdgesOf(p))
          /\ Reports(Ids(EdgesOf(p)))
          /\ UNCHANGED <<engine, twice>>
     ELSE /\ engine' = "panicked"
          /\ twice' = twice \cup {p}
          /\ UNCHANGED <<graph, dsEdges, told>>
  /\ UNCHANGED <<countVars, nextEdge, idleVars, schedule, asked, lost, unsynced,
                 torn, failed, partial, missed>>

(* add_new_plugin_instance, with create_plugin *)
AddNode(p) == [graph EXCEPT !.ports = Put(@, p, <<>>), !.latency = Put(@, p, 0)]

AddPlugin(p) ==
  /\ Modifies("add")
  /\ p \notin made
  /\ made' = made \cup {p}
  /\ \E new \in MayBe[p] :
       LET h == NewHost(new.saved, new.loaded, new.autoOut)
           u == IF new.saved = None THEN unsynced ELSE unsynced \cup {p}
       IN IF new.active
          THEN Activate(p, h, AddNode(p), u)
          ELSE /\ graph' = AddNode(p)
               /\ host' = Put(host, p, h)
               /\ unsynced' = u
               /\ UNCHANGED <<dsEdges, attempts, recompile, told, lost, torn,
                              failed, partial, missed>>
  /\ UNCHANGED <<nextEdge, removed, todo, leaving, schedule, engine, asked, twice>>

(* An end of a requested edge is [id, channel], where the id is Main or    *)
(* a stable id.  The result is the number of a port, None, or Panics when  *)
(* the port has no channel any more: the code unwraps that.                *)
MainPort(h, p) == IF \E c \in DOMAIN h.portOf : h.portOf[c] = p THEN p ELSE Panics

EndPort(n, type, input, end) ==
  IF n \in {GraphIn, GraphOut}
  THEN IF end.id = Main /\ type = "Audio" /\ end.channel < GraphIO
          /\ (n = GraphOut) = input
       THEN end.channel ELSE None
  ELSE
  LET h    == host[n]
      main == IF input THEN h.mainIn ELSE h.mainOut
      note == IF input THEN h.mainNoteIn ELSE h.mainNoteOut
      c    == CASE type = "Automation" /\ end.id = Main -> Channel(type, input, 0, 0)
                [] OTHER -> Channel(type, input, end.id, end.channel)
  IN CASE end.id = Main /\ type = "Audio" ->
            IF end.channel < Len(main) THEN MainPort(h, main[end.channel + 1]) ELSE None
       [] end.id = Main /\ type = "Note" ->
            IF note = None THEN None ELSE MainPort(h, note)
       [] OTHER -> IF c \in DOMAIN h.portOf THEN h.portOf[c] ELSE None

(* connect_edge *)
Connect(src, dst, req) ==
  /\ Modifies("connect")
  /\ nextEdge < MaxEdges
  /\ LET sp == EndPort(src, req.type, FALSE, req.src)
         dp == EndPort(dst, req.type, TRUE, req.dst)
     IN IF sp = Panics \/ (sp # None /\ dp = Panics)
        THEN engine' = "panicked" /\ UNCHANGED <<graph, dsEdges, nextEdge, told>>
        ELSE /\ IF sp # None /\ dp # None /\ Accepts(src, sp, dst, dp)
                THEN /\ graph' = [graph EXCEPT !.edges = @ \cup
                          {[id |-> nextEdge, src |-> src, srcPort |-> sp,
                            dst |-> dst, dstPort |-> dp]}]
                     /\ dsEdges' = dsEdges \cup {nextEdge}
                     /\ told' = told \cup {nextEdge}
                     /\ nextEdge' = nextEdge + 1
                ELSE UNCHANGED <<graph, dsEdges, nextEdge, told>>
             /\ UNCHANGED engine
  /\ UNCHANGED <<host, countVars, removed, idleVars, schedule, asked, lost, unsynced, torn, failed,
                 partial, missed, twice>>

-----------------------------------------------------------------------------
(* The compiler. *)

(* construct_loaded_plugin_task asks for a buffer for every channel the    *)
(* plugin announced, construct_unloaded_plugin_task for those it passes    *)
(* through.                                                                *)
Through(list, input, n) ==
  {Channel("Audio", input, list[1].id, c) : c \in 0..n - 1}

NeedsBuffer(h) ==
  IF h.loaded THEN ToSet(AudioList(h.audio)) \cup ToSet(NoteList(h.note))
  ELSE (IF h.audio.layout # "InOut" THEN {}
        ELSE LET i == h.audio.inputs[1].channels
                 o == h.audio.outputs[1].channels
                 n == IF i < o THEN i ELSE o
             IN Through(h.audio.inputs, TRUE, n) \cup Through(h.audio.outputs, FALSE, n))
       \cup (IF <<>> \in {h.note.inputs, h.note.outputs} THEN {}
             ELSE {Channel("Note", TRUE, h.note.inputs[1], 0),
                   Channel("Note", FALSE, h.note.outputs[1], 0)})

(* construct_plugin_task finds the host of a node, and the channel, of the *)
(* right type, of every port it has a buffer for.                          *)
TaskIsMade(p) ==
  /\ p \in DOMAIN host
  /\ \A q \in DOMAIN graph.ports[p] :
       \E c \in DOMAIN host[p].portOf :
         host[p].portOf[c] = q /\ c.type = graph.ports[p][q].type
  /\ \A c \in NeedsBuffer(host[p]) :
       c \in DOMAIN host[p].portOf /\ host[p].portOf[c] \in DOMAIN graph.ports[p]

PluginNodes == Nodes \ {GraphIn, GraphOut}

Snapshot == [graph |-> graph,
             layout |-> [p \in PluginNodes |-> <<host[p].audio, host[p].note>>]]

(* A graph that does not compile ends the engine. *)
Compile ==
  /\ missed' = FALSE
  /\ IF \A p \in PluginNodes : TaskIsMade(p)
     THEN schedule' = Snapshot /\ UNCHANGED engine
     ELSE engine' = "crashed" /\ UNCHANGED schedule

EndModify ==
  /\ engine = "running"
  /\ stage \in DOMAIN Order
  /\ stage' = "rest"
  /\ removed' = {}
  /\ recompile' = FALSE
  /\ Compile
  /\ UNCHANGED <<graph, edgeVars, host, countVars, todo, leaving, told, lost, unsynced, torn, failed,
                 partial, twice>>

-----------------------------------------------------------------------------
(* on_idle: every plugin of the pool, then those that leave, then compile. *)

(* The process thread has dropped the processor of a plugin.  It can at any*)
(* time; within modify_graph and on_idle it makes no other difference than *)
(* before or after them, as each looks at a plugin's state only once.      *)
DropProcessor(p) ==
  /\ engine = "running"
  /\ stage = "rest"
  /\ p \in DOMAIN host
  /\ host[p].state = "WaitingToDrop"
  /\ host' = [host EXCEPT ![p].state = "Dropped"]
  /\ UNCHANGED <<graph, edgeVars, countVars, stage, removed, idleVars, schedule, engine, told, lost,
                 unsynced, torn, failed, partial, missed, twice>>

BeginIdle ==
  /\ engine = "running"
  /\ stage = "rest"
  /\ DOMAIN host # {}
  /\ stage' = "idle"
  /\ todo' = DOMAIN host
  /\ UNCHANGED <<graph, edgeVars, host, countVars, removed, leaving, recompile, schedule, engine,
                 told, lost,
                 unsynced, torn, failed, partial, missed, twice>>

(* A request to restart or to rescan ports. *)
Requested(h, requests) ==
  IF requests \cap {"RESTART", "RESCAN_AUDIO_PORTS", "RESCAN_NOTE_PORTS"} = {} THEN h
  ELSE [h EXCEPT
         !.rescanAudio = @ \/ "RESCAN_AUDIO_PORTS" \in requests,
         !.rescanNote = @ \/ "RESCAN_NOTE_PORTS" \in requests,
         !.restarting = TRUE,
         !.state = IF @ = "Active" THEN "WaitingToDrop" ELSE @]

Stays(p, h) ==
  /\ host' = [host EXCEPT ![p] = h]
  /\ UNCHANGED <<graph, dsEdges, attempts, recompile, told, lost, unsynced, torn,
                 failed, partial, missed>>

Reactivates(h, requests) ==
  IF h.state = "Dropped" THEN h.restarting \/ "PROCESS" \in requests
  ELSE /\ "PROCESS" \in requests
       /\ ~h.restarting
       /\ h.state \in {"Inactive", Dead}

(* PluginHostMainThread::on_idle, as far as the graph is concerned *)
OnIdle(p, requests) ==
  LET h == Requested(host[p], requests)
  IN /\ engine = "running"
     /\ stage = "idle"
     /\ p \in todo
     /\ requests # {} => h.loaded
     /\ todo' = todo \ {p}
     /\ IF ~h.removeRequested /\ Reactivates(h, requests)
        THEN Activate(p, h, graph, unsynced) /\ UNCHANGED leaving
        ELSE /\ Stays(p, IF h.state = "Dropped" THEN [h EXCEPT !.state = "Inactive"]
                         ELSE h)
             /\ leaving' = IF h.removeRequested /\ h.state = "Dropped"
                           THEN leaving \cup {p} ELSE leaving
     /\ UNCHANGED <<nextEdge, made, stage, removed, schedule, engine, asked, twice>>

EndIdle ==
  /\ engine = "running"
  /\ stage = "idle"
  /\ todo = {}
  /\ stage' = "rest"
  /\ host' = [p \in DOMAIN host \ leaving |-> host[p]]
  /\ leaving' = {} /\ recompile' = FALSE
  /\ IF recompile THEN Compile ELSE UNCHANGED <<schedule, engine, missed>>
  /\ UNCHANGED <<graph, edgeVars, countVars, removed, todo, told, lost, unsynced, torn, failed,
                 partial, twice>>

-----------------------------------------------------------------------------
Init ==
  /\ graph = EmptyGraph
  /\ dsEdges = {} /\ nextEdge = 0 /\ attempts = 0
  /\ host = <<>> /\ made = {}
  /\ stage = "rest" /\ removed = {} /\ todo = {} /\ leaving = {} /\ recompile = FALSE
  /\ schedule = [graph |-> EmptyGraph, layout |-> <<>>]
  /\ engine = "running"
  /\ told = {} /\ asked = {} /\ lost = {}
  /\ unsynced = {} /\ torn = {} /\ failed = {} /\ partial = {}
  /\ missed = FALSE /\ twice = {}

Next ==
  \/ \E id \in told : Disconnect(id)
  \/ \E p \in Plugins : RemovePlugin(p) \/ AddPlugin(p) \/ DropProcessor(p)
  \/ \E src, dst \in DOMAIN host \cup {GraphIn, GraphOut}, req \in EdgeReqs :
       Connect(src, dst, req)
  \/ EndModify
  \/ BeginIdle
  \/ \E p \in todo : \E requests \in MayDo[p].requests : OnIdle(p, requests)
  \/ EndIdle

Spec == Init /\ [][Next]_vars

-----------------------------------------------------------------------------
(* Every plugin host in the pool has been made, and its fields have their  *)
(* types.                                                                  *)
TypeOK ==
  /\ DOMAIN host \subseteq made /\ made \subseteq Plugins
  /\ PluginNodes \subseteq made
  /\ \A p \in DOMAIN host :
       /\ DOMAIN host[p].portOf \subseteq Channels
       /\ Ports(host[p]) \subseteq 0..host[p].next - 1
       /\ ToSet(host[p].free) \subseteq 0..host[p].next - 1
       /\ host[p].state \in {"Inactive", "Active", "WaitingToDrop", "Dropped", Dead}
  /\ dsEdges \cup told \cup asked \cup lost \subseteq 0..nextEdge - 1
  /\ nextEdge \in 0..MaxEdges /\ attempts \in 0..MaxActivations
  /\ stage \in DOMAIN Order \cup {"idle"}
  /\ todo \cup leaving \cup removed \subseteq DOMAIN host
  /\ engine \in {"running", "crashed", "panicked"}
  /\ unsynced \cup failed \cup partial \cup twice \subseteq made /\ torn \subseteq failed
  /\ {recompile, missed} \subseteq BOOLEAN

(* A host and the abstract graph agree on the ports of a plugin: each      *)
(* channel has a port of its own of its type and direction, the graph has  *)
(* no other, and the numbers to be used again are not in use.              *)
ChannelsHavePorts ==
  \A p \in PluginNodes :
    LET h == host[p]
    IN /\ \A c, d \in DOMAIN h.portOf : h.portOf[c] = h.portOf[d] => c = d
       /\ DOMAIN graph.ports[p] = Ports(h)
       /\ \A c \in DOMAIN h.portOf :
            graph.ports[p][h.portOf[c]] = [type |-> c.type, input |-> c.input]
       /\ ToSet(h.free) \cap Ports(h) = {}
       /\ IsInjective(h.free)

(* Every edge goes from an output to an input of one type, both of them    *)
(* ports that exist, and the engine's own table names exactly the edges of *)
(* the graph: whatever removes an edge, the user, a plugin or one of its   *)
(* ports, removes both.                                                    *)
EdgesJoinPorts ==
  /\ dsEdges = Ids(graph.edges)
  /\ \A e \in graph.edges :
       /\ {e.src, e.dst} \subseteq Nodes
       /\ e.srcPort \in DOMAIN graph.ports[e.src]
       /\ e.dstPort \in DOMAIN graph.ports[e.dst]
       /\ ~graph.ports[e.src][e.srcPort].input
       /\ graph.ports[e.dst][e.dstPort].input
       /\ graph.ports[e.src][e.srcPort].type = graph.ports[e.dst][e.dstPort].type

(* Once a plugin is activated, "main" names the ports it announced first,  *)
(* in the order of their channels, whatever it announced before.           *)
MainPortsAreFirst ==
  \A p \in DOMAIN host \ (unsynced \cup torn) :
    LET h == host[p]
        first(list, input) ==
          IF list = <<>> THEN <<>> ELSE AudioChannels(<<list[1]>>, input)
        are(ports, channels) ==
          Len(ports) = Len(channels) /\ \A i \in DOMAIN ports :
            channels[i] \in DOMAIN h.portOf /\ h.portOf[channels[i]] = ports[i]
        in == h.audio.layout \in {"InOut", "InOnly"}
        out == h.audio.layout \in {"InOut", "OutOnly"}
        isFirst(port, ids, input) ==
          IF ids = <<>> THEN port = None
          ELSE LET c == Channel("Note", input, ids[1], 0)
               IN c \in DOMAIN h.portOf /\ port = h.portOf[c]
    IN /\ are(h.mainIn, IF in THEN first(h.audio.inputs, TRUE) ELSE <<>>)
       /\ are(h.mainOut, IF out THEN first(h.audio.outputs, FALSE) ELSE <<>>)
       /\ p \in partial \/ (/\ isFirst(h.mainNoteIn, h.note.inputs, TRUE)
                           /\ isFirst(h.mainNoteOut, h.note.outputs, FALSE))

(* The tables that are about ports agree: the port map of a host and the   *)
(* abstract graph, the engine's table of edges, and the main ports the user*)
(* may name, whatever order of activations, rescans and removals led there.*)
PortsAgree == ChannelsHavePorts /\ EdgesJoinPorts /\ MainPortsAreFirst

(* The results of the engine's calls tell the user of every edge there is, *)
(* and of every edge that goes, except those the user disconnects and those*)
(* of an activation that fails after it removed ports.                     *)
UserKnowsEdges == Ids(graph.edges) \subseteq told /\ told \subseteq dsEdges \cup asked \cup lost

(* Between two calls, the schedule is that of the graph as it stands,      *)
(* unless an activation has failed since it was compiled, and gives each   *)
(* plugin that never failed to activate a buffer for each channel it       *)
(* announced, and no other.                                                *)
GraphIsScheduled ==
  engine = "running" /\ stage = "rest" => missed \/ schedule.graph = graph

ChannelsOf(layout) == ToSet(AudioList(layout[1])) \cup ToSet(NoteList(layout[2]))

ScheduleIsCurrent ==
  /\ GraphIsScheduled
  /\ engine = "running" /\ stage = "rest" =>
       \A p \in PluginNodes \ failed :
         ChannelsOf(schedule.layout[p]) = ChannelsOf(Snapshot.layout[p])

(* A graph fails to compile only when it has a plugin whose saved ports    *)
(* were never put in the graph, or one that failed to activate after its   *)
(* ports were; and the main thread panics only on a second removal or on a *)
(* main port of a plugin that had one of its lists fetched alone.          *)
StopsAreExplained ==
  /\ engine = "crashed" => (unsynced \cup torn) \cap PluginNodes # {}
  /\ engine = "panicked" => twice \cup partial # {}

(* While the host looks at its plugins, an edge goes only when a port at   *)
(* one of its ends does: a channel that a restarted plugin still announces *)
(* keeps its port and its edges, in a list that was not fetched again too. *)
ChannelOf(h, q) == CHOOSE c \in DOMAIN h.portOf : h.portOf[c] = q

Offers(p, q) ==
  \/ p \in {GraphIn, GraphOut}
  \/ LET c == ChannelOf(host[p], q)
     IN \/ c \in DOMAIN host'[p].portOf
        \/ host'[p].state = "Active" /\ c \in NeedsBuffer(host'[p])

RestartKeepsEdges ==
  [][stage = "idle" => \A e \in graph.edges \ graph'.edges :
       ~Offers(e.src, e.srcPort) \/ ~Offers(e.dst, e.dstPort)]_vars

-----------------------------------------------------------------------------
(* engine/main_thread.rs:684: NewPluginRes may say Inactive, "when the     *)
(* user loads a project with a deactivated plugin".  Such a project loads: *)
(* the graph fails to compile only because of a failed activation.         *)
InactivePluginsCompile == engine = "crashed" => torn # {}

(* plugin-api/src/ext/audio_ports.rs:14: "The list of input audio ports, in*)
(* order".  The buffers of a plugin are in that order; but ports that are  *)
(* only announced in another order do not make the graph compile.          *)
BuffersAreInOrder ==
  engine = "running" /\ stage = "rest" =>
    \A p \in PluginNodes \ failed : schedule.layout[p] = Snapshot.layout[p]

=============================================================================
