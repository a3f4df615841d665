------------------------- MODULE GraphPorts_proofs -------------------------
(***************************************************************************)
(* Proofs about the audio graph, for any plugins, whatever they answer.    *)
(*                                                                         *)
(* The inductive invariant, IInv, is made up of                            *)
(*                                                                         *)
(*   EdgeInv      the ids of edges: the engine has told the user of them;  *)
(*   PortInv      the nodes: a plugin that stays has one, with the ports   *)
(*                its host has for it, and edges join outputs to inputs;   *)
(*   HostsInv     the hosts: no two channels of one share a port, none has *)
(*                a free one, and, unless its last activation failed, they *)
(*                are those of the lists it announces, which begin with    *)
(*                the main ones;                                           *)
(*   RecordInv    the recorded history and the phase of a call;            *)
(*   ScheduleInv  the schedule: it is that of the graph, and               *)
(*   LayoutInv    of the channels announced, or a change is noted;         *)
(*   and of StopsAreExplained.                                             *)
(*                                                                         *)
(* The lemmas are about FlattenSeq and the channels of lists, the ports    *)
(* that are taken and given back, sync_ports_in_graph, field by field, and *)
(* what an activation leaves; the steps of the parts follow.               *)
(***************************************************************************)
EXTENDS GraphPorts, Induction, FiniteSetTheorems, SequenceTheorems

(* The library's graph is a record of its three parts.                     *)
IsGraph(g) ==
  DOMAIN g = {"ports", "latency", "edges"} /\ g = [x \in DOMAIN g |-> g[x]]

(* The ids of edges are in use once, and the engine's table and the user   *)
(* have them.                                                              *)
EdgeInv ==
  /\ IsGraph(graph)
  /\ dsEdges = Ids(graph.edges)
  /\ \A e, f \in graph.edges : e.id = f.id => e = f
  /\ nextEdge \in Nat
  /\ dsEdges \subseteq 0..nextEdge - 1
  /\ dsEdges \subseteq told
  /\ told \subseteq dsEdges \cup asked \cup lost

-----------------------------------------------------------------------------
(* sync_ports_in_graph removes edges, and adds none.                       *)
LEMMA SyncedGraphEdges ==
  ASSUME NEW g, IsGraph(g), NEW p, NEW old, NEW new
  PROVE  /\ IsGraph(SyncedGraph(g, p, old, new))
         /\ SyncedGraph(g, p, old, new).edges \subseteq g.edges
BY DEF SyncedGraph, IsGraph

(* So does an activation, which leaves the table, and what the user knows, *)
(* as they have to be.                                                     *)
LEMMA SyncEdges ==
  ASSUME EdgeInv, NEW p, NEW h, NEW g, NEW u, NEW audio, NEW note, NEW latency,
         IsGraph(g), g.edges = graph.edges,
         Sync(p, h, g, u, audio, note, latency), UNCHANGED <<nextEdge, asked>>
  PROVE  EdgeInv'
<1> DEFINE h0 == [h EXCEPT !.latency = latency]
           g0 == IF h.latency = latency THEN g ELSE [g EXCEPT !.latency[p] = latency]
           fetched == {audio, note} # {None}
<1>1. IsGraph(g0) /\ g0.edges = graph.edges
  BY DEF IsGraph
<1>2. CASE fetched /\ HasDuplicates(audio, note)
  <2>1. graph' = g0 /\ UNCHANGED <<dsEdges, told, lost>>
    BY <1>2 DEF Sync, Refuse
  <2> QED BY <1>1, <2>1 DEF EdgeInv, Ids
<1>3. CASE ~(fetched /\ HasDuplicates(audio, note))
  <2>1. PICK h1 \in IF fetched THEN Synced(h0, audio, note) ELSE {h0} :
          LET g1   == SyncedGraph(g0, p, h0, h1)
              gone == Ids(g.edges) \ Ids(g1.edges)
          IN /\ graph' = g1
             /\ dsEdges' = dsEdges \ gone
             /\ \/ told' = told \ gone /\ lost' = lost
                \/ told' = told /\ lost' = lost \cup gone
    BY <1>3 DEF Sync, Reports
  <2> DEFINE g1 == SyncedGraph(g0, p, h0, h1)
             gone == Ids(g.edges) \ Ids(g1.edges)
  <2>2. IsGraph(g1) /\ g1.edges \subseteq graph.edges
    BY <1>1, SyncedGraphEdges
  <2>3. /\ graph' = g1 /\ dsEdges' = dsEdges \ gone
        /\ \/ told' = told \ gone /\ lost' = lost
           \/ told' = told /\ lost' = lost \cup gone
    BY <2>1
  <2>4. gone = dsEdges \ Ids(g1.edges) /\ Ids(g1.edges) \subseteq dsEdges
    BY <2>2 DEF EdgeInv, Ids
  <2> HIDE DEF g1, gone
  <2>5. dsEdges' = Ids(g1.edges)
    BY <2>3, <2>4
  <2> QED BY <2>2, <2>3, <2>4, <2>5 DEF EdgeInv
<1> QED BY <1>2, <1>3

(* So does one that is refused before it gets there.                       *)
LEMMA ActivateEdges ==
  ASSUME EdgeInv, NEW p, NEW h, NEW g, NEW u,
         IsGraph(g), g.edges = graph.edges,
         Activate(p, h, g, u), UNCHANGED <<nextEdge, asked>>
  PROVE  EdgeInv'
<1>1. CASE \E hh : Refuse(p, hh, g, u)
  BY <1>1 DEF Refuse, EdgeInv, Ids
<1>2. CASE \E hh, audio, note, latency : Sync(p, hh, g, u, audio, note, latency)
  BY <1>2, SyncEdges
<1> QED BY <1>1, <1>2 DEF Activate

-----------------------------------------------------------------------------
(* A step, or a stutter, keeps the ids of edges in agreement.              *)
LEMMA EdgeInvStep == EdgeInv /\ [Next]_vars => EdgeInv'
<1> SUFFICES ASSUME EdgeInv, [Next]_vars PROVE EdgeInv'
  OBVIOUS
<1> USE DEF edgeVars, countVars, idleVars
<1>1. ASSUME NEW id \in told, Disconnect(id) PROVE EdgeInv'
  <2>1. CASE id \in dsEdges
    <3>1. IsGraph(graph') /\ graph'.edges = {e \in graph.edges : e.id # id}
      BY <1>1, <2>1 DEF Disconnect, EdgeInv, IsGraph
    <3>2. Ids(graph'.edges) = dsEdges \ {id}
      BY <3>1 DEF EdgeInv, Ids
    <3> QED BY <1>1, <2>1, <3>1, <3>2 DEF Disconnect, EdgeInv
  <2>2. CASE id \notin dsEdges
    BY <1>1, <2>2 DEF Disconnect, EdgeInv, Ids
  <2> QED BY <2>1, <2>2
<1>2. ASSUME NEW p \in Plugins, RemovePlugin(p) PROVE EdgeInv'
  <2>1. CASE p \in Nodes
    <3>1. IsGraph(graph') /\ graph'.edges = graph.edges \ EdgesOf(p)
      BY <1>2, <2>1 DEF RemovePlugin, Without, EdgeInv, IsGraph
    <3>2. EdgesOf(p) \subseteq graph.edges
      BY DEF EdgesOf
    <3>3. Ids(graph'.edges) = dsEdges \ Ids(EdgesOf(p))
      BY <3>1, <3>2 DEF EdgeInv, Ids
    <3>4. /\ dsEdges' = dsEdges \ Ids(EdgesOf(p)) /\ told' = told \ Ids(EdgesOf(p))
          /\ UNCHANGED <<nextEdge, asked, lost>>
      BY <1>2, <2>1 DEF RemovePlugin, Reports
    <3> QED BY <3>1, <3>2, <3>3, <3>4 DEF EdgeInv
  <2>2. CASE p \notin Nodes
    BY <1>2, <2>2 DEF RemovePlugin, EdgeInv, Ids
  <2> QED BY <2>1, <2>2
<1>3. ASSUME NEW p \in Plugins, AddPlugin(p) PROVE EdgeInv'
  <2>1. IsGraph(AddNode(p)) /\ AddNode(p).edges = graph.edges
    BY DEF AddNode, EdgeInv, IsGraph
  <2>2. \/ \E h, u : Activate(p, h, AddNode(p), u)
        \/ graph' = AddNode(p) /\ UNCHANGED <<dsEdges, told, lost>>
    BY <1>3 DEF AddPlugin
  <2>3. UNCHANGED <<nextEdge, asked>>
    BY <1>3 DEF AddPlugin
  <2> QED BY <2>1, <2>2, <2>3, ActivateEdges DEF EdgeInv, Ids
<1>4. ASSUME NEW p \in Plugins, DropProcessor(p) PROVE EdgeInv'
  BY <1>4 DEF DropProcessor, EdgeInv, Ids
<1>5. ASSUME NEW src, NEW dst, NEW req \in EdgeReqs, Connect(src, dst, req)
      PROVE  EdgeInv'
  <2>1. CASE UNCHANGED <<graph, dsEdges, nextEdge, told>>
    BY <1>5, <2>1 DEF Connect, EdgeInv, Ids
  <2>2. ASSUME NEW sp, NEW dp,
               graph' = [graph EXCEPT !.edges = @ \cup
                 {[id |-> nextEdge, src |-> src, srcPort |-> sp, dst |-> dst, dstPort |-> dp]}],
               dsEdges' = dsEdges \cup {nextEdge}, told' = told \cup {nextEdge},
               nextEdge' = nextEdge + 1
        PROVE  EdgeInv'
    <3> DEFINE e == [id |-> nextEdge, src |-> src, srcPort |-> sp, dst |-> dst, dstPort |-> dp]
    <3>1. IsGraph(graph') /\ graph'.edges = graph.edges \cup {e} /\ e.id = nextEdge
      BY <2>2 DEF EdgeInv, IsGraph
    <3> HIDE DEF e
    <3>2. Ids(graph'.edges) = dsEdges'
      BY <2>2, <3>1 DEF EdgeInv, Ids
    <3>3. \A f \in graph.edges : f.id \in 0..nextEdge - 1
      BY DEF EdgeInv, Ids
    <3>4. \A f, g \in graph'.edges : f.id = g.id => f = g
      BY <3>1, <3>3 DEF EdgeInv
    <3>5. UNCHANGED <<asked, lost>>
      BY <1>5 DEF Connect
    <3>6. dsEdges' \subseteq 0..nextEdge' - 1 /\ nextEdge' \in Nat
      BY <2>2 DEF EdgeInv
    <3>7. dsEdges' \subseteq told' /\ told' \subseteq dsEdges' \cup asked' \cup lost'
      BY <2>2, <3>5 DEF EdgeInv
    <3> QED BY <3>1, <3>2, <3>4, <3>6, <3>7 DEF EdgeInv
  <2> QED BY <1>5, <2>1, <2>2 DEF Connect
<1>6. CASE EndModify
  BY <1>6 DEF EndModify, EdgeInv, Ids
<1>7. CASE BeginIdle
  BY <1>7 DEF BeginIdle, EdgeInv, Ids
<1>8. ASSUME NEW p \in todo, NEW requests, OnIdle(p, requests) PROVE EdgeInv'
  <2>1. \/ \E h : Activate(p, h, graph, unsynced)
        \/ UNCHANGED <<graph, dsEdges, told, lost>>
    BY <1>8 DEF OnIdle, Stays
  <2>2. UNCHANGED <<nextEdge, asked>>
    BY <1>8 DEF OnIdle
  <2> QED BY <2>1, <2>2, ActivateEdges DEF EdgeInv, Ids
<1>9. CASE EndIdle
  BY <1>9 DEF EndIdle, EdgeInv, Ids
<1>10. CASE UNCHANGED vars
  BY <1>10 DEF vars, EdgeInv, Ids
<1> QED BY <1>1, <1>2, <1>3, <1>4, <1>5, <1>6, <1>7, <1>8, <1>9, <1>10 DEF Next

(* There are no edges at first.                                            *)
LEMMA EdgesInit == Init => EdgeInv
<1>1. IsGraph(EmptyGraph) /\ EmptyGraph.edges = {}
  BY DEF EmptyGraph, IsGraph
<1> QED BY <1>1 DEF Init, EdgeInv, Ids

(* The user is told of every edge there is and of every edge that goes.    *)
THEOREM UserIsTold == Spec => []UserKnowsEdges
<1>1. Init => EdgeInv
  BY EdgesInit
<1>2. EdgeInv => UserKnowsEdges
  BY DEF EdgeInv, UserKnowsEdges
<1> QED BY <1>1, <1>2, EdgeInvStep, PTL DEF Spec

-----------------------------------------------------------------------------
(* The nodes of the graph are the plugins that stay, and the port map of   *)
(* each names its ports.                                                   *)

IsFcn(f) == f = [x \in DOMAIN f |-> f[x]]

HostFields ==
  {"portOf", "free", "next", "hasAutoOut", "mainIn", "mainOut", "mainNoteIn", "mainNoteOut",
   "audio", "note", "latency", "loaded", "hasSaved", "state", "restarting",
   "removeRequested", "rescanAudio", "rescanNote", "hasActivationOnce"}

IsHost(h) == DOMAIN h = HostFields /\ IsFcn(h) /\ IsFcn(h.portOf)

Joins(g, e) ==
  /\ {e.src, e.dst} \subseteq DOMAIN g.ports
  /\ e.srcPort \in DOMAIN g.ports[e.src]
  /\ e.dstPort \in DOMAIN g.ports[e.dst]
  /\ ~g.ports[e.src][e.srcPort].input
  /\ g.ports[e.dst][e.dstPort].input
  /\ g.ports[e.src][e.srcPort].type = g.ports[e.dst][e.dstPort].type

GraphInv(g) ==
  /\ IsGraph(g)
  /\ IsFcn(g.ports)
  /\ \A n \in DOMAIN g.ports : IsFcn(g.ports[n])
  /\ \A e \in g.edges : Joins(g, e)

(* The host of a node, and of a plugin that waits to leave the pool.       *)
Fits(g, p, h) ==
  /\ IsHost(h)
  /\ h.removeRequested <=> p \notin DOMAIN g.ports
  /\ p \in DOMAIN g.ports => DOMAIN g.ports[p] = Ports(h)

PoolInv(g, pool) ==
  /\ DOMAIN g.ports \subseteq DOMAIN pool \cup {GraphIn, GraphOut}
  /\ \A p \in DOMAIN pool : Fits(g, p, pool[p])

PortInv ==
  /\ GraphInv(graph)
  /\ PoolInv(graph, host)
  /\ DOMAIN host \subseteq made /\ made \subseteq Plugins
  /\ todo \subseteq DOMAIN host
  /\ \A p \in leaving : p \in DOMAIN host /\ host[p].removeRequested

(* What the last schedule was compiled from; on_idle compiles if one of    *)
(* its plugins made a change.                                              *)
ScheduleInv ==
  /\ stage = "rest" => recompile = FALSE
  /\ engine = "running" /\ stage \in {"rest", "idle"} =>
       missed \/ recompile \/ schedule.graph = graph

-----------------------------------------------------------------------------
(* f is the recursive function of FlattenSeq, for the first n sequences.   *)
IsFlatten(f, seqs, n) ==
  f = [i \in 1..n |-> IF i = 1 THEN seqs[i] ELSE f[i - 1] \o seqs[i]]

(* Recursion over the sequences defines a function.                        *)
LEMMA FlattenExists ==
  ASSUME NEW seqs, NEW n \in Nat
  PROVE  \E f : IsFlatten(f, seqs, n)
<1> DEFINE S == {m \in Nat : \E f : IsFlatten(f, seqs, m)}
<1>1. 0 \in S
  <2>1. IsFlatten(<<>>, seqs, 0)
    BY DEF IsFlatten
  <2> QED BY <2>1
<1>2. ASSUME NEW m \in Nat, m \in S PROVE m + 1 \in S
  <2>1. PICK f : IsFlatten(f, seqs, m)
    BY <1>2
  <2> DEFINE next == IF m + 1 = 1 THEN seqs[m + 1] ELSE f[m] \o seqs[m + 1]
             g == [i \in 1..m + 1 |-> IF i = m + 1 THEN next ELSE f[i]]
  <2>2. \A i \in 1..m : f[i] = IF i = 1 THEN seqs[i] ELSE f[i - 1] \o seqs[i]
    BY <2>1 DEF IsFlatten
  <2> HIDE DEF next
  <2>3. /\ DOMAIN g = 1..m + 1 /\ g[m + 1] = next
        /\ \A i \in 1..m : g[i] = f[i]
    OBVIOUS
  <2>4. g = [i \in 1..m + 1 |-> g[i]]
    OBVIOUS
  <2> HIDE DEF g
  <2>5. ASSUME NEW i \in 1..m + 1
        PROVE  g[i] = IF i = 1 THEN seqs[i] ELSE g[i - 1] \o seqs[i]
    <3>1. CASE i = m + 1 /\ i # 1
      <4>1. i - 1 = m /\ m \in 1..m
        BY <3>1
      <4> QED BY <2>3, <3>1, <4>1 DEF next
    <3>2. CASE i = m + 1 /\ i = 1
      BY <2>3, <3>2 DEF next
    <3>3. CASE i # m + 1
      <4>1. i \in 1..m /\ (i # 1 => i - 1 \in 1..m)
        BY <3>3
      <4> QED BY <2>2, <2>3, <4>1
    <3> QED BY <3>1, <3>2, <3>3
  <2>6. IsFlatten(g, seqs, m + 1)
    BY <2>4, <2>5 DEF IsFlatten
  <2> QED BY <2>6
<1> HIDE DEF S
<1>3. Nat \subseteq S
  BY <1>1, <1>2, NatSetInduction
<1> QED BY <1>3 DEF S

(* FlattenSeq is the last value of the function that appends the sequences *)
(* one by one.                                                             *)
LEMMA FlattenTrace ==
  ASSUME NEW seqs, NEW n \in Nat \ {0}, Len(seqs) = n
  PROVE  \E f : /\ FlattenSeq(seqs) = f[n] /\ f[1] = seqs[1]
                /\ \A i \in 1..n - 1 : f[i + 1] = f[i] \o seqs[i + 1]
<1> DEFINE f == CHOOSE f : IsFlatten(f, seqs, n)
<1>1. IsFlatten(f, seqs, n)
  <2>1. \E g : IsFlatten(g, seqs, n)
    BY FlattenExists
  <2> QED BY <2>1
<1>2. FlattenSeq(seqs) = f[n]
  BY DEF FlattenSeq, IsFlatten
<1> HIDE DEF f
<1>3. \A i \in 1..n : f[i] = IF i = 1 THEN seqs[i] ELSE f[i - 1] \o seqs[i]
  BY <1>1 DEF IsFlatten
<1>4. ASSUME NEW i \in 1..n - 1 PROVE f[i + 1] = f[i] \o seqs[i + 1]
  <2>1. i + 1 \in 1..n /\ i + 1 # 1 /\ (i + 1) - 1 = i
    OBVIOUS
  <2> DEFINE j == i + 1
  <2>2. f[j] = f[j - 1] \o seqs[j]
    BY <1>3, <2>1
  <2> QED BY <2>1, <2>2
<1>5. f[1] = seqs[1]
  BY <1>3
<1> QED BY <1>2, <1>4, <1>5

(* The sequence has the elements of the sequences it is made of.           *)
LEMMA FlattenLemma ==
  ASSUME NEW S, NEW seqs \in Seq(Seq(S))
  PROVE  /\ FlattenSeq(seqs) \in Seq(S)
         /\ \A i \in 1..Len(seqs) : ToSet(seqs[i]) \subseteq ToSet(FlattenSeq(seqs))
<1> DEFINE n == Len(seqs)
<1>1. n \in Nat /\ \A i \in 1..n : seqs[i] \in Seq(S)
  OBVIOUS
<1>2. CASE n = 0
  <2>1. FlattenSeq(seqs) = <<>>
    BY <1>2 DEF FlattenSeq
  <2> QED BY <1>2, <2>1
<1>3. CASE n # 0
  <2>0. n \in Nat \ {0} /\ Len(seqs) = n
    BY <1>1, <1>3
  <2> HIDE DEF n
  <2>1. PICK f : /\ FlattenSeq(seqs) = f[n] /\ f[1] = seqs[1]
                 /\ \A i \in 1..n - 1 : f[i + 1] = f[i] \o seqs[i + 1]
    BY <2>0, FlattenTrace
  <2> DEFINE Good(i) == /\ f[i] \in Seq(S)
                        /\ \A j \in 1..i : ToSet(seqs[j]) \subseteq ToSet(f[i])
             T == {i \in 0..n : i = 0 \/ Good(i)}
  <2> HIDE DEF Good
  <2>2. 0 \in T
    BY <1>1
  <2>3. ASSUME NEW i \in 0..n - 1, i \in T PROVE i + 1 \in T
    <3>0. i + 1 \in 1..n /\ seqs[i + 1] \in Seq(S)
      BY <1>1
    <3>1. CASE i = 0
      <4>1. Good(1)
        BY <2>1, <3>0, <3>1 DEF Good
      <4> QED BY <3>0, <3>1, <4>1
    <3>2. CASE i # 0
      <4>0. i \in 1..n - 1
        BY <1>1, <3>2
      <4>1. Good(i) /\ f[i + 1] = f[i] \o seqs[i + 1]
        <5>1. Good(i)
          BY <2>3, <3>2
        <5> QED BY <2>1, <4>0, <5>1
      <4>2. f[i + 1] \in Seq(S)
        BY <3>0, <4>1 DEF Good
      <4> DEFINE a == f[i]
                 b == seqs[i + 1]
      <4>3. a \in Seq(S) /\ b \in Seq(S)
        BY <3>0, <4>1 DEF Good
      <4>4. ToSet(a) \subseteq ToSet(a \o b) /\ ToSet(b) \subseteq ToSet(a \o b)
        <5> HIDE DEF a, b
        <5>1. \A k \in 1..Len(a) : k \in 1..Len(a \o b) /\ (a \o b)[k] = a[k]
          BY <4>3
        <5>2. \A k \in 1..Len(b) : Len(a) + k \in 1..Len(a \o b) /\ (a \o b)[Len(a) + k] = b[k]
          BY <4>3
        <5>3. DOMAIN a = 1..Len(a) /\ DOMAIN b = 1..Len(b) /\ DOMAIN (a \o b) = 1..Len(a \o b)
          BY <4>3
        <5> DEFINE c == a \o b
        <5>4. \A k \in DOMAIN a : k \in DOMAIN c /\ c[k] = a[k]
          BY <5>1, <5>3
        <5>5. \A k \in DOMAIN b : Len(a) + k \in DOMAIN c /\ c[Len(a) + k] = b[k]
          BY <5>2, <5>3
        <5> HIDE DEF c
        <5> QED
          <6>1. ToSet(a) \subseteq ToSet(c) /\ ToSet(b) \subseteq ToSet(c)
            BY <5>4, <5>5 DEF ToSet
          <6> QED BY <6>1 DEF c
      <4>5. ASSUME NEW j \in 1..i + 1 PROVE ToSet(seqs[j]) \subseteq ToSet(f[i + 1])
        <5>1. CASE j = i + 1
          BY <4>1, <4>4, <5>1
        <5>2. CASE j # i + 1
          <6>1. j \in 1..i
            BY <5>2
          <6>2. ToSet(seqs[j]) \subseteq ToSet(a)
            BY <4>1, <6>1 DEF Good
          <6> QED BY <4>1, <4>4, <6>2
        <5> QED BY <5>1, <5>2
      <4>6. Good(i + 1)
        BY <4>2, <4>5 DEF Good
      <4> QED BY <3>0, <4>6
    <3> QED BY <3>1, <3>2
  <2> HIDE DEF T
  <2>4. 0..n \subseteq T
    BY <1>1, <2>2, <2>3, UpToInduction
  <2>5. Good(n)
    <3>1. n \in 0..n
      BY <1>1
    <3> QED BY <1>3, <2>4, <3>1 DEF T
  <2> QED BY <2>1, <2>5 DEF n, Good
<1> QED BY <1>1, <1>2, <1>3

-----------------------------------------------------------------------------
(* The channels of lists.                                                  *)
ChannelsOfType(type) == {c \in Channels : c.type = type}

(* A function on 1..n is a sequence.                                       *)
LEMMA FcnIsSeq ==
  ASSUME NEW S, NEW n \in Nat, NEW f \in [1..n -> S]
  PROVE  f \in Seq(S) /\ Len(f) = n
BY SeqDef, LenProperties

(* The channels of one port.                                               *)
OfPort(port, input) ==
  [c \in 1..port.channels |-> Channel("Audio", input, port.id, c - 1)]

(* They are audio channels.                                                *)
LEMMA OfPortTypes ==
  ASSUME NEW port \in AudioPorts, NEW input \in BOOLEAN
  PROVE  OfPort(port, input) \in Seq(ChannelsOfType("Audio"))
<1>1. port.channels \in Nat /\ port.id \in Nat
  BY DEF AudioPorts
<1>2. \A c \in 1..port.channels :
        Channel("Audio", input, port.id, c - 1) \in ChannelsOfType("Audio")
  BY <1>1 DEF Channel, Channels, ChannelsOfType
<1>3. OfPort(port, input) \in [1..port.channels -> ChannelsOfType("Audio")]
  BY <1>2 DEF OfPort
<1> QED BY <1>1, <1>3, FcnIsSeq

(* The channels of a list of audio ports are those of its ports.           *)
LEMMA AudioChannelsAre ==
  ASSUME NEW list \in Seq(AudioPorts), NEW input \in BOOLEAN
  PROVE  /\ AudioChannels(list, input) \in Seq(ChannelsOfType("Audio"))
         /\ \A i \in 1..Len(list) :
              ToSet(OfPort(list[i], input)) \subseteq ToSet(AudioChannels(list, input))
<1> DEFINE S == ChannelsOfType("Audio")
           seqs == [i \in DOMAIN list |-> OfPort(list[i], input)]
<1>1. AudioChannels(list, input) = FlattenSeq(seqs)
  BY DEF AudioChannels, OfPort
<1>2. /\ Len(list) \in Nat /\ DOMAIN list = 1..Len(list)
      /\ \A i \in 1..Len(list) : list[i] \in AudioPorts
  OBVIOUS
<1>3. \A i \in 1..Len(list) : OfPort(list[i], input) \in Seq(S)
  BY <1>2, OfPortTypes
<1>4. seqs \in [1..Len(list) -> Seq(S)] /\ \A i \in 1..Len(list) : seqs[i] = OfPort(list[i], input)
  BY <1>2, <1>3
<1> HIDE DEF seqs, S
<1>5. seqs \in Seq(Seq(S)) /\ Len(seqs) = Len(list)
  BY <1>2, <1>4, FcnIsSeq
<1> QED BY <1>1, <1>4, <1>5, FlattenLemma DEF S

(* The channels of the first port, which a list of that port alone has.    *)
LEMMA FirstChannels ==
  ASSUME NEW list \in Seq(AudioPorts), list # <<>>, NEW input \in BOOLEAN
  PROVE  /\ AudioChannels(<<list[1]>>, input) = OfPort(list[1], input)
         /\ OfPort(list[1], input) \in Seq(ChannelsOfType("Audio"))
         /\ ToSet(OfPort(list[1], input)) \subseteq ToSet(AudioChannels(list, input))
<1>1. list[1] \in AudioPorts /\ 1 \in 1..Len(list)
  OBVIOUS
<1> DEFINE seqs == [i \in DOMAIN <<list[1]>> |-> OfPort(<<list[1]>>[i], input)]
<1>2. AudioChannels(<<list[1]>>, input) = FlattenSeq(seqs)
  BY DEF AudioChannels, OfPort
<1>3. seqs[1] = OfPort(list[1], input) /\ seqs \in [1..1 -> {OfPort(list[1], input)}]
  OBVIOUS
<1> HIDE DEF seqs
<1>4. Len(seqs) = 1
  BY <1>3, FcnIsSeq
<1>5. FlattenSeq(seqs) = seqs[1]
  <2> DEFINE n == Len(seqs)
  <2>1. n \in Nat \ {0} /\ Len(seqs) = n /\ n = 1
    BY <1>4
  <2> HIDE DEF n
  <2>2. PICK f : FlattenSeq(seqs) = f[n] /\ f[1] = seqs[1]
    BY <2>1, FlattenTrace
  <2> QED BY <2>1, <2>2
<1> QED BY <1>1, <1>2, <1>3, <1>5, OfPortTypes, AudioChannelsAre

(* A note port has one channel.                                            *)
LEMMA NoteChannelsAre ==
  ASSUME NEW ids \in Seq(Nat), NEW input \in BOOLEAN
  PROVE  /\ NoteChannels(ids, input) \in Seq(ChannelsOfType("Note"))
         /\ ids # <<>> => Channel("Note", input, ids[1], 0) \in ToSet(NoteChannels(ids, input))
<1> DEFINE f == NoteChannels(ids, input)
<1>1. /\ Len(ids) \in Nat /\ DOMAIN ids = 1..Len(ids)
      /\ \A i \in 1..Len(ids) : ids[i] \in Nat
  OBVIOUS
<1>2. \A i \in 1..Len(ids) : Channel("Note", input, ids[i], 0) \in ChannelsOfType("Note")
  BY <1>1 DEF Channel, Channels, ChannelsOfType
<1>3. f \in [1..Len(ids) -> ChannelsOfType("Note")]
  BY <1>1, <1>2 DEF NoteChannels
<1>4. ids # <<>> => 1 \in DOMAIN f /\ f[1] = Channel("Note", input, ids[1], 0)
  <2>1. ids # <<>> => 1 \in DOMAIN ids
    OBVIOUS
  <2> QED BY <2>1 DEF NoteChannels
<1> HIDE DEF f
<1>5. f \in Seq(ChannelsOfType("Note"))
  BY <1>1, <1>3, FcnIsSeq
<1>6. ids # <<>> => Channel("Note", input, ids[1], 0) \in ToSet(f)
  BY <1>4 DEF ToSet
<1> QED BY <1>5, <1>6 DEF f

(* The elements of two sequences put together.                             *)
LEMMA ConcatLemma ==
  ASSUME NEW S, NEW a \in Seq(S), NEW b \in Seq(S)
  PROVE  a \o b \in Seq(S) /\ ToSet(a \o b) = ToSet(a) \cup ToSet(b)
<1> DEFINE c == a \o b
<1>1. /\ c \in Seq(S) /\ Len(c) = Len(a) + Len(b)
      /\ DOMAIN a = 1..Len(a) /\ DOMAIN b = 1..Len(b) /\ DOMAIN c = 1..Len(c)
      /\ Len(a) \in Nat /\ Len(b) \in Nat
      /\ \A i \in 1..Len(a) : c[i] = a[i]
      /\ \A i \in 1..Len(b) : c[Len(a) + i] = b[i]
      /\ \A i \in 1..Len(c) : i \notin 1..Len(a) => i - Len(a) \in 1..Len(b) /\ c[i] = b[i - Len(a)]
  OBVIOUS
<1> HIDE DEF c
<1>2. ToSet(c) \subseteq ToSet(a) \cup ToSet(b)
  BY <1>1 DEF ToSet
<1>3. ToSet(a) \subseteq ToSet(c)
  BY <1>1 DEF ToSet
<1>4. \A i \in 1..Len(b) : Len(a) + i \in 1..Len(c)
  BY <1>1
<1>5. ToSet(b) \subseteq ToSet(c)
  <2>1. \A i \in DOMAIN b : Len(a) + i \in DOMAIN c /\ c[Len(a) + i] = b[i]
    BY <1>1, <1>4
  <2> QED BY <2>1 DEF ToSet
<1> QED BY <1>1, <1>2, <1>3, <1>5 DEF c

(* The channels of the inputs and of the outputs make up the audio list.   *)
LEMMA AudioListIs ==
  ASSUME NEW audio \in AudioLists \cup {None}, None \notin AudioLists
  PROVE  /\ AudioList(audio) \in Seq(ChannelsOfType("Audio"))
         /\ audio # None =>
              /\ ToSet(AudioChannels(audio.inputs, TRUE)) \subseteq ToSet(AudioList(audio))
              /\ ToSet(AudioChannels(audio.outputs, FALSE)) \subseteq ToSet(AudioList(audio))
<1>1. CASE audio = None
  BY <1>1 DEF AudioList
<1>2. CASE audio # None
  <2>1. audio.inputs \in Seq(AudioPorts) /\ audio.outputs \in Seq(AudioPorts)
    BY <1>2 DEF AudioLists
  <2>2. /\ AudioChannels(audio.inputs, TRUE) \in Seq(ChannelsOfType("Audio"))
        /\ AudioChannels(audio.outputs, FALSE) \in Seq(ChannelsOfType("Audio"))
    BY <2>1, AudioChannelsAre
  <2> DEFINE a == AudioChannels(audio.inputs, TRUE)
             b == AudioChannels(audio.outputs, FALSE)
  <2>3. AudioList(audio) = a \o b
    BY <1>2 DEF AudioList
  <2> HIDE DEF a, b
  <2>4. a \in Seq(ChannelsOfType("Audio")) /\ b \in Seq(ChannelsOfType("Audio"))
    BY <2>2 DEF a, b
  <2>5. a \o b \in Seq(ChannelsOfType("Audio")) /\ ToSet(a \o b) = ToSet(a) \cup ToSet(b)
    BY <2>4, ConcatLemma
  <2> QED BY <2>3, <2>5 DEF a, b
<1> QED BY <1>1, <1>2

(* The note list is made up the same way.                                  *)
LEMMA NoteListIs ==
  ASSUME NEW note \in NoteLists \cup {None}, None \notin NoteLists
  PROVE  /\ NoteList(note) \in Seq(ChannelsOfType("Note"))
         /\ note # None =>
              /\ ToSet(NoteChannels(note.inputs, TRUE)) \subseteq ToSet(NoteList(note))
              /\ ToSet(NoteChannels(note.outputs, FALSE)) \subseteq ToSet(NoteList(note))
<1>1. CASE note = None
  BY <1>1 DEF NoteList
<1>2. CASE note # None
  <2>1. note.inputs \in Seq(Nat) /\ note.outputs \in Seq(Nat)
    BY <1>2 DEF NoteLists
  <2>2. /\ NoteChannels(note.inputs, TRUE) \in Seq(ChannelsOfType("Note"))
        /\ NoteChannels(note.outputs, FALSE) \in Seq(ChannelsOfType("Note"))
    BY <2>1, NoteChannelsAre
  <2> DEFINE a == NoteChannels(note.inputs, TRUE)
             b == NoteChannels(note.outputs, FALSE)
  <2>3. NoteList(note) = a \o b
    BY <1>2 DEF NoteList
  <2> HIDE DEF a, b
  <2>4. a \in Seq(ChannelsOfType("Note")) /\ b \in Seq(ChannelsOfType("Note"))
    BY <2>2 DEF a, b
  <2>5. a \o b \in Seq(ChannelsOfType("Note")) /\ ToSet(a \o b) = ToSet(a) \cup ToSet(b)
    BY <2>4, ConcatLemma
  <2> QED BY <2>3, <2>5 DEF a, b
<1> QED BY <1>1, <1>2

(* Listed has the channels of both lists, and the automation inputs.       *)
LEMMA ListedIs ==
  ASSUME None \notin AudioLists \cup NoteLists,
         NEW audio \in AudioLists \cup {None}, NEW note \in NoteLists \cup {None}, NEW hasAutoOut
  PROVE  /\ Listed(audio, note, hasAutoOut) \in Seq(Channels)
         /\ {c \in ToSet(Listed(audio, note, hasAutoOut)) : c.type = "Audio"}
              = ToSet(AudioList(audio))
         /\ {c \in ToSet(Listed(audio, note, hasAutoOut)) : c.type = "Note"}
              = ToSet(NoteList(note))
         /\ AutoIn \in ToSet(Listed(audio, note, hasAutoOut))
<1> DEFINE auto == IF hasAutoOut THEN <<AutoIn, AutoOut>> ELSE <<AutoIn>>
           a == AudioList(audio)
           b == NoteList(note)
<1>1. AutoIn \in ChannelsOfType("Automation") /\ AutoOut \in ChannelsOfType("Automation")
  BY DEF AutoIn, AutoOut, Channel, ChannelsOfType, Channels
<1>2. auto \in Seq(ChannelsOfType("Automation")) /\ AutoIn \in ToSet(auto)
  <2>1. CASE hasAutoOut
    <3>1. auto = <<AutoIn, AutoOut>>
      BY <2>1
    <3> HIDE DEF auto
    <3>2. auto \in Seq(ChannelsOfType("Automation")) /\ 1 \in DOMAIN auto /\ auto[1] = AutoIn
      BY <1>1, <3>1
    <3> QED BY <3>2 DEF ToSet
  <2>2. CASE ~hasAutoOut
    <3>1. auto = <<AutoIn>>
      BY <2>2
    <3> HIDE DEF auto
    <3>2. auto \in Seq(ChannelsOfType("Automation")) /\ 1 \in DOMAIN auto /\ auto[1] = AutoIn
      BY <1>1, <3>1
    <3> QED BY <3>2 DEF ToSet
  <2> QED BY <2>1, <2>2
<1>3. a \in Seq(ChannelsOfType("Audio")) /\ b \in Seq(ChannelsOfType("Note"))
  BY AudioListIs, NoteListIs
<1>4. Listed(audio, note, hasAutoOut) = (a \o auto) \o b
  BY DEF Listed
<1> HIDE DEF a, b, auto
<1>5. /\ ToSet(a) \subseteq ChannelsOfType("Audio")
      /\ ToSet(auto) \subseteq ChannelsOfType("Automation")
      /\ ToSet(b) \subseteq ChannelsOfType("Note")
  BY <1>2, <1>3 DEF ToSet
<1>6. a \in Seq(Channels) /\ auto \in Seq(Channels) /\ b \in Seq(Channels)
  <2>1. \A type : ChannelsOfType(type) \subseteq Channels
    BY DEF ChannelsOfType
  <2> QED BY <1>2, <1>3, <2>1
<1> DEFINE c == a \o auto
           all == c \o b
<1>7. c \in Seq(Channels) /\ ToSet(c) = ToSet(a) \cup ToSet(auto)
  BY <1>6, ConcatLemma
<1> HIDE DEF c
<1>8. all \in Seq(Channels) /\ ToSet(all) = ToSet(c) \cup ToSet(b)
  BY <1>6, <1>7, ConcatLemma
<1>9. Listed(audio, note, hasAutoOut) = all
  BY <1>4 DEF c
<1> HIDE DEF all
<1> QED BY <1>2, <1>5, <1>7, <1>8, <1>9 DEF ChannelsOfType, a, b

-----------------------------------------------------------------------------
(* The place of a number among those of a set.                             *)
Rank(S, at) == Cardinality({i \in S : i <= at})

(* The places in a set of numbers are 1, 2, 3 and so on, each taken once.  *)
LEMMA RankLemma ==
  ASSUME NEW n \in Nat, NEW S \in SUBSET (1..n)
  PROVE  /\ IsFiniteSet(S) /\ Cardinality(S) \in Nat
         /\ \A a \in S : Rank(S, a) \in 1..Cardinality(S)
         /\ \A a, b \in S : Rank(S, a) = Rank(S, b) => a = b
<1> DEFINE upTo(a) == {i \in S : i <= a}
<1>1. IsFiniteSet(S) /\ Cardinality(S) \in Nat
  <2>1. IsFiniteSet(1..n)
    BY FS_Interval
  <2> QED BY <2>1, FS_Subset, FS_CardinalityType
<1>2. \A a : upTo(a) \in SUBSET S
  OBVIOUS
<1>3. \A a : /\ IsFiniteSet(upTo(a)) /\ Cardinality(upTo(a)) \in Nat
             /\ Cardinality(upTo(a)) <= Cardinality(S)
  BY <1>1, <1>2, FS_Subset, FS_CardinalityType
<1>4. \A a \in S : a \in upTo(a)
  OBVIOUS
<1>5. \A a, b \in S : a < b => b \notin upTo(a) /\ upTo(a) \subseteq upTo(b)
  <2> TAKE a \in S, b \in S
  <2> HAVE a < b
  <2>1. a \in Int /\ b \in Int /\ S \subseteq Int
    OBVIOUS
  <2>2. ~(b <= a)
    BY <2>1
  <2>3. \A i \in S : i <= a => i <= b
    BY <2>1
  <2> QED BY <2>2, <2>3
<1>6. \A a : Rank(S, a) = Cardinality(upTo(a))
  BY DEF Rank
<1> HIDE DEF upTo
<1>7. \A a \in S : Cardinality(upTo(a)) # 0
  BY <1>3, <1>4, FS_EmptySet
<1>8. \A a, b \in S : a < b => Cardinality(upTo(a)) # Cardinality(upTo(b))
  <2> SUFFICES ASSUME NEW a \in S, NEW b \in S, a < b,
                      Cardinality(upTo(a)) = Cardinality(upTo(b))
               PROVE  FALSE
    OBVIOUS
  <2>1. upTo(b) = upTo(a)
    BY <1>3, <1>5, FS_Subset
  <2> QED BY <1>4, <1>5, <2>1
<1>9. \A a \in S : Rank(S, a) \in 1..Cardinality(S)
  BY <1>1, <1>3, <1>6, <1>7
<1>10. \A a, b \in S : Rank(S, a) = Rank(S, b) => a = b
  <2> SUFFICES ASSUME NEW a \in S, NEW b \in S, Rank(S, a) = Rank(S, b) PROVE a = b
    OBVIOUS
  <2>1. a \in Nat /\ b \in Nat
    OBVIOUS
  <2>2. ~(a < b) /\ ~(b < a)
    BY <1>6, <1>8
  <2> QED BY <2>1, <2>2
<1> QED BY <1>1, <1>9, <1>10

-----------------------------------------------------------------------------
(* The ports of a host: each channel has one, and those to be used again   *)
(* are in no use.                                                          *)
Numbered(portOf, free, next) ==
  /\ IsFcn(portOf) /\ DOMAIN portOf \subseteq Channels /\ next \in Nat
  /\ \A c \in DOMAIN portOf : portOf[c] \in 0..next - 1
  /\ \A c, d \in DOMAIN portOf : portOf[c] = portOf[d] => c = d
  /\ free \in Seq(0..next - 1)
  /\ \A i, j \in 1..Len(free) : free[i] = free[j] => i = j
  /\ \A c \in DOMAIN portOf, i \in 1..Len(free) : portOf[c] # free[i]

(* n ports are taken: what is left, and the next number after.             *)
Takes(free, next, n, ids, left, next1) ==
  /\ ids = TakePorts(free, next, n)
  /\ left = SubSeq(free, 1, Len(free) - Taken(free, n))
  /\ next1 = next + n - Taken(free, n)

TakenOnce(free, next, n, ids, left, next1) ==
  /\ next1 \in Nat /\ next <= next1
  /\ \A i \in 1..n : /\ ids[i] \in 0..next1 - 1
                     /\ ids[i] >= next \/ \E j \in 1..Len(free) : ids[i] = free[j]
  /\ \A i, j \in 1..n : ids[i] = ids[j] => i = j
  /\ left \in Seq(0..next - 1) /\ Len(left) <= Len(free)
  /\ \A i \in 1..Len(left) : left[i] = free[i]
  /\ \A i \in 1..Len(left), j \in 1..n : left[i] # ids[j]

(* New ports come from the end of the free ones, or are the next.          *)
LEMMA TakenPorts ==
  ASSUME NEW prev, NEW free, NEW next, Numbered(prev, free, next), NEW n \in Nat,
         NEW ids, NEW left, NEW next1, Takes(free, next, n, ids, left, next1)
  PROVE  TakenOnce(free, next, n, ids, left, next1)
<1> USE DEF Takes
<1> DEFINE l == Len(free)
           taken == Taken(free, n)
<1>0. next \in Nat /\ free \in Seq(0..next - 1)
  BY DEF Numbered
<1>1. l \in Nat /\ next \in Nat /\ \A i \in 1..l : free[i] \in 0..next - 1
  BY <1>0
<1>2. /\ taken \in 0..l /\ taken <= n
      /\ taken = n \/ taken = l
  BY <1>1 DEF Taken
<1>3. \A i \in 1..n : ids[i] = IF i <= l THEN free[l + 1 - i] ELSE next + i - l - 1
  BY DEF TakePorts
<1>4. /\ left \in Seq(0..next - 1) /\ Len(left) = l - taken
      /\ \A i \in 1..l - taken : left[i] = free[i]
  BY <1>0, <1>1, <1>2
<1>5. \A i, j \in 1..l : free[i] = free[j] => i = j
  BY DEF Numbered
<1>6. next1 = next + n - taken
  OBVIOUS
<1>7. taken = IF n <= l THEN n ELSE l
  BY DEF Taken
<1> HIDE DEF l, taken, Takes
<1>8. next1 \in Nat /\ next <= next1
  BY <1>1, <1>2, <1>6
<1>9. ASSUME NEW i \in 1..n
      PROVE  /\ ids[i] \in 0..next1 - 1
             /\ ids[i] >= next \/ \E j \in 1..l : ids[i] = free[j]
  <2>1. CASE i <= l
    <3>1. l + 1 - i \in 1..l /\ ids[i] = free[l + 1 - i]
      BY <1>1, <1>3, <2>1
    <3> QED BY <1>1, <1>8, <3>1
  <2>2. CASE ~(i <= l)
    <3>1. ids[i] = next + i - l - 1 /\ taken = l
      BY <1>1, <1>3, <1>7, <2>2
    <3> QED BY <1>1, <1>6, <2>2, <3>1
  <2> QED BY <2>1, <2>2
<1>10. ASSUME NEW i \in 1..n, NEW j \in 1..n, ids[i] = ids[j] PROVE i = j
  <2>1. CASE i <= l /\ j <= l
    <3>1. l + 1 - i \in 1..l /\ l + 1 - j \in 1..l
      BY <1>1, <2>1
    <3>2. free[l + 1 - i] = free[l + 1 - j]
      BY <1>3, <1>10, <2>1
    <3>3. l + 1 - i = l + 1 - j
      BY <1>5, <3>1, <3>2
    <3> QED BY <1>1, <3>3
  <2>2. CASE i <= l /\ ~(j <= l)
    <3>1. l + 1 - i \in 1..l /\ ids[i] = free[l + 1 - i] /\ ids[j] = next + j - l - 1
      BY <1>1, <1>3, <2>2
    <3>2. ids[i] \in 0..next - 1 /\ j \in Int /\ j > l
      BY <1>1, <2>2, <3>1
    <3>3. ids[j] >= next
      BY <1>1, <3>1, <3>2
    <3> QED BY <1>1, <1>10, <3>2, <3>3
  <2>3. CASE ~(i <= l) /\ j <= l
    <3>1. l + 1 - j \in 1..l /\ ids[j] = free[l + 1 - j] /\ ids[i] = next + i - l - 1
      BY <1>1, <1>3, <2>3
    <3> QED BY <1>1, <1>10, <2>3, <3>1
  <2>4. CASE ~(i <= l) /\ ~(j <= l)
    BY <1>1, <1>3, <1>10, <2>4
  <2> QED BY <2>1, <2>2, <2>3, <2>4
<1>11. ASSUME NEW i \in 1..Len(left), NEW j \in 1..n PROVE left[i] # ids[j]
  <2>0. i \in 1..l - taken /\ i \in 1..l /\ left[i] = free[i]
    BY <1>1, <1>2, <1>4
  <2>1. CASE j <= l
    <3>1. j <= taken
      BY <1>7, <2>1
    <3>2. l + 1 - j \in 1..l /\ ids[j] = free[l + 1 - j] /\ l + 1 - j # i
      BY <1>1, <1>2, <1>3, <2>0, <2>1, <3>1
    <3> QED BY <1>5, <2>0, <3>2
  <2>2. CASE ~(j <= l)
    <3>1. ids[j] = next + j - l - 1
      BY <1>3, <2>2
    <3>2. free[i] \in 0..next - 1
      BY <1>1, <2>0
    <3>3. j \in Int /\ j > l
      BY <1>1, <2>2
    <3>4. ids[j] >= next
      BY <1>1, <3>1, <3>3
    <3>5. free[i] # ids[j]
      BY <1>1, <3>2, <3>4
    <3> QED BY <2>0, <3>5
  <2> QED BY <2>1, <2>2
<1>12. Len(left) <= l /\ \A i \in 1..Len(left) : left[i] = free[i]
  BY <1>1, <1>2, <1>4
<1> QED BY <1>4, <1>8, <1>9, <1>10, <1>11, <1>12 DEF l, TakenOnce

(* Two sequences of different numbers, each in use once.                   *)
LEMMA FreeLemma ==
  ASSUME NEW S, NEW a \in Seq(S), NEW b \in Seq(S), NEW c, c = a \o b,
         \A i, j \in 1..Len(a) : a[i] = a[j] => i = j,
         \A i, j \in 1..Len(b) : b[i] = b[j] => i = j,
         \A i \in 1..Len(a), j \in 1..Len(b) : a[i] # b[j]
  PROVE  /\ c \in Seq(S)
         /\ \A i, j \in 1..Len(c) : c[i] = c[j] => i = j
         /\ \A i \in 1..Len(c) : \/ \E j \in 1..Len(a) : c[i] = a[j]
                                 \/ \E j \in 1..Len(b) : c[i] = b[j]
<1>1. /\ c \in Seq(S) /\ Len(a) \in Nat /\ Len(b) \in Nat /\ Len(c) = Len(a) + Len(b)
      /\ \A i \in 1..Len(a) : c[i] = a[i]
      /\ \A i \in 1..Len(c) : i \notin 1..Len(a) => i - Len(a) \in 1..Len(b) /\ c[i] = b[i - Len(a)]
  OBVIOUS
<1>2. ASSUME NEW i \in 1..Len(c), NEW j \in 1..Len(c), c[i] = c[j] PROVE i = j
  <2>1. CASE i \in 1..Len(a) /\ j \in 1..Len(a)
    BY <1>1, <1>2, <2>1
  <2>2. CASE i \notin 1..Len(a) /\ j \notin 1..Len(a)
    <3>1. i - Len(a) = j - Len(a)
      BY <1>1, <1>2, <2>2
    <3> QED BY <1>1, <3>1
  <2>3. CASE i \in 1..Len(a) /\ j \notin 1..Len(a)
    BY <1>1, <1>2, <2>3
  <2>4. CASE i \notin 1..Len(a) /\ j \in 1..Len(a)
    BY <1>1, <1>2, <2>4
  <2> QED BY <2>1, <2>2, <2>3, <2>4
<1>3. \A i \in 1..Len(c) : \/ \E j \in 1..Len(a) : c[i] = a[j]
                           \/ \E j \in 1..Len(b) : c[i] = b[j]
  BY <1>1
<1> QED BY <1>1, <1>2, <1>3

(* The port map in which the new channels have the ports ids.              *)
Mapped(prev, kept, listed, new, ids) ==
  [c \in kept \cup ToSet(listed) |->
     IF c \in DOMAIN prev THEN prev[c]
     ELSE ids[Rank(new, CHOOSE i \in new : listed[i] = c)]]

(* Each new channel gets a port of its own, which no channel had.          *)
Extends(prev, free, next, portOf, left, next1) ==
  /\ IsFcn(portOf) /\ DOMAIN portOf \subseteq Channels
  /\ \A c \in DOMAIN portOf \cap DOMAIN prev : portOf[c] = prev[c]
  /\ \A c \in DOMAIN portOf \ DOMAIN prev :
       /\ portOf[c] \in 0..next1 - 1
       /\ portOf[c] >= next \/ \E j \in 1..Len(free) : portOf[c] = free[j]
  /\ \A c, d \in DOMAIN portOf \ DOMAIN prev : portOf[c] = portOf[d] => c = d
  /\ next1 \in Nat /\ next <= next1
  /\ left \in Seq(0..next - 1) /\ Len(left) <= Len(free)
  /\ \A i \in 1..Len(left) : left[i] = free[i]
  /\ \A i \in 1..Len(left), c \in DOMAIN portOf \ DOMAIN prev : left[i] # portOf[c]

(* A port map with new ports, and without the old ones, is one to one.     *)
LEMMA NewNumbers ==
  ASSUME NEW prev, NEW free, NEW next, Numbered(prev, free, next),
         NEW listed \in Seq(Channels), NEW kept \in SUBSET DOMAIN prev,
         NEW new, new = NewChannels(prev, listed),
         NEW n, n = Cardinality(new),
         NEW ids, NEW left, NEW next1, Takes(free, next, n, ids, left, next1),
         NEW portOf, portOf = Mapped(prev, kept, listed, new, ids)
  PROVE  Extends(prev, free, next, portOf, left, next1)
<1> USE DEF Mapped
<1> DEFINE at(c) == CHOOSE i \in new : listed[i] = c
           number(c) == Rank(new, at(c))
<1>1. /\ next \in Nat /\ free \in Seq(0..next - 1)
      /\ \A i, j \in 1..Len(free) : free[i] = free[j] => i = j
      /\ DOMAIN prev \subseteq Channels
  BY DEF Numbered
<1>2. new \in SUBSET (1..Len(listed)) /\ Len(listed) \in Nat /\ DOMAIN listed = 1..Len(listed)
  BY DEF NewChannels
<1>3. /\ n \in Nat
      /\ \A a \in new : Rank(new, a) \in 1..n
      /\ \A a, b \in new : Rank(new, a) = Rank(new, b) => a = b
  BY <1>2, RankLemma
<1>4. TakenOnce(free, next, n, ids, left, next1)
  BY <1>3, TakenPorts
<1>5. ASSUME NEW c \in DOMAIN portOf \ DOMAIN prev
      PROVE  at(c) \in new /\ listed[at(c)] = c
  <2>1. c \in ToSet(listed)
    OBVIOUS
  <2>2. PICK i \in DOMAIN listed : listed[i] = c
    BY <2>1 DEF ToSet
  <2>3. i \in new
    BY <1>5, <2>2 DEF NewChannels
  <2> QED BY <2>2, <2>3
<1>6. \A c \in DOMAIN portOf \ DOMAIN prev : number(c) \in 1..n
  BY <1>3, <1>5
<1>7. \A c, d \in DOMAIN portOf \ DOMAIN prev : number(c) = number(d) => c = d
  BY <1>3, <1>5
<1>8. /\ IsFcn(portOf) /\ DOMAIN portOf = kept \cup ToSet(listed)
      /\ \A c \in DOMAIN portOf \cap DOMAIN prev : portOf[c] = prev[c]
      /\ \A c \in DOMAIN portOf \ DOMAIN prev : portOf[c] = ids[number(c)]
  BY DEF IsFcn
<1> HIDE DEF number, at, Mapped
<1>9. DOMAIN portOf \subseteq Channels
  <2>1. ToSet(listed) \subseteq Channels
    BY DEF ToSet
  <2> QED BY <1>1, <1>8, <2>1
<1>10. ASSUME NEW c \in DOMAIN portOf \ DOMAIN prev
       PROVE  /\ portOf[c] \in 0..next1 - 1
              /\ portOf[c] >= next \/ \E j \in 1..Len(free) : portOf[c] = free[j]
              /\ \A i \in 1..Len(left) : left[i] # portOf[c]
  <2> DEFINE k == number(c)
  <2>1. k \in 1..n /\ portOf[c] = ids[k]
    BY <1>6, <1>8
  <2> HIDE DEF k
  <2>2. /\ ids[k] \in 0..next1 - 1
        /\ ids[k] >= next \/ \E j \in 1..Len(free) : ids[k] = free[j]
        /\ \A i \in 1..Len(left) : left[i] # ids[k]
    BY <1>4, <2>1 DEF TakenOnce
  <2> QED BY <2>1, <2>2
<1>11. \A c, d \in DOMAIN portOf \ DOMAIN prev : portOf[c] = portOf[d] => c = d
  <2> SUFFICES ASSUME NEW c \in DOMAIN portOf \ DOMAIN prev, NEW d \in DOMAIN portOf \ DOMAIN prev,
                      portOf[c] = portOf[d]
               PROVE  c = d
    OBVIOUS
  <2>1. ids[number(c)] = ids[number(d)]
    BY <1>8
  <2>2. number(c) = number(d)
    BY <1>4, <1>6, <2>1 DEF TakenOnce
  <2> QED BY <1>7, <2>2
<1>12. /\ next1 \in Nat /\ next <= next1
       /\ left \in Seq(0..next - 1) /\ Len(left) <= Len(free)
       /\ \A i \in 1..Len(left) : left[i] = free[i]
  BY <1>4 DEF TakenOnce
<1>13. \A c \in DOMAIN portOf \ DOMAIN prev :
         /\ portOf[c] \in 0..next1 - 1
         /\ portOf[c] >= next \/ \E j \in 1..Len(free) : portOf[c] = free[j]
  BY <1>10
<1>14. \A i \in 1..Len(left), c \in DOMAIN portOf \ DOMAIN prev : left[i] # portOf[c]
  <2> TAKE i \in 1..Len(left), c \in DOMAIN portOf \ DOMAIN prev
  <2> QED BY <1>10
<1>15. IsFcn(portOf) /\ \A c \in DOMAIN portOf \cap DOMAIN prev : portOf[c] = prev[c]
  BY <1>8
<1> QED BY <1>9, <1>11, <1>12, <1>13, <1>14, <1>15 DEF Extends

(* Then all have ports of their own, and those that lost theirs leave them *)
(* to be used again.                                                       *)
LEMMA StillNumbered ==
  ASSUME NEW prev, NEW free, NEW next, Numbered(prev, free, next),
         NEW portOf, NEW next1, NEW left, NEW order,
         Extends(prev, free, next, portOf, left, next1),
         order \in SetToSeqs({prev[c] : c \in DOMAIN prev \ DOMAIN portOf})
  PROVE  /\ Numbered(portOf, left \o order, next1)
         /\ \A c \in DOMAIN portOf \ DOMAIN prev, d \in DOMAIN prev : portOf[c] # prev[d]
<1> USE DEF Extends
<1> DEFINE gone == {prev[c] : c \in DOMAIN prev \ DOMAIN portOf}
<1>1. /\ next \in Nat /\ free \in Seq(0..next - 1)
      /\ \A i, j \in 1..Len(free) : free[i] = free[j] => i = j
      /\ \A c \in DOMAIN prev : prev[c] \in 0..next - 1
      /\ \A c, d \in DOMAIN prev : prev[c] = prev[d] => c = d
      /\ \A c \in DOMAIN prev, i \in 1..Len(free) : prev[c] # free[i]
  BY DEF Numbered
<1>2. Len(left) \in Nat /\ Len(free) \in Nat /\ \A i \in 1..Len(left) : i \in 1..Len(free)
  BY <1>1
<1>3. ASSUME NEW c \in DOMAIN portOf \ DOMAIN prev, NEW d \in DOMAIN prev
      PROVE  portOf[c] # prev[d]
  <2>1. portOf[c] >= next \/ \E j \in 1..Len(free) : portOf[c] = free[j]
    OBVIOUS
  <2>2. ~(prev[d] >= next)
    BY <1>1
  <2> QED BY <1>1, <2>1, <2>2
<1>4. ASSUME NEW c \in DOMAIN portOf, NEW d \in DOMAIN portOf, portOf[c] = portOf[d] PROVE c = d
  <2>1. CASE c \in DOMAIN prev /\ d \in DOMAIN prev
    BY <1>1, <1>4, <2>1
  <2>2. CASE c \notin DOMAIN prev /\ d \notin DOMAIN prev
    BY <1>4, <2>2
  <2>3. CASE c \in DOMAIN prev /\ d \notin DOMAIN prev
    BY <1>3, <1>4, <2>3
  <2>4. CASE c \notin DOMAIN prev /\ d \in DOMAIN prev
    BY <1>3, <1>4, <2>4
  <2> QED BY <2>1, <2>2, <2>3, <2>4
<1>5. 0..next - 1 \subseteq 0..next1 - 1
  BY <1>1
<1>6. \A c \in DOMAIN portOf : portOf[c] \in 0..next1 - 1
  BY <1>1, <1>5
<1>7. gone \in SUBSET (0..next - 1) /\ \A q \in gone : \E c \in DOMAIN prev \ DOMAIN portOf : q = prev[c]
  BY <1>1
<1> HIDE DEF gone
<1>8. /\ order \in Seq(gone) /\ \A i, j \in 1..Len(order) : order[i] = order[j] => i = j
      /\ \A i \in 1..Len(order) : order[i] \in gone
  <2>1. IsFiniteSet(0..next - 1)
    BY <1>1, FS_Interval
  <2>2. Cardinality(gone) \in Nat
    BY <1>7, <2>1, FS_Subset, FS_CardinalityType
  <2> DEFINE m == Cardinality(gone)
  <2>3. order \in [1..m -> gone] /\ \A i, j \in 1..m : i # j => order[i] # order[j]
    BY DEF SetToSeqs, gone
  <2> HIDE DEF m
  <2>4. order \in Seq(gone) /\ Len(order) = m
    BY <2>2, <2>3, FcnIsSeq DEF m
  <2> QED BY <2>3, <2>4
<1>9. left \in Seq(0..next1 - 1) /\ order \in Seq(0..next1 - 1)
  <2>1. gone \subseteq 0..next1 - 1
    BY <1>5, <1>7
  <2> DEFINE S == 0..next - 1
             T == 0..next1 - 1
  <2>2. left \in Seq(S) /\ S \subseteq T /\ gone \subseteq T
    BY <1>5, <2>1
  <2> HIDE DEF S, T
  <2>3. left \in Seq(T) /\ order \in Seq(T)
    BY <1>8, <2>2
  <2> QED BY <2>3 DEF T
<1>10. \A i, j \in 1..Len(left) : left[i] = left[j] => i = j
  BY <1>1, <1>2
<1>11. \A i \in 1..Len(left), c \in DOMAIN prev : left[i] # prev[c]
  BY <1>1, <1>2
<1>12. \A i \in 1..Len(left), j \in 1..Len(order) : left[i] # order[j]
  BY <1>7, <1>8, <1>11
<1> DEFINE f == left \o order
<1>13. /\ f \in Seq(0..next1 - 1)
       /\ \A i, j \in 1..Len(f) : f[i] = f[j] => i = j
       /\ \A i \in 1..Len(f) : \/ \E j \in 1..Len(left) : f[i] = left[j]
                               \/ \E j \in 1..Len(order) : f[i] = order[j]
  <2> DEFINE T == 0..next1 - 1
  <2>1. left \in Seq(T) /\ order \in Seq(T) /\ f = left \o order
    BY <1>9
  <2> HIDE DEF f, T
  <2>2. /\ f \in Seq(T)
        /\ \A i, j \in 1..Len(f) : f[i] = f[j] => i = j
        /\ \A i \in 1..Len(f) : \/ \E j \in 1..Len(left) : f[i] = left[j]
                                \/ \E j \in 1..Len(order) : f[i] = order[j]
    BY <1>8, <1>10, <1>12, <2>1, FreeLemma
  <2> QED BY <2>2 DEF T
<1> HIDE DEF f
<1>14. ASSUME NEW c \in DOMAIN portOf, NEW i \in 1..Len(f) PROVE portOf[c] # f[i]
  <2>1. ASSUME NEW j \in 1..Len(left) PROVE portOf[c] # left[j]
    BY <1>11
  <2>2. ASSUME NEW j \in 1..Len(order) PROVE portOf[c] # order[j]
    <3>1. PICK d \in DOMAIN prev \ DOMAIN portOf : order[j] = prev[d]
      BY <1>7, <1>8
    <3>2. CASE c \in DOMAIN prev
      BY <1>1, <3>1, <3>2
    <3>3. CASE c \notin DOMAIN prev
      BY <1>3, <3>1, <3>3
    <3> QED BY <3>2, <3>3
  <2>3. \/ \E j \in 1..Len(left) : f[i] = left[j]
        \/ \E j \in 1..Len(order) : f[i] = order[j]
    BY <1>13
  <2> QED BY <2>1, <2>2, <2>3
<1>15. Numbered(portOf, f, next1)
  BY <1>4, <1>6, <1>13, <1>14 DEF Numbered
<1> QED BY <1>3, <1>15 DEF f

-----------------------------------------------------------------------------
(* sync_ports_in_graph changes nothing but fields of the host that are     *)
(* about ports.                                                            *)
MainFields == {"mainIn", "mainOut", "mainNoteIn", "mainNoteOut"}

PortFields == MainFields \cup {"portOf", "free", "next"}

IsRecord(h) == DOMAIN h = HostFields /\ IsFcn(h)

Keeps(h, x) == IsRecord(x) /\ \A f \in HostFields \ MainFields : x[f] = h[f]

(* The ports of the first port of a list, in a layout that has a main one. *)
MainOf(layouts, layout, list, input, portOf) ==
  IF layout \in layouts THEN MainAudio(list, input, portOf) ELSE <<>>

AfterAudio(h, audio, x) ==
  /\ Keeps(h, x)
  /\ x.mainIn = IF audio = None THEN h.mainIn
                ELSE MainOf({"InOut", "InOnly"}, audio.layout, audio.inputs, TRUE, h.portOf)
  /\ x.mainOut = IF audio = None THEN h.mainOut
                 ELSE MainOf(WithMainOut, audio.layout, audio.outputs, FALSE, h.portOf)
  /\ x.mainNoteIn = IF audio = None THEN h.mainNoteIn ELSE None
  /\ x.mainNoteOut = IF audio = None THEN h.mainNoteOut ELSE None

AfterNotes(h, note, x) ==
  /\ Keeps(h, x)
  /\ x.mainIn = h.mainIn /\ x.mainOut = h.mainOut
  /\ x.mainNoteIn = IF note = None THEN h.mainNoteIn
                    ELSE IF note.inputs = <<>> THEN h.mainNoteIn
                    ELSE h.portOf[Channel("Note", TRUE, note.inputs[1], 0)]
  /\ x.mainNoteOut = IF note = None THEN h.mainNoteOut
                     ELSE IF note.outputs = <<>> THEN h.mainNoteOut
                     ELSE h.portOf[Channel("Note", FALSE, note.outputs[1], 0)]

(* An audio list replaces the main audio ports, and clears those of notes. *)
LEMMA MainAudioKeeps ==
  ASSUME NEW h, IsRecord(h), NEW audio, NEW x, x = WithMainAudio(h, audio)
  PROVE  AfterAudio(h, audio, x)
<1> USE DEF AfterAudio
<1>1. CASE audio = None
  BY <1>1 DEF WithMainAudio, Keeps
<1>2. CASE audio # None
  <2> DEFINE in == MainOf({"InOut", "InOnly"}, audio.layout, audio.inputs, TRUE, h.portOf)
             out == MainOf(WithMainOut, audio.layout, audio.outputs, FALSE, h.portOf)
  <2>1. x = [h EXCEPT !.mainIn = in, !.mainOut = out, !.mainNoteIn = None, !.mainNoteOut = None]
    BY <1>2 DEF WithMainAudio, MainOf
  <2> HIDE DEF in, out
  <2>2. /\ Keeps(h, x) /\ x.mainIn = in /\ x.mainOut = out
        /\ x.mainNoteIn = None /\ x.mainNoteOut = None
    BY <2>1 DEF Keeps, IsRecord, IsFcn, HostFields, MainFields
  <2> QED BY <1>2, <2>2 DEF in, out
<1> QED BY <1>1, <1>2

(* A note list sets the main note ports that it has.                       *)
LEMMA MainNotesKeep ==
  ASSUME NEW h, IsRecord(h), NEW note, NEW x, x = WithMainNotes(h, note)
  PROVE  AfterNotes(h, note, x)
<1> USE DEF AfterNotes
<1>1. CASE note = None
  BY <1>1 DEF WithMainNotes, Keeps
<1>2. CASE note # None
  <2> DEFINE in == IF note.inputs = <<>> THEN h.mainNoteIn
                   ELSE h.portOf[Channel("Note", TRUE, note.inputs[1], 0)]
             out == IF note.outputs = <<>> THEN h.mainNoteOut
                    ELSE h.portOf[Channel("Note", FALSE, note.outputs[1], 0)]
  <2>1. x = [h EXCEPT !.mainNoteIn = in, !.mainNoteOut = out]
    BY <1>2 DEF WithMainNotes, MainNote
  <2> HIDE DEF in, out
  <2>2. /\ Keeps(h, x) /\ x.mainIn = h.mainIn /\ x.mainOut = h.mainOut
        /\ x.mainNoteIn = in /\ x.mainNoteOut = out
    BY <2>1 DEF Keeps, IsRecord, IsFcn, HostFields, MainFields
  <2> QED BY <1>2, <2>2 DEF in, out
<1> QED BY <1>1, <1>2

(* What it makes of a host, field by field.                                *)
SyncedFrom(h, audio, note, h1) ==
  LET listed == Listed(audio, note, h.hasAutoOut)
      n == Cardinality(NewChannels(h.portOf, listed))
      portOf == h1.portOf
  IN /\ IsHost(h1)
     /\ \A f \in HostFields \ PortFields : h1[f] = h[f]
     /\ portOf = PortOf(h.portOf, h.free, h.next, audio, note, h.hasAutoOut)
     /\ h1.next = h.next + n - Taken(h.free, n)
     /\ \E order \in SetToSeqs({h.portOf[c] : c \in DOMAIN h.portOf \ DOMAIN portOf}) :
          h1.free = SubSeq(h.free, 1, Len(h.free) - Taken(h.free, n)) \o order
     /\ h1.mainIn = IF audio = None THEN h.mainIn
                    ELSE MainOf({"InOut", "InOnly"}, audio.layout, audio.inputs, TRUE, portOf)
     /\ h1.mainOut = IF audio = None THEN h.mainOut
                     ELSE MainOf(WithMainOut, audio.layout, audio.outputs, FALSE, portOf)
     /\ h1.mainNoteIn = IF note # None /\ note.inputs # <<>>
                        THEN portOf[Channel("Note", TRUE, note.inputs[1], 0)]
                        ELSE IF audio = None THEN h.mainNoteIn ELSE None
     /\ h1.mainNoteOut = IF note # None /\ note.outputs # <<>>
                         THEN portOf[Channel("Note", FALSE, note.outputs[1], 0)]
                         ELSE IF audio = None THEN h.mainNoteOut ELSE None

(* sync_ports_in_graph, field by field.                                    *)
LEMMA SyncedFields ==
  ASSUME NEW h, IsHost(h), NEW audio, NEW note, NEW h1 \in Synced(h, audio, note)
  PROVE  SyncedFrom(h, audio, note, h1)
<1> DEFINE portOf == PortOf(h.portOf, h.free, h.next, audio, note, h.hasAutoOut)
           n == Cardinality(NewChannels(h.portOf, Listed(audio, note, h.hasAutoOut)))
           next == h.next + n - Taken(h.free, n)
           left == SubSeq(h.free, 1, Len(h.free) - Taken(h.free, n))
           orders == SetToSeqs({h.portOf[c] : c \in DOMAIN h.portOf \ DOMAIN portOf})
<1>1. PICK order \in orders :
        h1 = [WithMainNotes(WithMainAudio([h EXCEPT !.portOf = portOf, !.next = next],
                audio), note) EXCEPT !.free = left \o order]
  BY DEF Synced
<1> DEFINE x == [h EXCEPT !.portOf = portOf, !.next = next]
           y == WithMainAudio(x, audio)
           z == WithMainNotes(y, note)
           free == left \o order
<1>2. IsFcn(portOf)
  BY DEF PortOf, IsFcn
<1>3. h1 = [z EXCEPT !.free = free] /\ x = [h EXCEPT !.portOf = portOf, !.next = next]
  BY <1>1
<1> HIDE DEF portOf, next, free, x, n, left, orders
<1>4. /\ IsRecord(x) /\ x.portOf = portOf /\ x.next = next
      /\ \A f \in HostFields \ {"portOf", "next"} : x[f] = h[f]
  BY <1>3 DEF IsHost, IsRecord, IsFcn, HostFields
<1> HIDE DEF y
<1>5. y = WithMainAudio(x, audio)
  BY DEF y
<1>6. AfterAudio(x, audio, y)
  BY <1>4, <1>5, MainAudioKeeps
<1> HIDE DEF z
<1>7. z = WithMainNotes(y, note)
  BY DEF z
<1>8. AfterNotes(y, note, z)
  BY <1>6, <1>7, MainNotesKeep DEF AfterAudio, Keeps
<1>9. /\ IsRecord(h1) /\ h1.free = free
      /\ \A f \in HostFields \ {"free"} : h1[f] = z[f]
  BY <1>3, <1>8 DEF AfterNotes, Keeps, IsRecord, IsFcn, HostFields
<1>10. /\ \A f \in HostFields \ PortFields : h1[f] = h[f]
       /\ h1.portOf = portOf /\ h1.next = next
       /\ y.portOf = portOf
  BY <1>4, <1>6, <1>8, <1>9 DEF AfterAudio, AfterNotes, Keeps, HostFields, PortFields, MainFields
<1>11. /\ h1.mainIn = z.mainIn /\ h1.mainOut = z.mainOut
       /\ h1.mainNoteIn = z.mainNoteIn /\ h1.mainNoteOut = z.mainNoteOut
       /\ x.mainIn = h.mainIn /\ x.mainOut = h.mainOut
       /\ x.mainNoteIn = h.mainNoteIn /\ x.mainNoteOut = h.mainNoteOut
  BY <1>4, <1>9 DEF HostFields
<1>12. IsHost(h1)
  BY <1>2, <1>9, <1>10 DEF IsHost, IsRecord
<1>13. \E o \in orders : h1.free = left \o o
  BY <1>1, <1>9 DEF free
<1>14. /\ h1.mainIn = IF audio = None THEN h.mainIn
                      ELSE MainOf({"InOut", "InOnly"}, audio.layout, audio.inputs, TRUE, portOf)
       /\ h1.mainOut = IF audio = None THEN h.mainOut
                       ELSE MainOf(WithMainOut, audio.layout, audio.outputs, FALSE, portOf)
  BY <1>4, <1>6, <1>8, <1>11 DEF AfterAudio, AfterNotes
<1>15. /\ h1.mainNoteIn = IF note # None /\ note.inputs # <<>>
                          THEN portOf[Channel("Note", TRUE, note.inputs[1], 0)]
                          ELSE IF audio = None THEN h.mainNoteIn ELSE None
       /\ h1.mainNoteOut = IF note # None /\ note.outputs # <<>>
                           THEN portOf[Channel("Note", FALSE, note.outputs[1], 0)]
                           ELSE IF audio = None THEN h.mainNoteOut ELSE None
  BY <1>6, <1>8, <1>10, <1>11 DEF AfterAudio, AfterNotes
<1> QED BY <1>10, <1>12, <1>13, <1>14, <1>15 DEF SyncedFrom, portOf, next, n, left, orders

(* While the channels are the same, so is the port map.                    *)
LEMMA SyncedHost ==
  ASSUME NEW h, IsHost(h), NEW audio, NEW note, NEW h1 \in Synced(h, audio, note)
  PROVE  /\ IsHost(h1)
         /\ h1.latency = h.latency /\ h1.removeRequested = h.removeRequested
         /\ DOMAIN h1.portOf = DOMAIN h.portOf => h1.portOf = h.portOf
<1>1. SyncedFrom(h, audio, note, h1)
  BY SyncedFields
<1>2. h1.latency = h.latency /\ h1.removeRequested = h.removeRequested
  BY <1>1 DEF SyncedFrom, HostFields, PortFields, MainFields
<1>3. \A c \in DOMAIN h1.portOf \cap DOMAIN h.portOf : h1.portOf[c] = h.portOf[c]
  BY <1>1 DEF SyncedFrom, PortOf
<1> QED BY <1>1, <1>2, <1>3 DEF SyncedFrom, IsHost, IsFcn

-----------------------------------------------------------------------------
(* The ports of a node after sync_ports_in_graph: those of the port map,   *)
(* of which the old ones are as they were.                                 *)
LEMMA SyncedPortsAre ==
  ASSUME NEW ports, NEW old, NEW new, DOMAIN ports = Ports(old)
  PROVE  /\ DOMAIN SyncedPorts(ports, old, new) = Ports(new)
         /\ IsFcn(SyncedPorts(ports, old, new))
         /\ \A q \in Ports(old) \cap Ports(new) :
              SyncedPorts(ports, old, new)[q] = ports[q]
BY DEF SyncedPorts, IsFcn

(* An edge stays if the ports at its ends do.                              *)
LEMMA SyncedGraphPorts ==
  ASSUME NEW g, GraphInv(g), g.edges = graph.edges, NEW p \in DOMAIN g.ports,
         NEW old, NEW new, DOMAIN g.ports[p] = Ports(old),
         NEW g1, g1 = SyncedGraph(g, p, old, new)
  PROVE  /\ GraphInv(g1)
         /\ DOMAIN g1.ports = DOMAIN g.ports
         /\ DOMAIN g1.ports[p] = Ports(new)
         /\ \A n \in DOMAIN g.ports \ {p} : g1.ports[n] = g.ports[n]
<1> DEFINE ports == SyncedPorts(g.ports[p], old, new)
           gone == EdgesAt(p, Ports(old) \ Ports(new))
<1>1. /\ DOMAIN ports = Ports(new) /\ IsFcn(ports)
      /\ \A q \in Ports(old) \cap Ports(new) : ports[q] = g.ports[p][q]
  BY SyncedPortsAre
<1>2. g1 = [g EXCEPT !.ports[p] = ports, !.edges = @ \ gone]
  BY DEF SyncedGraph
<1>3. \A e \in g.edges \ gone : /\ e.src = p => e.srcPort \notin Ports(old) \ Ports(new)
                                /\ e.dst = p => e.dstPort \notin Ports(old) \ Ports(new)
  BY DEF EdgesAt
<1> HIDE DEF ports, gone
<1>4. /\ IsGraph(g1) /\ IsFcn(g1.ports) /\ DOMAIN g1.ports = DOMAIN g.ports
      /\ g1.ports[p] = ports /\ g1.edges = g.edges \ gone
      /\ \A n \in DOMAIN g.ports \ {p} : g1.ports[n] = g.ports[n]
  BY <1>2 DEF GraphInv, IsGraph, IsFcn
<1>5. \A n \in DOMAIN g1.ports : IsFcn(g1.ports[n])
  BY <1>1, <1>4 DEF GraphInv
<1>6. ASSUME NEW e \in g1.edges PROVE Joins(g1, e)
  <2>1. e \in g.edges /\ Joins(g, e)
    BY <1>4 DEF GraphInv
  <2>2. /\ e.srcPort \in DOMAIN g1.ports[e.src]
        /\ g1.ports[e.src][e.srcPort] = g.ports[e.src][e.srcPort]
    BY <1>1, <1>3, <1>4, <2>1 DEF Joins
  <2>3. /\ e.dstPort \in DOMAIN g1.ports[e.dst]
        /\ g1.ports[e.dst][e.dstPort] = g.ports[e.dst][e.dstPort]
    BY <1>1, <1>3, <1>4, <2>1 DEF Joins
  <2> QED BY <1>4, <2>1, <2>2, <2>3 DEF Joins
<1> QED BY <1>1, <1>4, <1>5, <1>6 DEF GraphInv

(* It changes nothing when the port map stays the same.                    *)
LEMMA SyncedGraphSame ==
  ASSUME NEW g, GraphInv(g), NEW p \in DOMAIN g.ports, NEW old, NEW new,
         DOMAIN g.ports[p] = Ports(old), Ports(new) = Ports(old)
  PROVE  SyncedGraph(g, p, old, new) = g
<1> DEFINE ports == SyncedPorts(g.ports[p], old, new)
           gone == EdgesAt(p, Ports(old) \ Ports(new))
           g1 == SyncedGraph(g, p, old, new)
<1>1. g1 = [g EXCEPT !.ports[p] = ports, !.edges = @ \ gone]
  BY DEF SyncedGraph
<1>2. ports = g.ports[p]
  BY SyncedPortsAre DEF IsFcn, GraphInv
<1>3. gone = {}
  BY DEF EdgesAt
<1> HIDE DEF ports, gone, g1
<1>4. /\ DOMAIN g1 = DOMAIN g /\ IsGraph(g1)
      /\ g1.ports = g.ports /\ g1.edges = g.edges /\ g1.latency = g.latency
  BY <1>1, <1>2, <1>3 DEF GraphInv, IsGraph, IsFcn
<1>5. g1 = g
  BY <1>4 DEF GraphInv, IsGraph
<1> QED BY <1>5 DEF g1

-----------------------------------------------------------------------------
(* What the rest of an activation does to a host is not about ports.       *)
Like(h, x) ==
  /\ IsHost(x)
  /\ x.portOf = h.portOf /\ x.removeRequested = h.removeRequested

(* A field that is not about ports may have any value.                     *)
LEMMA FieldsAreLike ==
  ASSUME NEW h, NEW v, IsHost(h)
  PROVE  /\ Like(h, [h EXCEPT !.latency = v])
         /\ Like(h, [h EXCEPT !.state = v])
         /\ Like(h, [h EXCEPT !.rescanAudio = v])
         /\ Like(h, [h EXCEPT !.rescanNote = v])
         /\ [h EXCEPT !.rescanAudio = v].latency = h.latency
         /\ [h EXCEPT !.rescanNote = v].latency = h.latency
         /\ [h EXCEPT !.latency = v].latency = v
BY DEF Like, IsHost, IsFcn, HostFields

(* An activation keeps the port map.                                       *)
LEMMA ActiveIsLike ==
  ASSUME NEW h, IsHost(h), NEW audio, NEW note
  PROVE  Like(h, ActiveHost(h, audio, note))
BY DEF ActiveHost, Like, IsHost, IsFcn, HostFields

(* So do the requests of the plugin.                                       *)
LEMMA RequestedIsLike ==
  ASSUME NEW h, IsHost(h), NEW requests
  PROVE  Like(h, Requested(h, requests)) /\ Requested(h, requests).latency = h.latency
BY DEF Requested, Like, IsHost, IsFcn, HostFields

(* A plugin that is to be removed keeps its ports until it is dropped.     *)
LEMMA ScheduleRemoveHost ==
  ASSUME NEW h, IsHost(h)
  PROVE  /\ IsHost(ScheduleRemove(h))
         /\ ScheduleRemove(h).portOf = h.portOf /\ ScheduleRemove(h).removeRequested
BY DEF ScheduleRemove, IsHost, IsFcn, HostFields

(* A host that is like another has the same ports in the graph.            *)
LEMMA LikeFits ==
  ASSUME NEW g, NEW p, NEW h, Fits(g, p, h), NEW x, Like(h, x)
  PROVE  Fits(g, p, x)
BY DEF Fits, Like, Ports

(* All hosts but one fit their nodes.                                      *)
OthersFit(g, pool, p) ==
  /\ DOMAIN g.ports \subseteq DOMAIN pool \cup {p, GraphIn, GraphOut}
  /\ \A q \in DOMAIN pool \ {p} : Fits(g, q, pool[q])

(* Two graphs differ in the ports of one node at most.                     *)
SameNodes(g, g1, p) ==
  /\ DOMAIN g1.ports = DOMAIN g.ports
  /\ \A n \in DOMAIN g.ports \ {p} : g1.ports[n] = g.ports[n]

(* One host of the pool is new, or changes with its node.                  *)
LEMMA PoolUpdated ==
  ASSUME NEW g, NEW g1, NEW pool, NEW p, NEW h, Fits(g1, p, h),
         OthersFit(g, pool, p), SameNodes(g, g1, p)
  PROVE  PoolInv(g1, Put(pool, p, h))
<1>1. \A q \in DOMAIN Put(pool, p, h) : Fits(g1, q, Put(pool, p, h)[q])
  BY DEF Put, Fits, OthersFit, SameNodes
<1> QED BY <1>1 DEF Put, PoolInv, OthersFit, SameNodes

-----------------------------------------------------------------------------
(* A plugin whose node and host agree, in a graph that is sound.           *)
Ready(p, h, g) ==
  /\ p \in DOMAIN g.ports \ {GraphIn, GraphOut}
  /\ GraphInv(g) /\ g.edges = graph.edges
  /\ Fits(g, p, h)
  /\ OthersFit(g, host, p)

(* What an activation leaves; base is the graph it begins with.            *)
Left(p, base) ==
  /\ GraphInv(graph') /\ PoolInv(graph', host')
  /\ DOMAIN host' = DOMAIN host \cup {p}
  /\ \A q \in DOMAIN host \ {p} : host'[q] = host[q]
  /\ missed => missed'
  /\ recompile => recompile'
  /\ base = graph => graph' = graph \/ missed' \/ recompile'

(* An activation that is refused leaves nodes and hosts in agreement.      *)
LEMMA RefuseLeaves ==
  ASSUME NEW p, NEW h, NEW g, NEW u, Ready(p, h, g), Refuse(p, h, g, u)
  PROVE  Left(p, g)
<1> DEFINE h1 == [h EXCEPT !.state = Dead]
<1>1. /\ graph' = g /\ host' = Put(host, p, h1)
      /\ missed' = (missed \/ g # graph) /\ recompile' = recompile
  BY DEF Refuse
<1>2. Fits(g, p, h1)
  <2>1. IsHost(h) /\ Fits(g, p, h)
    BY DEF Ready, Fits
  <2>2. Like(h, h1)
    BY <2>1 DEF Like, IsHost, IsFcn, HostFields
  <2> HIDE DEF h1
  <2> QED BY <2>1, <2>2, LikeFits
<1> HIDE DEF h1
<1>3. /\ PoolInv(g, host') /\ DOMAIN host' = DOMAIN host \cup {p}
      /\ \A q \in DOMAIN host \ {p} : host'[q] = host[q]
  <2>1. OthersFit(g, host, p) /\ SameNodes(g, g, p)
    BY DEF Ready, SameNodes
  <2>2. Fits(g, p, h1)
    BY <1>2
  <2>3. PoolInv(g, Put(host, p, h1))
    BY <2>1, <2>2, PoolUpdated
  <2> QED BY <1>1, <2>3 DEF Put
<1> QED BY <1>1, <1>3 DEF Left, Ready

(* The latency of a node is part of no edge and no port.                   *)
LEMMA LatencyReady ==
  ASSUME NEW p, NEW h, NEW g, Ready(p, h, g), NEW latency,
         NEW h0, h0 = [h EXCEPT !.latency = latency],
         NEW g0, g0 = IF h.latency = latency THEN g ELSE [g EXCEPT !.latency[p] = latency]
  PROVE  Ready(p, h0, g0) /\ Like(h, h0) /\ h0.latency = latency
<1>1. Like(h, h0) /\ h0.latency = latency
  <2>1. IsHost(h)
    BY DEF Ready, Fits
  <2> QED BY <2>1 DEF Like, IsHost, IsFcn, HostFields
<1>2. GraphInv(g0) /\ g0.ports = g.ports /\ g0.edges = g.edges
  BY DEF Ready, GraphInv, IsGraph, Joins
<1>3. Fits(g0, p, h0)
  BY <1>1, <1>2, LikeFits DEF Ready, Fits
<1>4. OthersFit(g0, host, p)
  BY <1>2 DEF Ready, Fits, OthersFit
<1> QED BY <1>1, <1>2, <1>3, <1>4 DEF Ready

(* So does one that synchronises the ports, whether it succeeds or not.    *)
LEMMA SyncLeaves ==
  ASSUME NEW p, NEW h, NEW g, NEW u, NEW audio, NEW note, NEW latency, Ready(p, h, g),
         Sync(p, h, g, u, audio, note, latency)
  PROVE  Left(p, g)
<1> DEFINE h0 == [h EXCEPT !.latency = latency]
           g0 == IF h.latency = latency THEN g ELSE [g EXCEPT !.latency[p] = latency]
           fetched == {audio, note} # {None}
<1>0. \/ Refuse(p, h0, g0, u)
      \/ \E h1 \in IF fetched THEN Synced(h0, audio, note) ELSE {h0} :
           /\ graph' = SyncedGraph(g0, p, h0, h1)
           /\ \/ /\ host' = Put(host, p, ActiveHost(h1, audio, note))
                 /\ recompile' = (recompile \/ NeedsRecompile(h, h1))
                 /\ missed' = missed
              \/ /\ host' = Put(host, p, [h1 EXCEPT !.state = Dead])
                 /\ missed' = (missed \/ graph' # graph)
                 /\ recompile' = recompile
  BY DEF Sync
<1>1. Ready(p, h0, g0) /\ Like(h, h0) /\ h0.latency = latency
  BY LatencyReady
<1>2. h.latency = latency => g0 = g
  OBVIOUS
<1> HIDE DEF h0, g0
<1>3. CASE Refuse(p, h0, g0, u)
  <2>1. Left(p, g0)
    BY <1>1, <1>3, RefuseLeaves
  <2>2. graph' = g0 /\ missed' = (missed \/ g0 # graph)
    BY <1>3 DEF Refuse
  <2> QED BY <2>1, <2>2 DEF Left
<1>4. ASSUME NEW h1 \in IF fetched THEN Synced(h0, audio, note) ELSE {h0},
             graph' = SyncedGraph(g0, p, h0, h1),
             \/ /\ host' = Put(host, p, ActiveHost(h1, audio, note))
                /\ recompile' = (recompile \/ NeedsRecompile(h, h1))
                /\ missed' = missed
             \/ /\ host' = Put(host, p, [h1 EXCEPT !.state = Dead])
                /\ missed' = (missed \/ graph' # graph)
                /\ recompile' = recompile
      PROVE  Left(p, g)
  <2>1. /\ IsHost(h1)
        /\ h1.latency = h0.latency /\ h1.removeRequested = h0.removeRequested
        /\ DOMAIN h1.portOf = DOMAIN h0.portOf => h1.portOf = h0.portOf
    <3>1. IsHost(h0)
      BY <1>1 DEF Ready, Fits
    <3>2. h1 = h0 \/ h1 \in Synced(h0, audio, note)
      BY <1>4
    <3> QED BY <3>1, <3>2, SyncedHost
  <2>2. /\ GraphInv(graph')
        /\ DOMAIN graph'.ports = DOMAIN g0.ports
        /\ DOMAIN graph'.ports[p] = Ports(h1)
        /\ \A n \in DOMAIN g0.ports \ {p} : graph'.ports[n] = g0.ports[n]
    BY <1>1, <1>4, SyncedGraphPorts DEF Ready, Fits
  <2>3. Fits(graph', p, h1)
    BY <1>1, <2>1, <2>2 DEF Ready, Fits
  <2>4. PICK h2 : Fits(graph', p, h2) /\ host' = Put(host, p, h2)
    BY <1>4, <2>1, <2>3, ActiveIsLike, FieldsAreLike, LikeFits
  <2>5. /\ PoolInv(graph', host') /\ DOMAIN host' = DOMAIN host \cup {p}
        /\ \A q \in DOMAIN host \ {p} : host'[q] = host[q]
    <3>1. OthersFit(g0, host, p) /\ SameNodes(g0, graph', p)
      BY <1>1, <2>2 DEF Ready, SameNodes
    <3>2. PoolInv(graph', Put(host, p, h2))
      BY <2>4, <3>1, PoolUpdated
    <3> QED BY <2>4, <3>2 DEF Put
  <2>6. ASSUME g = graph, ~NeedsRecompile(h, h1) PROVE graph' = graph
    <3>1. g0 = g /\ h1.portOf = h0.portOf
      BY <1>1, <1>2, <2>1, <2>6 DEF NeedsRecompile, Like
    <3>2. Ports(h1) = Ports(h0)
      BY <3>1 DEF Ports
    <3> QED BY <1>1, <1>4, <2>6, <3>1, <3>2, SyncedGraphSame DEF Ready, Fits
  <2>7. /\ missed => missed'
        /\ recompile => recompile'
        /\ g = graph => graph' = graph \/ missed' \/ recompile'
    <3>1. CASE recompile' = (recompile \/ NeedsRecompile(h, h1)) /\ missed' = missed
      BY <2>6, <3>1, Zenon
    <3>2. CASE recompile' = recompile /\ missed' = (missed \/ graph' # graph)
      BY <3>2, Zenon
    <3> QED BY <1>4, <3>1, <3>2
  <2> QED BY <2>2, <2>5, <2>7 DEF Left
<1> QED BY <1>0, <1>3, <1>4

(* So does an activation.                                                  *)
LEMMA ActivateLeaves ==
  ASSUME NEW p, NEW h, NEW g, NEW u, Ready(p, h, g), Activate(p, h, g, u)
  PROVE  Left(p, g)
<1> DEFINE h1 == [h EXCEPT !.rescanAudio = FALSE]
           h2 == [h1 EXCEPT !.rescanNote = FALSE]
<1>1. \/ Refuse(p, h1, g, u)
      \/ Refuse(p, h2, g, u)
      \/ \E audio, note, latency : Sync(p, h2, g, u, audio, note, latency)
  BY DEF Activate
<1>2. Ready(p, h1, g)
  <2>1. IsHost(h)
    BY DEF Ready, Fits
  <2>2. Like(h, h1)
    BY <2>1 DEF Like, IsHost, IsFcn, HostFields
  <2> HIDE DEF h1
  <2> QED BY <2>2, LikeFits DEF Ready
<1> HIDE DEF h1
<1>3. Ready(p, h2, g)
  <2>1. IsHost(h1)
    BY <1>2 DEF Ready, Fits
  <2>2. Like(h1, h2)
    BY <2>1 DEF Like, IsHost, IsFcn, HostFields
  <2> HIDE DEF h2
  <2> QED BY <1>2, <2>2, LikeFits DEF Ready
<1> HIDE DEF h2
<1> QED BY <1>1, <1>2, <1>3, RefuseLeaves, SyncLeaves

-----------------------------------------------------------------------------
(* At first there are the nodes of the graph itself.                       *)
LEMMA PortsInit == Init => PortInv
<1> SUFFICES ASSUME Init PROVE PortInv
  OBVIOUS
<1>1. graph = EmptyGraph /\ DOMAIN host = {} /\ made = {} /\ todo = {} /\ leaving = {}
  BY DEF Init
<1>2. GraphInv(EmptyGraph) /\ DOMAIN EmptyGraph.ports = {GraphIn, GraphOut}
  BY DEF EmptyGraph, GraphIOPorts, GraphInv, IsGraph, IsFcn
<1> QED BY <1>1, <1>2 DEF PortInv, PoolInv

(* A step that changes a host, but nothing about its ports.                *)
LEMMA HostChanges ==
  ASSUME PortInv, NEW p \in DOMAIN host, NEW h, Like(host[p], h),
         host' = [host EXCEPT ![p] = h],
         UNCHANGED <<graph, made>>,
         todo' \subseteq todo,
         leaving' \subseteq leaving \cup (IF h.removeRequested THEN {p} ELSE {})
  PROVE  PortInv'
<1>1. DOMAIN host' = DOMAIN host /\ \A q \in DOMAIN host : host'[q] = IF q = p THEN h ELSE host[q]
  OBVIOUS
<1>2. Fits(graph, p, h)
  BY LikeFits DEF PortInv, PoolInv
<1>3. PoolInv(graph', host')
  BY <1>1, <1>2 DEF PortInv, PoolInv
<1>4. \A q \in leaving' : q \in DOMAIN host' /\ host'[q].removeRequested
  BY <1>1 DEF PortInv, Like
<1> QED BY <1>1, <1>3, <1>4 DEF PortInv

(* A step that changes edges at most.                                      *)
LEMMA EdgesChange ==
  ASSUME PortInv, NEW edges, \A e \in edges : Joins(graph, e),
         graph' = [graph EXCEPT !.edges = edges],
         UNCHANGED <<host, made, todo, leaving>>
  PROVE  PortInv'
<1>1. /\ IsGraph(graph') /\ graph'.ports = graph.ports /\ graph'.edges = edges
  BY DEF PortInv, GraphInv, IsGraph
<1>2. GraphInv(graph')
  BY <1>1 DEF PortInv, GraphInv, Joins
<1>3. PoolInv(graph', host)
  BY <1>1 DEF PortInv, PoolInv, Fits
<1> QED BY <1>2, <1>3 DEF PortInv

(* The graph's own nodes are no plugins.                                   *)
LEMMA GraphNames == {GraphIn, GraphOut} \cap Plugins = {}
BY GraphAssumption DEF GraphIn, GraphOut

(* A plugin of the pool that stays has its node.                           *)
LEMMA IdleIsReady ==
  ASSUME PortInv, NEW p \in DOMAIN host, NEW h, Like(host[p], h), ~h.removeRequested
  PROVE  Ready(p, h, graph)
<1>1. Fits(graph, p, h) /\ p \in DOMAIN graph.ports
  BY LikeFits DEF PortInv, PoolInv, Fits
<1>2. p \notin {GraphIn, GraphOut}
  BY GraphNames DEF PortInv
<1>3. OthersFit(graph, host, p)
  BY DEF PortInv, PoolInv, OthersFit
<1> QED BY <1>1, <1>2, <1>3 DEF Ready, PortInv

(* A plugin that is added gets a node without ports.                       *)
LEMMA AddIsReady ==
  ASSUME PortInv, NEW p \in Plugins, p \notin made,
         NEW h, IsHost(h), Ports(h) = {}, ~h.removeRequested, NEW g, g = AddNode(p)
  PROVE  /\ Ready(p, h, g)
         /\ p \notin DOMAIN host /\ p \notin Nodes
         /\ DOMAIN g.ports = Nodes \cup {p} /\ g.ports[p] = <<>>
         /\ \A n \in Nodes : g.ports[n] = graph.ports[n]
<1>1. p \notin DOMAIN host /\ p \notin Nodes /\ p \notin {GraphIn, GraphOut}
  <2>1. p \notin {GraphIn, GraphOut}
    BY GraphNames
  <2> QED BY <2>1 DEF PortInv, PoolInv, Nodes
<1>2. /\ IsGraph(g) /\ IsFcn(g.ports) /\ g.edges = graph.edges
      /\ DOMAIN g.ports = Nodes \cup {p} /\ g.ports[p] = <<>>
      /\ \A n \in Nodes : g.ports[n] = graph.ports[n]
  <2> DEFINE ports == Put(graph.ports, p, <<>>)
             latency == Put(graph.latency, p, 0)
  <2>1. /\ IsFcn(ports) /\ DOMAIN ports = Nodes \cup {p} /\ ports[p] = <<>>
        /\ \A n \in Nodes : ports[n] = graph.ports[n]
    BY <1>1 DEF Put, Nodes, IsFcn
  <2>2. g = [graph EXCEPT !.ports = ports, !.latency = latency]
    BY DEF AddNode
  <2> HIDE DEF ports, latency
  <2>3. IsGraph(g) /\ g.edges = graph.edges /\ g.ports = ports
    BY <2>2 DEF PortInv, GraphInv, IsGraph
  <2> QED BY <2>1, <2>3
<1>3. GraphInv(g)
  <2>1. \A n \in DOMAIN g.ports : IsFcn(g.ports[n])
    BY <1>2 DEF PortInv, GraphInv, Nodes, IsFcn
  <2>2. \A e \in g.edges : Joins(g, e)
    BY <1>1, <1>2 DEF PortInv, GraphInv, Nodes, Joins
  <2> QED BY <1>2, <2>1, <2>2 DEF GraphInv
<1>4. Fits(g, p, h)
  BY <1>2 DEF Fits
<1>5. OthersFit(g, host, p)
  BY <1>1, <1>2 DEF OthersFit, PortInv, PoolInv, Fits, Nodes
<1> QED BY <1>1, <1>2, <1>3, <1>4, <1>5 DEF Ready

(* A step keeps nodes, hosts and the ends of edges in agreement.           *)
LEMMA PortInvStep ==
  ASSUME PortInv, Next PROVE PortInv'
<1> USE DEF edgeVars, countVars, idleVars
<1>a. ASSUME UNCHANGED <<graph, host, made, todo, leaving>> PROVE PortInv'
  BY <1>a DEF PortInv
<1>1. ASSUME NEW id \in told, Disconnect(id) PROVE PortInv'
  <2>1. CASE id \in dsEdges
    <3>1. graph' = [graph EXCEPT !.edges = {e \in graph.edges : e.id # id}]
      BY <1>1, <2>1 DEF Disconnect
    <3> QED BY <1>1, <3>1, EdgesChange DEF Disconnect, PortInv, GraphInv
  <2> QED BY <1>1, <1>a, <2>1 DEF Disconnect
<1>2. ASSUME NEW p \in Plugins, RemovePlugin(p) PROVE PortInv'
  <2> DEFINE h == ScheduleRemove(host[p])
  <2>1. /\ p \in DOMAIN host /\ host' = [host EXCEPT ![p] = h]
        /\ UNCHANGED <<made, todo, leaving>>
    BY <1>2 DEF RemovePlugin
  <2>2. IsHost(h) /\ h.portOf = host[p].portOf /\ h.removeRequested
    BY <2>1, ScheduleRemoveHost DEF PortInv, PoolInv, Fits
  <2> HIDE DEF h
  <2>3. /\ IsGraph(graph') /\ IsFcn(graph'.ports)
        /\ DOMAIN graph'.ports = Nodes \ {p}
        /\ \A n \in Nodes \ {p} : graph'.ports[n] = graph.ports[n]
        /\ graph'.edges = graph.edges \ EdgesOf(p)
    <3>1. CASE p \in Nodes
      <4> DEFINE ports == [m \in Nodes \ {p} |-> graph.ports[m]]
                 latency == [m \in Nodes \ {p} |-> graph.latency[m]]
                 edges == graph.edges \ EdgesOf(p)
      <4>1. graph' = [graph EXCEPT !.ports = ports, !.latency = latency, !.edges = edges]
        BY <1>2, <3>1 DEF RemovePlugin, Without
      <4>2. /\ IsFcn(ports) /\ DOMAIN ports = Nodes \ {p}
            /\ \A n \in Nodes \ {p} : ports[n] = graph.ports[n]
        BY DEF IsFcn
      <4> HIDE DEF ports, latency
      <4>3. IsGraph(graph') /\ graph'.edges = edges /\ graph'.ports = ports
        BY <4>1 DEF PortInv, GraphInv, IsGraph
      <4> QED BY <4>2, <4>3
    <3>2. CASE p \notin Nodes
      <4>1. graph' = graph
        BY <1>2, <3>2 DEF RemovePlugin
      <4>2. EdgesOf(p) \cap graph.edges = {}
        BY <3>2 DEF EdgesOf, Nodes, PortInv, GraphInv, Joins
      <4> QED BY <3>2, <4>1, <4>2 DEF Nodes, PortInv, GraphInv
    <3> QED BY <3>1, <3>2
  <2>4. GraphInv(graph')
    <3>1. \A e \in graph'.edges : Joins(graph', e)
      BY <2>3 DEF EdgesOf, Nodes, PortInv, GraphInv, Joins
    <3> QED BY <2>3, <3>1 DEF Nodes, PortInv, GraphInv
  <2>5. PoolInv(graph', host')
    <3>1. Fits(graph', p, h)
      BY <2>2, <2>3 DEF Fits
    <3>2. \A q \in DOMAIN host \ {p} : Fits(graph', q, host[q])
      BY <2>3 DEF PortInv, PoolInv, Fits, Nodes
    <3>3. DOMAIN host' = DOMAIN host /\ \A q \in DOMAIN host' : Fits(graph', q, host'[q])
      BY <2>1, <3>1, <3>2
    <3> QED BY <2>3, <3>3 DEF PortInv, PoolInv, Nodes
  <2> QED BY <2>1, <2>2, <2>4, <2>5 DEF PortInv
<1>3. ASSUME NEW p \in Plugins, AddPlugin(p) PROVE PortInv'
  <2> DEFINE g == AddNode(p)
  <2>1. /\ p \notin made /\ made' = made \cup {p} /\ UNCHANGED <<todo, leaving>>
    BY <1>3 DEF AddPlugin
  <2>2. PICK saved, loaded, autoOut, u :
          LET h == NewHost(saved, loaded, autoOut)
          IN \/ Activate(p, h, g, u)
             \/ graph' = g /\ host' = Put(host, p, h)
    BY <1>3 DEF AddPlugin
  <2> DEFINE h == NewHost(saved, loaded, autoOut)
  <2>3. IsHost(h) /\ Ports(h) = {} /\ ~h.removeRequested
    BY DEF NewHost, IsHost, IsFcn, HostFields, Ports
  <2> HIDE DEF g, h
  <2>4. Ready(p, h, g) /\ p \notin DOMAIN host
    BY <2>1, <2>3, AddIsReady DEF g
  <2>5. CASE Activate(p, h, g, u)
    <3>1. Left(p, g)
      BY <2>4, <2>5, ActivateLeaves
    <3> QED BY <2>1, <2>4, <3>1 DEF Left, PortInv
  <2>6. CASE graph' = g /\ host' = Put(host, p, h)
    <3>1. PoolInv(g, Put(host, p, h))
      <4>1. Fits(g, p, h) /\ OthersFit(g, host, p) /\ SameNodes(g, g, p)
        BY <2>4 DEF Ready, SameNodes
      <4> QED BY <4>1, PoolUpdated
    <3>2. GraphInv(graph') /\ PoolInv(graph', host')
      BY <2>4, <2>6, <3>1 DEF Ready
    <3>3. /\ DOMAIN host' = DOMAIN host \cup {p}
          /\ \A q \in DOMAIN host : host'[q] = host[q]
      BY <2>4, <2>6 DEF Put
    <3> QED BY <2>1, <3>2, <3>3 DEF PortInv
  <2> QED BY <2>2, <2>5, <2>6 DEF h
<1>4. ASSUME NEW p \in Plugins, DropProcessor(p) PROVE PortInv'
  <2> DEFINE h == [host[p] EXCEPT !.state = "Dropped"]
  <2>1. /\ p \in DOMAIN host /\ host' = [host EXCEPT ![p] = h]
        /\ UNCHANGED <<graph, made, todo, leaving>>
    BY <1>4 DEF DropProcessor
  <2>2. Like(host[p], h)
    <3>1. IsHost(host[p])
      BY <2>1 DEF PortInv, PoolInv, Fits
    <3> QED BY <3>1 DEF Like, IsHost, IsFcn, HostFields
  <2> HIDE DEF h
  <2> QED BY <2>1, <2>2, HostChanges
<1>5. ASSUME NEW src, NEW dst, NEW req \in EdgeReqs, Connect(src, dst, req)
      PROVE  PortInv'
  <2>1. CASE graph' = graph
    BY <1>5, <1>a, <2>1 DEF Connect
  <2>2. CASE graph' # graph
    <3>1. PICK sp, dp :
            /\ Accepts(src, sp, dst, dp)
            /\ graph' = [graph EXCEPT !.edges = graph.edges \cup
                 {[id |-> nextEdge, src |-> src, srcPort |-> sp, dst |-> dst, dstPort |-> dp]}]
      BY <1>5, <2>2 DEF Connect
    <3> DEFINE e == [id |-> nextEdge, src |-> src, srcPort |-> sp, dst |-> dst, dstPort |-> dp]
    <3>2. Joins(graph, e)
      BY <3>1 DEF Accepts, Nodes, Joins
    <3> HIDE DEF e
    <3>3. \A f \in graph.edges \cup {e} : Joins(graph, f)
      BY <3>2 DEF PortInv, GraphInv
    <3>4. UNCHANGED <<host, made, todo, leaving>>
      BY <1>5 DEF Connect
    <3>5. graph' = [graph EXCEPT !.edges = graph.edges \cup {e}]
      BY <3>1 DEF e
    <3> QED BY <3>3, <3>4, <3>5, EdgesChange
  <2> QED BY <2>1, <2>2
<1>6. CASE EndModify
  BY <1>6, <1>a DEF EndModify
<1>7. CASE BeginIdle
  BY <1>7 DEF BeginIdle, PortInv
<1>8. ASSUME NEW p \in todo, NEW requests, OnIdle(p, requests) PROVE PortInv'
  <2> DEFINE h == Requested(host[p], requests)
  <2>1. IsHost(host[p]) /\ Fits(graph, p, host[p]) /\ p \in DOMAIN host
    BY DEF PortInv, PoolInv, Fits
  <2>2. Like(host[p], h)
    BY <2>1, RequestedIsLike
  <2>3. UNCHANGED made /\ todo' = todo \ {p}
    BY <1>8 DEF OnIdle
  <2>4. CASE ~h.removeRequested /\ Activate(p, h, graph, unsynced) /\ UNCHANGED leaving
    <3>1. Ready(p, h, graph)
      BY <2>1, <2>2, <2>4, IdleIsReady
    <3>2. Left(p, graph)
      BY <2>4, <3>1, ActivateLeaves
    <3>3. \A q \in leaving : q # p
      BY <2>2, <2>4 DEF PortInv, Like
    <3> QED BY <2>1, <2>3, <2>4, <3>2, <3>3 DEF Left, PortInv
  <2>5. CASE /\ Stays(p, IF h.state = "Dropped" THEN [h EXCEPT !.state = "Inactive"] ELSE h)
             /\ leaving' = IF h.removeRequested /\ h.state = "Dropped"
                           THEN leaving \cup {p} ELSE leaving
    <3> DEFINE h1 == IF h.state = "Dropped" THEN [h EXCEPT !.state = "Inactive"] ELSE h
    <3>1. /\ host' = [host EXCEPT ![p] = h1] /\ UNCHANGED graph
      BY <2>5 DEF Stays
    <3> HIDE DEF h
    <3>2. Like(host[p], h1)
      BY <2>2 DEF Like, IsHost, IsFcn, HostFields
    <3>3. h1.removeRequested = h.removeRequested
      BY <2>2, <3>2 DEF Like
    <3> HIDE DEF h1
    <3> QED BY <2>1, <2>3, <2>5, <3>1, <3>2, <3>3, HostChanges
  <2> QED BY <1>8, <2>4, <2>5 DEF OnIdle
<1>9. CASE EndIdle
  <2>1. /\ todo = {} /\ leaving' = {} /\ UNCHANGED <<graph, made, todo>>
        /\ host' = [p \in DOMAIN host \ leaving |-> host[p]]
    BY <1>9 DEF EndIdle
  <2>2. \A p \in leaving : p \notin DOMAIN graph.ports
    BY DEF PortInv, PoolInv, Fits
  <2>3. PoolInv(graph', host')
    BY <2>1, <2>2 DEF PortInv, PoolInv
  <2> QED BY <2>1, <2>3 DEF PortInv
<1> QED BY <1>1, <1>2, <1>3, <1>4, <1>5, <1>6, <1>7, <1>8, <1>9 DEF Next

-----------------------------------------------------------------------------
(* A step leaves the schedule of the graph as it is, or notes a change.    *)
LEMMA ScheduleInvStep ==
  ASSUME PortInv, ScheduleInv, Next PROVE ScheduleInv'
<1> USE DEF edgeVars, countVars, idleVars
<1>1. ASSUME stage' \in {"disconnect", "remove", "add", "connect"} PROVE ScheduleInv'
  BY <1>1 DEF ScheduleInv
<1>2. CASE \/ \E id \in told : Disconnect(id)
           \/ \E p \in Plugins : RemovePlugin(p) \/ AddPlugin(p)
           \/ \E src, dst : \E req \in EdgeReqs : Connect(src, dst, req)
  BY <1>1, <1>2 DEF Disconnect, RemovePlugin, AddPlugin, Connect, Modifies
<1>3. ASSUME NEW p \in Plugins, DropProcessor(p) PROVE ScheduleInv'
  BY <1>3 DEF DropProcessor, ScheduleInv
<1>4. CASE EndModify
  BY <1>4 DEF EndModify, Compile, Snapshot, ScheduleInv
<1>5. CASE BeginIdle
  BY <1>5 DEF BeginIdle, ScheduleInv
<1>6. ASSUME NEW p \in todo, NEW requests, OnIdle(p, requests) PROVE ScheduleInv'
  <2> DEFINE h == Requested(host[p], requests)
  <2>1. /\ stage = "idle" /\ UNCHANGED <<stage, engine, schedule>>
    BY <1>6 DEF OnIdle
  <2>2. CASE ~h.removeRequested /\ Activate(p, h, graph, unsynced)
    <3>1. Like(host[p], h) /\ p \in DOMAIN host
      BY RequestedIsLike DEF PortInv, PoolInv, Fits
    <3> HIDE DEF h
    <3>2. Left(p, graph)
      BY <2>2, <3>1, IdleIsReady, ActivateLeaves
    <3>3. missed \/ recompile \/ schedule.graph = graph =>
            missed' \/ recompile' \/ schedule.graph = graph'
      BY <3>2 DEF Left
    <3> QED BY <2>1, <3>3 DEF ScheduleInv
  <2>3. CASE UNCHANGED <<graph, recompile, missed>>
    BY <2>1, <2>3 DEF ScheduleInv
  <2> QED BY <1>6, <2>2, <2>3 DEF OnIdle, Stays
<1>7. CASE EndIdle
  <2>1. stage = "idle" /\ stage' = "rest" /\ recompile' = FALSE /\ UNCHANGED graph
    BY <1>7 DEF EndIdle
  <2>2. CASE recompile
    <3>1. Compile
      BY <1>7, <2>2 DEF EndIdle
    <3> QED BY <2>1, <3>1 DEF Compile, Snapshot, ScheduleInv
  <2>3. CASE ~recompile
    BY <1>7, <2>1, <2>3 DEF EndIdle, ScheduleInv
  <2> QED BY <2>2, <2>3
<1> QED BY <1>2, <1>3, <1>4, <1>5, <1>6, <1>7 DEF Next

-----------------------------------------------------------------------------
(* The channels of one type that have a port.                              *)
Typed(portOf, type) == {c \in DOMAIN portOf : c.type = type}

(* The channels of the main port of a list.                                *)
MainChannels(layouts, layout, list, input) ==
  IF layout \in layouts /\ list # <<>> THEN AudioChannels(<<list[1]>>, input) ELSE <<>>

Are(portOf, ports, channels) ==
  /\ Len(ports) = Len(channels) /\ DOMAIN ports = DOMAIN channels
  /\ \A i \in DOMAIN ports : channels[i] \in DOMAIN portOf /\ portOf[channels[i]] = ports[i]

IsFirst(portOf, port, ids, input) ==
  IF ids = <<>> THEN port = None
  ELSE LET c == Channel("Note", input, ids[1], 0)
       IN c \in DOMAIN portOf /\ port = portOf[c]

(* The main ports of a host are the first of the lists.                    *)
AudioFirst(h, audio) ==
  /\ Are(h.portOf, h.mainIn,
         MainChannels({"InOut", "InOnly"}, audio.layout, audio.inputs, TRUE))
  /\ Are(h.portOf, h.mainOut,
         MainChannels(WithMainOut, audio.layout, audio.outputs, FALSE))

NotesFirst(h, note) ==
  /\ IsFirst(h.portOf, h.mainNoteIn, note.inputs, TRUE)
  /\ IsFirst(h.portOf, h.mainNoteOut, note.outputs, FALSE)

(* They are ports it has.                                                  *)
MainsExist(h) ==
  /\ h.mainIn \in Seq(Ports(h)) /\ h.mainOut \in Seq(Ports(h))
  /\ {h.mainNoteIn, h.mainNoteOut} \subseteq Ports(h) \cup {None}

(* The ports of a host are those of the lists it announces.                *)
Announces(h, audio, note) ==
  /\ Typed(h.portOf, "Audio") = ToSet(AudioList(audio))
  /\ Typed(h.portOf, "Note") = ToSet(NoteList(note))
  /\ AudioFirst(h, audio)

States == {"Inactive", "Active", "WaitingToDrop", "Dropped", Dead}

(* A host p whose lists are audio and note, where U, T and P are the       *)
(* plugins that never got ports, that failed after they did, and whose     *)
(* lists were fetched apart.                                               *)
Describes(p, h, audio, note, U, T, P) ==
  /\ Numbered(h.portOf, h.free, h.next)
  /\ p \notin U \cup T => Announces(h, audio, note)
  /\ p \notin U \cup T \cup P => NotesFirst(h, note)
  /\ p \notin P => MainsExist(h)

HostInv(p, h, U, T, P) ==
  /\ Describes(p, h, h.audio, h.note, U, T, P)
  /\ h.audio \in AudioLists /\ h.note \in NoteLists /\ h.state \in States
  /\ p \in U => ~h.hasActivationOnce /\ DOMAIN h.portOf = {}

(* Its ports in the graph are of the types and directions of its channels. *)
Mirrors(g, p, h) ==
  p \in DOMAIN g.ports =>
    \A c \in DOMAIN h.portOf :
      g.ports[p][h.portOf[c]] = [type |-> c.type, input |-> c.input]

HostsInv ==
  \A p \in DOMAIN host :
    HostInv(p, host[p], unsynced, torn, partial) /\ Mirrors(graph, p, host[p])

(* The channels of the lists a plugin announces now, and when the graph    *)
(* was compiled.                                                           *)
SameChannels(p) ==
  ChannelsOf(schedule.layout[p]) = ChannelsOf(<<host[p].audio, host[p].note>>)

LayoutInv ==
  engine = "running" /\ stage \in {"rest", "idle"} =>
    recompile \/ \A p \in PluginNodes \ failed : SameChannels(p)

-----------------------------------------------------------------------------
(* What stands for a list that was not fetched is no list.                 *)
LEMMA ListsAssumption == None \notin AudioLists \cup NoteLists
BY GraphAssumption

(* The port map of a host that was synchronised: the channels that stay    *)
(* keep their ports, and the new ones get ports no channel had.            *)
MapFrom(h, audio, note, h1) ==
  /\ Numbered(h1.portOf, h1.free, h1.next)
  /\ DOMAIN h1.portOf = Kept(h.portOf, audio, note) \cup ToSet(Listed(audio, note, h.hasAutoOut))
  /\ \A c \in DOMAIN h1.portOf \cap DOMAIN h.portOf : h1.portOf[c] = h.portOf[c]
  /\ \A c \in DOMAIN h1.portOf \ DOMAIN h.portOf, d \in DOMAIN h.portOf :
       h1.portOf[c] # h.portOf[d]

(* sync_ports_in_graph makes such a port map.                              *)
LEMMA SyncedMap ==
  ASSUME NEW h, Numbered(h.portOf, h.free, h.next),
         NEW audio \in AudioLists \cup {None}, NEW note \in NoteLists \cup {None},
         NEW h1, SyncedFrom(h, audio, note, h1)
  PROVE  MapFrom(h, audio, note, h1)
<1> DEFINE prev == h.portOf
           free == h.free
           next == h.next
           listed == Listed(audio, note, h.hasAutoOut)
           kept == Kept(h.portOf, audio, note)
           new == NewChannels(prev, listed)
           n == Cardinality(new)
           ids == TakePorts(free, next, n)
           left == SubSeq(free, 1, Len(free) - Taken(free, n))
           next1 == next + n - Taken(free, n)
           portOf == h1.portOf
<1>1. listed \in Seq(Channels)
  BY ListsAssumption, ListedIs
<1>2. kept \in SUBSET DOMAIN prev
  BY DEF Kept
<1>3. portOf = Mapped(prev, kept, listed, new, ids)
  BY DEF SyncedFrom, PortOf, Rank, Mapped
<1>4. /\ h1.next = next1
      /\ \E order \in SetToSeqs({prev[c] : c \in DOMAIN prev \ DOMAIN portOf}) :
           h1.free = left \o order
  BY DEF SyncedFrom
<1>5. Takes(free, next, n, ids, left, next1)
  BY DEF Takes
<1>6. Numbered(prev, free, next) /\ new = NewChannels(prev, listed) /\ n = Cardinality(new)
  OBVIOUS
<1> HIDE DEF prev, free, next, listed, kept, new, n, ids, left, next1, portOf
<1>7. Extends(prev, free, next, portOf, left, next1)
  BY <1>1, <1>2, <1>3, <1>5, <1>6, NewNumbers
<1>8. PICK order \in SetToSeqs({prev[c] : c \in DOMAIN prev \ DOMAIN portOf}) :
        h1.free = left \o order
  BY <1>4
<1>9. /\ Numbered(portOf, left \o order, next1)
      /\ \A c \in DOMAIN portOf \ DOMAIN prev, d \in DOMAIN prev : portOf[c] # prev[d]
  BY <1>6, <1>7, StillNumbered
<1>10. DOMAIN portOf = kept \cup ToSet(listed)
  BY <1>3 DEF Mapped
<1>11. \A c \in DOMAIN portOf \cap DOMAIN prev : portOf[c] = prev[c]
  BY <1>7 DEF Extends
<1> QED BY <1>4, <1>8, <1>9, <1>10, <1>11 DEF MapFrom, prev, kept, listed, portOf

(* The channels of a list that was fetched are the ports there are of its  *)
(* type; the others stay.                                                  *)
ChannelsAre(h, audio, note, portOf) ==
  /\ Typed(portOf, "Audio") = IF audio = None THEN Typed(h.portOf, "Audio")
                              ELSE ToSet(AudioList(audio))
  /\ Typed(portOf, "Note") = IF note = None THEN Typed(h.portOf, "Note")
                             ELSE ToSet(NoteList(note))
  /\ AutoIn \in DOMAIN portOf

(* They are those of the lists, the automation inputs and what was kept.   *)
LEMMA SyncedChannels ==
  ASSUME NEW h, NEW audio \in AudioLists \cup {None}, NEW note \in NoteLists \cup {None},
         NEW portOf, DOMAIN portOf = Kept(h.portOf, audio, note)
              \cup ToSet(Listed(audio, note, h.hasAutoOut))
  PROVE  ChannelsAre(h, audio, note, portOf)
<1> DEFINE listed == ToSet(Listed(audio, note, h.hasAutoOut))
           kept == Kept(h.portOf, audio, note)
           a == ToSet(AudioList(audio))
           n == ToSet(NoteList(note))
<1>1. /\ {c \in listed : c.type = "Audio"} = a
      /\ {c \in listed : c.type = "Note"} = n
      /\ AutoIn \in listed
  BY ListsAssumption, ListedIs
<1>2. audio = None => a = {}
  BY DEF AudioList, ToSet
<1>3. note = None => n = {}
  BY DEF NoteList, ToSet
<1>4. /\ {c \in kept : c.type = "Audio"} = IF audio = None THEN Typed(h.portOf, "Audio") ELSE {}
      /\ {c \in kept : c.type = "Note"} = IF note = None THEN Typed(h.portOf, "Note") ELSE {}
  BY DEF Kept, Typed
<1>5. DOMAIN portOf = kept \cup listed
  OBVIOUS
<1> HIDE DEF listed, kept, a, n
<1>6. /\ Typed(portOf, "Audio") = {c \in kept : c.type = "Audio"} \cup {c \in listed : c.type = "Audio"}
      /\ Typed(portOf, "Note") = {c \in kept : c.type = "Note"} \cup {c \in listed : c.type = "Note"}
  BY <1>5 DEF Typed
<1> QED BY <1>1, <1>2, <1>3, <1>4, <1>5, <1>6 DEF ChannelsAre, a, n

(* The ports of a main port are those of its channels.                     *)
LEMMA MainOfIs ==
  ASSUME NEW layouts, NEW layout, NEW list \in Seq(AudioPorts), NEW input \in BOOLEAN, NEW portOf,
         ToSet(AudioChannels(list, input)) \subseteq DOMAIN portOf,
         NEW main, main = MainOf(layouts, layout, list, input, portOf),
         NEW ports, \A c \in DOMAIN portOf : portOf[c] \in ports
  PROVE  /\ Are(portOf, main, MainChannels(layouts, layout, list, input))
         /\ main \in Seq(ports)
<1>1. CASE layout \in layouts /\ list # <<>>
  <2> DEFINE s == AudioChannels(<<list[1]>>, input)
  <2>1. s \in Seq(ChannelsOfType("Audio")) /\ ToSet(s) \subseteq DOMAIN portOf
    BY <1>1, FirstChannels
  <2>2. main = [i \in DOMAIN s |-> portOf[s[i]]]
    BY <1>1 DEF MainOf, MainAudio
  <2>3. MainChannels(layouts, layout, list, input) = s
    BY <1>1 DEF MainChannels
  <2> HIDE DEF s
  <2>4. /\ Len(s) \in Nat /\ DOMAIN s = 1..Len(s)
        /\ \A i \in 1..Len(s) : s[i] \in DOMAIN portOf
    BY <2>1 DEF ToSet
  <2>5. main \in [1..Len(s) -> ports]
    BY <2>2, <2>4
  <2>6. main \in Seq(ports) /\ Len(main) = Len(s)
    BY <2>4, <2>5, FcnIsSeq
  <2> QED BY <2>2, <2>3, <2>4, <2>6 DEF Are
<1>2. CASE ~(layout \in layouts /\ list # <<>>)
  <2>1. main = <<>> /\ MainChannels(layouts, layout, list, input) = <<>>
    BY <1>2 DEF MainOf, MainAudio, MainChannels
  <2> QED BY <2>1 DEF Are
<1> QED BY <1>1, <1>2

(* They stay so while the audio channels keep their ports.                 *)
LEMMA AreKept ==
  ASSUME NEW portOf, NEW portOf1, Typed(portOf, "Audio") = Typed(portOf1, "Audio"),
         \A c \in DOMAIN portOf1 \cap DOMAIN portOf : portOf1[c] = portOf[c],
         NEW layouts, NEW layout, NEW list \in Seq(AudioPorts), NEW input \in BOOLEAN, NEW ports,
         Are(portOf, ports, MainChannels(layouts, layout, list, input))
  PROVE  Are(portOf1, ports, MainChannels(layouts, layout, list, input))
<1> DEFINE s == MainChannels(layouts, layout, list, input)
<1>1. s \in Seq(ChannelsOfType("Audio"))
  BY FirstChannels DEF MainChannels
<1>2. Are(portOf, ports, s)
  OBVIOUS
<1> HIDE DEF s
<1>3. \A c \in DOMAIN portOf : c.type = "Audio" => c \in DOMAIN portOf1 /\ portOf1[c] = portOf[c]
  BY DEF Typed
<1>4. \A i \in 1..Len(s) : s[i].type = "Audio"
  BY <1>1 DEF ChannelsOfType
<1>5. DOMAIN ports = 1..Len(s)
  BY <1>1, <1>2 DEF Are
<1>6. Are(portOf1, ports, s)
  BY <1>2, <1>3, <1>4, <1>5 DEF Are
<1> QED BY <1>6 DEF s

(* The list a plugin has now: the one before, if none was fetched.         *)
Or(list, before) == IF list = None THEN before ELSE list

(* The ports of a list, and their channels.                                *)
LEMMA ChannelsOfLists ==
  ASSUME NEW audio \in AudioLists, NEW note \in NoteLists
  PROVE  /\ audio # None /\ note # None
         /\ audio.inputs \in Seq(AudioPorts) /\ audio.outputs \in Seq(AudioPorts)
         /\ note.inputs \in Seq(Nat) /\ note.outputs \in Seq(Nat)
         /\ ToSet(AudioChannels(audio.inputs, TRUE)) \subseteq ToSet(AudioList(audio))
         /\ ToSet(AudioChannels(audio.outputs, FALSE)) \subseteq ToSet(AudioList(audio))
         /\ note.inputs # <<>> =>
              Channel("Note", TRUE, note.inputs[1], 0) \in ToSet(NoteList(note))
         /\ note.outputs # <<>> =>
              Channel("Note", FALSE, note.outputs[1], 0) \in ToSet(NoteList(note))
<1>1. audio # None /\ note # None
  BY ListsAssumption
<1>2. /\ audio.inputs \in Seq(AudioPorts) /\ audio.outputs \in Seq(AudioPorts)
      /\ note.inputs \in Seq(Nat) /\ note.outputs \in Seq(Nat)
  BY DEF AudioLists, NoteLists
<1>3. /\ ToSet(AudioChannels(audio.inputs, TRUE)) \subseteq ToSet(AudioList(audio))
      /\ ToSet(AudioChannels(audio.outputs, FALSE)) \subseteq ToSet(AudioList(audio))
  BY <1>1, ListsAssumption, AudioListIs
<1>4. /\ ToSet(NoteChannels(note.inputs, TRUE)) \subseteq ToSet(NoteList(note))
      /\ ToSet(NoteChannels(note.outputs, FALSE)) \subseteq ToSet(NoteList(note))
  BY <1>1, ListsAssumption, NoteListIs
<1>5. /\ note.inputs # <<>> =>
           Channel("Note", TRUE, note.inputs[1], 0) \in ToSet(NoteChannels(note.inputs, TRUE))
      /\ note.outputs # <<>> =>
           Channel("Note", FALSE, note.outputs[1], 0) \in ToSet(NoteChannels(note.outputs, FALSE))
  BY <1>2, NoteChannelsAre
<1> QED BY <1>1, <1>2, <1>3, <1>4, <1>5

(* The main ports of a host whose audio list was fetched.                  *)
LEMMA MainsAre ==
  ASSUME NEW h, NEW audio \in AudioLists, NEW note, NEW h1,
         SyncedFrom(h, audio, note, h1), ToSet(AudioList(audio)) \subseteq DOMAIN h1.portOf
  PROVE  /\ AudioFirst(h1, audio)
         /\ h1.mainIn \in Seq(Ports(h1)) /\ h1.mainOut \in Seq(Ports(h1))
<1> DEFINE portOf == h1.portOf
           ports == {portOf[c] : c \in DOMAIN portOf}
           in == MainOf({"InOut", "InOnly"}, audio.layout, audio.inputs, TRUE, portOf)
           out == MainOf(WithMainOut, audio.layout, audio.outputs, FALSE, portOf)
<1>1. /\ audio # None
      /\ audio.inputs \in Seq(AudioPorts) /\ audio.outputs \in Seq(AudioPorts)
      /\ ToSet(AudioChannels(audio.inputs, TRUE)) \subseteq ToSet(AudioList(audio))
      /\ ToSet(AudioChannels(audio.outputs, FALSE)) \subseteq ToSet(AudioList(audio))
  <2>1. PICK n : n \in NoteLists
    <3>1. Empty.note \in NoteLists
      BY DEF Empty, NoteLists
    <3> QED BY <3>1
  <2> QED BY <2>1, ChannelsOfLists
<1>2. h1.mainIn = in /\ h1.mainOut = out
  BY <1>1 DEF SyncedFrom
<1>3. Ports(h1) = ports /\ \A c \in DOMAIN portOf : portOf[c] \in ports
  BY DEF Ports
<1>4. ToSet(AudioList(audio)) \subseteq DOMAIN portOf
  OBVIOUS
<1> DEFINE first == MainChannels({"InOut", "InOnly"}, audio.layout, audio.inputs, TRUE)
           second == MainChannels(WithMainOut, audio.layout, audio.outputs, FALSE)
           chIn == AudioChannels(audio.inputs, TRUE)
           chOut == AudioChannels(audio.outputs, FALSE)
<1>5. ToSet(chIn) \subseteq DOMAIN portOf /\ ToSet(chOut) \subseteq DOMAIN portOf
  BY <1>1, <1>4
<1>6. Are(portOf, in, first) /\ in \in Seq(ports)
  <2>1. TRUE \in BOOLEAN /\ audio.inputs \in Seq(AudioPorts)
    BY <1>1
  <2> HIDE DEF portOf
  <2> QED BY <1>3, <1>5, <2>1, MainOfIs
<1>7. Are(portOf, out, second) /\ out \in Seq(ports)
  <2>1. FALSE \in BOOLEAN /\ audio.outputs \in Seq(AudioPorts)
    BY <1>1
  <2> HIDE DEF portOf
  <2> QED BY <1>3, <1>5, <2>1, MainOfIs
<1> HIDE DEF in, out, ports
<1> QED BY <1>2, <1>3, <1>6, <1>7 DEF AudioFirst, portOf

(* A host that got ports has those of the lists that were fetched, and of  *)
(* the lists it had.                                                       *)
LEMMA SyncedDescribes ==
  ASSUME NEW p, NEW h, NEW U, NEW T, NEW P,
         Describes(p, h, h.audio, h.note, U, T, P), h.audio \in AudioLists, h.note \in NoteLists,
         NEW audio \in AudioLists \cup {None}, NEW note \in NoteLists \cup {None},
         {audio, note} # {None}, p \in U => None \notin {audio, note},
         NEW h1, SyncedFrom(h, audio, note, h1)
  PROVE  Describes(p, h1, Or(audio, h.audio), Or(note, h.note), U \ {p},
                   IF None \in {audio, note} THEN T ELSE T \ {p},
                   IF None \in {audio, note} THEN P \cup {p} ELSE P)
<1> DEFINE audio1 == Or(audio, h.audio)
           note1 == Or(note, h.note)
<1>1. /\ Numbered(h1.portOf, h1.free, h1.next)
      /\ \A c \in DOMAIN h1.portOf \cap DOMAIN h.portOf : h1.portOf[c] = h.portOf[c]
      /\ ChannelsAre(h, audio, note, h1.portOf)
  <2>1. Numbered(h.portOf, h.free, h.next)
    BY DEF Describes
  <2>2. MapFrom(h, audio, note, h1)
    BY <2>1, SyncedMap
  <2>3. ChannelsAre(h, audio, note, h1.portOf)
    BY <2>2, SyncedChannels DEF MapFrom
  <2> QED BY <2>2, <2>3 DEF MapFrom
<1>2. audio1 \in AudioLists /\ note1 \in NoteLists
  BY DEF Or
<1>3. audio # None =>
        /\ AudioFirst(h1, audio)
        /\ h1.mainIn \in Seq(Ports(h1)) /\ h1.mainOut \in Seq(Ports(h1))
  <2>1. audio # None => ToSet(AudioList(audio)) \subseteq DOMAIN h1.portOf
    BY <1>1 DEF ChannelsAre, Typed
  <2> QED BY <2>1, MainsAre
<1>4. ASSUME None \in {audio, note}, p \notin (U \ {p}) \cup T
      PROVE  Announces(h1, audio1, note1)
  <2>1. Announces(h, h.audio, h.note)
    BY <1>4 DEF Describes
  <2>2. /\ Typed(h1.portOf, "Audio") = ToSet(AudioList(audio1))
        /\ Typed(h1.portOf, "Note") = ToSet(NoteList(note1))
    BY <1>1, <2>1 DEF Announces, ChannelsAre, Or
  <2>3. AudioFirst(h1, audio1)
    <3>1. CASE audio # None
      BY <1>3, <3>1 DEF Or
    <3>2. CASE audio = None
      <4>1. /\ audio1 = h.audio /\ h1.mainIn = h.mainIn /\ h1.mainOut = h.mainOut
            /\ Typed(h1.portOf, "Audio") = Typed(h.portOf, "Audio")
        BY <1>1, <3>2 DEF Or, SyncedFrom, ChannelsAre
      <4>2. h.audio.inputs \in Seq(AudioPorts) /\ h.audio.outputs \in Seq(AudioPorts)
        BY ChannelsOfLists
      <4>3. Are(h1.portOf, h.mainIn, MainChannels({"InOut", "InOnly"}, h.audio.layout, h.audio.inputs, TRUE))
        BY <1>1, <2>1, <4>1, <4>2, AreKept DEF Announces, AudioFirst
      <4>4. Are(h1.portOf, h.mainOut, MainChannels(WithMainOut, h.audio.layout, h.audio.outputs, FALSE))
        BY <1>1, <2>1, <4>1, <4>2, AreKept DEF Announces, AudioFirst
      <4> QED BY <4>1, <4>3, <4>4 DEF AudioFirst
    <3> QED BY <3>1, <3>2
  <2> QED BY <2>2, <2>3 DEF Announces
<1>5. CASE None \in {audio, note}
  BY <1>1, <1>4, <1>5 DEF Describes
<1>6. CASE None \notin {audio, note}
  <2>1. /\ audio1 = audio /\ note1 = note
        /\ audio \in AudioLists /\ note \in NoteLists
    BY <1>6 DEF Or
  <2>2. Announces(h1, audio, note)
    BY <1>1, <1>3, <1>6 DEF Announces, ChannelsAre
  <2>3. /\ note.inputs # <<>> => Channel("Note", TRUE, note.inputs[1], 0) \in DOMAIN h1.portOf
        /\ note.outputs # <<>> => Channel("Note", FALSE, note.outputs[1], 0) \in DOMAIN h1.portOf
    BY <2>1, <2>2, ChannelsOfLists DEF Announces, Typed
  <2>4. /\ h1.mainNoteIn = IF note.inputs # <<>>
                           THEN h1.portOf[Channel("Note", TRUE, note.inputs[1], 0)] ELSE None
        /\ h1.mainNoteOut = IF note.outputs # <<>>
                            THEN h1.portOf[Channel("Note", FALSE, note.outputs[1], 0)] ELSE None
    BY <1>6 DEF SyncedFrom
  <2>5. NotesFirst(h1, note)
    BY <2>3, <2>4 DEF NotesFirst, IsFirst
  <2>6. MainsExist(h1)
    <3>1. h1.mainNoteIn \in Ports(h1) \cup {None}
      BY <2>3, <2>4 DEF Ports
    <3>2. h1.mainNoteOut \in Ports(h1) \cup {None}
      BY <2>3, <2>4 DEF Ports
    <3> QED BY <1>3, <1>6, <3>1, <3>2 DEF MainsExist
  <2> QED BY <1>1, <1>6, <2>1, <2>2, <2>5, <2>6 DEF Describes
<1> QED BY <1>5, <1>6

(* What the rest of an activation, and of on_idle, changes of a host.      *)
SoftFields ==
  {"latency", "state", "restarting", "removeRequested", "rescanAudio", "rescanNote"}

(* Two hosts that differ in them at most.                                  *)
Alike(h, x) == IsRecord(x) /\ \A f \in HostFields \ SoftFields : x[f] = h[f]

(* The fields of a host that stay, one by one.                             *)
LEMMA AlikeFields ==
  ASSUME NEW h, NEW x, Alike(h, x)
  PROVE  /\ x.portOf = h.portOf /\ x.free = h.free /\ x.next = h.next
         /\ x.mainIn = h.mainIn /\ x.mainOut = h.mainOut
         /\ x.mainNoteIn = h.mainNoteIn /\ x.mainNoteOut = h.mainNoteOut
         /\ x.audio = h.audio /\ x.note = h.note /\ x.hasActivationOnce = h.hasActivationOnce
         /\ x.loaded = h.loaded /\ x.hasSaved = h.hasSaved /\ x.hasAutoOut = h.hasAutoOut
         /\ Ports(x) = Ports(h)
<1>1. x.portOf = h.portOf
  BY DEF Alike, HostFields, SoftFields
<1>2. Ports(x) = Ports(h)
  BY <1>1 DEF Ports
<1> QED BY <1>2 DEF Alike, HostFields, SoftFields

(* What is invariant of a host is about them.                              *)
LEMMA AlikeInv ==
  ASSUME NEW p, NEW h, NEW U, NEW T, NEW P, HostInv(p, h, U, T, P),
         NEW x, Alike(h, x), x.state \in States
  PROVE  HostInv(p, x, U, T, P)
<1>1. /\ x.portOf = h.portOf /\ x.free = h.free /\ x.next = h.next
      /\ x.mainIn = h.mainIn /\ x.mainOut = h.mainOut
      /\ x.mainNoteIn = h.mainNoteIn /\ x.mainNoteOut = h.mainNoteOut
      /\ x.audio = h.audio /\ x.note = h.note /\ x.hasActivationOnce = h.hasActivationOnce
      /\ Ports(x) = Ports(h)
  BY AlikeFields
<1> QED BY <1>1 DEF HostInv, Describes, Announces, AudioFirst, NotesFirst, MainsExist

(* So is what the graph says of its ports.                                 *)
LEMMA AlikeMirrors ==
  ASSUME NEW g, NEW p, NEW h, Mirrors(g, p, h), NEW x, Alike(h, x)
  PROVE  Mirrors(g, p, x)
<1>1. x.portOf = h.portOf
  BY AlikeFields
<1> QED BY <1>1 DEF Mirrors

(* The other fields may have any value.                                    *)
LEMMA SoftChanges ==
  ASSUME NEW h, IsHost(h), NEW v
  PROVE  /\ Alike(h, [h EXCEPT !.latency = v]) /\ [h EXCEPT !.latency = v].state = h.state
         /\ Alike(h, [h EXCEPT !.state = v]) /\ [h EXCEPT !.state = v].state = v
         /\ Alike(h, [h EXCEPT !.rescanAudio = v]) /\ [h EXCEPT !.rescanAudio = v].state = h.state
         /\ Alike(h, [h EXCEPT !.rescanNote = v]) /\ [h EXCEPT !.rescanNote = v].state = h.state
BY DEF Alike, IsHost, IsRecord, IsFcn, HostFields, SoftFields

(* schedule_remove changes no other field.                                 *)
LEMMA ScheduleRemoveSoft ==
  ASSUME NEW h, IsHost(h), h.state \in States
  PROVE  Alike(h, ScheduleRemove(h)) /\ ScheduleRemove(h).state \in States
BY DEF ScheduleRemove, Alike, IsHost, IsRecord, IsFcn, HostFields, SoftFields, States

(* Nor do the requests of the plugin.                                      *)
LEMMA RequestedSoft ==
  ASSUME NEW h, IsHost(h), h.state \in States, NEW requests
  PROVE  Alike(h, Requested(h, requests)) /\ Requested(h, requests).state \in States
BY DEF Requested, Alike, IsHost, IsRecord, IsFcn, HostFields, SoftFields, States

(* An activation records the lists that were fetched.                      *)
LEMMA ActiveSoft ==
  ASSUME NEW h, IsHost(h), NEW audio, NEW note, NEW x, x = ActiveHost(h, audio, note)
  PROVE  /\ IsHost(x) /\ x.state = "Active"
         /\ x.audio = Or(audio, h.audio) /\ x.note = Or(note, h.note)
         /\ \A f \in HostFields \ {"state", "hasActivationOnce", "audio", "note"} : x[f] = h[f]
BY DEF ActiveHost, Or, IsHost, IsFcn, HostFields

-----------------------------------------------------------------------------
(* A channel of the new port map has a port of its type and direction.     *)
LEMMA SyncedMirrors ==
  ASSUME NEW g, GraphInv(g), NEW p \in DOMAIN g.ports, NEW h, DOMAIN g.ports[p] = Ports(h),
         Mirrors(g, p, h), NEW audio, NEW note, NEW h1, MapFrom(h, audio, note, h1),
         NEW g1, g1 = SyncedGraph(g, p, h, h1)
  PROVE  Mirrors(g1, p, h1) /\ SameNodes(g, g1, p)
<1> DEFINE ports == SyncedPorts(g.ports[p], h, h1)
           gone == EdgesAt(p, Ports(h) \ Ports(h1))
           type(q) == LET c == CHOOSE c \in DOMAIN h1.portOf : h1.portOf[c] = q
                      IN [type |-> c.type, input |-> c.input]
<1>1. g1 = [g EXCEPT !.ports[p] = ports, !.edges = @ \ gone]
  BY DEF SyncedGraph
<1>2. ports = [q \in (DOMAIN g.ports[p] \ Ports(h)) \cup Ports(h1) |->
                 IF q \in Ports(h) THEN g.ports[p][q] ELSE type(q)]
  BY DEF SyncedPorts
<1> HIDE DEF gone, ports
<1>3. /\ g1.ports[p] = ports /\ DOMAIN g1.ports = DOMAIN g.ports
      /\ \A n \in DOMAIN g.ports \ {p} : g1.ports[n] = g.ports[n]
  BY <1>1 DEF GraphInv, IsGraph
<1>4. ASSUME NEW c \in DOMAIN h1.portOf
      PROVE  ports[h1.portOf[c]] = [type |-> c.type, input |-> c.input]
  <2> DEFINE q == h1.portOf[c]
  <2>1. q \in Ports(h1)
    BY DEF Ports
  <2>2. CASE q \in Ports(h)
    <3>1. PICK d \in DOMAIN h.portOf : h.portOf[d] = q
      BY <2>2 DEF Ports
    <3>2. c \in DOMAIN h.portOf /\ h.portOf[c] = q
      BY <3>1 DEF MapFrom
    <3>3. g.ports[p][q] = [type |-> c.type, input |-> c.input]
      BY <3>2 DEF Mirrors
    <3> QED BY <1>2, <2>1, <2>2, <3>3
  <2>3. CASE q \notin Ports(h)
    <3>1. \A d \in DOMAIN h1.portOf : h1.portOf[d] = q => d = c
      BY DEF MapFrom, Numbered
    <3>2. type(q) = [type |-> c.type, input |-> c.input]
      BY <3>1
    <3> HIDE DEF type
    <3> QED BY <1>2, <2>1, <2>3, <3>2
  <2> QED BY <2>2, <2>3
<1> QED BY <1>3, <1>4 DEF Mirrors, SameNodes

(* What an activation finds.                                               *)
Found(p, h, g, u) ==
  /\ Ready(p, h, g)
  /\ HostInv(p, h, u, torn, partial) /\ Mirrors(g, p, h)
  /\ torn \subseteq failed /\ recompile \in BOOLEAN /\ missed \in BOOLEAN
  /\ Ids(graph.edges) = dsEdges

(* Its lists have the channels they had, or the graph is compiled, unless  *)
(* it failed.                                                              *)
Compiled(p, h) ==
  \/ recompile' = TRUE \/ p \in failed'
  \/ ChannelsOf(<<h.audio, h.note>>) = ChannelsOf(<<host'[p].audio, host'[p].note>>)

(* An edge goes with a channel that is not announced any more.             *)
LosesEdges(p, h) ==
  LET gone == DOMAIN h.portOf \ DOMAIN host'[p].portOf
  IN /\ host'[p].state = "Active" => gone \cap NeedsBuffer(host'[p]) = {}
     /\ \A e \in graph.edges \ graph'.edges : \E c \in gone :
          \/ e.src = p /\ e.srcPort = h.portOf[c]
          \/ e.dst = p /\ e.dstPort = h.portOf[c]

(* The history after an activation.                                        *)
Recorded(p, u) ==
  /\ unsynced' \in {u, u \ {p}}
  /\ torn' \in {torn, torn \cup {p}, torn \ {p}} /\ torn' \subseteq failed'
  /\ failed \subseteq failed' /\ failed' \subseteq failed \cup {p}
  /\ partial' \in {partial, partial \cup {p}}
  /\ lost' \subseteq lost \cup dsEdges
  /\ recompile' \in BOOLEAN /\ missed' \in BOOLEAN /\ (recompile => recompile')

(* What it leaves.                                                         *)
Outcome(p, h, g, u) ==
  /\ HostInv(p, host'[p], unsynced', torn', partial') /\ Mirrors(graph', p, host'[p])
  /\ SameNodes(g, graph', p)
  /\ Recorded(p, u) /\ Compiled(p, h) /\ LosesEdges(p, h)

(* An activation that is refused changes no port.                          *)
LEMMA RefuseOutcome ==
  ASSUME NEW p, NEW h, NEW g, NEW u, Found(p, h, g, u), Refuse(p, h, g, u)
  PROVE  Outcome(p, h, g, u)
<1> DEFINE h1 == [h EXCEPT !.state = Dead]
<1>1. /\ host' = Put(host, p, h1) /\ graph' = g /\ unsynced' = u
      /\ missed' = (missed \/ g # graph)
      /\ UNCHANGED <<recompile, lost, torn, failed, partial>>
  BY DEF Refuse
<1>2. IsHost(h) /\ g.edges = graph.edges
  BY DEF Found, Ready, Fits
<1>3. Alike(h, h1) /\ h1.state = Dead
  BY <1>2, SoftChanges
<1> HIDE DEF h1
<1>4. host'[p] = h1
  BY <1>1 DEF Put
<1>5. h1.portOf = h.portOf /\ h1.audio = h.audio /\ h1.note = h.note
  BY <1>3, AlikeFields
<1>6. HostInv(p, h1, unsynced', torn', partial')
  <2>1. HostInv(p, h, u, torn, partial) /\ h1.state \in States
    BY <1>3 DEF Found, States
  <2>2. HostInv(p, h1, u, torn, partial)
    BY <1>3, <2>1, AlikeInv
  <2> QED BY <1>1, <2>2
<1>7. Mirrors(graph', p, h1)
  BY <1>1, <1>3, AlikeMirrors DEF Found
<1>8. Recorded(p, u)
  <2>1. torn \subseteq failed /\ recompile' \in BOOLEAN /\ missed' \in BOOLEAN
    BY <1>1 DEF Found
  <2> QED BY <1>1, <2>1 DEF Recorded
<1>9. Compiled(p, h) /\ LosesEdges(p, h)
  BY <1>1, <1>2, <1>4, <1>5 DEF Compiled, LosesEdges
<1> QED BY <1>1, <1>4, <1>6, <1>7, <1>8, <1>9 DEF Outcome, SameNodes

(* An answer is a list, and there is one at the first activation.          *)
LEMMA AnswersAreLists ==
  ASSUME NEW p \in Plugins, NEW h, h.audio \in AudioLists, h.note \in NoteLists,
         NEW audio \in AudioAnswers(p, h), audio # Failed,
         NEW note \in NoteAnswers(p, h), note # Failed
  PROVE  /\ audio \in AudioLists \cup {None} /\ note \in NoteLists \cup {None}
         /\ ~h.hasActivationOnce => None \notin {audio, note}
<1>1. /\ MayDo[p].audio \subseteq AudioLists \cup {Failed}
      /\ MayDo[p].note \subseteq NoteLists \cup {Failed}
  BY GraphAssumption
<1>2. None \notin AudioLists \cup NoteLists
  BY ListsAssumption
<1>3. audio \in AudioLists \/ (audio = None /\ h.hasActivationOnce)
  BY <1>1 DEF AudioAnswers, Answers
<1>4. note \in NoteLists \/ (note = None /\ h.hasActivationOnce)
  BY <1>1 DEF NoteAnswers, Answers
<1> QED BY <1>2, <1>3, <1>4

(* What Describes says is about the fields that are about ports.           *)
LEMMA DescribesSame ==
  ASSUME NEW p, NEW h, NEW audio, NEW note, NEW U, NEW T, NEW P,
         Describes(p, h, audio, note, U, T, P), NEW x, \A f \in PortFields : x[f] = h[f]
  PROVE  Describes(p, x, audio, note, U, T, P)
<1>1. /\ x.portOf = h.portOf /\ x.free = h.free /\ x.next = h.next
      /\ x.mainIn = h.mainIn /\ x.mainOut = h.mainOut
      /\ x.mainNoteIn = h.mainNoteIn /\ x.mainNoteOut = h.mainNoteOut
  BY DEF PortFields, MainFields
<1>2. Ports(x) = Ports(h)
  BY <1>1 DEF Ports
<1> QED BY <1>1, <1>2 DEF Describes, Announces, AudioFirst, NotesFirst, MainsExist

(* The channels of a list are of its type.                                 *)
LEMMA ListedTypes ==
  ASSUME NEW audio \in AudioLists, NEW note \in NoteLists
  PROVE  /\ \A c \in ToSet(AudioList(audio)) : c.type = "Audio"
         /\ \A c \in ToSet(NoteList(note)) : c.type = "Note"
<1>1. AudioList(audio) \in Seq(ChannelsOfType("Audio"))
  BY ListsAssumption, AudioListIs
<1>2. NoteList(note) \in Seq(ChannelsOfType("Note"))
  BY ListsAssumption, NoteListIs
<1> QED BY <1>1, <1>2 DEF ToSet, ChannelsOfType

(* A host when sync_ports_in_graph has been done, or was not needed.       *)
Synchronised(p, h, g, u, audio, note, h1, g1) ==
  LET fetched == {audio, note} # {None}
      audio1 == Or(audio, h.audio)
      note1 == Or(note, h.note)
      gone == DOMAIN h.portOf \ DOMAIN h1.portOf
  IN /\ IsHost(h1)
     /\ \A f \in HostFields \ PortFields : h1[f] = h[f]
     /\ audio1 \in AudioLists /\ note1 \in NoteLists
     /\ Describes(p, h1, audio1, note1, u \ (IF fetched THEN {p} ELSE {}),
                  IF None \in {audio, note} THEN torn ELSE torn \ {p},
                  IF fetched /\ None \in {audio, note} THEN partial \cup {p} ELSE partial)
     /\ Mirrors(g1, p, h1) /\ SameNodes(g, g1, p)
     /\ gone \cap ChannelsOf(<<audio1, note1>>) = {}
     /\ g1.edges \subseteq graph.edges
     /\ \A e \in graph.edges \ g1.edges : \E c \in gone :
          \/ e.src = p /\ e.srcPort = h.portOf[c]
          \/ e.dst = p /\ e.dstPort = h.portOf[c]
     /\ DOMAIN h1.portOf = DOMAIN h.portOf /\ p \notin torn =>
          ChannelsOf(<<h.audio, h.note>>) = ChannelsOf(<<audio1, note1>>)

(* With neither list fetched, nothing is done.                             *)
LEMMA NotFetched ==
  ASSUME NEW p, NEW h, NEW g, NEW u, Found(p, h, g, u), p \notin u,
         NEW audio, NEW note, {audio, note} = {None}, NEW g1, g1 = SyncedGraph(g, p, h, h)
  PROVE  Synchronised(p, h, g, u, audio, note, h, g1)
<1>1. audio = None /\ note = None /\ Or(audio, h.audio) = h.audio /\ Or(note, h.note) = h.note
  BY DEF Or
<1>2. g1 = g /\ g.edges = graph.edges /\ IsHost(h)
  BY SyncedGraphSame DEF Found, Ready, Fits
<1>3. /\ Describes(p, h, h.audio, h.note, u, torn, partial)
      /\ h.audio \in AudioLists /\ h.note \in NoteLists /\ Mirrors(g, p, h)
  BY DEF Found, HostInv
<1> QED BY <1>1, <1>2, <1>3 DEF Synchronised, SameNodes

(* The edges that went.                                                    *)
LEMMA SyncedLoses ==
  ASSUME NEW p, NEW h, NEW h1, NEW g, IsGraph(g), g.edges = graph.edges,
         \A c \in DOMAIN h1.portOf \cap DOMAIN h.portOf : h1.portOf[c] = h.portOf[c],
         NEW g1, g1 = SyncedGraph(g, p, h, h1)
  PROVE  /\ g1.edges \subseteq graph.edges
         /\ \A e \in graph.edges \ g1.edges : \E c \in DOMAIN h.portOf \ DOMAIN h1.portOf :
              \/ e.src = p /\ e.srcPort = h.portOf[c]
              \/ e.dst = p /\ e.dstPort = h.portOf[c]
<1> DEFINE ports == SyncedPorts(g.ports[p], h, h1)
           lost0 == Ports(h) \ Ports(h1)
           gone == EdgesAt(p, lost0)
<1>1. g1 = [g EXCEPT !.ports[p] = ports, !.edges = @ \ gone]
  BY DEF SyncedGraph
<1>2. \A q \in lost0 : \E c \in DOMAIN h.portOf \ DOMAIN h1.portOf : q = h.portOf[c]
  BY DEF Ports
<1>3. \A e \in gone : \/ e.src = p /\ e.srcPort \in lost0
                      \/ e.dst = p /\ e.dstPort \in lost0
  BY DEF EdgesAt
<1> HIDE DEF ports, gone, lost0
<1>4. g1.edges = graph.edges \ gone
  BY <1>1 DEF IsGraph
<1> QED BY <1>2, <1>3, <1>4

(* With a list fetched, the ports are those of the lists there are now.    *)
LEMMA Fetched ==
  ASSUME NEW p, NEW h, NEW g, NEW u, Found(p, h, g, u),
         NEW audio \in AudioLists \cup {None}, NEW note \in NoteLists \cup {None},
         {audio, note} # {None}, p \in u => None \notin {audio, note},
         NEW h1 \in Synced(h, audio, note), NEW g1, g1 = SyncedGraph(g, p, h, h1)
  PROVE  Synchronised(p, h, g, u, audio, note, h1, g1)
<1> DEFINE audio1 == Or(audio, h.audio)
           note1 == Or(note, h.note)
           T1 == IF None \in {audio, note} THEN torn ELSE torn \ {p}
           P1 == IF None \in {audio, note} THEN partial \cup {p} ELSE partial
<1>1. /\ IsHost(h) /\ GraphInv(g) /\ IsGraph(g) /\ g.edges = graph.edges
      /\ p \in DOMAIN g.ports /\ DOMAIN g.ports[p] = Ports(h)
      /\ Mirrors(g, p, h)
      /\ Describes(p, h, h.audio, h.note, u, torn, partial)
      /\ h.audio \in AudioLists /\ h.note \in NoteLists
      /\ p \in u => DOMAIN h.portOf = {}
  BY DEF Found, Ready, Fits, GraphInv, HostInv
<1>2. SyncedFrom(h, audio, note, h1)
  BY <1>1, SyncedFields
<1>3. MapFrom(h, audio, note, h1)
  <2>1. Numbered(h.portOf, h.free, h.next)
    BY <1>1 DEF Describes
  <2> QED BY <1>2, <2>1, SyncedMap
<1>4. ChannelsAre(h, audio, note, h1.portOf)
  BY <1>3, SyncedChannels DEF MapFrom
<1>5. Describes(p, h1, audio1, note1, u \ {p}, T1, P1)
  BY <1>1, <1>2, SyncedDescribes
<1>6. Mirrors(g1, p, h1) /\ SameNodes(g, g1, p)
  BY <1>1, <1>3, SyncedMirrors
<1>7. /\ g1.edges \subseteq graph.edges
      /\ \A e \in graph.edges \ g1.edges : \E c \in DOMAIN h.portOf \ DOMAIN h1.portOf :
           \/ e.src = p /\ e.srcPort = h.portOf[c]
           \/ e.dst = p /\ e.dstPort = h.portOf[c]
  BY <1>1, <1>3, SyncedLoses DEF MapFrom
<1>8. audio1 \in AudioLists /\ note1 \in NoteLists
  BY <1>1 DEF Or
<1>9. ChannelsOf(<<audio1, note1>>) = ToSet(AudioList(audio1)) \cup ToSet(NoteList(note1))
  BY DEF ChannelsOf
<1>10. ASSUME NEW c \in DOMAIN h.portOf, c \notin DOMAIN h1.portOf
       PROVE  c \notin ChannelsOf(<<audio1, note1>>)
  <2>1. c \notin ToSet(AudioList(audio1))
    <3>1. CASE audio = None
      BY <1>4, <1>8, <1>10, <3>1, ListedTypes DEF ChannelsAre, Typed
    <3>2. CASE audio # None
      BY <1>4, <1>10, <3>2 DEF ChannelsAre, Typed, Or
    <3> QED BY <3>1, <3>2
  <2>2. c \notin ToSet(NoteList(note1))
    <3>1. CASE note = None
      BY <1>4, <1>8, <1>10, <3>1, ListedTypes DEF ChannelsAre, Typed
    <3>2. CASE note # None
      BY <1>4, <1>10, <3>2 DEF ChannelsAre, Typed, Or
    <3> QED BY <3>1, <3>2
  <2> QED BY <1>9, <2>1, <2>2
<1>11. ASSUME DOMAIN h1.portOf = DOMAIN h.portOf, p \notin torn
       PROVE  ChannelsOf(<<h.audio, h.note>>) = ChannelsOf(<<audio1, note1>>)
  <2>1. p \notin u /\ p \notin T1
    BY <1>1, <1>4, <1>11 DEF ChannelsAre
  <2>2. Announces(h, h.audio, h.note) /\ Announces(h1, audio1, note1)
    BY <1>1, <1>5, <1>11, <2>1 DEF Describes
  <2>3. /\ ToSet(AudioList(h.audio)) = ToSet(AudioList(audio1))
        /\ ToSet(NoteList(h.note)) = ToSet(NoteList(note1))
    BY <1>11, <2>2 DEF Announces, Typed
  <2> QED BY <2>3 DEF ChannelsOf
<1>12. IsHost(h1) /\ \A f \in HostFields \ PortFields : h1[f] = h[f]
  BY <1>2 DEF SyncedFrom
<1> DEFINE gone == DOMAIN h.portOf \ DOMAIN h1.portOf
<1>13. gone \cap ChannelsOf(<<audio1, note1>>) = {}
  BY <1>10
<1> QED
  <2>1. /\ u \ (IF {audio, note} # {None} THEN {p} ELSE {}) = u \ {p}
        /\ (IF {audio, note} # {None} /\ None \in {audio, note}
            THEN partial \cup {p} ELSE partial) = P1
    OBVIOUS
  <2> HIDE DEF audio1, note1, T1, P1
  <2>2. Describes(p, h1, audio1, note1, u \ (IF {audio, note} # {None} THEN {p} ELSE {}), T1,
                  IF {audio, note} # {None} /\ None \in {audio, note}
                  THEN partial \cup {p} ELSE partial)
    BY <1>5, <2>1
  <2> QED BY <1>6, <1>7, <1>8, <1>11, <1>12, <1>13, <2>2 DEF Synchronised, audio1, note1, T1

(* The plugin is activated with its new ports.                             *)
LEMMA ActiveOutcome ==
  ASSUME NEW p, NEW h, NEW g, NEW u, Found(p, h, g, u), h.loaded,
         NEW audio, NEW note, p \in u => None \notin {audio, note},
         NEW h1, NEW g1, Synchronised(p, h, g, u, audio, note, h1, g1), graph' = g1,
         unsynced' = u \ (IF {audio, note} # {None} THEN {p} ELSE {}),
         partial' = IF {audio, note} # {None} /\ None \in {audio, note}
                    THEN partial \cup {p} ELSE partial,
         host' = Put(host, p, ActiveHost(h1, audio, note)),
         recompile' \in BOOLEAN, recompile => recompile',
         DOMAIN h1.portOf # DOMAIN h.portOf => recompile',
         torn' = IF None \in {audio, note} THEN torn ELSE torn \ {p},
         UNCHANGED <<lost, failed, missed>>
  PROVE  Outcome(p, h, g, u)
<1> DEFINE h2 == ActiveHost(h1, audio, note)
           audio1 == Or(audio, h.audio)
           note1 == Or(note, h.note)
<1>1. /\ IsHost(h1) /\ audio1 \in AudioLists /\ note1 \in NoteLists
      /\ \A f \in HostFields \ PortFields : h1[f] = h[f]
      /\ Describes(p, h1, audio1, note1, unsynced', torn', partial')
      /\ Mirrors(g1, p, h1) /\ SameNodes(g, g1, p)
  BY DEF Synchronised
<1>2. /\ h1.audio = h.audio /\ h1.note = h.note /\ h1.loaded = h.loaded
  BY <1>1 DEF HostFields, PortFields, MainFields
<1>3. /\ IsHost(h2) /\ h2.state = "Active" /\ h2.audio = audio1 /\ h2.note = note1
      /\ \A f \in HostFields \ {"state", "hasActivationOnce", "audio", "note"} : h2[f] = h1[f]
  BY <1>1, <1>2, ActiveSoft
<1>4. host'[p] = h2
  BY DEF Put
<1> HIDE DEF h2
<1>5. /\ h2.portOf = h1.portOf /\ h2.loaded = h.loaded
      /\ \A f \in PortFields : h2[f] = h1[f]
  BY <1>2, <1>3 DEF HostFields, PortFields, MainFields
<1>6. p \notin unsynced'
  OBVIOUS
<1>7. HostInv(p, h2, unsynced', torn', partial')
  <2> HIDE DEF audio1, note1
  <2>1. Describes(p, h2, audio1, note1, unsynced', torn', partial')
    BY <1>1, <1>5, DescribesSame
  <2> QED BY <1>1, <1>3, <1>6, <2>1 DEF HostInv, States
<1>8. Mirrors(graph', p, h2)
  BY <1>1, <1>5 DEF Mirrors
<1>9. NeedsBuffer(h2) = ChannelsOf(<<audio1, note1>>)
  BY <1>3, <1>5 DEF NeedsBuffer, ChannelsOf
<1>10. /\ (DOMAIN h.portOf \ DOMAIN h1.portOf) \cap ChannelsOf(<<audio1, note1>>) = {}
       /\ \A e \in graph.edges \ g1.edges : \E c \in DOMAIN h.portOf \ DOMAIN h1.portOf :
            \/ e.src = p /\ e.srcPort = h.portOf[c]
            \/ e.dst = p /\ e.dstPort = h.portOf[c]
  BY DEF Synchronised
<1> HIDE DEF audio1, note1
<1>11. LosesEdges(p, h)
  BY <1>4, <1>5, <1>9, <1>10 DEF LosesEdges
<1>12. Compiled(p, h)
  <2>1. CASE DOMAIN h1.portOf # DOMAIN h.portOf \/ p \in failed
    BY <2>1 DEF Compiled
  <2>2. CASE DOMAIN h1.portOf = DOMAIN h.portOf /\ p \notin failed
    <3>1. p \notin torn
      BY <2>2 DEF Found
    <3>2. ChannelsOf(<<h.audio, h.note>>) = ChannelsOf(<<audio1, note1>>)
      BY <2>2, <3>1 DEF Synchronised, audio1, note1
    <3> QED BY <1>3, <1>4, <3>2 DEF Compiled
  <2> QED BY <2>1, <2>2
<1>13. Recorded(p, u)
  <2>1. torn \subseteq failed /\ missed \in BOOLEAN
    BY DEF Found
  <2>2. torn' \in {torn, torn \cup {p}, torn \ {p}} /\ torn' \subseteq failed'
    BY <2>1
  <2>3. unsynced' \in {u, u \ {p}} /\ partial' \in {partial, partial \cup {p}}
    OBVIOUS
  <2> QED BY <2>1, <2>2, <2>3 DEF Recorded
<1> QED BY <1>1, <1>4, <1>7, <1>8, <1>11, <1>12, <1>13 DEF Outcome

(* The plugin does not activate, after its ports were changed.             *)
LEMMA DeadOutcome ==
  ASSUME NEW p, NEW h, NEW g, NEW u, Found(p, h, g, u),
         NEW audio, NEW note, p \in u => None \notin {audio, note},
         NEW h1, NEW g1, Synchronised(p, h, g, u, audio, note, h1, g1), graph' = g1,
         unsynced' = u \ (IF {audio, note} # {None} THEN {p} ELSE {}),
         partial' = IF {audio, note} # {None} /\ None \in {audio, note}
                    THEN partial \cup {p} ELSE partial,
         host' = Put(host, p, [h1 EXCEPT !.state = Dead]),
         torn' = IF {audio, note} # {None} THEN torn \cup {p} ELSE torn,
         failed' = failed \cup torn',
         missed' \in BOOLEAN, lost' \subseteq lost \cup dsEdges, UNCHANGED recompile
  PROVE  Outcome(p, h, g, u)
<1> DEFINE h2 == [h1 EXCEPT !.state = Dead]
           audio1 == Or(audio, h.audio)
           note1 == Or(note, h.note)
           T1 == IF None \in {audio, note} THEN torn ELSE torn \ {p}
<1>1. /\ IsHost(h1) /\ audio1 \in AudioLists /\ note1 \in NoteLists
      /\ \A f \in HostFields \ PortFields : h1[f] = h[f]
      /\ Describes(p, h1, audio1, note1, unsynced', T1, partial')
      /\ Mirrors(g1, p, h1) /\ SameNodes(g, g1, p)
  BY DEF Synchronised
<1>2. h1.audio = h.audio /\ h1.note = h.note
  BY <1>1 DEF HostFields, PortFields, MainFields
<1>3. Alike(h1, h2) /\ h2.state = Dead
  BY <1>1, SoftChanges
<1>4. host'[p] = h2
  BY DEF Put
<1> HIDE DEF h2
<1>5. /\ h2.portOf = h1.portOf /\ h2.audio = h.audio /\ h2.note = h.note
      /\ \A f \in PortFields : h2[f] = h1[f]
  BY <1>2, <1>3 DEF Alike, HostFields, SoftFields, PortFields, MainFields
<1>6. p \notin unsynced'
  OBVIOUS
<1>7. Describes(p, h2, audio1, note1, unsynced', T1, partial')
  BY <1>1, <1>5, DescribesSame
<1>8. HostInv(p, h2, unsynced', torn', partial')
  <2>1. h.audio \in AudioLists /\ h.note \in NoteLists
    BY DEF Found, HostInv
  <2>2. CASE {audio, note} # {None}
    <3>1. p \in torn'
      BY <2>2
    <3>2. Describes(p, h2, h.audio, h.note, unsynced', torn', partial')
      BY <1>7, <3>1 DEF Describes
    <3> QED BY <1>3, <1>5, <1>6, <2>1, <3>2 DEF HostInv, States
  <2>3. CASE {audio, note} = {None}
    <3>1. audio1 = h.audio /\ note1 = h.note /\ T1 = torn'
      BY <2>3 DEF Or
    <3> QED BY <1>3, <1>5, <1>6, <1>7, <2>1, <3>1 DEF HostInv, States
  <2> QED BY <2>2, <2>3
<1>9. Mirrors(graph', p, h2)
  BY <1>1, <1>5 DEF Mirrors
<1>10. \A e \in graph.edges \ g1.edges : \E c \in DOMAIN h.portOf \ DOMAIN h1.portOf :
            \/ e.src = p /\ e.srcPort = h.portOf[c]
            \/ e.dst = p /\ e.dstPort = h.portOf[c]
  BY DEF Synchronised
<1> HIDE DEF audio1, note1, T1
<1>11. LosesEdges(p, h)
  BY <1>3, <1>4, <1>5, <1>10 DEF LosesEdges, Dead
<1>12. Compiled(p, h)
  BY <1>4, <1>5 DEF Compiled
<1>13. Recorded(p, u)
  <2>1. torn \subseteq failed /\ recompile \in BOOLEAN
    BY DEF Found
  <2>2. torn' \in {torn, torn \cup {p}, torn \ {p}} /\ torn' \subseteq failed'
    OBVIOUS
  <2>3. failed \subseteq failed' /\ failed' \subseteq failed \cup {p}
    BY <2>1
  <2>4. unsynced' \in {u, u \ {p}} /\ partial' \in {partial, partial \cup {p}}
    OBVIOUS
  <2> QED BY <2>1, <2>2, <2>3, <2>4 DEF Recorded
<1> QED BY <1>1, <1>4, <1>8, <1>9, <1>11, <1>12, <1>13 DEF Outcome

(* A change of the host before, or of a latency, makes no difference.      *)
LEMMA OutcomeAlike ==
  ASSUME NEW p, NEW h, NEW x, Alike(h, x), NEW g, NEW g0, SameNodes(g, g0, p), NEW u,
         Outcome(p, x, g0, u)
  PROVE  Outcome(p, h, g, u)
<1>1. x.portOf = h.portOf /\ x.audio = h.audio /\ x.note = h.note
  BY AlikeFields
<1>2. SameNodes(g, graph', p)
  BY DEF Outcome, SameNodes
<1>3. Compiled(p, h) /\ LosesEdges(p, h)
  BY <1>1 DEF Outcome, Compiled, LosesEdges
<1> QED BY <1>2, <1>3 DEF Outcome

(* Nor does it in what an activation finds.                                *)
LEMMA FoundAlike ==
  ASSUME NEW p, NEW h, NEW g, NEW u, Found(p, h, g, u), NEW x, Alike(h, x), x.state \in States,
         NEW g0, g0.ports = g.ports, Ready(p, x, g0)
  PROVE  Found(p, x, g0, u)
<1>1. HostInv(p, x, u, torn, partial)
  BY AlikeInv DEF Found
<1>2. Mirrors(g0, p, x)
  <2>1. Mirrors(g, p, x)
    BY AlikeMirrors DEF Found
  <2> QED BY <2>1 DEF Mirrors
<1> QED BY <1>1, <1>2 DEF Found

(* The answers of the plugin are lists, and it is activated or it fails.   *)
LEMMA SyncOutcome ==
  ASSUME NEW p, NEW h, NEW g, NEW u, Found(p, h, g, u),
         NEW audio \in AudioLists \cup {None}, NEW note \in NoteLists \cup {None},
         p \in u => None \notin {audio, note}, NEW latency,
         Sync(p, h, g, u, audio, note, latency)
  PROVE  Outcome(p, h, g, u)
<1> DEFINE h0 == [h EXCEPT !.latency = latency]
           g0 == IF h.latency = latency THEN g ELSE [g EXCEPT !.latency[p] = latency]
           fetched == {audio, note} # {None}
<1>1. IsHost(h) /\ Ready(p, h, g) /\ IsGraph(g) /\ h.state \in States
  BY DEF Found, Ready, Fits, GraphInv, HostInv
<1>2. Alike(h, h0) /\ h0.state = h.state
  BY <1>1, SoftChanges
<1>3. g0.ports = g.ports /\ g0.edges = g.edges
  BY <1>1 DEF IsGraph
<1>4. Found(p, h0, g0, u) /\ SameNodes(g, g0, p)
  <2>1. Ready(p, h0, g0)
    BY <1>1, LatencyReady
  <2> HIDE DEF h0, g0
  <2> QED BY <1>1, <1>2, <1>3, <2>1, FoundAlike DEF SameNodes
<1>5. SUFFICES Outcome(p, h0, g0, u)
  <2> HIDE DEF h0, g0
  <2> QED BY <1>2, <1>4, OutcomeAlike
<1>6. CASE fetched /\ HasDuplicates(audio, note)
  <2>1. Refuse(p, h0, g0, u)
    BY <1>6 DEF Sync
  <2> HIDE DEF h0, g0
  <2> QED BY <1>4, <2>1, RefuseOutcome
<1>7. CASE ~(fetched /\ HasDuplicates(audio, note))
  <2>1. PICK h1 \in IF fetched THEN Synced(h0, audio, note) ELSE {h0} :
          LET g1   == SyncedGraph(g0, p, h0, h1)
              gone == Ids(g.edges) \ Ids(g1.edges)
          IN /\ graph' = g1
             /\ unsynced' = u \ (IF fetched THEN {p} ELSE {})
             /\ partial' = IF fetched /\ None \in {audio, note}
                           THEN partial \cup {p} ELSE partial
             /\ \/ /\ TRUE \in ActivateAnswers(p, h)
                   /\ host' = Put(host, p, ActiveHost(h1, audio, note))
                   /\ recompile' = (recompile \/ NeedsRecompile(h, h1))
                   /\ torn' = IF None \in {audio, note} THEN torn ELSE torn \ {p}
                   /\ UNCHANGED <<lost, failed, missed>>
                \/ /\ host' = Put(host, p, [h1 EXCEPT !.state = Dead])
                   /\ lost' = lost \cup gone
                   /\ torn' = IF fetched THEN torn \cup {p} ELSE torn
                   /\ failed' = failed \cup torn'
                   /\ missed' = (missed \/ g1 # graph)
                   /\ UNCHANGED recompile
    BY <1>7 DEF Sync
  <2> DEFINE g1 == SyncedGraph(g0, p, h0, h1)
  <2>2. Synchronised(p, h0, g0, u, audio, note, h1, g1)
    <3> HIDE DEF h0, g0
    <3>1. CASE fetched
      <4>1. h1 \in Synced(h0, audio, note)
        BY <3>1
      <4> QED BY <1>4, <3>1, <4>1, Fetched
    <3>2. CASE ~fetched
      <4>1. h1 = h0 /\ p \notin u
        BY <3>2
      <4> QED BY <1>4, <3>2, <4>1, NotFetched
    <3> QED BY <3>1, <3>2
  <2>3. /\ graph' = g1
        /\ unsynced' = u \ (IF fetched THEN {p} ELSE {})
        /\ partial' = IF fetched /\ None \in {audio, note} THEN partial \cup {p} ELSE partial
    BY <2>1
  <2>4. h0.portOf = h.portOf /\ h0.loaded = h.loaded
    <3> HIDE DEF h0
    <3> QED BY <1>2, AlikeFields
  <2>5. recompile \in BOOLEAN /\ missed \in BOOLEAN
    BY DEF Found
  <2>6. CASE /\ TRUE \in ActivateAnswers(p, h)
             /\ host' = Put(host, p, ActiveHost(h1, audio, note))
             /\ recompile' = (recompile \/ NeedsRecompile(h, h1))
             /\ torn' = IF None \in {audio, note} THEN torn ELSE torn \ {p}
             /\ UNCHANGED <<lost, failed, missed>>
    <3>1. h0.loaded
      BY <2>4, <2>6 DEF ActivateAnswers
    <3>2. DOMAIN h1.portOf # DOMAIN h0.portOf => NeedsRecompile(h, h1)
      BY <2>4 DEF NeedsRecompile
    <3>3. /\ recompile' \in BOOLEAN /\ (recompile => recompile')
          /\ (DOMAIN h1.portOf # DOMAIN h0.portOf => recompile')
      <4> DEFINE n == NeedsRecompile(h, h1)
                 d == DOMAIN h1.portOf # DOMAIN h0.portOf
      <4>1. recompile' = (recompile \/ n) /\ (d => n)
        BY <2>6, <3>2
      <4>2. recompile' \in BOOLEAN
        BY <2>6
      <4> HIDE DEF n, d
      <4>3. (recompile => recompile') /\ (d => recompile')
        BY <4>1, Zenon
      <4> QED BY <4>2, <4>3 DEF d
    <3> HIDE DEF h0, g0, g1
    <3> QED BY <1>4, <2>2, <2>3, <2>6, <3>1, <3>3, ActiveOutcome
  <2>7. CASE /\ host' = Put(host, p, [h1 EXCEPT !.state = Dead])
             /\ lost' = lost \cup (Ids(g.edges) \ Ids(g1.edges))
             /\ torn' = IF fetched THEN torn \cup {p} ELSE torn
             /\ failed' = failed \cup torn'
             /\ missed' = (missed \/ g1 # graph)
             /\ UNCHANGED recompile
    <3>1. lost' \subseteq lost \cup dsEdges
      <4>1. Ids(g.edges) = dsEdges
        BY DEF Found, Ready
      <4> QED BY <2>7, <4>1
    <3>2. missed' \in BOOLEAN
      BY <2>7
    <3> HIDE DEF h0, g0, g1
    <3> QED BY <1>4, <2>2, <2>3, <2>7, <3>1, <3>2, DeadOutcome
  <2> QED BY <2>1, <2>6, <2>7
<1> QED BY <1>6, <1>7

(* An activation does what Outcome says, whatever the plugin answers.      *)
LEMMA ActivateOutcome ==
  ASSUME NEW p \in Plugins, NEW h, NEW g, NEW u, Found(p, h, g, u), Activate(p, h, g, u)
  PROVE  Outcome(p, h, g, u)
<1> DEFINE h1 == [h EXCEPT !.rescanAudio = FALSE]
           h2 == [h1 EXCEPT !.rescanNote = FALSE]
<1>1. PICK audio \in AudioAnswers(p, h), note \in NoteAnswers(p, h) :
          \/ Refuse(p, h1, g, u)
          \/ Refuse(p, h2, g, u)
          \/ /\ Failed \notin {audio, note}
             /\ \E latency : Sync(p, h2, g, u, audio, note, latency)
  BY DEF Activate
<1>2. SameNodes(g, g, p) /\ IsHost(h) /\ h.state \in States /\ Ready(p, h, g)
  BY DEF SameNodes, Found, Ready, Fits, HostInv
<1>3. Alike(h, h1) /\ h1.state = h.state /\ Like(h, h1)
  BY <1>2, SoftChanges, FieldsAreLike
<1> HIDE DEF h1
<1>4. IsHost(h1)
  BY <1>3 DEF Like
<1>5. Alike(h1, h2) /\ h2.state = h1.state /\ Like(h1, h2)
  BY <1>4, SoftChanges, FieldsAreLike
<1> HIDE DEF h2
<1>6. Ready(p, h1, g)
  BY <1>2, <1>3, LikeFits DEF Ready
<1>7. Ready(p, h2, g)
  BY <1>5, <1>6, LikeFits DEF Ready
<1>8. Found(p, h1, g, u)
  BY <1>2, <1>3, <1>6, FoundAlike
<1>9. Found(p, h2, g, u)
  BY <1>2, <1>3, <1>5, <1>7, <1>8, FoundAlike
<1>10. Outcome(p, h1, g, u) \/ Outcome(p, h2, g, u)
  <2>1. CASE Refuse(p, h1, g, u)
    BY <1>8, <2>1, RefuseOutcome
  <2>2. CASE Refuse(p, h2, g, u)
    BY <1>9, <2>2, RefuseOutcome
  <2>3. CASE Failed \notin {audio, note} /\ \E latency : Sync(p, h2, g, u, audio, note, latency)
    <3>1. PICK latency : Sync(p, h2, g, u, audio, note, latency)
      BY <2>3
    <3>2. h.audio \in AudioLists /\ h.note \in NoteLists /\ (p \in u => ~h.hasActivationOnce)
      BY DEF Found, HostInv
    <3>3. /\ audio \in AudioLists \cup {None} /\ note \in NoteLists \cup {None}
          /\ ~h.hasActivationOnce => None \notin {audio, note}
      BY <2>3, <3>2, AnswersAreLists
    <3> QED BY <1>9, <3>1, <3>2, <3>3, SyncOutcome
  <2> QED BY <1>1, <2>1, <2>2, <2>3
<1> QED
  <2>1. CASE Outcome(p, h1, g, u)
    BY <1>2, <1>3, <2>1, OutcomeAlike
  <2>2. CASE Outcome(p, h2, g, u)
    <3>1. Outcome(p, h1, g, u)
      BY <1>2, <1>5, <2>2, OutcomeAlike
    <3> QED BY <1>2, <1>3, <3>1, OutcomeAlike
  <2> QED BY <1>10, <2>1, <2>2

(* What the recorded history, the phase of a call and the bounds are.      *)
RecordInv ==
  /\ torn \subseteq failed
  /\ unsynced \cup failed \cup partial \cup twice \subseteq made
  /\ asked \cup lost \subseteq 0..nextEdge - 1
  /\ nextEdge \in 0..MaxEdges /\ attempts \in 0..MaxActivations
  /\ recompile \in BOOLEAN /\ missed \in BOOLEAN
  /\ stage \in DOMAIN Order \cup {"idle"}
  /\ stage \in {"rest", "idle"} => removed = {}
  /\ removed \subseteq DOMAIN host
  /\ engine \in {"running", "crashed", "panicked"}

(* What an activation relies on.                                           *)
AllInv == EdgeInv /\ PortInv /\ RecordInv /\ HostsInv

-----------------------------------------------------------------------------
(* Buffers are asked for channels of the lists.                            *)
LEMMA ThroughListed ==
  ASSUME NEW list \in Seq(AudioPorts), list # <<>>, NEW input \in BOOLEAN,
         NEW n \in Nat, n <= list[1].channels
  PROVE  Through(list, input, n) \subseteq ToSet(AudioChannels(list, input))
<1> DEFINE s == OfPort(list[1], input)
<1>1. list[1] \in AudioPorts
  OBVIOUS
<1>2. list[1].channels \in Nat
  BY <1>1 DEF AudioPorts
<1>3. ToSet(s) \subseteq ToSet(AudioChannels(list, input))
  BY FirstChannels
<1>4. ASSUME NEW c \in 0..n - 1 PROVE Channel("Audio", input, list[1].id, c) \in ToSet(s)
  <2>1. c + 1 \in DOMAIN s /\ s[c + 1] = Channel("Audio", input, list[1].id, c)
    BY <1>2 DEF OfPort
  <2> HIDE DEF s
  <2> QED BY <2>1 DEF ToSet
<1> QED BY <1>3, <1>4 DEF Through

(* So a task asks for no buffer of a channel that is not announced.        *)
LEMMA NeedsAreListed ==
  ASSUME NEW h, h.audio \in AudioLists, h.note \in NoteLists
  PROVE  NeedsBuffer(h) \subseteq ChannelsOf(<<h.audio, h.note>>)
<1> DEFINE a == ToSet(AudioList(h.audio))
           b == ToSet(NoteList(h.note))
<1>1. ChannelsOf(<<h.audio, h.note>>) = a \cup b
  BY DEF ChannelsOf
<1>2. /\ h.audio.inputs \in Seq(AudioPorts) /\ h.audio.outputs \in Seq(AudioPorts)
      /\ ToSet(AudioChannels(h.audio.inputs, TRUE)) \subseteq a
      /\ ToSet(AudioChannels(h.audio.outputs, FALSE)) \subseteq a
      /\ h.note.inputs # <<>> => Channel("Note", TRUE, h.note.inputs[1], 0) \in b
      /\ h.note.outputs # <<>> => Channel("Note", FALSE, h.note.outputs[1], 0) \in b
  BY ChannelsOfLists
<1> HIDE DEF a, b
<1>3. CASE h.loaded
  BY <1>1, <1>3 DEF NeedsBuffer, a, b
<1>4. CASE ~h.loaded
  <2> DEFINE i == h.audio.inputs[1].channels
             o == h.audio.outputs[1].channels
             n == IF i < o THEN i ELSE o
             audio == IF h.audio.layout # "InOut" THEN {}
                      ELSE Through(h.audio.inputs, TRUE, n) \cup Through(h.audio.outputs, FALSE, n)
             note == IF <<>> \in {h.note.inputs, h.note.outputs} THEN {}
                     ELSE {Channel("Note", TRUE, h.note.inputs[1], 0),
                           Channel("Note", FALSE, h.note.outputs[1], 0)}
  <2>1. NeedsBuffer(h) = audio \cup note
    BY <1>4 DEF NeedsBuffer
  <2>2. note \subseteq b
    BY <1>2
  <2>3. audio \subseteq a
    <3>1. CASE h.audio.layout = "InOut"
      <4>1. h.audio.inputs # <<>> /\ h.audio.outputs # <<>>
        BY <3>1 DEF AudioLists
      <4>2. h.audio.inputs[1] \in AudioPorts /\ h.audio.outputs[1] \in AudioPorts
        BY <1>2, <4>1
      <4>3. i \in Nat /\ o \in Nat
        BY <4>2 DEF AudioPorts
      <4>4. n \in Nat /\ n <= i /\ n <= o
        BY <4>3
      <4> HIDE DEF n
      <4>5. Through(h.audio.inputs, TRUE, n) \subseteq ToSet(AudioChannels(h.audio.inputs, TRUE))
        BY <1>2, <4>1, <4>4, ThroughListed
      <4>6. Through(h.audio.outputs, FALSE, n) \subseteq ToSet(AudioChannels(h.audio.outputs, FALSE))
        BY <1>2, <4>1, <4>4, ThroughListed
      <4> QED BY <1>2, <3>1, <4>5, <4>6
    <3>2. CASE h.audio.layout # "InOut"
      BY <3>2
    <3> QED BY <3>1, <3>2
  <2> HIDE DEF audio, note
  <2> QED BY <1>1, <2>1, <2>2, <2>3
<1> QED BY <1>3, <1>4

(* The task of a plugin is made, once it was activated and did not fail.   *)
LEMMA TasksAreMade ==
  ASSUME PortInv, HostsInv, NEW p \in PluginNodes, p \notin unsynced \cup torn
  PROVE  TaskIsMade(p)
<1> DEFINE h == host[p]
<1>1. p \in DOMAIN host /\ Fits(graph, p, h) /\ p \in DOMAIN graph.ports
  BY DEF PortInv, PoolInv, PluginNodes, Nodes
<1>2. HostInv(p, h, unsynced, torn, partial) /\ Mirrors(graph, p, h)
  BY <1>1 DEF HostsInv
<1> HIDE DEF h
<1>3. DOMAIN graph.ports[p] = Ports(h)
  BY <1>1 DEF Fits
<1>4. Announces(h, h.audio, h.note)
  BY <1>2 DEF HostInv, Describes
<1>5. NeedsBuffer(h) \subseteq DOMAIN h.portOf
  <2>1. NeedsBuffer(h) \subseteq ChannelsOf(<<h.audio, h.note>>)
    BY <1>2, NeedsAreListed DEF HostInv
  <2>2. ChannelsOf(<<h.audio, h.note>>) = ToSet(AudioList(h.audio)) \cup ToSet(NoteList(h.note))
    BY DEF ChannelsOf
  <2> QED BY <1>4, <2>1, <2>2 DEF Announces, Typed
<1>6. \A q \in Ports(h) : \E c \in DOMAIN h.portOf :
         h.portOf[c] = q /\ c.type = graph.ports[p][q].type
  <2>1. ASSUME NEW c \in DOMAIN h.portOf PROVE graph.ports[p][h.portOf[c]].type = c.type
    <3>1. graph.ports[p][h.portOf[c]] = [type |-> c.type, input |-> c.input]
      BY <1>1, <1>2 DEF Mirrors
    <3> QED BY <3>1
  <2> QED BY <2>1 DEF Ports
<1>7. \A c \in NeedsBuffer(h) : c \in DOMAIN h.portOf /\ h.portOf[c] \in Ports(h)
  BY <1>5 DEF Ports
<1> QED BY <1>1, <1>3, <1>6, <1>7 DEF TaskIsMade, h

(* Of a plugin whose lists were fetched together, main ports are ports.    *)
LEMMA EndsAreFound ==
  ASSUME HostsInv, NEW n \in DOMAIN host \cup {GraphIn, GraphOut}, n \notin partial,
         NEW type, NEW input, NEW end, end.channel \in Nat
  PROVE  EndPort(n, type, input, end) # Panics
<1>1. Panics \notin Nat /\ Panics # None
  BY GraphAssumption
<1>2. CASE n \in {GraphIn, GraphOut}
  BY <1>1, <1>2 DEF EndPort
<1>3. CASE n \notin {GraphIn, GraphOut}
  <2> DEFINE h == host[n]
             main == IF input THEN h.mainIn ELSE h.mainOut
             note == IF input THEN h.mainNoteIn ELSE h.mainNoteOut
  <2>1. HostInv(n, h, unsynced, torn, partial)
    BY <1>3 DEF HostsInv
  <2> HIDE DEF h
  <2>2. Numbered(h.portOf, h.free, h.next) /\ MainsExist(h)
    BY <2>1 DEF HostInv, Describes
  <2>3. /\ \A c \in DOMAIN h.portOf : h.portOf[c] \in Nat
        /\ \A q \in Ports(h) : q \in Nat /\ MainPort(h, q) = q
    BY <2>2 DEF Numbered, Ports, MainPort
  <2>4. main \in Seq(Ports(h)) /\ note \in Ports(h) \cup {None}
    BY <2>2 DEF MainsExist
  <2> HIDE DEF main, note
  <2>5. end.channel < Len(main) => main[end.channel + 1] \in Ports(h)
    BY <2>4
  <2> DEFINE c == CASE type = "Automation" /\ end.id = Main -> Channel(type, input, 0, 0)
                    [] OTHER -> Channel(type, input, end.id, end.channel)
  <2>6. EndPort(n, type, input, end) =
          CASE end.id = Main /\ type = "Audio" ->
                 IF end.channel < Len(main) THEN MainPort(h, main[end.channel + 1]) ELSE None
            [] end.id = Main /\ type = "Note" ->
                 IF note = None THEN None ELSE MainPort(h, note)
            [] OTHER -> IF c \in DOMAIN h.portOf THEN h.portOf[c] ELSE None
    BY <1>3 DEF EndPort, h, main, note
  <2> HIDE DEF c
  <2>7. CASE end.id = Main /\ type = "Audio"
    <3>1. EndPort(n, type, input, end) =
            IF end.channel < Len(main) THEN MainPort(h, main[end.channel + 1]) ELSE None
      BY <2>6, <2>7
    <3> QED BY <1>1, <2>3, <2>5, <3>1
  <2>8. CASE end.id = Main /\ type = "Note"
    <3>1. EndPort(n, type, input, end) = IF note = None THEN None ELSE MainPort(h, note)
      BY <2>6, <2>8
    <3> QED BY <1>1, <2>3, <2>4, <3>1
  <2>9. CASE ~(end.id = Main /\ type = "Audio") /\ ~(end.id = Main /\ type = "Note")
    <3>1. EndPort(n, type, input, end) = IF c \in DOMAIN h.portOf THEN h.portOf[c] ELSE None
      BY <2>6, <2>9
    <3> QED BY <1>1, <2>3, <3>1
  <2> QED BY <2>7, <2>8, <2>9
<1> QED BY <1>2, <1>3

-----------------------------------------------------------------------------
(* The engine stops of a reason: it had been running before.               *)
LEMMA StopsStep ==
  ASSUME PortInv, HostsInv, StopsAreExplained, Next PROVE StopsAreExplained'
<1> USE DEF edgeVars, countVars, idleVars
<1>a. ASSUME engine = "running", UNCHANGED engine PROVE StopsAreExplained'
  BY <1>a DEF StopsAreExplained
<1>b. ASSUME engine = "running", Compile, UNCHANGED <<graph, unsynced, torn>>
      PROVE  StopsAreExplained'
  <2>1. CASE \A p \in PluginNodes : TaskIsMade(p)
    BY <1>a, <1>b, <2>1 DEF Compile
  <2>2. ASSUME NEW p \in PluginNodes, ~TaskIsMade(p) PROVE StopsAreExplained'
    <3>1. engine' = "crashed"
      BY <1>b, <2>2 DEF Compile
    <3>2. p \in unsynced \cup torn
      BY <2>2, TasksAreMade
    <3>3. p \in (unsynced' \cup torn') \cap PluginNodes'
      BY <1>b, <3>2 DEF PluginNodes, Nodes
    <3> QED BY <3>1, <3>3 DEF StopsAreExplained
  <2> QED BY <2>1, <2>2
<1>1. CASE \/ \E id \in told : Disconnect(id)
           \/ \E p \in Plugins : AddPlugin(p) \/ DropProcessor(p)
           \/ BeginIdle
           \/ \E p \in todo : \E requests \in MayDo[p].requests : OnIdle(p, requests)
  BY <1>1, <1>a DEF Disconnect, AddPlugin, DropProcessor, BeginIdle, OnIdle, Modifies
<1>2. ASSUME NEW p \in Plugins, RemovePlugin(p) PROVE StopsAreExplained'
  <2>1. engine = "running" /\ (engine' = engine \/ (engine' = "panicked" /\ p \in twice'))
    BY <1>2 DEF RemovePlugin, Modifies
  <2> QED BY <1>a, <2>1 DEF StopsAreExplained
<1>3. ASSUME NEW src \in DOMAIN host \cup {GraphIn, GraphOut},
             NEW dst \in DOMAIN host \cup {GraphIn, GraphOut},
             NEW req \in EdgeReqs, Connect(src, dst, req)
      PROVE  StopsAreExplained'
  <2>1. engine = "running" /\ UNCHANGED partial
    BY <1>3 DEF Connect, Modifies
  <2>2. CASE partial = {}
    <3>1. req.src.channel \in Nat /\ req.dst.channel \in Nat
      BY GraphAssumption
    <3>2. /\ EndPort(src, req.type, FALSE, req.src) # Panics
          /\ EndPort(dst, req.type, TRUE, req.dst) # Panics
      BY <2>2, <3>1, EndsAreFound
    <3>3. UNCHANGED engine
      BY <1>3, <3>2 DEF Connect
    <3> QED BY <1>a, <2>1, <3>3
  <2>3. CASE partial # {}
    <3>1. engine' = engine \/ engine' = "panicked"
      BY <1>3 DEF Connect
    <3> QED BY <1>a, <2>1, <2>3, <3>1 DEF StopsAreExplained
  <2> QED BY <2>2, <2>3
<1>4. CASE EndModify
  BY <1>4, <1>b DEF EndModify
<1>5. CASE EndIdle
  <2>1. engine = "running" /\ UNCHANGED <<graph, unsynced, torn>>
    BY <1>5 DEF EndIdle
  <2>2. Compile \/ UNCHANGED engine
    BY <1>5 DEF EndIdle
  <2> QED BY <1>a, <1>b, <2>1, <2>2
<1> QED BY <1>1, <1>2, <1>3, <1>4, <1>5 DEF Next

(* The lists of a plugin that was never activated have no channels.        *)
LEMMA EmptyLists ==
  /\ Empty.audio \in AudioLists /\ Empty.note \in NoteLists
  /\ AudioList(Empty.audio) = <<>> /\ NoteList(Empty.note) = <<>>
<1>1. Empty.audio \in AudioLists /\ Empty.note \in NoteLists
  BY DEF Empty, AudioLists, NoteLists
<1>2. Empty.audio # None /\ Empty.note # None
  BY <1>1, ListsAssumption
<1>3. \A input : AudioChannels(<<>>, input) = <<>>
  BY DEF AudioChannels, FlattenSeq
<1>4. \A input : NoteChannels(<<>>, input) = <<>>
  BY DEF NoteChannels
<1>5. <<>> \o <<>> = <<>>
  OBVIOUS
<1> QED BY <1>1, <1>2, <1>3, <1>4, <1>5 DEF AudioList, NoteList, Empty

(* It has no ports, and, when it is new, announces none.                   *)
LEMMA NewHostInv ==
  ASSUME NEW p \in Plugins, NEW new \in MayBe[p],
         NEW h, h = NewHost(new.saved, new.loaded, new.autoOut), NEW u,
         new.saved # None => p \in u
  PROVE  HostInv(p, h, u, torn, partial) /\ IsHost(h) /\ Ports(h) = {} /\ ~h.removeRequested
<1>1. /\ IsHost(h) /\ Ports(h) = {} /\ ~h.removeRequested
      /\ h.portOf = <<>> /\ h.free = <<>> /\ h.next = 0 /\ h.state = "Inactive"
      /\ h.mainIn = <<>> /\ h.mainOut = <<>> /\ h.mainNoteIn = None /\ h.mainNoteOut = None
      /\ h.hasActivationOnce = FALSE
      /\ h.audio = IF new.saved = None THEN Empty.audio ELSE new.saved.audio
      /\ h.note = IF new.saved = None THEN Empty.note ELSE new.saved.note
  BY DEF NewHost, IsHost, IsFcn, HostFields, Ports
<1>2. h.audio \in AudioLists /\ h.note \in NoteLists
  BY <1>1, EmptyLists, GraphAssumption
<1>3. Numbered(h.portOf, h.free, h.next)
  BY <1>1 DEF Numbered, IsFcn
<1>4. MainsExist(h)
  <2>1. <<>> \in Seq(Ports(h))
    OBVIOUS
  <2> QED BY <1>1, <2>1 DEF MainsExist
<1>5. CASE new.saved = None
  <2>1. h.audio = Empty.audio /\ h.note = Empty.note
    BY <1>1, <1>5
  <2>2. /\ Typed(h.portOf, "Audio") = {} /\ Typed(h.portOf, "Note") = {}
        /\ ToSet(AudioList(h.audio)) = {} /\ ToSet(NoteList(h.note)) = {}
    BY <1>1, <2>1, EmptyLists DEF Typed, ToSet
  <2>3. AudioFirst(h, h.audio)
    <3>1. h.audio.layout = "NoMainPorts"
      BY <2>1 DEF Empty
    <3>2. "NoMainPorts" \notin {"InOut", "InOnly"} /\ "NoMainPorts" \notin WithMainOut
      BY DEF WithMainOut
    <3>3. \A list, input : /\ MainChannels({"InOut", "InOnly"}, h.audio.layout, list, input) = <<>>
                          /\ MainChannels(WithMainOut, h.audio.layout, list, input) = <<>>
      BY <3>1, <3>2 DEF MainChannels
    <3>4. Are(h.portOf, <<>>, <<>>)
      BY DEF Are
    <3> QED BY <1>1, <3>3, <3>4 DEF AudioFirst
  <2>4. NotesFirst(h, h.note)
    BY <1>1, <2>1 DEF NotesFirst, IsFirst, Empty
  <2>5. Describes(p, h, h.audio, h.note, u, torn, partial)
    BY <1>3, <1>4, <2>2, <2>3, <2>4 DEF Describes, Announces
  <2> QED BY <1>1, <1>2, <2>5 DEF HostInv, States
<1>6. CASE new.saved # None
  <2>1. Describes(p, h, h.audio, h.note, u, torn, partial)
    BY <1>3, <1>4, <1>6 DEF Describes
  <2> QED BY <1>1, <1>2, <2>1 DEF HostInv, States
<1> QED BY <1>5, <1>6

(* add_new_plugin_instance activates a plugin that has no ports yet.       *)
LEMMA AddIsFound ==
  ASSUME AllInv, NEW p \in Plugins, p \notin made, NEW new \in MayBe[p],
         NEW h, h = NewHost(new.saved, new.loaded, new.autoOut),
         NEW u, u = IF new.saved = None THEN unsynced ELSE unsynced \cup {p},
         NEW g, g = AddNode(p)
  PROVE  Found(p, h, g, u)
<1>1. HostInv(p, h, u, torn, partial) /\ IsHost(h) /\ Ports(h) = {} /\ ~h.removeRequested
  BY NewHostInv
<1>2. Ready(p, h, g)
  BY <1>1, AddIsReady DEF AllInv
<1>3. Mirrors(g, p, h)
  BY <1>1 DEF Mirrors, Ports
<1> QED BY <1>1, <1>2, <1>3 DEF Found, AllInv, RecordInv, EdgeInv

(* on_idle activates a plugin that stays, and that it may have asked to    *)
(* restart.                                                                *)
LEMMA IdleIsFound ==
  ASSUME AllInv, NEW p \in DOMAIN host, NEW requests,
         NEW h, h = Requested(host[p], requests), ~h.removeRequested
  PROVE  Found(p, h, graph, unsynced) /\ Alike(host[p], h)
<1>1. /\ IsHost(host[p]) /\ HostInv(p, host[p], unsynced, torn, partial)
      /\ Mirrors(graph, p, host[p]) /\ host[p].state \in States
  BY DEF AllInv, PortInv, PoolInv, Fits, HostsInv, HostInv
<1>2. Alike(host[p], h) /\ h.state \in States /\ Like(host[p], h)
  BY <1>1, RequestedSoft, RequestedIsLike
<1>3. HostInv(p, h, unsynced, torn, partial) /\ Mirrors(graph, p, h)
  BY <1>1, <1>2, AlikeInv, AlikeMirrors
<1>4. Ready(p, h, graph)
  BY <1>2, IdleIsReady DEF AllInv
<1> QED BY <1>2, <1>3, <1>4 DEF Found, AllInv, RecordInv, EdgeInv

(* A call that activates a plugin, on its own.                             *)
LEMMA AddActivates ==
  ASSUME AllInv, NEW p \in Plugins, AddPlugin(p)
  PROVE  \E new \in MayBe[p] : \E h, g, u :
           /\ u = (IF new.saved = None THEN unsynced ELSE unsynced \cup {p})
           /\ h = NewHost(new.saved, new.loaded, new.autoOut) /\ g = AddNode(p)
           /\ Found(p, h, g, u)
           /\ \/ Activate(p, h, g, u) /\ Outcome(p, h, g, u) /\ Left(p, g)
              \/ /\ graph' = g /\ host' = Put(host, p, h) /\ unsynced' = u
                 /\ UNCHANGED <<dsEdges, attempts, recompile, told, lost, torn,
                                failed, partial, missed>>
<1>1. p \notin made
  BY DEF AddPlugin
<1>2. PICK new \in MayBe[p] :
        LET h == NewHost(new.saved, new.loaded, new.autoOut)
            u == IF new.saved = None THEN unsynced ELSE unsynced \cup {p}
        IN \/ Activate(p, h, AddNode(p), u)
           \/ /\ graph' = AddNode(p)
              /\ host' = Put(host, p, h)
              /\ unsynced' = u
              /\ UNCHANGED <<dsEdges, attempts, recompile, told, lost, torn,
                             failed, partial, missed>>
  BY DEF AddPlugin
<1> DEFINE h == NewHost(new.saved, new.loaded, new.autoOut)
           u == IF new.saved = None THEN unsynced ELSE unsynced \cup {p}
           g == AddNode(p)
<1>3. Found(p, h, g, u)
  BY <1>1, AddIsFound
<1>4. Activate(p, h, g, u) => Outcome(p, h, g, u) /\ Left(p, g)
  <2> HIDE DEF h, g, u
  <2> QED BY <1>3, ActivateOutcome, ActivateLeaves DEF Found
<1>5. \/ Activate(p, h, g, u)
      \/ /\ graph' = g /\ host' = Put(host, p, h) /\ unsynced' = u
         /\ UNCHANGED <<dsEdges, attempts, recompile, told, lost, torn,
                        failed, partial, missed>>
  BY <1>2
<1>6. /\ u = (IF new.saved = None THEN unsynced ELSE unsynced \cup {p})
      /\ h = NewHost(new.saved, new.loaded, new.autoOut) /\ g = AddNode(p)
  OBVIOUS
<1> HIDE DEF h, g, u
<1> QED BY <1>3, <1>4, <1>5, <1>6

(* on_idle activates a plugin, or changes nothing about its ports.         *)
LEMMA IdleActivates ==
  ASSUME AllInv, NEW p \in todo, NEW requests, OnIdle(p, requests)
  PROVE  \E h : /\ p \in DOMAIN host
                /\ \/ /\ Alike(host[p], h) /\ Activate(p, h, graph, unsynced)
                      /\ Outcome(p, h, graph, unsynced) /\ Left(p, graph)
                      /\ UNCHANGED leaving
                   \/ /\ Alike(host[p], h) /\ h.state \in States /\ Stays(p, h)
                      /\ leaving' \subseteq leaving \cup {p}
<1>1. p \in DOMAIN host /\ p \in Plugins
  BY DEF AllInv, PortInv
<1>2. IsHost(host[p]) /\ host[p].state \in States
  BY <1>1 DEF AllInv, PortInv, PoolInv, Fits, HostsInv, HostInv
<1> DEFINE h == Requested(host[p], requests)
<1>3. Alike(host[p], h) /\ h.state \in States /\ IsHost(h)
  BY <1>2, RequestedSoft, RequestedIsLike DEF Like
<1>4. CASE ~h.removeRequested /\ Activate(p, h, graph, unsynced) /\ UNCHANGED leaving
  <2>1. Found(p, h, graph, unsynced)
    BY <1>1, <1>4, IdleIsFound
  <2> HIDE DEF h
  <2>2. Outcome(p, h, graph, unsynced) /\ Left(p, graph)
    BY <1>1, <1>4, <2>1, ActivateOutcome, ActivateLeaves DEF Found
  <2> QED BY <1>1, <1>3, <1>4, <2>2
<1>5. CASE /\ Stays(p, IF h.state = "Dropped" THEN [h EXCEPT !.state = "Inactive"] ELSE h)
           /\ leaving' = IF h.removeRequested /\ h.state = "Dropped"
                         THEN leaving \cup {p} ELSE leaving
  <2> DEFINE x == IF h.state = "Dropped" THEN [h EXCEPT !.state = "Inactive"] ELSE h
  <2> HIDE DEF h
  <2>1. Alike(host[p], x) /\ x.state \in States
    <3> DEFINE y == [h EXCEPT !.state = "Inactive"]
    <3>1. Alike(h, y) /\ y.state = "Inactive"
      BY <1>3, SoftChanges
    <3> HIDE DEF y
    <3>2. Alike(host[p], y) /\ y.state \in States
      BY <1>3, <3>1 DEF Alike, States
    <3> QED BY <1>3, <3>2 DEF y
  <2>2. Stays(p, x) /\ leaving' \subseteq leaving \cup {p}
    BY <1>5
  <2> HIDE DEF x
  <2> QED BY <1>1, <2>1, <2>2
<1> QED BY <1>4, <1>5 DEF OnIdle

(* A step keeps to the bounds and to the phases of a call.                 *)
LEMMA RecordInvStep ==
  ASSUME AllInv, Next PROVE RecordInv'
<1> USE DEF edgeVars, countVars, idleVars
<1>0. /\ RecordInv /\ dsEdges \subseteq 0..nextEdge - 1 /\ nextEdge \in Nat
      /\ DOMAIN host \subseteq made
  BY DEF AllInv, EdgeInv, PortInv
<1>m. {MaxEdges, MaxActivations} \subseteq Nat
  BY GraphAssumption
<1>o. DOMAIN Order = {"rest", "disconnect", "remove", "add", "connect"}
  BY DEF Order
<1>1. ASSUME NEW id \in told, Disconnect(id) PROVE RecordInv'
  <2>1. asked' \subseteq asked \cup dsEdges /\ stage' = "disconnect"
    BY <1>1 DEF Disconnect, Modifies
  <2> QED BY <1>0, <1>1, <1>o, <2>1 DEF Disconnect, RecordInv
<1>2. ASSUME NEW p \in Plugins, RemovePlugin(p) PROVE RecordInv'
  <2>1. /\ p \in DOMAIN host /\ DOMAIN host' = DOMAIN host /\ removed' = removed \cup {p}
        /\ stage' = "remove" /\ twice' \subseteq twice \cup {p}
        /\ engine' \in {engine, "panicked"}
    BY <1>2 DEF RemovePlugin, Modifies
  <2>2. UNCHANGED <<made, attempts, nextEdge, recompile, asked, lost, unsynced, torn, failed,
                    partial, missed>>
    BY <1>2 DEF RemovePlugin
  <2> QED BY <1>0, <1>o, <2>1, <2>2 DEF RecordInv
<1>a. ASSUME NEW p, NEW u, Recorded(p, u), u \subseteq unsynced \cup {p},
             made \cup {p} \subseteq made',
             attempts < MaxActivations, attempts' = attempts + 1,
             UNCHANGED <<nextEdge, asked, twice>>
      PROVE  /\ torn' \subseteq failed'
             /\ unsynced' \cup failed' \cup partial' \cup twice' \subseteq made'
             /\ asked' \cup lost' \subseteq 0..nextEdge' - 1
             /\ nextEdge' \in 0..MaxEdges /\ attempts' \in 0..MaxActivations
             /\ recompile' \in BOOLEAN /\ missed' \in BOOLEAN
  <2>1. attempts' \in 0..MaxActivations
    BY <1>0, <1>a, <1>m DEF RecordInv
  <2>2. asked' \cup lost' \subseteq 0..nextEdge' - 1
    BY <1>0, <1>a DEF RecordInv, Recorded
  <2>3. unsynced' \subseteq u /\ failed' \subseteq failed \cup {p} /\ partial' \subseteq partial \cup {p}
    BY <1>a DEF Recorded
  <2> QED BY <1>0, <1>a, <2>1, <2>2, <2>3 DEF RecordInv, Recorded
<1>3. ASSUME NEW p \in Plugins, AddPlugin(p) PROVE RecordInv'
  <2>1. /\ stage' = "add" /\ made' = made \cup {p}
        /\ UNCHANGED <<nextEdge, removed, engine, asked, twice>>
    BY <1>3 DEF AddPlugin, Modifies
  <2>2. PICK new \in MayBe[p] : \E h, g, u :
           /\ u = (IF new.saved = None THEN unsynced ELSE unsynced \cup {p})
           /\ \/ Activate(p, h, g, u) /\ Outcome(p, h, g, u) /\ Left(p, g)
              \/ /\ host' = Put(host, p, h) /\ unsynced' = u
                 /\ UNCHANGED <<attempts, recompile, lost, torn, failed, partial, missed>>
    BY <1>3, AddActivates
  <2>3. PICK h, g, u :
           /\ u = (IF new.saved = None THEN unsynced ELSE unsynced \cup {p})
           /\ \/ Activate(p, h, g, u) /\ Outcome(p, h, g, u) /\ Left(p, g)
              \/ /\ host' = Put(host, p, h) /\ unsynced' = u
                 /\ UNCHANGED <<attempts, recompile, lost, torn, failed, partial, missed>>
    BY <2>2
  <2>4. u \subseteq unsynced \cup {p}
    BY <2>3
  <2>5. CASE Activate(p, h, g, u) /\ Outcome(p, h, g, u) /\ Left(p, g)
    <3>1. Recorded(p, u) /\ DOMAIN host' = DOMAIN host \cup {p}
      BY <2>5 DEF Outcome, Left
    <3>2. attempts < MaxActivations /\ attempts' = attempts + 1
      BY <2>5 DEF Activate
    <3>3. /\ torn' \subseteq failed'
          /\ unsynced' \cup failed' \cup partial' \cup twice' \subseteq made'
          /\ asked' \cup lost' \subseteq 0..nextEdge' - 1
          /\ nextEdge' \in 0..MaxEdges /\ attempts' \in 0..MaxActivations
          /\ recompile' \in BOOLEAN /\ missed' \in BOOLEAN
      BY <1>a, <2>1, <2>4, <3>1, <3>2
    <3> QED BY <1>0, <1>o, <2>1, <3>1, <3>3 DEF RecordInv
  <2>6. CASE /\ host' = Put(host, p, h) /\ unsynced' = u
             /\ UNCHANGED <<attempts, recompile, lost, torn, failed, partial, missed>>
    <3>1. DOMAIN host' = DOMAIN host \cup {p}
      BY <2>6 DEF Put
    <3> QED BY <1>0, <1>o, <2>1, <2>4, <2>6, <3>1 DEF RecordInv
  <2> QED BY <2>3, <2>5, <2>6
<1>4. ASSUME NEW p \in Plugins, DropProcessor(p) PROVE RecordInv'
  <2>1. DOMAIN host' = DOMAIN host
    BY <1>4 DEF DropProcessor
  <2> QED BY <1>0, <1>4, <2>1 DEF DropProcessor, RecordInv
<1>5. ASSUME NEW src, NEW dst, NEW req \in EdgeReqs, Connect(src, dst, req) PROVE RecordInv'
  <2>1. /\ stage' = "connect" /\ nextEdge < MaxEdges /\ nextEdge' \in {nextEdge, nextEdge + 1}
        /\ engine' \in {engine, "panicked"}
    BY <1>5 DEF Connect, Modifies
  <2>2. UNCHANGED <<host, made, attempts, removed, recompile, asked, lost, unsynced, torn,
                    failed, partial, missed, twice>>
    BY <1>5 DEF Connect
  <2>3. nextEdge' \in 0..MaxEdges /\ 0..nextEdge - 1 \subseteq 0..nextEdge' - 1
    <3>1. nextEdge \in Nat /\ MaxEdges \in Nat
      BY <1>0, <1>m
    <3>2. CASE nextEdge' = nextEdge
      BY <2>1, <3>1, <3>2
    <3>3. CASE nextEdge' = nextEdge + 1
      <4> DEFINE n == nextEdge'
      <4>1. n = nextEdge + 1 /\ nextEdge < MaxEdges
        BY <2>1, <3>3
      <4> HIDE DEF n
      <4>2. n \in 0..MaxEdges /\ 0..nextEdge - 1 \subseteq 0..n - 1
        BY <3>1, <4>1
      <4> QED BY <4>2 DEF n
    <3> QED BY <2>1, <3>2, <3>3
  <2> QED BY <1>0, <1>o, <2>1, <2>2, <2>3 DEF RecordInv
<1>6. CASE EndModify
  <2>1. /\ stage' = "rest" /\ removed' = {} /\ recompile' = FALSE /\ missed' = FALSE
        /\ engine' \in {engine, "crashed"}
    BY <1>6 DEF EndModify, Compile
  <2>2. UNCHANGED <<host, made, attempts, nextEdge, asked, lost, unsynced, torn,
                    failed, partial, twice>>
    BY <1>6 DEF EndModify
  <2> QED BY <1>0, <1>o, <2>1, <2>2 DEF RecordInv
<1>7. CASE BeginIdle
  BY <1>0, <1>7 DEF BeginIdle, RecordInv
<1>8. ASSUME NEW p \in todo, NEW requests, OnIdle(p, requests) PROVE RecordInv'
  <2>1. UNCHANGED <<nextEdge, made, stage, removed, engine, asked, twice>>
    BY <1>8 DEF OnIdle
  <2>2. PICK h : /\ p \in DOMAIN host
                 /\ \/ /\ Activate(p, h, graph, unsynced)
                       /\ Outcome(p, h, graph, unsynced) /\ Left(p, graph)
                    \/ Stays(p, h)
    BY <1>8, IdleActivates
  <2>3. CASE /\ Activate(p, h, graph, unsynced)
             /\ Outcome(p, h, graph, unsynced) /\ Left(p, graph)
    <3>1. Recorded(p, unsynced) /\ DOMAIN host' = DOMAIN host
      BY <2>2, <2>3 DEF Outcome, Left
    <3>2. attempts < MaxActivations /\ attempts' = attempts + 1
      BY <2>3 DEF Activate
    <3>4. made \cup {p} \subseteq made'
      BY <1>0, <2>1, <2>2
    <3>3. /\ torn' \subseteq failed'
          /\ unsynced' \cup failed' \cup partial' \cup twice' \subseteq made'
          /\ asked' \cup lost' \subseteq 0..nextEdge' - 1
          /\ nextEdge' \in 0..MaxEdges /\ attempts' \in 0..MaxActivations
          /\ recompile' \in BOOLEAN /\ missed' \in BOOLEAN
      BY <1>a, <2>1, <3>1, <3>2, <3>4
    <3> QED BY <1>0, <2>1, <3>1, <3>3 DEF RecordInv
  <2>4. CASE Stays(p, h)
    <3>1. DOMAIN host' = DOMAIN host
      BY <2>4 DEF Stays
    <3> QED BY <1>0, <2>1, <2>4, <3>1 DEF Stays, RecordInv
  <2> QED BY <2>2, <2>3, <2>4
<1>9. CASE EndIdle
  <2>1. /\ stage = "idle" /\ stage' = "rest" /\ UNCHANGED removed /\ recompile' = FALSE
        /\ missed' \in {missed, FALSE} /\ engine' \in {engine, "crashed"}
    BY <1>9 DEF EndIdle, Compile
  <2>2. UNCHANGED <<made, attempts, nextEdge, asked, lost, unsynced, torn,
                    failed, partial, twice>>
    BY <1>9 DEF EndIdle
  <2> QED BY <1>0, <1>o, <2>1, <2>2 DEF RecordInv
<1> QED BY <1>1, <1>2, <1>3, <1>4, <1>5, <1>6, <1>7, <1>8, <1>9 DEF Next

(* A host is described as before while its place in the history is.        *)
LEMMA HostInvSame ==
  ASSUME NEW p, NEW h, NEW U, NEW T, NEW P, HostInv(p, h, U, T, P), NEW U1, NEW T1, NEW P1,
         p \in U1 <=> p \in U, p \in T1 <=> p \in T, p \in P1 <=> p \in P
  PROVE  HostInv(p, h, U1, T1, P1)
BY DEF HostInv, Describes

(* The ports a graph has are those of an earlier one.                      *)
FewerPorts(g, g1) ==
  \A n \in DOMAIN g1.ports : n \in DOMAIN g.ports /\ g1.ports[n] = g.ports[n]

(* It says the same of them.                                               *)
LEMMA FewerMirrors ==
  ASSUME NEW g, NEW g1, FewerPorts(g, g1), NEW p, NEW h, Mirrors(g, p, h)
  PROVE  Mirrors(g1, p, h)
BY DEF FewerPorts, Mirrors

(* A step that changes one host, if any, but nothing about its ports.      *)
LEMMA SoftStep ==
  ASSUME HostsInv, FewerPorts(graph, graph'), UNCHANGED <<unsynced, torn, partial>>,
         \A p \in DOMAIN host' :
           /\ p \in DOMAIN host
           /\ host'[p] = host[p] \/ (Alike(host[p], host'[p]) /\ host'[p].state \in States)
  PROVE  HostsInv'
<1> SUFFICES ASSUME NEW p \in DOMAIN host'
             PROVE  HostInv(p, host'[p], unsynced', torn', partial') /\ Mirrors(graph', p, host'[p])
  BY DEF HostsInv
<1>1. HostInv(p, host[p], unsynced, torn, partial) /\ Mirrors(graph, p, host[p])
  BY DEF HostsInv
<1>2. HostInv(p, host'[p], unsynced, torn, partial)
  <2>1. CASE host'[p] = host[p]
    BY <1>1, <2>1
  <2>2. CASE Alike(host[p], host'[p]) /\ host'[p].state \in States
    BY <1>1, <2>2, AlikeInv
  <2> QED BY <2>1, <2>2
<1>3. Mirrors(graph, p, host'[p])
  <2>1. CASE host'[p] = host[p]
    BY <1>1, <2>1
  <2>2. CASE Alike(host[p], host'[p])
    BY <1>1, <2>2, AlikeMirrors
  <2> QED BY <2>1, <2>2
<1> QED BY <1>2, <1>3, FewerMirrors

(* A step that adds a plugin, or activates one.                            *)
LEMMA OutcomeStep ==
  ASSUME HostsInv, NEW p, NEW u, u \in {unsynced, unsynced \cup {p}},
         NEW g, \A n \in DOMAIN g.ports \ {p} : n \in DOMAIN graph.ports /\ g.ports[n] = graph.ports[n],
         SameNodes(g, graph', p),
         HostInv(p, host'[p], unsynced', torn', partial'), Mirrors(graph', p, host'[p]),
         unsynced' \in {u, u \ {p}}, torn' \in {torn, torn \cup {p}, torn \ {p}},
         partial' \in {partial, partial \cup {p}},
         DOMAIN host' = DOMAIN host \cup {p}, \A q \in DOMAIN host \ {p} : host'[q] = host[q]
  PROVE  HostsInv'
<1> SUFFICES ASSUME NEW q \in DOMAIN host'
             PROVE  HostInv(q, host'[q], unsynced', torn', partial') /\ Mirrors(graph', q, host'[q])
  BY DEF HostsInv
<1>1. CASE q = p
  BY <1>1
<1>2. CASE q # p
  <2>1. q \in DOMAIN host /\ host'[q] = host[q]
    BY <1>2
  <2>2. HostInv(q, host[q], unsynced, torn, partial) /\ Mirrors(graph, q, host[q])
    BY <2>1 DEF HostsInv
  <2>3. (q \in unsynced' <=> q \in unsynced) /\ (q \in torn' <=> q \in torn)
        /\ (q \in partial' <=> q \in partial)
    BY <1>2
  <2>4. HostInv(q, host[q], unsynced', torn', partial')
    BY <2>2, <2>3, HostInvSame
  <2>5. Mirrors(graph', q, host[q])
    <3>1. q \in DOMAIN graph'.ports =>
            q \in DOMAIN graph.ports /\ graph'.ports[q] = graph.ports[q]
      BY <1>2 DEF SameNodes
    <3> QED BY <2>2, <3>1 DEF Mirrors
  <2> QED BY <2>1, <2>4, <2>5
<1> QED BY <1>1, <1>2

(* A step leaves each host with the ports of the lists it announces.       *)
LEMMA HostsInvStep ==
  ASSUME AllInv, Next PROVE HostsInv'
<1> USE DEF edgeVars, countVars, idleVars
<1>0. /\ HostsInv /\ IsGraph(graph)
      /\ \A p \in DOMAIN host : IsHost(host[p]) /\ host[p].state \in States
  BY DEF AllInv, PortInv, GraphInv, PoolInv, Fits, HostsInv, HostInv
<1>f. FewerPorts(graph, graph)
  BY DEF FewerPorts
<1>a. ASSUME UNCHANGED <<host, unsynced, torn, partial>>, graph'.ports = graph.ports PROVE HostsInv'
  <2>1. FewerPorts(graph, graph')
    BY <1>a DEF FewerPorts
  <2> QED BY <1>0, <1>a, <2>1, SoftStep
<1>1. ASSUME NEW id \in told, Disconnect(id) PROVE HostsInv'
  <2>1. graph'.ports = graph.ports
    BY <1>0, <1>1 DEF Disconnect, IsGraph
  <2> QED BY <1>1, <1>a, <2>1 DEF Disconnect
<1>2. ASSUME NEW p \in Plugins, RemovePlugin(p) PROVE HostsInv'
  <2>1. /\ p \in DOMAIN host /\ host' = [host EXCEPT ![p] = ScheduleRemove(host[p])]
        /\ UNCHANGED <<unsynced, torn, partial>>
        /\ graph' = graph \/ graph' = Without(p)
    BY <1>2 DEF RemovePlugin
  <2>2. Alike(host[p], ScheduleRemove(host[p])) /\ ScheduleRemove(host[p]).state \in States
    BY <1>0, <2>1, ScheduleRemoveSoft
  <2>3. FewerPorts(graph, graph')
    <3>1. CASE graph' = Without(p)
      BY <1>0, <3>1 DEF Without, FewerPorts, Nodes, IsGraph
    <3> QED BY <1>f, <2>1, <3>1
  <2> HIDE DEF ScheduleRemove
  <2>4. \A q \in DOMAIN host' :
           /\ q \in DOMAIN host
           /\ host'[q] = host[q] \/ (Alike(host[q], host'[q]) /\ host'[q].state \in States)
    BY <2>1, <2>2
  <2> QED BY <1>0, <2>1, <2>3, <2>4, SoftStep
<1>3. ASSUME NEW p \in Plugins, AddPlugin(p) PROVE HostsInv'
  <2>0. p \notin made
    BY <1>3 DEF AddPlugin
  <2>1. PICK new \in MayBe[p] : \E h, g, u :
           /\ u = (IF new.saved = None THEN unsynced ELSE unsynced \cup {p})
           /\ h = NewHost(new.saved, new.loaded, new.autoOut) /\ g = AddNode(p)
           /\ Found(p, h, g, u)
           /\ \/ Activate(p, h, g, u) /\ Outcome(p, h, g, u) /\ Left(p, g)
              \/ /\ graph' = g /\ host' = Put(host, p, h) /\ unsynced' = u
                 /\ UNCHANGED <<torn, partial>>
    BY <1>3, AddActivates
  <2>2. PICK h, g, u :
           /\ u = (IF new.saved = None THEN unsynced ELSE unsynced \cup {p})
           /\ h = NewHost(new.saved, new.loaded, new.autoOut) /\ g = AddNode(p)
           /\ Found(p, h, g, u)
           /\ \/ Activate(p, h, g, u) /\ Outcome(p, h, g, u) /\ Left(p, g)
              \/ /\ graph' = g /\ host' = Put(host, p, h) /\ unsynced' = u
                 /\ UNCHANGED <<torn, partial>>
    BY <2>1
  <2>3. u \in {unsynced, unsynced \cup {p}}
    BY <2>2
  <2>4. \A n \in DOMAIN g.ports \ {p} : n \in DOMAIN graph.ports /\ g.ports[n] = graph.ports[n]
    <3>1. IsHost(h) /\ Ports(h) = {} /\ ~h.removeRequested
      BY <2>2 DEF NewHost, IsHost, IsFcn, HostFields, Ports
    <3>2. DOMAIN g.ports = Nodes \cup {p} /\ \A n \in Nodes : g.ports[n] = graph.ports[n]
      BY <2>0, <2>2, <3>1, AddIsReady DEF AllInv
    <3> QED BY <3>2 DEF Nodes
  <2>5. CASE Outcome(p, h, g, u) /\ Left(p, g)
    BY <1>0, <2>3, <2>4, <2>5, OutcomeStep DEF Outcome, Recorded, Left
  <2>6. CASE /\ graph' = g /\ host' = Put(host, p, h) /\ unsynced' = u
             /\ UNCHANGED <<torn, partial>>
    <3>1. DOMAIN host' = DOMAIN host \cup {p} /\ host'[p] = h
          /\ \A q \in DOMAIN host \ {p} : host'[q] = host[q]
      BY <2>6 DEF Put
    <3>2. HostInv(p, host'[p], unsynced', torn', partial') /\ Mirrors(graph', p, host'[p])
      BY <2>2, <2>6, <3>1 DEF Found
    <3>3. SameNodes(g, graph', p)
      BY <2>6 DEF SameNodes
    <3> QED BY <1>0, <2>3, <2>4, <2>6, <3>1, <3>2, <3>3, OutcomeStep
  <2> QED BY <2>2, <2>5, <2>6
<1>4. ASSUME NEW p \in Plugins, DropProcessor(p) PROVE HostsInv'
  <2> DEFINE x == [host[p] EXCEPT !.state = "Dropped"]
  <2>1. /\ p \in DOMAIN host /\ host' = [host EXCEPT ![p] = x]
        /\ UNCHANGED <<graph, unsynced, torn, partial>>
    BY <1>4 DEF DropProcessor
  <2>2. Alike(host[p], x) /\ x.state \in States
    BY <1>0, <2>1, SoftChanges DEF States
  <2> HIDE DEF x
  <2>3. \A q \in DOMAIN host' :
           /\ q \in DOMAIN host
           /\ host'[q] = host[q] \/ (Alike(host[q], host'[q]) /\ host'[q].state \in States)
    BY <2>1, <2>2
  <2> QED BY <1>0, <1>f, <2>1, <2>3, SoftStep
<1>5. ASSUME NEW src, NEW dst, NEW req \in EdgeReqs, Connect(src, dst, req) PROVE HostsInv'
  <2>1. graph'.ports = graph.ports
    BY <1>0, <1>5 DEF Connect, IsGraph
  <2> QED BY <1>5, <1>a, <2>1 DEF Connect
<1>6. CASE EndModify
  BY <1>6, <1>a DEF EndModify
<1>7. CASE BeginIdle
  BY <1>7, <1>a DEF BeginIdle
<1>8. ASSUME NEW p \in todo, NEW requests, OnIdle(p, requests) PROVE HostsInv'
  <2>1. PICK h : /\ p \in DOMAIN host
                 /\ \/ Outcome(p, h, graph, unsynced) /\ Left(p, graph)
                    \/ Alike(host[p], h) /\ h.state \in States /\ Stays(p, h)
    BY <1>8, IdleActivates
  <2>2. CASE Outcome(p, h, graph, unsynced) /\ Left(p, graph)
    BY <1>0, <2>2, OutcomeStep DEF Outcome, Recorded, Left
  <2>3. CASE Alike(host[p], h) /\ h.state \in States /\ Stays(p, h)
    <3>1. host' = [host EXCEPT ![p] = h] /\ UNCHANGED <<graph, unsynced, torn, partial>>
      BY <2>3 DEF Stays
    <3>2. \A q \in DOMAIN host' :
           /\ q \in DOMAIN host
           /\ host'[q] = host[q] \/ (Alike(host[q], host'[q]) /\ host'[q].state \in States)
      BY <2>1, <2>3, <3>1
    <3> QED BY <1>0, <1>f, <3>1, <3>2, SoftStep
  <2> QED BY <2>1, <2>2, <2>3
<1>9. CASE EndIdle
  <2>1. /\ host' = [p \in DOMAIN host \ leaving |-> host[p]]
        /\ UNCHANGED <<graph, unsynced, torn, partial>>
    BY <1>9 DEF EndIdle
  <2> QED BY <1>0, <1>f, <2>1, SoftStep
<1> QED BY <1>1, <1>2, <1>3, <1>4, <1>5, <1>6, <1>7, <1>8, <1>9 DEF Next

(* A list with other channels makes the engine compile the graph.          *)
LEMMA LayoutInvStep ==
  ASSUME AllInv, LayoutInv, Next PROVE LayoutInv'
<1> USE DEF edgeVars, countVars, idleVars
<1>0. PortInv /\ \A p \in PluginNodes : p \in DOMAIN host /\ IsHost(host[p])
  BY DEF AllInv, PortInv, PoolInv, Fits, PluginNodes, Nodes
<1>1. ASSUME stage' \in {"disconnect", "remove", "add", "connect"} PROVE LayoutInv'
  BY <1>1 DEF LayoutInv
<1>2. CASE \/ \E id \in told : Disconnect(id)
           \/ \E p \in Plugins : RemovePlugin(p) \/ AddPlugin(p)
           \/ \E src, dst : \E req \in EdgeReqs : Connect(src, dst, req)
  BY <1>1, <1>2 DEF Disconnect, RemovePlugin, AddPlugin, Connect, Modifies
<1>c. ASSUME Compile, UNCHANGED graph, \A p \in PluginNodes : host'[p] = host[p] PROVE LayoutInv'
  <2>1. CASE \A p \in PluginNodes : TaskIsMade(p)
    <3>1. /\ \A p \in PluginNodes : schedule'.layout[p] = <<host[p].audio, host[p].note>>
          /\ PluginNodes' = PluginNodes
      BY <1>c, <2>1 DEF Compile, Snapshot, PluginNodes, Nodes
    <3> QED BY <1>c, <3>1 DEF LayoutInv, SameChannels
  <2>2. CASE ~(\A p \in PluginNodes : TaskIsMade(p))
    <3>1. engine' = "crashed"
      BY <1>c, <2>2 DEF Compile
    <3> QED BY <3>1 DEF LayoutInv
  <2> QED BY <2>1, <2>2
<1>s. ASSUME UNCHANGED <<schedule, engine>>, stage \in {"rest", "idle"}, failed \subseteq failed',
             PluginNodes' = PluginNodes, recompile' \in BOOLEAN,
             recompile => recompile',
             \A p \in PluginNodes :
               \/ recompile' = TRUE \/ p \in failed'
               \/ ChannelsOf(<<host'[p].audio, host'[p].note>>)
                    = ChannelsOf(<<host[p].audio, host[p].note>>)
      PROVE  LayoutInv'
  <2>1. CASE recompile' = TRUE
    BY <2>1 DEF LayoutInv
  <2>2. CASE recompile' = FALSE
    <3>1. ~recompile
      BY <1>s, <2>2
    <3> QED BY <1>s, <2>2, <3>1 DEF LayoutInv, SameChannels
  <2> QED BY <1>s, <2>1, <2>2
<1>r. recompile \in BOOLEAN
  BY DEF AllInv, RecordInv
<1>3. ASSUME NEW p \in Plugins, DropProcessor(p) PROVE LayoutInv'
  <2>1. /\ stage = "rest" /\ UNCHANGED <<graph, schedule, engine, failed, recompile>>
        /\ host' = [host EXCEPT ![p].state = "Dropped"]
    BY <1>3 DEF DropProcessor
  <2>2. \A q \in PluginNodes : host'[q].audio = host[q].audio /\ host'[q].note = host[q].note
    BY <1>0, <2>1 DEF IsHost, HostFields
  <2>3. PluginNodes' = PluginNodes
    BY <2>1 DEF PluginNodes, Nodes
  <2> QED BY <1>r, <1>s, <2>1, <2>2, <2>3
<1>4. CASE EndModify
  BY <1>4, <1>c DEF EndModify
<1>5. CASE BeginIdle
  <2>1. UNCHANGED <<graph, host, schedule, engine, failed, recompile>> /\ stage = "rest"
    BY <1>5 DEF BeginIdle
  <2>2. PluginNodes' = PluginNodes
    BY <2>1 DEF PluginNodes, Nodes
  <2> QED BY <1>r, <1>s, <2>1, <2>2
<1>6. ASSUME NEW p \in todo, NEW requests, OnIdle(p, requests) PROVE LayoutInv'
  <2>1. stage = "idle" /\ UNCHANGED <<schedule, engine>>
    BY <1>6 DEF OnIdle
  <2>2. PICK h : /\ p \in DOMAIN host /\ Alike(host[p], h)
                 /\ \/ Outcome(p, h, graph, unsynced) /\ Left(p, graph)
                    \/ Stays(p, h)
    BY <1>6, IdleActivates
  <2>3. h.audio = host[p].audio /\ h.note = host[p].note
    BY <2>2, AlikeFields
  <2>4. CASE Outcome(p, h, graph, unsynced) /\ Left(p, graph)
    <3>1. /\ Recorded(p, unsynced) /\ Compiled(p, h) /\ SameNodes(graph, graph', p)
          /\ \A q \in DOMAIN host \ {p} : host'[q] = host[q]
      BY <2>4 DEF Outcome, Left
    <3>2. PluginNodes' = PluginNodes
      BY <3>1 DEF SameNodes, PluginNodes, Nodes
    <3>3. failed \subseteq failed' /\ recompile' \in BOOLEAN /\ (recompile => recompile')
      BY <3>1 DEF Recorded
    <3>4. \A q \in PluginNodes :
             \/ recompile' = TRUE \/ q \in failed'
             \/ ChannelsOf(<<host'[q].audio, host'[q].note>>)
                  = ChannelsOf(<<host[q].audio, host[q].note>>)
      <4> TAKE q \in PluginNodes
      <4>1. CASE q = p
        BY <2>3, <3>1, <4>1 DEF Compiled
      <4>2. CASE q # p
        BY <1>0, <3>1, <4>2
      <4> QED BY <4>1, <4>2
    <3> QED BY <1>s, <2>1, <3>2, <3>3, <3>4
  <2>5. CASE Stays(p, h)
    <3>1. host' = [host EXCEPT ![p] = h] /\ UNCHANGED <<graph, recompile, failed>>
      BY <2>5 DEF Stays
    <3>2. \A q \in PluginNodes : host'[q].audio = host[q].audio /\ host'[q].note = host[q].note
      BY <1>0, <2>3, <3>1
    <3>3. PluginNodes' = PluginNodes
      BY <3>1 DEF PluginNodes, Nodes
    <3> QED BY <1>r, <1>s, <2>1, <3>1, <3>2, <3>3
  <2> QED BY <2>2, <2>4, <2>5
<1>7. CASE EndIdle
  <2>1. /\ stage = "idle" /\ UNCHANGED <<graph, failed>>
        /\ host' = [p \in DOMAIN host \ leaving |-> host[p]]
        /\ IF recompile THEN Compile ELSE UNCHANGED <<schedule, engine>>
        /\ recompile' = FALSE
    BY <1>7 DEF EndIdle
  <2>2. \A p \in PluginNodes : host'[p] = host[p]
    <3>1. \A p \in PluginNodes : p \in DOMAIN host \ leaving
      BY <1>0 DEF PortInv, PoolInv, Fits, PluginNodes, Nodes
    <3> QED BY <2>1, <3>1
  <2>3. CASE recompile
    BY <1>c, <2>1, <2>2, <2>3
  <2>4. CASE ~recompile
    <3>1. PluginNodes' = PluginNodes
      BY <2>1 DEF PluginNodes, Nodes
    <3> QED BY <1>s, <2>1, <2>2, <2>4, <3>1
  <2> QED BY <2>3, <2>4
<1> QED BY <1>2, <1>3, <1>4, <1>5, <1>6, <1>7 DEF Next

(* While on_idle runs, an edge goes only with a channel at one of its      *)
(* ends.                                                                   *)
LEMMA RestartStep ==
  ASSUME AllInv, Next, stage = "idle"
  PROVE  \A e \in graph.edges \ graph'.edges :
           ~Offers(e.src, e.srcPort) \/ ~Offers(e.dst, e.dstPort)
<1> SUFFICES ASSUME NEW e \in graph.edges \ graph'.edges
             PROVE  ~Offers(e.src, e.srcPort) \/ ~Offers(e.dst, e.dstPort)
  OBVIOUS
<1> USE DEF edgeVars, countVars, idleVars
<1>1. \E p \in todo : \E requests : OnIdle(p, requests)
  <2>1. /\ \A id : ~Disconnect(id)
        /\ \A p : ~RemovePlugin(p) /\ ~AddPlugin(p) /\ ~DropProcessor(p)
        /\ \A src, dst, req : ~Connect(src, dst, req)
        /\ ~EndModify /\ ~BeginIdle
    BY DEF Disconnect, RemovePlugin, AddPlugin, DropProcessor, Connect, EndModify, BeginIdle,
           Modifies, Order
  <2>2. ~EndIdle
    BY DEF EndIdle
  <2> QED BY <2>1, <2>2 DEF Next
<1>2. PICK p \in todo : \E requests : OnIdle(p, requests)
  BY <1>1
<1>3. PICK h : /\ p \in DOMAIN host /\ Alike(host[p], h)
               /\ Outcome(p, h, graph, unsynced)
  <2>1. PICK h : /\ p \in DOMAIN host /\ Alike(host[p], h)
                 /\ Outcome(p, h, graph, unsynced) \/ Stays(p, h)
    BY <1>2, IdleActivates
  <2>2. ~Stays(p, h)
    BY DEF Stays
  <2> QED BY <2>1, <2>2
<1>4. h.portOf = host[p].portOf
  BY <1>3, AlikeFields
<1>5. PICK c \in DOMAIN host[p].portOf \ DOMAIN host'[p].portOf :
        /\ host'[p].state = "Active" => c \notin NeedsBuffer(host'[p])
        /\ \/ e.src = p /\ e.srcPort = host[p].portOf[c]
           \/ e.dst = p /\ e.dstPort = host[p].portOf[c]
  BY <1>3, <1>4 DEF Outcome, LosesEdges
<1>6. p \notin {GraphIn, GraphOut}
  <2>1. p \in Plugins
    BY <1>3 DEF AllInv, PortInv
  <2> QED BY <2>1, GraphNames
<1>7. ChannelOf(host[p], host[p].portOf[c]) = c
  <2>1. \A d \in DOMAIN host[p].portOf : host[p].portOf[d] = host[p].portOf[c] => d = c
    BY <1>3, <1>5 DEF AllInv, HostsInv, HostInv, Describes, Numbered
  <2> QED BY <2>1 DEF ChannelOf
<1>8. ~Offers(p, host[p].portOf[c])
  BY <1>5, <1>6, <1>7 DEF Offers
<1> QED BY <1>5, <1>8

-----------------------------------------------------------------------------
(* The inductive invariant.                                                *)
IInv == AllInv /\ ScheduleInv /\ LayoutInv /\ StopsAreExplained

(* It holds at first, of a graph without plugins.                          *)
LEMMA IInvInit == Init => IInv
<1> SUFFICES ASSUME Init PROVE IInv
  OBVIOUS
<1>1. EdgeInv /\ PortInv
  BY EdgesInit, PortsInit
<1>2. /\ graph = EmptyGraph /\ DOMAIN host = {} /\ schedule = [graph |-> EmptyGraph, layout |-> <<>>]
      /\ stage = "rest" /\ engine = "running" /\ recompile = FALSE /\ missed = FALSE
      /\ nextEdge = 0 /\ attempts = 0
      /\ removed = {} /\ asked = {} /\ lost = {} /\ unsynced = {} /\ torn = {} /\ failed = {}
      /\ partial = {} /\ twice = {}
  BY DEF Init
<1>3. RecordInv
  <2>1. {MaxEdges, MaxActivations} \subseteq Nat
    BY GraphAssumption
  <2>2. "rest" \in DOMAIN Order
    BY DEF Order
  <2>3. nextEdge \in 0..MaxEdges /\ attempts \in 0..MaxActivations
    BY <1>2, <2>1
  <2> QED BY <1>2, <2>2, <2>3 DEF RecordInv
<1>4. HostsInv /\ StopsAreExplained /\ ScheduleInv
  BY <1>2 DEF HostsInv, StopsAreExplained, ScheduleInv
<1>5. PluginNodes = {}
  BY <1>2 DEF PluginNodes, Nodes, EmptyGraph
<1>6. LayoutInv
  BY <1>5 DEF LayoutInv
<1> QED BY <1>1, <1>3, <1>4, <1>6 DEF IInv, AllInv

(* Each step, and a stutter, keeps it.                                     *)
LEMMA IInvStep == IInv /\ [Next]_vars => IInv'
<1> SUFFICES ASSUME IInv, [Next]_vars PROVE IInv'
  OBVIOUS
<1>1. CASE Next
  <2>1. EdgeInv'
    BY EdgeInvStep DEF IInv, AllInv
  <2>2. PortInv' /\ ScheduleInv' /\ StopsAreExplained'
    BY <1>1, PortInvStep, ScheduleInvStep, StopsStep DEF IInv, AllInv
  <2>3. RecordInv' /\ HostsInv' /\ LayoutInv'
    BY <1>1, RecordInvStep, HostsInvStep, LayoutInvStep DEF IInv
  <2> QED BY <2>1, <2>2, <2>3 DEF IInv, AllInv
<1>2. CASE UNCHANGED vars
  <2> USE <1>2 DEF vars
  <2>1. EdgeInv'
    BY EdgeInvStep DEF IInv, AllInv
  <2>2. PortInv' /\ ScheduleInv'
    BY DEF IInv, AllInv, PortInv, ScheduleInv
  <2>3. StopsAreExplained' /\ RecordInv'
    BY DEF IInv, AllInv, StopsAreExplained, RecordInv, PluginNodes, Nodes
  <2>4. HostsInv'
    BY DEF IInv, AllInv, HostsInv
  <2>5. LayoutInv'
    BY DEF IInv, LayoutInv, SameChannels, PluginNodes, Nodes
  <2> QED BY <2>1, <2>2, <2>3, <2>4, <2>5 DEF IInv, AllInv
<1> QED BY <1>1, <1>2

(* What is invariant of the edges, of the nodes and hosts, of the history, *)
(* of the ports, and of the graph that was compiled.                       *)
THEOREM Invariance == Spec => []IInv
BY IInvInit, IInvStep, PTL DEF Spec

(* Every plugin host in the pool has been made, and its fields have their  *)
(* types.                                                                  *)
THEOREM TypeCorrect == Spec => []TypeOK
<1>1. IInv => TypeOK
  <2> SUFFICES ASSUME IInv PROVE TypeOK
    OBVIOUS
  <2>1. EdgeInv /\ PortInv /\ RecordInv /\ HostsInv
    BY DEF IInv, AllInv
  <2>2. ASSUME NEW p \in DOMAIN host
        PROVE  /\ DOMAIN host[p].portOf \subseteq Channels
               /\ Ports(host[p]) \subseteq 0..host[p].next - 1
               /\ ToSet(host[p].free) \subseteq 0..host[p].next - 1
               /\ host[p].state \in {"Inactive", "Active", "WaitingToDrop", "Dropped", Dead}
    <3> DEFINE h == host[p]
    <3>1. Numbered(h.portOf, h.free, h.next) /\ h.state \in States
      BY <2>1, <2>2 DEF HostsInv, HostInv, Describes
    <3> HIDE DEF h
    <3>2. Ports(h) \subseteq 0..h.next - 1
      BY <3>1 DEF Numbered, Ports
    <3>3. ToSet(h.free) \subseteq 0..h.next - 1
      BY <3>1 DEF Numbered, ToSet
    <3> QED BY <3>1, <3>2, <3>3 DEF Numbered, States, h
  <2>3. DOMAIN host \subseteq made /\ made \subseteq Plugins /\ PluginNodes \subseteq made
    BY <2>1 DEF PortInv, PoolInv, PluginNodes, Nodes
  <2>4. dsEdges \cup told \cup asked \cup lost \subseteq 0..nextEdge - 1
    BY <2>1 DEF EdgeInv, RecordInv
  <2>5. todo \cup leaving \cup removed \subseteq DOMAIN host
    BY <2>1 DEF PortInv, RecordInv
  <2> QED BY <2>1, <2>2, <2>3, <2>4, <2>5 DEF RecordInv, TypeOK
<1> QED BY <1>1, Invariance, PTL

(* The port map of a host, the graph, the table of edges and the main      *)
(* ports a user may name agree.                                            *)
THEOREM TablesAgree == Spec => []PortsAgree
<1>1. IInv => PortsAgree
  <2> SUFFICES ASSUME IInv PROVE PortsAgree
    OBVIOUS
  <2>1. EdgeInv /\ PortInv /\ HostsInv
    BY DEF IInv, AllInv
  <2>2. EdgesJoinPorts
    BY <2>1 DEF EdgeInv, PortInv, GraphInv, Joins, Nodes, EdgesJoinPorts
  <2>3. ChannelsHavePorts
    <3> SUFFICES ASSUME NEW p \in PluginNodes
                 PROVE  LET h == host[p]
                        IN /\ \A c, d \in DOMAIN h.portOf : h.portOf[c] = h.portOf[d] => c = d
                           /\ DOMAIN graph.ports[p] = Ports(h)
                           /\ \A c \in DOMAIN h.portOf :
                                graph.ports[p][h.portOf[c]] = [type |-> c.type, input |-> c.input]
                           /\ ToSet(h.free) \cap Ports(h) = {}
                           /\ IsInjective(h.free)
      BY DEF ChannelsHavePorts
    <3> DEFINE h == host[p]
    <3>1. p \in DOMAIN graph.ports /\ p \in DOMAIN host /\ DOMAIN graph.ports[p] = Ports(h)
      BY <2>1 DEF PortInv, PoolInv, Fits, PluginNodes, Nodes
    <3>2. Mirrors(graph, p, h) /\ Numbered(h.portOf, h.free, h.next)
      BY <2>1, <3>1 DEF HostsInv, HostInv, Describes
    <3> HIDE DEF h
    <3>3. \A c \in DOMAIN h.portOf :
            graph.ports[p][h.portOf[c]] = [type |-> c.type, input |-> c.input]
      BY <3>1, <3>2 DEF Mirrors
    <3>4. DOMAIN h.free = 1..Len(h.free)
      BY <3>2 DEF Numbered
    <3>5. ToSet(h.free) \cap Ports(h) = {} /\ IsInjective(h.free)
      BY <3>2, <3>4 DEF Numbered, ToSet, Ports, IsInjective
    <3>6. \A c, d \in DOMAIN h.portOf : h.portOf[c] = h.portOf[d] => c = d
      BY <3>2 DEF Numbered
    <3> QED BY <3>1, <3>3, <3>5, <3>6 DEF h
  <2>4. MainPortsAreFirst
    <3> SUFFICES ASSUME NEW p \in DOMAIN host \ (unsynced \cup torn)
                 PROVE  AudioFirst(host[p], host[p].audio)
                        /\ (p \in partial \/ NotesFirst(host[p], host[p].note))
      BY DEF MainPortsAreFirst, AudioFirst, NotesFirst, Are, IsFirst, MainChannels, WithMainOut
    <3> QED BY <2>1 DEF HostsInv, HostInv, Describes, Announces
  <2> QED BY <2>2, <2>3, <2>4 DEF PortsAgree
<1> QED BY <1>1, Invariance, PTL

(* A plugin that never failed has a buffer for each channel it announced,  *)
(* and no other.                                                           *)
THEOREM LayoutsAreCompiled == Spec => []ScheduleIsCurrent
<1>1. IInv => ScheduleIsCurrent
  <2> SUFFICES ASSUME IInv PROVE ScheduleIsCurrent
    OBVIOUS
  <2>1. GraphIsScheduled
    BY DEF IInv, ScheduleInv, GraphIsScheduled
  <2>2. ASSUME engine = "running", stage = "rest", NEW p \in PluginNodes \ failed
        PROVE  ChannelsOf(schedule.layout[p]) = ChannelsOf(Snapshot.layout[p])
    <3>1. recompile = FALSE
      BY <2>2 DEF IInv, ScheduleInv
    <3>2. SameChannels(p)
      BY <2>2, <3>1 DEF IInv, LayoutInv
    <3>3. Snapshot.layout[p] = <<host[p].audio, host[p].note>>
      BY DEF Snapshot
    <3> QED BY <3>2, <3>3 DEF SameChannels
  <2> QED BY <2>1, <2>2 DEF ScheduleIsCurrent
<1> QED BY <1>1, Invariance, PTL

(* The graph fails to compile, and the main thread panics, only of the     *)
(* known causes.                                                           *)
THEOREM StopsHaveCauses == Spec => []StopsAreExplained
<1>1. IInv => StopsAreExplained
  BY DEF IInv
<1> QED BY <1>1, Invariance, PTL

(* A channel that a restarted plugin still announces keeps its edges.      *)
THEOREM EdgesOutliveRestarts == Spec => RestartKeepsEdges
<1>1. IInv /\ [Next]_vars =>
        [stage = "idle" => \A e \in graph.edges \ graph'.edges :
           ~Offers(e.src, e.srcPort) \/ ~Offers(e.dst, e.dstPort)]_vars
  BY RestartStep DEF IInv
<1> QED BY <1>1, Invariance, PTL DEF Spec, RestartKeepsEdges
=============================================================================
