--------------------------- MODULE GraphPortsMC ---------------------------
(* Small lists of ports for the model checker: an instrument with an input *)
(* and two outputs, the same without the input and with its outputs turned *)
(* round, and a list that repeats an id.                                   *)
EXTENDS GraphPorts

Port(id, n) == [id |-> id, channels |-> n]
Audio(inputs, outputs, layout) ==
  [inputs |-> inputs, outputs |-> outputs, layout |-> layout]
Notes(inputs, outputs) == [inputs |-> inputs, outputs |-> outputs]

Effect == Audio(<<Port(1, 1)>>, <<Port(1, 1)>>, "InOut")
Synth  == Audio(<<Port(1, 1)>>, <<Port(1, 1), Port(2, 1)>>, "InOut")
Turned == Audio(<<>>, <<Port(2, 1), Port(1, 1)>>, "OutOnly")
\* with this one among the answers of "p1", BuffersAreInOrder is violated
Swapped == Audio(Synth.inputs, Turned.outputs, "InOut")
Twice  == Audio(<<>>, <<Port(1, 1), Port(1, 1)>>, "OutOnly")
Silent == Notes(<<>>, <<>>)
Arp    == Notes(<<1>>, <<1>>)

(* New, loaded deactivated from a project, or missing when it is loaded. *)
New(saved, loaded, autoOut, active) ==
  [saved |-> saved, loaded |-> loaded, autoOut |-> autoOut, active |-> active]
Project == [audio |-> Effect, note |-> Arp]

(* The first plugin is arbitrary, the second behaves. *)
MCMayBe == "p1" :> {New(None, TRUE, TRUE, TRUE), New(Project, TRUE, FALSE, FALSE),
                    New(Project, FALSE, FALSE, TRUE)}
        @@ "p2" :> {New(None, TRUE, FALSE, TRUE)}

MCMayDo ==
  "p1" :> [audio |-> {Synth, Turned, Twice, Failed}, note |-> {Silent, Arp, Failed},
           latency |-> {1}, accepts |-> BOOLEAN,
           requests |-> {{}, {"RESCAN_AUDIO_PORTS"}, {"RESCAN_NOTE_PORTS"},
             {"RESTART"}, {"PROCESS"}}]
  @@ "p2" :> [audio |-> {Effect}, note |-> {Arp}, latency |-> {0},
              accepts |-> {TRUE}, requests |-> {{}}]

End(id) == [id |-> id, channel |-> 0]
Req(type, src, dst) == [type |-> type, src |-> End(src), dst |-> End(dst)]

MCEdgeReqs == {Req("Audio", Main, Main), Req("Note", 1, Main)}

=============================================================================
