------------------------------ MODULE PortSync ------------------------------
(***************************************************************************)
(* How the host turns the port lists of a plugin into ports of the         *)
(* abstract graph (sync_ports_in_graph).                                   *)
(*                                                                         *)
(* A channel is what the source calls a PortChannelID.  A port is a number *)
(* the abstract graph knows; each plugin numbers its own, and gives the    *)
(* numbers of removed ports to later ones.                                 *)
(*                                                                         *)
(* An audio list is a record of inputs, outputs and layout; a note list    *)
(* has the ids of inputs and outputs.                                      *)
(***************************************************************************)
EXTENDS Integers, FiniteSets, SequencesExt

CONSTANT None   \* no list, no port

Channels ==
  [type : {"Audio", "Note", "Automation"}, input : BOOLEAN, id : Nat, channel : Nat]

AudioPorts == [id : Nat, channels : Nat]

(* The lists a CLAP plugin may announce: the layout is InOut when a port   *)
(* of each list is a main one, so there is one in each.                    *)
AudioLists ==
  {list \in [inputs : Seq(AudioPorts), outputs : Seq(AudioPorts),
             layout : {"InOut", "InOnly", "OutOnly", "NoMainPorts"}] :
     list.layout = "InOut" => <<>> \notin {list.inputs, list.outputs}}

NoteLists == [inputs : Seq(Nat), outputs : Seq(Nat)]

Channel(type, input, id, c) ==
  [type |-> type, input |-> input, id |-> id, channel |-> c]

AutoIn  == Channel("Automation", TRUE, 0, 0)
AutoOut == Channel("Automation", FALSE, 0, 0)

Empty == [audio |-> [inputs |-> <<>>, outputs |-> <<>>, layout |-> "NoMainPorts"],
          note |-> [inputs |-> <<>>, outputs |-> <<>>]]

AudioChannels(list, input) ==
  FlattenSeq([i \in DOMAIN list |->
    [c \in 1..list[i].channels |-> Channel("Audio", input, list[i].id, c - 1)]])

NoteChannels(list, input) ==
  [i \in DOMAIN list |-> Channel("Note", input, list[i], 0)]

(* Every channel of the two lists, in the order the ports are added.  A    *)
(* list that was not fetched again is None.                                *)
AudioList(audio) ==
  IF audio = None THEN <<>>
  ELSE AudioChannels(audio.inputs, TRUE) \o AudioChannels(audio.outputs, FALSE)

NoteList(note) ==
  IF note = None THEN <<>>
  ELSE NoteChannels(note.inputs, TRUE) \o NoteChannels(note.outputs, FALSE)

Listed(audio, note, hasAutoOut) ==
  AudioList(audio) \o (IF hasAutoOut THEN <<AutoIn, AutoOut>> ELSE <<AutoIn>>)
    \o NoteList(note)

(* Two inputs, or two outputs, with one stable id. *)
HasDuplicates(audio, note) ==
  \/ audio # None /\ \E ports \in {audio.inputs, audio.outputs} :
       \E i, j \in DOMAIN ports : i # j /\ ports[i].id = ports[j].id
  \/ note # None /\ \E ids \in {note.inputs, note.outputs} : ~IsInjective(ids)

-----------------------------------------------------------------------------
(* The next n numbers: first those of removed ports, the latest first. *)
TakePorts_Fault(free, next, n) ==
  [i \in 1..n |-> IF i <= Len(free) THEN free[i] ELSE next + i - Len(free) - 1]

TakePorts(free, next, n) ==
  [i \in 1..n |-> IF i <= Len(free) THEN free[Len(free) + 1 - i]
                  ELSE next + i - Len(free) - 1]

Taken_Fault(free, n) == n

Taken(free, n) == IF n <= Len(free) THEN n ELSE Len(free)

(* The channels of a list that was not fetched again keep their ports. *)
Kept_Fault(prev, audio, note) ==
  {c \in DOMAIN prev : c.type = "Audio" /\ audio = None}

Kept(prev, audio, note) ==
  {c \in DOMAIN prev : \/ c.type = "Audio" /\ audio = None
                       \/ c.type = "Note" /\ note = None}

(* The places in a sequence of channels where one without a port comes.    *)
NewChannels(prev, listed) == {i \in DOMAIN listed : listed[i] \notin DOMAIN prev}

PortOf(prev, free, next, audio, note, hasAutoOut) ==
  LET listed == Listed(audio, note, hasAutoOut)
      new    == NewChannels(prev, listed)
      ids    == TakePorts(free, next, Cardinality(new))
      \* the n-th new channel gets the n-th port
      nth(c) == LET at == CHOOSE i \in new : listed[i] = c
                IN Cardinality({i \in new : i <= at})
  IN [c \in Kept(prev, audio, note) \cup ToSet(listed) |->
        IF c \in DOMAIN prev THEN prev[c] ELSE ids[nth(c)]]

(* The ports of the first port of a list of mono or larger audio ports. *)
MainAudio(list, input, portOf) ==
  IF list = <<>> THEN <<>>
  ELSE LET main == AudioChannels(<<list[1]>>, input)
       IN [i \in DOMAIN main |-> portOf[main[i]]]

MainNote(list, input, portOf) ==
  IF list = <<>> THEN None ELSE portOf[Channel("Note", input, list[1], 0)]

(* The layouts with a main audio output. *)
WithMainOut == {"InOut", "OutOnly"}

(* The main ports of a host with its new port map.  Fetching an audio list *)
(* forgets the main note ports.                                            *)
WithMainAudio(h, audio) ==
  LET main(layouts, list, input) ==
        IF audio.layout \in layouts THEN MainAudio(list, input, h.portOf) ELSE <<>>
  IN IF audio = None THEN h
     ELSE [h EXCEPT !.mainIn = main({"InOut", "InOnly"}, audio.inputs, TRUE),
                    !.mainOut = main(WithMainOut, audio.outputs, FALSE),
                    !.mainNoteIn = None, !.mainNoteOut = None]

WithMainNotes(h, note) ==
  LET \* a list without ports leaves the main port as it is
      main(list, input, old) ==
        IF list = <<>> THEN old ELSE MainNote(list, input, h.portOf)
  IN IF note = None THEN h
     ELSE [h EXCEPT !.mainNoteIn = main(note.inputs, TRUE, @),
                    !.mainNoteOut = main(note.outputs, FALSE, @)]

(* What sync_ports_in_graph makes of the port fields of a host: one result *)
(* for each order in which the removed ports may be drained.               *)
Synced(h, audio, note) ==
  LET new    == Cardinality(NewChannels(h.portOf, Listed(audio, note, h.hasAutoOut)))
      portOf == PortOf(h.portOf, h.free, h.next, audio, note, h.hasAutoOut)
      gone   == {h.portOf[c] : c \in DOMAIN h.portOf \ DOMAIN portOf}
      taken  == Taken(h.free, new)
      left   == SubSeq(h.free, 1, Len(h.free) - taken)
      withPorts == [h EXCEPT !.portOf = portOf, !.next = @ + new - taken]
  IN {[WithMainNotes(WithMainAudio(withPorts, audio), note) EXCEPT !.free = left \o order] :
        order \in SetToSeqs(gone)}

=============================================================================
