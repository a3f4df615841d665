----------------------------- MODULE Transport -----------------------------
(***************************************************************************)
(* The transport: where the song is played, and the fades that hide its    *)
(* jumps.                                                                  *)
(*                                                                         *)
(* The application seeks, starts and stops, and loops through a            *)
(* TransportHandle, and gives the engine a new tempo map.  Each is put in  *)
(* a shared cell with a version, and the process thread looks at the two   *)
(* cells, one after the other, at the start of each block it processes.    *)
(*                                                                         *)
(* A musical time is a number, and a tempo the frames it lasts for.  The   *)
(* samples of a fade are counted in declick_inc: a gain of DeclickFrames   *)
(* is 1.0.  Of the two buffers of a jump the model keeps where they are    *)
(* read, not their gains.  The transport event of CLAP and the position    *)
(* the application shows are left out.                                     *)
(***************************************************************************)
EXTENDS Integers, FiniteSets

CONSTANTS
  MaxFrames,     \* the longest block
  DeclickFrames, \* declick_frames
  Times,         \* musical times a user may seek to
  Loops,         \* loops a user may set, as [start, end] in musical time
  Tempos,        \* tempo maps: frames per unit of musical time
  FirstTempo,
  MaxRequests,   \* bound: requests of the application
  MaxPlayhead,   \* bound: the playhead in frames
  None

ASSUME TransportAssumption ==
  /\ {MaxFrames, DeclickFrames} \subseteq Nat \ {0}
  /\ Times \subseteq Nat
  /\ Tempos \subseteq Nat \ {0} /\ FirstTempo \in Tempos
  /\ Loops \subseteq [start : Nat, end : Nat]
  /\ None \notin [start : Nat, end : Nat]
  /\ {MaxRequests, MaxPlayhead} \subseteq Nat

VARIABLES
  parameters,  \* the shared Parameters
  tempoMap,    \* tempo_map_shared, with its version
  requests,    \* requests of the application so far
  got,         \* the Parameters process() has read, if it has not read the map
  playhead,    \* playhead_frame: where the last block started
  next,        \* next_playhead_frame
  frames,      \* length of the last block
  playing,     \* is_playing
  loop,        \* loop_state, in frames
  seen,        \* seek_to_version, loop_state_version, tempo_map_version
  tempo,       \* tempo_map
  range,       \* range_checker
  ramp,        \* start_stop_buf_state; left = 0 if there is none
  jump,        \* jump_state and jump_in_playhead_next
  gain,        \* history: start/stop gain around the start of the last block
  disturbed    \* history: the playhead left the fade since the last jump

appVars == <<parameters, tempoMap, requests>>
taskVars == <<playhead, next, frames, playing, loop, seen, tempo, range>>
declickVars == <<ramp, jump, gain, disturbed>>
vars == <<appVars, got, taskVars, declickVars>>

(* musical_to_nearest_frame_round and frame_to_musical *)
ToFrame(bpm, time) == time * bpm
ToMusical(bpm, frame) == (2 * frame + bpm) \div (2 * bpm)

InFrames(bpm, l) ==
  IF l = None THEN None
  ELSE [start |-> ToFrame(bpm, l.start), end |-> ToFrame(bpm, l.end)]

NoRange == [end1 |-> 0, start2 |-> 0, end2 |-> 0]
NoRamp == [val |-> 0, left |-> 0]
NoJump == [kind |-> "none", skip |-> 0, left |-> 0, inNext |-> 0]

-----------------------------------------------------------------------------
(* The application *)

Request(change) ==
  /\ requests < MaxRequests
  /\ requests' = requests + 1
  /\ change
  /\ UNCHANGED <<got, taskVars, declickVars>>

SeekTo ==
  Request(/\ \E time \in Times :
               parameters' = [parameters EXCEPT !.seek = time, !.seekVersion = @ + 1]
          /\ UNCHANGED tempoMap)

SetPlaying ==
  Request(/\ \E b \in BOOLEAN : parameters' = [parameters EXCEPT !.playing = b]
          /\ UNCHANGED tempoMap)

SetLoopState ==
  Request(/\ \E l \in Loops \cup {None} :
               parameters' = [parameters EXCEPT !.loop = l, !.loopVersion = @ + 1]
          /\ UNCHANGED tempoMap)

UpdateTempoMap ==
  Request(/\ \E m \in Tempos :
               tempoMap' = [tempo |-> m, version |-> tempoMap.version + 1]
          /\ UNCHANGED parameters)

-----------------------------------------------------------------------------
(* TransportTask::process *)

GetParameters ==
  /\ got = None
  /\ next <= MaxPlayhead
  /\ got' = parameters
  /\ UNCHANGED <<appVars, taskVars, declickVars>>

MapChanged == seen.map # tempoMap.version
LoopChanged(p) == seen.loop # p.loopVersion \/ MapChanged
Seeked(p) == seen.seek # p.seekVersion

(* Where the block starts: the playhead keeps its musical time when the    *)
(* tempo changes, and a seek is after that.                                *)
Start(p) ==
  IF Seeked(p) THEN ToFrame(tempoMap.tempo, p.seek)
  ELSE IF MapChanged THEN ToFrame(tempoMap.tempo, ToMusical(tempo, next))
  ELSE next

LoopOf(p) == IF LoopChanged(p) THEN InFrames(tempoMap.tempo, p.loop) ELSE loop

(* The transport loops back in a block of n frames that starts at at. *)
LoopsBack_Fault(l, at, n) == l # None /\ at < l.end /\ at + n > l.end

LoopsBack(l, at, n) == l # None /\ at < l.end /\ at + n >= l.end

(* Where the block ends; a loop that is shorter is gone round only once. *)
Advanced(l, at, n) ==
  IF LoopsBack(l, at, n) THEN l.start + (n - (l.end - at)) ELSE at + n

RangeOf_Fault(l, at, n) ==
  IF LoopsBack(l, at, n)
  THEN [end1 |-> l.end, start2 |-> l.start, end2 |-> l.start + n]
  ELSE [end1 |-> at + n, start2 |-> 0, end2 |-> 0]

RangeOf(l, at, n) ==
  IF LoopsBack(l, at, n)
  THEN [end1 |-> l.end, start2 |-> l.start, end2 |-> Advanced(l, at, n)]
  ELSE [end1 |-> at + n, start2 |-> 0, end2 |-> 0]

(* RangeChecker::is_frame_active, for the last block *)
FrameActive(f) ==
  /\ playing
  /\ \/ playhead <= f /\ f < range.end1
     \/ range.start2 <= f /\ f < range.end2

-----------------------------------------------------------------------------
(* TransportDeclick::process *)

(* The transport starts or stops: a fade, or the way back from the one     *)
(* that is on its way.                                                     *)
Turned_Fault(r, on) ==
  IF r.left = 0 THEN [val |-> IF on THEN 0 ELSE DeclickFrames, left |-> DeclickFrames]
  ELSE [val |-> r.val, left |-> r.left]

Turned(r, on) ==
  IF r.left = 0 THEN [val |-> IF on THEN 0 ELSE DeclickFrames, left |-> DeclickFrames]
  ELSE IF r.left < DeclickFrames THEN [val |-> r.val, left |-> DeclickFrames - r.left]
  ELSE NoRamp

(* The start/stop gain in frame i of the block, from 0. *)
GainAt(r, on, i) ==
  IF i < r.left THEN IF on THEN r.val + i ELSE r.val - i
  ELSE IF on THEN DeclickFrames ELSE 0

AfterRamp(r, on, n) ==
  IF r.left > n THEN [val |-> IF on THEN r.val + n ELSE r.val - n, left |-> r.left - n]
  ELSE NoRamp

(* A loop back starts a fade at the loop's end.  A seek starts one only    *)
(* while a start/stop fade is on its way.                                  *)
Jumped_Fault(l, at, loops, seeks, r) ==
  IF loops
  THEN [kind |-> "loop", skip |-> l.end - at, left |-> DeclickFrames, inNext |-> l.start]
  ELSE IF seeks /\ r.left > 0
  THEN [kind |-> "seek", skip |-> 0, left |-> DeclickFrames, inNext |-> at]
  ELSE jump

Jumped(l, at, loops, seeks, r) ==
  IF loops
  THEN [kind |-> "loop", skip |-> l.end - at, left |-> DeclickFrames,
        inNext |-> l.start - (l.end - at)]
  ELSE IF seeks /\ r.left > 0
  THEN [kind |-> "seek", skip |-> 0, left |-> DeclickFrames, inNext |-> at]
  ELSE jump

(* What is left of the fade after a block of n frames. *)
AfterJump(j, n) ==
  IF j.kind = "none" THEN NoJump
  ELSE IF j.skip >= n
  THEN [j EXCEPT !.skip = j.skip - n, !.inNext = j.inNext + n]
  ELSE IF j.left > n - j.skip
  THEN [j EXCEPT !.skip = 0, !.left = j.left - (n - j.skip), !.inNext = j.inNext + n]
  ELSE NoJump

-----------------------------------------------------------------------------
Process(n) ==
  LET p     == got
      l     == LoopOf(p)
      at    == Start(p)
      loops == p.playing /\ LoopsBack(l, at, n)
      r     == IF p.playing # playing THEN Turned(ramp, p.playing) ELSE ramp
      j     == Jumped(l, at, loops, Seeked(p), r)
  IN /\ got # None
     /\ got' = None
     /\ playhead' = at
     /\ next' = IF p.playing THEN Advanced(l, at, n) ELSE at
     /\ frames' = n
     /\ playing' = p.playing
     /\ loop' = l
     /\ seen' = [seek |-> p.seekVersion, loop |-> p.loopVersion, map |-> tempoMap.version]
     /\ tempo' = tempoMap.tempo
     /\ range' = IF p.playing THEN RangeOf(l, at, n) ELSE NoRange
     /\ ramp' = AfterRamp(r, p.playing, n)
     /\ jump' = AfterJump(j, n)
     /\ gain' = [before |-> gain.last, first |-> GainAt(r, p.playing, 0),
                 last |-> GainAt(r, p.playing, n - 1)]
     /\ disturbed' = \/ ~p.playing
                     \/ disturbed /\ ~loops /\ ~(Seeked(p) /\ r.left > 0)
                     \/ ~loops /\ r.left = 0 /\ Seeked(p)
                     \/ ~loops /\ ~Seeked(p) /\ MapChanged
     /\ UNCHANGED appVars

Init ==
  /\ parameters = [seek |-> 0, seekVersion |-> 0, playing |-> FALSE, loop |-> None,
                   loopVersion |-> 0]
  /\ tempoMap = [tempo |-> FirstTempo, version |-> 0]
  /\ requests = 0
  /\ got = None
  /\ playhead = 0 /\ next = 0 /\ frames = 0
  /\ playing = FALSE /\ loop = None
  /\ seen = [seek |-> 0, loop |-> 0, map |-> 0]
  /\ tempo = FirstTempo
  /\ range = NoRange
  /\ ramp = NoRamp /\ jump = NoJump
  /\ gain = [before |-> 0, first |-> 0, last |-> 0]
  /\ disturbed = FALSE

Next ==
  \/ SeekTo \/ SetPlaying \/ SetLoopState \/ UpdateTempoMap
  \/ GetParameters
  \/ \E n \in 1..MaxFrames : Process(n)

Spec == Init /\ [][Next]_vars

-----------------------------------------------------------------------------
ParametersType ==
  [seek : Nat, seekVersion : Nat, playing : BOOLEAN,
   loop : [start : Nat, end : Nat] \cup {None}, loopVersion : Nat]

(* What the process thread keeps is in the range of its types: the gains   *)
(* and what is left of a fade lie within it, and no frame is before zero.  *)
TypeOK ==
  /\ parameters \in ParametersType
  /\ got \in ParametersType \cup {None}
  /\ tempoMap \in [tempo : Nat \ {0}, version : Nat]
  /\ requests \in Nat
  /\ {playhead, next, frames} \subseteq Nat
  /\ playing \in BOOLEAN /\ disturbed \in BOOLEAN
  /\ loop \in [start : Nat, end : Nat] \cup {None}
  /\ seen \in [seek : Nat, loop : Nat, map : Nat]
  /\ tempo \in Nat \ {0}
  /\ range \in [end1 : Nat, start2 : Nat, end2 : Nat]
  /\ ramp \in [val : 0..DeclickFrames, left : 0..DeclickFrames]
  /\ jump \in [kind : {"none", "seek", "loop"}, skip : Nat, left : 0..DeclickFrames,
               inNext : Int]
  /\ gain \in [before : Int, first : Int, last : Int]

(* A loop no shorter than a block. *)
Lasts(l) == l # None /\ l.end - l.start >= MaxFrames

InLoop == Lasts(loop) /\ loop.start <= next /\ next < loop.end

(* Once the playhead is in the loop it stays there, until there is a seek, *)
(* another loop or another tempo map, however the blocks fall on the end   *)
(* of the loop (transport_task.rs:301).                                    *)
LoopIsKept ==
  [][InLoop /\ seen' = seen => InLoop']_vars

(* A block plays as many frames of the song as it is long, none of them    *)
(* twice, and none when the transport is stopped: what a plugin that asks  *)
(* is_frame_active sees (transport/mod.rs:179).  A loop that is shorter    *)
(* than a block is excepted.                                               *)
BlockPlaysItsFrames ==
  LET played == {f \in 0..playhead + frames + range.end2 : FrameActive(f)}
  IN loop = None \/ Lasts(loop) =>
       Cardinality(played) = IF playing THEN frames ELSE 0

(* The gain of starting and stopping never changes by more than            *)
(* declick_inc from one frame to the next, however short the time between  *)
(* a start and a stop (declick.rs:115).                                    *)
GainIsContinuous == gain.first - gain.before \in -1..1

(* The fade-in of a jump is read where the playhead is, as long as the     *)
(* transport plays on from the jump: the end of the fade is not heard      *)
(* (declick.rs:157).                                                       *)
FadeInMeetsPlayhead == jump.kind # "none" /\ ~disturbed => jump.inNext = next

=============================================================================
