-------------------------- MODULE Transport_proofs --------------------------
(* Proofs about Transport, for blocks, fades, loops and tempos of any size *)
(* and any number of requests.                                             *)
EXTENDS Transport, FiniteSetTheorems, TLAPS

USE DEF ParametersType

(* musical_to_nearest_frame_round and frame_to_musical do not go below zero. *)
LEMMA FrameType == \A bpm, time \in Nat : ToFrame(bpm, time) \in Nat
<1>1. \A a, b \in Nat : a * b \in Nat
  BY SMT
<1> QED
  BY <1>1 DEF ToFrame

(* The same for the musical time of a frame. *)
LEMMA MusicalType == \A bpm \in Nat \ {0}, f \in Nat : ToMusical(bpm, f) \in Nat
<1>1. \A a \in Nat, b \in Nat \ {0} : a \div b \in Nat
  BY SMT
<1>2. \A bpm \in Nat \ {0}, f \in Nat : 2 * f + bpm \in Nat /\ 2 * bpm \in Nat \ {0}
  BY SMT
<1> QED
  BY <1>1, <1>2 DEF ToMusical

LoopType == [start : Nat, end : Nat]

(* A loop counted in frames has the type of one.                           *)
LEMMA InFramesType ==
  ASSUME NEW bpm \in Nat, NEW l \in LoopType \cup {None}
  PROVE  InFrames(bpm, l) \in LoopType \cup {None}
<1>1. CASE l = None
  BY <1>1 DEF InFrames
<1>2. CASE l # None
  <2>1. l.start \in Nat /\ l.end \in Nat
    BY <1>2 DEF LoopType
  <2>2. ToFrame(bpm, l.start) \in Nat /\ ToFrame(bpm, l.end) \in Nat
    BY <2>1, FrameType
  <2> QED
    BY <1>2, <2>2 DEF InFrames, LoopType
<1> QED
  BY <1>1, <1>2

(* A block that loops back ends in or after the start of the loop.         *)
LEMMA AdvancedType ==
  ASSUME NEW l \in LoopType \cup {None}, NEW at \in Nat, NEW n \in Nat
  PROVE  Advanced(l, at, n) \in Nat
<1>1. CASE LoopsBack(l, at, n)
  <2>1. l.start \in Nat /\ l.end \in Nat
    BY <1>1 DEF LoopsBack, LoopType
  <2> QED
    BY <1>1, <2>1 DEF LoopsBack, Advanced
<1>2. CASE ~LoopsBack(l, at, n)
  BY <1>2 DEF Advanced
<1> QED
  BY <1>1, <1>2


(* The fade of a jump is of its type when it begins ...                    *)
LEMMA JumpedType ==
  ASSUME NEW l \in LoopType \cup {None}, NEW at \in Nat, NEW n \in Nat,
         NEW seeks \in BOOLEAN, NEW r, NEW loops \in BOOLEAN,
         loops => LoopsBack(l, at, n), TypeOK
  PROVE  Jumped(l, at, loops, seeks, r) \in
           [kind : {"none", "seek", "loop"}, skip : Nat, left : 0..DeclickFrames, inNext : Int]
<1> USE TransportAssumption
<1>1. CASE loops
  <2>1. l.start \in Nat /\ l.end \in Nat /\ at < l.end
    BY <1>1 DEF LoopsBack, LoopType
  <2> QED
    BY <1>1, <2>1 DEF Jumped
<1>2. CASE ~loops /\ seeks /\ r.left > 0
  BY <1>2 DEF Jumped
<1>3. CASE ~loops /\ ~(seeks /\ r.left > 0)
  BY <1>3 DEF Jumped, TypeOK
<1> QED
  BY <1>1, <1>2, <1>3

(* ... and after a block of it.                                            *)
LEMMA AfterJumpType ==
  ASSUME NEW n \in Nat,
         NEW j \in [kind : {"none", "seek", "loop"}, skip : Nat,
                   left : 0..DeclickFrames, inNext : Int]
  PROVE  AfterJump(j, n) \in
           [kind : {"none", "seek", "loop"}, skip : Nat, left : 0..DeclickFrames, inNext : Int]
<1> USE TransportAssumption
<1>0. j.kind \in {"none", "seek", "loop"} /\ j.skip \in Nat /\ j.left \in 0..DeclickFrames
      /\ j.inNext \in Int /\ DeclickFrames \in Nat
  OBVIOUS
<1>1. CASE j.kind = "none"
  BY <1>1 DEF AfterJump, NoJump
<1>2. CASE j.kind # "none" /\ j.skip >= n
  <2>1. AfterJump(j, n) = [j EXCEPT !.skip = j.skip - n, !.inNext = j.inNext + n]
    BY <1>2 DEF AfterJump
  <2>2. j.skip - n \in Nat /\ j.inNext + n \in Int
    BY <1>0, <1>2
  <2> QED
    BY <2>1, <2>2
<1>3. CASE j.kind # "none" /\ ~(j.skip >= n) /\ j.left > n - j.skip
  <2>1. AfterJump(j, n) = [j EXCEPT !.skip = 0, !.left = j.left - (n - j.skip),
                                    !.inNext = j.inNext + n]
    BY <1>3 DEF AfterJump
  <2>2. j.left - (n - j.skip) \in 0..DeclickFrames /\ j.inNext + n \in Int
    BY <1>0, <1>3
  <2>3. AfterJump(j, n) = [kind |-> j.kind, skip |-> 0, left |-> j.left - (n - j.skip),
                           inNext |-> j.inNext + n]
    BY <2>1
  <2> QED
    BY <1>0, <2>2, <2>3
<1>4. CASE j.kind # "none" /\ ~(j.skip >= n) /\ ~(j.left > n - j.skip)
  BY <1>4 DEF AfterJump, NoJump
<1> QED
  BY <1>1, <1>2, <1>3, <1>4

(* A fade that is on its way has left of it what it is away from its end.  *)
RampInv ==
  ramp.left > 0 =>
    /\ ramp.left < DeclickFrames
    /\ ramp.val = IF playing THEN DeclickFrames - ramp.left ELSE ramp.left

(* The last frame was one step before the fade goes on, or within one of   *)
(* the constant gain.                                                      *)
GainInv ==
  IF ramp.left > 0
  THEN gain.last = IF playing THEN ramp.val - 1 ELSE ramp.val + 1
  ELSE gain.last \in IF playing THEN DeclickFrames - 1..DeclickFrames ELSE 0..1

FadeInv == FadeInMeetsPlayhead /\ (jump.kind # "none" /\ ~disturbed => playing)

TransportInv == TypeOK /\ RampInv /\ GainInv /\ GainIsContinuous /\ FadeInv

(* The fade of a block that starts, stops or does neither.                 *)
TurnedRamp(on) == IF on # playing THEN Turned(ramp, on) ELSE ramp

(* A fade that is turned round goes on from the gain it had.               *)
LEMMA TurnedLemma ==
  ASSUME TypeOK, RampInv, NEW on \in BOOLEAN
  PROVE  LET r == TurnedRamp(on)
         IN /\ r \in [val : 0..DeclickFrames, left : 0..DeclickFrames]
            /\ r.left > 0 =>
                 r.val = IF on THEN DeclickFrames - r.left ELSE r.left
            /\ on # playing => r.left > 0
<1> USE TransportAssumption
<1>0. /\ ramp \in [val : 0..DeclickFrames, left : 0..DeclickFrames]
      /\ playing \in BOOLEAN /\ DeclickFrames \in Nat \ {0}
  BY DEF TypeOK
<1>1. CASE on = playing
  BY <1>0, <1>1 DEF TurnedRamp, RampInv
<1>2. CASE on # playing /\ ramp.left = 0
  BY <1>0, <1>2 DEF TurnedRamp, Turned
<1>3. CASE on # playing /\ ramp.left > 0
  <2>1. /\ ramp.left < DeclickFrames
        /\ TurnedRamp(on) = [val |-> ramp.val, left |-> DeclickFrames - ramp.left]
    BY <1>0, <1>3 DEF TurnedRamp, Turned, RampInv
  <2>2. ramp.val = IF playing THEN DeclickFrames - ramp.left ELSE ramp.left
    BY <1>3 DEF RampInv
  <2>3. DeclickFrames - ramp.left \in 1..DeclickFrames /\ ramp.val \in 0..DeclickFrames
    BY <1>0, <1>3, <2>1
  <2> DEFINE r == [val |-> ramp.val, left |-> DeclickFrames - ramp.left]
  <2>4. r.val = IF on THEN DeclickFrames - r.left ELSE r.left
    <3>1. r.val = ramp.val /\ r.left = DeclickFrames - ramp.left
      OBVIOUS
    <3>2. CASE playing
      BY <1>0, <1>3, <2>2, <3>1, <3>2
    <3>3. CASE ~playing
      BY <1>0, <1>3, <2>2, <3>1, <3>3
    <3> QED
      BY <3>2, <3>3
  <2>5. r \in [val : 0..DeclickFrames, left : 0..DeclickFrames] /\ r.left > 0
    BY <1>0, <2>3
  <2> QED
    BY <2>1, <2>4, <2>5
<1> QED
  BY <1>0, <1>1, <1>2, <1>3

(* What the parts of a block are, from the parameters and the last block.  *)
LEMMA BlockTypes ==
  ASSUME TypeOK, got # None
  PROVE  /\ got \in ParametersType
         /\ LoopOf(got) \in LoopType \cup {None}
         /\ Start(got) \in Nat
<1>1. got \in ParametersType
  BY DEF TypeOK
<1>2. /\ got.loop \in LoopType \cup {None} /\ got.seek \in Nat
      /\ loop \in LoopType \cup {None} /\ next \in Nat
      /\ tempoMap.tempo \in Nat \ {0} /\ tempo \in Nat \ {0}
  BY <1>1 DEF TypeOK, LoopType
<1>3. LoopOf(got) \in LoopType \cup {None}
  BY <1>2, InFramesType DEF LoopOf
<1>4. Start(got) \in Nat
  BY <1>2, FrameType, MusicalType DEF Start
<1> QED
  BY <1>1, <1>3, <1>4

RampType == [val : 0..DeclickFrames, left : 0..DeclickFrames]

(* A fade that is as far from its end as its gain says.                    *)
FadeFits(r, on) ==
  r.left > 0 => r.val = IF on THEN DeclickFrames - r.left ELSE r.left

(* A fade a that has begun, and the gain of the frame before it goes on.   *)
FadeGoesOn(a, last, on) ==
  /\ a.left > 0 =>
       /\ a.left < DeclickFrames
       /\ a.val = IF on THEN DeclickFrames - a.left ELSE a.left
       /\ last = IF on THEN a.val - 1 ELSE a.val + 1
  /\ a.left = 0 => last \in IF on THEN DeclickFrames - 1..DeclickFrames ELSE 0..1

(* The fade after a block: what is left, and the last gain.                *)
LEMMA RampLemma ==
  ASSUME NEW r \in RampType, NEW on \in BOOLEAN, NEW n \in Nat \ {0}, FadeFits(r, on),
         NEW a, a = AfterRamp(r, on, n),
         NEW last, last = GainAt(r, on, n - 1)
  PROVE  a \in RampType /\ FadeGoesOn(a, last, on) /\ GainAt(r, on, 0) \in Int /\ last \in Int
<1> USE DEF RampType, FadeFits, FadeGoesOn
<1> USE TransportAssumption
<1>0. r.val \in 0..DeclickFrames /\ r.left \in 0..DeclickFrames /\ DeclickFrames \in Nat \ {0}
  OBVIOUS
<1>1. CASE r.left > n
  <2>1. CASE on
    <3>1. a = [val |-> r.val + n, left |-> r.left - n] /\ last = r.val + (n - 1)
      BY <1>0, <1>1, <2>1 DEF AfterRamp, GainAt
    <3>2. r.val = DeclickFrames - r.left
      BY <1>0, <1>1, <2>1
    <3>3. r.val + n \in 0..DeclickFrames /\ r.left - n \in 1..DeclickFrames - 1
          /\ r.val + n = DeclickFrames - (r.left - n)
      BY <1>0, <1>1, <3>2
    <3>4. a.val = r.val + n /\ a.left = r.left - n
      BY <3>1
    <3>5. a \in [val : 0..DeclickFrames, left : 0..DeclickFrames]
      BY <1>0, <3>1, <3>3
    <3>6. GainAt(r, on, 0) \in Int
      BY <1>0 DEF GainAt
    <3>7. a.left > 0 /\ a.left # 0 /\ a.left < DeclickFrames /\ last \in Int
      BY <1>0, <3>1, <3>3, <3>4
    <3>8. a.val = DeclickFrames - a.left /\ last = a.val - 1
      BY <1>0, <3>1, <3>3, <3>4
    <3> QED
      BY <2>1, <3>5, <3>6, <3>7, <3>8, Zenon
  <2>2. CASE ~on
    <3>1. a = [val |-> r.val - n, left |-> r.left - n] /\ last = r.val - (n - 1)
      BY <1>0, <1>1, <2>2 DEF AfterRamp, GainAt
    <3>2. r.val = r.left
      BY <1>0, <1>1, <2>2
    <3>3. r.val - n \in 0..DeclickFrames /\ r.left - n \in 1..DeclickFrames - 1
      BY <1>0, <1>1, <3>2
    <3>4. a.val = r.val - n /\ a.left = r.left - n
      BY <3>1
    <3>5. a \in [val : 0..DeclickFrames, left : 0..DeclickFrames]
      BY <1>0, <3>1, <3>3
    <3>6. GainAt(r, on, 0) \in Int
      BY <1>0 DEF GainAt
    <3>7. a.left > 0 /\ a.left # 0 /\ a.left < DeclickFrames /\ last \in Int
      BY <1>0, <3>1, <3>3, <3>4
    <3>8. a.val = a.left /\ last = a.val + 1
      BY <1>0, <3>1, <3>2, <3>3, <3>4
    <3> QED
      BY <2>2, <3>5, <3>6, <3>7, <3>8, Zenon
  <2> QED
    BY <2>1, <2>2
<1>2. CASE ~(r.left > n)
  <2>1. a = NoRamp
    BY <1>2 DEF AfterRamp
  <2>2. a \in [val : 0..DeclickFrames, left : 0..DeclickFrames] /\ a.left = 0
    BY <1>0, <2>1 DEF NoRamp
  <2>3. last \in IF on THEN DeclickFrames - 1..DeclickFrames ELSE 0..1
    <3>1. CASE n - 1 < r.left
      <4>1. r.left = n
        BY <1>0, <1>2, <3>1
      <4> QED
        BY <1>0, <3>1, <4>1 DEF GainAt
    <3>2. CASE ~(n - 1 < r.left)
      BY <1>0, <3>2 DEF GainAt
    <3> QED
      BY <3>1, <3>2
  <2>4. GainAt(r, on, 0) \in Int /\ last \in Int
    BY <1>0, <2>3 DEF GainAt
  <2> QED
    BY <2>2, <2>3, <2>4
<1> QED
  BY <1>1, <1>2

(* A block begins within a step of where the last one ended.               *)
LEMMA FirstGain ==
  ASSUME TypeOK, RampInv, GainInv, NEW on \in BOOLEAN
  PROVE  GainAt(TurnedRamp(on), on, 0) - gain.last \in -1..1
<1> USE TransportAssumption
<1>0. /\ ramp \in [val : 0..DeclickFrames, left : 0..DeclickFrames]
      /\ playing \in BOOLEAN /\ DeclickFrames \in Nat \ {0} /\ gain.last \in Int
  BY DEF TypeOK
<1>1. CASE on = playing
  BY <1>0, <1>1 DEF TurnedRamp, RampInv, GainInv, GainAt
<1>2. CASE on # playing /\ ramp.left = 0
  BY <1>0, <1>2 DEF TurnedRamp, Turned, GainInv, GainAt
<1>3. CASE on # playing /\ ramp.left > 0
  <2>1. /\ ramp.left < DeclickFrames
        /\ TurnedRamp(on) = [val |-> ramp.val, left |-> DeclickFrames - ramp.left]
    BY <1>0, <1>3 DEF TurnedRamp, Turned, RampInv
  <2>2. GainAt(TurnedRamp(on), on, 0) = ramp.val
    BY <1>0, <1>3, <2>1 DEF GainAt
  <2> QED
    BY <1>0, <1>3, <2>2 DEF GainInv
<1> QED
  BY <1>0, <1>1, <1>2, <1>3

-----------------------------------------------------------------------------
(* The fades of a block, for whatever was asked of it.                     *)
LEMMA ProcessFades ==
  ASSUME TransportInv, NEW n \in 1..MaxFrames, Process(n)
  PROVE  /\ ramp' \in [val : 0..DeclickFrames, left : 0..DeclickFrames]
         /\ gain' \in [before : Int, first : Int, last : Int]
         /\ RampInv' /\ GainInv' /\ GainIsContinuous'
<1> USE TransportAssumption
<1> DEFINE on == got.playing
<1> DEFINE r == TurnedRamp(on)
<1>0. on \in BOOLEAN /\ n \in Nat \ {0} /\ TypeOK /\ RampInv /\ GainInv
      /\ DeclickFrames \in Nat \ {0}
  BY BlockTypes DEF Process, TransportInv
<1>1. /\ ramp' = AfterRamp(r, on, n) /\ playing' = on
      /\ gain' = [before |-> gain.last, first |-> GainAt(r, on, 0),
                  last |-> GainAt(r, on, n - 1)]
  BY DEF Process, TurnedRamp
<1>2. /\ r \in [val : 0..DeclickFrames, left : 0..DeclickFrames]
      /\ r.left > 0 => r.val = IF on THEN DeclickFrames - r.left ELSE r.left
  BY <1>0, TurnedLemma
<1>3. GainAt(r, on, 0) - gain.last \in -1..1
  BY <1>0, FirstGain
<1>4. gain.last \in Int
  BY <1>0 DEF TypeOK
<1> HIDE DEF on, r
<1>5. /\ ramp' \in RampType
      /\ FadeGoesOn(ramp', gain'.last, on)
      /\ GainAt(r, on, 0) \in Int /\ gain'.last \in Int
  <2>1. gain'.last = GainAt(r, on, n - 1) /\ ramp' = AfterRamp(r, on, n)
    BY <1>1
  <2>2. r \in RampType /\ FadeFits(r, on)
    BY <1>2 DEF RampType, FadeFits
  <2> QED
    BY <1>0, <2>1, <2>2, RampLemma
<1>6. gain' \in [before : Int, first : Int, last : Int]
  BY <1>1, <1>4, <1>5
<1>7. RampInv'
  BY <1>1, <1>5 DEF RampInv, FadeGoesOn
<1>8. GainInv'
  BY <1>1, <1>5 DEF GainInv, FadeGoesOn, RampType
<1>9. GainIsContinuous'
  BY <1>1, <1>3 DEF GainIsContinuous
<1> QED
  BY <1>5, <1>6, <1>7, <1>8, <1>9 DEF RampType

(* A block leaves every variable in its type.                              *)
LEMMA ProcessType ==
  ASSUME TransportInv, NEW n \in 1..MaxFrames, Process(n)
  PROVE  TypeOK'
<1> USE TransportAssumption
<1> DEFINE l == LoopOf(got)
<1> DEFINE at == Start(got)
<1> DEFINE loops == got.playing /\ LoopsBack(l, at, n)
<1> DEFINE r == TurnedRamp(got.playing)
<1> DEFINE j == Jumped(l, at, loops, Seeked(got), r)
<1>0. TypeOK /\ got # None /\ n \in Nat
  BY DEF TransportInv, Process
<1>1. got \in ParametersType /\ l \in LoopType \cup {None} /\ at \in Nat
  BY <1>0, BlockTypes
<1>2. jump' = AfterJump(j, n)
  BY DEF Process, TurnedRamp
<1>3. jump' \in [kind : {"none", "seek", "loop"}, skip : Nat, left : 0..DeclickFrames,
                inNext : Int]
  <2>1. loops \in BOOLEAN /\ Seeked(got) \in BOOLEAN /\ (loops => LoopsBack(l, at, n))
    BY <1>1 DEF Seeked, LoopsBack
  <2>2. j \in [kind : {"none", "seek", "loop"}, skip : Nat, left : 0..DeclickFrames,
               inNext : Int]
    <3> HIDE DEF l, at, loops, r
    <3> QED
      BY <1>0, <1>1, <2>1, JumpedType
  <2> HIDE DEF j
  <2> QED
    BY <1>0, <1>2, <2>2, AfterJumpType
<1>4. /\ playhead' = at /\ frames' = n /\ playing' = got.playing /\ loop' = l
      /\ next' = (IF got.playing THEN Advanced(l, at, n) ELSE at)
      /\ range' = (IF got.playing THEN RangeOf(l, at, n) ELSE NoRange)
      /\ seen' = [seek |-> got.seekVersion, loop |-> got.loopVersion,
                  map |-> tempoMap.version]
      /\ tempo' = tempoMap.tempo /\ got' = None
      /\ UNCHANGED <<parameters, tempoMap, requests>>
  BY DEF Process, appVars
<1>5. Advanced(l, at, n) \in Nat
  <2> HIDE DEF l, at
  <2> QED
    BY <1>0, <1>1, AdvancedType
<1> HIDE DEF l, at, loops, r, j
<1>6. range' \in [end1 : Nat, start2 : Nat, end2 : Nat]
  <2>1. CASE got.playing /\ LoopsBack(l, at, n)
    <3>1. l.start \in Nat /\ l.end \in Nat
      BY <1>1, <2>1 DEF LoopsBack, LoopType
    <3> QED
      BY <1>4, <1>5, <2>1, <3>1 DEF RangeOf
  <2>2. CASE got.playing /\ ~LoopsBack(l, at, n)
    BY <1>0, <1>1, <1>4, <2>2 DEF RangeOf
  <2>3. CASE ~got.playing
    BY <1>4, <2>3 DEF NoRange
  <2> QED
    BY <2>1, <2>2, <2>3
<1>7. disturbed' \in BOOLEAN
  BY DEF Process
<1>8. /\ ramp' \in [val : 0..DeclickFrames, left : 0..DeclickFrames]
      /\ gain' \in [before : Int, first : Int, last : Int]
  BY ProcessFades
<1>9. seen' \in [seek : Nat, loop : Nat, map : Nat] /\ tempo' \in Nat \ {0}
  BY <1>0, <1>1, <1>4 DEF TypeOK
<1>10. {playhead', next', frames'} \subseteq Nat /\ playing' \in BOOLEAN
       /\ loop' \in [start : Nat, end : Nat] \cup {None}
  BY <1>0, <1>1, <1>4, <1>5 DEF LoopType
<1> QED
  BY <1>0, <1>3, <1>4, <1>6, <1>7, <1>8, <1>9, <1>10 DEF TypeOK

(* A fade-in that nothing disturbed goes on where the block ends.          *)
LEMMA ProcessJump ==
  ASSUME TransportInv, NEW n \in 1..MaxFrames, Process(n)
  PROVE  FadeInv'
<1> USE TransportAssumption
<1> DEFINE l == LoopOf(got)
<1> DEFINE at == Start(got)
<1> DEFINE loops == got.playing /\ LoopsBack(l, at, n)
<1> DEFINE r == TurnedRamp(got.playing)
<1> DEFINE j == Jumped(l, at, loops, Seeked(got), r)
<1>0. TypeOK /\ FadeInv /\ got # None /\ n \in Nat
  BY DEF TransportInv, Process
<1>1. /\ got \in ParametersType /\ l \in LoopType \cup {None} /\ at \in Nat
      /\ jump \in [kind : {"none", "seek", "loop"}, skip : Nat,
                   left : 0..DeclickFrames, inNext : Int]
      /\ next \in Nat
  BY <1>0, BlockTypes DEF TypeOK
<1>2. SUFFICES ASSUME jump'.kind # "none", ~disturbed'
               PROVE  playing' /\ jump'.inNext = next'
  BY DEF FadeInv, FadeInMeetsPlayhead
<1>3. /\ jump' = AfterJump(j, n) /\ playing' = got.playing
      /\ next' = IF got.playing THEN Advanced(l, at, n) ELSE at
  BY DEF Process, TurnedRamp
<1>4. /\ got.playing
      /\ ~(disturbed /\ ~loops /\ ~(Seeked(got) /\ r.left > 0))
      /\ ~(~loops /\ r.left = 0 /\ Seeked(got))
      /\ ~(~loops /\ ~Seeked(got) /\ MapChanged)
  BY <1>2 DEF Process, TurnedRamp
<1>5. Seeked(got) => r.left = 0 \/ r.left > 0
  <2>1. r \in [val : 0..DeclickFrames, left : 0..DeclickFrames]
    BY <1>0, <1>1, TurnedLemma DEF TransportInv
  <2> QED
    BY <2>1
<1>6. j.kind # "none" /\ jump'.inNext = j.inNext + n
  <2>1. j \in [kind : {"none", "seek", "loop"}, skip : Nat, left : 0..DeclickFrames,
               inNext : Int]
    <3>1. loops \in BOOLEAN /\ Seeked(got) \in BOOLEAN /\ (loops => LoopsBack(l, at, n))
      BY <1>1 DEF Seeked, LoopsBack
    <3> HIDE DEF l, at, loops, r
    <3> QED
      BY <1>0, <1>1, <3>1, JumpedType
  <2> HIDE DEF j
  <2> QED
    BY <1>0, <1>2, <1>3, <2>1 DEF AfterJump, NoJump
<1>7. j.inNext + n = Advanced(l, at, n)
  <2>1. CASE loops
    <3>1. l.start \in Nat /\ l.end \in Nat
      BY <1>1, <2>1 DEF LoopsBack, LoopType
    <3>2. j.inNext = l.start - (l.end - at)
      BY <2>1 DEF Jumped
    <3>3. Advanced(l, at, n) = l.start + (n - (l.end - at))
      BY <2>1 DEF Advanced
    <3> HIDE DEF l, at, j
    <3> QED
      BY <1>0, <1>1, <3>1, <3>2, <3>3
  <2>2. CASE ~loops
    <3>1. Advanced(l, at, n) = at + n
      BY <1>4, <2>2 DEF Advanced
    <3>2. j.inNext = at
      <4>1. CASE Seeked(got)
        BY <1>4, <1>5, <2>2, <4>1 DEF Jumped
      <4>2. CASE ~Seeked(got)
        <5>1. j = jump
          BY <2>2, <4>2 DEF Jumped
        <5>2. at = next /\ ~disturbed
          BY <1>4, <2>2, <4>2 DEF Start
        <5> QED
          BY <1>0, <1>6, <5>1, <5>2 DEF FadeInv, FadeInMeetsPlayhead
      <4> QED
        BY <4>1, <4>2
    <3> QED
      BY <3>1, <3>2
  <2> QED
    BY <2>1, <2>2
<1> QED
  BY <1>3, <1>4, <1>6, <1>7

(* What the application asks for reaches the process thread by its cells   *)
(* only.                                                                   *)
LEMMA RequestStep ==
  ASSUME TransportInv, SeekTo \/ SetPlaying \/ SetLoopState \/ UpdateTempoMap
  PROVE  TransportInv'
<1> USE TransportAssumption
<1>1. TypeOK
  BY DEF TransportInv
<1>2. UNCHANGED <<got, taskVars, declickVars>> /\ requests' = requests + 1
  BY DEF SeekTo, SetPlaying, SetLoopState, UpdateTempoMap, Request
<1>3. parameters' \in ParametersType
  <2>1. CASE SeekTo
    <3>1. PICK time \in Times :
            parameters' = [parameters EXCEPT !.seek = time, !.seekVersion = @ + 1]
      BY <2>1 DEF SeekTo, Request
    <3>2. parameters \in ParametersType
      BY <1>1 DEF TypeOK
    <3>3. time \in Nat /\ parameters.seekVersion + 1 \in Nat
      BY <3>2
    <3> QED
      BY <3>1, <3>2, <3>3
  <2>2. CASE SetPlaying
    BY <1>1, <2>2 DEF SetPlaying, Request, TypeOK
  <2>3. CASE SetLoopState
    <3>1. PICK l \in Loops \cup {None} :
            parameters' = [parameters EXCEPT !.loop = l, !.loopVersion = @ + 1]
      BY <2>3 DEF SetLoopState, Request
    <3>2. l \in [start : Nat, end : Nat] \cup {None}
      BY <3>1
    <3>3. parameters \in ParametersType
      BY <1>1 DEF TypeOK
    <3>4. parameters.loopVersion + 1 \in Nat
      BY <3>3
    <3> QED
      BY <3>1, <3>2, <3>3, <3>4
  <2>4. CASE UpdateTempoMap
    BY <1>1, <2>4 DEF UpdateTempoMap, Request, TypeOK
  <2> QED
    BY <2>1, <2>2, <2>3, <2>4
<1>4. tempoMap' \in [tempo : Nat \ {0}, version : Nat]
  <2>1. CASE UpdateTempoMap
    BY <1>1, <2>1 DEF UpdateTempoMap, Request, TypeOK
  <2>2. CASE SeekTo \/ SetPlaying \/ SetLoopState
    <3>1. tempoMap' = tempoMap
      BY <2>2 DEF SeekTo, SetPlaying, SetLoopState, Request
    <3> QED
      BY <1>1, <3>1 DEF TypeOK
  <2> QED
    BY <2>1, <2>2
<1>5. TypeOK'
  BY <1>1, <1>2, <1>3, <1>4 DEF TypeOK, taskVars, declickVars
<1>6. (RampInv /\ GainInv /\ GainIsContinuous /\ FadeInv)'
  BY <1>2 DEF TransportInv, RampInv, GainInv, GainIsContinuous, FadeInv,
              FadeInMeetsPlayhead, taskVars, declickVars
<1> QED
  BY <1>5, <1>6 DEF TransportInv

(* The inductive invariant holds in every state, for blocks and fades of   *)
(* any length, any loops and any tempos.                                   *)
THEOREM Invariance == Spec => []TransportInv
<1> USE TransportAssumption
<1>1. Init => TransportInv
  <2> SUFFICES ASSUME Init PROVE TransportInv
    OBVIOUS
  <2>1. TypeOK
    <3>1. parameters \in ParametersType
      BY DEF Init
    <3>2. tempoMap \in [tempo : Nat \ {0}, version : Nat] /\ tempo \in Nat \ {0}
      BY DEF Init
    <3>3. ramp \in RampType /\ gain \in [before : Int, first : Int, last : Int]
      BY DEF Init, NoRamp, RampType
    <3>4. jump \in [kind : {"none", "seek", "loop"}, skip : Nat, left : 0..DeclickFrames,
                   inNext : Int]
      BY DEF Init, NoJump
    <3>5. range \in [end1 : Nat, start2 : Nat, end2 : Nat]
          /\ seen \in [seek : Nat, loop : Nat, map : Nat]
      BY DEF Init, NoRange
    <3>6. /\ got = None /\ requests \in Nat /\ {playhead, next, frames} \subseteq Nat
          /\ loop = None
      BY DEF Init
    <3>7. playing \in BOOLEAN /\ disturbed \in BOOLEAN
      BY DEF Init
    <3> QED
      BY <3>1, <3>2, <3>3, <3>4, <3>5, <3>6, <3>7 DEF TypeOK, RampType
  <2>2. RampInv /\ GainInv /\ GainIsContinuous /\ FadeInv
    BY DEF Init, RampInv, GainInv, GainIsContinuous, FadeInv, FadeInMeetsPlayhead,
           NoRamp, NoJump
  <2> QED
    BY <2>1, <2>2 DEF TransportInv
<1>2. TransportInv /\ [Next]_vars => TransportInv'
  <2> SUFFICES ASSUME TransportInv, [Next]_vars PROVE TransportInv'
    OBVIOUS
  <2>1. CASE SeekTo \/ SetPlaying \/ SetLoopState \/ UpdateTempoMap
    BY <2>1, RequestStep
  <2>2. CASE GetParameters
    <3>1. TypeOK'
      BY <2>2 DEF GetParameters, TransportInv, TypeOK, appVars, taskVars, declickVars
    <3>2. (RampInv /\ GainInv /\ GainIsContinuous /\ FadeInv)'
      BY <2>2 DEF GetParameters, TransportInv, RampInv, GainInv, GainIsContinuous,
                  FadeInv, FadeInMeetsPlayhead, taskVars, declickVars
    <3> QED
      BY <3>1, <3>2 DEF TransportInv
  <2>3. CASE \E n \in 1..MaxFrames : Process(n)
    <3>1. PICK n \in 1..MaxFrames : Process(n)
      BY <2>3
    <3> QED
      BY <3>1, ProcessType, ProcessFades, ProcessJump DEF TransportInv
  <2>4. CASE UNCHANGED vars
    <3>1. TypeOK'
      BY <2>4 DEF TransportInv, TypeOK, vars, appVars, taskVars, declickVars
    <3>2. (RampInv /\ GainInv /\ GainIsContinuous /\ FadeInv)'
      BY <2>4 DEF TransportInv, RampInv, GainInv, GainIsContinuous,
                  FadeInv, FadeInMeetsPlayhead, vars, taskVars, declickVars
    <3> QED
      BY <3>1, <3>2 DEF TransportInv
  <2> QED
    BY <2>1, <2>2, <2>3, <2>4 DEF Next
<1> QED
  BY <1>1, <1>2, PTL DEF Spec

-----------------------------------------------------------------------------
(* TypeOK: no gain leaves 0..DeclickFrames, no frame is before zero.       *)
THEOREM TypeCorrect == Spec => []TypeOK
<1>1. TransportInv => TypeOK
  BY DEF TransportInv
<1> QED
  BY <1>1, Invariance, PTL

(* However short the time between starts and stops, and whatever the       *)
(* blocks, the gain moves by at most declick_inc from frame to frame.      *)
THEOREM NoClickOnStartStop == Spec => []GainIsContinuous
<1>1. TransportInv => GainIsContinuous
  BY DEF TransportInv
<1> QED
  BY <1>1, Invariance, PTL

(* The fade-in of a jump meets the playhead at the end of every block.     *)
THEOREM FadeInIsHidden == Spec => []FadeInMeetsPlayhead
<1>1. TransportInv => FadeInMeetsPlayhead
  BY DEF TransportInv, FadeInv
<1> QED
  BY <1>1, Invariance, PTL

(* The playhead does not leave a loop that lasts at least a block.         *)
LEMMA LoopStep ==
  ASSUME TransportInv, NEW n \in 1..MaxFrames, Process(n), InLoop, seen' = seen
  PROVE  InLoop'
<1> USE TransportAssumption
<1>1. TypeOK /\ got # None /\ got \in ParametersType /\ n \in Nat /\ n <= MaxFrames
  BY BlockTypes DEF TransportInv, Process
<1>2. seen = [seek |-> got.seekVersion, loop |-> got.loopVersion, map |-> tempoMap.version]
  BY DEF Process
<1>3. ~MapChanged /\ ~LoopChanged(got) /\ ~Seeked(got)
  BY <1>2 DEF MapChanged, LoopChanged, Seeked
<1>4. /\ loop' = loop
      /\ next' = IF got.playing THEN Advanced(loop, next, n) ELSE next
  BY <1>3 DEF Process, LoopOf, Start
<1>5. /\ next \in Nat /\ loop # None /\ loop.start \in Nat /\ loop.end \in Nat
      /\ loop.end - loop.start >= MaxFrames /\ loop.start <= next /\ next < loop.end
  BY <1>1 DEF InLoop, Lasts, TypeOK
<1>6. CASE ~got.playing
  BY <1>4, <1>6 DEF InLoop
<1>7. CASE got.playing
  <2>1. next' = IF next + n >= loop.end THEN loop.start + (n - (loop.end - next)) ELSE next + n
    BY <1>4, <1>5, <1>7 DEF Advanced, LoopsBack
  <2>2. loop.start <= next' /\ next' < loop.end
    BY <1>1, <1>5, <2>1
  <2> QED
    BY <1>4, <1>5, <2>2 DEF InLoop, Lasts
<1> QED
  BY <1>6, <1>7

(* Whatever the length of the blocks, a playhead in a loop stays there     *)
(* until a seek, another loop or another tempo map.                        *)
THEOREM LoopIsNotLeft == Spec => LoopIsKept
<1> DEFINE Kept == InLoop /\ seen' = seen => InLoop'
<1>1. TransportInv /\ [Next]_vars => [Kept]_vars
  <2> SUFFICES ASSUME TransportInv, Next, InLoop, seen' = seen PROVE InLoop'
    OBVIOUS
  <2>1. CASE \E n \in 1..MaxFrames : Process(n)
    BY <2>1, LoopStep
  <2>2. CASE SeekTo \/ SetPlaying \/ SetLoopState \/ UpdateTempoMap \/ GetParameters
    <3>1. UNCHANGED taskVars
      BY <2>2 DEF SeekTo, SetPlaying, SetLoopState, UpdateTempoMap, Request, GetParameters
    <3> QED
      BY <3>1 DEF InLoop, taskVars
  <2> QED
    BY <2>1, <2>2 DEF Next
<1> QED
  BY <1>1, Invariance, PTL DEF Spec, LoopIsKept

-----------------------------------------------------------------------------
(* The range of a block is what is left of it once it was processed.       *)
RangeInv == frames <= MaxFrames /\ (playing => range = RangeOf(loop, playhead, frames))

(* ... in every state.                                                     *)
LEMMA RangeIsOfBlock == Spec => []RangeInv
<1> USE TransportAssumption
<1>1. Init => RangeInv
  BY DEF Init, RangeInv
<1>2. RangeInv /\ [Next]_vars => RangeInv'
  <2> SUFFICES ASSUME RangeInv, [Next]_vars PROVE RangeInv'
    OBVIOUS
  <2>1. CASE \E n \in 1..MaxFrames : Process(n)
    BY <2>1 DEF Process, RangeInv
  <2>2. CASE UNCHANGED taskVars
    BY <2>2 DEF RangeInv, taskVars
  <2> QED
    BY <2>1, <2>2 DEF Next, vars, SeekTo, SetPlaying, SetLoopState, UpdateTempoMap,
                      Request, GetParameters
<1> QED
  BY <1>1, <1>2, PTL DEF Spec

(* How many frames there are between two frames ...                        *)
LEMMA IntervalSize ==
  ASSUME NEW a \in Nat, NEW b \in Nat, a <= b
  PROVE  IsFiniteSet(a..b - 1) /\ Cardinality(a..b - 1) = b - a
<1>1. a \in Int /\ b - 1 \in Int
  OBVIOUS
<1>2. /\ IsFiniteSet(a..b - 1)
      /\ Cardinality(a..b - 1) = IF a > b - 1 THEN 0 ELSE (b - 1) - a + 1
  BY <1>1, FS_Interval
<1>3. (IF a > b - 1 THEN 0 ELSE (b - 1) - a + 1) = b - a
  OBVIOUS
<1> QED
  BY <1>2, <1>3

(* A is two intervals that do not overlap.                                 *)
Splits(A, a, b, c, d) ==
  /\ A \in SUBSET Nat
  /\ \A f \in Nat : f \in A <=> (a <= f /\ f < b) \/ (c <= f /\ f < d)
  /\ {a, b, c, d} \subseteq Nat
  /\ a <= b /\ c <= d /\ (d <= a \/ b <= c)

(* ... and in two intervals that do not overlap.                           *)
LEMMA TwoIntervals ==
  ASSUME NEW A, NEW a, NEW b, NEW c, NEW d, Splits(A, a, b, c, d)
  PROVE  Cardinality(A) = (b - a) + (d - c)
<1> USE DEF Splits
<1> DEFINE S == a..b - 1
<1> DEFINE T == c..d - 1
<1>1. A = S \cup T
  <2>1. \A f \in Nat : f \in S \cup T <=> (a <= f /\ f < b) \/ (c <= f /\ f < d)
    OBVIOUS
  <2>2. S \cup T \subseteq Nat
    OBVIOUS
  <2> HIDE DEF S, T
  <2>3. \A f : f \in A <=> f \in S \cup T
    BY <2>1, <2>2
  <2> QED
    BY <2>3
<1>2. IsFiniteSet(S) /\ Cardinality(S) = b - a
  BY IntervalSize
<1>3. IsFiniteSet(T) /\ Cardinality(T) = d - c
  BY IntervalSize
<1>4. S \cap T = {}
  OBVIOUS
<1>5. Cardinality(S \cup T) = Cardinality(S) + Cardinality(T) - Cardinality(S \cap T)
  <2> HIDE DEF S, T
  <2> QED
    BY <1>2, <1>3, FS_Union
<1>6. Cardinality(S \cap T) = 0
  BY <1>4, FS_EmptySet
<1> HIDE DEF S, T
<1> QED
  BY <1>1, <1>2, <1>3, <1>5, <1>6

(* Every frame of a block is played, and none of them twice.               *)
THEOREM BlockPlaysItself == Spec => []BlockPlaysItsFrames
<1> USE TransportAssumption
<1>1. TypeOK /\ RangeInv => BlockPlaysItsFrames
  <2> SUFFICES ASSUME TypeOK, RangeInv, loop = None \/ Lasts(loop)
               PROVE  Cardinality({f \in 0..playhead + frames + range.end2 : FrameActive(f)})
                        = IF playing THEN frames ELSE 0
    BY DEF BlockPlaysItsFrames
  <2> DEFINE top == playhead + frames + range.end2
  <2>1. /\ playhead \in Nat /\ frames \in Nat /\ range.end2 \in Nat /\ top \in Nat
        /\ loop # None => loop.start \in Nat /\ loop.end \in Nat
        /\ frames <= MaxFrames /\ playing \in BOOLEAN
    BY DEF TypeOK, RangeInv
  <2>2. CASE ~playing
    <3>1. {f \in 0..top : FrameActive(f)} = {}
      BY <2>2 DEF FrameActive
    <3> QED
      BY <2>2, <3>1, FS_EmptySet
  <2>3. CASE playing /\ LoopsBack(loop, playhead, frames)
    <3> DEFINE back == loop.start + (frames - (loop.end - playhead))
    <3>1. range = [end1 |-> loop.end, start2 |-> loop.start, end2 |-> back]
      BY <2>3 DEF RangeInv, RangeOf, Advanced
    <3>2. /\ loop # None /\ playhead < loop.end /\ playhead + frames >= loop.end
          /\ loop.end - loop.start >= MaxFrames
      BY <2>3 DEF LoopsBack, Lasts
    <3>3. /\ back \in Nat /\ loop.start <= back /\ back <= playhead
          /\ loop.end <= top + 1 /\ back <= top + 1
          /\ (loop.end - playhead) + (back - loop.start) = frames
      BY <2>1, <3>1, <3>2
    <3> DEFINE A == {f \in 0..top : FrameActive(f)}
    <3>4. /\ A \in SUBSET Nat
          /\ \A f \in Nat : f \in A <=>
               (playhead <= f /\ f < loop.end) \/ (loop.start <= f /\ f < back)
      <4>1. \A f \in 0..top : FrameActive(f) <=>
              (playhead <= f /\ f < loop.end) \/ (loop.start <= f /\ f < back)
        BY <2>3, <3>1 DEF FrameActive
      <4> HIDE DEF back, top
      <4>2. \A f \in Nat : (playhead <= f /\ f < loop.end) \/ (loop.start <= f /\ f < back)
                          => f \in 0..top
        BY <2>1, <3>2, <3>3
      <4>3. \A f \in 0..top : f \in Nat
        BY <2>1
      <4> QED
        BY <4>1, <4>2, <4>3
    <3>5. Cardinality(A) = (loop.end - playhead) + (back - loop.start)
      <4>1. /\ playhead \in Nat /\ loop.end \in Nat /\ loop.start \in Nat /\ back \in Nat
            /\ playhead <= loop.end /\ loop.start <= back
            /\ back <= playhead \/ loop.end <= loop.start
        BY <2>1, <3>2, <3>3
      <4> HIDE DEF back, top, A
      <4>2. Splits(A, playhead, loop.end, loop.start, back)
        BY <3>4, <4>1 DEF Splits
      <4> QED
        BY <4>2, TwoIntervals
    <3> QED
      BY <2>3, <3>3, <3>5
  <2>4. CASE playing /\ ~LoopsBack(loop, playhead, frames)
    <3>1. range = [end1 |-> playhead + frames, start2 |-> 0, end2 |-> 0]
      BY <2>4 DEF RangeInv, RangeOf
    <3> DEFINE A == {f \in 0..top : FrameActive(f)}
    <3>2. /\ A \in SUBSET Nat
          /\ \A f \in Nat : f \in A <=>
               (playhead <= f /\ f < playhead + frames) \/ (0 <= f /\ f < 0)
      <4>1. \A f \in 0..top : FrameActive(f) <=> playhead <= f /\ f < playhead + frames
        BY <2>4, <3>1 DEF FrameActive
      <4>2. \A f \in Nat : playhead <= f /\ f < playhead + frames => f \in 0..top
        BY <2>1
      <4>3. \A f \in 0..top : f \in Nat
        BY <2>1
      <4> QED
        BY <4>1, <4>2, <4>3
    <3>3. Cardinality(A) = ((playhead + frames) - playhead) + (0 - 0)
      <4>1. playhead + frames \in Nat /\ playhead <= playhead + frames
        BY <2>1
      <4>2. 0 \in Nat /\ 0 <= 0 /\ (0 <= playhead \/ playhead + frames <= 0)
        BY <2>1
      <4> HIDE DEF top, A
      <4>3. Splits(A, playhead, playhead + frames, 0, 0)
        BY <2>1, <3>2, <4>1, <4>2 DEF Splits
      <4> QED
        BY <4>3, TwoIntervals
    <3> QED
      BY <2>1, <2>4, <3>3
  <2> QED
    BY <2>1, <2>2, <2>3, <2>4
<1> QED
  BY <1>1, TypeCorrect, RangeIsOfBlock, PTL

=============================================================================
