-------------------------- MODULE AudioCycle_proofs --------------------------
(***************************************************************************)
(* Proofs about AudioCycle.  That the ring back never fills up when there  *)
(* is no input needs a count of the frames on their way in each part of a  *)
(* callback; that frames flow in order needs that the process thread holds *)
(* frames only while it processes them.                                    *)
(***************************************************************************)
EXTENDS AudioCycle, SequenceTheorems, TLAPS

\* A callback in progress wants some frames, and there is room to count them.
CallbackInProgress ==
  /\ apc # "idle" => wanted \in 1..MaxFrames
  /\ apc = "ask" => asked + wanted <= Horizon

\* The process thread holds frames from Take to Write.
BlockIsHeld == ppc \notin {"write", "failed"} => block = <<>>

\* Without audio inputs, the frames on their way are those of two callbacks, and
\* of a third one after it asked.
NoBacklog ==
  ~hasInput =>
    /\ Len(request) <= MaxFrames
    /\ Len(block) <= MaxFrames
    /\ apc = "ask" => Len(outRing) + Len(block) + Len(request) <= 2 * MaxFrames
    /\ Len(outRing) + Len(block) + Len(request) <= 3 * MaxFrames

TInv ==
  /\ TypeOK
  /\ CallbackInProgress
  /\ BlockIsHeld
  /\ NoBacklog
  /\ NoInputNeverFails

----------------------------------------------------------------------------
(* Buffers *)

\* The frames a callback asks for are numbered on from those asked for before.
LEMMA NewFramesType ==
  ASSUME TypeOK, apc = "ask", CallbackInProgress
  PROVE  /\ NewFrames \in Seq(Frames)
         /\ Len(NewFrames) = wanted
         /\ \A i \in 1..wanted : NewFrames[i] = asked + i
<1>1. wanted \in Nat /\ asked \in Nat /\ Horizon \in Nat
  BY SizeAssumption DEF TypeOK
<1>2. \A i \in 1..wanted : asked + i \in Frames
  BY <1>1 DEF CallbackInProgress, Frames
<1>3. NewFrames \in [1..wanted -> Frames]
  BY <1>2 DEF NewFrames
<1>4. QED
  BY <1>1, <1>3, LenProperties, SeqDef DEF NewFrames

\* The output ring before and after a callback played.
LEMMA PlayedType ==
  ASSUME TypeOK, CallbackInProgress, Play
  PROVE  /\ out' \in Seq(Frames) /\ Len(out') = wanted
         /\ \A i \in 1..wanted : out'[i] = outRing[i]
         /\ outRing' \in Seq(Frames) /\ Len(outRing') = Len(outRing) - wanted
         /\ \A i \in 1..Len(outRing) - wanted : outRing'[i] = outRing[i + wanted]
         /\ heard' = outRing[wanted] /\ heard' \in Frames
<1>1. /\ outRing \in Seq(Frames) /\ Len(outRing) \in Nat
      /\ \A i \in 1..Len(outRing) : outRing[i] \in Frames
  BY ElementOfSeq, LenProperties DEF TypeOK, IsBuffer
<1>2. /\ wanted \in 1..MaxFrames /\ wanted <= Len(outRing) /\ MaxFrames \in Nat
      /\ out' = SubSeq(outRing, 1, wanted)
      /\ outRing' = SubSeq(outRing, wanted + 1, Len(outRing))
      /\ heard' = outRing[wanted]
  BY SizeAssumption DEF Play, CallbackInProgress
<1>3. /\ out' \in Seq(Frames) /\ Len(out') = wanted
      /\ \A i \in 1..wanted : out'[i] = outRing[i]
  <2>1. \A i \in 1..wanted : outRing[i] \in Frames
    BY <1>1, <1>2
  <2> QED
    BY <1>2, <2>1, SubSeqProperties
<1>4. /\ outRing' \in Seq(Frames) /\ Len(outRing') = Len(outRing) - wanted
      /\ \A i \in 1..Len(outRing) - wanted : outRing'[i] = outRing[i + wanted]
  <2>1. \A i \in wanted + 1..Len(outRing) : outRing[i] \in Frames
    BY <1>1, <1>2
  <2> QED
    BY <1>1, <1>2, <2>1, SubSeqProperties
<1>5. QED
  BY <1>1, <1>2, <1>3, <1>4

----------------------------------------------------------------------------
(* Types, and the bound on the frames on their way *)

\* Nothing is on its way when the engine is activated.
LEMMA InitTInv == Init => TInv
<1> SUFFICES ASSUME Init PROVE TInv
  OBVIOUS
<1>1. <<>> \in Seq(Frames) /\ Len(<<>>) = 0
  BY EmptySeq
<1>2. TypeOK
  <2>1. IsBuffer(<<>>, Capacity) /\ IsBuffer(<<>>, MaxFrames)
    BY <1>1, SizeAssumption DEF IsBuffer
  <2>2. 0 \in 0..MaxFrames /\ 0 \in 0..Horizon
    BY SizeAssumption
  <2>3. QED
    BY <2>1, <2>2 DEF Init, TypeOK
<1>3. CallbackInProgress /\ BlockIsHeld /\ NoInputNeverFails
  BY DEF Init, CallbackInProgress, BlockIsHeld, NoInputNeverFails
<1>4. NoBacklog
  BY <1>1, SizeAssumption DEF Init, NoBacklog
<1>5. QED
  BY <1>2, <1>3, <1>4 DEF TInv

\* Every step keeps the types and the bound.
LEMMA TInvStep ==
  ASSUME TInv, [Next]_vars
  PROVE  TInv'
<1> USE SizeAssumption
    DEF TInv, TypeOK, IsBuffer, CallbackInProgress, BlockIsHeld, NoBacklog,
        NoInputNeverFails, sharedVars, audioVars, procVars
<1>0. /\ <<>> \in Seq(Frames) /\ Len(<<>>) = 0
      /\ Len(request) \in Nat /\ Len(block) \in Nat /\ Len(outRing) \in Nat
  BY EmptySeq, LenProperties
<1>1. CASE Callback
  <2>1. /\ wanted' \in 1..MaxFrames /\ asked + wanted' <= Horizon
        /\ outRing' = <<>> /\ out' = <<>> /\ own' = <<>> /\ clean' \in BOOLEAN
        /\ apc' = "ask"
    BY <1>1 DEF Callback
  <2>2. TypeOK'
    BY <1>0, <1>1, <2>1 DEF Callback
  <2>3. CallbackInProgress' /\ BlockIsHeld' /\ NoInputNeverFails'
    BY <1>1, <2>1 DEF Callback
  <2>4. NoBacklog'
    BY <1>0, <1>1, <2>1 DEF Callback
  <2>5. QED
    BY <2>2, <2>3, <2>4
<1>2. CASE Ask
  <2>1. /\ NewFrames \in Seq(Frames) /\ Len(NewFrames) = wanted
        /\ wanted \in Nat /\ asked \in Nat
    BY <1>2, NewFramesType DEF Ask
  <2>2. request \o NewFrames \in Seq(Frames)
        /\ Len(request \o NewFrames) = Len(request) + wanted
    BY <2>1, ConcatProperties
  <2>3. request' \in Seq(Frames) /\ Len(request') <= Capacity
    BY <1>0, <1>2, <2>1, <2>2 DEF Ask, Room
  <2>4. ~hasInput => Len(request') <= MaxFrames
    BY <1>2, <2>1 DEF Ask
  <2>5. TypeOK'
    BY <1>0, <1>2, <2>1, <2>3 DEF Ask
  <2>6. CallbackInProgress' /\ BlockIsHeld' /\ NoInputNeverFails'
    BY <1>2 DEF Ask
  <2>7. NoBacklog'
    BY <1>0, <1>2, <2>1, <2>4 DEF Ask
  <2>8. QED
    BY <2>5, <2>6, <2>7
<1>3. CASE AskInVain
  BY <1>0, <1>3 DEF AskInVain
<1>4. CASE Play
  <2>1. /\ out' \in Seq(Frames) /\ Len(out') = wanted
        /\ outRing' \in Seq(Frames) /\ Len(outRing') = Len(outRing) - wanted
        /\ heard' \in Frames
    BY <1>4, PlayedType
  <2>2. wanted \in 1..MaxFrames /\ wanted \in Nat
    BY <1>4 DEF Play
  <2>3. heard' \in 0..Horizon
    BY ONLY <2>1, SizeAssumption DEF Frames
  <2>4. TypeOK'
    BY <1>0, <1>4, <2>1, <2>2, <2>3 DEF Play
  <2>5. CallbackInProgress' /\ BlockIsHeld' /\ NoInputNeverFails'
    BY <1>4 DEF Play
  <2>6. NoBacklog'
    BY <1>0, <1>4, <2>1, <2>2 DEF Play
  <2>7. QED
    BY <2>4, <2>5, <2>6
<1>5. CASE Underrun
  BY <1>0, <1>5 DEF Underrun
<1>6. CASE CheckRun \/ SleepOneInterval \/ SeeAudioGone \/ Deactivate
  BY <1>0, <1>6 DEF CheckRun, SleepOneInterval, SeeAudioGone, Deactivate
<1>7. CASE Take
  BY <1>0, <1>7 DEF Take
<1>8. CASE Write
  <2>1. outRing \o block \in Seq(Frames)
        /\ Len(outRing \o block) = Len(outRing) + Len(block)
    BY ConcatProperties
  <2>2. QED
    BY <1>0, <1>8, <2>1 DEF Write, Room
<1>9. CASE WriteInVain
  <2>1. hasInput
    BY <1>0, <1>9 DEF WriteInVain, Room
  <2>2. QED
    BY <1>0, <1>9, <2>1 DEF WriteInVain
<1>10. CASE StopProcessThread \/ CollectAudioThread \/ CollectProcessThread
  BY <1>0, <1>10 DEF StopProcessThread, CollectAudioThread, CollectProcessThread
<1>11. CASE UNCHANGED vars
  BY <1>0, <1>11 DEF vars
<1>12. QED
  BY <1>1, <1>2, <1>3, <1>4, <1>5, <1>6, <1>7, <1>8, <1>9, <1>10, <1>11
     DEF Next, Audio, Process, Main

----------------------------------------------------------------------------
(* The frames on their way *)

\* What was asked for and is on its way, or was played, was asked for.
FlowWasAsked ==
  /\ heard <= asked
  /\ \A i \in 1..Len(Flow) : Flow[i] <= asked

\* Only its own frames are on their way in a callback that began clean; what it
\* gives the sound card is empty until it plays.
FlowIsOwn ==
  /\ apc # "idle" => out = <<>>
  /\ clean /\ apc = "ask" => Flow = <<>>
  /\ clean /\ apc = "poll" => Flow = own /\ Len(own) = wanted

FInv ==
  /\ FlowIsInOrder
  /\ FlowWasAsked
  /\ FlowIsOwn
  /\ CleanCallbackPlaysItsOwn

\* Three buffers in a row.
LEMMA ThreeBuffers ==
  ASSUME NEW a \in Seq(Frames), NEW b \in Seq(Frames), NEW c \in Seq(Frames)
  PROVE  /\ a \o b \o c \in Seq(Frames)
         /\ Len(a) \in Nat /\ Len(b) \in Nat /\ Len(c) \in Nat
         /\ Len(a \o b \o c) = Len(a) + Len(b) + Len(c)
         /\ \A i \in 1..Len(a) : (a \o b \o c)[i] = a[i]
         /\ \A i \in 1..Len(b) : (a \o b \o c)[Len(a) + i] = b[i]
         /\ \A i \in 1..Len(c) : (a \o b \o c)[Len(a) + Len(b) + i] = c[i]
         /\ \A i \in 1..Len(a) + Len(b) + Len(c) : (a \o b \o c)[i] \in Frames
<1>1. Len(a) \in Nat /\ Len(b) \in Nat /\ Len(c) \in Nat
  BY LenProperties
<1>2. /\ a \o b \in Seq(Frames) /\ Len(a \o b) = Len(a) + Len(b)
      /\ \A i \in 1..Len(a) + Len(b) :
           (a \o b)[i] = IF i <= Len(a) THEN a[i] ELSE b[i - Len(a)]
  BY ConcatProperties
<1>3. /\ a \o b \o c \in Seq(Frames) /\ Len(a \o b \o c) = Len(a \o b) + Len(c)
      /\ \A i \in 1..Len(a \o b) + Len(c) : (a \o b \o c)[i] =
           IF i <= Len(a \o b) THEN (a \o b)[i] ELSE c[i - Len(a \o b)]
  BY <1>2, ConcatProperties
<1>4. \A i \in 1..Len(a \o b \o c) : (a \o b \o c)[i] \in Frames
  BY <1>3, ElementOfSeq
<1>5. QED
  BY <1>1, <1>2, <1>3, <1>4

\* What is on its way begins with the output ring.
LEMMA FlowType ==
  ASSUME TypeOK
  PROVE  /\ Flow \in Seq(Frames)
         /\ Len(outRing) \in Nat /\ Len(block) \in Nat /\ Len(request) \in Nat
         /\ Len(Flow) = Len(outRing) + Len(block) + Len(request)
         /\ \A i \in 1..Len(outRing) : Flow[i] = outRing[i]
         /\ \A i \in 1..Len(block) : Flow[Len(outRing) + i] = block[i]
         /\ \A i \in 1..Len(request) : Flow[Len(outRing) + Len(block) + i] = request[i]
         /\ \A i \in 1..Len(Flow) : Flow[i] \in Nat
<1>1. outRing \in Seq(Frames) /\ block \in Seq(Frames) /\ request \in Seq(Frames)
  BY DEF TypeOK, IsBuffer
<1>2. \A n \in Frames : n \in Nat
  BY SizeAssumption DEF Frames
<1>3. QED
  BY <1>1, <1>2, ThreeBuffers DEF Flow

\* A step that takes k frames from the front of what is on its way keeps the order.
LEMMA FrontLeaves ==
  ASSUME TInv, TInv', FlowIsInOrder, FlowWasAsked,
         NEW k \in 0..Len(Flow),
         Len(Flow') = Len(Flow) - k,
         \A i \in 1..Len(Flow) - k : Flow'[i] = Flow[i + k],
         heard' = heard \/ (k > 0 /\ heard' = Flow[k]),
         UNCHANGED <<hasInput, asked>>
  PROVE  FlowIsInOrder' /\ FlowWasAsked'
<1>1. /\ Len(Flow) \in Nat /\ k \in Nat /\ asked \in Nat /\ heard \in Nat
      /\ \A i \in 1..Len(Flow) : Flow[i] \in Nat
  BY FlowType, SizeAssumption DEF TInv, TypeOK
<1>2. \A i \in 1..Len(Flow') : i + k \in 1..Len(Flow) /\ Flow'[i] = Flow[i + k]
  BY <1>1
<1>3. \A i, j \in 1..Len(Flow') : i < j => i + k < j + k
  BY <1>1
<1>4. \A i, j \in 1..Len(Flow') : i < j => Flow'[i] < Flow'[j]
  BY <1>2, <1>3 DEF FlowIsInOrder
<1>5. \A i \in 1..Len(Flow') : heard' < Flow'[i]
  <2>1. SUFFICES ASSUME NEW i \in 1..Len(Flow') PROVE heard' < Flow'[i]
    OBVIOUS
  <2>2. CASE heard' = heard
    BY <1>2, <2>2 DEF FlowIsInOrder
  <2>3. CASE k > 0 /\ heard' = Flow[k]
    BY <1>1, <1>2, <2>3 DEF FlowIsInOrder
  <2>4. QED
    BY <2>2, <2>3
<1>6. hasInput' => \A i \in 1..Len(Flow') : Flow'[i] = asked' - Len(Flow') + i
  BY <1>1, <1>2 DEF FlowIsInOrder
<1>7. heard' <= asked'
  BY <1>1 DEF FlowWasAsked
<1>8. \A i \in 1..Len(Flow') : Flow'[i] <= asked'
  BY <1>2 DEF FlowWasAsked
<1>9. QED
  BY <1>4, <1>5, <1>6, <1>7, <1>8 DEF FlowIsInOrder, FlowWasAsked

\* A step that adds the frames a callback asks for, behind the first n of those on
\* their way, keeps the order.
LEMMA NewFramesFollow ==
  ASSUME TInv, FlowIsInOrder, FlowWasAsked, apc = "ask",
         NEW n \in 0..Len(Flow),
         Len(Flow') = n + wanted,
         \A i \in 1..n : Flow'[i] = Flow[i],
         \A i \in 1..wanted : Flow'[n + i] = asked + i,
         hasInput => n = Len(Flow),
         asked' = asked + wanted,
         UNCHANGED <<hasInput, heard>>
  PROVE  FlowIsInOrder' /\ FlowWasAsked'
<1>1. /\ Len(Flow) \in Nat /\ n \in Nat /\ wanted \in Nat /\ asked \in Nat /\ heard \in Nat
      /\ \A i \in 1..Len(Flow) : Flow[i] \in Nat
  BY FlowType, SizeAssumption DEF TInv, TypeOK
<1>2. \A i \in 1..Len(Flow') :
        \/ i \in 1..n /\ i \in 1..Len(Flow) /\ Flow'[i] = Flow[i]
        \/ i - n \in 1..wanted /\ Flow'[i] = asked + (i - n)
  <2>1. SUFFICES ASSUME NEW i \in 1..Len(Flow'), i > n
                 PROVE  i - n \in 1..wanted /\ Flow'[i] = asked + (i - n)
    BY <1>1
  <2>2. i - n \in 1..wanted /\ n + (i - n) = i
    BY <1>1, <2>1
  <2>3. QED
    BY <2>2
<1>3. \A i, j \in 1..Len(Flow') : i < j => Flow'[i] < Flow'[j]
  BY <1>1, <1>2 DEF FlowIsInOrder, FlowWasAsked
<1>4. \A i \in 1..Len(Flow') : heard' < Flow'[i] /\ Flow'[i] <= asked'
  BY <1>1, <1>2 DEF FlowIsInOrder, FlowWasAsked
<1>5. hasInput' => \A i \in 1..Len(Flow') : Flow'[i] = asked' - Len(Flow') + i
  BY <1>1, <1>2 DEF FlowIsInOrder
<1>6. heard' <= asked'
  BY <1>1 DEF FlowWasAsked
<1>7. QED
  BY <1>3, <1>4, <1>5, <1>6 DEF FlowIsInOrder, FlowWasAsked

\* A callback discards the front of what is on its way.
LEMMA CallbackKeepsFlow ==
  ASSUME TInv, TInv', FInv, Callback
  PROVE  FInv'
<1>1. /\ Flow' = <<>> \o block \o request /\ out' = <<>> /\ apc' = "ask"
      /\ clean' => request = <<>> /\ block = <<>>
  BY DEF Callback, Flow, procVars
<1>2. /\ block \in Seq(Frames) /\ request \in Seq(Frames) /\ <<>> \in Seq(Frames)
      /\ Len(<<>>) = 0
  BY EmptySeq DEF TInv, TypeOK, IsBuffer
<1>3. Flow' = block \o request
  BY <1>1, <1>2, ConcatEmptySeq
<1>4. /\ Len(Flow') = Len(block) + Len(request)
      /\ \A i \in 1..Len(block) + Len(request) : Flow'[i] =
           IF i <= Len(block) THEN block[i] ELSE request[i - Len(block)]
  BY <1>2, <1>3, ConcatProperties
<1>5. \A i \in 1..Len(block) + Len(request) : Flow'[i] = Flow[i + Len(outRing)]
  <2>1. SUFFICES ASSUME NEW i \in 1..Len(block) + Len(request)
                 PROVE  Flow'[i] = Flow[i + Len(outRing)]
    OBVIOUS
  <2>2. Len(block) \in Nat /\ Len(request) \in Nat /\ Len(outRing) \in Nat
    BY FlowType DEF TInv
  <2>3. CASE i <= Len(block)
    BY <1>4, <2>2, <2>3, FlowType DEF TInv
  <2>4. CASE i > Len(block)
    <3>1. /\ i - Len(block) \in 1..Len(request)
          /\ Len(outRing) + Len(block) + (i - Len(block)) = i + Len(outRing)
      BY <2>2, <2>4
    <3>2. Flow'[i] = request[i - Len(block)]
      BY <1>4, <2>2, <2>4
    <3>3. QED
      BY <3>1, <3>2, FlowType DEF TInv
  <2>5. QED
    BY <2>2, <2>3, <2>4
<1>6. /\ Len(outRing) \in 0..Len(Flow)
      /\ Len(Flow) - Len(outRing) = Len(block) + Len(request)
  BY FlowType DEF TInv
<1>7. FlowIsInOrder' /\ FlowWasAsked'
  BY <1>4, <1>5, <1>6, FrontLeaves DEF FInv, Callback
<1>8. clean' => Flow' = <<>>
  BY <1>1, <1>2, <1>3, ConcatEmptySeq
<1>9. FlowIsOwn' /\ CleanCallbackPlaysItsOwn'
  BY <1>1, <1>8 DEF FlowIsOwn, CleanCallbackPlaysItsOwn
<1>10. QED
  BY <1>7, <1>9 DEF FInv

\* A callback asks for new frames.  Without audio inputs they replace those that
\* the process thread has not taken.
LEMMA AskKeepsFlow ==
  ASSUME TInv, TInv', FInv, Ask
  PROVE  FInv'
<1>1. /\ NewFrames \in Seq(Frames) /\ Len(NewFrames) = wanted
      /\ \A i \in 1..wanted : NewFrames[i] = asked + i
  BY NewFramesType DEF TInv, Ask
<1>2. /\ outRing \in Seq(Frames) /\ block \in Seq(Frames) /\ request \in Seq(Frames)
      /\ wanted \in Nat /\ <<>> \in Seq(Frames) /\ Len(<<>>) = 0
  BY SizeAssumption, EmptySeq DEF TInv, TypeOK, IsBuffer
<1>3. /\ Flow' = outRing \o block \o request' /\ own' = NewFrames
      /\ UNCHANGED <<hasInput, heard, out, clean, wanted>>
      /\ asked' = asked + wanted /\ apc = "ask" /\ apc' = "poll"
  BY DEF Ask, Flow, procVars
<1>4. CASE hasInput
  <2>1. Flow' = Flow \o NewFrames
    <3>1. outRing \o block \in Seq(Frames)
      BY <1>2, ConcatProperties
    <3>2. request' = request \o NewFrames
      BY <1>4 DEF Ask
    <3>3. (outRing \o block) \o (request \o NewFrames) = (outRing \o block \o request) \o NewFrames
      <4>1. ASSUME NEW s \in Seq(Frames), NEW t \in Seq(Frames), NEW u \in Seq(Frames)
            PROVE  s \o (t \o u) = (s \o t) \o u
        BY ONLY ConcatAssociative
      <4>2. QED
        BY <1>1, <1>2, <3>1, <4>1, Zenon
    <3>4. QED
      BY <1>3, <3>2, <3>3 DEF Flow
  <2>2. Flow \in Seq(Frames) /\ Len(Flow) \in Nat
    BY FlowType, LenProperties DEF TInv
  <2>3. /\ Len(Flow') = Len(Flow) + wanted
        /\ \A i \in 1..Len(Flow) + wanted : Flow'[i] =
             IF i <= Len(Flow) THEN Flow[i] ELSE NewFrames[i - Len(Flow)]
    BY <1>1, <2>1, <2>2, ConcatProperties
  <2>4. \A i \in 1..wanted : Flow'[Len(Flow) + i] = asked + i
    <3>1. SUFFICES ASSUME NEW i \in 1..wanted PROVE Flow'[Len(Flow) + i] = asked + i
      OBVIOUS
    <3>2. /\ Len(Flow) + i \in 1..Len(Flow) + wanted /\ ~(Len(Flow) + i <= Len(Flow))
          /\ (Len(Flow) + i) - Len(Flow) = i
      BY <1>2, <2>2
    <3>3. QED
      BY <1>1, <2>3, <3>2
  <2>5. FlowIsInOrder' /\ FlowWasAsked'
    <3>1. Len(Flow) \in 0..Len(Flow) /\ \A i \in 1..Len(Flow) : Flow'[i] = Flow[i]
      BY <1>2, <2>2, <2>3
    <3>2. QED
      BY <1>3, <2>3, <2>4, <3>1, NewFramesFollow DEF FInv
  <2>6. clean => Flow' = NewFrames
    BY <1>1, <1>3, <2>1, ConcatEmptySeq DEF FInv, FlowIsOwn
  <2>7. FlowIsOwn' /\ CleanCallbackPlaysItsOwn'
    BY <1>1, <1>3, <2>6 DEF FInv, FlowIsOwn, CleanCallbackPlaysItsOwn
  <2>8. QED
    BY <2>5, <2>7 DEF FInv
<1>5. CASE ~hasInput
  <2>1. Flow' = outRing \o block \o NewFrames
    BY <1>3, <1>5 DEF Ask
  <2> DEFINE n == Len(outRing) + Len(block)
  <2>2. /\ Len(outRing) \in Nat /\ Len(block) \in Nat /\ n \in 0..Len(Flow)
        /\ \A i \in 1..Len(outRing) : Flow[i] = outRing[i]
        /\ \A i \in 1..Len(block) : Flow[Len(outRing) + i] = block[i]
    BY FlowType DEF TInv
  <2>3. /\ Len(Flow') = n + wanted
        /\ \A i \in 1..Len(outRing) : Flow'[i] = outRing[i]
        /\ \A i \in 1..Len(block) : Flow'[Len(outRing) + i] = block[i]
        /\ \A i \in 1..wanted : Flow'[n + i] = asked + i
    <3>1. /\ Len(Flow') = Len(outRing) + Len(block) + Len(NewFrames)
          /\ \A i \in 1..Len(NewFrames) : Flow'[Len(outRing) + Len(block) + i] = NewFrames[i]
      <4>1. ASSUME NEW c \in Seq(Frames)
            PROVE  /\ Len(outRing \o block \o c) = Len(outRing) + Len(block) + Len(c)
                   /\ \A i \in 1..Len(c) :
                        (outRing \o block \o c)[Len(outRing) + Len(block) + i] = c[i]
        BY <1>2, ThreeBuffers
      <4>2. QED
        BY <1>1, <2>1, <4>1, Zenon
    <3>2. /\ \A i \in 1..Len(outRing) : Flow'[i] = outRing[i]
          /\ \A i \in 1..Len(block) : Flow'[Len(outRing) + i] = block[i]
      BY <1>1, <1>2, <2>1, ThreeBuffers
    <3>3. QED
      BY <1>1, <3>1, <3>2
  <2>4. \A i \in 1..n : Flow'[i] = Flow[i]
    <3>1. SUFFICES ASSUME NEW i \in 1..n PROVE Flow'[i] = Flow[i]
      OBVIOUS
    <3>2. CASE i <= Len(outRing)
      BY <2>2, <2>3, <3>2
    <3>3. CASE i > Len(outRing)
      <4>1. i - Len(outRing) \in 1..Len(block) /\ Len(outRing) + (i - Len(outRing)) = i
        BY <2>2, <3>3
      <4>2. QED
        BY <2>2, <2>3, <4>1
    <3>4. QED
      BY <2>2, <3>2, <3>3
  <2>5. FlowIsInOrder' /\ FlowWasAsked'
    <3> HIDE DEF n
    <3>1. QED
      BY <1>3, <1>5, <2>2, <2>3, <2>4, NewFramesFollow DEF FInv
  <2>6. clean => Flow' = NewFrames
    <3>1. clean => outRing \o block \o request = <<>>
      BY <1>3 DEF FInv, FlowIsOwn, Flow
    <3>2. clean => outRing \o block = <<>>
      <4>1. outRing \o block \in Seq(Frames)
        BY <1>2, ConcatProperties
      <4>2. QED
        BY <1>2, <3>1, <4>1, ConcatEqualIffEmpty
    <3>3. QED
      BY <1>1, <2>1, <3>2, ConcatEmptySeq
  <2>7. FlowIsOwn' /\ CleanCallbackPlaysItsOwn'
    BY <1>1, <1>3, <2>6 DEF FInv, FlowIsOwn, CleanCallbackPlaysItsOwn
  <2>8. QED
    BY <2>5, <2>7 DEF FInv
<1>6. QED
  BY <1>4, <1>5

\* A callback plays the front of what is on its way.
LEMMA PlayKeepsFlow ==
  ASSUME TInv, TInv', FInv, Play
  PROVE  FInv'
<1>1. /\ out' \in Seq(Frames) /\ Len(out') = wanted
      /\ \A i \in 1..wanted : out'[i] = outRing[i]
      /\ outRing' \in Seq(Frames) /\ Len(outRing') = Len(outRing) - wanted
      /\ \A i \in 1..Len(outRing) - wanted : outRing'[i] = outRing[i + wanted]
      /\ heard' = outRing[wanted]
  BY PlayedType DEF TInv
<1>2. /\ block \in Seq(Frames) /\ request \in Seq(Frames) /\ own \in Seq(Frames)
      /\ wanted \in Nat /\ wanted > 0 /\ wanted <= Len(outRing)
  BY SizeAssumption DEF TInv, TypeOK, IsBuffer, Play, CallbackInProgress
<1>3. /\ Flow' = outRing' \o block \o request /\ apc = "poll" /\ apc' = "idle"
      /\ UNCHANGED <<hasInput, asked, own, clean, wanted>>
  BY DEF Play, Flow, procVars
<1>4. /\ Len(outRing) \in Nat /\ Len(block) \in Nat /\ Len(request) \in Nat
      /\ Len(Flow) = Len(outRing) + Len(block) + Len(request)
      /\ \A i \in 1..Len(outRing) : Flow[i] = outRing[i]
      /\ \A i \in 1..Len(block) : Flow[Len(outRing) + i] = block[i]
      /\ \A i \in 1..Len(request) : Flow[Len(outRing) + Len(block) + i] = request[i]
  BY FlowType DEF TInv
<1>5. /\ Len(Flow') = Len(outRing') + Len(block) + Len(request)
      /\ \A i \in 1..Len(outRing') : Flow'[i] = outRing'[i]
      /\ \A i \in 1..Len(block) : Flow'[Len(outRing') + i] = block[i]
      /\ \A i \in 1..Len(request) : Flow'[Len(outRing') + Len(block) + i] = request[i]
  <2>1. ASSUME NEW a \in Seq(Frames)
        PROVE  /\ Len(a \o block \o request) = Len(a) + Len(block) + Len(request)
               /\ \A i \in 1..Len(a) : (a \o block \o request)[i] = a[i]
               /\ \A i \in 1..Len(block) : (a \o block \o request)[Len(a) + i] = block[i]
               /\ \A i \in 1..Len(request) :
                    (a \o block \o request)[Len(a) + Len(block) + i] = request[i]
    BY <1>2, ThreeBuffers
  <2>2. QED
    BY <1>1, <1>3, <2>1, Zenon
<1>6. \A i \in 1..Len(Flow) - wanted : Flow'[i] = Flow[i + wanted]
  <2>1. SUFFICES ASSUME NEW i \in 1..Len(Flow) - wanted PROVE Flow'[i] = Flow[i + wanted]
    OBVIOUS
  <2>2. CASE i <= Len(outRing')
    <3>1. i \in 1..Len(outRing') /\ i + wanted \in 1..Len(outRing)
      BY <1>1, <1>2, <1>4, <2>2
    <3>2. QED
      BY <1>1, <1>4, <1>5, <3>1
  <2>3. CASE i > Len(outRing') /\ i <= Len(outRing') + Len(block)
    <3>1. /\ i - Len(outRing') \in 1..Len(block)
          /\ Len(outRing') + (i - Len(outRing')) = i
          /\ Len(outRing) + (i - Len(outRing')) = i + wanted
      BY <1>1, <1>2, <1>4, <2>3
    <3>2. QED
      BY <1>4, <1>5, <3>1
  <2>4. CASE i > Len(outRing') + Len(block)
    <3> DEFINE j == i - (Len(outRing') + Len(block))
    <3>1. /\ j \in 1..Len(request)
          /\ Len(outRing') + Len(block) + j = i
          /\ Len(outRing) + Len(block) + j = i + wanted
      BY <1>1, <1>2, <1>4, <2>4
    <3> HIDE DEF j
    <3>2. QED
      BY <1>4, <1>5, <3>1
  <2>5. QED
    BY <1>1, <1>2, <1>4, <2>2, <2>3, <2>4
<1>7. FlowIsInOrder' /\ FlowWasAsked'
  <2>1. /\ wanted \in 0..Len(Flow) /\ Len(Flow') = Len(Flow) - wanted
        /\ heard' = Flow[wanted]
    BY <1>1, <1>2, <1>4, <1>5
  <2>2. QED
    BY <1>2, <1>3, <1>6, <2>1, FrontLeaves DEF FInv
<1>8. CleanCallbackPlaysItsOwn'
  <2>1. SUFFICES ASSUME clean PROVE out' = own'
    BY <1>3 DEF CleanCallbackPlaysItsOwn
  <2>2. Flow = own /\ Len(own) = wanted
    BY <1>3, <2>1 DEF FInv, FlowIsOwn
  <2>3. \A i \in 1..wanted : out'[i] = own[i]
    BY <1>1, <1>2, <1>4, <2>2
  <2>4. QED
    BY <1>1, <1>2, <1>3, <2>2, <2>3, SeqEqual
<1>9. FlowIsOwn'
  BY <1>3 DEF FlowIsOwn
<1>10. QED
  BY <1>7, <1>8, <1>9 DEF FInv

\* The process thread moves frames along, and changes nothing of what is on its way;
\* neither does the main thread, nor a callback that ends in silence.
LEMMA OthersKeepFlow ==
  ASSUME TInv, [Next]_vars, ~Callback, ~Ask, ~Play
  PROVE  Flow' = Flow /\ UNCHANGED <<hasInput, heard, asked, out, own, clean, wanted>>
         /\ (apc' = apc \/ apc' = "idle")
<1>1. /\ outRing \in Seq(Frames) /\ block \in Seq(Frames) /\ request \in Seq(Frames)
      /\ <<>> \in Seq(Frames)
  BY EmptySeq DEF TInv, TypeOK, IsBuffer
<1>2. CASE Take
  <2>1. block = <<>> /\ block' = request /\ request' = <<>> /\ outRing' = outRing
    BY <1>2 DEF Take, TInv, BlockIsHeld
  <2>2. outRing \o <<>> \o request = outRing \o request \o <<>>
    <3>1. outRing \o <<>> = outRing /\ outRing \o request \in Seq(Frames)
      BY <1>1, ConcatEmptySeq, ConcatProperties
    <3>2. outRing \o request \o <<>> = outRing \o request
      BY <3>1, ConcatEmptySeq
    <3>3. QED
      BY <3>1, <3>2
  <2>3. QED
    BY <1>2, <2>1, <2>2 DEF Flow, Take, audioVars
<1>3. CASE Write
  <2>1. outRing' = outRing \o block /\ block' = <<>> /\ request' = request
    BY <1>3 DEF Write
  <2>2. (outRing \o block) \o <<>> = outRing \o block
    <3>1. outRing \o block \in Seq(Frames)
      BY <1>1, ConcatProperties
    <3>2. QED
      BY <3>1, ConcatEmptySeq
  <2>3. QED
    BY <1>3, <2>1, <2>2 DEF Flow, Write, audioVars
<1>4. CASE AskInVain \/ Underrun
  BY <1>4 DEF AskInVain, Underrun, Flow, sharedVars, procVars
<1>5. CASE CheckRun \/ SleepOneInterval \/ SeeAudioGone \/ Deactivate \/ WriteInVain
  BY <1>5 DEF CheckRun, SleepOneInterval, SeeAudioGone, Deactivate, WriteInVain, Flow,
              sharedVars, audioVars
<1>6. CASE StopProcessThread \/ CollectAudioThread \/ CollectProcessThread
  BY <1>6 DEF StopProcessThread, CollectAudioThread, CollectProcessThread, Flow,
              audioVars, procVars
<1>7. CASE UNCHANGED vars
  BY <1>7 DEF vars, sharedVars, audioVars, procVars, Flow
<1>8. QED
  BY <1>2, <1>3, <1>4, <1>5, <1>6, <1>7 DEF Next, Audio, Process, Main

\* Nothing is out of order when nothing is on its way.
LEMMA InitFInv == Init => FInv
<1> SUFFICES ASSUME Init PROVE FInv
  OBVIOUS
<1>1. Flow = <<>>
  <2>1. <<>> \in Seq(Frames) /\ <<>> \o <<>> = <<>>
    BY EmptySeq, ConcatEmptySeq
  <2>2. QED
    BY <2>1 DEF Init, Flow
<1>2. Len(Flow) = 0
  BY <1>1, EmptySeq
<1>3. QED
  BY <1>1, <1>2
     DEF Init, FInv, FlowIsInOrder, FlowWasAsked, FlowIsOwn, CleanCallbackPlaysItsOwn

\* Every step keeps the order.
LEMMA FInvStep ==
  ASSUME TInv, TInv', FInv, [Next]_vars
  PROVE  FInv'
<1>1. CASE Callback
  BY <1>1, CallbackKeepsFlow
<1>2. CASE Ask
  BY <1>2, AskKeepsFlow
<1>3. CASE Play
  BY <1>3, PlayKeepsFlow
<1>4. CASE ~Callback /\ ~Ask /\ ~Play
  <2>1. Flow' = Flow /\ UNCHANGED <<hasInput, heard, asked, out, own, clean, wanted>>
        /\ (apc' = apc \/ apc' = "idle")
    BY <1>4, OthersKeepFlow
  <2>2. FlowIsInOrder' /\ FlowWasAsked'
    BY <2>1 DEF FInv, FlowIsInOrder, FlowWasAsked
  <2>3. FlowIsOwn'
    BY <2>1 DEF FInv, FlowIsOwn
  <2>4. CleanCallbackPlaysItsOwn'
    BY <2>1 DEF FInv, FlowIsOwn, CleanCallbackPlaysItsOwn
  <2>5. QED
    BY <2>2, <2>3, <2>4 DEF FInv
<1>5. QED
  BY <1>1, <1>2, <1>3, <1>4

----------------------------------------------------------------------------
(* The theorems *)

\* The invariants hold in every state.
THEOREM Invariance == Spec => [](TInv /\ FInv)
<1>1. Init => TInv /\ FInv
  BY InitTInv, InitFInv
<1>2. TInv /\ FInv /\ [Next]_vars => TInv' /\ FInv'
  BY TInvStep, FInvStep
<1>3. QED
  BY <1>1, <1>2, PTL DEF Spec

\* Every variable keeps its type; a ring never holds more than its capacity.
THEOREM TypeCorrect == Spec => []TypeOK
BY Invariance, PTL DEF TInv

\* Without audio inputs the process thread never fails for a full ring, for any ring
\* with room for three callbacks.
THEOREM NoInputIsSafe == Spec => []NoInputNeverFails
BY Invariance, PTL DEF TInv

\* Frames go through the process thread once and in order, and the input without gaps.
THEOREM FlowKeepsOrder == Spec => []FlowIsInOrder
BY Invariance, PTL DEF FInv

\* A callback that begins with nothing on its way plays its own frames, or silence.
THEOREM CleanCallbacksAreRight == Spec => []CleanCallbackPlaysItsOwn
BY Invariance, PTL DEF FInv
=============================================================================
