----------------------------- MODULE AudioCycle -----------------------------
(***************************************************************************)
(* The two loops that carry the sound: the callback of the sound card      *)
(* (engine/audio_thread.rs) and the process thread                         *)
(* (engine/process_thread.rs), with the ring or the counter from the first *)
(* to the second and the ring back.                                        *)
(*                                                                         *)
(* The unit is the frame, one sample of every channel.  A frame is named   *)
(* by its place among all the frames asked for, and the frame the process  *)
(* thread computes from it has the same name.  Each action is what one     *)
(* thread does between two accesses to what they share.                    *)
(*                                                                         *)
(* An operator whose name ends in _Fault is the operator after it with a   *)
(* plausible bug.  No action uses it: some property fails if one does.     *)
(***************************************************************************)
EXTENDS Integers, Sequences

CONSTANTS
  MaxFrames,  \* frames of a callback, at most
  Capacity,   \* frames a ring can hold
  Horizon     \* bound: frames the audio thread asks for

ASSUME SizeAssumption ==
  /\ MaxFrames \in Nat \ {0}
  /\ Capacity \in Nat
  /\ Capacity >= 3 * MaxFrames
  /\ Horizon \in Nat

VARIABLES
  \* -- shared
  hasInput,   \* the graph has audio inputs: HasInputAudio, not NoInputAudio
  request,    \* frames asked for: the input ring, or num_frames_wanted
  outRing,    \* process_to_audio_channel
  run,        \* run_process_thread
  audioGone,  \* the collector freed the audio thread's ends of the channels
  procGone,   \* the collector freed the process thread's ends
  \* -- audio thread
  apc,        \* where the callback is
  wanted,     \* total_frames
  out,        \* what it gives the sound card; empty: silence
  \* -- process thread
  ppc,        \* where the process thread is
  block,      \* the frames it took and did not give back
  \* -- history
  asked,      \* frames asked for so far
  own,        \* the frames this callback asked for
  clean,      \* nothing was on its way when this callback began
  heard       \* the last frame played

sharedVars == <<hasInput, request, outRing, run, audioGone, procGone>>
audioVars == <<apc, wanted, out, asked, own, clean, heard>>
procVars == <<ppc, block>>
vars == <<sharedVars, audioVars, procVars>>

----------------------------------------------------------------------------

Frames == 1..Horizon

\* A buffer that has room for n frames.
IsBuffer(b, n) == b \in Seq(Frames) /\ Len(b) <= n

TypeOK ==
  /\ hasInput \in BOOLEAN
  /\ IsBuffer(request, Capacity)
  /\ IsBuffer(outRing, Capacity)
  /\ run \in BOOLEAN
  /\ audioGone \in BOOLEAN
  /\ procGone \in BOOLEAN
  /\ apc \in {"idle", "ask", "poll"}
  /\ wanted \in 0..MaxFrames
  /\ IsBuffer(out, MaxFrames)
  /\ ppc \in {"loop", "take", "write", "stop", "ended", "failed"}
  /\ IsBuffer(block, Capacity)
  /\ asked \in 0..Horizon
  /\ IsBuffer(own, MaxFrames)
  /\ clean \in BOOLEAN
  /\ heard \in 0..Horizon

Init ==
  /\ hasInput \in BOOLEAN
  /\ request = <<>>
  /\ outRing = <<>>
  /\ run = TRUE
  /\ audioGone = FALSE
  /\ procGone = FALSE
  /\ apc = "idle"
  /\ wanted = 0
  /\ out = <<>>
  /\ ppc = "loop"
  /\ block = <<>>
  /\ asked = 0
  /\ own = <<>>
  /\ clean = TRUE
  /\ heard = 0

\* The fault: one frame too many.
Room_Fault(ring, n) == Len(ring) + n <= Capacity + 1

\* write_chunk succeeds only when the whole chunk fits.
Room(ring, n) == Len(ring) + n <= Capacity

----------------------------------------------------------------------------
(* Audio thread: process_cpal_interleaved_output_only *)

\* The fault: late output stays in the ring.
Callback_Fault ==
  /\ apc = "idle" /\ ~audioGone
  /\ wanted' \in {n \in 1..MaxFrames : asked + n <= Horizon}
  /\ out' = <<>>
  /\ own' = <<>>
  /\ clean' = (request = <<>> /\ block = <<>>)
  /\ apc' = "ask"
  /\ UNCHANGED <<sharedVars, procVars, asked, heard>>

\* The callback begins: whatever is in the output ring is discarded.
Callback ==
  /\ apc = "idle" /\ ~audioGone
  /\ wanted' \in {n \in 1..MaxFrames : asked + n <= Horizon}
  /\ outRing' = <<>>
  /\ out' = <<>>
  /\ own' = <<>>
  /\ clean' = (request = <<>> /\ block = <<>>)
  /\ apc' = "ask"
  /\ UNCHANGED <<hasInput, request, run, audioGone, procGone, procVars, asked, heard>>

NewFrames == [i \in 1..wanted |-> asked + i]

\* With audio inputs the frames are appended; without, the number wanted
\* replaces the last one, taken or not.
Ask ==
  /\ apc = "ask" /\ ~procGone
  /\ hasInput => Room(request, wanted)
  /\ request' = IF hasInput THEN request \o NewFrames ELSE NewFrames
  /\ own' = NewFrames
  /\ asked' = asked + wanted
  /\ apc' = "poll"
  /\ UNCHANGED <<hasInput, outRing, run, audioGone, procGone, procVars, wanted,
                 out, clean, heard>>

\* The process thread is gone, or has not emptied the ring: silence.
AskInVain ==
  /\ apc = "ask"
  /\ procGone \/ (hasInput /\ ~Room(request, wanted))
  /\ apc' = "idle"
  /\ UNCHANGED <<sharedVars, procVars, wanted, out, asked, own, clean, heard>>

\* The fault: the chunk that was read is not committed.
Play_Fault ==
  /\ apc = "poll" /\ Len(outRing) >= wanted
  /\ out' = SubSeq(outRing, 1, wanted)
  /\ heard' = outRing[wanted]
  /\ apc' = "idle"
  /\ UNCHANGED <<sharedVars, procVars, wanted, asked, own, clean>>

Play ==
  /\ apc = "poll" /\ Len(outRing) >= wanted
  /\ out' = SubSeq(outRing, 1, wanted)
  /\ outRing' = SubSeq(outRing, wanted + 1, Len(outRing))
  /\ heard' = outRing[wanted]
  /\ apc' = "idle"
  /\ UNCHANGED <<hasInput, request, run, audioGone, procGone, procVars, wanted,
                 asked, own, clean>>

\* The frames did not come in time: silence.
Underrun ==
  /\ apc = "poll" /\ Len(outRing) < wanted
  /\ apc' = "idle"
  /\ UNCHANGED <<sharedVars, procVars, wanted, out, asked, own, clean, heard>>

----------------------------------------------------------------------------
(* Process thread: DSEngineProcessThread::run *)

\* The fault: the flag is not looked at.
CheckRun_Fault ==
  /\ ppc = "loop"
  /\ ppc' = "take"
  /\ UNCHANGED <<sharedVars, audioVars, block>>

CheckRun ==
  /\ ppc = "loop"
  /\ ppc' = IF run THEN "take" ELSE "stop"
  /\ UNCHANGED <<sharedVars, audioVars, block>>

SleepOneInterval ==
  /\ ppc = "take" /\ ~audioGone /\ request = <<>>
  /\ ppc' = "loop"
  /\ UNCHANGED <<sharedVars, audioVars, block>>

\* The fault: num_frames_wanted is read and not reset.
Take_Fault ==
  /\ ppc = "take" /\ ~audioGone /\ request # <<>>
  /\ block' = request
  /\ ppc' = "write"
  /\ UNCHANGED <<sharedVars, audioVars>>

\* All that was asked for is processed as one cycle, however late it is.
Take ==
  /\ ppc = "take" /\ ~audioGone /\ request # <<>>
  /\ block' = request
  /\ request' = <<>>
  /\ ppc' = "write"
  /\ UNCHANGED <<hasInput, outRing, run, audioGone, procGone, audioVars>>

SeeAudioGone ==
  /\ ppc = "take" /\ audioGone
  /\ run' = FALSE
  /\ ppc' = "stop"
  /\ UNCHANGED <<hasInput, request, outRing, audioGone, procGone, audioVars, block>>

Write ==
  /\ ppc = "write" /\ Room(outRing, Len(block))
  /\ outRing' = outRing \o block
  /\ block' = <<>>
  /\ ppc' = "loop"
  /\ UNCHANGED <<hasInput, request, run, audioGone, procGone, audioVars>>

\* run() returns, and leaves the schedule as it is.
WriteInVain ==
  /\ ppc = "write" /\ ~Room(outRing, Len(block))
  /\ ppc' = "failed"
  /\ UNCHANGED <<sharedVars, audioVars, block>>

\* ProcessorSchedule::deactivate drops the processors that are to be stopped.
Deactivate ==
  /\ ppc = "stop"
  /\ ppc' = "ended"
  /\ UNCHANGED <<sharedVars, audioVars, block>>

----------------------------------------------------------------------------
(* Main thread *)

\* Drop of ActivatedState, which then joins the process thread.
StopProcessThread ==
  /\ run
  /\ run' = FALSE
  /\ UNCHANGED <<hasInput, request, outRing, audioGone, procGone, audioVars, procVars>>

\* The application dropped its DSEngineAudioThread, or the process thread has
\* ended, and the collector has run since.
CollectAudioThread ==
  /\ apc = "idle" /\ ~audioGone
  /\ audioGone' = TRUE
  /\ UNCHANGED <<hasInput, request, outRing, run, procGone, audioVars, procVars>>

CollectProcessThread ==
  /\ ppc \in {"ended", "failed"} /\ ~procGone
  /\ procGone' = TRUE
  /\ UNCHANGED <<hasInput, request, outRing, run, audioGone, audioVars, procVars>>

----------------------------------------------------------------------------

Audio == Callback \/ Ask \/ AskInVain \/ Play \/ Underrun

Process ==
  \/ CheckRun \/ SleepOneInterval \/ Take \/ SeeAudioGone
  \/ Write \/ WriteInVain \/ Deactivate

Main == StopProcessThread \/ CollectAudioThread \/ CollectProcessThread

Next == Audio \/ Process \/ Main

Spec == Init /\ [][Next]_vars

\* The operating system runs the process thread.  Nothing is assumed of the sound
\* card or of the application.
FairSpec == Spec /\ WF_vars(Process)

----------------------------------------------------------------------------
(* Properties *)

\* Frames on their way through the process thread, the oldest first.
Flow == outRing \o block \o request

\* What is asked for goes through the process thread once and in order, and what
\* was played does not come again.  With audio inputs the input that was accepted
\* has no gap: only the oldest of it, late output, is ever thrown away.
FlowIsInOrder ==
  /\ \A i \in 1..Len(Flow) : heard < Flow[i]
  /\ \A i, j \in 1..Len(Flow) : i < j => Flow[i] < Flow[j]
  /\ hasInput => \A i \in 1..Len(Flow) : Flow[i] = asked - Len(Flow) + i

\* A callback that finds the process thread done with all it was asked before plays
\* its own frames or silence, however late earlier cycles were: the discard at its
\* start is enough then.
CleanCallbackPlaysItsOwn ==
  apc = "idle" /\ clean /\ out # <<>> => out = own

\* Without audio inputs a backlog cannot build up, and a ring of three callbacks is
\* enough: the process thread never returns because the ring is full.
NoInputNeverFails == ~hasInput => ppc # "failed"

\* When the engine is told to stop, or the audio thread was dropped, run() returns:
\* the join in the drop of ActivatedState does not wait for ever.
ProcessThreadEnds == (~run \/ audioGone) ~> ppc \in {"ended", "failed"}

----------------------------------------------------------------------------
(* A statement of the documentation that the code does not meet *)

\* engine/audio_thread.rs: "Discard any output from previous cycles that failed to
\* render on time": what a callback plays is never an earlier callback's.
LateOutputIsDiscarded == apc = "idle" /\ out # <<>> => out = own
=============================================================================
