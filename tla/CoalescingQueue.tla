--------------------------- MODULE CoalescingQueue ---------------------------
(***************************************************************************)
(* What a reducing queue (utils/reducing_queue.rs) promises its two ends:  *)
(* the producer's writes gather in a batch, a later write to a slot        *)
(* replaces an earlier one, a whole batch is handed over at once, and the  *)
(* consumer takes whole batches in the order they were handed over.        *)
(*                                                                         *)
(* A slot is one field of the entry of one parameter: its value, or its    *)
(* gesture.  ProcToMainParamValue::update replaces each field by itself.   *)
(***************************************************************************)
CONSTANTS
  Slots,
  Values,
  None     \* no entry, or a field the entry leaves out

VARIABLES
  staged,  \* what the producer wrote and did not hand over
  ready,   \* the batch handed over and not taken yet
  taken    \* the latest value the consumer took from each slot

Batch == [Slots -> Values \cup {None}]

Nothing == [s \in Slots |-> None]

Override(old, new) ==
  [s \in Slots |-> IF new[s] = None THEN old[s] ELSE new[s]]

Init ==
  /\ staged = Nothing
  /\ ready = Nothing
  /\ taken = Nothing

Write(s, v) ==
  /\ staged' = [staged EXCEPT ![s] = v]
  /\ UNCHANGED <<ready, taken>>

HandOver ==
  /\ ready = Nothing
  /\ ready' = staged
  /\ staged' = Nothing
  /\ UNCHANGED taken

Take ==
  /\ taken' = Override(taken, ready)
  /\ ready' = Nothing
  /\ UNCHANGED staged

Next ==
  \/ \E s \in Slots, v \in Values : Write(s, v)
  \/ HandOver
  \/ Take

Spec == Init /\ [][Next]_<<staged, ready, taken>>
============================================================================
