---------------------------- MODULE ReducingQueue ----------------------------
(***************************************************************************)
(* The wait-free queue that carries parameter values between a plugin's    *)
(* host on the main thread and its processor on the process thread         *)
(* (utils/reducing_queue.rs).  Two maps and three atomic pointers: the     *)
(* producer fills the map of `producer`, the consumer empties the map of   *)
(* `consumer`, and `free` is the spare one.  Each action is what one       *)
(* thread does between two accesses to the pointers.                       *)
(*                                                                         *)
(* It is used in two ways.  "produce", process thread to main thread: at   *)
(* the end of every block, with any number of writes.  "set", main thread  *)
(* to process thread: `set` followed by `producer_done` when the user of   *)
(* the host sets a parameter or its modulation.                            *)
(*                                                                         *)
(* An operator whose name ends in _Fault is the operator after it with a   *)
(* plausible bug.  No action uses it: some property fails if one does.     *)
(***************************************************************************)
EXTENDS Integers

CONSTANTS
  Slots,
  Values,
  None     \* no entry, or a field the entry leaves out

ASSUME NoneAssumption == None \notin Values

VARIABLES
  use,         \* which of the two uses; it stays what it is
  queues,      \* the two maps
  free, producer, consumer,
  ppc,         \* where the producer is
  producer_i,  \* its locals
  freeRead,
  cpc,         \* where the consumer is
  consumer_i,  \* its local
  last,        \* history: the latest value written to each slot
  taken        \* history: the latest value the consumer's closure was given

pointers == <<free, producer, consumer>>
producerVars == <<ppc, producer_i, freeRead, last>>
consumerVars == <<cpc, consumer_i, taken>>
vars == <<use, queues, pointers, producerVars, consumerVars>>

----------------------------------------------------------------------------

Indices == {0, 1}
NULL_USIZE == 2    \* any number that is no index

\* A map, slot by slot.  ProcToMainParamValue always has a value or a gesture,
\* so that an entry without either is no entry.
Batch == [Slots -> Values \cup {None}]

Nothing == [s \in Slots |-> None]

Override(old, new) ==
  [s \in Slots |-> IF new[s] = None THEN old[s] ELSE new[s]]

TypeOK ==
  /\ use \in {"produce", "set"}
  /\ queues \in [Indices -> Batch]
  /\ free \in Indices \cup {NULL_USIZE}
  /\ producer \in Indices
  /\ consumer \in Indices \cup {NULL_USIZE}
  /\ ppc \in {"idle", "write", "load_consumer", "load_free", "store_producer",
              "store_free", "store_consumer"}
  /\ producer_i \in Indices
  /\ freeRead \in Indices
  /\ cpc \in {"idle", "iterate", "clear", "load_free", "store_free", "store_consumer"}
  /\ consumer_i \in Indices
  /\ last \in Batch
  /\ taken \in Batch

Init ==
  /\ use \in {"produce", "set"}
  /\ queues = [i \in Indices |-> Nothing]
  /\ free = 0
  /\ producer = 1
  /\ consumer = NULL_USIZE
  /\ ppc = "idle"
  /\ producer_i = 1
  /\ freeRead = 0
  /\ cpc = "idle"
  /\ consumer_i = 0
  /\ last = Nothing
  /\ taken = Nothing

----------------------------------------------------------------------------
(* Producer *)

\* set, or set_or_update on an entry that is there: ReducFnvValue::update
\* replaces the fields the new value has.
set_or_update(i, s, v) ==
  /\ queues' = [queues EXCEPT ![i][s] = v]
  /\ last' = [last EXCEPT ![s] = v]

\* set; producer_done follows.
Set(s, v) ==
  /\ use = "set"
  /\ ppc = "idle"
  /\ set_or_update(producer, s, v)
  /\ producer_i' = producer
  /\ ppc' = "load_consumer"
  /\ UNCHANGED <<use, pointers, freeRead, consumerVars>>

\* produce borrows the map until its closure returns.
BeginProduce ==
  /\ use = "produce"
  /\ ppc = "idle"
  /\ producer_i' = producer
  /\ ppc' = "write"
  /\ UNCHANGED <<use, queues, pointers, freeRead, last, consumerVars>>

WriteEntry(s, v) ==
  /\ ppc = "write"
  /\ set_or_update(producer_i, s, v)
  /\ UNCHANGED <<use, pointers, ppc, producer_i, freeRead, consumerVars>>

EndProduce ==
  /\ ppc = "write"
  /\ ppc' = "load_consumer"
  /\ UNCHANGED <<use, queues, pointers, producer_i, freeRead, last, consumerVars>>

\* The fault: not waiting for the consumer to return its map.
LoadConsumer_Fault ==
  /\ ppc = "load_consumer"
  /\ ppc' = "load_free"
  /\ UNCHANGED <<use, queues, pointers, producer_i, freeRead, last, consumerVars>>

\* The consumer still has a batch: this one stays with the producer.
LoadConsumer ==
  /\ ppc = "load_consumer"
  /\ ppc' = IF consumer # NULL_USIZE THEN "idle" ELSE "load_free"
  /\ UNCHANGED <<use, queues, pointers, producer_i, freeRead, last, consumerVars>>

\* The code panics when there is no spare map.
ProducerLoadsFree ==
  /\ ppc = "load_free"
  /\ free # NULL_USIZE
  /\ freeRead' = free
  /\ ppc' = "store_producer"
  /\ UNCHANGED <<use, queues, pointers, producer_i, last, consumerVars>>

ProducerStoresProducer ==
  /\ ppc = "store_producer"
  /\ producer' = freeRead
  /\ ppc' = "store_free"
  /\ UNCHANGED <<use, queues, free, consumer, producer_i, freeRead, last, consumerVars>>

\* The fault: the wrong pointer is cleared.
ProducerStoresFree_Fault ==
  /\ ppc = "store_free"
  /\ producer' = NULL_USIZE
  /\ ppc' = "store_consumer"
  /\ UNCHANGED <<use, queues, free, consumer, producer_i, freeRead, last, consumerVars>>

ProducerStoresFree ==
  /\ ppc = "store_free"
  /\ free' = NULL_USIZE
  /\ ppc' = "store_consumer"
  /\ UNCHANGED <<use, queues, producer, consumer, producer_i, freeRead, last, consumerVars>>

\* The fault: handing over the spare map instead of the filled one.
ProducerStoresConsumer_Fault ==
  /\ ppc = "store_consumer"
  /\ consumer' = producer
  /\ ppc' = "idle"
  /\ UNCHANGED <<use, queues, free, producer, producer_i, freeRead, last, consumerVars>>

ProducerStoresConsumer ==
  /\ ppc = "store_consumer"
  /\ consumer' = producer_i
  /\ ppc' = "idle"
  /\ UNCHANGED <<use, queues, free, producer, producer_i, freeRead, last, consumerVars>>

----------------------------------------------------------------------------
(* Consumer: consume.  It returns at once when `consumer` is NULL. *)

BeginConsume ==
  /\ cpc = "idle"
  /\ consumer # NULL_USIZE
  /\ consumer_i' = consumer
  /\ cpc' = "iterate"
  /\ UNCHANGED <<use, queues, pointers, producerVars, taken>>

Iterate ==
  /\ cpc = "iterate"
  /\ taken' = Override(taken, queues[consumer_i])
  /\ cpc' = "clear"
  /\ UNCHANGED <<use, queues, pointers, producerVars, consumer_i>>

\* The fault: the map goes back with its entries.
Clear_Fault ==
  /\ cpc = "clear"
  /\ cpc' = "load_free"
  /\ UNCHANGED <<use, queues, pointers, producerVars, consumer_i, taken>>

Clear ==
  /\ cpc = "clear"
  /\ queues' = [queues EXCEPT ![consumer_i] = Nothing]
  /\ cpc' = "load_free"
  /\ UNCHANGED <<use, pointers, producerVars, consumer_i, taken>>

\* The fault: the test the wrong way round.
ConsumerLoadsFree_Fault ==
  /\ cpc = "load_free"
  /\ cpc' = IF free = NULL_USIZE THEN "idle" ELSE "store_free"
  /\ UNCHANGED <<use, queues, pointers, producerVars, consumer_i, taken>>

ConsumerLoadsFree ==
  /\ cpc = "load_free"
  /\ cpc' = IF free # NULL_USIZE THEN "idle" ELSE "store_free"
  /\ UNCHANGED <<use, queues, pointers, producerVars, consumer_i, taken>>

ConsumerStoresFree ==
  /\ cpc = "store_free"
  /\ free' = consumer_i
  /\ cpc' = "store_consumer"
  /\ UNCHANGED <<use, queues, producer, consumer, producerVars, consumer_i, taken>>

ConsumerStoresConsumer ==
  /\ cpc = "store_consumer"
  /\ consumer' = NULL_USIZE
  /\ cpc' = "idle"
  /\ UNCHANGED <<use, queues, free, producer, producerVars, consumer_i, taken>>

----------------------------------------------------------------------------

Publish ==
  \/ LoadConsumer \/ ProducerLoadsFree \/ ProducerStoresProducer
  \/ ProducerStoresFree \/ ProducerStoresConsumer

Producer ==
  \/ \E s \in Slots, v \in Values : Set(s, v) \/ WriteEntry(s, v)
  \/ BeginProduce \/ EndProduce
  \/ Publish

Consumer ==
  \/ BeginConsume \/ Iterate \/ Clear
  \/ ConsumerLoadsFree \/ ConsumerStoresFree \/ ConsumerStoresConsumer

Next == Producer \/ Consumer

Spec == Init /\ [][Next]_vars

\* Both ends run again and again: a block is processed, on_idle is called.  A call
\* returns, and its closure writes a finite number of entries.  Nothing makes the
\* user set a parameter.
Fairness ==
  /\ WF_vars(Consumer)
  /\ WF_vars(Publish) /\ WF_vars(EndProduce)
  /\ WF_vars(BeginProduce)

FairSpec == Spec /\ Fairness

----------------------------------------------------------------------------
(* The abstract queue *)

\* The batch the producer has: while it swaps the pointers, still the old one.
Staged ==
  queues[IF ppc \in {"store_free", "store_consumer"} THEN producer_i ELSE producer]

\* The batch handed over: until the closure has been given its entries.
Ready == IF consumer = NULL_USIZE \/ cpc = "clear" THEN Nothing ELSE queues[consumer]

Abstract == INSTANCE CoalescingQueue WITH staged <- Staged, ready <- Ready

----------------------------------------------------------------------------
(* Properties *)

\* The queue implements the coalescing queue: batches are handed over whole, once,
\* in order, however the two threads interleave.
Coalesces == Abstract!Spec

\* No call panics: the two ends never borrow the same map at once (an
\* AtomicRefCell), and the producer finds a spare map whenever it swaps.
NoPanic ==
  /\ ppc = "write" /\ cpc \in {"iterate", "clear"} => producer_i # consumer_i
  /\ ppc = "idle" /\ cpc \in {"iterate", "clear"} => producer # consumer_i
  /\ ppc = "load_free" => free # NULL_USIZE

\* The latest value written to a slot is on its way to the consumer, or is what the
\* consumer got last: a later write is never undone by an earlier one.
LatestIsKept == last = Override(Override(taken, Ready), Staged)

\* What the processor reports reaches the main thread, unless a newer report of the
\* same slot takes its place.
ReportIsTaken ==
  \A s \in Slots : \A v \in Values :
    (use = "produce" /\ last[s] = v) ~> (taken[s] = v \/ last[s] # v)

----------------------------------------------------------------------------
(* A statement of the documentation that the code does not meet *)

\* PluginHostMainThread::set_param_value returns the value "that the plugin
\* accepted": a value set reaches the processor, unless a newer one does.
SetValueIsTaken ==
  \A s \in Slots : \A v \in Values :
    (use = "set" /\ last[s] = v) ~> (taken[s] = v \/ last[s] # v)
============================================================================
