------------------------- MODULE ReducingQueue_proofs -------------------------
(***************************************************************************)
(* Proofs about ReducingQueue: its two ends never meet in one map, no      *)
(* value is lost or overtaken, and it implements CoalescingQueue, for any  *)
(* number of parameters and values.                                        *)
(***************************************************************************)
EXTENDS ReducingQueue, TLAPS

----------------------------------------------------------------------------
(* The inductive invariant: who owns which of the two maps *)

\* The producer, when it swaps the pointers, finds the consumer without a map.
Swapping ==
  /\ ppc \in {"load_free", "store_producer", "store_free", "store_consumer"}
       => consumer = NULL_USIZE
  /\ ppc \in {"write", "load_consumer", "load_free", "store_producer"}
       => producer_i = producer
  /\ ppc \in {"store_producer", "store_free"} => freeRead = free
  /\ ppc \in {"store_free", "store_consumer"} =>
       /\ producer_i # producer
       /\ queues[producer] = Nothing
  /\ ppc = "store_free" => producer = free
  /\ ppc = "store_consumer" => free = NULL_USIZE

\* The consumer, while it is in consume, holds the map of `consumer`.
Consuming ==
  /\ cpc # "idle" => consumer = consumer_i
  /\ cpc \in {"load_free", "store_free", "store_consumer"}
       => queues[consumer_i] = Nothing
  /\ cpc = "store_consumer" => free = consumer_i

\* The spare map is empty, and it is nobody's but the consumer's that returns it.
Spare ==
  /\ consumer # NULL_USIZE =>
       /\ producer # consumer
       /\ cpc # "store_consumer" => free = NULL_USIZE
  /\ consumer = NULL_USIZE /\ ppc \notin {"store_free", "store_consumer"} =>
       /\ free \in Indices
       /\ free # producer
       /\ queues[free] = Nothing

Ownership == Swapping /\ Consuming /\ Spare

Inv == TypeOK /\ Ownership /\ LatestIsKept

----------------------------------------------------------------------------
(* Batches *)

LEMMA NothingType == Nothing \in Batch
BY DEF Nothing, Batch

\* Overriding one batch by another gives a batch.
LEMMA OverrideType ==
  ASSUME NEW b \in Batch, NEW c \in Batch
  PROVE  Override(b, c) \in Batch
BY DEF Override, Batch

\* An empty batch overrides nothing.
LEMMA OverrideByNothing ==
  ASSUME NEW b \in Batch
  PROVE  Override(b, Nothing) = b
BY DEF Override, Batch, Nothing

\* Writing a slot of the overriding batch writes the slot of the result.
LEMMA OverrideByWrite ==
  ASSUME NEW b \in Batch, NEW c \in Batch, NEW s \in Slots, NEW v \in Values
  PROVE  /\ [c EXCEPT ![s] = v] \in Batch
         /\ Override(b, [c EXCEPT ![s] = v]) = [Override(b, c) EXCEPT ![s] = v]
BY NoneAssumption DEF Override, Batch

----------------------------------------------------------------------------
(* Each step of the two threads *)

\* Every step leaves each map with one owner.
LEMMA OwnershipStep ==
  ASSUME TypeOK, Ownership, [Next]_vars
  PROVE  TypeOK' /\ Ownership'
<1> USE DEF TypeOK, Ownership, Swapping, Consuming, Spare, Indices, NULL_USIZE, pointers,
            producerVars, consumerVars
<1>1. ASSUME NEW s \in Slots, NEW v \in Values, Set(s, v) \/ WriteEntry(s, v)
      PROVE  TypeOK' /\ Ownership'
  <2>1. PICK i \in Indices : i = producer /\ set_or_update(i, s, v)
    BY <1>1 DEF Set, WriteEntry
  <2>2. queues[i] \in Batch /\ last \in Batch
    OBVIOUS
  <2>3. queues' \in [Indices -> Batch] /\ last' \in Batch
        /\ \A j \in Indices : j # producer => queues'[j] = queues[j]
    BY <2>1, <2>2 DEF set_or_update, Batch
  <2>4. QED
    BY <1>1, <2>3 DEF Set, WriteEntry
<1>2. CASE LoadConsumer
  BY <1>2 DEF LoadConsumer
<1>3. CASE ProducerLoadsFree
  BY <1>3 DEF ProducerLoadsFree
<1>4. CASE ProducerStoresProducer
  BY <1>4 DEF ProducerStoresProducer
<1>5. CASE ProducerStoresFree
  BY <1>5 DEF ProducerStoresFree
<1>6. CASE ProducerStoresConsumer
  BY <1>6 DEF ProducerStoresConsumer
<1>7. CASE BeginProduce
  BY <1>7 DEF BeginProduce
<1>8. CASE EndProduce
  BY <1>8 DEF EndProduce
<1>9. CASE BeginConsume
  BY <1>9 DEF BeginConsume
<1>10. CASE Iterate
  BY <1>10, OverrideType DEF Iterate
<1>11. CASE Clear
  BY <1>11, NothingType DEF Clear
<1>12. CASE ConsumerLoadsFree
  BY <1>12 DEF ConsumerLoadsFree
<1>13. CASE ConsumerStoresFree
  BY <1>13 DEF ConsumerStoresFree
<1>14. CASE ConsumerStoresConsumer
  BY <1>14 DEF ConsumerStoresConsumer
<1>15. CASE UNCHANGED vars
  BY <1>15 DEF vars, pointers, producerVars, consumerVars
<1>16. QED
  BY <1>1, <1>2, <1>3, <1>4, <1>5, <1>6, <1>7, <1>8,
     <1>9, <1>10, <1>11, <1>12, <1>13, <1>14, <1>15
     DEF Next, Producer, Publish, Consumer

\* The batches the abstract queue speaks of are batches.
LEMMA BatchTypes ==
  ASSUME TypeOK
  PROVE  Staged \in Batch /\ Ready \in Batch
BY NothingType DEF TypeOK, Staged, Ready, Indices

\* Every step is one of the abstract queue, or one it does not see.
LEMMA AbstractStep ==
  ASSUME TypeOK, Ownership, [Next]_vars
  PROVE  \/ \E s \in Slots, v \in Values :
               Abstract!Write(s, v) /\ last' = [last EXCEPT ![s] = v]
         \/ /\ Abstract!HandOver \/ Abstract!Take \/ UNCHANGED <<Staged, Ready, taken>>
            /\ last' = last
<1> USE DEF TypeOK, Ownership, Swapping, Consuming, Spare, Indices, NULL_USIZE, pointers,
            producerVars, consumerVars
<1>1. ASSUME NEW s \in Slots, NEW v \in Values, Set(s, v) \/ WriteEntry(s, v)
      PROVE  Abstract!Write(s, v) /\ last' = [last EXCEPT ![s] = v]
  <2>1. ppc \in {"idle", "write"} /\ ppc' \in {"load_consumer", "write"}
        /\ set_or_update(producer, s, v)
        /\ UNCHANGED <<producer, consumer, cpc, taken>>
    BY <1>1 DEF Set, WriteEntry
  <2>2. Staged = queues[producer] /\ Staged' = queues'[producer]
    BY <2>1 DEF Staged
  <2>3. queues'[producer] = [queues[producer] EXCEPT ![s] = v]
        /\ \A j \in Indices : j # producer => queues'[j] = queues[j]
    BY <2>1 DEF set_or_update, Batch
  <2>4. Ready' = Ready
    BY <2>1, <2>3 DEF Ready
  <2>5. QED
    BY <2>1, <2>2, <2>3, <2>4 DEF set_or_update, Abstract!Write
<1>2. CASE LoadConsumer
  BY <1>2 DEF LoadConsumer, Staged, Ready
<1>3. CASE ProducerLoadsFree
  BY <1>3 DEF ProducerLoadsFree, Staged, Ready
<1>4. CASE ProducerStoresProducer
  BY <1>4 DEF ProducerStoresProducer, Staged, Ready
<1>5. CASE ProducerStoresFree
  BY <1>5 DEF ProducerStoresFree, Staged, Ready
<1>6. CASE ProducerStoresConsumer
  <2>1. cpc = "idle" /\ consumer = NULL_USIZE /\ queues[producer] = Nothing
    BY <1>6 DEF ProducerStoresConsumer
  <2>2. Ready = Nothing /\ Ready' = queues[producer_i] /\ Staged = queues[producer_i]
        /\ Staged' = Nothing /\ taken' = taken /\ last' = last
    BY <1>6, <2>1 DEF ProducerStoresConsumer, Staged, Ready
  <2>3. Abstract!HandOver
    BY <2>2 DEF Abstract!HandOver, Abstract!Nothing, Nothing
  <2>4. QED
    BY <2>2, <2>3
<1>7. CASE BeginProduce
  BY <1>7 DEF BeginProduce, Staged, Ready
<1>8. CASE EndProduce
  BY <1>8 DEF EndProduce, Staged, Ready
<1>9. CASE BeginConsume
  BY <1>9 DEF BeginConsume, Staged, Ready
<1>10. CASE Iterate
  <2>1. Ready = queues[consumer_i] /\ Ready' = Nothing /\ Staged' = Staged
        /\ taken' = Override(taken, queues[consumer_i]) /\ last' = last
    BY <1>10 DEF Iterate, Staged, Ready
  <2>2. Abstract!Take
    BY <2>1 DEF Abstract!Take, Abstract!Override, Override, Abstract!Nothing, Nothing
  <2>3. QED
    BY <2>1, <2>2
<1>11. CASE Clear
  <2>1. ppc \notin {"store_free", "store_consumer"} /\ producer # consumer_i
        /\ queues' = [queues EXCEPT ![consumer_i] = Nothing]
        /\ UNCHANGED <<ppc, producer, consumer, taken, last>>
    BY <1>11 DEF Clear
  <2>2. Staged' = Staged
    BY <2>1 DEF Staged
  <2>3. Ready = Nothing /\ Ready' = Nothing
    BY <1>11, <2>1 DEF Clear, Ready
  <2>4. QED
    BY <2>1, <2>2, <2>3
<1>12. CASE ConsumerLoadsFree
  BY <1>12 DEF ConsumerLoadsFree, Staged, Ready
<1>13. CASE ConsumerStoresFree
  BY <1>13 DEF ConsumerStoresFree, Staged, Ready
<1>14. CASE ConsumerStoresConsumer
  BY <1>14 DEF ConsumerStoresConsumer, Staged, Ready
<1>15. CASE UNCHANGED vars
  BY <1>15 DEF vars, pointers, producerVars, consumerVars, Staged, Ready
<1>16. QED
  BY <1>1, <1>2, <1>3, <1>4, <1>5, <1>6, <1>7, <1>8,
     <1>9, <1>10, <1>11, <1>12, <1>13, <1>14, <1>15
     DEF Next, Producer, Publish, Consumer

\* The latest writes stay the latest: the abstract queue only moves them on.
LEMMA LatestStep ==
  ASSUME Inv, [Next]_vars
  PROVE  LatestIsKept'
<1> DEFINE seen == Override(taken, Ready)
<1>1. Staged \in Batch /\ Ready \in Batch /\ taken \in Batch /\ seen \in Batch
  BY BatchTypes, OverrideType DEF Inv, TypeOK
<1>2. last = Override(seen, Staged)
  BY DEF Inv, LatestIsKept
<1>3. ASSUME NEW s \in Slots, NEW v \in Values,
             Abstract!Write(s, v), last' = [last EXCEPT ![s] = v]
      PROVE  LatestIsKept'
  <2>1. Staged' = [Staged EXCEPT ![s] = v] /\ Ready' = Ready /\ taken' = taken
    BY <1>3 DEF Abstract!Write
  <2>2. Override(seen, [Staged EXCEPT ![s] = v]) = [last EXCEPT ![s] = v]
    BY <1>1, <1>2, OverrideByWrite
  <2>3. QED
    BY <1>3, <2>1, <2>2 DEF LatestIsKept
<1>4. CASE Abstract!HandOver /\ last' = last
  <2>1. Ready = Nothing /\ Ready' = Staged /\ Staged' = Nothing /\ taken' = taken
    BY <1>4 DEF Abstract!HandOver, Abstract!Nothing, Nothing
  <2>2. seen = taken /\ Override(Override(taken, Staged), Nothing) = Override(taken, Staged)
    BY <1>1, <2>1, OverrideByNothing, OverrideType
  <2>3. QED
    BY <1>2, <1>4, <2>1, <2>2 DEF LatestIsKept
<1>5. CASE Abstract!Take /\ last' = last
  <2>1. taken' = seen /\ Ready' = Nothing /\ Staged' = Staged
    BY <1>5 DEF Abstract!Take, Abstract!Override, Override, Abstract!Nothing, Nothing
  <2>2. QED
    BY <1>1, <1>2, <1>5, <2>1, OverrideByNothing DEF LatestIsKept
<1>6. CASE UNCHANGED <<Staged, Ready, taken>> /\ last' = last
  BY <1>2, <1>6 DEF LatestIsKept
<1>7. QED
  BY <1>3, <1>4, <1>5, <1>6, AbstractStep DEF Inv

----------------------------------------------------------------------------
(* Theorems *)

\* Inv is an invariant of the specification.
THEOREM Invariance == Spec => []Inv
<1>1. Init => Inv
  <2> SUFFICES ASSUME Init PROVE Inv
    OBVIOUS
  <2>1. TypeOK /\ Ownership
    BY NothingType
       DEF Init, TypeOK, Ownership, Swapping, Consuming, Spare, Indices, NULL_USIZE
  <2>2. Staged = Nothing /\ Ready = Nothing
    BY DEF Init, Staged, Ready, Indices
  <2>3. LatestIsKept
    BY <2>2, NothingType, OverrideByNothing DEF Init, LatestIsKept
  <2>4. QED
    BY <2>1, <2>3 DEF Inv
<1>2. Inv /\ [Next]_vars => Inv'
  BY OwnershipStep, LatestStep DEF Inv
<1>3. QED
  BY <1>1, <1>2, PTL DEF Spec

\* Every variable of the queue keeps its type; `producer` is never NULL.
THEOREM TypeCorrect == Spec => []TypeOK
<1>1. Inv => TypeOK
  BY DEF Inv
<1>2. QED
  BY Invariance, <1>1, PTL

\* No call of set, produce, producer_done or consume panics.
THEOREM CallsDoNotPanic == Spec => []NoPanic
<1>1. Inv => NoPanic
  BY DEF Inv, TypeOK, Ownership, Swapping, Consuming, Spare, NoPanic, Indices, NULL_USIZE
<1>2. QED
  BY Invariance, <1>1, PTL

\* No write is lost on its way to the consumer, and none is overtaken by an older one.
THEOREM NoWriteIsLost == Spec => []LatestIsKept
<1>1. Inv => LatestIsKept
  BY DEF Inv
<1>2. QED
  BY Invariance, <1>1, PTL

\* The two maps and three pointers implement the queue of batches.
THEOREM QueueCoalesces == Spec => Coalesces
<1>1. Init => Abstract!Init
  <2> SUFFICES ASSUME Init PROVE Abstract!Init
    OBVIOUS
  <2>1. Staged = Nothing /\ Ready = Nothing /\ taken = Nothing
    BY DEF Init, Staged, Ready, Indices
  <2>2. QED
    BY <2>1 DEF Abstract!Init, Abstract!Nothing, Nothing
<1>2. Inv /\ [Next]_vars => [Abstract!Next]_<<Staged, Ready, taken>>
  BY AbstractStep DEF Inv, Abstract!Next
<1>3. QED
  BY Invariance, <1>1, <1>2, PTL DEF Spec, Coalesces, Abstract!Spec
============================================================================
