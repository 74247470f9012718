------------------------- MODULE ShardConsumer_proofs -------------------------
(***************************************************************************)
(* Proofs about ShardConsumer, for a shard and batches of any size.         *)
(***************************************************************************)
EXTENDS ShardConsumer, TLAPS

\* What a batch appends continues the run of the records delivered before.
LEMMA BatchContinues ==
  ASSUME NEW s \in Seq(Nat), NEW from \in Nat, NEW n \in Nat,
         \A i \in 1 .. Len(s) : s[i] = from + i
  PROVE  LET b == [i \in 1 .. n |-> (from + Len(s)) + i] IN
         /\ s \o b \in Seq(Nat)
         /\ Len(s \o b) = Len(s) + n
         /\ \A i \in 1 .. Len(s \o b) : (s \o b)[i] = from + i
<1> DEFINE b == [i \in 1 .. n |-> (from + Len(s)) + i]
<1>1. b \in Seq(Nat) /\ Len(b) = n
  OBVIOUS
<1>2. s \o b \in Seq(Nat) /\ Len(s \o b) = Len(s) + n
  BY <1>1
<1>3. ASSUME NEW i \in 1 .. Len(s \o b) PROVE (s \o b)[i] = from + i
  <2>1. CASE i <= Len(s)
    BY <1>1, <1>2, <2>1
  <2>2. CASE i > Len(s)
    <3>1. i - Len(s) \in 1 .. n /\ (s \o b)[i] = b[i - Len(s)]
      BY <1>1, <1>2, <2>2
    <3>2. b[i - Len(s)] = (from + Len(s)) + (i - Len(s))
      BY <3>1
    <3> QED BY <3>1, <3>2
  <2> QED BY <1>2, <2>1, <2>2
<1> QED BY <1>2, <1>3

\* The initial states.
LEMMA InvInit == Init => ConsumerInv
<1> SUFFICES ASSUME Init PROVE ConsumerInv
  OBVIOUS
<1>1. TypeOK
  <2>1. written \in Nat /\ start \in Nat /\ delivered \in Seq(Nat)
    BY ConsumerAssumption DEF Init
  <2>2. closed \in BOOLEAN /\ requested \in BOOLEAN /\ config \in Config
    BY DEF Init
  <2>3. stateType \in StateType /\ iterator \in {NoIterator} /\ waiting \in {"none"}
    BY DEF Init, StateType
  <2> QED
    BY <2>1, <2>2, <2>3 DEF TypeOK
<1>2. Len(delivered) = 0 /\ iterator \notin Nat /\ iterator # AtEnd
  BY ConsumerAssumption DEF Init
<1>3. IteratorFits
  BY DEF Init, IteratorFits, LoopCall
<1>4. DeliveredInOrder
  BY <1>2 DEF DeliveredInOrder
<1>5. StateShowsLoop
  BY DEF Init, StateShowsLoop, LoopCall
<1> QED
  BY <1>1, <1>3, <1>4, <1>5 DEF ConsumerInv

\* The shard grows, or is closed: what was read stays read.
LEMMA ShardStep ==
  ASSUME ConsumerInv, PutRecord \/ CloseShard
  PROVE  ConsumerInv'
<1>1. TypeOK'
  <2>1. written' \in Nat
    BY DEF ConsumerInv, PutRecord, CloseShard, TypeOK
  <2>2. closed' \in BOOLEAN
    BY Zenon DEF ConsumerInv, PutRecord, CloseShard, TypeOK
  <2>3. UNCHANGED <<config, stateType, iterator, requested, waiting, start, delivered>>
    BY DEF PutRecord, CloseShard
  <2> QED
    BY <2>1, <2>2, <2>3 DEF ConsumerInv, TypeOK
<1>2. IteratorFits' /\ StateShowsLoop'
  BY DEF ConsumerInv, PutRecord, CloseShard, IteratorFits, StateShowsLoop
<1>3. DeliveredInOrder'
  BY DEF ConsumerInv, PutRecord, CloseShard, DeliveredInOrder
<1> QED
  BY <1>1, <1>2, <1>3 DEF ConsumerInv

\* Initialization: the first iterator points behind what was delivered, which
\* is nothing.
LEMMA InitializationKeeps ==
  ASSUME ConsumerInv, InitializationStep
  PROVE  ConsumerInv'
<1> USE DEF ConsumerInv
<1>1. CASE IteratorRead
  <2>1. FirstPosition \in Nat
    BY ConsumerAssumption DEF FirstPosition, TypeOK, Config
  <2>2. delivered = <<>> /\ Len(delivered) = 0
    BY <1>1 DEF IteratorRead, IteratorFits
  <2>3. TypeOK'
    BY <1>1, <2>1 DEF IteratorRead, TypeOK, StateType, shardVars
  <2>4. IteratorFits'
    BY <1>1, <2>1, <2>2, ConsumerAssumption DEF IteratorRead, IteratorFits, LoopCall
  <2>5. DeliveredInOrder'
    BY <1>1, <2>1, <2>2, ConsumerAssumption DEF IteratorRead, DeliveredInOrder
  <2>6. StateShowsLoop'
    BY <1>1 DEF IteratorRead, StateShowsLoop, LoopCall
  <2> QED
    BY <2>3, <2>4, <2>5, <2>6
<1>2. CASE InitializationStep /\ ~IteratorRead
  <2> USE DEF InitializationStep, CheckpointRead, CheckpointFailed, IteratorFailed,
          ProcessorReady, ProcessorFailed, Dies, shardVars
  <2>1. TypeOK'
    BY <1>2 DEF TypeOK, StateType, LoopCall
  <2>2. IteratorFits'
    BY <1>2, ConsumerAssumption DEF IteratorFits, LoopCall
  <2>3. DeliveredInOrder'
    BY <1>2 DEF DeliveredInOrder
  <2>4. StateShowsLoop'
    BY <1>2 DEF StateShowsLoop, LoopCall
  <2> QED
    BY <2>1, <2>2, <2>3, <2>4
<1> QED
  BY <1>1, <1>2

\* What the owner calls moves neither the iterator nor the records.
LEMMA OwnerKeeps ==
  ASSUME ConsumerInv, OwnerStep
  PROVE  ConsumerInv'
<1> USE DEF ConsumerInv, OwnerStep, StartInitializing, RetryAborts, StartProcessing,
        RequestShutdown, MayInitialize, Dies, shardVars
<1>1. TypeOK'
  BY DEF TypeOK, StateType, LoopCall
<1>2. IteratorFits'
  BY DEF IteratorFits, LoopCall
<1>3. DeliveredInOrder'
  BY DEF DeliveredInOrder
<1>4. StateShowsLoop'
  BY DEF StateShowsLoop, LoopCall
<1> QED
  BY <1>1, <1>2, <1>3, <1>4

\* However a batch ends, the state says whether the loop goes on.
LEMMA BatchEnd ==
  ASSUME ConsumerInv, waiting \in LoopCall, BatchSucceeds \/ BatchFails \/ ProcessBatches,
         UNCHANGED requested
  PROVE  /\ stateType' \in StateType
         /\ waiting' \in {"none", "dead"} \cup LoopCall
         /\ waiting' = "records" => waiting = "queued" /\ iterator # AtEnd
         /\ stateType' = "READY_FOR_PROCESSING" => FALSE
         /\ stateType' = "SHUTDOWN_REQUESTED" => requested'
         /\ StateShowsLoop'
BY DEF ConsumerInv, TypeOK, IteratorFits, StateShowsLoop, BatchSucceeds, BatchFails,
       ProcessBatches, Stopped, StateType, LoopCall

\* A batch that is read continues the run of the records delivered before.
LEMMA GetNextBatchKeeps ==
  ASSUME ConsumerInv, NEW n \in 0 .. MaxRecordsPerCall, GetNextBatch(n)
  PROVE  ConsumerInv'
<1> USE DEF ConsumerInv
<1>1. n \in Nat /\ iterator \in Nat /\ iterator = start + Len(delivered)
  BY ConsumerAssumption DEF GetNextBatch, IteratorFits, DeliveredInOrder
<1>2. /\ delivered' \in Seq(Nat)
      /\ Len(delivered') = Len(delivered) + n
      /\ \A i \in 1 .. Len(delivered') : delivered'[i] = start + i
  <2>1. CASE delivered' = delivered \o Batch(n)
    BY <1>1, <2>1, BatchContinues DEF Batch, TypeOK, DeliveredInOrder
  <2>2. CASE n = 0 /\ delivered' = delivered
    BY <2>2 DEF TypeOK, DeliveredInOrder
  <2> QED
    BY <1>1, <2>1, <2>2 DEF GetNextBatch
<1>3. /\ iterator' \in {iterator + n, AtEnd}
      /\ iterator' = AtEnd => closed /\ iterator + n = written
  BY <1>1, ConsumerAssumption DEF GetNextBatch, Advance
<1>4. /\ waiting = "records" /\ waiting \in LoopCall
      /\ \/ waiting' = "batch" /\ UNCHANGED stateType
         \/ BatchSucceeds
      /\ UNCHANGED <<written, closed, config, requested, start>>
  BY DEF GetNextBatch, LoopCall, shardVars
<1>5. /\ stateType' \in StateType
      /\ waiting' \in {"none", "dead", "batch", "queued"}
      /\ stateType' = "READY_FOR_PROCESSING" => FALSE
      /\ stateType' = "SHUTDOWN_REQUESTED" => requested'
      /\ StateShowsLoop'
  <2>1. CASE waiting' = "batch" /\ UNCHANGED stateType
    BY <1>4, <2>1 DEF TypeOK, IteratorFits, StateShowsLoop, LoopCall
  <2>2. CASE BatchSucceeds
    BY <1>4, <2>2, BatchEnd DEF LoopCall
  <2> QED
    BY <1>4, <2>1, <2>2
<1>6. iterator' # NoIterator
  BY <1>1, <1>3, ConsumerAssumption
<1>7. TypeOK'
  BY <1>1, <1>2, <1>3, <1>4, <1>5 DEF TypeOK, LoopCall
<1>8. IteratorFits'
  BY <1>5, <1>6 DEF IteratorFits
<1>9. DeliveredInOrder'
  <2>1. start' = start /\ written' = written /\ closed' = closed
    BY <1>4
  <2>2. iterator' \in Nat => iterator' = start' + Len(delivered')
    BY <1>1, <1>2, <1>3, <2>1, ConsumerAssumption DEF TypeOK
  <2>3. iterator' = AtEnd => closed' /\ written' = start' + Len(delivered')
    BY <1>1, <1>2, <1>3, <2>1 DEF TypeOK
  <2> QED
    BY <1>2, <2>1, <2>2, <2>3 DEF DeliveredInOrder
<1> QED
  BY <1>5, <1>7, <1>8, <1>9

\* The other steps of the loop read nothing.
LEMMA LoopKeeps ==
  ASSUME ConsumerInv, GetRecordsFailed \/ ProcessRecordsDone \/ ProcessBatches
  PROVE  ConsumerInv'
<1> USE DEF ConsumerInv
<1>1. /\ waiting \in LoopCall
      /\ BatchSucceeds \/ BatchFails \/ ProcessBatches
      /\ UNCHANGED <<written, closed, config, iterator, requested, start, delivered>>
  BY DEF GetRecordsFailed, ProcessRecordsDone, ProcessBatches, LoopCall, shardVars
<1>2. /\ stateType' \in StateType
      /\ waiting' \in {"none", "dead"} \cup LoopCall
      /\ waiting' = "records" => waiting = "queued" /\ iterator # AtEnd
      /\ stateType' = "READY_FOR_PROCESSING" => FALSE
      /\ stateType' = "SHUTDOWN_REQUESTED" => requested'
      /\ StateShowsLoop'
  BY <1>1, BatchEnd
<1>3. TypeOK'
  BY <1>1, <1>2 DEF TypeOK
<1>4. IteratorFits'
  <2>1. waiting' = "records" => iterator' \in Nat
    BY <1>1, <1>2, ConsumerAssumption DEF IteratorFits, LoopCall, TypeOK, DeliveredInOrder
  <2> QED
    BY <1>1, <1>2, <2>1 DEF IteratorFits, LoopCall
<1>5. DeliveredInOrder'
  BY <1>1 DEF DeliveredInOrder
<1> QED
  BY <1>2, <1>3, <1>4, <1>5

\* The invariant holds for every shard, batch size and configuration.
THEOREM ConsumerInvariant == Spec => []ConsumerInv
<1>1. ConsumerInv /\ [Next]_vars => ConsumerInv'
  <2> SUFFICES ASSUME ConsumerInv, [Next]_vars PROVE ConsumerInv'
    OBVIOUS
  <2>1. CASE UNCHANGED vars
    BY <2>1 DEF vars, shardVars, ConsumerInv, TypeOK, IteratorFits, DeliveredInOrder, StateShowsLoop
  <2>2. CASE PutRecord \/ CloseShard
    BY <2>2, ShardStep
  <2>3. CASE InitializationStep
    BY <2>3, InitializationKeeps
  <2>4. CASE OwnerStep
    BY <2>4, OwnerKeeps
  <2>5. CASE LoopStep
    BY <2>5, GetNextBatchKeeps, LoopKeeps DEF LoopStep
  <2> QED
    BY <2>1, <2>2, <2>3, <2>4, <2>5 DEF Next
<1> QED
  BY <1>1, InvInit, PTL DEF Spec

\* The record processor gets every record behind the starting position once
\* and in order.
THEOREM RecordsInOrder == Spec => []DeliveredInOrder
<1>1. ConsumerInv => DeliveredInOrder
  BY DEF ConsumerInv
<1> QED
  BY <1>1, ConsumerInvariant, PTL

\* A consumer that says it is processing has a callback to come.
THEOREM ProcessingGoesOn == Spec => []StateShowsLoop
<1>1. ConsumerInv => StateShowsLoop
  BY DEF ConsumerInv
<1> QED
  BY <1>1, ConsumerInvariant, PTL

\* A consumer whose shutdown was requested while its loop of batches runs keeps
\* to it and begins no batch, and one whose shutdown has completed does nothing
\* (every continuation of processBatches looks at the state again).
THEOREM ShutdownIsQuiet == Spec => QuietAfterShutdown
<1> DEFINE Quiet ==
      /\ stateType = "SHUTDOWN_COMPLETE" => UNCHANGED <<stateType, waiting, delivered>>
      /\ stateType = "SHUTDOWN_REQUESTED" /\ waiting \in LoopCall =>
           /\ stateType' \in {"SHUTDOWN_REQUESTED", "SHUTDOWN_COMPLETE"}
           /\ waiting' = "records" => waiting = "records"
           /\ waiting # "records" => UNCHANGED delivered
<1>1. ConsumerInv /\ [Next]_vars => [Quiet]_vars
  <2> SUFFICES ASSUME ConsumerInv, Next PROVE Quiet
    BY DEF Quiet
  <2> USE DEF ConsumerInv, StateShowsLoop, LoopCall
  <2>1. CASE PutRecord \/ CloseShard
    BY <2>1 DEF PutRecord, CloseShard
  <2>2. CASE InitializationStep
    BY <2>2 DEF InitializationStep, CheckpointRead, CheckpointFailed, IteratorRead,
                IteratorFailed, ProcessorReady, ProcessorFailed, Dies, shardVars
  <2>3. CASE OwnerStep
    BY <2>3 DEF OwnerStep, StartInitializing, RetryAborts, StartProcessing,
                RequestShutdown, Dies, shardVars, MayInitialize
  <2>4. CASE LoopStep
    BY <2>4 DEF LoopStep, GetNextBatch, GetRecordsFailed, ProcessRecordsDone,
                ProcessBatches, BatchSucceeds, BatchFails, Stopped, shardVars
  <2> QED
    BY <2>1, <2>2, <2>3, <2>4 DEF Next
<1> QED
  BY <1>1, ConsumerInvariant, PTL DEF Spec, QuietAfterShutdown
==============================================================================
