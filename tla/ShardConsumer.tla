---------------------------- MODULE ShardConsumer ----------------------------
(***************************************************************************)
(* ShardConsumer and its ShardIterator: one consumer reads one shard from   *)
(* the position its lease's checkpoint names and hands the records, batch by *)
(* batch, to the record processor.                                          *)
(*                                                                         *)
(* Everything runs in callbacks of the event loop, and at most one of them   *)
(* is outstanding; "waiting" says which.  Its owner starts it, step by step, *)
(* as the functional test does, and may ask for a shutdown at any time.  The *)
(* shard, the record processor and the owner are outside the repository.    *)
(***************************************************************************)
EXTENDS Naturals, Sequences

CONSTANTS
  MaxRecords,         \* bound: records in the shard
  MaxRecordsPerCall,  \* streamConfig's limit of a batch
  NoCheckpoint,       \* the lease has no checkpoint
  NoIterator,         \* state_.shardIterator has no value
  AtEnd               \* the iterator has no nextID

ASSUME ConsumerAssumption ==
  /\ MaxRecords \in Nat
  /\ MaxRecordsPerCall \in Nat \ {0}
  /\ NoCheckpoint \notin Nat
  /\ NoIterator \notin Nat
  /\ AtEnd \notin Nat
  /\ NoIterator # AtEnd

VARIABLES
  written,    \* the shard: the records 1 .. written
  closed,     \* the shard was split or merged: it gets no more records
  config,     \* streamConfig, and the checkpoint in the lease
  stateType,  \* state_.stateType
  iterator,   \* state_.shardIterator: the records up to here were read
  requested,  \* state_.shutdownCallback has a value
  waiting,    \* the callback that is outstanding; "dead" once a CHECK failed
  start,      \* history: where the first iterator pointed
  delivered   \* history: the records handed to processRecords, in order

shardVars == <<written, closed, config>>
vars == <<shardVars, stateType, iterator, requested, waiting, start, delivered>>

\* SHUTTING_DOWN is never assigned; WAITING_ON_PARENT_SHARDS is left again
\* before anything else can run.
StateType == {"NOT_STARTED", "FAILED_TO_INITIALIZE", "INITIALIZING",
              "READY_FOR_PROCESSING", "PROCESSING", "SHUTDOWN_REQUESTED",
              "SHUTDOWN_COMPLETE"}

\* The callbacks of the loop of batches: of getNextBatch, of processRecords,
\* and the lambda given to runInEventThread.
LoopCall == {"records", "batch", "queued"}

Config == [initialPosition : {"TRIM_HORIZON", "LATEST"},
           callProcessRecordsIfEmpty : BOOLEAN,
           checkpoint : (0 .. MaxRecords) \cup {NoCheckpoint}]

TypeOK ==
  /\ written \in Nat
  /\ closed \in BOOLEAN
  /\ config \in Config
  /\ stateType \in StateType
  /\ iterator \in Nat \cup {NoIterator, AtEnd}
  /\ requested \in BOOLEAN
  /\ waiting \in {"none", "checkpoint", "iterator", "processor", "dead"} \cup LoopCall
  /\ start \in Nat
  /\ delivered \in Seq(Nat)

Init ==
  /\ written \in 0 .. MaxRecords
  /\ closed = FALSE
  /\ config \in Config
  /\ config.checkpoint # NoCheckpoint => config.checkpoint <= written
  /\ stateType = "NOT_STARTED"
  /\ iterator = NoIterator
  /\ requested = FALSE
  /\ waiting = "none"
  /\ start = 0
  /\ delivered = <<>>

------------------------------------------------------------------------------
(* The shard: producers put records into it until it is resharded.         *)

PutRecord ==
  /\ ~closed
  /\ written < MaxRecords
  /\ written' = written + 1
  /\ UNCHANGED <<closed, config, stateType, iterator, requested, waiting, start, delivered>>

CloseShard ==
  /\ ~closed
  /\ closed' = TRUE
  /\ UNCHANGED <<written, config, stateType, iterator, requested, waiting, start, delivered>>

------------------------------------------------------------------------------
(* Initialization.                                                         *)

\* A CHECK or DCHECK fails: the process ends.
Dies ==
  /\ waiting' = "dead"
  /\ UNCHANGED <<shardVars, stateType, iterator, requested, start, delivered>>

\* The first start, and the retry of one that failed, as far as the assertions
\* of startInitializing let it come.
MayInitialize ==
  /\ stateType \in {"NOT_STARTED", "FAILED_TO_INITIALIZE"}
  /\ iterator = NoIterator

StartInitializing ==
  /\ waiting = "none"
  /\ MayInitialize
  /\ stateType' = "INITIALIZING"
  /\ waiting' = "checkpoint"
  /\ UNCHANGED <<shardVars, iterator, requested, start, delivered>>

RetryAborts ==
  /\ waiting = "none"
  /\ stateType \in {"INITIALIZING", "FAILED_TO_INITIALIZE"}
  /\ ~MayInitialize
  /\ Dies

\* doInitialize's callback of getCheckpoint.
CheckpointRead ==
  /\ waiting = "checkpoint"
  /\ waiting' = "iterator"
  /\ UNCHANGED <<shardVars, stateType, iterator, requested, start, delivered>>

\* getCheckpoint asserts that there is a lease after it has passed an error on.
CheckpointFailed == waiting = "checkpoint" /\ Dies

\* Mutant: whether there is a checkpoint is not asked.
FirstPositionUnchecked == config.checkpoint

FirstPosition ==
  IF config.checkpoint # NoCheckpoint THEN config.checkpoint
  ELSE IF config.initialPosition = "LATEST" THEN written
  ELSE 0

\* doInitialize's callback of getShardIteratorAsync, and startInitializing's
\* of doInitialize.
IteratorRead ==
  /\ waiting = "iterator"
  /\ iterator' = FirstPosition
  /\ start' = FirstPosition
  /\ stateType' = "READY_FOR_PROCESSING"
  /\ waiting' = "none"
  /\ UNCHANGED <<shardVars, requested, delivered>>

IteratorFailed ==
  /\ waiting = "iterator"
  /\ waiting' = "none"
  /\ UNCHANGED <<shardVars, stateType, iterator, requested, start, delivered>>

------------------------------------------------------------------------------
(* Processing.                                                             *)

StartProcessing ==
  /\ waiting = "none"
  /\ stateType = "READY_FOR_PROCESSING"
  /\ waiting' = "processor"
  /\ UNCHANGED <<shardVars, stateType, iterator, requested, start, delivered>>

\* The record processor's initialize calls back: the first batch is asked for.
ProcessorReady ==
  /\ waiting = "processor"
  /\ stateType' = "PROCESSING"
  /\ waiting' = "records"
  /\ UNCHANGED <<shardVars, iterator, requested, start, delivered>>

ProcessorFailed ==
  /\ waiting = "processor"
  /\ stateType' = "FAILED_TO_INITIALIZE"
  /\ waiting' = "none"
  /\ UNCHANGED <<shardVars, iterator, requested, start, delivered>>

\* onProcessingStop, once the state is not PROCESSING.
Stopped ==
  /\ stateType' = IF stateType = "SHUTDOWN_REQUESTED" THEN "SHUTDOWN_COMPLETE" ELSE stateType
  /\ waiting' = "none"

\* Mutant: a loop that finds the shutdown requested calls nobody back.
BatchSucceedsOnly ==
  /\ waiting' = IF stateType = "PROCESSING" THEN "queued" ELSE "none"
  /\ UNCHANGED stateType

\* processBatches' callback of a batch that succeeded.
BatchSucceeds ==
  IF stateType = "PROCESSING"
  THEN waiting' = "queued" /\ UNCHANGED stateType
  ELSE Stopped

\* Mutant: a loop that failed just ends.
BatchFailsQuietly == Stopped

\* A batch that failed ends the loop: onProcessingStop asserts that the state
\* is not PROCESSING.
BatchFails ==
  IF stateType = "PROCESSING"
  THEN waiting' = "dead" /\ UNCHANGED stateType
  ELSE Stopped

Batch(n) == [i \in 1 .. n |-> iterator + i]

\* Mutant: the next iterator of the answer is not kept.
AdvanceToEnd(n) ==
  iterator' = IF closed /\ iterator + n = written THEN AtEnd ELSE iterator

\* ShardIterator: the records were read, and the end shows in the answer.
Advance(n) ==
  iterator' = IF closed /\ iterator + n = written THEN AtEnd ELSE iterator + n

\* Kinesis answers with some of the records that are there, possibly none.
GetNextBatch(n) ==
  /\ waiting = "records"
  /\ n <= MaxRecordsPerCall
  /\ iterator + n <= written
  /\ Advance(n)
  /\ IF n > 0 \/ config.callProcessRecordsIfEmpty
     THEN /\ delivered' = delivered \o Batch(n)
          /\ waiting' = "batch"
          /\ UNCHANGED stateType
     ELSE BatchSucceeds /\ UNCHANGED delivered
  /\ UNCHANGED <<shardVars, requested, start>>

GetRecordsFailed ==
  /\ waiting = "records"
  /\ BatchFails
  /\ UNCHANGED <<shardVars, iterator, requested, start, delivered>>

\* The record processor's processRecords calls back.
ProcessRecordsDone ==
  /\ waiting = "batch"
  /\ BatchSucceeds \/ BatchFails
  /\ UNCHANGED <<shardVars, iterator, requested, start, delivered>>

\* Mutant: the state is not looked at again.
ProcessBatchesAnyway ==
  /\ waiting = "queued"
  /\ waiting' = IF iterator = AtEnd THEN "dead" ELSE "records"
  /\ UNCHANGED <<shardVars, stateType, iterator, requested, start, delivered>>

\* The lambda of processBatches, as far as the assertions of
\* processNextBatchInner let it come.
ProcessBatches ==
  /\ waiting = "queued"
  /\ IF stateType # "PROCESSING" THEN Stopped
     ELSE /\ waiting' = IF iterator = AtEnd THEN "dead" ELSE "records"
          /\ UNCHANGED stateType
  /\ UNCHANGED <<shardVars, iterator, requested, start, delivered>>

RequestShutdown ==
  /\ waiting # "dead"
  /\ ~requested
  /\ requested' = TRUE
  /\ stateType' = "SHUTDOWN_REQUESTED"
  /\ UNCHANGED <<shardVars, iterator, waiting, start, delivered>>

InitializationStep ==
  \/ CheckpointRead \/ CheckpointFailed
  \/ IteratorRead \/ IteratorFailed
  \/ ProcessorReady \/ ProcessorFailed

LoopStep ==
  \/ \E n \in 0 .. MaxRecordsPerCall : GetNextBatch(n)
  \/ GetRecordsFailed
  \/ ProcessRecordsDone
  \/ ProcessBatches

OwnerStep == StartInitializing \/ RetryAborts \/ StartProcessing \/ RequestShutdown

Next == PutRecord \/ CloseShard \/ InitializationStep \/ LoopStep \/ OwnerStep

Spec == Init /\ [][Next]_vars

\* The event loop runs, and the services and the record processor call back.
FairSpec == Spec /\ WF_vars(LoopStep)

------------------------------------------------------------------------------
(* Properties.                                                             *)

\* The record processor gets the records behind the checkpoint in order and
\* each of them once: every record that was read was handed over, whatever
\* batches came back empty or short, and until the end of the shard.
DeliveredInOrder ==
  /\ \A i \in 1 .. Len(delivered) : delivered[i] = start + i
  /\ iterator \in Nat => iterator = start + Len(delivered)
  /\ iterator = AtEnd => closed /\ written = start + Len(delivered)

\* The state tells whether the loop of batches goes on: a consumer in
\* PROCESSING always has a callback to come, and one whose shutdown has
\* completed has none.
StateShowsLoop ==
  /\ stateType = "PROCESSING" => waiting \in LoopCall \cup {"dead"}
  /\ waiting \in LoopCall => stateType \in {"PROCESSING", "SHUTDOWN_REQUESTED"}
  /\ stateType = "SHUTDOWN_COMPLETE" => requested /\ waiting = "none"

\* A shutdown that is requested while the loop of batches runs is never
\* overwritten: the batch being read may still be handed over, but none is read
\* or handed over after it; and once the shutdown has completed nothing happens.
\* Of a request made before the loop (while the checkpoint, the iterator or the
\* processor's initialize is awaited) this says nothing: the callback that is
\* awaited then overwrites it, and batches are read.
QuietAfterShutdown ==
  [][/\ stateType = "SHUTDOWN_COMPLETE" => UNCHANGED <<stateType, waiting, delivered>>
     /\ stateType = "SHUTDOWN_REQUESTED" /\ waiting \in LoopCall =>
          /\ stateType' \in {"SHUTDOWN_REQUESTED", "SHUTDOWN_COMPLETE"}
          /\ waiting' = "records" => waiting = "records"
          /\ waiting # "records" => UNCHANGED delivered]_vars

\* A shutdown that is requested while the loop runs completes, and calls back.
ShutdownCompletes ==
  (stateType = "SHUTDOWN_REQUESTED" /\ waiting \in LoopCall) ~> stateType = "SHUTDOWN_COMPLETE"

\* The invariant that carries DeliveredInOrder and StateShowsLoop.
IteratorFits ==
  /\ iterator = NoIterator => delivered = <<>>
  /\ waiting \in {"checkpoint", "iterator"} => iterator = NoIterator
  /\ waiting \in {"processor", "records"} => iterator \in Nat
  /\ waiting \in LoopCall => iterator # NoIterator
  /\ stateType = "READY_FOR_PROCESSING" => iterator \in Nat
  /\ stateType = "SHUTDOWN_REQUESTED" => requested

ConsumerInv ==
  /\ TypeOK
  /\ IteratorFits
  /\ DeliveredInOrder
  /\ StateShowsLoop

==============================================================================
