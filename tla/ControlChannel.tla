--------------------------- MODULE ControlChannel ---------------------------
(***************************************************************************)
(* EventContext's control channel, an MPSCEventChannel: any thread sends    *)
(* the event loop work to run, holding a spin lock; tryRead looks into the  *)
(* queue whether or not the eventfd was readable.  The work itself may send, *)
(* on the event thread, while the drain waits for it.                       *)
(***************************************************************************)
EXTENDS EventChannel

CONSTANTS
  EventThread,  \* the sender that is the event thread
  NoSender      \* nobody holds the lock

ASSUME LockAssumption == NoSender \notin Sender

VARIABLE lock  \* lock_

vars == <<channelVars, lock>>

TypeOK == ChannelTypeOK /\ lock \in Sender \cup {NoSender}

\* createNew has bound the channel and drained it before anybody can send.
Init == ChannelInit("waiting") /\ lock = NoSender

\* Mutant: the lock is not waited for.
LockAnyway(s) ==
  /\ s = EventThread => loop = "running"
  /\ BeginSend(s)
  /\ lock' = s

\* PThreadSpinLock
AcquireLock(s) == lock = NoSender /\ lock' = s
ReleaseLock == lock' = NoSender

LockAndSend(s) ==
  /\ s = EventThread => loop = "running"
  /\ AcquireLock(s)
  /\ BeginSend(s)

Unlock(s) == EndSend(s) /\ ReleaseLock

\* Mutant: a drain stops when the eventfd is not ready.
ReadFDReady ==
  /\ loop = "reading"
  /\ ResetFD
  /\ loop' = IF fd > 0 THEN "dequeuing" ELSE "waiting"
  /\ UNCHANGED <<log, head, sentBefore, senderVars, lock>>

\* tryRead ignores that the eventfd is not ready.
ReadFD ==
  /\ loop = "reading"
  /\ ResetFD
  /\ loop' = "dequeuing"
  /\ UNCHANGED <<log, head, sentBefore, senderVars, lock>>

SendStep(s) ==
  \/ (TryEnqueue(s) \/ Publish(s) \/ Signal(s)) /\ UNCHANGED lock
  \/ Unlock(s)

LoopStep ==
  \/ ReadFD
  \/ (Wake \/ Dequeue) /\ UNCHANGED lock
  \/ WorkDone /\ (EventThread \in Sender => pc[EventThread] = "idle") /\ UNCHANGED lock

Next == LoopStep \/ \E s \in Sender : LockAndSend(s) \/ SendStep(s)

Spec == Init /\ [][Next]_vars

\* A thread in the middle of a send goes on, and so does the event loop.
FairSpec == Spec /\ WF_vars(LoopStep) /\ \A s \in Sender : WF_vars(SendStep(s))

------------------------------------------------------------------------------

\* Every message whose send succeeded is run.
SentIsRun ==
  \A s \in Sender, n \in 1 .. MaxSends :
    n \in accepted[s] ~> Run(s, n)

InSend(s) == pc[s] # "idle"

\* The inductive invariant behind NothingLost.
LockInv ==
  /\ TypeOK
  /\ \A s \in Sender : InSend(s) <=> lock = s
  /\ \A s \in Sender : pc[s] = "writing" => at[s] = Len(log) + 1

SlotInv ==
  /\ \A s \in Sender, i \in 1 .. Len(log) : log[i].from = s =>
       /\ log[i].n <= sends[s]
       /\ pc[s] \in {"sending", "writing"} => log[i].n < sends[s]
  /\ \A s \in Sender : pc[s] = "enqueued" => Slots(s, sends[s]) # {}
  /\ \A s \in Sender : \A n \in accepted[s] : Slots(s, n) # {}
  /\ \A i, j \in 1 .. Len(log) :
       i < j /\ log[i].from = log[j].from => log[i].n < log[j].n

ChannelInv == LockInv /\ SlotInv
==============================================================================
