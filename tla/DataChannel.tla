----------------------------- MODULE DataChannel -----------------------------
(***************************************************************************)
(* A data channel, an SPSCEventChannel: one thread of the pool sends the    *)
(* event loop the results of its tasks.  The thread has sent the event loop *)
(* the channel and spins until it is acknowledged; tryRead fails when the   *)
(* eventfd is not ready, and the drain ends there.                          *)
(***************************************************************************)
EXTENDS EventChannel

vars == channelVars

Init == ChannelInit("unbound")

\* bindDataChannel: register the read event and acknowledge the channel ...
Bind ==
  /\ loop = "unbound"
  /\ loop' = "bound"
  /\ UNCHANGED <<log, head, fd, sentBefore, senderVars>>

\* ... and drain it.
DrainOnBind ==
  /\ loop = "bound"
  /\ BeginDrain
  /\ UNCHANGED <<log, head, fd, senderVars>>

TrySend(s) == loop # "unbound" /\ BeginSend(s)

\* Mutant: a ready eventfd ends the drain.
ReadFDInverted ==
  /\ loop = "reading"
  /\ ResetFD
  /\ loop' = IF fd > 0 THEN "waiting" ELSE "dequeuing"
  /\ UNCHANGED <<log, head, sentBefore, senderVars>>

ReadFD ==
  /\ loop = "reading"
  /\ ResetFD
  /\ loop' = IF fd > 0 THEN "dequeuing" ELSE "waiting"
  /\ UNCHANGED <<log, head, sentBefore, senderVars>>

SendStep(s) == TryEnqueue(s) \/ Publish(s) \/ Signal(s) \/ EndSend(s)

LoopStep == Bind \/ DrainOnBind \/ Wake \/ ReadFD \/ Dequeue \/ WorkDone

Next == LoopStep \/ \E s \in Sender : TrySend(s) \/ SendStep(s)

Spec == Init /\ [][Next]_vars

FairSpec == Spec /\ WF_vars(LoopStep) /\ \A s \in Sender : WF_vars(SendStep(s))

------------------------------------------------------------------------------

\* A write to the eventfd gets at least one message run.
SignalRunsOne ==
  \A h \in 0 .. MaxSends : (fd > 0 /\ head = h) ~> head > h

\* The inductive invariant behind WakeFindsMessage, for the one sender of a data
\* channel: the slot that it found is free, and the messages that the eventfd
\* counts, the one about to be signalled and the one that the loop was woken for
\* are in the queue.
Counted(n) == head + n <= Len(log)

SignalsCounted ==
  /\ \A s \in Sender : pc[s] = "writing" => at[s] = Len(log) + 1
  /\ Counted(fd)
  /\ loop = "dequeuing" => Counted(fd + 1)
  /\ \A s \in Sender : pc[s] = "enqueued" => Counted(fd + 1)
  /\ \A s \in Sender :
       loop = "dequeuing" /\ pc[s] = "enqueued" => Counted(fd + 2)

DataInv == ChannelTypeOK /\ SignalsCounted
==============================================================================
