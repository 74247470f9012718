---------------------------- MODULE EventChannel ----------------------------
(***************************************************************************)
(* What the two event channels share: a single-producer single-consumer     *)
(* ring, an eventfd that tells the event loop to look at it, and the drain  *)
(* loop of EventContext.  ControlChannel (MPSCEventChannel: senders take a  *)
(* spin lock) and DataChannel (SPSCEventChannel: one sender) extend it with *)
(* the steps in which they differ.                                          *)
(*                                                                         *)
(* A sender looks for a free slot, writes the message and publishes it, and *)
(* then writes to the eventfd; the consumer runs between any two of these.  *)
(* The ring is vendored code, modelled as its contract with one sender.     *)
(***************************************************************************)
EXTENDS Naturals, Sequences

CONSTANTS
  Sender,    \* the sending threads
  Capacity,  \* messages in the queue
  MaxSends   \* bound: sends of one sender

ASSUME ChannelAssumption == Capacity \in Nat \ {0} /\ MaxSends \in Nat

VARIABLES
  log,        \* the messages ever enqueued, in their order
  head,       \* how many of them were dequeued: the rest is the queue
  fd,         \* the eventfd's counter
  loop,       \* the event loop, as far as this channel goes
  sentBefore, \* history: accepted, as it was when the drain in progress began
  pc,         \* per sender, its place in a send
  at,         \* per sender, the slot it found free
  sends,      \* per sender, how many sends it began
  accepted    \* history: per sender, the sends that reported success

channelVars == <<log, head, fd, loop, sentBefore, pc, at, sends, accepted>>

Message == [from : Sender, n : Nat]

LoopState == {"unbound", "bound", "waiting", "reading", "dequeuing", "running"}

Place == {"idle", "sending", "writing", "enqueued", "leaving"}

ChannelTypeOK ==
  /\ log \in Seq(Message)
  /\ head \in Nat
  /\ head <= Len(log)
  /\ fd \in Nat
  /\ loop \in LoopState
  /\ sentBefore \in [Sender -> SUBSET Nat]
  /\ pc \in [Sender -> Place]
  /\ at \in [Sender -> Nat]
  /\ sends \in [Sender -> Nat]
  /\ accepted \in [Sender -> SUBSET Nat]

ChannelInit(loopState) ==
  /\ log = <<>>
  /\ head = 0
  /\ fd = 0
  /\ loop = loopState
  /\ sentBefore = [s \in Sender |-> {}]
  /\ pc = [s \in Sender |-> "idle"]
  /\ at = [s \in Sender |-> 0]
  /\ sends = [s \in Sender |-> 0]
  /\ accepted = [s \in Sender |-> {}]

loopVars == <<loop, sentBefore>>
senderVars == <<pc, at, sends, accepted>>

Goto(s, place) == pc' = [pc EXCEPT ![s] = place]

QueueLength == Len(log) - head

\* A read takes the whole count of the eventfd; of a count of 0 it reports that
\* the eventfd is not ready.
ResetFD == fd' = 0

------------------------------------------------------------------------------
(* Sending.  The last place of a send, "leaving", is where a lock is given  *)
(* back; a full queue is reported to the caller.                            *)

BeginSend(s) ==
  /\ pc[s] = "idle"
  /\ sends[s] < MaxSends
  /\ sends' = [sends EXCEPT ![s] = @ + 1]
  /\ Goto(s, "sending")
  /\ UNCHANGED <<log, head, fd, loopVars, at, accepted>>

\* Mutant: the eventfd is written before the message.
TryEnqueueSignalled(s) ==
  /\ pc[s] = "sending"
  /\ QueueLength < Capacity
  /\ at' = [at EXCEPT ![s] = Len(log) + 1]
  /\ Goto(s, "writing")
  /\ fd' = fd + 1
  /\ UNCHANGED <<log, head, loopVars, sends, accepted>>

TryEnqueue(s) ==
  /\ pc[s] = "sending"
  /\ IF QueueLength < Capacity
     THEN /\ at' = [at EXCEPT ![s] = Len(log) + 1]
          /\ Goto(s, "writing")
     ELSE /\ Goto(s, "leaving")
          /\ UNCHANGED at
  /\ UNCHANGED <<log, head, fd, loopVars, sends, accepted>>

\* Another sender that found the same slot would be overwritten.
Publish(s) ==
  LET msg == [from |-> s, n |-> sends[s]] IN
  /\ pc[s] = "writing"
  /\ log' = IF at[s] <= Len(log) THEN [log EXCEPT ![at[s]] = msg] ELSE Append(log, msg)
  /\ Goto(s, "enqueued")
  /\ UNCHANGED <<head, fd, loopVars, at, sends, accepted>>

Signal(s) ==
  /\ pc[s] = "enqueued"
  /\ fd' = fd + 1
  /\ accepted' = [accepted EXCEPT ![s] = @ \cup {sends[s]}]
  /\ Goto(s, "leaving")
  /\ UNCHANGED <<log, head, loopVars, at, sends>>

EndSend(s) ==
  /\ pc[s] = "leaving"
  /\ Goto(s, "idle")
  /\ UNCHANGED <<log, head, fd, loopVars, at, sends, accepted>>

------------------------------------------------------------------------------
(* The event loop.                                                         *)

BeginDrain == loop' = "reading" /\ sentBefore' = accepted

\* The eventfd is readable.
Wake ==
  /\ loop = "waiting"
  /\ fd > 0
  /\ BeginDrain
  /\ UNCHANGED <<log, head, fd, senderVars>>

\* try_dequeue, and the end of the drain when there is nothing.
Dequeue ==
  /\ loop = "dequeuing"
  /\ IF QueueLength = 0
     THEN loop' = "waiting" /\ UNCHANGED head
     ELSE loop' = "running" /\ head' = head + 1
  /\ UNCHANGED <<log, fd, sentBefore, senderVars>>

\* message.work() returns.
WorkDone ==
  /\ loop = "running"
  /\ loop' = "reading"
  /\ UNCHANGED <<log, head, fd, sentBefore, senderVars>>

------------------------------------------------------------------------------

\* The place of a message in the log.
Slots(s, n) == {i \in 1 .. Len(log) : log[i] = [from |-> s, n |-> n]}

\* A send that reported success is in the queue or was run, once, and the
\* messages of one sender keep their order.
NothingLost ==
  /\ \A s \in Sender : \A n \in accepted[s] :
       \E i \in Slots(s, n) : \A j \in Slots(s, n) : i = j
  /\ \A i, j \in 1 .. Len(log) :
       i < j /\ log[i].from = log[j].from => log[i].n < log[j].n

\* A message waits only where the loop will look: the eventfd is readable, or
\* the message's sender is about to write to it.
NoLostWakeup ==
  loop = "waiting" /\ QueueLength > 0 =>
    fd > 0 \/ \E s \in Sender : pc[s] = "enqueued"

\* The loop never wakes for nothing: a readable eventfd stands for a message
\* (of a data channel; a control channel is looked into all the same).
WakeFindsMessage == loop = "dequeuing" => QueueLength > 0

Run(s, n) == \E i \in Slots(s, n) : i <= head

\* A drain runs the messages that were sent before it began: the drain at the
\* registration of a channel those that came earlier, every other drain those
\* whose writes to the eventfd its wakeup stands for.
DrainRunsAll ==
  [][loop # "waiting" /\ loop' = "waiting" =>
       \A s \in Sender : \A n \in sentBefore[s] : Run(s, n)]_channelVars
==============================================================================
