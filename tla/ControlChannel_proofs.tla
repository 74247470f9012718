------------------------ MODULE ControlChannel_proofs ------------------------
(***************************************************************************)
(* Proofs about ControlChannel, for any senders, capacity and number of     *)
(* sends: the spin lock makes the ring's slots the lock holder's, and with  *)
(* that every message accepted has one place in the log for ever.  Then     *)
(* about DataChannel: what its eventfd counts is in the queue.              *)
(***************************************************************************)
EXTENDS ControlChannel, TLAPS

USE DEF Goto, QueueLength, loopVars, senderVars

\* Only the lock holder is in a send, and the slot it found is still free.
LEMMA LockStep == LockInv /\ [Next]_vars => LockInv'
<1> SUFFICES ASSUME LockInv, [Next]_vars PROVE LockInv'
  OBVIOUS
<1> USE LockAssumption DEF LockInv, TypeOK, ChannelTypeOK, InSend
<1>1. CASE UNCHANGED vars
  BY <1>1 DEF vars, channelVars
<1>2. ASSUME NEW s \in Sender, LockAndSend(s) PROVE LockInv'
  <2> USE <1>2 DEF LockAndSend, AcquireLock, BeginSend
  <2>1. TypeOK'
    BY DEF Place
  <2>2. \A u \in Sender : (InSend(u) <=> lock = u)'
    OBVIOUS
  <2>3. \A u \in Sender : (pc[u] = "writing" => at[u] = Len(log) + 1)'
    OBVIOUS
  <2> QED
    BY <2>1, <2>2, <2>3
<1>3. ASSUME NEW s \in Sender, TryEnqueue(s), UNCHANGED lock PROVE LockInv'
  <2> USE <1>3 DEF TryEnqueue
  <2>0. Len(log) + 1 \in Nat
    OBVIOUS
  <2>1. at' \in [Sender -> Nat]
    <3>1. CASE QueueLength < Capacity
      <4>1. at' = [at EXCEPT ![s] = Len(log) + 1]
        BY <3>1
      <4> QED
        BY <2>0, <4>1
    <3>2. CASE ~(QueueLength < Capacity)
      BY <3>2
    <3> QED
      BY <3>1, <3>2
  <2>2. TypeOK'
    BY <2>1 DEF Place
  <2>3. \A u \in Sender : (InSend(u) <=> lock = u)'
    OBVIOUS
  <2>4. \A u \in Sender : (pc[u] = "writing" => at[u] = Len(log) + 1)'
    OBVIOUS
  <2> QED
    BY <2>2, <2>3, <2>4
<1>4. ASSUME NEW s \in Sender, Publish(s), UNCHANGED lock PROVE LockInv'
  <2> USE <1>4 DEF Publish
  <2> DEFINE msg == [from |-> s, n |-> sends[s]]
  <2>1. msg \in Message
    BY DEF Message
  <2>2. log' = Append(log, msg)
    OBVIOUS
  <2>3. log' \in Seq(Message) /\ Len(log') = Len(log) + 1
    BY <2>1, <2>2
  <2>4. TypeOK'
    BY <2>3 DEF Place
  <2>5. \A u \in Sender : (InSend(u) <=> lock = u)'
    OBVIOUS
  <2>6. \A u \in Sender : (pc[u] = "writing" => at[u] = Len(log) + 1)'
    OBVIOUS
  <2> QED
    BY <2>4, <2>5, <2>6
<1>5. ASSUME NEW s \in Sender, Signal(s), UNCHANGED lock PROVE LockInv'
  <2> USE <1>5 DEF Signal
  <2>1. TypeOK'
    BY DEF Place
  <2> QED
    BY <2>1
<1>6. ASSUME NEW s \in Sender, Unlock(s) PROVE LockInv'
  <2> USE <1>6 DEF Unlock, ReleaseLock, EndSend
  <2>1. TypeOK'
    BY DEF Place
  <2> QED
    BY <2>1
<1>7. ASSUME LoopStep PROVE LockInv'
  <2>1. lock' = lock /\ log' = log /\ pc' = pc /\ at' = at
    BY <1>7 DEF LoopStep, ReadFD, ResetFD, Wake, Dequeue, WorkDone, BeginDrain
  <2>2. TypeOK'
    BY <1>7, <2>1 DEF LoopStep, ReadFD, ResetFD, Wake, Dequeue, WorkDone, BeginDrain, LoopState
  <2> QED
    BY <2>1, <2>2
<1> QED
  BY <1>1, <1>2, <1>3, <1>4, <1>5, <1>6, <1>7 DEF Next, SendStep

\* What is in the log are messages.
LEMMA LogTyped ==
  ASSUME LockInv, NEW i \in 1 .. Len(log)
  PROVE  log[i].from \in Sender /\ log[i].n \in Nat
<1>1. log[i] \in Message
  BY DEF LockInv, TypeOK, ChannelTypeOK
<1> QED
  BY <1>1 DEF Message

\* A publication under the lock appends the message: it is the sender's last.
LEMMA PublishSlots ==
  ASSUME LockInv, SlotInv, NEW s \in Sender, Publish(s)
  PROVE  SlotInv'
<1> DEFINE msg == [from |-> s, n |-> sends[s]]
<1>0. /\ log \in Seq(Message) /\ Len(log) \in Nat
      /\ sends \in [Sender -> Nat] /\ pc \in [Sender -> Place]
      /\ pc[s] = "writing" /\ at[s] = Len(log) + 1
  BY DEF LockInv, TypeOK, ChannelTypeOK, Publish
<1>1. msg \in Message /\ log' = Append(log, msg)
  BY <1>0 DEF Publish, Message
<1>2. /\ Len(log') = Len(log) + 1
      /\ log'[Len(log) + 1] = msg
      /\ \A i \in 1 .. Len(log) : log'[i] = log[i]
  BY <1>0, <1>1
<1>3. \A i \in 1 .. Len(log) : log[i].from = s => log[i].n < sends[s]
  BY <1>0 DEF SlotInv
<1>4. /\ sends' = sends /\ accepted' = accepted
      /\ pc'[s] = "enqueued" /\ \A u \in Sender \ {s} : pc'[u] = pc[u]
  BY <1>0 DEF Publish
<1> HIDE DEF msg
<1>5. ASSUME NEW u \in Sender, NEW i \in 1 .. Len(log'), log'[i].from = u
      PROVE  /\ log'[i].n <= sends[u]
             /\ pc'[u] \in {"sending", "writing"} => log'[i].n < sends[u]
  <2>1. CASE i = Len(log) + 1
    BY <1>0, <1>2, <1>4, <1>5, <2>1 DEF msg
  <2>2. CASE i \in 1 .. Len(log)
    <3>1. log'[i] = log[i] /\ log[i].from = u
      BY <1>2, <1>5, <2>2
    <3>2. CASE u = s
      BY <1>3, <1>4, <2>2, <3>1, <3>2 DEF SlotInv
    <3>3. CASE u # s
      BY <1>4, <2>2, <3>1, <3>3 DEF SlotInv
    <3> QED
      BY <3>2, <3>3
  <2> QED
    BY <1>0, <1>2, <2>1, <2>2
<1>6. \A u \in Sender, n \in Nat : Slots(u, n) \subseteq Slots(u, n)'
  BY <1>0, <1>2 DEF Slots
<1>7. Len(log) + 1 \in Slots(s, sends[s])'
  BY <1>0, <1>2, <1>4 DEF Slots, msg
<1>8. ASSUME NEW u \in Sender, pc'[u] = "enqueued"
      PROVE  Slots(u, sends[u])' # {}
  <2>1. CASE u = s
    BY <1>7, <2>1
  <2>2. CASE u # s
    BY <1>0, <1>4, <1>6, <1>8, <2>2 DEF SlotInv
  <2> QED
    BY <2>1, <2>2
<1>9. ASSUME NEW u \in Sender, NEW n \in accepted[u]
      PROVE  Slots(u, n)' # {}
  <2>1. n \in Nat
    BY DEF LockInv, TypeOK, ChannelTypeOK
  <2> QED
    BY <1>6, <2>1 DEF SlotInv
<1>10. ASSUME NEW i \in 1 .. Len(log'), NEW j \in 1 .. Len(log'),
              i < j, log'[i].from = log'[j].from
       PROVE  log'[i].n < log'[j].n
  <2>1. i \in 1 .. Len(log) /\ log'[i] = log[i]
    BY <1>0, <1>2, <1>10
  <2>2. CASE j = Len(log) + 1
    BY <1>2, <1>3, <1>10, <2>1, <2>2 DEF msg
  <2>3. CASE j \in 1 .. Len(log)
    BY <1>2, <1>10, <2>1, <2>3 DEF SlotInv
  <2> QED
    BY <1>0, <1>2, <2>2, <2>3
<1> QED
  BY <1>4, <1>5, <1>8, <1>9, <1>10 DEF SlotInv

\* A step that leaves the log alone, and begins no send but with a new number.
LEMMA LogKept ==
  ASSUME LockInv, SlotInv, log' = log,
         NEW s \in Sender,
         \A u \in Sender \ {s} : pc'[u] = pc[u] /\ sends'[u] = sends[u]
                                 /\ accepted'[u] = accepted[u],
         \/ sends'[s] = sends[s] + 1 /\ pc'[s] # "enqueued" /\ accepted'[s] = accepted[s]
         \/ /\ sends'[s] = sends[s]
            /\ pc'[s] \in {"sending", "writing"} => pc[s] \in {"sending", "writing"}
            /\ pc'[s] = "enqueued" => pc[s] = "enqueued"
            /\ \/ accepted'[s] = accepted[s]
               \/ pc[s] = "enqueued" /\ accepted'[s] = accepted[s] \cup {sends[s]}
  PROVE  SlotInv'
<1>1. sends[s] \in Nat
  BY DEF LockInv, TypeOK, ChannelTypeOK
<1>2. \A u, n : Slots(u, n)' = Slots(u, n)
  BY DEF Slots
<1>3. ASSUME NEW u \in Sender, NEW i \in 1 .. Len(log), log[i].from = u
      PROVE  /\ log[i].n <= sends'[u]
             /\ pc'[u] \in {"sending", "writing"} => log[i].n < sends'[u]
  <2>1. log[i].n \in Nat
    BY LogTyped
  <2>2. CASE u = s
    BY <1>1, <1>3, <2>1, <2>2 DEF SlotInv
  <2>3. CASE u # s
    BY <1>3, <2>3 DEF SlotInv
  <2> QED
    BY <2>2, <2>3
<1>4. ASSUME NEW u \in Sender, pc'[u] = "enqueued"
      PROVE  Slots(u, sends'[u]) # {}
  BY <1>4 DEF SlotInv
<1>5. ASSUME NEW u \in Sender, NEW n \in accepted'[u]
      PROVE  Slots(u, n) # {}
  BY <1>5 DEF SlotInv
<1> QED
  BY <1>2, <1>3, <1>4, <1>5 DEF SlotInv

\* The slots keep their messages, and a sender's numbers only grow.
LEMMA SlotStep == LockInv /\ SlotInv /\ [Next]_vars => SlotInv'
<1> SUFFICES ASSUME LockInv, SlotInv, [Next]_vars PROVE SlotInv'
  OBVIOUS
<1>0. /\ pc \in [Sender -> Place] /\ sends \in [Sender -> Nat]
      /\ accepted \in [Sender -> SUBSET Nat]
  BY DEF LockInv, TypeOK, ChannelTypeOK
<1>1. ASSUME log' = log, pc' = pc, sends' = sends, accepted' = accepted PROVE SlotInv'
  BY <1>1 DEF SlotInv, Slots
<1>2. ASSUME NEW s \in Sender, LockAndSend(s) PROVE SlotInv'
  BY <1>0, <1>2, LogKept DEF LockAndSend, AcquireLock, BeginSend
<1>3. ASSUME NEW s \in Sender, TryEnqueue(s) PROVE SlotInv'
  BY <1>0, <1>3, LogKept DEF TryEnqueue
<1>4. ASSUME NEW s \in Sender, Publish(s) PROVE SlotInv'
  BY <1>4, PublishSlots
<1>5. ASSUME NEW s \in Sender, Signal(s) PROVE SlotInv'
  BY <1>0, <1>5, LogKept DEF Signal
<1>6. ASSUME NEW s \in Sender, Unlock(s) PROVE SlotInv'
  BY <1>0, <1>6, LogKept DEF Unlock, ReleaseLock, EndSend
<1>7. ASSUME LoopStep PROVE SlotInv'
  BY <1>1, <1>7 DEF LoopStep, ReadFD, ResetFD, Wake, Dequeue, WorkDone, BeginDrain
<1>8. CASE UNCHANGED vars
  BY <1>1, <1>8 DEF vars, channelVars
<1> QED
  BY <1>2, <1>3, <1>4, <1>5, <1>6, <1>7, <1>8 DEF Next, SendStep

\* The invariant of the control channel.
THEOREM ChannelInvariant == Spec => []ChannelInv
<1>1. Init => ChannelInv
  <2> SUFFICES ASSUME Init PROVE ChannelInv
    OBVIOUS
  <2> USE LockAssumption DEF Init, ChannelInit
  <2>1. log \in Seq(Message) /\ Len(log) = 0
    OBVIOUS
  <2>2. TypeOK
    BY <2>1 DEF TypeOK, ChannelTypeOK, Place, LoopState
  <2>3. LockInv
    BY <2>2 DEF LockInv, InSend
  <2>4. SlotInv
    BY <2>1 DEF SlotInv
  <2> QED
    BY <2>3, <2>4 DEF ChannelInv
<1>2. ChannelInv /\ [Next]_vars => ChannelInv'
  BY LockStep, SlotStep DEF ChannelInv
<1> QED
  BY <1>1, <1>2, PTL DEF Spec

\* A message whose send succeeded is never overwritten, doubled or overtaken
\* by a later one of its sender.
THEOREM MessagesAreKept == Spec => []NothingLost
<1>1. ChannelInv => NothingLost
  <2> SUFFICES ASSUME ChannelInv PROVE NothingLost
    OBVIOUS
  <2> USE DEF ChannelInv, LockInv, TypeOK, ChannelTypeOK, SlotInv
  <2>1. ASSUME NEW s \in Sender, NEW n \in accepted[s]
        PROVE  \E i \in Slots(s, n) : \A j \in Slots(s, n) : i = j
    <3>1. n \in Nat
      BY <2>1
    <3>2. PICK i \in Slots(s, n) : TRUE
      BY <2>1
    <3>3. ASSUME NEW j \in Slots(s, n) PROVE i = j
      <4>1. /\ i \in 1 .. Len(log) /\ j \in 1 .. Len(log)
            /\ log[i].from = log[j].from /\ log[i].n = n /\ log[j].n = n
        BY <3>2, <3>3 DEF Slots
      <4>2. ~(i < j) /\ ~(j < i)
        <5>1. \A a, b \in 1 .. Len(log) :
                a < b /\ log[a].from = log[b].from => log[a].n < log[b].n
          OBVIOUS
        <5>2. i < j => n < n
          BY <4>1, <5>1
        <5>3. j < i => n < n
          BY <4>1, <5>1
        <5> QED
          BY <3>1, <5>2, <5>3
      <4>3. i \in Nat /\ j \in Nat
        BY <4>1
      <4> QED
        BY <4>2, <4>3
    <3> QED
      BY <3>2, <3>3
  <2> QED
    BY <2>1 DEF NothingLost
<1> QED
  BY <1>1, ChannelInvariant, PTL

\* The event loop never waits while a message lies in the queue of which it
\* will not be told.
THEOREM WakeupsAreNotLost == Spec => []NoLostWakeup
<1>1. Init => NoLostWakeup
  BY DEF Init, ChannelInit, NoLostWakeup
<1>2. LockInv /\ NoLostWakeup /\ [Next]_vars => NoLostWakeup'
  <2> SUFFICES ASSUME LockInv, NoLostWakeup, [Next]_vars PROVE NoLostWakeup'
    OBVIOUS
  <2> USE DEF LockInv, TypeOK, ChannelTypeOK, NoLostWakeup
  <2>1. CASE UNCHANGED vars
    BY <2>1 DEF vars, channelVars
  <2>2. ASSUME NEW s \in Sender, LockAndSend(s) PROVE NoLostWakeup'
    BY <2>2 DEF LockAndSend, AcquireLock, BeginSend
  <2>3. ASSUME NEW s \in Sender, TryEnqueue(s) PROVE NoLostWakeup'
    BY <2>3 DEF TryEnqueue
  <2>4. ASSUME NEW s \in Sender, Publish(s) PROVE NoLostWakeup'
    BY <2>4 DEF Publish
  <2>5. ASSUME NEW s \in Sender, Signal(s) PROVE NoLostWakeup'
    BY <2>5 DEF Signal
  <2>6. ASSUME NEW s \in Sender, Unlock(s) PROVE NoLostWakeup'
    BY <2>6 DEF Unlock, ReleaseLock, EndSend
  <2>7. ASSUME LoopStep PROVE NoLostWakeup'
    BY <2>7 DEF LoopStep, ReadFD, ResetFD, Wake, Dequeue, WorkDone, BeginDrain
  <2> QED
    BY <2>1, <2>2, <2>3, <2>4, <2>5, <2>6, <2>7 DEF Next, SendStep
<1>3. Spec => []LockInv
  <2>1. ChannelInv => LockInv
    BY DEF ChannelInv
  <2> QED
    BY <2>1, ChannelInvariant, PTL
<1> QED
  BY <1>1, <1>2, <1>3, PTL DEF Spec

\* What had been sent when a drain began was sent.
SentBeforeAccepted == \A s \in Sender : sentBefore[s] \subseteq accepted[s]

\* A drain ends when it has run all that was sent before it began: it looks
\* into the queue until it is empty, readable eventfd or not.
THEOREM DrainsRunAll == Spec => DrainRunsAll
<1> DEFINE Drained == loop # "waiting" /\ loop' = "waiting" =>
                        \A s \in Sender : \A n \in sentBefore[s] : Run(s, n)
<1>1. Init => SentBeforeAccepted
  BY DEF Init, ChannelInit, SentBeforeAccepted
<1>2. ChannelInv /\ SentBeforeAccepted /\ [Next]_vars => SentBeforeAccepted'
  <2> SUFFICES ASSUME ChannelInv, SentBeforeAccepted, [Next]_vars
               PROVE  SentBeforeAccepted'
    OBVIOUS
  <2> USE DEF ChannelInv, LockInv, TypeOK, ChannelTypeOK, SentBeforeAccepted
  <2>1. CASE UNCHANGED vars
    BY <2>1 DEF vars, channelVars
  <2>2. ASSUME NEW s \in Sender, LockAndSend(s) PROVE SentBeforeAccepted'
    BY <2>2 DEF LockAndSend, AcquireLock, BeginSend
  <2>3. ASSUME NEW s \in Sender, TryEnqueue(s) PROVE SentBeforeAccepted'
    BY <2>3 DEF TryEnqueue
  <2>4. ASSUME NEW s \in Sender, Publish(s) PROVE SentBeforeAccepted'
    BY <2>4 DEF Publish
  <2>5. ASSUME NEW s \in Sender, Signal(s) PROVE SentBeforeAccepted'
    BY <2>5 DEF Signal
  <2>6. ASSUME NEW s \in Sender, Unlock(s) PROVE SentBeforeAccepted'
    BY <2>6 DEF Unlock, ReleaseLock, EndSend
  <2>7. ASSUME LoopStep PROVE SentBeforeAccepted'
    BY <2>7 DEF LoopStep, ReadFD, ResetFD, Wake, Dequeue, WorkDone, BeginDrain
  <2> QED
    BY <2>1, <2>2, <2>3, <2>4, <2>5, <2>6, <2>7 DEF Next, SendStep
<1>3. ChannelInv /\ SentBeforeAccepted /\ [Next]_vars => [Drained]_channelVars
  <2> SUFFICES ASSUME ChannelInv, SentBeforeAccepted, [Next]_vars,
                      loop # "waiting", loop' = "waiting",
                      NEW s \in Sender, NEW n \in sentBefore[s]
               PROVE  Run(s, n)
    OBVIOUS
  <2>1. ~UNCHANGED vars
    BY DEF vars, channelVars
  <2>2. \A u \in Sender : ~LockAndSend(u) /\ ~SendStep(u)
    BY DEF LockAndSend, AcquireLock, BeginSend, SendStep, TryEnqueue, Publish, Signal,
           Unlock, EndSend
  <2>3. LoopStep
    BY <2>1, <2>2 DEF Next
  <2>4. QueueLength = 0
    BY <2>3 DEF LoopStep, ReadFD, Wake, BeginDrain, WorkDone, Dequeue
  <2>5. head = Len(log) /\ Len(log) \in Nat
    BY <2>4 DEF ChannelInv, LockInv, TypeOK, ChannelTypeOK
  <2>6. Slots(s, n) # {}
    BY DEF SentBeforeAccepted, ChannelInv, SlotInv
  <2> QED
    BY <2>5, <2>6 DEF Run, Slots
<1> QED
  BY <1>1, <1>2, <1>3, ChannelInvariant, PTL DEF Spec, DrainRunsAll

------------------------------------------------------------------------------
(* A data channel, with the one sender that it has (an SPSC queue), and any *)
(* capacity and number of sends.                                            *)

Data == INSTANCE DataChannel

OneSender == \A s, t \in Sender : s = t

USE DEF Data!Goto, Data!QueueLength, Data!loopVars, Data!senderVars, Data!Counted

\* What a step of the sender does to the queue and the eventfd.
LEMMA DataSenderStep ==
  ASSUME OneSender, Data!DataInv, NEW s \in Sender, Data!TrySend(s) \/ Data!SendStep(s)
  PROVE  Data!DataInv'
<1> USE DEF Data!ChannelTypeOK
<1>a. /\ log \in Seq(Data!Message) /\ Len(log) \in Nat /\ head \in Nat /\ fd \in Nat
      /\ pc \in [Sender -> Data!Place] /\ at \in [Sender -> Nat]
      /\ Data!SignalsCounted /\ Data!ChannelTypeOK
  BY DEF Data!DataInv
<1>b. \A t \in Sender : t = s
  BY DEF OneSender
<1>1. CASE Data!TrySend(s)
  <2>1. /\ UNCHANGED <<log, head, fd, loop, sentBefore, at, accepted>>
        /\ pc[s] = "idle" /\ pc' = [pc EXCEPT ![s] = "sending"]
        /\ sends' = [sends EXCEPT ![s] = @ + 1]
    BY <1>1 DEF Data!TrySend, Data!BeginSend
  <2>2. Data!ChannelTypeOK'
    BY <1>a, <2>1 DEF Data!Place
  <2>3. Data!SignalsCounted'
    BY <1>a, <2>1 DEF Data!SignalsCounted
  <2> QED
    BY <2>2, <2>3 DEF Data!DataInv
<1>2. CASE Data!TryEnqueue(s)
  <2>1. /\ UNCHANGED <<log, head, fd, loop, sentBefore, sends, accepted>>
        /\ pc[s] = "sending"
        /\ \/ pc' = [pc EXCEPT ![s] = "writing"] /\ at' = [at EXCEPT ![s] = Len(log) + 1]
           \/ pc' = [pc EXCEPT ![s] = "leaving"] /\ at' = at
    BY <1>2 DEF Data!TryEnqueue
  <2>2. Len(log) + 1 \in Nat
    BY <1>a
  <2>3. Data!ChannelTypeOK'
    BY <1>a, <2>1, <2>2 DEF Data!Place
  <2>4. \A t \in Sender : pc'[t] = "writing" => at'[t] = Len(log') + 1
    BY <1>a, <1>b, <2>1
  <2>5. \A t \in Sender : pc'[t] # "enqueued"
    BY <1>a, <1>b, <2>1
  <2>6. Data!SignalsCounted'
    BY <1>a, <2>1, <2>4, <2>5 DEF Data!SignalsCounted
  <2> QED
    BY <2>3, <2>6 DEF Data!DataInv
<1>3. CASE Data!Publish(s)
  <2>1. PICK msg : msg = [from |-> s, n |-> sends[s]]
    OBVIOUS
  <2>2. at[s] = Len(log) + 1 /\ ~(at[s] <= Len(log))
    BY <1>3, <1>a DEF Data!Publish, Data!SignalsCounted
  <2>3. /\ UNCHANGED <<head, fd, loop, sentBefore, at, sends, accepted>>
        /\ pc[s] = "writing" /\ pc' = [pc EXCEPT ![s] = "enqueued"]
        /\ log' = Append(log, msg)
    BY <1>3, <2>1, <2>2 DEF Data!Publish
  <2>4. msg \in Data!Message
    BY <1>a, <2>1 DEF Data!Message
  <2>5. log' \in Seq(Data!Message) /\ Len(log') = Len(log) + 1
    BY <1>a, <2>3, <2>4
  <2>6. Data!ChannelTypeOK'
    BY <1>a, <2>3, <2>5 DEF Data!Place
  <2>7. \A t \in Sender : pc'[t] # "writing"
    BY <1>a, <1>b, <2>3
  <2>8. Data!SignalsCounted'
    BY <1>a, <2>3, <2>5, <2>7 DEF Data!SignalsCounted
  <2> QED
    BY <2>6, <2>8 DEF Data!DataInv
<1>4. CASE Data!Signal(s)
  <2>1. /\ UNCHANGED <<log, head, loop, sentBefore, at, sends>>
        /\ pc[s] = "enqueued" /\ pc' = [pc EXCEPT ![s] = "leaving"]
        /\ fd' = fd + 1 /\ accepted' = [accepted EXCEPT ![s] = @ \cup {sends[s]}]
    BY <1>4 DEF Data!Signal
  <2>2. Data!ChannelTypeOK'
    BY <1>a, <2>1 DEF Data!Place
  <2>3. \A t \in Sender : pc'[t] = "leaving"
    BY <1>a, <1>b, <2>1
  <2>4. head + fd + 1 <= Len(log) /\ (loop = "dequeuing" => head + fd + 2 <= Len(log))
    BY <1>a, <2>1 DEF Data!SignalsCounted
  <2>5. Data!SignalsCounted'
    BY <1>a, <2>1, <2>3, <2>4 DEF Data!SignalsCounted
  <2> QED
    BY <2>2, <2>5 DEF Data!DataInv
<1>5. CASE Data!EndSend(s)
  <2>1. /\ UNCHANGED <<log, head, fd, loop, sentBefore, at, sends, accepted>>
        /\ pc[s] = "leaving" /\ pc' = [pc EXCEPT ![s] = "idle"]
    BY <1>5 DEF Data!EndSend
  <2>2. Data!ChannelTypeOK'
    BY <1>a, <2>1 DEF Data!Place
  <2>3. Data!SignalsCounted'
    BY <1>a, <2>1 DEF Data!SignalsCounted
  <2> QED
    BY <2>2, <2>3 DEF Data!DataInv
<1> QED
  BY <1>1, <1>2, <1>3, <1>4, <1>5 DEF Data!SendStep

\* The same for the loop's steps: only a read of the eventfd that counted a
\* message makes it dequeue.
LEMMA DataLoopStep ==
  ASSUME Data!DataInv, Data!LoopStep
  PROVE  Data!DataInv'
<1>a. /\ log \in Seq(Data!Message) /\ Len(log) \in Nat /\ head \in Nat /\ fd \in Nat
      /\ head <= Len(log) /\ Data!SignalsCounted /\ Data!ChannelTypeOK
  BY DEF Data!DataInv, Data!ChannelTypeOK
<1>1. UNCHANGED <<log, pc, at, sends, accepted>>
  BY DEF Data!LoopStep, Data!Bind, Data!DrainOnBind, Data!Wake, Data!ReadFD, Data!Dequeue,
     Data!WorkDone
<1>2. sentBefore' \in [Sender -> SUBSET Nat] /\ loop' \in Data!LoopState
  BY <1>a DEF Data!LoopStep, Data!Bind, Data!DrainOnBind, Data!Wake, Data!ReadFD, Data!Dequeue,
     Data!WorkDone, Data!BeginDrain, Data!LoopState, Data!ChannelTypeOK
<1>3. CASE Data!Bind \/ Data!DrainOnBind \/ Data!Wake \/ Data!WorkDone
  <2>1. UNCHANGED <<head, fd>> /\ loop' # "dequeuing"
    BY <1>3 DEF Data!Bind, Data!DrainOnBind, Data!Wake, Data!WorkDone, Data!BeginDrain
  <2>2. Data!ChannelTypeOK'
    BY <1>a, <1>1, <1>2, <2>1 DEF Data!ChannelTypeOK
  <2>3. Data!SignalsCounted'
    BY <1>a, <1>1, <2>1 DEF Data!SignalsCounted
  <2> QED
    BY <2>2, <2>3 DEF Data!DataInv
<1>4. CASE Data!ReadFD
  <2>1. /\ loop = "reading" /\ fd' = 0 /\ head' = head
        /\ loop' = "dequeuing" => fd > 0
    BY <1>4 DEF Data!ReadFD, Data!ResetFD
  <2>2. Data!ChannelTypeOK'
    BY <1>a, <1>1, <1>2, <2>1 DEF Data!ChannelTypeOK
  <2>3. Data!SignalsCounted'
    BY <1>a, <1>1, <2>1 DEF Data!SignalsCounted
  <2> QED
    BY <2>2, <2>3 DEF Data!DataInv
<1>5. CASE Data!Dequeue
  <2>1. /\ loop = "dequeuing" /\ fd' = fd /\ loop' # "dequeuing"
        /\ head' = head \/ head' = head + 1
    BY <1>5 DEF Data!Dequeue
  <2>2. head + fd + 1 <= Len(log)
    BY <1>a, <2>1 DEF Data!SignalsCounted
  <2>3. Data!ChannelTypeOK'
    BY <1>a, <1>1, <1>2, <2>1, <2>2 DEF Data!ChannelTypeOK
  <2>4. Data!SignalsCounted'
    BY <1>a, <1>1, <2>1, <2>2 DEF Data!SignalsCounted
  <2> QED
    BY <2>3, <2>4 DEF Data!DataInv
<1> QED
  BY <1>3, <1>4, <1>5 DEF Data!LoopStep

\* The loop never looks into the queue for nothing: trySend writes the eventfd
\* after the message, and tryRead looks only after a read that counted one.
THEOREM WakesFindMessages ==
  ASSUME OneSender
  PROVE  Data!Spec => []WakeFindsMessage
<1>1. Data!Init => Data!DataInv
  <2> SUFFICES ASSUME Data!Init PROVE Data!DataInv
    OBVIOUS
  <2>1. Data!ChannelTypeOK
    BY DEF Data!Init, Data!ChannelInit, Data!ChannelTypeOK, Data!LoopState, Data!Place
  <2>2. Data!SignalsCounted
    BY DEF Data!Init, Data!ChannelInit, Data!SignalsCounted
  <2> QED
    BY <2>1, <2>2 DEF Data!DataInv
<1>2. Data!DataInv /\ [Data!Next]_Data!vars => Data!DataInv'
  <2> SUFFICES ASSUME Data!DataInv, [Data!Next]_Data!vars PROVE Data!DataInv'
    OBVIOUS
  <2>1. CASE UNCHANGED Data!vars
    <3>1. Data!ChannelTypeOK'
      BY <2>1 DEF Data!vars, Data!channelVars, Data!DataInv, Data!ChannelTypeOK
    <3>2. Data!SignalsCounted'
      BY <2>1 DEF Data!vars, Data!channelVars, Data!DataInv, Data!SignalsCounted
    <3> QED
      BY <3>1, <3>2 DEF Data!DataInv
  <2>2. CASE Data!Next
    BY <2>2, DataSenderStep, DataLoopStep DEF Data!Next
  <2> QED
    BY <2>1, <2>2
<1>3. Data!DataInv => WakeFindsMessage
  BY DEF Data!DataInv, Data!ChannelTypeOK, Data!SignalsCounted, WakeFindsMessage
<1> QED
  BY <1>1, <1>2, <1>3, PTL DEF Data!Spec
==============================================================================
