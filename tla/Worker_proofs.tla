---------------------------- MODULE Worker_proofs ----------------------------
(***************************************************************************)
(* Proofs about Worker, for any number of threads that call run() and       *)
(* shutdown() and any size of the stack.                                    *)
(***************************************************************************)
EXTENDS Worker, TLAPS

(***************************************************************************)
(* The queue, as a sequence without repetitions.                            *)
(***************************************************************************)

\* Sending puts one more lambda into the queue.
LEMMA AppendQueues ==
  ASSUME NEW S, NEW q \in Seq(S), NEW t \in S
  PROVE  /\ Append(q, t) \in Seq(S)
         /\ \A u : Queued(u, Append(q, t)) <=> Queued(u, q) \/ u = t
         /\ (\A i, j \in 1 .. Len(q) : q[i] = q[j] => i = j) /\ ~Queued(t, q) =>
              \A i, j \in 1 .. Len(Append(q, t)) :
                Append(q, t)[i] = Append(q, t)[j] => i = j
<1> DEFINE p == Append(q, t)
<1>1. /\ p \in Seq(S)
      /\ Len(q) \in Nat
      /\ Len(p) = Len(q) + 1
      /\ \A i \in 1 .. Len(q) : p[i] = q[i]
      /\ p[Len(q) + 1] = t
  OBVIOUS
<1> HIDE DEF p
<1>2. \A i \in 1 .. Len(p) : i \in 1 .. Len(q) \/ i = Len(q) + 1
  BY <1>1
<1>3. \A u : Queued(u, p) <=> Queued(u, q) \/ u = t
  BY <1>1, <1>2 DEF Queued
<1>4. ASSUME \A i, j \in 1 .. Len(q) : q[i] = q[j] => i = j, ~Queued(t, q),
             NEW i \in 1 .. Len(p), NEW j \in 1 .. Len(p), p[i] = p[j]
      PROVE  i = j
  BY <1>1, <1>2, <1>4 DEF Queued
<1> QED  BY <1>1, <1>3, <1>4 DEF p

\* Running the first lambda takes it out of the queue for good.
LEMMA TailUnqueues ==
  ASSUME NEW S, NEW q \in Seq(S), q # <<>>,
         \A i, j \in 1 .. Len(q) : q[i] = q[j] => i = j
  PROVE  /\ Tail(q) \in Seq(S)
         /\ Head(q) \in S
         /\ Queued(Head(q), q)
         /\ \A u : Queued(u, Tail(q)) => Queued(u, q) /\ u # Head(q)
         /\ \A i, j \in 1 .. Len(Tail(q)) : Tail(q)[i] = Tail(q)[j] => i = j
<1> DEFINE p == Tail(q)
<1>1. /\ p \in Seq(S)
      /\ Len(q) \in Nat
      /\ Len(q) >= 1
      /\ Len(p) = Len(q) - 1
      /\ Head(q) = q[1]
      /\ q[1] \in S
      /\ \A i \in 1 .. Len(p) : p[i] = q[i + 1]
  OBVIOUS
<1> HIDE DEF p
<1>2. \A i \in 1 .. Len(p) : i + 1 \in 1 .. Len(q) /\ i + 1 # 1
  BY <1>1
<1>3. 1 \in 1 .. Len(q)
  BY <1>1
<1>4. Queued(Head(q), q)
  BY <1>1, <1>3 DEF Queued
<1>5. \A u : Queued(u, p) => Queued(u, q) /\ u # Head(q)
  BY <1>1, <1>2, <1>3 DEF Queued
<1>6. \A i, j \in 1 .. Len(p) : p[i] = p[j] => i = j
  BY <1>1, <1>2
<1> QED  BY <1>1, <1>4, <1>5, <1>6 DEF p

(***************************************************************************)
(* The threads' places.                                                     *)
(***************************************************************************)

\* Every thread is in its call.
Placed ==
  /\ pc \in [Thread -> RunnerPlace \cup StopperPlace]
  /\ \A r \in Runner : pc[r] \in RunnerPlace
  /\ \A s \in Stopper : pc[s] \in StopperPlace

\* A runner moves alone.
LEMMA RunnerMoves ==
  ASSUME Placed, NEW r \in Runner, NEW p \in RunnerPlace, Goto(r, p)
  PROVE  /\ Placed'
         /\ pc'[r] = p
         /\ \A u \in Thread : u # r => pc'[u] = pc[u]
         /\ \A s \in Stopper : pc'[s] = pc[s]
BY WorkerAssumption DEF Placed, Goto, Thread

\* A stopper moves alone.
LEMMA StopperMoves ==
  ASSUME Placed, NEW s \in Stopper, NEW p \in StopperPlace, Goto(s, p)
  PROVE  /\ Placed'
         /\ pc'[s] = p
         /\ \A u \in Thread : u # s => pc'[u] = pc[u]
         /\ \A r \in Runner : pc'[r] = pc[r]
BY WorkerAssumption DEF Placed, Goto, Thread

(***************************************************************************)
(* The initial states.                                                      *)
(***************************************************************************)

\* The invariant holds when nothing has happened.
LEMMA InvInit == Init => WorkerInv
<1> SUFFICES ASSUME Init PROVE WorkerInv
  OBVIOUS
<1>1. pc \in [Thread -> RunnerPlace \cup StopperPlace] /\ \A t \in Thread : pc[t] = "outside"
  BY DEF Init, RunnerPlace
<1>2. queue = <<>> /\ queue \in Seq(Thread \cup {Renewal}) /\ Len(queue) = 0
  BY DEF Init
<1>3. TypeOK
  <2>1. \A t \in Thread : pc[t] \in RunnerPlace /\ pc[t] \in StopperPlace
    BY <1>1 DEF RunnerPlace, StopperPlace
  <2>2. depth \in 0 .. StackLimit
    BY WorkerAssumption DEF Init
  <2>3. listing \in SUBSET Runner /\ inside \in Runner \cup {Nobody}
    BY DEF Init
  <2> QED BY <1>1, <1>2, <2>1, <2>2, <2>3 DEF Init, TypeOK, Thread
<1>4. HandsInv
  <2>1. 1 .. Len(queue) = {}
    BY <1>2
  <2> QED BY <2>1, WorkerAssumption DEF Init, HandsInv, Queued
<1>5. FlagsInv
  BY <1>1 DEF Init, FlagsInv, StartedOnce, Starters, Started, Stopped, Thread
<1>6. CompleteInv
  BY <1>1 DEF Init, CompleteInv, Thread
<1>7. CleanUseSurvives
  BY DEF Init, CleanUseSurvives
<1> QED  BY <1>3, <1>4, <1>5, <1>6, <1>7 DEF WorkerInv

(***************************************************************************)
(* The steps.                                                               *)
(***************************************************************************)

\* An assertion that fails ends the process; it does not happen in clean use.
LEMMA AbortsStep ==
  ASSUME WorkerInv, Aborts, ~(OneRun /\ ~early)
  PROVE  WorkerInv'
<1>1. TypeOK'
  BY DEF WorkerInv, TypeOK, Aborts, flagVars, loopVars, Thread
<1>2. HandsInv'
  BY DEF WorkerInv, HandsInv, Aborts, loopVars, Queued
<1>3. FlagsInv'
  BY DEF WorkerInv, FlagsInv, Aborts, flagVars, StartedOnce, Starters, Started, Stopped
<1>4. CompleteInv'
  BY DEF WorkerInv, CompleteInv, Aborts, flagVars, loopVars
<1>5. CleanUseSurvives'
  BY DEF CleanUseSurvives, OneRun, Aborts
<1> QED  BY <1>1, <1>2, <1>3, <1>4, <1>5 DEF WorkerInv

\* run() looks at the shutdown flag.
LEMMA RunStep ==
  ASSUME WorkerInv, fate = "alive", NEW r \in Runner, Run(r)
  PROVE  WorkerInv'
<1> DEFINE p == IF shutdown THEN "refused" ELSE "checked"
<1>1. /\ Placed'
      /\ pc[r] = "outside"
      /\ pc'[r] = p
      /\ \A u \in Thread : u # r => pc'[u] = pc[u]
      /\ \A s \in Stopper : pc'[s] = pc[s]
  BY RunnerMoves DEF WorkerInv, TypeOK, Placed, Run, RunnerPlace
<1>2. r \in Thread /\ p \in {"refused", "checked"}
  BY DEF Thread
<1>3. TypeOK'
  BY <1>1 DEF WorkerInv, TypeOK, Placed, Run, flagVars, loopVars, Thread
<1>4. HandsInv'
  BY <1>1, <1>2 DEF WorkerInv, HandsInv, TypeOK, Run, loopVars, Queued, Thread
<1>5. FlagsInv'
  BY <1>1, <1>2 DEF WorkerInv, FlagsInv, Run, flagVars, StartedOnce, Starters, Started, Stopped, Thread
<1>6. CompleteInv'
  BY <1>1, <1>2 DEF WorkerInv, CompleteInv, Run, flagVars, loopVars, Thread
<1>7. CleanUseSurvives'
  BY DEF CleanUseSurvives, Run
<1> QED  BY <1>3, <1>4, <1>5, <1>6, <1>7 DEF WorkerInv

\* start() marks the coordinator running, or fails its check.
LEMMA StartStep ==
  ASSUME WorkerInv, fate = "alive", NEW r \in Runner, Start(r)
  PROVE  WorkerInv'
<1>1. CASE running
  <2>1. r \notin Started /\ pc[r] = "checked"
    BY DEF Start, Started
  <2>2. PICK q \in Started : TRUE
    BY <1>1 DEF WorkerInv, FlagsInv
  <2>3. ~OneRun
    BY <2>1, <2>2 DEF OneRun, Started
  <2> QED BY <1>1, <2>3, AbortsStep DEF Start
<1>2. CASE ~running
  <2>1. /\ Placed'
        /\ pc[r] = "checked"
        /\ pc'[r] = "starting"
        /\ \A u \in Thread : u # r => pc'[u] = pc[u]
        /\ \A s \in Stopper : pc'[s] = pc[s]
        /\ r \in Thread
    BY <1>2, RunnerMoves DEF WorkerInv, TypeOK, Placed, Start, RunnerPlace, Thread
  <2>2. running' /\ UNCHANGED <<shutdown, complete, timers, loopVars, fate, early>>
    BY <1>2 DEF Start
  <2>3. TypeOK'
    BY <2>1, <2>2 DEF WorkerInv, TypeOK, Placed, loopVars, Thread
  <2>4. HandsInv'
    BY <2>1, <2>2 DEF WorkerInv, HandsInv, TypeOK, loopVars, Queued, Thread
  <2>5. FlagsInv'
    <3>1. r \in Started' /\ \A q \in Started : q \in Started'
      BY <2>1 DEF Started, Thread
    <3>2. Stopped' = Stopped /\ Starters' = Starters
      BY <2>1 DEF Stopped, Starters
    <3> QED BY <2>1, <2>2, <3>1, <3>2 DEF WorkerInv, FlagsInv, StartedOnce, Thread
  <2>6. CompleteInv'
    BY <2>1, <2>2 DEF WorkerInv, CompleteInv, loopVars
  <2>7. CleanUseSurvives'
    BY <2>2 DEF CleanUseSurvives
  <2> QED BY <2>3, <2>4, <2>5, <2>6, <2>7 DEF WorkerInv
<1> QED  BY <1>1, <1>2

\* A runner's place within its call of initialize changes none of the flags.
LEMMA InitializingKeepsFlags ==
  ASSUME FlagsInv, NEW r \in Runner, pc[r] \in {"starting", "initializing"},
         pc'[r] \in {"initializing", "failed"},
         \A u \in Thread : u # r => pc'[u] = pc[u],
         UNCHANGED <<shutdown, complete, running, early>>,
         timers' = timers \/ timers' = "armed"
  PROVE  FlagsInv'
<1>1. Started' = Started /\ r \in Started
  BY DEF Started, Thread
<1>2. \A s \in Stopper : s # r => pc'[s] = pc[s]
  BY DEF Thread
<1>3. Stopped' = Stopped /\ Starters' = Starters
  BY <1>2, WorkerAssumption DEF Stopped, Starters
<1>4. complete' => \E q \in Runner : pc'[q] = "ended"
  BY DEF FlagsInv, Thread
<1> QED  BY <1>1, <1>3, <1>4 DEF FlagsInv, StartedOnce

\* A lambda that is sent to the event loop keeps the queue in order.
LEMMA SendingQueues ==
  ASSUME WorkerInv, NEW t \in Thread \cup {Renewal}, ~Queued(t, queue),
         queue' = Append(queue, t)
  PROVE  /\ queue' \in Seq(Thread \cup {Renewal})
         /\ \A u : Queued(u, queue') <=> Queued(u, queue) \/ u = t
         /\ \A i, j \in 1 .. Len(queue') : queue'[i] = queue'[j] => i = j
<1>1. queue \in Seq(Thread \cup {Renewal})
  BY DEF WorkerInv, TypeOK
<1>2. \A i, j \in 1 .. Len(queue) : queue[i] = queue[j] => i = j
  BY DEF WorkerInv, HandsInv
<1>3. Append(queue, t) \in Seq(Thread \cup {Renewal})
  BY <1>1, AppendQueues
<1>4. \A u : Queued(u, Append(queue, t)) <=> Queued(u, queue) \/ u = t
  BY <1>1, AppendQueues
<1>5. \A i, j \in 1 .. Len(Append(queue, t)) :
        Append(queue, t)[i] = Append(queue, t)[j] => i = j
  BY <1>1, <1>2, AppendQueues
<1> QED BY <1>3, <1>4, <1>5

\* The lambda of initialize goes into the queue.
LEMMA QueueInitializeStep ==
  ASSUME WorkerInv, fate = "alive", NEW r \in Runner, QueueInitialize(r)
  PROVE  WorkerInv'
<1>1. /\ Placed'
      /\ pc[r] = "starting"
      /\ pc'[r] = "initializing"
      /\ \A u \in Thread : u # r => pc'[u] = pc[u]
      /\ \A s \in Stopper : pc'[s] = pc[s]
      /\ r \in Thread
  BY RunnerMoves DEF WorkerInv, TypeOK, Placed, QueueInitialize, RunnerPlace, Thread
<1>2. /\ queue' = Append(queue, r)
      /\ UNCHANGED <<flagVars, listing, loop, inside, depth, fate, early>>
  BY DEF QueueInitialize, RunInEventThread
<1>3. r \notin listing /\ r # inside /\ ~Queued(r, queue)
  BY <1>1, WorkerAssumption DEF WorkerInv, HandsInv
<1>4. /\ queue' \in Seq(Thread \cup {Renewal})
      /\ \A u : Queued(u, queue') <=> Queued(u, queue) \/ u = r
      /\ \A i, j \in 1 .. Len(queue') : queue'[i] = queue'[j] => i = j
  BY <1>1, <1>2, <1>3, SendingQueues
<1>5. TypeOK'
  BY <1>1, <1>2, <1>4 DEF WorkerInv, TypeOK, Placed, flagVars, Thread
<1>6. HandsInv'
  BY <1>1, <1>2, <1>3, <1>4, WorkerAssumption DEF WorkerInv, HandsInv, TypeOK, Thread
<1>7. FlagsInv'
  BY <1>1, <1>2, InitializingKeepsFlags DEF WorkerInv, flagVars
<1>8. CompleteInv'
  BY <1>1, <1>2 DEF WorkerInv, CompleteInv, flagVars
<1>9. CleanUseSurvives'
  BY <1>2 DEF CleanUseSurvives
<1> QED  BY <1>5, <1>6, <1>7, <1>8, <1>9 DEF WorkerInv

\* initialize() has failed.
LEMMA InitializeFailsStep ==
  ASSUME WorkerInv, fate = "alive", NEW r \in Runner, InitializeFails(r)
  PROVE  WorkerInv'
<1>1. /\ Placed'
      /\ pc'[r] = "failed"
      /\ \A u \in Thread : u # r => pc'[u] = pc[u]
      /\ \A s \in Stopper : pc'[s] = pc[s]
      /\ r \in Thread
  BY RunnerMoves DEF WorkerInv, TypeOK, Placed, InitializeFails, RunnerPlace, Thread
<1>2. /\ r \in listing
      /\ listing' = listing \ {r}
      /\ UNCHANGED <<flagVars, queue, loop, inside, depth, fate, early>>
  BY DEF InitializeFails
<1>3. pc[r] = "initializing" /\ r # inside /\ ~Queued(r, queue)
  BY <1>2 DEF WorkerInv, HandsInv
<1>4. TypeOK'
  BY <1>1, <1>2 DEF WorkerInv, TypeOK, Placed, flagVars, Thread
<1>5. HandsInv'
  BY <1>1, <1>2, <1>3 DEF WorkerInv, HandsInv, TypeOK, Thread
<1>6. FlagsInv'
  BY <1>1, <1>2, <1>3, InitializingKeepsFlags DEF WorkerInv, flagVars
<1>7. CompleteInv'
  BY <1>1, <1>2 DEF WorkerInv, CompleteInv, flagVars
<1>8. CleanUseSurvives'
  BY <1>2 DEF CleanUseSurvives
<1> QED  BY <1>4, <1>5, <1>6, <1>7, <1>8 DEF WorkerInv

\* initialize() has succeeded: the timers are armed and the loop is entered.
LEMMA InitializeSucceedsStep ==
  ASSUME WorkerInv, fate = "alive", NEW r \in Runner, InitializeSucceeds(r)
  PROVE  WorkerInv'
<1>1. /\ r \in listing
      /\ listing' = listing \ {r}
      /\ loop = "waiting"
      /\ timers' = "armed"
      /\ loop' = "processing"
      /\ inside' = r
      /\ depth' = 1
      /\ UNCHANGED <<shutdown, complete, running, queue, pc, fate, early>>
  BY DEF InitializeSucceeds
<1>2. pc[r] = "initializing" /\ ~Queued(r, queue) /\ r \in Runner /\ r # Nobody /\ r \in Thread
  BY <1>1, WorkerAssumption DEF WorkerInv, HandsInv, Thread
<1>3. TypeOK'
  BY <1>1, WorkerAssumption DEF WorkerInv, TypeOK
<1>4. HandsInv'
  BY <1>1, <1>2 DEF WorkerInv, HandsInv, TypeOK
<1>5. FlagsInv'
  BY <1>1, <1>2, InitializingKeepsFlags DEF WorkerInv
<1>6. CompleteInv'
  <2>1. ASSUME NEW s \in Stopper, pc[s] = "stopped" PROVE complete
    BY <1>1, <2>1 DEF WorkerInv, CompleteInv
  <2> QED BY <1>1, <2>1 DEF CompleteInv
<1>7. CleanUseSurvives'
  BY <1>1 DEF CleanUseSurvives
<1> QED  BY <1>3, <1>4, <1>5, <1>6, <1>7 DEF WorkerInv

\* A stopper's way to the coordinator changes nothing for the runners and
\* nothing for the lambdas.
LEMMA StopperKeepsHands ==
  ASSUME WorkerInv, NEW s \in Stopper, pc[s] # "waiting",
         \A u \in Thread : u # s => pc'[u] = pc[u],
         \A r \in Runner : pc'[r] = pc[r],
         UNCHANGED loopVars
  PROVE  HandsInv'
<1>1. ~Queued(s, queue) /\ s \in Thread /\ s \notin Runner
  BY WorkerAssumption DEF WorkerInv, HandsInv, Thread
<1>2. \A t \in Stopper : Queued(t, queue) => pc'[t] = "waiting"
  BY <1>1 DEF WorkerInv, HandsInv, Thread
<1> QED  BY <1>1, <1>2 DEF WorkerInv, HandsInv, TypeOK, loopVars

\* shutdown() is called.
LEMMA ShutdownStep ==
  ASSUME WorkerInv, fate = "alive", NEW s \in Stopper, Shutdown(s)
  PROVE  WorkerInv'
<1>1. /\ Placed'
      /\ pc[s] = "outside"
      /\ pc'[s] = "loading"
      /\ \A u \in Thread : u # s => pc'[u] = pc[u]
      /\ \A r \in Runner : pc'[r] = pc[r]
  BY StopperMoves DEF WorkerInv, TypeOK, Placed, Shutdown, StopperPlace
<1>2. UNCHANGED <<flagVars, loopVars, fate, early>>
  BY DEF Shutdown
<1>3. TypeOK'
  BY <1>1, <1>2 DEF WorkerInv, TypeOK, Placed, flagVars, loopVars, Thread
<1>4. HandsInv'
  BY <1>1, <1>2, StopperKeepsHands
<1>5. FlagsInv'
  <2>1. Starters' = Starters /\ Stopped' = Stopped /\ Started' = Started
    BY <1>1 DEF Starters, Stopped, Started, Thread
  <2> QED BY <1>1, <1>2, <2>1 DEF WorkerInv, FlagsInv, StartedOnce, flagVars
<1>6. CompleteInv'
  BY <1>1, <1>2 DEF WorkerInv, CompleteInv, flagVars, loopVars, Thread
<1>7. CleanUseSurvives'
  BY <1>1, <1>2 DEF CleanUseSurvives
<1> QED  BY <1>3, <1>4, <1>5, <1>6, <1>7 DEF WorkerInv

\* setShutdown loads the flag.
LEMMA LoadShutdownStep ==
  ASSUME WorkerInv, fate = "alive", NEW s \in Stopper, LoadShutdown(s)
  PROVE  WorkerInv'
<1> DEFINE p == IF shutdown THEN "told" ELSE "swapping"
<1>1. /\ Placed'
      /\ pc[s] = "loading"
      /\ pc'[s] = p
      /\ \A u \in Thread : u # s => pc'[u] = pc[u]
      /\ \A r \in Runner : pc'[r] = pc[r]
  BY StopperMoves DEF WorkerInv, TypeOK, Placed, LoadShutdown, StopperPlace
<1>2. p \in {"told", "swapping"} /\ UNCHANGED <<flagVars, loopVars, fate, early>>
  BY DEF LoadShutdown
<1>3. TypeOK'
  BY <1>1, <1>2 DEF WorkerInv, TypeOK, Placed, flagVars, loopVars, Thread
<1>4. HandsInv'
  BY <1>1, <1>2, StopperKeepsHands
<1>5. FlagsInv'
  <2>1. Starters' = Starters /\ Stopped' = Stopped /\ Started' = Started
    BY <1>1, <1>2 DEF Starters, Stopped, Started, Thread
  <2> QED BY <1>1, <1>2, <2>1 DEF WorkerInv, FlagsInv, StartedOnce, flagVars
<1>6. CompleteInv'
  BY <1>1, <1>2 DEF WorkerInv, CompleteInv, flagVars, loopVars, Thread
<1>7. CleanUseSurvives'
  BY <1>1, <1>2 DEF CleanUseSurvives
<1> QED  BY <1>3, <1>4, <1>5, <1>6, <1>7 DEF WorkerInv

\* setShutdown's compare-and-swap: the first one starts the shutdown.
LEMMA SwapShutdownStep ==
  ASSUME WorkerInv, fate = "alive", NEW s \in Stopper, SwapShutdown(s)
  PROVE  WorkerInv'
<1> DEFINE p == IF shutdown THEN "loading" ELSE "marked"
<1>1. /\ Placed'
      /\ pc[s] = "swapping"
      /\ pc'[s] = p
      /\ \A u \in Thread : u # s => pc'[u] = pc[u]
      /\ \A r \in Runner : pc'[r] = pc[r]
  BY StopperMoves DEF WorkerInv, TypeOK, Placed, SwapShutdown, StopperPlace
<1>2. /\ p \in {"loading", "marked"}
      /\ shutdown'
      /\ early' = (early \/ (~shutdown /\ timers = "none"))
      /\ UNCHANGED <<complete, running, timers, loopVars, fate>>
  BY DEF SwapShutdown
<1>3. TypeOK'
  BY <1>1, <1>2 DEF WorkerInv, TypeOK, Placed, SwapShutdown, loopVars, Thread
<1>4. HandsInv'
  BY <1>1, <1>2, StopperKeepsHands
<1>5. FlagsInv'
  <2>1. Stopped' = Stopped /\ Started' = Started
    BY <1>1, <1>2 DEF Stopped, Started, Thread
  <2>2. CASE shutdown
    <3>1. Starters' = Starters
      BY <1>1, <2>2 DEF Starters, Thread
    <3> QED BY <1>1, <1>2, <2>1, <2>2, <3>1 DEF WorkerInv, FlagsInv, StartedOnce
  <2>3. CASE ~shutdown
    <3>1. Starters = {}
      BY <2>3 DEF WorkerInv, FlagsInv
    <3>2. Starters' = {s}
      BY <1>1, <2>3, <3>1 DEF Starters, Thread
    <3> QED BY <1>1, <1>2, <2>1, <2>3, <3>2 DEF WorkerInv, FlagsInv, StartedOnce
  <2> QED BY <2>2, <2>3
<1>6. CompleteInv'
  BY <1>1, <1>2 DEF WorkerInv, CompleteInv, loopVars, Thread
<1>7. CleanUseSurvives'
  BY <1>2 DEF CleanUseSurvives
<1> QED  BY <1>3, <1>4, <1>5, <1>6, <1>7 DEF WorkerInv

\* stop() marks the coordinator stopped, or fails its check.
LEMMA StopStep ==
  ASSUME WorkerInv, fate = "alive", NEW s \in Stopper, Stop(s)
  PROVE  WorkerInv'
<1>1. pc[s] = "marked" /\ s \in Starters
  BY DEF Stop, Starters
<1>2. CASE ~running
  <2>1. Stopped = {}
    BY <1>1 DEF WorkerInv, FlagsInv, StartedOnce, Starters, Stopped
  <2>2. Started = {}
    BY <1>2, <2>1 DEF WorkerInv, FlagsInv
  <2>3. early
    BY <1>1, <2>2 DEF WorkerInv, FlagsInv
  <2> QED BY <1>2, <2>3, AbortsStep DEF Stop
<1>3. CASE running
  <2>1. /\ Placed'
        /\ pc'[s] = "stopping"
        /\ \A u \in Thread : u # s => pc'[u] = pc[u]
        /\ \A r \in Runner : pc'[r] = pc[r]
    BY <1>3, StopperMoves DEF WorkerInv, TypeOK, Placed, Stop, StopperPlace
  <2>2. running' = FALSE /\ UNCHANGED <<shutdown, complete, timers, loopVars, fate, early>>
    BY <1>3 DEF Stop
  <2>3. TypeOK'
    BY <2>1, <2>2 DEF WorkerInv, TypeOK, Placed, loopVars, Thread
  <2>4. HandsInv'
    BY <1>1, <2>1, <2>2, StopperKeepsHands
  <2>5. FlagsInv'
    <3>1. Starters' = Starters /\ s \in Stopped' /\ Started' = Started
      BY <1>1, <2>1 DEF Starters, Stopped, Started, Thread
    <3> QED BY <2>1, <2>2, <3>1 DEF WorkerInv, FlagsInv, StartedOnce
  <2>6. CompleteInv'
    BY <2>1, <2>2 DEF WorkerInv, CompleteInv, loopVars, Thread
  <2>7. CleanUseSurvives'
    BY <2>2 DEF CleanUseSurvives
  <2> QED BY <2>3, <2>4, <2>5, <2>6, <2>7 DEF WorkerInv
<1> QED  BY <1>2, <1>3

\* The lambda of stop goes into the queue.
LEMMA QueueStopStep ==
  ASSUME WorkerInv, fate = "alive", NEW s \in Stopper, QueueStop(s)
  PROVE  WorkerInv'
<1>1. /\ Placed'
      /\ pc[s] = "stopping"
      /\ pc'[s] = "waiting"
      /\ \A u \in Thread : u # s => pc'[u] = pc[u]
      /\ \A r \in Runner : pc'[r] = pc[r]
      /\ s \in Thread
  BY StopperMoves DEF WorkerInv, TypeOK, Placed, QueueStop, StopperPlace, Thread
<1>2. /\ queue' = Append(queue, s)
      /\ UNCHANGED <<flagVars, listing, loop, inside, depth, fate, early>>
  BY DEF QueueStop, RunInEventThread
<1>3. ~Queued(s, queue) /\ s \notin Runner
  BY <1>1, WorkerAssumption DEF WorkerInv, HandsInv
<1>4. /\ queue' \in Seq(Thread \cup {Renewal})
      /\ \A u : Queued(u, queue') <=> Queued(u, queue) \/ u = s
      /\ \A i, j \in 1 .. Len(queue') : queue'[i] = queue'[j] => i = j
  BY <1>1, <1>2, <1>3, SendingQueues
<1>5. TypeOK'
  BY <1>1, <1>2, <1>4 DEF WorkerInv, TypeOK, Placed, flagVars, Thread
<1>6. HandsInv'
  <2>1. \A t \in Stopper : Queued(t, queue') => pc'[t] = "waiting"
    BY <1>1, <1>4 DEF WorkerInv, HandsInv, Thread
  <2> QED BY <1>1, <1>2, <1>3, <1>4, <2>1 DEF WorkerInv, HandsInv, TypeOK
<1>7. FlagsInv'
  <2>1. Starters' = Starters /\ Stopped' = Stopped /\ Started' = Started
    BY <1>1 DEF Starters, Stopped, Started, Thread
  <2> QED BY <1>1, <1>2, <2>1 DEF WorkerInv, FlagsInv, StartedOnce, flagVars
<1>8. CompleteInv'
  BY <1>1, <1>2 DEF WorkerInv, CompleteInv, flagVars, Thread
<1>9. CleanUseSurvives'
  BY <1>2 DEF CleanUseSurvives
<1> QED  BY <1>5, <1>6, <1>7, <1>8, <1>9 DEF WorkerInv

\* The renewer's timer fires.
LEMMA TimerFiresStep ==
  ASSUME WorkerInv, fate = "alive", TimerFires
  PROVE  WorkerInv'
<1>1. /\ queue' = Append(queue, Renewal)
      /\ ~Queued(Renewal, queue)
      /\ UNCHANGED <<flagVars, listing, loop, inside, depth, pc, fate, early>>
  BY DEF TimerFires, RunInEventThread
<1>2. /\ queue' \in Seq(Thread \cup {Renewal})
      /\ \A u : Queued(u, queue') <=> Queued(u, queue) \/ u = Renewal
      /\ \A i, j \in 1 .. Len(queue') : queue'[i] = queue'[j] => i = j
  BY <1>1, SendingQueues
<1>3. TypeOK'
  BY <1>1, <1>2 DEF WorkerInv, TypeOK, flagVars
<1>4. HandsInv'
  <2>1. Renewal \notin Runner /\ Renewal \notin Stopper
    BY WorkerAssumption
  <2> QED BY <1>1, <1>2, <2>1 DEF WorkerInv, HandsInv
<1>5. FlagsInv'
  BY <1>1 DEF WorkerInv, FlagsInv, flagVars, StartedOnce, Starters, Started, Stopped
<1>6. CompleteInv'
  BY <1>1 DEF WorkerInv, CompleteInv, flagVars
<1>7. CleanUseSurvives'
  BY <1>1 DEF CleanUseSurvives
<1> QED  BY <1>3, <1>4, <1>5, <1>6, <1>7 DEF WorkerInv

\* A drain of the channel begins or ends.
LEMMA DrainStep ==
  ASSUME WorkerInv, fate = "alive", DrainStarts \/ DrainEnds
  PROVE  WorkerInv'
<1>1. /\ loop # "processing"
      /\ loop' \in {"waiting", "draining"}
      /\ UNCHANGED <<flagVars, queue, listing, inside, depth, pc, fate, early>>
  BY DEF DrainStarts, DrainEnds
<1>2. TypeOK'
  BY <1>1 DEF WorkerInv, TypeOK, flagVars
<1>3. HandsInv'
  BY <1>1 DEF WorkerInv, HandsInv, Queued
<1>4. FlagsInv'
  BY <1>1 DEF WorkerInv, FlagsInv, flagVars, StartedOnce, Starters, Started, Stopped
<1>5. CompleteInv'
  BY <1>1 DEF WorkerInv, CompleteInv, flagVars
<1>6. CleanUseSurvives'
  BY <1>1 DEF CleanUseSurvives
<1> QED  BY <1>2, <1>3, <1>4, <1>5, <1>6 DEF WorkerInv

\* What is known of the queue when its first lambda is run.
LEMMA HeadRuns ==
  ASSUME WorkerInv, NEW sender, Runs(sender), queue' = Tail(queue)
  PROVE  /\ loop = "draining"
         /\ Queued(sender, queue)
         /\ queue' \in Seq(Thread \cup {Renewal})
         /\ \A u : Queued(u, queue') => Queued(u, queue) /\ u # sender
         /\ \A i, j \in 1 .. Len(queue') : queue'[i] = queue'[j] => i = j
BY TailUnqueues DEF WorkerInv, TypeOK, HandsInv, Runs

\* initialize's lambda is run.
LEMMA RunInitializeStep ==
  ASSUME WorkerInv, fate = "alive", NEW r \in Runner, RunInitialize(r)
  PROVE  WorkerInv'
<1>1. /\ Runs(r)
      /\ queue' = Tail(queue)
      /\ listing' = listing \cup {r}
      /\ UNCHANGED <<flagVars, loop, inside, depth, pc, fate, early>>
  BY DEF RunInitialize
<1>2. /\ queue' \in Seq(Thread \cup {Renewal})
      /\ Queued(r, queue)
      /\ \A u : Queued(u, queue') => Queued(u, queue) /\ u # r
      /\ \A i, j \in 1 .. Len(queue') : queue'[i] = queue'[j] => i = j
  BY <1>1, HeadRuns
<1>3. TypeOK'
  BY <1>1, <1>2 DEF WorkerInv, TypeOK, flagVars
<1>4. HandsInv'
  BY <1>1, <1>2 DEF WorkerInv, HandsInv, TypeOK
<1>5. FlagsInv'
  BY <1>1 DEF WorkerInv, FlagsInv, flagVars, StartedOnce, Starters, Started, Stopped
<1>6. CompleteInv'
  BY <1>1 DEF WorkerInv, CompleteInv, flagVars
<1>7. CleanUseSurvives'
  BY <1>1 DEF CleanUseSurvives
<1> QED  BY <1>3, <1>4, <1>5, <1>6, <1>7 DEF WorkerInv

\* The renewer's lambda is run.
LEMMA RunRenewLeasesStep ==
  ASSUME WorkerInv, fate = "alive", RunRenewLeases
  PROVE  WorkerInv'
<1>1. /\ Runs(Renewal)
      /\ queue' = Tail(queue)
      /\ UNCHANGED <<flagVars, listing, loop, inside, depth, pc, fate, early>>
  BY DEF RunRenewLeases
<1>2. /\ queue' \in Seq(Thread \cup {Renewal})
      /\ \A u : Queued(u, queue') => Queued(u, queue)
      /\ \A i, j \in 1 .. Len(queue') : queue'[i] = queue'[j] => i = j
  BY <1>1, HeadRuns
<1>3. TypeOK'
  BY <1>1, <1>2 DEF WorkerInv, TypeOK, flagVars
<1>4. HandsInv'
  BY <1>1, <1>2 DEF WorkerInv, HandsInv
<1>5. FlagsInv'
  BY <1>1 DEF WorkerInv, FlagsInv, flagVars, StartedOnce, Starters, Started, Stopped
<1>6. CompleteInv'
  BY <1>1 DEF WorkerInv, CompleteInv, flagVars
<1>7. CleanUseSurvives'
  BY <1>1 DEF CleanUseSurvives
<1> QED  BY <1>3, <1>4, <1>5, <1>6, <1>7 DEF WorkerInv

\* stop's lambda deletes the timers, or fails its assertion.
LEMMA StopTimersStep ==
  ASSUME WorkerInv, fate = "alive", NEW s \in Stopper, StopTimers(s)
  PROVE  WorkerInv'
<1>1. pc[s] = "waiting" /\ loop = "draining" /\ s \in Starters
  <2>1. Queued(s, queue) /\ loop = "draining"
    BY TailUnqueues DEF WorkerInv, TypeOK, HandsInv, StopTimers, Runs
  <2> QED BY <2>1 DEF WorkerInv, HandsInv, Starters
<1>2. CASE timers = "none"
  <2>1. early
    BY <1>1, <1>2 DEF WorkerInv, FlagsInv
  <2> QED BY <1>2, <2>1, AbortsStep DEF StopTimers
<1>3. CASE timers # "none"
  <2>1. /\ Placed'
        /\ pc'[s] = "stopped"
        /\ \A u \in Thread : u # s => pc'[u] = pc[u]
        /\ \A r \in Runner : pc'[r] = pc[r]
        /\ s \notin Runner
    BY <1>3, StopperMoves, WorkerAssumption DEF WorkerInv, TypeOK, Placed, StopTimers, StopperPlace
  <2>2. /\ queue' = Tail(queue)
        /\ timers' = "deleted"
        /\ UNCHANGED <<shutdown, complete, running, listing, loop, inside, depth, fate, early>>
    BY <1>3 DEF StopTimers
  <2>3. /\ queue' \in Seq(Thread \cup {Renewal})
        /\ \A u : Queued(u, queue') => Queued(u, queue) /\ u # s
        /\ \A i, j \in 1 .. Len(queue') : queue'[i] = queue'[j] => i = j
    BY <2>2, HeadRuns DEF StopTimers
  <2>4. TypeOK'
    BY <2>1, <2>2, <2>3 DEF WorkerInv, TypeOK, Placed, Thread
  <2>5. HandsInv'
    <3>1. \A t \in Stopper : Queued(t, queue') => pc'[t] = "waiting"
      BY <2>1, <2>3 DEF WorkerInv, HandsInv, Thread
    <3> QED BY <2>1, <2>2, <2>3, <3>1 DEF WorkerInv, HandsInv, TypeOK
  <2>6. FlagsInv'
    <3>1. Starters' = Starters /\ Stopped' = Stopped /\ Started' = Started
      BY <1>1, <2>1 DEF Starters, Stopped, Started, Thread
    <3> QED BY <1>3, <2>1, <2>2, <3>1 DEF WorkerInv, FlagsInv, StartedOnce
  <2>7. CompleteInv'
    BY <1>1, <1>3, <2>1, <2>2 DEF WorkerInv, CompleteInv, Thread
  <2>8. CleanUseSurvives'
    BY <2>2 DEF CleanUseSurvives
  <2> QED BY <2>4, <2>5, <2>6, <2>7, <2>8 DEF WorkerInv
<1> QED  BY <1>2, <1>3

\* The process loop goes round.
LEMMA ProcessAgainStep ==
  ASSUME WorkerInv, fate = "alive", ProcessAgain
  PROVE  WorkerInv'
<1>1. UNCHANGED <<flagVars, queue, listing, loop, inside, pc, early>>
  BY DEF ProcessAgain
<1>2. depth' \in 0 .. StackLimit /\ fate' \in {"alive", "overflowed"}
  BY WorkerAssumption DEF WorkerInv, TypeOK, ProcessAgain
<1>3. TypeOK'
  BY <1>1, <1>2 DEF WorkerInv, TypeOK, flagVars
<1>4. HandsInv'
  BY <1>1 DEF WorkerInv, HandsInv, Queued
<1>5. FlagsInv'
  BY <1>1 DEF WorkerInv, FlagsInv, flagVars, StartedOnce, Starters, Started, Stopped
<1>6. CompleteInv'
  BY <1>1 DEF WorkerInv, CompleteInv, flagVars
<1>7. CleanUseSurvives'
  BY <1>2 DEF CleanUseSurvives
<1> QED  BY <1>3, <1>4, <1>5, <1>6, <1>7 DEF WorkerInv

\* The shutdown is completed, or fails its assertion because it already was.
LEMMA FinalShutdownStep ==
  ASSUME WorkerInv, fate = "alive", FinalShutdown
  PROVE  WorkerInv'
<1>1. /\ loop = "processing"
      /\ inside \in Runner
      /\ inside \in Thread
      /\ pc[inside] = "initializing"
  BY DEF WorkerInv, TypeOK, HandsInv, FinalShutdown, Thread
<1>2. CASE complete
  <2>1. PICK r \in Runner : pc[r] = "ended"
    BY <1>2 DEF WorkerInv, FlagsInv
  <2>2. ~OneRun
    BY <1>1, <2>1 DEF OneRun
  <2> QED BY <1>2, <2>2, AbortsStep DEF FinalShutdown
<1>3. CASE ~complete
  <2>1. /\ Placed'
        /\ pc'[inside] = "ended"
        /\ \A u \in Thread : u # inside => pc'[u] = pc[u]
        /\ \A s \in Stopper : pc'[s] = pc[s]
    BY <1>1, <1>3, RunnerMoves DEF WorkerInv, TypeOK, Placed, FinalShutdown, RunnerPlace
  <2>2. /\ complete'
        /\ loop' = "waiting"
        /\ inside' = Nobody
        /\ depth' = 0
        /\ UNCHANGED <<shutdown, running, timers, queue, listing, fate, early>>
    BY <1>3 DEF FinalShutdown
  <2>3. TypeOK'
    BY <2>1, <2>2, WorkerAssumption DEF WorkerInv, TypeOK, Placed, FinalShutdown, Thread
  <2>4. HandsInv'
    BY <1>1, <2>1, <2>2, WorkerAssumption DEF WorkerInv, HandsInv, TypeOK, Thread
  <2>5. FlagsInv'
    <3>1. Starters' = Starters /\ Stopped' = Stopped /\ Started' = Started
      BY <1>1, <2>1 DEF Starters, Stopped, Started, Thread
    <3> QED BY <1>1, <2>1, <2>2, <3>1 DEF WorkerInv, FlagsInv, StartedOnce
  <2>6. CompleteInv'
    BY <1>1, <1>3, <2>1, <2>2 DEF WorkerInv, CompleteInv
  <2>7. CleanUseSurvives'
    BY <2>2 DEF CleanUseSurvives
  <2> QED BY <2>3, <2>4, <2>5, <2>6, <2>7 DEF WorkerInv
<1> QED  BY <1>2, <1>3

\* Every step keeps the invariant.
LEMMA InvStep == WorkerInv /\ [Next]_vars => WorkerInv'
<1> SUFFICES ASSUME WorkerInv, [Next]_vars PROVE WorkerInv'
  OBVIOUS
<1>1. CASE Next
  <2>1. fate = "alive"
    BY <1>1 DEF Next
  <2>2. ASSUME NEW r \in Runner, Run(r) \/ RunnerStep(r) \/ Answer(r) PROVE WorkerInv'
    BY <2>1, <2>2, RunStep, StartStep, QueueInitializeStep, InitializeFailsStep,
       InitializeSucceedsStep DEF RunnerStep, Answer
  <2>3. ASSUME NEW s \in Stopper, Shutdown(s) \/ StopperStep(s) PROVE WorkerInv'
    BY <2>1, <2>3, ShutdownStep, LoadShutdownStep, SwapShutdownStep, StopStep, QueueStopStep
       DEF StopperStep
  <2>4. ASSUME LambdaRuns PROVE WorkerInv'
    BY <2>1, <2>4, RunInitializeStep, StopTimersStep, RunRenewLeasesStep DEF LambdaRuns
  <2>5. ASSUME Process PROVE WorkerInv'
    BY <2>1, <2>5, ProcessAgainStep, FinalShutdownStep DEF Process
  <2> QED BY <1>1, <2>1, <2>2, <2>3, <2>4, <2>5, TimerFiresStep, DrainStep DEF Next
<1>2. CASE UNCHANGED vars
  <2>1. TypeOK' /\ HandsInv' /\ CompleteInv'
    BY <1>2 DEF WorkerInv, TypeOK, HandsInv, CompleteInv, vars, flagVars, loopVars, Queued
  <2>2. FlagsInv' /\ CleanUseSurvives'
    BY <1>2 DEF WorkerInv, FlagsInv, CleanUseSurvives, OneRun, vars, flagVars, StartedOnce,
       Starters, Started, Stopped
  <2> QED BY <2>1, <2>2 DEF WorkerInv
<1> QED  BY <1>1, <1>2

(***************************************************************************)
(* The theorems.                                                            *)
(***************************************************************************)

\* The invariant of run() and shutdown() holds in every reachable state, for
\* any number of threads that call them.
THEOREM WorkerInvariant == Spec => []WorkerInv
<1>1. Init => WorkerInv
  BY InvInit
<1>2. WorkerInv /\ [Next]_vars => WorkerInv'
  BY InvStep
<1> QED  BY <1>1, <1>2, PTL DEF Spec

\* Of any number of calls of shutdown() one starts it.
THEOREM ShutdownStartsOnce == Spec => []StartedOnce
<1>1. WorkerInv => StartedOnce
  BY DEF WorkerInv, FlagsInv
<1> QED  BY <1>1, WorkerInvariant, PTL

\* A worker that is run once, and shut down when its timers are armed, fails
\* no assertion.
THEOREM CleanUseIsSafe == Spec => []CleanUseSurvives
<1>1. WorkerInv => CleanUseSurvives
  BY DEF WorkerInv
<1> QED  BY <1>1, WorkerInvariant, PTL

\* After shutdown() has called back no timer fires.
THEOREM NothingFiresAfterShutdown == Spec => QuietAfterShutdown
<1> DEFINE Quiet == (\E s \in Stopper : pc[s] = "stopped") /\ Queued(Renewal, queue') =>
                      Queued(Renewal, queue)
<1>1. ASSUME WorkerInv, Next PROVE Quiet
  <2> SUFFICES ASSUME NEW s \in Stopper, pc[s] = "stopped", Queued(Renewal, queue')
               PROVE  Queued(Renewal, queue)
    OBVIOUS
  <2>1. CASE queue' = queue
    BY <2>1
  <2>2. ASSUME NEW t \in Thread, queue' = Append(queue, t) PROVE Queued(Renewal, queue)
    <3>1. t # Renewal
      BY WorkerAssumption DEF Thread
    <3> QED BY <1>1, <2>2, <3>1, AppendQueues DEF WorkerInv, TypeOK
  <2>3. ASSUME queue # <<>>, queue' = Tail(queue) PROVE Queued(Renewal, queue)
    BY <1>1, <2>3, TailUnqueues DEF WorkerInv, TypeOK, HandsInv
  <2>4. ~TimerFires
    BY <1>1 DEF WorkerInv, CompleteInv, TimerFires
  <2>5. ASSUME NEW r \in Runner, Run(r) \/ RunnerStep(r) \/ Answer(r)
        PROVE  queue' = queue \/ queue' = Append(queue, r)
    BY <2>5 DEF Run, RunnerStep, Start, QueueInitialize, Answer, InitializeFails,
       InitializeSucceeds, RunInEventThread, Aborts, loopVars
  <2>6. ASSUME NEW t \in Stopper, Shutdown(t) \/ StopperStep(t)
        PROVE  queue' = queue \/ queue' = Append(queue, t)
    BY <2>6 DEF Shutdown, StopperStep, LoadShutdown, SwapShutdown, Stop, QueueStop,
       RunInEventThread, Aborts, loopVars
  <2>7. ASSUME LambdaRuns
        PROVE  queue' = queue \/ (queue # <<>> /\ queue' = Tail(queue))
    BY <2>7 DEF LambdaRuns, RunInitialize, StopTimers, RunRenewLeases, Runs, Aborts, loopVars
  <2>8. ASSUME DrainStarts \/ DrainEnds \/ Process PROVE queue' = queue
    BY <2>8 DEF DrainStarts, DrainEnds, Process, ProcessAgain, FinalShutdown, Aborts, loopVars
  <2> QED BY <1>1, <2>1, <2>2, <2>3, <2>4, <2>5, <2>6, <2>7, <2>8 DEF Next, Thread
<1>2. ASSUME WorkerInv, UNCHANGED vars PROVE Quiet
  BY <1>2 DEF vars, loopVars
<1>3. WorkerInv /\ [Next]_vars => [Quiet]_vars
  BY <1>1, <1>2
<1> QED  BY <1>3, WorkerInvariant, PTL DEF Spec, QuietAfterShutdown
==============================================================================
