----------------------------- MODULE ThreadPool -----------------------------
(***************************************************************************)
(* The thread pool as the AWS clients use it.  A client's call sends the     *)
(* event loop a lambda, the lambda submits a task, a pool thread runs it and *)
(* sends the result back through a data channel of its own, and the event   *)
(* loop runs the callback.  The thread that runs the event loop also owns    *)
(* the pool: while it joins the pool threads, the loop stands still.        *)
(*                                                                         *)
(* A data channel appears as what DataChannel says of it: a queue of results *)
(* and whether its eventfd is readable; a readable one gets one result run.  *)
(***************************************************************************)
EXTENDS Naturals, Sequences, FiniteSets

CONSTANTS
  Task,             \* the clients' calls
  MaxThreads,       \* bound: threads the pool ever starts
  NoTask,           \* a thread holds no task
  NumThreads,       \* numThreads_
  QueueCapacity,    \* tasks in workQueue_ (50000 in the code)
  ChannelCapacity   \* results in a data channel

ASSUME PoolAssumption ==
  /\ NoTask \notin Task
  /\ MaxThreads \in Nat
  /\ NumThreads \in Nat \ {0}
  /\ QueueCapacity \in Nat
  /\ ChannelCapacity \in Nat

\* The threads by their worker's index in workers_.
Thread == 1 .. MaxThreads

VARIABLES
  fresh,       \* the calls not made yet
  requested,   \* their lambdas wait in the control channel
  dropped,     \* trySubmit refused the task, and the client did not look
  queue,       \* workQueue_
  job,         \* per thread, the task it has taken
  results,     \* per thread, the results in its data channel
  done,        \* the calls that were called back
  signalled,   \* per thread, the eventfd of its data channel is readable
  channel,     \* per thread, its entry of dataChannels_
  pc,          \* per thread, its place in threadFunc
  running,     \* the pool's running_
  mayRun,      \* per thread, its worker's running_
  workers,     \* the size of workers_
  joined,      \* the first so many were joined
  loop,        \* what the event loop's thread does
  runs         \* history: per task, how often its work was run

taskVars == <<fresh, requested, dropped, queue, job, results, done, runs>>
threadVars == <<signalled, channel, pc, mayRun>>
poolVars == <<running, workers, joined, loop>>
vars == <<taskVars, threadVars, poolVars>>

Place == {"off", "waiting", "running", "registering", "spinning", "sending",
          "checking", "exited"}

TypeOK ==
  /\ \A S \in {fresh, requested, dropped, queue, done} : S \subseteq Task
  /\ job \in [Thread -> Task \cup {NoTask}]
  /\ results \in [Thread -> Seq(Task)]
  /\ runs \in [Task -> Nat]
  /\ signalled \in [Thread -> BOOLEAN]
  /\ channel \in [Thread -> {"none", "sent", "acked"}]
  /\ pc \in [Thread -> Place]
  /\ mayRun \in [Thread -> BOOLEAN]
  /\ running \in BOOLEAN
  /\ workers \in 0 .. MaxThreads
  /\ joined \in 0 .. workers
  /\ loop \in {"looping", "joining", "dead"}

Init ==
  /\ fresh = Task
  /\ requested = {}
  /\ dropped = {}
  /\ queue = {}
  /\ job = [w \in Thread |-> NoTask]
  /\ results = [w \in Thread |-> <<>>]
  /\ done = {}
  /\ runs = [t \in Task |-> 0]
  /\ signalled = [w \in Thread |-> FALSE]
  /\ channel = [w \in Thread |-> "none"]
  /\ pc = [w \in Thread |-> "off"]
  /\ mayRun = [w \in Thread |-> FALSE]
  /\ running = FALSE
  /\ workers = 0
  /\ joined = 0
  /\ loop = "looping"

Goto(w, place) == pc' = [pc EXCEPT ![w] = place]

Looping == loop = "looping"
Alive == loop # "dead"

\* A CHECK fails or the runtime terminates the process.
Dies == loop' = "dead" /\ UNCHANGED <<running, workers, joined>>

------------------------------------------------------------------------------
(* The event loop's thread.                                                *)

\* A client's call, in the event loop or before it runs: runInEventThread.
Request(t) ==
  /\ Looping
  /\ t \in fresh
  /\ fresh' = fresh \ {t}
  /\ requested' = requested \cup {t}
  /\ UNCHANGED <<dropped, queue, job, results, done, runs, threadVars, poolVars>>

\* The client's lambda: trySubmit, whose outcome it ignores.
TrySubmit(t) ==
  /\ Looping
  /\ t \in requested
  /\ requested' = requested \ {t}
  /\ IF running /\ Cardinality(queue) < QueueCapacity
     THEN queue' = queue \cup {t} /\ UNCHANGED dropped
     ELSE dropped' = dropped \cup {t} /\ UNCHANGED queue
  /\ UNCHANGED <<fresh, job, results, done, runs, threadVars, poolVars>>

\* The client's callback gets the outcome that the work has left.
CallsBack(t) == done' = done \cup {t}

\* Mutant: the receiver does not acknowledge the channel.
BindUnacked(w) ==
  /\ Looping
  /\ channel[w] = "sent"
  /\ channel' = [channel EXCEPT ![w] = "none"]
  /\ UNCHANGED <<taskVars, signalled, pc, mayRun, poolVars>>

\* The lambda of threadsafeRegisterDataChannel: bindDataChannel.
Bind(w) ==
  /\ Looping
  /\ channel[w] = "sent"
  /\ channel' = [channel EXCEPT ![w] = "acked"]
  /\ UNCHANGED <<taskVars, signalled, pc, mayRun, poolVars>>

\* The drain resets the eventfd and runs one result, the task's callback.
RunResult(w) ==
  /\ Looping
  /\ signalled[w]
  /\ signalled' = [signalled EXCEPT ![w] = FALSE]
  /\ results' = [results EXCEPT ![w] = Tail(@)]
  /\ CallsBack(Head(results[w]))
  /\ UNCHANGED <<fresh, requested, dropped, queue, job, runs, channel, pc, mayRun, poolVars>>

\* start of a worker: its thread begins by looking at its running_.
StartWorkers(new) ==
  /\ mayRun' = [w \in Thread |-> mayRun[w] \/ w \in new]
  /\ pc' = [w \in Thread |-> IF w \in new THEN "checking" ELSE pc[w]]

\* start: numThreads_ new workers join those of earlier starts.
Start ==
  LET new == workers + 1 .. workers + NumThreads IN
  /\ Looping
  /\ ~running
  /\ workers + NumThreads <= MaxThreads
  /\ running' = TRUE
  /\ workers' = workers + NumThreads
  /\ StartWorkers(new)
  /\ UNCHANGED <<taskVars, signalled, channel, joined, loop>>

\* triggerStop of the workers, of which some are stopped already.
StopWorkers == mayRun' = [w \in Thread |-> FALSE]

\* Mutant: the workers are not told.
StopJoinUntold ==
  /\ Looping
  /\ running
  /\ running' = FALSE
  /\ loop' = "joining"
  /\ UNCHANGED <<taskVars, threadVars, workers, joined>>

\* stopJoin, of the destructor too: stop the workers and begin to join them.
StopJoin ==
  /\ Looping
  /\ running
  /\ running' = FALSE
  /\ StopWorkers
  /\ loop' = "joining"
  /\ UNCHANGED <<taskVars, signalled, channel, pc, workers, joined>>

\* Mutant: the threads are not waited for.
JoinReturnsAtOnce ==
  /\ loop = "joining"
  /\ joined' = workers
  /\ loop' = "looping"
  /\ UNCHANGED <<taskVars, threadVars, running, workers>>

JoinReturns ==
  /\ loop = "joining"
  /\ joined = 0
  /\ \A w \in 1 .. workers : pc[w] = "exited"
  /\ joined' = workers
  /\ loop' = "looping"
  /\ UNCHANGED <<taskVars, threadVars, running, workers>>

\* A thread of an earlier start is still in workers_: it was joined before.
JoinAborts ==
  /\ loop = "joining"
  /\ joined > 0
  /\ Dies
  /\ UNCHANGED <<taskVars, threadVars>>

------------------------------------------------------------------------------
(* A pool thread: threadFunc.                                              *)

\* Mutant: the task stays in the queue.
TakeTaskKept(w, t) ==
  /\ Alive
  /\ pc[w] = "waiting"
  /\ t \in queue
  /\ job' = [job EXCEPT ![w] = t]
  /\ Goto(w, "running")
  /\ UNCHANGED <<fresh, requested, dropped, queue, results, done, runs, signalled, channel, mayRun, poolVars>>

TakeTask(w, t) ==
  /\ Alive
  /\ pc[w] = "waiting"
  /\ t \in queue
  /\ queue' = queue \ {t}
  /\ job' = [job EXCEPT ![w] = t]
  /\ Goto(w, "running")
  /\ UNCHANGED <<fresh, requested, dropped, results, done, runs, signalled, channel, mayRun, poolVars>>

\* wait_dequeue_timed finds nothing for a millisecond.
TimedOut(w) ==
  /\ Alive
  /\ pc[w] = "waiting"
  /\ queue = {}
  /\ Goto(w, "checking")
  /\ UNCHANGED <<taskVars, signalled, channel, mayRun, poolVars>>

\* The client's request to the service, on the pool thread.
RunsWork(t) == runs' = [runs EXCEPT ![t] = @ + 1]

\* The task's work, then getDataChannel: the first time, a new channel is sent
\* to the event loop.
RunTask(w) ==
  /\ Alive
  /\ pc[w] = "running"
  /\ RunsWork(job[w])
  /\ Goto(w, IF channel[w] = "none" THEN "registering" ELSE "sending")
  /\ UNCHANGED <<fresh, requested, dropped, queue, job, results, done, signalled, channel, mayRun, poolVars>>

Register(w) ==
  /\ Alive
  /\ pc[w] = "registering"
  /\ channel' = [channel EXCEPT ![w] = "sent"]
  /\ Goto(w, "spinning")
  /\ UNCHANGED <<taskVars, signalled, mayRun, poolVars>>

SeesAck(w) ==
  /\ Alive
  /\ pc[w] = "spinning"
  /\ channel[w] = "acked"
  /\ Goto(w, "sending")
  /\ UNCHANGED <<taskVars, signalled, channel, mayRun, poolVars>>

SendResult(w) ==
  /\ Alive
  /\ pc[w] = "sending"
  /\ Len(results[w]) < ChannelCapacity
  /\ results' = [results EXCEPT ![w] = Append(@, job[w])]
  /\ signalled' = [signalled EXCEPT ![w] = TRUE]
  /\ job' = [job EXCEPT ![w] = NoTask]
  /\ Goto(w, "checking")
  /\ UNCHANGED <<fresh, requested, dropped, queue, done, runs, channel, mayRun, poolVars>>

\* runTask reports a full channel, and threadFunc asserts that it does not.
SendAborts(w) ==
  /\ Alive
  /\ pc[w] = "sending"
  /\ Len(results[w]) >= ChannelCapacity
  /\ Dies
  /\ UNCHANGED <<taskVars, threadVars>>

\* The relaxed load of running_ may see an old value ...
GoesOn(w) ==
  /\ Alive
  /\ pc[w] = "checking"
  /\ Goto(w, "waiting")
  /\ UNCHANGED <<taskVars, signalled, channel, mayRun, poolVars>>

\* ... but not forever.
Exits(w) ==
  /\ Alive
  /\ pc[w] = "checking"
  /\ ~mayRun[w]
  /\ Goto(w, "exited")
  /\ UNCHANGED <<taskVars, signalled, channel, mayRun, poolVars>>

EventStep ==
  \/ \E t \in Task : TrySubmit(t)
  \/ \E w \in Thread : Bind(w) \/ RunResult(w)

JoinStep == JoinReturns \/ JoinAborts

ThreadStep(w) ==
  \/ \E t \in Task : TakeTask(w, t)
  \/ TimedOut(w) \/ RunTask(w) \/ Register(w) \/ SeesAck(w)
  \/ SendResult(w) \/ SendAborts(w) \/ GoesOn(w) \/ Exits(w)

Next ==
  \/ \E t \in Task : Request(t)
  \/ Start \/ StopJoin \/ JoinStep
  \/ EventStep
  \/ \E w \in Thread : ThreadStep(w)

Spec == Init /\ [][Next]_vars

\* The event loop runs its callbacks one after another, the threads are
\* scheduled, and a thread sees at last that it was stopped.
FairSpec ==
  /\ Spec
  /\ WF_vars(JoinStep)
  /\ \A t \in Task : WF_vars(TrySubmit(t))
  /\ \A w \in Thread :
       /\ WF_vars(Bind(w))
       /\ WF_vars(RunResult(w))
       /\ WF_vars(ThreadStep(w))
       /\ SF_vars(Exits(w))

------------------------------------------------------------------------------
\* Where a task is: with the clients, in the queue, dropped or called back, with
\* a thread, or in a data channel.
Store == [fresh |-> fresh, requested |-> requested, dropped |-> dropped,
          queue |-> queue, done |-> done]

Whereabouts(t) ==
  {<<s, 0, 0>> : s \in {s \in DOMAIN Store : t \in Store[s]}}
    \cup {<<"job", w, 0>> : w \in {w \in Thread : job[w] = t}}
    \cup UNION {{<<"result", w, i>> : i \in {i \in 1 .. Len(results[w]) : results[w][i] = t}} :
                  w \in Thread}

\* Its work has not been run yet.
NotRunYet(t) ==
  \/ t \in fresh \cup requested \cup dropped \cup queue
  \/ \E w \in Thread : job[w] = t /\ pc[w] = "running"

\* Over the hand-offs between clients, queue, pool threads and data channels a
\* task is neither lost nor doubled, its work is run once and never again, and
\* its callback runs after its work (trySubmit, threadFunc, runTask, the drain).
TaskRunsOnce ==
  \A t \in Task :
    /\ \E place \in Whereabouts(t) : Whereabouts(t) = {place}
    /\ runs[t] = IF NotRunYet(t) THEN 0 ELSE 1

\* When stopJoin has returned no joined thread touches the queue, a task or the
\* event loop any more: KCLAsyncContext's destructor deletes them next.
JoinedThreadsGone ==
  loop = "looping" => \A w \in 1 .. joined : pc[w] = "exited"

\* A task that trySubmit accepted is run unless the pool is stopped or the
\* process dies: a thread that registers its channel gets its acknowledgement,
\* and no thread waits forever for another.
QueuedTaskRuns ==
  \A t \in Task : t \in queue ~> runs[t] > 0 \/ ~running \/ ~Looping

\* stopJoin comes to an end when no thread waits for the event loop's
\* acknowledgement, which it cannot get while the loop's thread joins it.
StopJoinEnds ==
  (loop = "joining" /\ \A w \in 1 .. workers : channel[w] = "acked") ~> loop # "joining"

\* The invariant that carries JoinedThreadsGone: a readable eventfd stands for a
\* result, a thread holds a task from the dequeue to the result, threads that
\* were not started do nothing, and joined ones are gone whatever the loop does.
SignalMeansResult == \A w \in Thread : signalled[w] => results[w] # <<>>

BusyHasJob ==
  \A w \in Thread :
    job[w] # NoTask <=> pc[w] \in {"running", "registering", "spinning", "sending"}

PoolInv ==
  /\ TypeOK
  /\ SignalMeansResult
  /\ BusyHasJob
  /\ \A w \in Thread : w > workers => pc[w] = "off"
  /\ \A w \in 1 .. joined : pc[w] = "exited"
==============================================================================
