-------------------------- MODULE ThreadPool_proofs --------------------------
(***************************************************************************)
(* Proofs about ThreadPool, for any number of tasks, threads and starts of  *)
(* the pool and queues of any capacity.                                     *)
(***************************************************************************)
EXTENDS ThreadPool, TLAPS

Unstarted == \A w \in Thread : w > workers => pc[w] = "off"
JoinedGone == \A w \in 1 .. joined : pc[w] = "exited"

\* The workers are indices of threads.
LEMMA WorkersAreThreads ==
  ASSUME TypeOK
  PROVE  workers \in Nat /\ joined \in Nat /\ 1 .. joined \subseteq Thread
BY PoolAssumption DEF TypeOK, Thread

\* A step that leaves the threads' places, tasks and results alone, and the
\* pool, keeps all but the types.
LEMMA QuietStep ==
  ASSUME PoolInv, TypeOK', UNCHANGED <<job, results, signalled, pc, workers, joined>>
  PROVE  PoolInv'
BY DEF PoolInv, SignalMeansResult, BusyHasJob

\* The initial states.
LEMMA InvInit == Init => PoolInv
<1> SUFFICES ASSUME Init PROVE PoolInv
  OBVIOUS
<1>1. TypeOK
  <2>1. results \in [Thread -> Seq(Task)]
    BY DEF Init
  <2>2. signalled \in [Thread -> BOOLEAN] /\ mayRun \in [Thread -> BOOLEAN]
    BY DEF Init
  <2>3. channel \in [Thread -> {"none", "sent", "acked"}] /\ pc \in [Thread -> Place]
    BY DEF Init, Place
  <2>4. job \in [Thread -> Task \cup {NoTask}] /\ runs \in [Task -> Nat]
    BY DEF Init
  <2>5. workers \in 0 .. MaxThreads /\ joined \in 0 .. workers
    BY PoolAssumption DEF Init
  <2> QED BY <2>1, <2>2, <2>3, <2>4, <2>5 DEF Init, TypeOK
<1>2. SignalMeansResult
  BY Zenon DEF Init, SignalMeansResult
<1>3. BusyHasJob
  BY DEF Init, BusyHasJob
<1>4. Unstarted /\ JoinedGone
  BY DEF Init, Unstarted, JoinedGone
<1> QED BY <1>1, <1>2, <1>3, <1>4 DEF PoolInv, Unstarted, JoinedGone

\* A client's call.
LEMMA RequestStep ==
  ASSUME PoolInv, NEW t \in Task, Request(t)
  PROVE  PoolInv'
<1>1. TypeOK'
  BY DEF PoolInv, TypeOK, Request, taskVars, threadVars, poolVars
<1>2. UNCHANGED <<job, results, signalled, pc, workers, joined>>
  BY DEF Request, taskVars, threadVars, poolVars
<1> QED BY <1>1, <1>2, QuietStep

\* The client's lambda.
LEMMA TrySubmitStep ==
  ASSUME PoolInv, NEW t \in Task, TrySubmit(t)
  PROVE  PoolInv'
<1>1. TypeOK'
  BY DEF PoolInv, TypeOK, TrySubmit, taskVars, threadVars, poolVars
<1>2. UNCHANGED <<job, results, signalled, pc, workers, joined>>
  BY DEF TrySubmit, taskVars, threadVars, poolVars
<1> QED BY <1>1, <1>2, QuietStep

\* A channel is bound.
LEMMA BindStep ==
  ASSUME PoolInv, NEW w \in Thread, Bind(w)
  PROVE  PoolInv'
<1>1. TypeOK'
  BY DEF PoolInv, TypeOK, Bind, taskVars, threadVars, poolVars
<1>2. UNCHANGED <<job, results, signalled, pc, workers, joined>>
  BY DEF Bind, taskVars, threadVars, poolVars
<1> QED BY <1>1, <1>2, QuietStep

\* The workers are stopped.
LEMMA StopJoinStep ==
  ASSUME PoolInv, StopJoin
  PROVE  PoolInv'
<1>1. TypeOK'
  BY DEF PoolInv, TypeOK, StopJoin, StopWorkers, taskVars, threadVars, poolVars
<1>2. UNCHANGED <<job, results, signalled, pc, workers, joined>>
  BY DEF StopJoin, StopWorkers, taskVars, threadVars, poolVars
<1> QED BY <1>1, <1>2, QuietStep

\* An assertion fails while the loop's thread joins.
LEMMA JoinAbortsStep ==
  ASSUME PoolInv, JoinAborts
  PROVE  PoolInv'
<1>1. TypeOK'
  BY DEF PoolInv, TypeOK, JoinAborts, Dies, taskVars, threadVars, poolVars
<1>2. UNCHANGED <<job, results, signalled, pc, workers, joined>>
  BY DEF JoinAborts, Dies, taskVars, threadVars, poolVars
<1> QED BY <1>1, <1>2, QuietStep

\* A full data channel.
LEMMA SendAbortsStep ==
  ASSUME PoolInv, NEW w \in Thread, SendAborts(w)
  PROVE  PoolInv'
<1>1. TypeOK'
  BY DEF PoolInv, TypeOK, SendAborts, Dies, taskVars, threadVars, poolVars
<1>2. UNCHANGED <<job, results, signalled, pc, workers, joined>>
  BY DEF SendAborts, Dies, taskVars, threadVars, poolVars
<1> QED BY <1>1, <1>2, QuietStep

\* The event loop runs a result.
LEMMA RunResultStep ==
  ASSUME PoolInv, NEW w \in Thread, RunResult(w)
  PROVE  PoolInv'
<1>1. results[w] \in Seq(Task) /\ results[w] # <<>>
  BY DEF PoolInv, TypeOK, SignalMeansResult, RunResult, CallsBack
<1>2. Tail(results[w]) \in Seq(Task) /\ Head(results[w]) \in Task
  BY <1>1
<1>3. TypeOK'
  <2>1. results' \in [Thread -> Seq(Task)] /\ done' \subseteq Task
    BY <1>2 DEF PoolInv, TypeOK, RunResult, CallsBack
  <2>2. signalled' \in [Thread -> BOOLEAN]
    BY DEF PoolInv, TypeOK, RunResult, CallsBack
  <2> QED BY <2>1, <2>2 DEF PoolInv, TypeOK, RunResult, CallsBack, poolVars
<1>4. SignalMeansResult'
  <2> SUFFICES ASSUME NEW v \in Thread, signalled'[v] PROVE results'[v] # <<>>
    BY DEF SignalMeansResult
  <2>1. v # w
    BY Zenon DEF PoolInv, TypeOK, RunResult, CallsBack
  <2>2. signalled[v] /\ results'[v] = results[v]
    BY <2>1 DEF PoolInv, TypeOK, RunResult, CallsBack
  <2> QED BY <2>2 DEF PoolInv, SignalMeansResult
<1>5. BusyHasJob' /\ Unstarted' /\ JoinedGone'
  BY DEF PoolInv, BusyHasJob, Unstarted, JoinedGone, RunResult, CallsBack, poolVars
<1> QED BY <1>3, <1>4, <1>5 DEF PoolInv, Unstarted, JoinedGone

\* New workers are started behind the old ones.
LEMMA StartStep ==
  ASSUME PoolInv, Start
  PROVE  PoolInv'
<1> DEFINE new == workers + 1 .. workers + NumThreads
<1>1. /\ pc' = [w \in Thread |-> IF w \in new THEN "checking" ELSE pc[w]]
      /\ workers' = workers + NumThreads
      /\ UNCHANGED <<job, results, signalled, joined>>
  BY DEF Start, StartWorkers, taskVars
<1>2. workers \in Nat /\ joined \in 0 .. workers /\ new \subseteq Thread
  BY PoolAssumption DEF PoolInv, TypeOK, Thread, Start, StartWorkers
<1>3. TypeOK'
  <2>1. workers' \in 0 .. MaxThreads /\ joined' \in 0 .. workers'
    BY <1>1, <1>2, PoolAssumption DEF Start, StartWorkers
  <2>2. pc' \in [Thread -> Place]
    BY <1>1 DEF PoolInv, TypeOK, Place
  <2>3. mayRun' \in [Thread -> BOOLEAN]
    BY DEF Start, StartWorkers
  <2> QED BY <2>1, <2>2, <2>3 DEF PoolInv, TypeOK, Start, StartWorkers, taskVars
<1>4. \A w \in new : w > workers
  BY <1>2, PoolAssumption
<1>5. \A w \in new : pc[w] = "off" /\ job[w] = NoTask
  BY <1>2, <1>4 DEF PoolInv, BusyHasJob
<1>6. BusyHasJob'
  BY <1>1, <1>5 DEF PoolInv, BusyHasJob
<1>7. Unstarted'
  <2> SUFFICES ASSUME NEW w \in Thread, w > workers' PROVE pc'[w] = "off"
    BY DEF Unstarted
  <2>1. w \notin new /\ w > workers
    BY <1>1, <1>2, PoolAssumption DEF Thread
  <2> QED BY <1>1, <2>1 DEF PoolInv
<1>8. JoinedGone'
  <2> SUFFICES ASSUME NEW w \in 1 .. joined PROVE pc'[w] = "exited"
    BY <1>1 DEF JoinedGone
  <2>1. w \in Thread /\ w \notin new
    BY <1>2, PoolAssumption DEF PoolInv, TypeOK, Thread
  <2> QED BY <1>1, <2>1 DEF PoolInv
<1>9. SignalMeansResult'
  BY <1>1, Zenon DEF PoolInv, SignalMeansResult
<1> QED BY <1>3, <1>6, <1>7, <1>8, <1>9 DEF PoolInv, Unstarted, JoinedGone

\* The join returns when the last thread has exited.
LEMMA JoinReturnsStep ==
  ASSUME PoolInv, JoinReturns
  PROVE  PoolInv'
<1>1. TypeOK'
  BY PoolAssumption DEF PoolInv, TypeOK, JoinReturns, taskVars, threadVars
<1>2. UNCHANGED <<job, results, signalled, pc, workers>>
  BY DEF JoinReturns, taskVars, threadVars
<1>3. SignalMeansResult' /\ BusyHasJob' /\ Unstarted'
  BY <1>2 DEF PoolInv, SignalMeansResult, BusyHasJob, Unstarted
<1>4. JoinedGone'
  BY <1>2 DEF JoinReturns, JoinedGone
<1> QED BY <1>1, <1>3, <1>4 DEF PoolInv, Unstarted, JoinedGone

\* A thread that goes from one place to another keeps the rest.
LEMMA ThreadMoves ==
  ASSUME PoolInv, NEW w \in Thread, NEW place \in Place, Goto(w, place),
         pc[w] \notin {"off", "exited"}, UNCHANGED <<workers, joined>>
  PROVE  /\ pc' \in [Thread -> Place]
         /\ pc'[w] = place
         /\ \A v \in Thread \ {w} : pc'[v] = pc[v]
         /\ Unstarted' /\ JoinedGone'
<1>1. pc' = [pc EXCEPT ![w] = place] /\ pc \in [Thread -> Place]
  BY DEF Goto, PoolInv, TypeOK
<1>2. /\ pc' \in [Thread -> Place] /\ pc'[w] = place
      /\ \A v \in Thread \ {w} : pc'[v] = pc[v]
  BY <1>1
<1>3. Unstarted'
  BY <1>2 DEF PoolInv, Unstarted
<1>4. JoinedGone'
  BY <1>2, WorkersAreThreads DEF PoolInv, JoinedGone
<1> QED BY <1>2, <1>3, <1>4

\* The steps of a thread that leave its task alone.
LEMMA ThreadMovesOn ==
  ASSUME PoolInv, NEW w \in Thread,
         \/ TimedOut(w) \/ RunTask(w) \/ Register(w) \/ SeesAck(w) \/ GoesOn(w) \/ Exits(w)
  PROVE  PoolInv'
<1> USE DEF TimedOut, RunTask, RunsWork, Register, SeesAck, GoesOn, Exits
<1>1. UNCHANGED <<workers, joined, job, results, signalled>>
  BY DEF taskVars, poolVars
<1>2. PICK place \in Place : Goto(w, place)
  BY DEF Place
<1>3. pc[w] \notin {"off", "exited"}
  OBVIOUS
<1>4. /\ pc' \in [Thread -> Place] /\ pc'[w] = place
      /\ \A v \in Thread \ {w} : pc'[v] = pc[v]
      /\ Unstarted' /\ JoinedGone'
  BY <1>1, <1>2, <1>3, ThreadMoves
<1>5. TypeOK'
  <2>1. runs' \in [Task -> Nat]
    BY DEF PoolInv, TypeOK, taskVars
  <2>2. channel' \in [Thread -> {"none", "sent", "acked"}]
    BY DEF PoolInv, TypeOK
  <2> QED BY <1>4, <2>1, <2>2 DEF PoolInv, TypeOK, taskVars, poolVars
<1>6. BusyHasJob'
  <2> DEFINE Busy == {"running", "registering", "spinning", "sending"}
  <2>1. pc[w] \in Busy <=> pc'[w] \in Busy
    BY DEF PoolInv, TypeOK, Goto
  <2> QED BY <1>1, <1>4, <2>1 DEF PoolInv, BusyHasJob
<1>7. SignalMeansResult'
  BY <1>1, Zenon DEF PoolInv, SignalMeansResult
<1> QED BY <1>4, <1>5, <1>6, <1>7 DEF PoolInv, Unstarted, JoinedGone

\* A thread takes a task.
LEMMA TakeTaskStep ==
  ASSUME PoolInv, NEW w \in Thread, NEW t \in Task, TakeTask(w, t)
  PROVE  PoolInv'
<1>1. UNCHANGED <<workers, joined, results, signalled>>
  BY DEF TakeTask, poolVars
<1>2. /\ pc' \in [Thread -> Place] /\ pc'[w] = "running"
      /\ \A v \in Thread \ {w} : pc'[v] = pc[v]
      /\ Unstarted' /\ JoinedGone'
  <2>1. pc[w] \notin {"off", "exited"} /\ Goto(w, "running") /\ "running" \in Place
    BY DEF TakeTask, Place
  <2> QED BY <1>1, <2>1, ThreadMoves
<1>3. job' = [job EXCEPT ![w] = t] /\ t # NoTask
  BY PoolAssumption DEF TakeTask
<1>4. TypeOK'
  <2>1. job' \in [Thread -> Task \cup {NoTask}]
    BY <1>3 DEF PoolInv, TypeOK
  <2>2. queue' \subseteq Task
    BY DEF PoolInv, TypeOK, TakeTask
  <2> QED BY <1>2, <2>1, <2>2 DEF PoolInv, TypeOK, TakeTask, poolVars
<1>5. BusyHasJob'
  BY <1>2, <1>3 DEF PoolInv, TypeOK, BusyHasJob
<1>6. SignalMeansResult'
  BY <1>1, Zenon DEF PoolInv, SignalMeansResult
<1> QED BY <1>2, <1>4, <1>5, <1>6 DEF PoolInv, Unstarted, JoinedGone

\* A thread sends the result of its task.
LEMMA SendResultStep ==
  ASSUME PoolInv, NEW w \in Thread, SendResult(w)
  PROVE  PoolInv'
<1>1. UNCHANGED <<workers, joined>>
  BY DEF SendResult, poolVars
<1>2. /\ pc' \in [Thread -> Place] /\ pc'[w] = "checking"
      /\ \A v \in Thread \ {w} : pc'[v] = pc[v]
      /\ Unstarted' /\ JoinedGone'
  <2>1. pc[w] \notin {"off", "exited"} /\ Goto(w, "checking") /\ "checking" \in Place
    BY DEF SendResult, Place
  <2> QED BY <1>1, <2>1, ThreadMoves
<1>3. job[w] \in Task /\ results[w] \in Seq(Task)
  BY DEF PoolInv, TypeOK, BusyHasJob, SendResult
<1>4. Append(results[w], job[w]) \in Seq(Task) /\ Append(results[w], job[w]) # <<>>
  BY <1>3
<1>5. /\ results' = [results EXCEPT ![w] = Append(results[w], job[w])]
      /\ job' = [job EXCEPT ![w] = NoTask]
      /\ signalled' = [signalled EXCEPT ![w] = TRUE]
  BY DEF SendResult
<1>6. TypeOK'
  <2>1. results' \in [Thread -> Seq(Task)]
    BY <1>4, <1>5 DEF PoolInv, TypeOK
  <2>2. job' \in [Thread -> Task \cup {NoTask}] /\ signalled' \in [Thread -> BOOLEAN]
    BY <1>5 DEF PoolInv, TypeOK
  <2> QED BY <1>2, <2>1, <2>2 DEF PoolInv, TypeOK, SendResult, poolVars
<1>7. BusyHasJob'
  BY <1>2, <1>5 DEF PoolInv, TypeOK, BusyHasJob
<1>8. SignalMeansResult'
  <2> SUFFICES ASSUME NEW v \in Thread, signalled'[v] PROVE results'[v] # <<>>
    BY DEF SignalMeansResult
  <2>1. CASE v = w
    BY <1>4, <1>5, <2>1 DEF PoolInv, TypeOK
  <2>2. CASE v # w
    <3>1. signalled[v] /\ results'[v] = results[v]
      BY <1>5, <2>2 DEF PoolInv, TypeOK
    <3> QED BY <3>1 DEF PoolInv, SignalMeansResult
  <2> QED BY <2>1, <2>2
<1> QED BY <1>2, <1>6, <1>7, <1>8 DEF PoolInv, Unstarted, JoinedGone

\* Every step keeps the invariant.
LEMMA InvStep == PoolInv /\ [Next]_vars => PoolInv'
<1> SUFFICES ASSUME PoolInv, [Next]_vars PROVE PoolInv'
  OBVIOUS
<1>1. ASSUME NEW t \in Task, Request(t) PROVE PoolInv'
  BY <1>1, RequestStep
<1>2. CASE Start
  BY <1>2, StartStep
<1>3. CASE StopJoin
  BY <1>3, StopJoinStep
<1>4. CASE JoinStep
  BY <1>4, JoinReturnsStep, JoinAbortsStep DEF JoinStep
<1>5. CASE EventStep
  BY <1>5, TrySubmitStep, BindStep, RunResultStep DEF EventStep
<1>6. ASSUME NEW w \in Thread, ThreadStep(w) PROVE PoolInv'
  <2>1. CASE \E t \in Task : TakeTask(w, t)
    BY <2>1, TakeTaskStep
  <2>2. CASE SendResult(w)
    BY <2>2, SendResultStep
  <2>3. CASE SendAborts(w)
    BY <2>3, SendAbortsStep
  <2>4. CASE \/ TimedOut(w) \/ RunTask(w) \/ Register(w)
             \/ SeesAck(w) \/ GoesOn(w) \/ Exits(w)
    BY <2>4, ThreadMovesOn
  <2> QED BY <1>6, <2>1, <2>2, <2>3, <2>4 DEF ThreadStep
<1>7. CASE UNCHANGED vars
  <2>1. TypeOK'
    BY <1>7 DEF PoolInv, TypeOK, vars, taskVars, threadVars, poolVars
  <2>2. UNCHANGED <<job, results, signalled, pc, workers, joined>>
    BY <1>7 DEF vars, taskVars, threadVars, poolVars
  <2> QED BY <2>1, <2>2, QuietStep
<1> QED BY <1>1, <1>2, <1>3, <1>4, <1>5, <1>6, <1>7 DEF Next

\* The inductive invariant of the pool holds in every reachable state.
THEOREM PoolInvariant == Spec => []PoolInv
<1> QED BY InvInit, InvStep, PTL DEF Spec

\* When stopJoin has returned, no thread that it joined does anything any more.
THEOREM JoinLeavesNothing == Spec => []JoinedThreadsGone
<1>1. PoolInv => JoinedThreadsGone
  BY DEF PoolInv, JoinedThreadsGone
<1> QED BY <1>1, PoolInvariant, PTL

------------------------------------------------------------------------------
(* Every task is in one place, and its work is run once.                   *)

\* The places of a task, spelt out.
At(t, p) ==
  \/ p = <<"fresh", 0, 0>> /\ t \in fresh
  \/ p = <<"requested", 0, 0>> /\ t \in requested
  \/ p = <<"dropped", 0, 0>> /\ t \in dropped
  \/ p = <<"queue", 0, 0>> /\ t \in queue
  \/ p = <<"done", 0, 0>> /\ t \in done
  \/ \E w \in Thread : p = <<"job", w, 0>> /\ job[w] = t
  \/ \E w \in Thread : \E i \in 1 .. Len(results[w]) :
       p = <<"result", w, i>> /\ results[w][i] = t

OnePlace(t) == \E p : At(t, p) /\ \A q : At(t, q) => q = p

RunsFit(t) == runs[t] = IF NotRunYet(t) THEN 0 ELSE 1

LEMMA WhereIs ==
  ASSUME NEW t, NEW p
  PROVE  p \in Whereabouts(t) <=> At(t, p)
<1>1. DOMAIN Store = {"fresh", "requested", "dropped", "queue", "done"}
  BY DEF Store
<1>2. p \in {<<s, 0, 0>> : s \in {s \in DOMAIN Store : t \in Store[s]}} <=>
        \/ p = <<"fresh", 0, 0>> /\ t \in fresh
        \/ p = <<"requested", 0, 0>> /\ t \in requested
        \/ p = <<"dropped", 0, 0>> /\ t \in dropped
        \/ p = <<"queue", 0, 0>> /\ t \in queue
        \/ p = <<"done", 0, 0>> /\ t \in done
  BY <1>1 DEF Store
<1>3. p \in {<<"job", w, 0>> : w \in {w \in Thread : job[w] = t}} <=>
        \E w \in Thread : p = <<"job", w, 0>> /\ job[w] = t
  OBVIOUS
<1>4. p \in UNION {{<<"result", w, i>> : i \in {i \in 1 .. Len(results[w]) : results[w][i] = t}} :
                     w \in Thread} <=>
        \E w \in Thread : \E i \in 1 .. Len(results[w]) :
          p = <<"result", w, i>> /\ results[w][i] = t
  OBVIOUS
<1> QED BY <1>2, <1>3, <1>4 DEF Whereabouts, At

LEMMA OnePlaceIs ==
  ASSUME NEW t
  PROVE  (\E place \in Whereabouts(t) : Whereabouts(t) = {place}) <=> OnePlace(t)
<1>1. ASSUME NEW place \in Whereabouts(t), Whereabouts(t) = {place}
      PROVE  OnePlace(t)
  <2>1. At(t, place) /\ \A q : At(t, q) => q = place
    BY <1>1, WhereIs
  <2> QED BY <2>1 DEF OnePlace
<1>2. ASSUME OnePlace(t)
      PROVE  \E place \in Whereabouts(t) : Whereabouts(t) = {place}
  <2>1. PICK p : At(t, p) /\ \A q : At(t, q) => q = p
    BY <1>2 DEF OnePlace
  <2>2. p \in Whereabouts(t) /\ \A q \in Whereabouts(t) : q = p
    BY <2>1, WhereIs
  <2> QED BY <2>2
<1> QED BY <1>1, <1>2

\* A task whose places do not change, and one that moves.
LEMMA PlaceKept ==
  ASSUME NEW t, OnePlace(t), \A p : At(t, p)' <=> At(t, p)
  PROVE  OnePlace(t)'
BY DEF OnePlace

LEMMA PlaceMoved ==
  ASSUME NEW t, OnePlace(t), NEW p0, At(t, p0),
         NEW p1, At(t, p1)', \A q : At(t, q)' => q = p1 \/ (At(t, q) /\ q # p0)
  PROVE  OnePlace(t)'
BY DEF OnePlace

\* A task that a thread holds is nowhere else.
LEMMA HeldOnce ==
  ASSUME NEW t, OnePlace(t), NEW w \in Thread, job[w] = t
  PROVE  /\ t \notin fresh \cup requested \cup dropped \cup queue \cup done
         /\ \A v \in Thread : job[v] = t => v = w
<1>1. At(t, <<"job", w, 0>>)
  BY DEF At
<1>2. \A q : At(t, q) => q = <<"job", w, 0>>
  BY <1>1 DEF OnePlace
<1>3. t \notin fresh \cup requested \cup dropped \cup queue \cup done
  <2>1. ~At(t, <<"fresh", 0, 0>>) /\ ~At(t, <<"requested", 0, 0>>)
        /\ ~At(t, <<"dropped", 0, 0>>) /\ ~At(t, <<"queue", 0, 0>>)
        /\ ~At(t, <<"done", 0, 0>>)
    BY <1>2
  <2> QED BY <2>1 DEF At
<1>4. ASSUME NEW v \in Thread, job[v] = t PROVE v = w
  <2>1. At(t, <<"job", v, 0>>)
    BY <1>4 DEF At
  <2> QED BY <1>2, <2>1
<1> QED BY <1>3, <1>4

\* Steps that move no task.
LEMMA NoTaskMoves ==
  ASSUME UNCHANGED <<fresh, requested, dropped, queue, done, job, results>>,
         NEW t, OnePlace(t)
  PROVE  OnePlace(t)'
<1>1. \A p : At(t, p)' <=> At(t, p)
  BY DEF At
<1> QED BY <1>1, PlaceKept

\* Steps that begin or end nobody's work.
LEMMA NoWorkRuns ==
  ASSUME UNCHANGED <<fresh, requested, dropped, queue, job, runs>>,
         \A w \in Thread : pc'[w] = "running" <=> pc[w] = "running",
         NEW t, RunsFit(t)
  PROVE  RunsFit(t)'
BY DEF RunsFit, NotRunYet

\* A client's call.
LEMMA RequestOnce ==
  ASSUME NEW u \in Task, Request(u), NEW t \in Task, OnePlace(t), RunsFit(t)
  PROVE  OnePlace(t)' /\ RunsFit(t)'
<1>1. /\ u \in fresh /\ fresh' = fresh \ {u} /\ requested' = requested \cup {u}
      /\ UNCHANGED <<dropped, queue, job, results, done, runs, pc>>
  BY DEF Request, threadVars
<1>2. OnePlace(t)'
  <2>1. CASE t = u
    <3>1. At(t, <<"fresh", 0, 0>>) /\ At(t, <<"requested", 0, 0>>)'
      BY <1>1, <2>1 DEF At
    <3>2. \A q : At(t, q)' => q = <<"requested", 0, 0>> \/ (At(t, q) /\ q # <<"fresh", 0, 0>>)
      BY <1>1, <2>1 DEF At
    <3> QED BY <3>1, <3>2, PlaceMoved
  <2>2. CASE t # u
    <3>1. \A p : At(t, p)' <=> At(t, p)
      BY <1>1, <2>2 DEF At
    <3> QED BY <3>1, PlaceKept
  <2> QED BY <2>1, <2>2
<1>3. RunsFit(t)'
  BY <1>1 DEF RunsFit, NotRunYet
<1> QED BY <1>2, <1>3

\* The client's lambda.
LEMMA TrySubmitOnce ==
  ASSUME NEW u \in Task, TrySubmit(u), NEW t \in Task, OnePlace(t), RunsFit(t)
  PROVE  OnePlace(t)' /\ RunsFit(t)'
<1>1. /\ u \in requested /\ requested' = requested \ {u}
      /\ \/ queue' = queue \cup {u} /\ dropped' = dropped
         \/ dropped' = dropped \cup {u} /\ queue' = queue
      /\ UNCHANGED <<fresh, job, results, done, runs, pc>>
  BY DEF TrySubmit, threadVars
<1>2. OnePlace(t)'
  <2>1. CASE t = u
    <3>1. At(t, <<"requested", 0, 0>>)
      BY <1>1, <2>1 DEF At
    <3>2. CASE queue' = queue \cup {u} /\ dropped' = dropped
      <4>1. At(t, <<"queue", 0, 0>>)'
        BY <2>1, <3>2 DEF At
      <4>2. \A q : At(t, q)' => q = <<"queue", 0, 0>> \/ (At(t, q) /\ q # <<"requested", 0, 0>>)
        BY <1>1, <2>1, <3>2 DEF At
      <4> QED BY <3>1, <4>1, <4>2, PlaceMoved
    <3>3. CASE dropped' = dropped \cup {u} /\ queue' = queue
      <4>1. At(t, <<"dropped", 0, 0>>)'
        BY <2>1, <3>3 DEF At
      <4>2. \A q : At(t, q)' => q = <<"dropped", 0, 0>> \/ (At(t, q) /\ q # <<"requested", 0, 0>>)
        BY <1>1, <2>1, <3>3 DEF At
      <4> QED BY <3>1, <4>1, <4>2, PlaceMoved
    <3> QED BY <1>1, <3>2, <3>3
  <2>2. CASE t # u
    <3>1. \A p : At(t, p)' <=> At(t, p)
      BY <1>1, <2>2 DEF At
    <3> QED BY <3>1, PlaceKept
  <2> QED BY <2>1, <2>2
<1>3. RunsFit(t)'
  BY <1>1 DEF RunsFit, NotRunYet
<1> QED BY <1>2, <1>3

\* A thread takes a task.
LEMMA TakeTaskOnce ==
  ASSUME PoolInv, NEW w \in Thread, NEW u \in Task, TakeTask(w, u),
         NEW t \in Task, OnePlace(t), RunsFit(t)
  PROVE  OnePlace(t)' /\ RunsFit(t)'
<1>1. /\ u \in queue /\ queue' = queue \ {u} /\ job' = [job EXCEPT ![w] = u]
      /\ pc' = [pc EXCEPT ![w] = "running"] /\ pc[w] = "waiting"
      /\ UNCHANGED <<fresh, requested, dropped, results, done, runs>>
  BY DEF TakeTask, Goto
<1>2. job[w] = NoTask
  BY <1>1 DEF PoolInv, BusyHasJob
<1>3. /\ job'[w] = u /\ pc'[w] = "running"
      /\ \A v \in Thread \ {w} : job'[v] = job[v] /\ pc'[v] = pc[v]
  BY <1>1 DEF PoolInv, TypeOK
<1>4. t # NoTask
  BY PoolAssumption
<1>5. OnePlace(t)'
  <2>1. CASE t = u
    <3>1. At(t, <<"queue", 0, 0>>) /\ At(t, <<"job", w, 0>>)'
      BY <1>1, <1>3, <2>1 DEF At
    <3>2. \A q : At(t, q)' => q = <<"job", w, 0>> \/ (At(t, q) /\ q # <<"queue", 0, 0>>)
      BY <1>1, <1>3, <2>1 DEF At
    <3> QED BY <3>1, <3>2, PlaceMoved
  <2>2. CASE t # u
    <3>1. \A p : At(t, p)' <=> At(t, p)
      BY <1>1, <1>2, <1>3, <1>4, <2>2 DEF At
    <3> QED BY <3>1, PlaceKept
  <2> QED BY <2>1, <2>2
<1>6. RunsFit(t)'
  <2>1. NotRunYet(t)' <=> NotRunYet(t)
    <3>1. CASE t = u
      BY <1>1, <1>3, <3>1 DEF NotRunYet
    <3>2. CASE t # u
      BY <1>1, <1>2, <1>3, <1>4, <3>2 DEF NotRunYet
    <3> QED BY <3>1, <3>2
  <2> QED BY <1>1, <2>1 DEF RunsFit
<1> QED BY <1>5, <1>6

\* A thread runs the task it has taken.
LEMMA RunTaskOnce ==
  ASSUME PoolInv, NEW w \in Thread, RunTask(w), NEW t \in Task, OnePlace(t), RunsFit(t)
  PROVE  OnePlace(t)' /\ RunsFit(t)'
<1>1. /\ pc[w] = "running" /\ pc' \in [Thread -> Place] /\ pc'[w] # "running"
      /\ \A v \in Thread \ {w} : pc'[v] = pc[v]
      /\ runs' = [runs EXCEPT ![job[w]] = @ + 1]
      /\ UNCHANGED <<fresh, requested, dropped, queue, job, results, done>>
  BY DEF PoolInv, TypeOK, RunTask, Goto, Place, RunsWork
<1>2. OnePlace(t)'
  BY <1>1, NoTaskMoves
<1>3. CASE t = job[w]
  <2>1. /\ t \notin fresh \cup requested \cup dropped \cup queue
        /\ \A v \in Thread : job[v] = t => v = w
    BY <1>3, HeldOnce
  <2>2. NotRunYet(t) /\ ~NotRunYet(t)'
    BY <1>1, <1>3, <2>1 DEF NotRunYet
  <2>3. runs[t] = 0
    BY <2>2 DEF RunsFit
  <2>4. runs'[t] = 1
    BY <1>1, <1>3, <2>3 DEF PoolInv, TypeOK
  <2> QED BY <1>2, <2>2, <2>4 DEF RunsFit
<1>4. CASE t # job[w]
  <2>1. NotRunYet(t)' <=> NotRunYet(t)
    BY <1>1, <1>4 DEF NotRunYet
  <2>2. runs'[t] = runs[t]
    BY <1>1, <1>4 DEF PoolInv, TypeOK
  <2> QED BY <1>2, <2>1, <2>2 DEF RunsFit
<1> QED BY <1>3, <1>4

\* A thread sends a result.
LEMMA SendResultOnce ==
  ASSUME PoolInv, NEW w \in Thread, SendResult(w), NEW t \in Task, OnePlace(t), RunsFit(t)
  PROVE  OnePlace(t)' /\ RunsFit(t)'
<1>0. PICK n \in Nat : n = Len(results[w])
  BY DEF PoolInv, TypeOK
<1>1. /\ pc[w] = "sending" /\ pc' = [pc EXCEPT ![w] = "checking"]
      /\ results' = [results EXCEPT ![w] = Append(results[w], job[w])]
      /\ job' = [job EXCEPT ![w] = NoTask]
      /\ UNCHANGED <<fresh, requested, dropped, queue, done, runs>>
  BY DEF SendResult, Goto
<1>2. /\ job'[w] = NoTask /\ pc'[w] = "checking"
      /\ \A v \in Thread \ {w} :
           job'[v] = job[v] /\ pc'[v] = pc[v] /\ results'[v] = results[v]
  BY <1>1 DEF PoolInv, TypeOK
<1>3. results[w] \in Seq(Task) /\ job[w] \in Task \cup {NoTask}
  BY DEF PoolInv, TypeOK
<1>4. /\ n \in Nat /\ Len(results'[w]) = n + 1 /\ results'[w][n + 1] = job[w]
      /\ \A i \in 1 .. n : results'[w][i] = results[w][i]
  <2>1. results'[w] = Append(results[w], job[w])
    BY <1>1 DEF PoolInv, TypeOK
  <2>2. results[w] \in Seq(Task \cup {NoTask})
    BY <1>3
  <2> QED BY <1>0, <1>3, <2>1, <2>2
<1>5. t # NoTask
  BY PoolAssumption
<1>6. OnePlace(t)'
  <2>1. CASE t = job[w]
    <3>1. At(t, <<"job", w, 0>>)
      BY <2>1 DEF At
    <3>2. At(t, <<"result", w, n + 1>>)'
      <4>1. n + 1 \in 1 .. Len(results'[w])
        BY <1>4
      <4> QED BY <1>4, <2>1, <4>1 DEF At
    <3>3. ASSUME NEW q, At(t, q)'
          PROVE  q = <<"result", w, n + 1>> \/ (At(t, q) /\ q # <<"job", w, 0>>)
      <4>1. CASE \E v \in Thread : \E i \in 1 .. Len(results'[v]) :
                   q = <<"result", v, i>> /\ results'[v][i] = t
        <5>0. PICK v \in Thread : \E i \in 1 .. Len(results'[v]) :
                q = <<"result", v, i>> /\ results'[v][i] = t
          BY <4>1
        <5>1. PICK i \in 1 .. Len(results'[v]) :
                q = <<"result", v, i>> /\ results'[v][i] = t
          BY <5>0
        <5>2. CASE v = w /\ i = n + 1
          BY <5>1, <5>2
        <5>3. CASE v = w /\ i # n + 1
          <6>1. i \in 1 .. n
            BY <1>4, <5>1, <5>3
          <6>2. results[w][i] = t
            BY <1>4, <5>1, <5>3, <6>1
          <6> QED BY <1>0, <5>1, <5>3, <6>1, <6>2 DEF At
        <5>4. CASE v # w
          BY <1>2, <5>1, <5>4 DEF At
        <5> QED BY <5>2, <5>3, <5>4
      <4>2. CASE ~(\E v \in Thread : \E i \in 1 .. Len(results'[v]) :
                   q = <<"result", v, i>> /\ results'[v][i] = t)
        BY <1>1, <1>2, <1>5, <3>3, <4>2 DEF At
      <4> QED BY <4>1, <4>2
    <3> QED BY <3>1, <3>2, <3>3, PlaceMoved
  <2>2. CASE t # job[w]
    <3>1. ASSUME NEW v \in Thread, NEW i
          PROVE  (i \in 1 .. Len(results'[v]) /\ results'[v][i] = t)
                   <=> (i \in 1 .. Len(results[v]) /\ results[v][i] = t)
      <4>1. CASE v # w
        BY <1>2, <4>1
      <4>2. CASE v = w
        <5>1. i \in 1 .. n + 1 <=> i \in 1 .. n \/ i = n + 1
          BY <1>4
        <5> QED BY <1>0, <1>4, <2>2, <4>2, <5>1
      <4> QED BY <4>1, <4>2
    <3>2. \A v \in Thread : job'[v] = t <=> job[v] = t
      BY <1>2, <1>5, <2>2
    <3>3. \A p : At(t, p)' <=> At(t, p)
      BY <1>1, <3>1, <3>2 DEF At
    <3> QED BY <3>3, PlaceKept
  <2> QED BY <2>1, <2>2
<1>7. RunsFit(t)'
  <2>1. NotRunYet(t)' <=> NotRunYet(t)
    <3>1. CASE t = job[w]
      <4>1. \A v \in Thread : job[v] = t => v = w
        BY <3>1, HeldOnce
      <4> QED BY <1>1, <1>2, <1>5, <4>1 DEF NotRunYet
    <3>2. CASE t # job[w]
      BY <1>1, <1>2, <1>5, <3>2 DEF NotRunYet
    <3> QED BY <3>1, <3>2
  <2> QED BY <1>1, <2>1 DEF RunsFit
<1> QED BY <1>6, <1>7

\* The event loop runs a result.
LEMMA RunResultOnce ==
  ASSUME PoolInv, NEW w \in Thread, RunResult(w), NEW t \in Task, OnePlace(t), RunsFit(t)
  PROVE  OnePlace(t)' /\ RunsFit(t)'
<1>1. /\ results' = [results EXCEPT ![w] = Tail(results[w])]
      /\ done' = done \cup {Head(results[w])}
      /\ results[w] \in Seq(Task) /\ results[w] # <<>>
      /\ UNCHANGED <<fresh, requested, dropped, queue, job, runs, pc>>
  BY DEF PoolInv, TypeOK, SignalMeansResult, RunResult, CallsBack
<1>2. PICK n \in Nat : Len(results[w]) = n + 1
  <2>1. Len(results[w]) \in Nat /\ Len(results[w]) # 0
    BY <1>1
  <2>2. Len(results[w]) - 1 \in Nat
    BY <2>1
  <2> QED BY <2>1, <2>2
<1>3. PICK u : u = Head(results[w])
  OBVIOUS
<1>4. /\ Len(results'[w]) = n /\ results[w][1] = u
      /\ \A i \in 1 .. n : results'[w][i] = results[w][i + 1]
  <2>1. results'[w] = Tail(results[w])
    BY <1>1 DEF PoolInv, TypeOK
  <2>2. PICK s \in Seq(Task) : s = results[w] /\ s # <<>> /\ Len(s) = n + 1
    BY <1>1, <1>2
  <2>3. Len(Tail(s)) = n
    BY <2>2
  <2>4. s[1] = Head(s)
    BY <2>2
  <2>5. \A i \in 1 .. n : Tail(s)[i] = s[i + 1]
    BY <2>2
  <2> QED BY <1>3, <2>1, <2>2, <2>3, <2>4, <2>5
<1>5. \A v \in Thread \ {w} : results'[v] = results[v]
  BY <1>1 DEF PoolInv, TypeOK
<1>6. RunsFit(t)'
  BY <1>1 DEF RunsFit, NotRunYet
<1>7. CASE \E j \in 1 .. n + 1 : results[w][j] = t
  <2>1. PICK j \in 1 .. n + 1 : results[w][j] = t
    BY <1>7
  <2>2. At(t, <<"result", w, j>>)
    BY <1>2, <2>1 DEF At
  <2>3. \A q : At(t, q) => q = <<"result", w, j>>
    BY <2>2 DEF OnePlace
  <2>4. \A i \in 1 .. n + 1 : results[w][i] = t => i = j
    <3> SUFFICES ASSUME NEW i \in 1 .. n + 1, results[w][i] = t
                 PROVE  i = j
      OBVIOUS
    <3>1. At(t, <<"result", w, i>>)
      BY <1>2 DEF At
    <3> QED BY <2>3, <3>1
  <2>5. /\ t \notin fresh \cup requested \cup dropped \cup queue \cup done
        /\ \A v \in Thread : job[v] # t
    <3>1. /\ ~At(t, <<"fresh", 0, 0>>) /\ ~At(t, <<"requested", 0, 0>>)
          /\ ~At(t, <<"dropped", 0, 0>>) /\ ~At(t, <<"queue", 0, 0>>)
          /\ ~At(t, <<"done", 0, 0>>) /\ \A v \in Thread : ~At(t, <<"job", v, 0>>)
      BY <2>3
    <3> QED BY <3>1 DEF At
  <2>6. \A v \in Thread : \A i \in 1 .. Len(results[v]) : results[v][i] = t => v = w
    <3> SUFFICES ASSUME NEW v \in Thread, NEW i \in 1 .. Len(results[v]), results[v][i] = t
                 PROVE  v = w
      OBVIOUS
    <3>1. At(t, <<"result", v, i>>)
      BY DEF At
    <3> QED BY <2>3, <3>1
  <2>7. ASSUME NEW q, At(t, q)'
        PROVE  \/ t = u /\ q = <<"done", 0, 0>>
               \/ \E i \in 1 .. n : i + 1 = j /\ q = <<"result", w, i>>
    <3>1. CASE \E v \in Thread : \E i \in 1 .. Len(results'[v]) :
                 q = <<"result", v, i>> /\ results'[v][i] = t
      <4>1. PICK v \in Thread : \E i \in 1 .. Len(results'[v]) :
              q = <<"result", v, i>> /\ results'[v][i] = t
        BY <3>1
      <4>2. v = w
        BY <1>5, <2>6, <4>1
      <4>3. PICK i \in 1 .. n : q = <<"result", w, i>> /\ results'[w][i] = t
        BY <1>4, <4>1, <4>2
      <4>4. results[w][i + 1] = t /\ i + 1 \in 1 .. n + 1
        BY <1>4, <4>3
      <4> QED BY <2>4, <4>3, <4>4
    <3>2. CASE ~(\E v \in Thread : \E i \in 1 .. Len(results'[v]) :
                 q = <<"result", v, i>> /\ results'[v][i] = t)
      BY <1>1, <1>3, <2>5, <2>7, <3>2 DEF At
    <3> QED BY <3>1, <3>2
  <2>8. CASE j = 1
    <3>1. t = u
      BY <1>4, <2>1, <2>8
    <3>2. At(t, <<"done", 0, 0>>)'
      BY <1>1, <1>3, <3>1 DEF At
    <3>3. \A q : At(t, q)' => q = <<"done", 0, 0>>
      BY <2>7, <2>8
    <3> QED BY <1>6, <3>2, <3>3 DEF OnePlace
  <2>9. CASE j # 1
    <3>1. PICK i \in 1 .. n : i + 1 = j
      <4>1. j - 1 \in 1 .. n /\ (j - 1) + 1 = j
        BY <2>1, <2>9
      <4> QED BY <4>1
    <3>2. t # u
      BY <1>4, <2>4, <2>9
    <3>3. At(t, <<"result", w, i>>)'
      BY <1>4, <2>1, <3>1 DEF At
    <3>4. \A q : At(t, q)' => q = <<"result", w, i>>
      BY <2>7, <3>1, <3>2
    <3> QED BY <1>6, <3>3, <3>4 DEF OnePlace
  <2> QED BY <2>8, <2>9
<1>8. CASE ~\E j \in 1 .. n + 1 : results[w][j] = t
  <2>1. t # u
    BY <1>4, <1>8
  <2>2. \A i \in 1 .. n : results'[w][i] # t
    BY <1>4, <1>8
  <2>3. ASSUME NEW v \in Thread, NEW i
        PROVE  (i \in 1 .. Len(results'[v]) /\ results'[v][i] = t)
                 <=> (i \in 1 .. Len(results[v]) /\ results[v][i] = t)
    <3>1. CASE v # w
      BY <1>5, <3>1
    <3>2. CASE v = w
      BY <1>2, <1>4, <1>8, <2>2, <3>2
    <3> QED BY <3>1, <3>2
  <2>4. \A p : At(t, p)' <=> At(t, p)
    BY <1>1, <1>3, <2>1, <2>3 DEF At
  <2> QED BY <1>6, <2>4, PlaceKept
<1> QED BY <1>7, <1>8

TasksFit == \A t \in Task : OnePlace(t) /\ RunsFit(t)

\* The steps that move no task and run none.
LEMMA OthersOnce ==
  ASSUME PoolInv,
         \/ Start \/ StopJoin \/ JoinStep \/ UNCHANGED vars
         \/ \E w \in Thread : \/ Bind(w) \/ TimedOut(w) \/ Register(w) \/ SeesAck(w)
                              \/ SendAborts(w) \/ GoesOn(w) \/ Exits(w)
  PROVE  /\ UNCHANGED <<fresh, requested, dropped, queue, done, job, results, runs>>
         /\ \A w \in Thread : pc'[w] = "running" <=> pc[w] = "running"
<1>1. CASE Start
  <2>1. /\ UNCHANGED <<fresh, requested, dropped, queue, done, job, results, runs>>
        /\ pc' = [w \in Thread |-> IF w \in workers + 1 .. workers + NumThreads
                                   THEN "checking" ELSE pc[w]]
    BY <1>1 DEF Start, StartWorkers, taskVars
  <2>2. \A w \in Thread : w \in workers + 1 .. workers + NumThreads => w > workers
    BY WorkersAreThreads, PoolAssumption DEF PoolInv
  <2>3. \A w \in Thread : w \in workers + 1 .. workers + NumThreads => pc[w] = "off"
    BY <2>2 DEF PoolInv
  <2> QED BY <2>1, <2>3
<1>2. CASE StopJoin \/ JoinStep \/ UNCHANGED vars
  BY <1>2 DEF StopJoin, StopWorkers, JoinStep, JoinReturns, JoinAborts, vars, taskVars,
       threadVars
<1>3. ASSUME NEW w \in Thread, Bind(w) \/ SendAborts(w)
      PROVE  UNCHANGED <<fresh, requested, dropped, queue, done, job, results, runs, pc>>
  BY <1>3 DEF Bind, SendAborts, taskVars, threadVars
<1>4. ASSUME NEW w \in Thread,
             TimedOut(w) \/ Register(w) \/ SeesAck(w) \/ GoesOn(w) \/ Exits(w)
      PROVE  /\ UNCHANGED <<fresh, requested, dropped, queue, done, job, results, runs>>
             /\ pc[w] # "running"
             /\ \E place \in Place \ {"running"} : pc' = [pc EXCEPT ![w] = place]
  BY <1>4 DEF TimedOut, Register, SeesAck, GoesOn, Exits, Goto, Place, taskVars
<1>5. ASSUME NEW w \in Thread,
             TimedOut(w) \/ Register(w) \/ SeesAck(w) \/ GoesOn(w) \/ Exits(w)
      PROVE  \A v \in Thread : pc'[v] = "running" <=> pc[v] = "running"
  BY <1>4, <1>5 DEF PoolInv, TypeOK
<1> QED BY <1>1, <1>2, <1>3, <1>4, <1>5

LEMMA OnceStep == PoolInv /\ TasksFit /\ [Next]_vars => TasksFit'
<1> SUFFICES ASSUME PoolInv, TasksFit, [Next]_vars, NEW t \in Task
             PROVE  OnePlace(t)' /\ RunsFit(t)'
  BY DEF TasksFit
<1>0. OnePlace(t) /\ RunsFit(t)
  BY DEF TasksFit
<1>1. CASE \E u \in Task : Request(u)
  BY <1>0, <1>1, RequestOnce
<1>2. CASE \E u \in Task : TrySubmit(u)
  BY <1>0, <1>2, TrySubmitOnce
<1>3. CASE \E w \in Thread : RunResult(w)
  BY <1>0, <1>3, RunResultOnce
<1>4. CASE \E w \in Thread, u \in Task : TakeTask(w, u)
  BY <1>0, <1>4, TakeTaskOnce
<1>5. CASE \E w \in Thread : RunTask(w)
  BY <1>0, <1>5, RunTaskOnce
<1>6. CASE \E w \in Thread : SendResult(w)
  BY <1>0, <1>6, SendResultOnce
<1>7. CASE \/ Start \/ StopJoin \/ JoinStep \/ UNCHANGED vars
           \/ \E w \in Thread : \/ Bind(w) \/ TimedOut(w) \/ Register(w) \/ SeesAck(w)
                                \/ SendAborts(w) \/ GoesOn(w) \/ Exits(w)
  <2>1. /\ UNCHANGED <<fresh, requested, dropped, queue, done, job, results, runs>>
        /\ \A w \in Thread : pc'[w] = "running" <=> pc[w] = "running"
    BY <1>7, OthersOnce
  <2> QED BY <1>0, <2>1, NoTaskMoves, NoWorkRuns
<1> QED BY <1>1, <1>2, <1>3, <1>4, <1>5, <1>6, <1>7 DEF Next, EventStep, ThreadStep

LEMMA OnceInit == Init => TasksFit
<1> SUFFICES ASSUME Init, NEW t \in Task
             PROVE  OnePlace(t) /\ RunsFit(t)
  BY DEF TasksFit
<1>1. t # NoTask
  BY PoolAssumption
<1>2. \A w \in Thread : job[w] # t /\ Len(results[w]) = 0
  BY <1>1 DEF Init
<1>3. At(t, <<"fresh", 0, 0>>)
  BY DEF Init, At
<1>4. \A q : At(t, q) => q = <<"fresh", 0, 0>>
  BY <1>2 DEF Init, At
<1>5. NotRunYet(t) /\ runs[t] = 0
  BY DEF Init, NotRunYet
<1> QED BY <1>3, <1>4, <1>5 DEF OnePlace, RunsFit

\* No task is lost or doubled between the clients, the queue, the pool threads
\* and the data channels; its work is run once, its callback after it (trySubmit,
\* threadFunc, runTask and the drain of a data channel).
THEOREM TasksRunOnce == Spec => []TaskRunsOnce
<1>1. TasksFit => TaskRunsOnce
  BY OnePlaceIs DEF TasksFit, RunsFit, TaskRunsOnce
<1> QED BY <1>1, OnceInit, OnceStep, PoolInvariant, PTL DEF Spec
==============================================================================
