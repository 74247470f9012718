------------------------------- MODULE Worker -------------------------------
(***************************************************************************)
(* Worker: run() and shutdown(), called from any threads, on the lease      *)
(* coordinator's start() and stop(), whose work is done by the event loop.  *)
(* run() ends in processUntilStopped(), which does not give the event loop  *)
(* back before some thread asks for the shutdown.                           *)
(*                                                                         *)
(* The control channel is a queue here (ControlChannel has its steps); of   *)
(* initialize() there is left that it answers once (LeaseCoordinator has    *)
(* its steps), and of the timers that each firing queues the renewer's      *)
(* lambda.  A failed CHECK or DCHECK ends the process.                       *)
(***************************************************************************)
EXTENDS Naturals, Sequences, FiniteSets

CONSTANTS
  Runner,      \* the threads that call run(), once each
  Stopper,     \* the threads that call shutdown(), once each
  Renewal,     \* in the queue: the lambda of renewLeases
  Nobody,      \* the event loop is in no run()
  StackLimit   \* calls of processUntilStopped the stack has room for

ASSUME WorkerAssumption ==
  /\ Runner \cap Stopper = {}
  /\ Renewal \notin Runner \cup Stopper
  /\ Nobody \notin Runner
  /\ StackLimit \in Nat \ {0}

VARIABLES
  shutdown,   \* shutdown_
  complete,   \* shutdownComplete_
  running,    \* the coordinator's running
  timers,     \* its two timers
  queue,      \* the control channel: each lambda, named by who sent it
  listing,    \* the runners whose initialize() awaits its answer
  loop,       \* what the event loop is doing
  inside,     \* the runner in whose processUntilStopped it is
  depth,      \* how deep
  pc,         \* where each thread is in its call
  fate,       \* of the process
  early       \* history: a shutdown began before there were timers

loopVars == <<queue, listing, loop, inside, depth>>
flagVars == <<shutdown, complete, running, timers>>
vars == <<flagVars, loopVars, pc, fate, early>>

Thread == Runner \cup Stopper

RunnerPlace == {"outside", "refused", "checked", "starting", "initializing", "failed", "ended"}
StopperPlace == {"outside", "loading", "swapping", "told", "marked", "stopping", "waiting", "stopped"}

TypeOK ==
  /\ shutdown \in BOOLEAN
  /\ complete \in BOOLEAN
  /\ running \in BOOLEAN
  /\ timers \in {"none", "armed", "deleted"}
  /\ queue \in Seq(Thread \cup {Renewal})
  /\ listing \in SUBSET Runner
  /\ loop \in {"waiting", "draining", "processing"}
  /\ inside \in Runner \cup {Nobody}
  /\ depth \in 0 .. StackLimit
  /\ pc \in [Thread -> RunnerPlace \cup StopperPlace]
  /\ \A r \in Runner : pc[r] \in RunnerPlace
  /\ \A s \in Stopper : pc[s] \in StopperPlace
  /\ fate \in {"alive", "aborted", "overflowed"}
  /\ early \in BOOLEAN

Init ==
  /\ shutdown = FALSE
  /\ complete = FALSE
  /\ running = FALSE
  /\ timers = "none"
  /\ queue = <<>>
  /\ listing = {}
  /\ loop = "waiting"
  /\ inside = Nobody
  /\ depth = 0
  /\ pc = [t \in Thread |-> "outside"]
  /\ fate = "alive"
  /\ early = FALSE

Goto(t, place) == pc' = [pc EXCEPT ![t] = place]

Queued(sender, q) == \E i \in 1 .. Len(q) : q[i] = sender

RunInEventThread(sender) == queue' = Append(queue, sender)

Aborts ==
  /\ fate' = "aborted"
  /\ UNCHANGED <<flagVars, loopVars, pc, early>>

------------------------------------------------------------------------------
(* run() up to the event loop.                                             *)

Run(r) ==
  /\ pc[r] = "outside"
  /\ Goto(r, IF shutdown THEN "refused" ELSE "checked")
  /\ UNCHANGED <<flagVars, loopVars, fate, early>>

\* CHECK(state_->setRunning(true)).
Start(r) ==
  /\ pc[r] = "checked"
  /\ IF running
     THEN Aborts
     ELSE /\ running' = TRUE
          /\ Goto(r, "starting")
          /\ UNCHANGED <<shutdown, complete, timers, loopVars, fate, early>>

QueueInitialize(r) ==
  /\ pc[r] = "starting"
  /\ RunInEventThread(r)
  /\ Goto(r, "initializing")
  /\ UNCHANGED <<flagVars, listing, loop, inside, depth, fate, early>>

------------------------------------------------------------------------------
(* shutdown() up to the event loop.                                        *)

Shutdown(s) ==
  /\ pc[s] = "outside"
  /\ Goto(s, "loading")
  /\ UNCHANGED <<flagVars, loopVars, fate, early>>

\* setShutdown: the load at the head of the loop ...
LoadShutdown(s) ==
  /\ pc[s] = "loading"
  /\ Goto(s, IF shutdown THEN "told" ELSE "swapping")
  /\ UNCHANGED <<flagVars, loopVars, fate, early>>

\* Mutant: a plain store.
StoreShutdown(s) ==
  /\ pc[s] = "swapping"
  /\ shutdown' = TRUE
  /\ early' = (early \/ timers = "none")
  /\ Goto(s, "marked")
  /\ UNCHANGED <<complete, running, timers, loopVars, fate>>

\* ... and its compare-and-swap; a failure goes round the loop.
SwapShutdown(s) ==
  /\ pc[s] = "swapping"
  /\ shutdown' = TRUE
  /\ early' = (early \/ (~shutdown /\ timers = "none"))
  /\ Goto(s, IF shutdown THEN "loading" ELSE "marked")
  /\ UNCHANGED <<complete, running, timers, loopVars, fate>>

\* CHECK(state_->setRunning(false)).
Stop(s) ==
  /\ pc[s] = "marked"
  /\ IF running
     THEN /\ running' = FALSE
          /\ Goto(s, "stopping")
          /\ UNCHANGED <<shutdown, complete, timers, loopVars, fate, early>>
     ELSE Aborts

\* Mutant: the lambda is not sent.
QueueNothing(s) ==
  /\ pc[s] = "stopping"
  /\ Goto(s, "waiting")
  /\ UNCHANGED <<flagVars, loopVars, fate, early>>

QueueStop(s) ==
  /\ pc[s] = "stopping"
  /\ RunInEventThread(s)
  /\ Goto(s, "waiting")
  /\ UNCHANGED <<flagVars, listing, loop, inside, depth, fate, early>>

------------------------------------------------------------------------------
(* The event loop.                                                         *)

\* The persistent renewer timer (bound: one of its lambdas at a time).
TimerFires ==
  /\ loop = "waiting"
  /\ timers = "armed"
  /\ ~Queued(Renewal, queue)
  /\ RunInEventThread(Renewal)
  /\ UNCHANGED <<flagVars, listing, loop, inside, depth, pc, fate, early>>

DrainStarts ==
  /\ loop = "waiting"
  /\ queue # <<>>
  /\ loop' = "draining"
  /\ UNCHANGED <<flagVars, queue, listing, inside, depth, pc, fate, early>>

DrainEnds ==
  /\ loop = "draining"
  /\ queue = <<>>
  /\ loop' = "waiting"
  /\ UNCHANGED <<flagVars, queue, listing, inside, depth, pc, fate, early>>

Runs(sender) ==
  /\ loop = "draining"
  /\ queue # <<>>
  /\ Head(queue) = sender

\* initialize's lambda lists the leases.
RunInitialize(r) ==
  /\ Runs(r)
  /\ queue' = Tail(queue)
  /\ listing' = listing \cup {r}
  /\ UNCHANGED <<flagVars, loop, inside, depth, pc, fate, early>>

\* stop's lambda: there are timers; delete them and call back.
StopTimers(s) ==
  /\ Runs(s)
  /\ IF timers = "none"
     THEN Aborts
     ELSE /\ queue' = Tail(queue)
          /\ timers' = "deleted"
          /\ Goto(s, "stopped")
          /\ UNCHANGED <<shutdown, complete, running, listing, loop, inside, depth, fate, early>>

RunRenewLeases ==
  /\ Runs(Renewal)
  /\ queue' = Tail(queue)
  /\ UNCHANGED <<flagVars, listing, loop, inside, depth, pc, fate, early>>

\* Mutant: the callback is forgotten when the leases cannot be listed.
InitializeForgotten(r) ==
  /\ loop = "waiting"
  /\ r \in listing
  /\ listing' = listing \ {r}
  /\ UNCHANGED <<flagVars, queue, loop, inside, depth, pc, fate, early>>

InitializeFails(r) ==
  /\ loop = "waiting"
  /\ r \in listing
  /\ listing' = listing \ {r}
  /\ Goto(r, "failed")
  /\ UNCHANGED <<flagVars, queue, loop, inside, depth, fate, early>>

\* start's callback arms the timers and calls back, which enters the loop of
\* processUntilStopped.
InitializeSucceeds(r) ==
  /\ loop = "waiting"
  /\ r \in listing
  /\ listing' = listing \ {r}
  /\ timers' = "armed"
  /\ loop' = "processing"
  /\ inside' = r
  /\ depth' = 1
  /\ UNCHANGED <<shutdown, complete, running, queue, pc, fate, early>>

\* The process loop has run (it does nothing yet) and no shutdown was asked
\* for: processUntilStopped calls itself.
ProcessAgain ==
  /\ loop = "processing"
  /\ ~shutdown
  /\ IF depth < StackLimit
     THEN depth' = depth + 1 /\ UNCHANGED fate
     ELSE fate' = "overflowed" /\ UNCHANGED depth
  /\ UNCHANGED <<flagVars, queue, listing, loop, inside, pc, early>>

\* Mutant: the shutdown is not marked complete.
FinalShutdownUnmarked ==
  /\ loop = "processing"
  /\ shutdown
  /\ Goto(inside, "ended")
  /\ loop' = "waiting"
  /\ inside' = Nobody
  /\ depth' = 0
  /\ UNCHANGED <<flagVars, queue, listing, fate, early>>

\* DCHECK(setShutdownComplete()), then run's callback, then all calls return.
FinalShutdown ==
  /\ loop = "processing"
  /\ shutdown
  /\ IF complete
     THEN Aborts
     ELSE /\ complete' = TRUE
          /\ Goto(inside, "ended")
          /\ loop' = "waiting"
          /\ inside' = Nobody
          /\ depth' = 0
          /\ UNCHANGED <<shutdown, running, timers, queue, listing, fate, early>>

------------------------------------------------------------------------------

RunnerStep(r) == Start(r) \/ QueueInitialize(r)

StopperStep(s) == LoadShutdown(s) \/ SwapShutdown(s) \/ Stop(s) \/ QueueStop(s)

LambdaRuns ==
  \/ \E r \in Runner : RunInitialize(r)
  \/ \E s \in Stopper : StopTimers(s)
  \/ RunRenewLeases

Process == ProcessAgain \/ FinalShutdown

Answer(r) == InitializeFails(r) \/ InitializeSucceeds(r)

Next ==
  /\ fate = "alive"
  /\ \/ \E r \in Runner : Run(r) \/ RunnerStep(r) \/ Answer(r)
     \/ \E s \in Stopper : Shutdown(s) \/ StopperStep(s)
     \/ TimerFires
     \/ DrainStarts
     \/ LambdaRuns
     \/ DrainEnds
     \/ Process

Spec == Init /\ [][Next]_vars

\* A call that has begun goes on, initialize() is answered, and the event
\* loop goes on with what it does and returns to its channel between timers.
Fairness ==
  /\ \A r \in Runner : WF_vars(fate = "alive" /\ RunnerStep(r))
  /\ \A r \in Runner : SF_vars(fate = "alive" /\ Answer(r))
  /\ \A s \in Stopper : WF_vars(fate = "alive" /\ StopperStep(s))
  /\ WF_vars(fate = "alive" /\ (DrainEnds \/ LambdaRuns))
  /\ WF_vars(fate = "alive" /\ DrainStarts)
  /\ WF_vars(fate = "alive" /\ Process)

FairSpec == Spec /\ Fairness

------------------------------------------------------------------------------
(* Properties.                                                             *)

\* Of all the calls of shutdown() one starts it; the others are told that it
\* was started already.
Starters == {s \in Stopper : pc[s] \in {"marked", "stopping", "waiting", "stopped"}}

StartedOnce == \A s, t \in Starters : s = t

\* A worker that is run once and whose first shutdown() comes after run() has
\* armed the timers never fails an assertion, however many threads call
\* shutdown() and whatever they race with.  (Both conditions are needed.)
OneRun ==
  \A q, r \in Runner :
    pc[q] \notin {"outside", "refused"} /\ pc[r] \notin {"outside", "refused"} => q = r

CleanUseSurvives == OneRun /\ ~early => fate # "aborted"

\* Once shutdown() has called back no timer fires, not even if a run() that
\* had found no shutdown yet starts the coordinator anew.  (A renewal that
\* was queued before is still run.)
QuietAfterShutdown ==
  [][(\E s \in Stopper : pc[s] = "stopped") /\ Queued(Renewal, queue') =>
       Queued(Renewal, queue)]_vars

\* Every shutdown() calls back, unless the process ends.
ShutdownEnds ==
  \A s \in Stopper :
    pc[s] = "loading" ~> pc[s] \in {"told", "stopped"} \/ fate # "alive"

\* Every run() calls back, unless the process ends: what it waits for is a
\* shutdown, and without one the stack is used up.
RunEnds ==
  \A r \in Runner :
    pc[r] = "checked" ~> pc[r] \in {"failed", "ended"} \/ fate # "alive"

------------------------------------------------------------------------------
(* The inductive invariant behind them.                                    *)

\* The lambdas wait in the queue once each, and everybody whose call the event
\* loop has in hand is where that call is: in the queue, in a listing or in
\* processUntilStopped.
HandsInv ==
  /\ \A i, j \in 1 .. Len(queue) : queue[i] = queue[j] => i = j
  /\ \A s \in Stopper : Queued(s, queue) => pc[s] = "waiting"
  /\ \A r \in Runner : Queued(r, queue) =>
       pc[r] = "initializing" /\ r \notin listing /\ r # inside
  /\ \A r \in listing : pc[r] = "initializing" /\ r # inside
  /\ loop = "processing" <=> inside # Nobody
  /\ inside # Nobody => pc[inside] = "initializing"

Started == {r \in Runner : pc[r] \in {"starting", "initializing", "failed", "ended"}}

Stopped == {s \in Stopper : pc[s] \in {"stopping", "waiting", "stopped"}}

\* The flags tell what the threads have done.
FlagsInv ==
  /\ StartedOnce
  /\ shutdown <=> Starters # {}
  /\ running => Started # {}
  /\ Started # {} /\ Stopped = {} => running
  /\ timers # "none" => Started # {}
  /\ shutdown /\ ~early => timers # "none"
  /\ complete => \E r \in Runner : pc[r] = "ended"

\* Once there are timers the event loop leaves processUntilStopped only by
\* completing the shutdown, which it does once.
CompleteInv ==
  /\ loop = "processing" => timers = "armed"
  /\ timers # "none" /\ loop # "processing" => complete
  /\ \A s \in Stopper : pc[s] = "stopped" =>
       timers = "deleted" \/ (loop = "processing" /\ complete)

WorkerInv ==
  /\ TypeOK
  /\ HandsInv
  /\ FlagsInv
  /\ CompleteInv
  /\ CleanUseSurvives
==============================================================================
